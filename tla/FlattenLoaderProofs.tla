-------------------------- MODULE FlattenLoaderProofs --------------------------
(***************************************************************************)
(* Proofs about FlattenLoader, for every import graph on any finite set of  *)
(* files: where every file has one spelling and can be read, the flattener  *)
(* keeps the promise of LoadOrder.  It has no depth limit, so that here a   *)
(* program is refused with E28 for a cycle only.                            *)
(***************************************************************************)
EXTENDS FlattenLoader, SequenceTheorems, TLAPS

\* The conditions under which a path tells files apart as well as the file
\* system does, and an open file is never empty for want of permission.
OneSpelling == \A p, q \in Path : FileOf[p] = FileOf[q] /\ FileOf[p] # NoFile => p = q
Readable == \A f \in File : kind[f] # "unreadable"

Frame == [path : Path, next : Nat \ {0}]
At(f) == FileOf[f.path]
Paths(s) == {s[n].path : n \in DOMAIN s}
Apart(s) == \A m, n \in DOMAIN s : s[m].path = s[n].path => m = n
ButLast(s) == SubSeq(s, 1, Len(s) - 1)

-----------------------------------------------------------------------------
(* Sequences of frames, and of files                                        *)

\* Advancing the top frame changes no path and no other frame.
LEMMA AdvanceFrames ==
  ASSUME NEW s \in Seq(Frame)
  PROVE  /\ Advance(s) \in Seq(Frame)
         /\ Len(Advance(s)) = Len(s)
         /\ \A n \in 1..Len(s) :
              /\ Advance(s)[n].path = s[n].path
              /\ n # Len(s) => Advance(s)[n] = s[n]
              /\ n = Len(s) => Advance(s)[n].next = s[n].next + 1
<1>1. CASE s = <<>>
  BY <1>1 DEF Advance
<1>2. CASE s # <<>>
  <2>1. Len(s) \in 1..Len(s) /\ s[Len(s)] \in Frame
    BY <1>2
  <2>2. Advance(s) = [s EXCEPT ![Len(s)] = [s[Len(s)] EXCEPT !.next = @ + 1]]
    BY <1>2, <2>1 DEF Advance
  <2>3. [s[Len(s)] EXCEPT !.next = @ + 1] \in Frame
    BY <2>1 DEF Frame
  <2>4. Advance(s) \in Seq(Frame) /\ Len(Advance(s)) = Len(s)
    BY <2>1, <2>2, <2>3
  <2>5. ASSUME NEW n \in 1..Len(s)
        PROVE  /\ Advance(s)[n].path = s[n].path
               /\ n # Len(s) => Advance(s)[n] = s[n]
               /\ n = Len(s) => Advance(s)[n].next = s[n].next + 1
    BY <2>1, <2>2, <2>3 DEF Frame
  <2> QED
    BY <2>4, <2>5
<1> QED
  BY <1>1, <1>2

LEMMA AdvancePaths ==
  ASSUME NEW s \in Seq(Frame)
  PROVE  /\ Paths(Advance(s)) = Paths(s)
         /\ Apart(s) => Apart(Advance(s))
<1>1. DOMAIN Advance(s) = DOMAIN s
  BY AdvanceFrames
<1>2. \A n \in DOMAIN s : Advance(s)[n].path = s[n].path
  BY AdvanceFrames
<1> QED
  BY <1>1, <1>2 DEF Paths, Apart

\* Popping takes exactly the top frame's path away.
LEMMA PopFrames ==
  ASSUME NEW s \in Seq(Frame), s # <<>>
  PROVE  /\ ButLast(s) \in Seq(Frame)
         /\ Len(ButLast(s)) = Len(s) - 1
         /\ \A n \in 1..(Len(s) - 1) : ButLast(s)[n] = s[n]
         /\ s[Len(s)] \in Frame
         /\ Len(s) \in Nat \ {0}
<1>1. Len(s) \in Nat \ {0} /\ s[Len(s)] \in Frame
  OBVIOUS
<1> DEFINE k == Len(s) - 1
<1>a. k \in Nat /\ \A i \in 1..k : s[i] \in Frame
  BY <1>1
<1> HIDE DEF k
<1>b. /\ SubSeq(s, 1, k) \in Seq(Frame)
      /\ Len(SubSeq(s, 1, k)) = k
  BY <1>a, SubSeqProperties, Z3
<1>2. /\ ButLast(s) \in Seq(Frame)
      /\ Len(ButLast(s)) = Len(s) - 1
  BY <1>b DEF ButLast, k
<1>3. \A n \in 1..(Len(s) - 1) : ButLast(s)[n] = s[n]
  BY <1>1 DEF ButLast
<1> QED
  BY <1>1, <1>2, <1>3

LEMMA PopPaths ==
  ASSUME NEW s \in Seq(Frame), s # <<>>, Apart(s)
  PROVE  /\ Paths(ButLast(s)) = Paths(s) \ {s[Len(s)].path}
         /\ s[Len(s)].path \in Paths(s)
         /\ Apart(ButLast(s))
<1> DEFINE p == ButLast(s)
<1>1. /\ DOMAIN p = 1..(Len(s) - 1) /\ DOMAIN s = 1..Len(s)
      /\ Len(s) \in Nat \ {0}
  BY PopFrames
<1>2. \A n \in DOMAIN p : p[n] = s[n]
  BY <1>1, PopFrames
<1>3. \A n \in DOMAIN s : n # Len(s) => n \in DOMAIN p
  BY <1>1
<1>4. \A n \in DOMAIN p : n \in DOMAIN s /\ n # Len(s)
  BY <1>1
<1>5. Len(s) \in DOMAIN s
  BY <1>1
<1> HIDE DEF p
<1>6. Paths(p) = Paths(s) \ {s[Len(s)].path}
  BY <1>2, <1>3, <1>4, <1>5 DEF Paths, Apart
<1>7. Apart(p)
  BY <1>2, <1>4 DEF Apart
<1> QED
  BY <1>5, <1>6, <1>7 DEF p, Paths

LEMMA PushPaths ==
  ASSUME NEW s \in Seq(Frame), NEW f \in Frame
  PROVE  /\ Append(s, f) \in Seq(Frame)
         /\ Paths(Append(s, f)) = Paths(s) \cup {f.path}
         /\ Apart(s) /\ f.path \notin Paths(s) => Apart(Append(s, f))
<1> DEFINE p == Append(s, f)
<1>1. /\ DOMAIN p = DOMAIN s \cup {Len(s) + 1}
      /\ Len(s) + 1 \notin DOMAIN s
      /\ p[Len(s) + 1] = f
      /\ p \in Seq(Frame)
  OBVIOUS
<1>2. \A n \in DOMAIN s : p[n] = s[n]
  OBVIOUS
<1> HIDE DEF p
<1> QED
  BY <1>1, <1>2 DEF p, Paths, Apart

LEMMA MembersAppend ==
  ASSUME NEW s \in Seq(File), NEW e \in File
  PROVE  /\ Append(s, e) \in Seq(File)
         /\ Members(Append(s, e)) = Members(s) \cup {e}
<1> DEFINE p == Append(s, e)
<1>1. /\ DOMAIN p = DOMAIN s \cup {Len(s) + 1}
      /\ Len(s) + 1 \notin DOMAIN s
      /\ p[Len(s) + 1] = e
      /\ p \in Seq(File)
  OBVIOUS
<1>2. \A n \in DOMAIN s : p[n] = s[n]
  OBVIOUS
<1> HIDE DEF p
<1> QED
  BY <1>1, <1>2 DEF p, Members

-----------------------------------------------------------------------------
(* Types                                                                    *)

\* A path on the stack denotes a file.
Resolved == \A n \in DOMAIN stack : At(stack[n]) \in File
Types == TypeOK /\ Resolved

LEMMA TopType ==
  ASSUME Types, stack # <<>>
  PROVE  /\ Top = stack[Len(stack)] /\ Top \in Frame
         /\ Len(stack) \in DOMAIN stack /\ Len(stack) \in Nat \ {0}
         /\ Top.path \in Path /\ At(Top) \in File
         /\ text[At(Top)] \in Seq(Import) /\ Operands(Top.path) \in Seq(Import)
<1>1. stack \in Seq(Frame) /\ text \in [File -> Seq(Import)]
  BY DEF Types, TypeOK, Frame
<1>2. /\ Top = stack[Len(stack)] /\ Top \in Frame
      /\ Len(stack) \in DOMAIN stack /\ Len(stack) \in Nat \ {0}
  BY <1>1, PopFrames DEF Top
<1>3. Top.path \in Path /\ At(Top) \in File
  BY <1>2 DEF Frame, Types, Resolved
<1>4. text[At(Top)] \in Seq(Import)
  BY <1>1, <1>3
<1>5. Operands(Top.path) \in Seq(Import)
  <2>1. <<>> \in Seq(Import)
    OBVIOUS
  <2> QED
    BY <2>1, <1>4 DEF Operands, At
<1> QED
  BY <1>2, <1>3, <1>4, <1>5

LEMMA TargetType ==
  ASSUME Types, Due
  PROVE  Target \in Path /\ FileOf[Target] \in File \cup {NoFile}
<1>1. ASSUME NEW i \in Import PROVE Spelling(i) \in Path
  BY DEF Spelling, Import
<1>2. CASE stack = <<>>
  BY <1>2, TreeAssumption DEF Target
<1>3. CASE stack # <<>>
  <2>1. Operands(Top.path)[Top.next] \in Import
    BY <1>3, TopType DEF Due
  <2>2. Target = Spelling(Operands(Top.path)[Top.next])
    BY <1>3 DEF Target
  <2> QED
    BY <2>1, <2>2, <1>1, TreeAssumption
<1> QED
  BY <1>2, <1>3

LEMMA TypeInit == Init => Types
BY DEF Init, Types, TypeOK, Resolved

\* The frame on top goes on, and nothing below it changes.
LEMMA ResolvedAdvance ==
  ASSUME NEW s \in Seq(Frame), \A n \in DOMAIN s : At(s[n]) \in File
  PROVE  /\ Advance(s) \in Seq(Frame)
         /\ \A n \in DOMAIN Advance(s) : At(Advance(s)[n]) \in File
<1>1. Advance(s) \in Seq(Frame) /\ DOMAIN Advance(s) = DOMAIN s
  BY AdvanceFrames
<1>2. \A n \in DOMAIN s : Advance(s)[n].path = s[n].path
  BY AdvanceFrames
<1> QED
  BY <1>1, <1>2 DEF At

LEMMA ResolvedPop ==
  ASSUME NEW s \in Seq(Frame), s # <<>>, \A n \in DOMAIN s : At(s[n]) \in File
  PROVE  /\ ButLast(s) \in Seq(Frame)
         /\ \A n \in DOMAIN ButLast(s) : At(ButLast(s)[n]) \in File
<1>1. /\ ButLast(s) \in Seq(Frame) /\ DOMAIN ButLast(s) = 1..(Len(s) - 1)
      /\ \A n \in 1..(Len(s) - 1) : n \in DOMAIN s /\ ButLast(s)[n] = s[n]
  BY PopFrames
<1> QED
  BY <1>1

LEMMA TypeStep == Types /\ [Next]_vars => Types'
<1> SUFFICES ASSUME Types, [Next]_vars PROVE Types'
  OBVIOUS
<1> USE DEF disk
<1>0. /\ stack \in Seq(Frame) /\ out \in Seq(File) /\ TypeOK
      /\ \A n \in DOMAIN stack : At(stack[n]) \in File
  BY DEF Types, TypeOK, Frame, Resolved
<1>f. ASSUME NEW code \in {"E27", "E28", "syntax"}, Fail(code)
      PROVE  Types'
  BY <1>0, <1>f DEF Fail, Types, TypeOK, Resolved
<1>s. ASSUME UNCHANGED <<disk, seen, out, verdict>>, stack' \in Seq(Frame),
             \A n \in DOMAIN stack' : At(stack'[n]) \in File
      PROVE  Types'
  BY <1>0, <1>s DEF Types, TypeOK, Resolved, Frame
<1>p. ASSUME stack # <<>>
      PROVE  /\ Pop \in Seq(Frame) /\ Advance(Pop) \in Seq(Frame)
             /\ \A n \in DOMAIN Pop : At(Pop[n]) \in File
             /\ \A n \in DOMAIN Advance(Pop) : At(Advance(Pop)[n]) \in File
  <2>1. Pop \in Seq(Frame) /\ \A n \in DOMAIN Pop : At(Pop[n]) \in File
    BY <1>0, <1>p, ResolvedPop DEF Pop, ButLast
  <2> QED
    BY <2>1, ResolvedAdvance
<1>1. CASE NotFound
  BY <1>1, <1>f DEF NotFound
<1>2. CASE Circular
  BY <1>2, <1>f DEF Circular
<1>3. CASE Skip
  <2>1. stack' = Advance(stack)
    BY <1>3 DEF Skip
  <2> QED
    BY <2>1, <1>3, <1>0, <1>s, ResolvedAdvance DEF Skip
<1>4. CASE LexError
  BY <1>4, <1>f DEF LexError
<1>5. CASE Descend
  <2> DEFINE g == [path |-> Target, next |-> 1]
  <2>1. Target \in Path /\ FileOf[Target] \in File
    BY <1>5, TargetType DEF Descend, Fresh
  <2>2. g \in Frame /\ At(g) \in File
    BY <2>1 DEF Frame, At
  <2>3. stack' = Append(stack, g)
    BY <1>5 DEF Descend
  <2> HIDE DEF g
  <2>4. stack' \in Seq(Frame) /\ \A n \in DOMAIN stack' : At(stack'[n]) \in File
    BY <2>2, <2>3, <1>0
  <2> QED
    BY <2>4, <1>5, <1>s DEF Descend
<1>6. CASE BadOperand
  BY <1>6, <1>f DEF BadOperand
<1>7. CASE Finish
  <2>1. /\ stack # <<>> /\ stack' = Advance(Pop) /\ seen' = seen \cup {Top.path}
        /\ out' = Append(out, At(Top)) /\ verdict' \in {"ok", verdict} /\ UNCHANGED disk
    BY <1>7 DEF Finish, AtEnd, At
  <2>2. Top.path \in Path /\ out' \in Seq(File)
    BY <2>1, <1>0, TopType, MembersAppend
  <2>3. stack' \in Seq(Frame) /\ \A n \in DOMAIN stack' : At(stack'[n]) \in File
    BY <2>1, <1>p
  <2> QED
    BY <2>1, <2>2, <2>3, <1>0 DEF Types, TypeOK, Resolved, Frame
<1>8. CASE Unwind
  <2>1. stack # <<>> /\ stack' = Pop
    BY <1>8 DEF Unwind
  <2> QED
    BY <2>1, <1>8, <1>p, <1>s DEF Unwind
<1>9. CASE UNCHANGED vars
  BY <1>0, <1>9 DEF vars, Types, TypeOK, Resolved
<1> QED
  BY <1>1, <1>2, <1>3, <1>4, <1>5, <1>6, <1>7, <1>8, <1>9 DEF Next

\* The flattener's variables always have their types, whatever the spellings.
THEOREM TypeCorrect == Spec => []TypeOK
<1>1. Init => Types
  BY TypeInit
<1>2. Types /\ [Next]_vars => Types'
  BY TypeStep
<1>3. Types => TypeOK
  BY DEF Types
<1> QED
  BY <1>1, <1>2, <1>3, PTL DEF Spec

-----------------------------------------------------------------------------
(* The way down                                                             *)

\* A frame is at a reachable file that lexed and could be read, past imports
\* that are all done.
Sound(f, done, tx, kd) == /\ kd[At(f)] \in {"fine", "operand"} /\ At(f) \in Reach(tx)
                          /\ f.next <= Len(tx[At(f)]) + 1
                          /\ \A k \in 1..(f.next - 1) : Child(tx[At(f)][k]) \in done

\* It waits for the path of the frame above it.
Leads(f, g, tx) == /\ f.next \in DOMAIN tx[At(f)]
                   /\ Child(tx[At(f)][f.next]) = At(g)

WayDown(s, done, tx, kd) ==
  /\ s # <<>> => s[1].path = Root
  /\ \A n \in DOMAIN s : Sound(s[n], done, tx, kd)
  /\ \A n \in DOMAIN s : n + 1 \in DOMAIN s => Leads(s[n], s[n + 1], tx)

Descending == verdict = "loading" =>
  /\ WayDown(stack, Members(out), text, kind)
  /\ stack = <<>> => out = <<>> /\ seen = {}

\* No path is open twice, or open and done; what is done is what is out.
Books == /\ Apart(stack) /\ Paths(stack) \cap seen = {}
         /\ Members(out) = {FileOf[p] : p \in seen}

Inv == Types /\ Readable /\ Books /\ Descending

LEMMA ReadText == ASSUME Types, Readable, stack # <<>>
                  PROVE  Operands(Top.path) = text[At(Top)]
BY TopType DEF Readable, Operands, At

LEMMA ReachRoot ==
  ASSUME NEW tx, FileOf[Root] \in File
  PROVE  FileOf[Root] \in Reach(tx)
BY DEF Reach

LEMMA ReachChild ==
  ASSUME NEW tx, NEW f \in Reach(tx), NEW g \in File, g \in Children(tx, f)
  PROVE  g \in Reach(tx)
<1>1. ASSUME NEW S \in SUBSET File, FileOf[Root] \in S, Closed(tx, S)
      PROVE  g \in S
  <2>1. f \in S
    BY <1>1 DEF Reach
  <2> QED
    BY <2>1, <1>1 DEF Closed
<1> QED
  BY <1>1 DEF Reach

LEMMA ChildType ==
  ASSUME Types, NEW f \in File, NEW k \in DOMAIN text[f]
  PROVE  /\ Child(text[f][k]) = FileOf[Spelling(text[f][k])]
         /\ Child(text[f][k]) \in Children(text, f)
<1>1. text[f][k] \in Imports(text, f)
  BY DEF Imports
<1> QED
  BY <1>1 DEF Children, Child

\* What the flattener is about to append is reachable.
LEMMA TargetReach ==
  ASSUME Types, Readable, Descending, Due
  PROVE  /\ stack = <<>> => Target = Root
         /\ stack # <<>> => /\ FileOf[Target] \in Children(text, At(Top))
                            /\ At(Top) \in Reach(text)
                            /\ Top.next \in DOMAIN text[At(Top)]
                            /\ FileOf[Target] = Child(text[At(Top)][Top.next])
         /\ FileOf[Target] \in File => FileOf[Target] \in Reach(text)
<1>1. CASE stack = <<>>
  BY <1>1, ReachRoot DEF Target
<1>2. CASE stack # <<>>
  <2>1. /\ At(Top) \in File /\ Top = stack[Len(stack)]
        /\ Len(stack) \in DOMAIN stack
    BY <1>2, TopType
  <2>2. /\ Top.next \in DOMAIN text[At(Top)]
        /\ Target = Spelling(text[At(Top)][Top.next])
    BY <1>2, ReadText DEF Due, Target
  <2>3. /\ FileOf[Target] = Child(text[At(Top)][Top.next])
        /\ FileOf[Target] \in Children(text, At(Top))
    BY <2>1, <2>2, ChildType
  <2>4. At(Top) \in Reach(text)
    BY <2>1 DEF Descending, Due, WayDown, Sound
  <2> QED
    BY <1>2, <2>2, <2>3, <2>4, ReachChild
<1> QED
  BY <1>1, <1>2

LEMMA SoundNext ==
  ASSUME NEW f \in Frame, NEW g \in Frame, NEW done, NEW more, NEW tx, NEW kd,
         Sound(f, done, tx, kd), done \subseteq more,
         g.path = f.path, g.next = f.next + 1,
         tx[At(f)] \in Seq(Import), f.next \in DOMAIN tx[At(f)],
         Child(tx[At(f)][f.next]) \in more
  PROVE  Sound(g, more, tx, kd)
<1>1. f.next \in Nat /\ f.next <= Len(tx[At(f)]) /\ Len(tx[At(f)]) \in Nat
  BY DEF Frame
<1>0. At(g) = At(f)
  BY DEF At
<1>2. g.next <= Len(tx[At(g)]) + 1
  BY <1>0, <1>1
<1>3. ASSUME NEW k \in 1..(g.next - 1) PROVE Child(tx[At(g)][k]) \in more
  <2>1. k \in 1..(f.next - 1) \/ k = f.next
    BY <1>1
  <2> QED
    BY <2>1, <1>0 DEF Sound
<1> QED
  BY <1>0, <1>2, <1>3 DEF Sound

\* When the top frame is past all its imports, they are all done.
LEMMA AllDone ==
  ASSUME NEW f \in Frame, NEW done, NEW tx, NEW kd, Sound(f, done, tx, kd),
         tx[At(f)] \in Seq(Import), f.next \notin DOMAIN tx[At(f)]
  PROVE  Children(tx, At(f)) \subseteq done
<1>1. f.next \in Nat \ {0} /\ Len(tx[At(f)]) \in Nat
  BY DEF Frame
<1>2. f.next = Len(tx[At(f)]) + 1
  BY <1>1 DEF Sound
<1>3. \A k \in DOMAIN tx[At(f)] : k \in 1..(f.next - 1)
  BY <1>1, <1>2
<1>4. \A k \in DOMAIN tx[At(f)] : Child(tx[At(f)][k]) \in done
  BY <1>3 DEF Sound
<1> QED
  BY <1>4 DEF Children, Imports

\* A frame stack stays a way down when its top frame advances past a file that
\* is done.
LEMMA WayDownAdvance ==
  ASSUME NEW s \in Seq(Frame), s # <<>>, NEW done, NEW more,
         text \in [File -> Seq(Import)],
         WayDown(s, done, text, kind), done \subseteq more,
         \A n \in DOMAIN s : At(s[n]) \in File,
         s[Len(s)].next \in DOMAIN text[At(s[Len(s)])],
         Child(text[At(s[Len(s)])][s[Len(s)].next]) \in more
  PROVE  WayDown(Advance(s), more, text, kind)
<1> DEFINE a == Advance(s)
<1>1. /\ a \in Seq(Frame) /\ Len(a) = Len(s) /\ DOMAIN a = DOMAIN s
      /\ DOMAIN s = 1..Len(s) /\ Len(s) \in Nat \ {0}
  BY AdvanceFrames
<1>2. \A n \in DOMAIN s : a[n].path = s[n].path
  BY <1>1, AdvanceFrames
<1>3. \A n \in DOMAIN s : n # Len(s) => a[n] = s[n]
  BY <1>1, AdvanceFrames
<1>4. a[Len(s)].next = s[Len(s)].next + 1
  BY <1>1, AdvanceFrames
<1>5. \A n \in DOMAIN s : a[n] \in Frame /\ s[n] \in Frame
  BY <1>1
<1> HIDE DEF a
<1>6. ASSUME NEW n \in DOMAIN a PROVE Sound(a[n], more, text, kind)
  <2>1. CASE n = Len(s)
    <3>1. text[At(s[n])] \in Seq(Import)
      BY <1>1, <1>5 DEF Frame
    <3>2. Sound(s[n], done, text, kind)
      BY <1>1 DEF WayDown
    <3>3. a[n].path = s[n].path /\ a[n].next = s[n].next + 1
      BY <2>1, <1>1, <1>2, <1>4
    <3>4. s[n].next \in DOMAIN text[At(s[n])] /\ Child(text[At(s[n])][s[n].next]) \in more
      BY <2>1
    <3> QED
      BY <3>1, <3>2, <3>3, <3>4, <1>1, <1>5, SoundNext
  <2>2. CASE n # Len(s)
    BY <2>2, <1>1, <1>3 DEF WayDown, Sound
  <2> QED
    BY <2>1, <2>2
<1>7. ASSUME NEW n \in DOMAIN a, n + 1 \in DOMAIN a
      PROVE  Leads(a[n], a[n + 1], text)
  <2>1. n # Len(s) /\ n \in DOMAIN s /\ n + 1 \in DOMAIN s
    BY <1>1, <1>7
  <2> QED
    BY <2>1, <1>2, <1>3 DEF WayDown, Leads, At
<1>9. a[1].path = Root
  BY <1>1, <1>2 DEF WayDown
<1> QED
  BY <1>6, <1>7, <1>9 DEF WayDown, a

LEMMA WayDownPush ==
  ASSUME NEW s \in Seq(Frame), NEW done, NEW g \in Frame,
         text \in [File -> Seq(Import)],
         WayDown(s, done, text, kind),
         g.next = 1, kind[At(g)] \in {"fine", "operand"}, At(g) \in File,
         At(g) \in Reach(text),
         s = <<>> => g.path = Root,
         s # <<>> => Leads(s[Len(s)], g, text)
  PROVE  WayDown(Append(s, g), done, text, kind)
<1> DEFINE a == Append(s, g)
<1>1. /\ a \in Seq(Frame) /\ Len(a) = Len(s) + 1
      /\ DOMAIN a = 1..(Len(s) + 1) /\ DOMAIN s = 1..Len(s) /\ Len(s) \in Nat
      /\ a[Len(s) + 1] = g
  OBVIOUS
<1>2. \A n \in 1..Len(s) : a[n] = s[n]
  OBVIOUS
<1> HIDE DEF a
<1>3. Sound(g, done, text, kind)
  <2>1. Len(text[At(g)]) \in Nat
    BY DEF Frame
  <2> QED
    BY <2>1 DEF Sound
<1>4. ASSUME NEW n \in DOMAIN a PROVE Sound(a[n], done, text, kind)
  <2>1. CASE n \in 1..Len(s)
    BY <2>1, <1>1, <1>2 DEF WayDown
  <2>2. CASE n = Len(s) + 1
    BY <2>2, <1>1, <1>3
  <2> QED
    BY <2>1, <2>2, <1>1
<1>5. ASSUME NEW n \in DOMAIN a, n + 1 \in DOMAIN a
      PROVE  Leads(a[n], a[n + 1], text)
  <2>1. n \in 1..Len(s)
    BY <1>1, <1>5
  <2>2. CASE n = Len(s)
    <3>1. s # <<>>
      BY <2>1
    <3>2. a[n] = s[Len(s)] /\ a[n + 1] = g
      BY <2>1, <2>2, <1>1, <1>2
    <3> QED
      BY <3>1, <3>2
  <2>3. CASE n # Len(s)
    <3>1. n \in DOMAIN s /\ n + 1 \in DOMAIN s
      BY <2>1, <2>3, <1>1
    <3> QED
      BY <3>1, <1>1, <1>2 DEF WayDown
  <2> QED
    BY <2>2, <2>3
<1>7. a[1].path = Root
  <2>1. CASE s = <<>>
    BY <2>1, <1>1
  <2>2. CASE s # <<>>
    <3>1. 1 \in 1..Len(s)
      BY <2>2
    <3> QED
      BY <2>2, <3>1, <1>2 DEF WayDown
  <2> QED
    BY <2>1, <2>2
<1> QED
  BY <1>4, <1>5, <1>7 DEF WayDown, a

LEMMA WayDownPop ==
  ASSUME NEW s \in Seq(Frame), s # <<>>, NEW done, NEW more,
         WayDown(s, done, text, kind), done \subseteq more
  PROVE  /\ WayDown(ButLast(s), more, text, kind)
         /\ ButLast(s) # <<>> =>
              Leads(ButLast(s)[Len(ButLast(s))], s[Len(s)], text)
<1> DEFINE p == ButLast(s)
<1>1. /\ p \in Seq(Frame) /\ Len(p) = Len(s) - 1
      /\ DOMAIN p = 1..(Len(s) - 1) /\ DOMAIN s = 1..Len(s)
      /\ Len(s) \in Nat \ {0}
  BY PopFrames
<1>2. \A n \in 1..(Len(s) - 1) : p[n] = s[n]
  BY PopFrames
<1> HIDE DEF p
<1>3. ASSUME NEW n \in DOMAIN p PROVE Sound(p[n], more, text, kind)
  <2>1. n \in DOMAIN s /\ p[n] = s[n]
    BY <1>1, <1>2
  <2> QED
    BY <2>1 DEF WayDown, Sound
<1>4. ASSUME NEW n \in DOMAIN p, n + 1 \in DOMAIN p
      PROVE  Leads(p[n], p[n + 1], text)
  <2>1. n \in DOMAIN s /\ n + 1 \in DOMAIN s
    BY <1>1, <1>4
  <2> QED
    BY <2>1, <1>1, <1>2, <1>4 DEF WayDown
<1>6. p # <<>> => 1 \in 1..(Len(s) - 1)
  BY <1>1
<1>7. p # <<>> => p[1].path = Root
  BY <1>2, <1>6 DEF WayDown
<1>8. p # <<>> => Leads(p[Len(p)], s[Len(s)], text)
  <2>1. SUFFICES ASSUME p # <<>> PROVE Leads(s[Len(s) - 1], s[Len(s)], text)
    BY <1>1, <1>2, <1>6
  <2>2. Len(s) - 1 \in DOMAIN s /\ (Len(s) - 1) + 1 \in DOMAIN s /\ (Len(s) - 1) + 1 = Len(s)
    BY <2>1, <1>1, <1>6
  <2>3. Leads(s[Len(s) - 1], s[(Len(s) - 1) + 1], text)
    BY <2>2 DEF WayDown
  <2> QED
    BY <2>2, <2>3
<1>9. WayDown(p, more, text, kind)
  BY <1>3, <1>4, <1>7 DEF WayDown
<1> QED
  BY <1>8, <1>9 DEF p
LEMMA InvInit == ASSUME Init, Readable PROVE Inv
<1>1. Types
  BY TypeInit
<1>2. Books
  BY DEF Init, Books, Apart, Paths, Members
<1>3. Descending
  BY DEF Init, Descending, WayDown
<1> QED
  BY <1>1, <1>2, <1>3 DEF Inv

\* What a file whose text goes out is known to be.
LEMMA FinishFacts ==
  ASSUME OneSpelling, Inv, Finish
  PROVE  /\ At(Top) \in File /\ At(Top) \notin Members(out)
         /\ kind[At(Top)] = "fine" /\ At(Top) \in Reach(text)
         /\ Children(text, At(Top)) \subseteq Members(out)
         /\ Pop = <<>> <=> At(Top) = FileOf[Root]
<1>1. /\ Types /\ Readable /\ verdict = "loading" /\ stack # <<>>
      /\ Top.next \notin DOMAIN text[At(Top)]
      /\ stack \in Seq(Frame)
      /\ WayDown(stack, Members(out), text, kind)
  BY ReadText DEF Inv, Finish, AtEnd, Descending, Types, TypeOK, Frame
<1>2. /\ Top = stack[Len(stack)] /\ Top \in Frame /\ Len(stack) \in DOMAIN stack
      /\ At(Top) \in File /\ Top.path \in Path
      /\ text[At(Top)] \in Seq(Import) /\ Len(stack) \in Nat \ {0}
  BY <1>1, TopType
<1>3. Sound(Top, Members(out), text, kind)
  BY <1>1, <1>2 DEF WayDown
<1>4. Children(text, At(Top)) \subseteq Members(out)
  BY <1>1, <1>2, <1>3, AllDone
<1>5. At(Top) \notin Members(out)
  <2> SUFFICES ASSUME NEW p \in seen, FileOf[p] = At(Top) PROVE FALSE
    BY DEF Inv, Books
  <2>1. p \in Path /\ FileOf[p] # NoFile
    BY <1>2, TreeAssumption DEF Inv, Types, TypeOK
  <2>2. p = Top.path
    BY <2>1, <1>2 DEF OneSpelling, At
  <2>3. Top.path \in Paths(stack)
    BY <1>2 DEF Paths
  <2> QED
    BY <2>2, <2>3 DEF Inv, Books
<1>6. Pop = <<>> <=> Len(stack) = 1
  <2>1. Pop \in Seq(Frame) /\ Len(Pop) = Len(stack) - 1
    BY <1>1, PopFrames DEF Pop, ButLast
  <2> QED
    BY <2>1, <1>2
<1>7. Len(stack) = 1 <=> Top.path = Root
  <2>1. 1 \in DOMAIN stack /\ stack[1].path = Root
    BY <1>1, <1>2 DEF WayDown
  <2> QED
    BY <2>1, <1>1, <1>2 DEF Inv, Books, Apart
<1>8. Top.path = Root <=> At(Top) = FileOf[Root]
  BY <1>2, TreeAssumption DEF OneSpelling, At
<1>9. kind[At(Top)] # "operand"
  BY DEF Finish, At
<1> QED
  BY <1>2, <1>3, <1>4, <1>5, <1>6, <1>7, <1>8, <1>9 DEF Sound

LEMMA BooksStep == ASSUME Inv, [Next]_vars PROVE Books'
<1> USE DEF disk
<1>0. stack \in Seq(Frame) /\ out \in Seq(File) /\ Books /\ Types
  BY DEF Inv, Types, TypeOK, Frame
<1>s. ASSUME UNCHANGED <<seen, out>>, Paths(stack') = Paths(stack), Apart(stack')
      PROVE  Books'
  BY <1>0, <1>s DEF Books, Paths, Apart, Members
<1>k. ASSUME UNCHANGED <<seen, out>>, Apart(stack'), Paths(stack') \cap seen = {}
      PROVE  Books'
  BY <1>0, <1>k DEF Books, Paths, Apart, Members
<1>f. ASSUME NEW code, Fail(code) PROVE Books'
  BY <1>0, <1>f DEF Fail, Books, Paths, Apart, Members
<1>p. ASSUME stack # <<>>
      PROVE  /\ Pop = ButLast(stack) /\ Pop \in Seq(Frame)
             /\ Paths(Pop) = Paths(stack) \ {Top.path} /\ Apart(Pop)
             /\ Top.path \in Paths(stack)
  <2>1. Pop = ButLast(stack) /\ Pop \in Seq(Frame) /\ Top = stack[Len(stack)]
    BY <1>0, <1>p, PopFrames DEF Pop, ButLast, Top
  <2> QED
    BY <2>1, <1>0, <1>p, PopPaths DEF Books
<1>1. CASE NotFound
  BY <1>1, <1>f DEF NotFound
<1>2. CASE Circular
  BY <1>2, <1>f DEF Circular
<1>3. CASE Skip
  BY <1>3, <1>0, <1>s, AdvancePaths DEF Skip, Books
<1>4. CASE LexError
  BY <1>4, <1>f DEF LexError
<1>5. CASE Descend
  <2> DEFINE g == [path |-> Target, next |-> 1]
  <2>1. Target \in Path /\ Target \notin Open /\ Target \notin seen
    BY <1>5, <1>0, TargetType DEF Descend, Fresh
  <2>2. g \in Frame /\ g.path = Target
    BY <2>1 DEF Frame
  <2>3. stack' = Append(stack, g) /\ UNCHANGED <<seen, out>>
    BY <1>5 DEF Descend
  <2> HIDE DEF g
  <2>4. Target \notin Paths(stack)
    BY <2>1 DEF Open, Paths
  <2>5. Paths(stack') = Paths(stack) \cup {Target} /\ Apart(stack')
    BY <2>2, <2>3, <2>4, <1>0, PushPaths DEF Books
  <2>6. Paths(stack') \cap seen = {}
    BY <2>1, <2>5, <1>0 DEF Books
  <2> QED
    BY <2>3, <2>5, <2>6, <1>k
<1>6. CASE BadOperand
  BY <1>6, <1>f DEF BadOperand
<1>7. CASE Finish
  <2>1. /\ stack # <<>> /\ stack' = Advance(Pop) /\ seen' = seen \cup {Top.path}
        /\ out' = Append(out, At(Top))
    BY <1>7 DEF Finish, AtEnd, At
  <2>2. At(Top) \in File
    BY <2>1, <1>0, TopType
  <2>3. Paths(stack') = Paths(stack) \ {Top.path} /\ Apart(stack')
    BY <2>1, <1>p, AdvancePaths
  <2>4. Members(out') = Members(out) \cup {At(Top)}
    BY <2>1, <2>2, <1>0, MembersAppend
  <2>5. {FileOf[q] : q \in seen'} = {FileOf[q] : q \in seen} \cup {At(Top)}
    BY <2>1 DEF At
  <2>6. Paths(stack') \cap seen' = {}
    BY <2>1, <2>3, <1>0 DEF Books
  <2>7. Members(out') = {FileOf[q] : q \in seen'}
    BY <2>4, <2>5, <1>0 DEF Books
  <2> QED
    BY <2>3, <2>6, <2>7 DEF Books, Paths, Apart, Members
<1>8. CASE Unwind
  <2>1. stack # <<>> /\ stack' = Pop /\ UNCHANGED <<seen, out>>
    BY <1>8 DEF Unwind
  <2>2. Apart(stack') /\ Paths(stack') = Paths(stack) \ {Top.path}
    BY <2>1, <1>p
  <2>3. Paths(stack') \cap seen = {}
    BY <2>2, <1>0 DEF Books
  <2> QED
    BY <2>1, <2>2, <2>3, <1>k
<1>9. CASE UNCHANGED vars
  BY <1>0, <1>9 DEF vars, Books, Paths, Apart, Members
<1> QED
  BY <1>1, <1>2, <1>3, <1>4, <1>5, <1>6, <1>7, <1>8, <1>9 DEF Next

LEMMA DescendingStep == ASSUME OneSpelling, Inv, [Next]_vars PROVE Descending'
<1> SUFFICES ASSUME verdict' = "loading" PROVE Descending'
  BY DEF Descending
<1> USE DEF disk
<1>0. /\ Types /\ Readable /\ Books /\ stack \in Seq(Frame)
      /\ \A n \in DOMAIN stack : At(stack[n]) \in File
      /\ text \in [File -> Seq(Import)] /\ out \in Seq(File)
  BY DEF Inv, Types, TypeOK, Frame, Resolved
<1>a. ASSUME verdict = "loading"
      PROVE  /\ WayDown(stack, Members(out), text, kind)
             /\ stack = <<>> => out = <<>> /\ seen = {}
  BY <1>a DEF Inv, Descending
<1>g. ASSUME UNCHANGED disk, WayDown(stack', Members(out'), text, kind),
             stack' = <<>> => out' = <<>> /\ seen' = {}
      PROVE  Descending'
  <2>1. Members(out)' = Members(out')
    BY DEF Members
  <2>2. WayDown(stack', Members(out)', text', kind')
    BY <1>g, <2>1
  <2>3. WayDown(stack, Members(out), text, kind)'
    BY <2>2 DEF WayDown, Sound, Leads, At, Reach, Closed, Children, Imports, Child, Spelling
  <2> QED
    BY <1>g, <2>3 DEF Descending
<1>f. ASSUME NEW code \in {"E27", "E28", "syntax"}, Fail(code) PROVE FALSE
  BY <1>f DEF Fail
<1>1. CASE NotFound
  BY <1>1, <1>f DEF NotFound
<1>2. CASE Circular
  BY <1>2, <1>f DEF Circular
<1>3. CASE Skip
  <2>1. verdict = "loading" /\ Due /\ Target \in seen
    BY <1>3 DEF Skip, Due
  <2>2. stack # <<>>
    BY <2>1, <1>a
  <2>3. /\ Top = stack[Len(stack)] /\ Top.next \in DOMAIN text[At(Top)]
        /\ FileOf[Target] = Child(text[At(Top)][Top.next])
    BY <2>1, <2>2, <1>0, TargetReach DEF Top, Inv
  <2>4. FileOf[Target] \in Members(out)
    BY <2>1, <1>0 DEF Books
  <2>5. WayDown(Advance(stack), Members(out), text, kind)
    BY <2>1, <2>2, <2>3, <2>4, <1>0, <1>a, WayDownAdvance
  <2>6. stack' # <<>>
    BY <2>2, <1>3, <1>0, AdvanceFrames DEF Skip
  <2> QED
    BY <2>5, <2>6, <1>3, <1>g DEF Skip
<1>4. CASE LexError
  BY <1>4, <1>f DEF LexError
<1>5. CASE Descend
  <2>1. /\ verdict = "loading" /\ Due /\ FileOf[Target] # NoFile
        /\ kind[FileOf[Target]] # "broken"
    BY <1>5 DEF Descend, Fresh, Due
  <2>2. Target \in Path /\ FileOf[Target] \in File
    BY <2>1, <1>0, TargetType
  <2>3. kind[FileOf[Target]] \in {"fine", "operand"}
    BY <2>1, <2>2, <1>0 DEF Types, TypeOK, Kind, Readable
  <2>4. /\ stack = <<>> => Target = Root
        /\ stack # <<>> => /\ Top.next \in DOMAIN text[At(Top)]
                           /\ FileOf[Target] = Child(text[At(Top)][Top.next])
        /\ FileOf[Target] \in Reach(text)
    BY <2>1, <2>2, <1>0, TargetReach DEF Inv
  <2> DEFINE g == [path |-> Target, next |-> 1]
  <2>5. g \in Frame /\ g.path = Target /\ g.next = 1 /\ At(g) = FileOf[Target]
    BY <2>2 DEF Frame, At
  <2>6. stack' = Append(stack, g)
    BY <1>5 DEF Descend
  <2> HIDE DEF g
  <2>7. stack # <<>> => Leads(stack[Len(stack)], g, text)
    BY <2>4, <2>5 DEF Leads, Top
  <2>8. WayDown(Append(stack, g), Members(out), text, kind)
    BY <2>1, <2>2, <2>3, <2>4, <2>5, <2>7, <1>0, <1>a, WayDownPush
  <2>9. stack' # <<>>
    <3>1. stack \in Seq(Frame) /\ g \in Frame
      BY <2>5, <1>0
    <3>2. Len(stack') = Len(stack) + 1 /\ Len(stack) \in Nat
      BY ONLY <2>6, <3>1
    <3> QED
      BY ONLY <3>2
  <2> QED
    BY <2>6, <2>8, <2>9, <1>5, <1>g DEF Descend
<1>6. CASE BadOperand
  BY <1>6, <1>f DEF BadOperand
<1>7. CASE Finish
  <2>1. /\ verdict = "loading" /\ stack # <<>> /\ Pop # <<>>
        /\ stack' = Advance(Pop) /\ out' = Append(out, At(Top))
        /\ UNCHANGED disk
    BY <1>7 DEF Finish, AtEnd, At
  <2>2. Top \in Frame /\ At(Top) \in File /\ Top = stack[Len(stack)]
    BY <2>1, <1>0, TopType
  <2>3. Members(out') = Members(out) \cup {At(Top)}
    BY <2>1, <2>2, <1>0, MembersAppend
  <2>4. /\ Pop = ButLast(stack) /\ Pop \in Seq(Frame)
        /\ \A n \in DOMAIN Pop : At(Pop[n]) \in File
    BY <2>1, <1>0, ResolvedPop DEF Pop, ButLast
  <2>5. /\ WayDown(Pop, Members(out'), text, kind)
        /\ Leads(Pop[Len(Pop)], Top, text)
    BY <2>1, <2>2, <2>3, <2>4, <1>0, <1>a, WayDownPop
  <2>6. WayDown(Advance(Pop), Members(out'), text, kind)
    BY <2>1, <2>3, <2>4, <2>5, <1>0, WayDownAdvance DEF Leads
  <2>7. stack' # <<>>
    BY <2>1, <2>4, AdvanceFrames
  <2> QED
    BY <2>1, <2>6, <2>7, <1>g
<1>8. CASE Unwind
  BY <1>8 DEF Unwind
<1>9. CASE UNCHANGED vars
  BY <1>9, <1>a, <1>g DEF vars
<1> QED
  BY <1>1, <1>2, <1>3, <1>4, <1>5, <1>6, <1>7, <1>8, <1>9 DEF Next

LEMMA InvStep == ASSUME OneSpelling, Inv, [Next]_vars PROVE Inv'
<1>1. Types'
  BY TypeStep DEF Inv
<1>2. kind' = kind
  BY DEF Next, NotFound, Circular, Skip, LexError, Descend, BadOperand, Finish, Unwind,
         Fail, disk, vars
<1>3. Readable'
  BY <1>2 DEF Inv, Readable
<1> QED
  BY <1>1, <1>3, BooksStep, DescendingStep DEF Inv

-----------------------------------------------------------------------------
(* The promise is kept                                                      *)

LEMMA BelowTop ==
  ASSUME NEW l \in Nat, NEW b \in 1..l, NEW n \in b..l, n # l
  PROVE  n \in 1..l /\ n + 1 \in 1..l /\ n + 1 \in b..l
OBVIOUS

\* A path on the stack that is asked for again closes a cycle: from its frame
\* up, each file imports the next.
LEMMA CircularIsCyclic == ASSUME Inv, Circular PROVE Cyclic(text)
<1>1. /\ Types /\ Readable /\ Descending /\ Due /\ verdict = "loading" /\ Target \in Open
      /\ WayDown(stack, Members(out), text, kind) /\ stack \in Seq(Frame)
      /\ \A n \in DOMAIN stack : At(stack[n]) \in File
  BY DEF Inv, Circular, Due, Descending, Types, TypeOK, Frame, Resolved
<1>2. PICK b \in DOMAIN stack : stack[b].path = Target
  BY <1>1 DEF Open
<1>3. /\ stack # <<>> /\ Len(stack) \in Nat /\ DOMAIN stack = 1..Len(stack)
      /\ b \in 1..Len(stack) /\ At(stack[b]) = FileOf[Target]
  BY <1>1, <1>2 DEF At
<1>b. Len(stack) \in b..Len(stack) /\ b \in b..Len(stack)
  BY <1>3
<1>4. Top = stack[Len(stack)] /\ FileOf[Target] \in Children(text, At(Top))
  BY <1>1, <1>3, TargetReach DEF Top
<1> DEFINE C == {At(stack[n]) : n \in b..Len(stack)}
<1>5. C \subseteq Reach(text)
  BY <1>1, <1>3 DEF WayDown, Sound
<1>6. C # {}
  BY <1>b
<1>7. ASSUME NEW n \in b..Len(stack)
      PROVE  Children(text, At(stack[n])) \cap C # {}
  <2>1. CASE n = Len(stack)
    <3>1. FileOf[Target] \in C
      BY <1>3, <1>b
    <3> QED
      BY <3>1, <2>1, <1>4
  <2>2. CASE n # Len(stack)
    <3>1. n \in DOMAIN stack /\ n + 1 \in DOMAIN stack /\ n + 1 \in b..Len(stack)
      BY <2>2, <1>3, BelowTop
    <3>2. Leads(stack[n], stack[n + 1], text)
      BY <3>1, <1>1 DEF WayDown
    <3>3. At(stack[n + 1]) \in Children(text, At(stack[n]))
      BY <3>1, <3>2, <1>1, ChildType DEF Leads
    <3> QED
      BY <3>1, <3>3
  <2> QED
    BY <2>1, <2>2
<1>8. \A f \in C : Children(text, f) \cap C # {}
  BY <1>7
<1> QED
  BY <1>5, <1>6, <1>8 DEF Cyclic

\* LoadOrder's vocabulary is the loader's.
LEMMA SameChildren ==
  ASSUME NEW tx, NEW f
  PROVE  Promise!Children(tx, f) = Children(tx, f)
BY DEF Promise!Children, Promise!Imports, Promise!Child, Promise!Spelling,
       Children, Imports, Child, Spelling

LEMMA SameReach == ASSUME NEW tx PROVE Promise!Reach(tx) = Reach(tx)
<1>1. ASSUME NEW S PROVE Promise!Closed(tx, S) <=> Closed(tx, S)
  BY SameChildren DEF Promise!Closed, Closed
<1> QED
  BY <1>1 DEF Promise!Reach, Reach

LEMMA SameWords ==
  ASSUME NEW tx, NEW kd, NEW done
  PROVE  /\ Promise!Missing(tx, kd) <=> Missing(tx, kd)
         /\ Promise!Broken(tx, kd) <=> Broken(tx, kd)
         /\ Promise!Cyclic(tx) <=> Cyclic(tx)
         /\ Promise!TooDeep(tx, done) <=> TooDeep(tx, done)
<1>1. Promise!Missing(tx, kd) <=> Missing(tx, kd)
  BY SameReach, SameChildren DEF Promise!Missing, Missing
<1>2. Promise!Broken(tx, kd) <=> Broken(tx, kd)
  BY SameReach DEF Promise!Broken, Broken, Promise!Unsound, Unsound
<1>3. Promise!Cyclic(tx) <=> Cyclic(tx)
  BY SameReach, SameChildren DEF Promise!Cyclic, Cyclic
<1>4. Promise!TooDeep(tx, done) <=> TooDeep(tx, done)
  BY SameReach, SameChildren DEF Promise!TooDeep, TooDeep
<1> QED
  BY <1>1, <1>2, <1>3, <1>4

LEMMA SameMembers == ASSUME NEW e PROVE Promise!Members(e) = Members(e)
BY DEF Promise!Members, Members

LEMMA PromiseInit == Init => Promise!Init
BY DEF Init, Promise!Init, Promise!Import, Promise!Kind, Import, Kind

LEMMA PromiseStep ==
  ASSUME OneSpelling, Inv, [Next]_vars
  PROVE  [Promise!Next]_(Promise!vars)
<1>0. /\ Types /\ Readable /\ Descending /\ out \in Seq(File)
  BY DEF Inv, Types, TypeOK
<1>r. ASSUME NEW code \in {"E27", "E28", "syntax"}, Fail(code),
             verdict = "loading", Promise!Deserved(code)
      PROVE  Promise!Next
  BY <1>r DEF Promise!Next, Promise!Reject, Promise!disk, disk, Fail
<1>w. ASSUME NEW code \in {"E27", "E28", "syntax"}
      PROVE  Promise!Deserved(code) <=>
               \/ code = "E27" /\ Missing(text, kind)
               \/ code = "E28" /\ (Cyclic(text) \/ TooDeep(text, Members(out)))
               \/ code = "syntax" /\ Broken(text, kind)
  BY SameWords, SameMembers DEF Promise!Deserved
<1>s. ASSUME UNCHANGED <<text, kind, out, verdict>>
      PROVE  UNCHANGED Promise!vars
  BY <1>s DEF Promise!vars, Promise!disk
<1>d. ASSUME Due PROVE verdict = "loading"
  BY <1>d DEF Due
<1>1. CASE NotFound
  <2>1. Due /\ FileOf[Target] = NoFile /\ verdict = "loading"
    BY <1>1, <1>d DEF NotFound
  <2>2. Missing(text, kind)
    BY <2>1, <1>0, TargetReach DEF Missing
  <2> QED
    BY <2>1, <2>2, <1>1, <1>r, <1>w DEF NotFound
<1>2. CASE Circular
  BY <1>2, <1>d, <1>r, <1>w, CircularIsCyclic DEF Circular
<1>3. CASE Skip
  BY <1>3, <1>s DEF Skip, disk
<1>4. CASE LexError
  <2>1. Due /\ FileOf[Target] # NoFile /\ verdict = "loading"
        /\ kind[FileOf[Target]] \in Unsound
    BY <1>4, <1>d DEF LexError, Fresh, Unsound
  <2>2. FileOf[Target] \in Reach(text)
    BY <2>1, <1>0, TargetType, TargetReach
  <2>3. Broken(text, kind)
    BY <2>1, <2>2 DEF Broken
  <2> QED
    BY <2>1, <2>3, <1>4, <1>r, <1>w DEF LexError
<1>5. CASE Descend
  BY <1>5, <1>s DEF Descend, disk
<1>6. CASE BadOperand
  <2>1. verdict = "loading" /\ stack # <<>> /\ kind[At(Top)] \in Unsound
    BY <1>6 DEF BadOperand, AtEnd, At, Unsound
  <2>2. At(Top) \in Reach(text)
    BY <2>1, <1>0, TopType DEF Descending, WayDown, Sound
  <2>3. Broken(text, kind)
    BY <2>1, <2>2 DEF Broken
  <2> QED
    BY <2>1, <2>3, <1>6, <1>r, <1>w DEF BadOperand
<1>7. CASE Finish
  <2>1. /\ At(Top) \in File /\ At(Top) \notin Members(out)
        /\ kind[At(Top)] = "fine" /\ At(Top) \in Reach(text)
        /\ Children(text, At(Top)) \subseteq Members(out)
        /\ Pop = <<>> <=> At(Top) = FileOf[Root]
    BY <1>7, FinishFacts
  <2>2. /\ verdict = "loading" /\ out' = Append(out, At(Top))
        /\ verdict' = IF Pop = <<>> THEN "ok" ELSE verdict
        /\ UNCHANGED <<text, kind>>
    BY <1>7 DEF Finish, AtEnd, At, disk
  <2>3. Promise!Emit(At(Top))
    BY <2>1, <2>2, SameReach, SameMembers, SameChildren DEF Promise!Emit, Promise!disk
  <2> QED
    BY <2>1, <2>3 DEF Promise!Next
<1>8. CASE Unwind
  BY <1>8, <1>s DEF Unwind, disk
<1>9. CASE UNCHANGED vars
  BY <1>9, <1>s DEF vars, disk
<1> QED
  BY <1>1, <1>2, <1>3, <1>4, <1>5, <1>6, <1>7, <1>8, <1>9 DEF Next

\* With one spelling for each file, and every file readable, the flattener
\* implements LoadOrder, as the C loader does: each file once, after what it
\* imports, and refused only for a reason that is there.
THEOREM Refinement == ASSUME OneSpelling PROVE Spec /\ Readable => KeepsPromise
<1>1. Init /\ Readable => Inv
  BY InvInit
<1>2. Inv /\ [Next]_vars => Inv'
  BY OneSpelling, InvStep
<1>3. Inv /\ [Next]_vars => [Promise!Next]_(Promise!vars)
  BY OneSpelling, PromiseStep
<1> QED
  BY <1>1, <1>2, <1>3, PromiseInit, PTL DEF Spec, KeepsPromise, Promise!Spec
===============================================================================
