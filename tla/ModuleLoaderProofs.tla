------------------------- MODULE ModuleLoaderProofs -------------------------
(***************************************************************************)
(* Proofs about ModuleLoader, for every import graph on any finite set of   *)
(* files and every depth limit: one owner for each module, the order of the *)
(* modules, and the promise of LoadOrder.                                    *)
(***************************************************************************)
EXTENDS ModuleLoader, SequenceTheorems, WellFoundedInduction, TLAPS

Frame == [file : File, next : Nat \ {0}]
Files(s) == {s[n].file : n \in DOMAIN s}
Apart(s) == \A m, n \in DOMAIN s : s[m].file = s[n].file => m = n
ButLast(s) == SubSeq(s, 1, Len(s) - 1)

-----------------------------------------------------------------------------
(* Sequences of frames, and of files                                        *)

\* Advancing the top frame changes no file and no other frame.
LEMMA AdvanceFrames ==
  ASSUME NEW s \in Seq(Frame)
  PROVE  /\ Advance(s) \in Seq(Frame)
         /\ Len(Advance(s)) = Len(s)
         /\ \A n \in 1..Len(s) :
              /\ Advance(s)[n].file = s[n].file
              /\ n # Len(s) => Advance(s)[n] = s[n]
              /\ n = Len(s) => Advance(s)[n].next = s[n].next + 1
<1>1. CASE s = <<>>
  BY <1>1 DEF Advance
<1>2. CASE s # <<>>
  <2>1. Len(s) \in 1..Len(s) /\ s[Len(s)] \in Frame
    BY <1>2
  <2>2. Advance(s) = [s EXCEPT ![Len(s)] = [s[Len(s)] EXCEPT !.next = @ + 1]]
    BY <1>2, <2>1 DEF Advance
  <2>3. [s[Len(s)] EXCEPT !.next = @ + 1] \in Frame
    BY <2>1 DEF Frame
  <2>4. Advance(s) \in Seq(Frame) /\ Len(Advance(s)) = Len(s)
    BY <2>1, <2>2, <2>3
  <2>5. ASSUME NEW n \in 1..Len(s)
        PROVE  /\ Advance(s)[n].file = s[n].file
               /\ n # Len(s) => Advance(s)[n] = s[n]
               /\ n = Len(s) => Advance(s)[n].next = s[n].next + 1
    BY <2>1, <2>2, <2>3 DEF Frame
  <2> QED
    BY <2>4, <2>5
<1> QED
  BY <1>1, <1>2

LEMMA AdvanceFiles ==
  ASSUME NEW s \in Seq(Frame)
  PROVE  /\ Files(Advance(s)) = Files(s)
         /\ Apart(s) => Apart(Advance(s))
<1>1. DOMAIN Advance(s) = DOMAIN s
  BY AdvanceFrames
<1>2. \A n \in DOMAIN s : Advance(s)[n].file = s[n].file
  BY AdvanceFrames
<1> QED
  BY <1>1, <1>2 DEF Files, Apart

\* Popping takes exactly the top frame's file away.
LEMMA PopFrames ==
  ASSUME NEW s \in Seq(Frame), s # <<>>
  PROVE  /\ ButLast(s) \in Seq(Frame)
         /\ Len(ButLast(s)) = Len(s) - 1
         /\ \A n \in 1..(Len(s) - 1) : ButLast(s)[n] = s[n]
         /\ s[Len(s)] \in Frame
         /\ Len(s) \in Nat \ {0}
<1>1. Len(s) \in Nat \ {0} /\ s[Len(s)] \in Frame
  OBVIOUS
<1> DEFINE k == Len(s) - 1
<1>a. k \in Nat /\ \A i \in 1..k : s[i] \in Frame
  BY <1>1
<1> HIDE DEF k
<1>b. /\ SubSeq(s, 1, k) \in Seq(Frame)
      /\ Len(SubSeq(s, 1, k)) = k
  BY <1>a, SubSeqProperties, Z3
<1>2. /\ ButLast(s) \in Seq(Frame)
      /\ Len(ButLast(s)) = Len(s) - 1
  BY <1>b DEF ButLast, k
<1>3. \A n \in 1..(Len(s) - 1) : ButLast(s)[n] = s[n]
  BY <1>1 DEF ButLast
<1> QED
  BY <1>1, <1>2, <1>3

LEMMA PopFiles ==
  ASSUME NEW s \in Seq(Frame), s # <<>>, Apart(s)
  PROVE  /\ Files(ButLast(s)) = Files(s) \ {s[Len(s)].file}
         /\ s[Len(s)].file \in Files(s)
         /\ Apart(ButLast(s))
<1> DEFINE p == ButLast(s)
<1>1. /\ DOMAIN p = 1..(Len(s) - 1) /\ DOMAIN s = 1..Len(s)
      /\ Len(s) \in Nat \ {0}
  BY PopFrames
<1>2. \A n \in DOMAIN p : p[n] = s[n]
  BY <1>1, PopFrames
<1>3. \A n \in DOMAIN s : n # Len(s) => n \in DOMAIN p
  BY <1>1
<1>4. \A n \in DOMAIN p : n \in DOMAIN s /\ n # Len(s)
  BY <1>1
<1>5. Len(s) \in DOMAIN s
  BY <1>1
<1> HIDE DEF p
<1>6. Files(p) = Files(s) \ {s[Len(s)].file}
  BY <1>2, <1>3, <1>4, <1>5 DEF Files, Apart
<1>7. Apart(p)
  BY <1>2, <1>4 DEF Apart
<1> QED
  BY <1>5, <1>6, <1>7 DEF p, Files

LEMMA PushFiles ==
  ASSUME NEW s \in Seq(Frame), NEW f \in Frame
  PROVE  /\ Append(s, f) \in Seq(Frame)
         /\ Files(Append(s, f)) = Files(s) \cup {f.file}
         /\ Apart(s) /\ f.file \notin Files(s) => Apart(Append(s, f))
<1> DEFINE p == Append(s, f)
<1>1. /\ DOMAIN p = DOMAIN s \cup {Len(s) + 1}
      /\ Len(s) + 1 \notin DOMAIN s
      /\ p[Len(s) + 1] = f
      /\ p \in Seq(Frame)
  OBVIOUS
<1>2. \A n \in DOMAIN s : p[n] = s[n]
  OBVIOUS
<1> HIDE DEF p
<1> QED
  BY <1>1, <1>2 DEF p, Files, Apart

LEMMA MembersAppend ==
  ASSUME NEW s \in Seq(File), NEW e \in File
  PROVE  /\ Append(s, e) \in Seq(File)
         /\ Members(Append(s, e)) = Members(s) \cup {e}
         /\ Unique(s) /\ e \notin Members(s) => Unique(Append(s, e))
<1> DEFINE p == Append(s, e)
<1>1. /\ DOMAIN p = DOMAIN s \cup {Len(s) + 1}
      /\ Len(s) + 1 \notin DOMAIN s
      /\ p[Len(s) + 1] = e
      /\ p \in Seq(File)
  OBVIOUS
<1>2. \A n \in DOMAIN s : p[n] = s[n]
  OBVIOUS
<1> HIDE DEF p
<1> QED
  BY <1>1, <1>2 DEF p, Members, Unique

-----------------------------------------------------------------------------
(* Types                                                                    *)

LEMMA TopType ==
  ASSUME TypeOK, stack # <<>>
  PROVE  /\ Top = stack[Len(stack)] /\ Top \in Frame
         /\ Len(stack) \in DOMAIN stack /\ Len(stack) \in Nat \ {0}
         /\ Top.file \in File /\ Top.file \in Open
         /\ text[Top.file] \in Seq(Import)
<1>1. stack \in Seq(Frame) /\ text \in [File -> Seq(Import)]
  BY DEF TypeOK, Frame
<1>2. Top \in Frame /\ Len(stack) \in DOMAIN stack /\ Len(stack) \in Nat \ {0}
  BY <1>1, PopFrames DEF Top
<1>3. Top.file \in File
  BY <1>2 DEF Frame
<1> QED
  BY <1>1, <1>2, <1>3 DEF Top, Open

LEMMA ChildType ==
  ASSUME TypeOK, NEW f \in File, NEW k \in DOMAIN text[f]
  PROVE  /\ Child(text[f][k]) \in File \cup {NoFile}
         /\ Child(text[f][k]) \in Children(text, f)
<1>1. text[f] \in Seq(Import)
  BY DEF TypeOK
<1>2. text[f][k] \in Import
  BY <1>1
<1>3. text[f][k] \in Imports(text, f)
  BY DEF Imports
<1>4. Child(text[f][k]) \in File \cup {NoFile}
  BY <1>2, TreeAssumption DEF Child, Spelling, Import
<1> QED
  BY <1>3, <1>4 DEF Children

LEMMA GoalType ==
  ASSUME TypeOK, Due
  PROVE  Goal \in File \cup {NoFile}
<1>1. CASE stack = <<>>
  BY <1>1, TreeAssumption DEF Goal
<1>2. CASE stack # <<>>
  BY <1>2, TopType, ChildType DEF Goal, Due
<1> QED
  BY <1>1, <1>2

LEMMA LeaveType ==
  ASSUME TypeOK, Leave
  PROVE  lost' \subseteq File \X (Nat \ {0})
<1>1. stack # <<>> => Top.file \in File /\ Top.next \in Nat \ {0}
  BY TopType DEF Frame
<1> QED
  BY <1>1 DEF Leave, TypeOK

LEMMA TypeInit == Init => TypeOK
BY DEF Init, TypeOK

LEMMA TypeStep == TypeOK /\ [Next]_vars => TypeOK'
<1> SUFFICES ASSUME TypeOK, [Next]_vars PROVE TypeOK'
  OBVIOUS
<1> USE DEF disk
<1>0. /\ stack \in Seq(Frame) /\ mods \in Seq(File) /\ emitted \in Seq(File)
      /\ owned \subseteq File /\ lost \subseteq File \X (Nat \ {0})
  BY DEF TypeOK, Frame
<1>f. ASSUME NEW code \in {"E27", "E28", "syntax"}, Fail(code),
             mods' \in Seq(File), owned' \subseteq File,
             lost' \subseteq File \X (Nat \ {0})
      PROVE  TypeOK'
  BY <1>f DEF Fail, TypeOK
<1>p. ASSUME stack # <<>>
      PROVE  /\ Pop \in Seq(Frame) /\ Advance(Pop) \in Seq(Frame)
             /\ Append(mods, Top.file) \in Seq(File)
             /\ Append(emitted, Top.file) \in Seq(File)
  <2>1. Pop \in Seq(Frame)
    BY <1>0, <1>p, PopFrames DEF Pop, ButLast
  <2>2. Top.file \in File
    BY <1>p, TopType
  <2> QED
    BY <2>1, <2>2, <1>0, AdvanceFrames, MembersAppend
<1>1. CASE NotFound
  BY <1>1, <1>0, <1>f DEF NotFound
<1>2. CASE Circular
  BY <1>2, <1>0, <1>f, LeaveType DEF Circular
<1>3. CASE Skip
  <2>1. stack' \in Seq(Frame) /\ lost' \subseteq File \X (Nat \ {0})
    BY <1>3, <1>0, AdvanceFrames, LeaveType DEF Skip
  <2> QED
    BY <2>1, <1>3 DEF Skip, TypeOK, Frame
<1>4. CASE NestedTooDeep
  BY <1>4, <1>0, <1>f, LeaveType DEF NestedTooDeep
<1>5. CASE Unreadable
  BY <1>5, <1>0, <1>f DEF Unreadable
<1>6. CASE ParseError
  <2>1. Goal \in File
    BY <1>6 DEF ParseError, Readable, Fresh
  <2>2. mods' \in Seq(File) /\ owned' \subseteq File
    BY <2>1, <1>6, <1>0, MembersAppend DEF ParseError
  <2> QED
    BY <2>2, <1>6, <1>0, <1>f DEF ParseError
<1>7. CASE Descend
  <2>1. Goal \in File
    BY <1>7 DEF Descend, Readable, Fresh
  <2>2. [file |-> Goal, next |-> 1] \in Frame
    BY <2>1 DEF Frame
  <2>3. stack' \in Seq(Frame)
    BY <2>2, <1>7, <1>0, PushFiles DEF Descend
  <2> QED
    BY <2>1, <2>3, <1>7 DEF Descend, TypeOK, Frame
<1>8. CASE Finish
  <2>1. /\ stack' \in Seq(Frame)
        /\ mods' \in Seq(File) /\ emitted' \in Seq(File)
    BY <1>8, <1>p DEF Finish, AtEnd
  <2> QED
    BY <2>1, <1>8 DEF Finish, TypeOK, Frame
<1>9. CASE Unwind
  <2>1. stack' \in Seq(Frame) /\ mods' \in Seq(File)
    BY <1>9, <1>p DEF Unwind
  <2> QED
    BY <2>1, <1>9 DEF Unwind, TypeOK, Frame
<1>10. CASE Free
  <2>1. mods' \in Seq(File)
    BY <1>10 DEF Free
  <2> QED
    BY <2>1, <1>10 DEF Free, TypeOK
<1>11. CASE UNCHANGED vars
  BY <1>11 DEF vars, TypeOK
<1> QED
  BY <1>1, <1>2, <1>3, <1>4, <1>5, <1>6, <1>7, <1>8, <1>9, <1>10, <1>11
     DEF Next, Load

\* The loader's variables always have their types.
THEOREM TypeCorrect == Spec => []TypeOK
<1>1. Init => TypeOK
  BY TypeInit
<1>2. TypeOK /\ [Next]_vars => TypeOK'
  BY TypeStep
<1> QED
  BY <1>1, <1>2, PTL DEF Spec

-----------------------------------------------------------------------------
(* One owner for each module                                                *)

LEMMA OwnerInit == Init => OneOwner
BY DEF Init, OneOwner, Open, Members, Unique

LEMMA OwnerStep == TypeOK /\ OneOwner /\ [Next]_vars => OneOwner'
<1> SUFFICES ASSUME TypeOK, OneOwner, [Next]_vars PROVE OneOwner'
  OBVIOUS
<1> USE DEF disk
<1>0. stack \in Seq(Frame) /\ mods \in Seq(File)
  BY DEF TypeOK, Frame
<1>a. /\ Open = Files(stack)
      /\ Open' = Files(stack')
  BY DEF Open, Files
<1>b. /\ owned = Files(stack) \cup Members(mods) /\ Apart(stack)
      /\ Unique(mods) /\ Files(stack) \cap Members(mods) = {}
  BY <1>a DEF OneOwner, Apart
<1>c. ASSUME owned' = Files(stack') \cup Members(mods'), Apart(stack'),
             Unique(mods'), Files(stack') \cap Members(mods') = {}
      PROVE  OneOwner'
  BY <1>a, <1>c DEF OneOwner, Apart, Members, Unique
<1>f. ASSUME UNCHANGED <<stack, mods, owned>> PROVE OneOwner'
  BY <1>f DEF OneOwner, Open, Members, Unique
<1>m. ASSUME stack # <<>>, stack' \in {Pop, Advance(Pop)},
             mods' = Append(mods, Top.file), owned' = owned
      PROVE  OneOwner'
  <2>1. /\ Pop = ButLast(stack) /\ Pop \in Seq(Frame) /\ Top.file \in File
        /\ Top = stack[Len(stack)]
    BY <1>0, <1>m, PopFrames, TopType DEF Pop, ButLast
  <2>2. /\ Files(Pop) = Files(stack) \ {Top.file} /\ Apart(Pop)
        /\ Top.file \in Files(stack)
    BY <2>1, <1>0, <1>b, <1>m, PopFiles
  <2>3. Files(stack') = Files(stack) \ {Top.file} /\ Apart(stack')
    BY <2>1, <2>2, <1>m, AdvanceFiles
  <2>4. Members(mods') = Members(mods) \cup {Top.file} /\ Unique(mods')
    BY <2>1, <2>2, <1>0, <1>b, <1>m, MembersAppend
  <2> QED
    BY <2>2, <2>3, <2>4, <1>b, <1>c, <1>m
<1>1. CASE NotFound
  BY <1>1, <1>f DEF NotFound, Fail
<1>2. CASE Circular
  BY <1>2, <1>f DEF Circular, Fail
<1>3. CASE Skip
  <2>1. Files(stack') = Files(stack) /\ Apart(stack')
    BY <1>3, <1>0, <1>b, AdvanceFiles DEF Skip
  <2> QED
    BY <2>1, <1>3, <1>b, <1>c DEF Skip
<1>4. CASE NestedTooDeep
  BY <1>4, <1>f DEF NestedTooDeep, Fail
<1>5. CASE Unreadable
  BY <1>5, <1>f DEF Unreadable, Fail
<1>6. CASE ParseError
  <2>1. Goal \in File /\ Goal \notin Files(stack) /\ Goal \notin Members(mods)
    BY <1>6, <1>a DEF ParseError, Readable, Fresh
  <2>2. Members(mods') = Members(mods) \cup {Goal} /\ Unique(mods')
    BY <2>1, <1>6, <1>0, <1>b, MembersAppend DEF ParseError
  <2> QED
    BY <2>1, <2>2, <1>6, <1>b, <1>c DEF ParseError, Fail
<1>7. CASE Descend
  <2>1. Goal \in File /\ Goal \notin Files(stack) /\ Goal \notin Members(mods)
    BY <1>7, <1>a DEF Descend, Readable, Fresh
  <2> DEFINE g == [file |-> Goal, next |-> 1]
  <2>2. g \in Frame /\ g.file = Goal
    BY <2>1 DEF Frame
  <2>3. stack' = Append(stack, g)
    BY <1>7 DEF Descend
  <2> HIDE DEF g
  <2>4. Files(stack') = Files(stack) \cup {Goal} /\ Apart(stack')
    BY <2>1, <2>2, <2>3, <1>0, <1>b, PushFiles
  <2> QED
    BY <2>1, <2>4, <1>7, <1>b, <1>c DEF Descend
<1>8. CASE Finish
  BY <1>8, <1>m DEF Finish, AtEnd
<1>9. CASE Unwind
  BY <1>9, <1>m DEF Unwind
<1>10. CASE Free
  <2>1. Files(stack') = {} /\ Members(mods') = {} /\ Files(stack) = {}
    BY <1>10 DEF Free, Files, Members
  <2>2. Unique(mods') /\ Apart(stack')
    BY <1>10 DEF Free, Unique, Apart
  <2>3. owned' = owned \ Members(mods)
    BY <1>10 DEF Free
  <2> QED
    BY <2>1, <2>2, <2>3, <1>b, <1>c
<1>11. CASE UNCHANGED vars
  BY <1>11, <1>f DEF vars
<1> QED
  BY <1>1, <1>2, <1>3, <1>4, <1>5, <1>6, <1>7, <1>8, <1>9, <1>10, <1>11
     DEF Next, Load

\* Each source buffer and arena has one owner in every state of a load, also
\* while a failure unwinds: nothing leaks and nothing is released twice.
THEOREM Ownership == Spec => []OneOwner
<1>1. Init => OneOwner
  BY OwnerInit
<1>2. TypeOK /\ OneOwner /\ [Next]_vars => OneOwner'
  BY OwnerStep
<1> QED
  BY <1>1, <1>2, TypeCorrect, PTL DEF Spec

-----------------------------------------------------------------------------
(* The way down, and the order of the modules                               *)

\* A frame is at a readable, reachable file, past imports that are all done.
Sound(f, done, tx, kd) == /\ kd[f.file] = "fine" /\ f.file \in Reach(tx)
                          /\ f.next <= Len(tx[f.file]) + 1
                          /\ \A k \in 1..(f.next - 1) : Child(tx[f.file][k]) \in done

\* It waits for the file of the frame above it.
Leads(f, g, tx) == /\ f.next \in DOMAIN tx[f.file]
                   /\ Child(tx[f.file][f.next]) = g.file

WayDown(s, done, tx, kd) ==
  /\ s # <<>> => s[1].file = FileOf[Root]
  /\ \A n \in DOMAIN s : Sound(s[n], done, tx, kd)
  /\ \A n \in DOMAIN s : n + 1 \in DOMAIN s => Leads(s[n], s[n + 1], tx)
  /\ Len(s) <= MaxDepth

Descending ==
  verdict = "loading" => /\ WayDown(stack, Members(emitted), text, kind)
                         /\ mods = emitted
                         /\ stack = <<>> => emitted = <<>>

Ordered(e, tx, kd) ==
  /\ Unique(e)
  /\ \A n \in DOMAIN e : /\ kd[e[n]] = "fine" /\ e[n] \in Reach(tx)
                         /\ Children(tx, e[n]) \subseteq {e[m] : m \in 1..(n - 1)}

RootIn == verdict = "ok" => stack = <<>> /\ FileOf[Root] \in Members(emitted)

Inv == /\ TypeOK /\ OneOwner
       /\ Descending /\ Ordered(emitted, text, kind) /\ RootIn

LEMMA ReachRoot ==
  ASSUME NEW tx, FileOf[Root] \in File
  PROVE  FileOf[Root] \in Reach(tx)
BY DEF Reach

LEMMA ReachChild ==
  ASSUME NEW tx, NEW f \in Reach(tx), NEW g \in File, g \in Children(tx, f)
  PROVE  g \in Reach(tx)
<1>1. ASSUME NEW S \in SUBSET File, FileOf[Root] \in S, Closed(tx, S)
      PROVE  g \in S
  <2>1. f \in S
    BY <1>1 DEF Reach
  <2> QED
    BY <2>1, <1>1 DEF Closed
<1> QED
  BY <1>1 DEF Reach

\* What the loader is about to load is reachable.
LEMMA GoalReach ==
  ASSUME TypeOK, Descending, Due
  PROVE  /\ stack = <<>> => Goal = FileOf[Root]
         /\ stack # <<>> => /\ Goal \in Children(text, Top.file)
                            /\ Top.file \in Reach(text)
                            /\ Top.next \in DOMAIN text[Top.file]
                            /\ Goal = Child(text[Top.file][Top.next])
         /\ Goal \in File => Goal \in Reach(text)
<1>1. CASE stack = <<>>
  BY <1>1, ReachRoot DEF Goal
<1>2. CASE stack # <<>>
  <2>1. /\ Top.file \in File /\ Top = stack[Len(stack)]
        /\ Len(stack) \in DOMAIN stack
    BY <1>2, TopType
  <2>2. Top.next \in DOMAIN text[Top.file] /\ Goal = Child(text[Top.file][Top.next])
    BY <1>2 DEF Due, Goal
  <2>3. Goal \in Children(text, Top.file)
    BY <2>1, <2>2, ChildType
  <2>4. Top.file \in Reach(text)
    BY <2>1 DEF Descending, Due, WayDown, Sound
  <2> QED
    BY <1>2, <2>2, <2>3, <2>4, ReachChild
<1> QED
  BY <1>1, <1>2

LEMMA SoundNext ==
  ASSUME NEW f \in Frame, NEW g \in Frame, NEW done, NEW more, NEW tx, NEW kd,
         Sound(f, done, tx, kd), done \subseteq more,
         g.file = f.file, g.next = f.next + 1,
         tx[f.file] \in Seq(Import), f.next \in DOMAIN tx[f.file],
         Child(tx[f.file][f.next]) \in more
  PROVE  Sound(g, more, tx, kd)
<1>1. f.next \in Nat /\ f.next <= Len(tx[f.file]) /\ Len(tx[f.file]) \in Nat
  BY DEF Frame
<1>2. g.next <= Len(tx[g.file]) + 1
  BY <1>1
<1>3. ASSUME NEW k \in 1..(g.next - 1) PROVE Child(tx[g.file][k]) \in more
  <2>1. k \in 1..(f.next - 1) \/ k = f.next
    BY <1>1
  <2> QED
    BY <2>1 DEF Sound
<1> QED
  BY <1>2, <1>3 DEF Sound

\* When the top frame is past all its imports, they are all done.
LEMMA AllDone ==
  ASSUME NEW f \in Frame, NEW done, NEW tx, NEW kd, Sound(f, done, tx, kd),
         tx[f.file] \in Seq(Import), f.next \notin DOMAIN tx[f.file]
  PROVE  Children(tx, f.file) \subseteq done
<1>1. f.next \in Nat \ {0} /\ Len(tx[f.file]) \in Nat
  BY DEF Frame
<1>2. f.next = Len(tx[f.file]) + 1
  BY <1>1 DEF Sound
<1>3. \A k \in DOMAIN tx[f.file] : k \in 1..(f.next - 1)
  BY <1>1, <1>2
<1>4. \A k \in DOMAIN tx[f.file] : Child(tx[f.file][k]) \in done
  BY <1>3 DEF Sound
<1> QED
  BY <1>4 DEF Children, Imports

LEMMA OrderedAppend ==
  ASSUME NEW e \in Seq(File), NEW f \in File, NEW tx, NEW kd,
         Ordered(e, tx, kd), f \notin Members(e),
         kd[f] = "fine", f \in Reach(tx), Children(tx, f) \subseteq Members(e)
  PROVE  Ordered(Append(e, f), tx, kd)
<1> DEFINE p == Append(e, f)
<1>1. /\ DOMAIN p = 1..(Len(e) + 1) /\ DOMAIN e = 1..Len(e) /\ Len(e) \in Nat
      /\ p[Len(e) + 1] = f
  OBVIOUS
<1>2. \A n \in 1..Len(e) : p[n] = e[n]
  OBVIOUS
<1>3. Unique(p)
  BY MembersAppend DEF Ordered
<1> HIDE DEF p
<1>4. ASSUME NEW n \in 1..Len(e)
      PROVE  /\ kd[p[n]] = "fine" /\ p[n] \in Reach(tx)
             /\ Children(tx, p[n]) \subseteq {p[m] : m \in 1..(n - 1)}
  <2>1. \A m \in 1..(n - 1) : p[m] = e[m]
    BY <1>1, <1>2
  <2>2. {e[m] : m \in 1..(n - 1)} = {p[m] : m \in 1..(n - 1)}
    BY <2>1
  <2> QED
    BY <2>2, <1>1, <1>2 DEF Ordered
<1>5. Children(tx, f) \subseteq {p[m] : m \in 1..(Len(e) + 1 - 1)}
  <2>1. Members(e) = {p[m] : m \in 1..Len(e)}
    BY <1>1, <1>2 DEF Members
  <2>2. Len(e) + 1 - 1 = Len(e)
    BY <1>1
  <2> QED
    BY <2>1, <2>2
<1>6. \A n \in DOMAIN p : n \in 1..Len(e) \/ n = Len(e) + 1
  BY <1>1
<1>7. ASSUME NEW n \in DOMAIN p
      PROVE  /\ kd[p[n]] = "fine" /\ p[n] \in Reach(tx)
             /\ Children(tx, p[n]) \subseteq {p[m] : m \in 1..(n - 1)}
  <2>1. CASE n \in 1..Len(e)
    BY <2>1, <1>4
  <2>2. CASE n = Len(e) + 1
    BY <2>2, <1>1, <1>5
  <2> QED
    BY <2>1, <2>2, <1>6
<1> QED
  BY <1>3, <1>7 DEF Ordered, p

LEMMA InvInit == Init => Inv
<1> SUFFICES ASSUME Init PROVE Inv
  OBVIOUS
<1>1. TypeOK /\ OneOwner
  BY TypeInit, OwnerInit
<1>2. Descending
  <2>1. WayDown(stack, Members(emitted), text, kind)
    BY TreeAssumption DEF Init, WayDown
  <2> QED
    BY <2>1 DEF Init, Descending
<1>3. Ordered(emitted, text, kind)
  BY DEF Init, Ordered, Unique
<1>4. RootIn
  BY DEF Init, RootIn
<1> QED
  BY <1>1, <1>2, <1>3, <1>4 DEF Inv

\* A frame stack stays a way down when its top frame advances past a file that
\* is done.
LEMMA WayDownAdvance ==
  ASSUME NEW s \in Seq(Frame), s # <<>>, NEW done, NEW more,
         text \in [File -> Seq(Import)],
         WayDown(s, done, text, kind), done \subseteq more,
         s[Len(s)].next \in DOMAIN text[s[Len(s)].file],
         Child(text[s[Len(s)].file][s[Len(s)].next]) \in more
  PROVE  WayDown(Advance(s), more, text, kind)
<1> DEFINE a == Advance(s)
<1>1. /\ a \in Seq(Frame) /\ Len(a) = Len(s) /\ DOMAIN a = DOMAIN s
      /\ DOMAIN s = 1..Len(s) /\ Len(s) \in Nat \ {0}
  BY AdvanceFrames
<1>2. \A n \in DOMAIN s : a[n].file = s[n].file
  BY <1>1, AdvanceFrames
<1>3. \A n \in DOMAIN s : n # Len(s) => a[n] = s[n]
  BY <1>1, AdvanceFrames
<1>4. a[Len(s)].next = s[Len(s)].next + 1
  BY <1>1, AdvanceFrames
<1>5. \A n \in DOMAIN s : a[n] \in Frame /\ s[n] \in Frame
  BY <1>1
<1> HIDE DEF a
<1>6. ASSUME NEW n \in DOMAIN a PROVE Sound(a[n], more, text, kind)
  <2>1. CASE n = Len(s)
    <3>1. text[s[n].file] \in Seq(Import)
      BY <1>1, <1>5 DEF Frame
    <3>2. Sound(s[n], done, text, kind)
      BY <1>1 DEF WayDown
    <3>3. a[n].file = s[n].file /\ a[n].next = s[n].next + 1
      BY <2>1, <1>1, <1>2, <1>4
    <3>4. s[n].next \in DOMAIN text[s[n].file] /\ Child(text[s[n].file][s[n].next]) \in more
      BY <2>1
    <3> QED
      BY <3>1, <3>2, <3>3, <3>4, <1>1, <1>5, SoundNext
  <2>2. CASE n # Len(s)
    BY <2>2, <1>1, <1>3 DEF WayDown, Sound
  <2> QED
    BY <2>1, <2>2
<1>7. ASSUME NEW n \in DOMAIN a, n + 1 \in DOMAIN a
      PROVE  Leads(a[n], a[n + 1], text)
  <2>1. n # Len(s) /\ n \in DOMAIN s /\ n + 1 \in DOMAIN s
    BY <1>1, <1>7
  <2> QED
    BY <2>1, <1>2, <1>3 DEF WayDown, Leads
<1>8. Len(a) <= MaxDepth
  BY <1>1 DEF WayDown
<1>9. a[1].file = FileOf[Root]
  BY <1>1, <1>2, SMTT(40) DEF WayDown
<1> QED
  BY <1>6, <1>7, <1>8, <1>9 DEF WayDown, a

LEMMA WayDownPush ==
  ASSUME NEW s \in Seq(Frame), NEW done, NEW g \in Frame,
         text \in [File -> Seq(Import)],
         WayDown(s, done, text, kind), Len(s) < MaxDepth,
         g.next = 1, kind[g.file] = "fine", g.file \in Reach(text),
         s = <<>> => g.file = FileOf[Root],
         s # <<>> => Leads(s[Len(s)], g, text)
  PROVE  WayDown(Append(s, g), done, text, kind)
<1> DEFINE a == Append(s, g)
<1>1. /\ a \in Seq(Frame) /\ Len(a) = Len(s) + 1
      /\ DOMAIN a = 1..(Len(s) + 1) /\ DOMAIN s = 1..Len(s) /\ Len(s) \in Nat
      /\ a[Len(s) + 1] = g
  OBVIOUS
<1>2. \A n \in 1..Len(s) : a[n] = s[n]
  OBVIOUS
<1> HIDE DEF a
<1>3. Sound(g, done, text, kind)
  <2>1. Len(text[g.file]) \in Nat
    BY DEF Frame
  <2> QED
    BY <2>1 DEF Sound
<1>4. ASSUME NEW n \in DOMAIN a PROVE Sound(a[n], done, text, kind)
  <2>1. CASE n \in 1..Len(s)
    BY <2>1, <1>1, <1>2 DEF WayDown
  <2>2. CASE n = Len(s) + 1
    BY <2>2, <1>1, <1>3
  <2> QED
    BY <2>1, <2>2, <1>1
<1>5. ASSUME NEW n \in DOMAIN a, n + 1 \in DOMAIN a
      PROVE  Leads(a[n], a[n + 1], text)
  <2>1. n \in 1..Len(s)
    BY <1>1, <1>5
  <2>2. CASE n = Len(s)
    <3>1. s # <<>>
      BY <2>1
    <3>2. a[n] = s[Len(s)] /\ a[n + 1] = g
      BY <2>1, <2>2, <1>1, <1>2
    <3> QED
      BY <3>1, <3>2
  <2>3. CASE n # Len(s)
    <3>1. n \in DOMAIN s /\ n + 1 \in DOMAIN s
      BY <2>1, <2>3, <1>1
    <3> QED
      BY <3>1, <1>1, <1>2 DEF WayDown
  <2> QED
    BY <2>2, <2>3
<1>6. Len(a) <= MaxDepth
  BY <1>1, TreeAssumption
<1>7. a[1].file = FileOf[Root]
  <2>1. CASE s = <<>>
    BY <2>1, <1>1
  <2>2. CASE s # <<>>
    <3>1. 1 \in 1..Len(s)
      BY <2>2
    <3> QED
      BY <2>2, <3>1, <1>2 DEF WayDown
  <2> QED
    BY <2>1, <2>2
<1> QED
  BY <1>4, <1>5, <1>6, <1>7 DEF WayDown, a

LEMMA WayDownPop ==
  ASSUME NEW s \in Seq(Frame), s # <<>>, NEW done, NEW more,
         WayDown(s, done, text, kind), done \subseteq more
  PROVE  /\ WayDown(ButLast(s), more, text, kind)
         /\ ButLast(s) # <<>> =>
              Leads(ButLast(s)[Len(ButLast(s))], s[Len(s)], text)
<1> DEFINE p == ButLast(s)
<1>1. /\ p \in Seq(Frame) /\ Len(p) = Len(s) - 1
      /\ DOMAIN p = 1..(Len(s) - 1) /\ DOMAIN s = 1..Len(s)
      /\ Len(s) \in Nat \ {0}
  BY PopFrames
<1>2. \A n \in 1..(Len(s) - 1) : p[n] = s[n]
  BY PopFrames
<1> HIDE DEF p
<1>3. ASSUME NEW n \in DOMAIN p PROVE Sound(p[n], more, text, kind)
  <2>1. n \in DOMAIN s /\ p[n] = s[n]
    BY <1>1, <1>2
  <2> QED
    BY <2>1 DEF WayDown, Sound
<1>4. ASSUME NEW n \in DOMAIN p, n + 1 \in DOMAIN p
      PROVE  Leads(p[n], p[n + 1], text)
  <2>1. n \in DOMAIN s /\ n + 1 \in DOMAIN s
    BY <1>1, <1>4
  <2> QED
    BY <2>1, <1>1, <1>2, <1>4 DEF WayDown
<1>5. Len(p) <= MaxDepth
  BY <1>1, TreeAssumption DEF WayDown
<1>6. p # <<>> => 1 \in 1..(Len(s) - 1)
  BY <1>1
<1>7. p # <<>> => p[1].file = FileOf[Root]
  BY <1>2, <1>6 DEF WayDown
<1>8. p # <<>> => Leads(p[Len(p)], s[Len(s)], text)
  <2>1. SUFFICES ASSUME p # <<>> PROVE Leads(s[Len(s) - 1], s[Len(s)], text)
    BY <1>1, <1>2, <1>6
  <2>2. Len(s) - 1 \in DOMAIN s /\ (Len(s) - 1) + 1 \in DOMAIN s /\ (Len(s) - 1) + 1 = Len(s)
    BY <2>1, <1>1, <1>6
  <2>3. Leads(s[Len(s) - 1], s[(Len(s) - 1) + 1], text)
    BY <2>2 DEF WayDown
  <2> QED
    BY <2>2, <2>3
<1>9. WayDown(p, more, text, kind)
  BY <1>3, <1>4, <1>5, <1>7 DEF WayDown
<1> QED
  BY <1>8, <1>9 DEF p

LEMMA DescendingStep == Inv /\ [Next]_vars => Descending'
<1> SUFFICES ASSUME Inv, [Next]_vars, verdict' = "loading" PROVE Descending'
  BY DEF Descending
<1> USE DEF disk
<1>0. /\ TypeOK /\ stack \in Seq(Frame) /\ mods \in Seq(File)
      /\ text \in [File -> Seq(Import)] /\ emitted \in Seq(File)
  BY DEF Inv, TypeOK, Frame
<1>a. ASSUME verdict = "loading"
      PROVE  /\ WayDown(stack, Members(emitted), text, kind)
             /\ mods = emitted
             /\ stack = <<>> => emitted = <<>>
  BY <1>a DEF Inv, Descending
<1>g. ASSUME UNCHANGED disk, mods' = emitted',
             WayDown(stack', Members(emitted'), text, kind),
             stack' = <<>> => emitted' = <<>>
      PROVE  Descending'
  <2>1. Members(emitted)' = Members(emitted')
    BY DEF Members
  <2>2. WayDown(stack', Members(emitted)', text', kind')
    BY <1>g, <2>1
  <2>3. WayDown(stack, Members(emitted), text, kind)'
    BY <2>2 DEF WayDown, Sound, Leads, Reach, Closed, Children, Imports, Child, Spelling
  <2> QED
    BY <1>g, <2>3 DEF Descending
<1>f. ASSUME NEW code \in {"E27", "E28", "syntax"}, Fail(code) PROVE FALSE
  BY <1>f DEF Fail
<1>1. CASE NotFound
  BY <1>1, <1>f DEF NotFound
<1>2. CASE Circular
  BY <1>2, <1>f DEF Circular
<1>3. CASE Skip
  <2>1. verdict = "loading" /\ Due /\ Goal \in Members(mods)
    BY <1>3 DEF Skip, Due
  <2>2. stack # <<>>
    BY <2>1, <1>a DEF Members
  <2>3. /\ Top = stack[Len(stack)] /\ Top.next \in DOMAIN text[Top.file]
        /\ Goal = Child(text[Top.file][Top.next])
    BY <2>1, <2>2 DEF Top, Due, Goal
  <2>4. WayDown(Advance(stack), Members(emitted), text, kind)
    BY <2>1, <2>2, <2>3, <1>0, <1>a, WayDownAdvance
  <2>5. stack' # <<>>
    BY <2>2, <1>3, <1>0, AdvanceFrames DEF Skip
  <2> QED
    BY <2>1, <2>4, <2>5, <1>3, <1>a, <1>g DEF Skip
<1>4. CASE NestedTooDeep
  BY <1>4, <1>f DEF NestedTooDeep
<1>5. CASE Unreadable
  BY <1>5, <1>f DEF Unreadable
<1>6. CASE ParseError
  BY <1>6, <1>f DEF ParseError
<1>7. CASE Descend
  <2>1. /\ verdict = "loading" /\ Due /\ Goal \in File /\ kind[Goal] = "fine"
        /\ Len(stack) < MaxDepth
    BY <1>7 DEF Descend, Readable, Fresh, Due
  <2>2. /\ stack = <<>> => Goal = FileOf[Root]
        /\ stack # <<>> => /\ Top.next \in DOMAIN text[Top.file]
                           /\ Goal = Child(text[Top.file][Top.next])
        /\ Goal \in Reach(text)
    BY <2>1, <1>0, GoalReach DEF Inv
  <2> DEFINE g == [file |-> Goal, next |-> 1]
  <2>3. g \in Frame /\ g.file = Goal /\ g.next = 1
    BY <2>1 DEF Frame
  <2>4. stack' = Append(stack, g)
    BY <1>7 DEF Descend
  <2> HIDE DEF g
  <2>5. stack # <<>> => Leads(stack[Len(stack)], g, text)
    BY <2>2, <2>3 DEF Leads, Top
  <2>6. WayDown(Append(stack, g), Members(emitted), text, kind)
    BY <2>1, <2>2, <2>3, <2>5, <1>0, <1>a, WayDownPush
  <2>7. stack' # <<>>
    BY <2>4, <1>0
  <2> QED
    BY <2>1, <2>4, <2>6, <2>7, <1>7, <1>a, <1>g DEF Descend
<1>8. CASE Finish
  <2>1. /\ verdict = "loading" /\ stack # <<>> /\ Pop # <<>>
        /\ stack' = Advance(Pop)
        /\ mods' = Append(mods, Top.file) /\ emitted' = Append(emitted, Top.file)
        /\ UNCHANGED disk
    BY <1>8 DEF Finish, AtEnd
  <2>2. Top \in Frame /\ Top.file \in File /\ Top = stack[Len(stack)]
    BY <2>1, <1>0, TopType
  <2>3. Members(emitted') = Members(emitted) \cup {Top.file}
    BY <2>1, <2>2, <1>0, MembersAppend
  <2>4. Pop = ButLast(stack) /\ Pop \in Seq(Frame)
    BY <2>1, <1>0, PopFrames DEF Pop, ButLast
  <2>5. /\ WayDown(Pop, Members(emitted'), text, kind)
        /\ Leads(Pop[Len(Pop)], Top, text)
    BY <2>1, <2>2, <2>3, <2>4, <1>0, <1>a, WayDownPop
  <2>6. WayDown(Advance(Pop), Members(emitted'), text, kind)
    BY <2>1, <2>3, <2>4, <2>5, <1>0, WayDownAdvance DEF Leads
  <2>7. stack' # <<>>
    BY <2>1, <2>4, AdvanceFrames
  <2> QED
    BY <2>1, <2>6, <2>7, <1>a, <1>g
<1>9. CASE Unwind
  BY <1>9 DEF Unwind, Failed
<1>10. CASE Free
  BY <1>10 DEF Free
<1>11. CASE UNCHANGED vars
  BY <1>11, <1>a, <1>g DEF vars
<1> QED
  BY <1>1, <1>2, <1>3, <1>4, <1>5, <1>6, <1>7, <1>8, <1>9, <1>10, <1>11
     DEF Next, Load

\* What a module that is finished is known to be.
LEMMA FinishFacts ==
  ASSUME Inv, Finish
  PROVE  /\ Top.file \in File /\ Top.file \notin Members(emitted)
         /\ kind[Top.file] = "fine" /\ Top.file \in Reach(text)
         /\ Children(text, Top.file) \subseteq Members(emitted)
         /\ Pop = <<>> <=> Top.file = FileOf[Root]
<1>1. /\ TypeOK /\ OneOwner /\ verdict = "loading" /\ stack # <<>>
      /\ Top.next \notin DOMAIN text[Top.file]
      /\ stack \in Seq(Frame) /\ mods = emitted
      /\ WayDown(stack, Members(emitted), text, kind)
  BY DEF Inv, Finish, AtEnd, Descending, TypeOK, Frame
<1>2. /\ Top = stack[Len(stack)] /\ Top \in Frame /\ Len(stack) \in DOMAIN stack
      /\ Top.file \in File /\ Top.file \in Open
      /\ text[Top.file] \in Seq(Import) /\ Len(stack) \in Nat \ {0}
  BY <1>1, TopType
<1>3. Sound(Top, Members(emitted), text, kind)
  BY <1>1, <1>2 DEF WayDown
<1>4. Children(text, Top.file) \subseteq Members(emitted)
  BY <1>1, <1>2, <1>3, AllDone
<1>5. Top.file \notin Members(emitted)
  BY <1>1, <1>2 DEF OneOwner
<1>6. Pop = <<>> <=> Len(stack) = 1
  <2>1. Pop \in Seq(Frame) /\ Len(Pop) = Len(stack) - 1
    BY <1>1, PopFrames DEF Pop, ButLast
  <2> QED
    BY <2>1, <1>2
<1>7. Len(stack) = 1 <=> Top.file = FileOf[Root]
  <2>1. 1 \in DOMAIN stack /\ stack[1].file = FileOf[Root]
    BY <1>1, <1>2 DEF WayDown
  <2> QED
    BY <2>1, <1>1, <1>2 DEF OneOwner
<1> QED
  BY <1>2, <1>3, <1>4, <1>5, <1>6, <1>7 DEF Sound

LEMMA OrderedStep == Inv /\ [Next]_vars => Ordered(emitted, text, kind)' /\ RootIn'
<1> SUFFICES ASSUME Inv, [Next]_vars
             PROVE  Ordered(emitted, text, kind)' /\ RootIn'
  OBVIOUS
<1>1. CASE Finish
  <2>1. /\ Top.file \in File /\ Top.file \notin Members(emitted)
        /\ kind[Top.file] = "fine" /\ Top.file \in Reach(text)
        /\ Children(text, Top.file) \subseteq Members(emitted)
        /\ Pop = <<>> <=> Top.file = FileOf[Root]
    BY <1>1, FinishFacts
  <2>2. /\ emitted' = Append(emitted, Top.file) /\ text' = text /\ kind' = kind
        /\ emitted \in Seq(File) /\ stack' = Advance(Pop)
        /\ verdict' = IF Pop = <<>> THEN "ok" ELSE verdict
        /\ verdict = "loading"
    BY <1>1 DEF Finish, disk, Inv, TypeOK
  <2>3. Ordered(Append(emitted, Top.file), text, kind)
    BY <2>1, <2>2, OrderedAppend DEF Inv
  <2>a. Ordered(emitted', text', kind')
    BY <2>2, <2>3
  <2>4. Ordered(emitted, text, kind)'
    BY <2>a DEF Ordered, Unique, Reach, Closed, Children, Imports, Child, Spelling
  <2>5. Members(emitted') = Members(emitted) \cup {Top.file}
    BY <2>1, <2>2, MembersAppend
  <2>6. RootIn'
    BY <2>1, <2>2, <2>5 DEF RootIn, Advance, Members
  <2> QED
    BY <2>4, <2>6
<1>2. CASE ~Finish
  <2>1. UNCHANGED <<text, kind, emitted>>
    BY <1>2 DEF Next, Load, NotFound, Circular, Skip, NestedTooDeep, Unreadable,
                ParseError, Descend, Unwind, Free, Fail, disk, vars
  <2>a. Ordered(emitted', text', kind')
    BY <2>1 DEF Inv
  <2>2. Ordered(emitted, text, kind)'
    BY <2>a DEF Ordered, Unique, Reach, Closed, Children, Imports, Child, Spelling
  <2>3. verdict' = "ok" => verdict = "ok"
    BY <1>2 DEF Next, Load, NotFound, Circular, Skip, NestedTooDeep, Unreadable,
                ParseError, Descend, Unwind, Free, Fail, vars
  <2>4. verdict = "ok" => stack' = stack
    <3>1. verdict = "ok" => stack = <<>>
      BY DEF Inv, RootIn
    <3> QED
      BY <3>1, <1>2 DEF Next, Load, NotFound, Circular, Skip, NestedTooDeep,
                Unreadable, ParseError, Descend, Unwind, Free, Fail, vars, Advance,
                Due, Fresh, Readable
  <2>5. RootIn'
    BY <2>1, <2>3, <2>4 DEF Inv, RootIn, Members
  <2> QED
    BY <2>2, <2>5
<1> QED
  BY <1>1, <1>2

THEOREM Invariance == Spec => []Inv
<1>1. Init => Inv
  BY InvInit
<1>2. Inv /\ [Next]_vars => Inv'
  BY TypeStep, OwnerStep, DescendingStep, OrderedStep DEF Inv
<1> QED
  BY <1>1, <1>2, PTL DEF Spec

-----------------------------------------------------------------------------
(* The promise is kept                                                      *)

LEMMA BelowTop ==
  ASSUME NEW l \in Nat, NEW b \in 1..l, NEW n \in b..l, n # l
  PROVE  n \in 1..l /\ n + 1 \in 1..l /\ n + 1 \in b..l
OBVIOUS

\* A file on the stack that is asked for again closes a cycle: from its frame
\* up, each file imports the next.
LEMMA CircularIsCyclic == ASSUME Inv, Circular PROVE Cyclic(text)
<1>1. /\ TypeOK /\ Due /\ verdict = "loading" /\ Goal \in Open
      /\ WayDown(stack, Members(emitted), text, kind) /\ stack \in Seq(Frame)
  BY DEF Inv, Circular, Due, Descending, TypeOK, Frame
<1>2. PICK b \in DOMAIN stack : stack[b].file = Goal
  BY <1>1 DEF Open
<1>3. /\ stack # <<>> /\ Len(stack) \in Nat /\ DOMAIN stack = 1..Len(stack)
      /\ b \in 1..Len(stack)
  BY <1>1, <1>2
<1>b. Len(stack) \in b..Len(stack) /\ b \in b..Len(stack)
  BY <1>3
<1>4. Top = stack[Len(stack)] /\ Goal \in Children(text, Top.file)
  BY <1>1, <1>3, GoalReach DEF Inv, Top
<1> DEFINE C == {stack[n].file : n \in b..Len(stack)}
<1>5. C \subseteq Reach(text)
  BY <1>1, <1>3 DEF WayDown, Sound
<1>6. C # {}
  BY <1>b
<1>7. ASSUME NEW n \in b..Len(stack)
      PROVE  Children(text, stack[n].file) \cap C # {}
  <2>1. CASE n = Len(stack)
    <3>1. Goal \in C
      BY <1>2, <1>b
    <3> QED
      BY <3>1, <2>1, <1>4
  <2>2. CASE n # Len(stack)
    <3>1. n \in DOMAIN stack /\ n + 1 \in DOMAIN stack /\ n + 1 \in b..Len(stack)
      BY <2>2, <1>3, BelowTop
    <3>2. Leads(stack[n], stack[n + 1], text)
      BY <3>1, <1>1 DEF WayDown
    <3>a. stack[n] \in Frame
      BY <3>1, <1>1
    <3>3. stack[n].file \in File
      BY <3>a DEF Frame
    <3>4. stack[n + 1].file \in Children(text, stack[n].file)
      BY <3>2, <3>3, <1>1, ChildType DEF Leads
    <3> QED
      BY <3>1, <3>4
  <2> QED
    BY <2>1, <2>2
<1>8. \A f \in C : Children(text, f) \cap C # {}
  BY <1>7
<1> QED
  BY <1>5, <1>6, <1>8 DEF Cyclic

\* A stack as high as the limit and the file asked for are a chain too long, and
\* none of them is done.
LEMMA NestedIsTooDeep ==
  ASSUME Inv, NestedTooDeep
  PROVE  TooDeep(text, Members(emitted))
<1>1. /\ TypeOK /\ Due /\ verdict = "loading" /\ Goal \in File
      /\ Len(stack) >= MaxDepth
      /\ WayDown(stack, Members(emitted), text, kind) /\ stack \in Seq(Frame)
  BY DEF Inv, NestedTooDeep, Fresh, Due, Descending, TypeOK, Frame
<1>2. Len(stack) = MaxDepth /\ MaxDepth \in Nat \ {0} /\ DOMAIN stack = 1..MaxDepth
  BY <1>1, TreeAssumption DEF WayDown
<1>3. stack # <<>>
  BY <1>2
<1>4. /\ Top = stack[MaxDepth] /\ Goal \in Children(text, Top.file)
      /\ Goal \in Reach(text)
  BY <1>1, <1>2, <1>3, GoalReach DEF Inv, Top
<1> DEFINE chain == [n \in 1..(MaxDepth + 1) |->
                       IF n = MaxDepth + 1 THEN Goal ELSE stack[n].file]
<1>5. \A n \in 1..MaxDepth : stack[n].file \in Reach(text) \ Members(emitted)
  <2>1. mods = emitted /\ Open \cap Members(mods) = {}
    BY <1>1 DEF Inv, Descending, OneOwner
  <2>2. \A n \in 1..MaxDepth : stack[n].file \in Open
    BY <1>2 DEF Open
  <2> QED
    BY <2>1, <2>2, <1>1, <1>2 DEF WayDown, Sound
<1>a. Goal \notin Members(emitted)
  BY <1>1 DEF Inv, Descending, NestedTooDeep, Fresh
<1>6. chain \in [1..(MaxDepth + 1) -> Reach(text) \ Members(emitted)]
  BY <1>2, <1>4, <1>5, <1>a
<1>7. ASSUME NEW n \in 1..MaxDepth
      PROVE  chain[n + 1] \in Children(text, chain[n])
  <2>1. chain[n] = stack[n].file
    BY <1>2
  <2>2. CASE n = MaxDepth
    <3>1. chain[n + 1] = Goal
      BY <2>2, <1>2
    <3> QED
      BY <3>1, <2>1, <2>2, <1>4
  <2>3. CASE n # MaxDepth
    <3>1. n \in DOMAIN stack /\ n + 1 \in DOMAIN stack /\ n + 1 # MaxDepth + 1
          /\ n + 1 \in 1..(MaxDepth + 1)
      BY <2>3, <1>2
    <3>2. chain[n + 1] = stack[n + 1].file
      BY <3>1
    <3>3. Leads(stack[n], stack[n + 1], text)
      BY <3>1, <1>1 DEF WayDown
    <3>a. stack[n] \in Frame
      BY <3>1, <1>1
    <3>4. stack[n].file \in File
      BY <3>a DEF Frame
    <3>5. stack[n + 1].file \in Children(text, stack[n].file)
      BY <3>3, <3>4, <1>1, ChildType DEF Leads
    <3> QED
      BY <3>2, <3>5, <2>1
  <2> QED
    BY <2>2, <2>3
<1> HIDE DEF chain
<1> QED
  BY <1>6, <1>7 DEF TooDeep

\* LoadOrder's vocabulary is the loader's.
LEMMA SameChildren ==
  ASSUME NEW tx, NEW f
  PROVE  Promise!Children(tx, f) = Children(tx, f)
BY DEF Promise!Children, Promise!Imports, Promise!Child, Promise!Spelling,
       Children, Imports, Child, Spelling

LEMMA SameReach == ASSUME NEW tx PROVE Promise!Reach(tx) = Reach(tx)
<1>1. ASSUME NEW S PROVE Promise!Closed(tx, S) <=> Closed(tx, S)
  BY SameChildren DEF Promise!Closed, Closed
<1> QED
  BY <1>1 DEF Promise!Reach, Reach

LEMMA SameWords ==
  ASSUME NEW tx, NEW kd, NEW done
  PROVE  /\ Promise!Missing(tx, kd) <=> Missing(tx, kd)
         /\ Promise!Broken(tx, kd) <=> Broken(tx, kd)
         /\ Promise!Cyclic(tx) <=> Cyclic(tx)
         /\ Promise!TooDeep(tx, done) <=> TooDeep(tx, done)
<1>1. Promise!Missing(tx, kd) <=> Missing(tx, kd)
  BY SameReach, SameChildren DEF Promise!Missing, Missing
<1>2. Promise!Broken(tx, kd) <=> Broken(tx, kd)
  BY SameReach DEF Promise!Broken, Broken, Promise!Unsound, Unsound
<1>3. Promise!Cyclic(tx) <=> Cyclic(tx)
  BY SameReach, SameChildren DEF Promise!Cyclic, Cyclic
<1>4. Promise!TooDeep(tx, done) <=> TooDeep(tx, done)
  BY SameReach, SameChildren DEF Promise!TooDeep, TooDeep
<1> QED
  BY <1>1, <1>2, <1>3, <1>4

LEMMA SameMembers == ASSUME NEW e PROVE Promise!Members(e) = Members(e)
BY DEF Promise!Members, Members

LEMMA PromiseInit == Init => Promise!Init
BY DEF Init, Promise!Init, Promise!Import, Promise!Kind, Import, Kind

LEMMA PromiseStep ==
  ASSUME Inv, [Next]_vars
  PROVE  [Promise!Next]_(Promise!vars)
<1>0. /\ TypeOK /\ emitted \in Seq(File)
      /\ verdict = "loading" => mods = emitted
  BY DEF Inv, TypeOK, Descending
<1>r. ASSUME NEW code \in {"E27", "E28", "syntax"}, Fail(code),
             verdict = "loading", Promise!Deserved(code)
      PROVE  Promise!Next
  BY <1>r DEF Promise!Next, Promise!Reject, Promise!disk, disk, Fail
<1>w. ASSUME NEW code \in {"E27", "E28", "syntax"}
      PROVE  Promise!Deserved(code) <=>
               \/ code = "E27" /\ Missing(text, kind)
               \/ code = "E28" /\ (Cyclic(text) \/ TooDeep(text, Members(emitted)))
               \/ code = "syntax" /\ Broken(text, kind)
  BY SameWords, SameMembers DEF Promise!Deserved
<1>s. ASSUME UNCHANGED <<text, kind, emitted, verdict>>
      PROVE  UNCHANGED Promise!vars
  BY <1>s DEF Promise!vars, Promise!disk
<1>d. ASSUME Due PROVE verdict = "loading"
  BY <1>d DEF Due
<1>1. CASE NotFound
  <2>1. Due /\ Goal = NoFile /\ verdict = "loading"
    BY <1>1, <1>d DEF NotFound
  <2>2. Missing(text, kind)
    BY <2>1, <1>0, GoalReach DEF Inv, Missing
  <2> QED
    BY <2>1, <2>2, <1>1, <1>r, <1>w DEF NotFound
<1>2. CASE Circular
  BY <1>2, <1>d, <1>r, <1>w, CircularIsCyclic DEF Circular
<1>3. CASE Skip
  BY <1>3, <1>s DEF Skip, disk
<1>4. CASE NestedTooDeep
  BY <1>4, <1>d, <1>r, <1>w, NestedIsTooDeep DEF NestedTooDeep, Fresh
<1>5. CASE Unreadable
  <2>1. Due /\ Goal \in File /\ verdict = "loading" /\ kind[Goal] = "unreadable"
    BY <1>5, <1>d DEF Unreadable, Fresh
  <2>2. Missing(text, kind)
    BY <2>1, <1>0, GoalReach DEF Inv, Missing
  <2> QED
    BY <2>1, <2>2, <1>5, <1>r, <1>w DEF Unreadable
<1>6. CASE ParseError
  <2>1. Due /\ Goal \in File /\ verdict = "loading" /\ kind[Goal] \in Unsound
    BY <1>6, <1>d DEF ParseError, Readable, Fresh
  <2>2. Broken(text, kind)
    BY <2>1, <1>0, GoalReach DEF Inv, Broken
  <2> QED
    BY <2>1, <2>2, <1>6, <1>r, <1>w DEF ParseError
<1>7. CASE Descend
  BY <1>7, <1>s DEF Descend, disk
<1>8. CASE Finish
  <2>1. /\ Top.file \in File /\ Top.file \notin Members(emitted)
        /\ kind[Top.file] = "fine" /\ Top.file \in Reach(text)
        /\ Children(text, Top.file) \subseteq Members(emitted)
        /\ Pop = <<>> <=> Top.file = FileOf[Root]
    BY <1>8, FinishFacts
  <2>2. Promise!Emit(Top.file)
    BY <2>1, <1>8, SameReach, SameMembers, SameChildren DEF Finish, Promise!Emit, Promise!disk, disk
  <2> QED
    BY <2>1, <2>2 DEF Promise!Next
<1>9. CASE Unwind
  BY <1>9, <1>s DEF Unwind, disk
<1>10. CASE Free
  BY <1>10, <1>s DEF Free, disk
<1>11. CASE UNCHANGED vars
  BY <1>11, <1>s DEF vars, disk
<1> QED
  BY <1>1, <1>2, <1>3, <1>4, <1>5, <1>6, <1>7, <1>8, <1>9, <1>10, <1>11
     DEF Next, Load

\* The loader implements LoadOrder: each module once, after its imports, and
\* refused only for a reason that is there.
THEOREM Refinement == Spec => KeepsPromise
<1>1. Inv /\ [Next]_vars => [Promise!Next]_(Promise!vars)
  BY PromiseStep
<1> QED
  BY <1>1, PromiseInit, Invariance, PTL DEF Spec, KeepsPromise, Promise!Spec

-----------------------------------------------------------------------------
(* An accepted program is whole                                             *)

\* No set of files in an ordered sequence can each import another of the set:
\* the one that comes first imports nothing that comes later.
LEMMA OrderedIsAcyclic ==
  ASSUME NEW e \in Seq(File), NEW tx, NEW kd, Ordered(e, tx, kd)
  PROVE  \A C \in SUBSET Members(e) :
           C # {} => \E f \in C : Children(tx, f) \cap C = {}
<1> SUFFICES ASSUME NEW C \in SUBSET Members(e), C # {}
             PROVE  \E f \in C : Children(tx, f) \cap C = {}
  OBVIOUS
<1> DEFINE P == {n \in DOMAIN e : e[n] \in C}
<1>1. P \subseteq Nat /\ P # {}
  BY DEF Members
<1> HIDE DEF P
<1>2. PICK n \in P : \A m \in P : <<m, n>> \notin OpToRel(<, Nat)
  BY <1>1, NatLessThanWellFounded, WFMin, Zenon
<1>3. \A m \in P : ~(m < n)
  BY <1>1, <1>2 DEF OpToRel
<1>4. n \in DOMAIN e /\ e[n] \in C /\ n \in Nat
  BY <1>1, <1>2 DEF P
<1>5. \A m \in 1..(n - 1) : m \in DOMAIN e /\ m < n
  BY <1>4
<1>6. \A m \in 1..(n - 1) : e[m] \notin C
  BY <1>3, <1>5 DEF P
<1>7. Children(tx, e[n]) \cap C = {}
  BY <1>4, <1>6 DEF Ordered
<1> QED
  BY <1>4, <1>7

LEMMA AcceptedIsWhole == ASSUME Inv PROVE Promise!Whole
<1> SUFFICES ASSUME verdict = "ok"
             PROVE  /\ Members(emitted) = Reach(text)
                    /\ ~Missing(text, kind) /\ ~Broken(text, kind)
                    /\ ~Cyclic(text)
  BY SameWords, SameReach, SameMembers DEF Promise!Whole
<1>1. /\ emitted \in Seq(File) /\ Ordered(emitted, text, kind)
      /\ FileOf[Root] \in Members(emitted)
  BY DEF Inv, TypeOK, RootIn
<1>2. Members(emitted) \subseteq File
  BY <1>1 DEF Members
<1>3. ASSUME NEW f \in Members(emitted)
      PROVE  /\ Children(text, f) \subseteq Members(emitted)
             /\ f \in Reach(text) /\ kind[f] = "fine"
  <2>1. PICK n \in DOMAIN emitted : f = emitted[n]
    BY DEF Members
  <2>2. \A m \in 1..(n - 1) : m \in DOMAIN emitted
    BY <1>1
  <2> QED
    BY <2>1, <2>2, <1>1 DEF Ordered, Members
<1>4. Closed(text, Members(emitted))
  BY <1>3 DEF Closed
<1>5. Reach(text) \subseteq Members(emitted)
  BY <1>1, <1>2, <1>4 DEF Reach
<1>6. Members(emitted) = Reach(text)
  BY <1>3, <1>5
<1>7. ~Missing(text, kind)
  BY <1>1, <1>2, <1>3, <1>6, TreeAssumption DEF Missing
<1>8. ~Broken(text, kind)
  BY <1>3, <1>6 DEF Broken, Unsound
<1>9. ~Cyclic(text)
  <2> SUFFICES ASSUME NEW C \in SUBSET Reach(text), C # {},
                      \A f \in C : Children(text, f) \cap C # {}
               PROVE  FALSE
    BY DEF Cyclic
  <2>1. \A D \in SUBSET Members(emitted) :
           D # {} => \E f \in D : Children(text, f) \cap D = {}
    BY <1>1, OrderedIsAcyclic
  <2> QED
    BY <2>1, <1>6
<1> QED
  BY <1>6, <1>7, <1>8, <1>9

\* A program the loader accepts holds every file the root leads to and no
\* other; each of them was found, read and parsed, and none is on a cycle.
THEOREM AcceptedWhole == Spec => []Promise!Whole
<1>1. Inv => Promise!Whole
  BY AcceptedIsWhole
<1> QED
  BY <1>1, Invariance, PTL

=============================================================================
