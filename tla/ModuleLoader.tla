---------------------------- MODULE ModuleLoader ----------------------------
(***************************************************************************)
(* The loader of the C compiler (src/module.c): load_module, a depth-first  *)
(* recursion over the import prefixes, with the Loader's stack of open      *)
(* files and the Program's list of modules, which is also the list of what  *)
(* program_free has to release.  A frame holds the file of one activation   *)
(* and the import it is at; every path below stands for its realpath.       *)
(***************************************************************************)
EXTENDS SourceTree

VARIABLES text, kind,   \* the disk, which the loader only reads
          stack,        \* open activations, the root's first
          mods,         \* Program.mods, by canonical file
          verdict,      \* "loading", "ok" or a diagnostic
          emitted,      \* history: the modules completed, in order
          owned,        \* history: modules whose source and parser are allocated
          lost          \* history: imports, by file and position, whose second
                        \* path (alt_path) is never released

disk == <<text, kind>>
vars == <<disk, stack, mods, verdict, emitted, owned, lost>>

Init == /\ text \in [File -> Seq(Import)] /\ kind \in [File -> Kind]
        /\ stack = <<>> /\ mods = <<>> /\ verdict = "loading"
        /\ emitted = <<>> /\ owned = {} /\ lost = {}

Top == stack[Len(stack)]
Open == {stack[n].file : n \in DOMAIN stack}

\* A call of load_module is due: the root's, or the next import of the
\* activation on top.
Due == /\ verdict = "loading"
       /\ stack # <<>> => Top.next \in DOMAIN text[Top.file]

\* The file it resolves to.  The root has no second try from the cwd.
Goal == IF stack = <<>> THEN FileOf[Root] ELSE Child(text[Top.file][Top.next])

\* The activation that made the call goes on to its next import.
Advance(s) == IF s = <<>> THEN s ELSE [s EXCEPT ![Len(s)].next = @ + 1]
Pop == SubSeq(stack, 1, Len(stack) - 1)

Fail(code) == verdict' = code /\ UNCHANGED <<disk, stack, emitted>>

\* A second path that led to the file is released where the file is read or
\* cannot be; the early returns before that leave it allocated.
Leave == lost' = IF stack # <<>> /\ FromCwd(text[Top.file][Top.next])
                 THEN lost \cup {<<Top.file, Top.next>>} ELSE lost

NotFound == /\ Due /\ Goal = NoFile
            /\ Fail("E27") /\ UNCHANGED <<mods, owned, lost>>

Circular == /\ Due /\ Goal \in Open
            /\ Fail("E28") /\ Leave /\ UNCHANGED <<mods, owned>>

Skip == /\ Due /\ Goal \in Members(mods) \ Open
        /\ stack' = Advance(stack) /\ Leave
        /\ UNCHANGED <<disk, mods, verdict, emitted, owned>>

Fresh == Due /\ Goal \in File \ (Open \cup Members(mods))

\* Mutants, here and below: an action as a plausible slip would have it.
DeepBeforeDone ==     \* the depth is tested before the modules are searched
  /\ Due /\ Goal \in File \ Open /\ Len(stack) >= MaxDepth
  /\ Fail("E28") /\ Leave /\ UNCHANGED <<mods, owned>>

NestedTooDeep == /\ Fresh /\ Len(stack) >= MaxDepth
                 /\ Fail("E28") /\ Leave /\ UNCHANGED <<mods, owned>>

Readable == Fresh /\ Len(stack) < MaxDepth /\ kind[Goal] # "unreadable"

Unreadable == /\ Fresh /\ Len(stack) < MaxDepth /\ kind[Goal] = "unreadable"
              /\ Fail("E27") /\ UNCHANGED <<mods, owned, lost>>

\* A module that does not parse is kept, for program_free.
ParseError == /\ Readable /\ kind[Goal] \in Unsound
              /\ mods' = Append(mods, Goal) /\ owned' = owned \cup {Goal}
              /\ Fail("syntax") /\ UNCHANGED lost

Descend == /\ Readable /\ kind[Goal] = "fine"
           /\ stack' = Append(stack, [file |-> Goal, next |-> 1])
           /\ owned' = owned \cup {Goal}
           /\ UNCHANGED <<disk, mods, verdict, emitted, lost>>

AtEnd == stack # <<>> /\ Top.next \notin DOMAIN text[Top.file]

FinishPrepending ==     \* the module list is built back to front
  /\ verdict = "loading" /\ AtEnd
  /\ stack' = Advance(Pop)
  /\ mods' = <<Top.file>> \o mods /\ emitted' = <<Top.file>> \o emitted
  /\ verdict' = IF Pop = <<>> THEN "ok" ELSE verdict
  /\ UNCHANGED <<disk, owned, lost>>

Finish == /\ verdict = "loading" /\ AtEnd
          /\ stack' = Advance(Pop)
          /\ mods' = Append(mods, Top.file) /\ emitted' = Append(emitted, Top.file)
          /\ verdict' = IF Pop = <<>> THEN "ok" ELSE verdict
          /\ UNCHANGED <<disk, owned, lost>>

Failed == verdict \notin {"loading", "ok"}

UnwindDropping ==     \* the half-loaded importer is forgotten
  /\ Failed /\ stack # <<>>
  /\ stack' = Pop
  /\ UNCHANGED <<disk, mods, verdict, emitted, owned, lost>>

\* The failure goes up: each open module is kept, for program_free.
Unwind == /\ Failed /\ stack # <<>>
          /\ stack' = Pop
          /\ mods' = Append(mods, Top.file)
          /\ UNCHANGED <<disk, verdict, emitted, owned, lost>>

\* program_free, once program_load has returned.
Free == /\ verdict # "loading" /\ stack = <<>> /\ mods # <<>>
        /\ owned' = owned \ Members(mods) /\ mods' = <<>>
        /\ UNCHANGED <<disk, stack, verdict, emitted, lost>>

Load == \/ NotFound \/ Circular \/ Skip \/ NestedTooDeep \/ Unreadable
        \/ ParseError \/ Descend \/ Finish \/ Unwind

Next == Load \/ Free

Spec == Init /\ [][Next]_vars

\* The loader is sequential code: it runs until it returns.
FairSpec == Spec /\ WF_vars(Next)

-----------------------------------------------------------------------------
TypeOK == /\ text \in [File -> Seq(Import)] /\ kind \in [File -> Kind]
          /\ stack \in Seq([file : File, next : Nat \ {0}])
          /\ mods \in Seq(File) /\ emitted \in Seq(File)
          /\ verdict \in {"loading", "ok", "E27", "E28", "syntax"}
          /\ owned \subseteq File /\ lost \subseteq File \X (Nat \ {0})

\* Every source buffer and parser arena has exactly one owner: an activation,
\* or one entry of mods, which program_free releases.  None leaks when a load
\* fails half-way up the recursion, and none is released twice.
OneOwner == /\ owned = Open \cup Members(mods)
            /\ Unique(mods) /\ Open \cap Members(mods) = {}
            /\ \A m, n \in DOMAIN stack : stack[m].file = stack[n].file => m = n

\* What a load leaves behind: second paths, and when it succeeds those of all
\* operands for a file except the one that loaded it.
Calls == UNION {{f} \X DOMAIN text[f] : f \in Members(emitted)}
LeftBehind ==
  LET operand(c) == text[c[1]][c[2]]
      naming(g) == {c \in Calls : Child(operand(c)) = g}
      second(g) == {c \in naming(g) : FromCwd(operand(c))}
  IN  /\ \A c \in lost : FromCwd(operand(c))
      /\ verdict = "ok" => \A g \in Members(emitted) :
           /\ Cardinality(second(g) \ lost) <= 1
           /\ second(g) = naming(g) /\ naming(g) # {} => second(g) \ lost # {}

\* The loader answers whatever the import graph is, cyclic or not, and then all
\* sources and parsers are released, whatever the answer; of the paths, those
\* of module.c:158, 166 and 174 are not.
Answers == <>(verdict # "loading" /\ stack = <<>> /\ owned = {} /\ LeftBehind)

\* The recursion keeps the promise of LoadOrder: every module once, after its
\* imports, accepted only whole, refused only for a reason that is there.
Promise == INSTANCE LoadOrder WITH out <- emitted

KeepsPromise == Promise!Spec
=============================================================================
