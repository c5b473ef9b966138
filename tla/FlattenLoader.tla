--------------------------- MODULE FlattenLoader ---------------------------
(***************************************************************************)
(* The loader of the self-hosted compiler (src/tiq/module.tiq):             *)
(* mod_flatten_one, the same depth-first recursion, which appends the text  *)
(* of each file to one buffer.  It tells files apart by the normalised      *)
(* spelling of their path (mod_norm, mod_join), not by what the path        *)
(* resolves to, and has no depth limit.  A frame holds the path of one      *)
(* activation and the import it is at; the map stack of the code is 1       *)
(* exactly for the paths of the open frames.                                *)
(*                                                                          *)
(* A syntax error past the import prefix is the parser's, after flattening. *)
(***************************************************************************)
EXTENDS SourceTree

VARIABLES text, kind,   \* the disk
          stack,        \* open activations, the root's first
          seen,         \* the paths done
          out,          \* the files whose text is in the buffer, in order
          verdict       \* "loading", "ok" or a diagnostic

disk == <<text, kind>>
vars == <<disk, stack, seen, out, verdict>>

Init == /\ text \in [File -> Seq(Import)] /\ kind \in [File -> Kind]
        /\ stack = <<>> /\ seen = {} /\ out = <<>> /\ verdict = "loading"

Top == stack[Len(stack)]
Open == {stack[n].path : n \in DOMAIN stack}
Pop == SubSeq(stack, 1, Len(stack) - 1)
Advance(s) == IF s = <<>> THEN s ELSE [s EXCEPT ![Len(s)].next = @ + 1]

\* fs_read gives the empty text for a file it cannot open.
Operands(p) == IF kind[FileOf[p]] = "unreadable" THEN <<>> ELSE text[FileOf[p]]

Due == /\ verdict = "loading"
       /\ stack # <<>> => Top.next \in DOMAIN Operands(Top.path)

\* The path of the call that is due; the cwd's spelling is taken as written.
Target == IF stack = <<>> THEN Root ELSE Spelling(Operands(Top.path)[Top.next])

Fail(code) == verdict' = code /\ UNCHANGED <<disk, stack, seen, out>>

NotFound == Due /\ FileOf[Target] = NoFile /\ Fail("E27")

Circular == Due /\ FileOf[Target] # NoFile /\ Target \in Open /\ Fail("E28")

\* Mutants, here and below: an action as a plausible slip would have it.
SkipStays ==     \* the importer does not go on to its next import
  /\ Due /\ Target \in seen \ Open
  /\ UNCHANGED vars

Skip == /\ Due /\ Target \in seen \ Open
        /\ stack' = Advance(stack)
        /\ UNCHANGED <<disk, seen, out, verdict>>

Fresh == Due /\ FileOf[Target] # NoFile /\ Target \notin Open \cup seen

LexError == Fresh /\ kind[FileOf[Target]] = "broken" /\ Fail("syntax")

Descend == /\ Fresh /\ kind[FileOf[Target]] # "broken"
           /\ stack' = Append(stack, [path |-> Target, next |-> 1])
           /\ UNCHANGED <<disk, seen, out, verdict>>

AtEnd == /\ verdict = "loading" /\ stack # <<>>
         /\ Top.next \notin DOMAIN Operands(Top.path)

BadOperand == AtEnd /\ kind[FileOf[Top.path]] = "operand" /\ Fail("syntax")

FinishUnmarked ==     \* the path is not entered into seen
  /\ AtEnd /\ kind[FileOf[Top.path]] # "operand"
  /\ stack' = Advance(Pop)
  /\ out' = Append(out, FileOf[Top.path])
  /\ verdict' = IF Pop = <<>> THEN "ok" ELSE verdict
  /\ UNCHANGED <<disk, seen>>

FinishBackwards ==     \* the importer's text goes before its imports'
  /\ AtEnd /\ kind[FileOf[Top.path]] # "operand"
  /\ stack' = Advance(Pop)
  /\ seen' = seen \cup {Top.path}
  /\ out' = <<FileOf[Top.path]>> \o out
  /\ verdict' = IF Pop = <<>> THEN "ok" ELSE verdict
  /\ UNCHANGED disk

Finish == /\ AtEnd /\ kind[FileOf[Top.path]] # "operand"
          /\ stack' = Advance(Pop)
          /\ seen' = seen \cup {Top.path}
          /\ out' = Append(out, FileOf[Top.path])
          /\ verdict' = IF Pop = <<>> THEN "ok" ELSE verdict
          /\ UNCHANGED disk

\* The failure goes up; mod_flatten then exits the process.
Unwind == /\ verdict \notin {"loading", "ok"} /\ stack # <<>>
          /\ stack' = Pop
          /\ UNCHANGED <<disk, seen, out, verdict>>

Next == \/ NotFound \/ Circular \/ Skip \/ LexError \/ Descend
        \/ BadOperand \/ Finish \/ Unwind

Spec == Init /\ [][Next]_vars
FairSpec == Spec /\ WF_vars(Next)

-----------------------------------------------------------------------------
TypeOK == /\ text \in [File -> Seq(Import)] /\ kind \in [File -> Kind]
          /\ stack \in Seq([path : Path, next : Nat \ {0}])
          /\ seen \subseteq Path /\ out \in Seq(File)
          /\ verdict \in {"loading", "ok", "E27", "E28", "syntax"}

\* With one spelling a file, and every file readable, the flattener keeps the
\* promise the compiler's own loader keeps.
Promise == INSTANCE LoadOrder
KeepsPromise == Promise!Spec

\* It answers whatever the import graph is.
Answers == <>(verdict # "loading" /\ stack = <<>>)
=============================================================================
