-------------------------- MODULE MCFlattenLoader --------------------------
(* Instances of FlattenLoader for TLC. *)
EXTENDS FlattenLoader, SequencesExt

CONSTANTS f1, f2, f3, main, p2, p3, gone

Three == {f1, f2, f3}
OnePathEach == {main, p2, p3, gone}
Resolved == [p \in Path |-> CASE p = main -> f1 [] p = p2 -> f2
                              [] p = p3 -> f3 [] OTHER -> NoFile]

\* Operands that resolve beside the importer or nowhere, and one that only the
\* working directory resolves.
Words == {[near |-> p, cwd |-> p] : p \in OnePathEach}
           \cup {[near |-> gone, cwd |-> p2]}

Condition(bad) ==
  /\ Cardinality({f \in File : kind[f] # "fine"}) <= 1
  /\ \A f \in File : kind[f] \in bad => Len(text[f]) <= (IF kind[f] = "operand" THEN 1 ELSE 0)

\* Every graph with up to two imports a file, and one file that is unsound.
SoundInit == /\ text \in [File -> SeqOf(Words, 2)]
             /\ kind \in [File -> {"fine"} \cup Unsound]
             /\ Condition(Unsound) /\ Init
SoundSpec == SoundInit /\ [][Next]_vars /\ WF_vars(Next)

-----------------------------------------------------------------------------
\* The order of LANGUAGE_SPEC.md, section 17.6, from the imports alone.
RECURSIVE PostOrder(_, _)
PostOrder(f, done) ==
  IF f \in Members(done) THEN done
  ELSE Append(FoldLeft(LAMBDA d, i : PostOrder(Child(i), d), done, text[f]), f)

\* What the self-hosted compiler compiles is what the C compiler compiles.
FirstVisitOrder == verdict = "ok" => out = PostOrder(FileOf[Root], <<>>)
=============================================================================
