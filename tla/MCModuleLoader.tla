--------------------------- MODULE MCModuleLoader ---------------------------
(* Instances of ModuleLoader for TLC: every import graph on a few files.    *)
EXTENDS ModuleLoader, SequencesExt

CONSTANTS f1, f2, f3, f4, main, p2, p3, p4, gone

Four == {f1, f2, f3, f4}
FivePaths == {main, p2, p3, p4, gone}
Resolved == [p \in FivePaths |->
  CASE p = main -> f1 [] p = p2 -> f2 [] p = p3 -> f3
    [] p = p4 -> f4 [] OTHER -> NoFile]

\* Operands that resolve beside the importer, or nowhere, or only from the cwd.
Operands == {[near |-> p, cwd |-> p] : p \in FivePaths \ {p4}}
              \cup {[near |-> gone, cwd |-> p2]}
\* The fourth file is found from the cwd only.
Found == {[near |-> p, cwd |-> p] : p \in {main, p2, p3}} \cup {[near |-> gone, cwd |-> p4]}

\* At most one bad file; what it would import does not matter.
Condition == /\ Cardinality({f \in File : kind[f] # "fine"}) <= 1
             /\ \A f \in File : kind[f] # "fine" => text[f] = <<>>

\* Three files with up to two imports each, repeated ones included, and one of
\* them bad.
Small == /\ text \in [File -> SeqOf(Operands, 2)] /\ text[f4] = <<>>
         /\ kind \in [File -> Kind] /\ kind[f4] = "fine"
         /\ Condition

\* Four sound files with up to two different imports each, the root with two:
\* chains longer than the limit, and shorter ways to their ends.
Deep == /\ text \in [File -> {s \in SeqOf(Found, 2) : Unique(s)}]
        /\ Len(text[f1]) = 2 /\ Len(text[f4]) <= 1
        /\ kind = [f \in File |-> "fine"]

MCInit == (Small \/ Deep) /\ Init
MCSpec == MCInit /\ [][Next]_vars /\ WF_vars(Next)

-----------------------------------------------------------------------------
\* The order the language promises, from the imports alone: depth first in
\* declaration order, first visit wins (LANGUAGE_SPEC.md, section 17.6).
RECURSIVE PostOrder(_, _)
PostOrder(f, done) ==
  IF f \in Members(done) THEN done
  ELSE Append(FoldLeft(LAMBDA d, i : PostOrder(Child(i), d), done, text[f]), f)

\* A load that succeeds leaves the modules in exactly that order.
FirstVisitOrder ==
  verdict = "ok" => mods \in {<<>>, PostOrder(FileOf[Root], <<>>)}
=============================================================================
