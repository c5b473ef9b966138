--------------------------- MODULE MCBuildDriver ---------------------------
(* Instances of BuildDriver for TLC: two or three of six invocations at      *)
(* once, and the others over before they begin.                              *)
EXTENDS BuildDriver

CONSTANTS q1, q2, c1, n1, n2, w1

\* Two builds that share the paths, of one backend or two; one of them beside a
\* C job; two beside a wasm job.
Casts == {{q1, q2}, {n1, n2}, {q1, n2}, {q2, c1}, {n1, q2, w1}}
Commands == [j \in Job |-> IF j \in {q1, c1, n1} THEN "run" ELSE "build"]
Backends == [j \in Job |-> CASE j \in {q1, q2} -> "qbe" [] j = c1 -> "c"
                             [] j \in {n1, n2} -> "native" [] OTHER -> "wasm"]

\* A job outside the cast had its program rejected and has ended.
MCInit ==
    \E cast \in Casts :
        /\ program \in [Job -> Program]
        /\ \A j \in Job \ cast : program[j] = "rejected"
        /\ pc = [j \in Job |-> CASE j \notin cast -> "done"
                                [] j \in cast /\ Command[j] = "run" -> "mkexe"
                                [] OTHER -> FirstStep(j)]
        /\ temps = {}
        /\ disk = [p \in Shared |-> Missing]
        /\ buf = [j \in Job |-> Absent]
        /\ out \in [Job -> {Absent, Previous}]
        /\ \A j \in Job : Command[j] = "run" \/ j \notin cast => out[j] = Absent
        /\ result = [j \in Job |-> IF j \in cast THEN "none" ELSE "failed"]
        /\ ran = [j \in Job |-> Absent]
        /\ fault = [j \in Job |-> FALSE]
        /\ met = {}
MCSpec == MCInit /\ [][Next]_vars
=============================================================================
