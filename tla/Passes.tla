--------------------------------- MODULE Passes ---------------------------------
(***************************************************************************)
(* The compiler's middle: a program is written, checked and lowered to the *)
(* intermediate representation, and the pipeline rewrites it before an     *)
(* emitter takes it (build_wasm, build_qbe and dump_ir in src/src/main.c). *)
(* The programmer writes one top-level statement after the other; at any   *)
(* time the compiler may be run on what is there.  It may also be given a  *)
(* module of Inputs, which no program of the offered ones need lower to.   *)
(* What the pipeline made of that is run beside what it was made from.     *)
(***************************************************************************)
EXTENDS Lockstep, Words
LOCAL INSTANCE SequencesExt

CONSTANTS
    Statements(_),  \* what may be written after a program
    MaxStatements,  \* bound on the length of a program
    Fuel,           \* bound on the blocks and calls of a run
    MaxVars, MaxLoops, MaxStreamGens

VARIABLE program

Lower == INSTANCE Lowering
Target == INSTANCE Machine
Source == INSTANCE Meaning

PassVars == <<LockVars, program>>

PassInit == LockInit /\ program = <<>>

Write ==
    /\ pc = "idle"
    /\ Len(program) < MaxStatements
    /\ \E s \in Statements(program) : program' = Append(program, s)
    /\ UNCHANGED LockVars

Optimiser(lowered) == lowered.ok /\ \E level \in Levels : Start(lowered.funcs, level)

Build ==
    /\ pc = "idle" /\ program # <<>>
    /\ Optimiser(Lower!IrLower(program))
    /\ UNCHANGED <<program, runs>>

PassNext ==
    \/ Write
    \/ Build
    \/ program = <<>> /\ (Compile \/ Invoke) /\ UNCHANGED program
    \/ (Optimise \/ Advance) /\ UNCHANGED program

PassSpec == PassInit /\ [][PassNext]_PassVars

-----------------------------------------------------------------------------
(* Properties *)

(* Every function of a program is well formed when it is lowered and after *)
(* each rewrite.                                                           *)
WellFormed == program # <<>> => \A k \in DOMAIN funcs : Formed(funcs[k])

(* Every target prints what the host C backend's program prints and ends   *)
(* as it does, at every optimisation level; QBE may only refuse.           *)
(* An operation that C leaves undefined leaves what was printed before it.  *)
Agrees(run) ==
    LET host == Source!Behaviour(program)
    IN IF host.how = "undefined" THEN IsPrefix(host.out, run.out) ELSE run = host

Agreement(m) ==
    /\ Agrees(Target!Run(m, "wasm", Fuel))
    /\ LET qbe == Target!Run(m, "qbe", Fuel) IN qbe.how = "rejected" \/ Agrees(qbe)

BackendsAgree == [][program # <<>> /\ pc # "done" /\ pc' = "done" => Agreement(funcs')]_PassVars
=================================================================================
