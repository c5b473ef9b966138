------------------------------- MODULE Lockstep -------------------------------
(***************************************************************************)
(* An optimised function beside the function it was made from.  When the   *)
(* pipeline is done, a function is run with some arguments in both forms,  *)
(* one instruction at a time, as the code that src/emit_qbe.c writes for   *)
(* it: registers that are defined before they are read, phis that are read *)
(* together on the way into a block.  What a call answers, and what is     *)
(* found in memory, is not in the registers: it may be anything, but the   *)
(* same for both, as long as both ask the same.                            *)
(***************************************************************************)
EXTENDS Optimizer

CONSTANTS
    Traps(_, _, _),  \* the quotients that end the program on the target
    Answers          \* what a function is given, and what it is answered

ASSUME AnswersAssumption == Answers \subseteq Value

VARIABLES
    running,  \* the function that is run, 0 before
    source,   \* the run of the function that was given to the pipeline
    target    \* the run of the function as rewritten

runs == <<running, source, target>>
LockVars == <<vars, runs>>

-----------------------------------------------------------------------------
(* A run is how it goes on or ended ("go", "exit", "trap", or "stuck" where *)
(* the emitter's output is refused), the block, the next instruction, the   *)
(* registers defined so far, and what the last instruction did that can be  *)
(* observed.                                                                *)
Silent == <<"silent">>
NoRun == [how |-> "none", block |-> 0, at |-> 0, env |-> <<>>, event |-> Silent]

Stop(s, how) == [s EXCEPT !.how = how, !.event = Silent]
Skip(s) == [s EXCEPT !.at = @ + 1, !.event = Silent]
Define(env, r, v) ==
    IF r = NoReg THEN env ELSE [x \in DOMAIN env \cup {r} |-> IF x = r THEN v ELSE env[x]]
Assign(s, r, v) == [Skip(s) EXCEPT !.env = Define(@, r, v)]

Operands(ins, env) == [k \in DOMAIN ins.use |-> env[ins.use[k]]]
Second(ins, env) == IF Len(ins.use) = 2 THEN env[ins.use[2]] ELSE 0

(* The value that an instruction gives its register, when the registers tell. *)
Result(ins, env) ==
    CASE ins.op \in Consts -> ins.imm
      [] ins.op \in Pure -> Apply(ins.op, env[ins.use[1]], Second(ins, env))

Trapping(ins, env) == Divides(ins.op) /\ Traps(ins.op, env[ins.use[1]], env[ins.use[2]])

(* Into block b: each of its phis takes the argument of the block control  *)
(* comes from.                                                             *)
PhisOf(f, b) == {f.blocks[b].phis[k] : k \in DOMAIN f.blocks[b].phis}
Arguments(phi, from) == {phi.args[j][1] : j \in {j \in DOMAIN phi.args : phi.args[j][2] = from}}
Argument(phi, from) == CHOOSE r \in Arguments(phi, from) : TRUE
PhiFor(f, b, r) == CHOOSE phi \in PhisOf(f, b) : phi.dst = r

Enter(f, s, b) ==
    IF b \notin DOMAIN f.blocks
       \/ \E phi \in PhisOf(f, b) : \A r \in DOMAIN s.env : Arguments(phi, s.block) # {r}
    THEN Stop(s, "stuck")
    ELSE LET joined == {phi.dst : phi \in PhisOf(f, b)}
         IN [s EXCEPT !.block = b, !.at = f.blocks[b].start + 1, !.event = Silent,
                      !.env = [x \in DOMAIN @ \cup joined |->
                                  IF x \in joined THEN @[Argument(PhiFor(f, b, x), s.block)] ELSE @[x]]]

(* The next instruction of a block; answer is what a call returns, or what *)
(* an opaque instruction finds in memory.                                  *)
Step(f, s, answer) ==
    LET ins == f.instrs[s.at]
    IN IF s.at \notin Body(f, s.block) \cap DOMAIN f.instrs THEN Stop(s, "stuck")
       ELSE IF ins.op = Removed THEN Skip(s)
       ELSE IF ~ Reads(ins) \subseteq DOMAIN s.env THEN Stop(s, "stuck")
       ELSE CASE ins.op \in Consts \cup Pure ->
                   IF Trapping(ins, s.env) THEN Stop(s, "trap")
                   ELSE Assign(s, ins.dst, Result(ins, s.env))
              [] ins.op \in Opaque ->
                   [Assign(s, ins.dst, answer) EXCEPT !.event = <<"opaque", ins.op, ins.imm, Operands(ins, s.env)>>]
              [] ins.op = "print" -> [Skip(s) EXCEPT !.event = <<"print", Operands(ins, s.env)>>]
              [] ins.op = "call" ->
                   [Assign(s, ins.dst, answer) EXCEPT !.event = <<"call", ins.fn, Operands(ins, s.env)>>]
              [] ins.op = "ret" -> [Stop(s, "exit") EXCEPT !.event = <<"ret", Operands(ins, s.env)>>]
              [] ins.op = "br" -> Enter(f, s, ins.to[1])
              [] ins.op = "cbr" -> Enter(f, s, IF s.env[ins.use[1]] # 0 THEN ins.to[1] ELSE ins.to[2])

(* The run begins with the arguments in the first registers, in the first block. *)
Begin(f, args) ==
    [how |-> "go", block |-> 1, at |-> f.blocks[1].start + 1, env |-> args, event |-> Silent]

-----------------------------------------------------------------------------
LockInit == Init /\ running = 0 /\ source = NoRun /\ target = NoRun

Compile ==
    /\ pc = "idle"
    /\ \E m \in Inputs, level \in Levels : Start(m, level)
    /\ UNCHANGED runs

Optimise == Run /\ UNCHANGED runs

Invoke ==
    /\ pc = "done" /\ running = 0
    /\ \E k \in DOMAIN funcs :
          /\ given[k].blocks # <<>>
          /\ \E args \in [0 .. (given[k].params - 1) -> Answers] :
                source' = Begin(given[k], args) /\ target' = Begin(funcs[k], args)
          /\ running' = k
    /\ UNCHANGED vars

Advance ==
    /\ running # 0 /\ source.how = "go"
    /\ \E answer \in Answers :
          /\ source' = Step(given[running], source, answer)
          /\ target' = Step(funcs[running], target, answer)
    /\ UNCHANGED <<vars, running>>

LockNext == Compile \/ Optimise \/ Invoke \/ Advance
LockSpec == LockInit /\ [][LockNext]_LockVars

-----------------------------------------------------------------------------
(* Properties *)

(* The optimised function does what the function given to the pipeline     *)
(* does: at every moment both are at the same place, and whatever the one  *)
(* prints, calls, returns or builds in memory the other does at the same   *)
(* time with the same values (what it builds, unless that was removed),    *)
(* whatever was folded, simplified or removed and however often its loops  *)
(* turn; until the given one, if ever, divides by zero or reads a register *)
(* that was not defined.                                                   *)
SameEvent(new, old) == new = old \/ (new = Silent /\ old[1] = "opaque")

SameRun ==
    running # 0 /\ OneDefinition(given[running]) /\ source.how \in {"go", "exit"} =>
        /\ target.how = source.how /\ SameEvent(target.event, source.event)
        /\ target.block = source.block /\ target.at = source.at
===============================================================================
