-------------------------------- MODULE Optimizer --------------------------------
(***************************************************************************)
(* The optimisation pipeline over the intermediate representation          *)
(* (src/src/opt/): constant folding, dead code elimination and algebraic   *)
(* simplification, in that order over every function, again and again      *)
(* until a round changes nothing or MaxIterations rounds are over.  A pass *)
(* walks the instructions of a function in place, so a rewrite sees what   *)
(* the walk has already rewritten: one action is one rewrite, which        *)
(* happens at the next instruction the pass changes.  Arithmetic is left   *)
(* to the constant operator Apply; the laws the algebraic pass relies on   *)
(* are assumed of it.                                                      *)
(***************************************************************************)
EXTENDS IR, FiniteSets

CONSTANTS
    Value,          \* the machine words
    MinInt,         \* the most negative of them
    Apply(_, _, _), \* the value of an opcode
    Inputs,         \* the modules the front end may hand over
    Levels,         \* the values of --opt-level in use
    MaxIterations   \* MAX_ITERATIONS of opt_pipeline.c

ASSUME ApplyAssumption ==
    /\ {0, 1} \subseteq Value
    /\ MinInt \in Value
    /\ \A op \in Pure, a, b \in Value : Apply(op, a, b) \in Value
    /\ \A a \in Value :
          /\ Apply("add", a, 0) = a /\ Apply("add", 0, a) = a
          /\ Apply("sub", a, 0) = a
          /\ Apply("mul", a, 1) = a /\ Apply("mul", 1, a) = a
          /\ Apply("mul", a, 0) = 0 /\ Apply("mul", 0, a) = 0
          /\ Apply("div", a, 1) = a
          /\ Apply("bit_and", a, a) = a
          /\ Apply("bit_or", a, a) = a
          /\ Apply("bit_xor", a, a) = 0
          /\ Apply("copy", a, 0) = a

(* A module as the front end hands it over. *)
Two == IntOps \cup CmpOps \cup Logical
Shape == [op : Ops, dst : Int, use : Seq(Int), imm : Value \cup Nat, to : Seq(Nat), fn : {"none"} \cup STRING]
Instr ==
    {ins \in Shape :
        /\ ins.op \in Two => Len(ins.use) = 2
        /\ ins.op \in Unary \cup {"cbr"} => Len(ins.use) = 1
        /\ ins.op \in Consts => ins.use = <<>> /\ ins.imm \in Value
        /\ ins.op = "br" => Len(ins.to) = 1
        /\ ins.op = "cbr" => Len(ins.to) = 2
        /\ ins.op \in Terminators => ins.dst = NoReg}
Block == [start : Nat, end : Nat, phis : Seq([dst : Int, args : Seq(Int \X Nat)])]
Func == [name : STRING, params : Nat, instrs : Seq(Instr), blocks : Seq(Block), next : Nat]
Module == Seq(Func)

ASSUME InputsAssumption == Inputs \subseteq Module
ASSUME IterationsAssumption == MaxIterations \in Nat \ {0}

VARIABLES
    given,   \* the module the pipeline was started on
    funcs,   \* the module as rewritten so far
    pc,      \* the pass that runs, "idle" before and "done" after
    fi,      \* the function it runs over
    at,      \* the next instruction it looks at
    iter,    \* the round
    changed  \* total_changes # 0 in this round

vars == <<given, funcs, pc, fi, at, iter, changed>>

-----------------------------------------------------------------------------
(* Constants.  is_int_imm and is_bool_imm: the value of the first          *)
(* instruction that defines a register as a constant of the kind asked     *)
(* for, as a set that is empty when there is none.                         *)
Imms(f, kind, r) ==
    LET Is(i) == f.instrs[i].dst = r /\ f.instrs[i].op = kind
    IN {f.instrs[i].imm : i \in {j \in DOMAIN f.instrs : Is(j) /\ \A k \in 1..(j - 1) : ~ Is(k)}}

FirstInts(f, ins, k) == Imms(f, "const_int", ins.use[1])
Ints(f, ins, k) == Imms(f, "const_int", ins.use[k])
Bools(f, ins, k) == Imms(f, "const_bool", ins.use[k])

(* replace_with_int, replace_with_bool, replace_with_copy *)
AsConstWithOperands(ins, kind, v) == [ins EXCEPT !.op = kind, !.imm = v]
AsConst(ins, kind, v) == [ins EXCEPT !.op = kind, !.use = <<>>, !.imm = v]
AsCopy(ins, r) == [ins EXCEPT !.op = "copy", !.use = <<r>>]

(* a / b and a % b are folded unless b is 0. *)
Divides(op) == op \in {"div", "mod"}

(* opt_constfold on one instruction: the set of its results, at most one.  *)
(* A unary opcode has no second operand.  Only a branch whose condition is *)
(* a constant takes its target for good.                                   *)
Folds(ins, kind, as, bs) == {AsConst(ins, kind, Apply(ins.op, a, b)) : a \in as, b \in bs}

Folded(f, ins) ==
    CASE ins.op \in IntOps ->
            IF Divides(ins.op) /\ 0 \in Ints(f, ins, 2) THEN {}
            ELSE Folds(ins, "const_int", Ints(f, ins, 1), Ints(f, ins, 2))
      [] ins.op \in CmpOps -> Folds(ins, "const_bool", Ints(f, ins, 1), Ints(f, ins, 2))
      [] ins.op \in Logical -> Folds(ins, "const_bool", Bools(f, ins, 1), Bools(f, ins, 2))
      [] ins.op = "neg" -> Folds(ins, "const_int", Ints(f, ins, 1), {0})
      [] ins.op = "not" -> Folds(ins, "const_bool", Bools(f, ins, 1), {0})
      [] ins.op = "cbr" -> {Br(IF a # 0 THEN ins.to[1] ELSE ins.to[2]) : a \in Bools(f, ins, 1)}
      [] OTHER -> {}

(* The quotient of the lowest word and -1 traps in the compiler itself. *)
FoldTraps(f, ins) ==
    Divides(ins.op) /\ MinInt \in Ints(f, ins, 1) /\ -1 \in Ints(f, ins, 2)

(* opt_algebraic on one instruction. *)
Simplified(f, ins) ==
    LET is(k, v) == v \in Ints(f, ins, k)
        copy(k) == {AsCopy(ins, ins.use[k])}
        zero == {AsConst(ins, "const_int", 0)}
        same == ins.use[1] = ins.use[2]
    IN CASE ins.op = "add" -> IF is(2, 0) THEN copy(1) ELSE IF is(1, 0) THEN copy(2) ELSE {}
         [] ins.op = "sub" -> IF is(2, 0) THEN copy(1) ELSE {}
         [] ins.op = "mul" -> IF is(2, 1) THEN copy(1) ELSE IF is(1, 1) THEN copy(2)
                              ELSE IF is(2, 0) \/ is(1, 0) THEN zero ELSE {}
         [] ins.op = "div" -> IF is(2, 1) THEN copy(1) ELSE {}
         [] ins.op \in {"bit_and", "bit_or"} -> IF same THEN copy(1) ELSE {}
         [] ins.op = "bit_xor" -> IF same THEN zero ELSE {}
         [] OTHER -> {}

(* opt_dce.  Uses are counted once, in every instruction and every phi;    *)
(* those of an instruction removed earlier still count.                    *)
HasNoCallEffects(op) == op \in Terminators \cup {"print", "store"}
HasSideEffects(op) == op \in Terminators \cup {"call", "print", "store"}

Reads(ins) == {ins.use[k] : k \in DOMAIN ins.use}
PhiReads(phi) == {phi.args[k][1] : k \in DOMAIN phi.args}

UsedByInstructions(f) == UNION {Reads(f.instrs[i]) : i \in DOMAIN f.instrs}
Used(f) ==
    (UNION {Reads(f.instrs[i]) : i \in DOMAIN f.instrs}) \cup (UNION {PhiReads(phi) : phi \in Phis(f)})

IsDead(f, ins) == ins.dst # NoReg /\ ins.dst \notin Used(f) /\ ~ HasSideEffects(ins.op)

WithoutDead(f) ==
    [f EXCEPT !.instrs = [i \in DOMAIN @ |-> IF IsDead(f, @[i]) THEN [@[i] EXCEPT !.op = Removed]
                                             ELSE @[i]]]

-----------------------------------------------------------------------------
Init ==
    /\ given = <<>> /\ funcs = <<>>
    /\ pc = "idle" /\ fi = 1 /\ at = 1 /\ iter = 1 /\ changed = FALSE

(* opt_run_pipeline is called with a module; at level 0 it returns.        *)
Start(m, level) ==
    /\ pc = "idle"
    /\ given' = m /\ funcs' = m
    /\ pc' = IF level <= 0 \/ m = <<>> THEN "done" ELSE "constfold"
    /\ UNCHANGED <<fi, at, iter, changed>>

F == funcs[fi]
Rest == at .. Len(F.instrs)

(* The rewrites of instruction i by the pass that runs. *)
Rewrites(i) ==
    CASE pc = "constfold" -> Folded(F, F.instrs[i])
      [] pc = "algebraic" -> Simplified(F, F.instrs[i])
      [] OTHER -> {}

Rewrite ==
    /\ pc \in {"constfold", "algebraic"}
    /\ \E i \in Rest :
          /\ \A j \in at .. (i - 1) : Rewrites(j) = {}
          /\ \E new \in Rewrites(i) : funcs' = [funcs EXCEPT ![fi].instrs[i] = new]
          /\ at' = i + 1
    /\ changed' = TRUE
    /\ UNCHANGED <<given, pc, fi, iter>>

(* The compiler dies of the division it folds, on hosts where it traps. *)
Trap ==
    /\ pc = "constfold"
    /\ \E i \in Rest :
          /\ \A j \in at .. (i - 1) : Rewrites(j) = {}
          /\ FoldTraps(F, F.instrs[i])
    /\ pc' = "trapped"
    /\ UNCHANGED <<given, funcs, fi, at, iter, changed>>

(* The function after this one, or the next round, or the end. *)
EndOfFunctionUncounted(again) ==
    /\ at' = 1 /\ fi' = 1 /\ changed' = FALSE /\ UNCHANGED iter
    /\ pc' = IF again THEN "constfold" ELSE "done"
EndOfFunction(again) ==
    /\ at' = 1
    /\ IF fi < Len(funcs)
       THEN fi' = fi + 1 /\ pc' = "constfold" /\ changed' = again /\ UNCHANGED iter
       ELSE /\ fi' = 1 /\ changed' = FALSE
            /\ IF again /\ iter < MaxIterations
               THEN iter' = iter + 1 /\ pc' = "constfold"
               ELSE pc' = "done" /\ UNCHANGED iter

EndOfPass ==
    /\ pc \in {"constfold", "algebraic"}
    /\ \A i \in Rest : Rewrites(i) = {}
    /\ UNCHANGED <<given, funcs>>
    /\ IF pc = "constfold" THEN pc' = "dce" /\ at' = 1 /\ UNCHANGED <<fi, iter, changed>>
       ELSE EndOfFunction(changed)

(* A removed instruction is found dead again, and counts as a change. *)
Eliminate ==
    /\ pc = "dce"
    /\ funcs' = [funcs EXCEPT ![fi] = WithoutDead(F)]
    /\ changed' = (changed \/ \E i \in DOMAIN F.instrs : IsDead(F, F.instrs[i]))
    /\ pc' = "algebraic" /\ at' = 1
    /\ UNCHANGED <<given, fi, iter>>

Run == Rewrite \/ Trap \/ EndOfPass \/ Eliminate
Next == (\E m \in Inputs, level \in Levels : Start(m, level)) \/ Run
Spec == Init /\ [][Next]_vars

-----------------------------------------------------------------------------
(* Properties *)

(* The pipeline's position and the modules are of their types. *)
TypeOK ==
    /\ given \in Module /\ funcs \in Module
    /\ pc \in {"idle", "constfold", "dce", "algebraic", "done", "trapped"}
    /\ fi \in Nat \ {0} /\ at \in Nat \ {0}
    /\ iter \in 1 .. MaxIterations
    /\ changed \in BOOLEAN
    /\ pc = "idle" => fi = 1 /\ at = 1
    /\ pc \in {"constfold", "dce", "algebraic"} => fi \in DOMAIN funcs /\ at <= Len(F.instrs) + 1

(* Whatever is folded, simplified or removed, the calls, prints, returns   *)
(* and branches of a function stay where they were, in number and order;   *)
(* a conditional branch may only settle on one of its own targets, and no  *)
(* block changes its range or its phis.                                    *)
Effects == Terminators \cup {"call", "print"}
SameEffect(new, old) ==
    \/ new = old
    \/ old.op = "cbr" /\ \E k \in {1, 2} : new = Br(old.to[k])

Kept(f, g) ==
    /\ f.blocks = g.blocks
    /\ DOMAIN f.instrs = DOMAIN g.instrs
    /\ \A i \in DOMAIN f.instrs :
          {f.instrs[i].op, g.instrs[i].op} \cap Effects # {} => SameEffect(f.instrs[i], g.instrs[i])

EffectsKept ==
    /\ DOMAIN funcs = DOMAIN given
    /\ \A k \in DOMAIN funcs : Kept(funcs[k], given[k])

(* A register that an instruction in use or a phi reads is still defined:  *)
(* dead code elimination never strands a use that another pass, or an      *)
(* edge that comes back later in the function, still needs.                *)
Live(f) == {i \in DOMAIN f.instrs : f.instrs[i].op # Removed}

Definitions(f) ==
    (0 .. (f.params - 1)) \cup {phi.dst : phi \in Phis(f)} \cup {f.instrs[i].dst : i \in Live(f)}

Uses(f) ==
    (UNION {Reads(f.instrs[i]) : i \in Live(f)}) \cup (UNION {PhiReads(phi) : phi \in Phis(f)})

Supplied(f) == Uses(f) \subseteq Definitions(f)

NoStrandedUse ==
    \A k \in DOMAIN funcs : Supplied(given[k]) => Supplied(funcs[k])

(* What the emitters take for granted of a function: every register has    *)
(* one definition and every value a register; every block has its          *)
(* instructions to itself and ends in the only branch or return of them; a *)
(* phi has one argument for each block that leads to its own, and a        *)
(* conditional branch leads to a block with phis only if it tests what no  *)
(* pass can know: if it settled on its other target, a phi would have an   *)
(* argument too many.                                                      *)
Valued == Consts \cup Pure \cup Opaque

Unknown(f) ==
    (0 .. (f.params - 1)) \cup {phi.dst : phi \in Phis(f)}
    \cup {f.instrs[i].dst : i \in {j \in DOMAIN f.instrs : f.instrs[j].op \in Opaque \cup {"call"}}}
TestsUnknown(f, r) ==
    \/ r \in Unknown(f)
    \/ \E i \in DOMAIN f.instrs : /\ f.instrs[i].dst = r /\ f.instrs[i].op \in CmpOps
                                 /\ Reads(f.instrs[i]) \cap Unknown(f) # {}

OneDefinition(f) ==
    /\ \A i, j \in DOMAIN f.instrs :
          i # j /\ f.instrs[i].dst # NoReg => f.instrs[i].dst # f.instrs[j].dst
    /\ \A i \in DOMAIN f.instrs, phi \in Phis(f) : f.instrs[i].dst # phi.dst
    /\ \A i \in DOMAIN f.instrs :
          \/ f.instrs[i].dst >= f.params
          \/ f.instrs[i].dst = NoReg /\ f.instrs[i].op \notin Valued

BlocksClosed(f) ==
    /\ \A b \in DOMAIN f.blocks :
          /\ Body(f, b) \subseteq DOMAIN f.instrs /\ Branches(f, b) = {f.blocks[b].end}
          /\ \A c \in DOMAIN f.blocks \ {b} : Body(f, b) \cap Body(f, c) = {}

PhisMatch(f) ==
    \A b \in DOMAIN f.blocks : \A k \in DOMAIN f.blocks[b].phis :
        LET args == f.blocks[b].phis[k].args
        IN /\ {args[j][2] : j \in DOMAIN args} = Predecessors(f, b)
           /\ Len(args) = Cardinality(Predecessors(f, b))

JoinsStay(f) ==
    \A b \in DOMAIN f.blocks, i \in DOMAIN f.instrs :
        f.blocks[b].phis # <<>> /\ f.instrs[i].op = "cbr" /\ b \in {f.instrs[i].to[1], f.instrs[i].to[2]}
        => TestsUnknown(f, f.instrs[i].use[1])

Formed(f) == OneDefinition(f) /\ BlocksClosed(f) /\ PhisMatch(f) /\ JoinsStay(f) /\ Supplied(f)

(* The pipeline hands every function on as well formed as it came.         *)
FormKept == \A k \in DOMAIN funcs : Formed(given[k]) => Formed(funcs[k])

(* The pipeline comes to an end although its last word on a removed        *)
(* instruction is that it may be removed: every step moves its position    *)
(* (round, function, pass, instruction) forward, and each is bounded.      *)
PassNumber == [idle |-> 0, constfold |-> 1, dce |-> 2, algebraic |-> 3, done |-> 4, trapped |-> 4]
Position == <<IF pc \in {"done", "trapped"} THEN 1 ELSE 0, iter, fi, PassNumber[pc], at>>
Before(p, q) == \E k \in 1..5 : p[k] < q[k] /\ \A j \in 1..(k - 1) : p[j] = q[j]

MovesOn == [][pc # "idle" => Before(Position, Position')]_vars
=================================================================================
