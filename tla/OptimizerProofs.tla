----------------------------- MODULE OptimizerProofs -----------------------------
(***************************************************************************)
(* The optimisation pipeline keeps its types, keeps the effects of every   *)
(* function, strands no use, moves forward with every step, hands every    *)
(* function on as well formed as it came, and does not change what a       *)
(* function does when it is run: for every module, every set of words and  *)
(* every arithmetic with the laws that Optimizer assumes.                  *)
(***************************************************************************)
EXTENDS Lockstep, TLAPS

(* The classes of opcodes. *)
LEMMA OpClasses ==
    /\ Consts \subseteq Ops /\ Consts \cap (Two \cup Unary \cup {"cbr"} \cup Terminators) = {}
    /\ {"const_int", "const_bool"} \subseteq Consts
    /\ "copy" \in Ops /\ "copy" \in Unary /\ "copy" \notin Two \cup Consts \cup Terminators
    /\ Removed \in Ops /\ Removed \notin Two \cup Unary \cup Consts \cup Terminators
    /\ "br" \in Ops /\ "br" \notin Two \cup Unary \cup Consts \cup {"cbr"}
    /\ IntOps \cup CmpOps \cup Logical \subseteq Pure
    /\ (Two \cup Unary) \cap Effects = {}
    /\ Consts \cap Effects = {} /\ Removed \notin Effects
    /\ "cbr" \in Terminators /\ "br" \in Terminators
BY DEF Consts, Two, Unary, Terminators, Ops, Removed, IntOps, CmpOps, Logical, Pure, Effects, Opaque

(* The fields of an instruction. *)
LEMMA InstrFields ==
    ASSUME NEW ins \in Instr
    PROVE  /\ ins \in Shape
           /\ ins.op \in Ops /\ ins.dst \in Int /\ ins.use \in Seq(Int)
           /\ ins.imm \in Value \cup Nat /\ ins.to \in Seq(Nat)
           /\ ins.op \in Two => Len(ins.use) = 2
           /\ ins.op \in Unary \cup {"cbr"} => Len(ins.use) = 1
           /\ ins.op \in Consts => ins.use = <<>> /\ ins.imm \in Value
           /\ ins.op = "br" => Len(ins.to) = 1
           /\ ins.op = "cbr" => Len(ins.to) = 2
           /\ ins.op \in Terminators => ins.dst = NoReg
BY DEF Instr, Shape

(* What the two replacements and a settled branch are made of. *)
LEMMA ConstTyped ==
    ASSUME NEW ins \in Instr, ins.op \notin Terminators, NEW kind \in Consts, NEW v \in Value
    PROVE  /\ AsConst(ins, kind, v) \in Instr
           /\ AsConst(ins, kind, v).op = kind
           /\ AsConst(ins, kind, v).dst = ins.dst
           /\ AsConst(ins, kind, v).use = <<>>
<1> DEFINE none == <<>>
<1>1. none \in Seq(Int) /\ kind \in Ops /\ v \in Value \cup Nat /\ ins \in Shape
  BY OpClasses, InstrFields
<1>2. AsConst(ins, kind, v) = [ins EXCEPT !.op = kind, !.use = none, !.imm = v]
  BY DEF AsConst
<1> HIDE DEF none
<1>3. /\ AsConst(ins, kind, v) \in Shape /\ AsConst(ins, kind, v).op = kind
      /\ AsConst(ins, kind, v).dst = ins.dst /\ AsConst(ins, kind, v).use = none
      /\ AsConst(ins, kind, v).imm = v
  BY <1>1, <1>2 DEF Shape
<1>4. kind \notin Two \cup Unary \cup {"cbr"} \cup Terminators /\ kind # "br"
  BY OpClasses
<1> QED
  BY <1>3, <1>4 DEF Instr, none

LEMMA CopyTyped ==
    ASSUME NEW ins \in Instr, ins.op \in Two, NEW k \in {1, 2}
    PROVE  /\ AsCopy(ins, ins.use[k]) \in Instr
           /\ AsCopy(ins, ins.use[k]).op = "copy"
           /\ AsCopy(ins, ins.use[k]).dst = ins.dst
           /\ AsCopy(ins, ins.use[k]).use = <<ins.use[k]>>
<1>1. ins.use[k] \in Int
  BY InstrFields
<1> DEFINE one == <<ins.use[k]>>
<1>2. one \in Seq(Int) /\ Len(one) = 1 /\ "copy" \in Ops /\ ins \in Shape
  BY <1>1, OpClasses, InstrFields
<1>3. AsCopy(ins, ins.use[k]) = [ins EXCEPT !.op = "copy", !.use = one]
  BY DEF AsCopy
<1> HIDE DEF one
<1>4. /\ AsCopy(ins, ins.use[k]) \in Shape /\ AsCopy(ins, ins.use[k]).op = "copy"
      /\ AsCopy(ins, ins.use[k]).dst = ins.dst /\ AsCopy(ins, ins.use[k]).use = one
  BY <1>2, <1>3 DEF Shape
<1> QED
  BY <1>2, <1>4, OpClasses DEF Instr, one

LEMMA BranchTyped ==
    ASSUME NEW b \in Nat
    PROVE  /\ Br(b) \in Instr /\ Br(b).op = "br" /\ Br(b).dst = NoReg /\ Br(b).use = <<>>
<1> DEFINE bare == [op |-> "br", dst |-> NoReg, use |-> <<>>, imm |-> 0, to |-> <<>>, fn |-> "none"]
<1>1. Br(b) = [bare EXCEPT !.to = <<b>>]
  BY DEF Br, Ins
<1>2. <<>> \in Seq(Int) /\ <<>> \in Seq(Nat)
  OBVIOUS
<1>b. "none" \in {"none"} \cup STRING
  OBVIOUS
<1>c. "br" \in Ops
  BY OpClasses
<1>a. NoReg \in Int /\ 0 \in Value \cup Nat
  BY DEF NoReg
<1>3. bare \in Shape /\ bare.op = "br" /\ bare.dst = NoReg /\ bare.use = <<>>
  BY <1>2, <1>a, <1>b, <1>c DEF Shape
<1> HIDE DEF bare
<1>4. ASSUME NEW to \in Seq(Nat)
      PROVE  /\ [bare EXCEPT !.to = to] \in Shape /\ [bare EXCEPT !.to = to].to = to
             /\ [bare EXCEPT !.to = to].op = bare.op /\ [bare EXCEPT !.to = to].dst = bare.dst
             /\ [bare EXCEPT !.to = to].use = bare.use
  BY <1>3 DEF Shape
<1>5. <<b>> \in Seq(Nat) /\ Len(<<b>>) = 1
  OBVIOUS
<1>6. /\ Br(b) \in Shape /\ Br(b).op = "br" /\ Br(b).dst = NoReg /\ Br(b).use = <<>>
      /\ Br(b).to = <<b>>
  BY <1>1, <1>3, <1>4, <1>5
<1> QED
  BY <1>5, <1>6, OpClasses DEF Instr

(* The constants a rewrite looks up are words. *)
LEMMA ImmsAreValues ==
    ASSUME NEW f \in Func, NEW kind \in Consts, NEW r
    PROVE  Imms(f, kind, r) \subseteq Value
<1>1. \A i \in DOMAIN f.instrs : f.instrs[i] \in Instr
  BY DEF Func
<1> QED
  BY <1>1, InstrFields DEF Imms

-----------------------------------------------------------------------------
(* A rewritten instruction is one of five.  The relation holds what the    *)
(* theorems need of it.                                                    *)
Becomes(new, old) ==
    /\ new \in Instr
    /\ new.dst = old.dst
    /\ old.op \in Two \cup Unary \cup {"cbr"}
    /\ old.op \in Two \cup Unary =>
          /\ new.op \in Consts \cup {"copy"}
          /\ \A k \in DOMAIN new.use : \E j \in DOMAIN old.use : new.use[k] = old.use[j]
    /\ old.op = "cbr" => new \in {Br(old.to[1]), Br(old.to[2])}

LEMMA ConstBecomes ==
    ASSUME NEW ins \in Instr, ins.op \in Two \cup Unary, NEW kind \in Consts, NEW v \in Value
    PROVE  Becomes(AsConst(ins, kind, v), ins)
<1>1. ins.op \notin Terminators /\ ins.op # "cbr"
  BY DEF Two, Unary, IntOps, CmpOps, Logical, Terminators
<1>2. DOMAIN <<>> = {}
  OBVIOUS
<1> QED
  BY <1>1, <1>2, ConstTyped DEF Becomes

LEMMA CopyBecomes ==
    ASSUME NEW ins \in Instr, ins.op \in Two, NEW k \in {1, 2}
    PROVE  Becomes(AsCopy(ins, ins.use[k]), ins)
<1>1. ins.op # "cbr"
  BY DEF Two, IntOps, CmpOps, Logical
<1>2. k \in DOMAIN ins.use
  BY InstrFields
<1>3. DOMAIN <<ins.use[k]>> = {1} /\ <<ins.use[k]>>[1] = ins.use[k]
  OBVIOUS
<1> QED
  BY <1>1, <1>2, <1>3, CopyTyped DEF Becomes

LEMMA BranchBecomes ==
    ASSUME NEW ins \in Instr, ins.op = "cbr", NEW k \in {1, 2}
    PROVE  Becomes(Br(ins.to[k]), ins)
<1>1. ins.to[k] \in Nat
  BY InstrFields
<1>2. ins.op \notin Two \cup Unary
  BY DEF Two, Unary, IntOps, CmpOps, Logical
<1>3. ins.dst = NoReg
  BY InstrFields, OpClasses
<1> QED
  BY <1>1, <1>2, <1>3, BranchTyped DEF Becomes

(* Constant folding rewrites to such an instruction, *)
LEMMA FoldedBecomes ==
    ASSUME NEW f \in Func, NEW ins \in Instr, NEW new \in Folded(f, ins)
    PROVE  Becomes(new, ins)
<1>1. \A k : Ints(f, ins, k) \subseteq Value /\ Bools(f, ins, k) \subseteq Value
  BY ImmsAreValues, OpClasses DEF Ints, Bools
<1>2. \A op \in Pure, a, b \in Value : Apply(op, a, b) \in Value
  BY ApplyAssumption
<1>3. 0 \in Value
  BY ApplyAssumption
<1>4. CASE ins.op \in IntOps
  <2>0. ins.op \notin CmpOps \cup Logical \cup {"neg", "not", "cbr"}
    BY <1>4 DEF CmpOps, IntOps, Logical
  <2>a. new \in Folds(ins, "const_int", Ints(f, ins, 1), Ints(f, ins, 2))
    BY <1>4, <2>0 DEF Folded
  <2>1. PICK a \in Ints(f, ins, 1), b \in Ints(f, ins, 2) : new = AsConst(ins, "const_int", Apply(ins.op, a, b))
    BY <2>a DEF Folds
  <2>2. Apply(ins.op, a, b) \in Value /\ ins.op \in Two
    BY <1>1, <1>2, <1>4, OpClasses DEF Two
  <2> QED
    BY <2>1, <2>2, ConstBecomes, OpClasses
<1>5. CASE ins.op \in CmpOps
  <2>0. ins.op \notin IntOps \cup Logical \cup {"neg", "not", "cbr"}
    BY <1>5 DEF CmpOps, IntOps, Logical
  <2>a. new \in Folds(ins, "const_bool", Ints(f, ins, 1), Ints(f, ins, 2))
    BY <1>5, <2>0 DEF Folded
  <2>1. PICK a \in Ints(f, ins, 1), b \in Ints(f, ins, 2) : new = AsConst(ins, "const_bool", Apply(ins.op, a, b))
    BY <2>a DEF Folds
  <2>2. Apply(ins.op, a, b) \in Value /\ ins.op \in Two
    BY <1>1, <1>2, <1>5, OpClasses DEF Two
  <2> QED
    BY <2>1, <2>2, ConstBecomes, OpClasses
<1>6. CASE ins.op \in Logical
  <2>0. ins.op \notin IntOps \cup CmpOps \cup {"neg", "not", "cbr"}
    BY <1>6 DEF CmpOps, IntOps, Logical
  <2>a. new \in Folds(ins, "const_bool", Bools(f, ins, 1), Bools(f, ins, 2))
    BY <1>6, <2>0 DEF Folded
  <2>1. PICK a \in Bools(f, ins, 1), b \in Bools(f, ins, 2) : new = AsConst(ins, "const_bool", Apply(ins.op, a, b))
    BY <2>a DEF Folds
  <2>2. Apply(ins.op, a, b) \in Value /\ ins.op \in Two
    BY <1>1, <1>2, <1>6, OpClasses DEF Two
  <2> QED
    BY <2>1, <2>2, ConstBecomes, OpClasses
<1>7. CASE ins.op = "neg"
  <2>0. ins.op \notin IntOps \cup CmpOps \cup Logical
    BY <1>7 DEF CmpOps, IntOps, Logical
  <2>1. PICK a \in Ints(f, ins, 1) : new = AsConst(ins, "const_int", Apply(ins.op, a, 0))
    BY <1>7, <2>0 DEF Folded, Folds
  <2>2. Apply(ins.op, a, 0) \in Value /\ ins.op \in Unary
    BY <1>1, <1>2, <1>3, <1>7 DEF Unary, Pure
  <2> QED
    BY <2>1, <2>2, ConstBecomes, OpClasses
<1>8. CASE ins.op = "not"
  <2>0. ins.op \notin IntOps \cup CmpOps \cup Logical /\ ins.op # "neg"
    BY <1>8 DEF CmpOps, IntOps, Logical
  <2>1. PICK a \in Bools(f, ins, 1) : new = AsConst(ins, "const_bool", Apply(ins.op, a, 0))
    BY <1>8, <2>0 DEF Folded, Folds
  <2>2. Apply(ins.op, a, 0) \in Value /\ ins.op \in Unary
    BY <1>1, <1>2, <1>3, <1>8 DEF Unary, Pure
  <2> QED
    BY <2>1, <2>2, ConstBecomes, OpClasses
<1>9. CASE ins.op = "cbr"
  <2>0. ins.op \notin IntOps \cup CmpOps \cup Logical /\ ins.op \notin {"neg", "not"}
    BY <1>9 DEF CmpOps, IntOps, Logical
  <2>1. PICK a \in Bools(f, ins, 1) : new = Br(IF a # 0 THEN ins.to[1] ELSE ins.to[2])
    BY <1>9, <2>0 DEF Folded, Folds
  <2>2. PICK k \in {1, 2} : new = Br(ins.to[k])
    BY <2>1
  <2> QED
    BY <2>2, <1>9, BranchBecomes
<1>10. CASE ins.op \notin IntOps \cup CmpOps \cup Logical \cup {"neg", "not", "cbr"}
  BY <1>10 DEF Folded
<1> QED
  BY <1>4, <1>5, <1>6, <1>7, <1>8, <1>9, <1>10

(* and so does algebraic simplification. *)
LEMMA SimplifiedBecomes ==
    ASSUME NEW f \in Func, NEW ins \in Instr, NEW new \in Simplified(f, ins)
    PROVE  Becomes(new, ins)
<1>1. ins.op \in Two
  BY DEF Simplified, Two, IntOps
<1>2. \/ \E k \in {1, 2} : new = AsCopy(ins, ins.use[k])
      \/ new = AsConst(ins, "const_int", 0)
  BY DEF Simplified
<1>3. 0 \in Value
  BY ApplyAssumption
<1> QED
  BY <1>1, <1>2, <1>3, CopyBecomes, ConstBecomes, OpClasses

-----------------------------------------------------------------------------
(* A function with one instruction replaced, and one without its dead      *)
(* instructions, is a function.                                            *)
LEMMA FuncFields ==
    ASSUME NEW f \in Func
    PROVE  /\ f = [name |-> f.name, params |-> f.params, instrs |-> f.instrs,
                   blocks |-> f.blocks, next |-> f.next]
           /\ f.instrs \in Seq(Instr) /\ f.blocks \in Seq(Block) /\ f.params \in Nat
           /\ f.name \in STRING /\ f.next \in Nat
BY DEF Func

LEMMA ReplaceTyped ==
    ASSUME NEW f \in Func, NEW i \in DOMAIN f.instrs, NEW new \in Instr
    PROVE  [f EXCEPT !.instrs[i] = new] \in Func
<1>1. f.instrs \in Seq(Instr)
  BY FuncFields
<1>2. [f.instrs EXCEPT ![i] = new] \in Seq(Instr)
  BY <1>1
<1> QED
  BY <1>2 DEF Func

LEMMA WithoutDeadFields ==
    ASSUME NEW f \in Func
    PROVE  /\ WithoutDead(f) \in Func
           /\ WithoutDead(f).blocks = f.blocks /\ WithoutDead(f).params = f.params
           /\ WithoutDead(f).instrs =
                 [i \in DOMAIN f.instrs |-> IF IsDead(f, f.instrs[i])
                                            THEN [f.instrs[i] EXCEPT !.op = Removed]
                                            ELSE f.instrs[i]]
<1> DEFINE less == [i \in DOMAIN f.instrs |-> IF IsDead(f, f.instrs[i])
                                            THEN [f.instrs[i] EXCEPT !.op = Removed]
                                            ELSE f.instrs[i]]
<1>1. f.instrs \in Seq(Instr)
  BY FuncFields
<1>2. ASSUME NEW ins \in Instr PROVE [ins EXCEPT !.op = Removed] \in Instr
  <2>1. [ins EXCEPT !.op = Removed] \in Shape /\ [ins EXCEPT !.op = Removed].op = Removed
    BY InstrFields, OpClasses DEF Shape
  <2>3. Removed # "br" /\ Removed # "cbr"
    BY DEF Removed
  <2> QED
    BY <2>1, <2>3, OpClasses DEF Instr
<1>3. less \in Seq(Instr)
  <2>1. PICK n \in Nat : f.instrs \in [1..n -> Instr]
    BY <1>1
  <2>2. less \in [1..n -> Instr]
    BY <2>1, <1>2
  <2> HIDE DEF less
  <2> QED
    BY <2>2
<1>4. WithoutDead(f) = [f EXCEPT !.instrs = less]
  BY DEF WithoutDead
<1> HIDE DEF less
<1>5. [f EXCEPT !.instrs = less] \in Func
  BY <1>3 DEF Func
<1>6. /\ [f EXCEPT !.instrs = less].blocks = f.blocks /\ [f EXCEPT !.instrs = less].params = f.params
      /\ [f EXCEPT !.instrs = less].instrs = less
  BY FuncFields
<1> QED
  BY <1>4, <1>5, <1>6 DEF less

-----------------------------------------------------------------------------
(* The steps in the form the theorems use. *)
LEMMA ReplaceFieldsOf ==
    ASSUME NEW f \in Func, NEW i \in DOMAIN f.instrs, NEW new
    PROVE  /\ [f EXCEPT !.instrs[i] = new].blocks = f.blocks
           /\ [f EXCEPT !.instrs[i] = new].params = f.params
           /\ [f EXCEPT !.instrs[i] = new].instrs = [f.instrs EXCEPT ![i] = new]
BY DEF Func

LEMMA RewriteStep ==
    ASSUME TypeOK, Rewrite
    PROVE  /\ fi \in DOMAIN funcs /\ F \in Func
           /\ \E i \in DOMAIN F.instrs, new \in Instr :
                /\ at <= i /\ at' = i + 1
                /\ new \in Rewrites(i) /\ Becomes(new, F.instrs[i])
                /\ funcs' = [funcs EXCEPT ![fi] = [F EXCEPT !.instrs[i] = new]]
<1>1. fi \in DOMAIN funcs /\ F \in Func
  BY DEF TypeOK, Rewrite, Module, F
<1>2. PICK i \in Rest : /\ \E new \in Rewrites(i) : funcs' = [funcs EXCEPT ![fi].instrs[i] = new]
                        /\ at' = i + 1
  BY DEF Rewrite
<1>3. PICK new \in Rewrites(i) : funcs' = [funcs EXCEPT ![fi].instrs[i] = new]
  BY <1>2
<1>4. i \in DOMAIN F.instrs /\ at <= i /\ F.instrs[i] \in Instr
  <2>1. F.instrs \in Seq(Instr) /\ at \in Nat \ {0}
    BY <1>1, FuncFields DEF TypeOK
  <2>2. i \in at .. Len(F.instrs)
    BY DEF Rest
  <2> QED
    BY <2>1, <2>2
<1>5. Becomes(new, F.instrs[i])
  <2>1. CASE pc = "constfold"
    <3>1. new \in Folded(F, F.instrs[i])
      BY <2>1 DEF Rewrites
    <3> QED
      BY <3>1, <1>1, <1>4, FoldedBecomes
  <2>2. CASE pc = "algebraic"
    <3>1. new \in Simplified(F, F.instrs[i])
      BY <2>2 DEF Rewrites
    <3> QED
      BY <3>1, <1>1, <1>4, SimplifiedBecomes
  <2> QED
    BY <2>1, <2>2 DEF Rewrite
<1>6. funcs' = [funcs EXCEPT ![fi] = [F EXCEPT !.instrs[i] = new]]
  BY <1>3 DEF F
<1>7. new \in Instr
  BY <1>5 DEF Becomes
<1> QED
  BY <1>1, <1>2, <1>3, <1>4, <1>5, <1>6, <1>7

-----------------------------------------------------------------------------
(* Types *)
LEMMA FuncsReplaced ==
    ASSUME NEW m \in Module, NEW k \in DOMAIN m, NEW f \in Func
    PROVE  /\ [m EXCEPT ![k] = f] \in Module
           /\ DOMAIN [m EXCEPT ![k] = f] = DOMAIN m
           /\ Len([m EXCEPT ![k] = f]) = Len(m)
           /\ [m EXCEPT ![k] = f][k] = f
           /\ \A j \in DOMAIN m \ {k} : [m EXCEPT ![k] = f][j] = m[j]
BY DEF Module

LEMMA TypeStep ==
    ASSUME TypeOK, [Next]_vars
    PROVE  TypeOK'
<1>1. CASE UNCHANGED vars
  BY <1>1 DEF TypeOK, vars, F
<1>2. ASSUME NEW m \in Inputs, NEW level \in Levels, Start(m, level)
      PROVE  TypeOK'
  <2>1. m \in Module
    BY InputsAssumption
  <2>2. CASE level <= 0 \/ m = <<>>
    BY <1>2, <2>1, <2>2 DEF TypeOK, Start
  <2>3. CASE ~ (level <= 0 \/ m = <<>>)
    <3>1. pc' = "constfold" /\ fi' = fi /\ at' = at /\ funcs' = m
      BY <1>2, <2>3 DEF Start
    <3>2. fi' = 1 /\ at' = 1 /\ 1 \in DOMAIN m /\ m[1] \in Func
      BY <1>2, <2>1, <2>3, <3>1 DEF TypeOK, Start, Module
    <3>3. Len(m[1].instrs) \in Nat
      BY <3>2, FuncFields
    <3>4. fi' \in DOMAIN funcs' /\ at' <= Len(F'.instrs) + 1
      BY <3>1, <3>2, <3>3 DEF F
    <3> QED
      BY <1>2, <2>1, <3>1, <3>4 DEF TypeOK, Start
  <2> QED
    BY <2>2, <2>3
<1>3. CASE Rewrite
  <2>1. PICK i \in DOMAIN F.instrs, new \in Instr :
           /\ at <= i /\ at' = i + 1
           /\ Becomes(new, F.instrs[i])
           /\ funcs' = [funcs EXCEPT ![fi] = [F EXCEPT !.instrs[i] = new]]
    BY <1>3, RewriteStep
  <2>2. fi \in DOMAIN funcs /\ F \in Func /\ new \in Instr
    BY <1>3, <2>1, RewriteStep DEF Becomes
  <2> DEFINE g == [F EXCEPT !.instrs[i] = new]
  <2>3. g \in Func /\ g.instrs = [F.instrs EXCEPT ![i] = new]
    BY <2>2, ReplaceTyped, ReplaceFieldsOf
  <2>4. F.instrs \in Seq(Instr) /\ Len(g.instrs) = Len(F.instrs)
    BY <2>2, <2>3, FuncFields
  <2>5. funcs \in Module /\ funcs' = [funcs EXCEPT ![fi] = g]
    BY <2>1 DEF TypeOK
  <2> HIDE DEF g
  <2>6. funcs' \in Module /\ fi \in DOMAIN funcs' /\ funcs'[fi] = g
    BY <2>2, <2>3, <2>5, FuncsReplaced
  <2>7. F' = g
    BY <1>3, <2>6 DEF F, Rewrite
  <2>8. i \in 1 .. Len(F.instrs)
    BY <2>4
  <2>9. at' \in Nat \ {0} /\ at' <= Len(F'.instrs) + 1
    BY <2>1, <2>4, <2>7, <2>8
  <2> QED
    BY <1>3, <2>6, <2>9 DEF TypeOK, Rewrite
<1>4. CASE Trap
  BY <1>4 DEF TypeOK, Trap
<1>5. CASE EndOfPass
  <2>1. funcs' = funcs /\ given' = given /\ pc \in {"constfold", "algebraic"}
    BY <1>5 DEF EndOfPass
  <2>2. \A k \in DOMAIN funcs : funcs[k] \in Func /\ 1 <= Len(funcs[k].instrs) + 1
    BY FuncFields DEF TypeOK, Module
  <2>3. fi \in DOMAIN funcs /\ funcs \in Module
    BY <2>1 DEF TypeOK
  <2>4. DOMAIN funcs = 1 .. Len(funcs) /\ Len(funcs) \in Nat
    BY <2>3 DEF Module
  <2>5. CASE pc = "constfold"
    <3>1. pc' = "dce" /\ at' = 1 /\ UNCHANGED <<fi, iter, changed>>
      BY <1>5, <2>5 DEF EndOfPass
    <3>2. F' = F /\ F = funcs[fi]
      BY <2>1, <3>1 DEF F
    <3> QED
      BY <2>1, <2>2, <2>3, <3>1, <3>2 DEF TypeOK
  <2>6. CASE pc # "constfold"
    <3>0. EndOfFunction(changed) /\ changed \in BOOLEAN
      BY <1>5, <2>6 DEF EndOfPass, TypeOK
    <3>1. CASE fi < Len(funcs)
      <4>1. fi' = fi + 1 /\ pc' = "constfold" /\ changed' = changed /\ iter' = iter /\ at' = 1
        BY <3>0, <3>1 DEF EndOfFunction
      <4>2. fi + 1 \in DOMAIN funcs
        BY <2>3, <2>4, <3>1
      <4>3. F' = funcs[fi + 1]
        BY <2>1, <4>1 DEF F
      <4> QED
        BY <2>1, <2>2, <2>3, <4>1, <4>2, <4>3 DEF TypeOK
    <3>2. CASE ~ (fi < Len(funcs))
      <4>1. /\ fi' = 1 /\ at' = 1 /\ changed' = FALSE
            /\ \/ iter < MaxIterations /\ iter' = iter + 1 /\ pc' = "constfold"
               \/ pc' = "done" /\ iter' = iter
        BY <3>0, <3>2 DEF EndOfFunction
      <4>2. 1 \in DOMAIN funcs
        BY <2>3, <2>4
      <4>3. F' = funcs[1]
        BY <2>1, <4>1 DEF F
      <4>4. iter' \in 1 .. MaxIterations
        BY <4>1, IterationsAssumption DEF TypeOK
      <4>5. at' <= Len(F'.instrs) + 1 /\ fi' \in DOMAIN funcs'
        BY <2>1, <2>2, <4>1, <4>2, <4>3
      <4>6. pc' \in {"constfold", "done"} /\ pc' # "idle" /\ changed' \in BOOLEAN
        BY <4>1
      <4>7. given' \in Module /\ funcs' \in Module
        BY <2>1 DEF TypeOK
      <4>8. fi' \in Nat \ {0} /\ at' \in Nat \ {0}
        BY <4>1
      <4> QED
        BY <4>4, <4>5, <4>6, <4>7, <4>8 DEF TypeOK
    <3> QED
      BY <3>1, <3>2
  <2> QED
    BY <2>5, <2>6
<1>6. CASE Eliminate
  <2>1. funcs \in Module /\ fi \in DOMAIN funcs /\ F \in Func /\ F = funcs[fi]
    BY <1>6 DEF TypeOK, Eliminate, Module, F
  <2> DEFINE g == WithoutDead(F)
  <2>2. g \in Func
    BY <2>1, WithoutDeadFields
  <2>3. funcs' = [funcs EXCEPT ![fi] = g] /\ fi' = fi
    BY <1>6 DEF Eliminate
  <2> HIDE DEF g
  <2>4. funcs' \in Module /\ fi \in DOMAIN funcs' /\ funcs'[fi] = g
    BY <2>1, <2>2, <2>3, FuncsReplaced
  <2>5. F' = g /\ 1 <= Len(g.instrs) + 1
    BY <2>2, <2>3, <2>4, FuncFields DEF F
  <2>6. changed' \in BOOLEAN
    BY <1>6 DEF Eliminate, TypeOK
  <2> QED
    BY <1>6, <2>3, <2>4, <2>5, <2>6 DEF TypeOK, Eliminate
<1> QED
  BY <1>1, <1>2, <1>3, <1>4, <1>5, <1>6 DEF Next, Run

(* The pipeline's position and the modules are of their types. *)
THEOREM Typing == Spec => []TypeOK
<1>1. Init => TypeOK
  <2>1. <<>> \in Module
    BY DEF Module
  <2>2. 1 \in 1 .. MaxIterations
    BY IterationsAssumption
  <2> SUFFICES ASSUME Init PROVE TypeOK
    OBVIOUS
  <2>3. given \in Module /\ funcs \in Module /\ iter \in 1 .. MaxIterations
    BY <2>1, <2>2 DEF Init
  <2>4. pc = "idle" /\ fi = 1 /\ at = 1 /\ changed = FALSE
    BY DEF Init
  <2>5. /\ pc \in {"idle", "constfold", "dce", "algebraic", "done", "trapped"}
        /\ pc \notin {"constfold", "dce", "algebraic"}
        /\ fi \in Nat \ {0} /\ at \in Nat \ {0}
    BY <2>4
  <2>6. changed \in BOOLEAN
    BY <2>4, Zenon
  <2> QED
    BY <2>3, <2>4, <2>5, <2>6 DEF TypeOK
<1>2. TypeOK /\ [Next]_vars => TypeOK'
  BY TypeStep
<1> QED
  BY <1>1, <1>2, PTL DEF Spec

-----------------------------------------------------------------------------
(* Effects *)
LEMMA SameEffectSelf == ASSUME NEW x PROVE SameEffect(x, x)
BY DEF SameEffect

(* A rewrite of an instruction keeps the effects of its function, *)
LEMMA ReplaceKeeps ==
    ASSUME NEW f \in Func, NEW g, Kept(f, g), NEW i \in DOMAIN f.instrs, NEW new,
           Becomes(new, f.instrs[i])
    PROVE  Kept([f EXCEPT !.instrs[i] = new], g)
<1> DEFINE h == [f EXCEPT !.instrs[i] = new]
<1>1. h.blocks = f.blocks /\ h.instrs = [f.instrs EXCEPT ![i] = new]
  BY ReplaceFieldsOf
<1>2. f.instrs \in Seq(Instr) /\ f.instrs[i] \in Instr
  BY FuncFields
<1>3. DOMAIN h.instrs = DOMAIN f.instrs /\ h.instrs[i] = new
      /\ \A j \in DOMAIN f.instrs \ {i} : h.instrs[j] = f.instrs[j]
  BY <1>1, <1>2
<1> HIDE DEF h
<1> DEFINE old == f.instrs[i]
           orig == g.instrs[i]
<1>4. {old.op, orig.op} \cap Effects # {} => SameEffect(old, orig)
  BY DEF Kept
<1>5. SameEffect(old, orig) => old = orig \/ old.op = "br"
  <2>1. ASSUME NEW b PROVE Br(b).op = "br"
    BY DEF Br, Ins
  <2> QED
    BY <2>1 DEF SameEffect
<1>6. CASE old.op \in Two \cup Unary
  <2>1. old.op \notin Effects /\ old.op # "br" /\ new.op \notin Effects
    BY <1>6, OpClasses DEF Becomes
  <2>2. orig.op \notin Effects
    BY <1>4, <1>5, <2>1
  <2> QED
    BY <1>1, <1>3, <2>1, <2>2 DEF Kept, h
<1>7. CASE old.op = "cbr"
  <2>1. "cbr" \in Effects /\ "cbr" # "br"
    BY OpClasses DEF Effects
  <2>2. old = orig
    BY <1>4, <1>5, <1>7, <2>1
  <2>3. \E k \in {1, 2} : new = Br(orig.to[k])
    BY <1>7, <2>2 DEF Becomes
  <2>4. SameEffect(new, orig)
    BY <1>7, <2>2, <2>3 DEF SameEffect
  <2> QED
    BY <1>1, <1>3, <2>4 DEF Kept, h
<1> QED
  BY <1>6, <1>7 DEF Becomes

(* and so does the elimination of its dead instructions. *)
LEMMA EliminateKeeps ==
    ASSUME NEW f \in Func, NEW g, Kept(f, g)
    PROVE  Kept(WithoutDead(f), g)
<1> DEFINE h == WithoutDead(f)
<1>1. h.blocks = f.blocks /\ DOMAIN h.instrs = DOMAIN f.instrs
  BY WithoutDeadFields
<1>2. ASSUME NEW i \in DOMAIN f.instrs, {h.instrs[i].op, g.instrs[i].op} \cap Effects # {}
      PROVE  SameEffect(h.instrs[i], g.instrs[i])
  <2> DEFINE old == f.instrs[i]
  <2>1. old \in Instr
    BY FuncFields
  <2>2. CASE ~ IsDead(f, old)
    <3>1. h.instrs[i] = old
      BY <2>2, WithoutDeadFields
    <3> QED
      BY <1>2, <3>1 DEF Kept
  <2>3. CASE IsDead(f, old)
    <3>1. h.instrs[i] = [old EXCEPT !.op = Removed]
      BY <2>3, WithoutDeadFields
    <3>2. h.instrs[i].op = Removed
      BY <2>1, <3>1 DEF Instr, Shape
    <3>3. old.op \notin Effects /\ old.op # "br"
      BY <2>3 DEF IsDead, HasSideEffects, Effects, Terminators
    <3>4. ASSUME NEW b PROVE Br(b).op = "br"
      BY DEF Br, Ins
    <3>5. g.instrs[i].op \in Effects
      BY <1>2, <3>2, OpClasses
    <3>6. SameEffect(old, g.instrs[i])
      BY <3>5 DEF Kept
    <3> QED
      BY <3>3, <3>4, <3>5, <3>6 DEF SameEffect
  <2> QED
    BY <2>2, <2>3
<1> QED
  BY <1>1, <1>2 DEF Kept

LEMMA EffectsStep ==
    ASSUME TypeOK, EffectsKept, [Next]_vars
    PROVE  EffectsKept'
<1>0. funcs \in Module
  BY DEF TypeOK
<1>1. CASE UNCHANGED <<given, funcs>>
  BY <1>1 DEF EffectsKept
<1>2. CASE \E m \in Inputs, level \in Levels : Start(m, level)
  <2>1. given' = funcs'
    BY <1>2 DEF Start
  <2>2. ASSUME NEW f PROVE Kept(f, f)
    BY SameEffectSelf DEF Kept
  <2> QED
    BY <2>1, <2>2 DEF EffectsKept
<1>3. CASE Rewrite
  <2>1. PICK i \in DOMAIN F.instrs, new \in Instr :
           /\ Becomes(new, F.instrs[i])
           /\ funcs' = [funcs EXCEPT ![fi] = [F EXCEPT !.instrs[i] = new]]
    BY <1>3, RewriteStep
  <2>2. fi \in DOMAIN funcs /\ F \in Func /\ F = funcs[fi] /\ given' = given
    BY <1>3, RewriteStep DEF F, Rewrite
  <2> DEFINE g == [F EXCEPT !.instrs[i] = new]
  <2>3. g \in Func /\ Kept(g, given[fi])
    BY <2>1, <2>2, ReplaceKeeps, ReplaceTyped DEF EffectsKept, Becomes
  <2> HIDE DEF g
  <2>4. funcs' = [funcs EXCEPT ![fi] = g]
    BY <2>1 DEF g
  <2> QED
    BY <1>0, <2>2, <2>3, <2>4, FuncsReplaced DEF EffectsKept
<1>4. CASE Eliminate
  <2>1. fi \in DOMAIN funcs /\ F \in Func /\ F = funcs[fi] /\ given' = given
    BY <1>4 DEF TypeOK, Module, F, Eliminate
  <2> DEFINE g == WithoutDead(F)
  <2>2. g \in Func /\ Kept(g, given[fi])
    BY <2>1, EliminateKeeps, WithoutDeadFields DEF EffectsKept
  <2>3. funcs' = [funcs EXCEPT ![fi] = g]
    BY <1>4 DEF Eliminate
  <2> HIDE DEF g
  <2> QED
    BY <1>0, <2>1, <2>2, <2>3, FuncsReplaced DEF EffectsKept
<1>5. Trap \/ EndOfPass => UNCHANGED <<given, funcs>>
  BY DEF Trap, EndOfPass
<1> QED
  BY <1>1, <1>2, <1>3, <1>4, <1>5 DEF Next, Run, vars

(* Calls, prints, returns and branches stay where they are, in number and  *)
(* order, and no block changes its range or its phis.                      *)
THEOREM EffectsStay == Spec => []EffectsKept
<1>1. Init => EffectsKept
  BY DEF Init, EffectsKept
<1>2. TypeOK /\ EffectsKept /\ [Next]_vars => EffectsKept'
  BY EffectsStep
<1> QED
  BY <1>1, <1>2, Typing, PTL DEF Spec

-----------------------------------------------------------------------------
(* Uses *)

(* A rewrite of an instruction reads no more than before and defines as    *)
(* much,                                                                   *)
LEMMA ReplaceSupplied ==
    ASSUME NEW f \in Func, Supplied(f), NEW i \in DOMAIN f.instrs, NEW new,
           Becomes(new, f.instrs[i])
    PROVE  Supplied([f EXCEPT !.instrs[i] = new])
<1> DEFINE h == [f EXCEPT !.instrs[i] = new]
<1>1. h.blocks = f.blocks /\ h.instrs = [f.instrs EXCEPT ![i] = new] /\ h.params = f.params
  BY ReplaceFieldsOf
<1>2. f.instrs \in Seq(Instr) /\ f.instrs[i] \in Instr
  BY FuncFields
<1>3. DOMAIN h.instrs = DOMAIN f.instrs /\ h.instrs[i] = new
      /\ \A j \in DOMAIN f.instrs \ {i} : h.instrs[j] = f.instrs[j]
  BY <1>1, <1>2
<1>4. Phis(h) = Phis(f)
  BY <1>1 DEF Phis
<1> HIDE DEF h
<1>5. f.instrs[i].op # Removed /\ new.op # Removed
  BY OpClasses DEF Becomes, Br, Ins
<1>6. Live(h) = Live(f) /\ i \in Live(f)
  BY <1>3, <1>5 DEF Live
<1>a. Live(f) \subseteq DOMAIN f.instrs
  BY DEF Live
<1>b. new.dst = f.instrs[i].dst
  BY DEF Becomes
<1>7. \A j \in Live(f) : h.instrs[j].dst = f.instrs[j].dst
  BY <1>3, <1>a, <1>b
<1>8. Definitions(h) = Definitions(f)
  BY <1>1, <1>4, <1>6, <1>7 DEF Definitions
<1>9. \A k \in DOMAIN new.use : \E j \in DOMAIN f.instrs[i].use : new.use[k] = f.instrs[i].use[j]
  <2>1. CASE f.instrs[i].op \in Two \cup Unary
    BY <2>1 DEF Becomes
  <2>2. CASE f.instrs[i].op = "cbr"
    <3>1. ASSUME NEW b PROVE Br(b).use = <<>>
      BY DEF Br, Ins
    <3>2. DOMAIN <<>> = {}
      OBVIOUS
    <3> QED
      BY <2>2, <3>1, <3>2 DEF Becomes
  <2> QED
    BY <2>1, <2>2 DEF Becomes
<1>c. Reads(new) \subseteq Reads(f.instrs[i])
  BY <1>9 DEF Reads
<1>10. \A j \in Live(f) : Reads(h.instrs[j]) \subseteq Reads(f.instrs[j])
  BY <1>3, <1>a, <1>c
<1>11. Uses(h) \subseteq Uses(f)
  BY <1>4, <1>6, <1>10 DEF Uses
<1> QED
  BY <1>8, <1>11 DEF Supplied, h

(* and the elimination of dead instructions removes no definition that is  *)
(* read.                                                                   *)
LEMMA EliminateSupplied ==
    ASSUME NEW f \in Func, Supplied(f)
    PROVE  Supplied(WithoutDead(f))
<1> DEFINE h == WithoutDead(f)
<1>1. h.blocks = f.blocks /\ h.params = f.params
      /\ h.instrs = [j \in DOMAIN f.instrs |-> IF IsDead(f, f.instrs[j])
                                               THEN [f.instrs[j] EXCEPT !.op = Removed]
                                               ELSE f.instrs[j]]
  BY WithoutDeadFields
<1>2. \A j \in DOMAIN f.instrs : f.instrs[j] \in Instr
  BY FuncFields
<1>3. Phis(h) = Phis(f)
  BY <1>1 DEF Phis
<1> HIDE DEF h
<1>4. ASSUME NEW j \in Live(h)
      PROVE  j \in Live(f) /\ h.instrs[j] = f.instrs[j] /\ ~ IsDead(f, f.instrs[j])
  <2>1. j \in DOMAIN f.instrs /\ h.instrs[j].op # Removed
    BY <1>1 DEF Live
  <2>2. [f.instrs[j] EXCEPT !.op = Removed].op = Removed
    BY <1>2, <2>1 DEF Instr, Shape
  <2>3. ~ IsDead(f, f.instrs[j])
    BY <1>1, <2>1, <2>2
  <2> QED
    BY <1>1, <2>1, <2>3 DEF Live
<1>5. ASSUME NEW j \in Live(f), ~ IsDead(f, f.instrs[j])
      PROVE  j \in Live(h) /\ h.instrs[j] = f.instrs[j]
  BY <1>1, <1>5 DEF Live
<1>7. Uses(h) \subseteq Uses(f)
  BY <1>3, <1>4 DEF Uses
<1>8. Uses(f) \subseteq Used(f)
  BY DEF Uses, Used, Live
<1>9. ASSUME NEW u \in Uses(f) PROVE u \in Definitions(h)
  <2>1. u \in Definitions(f) /\ u \in Used(f)
    BY <1>8, <1>9 DEF Supplied
  <2>2. CASE u \in (0 .. (f.params - 1)) \cup {phi.dst : phi \in Phis(f)}
    BY <1>1, <1>3, <2>2 DEF Definitions
  <2>3. CASE u \in {f.instrs[j].dst : j \in Live(f)}
    <3>1. PICK j \in Live(f) : u = f.instrs[j].dst
      BY <2>3
    <3>2. ~ IsDead(f, f.instrs[j])
      BY <2>1, <3>1 DEF IsDead
    <3> QED
      BY <1>5, <3>1, <3>2 DEF Definitions
  <2> QED
    BY <2>1, <2>2, <2>3 DEF Definitions
<1> QED
  BY <1>7, <1>9 DEF Supplied, h

LEMMA StrandedStep ==
    ASSUME TypeOK, EffectsKept, NoStrandedUse, [Next]_vars
    PROVE  NoStrandedUse'
<1>0. funcs \in Module
  BY DEF TypeOK
<1>1. CASE UNCHANGED <<given, funcs>>
  BY <1>1 DEF NoStrandedUse
<1>2. CASE \E m \in Inputs, level \in Levels : Start(m, level)
  BY <1>2 DEF Start, NoStrandedUse
<1>3. CASE Rewrite
  <2>1. PICK i \in DOMAIN F.instrs, new \in Instr :
           /\ Becomes(new, F.instrs[i])
           /\ funcs' = [funcs EXCEPT ![fi] = [F EXCEPT !.instrs[i] = new]]
    BY <1>3, RewriteStep
  <2>2. fi \in DOMAIN funcs /\ F \in Func /\ F = funcs[fi] /\ given' = given
    BY <1>3, RewriteStep DEF F, Rewrite
  <2> DEFINE g == [F EXCEPT !.instrs[i] = new]
  <2>3. g \in Func /\ (Supplied(given[fi]) => Supplied(g))
    BY <2>1, <2>2, ReplaceSupplied, ReplaceTyped DEF NoStrandedUse, Becomes
  <2> HIDE DEF g
  <2>4. funcs' = [funcs EXCEPT ![fi] = g]
    BY <2>1 DEF g
  <2> QED
    BY <1>0, <2>2, <2>3, <2>4, FuncsReplaced DEF NoStrandedUse
<1>4. CASE Eliminate
  <2>1. fi \in DOMAIN funcs /\ F \in Func /\ F = funcs[fi] /\ given' = given
    BY <1>4 DEF TypeOK, Module, F, Eliminate
  <2> DEFINE g == WithoutDead(F)
  <2>2. g \in Func /\ (Supplied(given[fi]) => Supplied(g))
    BY <2>1, EliminateSupplied, WithoutDeadFields DEF NoStrandedUse
  <2>3. funcs' = [funcs EXCEPT ![fi] = g]
    BY <1>4 DEF Eliminate
  <2> HIDE DEF g
  <2> QED
    BY <1>0, <2>1, <2>2, <2>3, FuncsReplaced DEF NoStrandedUse
<1>5. Trap \/ EndOfPass => UNCHANGED <<given, funcs>>
  BY DEF Trap, EndOfPass
<1> QED
  BY <1>1, <1>2, <1>3, <1>4, <1>5 DEF Next, Run, vars

(* Every register a function in use reads stays defined, whatever the      *)
(* passes fold, simplify and remove, in whatever round.                    *)
THEOREM UsesStay == Spec => []NoStrandedUse
<1>1. Init => NoStrandedUse
  BY DEF Init, NoStrandedUse
<1>2. TypeOK /\ EffectsKept /\ NoStrandedUse /\ [Next]_vars => NoStrandedUse'
  BY StrandedStep
<1> QED
  BY <1>1, <1>2, Typing, EffectsStay, PTL DEF Spec

-----------------------------------------------------------------------------
(* Progress *)

(* Every step moves the position forward, so the passes end: each of its   *)
(* five parts is bounded by the one before.                                *)
LEMMA Forward ==
    ASSUME TypeOK, Next, pc # "idle"
    PROVE  Before(Position, Position')
<1> DEFINE p == Position
           q == Position'
<1>1. /\ p[1] = (IF pc \in {"done", "trapped"} THEN 1 ELSE 0) /\ p[2] = iter /\ p[3] = fi
      /\ p[4] = PassNumber[pc] /\ p[5] = at
      /\ q[1] = (IF pc' \in {"done", "trapped"} THEN 1 ELSE 0) /\ q[2] = iter' /\ q[3] = fi'
      /\ q[4] = PassNumber[pc'] /\ q[5] = at'
  BY DEF Position
<1> HIDE DEF p, q
<1>2. Run /\ iter \in Nat /\ fi \in Nat
  BY DEF Next, Start, TypeOK
<1>3. CASE Rewrite
  <2>0. PICK i \in DOMAIN F.instrs : at <= i /\ at' = i + 1
    BY <1>3, RewriteStep
  <2>a. i \in Nat /\ at \in Nat
    BY <1>3, RewriteStep, FuncFields DEF TypeOK
  <2>1. at < at' /\ pc' = pc /\ fi' = fi /\ iter' = iter
    BY <1>3, <2>0, <2>a DEF Rewrite
  <2>2. p[5] < q[5] /\ \A j \in 1 .. 4 : p[j] = q[j]
    BY <1>1, <2>1
  <2> QED
    BY <2>2 DEF Before, p, q
<1>4. CASE Trap
  <2>1. p[1] = 0 /\ q[1] = 1
    BY <1>1, <1>4 DEF Trap
  <2> QED
    BY <2>1 DEF Before, p, q
<1>5. CASE Eliminate
  <2>1. p[4] = 2 /\ q[4] = 3 /\ \A j \in 1 .. 3 : p[j] = q[j]
    BY <1>1, <1>5 DEF Eliminate, PassNumber
  <2> QED
    BY <2>1 DEF Before, p, q
<1>6. CASE EndOfPass
  <2>1. CASE pc = "constfold"
    <3>1. p[4] = 1 /\ q[4] = 2 /\ \A j \in 1 .. 3 : p[j] = q[j]
      BY <1>1, <1>6, <2>1 DEF EndOfPass, PassNumber
    <3> QED
      BY <3>1 DEF Before, p, q
  <2>2. CASE pc = "algebraic"
    <3>0. EndOfFunction(changed)
      BY <1>6, <2>2 DEF EndOfPass
    <3>1. CASE fi < Len(funcs)
      <4>1. p[3] < q[3] /\ \A j \in 1 .. 2 : p[j] = q[j]
        BY <1>1, <1>2, <2>2, <3>0, <3>1 DEF EndOfFunction
      <4> QED
        BY <4>1 DEF Before, p, q
    <3>2. CASE ~ (fi < Len(funcs)) /\ changed /\ iter < MaxIterations
      <4>1. p[2] < q[2] /\ p[1] = q[1]
        BY <1>1, <1>2, <2>2, <3>0, <3>2 DEF EndOfFunction
      <4> QED
        BY <4>1 DEF Before, p, q
    <3>3. CASE ~ (fi < Len(funcs)) /\ ~ (changed /\ iter < MaxIterations)
      <4>1. p[1] = 0 /\ q[1] = 1
        BY <1>1, <2>2, <3>0, <3>3 DEF EndOfFunction
      <4> QED
        BY <4>1 DEF Before, p, q
    <3> QED
      BY <3>1, <3>2, <3>3
  <2> QED
    BY <1>6, <2>1, <2>2 DEF EndOfPass
<1> QED
  BY <1>2, <1>3, <1>4, <1>5, <1>6 DEF Run

(* Every step of the pipeline moves forward.                               *)
THEOREM Progress == Spec => MovesOn
<1>1. ASSUME TypeOK, [Next]_vars
      PROVE  [pc # "idle" => Before(Position, Position')]_vars
  <2>1. CASE Next
    BY <1>1, <2>1, Forward
  <2> QED
    BY <1>1, <2>1
<1> QED
  BY <1>1, Typing, PTL DEF Spec, MovesOn

-----------------------------------------------------------------------------
(* What the passes know.  K maps a register to the word it always holds.   *)
(* Agreeing are the operands that an instruction may then find.            *)
Agreeing(K, ins) ==
    {p \in Value \X Value :
        /\ ins.use[1] \in DOMAIN K => p[1] = K[ins.use[1]]
        /\ IF Len(ins.use) = 2
           THEN /\ ins.use[2] \in DOMAIN K => p[2] = K[ins.use[2]]
                /\ ins.use[1] = ins.use[2] => p[1] = p[2]
           ELSE p[2] = 0}
Always(K, ins, v) == \A p \in Agreeing(K, ins) : Apply(ins.op, p[1], p[2]) = v
AlwaysFirst(K, ins, k) == \A p \in Agreeing(K, ins) : Apply(ins.op, p[1], p[2]) = p[k]

IsConst(f, r) == \E i \in DOMAIN f.instrs : f.instrs[i].dst = r /\ f.instrs[i].op \in Consts
Grounded(f, K) ==
    \A i \in DOMAIN f.instrs :
        f.instrs[i].op \in Consts =>
            f.instrs[i].dst \in DOMAIN K /\ f.instrs[i].imm = K[f.instrs[i].dst]

(* The rewrites of a function whose constants are in K are sound: what an  *)
(* instruction becomes, and why.                                           *)
Foldable == Two \cup {"neg", "not"}
Sound(K, f, ins, new) ==
    \/ /\ ins.op \in Foldable
       /\ \E kind \in Consts, v \in Value : new = AsConst(ins, kind, v) /\ Always(K, ins, v)
       /\ ins.op \in CmpOps => \A r \in Reads(ins) : IsConst(f, r)
    \/ /\ ins.op \in IntOps
       /\ \E k \in {1, 2} : new = AsCopy(ins, ins.use[k]) /\ AlwaysFirst(K, ins, k)
    \/ /\ ins.op = "cbr"
       /\ IsConst(f, ins.use[1])
       /\ new = Br(IF K[ins.use[1]] # 0 THEN ins.to[1] ELSE ins.to[2])

LEMMA ImmsGround ==
    ASSUME NEW f \in Func, NEW K, Grounded(f, K), NEW kind \in Consts, NEW r, NEW a \in Imms(f, kind, r)
    PROVE  r \in DOMAIN K /\ a = K[r] /\ a \in Value /\ IsConst(f, r)
<1>1. a \in Value
  BY ImmsAreValues
<1>2. PICK i \in DOMAIN f.instrs : f.instrs[i].dst = r /\ f.instrs[i].op = kind /\ a = f.instrs[i].imm
  BY DEF Imms
<1> QED
  BY <1>1, <1>2 DEF Grounded, IsConst

(* The operands of a binary and of a unary instruction. *)
LEMMA AgreeingTwo ==
    ASSUME NEW K, NEW ins \in Instr, ins.op \in Two, NEW p \in Agreeing(K, ins)
    PROVE  /\ p[1] \in Value /\ p[2] \in Value /\ p = <<p[1], p[2]>>
           /\ ins.use[1] \in DOMAIN K => p[1] = K[ins.use[1]]
           /\ ins.use[2] \in DOMAIN K => p[2] = K[ins.use[2]]
           /\ ins.use[1] = ins.use[2] => p[1] = p[2]
<1>1. Len(ins.use) = 2
  BY InstrFields
<1> QED
  BY <1>1 DEF Agreeing

LEMMA AgreeingOne ==
    ASSUME NEW K, NEW ins \in Instr, ins.op \in Unary, NEW p \in Agreeing(K, ins)
    PROVE  /\ p[1] \in Value /\ p[2] = 0
           /\ ins.use[1] \in DOMAIN K => p[1] = K[ins.use[1]]
<1>1. Len(ins.use) = 1
  BY InstrFields
<1> QED
  BY <1>1 DEF Agreeing

LEMMA BinaryFold ==
    ASSUME NEW f \in Func, NEW K, Grounded(f, K), NEW ins \in Instr, ins.op \in Two,
           NEW kind \in Consts, NEW look \in Consts,
           NEW new \in Folds(ins, kind, Imms(f, look, ins.use[1]), Imms(f, look, ins.use[2]))
    PROVE  Sound(K, f, ins, new)
<1>1. PICK a \in Imms(f, look, ins.use[1]), b \in Imms(f, look, ins.use[2]) :
          new = AsConst(ins, kind, Apply(ins.op, a, b))
  BY DEF Folds
<1>2. /\ ins.use[1] \in DOMAIN K /\ a = K[ins.use[1]] /\ IsConst(f, ins.use[1]) /\ a \in Value
      /\ ins.use[2] \in DOMAIN K /\ b = K[ins.use[2]] /\ IsConst(f, ins.use[2]) /\ b \in Value
  BY ImmsGround
<1>3. Apply(ins.op, a, b) \in Value
  BY <1>2, ApplyAssumption, OpClasses DEF Two
<1>4. Always(K, ins, Apply(ins.op, a, b))
  <2> SUFFICES ASSUME NEW p \in Agreeing(K, ins) PROVE Apply(ins.op, p[1], p[2]) = Apply(ins.op, a, b)
    BY DEF Always
  <2>1. p[1] = a /\ p[2] = b
    BY <1>2, AgreeingTwo
  <2> QED
    BY <2>1
<1>5. \A r \in Reads(ins) : IsConst(f, r)
  <2>1. ins.use \in Seq(Int) /\ Len(ins.use) = 2
    BY InstrFields
  <2>2. DOMAIN ins.use = {1, 2}
    BY <2>1
  <2> QED
    BY <1>2, <2>2 DEF Reads
<1> QED
  BY <1>1, <1>3, <1>4, <1>5 DEF Sound, Foldable

LEMMA UnaryFold ==
    ASSUME NEW f \in Func, NEW K, Grounded(f, K), NEW ins \in Instr, ins.op \in {"neg", "not"},
           NEW kind \in Consts, NEW look \in Consts,
           NEW new \in Folds(ins, kind, Imms(f, look, ins.use[1]), {0})
    PROVE  Sound(K, f, ins, new)
<1>0. ins.op \in Unary /\ ins.op \in Pure /\ ins.op \notin CmpOps
  BY DEF Unary, Pure, CmpOps
<1>1. PICK a \in Imms(f, look, ins.use[1]) : new = AsConst(ins, kind, Apply(ins.op, a, 0))
  BY DEF Folds
<1>2. ins.use[1] \in DOMAIN K /\ a = K[ins.use[1]] /\ a \in Value
  BY ImmsGround
<1>3. Apply(ins.op, a, 0) \in Value
  BY <1>0, <1>2, ApplyAssumption
<1>4. Always(K, ins, Apply(ins.op, a, 0))
  <2> SUFFICES ASSUME NEW p \in Agreeing(K, ins) PROVE Apply(ins.op, p[1], p[2]) = Apply(ins.op, a, 0)
    BY DEF Always
  <2>1. p[1] = a /\ p[2] = 0
    BY <1>0, <1>2, AgreeingOne
  <2> QED
    BY <2>1
<1> QED
  BY <1>0, <1>1, <1>3, <1>4 DEF Sound, Foldable

LEMMA FoldedSound ==
    ASSUME NEW f \in Func, NEW K, Grounded(f, K), NEW ins \in Instr, NEW new \in Folded(f, ins)
    PROVE  Sound(K, f, ins, new)
<1>0. "const_int" \in Consts /\ "const_bool" \in Consts
  BY DEF Consts
<1>4. CASE ins.op \in IntOps
  <2>0. ins.op \notin CmpOps \cup Logical \cup {"neg", "not", "cbr"} /\ ins.op \in Two
    BY <1>4 DEF CmpOps, IntOps, Logical, Two
  <2>a. new \in Folds(ins, "const_int", Ints(f, ins, 1), Ints(f, ins, 2))
    BY <1>4, <2>0 DEF Folded
  <2> QED
    BY <1>0, <2>0, <2>a, BinaryFold DEF Ints
<1>5. CASE ins.op \in CmpOps
  <2>0. ins.op \notin IntOps \cup Logical \cup {"neg", "not", "cbr"} /\ ins.op \in Two
    BY <1>5 DEF CmpOps, IntOps, Logical, Two
  <2>a. new \in Folds(ins, "const_bool", Ints(f, ins, 1), Ints(f, ins, 2))
    BY <1>5, <2>0 DEF Folded
  <2> QED
    BY <1>0, <2>0, <2>a, BinaryFold DEF Ints
<1>6. CASE ins.op \in Logical
  <2>0. ins.op \notin IntOps \cup CmpOps \cup {"neg", "not", "cbr"} /\ ins.op \in Two
    BY <1>6 DEF CmpOps, IntOps, Logical, Two
  <2>a. new \in Folds(ins, "const_bool", Bools(f, ins, 1), Bools(f, ins, 2))
    BY <1>6, <2>0 DEF Folded
  <2> QED
    BY <1>0, <2>0, <2>a, BinaryFold DEF Bools
<1>7. CASE ins.op = "neg"
  <2>0. ins.op \notin IntOps \cup CmpOps \cup Logical
    BY <1>7 DEF CmpOps, IntOps, Logical
  <2>1. new \in Folds(ins, "const_int", Ints(f, ins, 1), {0})
    BY <1>7, <2>0 DEF Folded
  <2> QED
    BY <1>0, <1>7, <2>1, UnaryFold DEF Ints
<1>8. CASE ins.op = "not"
  <2>0. ins.op \notin IntOps \cup CmpOps \cup Logical /\ ins.op # "neg"
    BY <1>8 DEF CmpOps, IntOps, Logical
  <2>1. new \in Folds(ins, "const_bool", Bools(f, ins, 1), {0})
    BY <1>8, <2>0 DEF Folded
  <2> QED
    BY <1>0, <1>8, <2>1, UnaryFold DEF Bools
<1>9. CASE ins.op = "cbr"
  <2>0. ins.op \notin IntOps \cup CmpOps \cup Logical /\ ins.op \notin {"neg", "not"}
    BY <1>9 DEF CmpOps, IntOps, Logical
  <2>1. PICK a \in Bools(f, ins, 1) : new = Br(IF a # 0 THEN ins.to[1] ELSE ins.to[2])
    BY <1>9, <2>0 DEF Folded
  <2>2. a = K[ins.use[1]] /\ IsConst(f, ins.use[1])
    BY <1>0, <2>1, ImmsGround DEF Bools
  <2> QED
    BY <1>9, <2>1, <2>2 DEF Sound
<1>10. CASE ins.op \notin IntOps \cup CmpOps \cup Logical \cup {"neg", "not", "cbr"}
  BY <1>10 DEF Folded
<1> QED
  BY <1>4, <1>5, <1>6, <1>7, <1>8, <1>9, <1>10

LEMMA SimplifiedSound ==
    ASSUME NEW f \in Func, NEW K, Grounded(f, K), NEW ins \in Instr, NEW new \in Simplified(f, ins)
    PROVE  Sound(K, f, ins, new)
<1>1. ins.op \in IntOps /\ ins.op \in Two /\ ins.op \notin CmpOps /\ "const_int" \in Consts
  BY DEF Simplified, Two, IntOps, CmpOps, Consts
<1>2. 0 \in Value
  BY ApplyAssumption
<1> DEFINE u == ins.use[1]
           w == ins.use[2]
<1>3. ASSUME NEW k \in {1, 2}, NEW v, v \in Ints(f, ins, k)
      PROVE  ins.use[k] \in DOMAIN K /\ v = K[ins.use[k]]
  BY <1>1, <1>3, ImmsGround DEF Ints
<1>4. ASSUME NEW k \in {1, 2}, AlwaysFirst(K, ins, k), new = AsCopy(ins, ins.use[k])
      PROVE  Sound(K, f, ins, new)
  BY <1>1, <1>4 DEF Sound
<1>5. ASSUME Always(K, ins, 0), new = AsConst(ins, "const_int", 0)
      PROVE  Sound(K, f, ins, new)
  BY <1>1, <1>2, <1>5 DEF Sound, Foldable
<1>6. ASSUME NEW p \in Agreeing(K, ins)
      PROVE  /\ p[1] \in Value /\ p[2] \in Value
             /\ \A v \in Ints(f, ins, 1) : p[1] = v
             /\ \A v \in Ints(f, ins, 2) : p[2] = v
             /\ u = w => p[1] = p[2]
  BY <1>1, <1>3, <1>6, AgreeingTwo
<1>7. CASE ins.op = "add"
  <2>1. CASE 0 \in Ints(f, ins, 2)
    <3>1. AlwaysFirst(K, ins, 1)
      BY <1>6, <1>7, <2>1, ApplyAssumption DEF AlwaysFirst
    <3> QED
      BY <1>4, <1>7, <2>1, <3>1 DEF Simplified
  <2>2. CASE 0 \notin Ints(f, ins, 2) /\ 0 \in Ints(f, ins, 1)
    <3>1. AlwaysFirst(K, ins, 2)
      BY <1>6, <1>7, <2>2, ApplyAssumption DEF AlwaysFirst
    <3> QED
      BY <1>4, <1>7, <2>2, <3>1 DEF Simplified
  <2> QED
    BY <1>7, <2>1, <2>2 DEF Simplified
<1>8. CASE ins.op = "sub"
  <2>1. 0 \in Ints(f, ins, 2) /\ new = AsCopy(ins, ins.use[1])
    BY <1>8 DEF Simplified
  <2>2. AlwaysFirst(K, ins, 1)
    BY <1>6, <1>8, <2>1, ApplyAssumption DEF AlwaysFirst
  <2> QED
    BY <1>4, <2>1, <2>2
<1>9. CASE ins.op = "mul"
  <2>1. CASE 1 \in Ints(f, ins, 2)
    <3>1. AlwaysFirst(K, ins, 1)
      BY <1>6, <1>9, <2>1, ApplyAssumption DEF AlwaysFirst
    <3> QED
      BY <1>4, <1>9, <2>1, <3>1 DEF Simplified
  <2>2. CASE 1 \notin Ints(f, ins, 2) /\ 1 \in Ints(f, ins, 1)
    <3>1. AlwaysFirst(K, ins, 2)
      BY <1>6, <1>9, <2>2, ApplyAssumption DEF AlwaysFirst
    <3> QED
      BY <1>4, <1>9, <2>2, <3>1 DEF Simplified
  <2>3. CASE 1 \notin Ints(f, ins, 2) /\ 1 \notin Ints(f, ins, 1)
    <3>1. (0 \in Ints(f, ins, 2) \/ 0 \in Ints(f, ins, 1)) /\ new = AsConst(ins, "const_int", 0)
      BY <1>9, <2>3 DEF Simplified
    <3>2. Always(K, ins, 0)
      BY <1>6, <1>9, <3>1, ApplyAssumption DEF Always
    <3> QED
      BY <1>5, <3>1, <3>2
  <2> QED
    BY <2>1, <2>2, <2>3
<1>10. CASE ins.op = "div"
  <2>1. 1 \in Ints(f, ins, 2) /\ new = AsCopy(ins, ins.use[1])
    BY <1>10 DEF Simplified
  <2>2. AlwaysFirst(K, ins, 1)
    BY <1>6, <1>10, <2>1, ApplyAssumption DEF AlwaysFirst
  <2> QED
    BY <1>4, <2>1, <2>2
<1>11. CASE ins.op \in {"bit_and", "bit_or"}
  <2>1. u = w /\ new = AsCopy(ins, ins.use[1])
    BY <1>11 DEF Simplified
  <2>2. AlwaysFirst(K, ins, 1)
    BY <1>6, <1>11, <2>1, ApplyAssumption DEF AlwaysFirst
  <2> QED
    BY <1>4, <2>1, <2>2
<1>12. CASE ins.op = "bit_xor"
  <2>1. u = w /\ new = AsConst(ins, "const_int", 0)
    BY <1>12 DEF Simplified
  <2>2. Always(K, ins, 0)
    BY <1>6, <1>12, <2>1, ApplyAssumption DEF Always
  <2> QED
    BY <1>5, <2>1, <2>2
<1> QED
  BY <1>7, <1>8, <1>9, <1>10, <1>11, <1>12 DEF Simplified

LEMMA RewritesSound ==
    ASSUME F \in Func, NEW i \in DOMAIN F.instrs, NEW new \in Rewrites(i), NEW K, Grounded(F, K)
    PROVE  Sound(K, F, F.instrs[i], new)
<1>1. F.instrs[i] \in Instr
  BY FuncFields
<1> QED
  BY <1>1, FoldedSound, SimplifiedSound DEF Rewrites
-----------------------------------------------------------------------------
(* An instruction of the optimised function beside the one it was made     *)
(* from.                                                                   *)
Mirror(f, g, old, new) ==
    /\ new.dst = old.dst
    /\ \/ new = old
       \/ old.op \in Valued /\ new.op = Removed /\ new.dst \notin Uses(g)
       \/ /\ old.op \in Pure /\ new.op \in Consts /\ new.use = <<>>
          /\ old.op \in CmpOps => Reads(old) \cap Unknown(f) = {}
       \/ old.op \in IntOps /\ \E k \in {1, 2} : new = AsCopy(old, old.use[k])
       \/ /\ old.op = "cbr" /\ ~ TestsUnknown(f, old.use[1])
          /\ \E k \in {1, 2} : new = Br(old.to[k])
Mirrors(f, g) == \A i \in DOMAIN f.instrs : Mirror(f, g, f.instrs[i], g.instrs[i])

(* K justifies what was rewritten: a register in it is defined by a        *)
(* constant, or by an instruction that comes to its value whenever the     *)
(* operands agree with K.                                                  *)
Justified(f, g, K) ==
    \A r \in DOMAIN K :
        /\ K[r] \in Value
        /\ \E i \in DOMAIN f.instrs :
              /\ f.instrs[i].dst = r /\ g.instrs[i].op \in Consts \cup {Removed}
              /\ \/ f.instrs[i].op \in Consts /\ K[r] = f.instrs[i].imm
                 \/ f.instrs[i].op \in Pure /\ Always(K, f.instrs[i], K[r])
Explained(K, old, new) ==
    /\ old.op \in IntOps /\ new.op = "copy" =>
          \E k \in {1, 2} : new = AsCopy(old, old.use[k]) /\ AlwaysFirst(K, old, k)
    /\ old.op = "cbr" /\ new.op = "br" =>
          /\ old.use[1] \in DOMAIN K
          /\ new = Br(IF K[old.use[1]] # 0 THEN old.to[1] ELSE old.to[2])
Facts(f, g, K) ==
    /\ Justified(f, g, K) /\ Grounded(g, K)
    /\ \A i \in DOMAIN f.instrs : Explained(K, f.instrs[i], g.instrs[i])

(* More opcodes that differ. *)
LEMMA OpsApart ==
    /\ Foldable \cap (Consts \cup Opaque \cup Effects \cup {"copy", "br", "cbr", "call", Removed}) = {}
    /\ Foldable \subseteq Pure /\ IntOps \subseteq Foldable /\ CmpOps \subseteq Foldable
    /\ IntOps \cap CmpOps = {} /\ Foldable \subseteq Two \cup Unary
    /\ Pure \cap (Consts \cup Opaque \cup Effects \cup {"br", "cbr", "call", Removed}) = {}
    /\ Consts \cap (Opaque \cup Effects \cup {"br", "cbr", "copy", "call", Removed}) = {}
    /\ Opaque \cap (Effects \cup {"br", "cbr", "copy", "call", Removed}) = {}
    /\ Removed \notin Effects \cup {"br", "cbr", "copy", "call"}
    /\ "copy" \in Pure /\ "copy" \notin IntOps \cup CmpOps \cup Foldable
    /\ "br" # "cbr" /\ "cbr" # "copy" /\ "br" # "copy"
    /\ {"br", "cbr", "ret", "call", "print"} = Effects
    /\ Ops = Consts \cup Pure \cup Opaque \cup Effects \cup {Removed}
    /\ Valued = Consts \cup Pure \cup Opaque
BY DEF Foldable, Two, Unary, IntOps, CmpOps, Logical, Pure, Consts, Opaque, Effects, Terminators, Removed, Ops, Valued

LEMMA BrFields == ASSUME NEW b PROVE Br(b).op = "br" /\ Br(b).dst = NoReg /\ Br(b).use = <<>> /\ Br(b).to = <<b>>
BY DEF Br, Ins

LEMMA AsCopyFields ==
    ASSUME NEW ins \in Instr, NEW r
    PROVE  AsCopy(ins, r).op = "copy" /\ AsCopy(ins, r).dst = ins.dst /\ AsCopy(ins, r).use = <<r>>
BY DEF AsCopy, Instr, Shape

LEMMA AsConstFields ==
    ASSUME NEW ins \in Instr, NEW kind, NEW v
    PROVE  /\ AsConst(ins, kind, v).op = kind /\ AsConst(ins, kind, v).dst = ins.dst
           /\ AsConst(ins, kind, v).use = <<>> /\ AsConst(ins, kind, v).imm = v
BY DEF AsConst, Instr, Shape

(* An instruction that can still be folded, simplified or settled is the   *)
(* one the function was given with.                                        *)
LEMMA StillGiven ==
    ASSUME NEW f, NEW g, NEW old \in Instr, NEW new, Mirror(f, g, old, new),
           new.op \in Foldable \cup {"cbr"}
    PROVE  new = old
<1>1. new.op \notin Consts \cup {Removed, "copy", "br"}
  BY OpsApart
<1>2. \A k : AsCopy(old, old.use[k]).op = "copy" /\ Br(old.to[k]).op = "br"
  BY AsCopyFields, BrFields
<1> QED
  BY <1>1, <1>2 DEF Mirror

(* No constant has an unknown register: a constant was one from the start  *)
(* or computed by an instruction that no other shares its register with.   *)
LEMMA ConstIsPure ==
    ASSUME NEW f, NEW g, NEW old \in Instr, NEW new, Mirror(f, g, old, new), new.op \in Consts
    PROVE  /\ old.op \in Consts \cup Pure
           /\ old.op \in CmpOps => Reads(old) \cap Unknown(f) = {}
<1>1. new.op \notin Pure \cup Opaque \cup Effects \cup {"copy", "br", Removed}
  BY OpsApart
<1>2. \A k : AsCopy(old, old.use[k]).op = "copy" /\ Br(old.to[k]).op = "br"
  BY AsCopyFields, BrFields
<1> QED
  BY <1>1, <1>2, OpsApart DEF Mirror

LEMMA UniqueDefinition ==
    ASSUME NEW f \in Func, OneDefinition(f), NEW i \in DOMAIN f.instrs, NEW j \in DOMAIN f.instrs,
           f.instrs[i].dst = f.instrs[j].dst, f.instrs[i].op \in Valued
    PROVE  i = j
<1>1. f.instrs[i].dst # NoReg
  <2>1. f.instrs[i].dst # NoReg \/ f.instrs[i].op \notin Valued \/ f.instrs[i].dst >= f.params
    BY DEF OneDefinition
  <2>2. f.params \in Nat
    BY FuncFields
  <2> QED
    BY <2>1, <2>2 DEF OneDefinition, NoReg
<1> QED
  BY <1>1 DEF OneDefinition
(* Nothing unknown is constant in the optimised function,                  *)
LEMMA UnknownStays ==
    ASSUME NEW f \in Func, NEW g \in Func, DOMAIN g.instrs = DOMAIN f.instrs,
           OneDefinition(f), Mirrors(f, g), NEW r, IsConst(g, r)
    PROVE  r \notin Unknown(f)
<1>1. PICK i \in DOMAIN f.instrs : g.instrs[i].dst = r /\ g.instrs[i].op \in Consts
  BY DEF IsConst
<1>2. Mirror(f, g, f.instrs[i], g.instrs[i]) /\ f.instrs[i] \in Instr
  BY FuncFields DEF Mirrors
<1>3. f.instrs[i].dst = r /\ f.instrs[i].op \in Valued /\ f.instrs[i].op \notin Opaque \cup {"call"}
  BY <1>1, <1>2, ConstIsPure, OpsApart DEF Mirror
<1>4. r >= f.params /\ f.params \in Nat
  BY <1>3, FuncFields DEF OneDefinition
<1>5. r \notin 0 .. (f.params - 1)
  BY <1>4
<1>6. r \notin {phi.dst : phi \in Phis(f)}
  BY <1>3 DEF OneDefinition
<1>7. ASSUME NEW j \in DOMAIN f.instrs, f.instrs[j].dst = r, f.instrs[j].op \in Opaque \cup {"call"}
      PROVE  FALSE
  BY <1>3, <1>7, UniqueDefinition
<1> QED
  BY <1>5, <1>6, <1>7 DEF Unknown

(* so no branch on it is settled.                                          *)
LEMMA TestStays ==
    ASSUME NEW f \in Func, NEW g \in Func, DOMAIN g.instrs = DOMAIN f.instrs,
           OneDefinition(f), Mirrors(f, g), NEW r, IsConst(g, r)
    PROVE  ~ TestsUnknown(f, r)
<1>1. r \notin Unknown(f)
  BY UnknownStays
<1>2. PICK i \in DOMAIN f.instrs : g.instrs[i].dst = r /\ g.instrs[i].op \in Consts
  BY DEF IsConst
<1>3. Mirror(f, g, f.instrs[i], g.instrs[i]) /\ f.instrs[i] \in Instr
  BY FuncFields DEF Mirrors
<1>4. ASSUME NEW j \in DOMAIN f.instrs, f.instrs[j].dst = r, f.instrs[j].op \in CmpOps
      PROVE  Reads(f.instrs[j]) \cap Unknown(f) = {}
  <2>1. f.instrs[j].op \in Valued /\ f.instrs[i].dst = r
    BY <1>2, <1>3, <1>4, OpsApart DEF Mirror
  <2>2. i = j
    BY <1>4, <2>1, UniqueDefinition
  <2> QED
    BY <1>2, <1>3, <1>4, <2>2, ConstIsPure
<1> QED
  BY <1>1, <1>4 DEF TestsUnknown

(* A rewrite reads no more than before. *)
LEMMA ReplaceUses ==
    ASSUME NEW g \in Func, NEW j \in DOMAIN g.instrs, NEW new, Becomes(new, g.instrs[j]),
           NEW h, h = [g EXCEPT !.instrs[j] = new]
    PROVE  /\ h \in Func /\ h.blocks = g.blocks /\ h.params = g.params
           /\ DOMAIN h.instrs = DOMAIN g.instrs /\ h.instrs[j] = new
           /\ \A i \in DOMAIN g.instrs \ {j} : h.instrs[i] = g.instrs[i]
           /\ Phis(h) = Phis(g) /\ Live(h) = Live(g) /\ j \in Live(g)
           /\ Uses(h) \subseteq Uses(g)
<1>0. h \in Func
  BY ReplaceTyped DEF Becomes
<1>1. h.blocks = g.blocks /\ h.instrs = [g.instrs EXCEPT ![j] = new] /\ h.params = g.params
  BY ReplaceFieldsOf
<1>2. g.instrs \in Seq(Instr) /\ g.instrs[j] \in Instr
  BY FuncFields
<1>3. DOMAIN h.instrs = DOMAIN g.instrs /\ h.instrs[j] = new
      /\ \A i \in DOMAIN g.instrs \ {j} : h.instrs[i] = g.instrs[i]
  BY <1>1, <1>2
<1>4. Phis(h) = Phis(g)
  BY <1>1 DEF Phis
<1>5. g.instrs[j].op # Removed /\ new.op # Removed
  BY OpClasses DEF Becomes, Br, Ins
<1>6. Live(h) = Live(g) /\ j \in Live(g)
  BY <1>3, <1>5 DEF Live
<1>7. \A k \in DOMAIN new.use : \E m \in DOMAIN g.instrs[j].use : new.use[k] = g.instrs[j].use[m]
  <2>1. CASE g.instrs[j].op \in Two \cup Unary
    BY <2>1 DEF Becomes
  <2>2. CASE g.instrs[j].op = "cbr"
    <3>1. \A b : Br(b).use = <<>>
      BY BrFields
    <3>2. DOMAIN <<>> = {}
      OBVIOUS
    <3> QED
      BY <2>2, <3>1, <3>2 DEF Becomes
  <2> QED
    BY <2>1, <2>2 DEF Becomes
<1>8. Reads(new) \subseteq Reads(g.instrs[j])
  BY <1>7 DEF Reads
<1>9. \A i \in Live(g) : Reads(h.instrs[i]) \subseteq Reads(g.instrs[i])
  BY <1>3, <1>8 DEF Live
<1>10. Uses(h) \subseteq Uses(g)
  BY <1>4, <1>6, <1>9 DEF Uses
<1> QED
  BY <1>0, <1>1, <1>3, <1>4, <1>6, <1>10

(* A sound rewrite of the optimised function leaves it a mirror of the     *)
(* given one,                                                              *)
LEMMA RewriteMirrors ==
    ASSUME NEW f \in Func, NEW g \in Func, DOMAIN g.instrs = DOMAIN f.instrs,
           OneDefinition(f), Mirrors(f, g), NEW K,
           NEW j \in DOMAIN g.instrs, NEW new, Becomes(new, g.instrs[j]), Sound(K, g, g.instrs[j], new),
           NEW h, h = [g EXCEPT !.instrs[j] = new]
    PROVE  Mirrors(f, h) /\ g.instrs[j] = f.instrs[j]
<1> DEFINE old == f.instrs[j]
           ins == g.instrs[j]
<1>1. Mirror(f, g, old, ins) /\ old \in Instr /\ ins \in Instr
  BY FuncFields DEF Mirrors
<1>2. ins.op \in Foldable \cup {"cbr"}
  BY OpsApart DEF Sound
<1>3. ins = old
  BY <1>1, <1>2, StillGiven
<1>4. /\ DOMAIN h.instrs = DOMAIN g.instrs /\ h.instrs[j] = new
      /\ \A i \in DOMAIN g.instrs \ {j} : h.instrs[i] = g.instrs[i]
      /\ Uses(h) \subseteq Uses(g)
  BY ReplaceUses
<1>5. ASSUME NEW i \in DOMAIN f.instrs, i # j PROVE Mirror(f, h, f.instrs[i], h.instrs[i])
  BY <1>4, <1>5 DEF Mirrors, Mirror
<1>6. Mirror(f, h, old, new)
  <2>1. new.dst = old.dst
    BY <1>3 DEF Becomes
  <2>2. CASE /\ ins.op \in Foldable
             /\ \E kind \in Consts, v \in Value : new = AsConst(ins, kind, v)
             /\ ins.op \in CmpOps => \A r \in Reads(ins) : IsConst(g, r)
    <3>1. old.op \in Pure /\ new.op \in Consts /\ new.use = <<>>
      BY <1>1, <1>3, <2>2, AsConstFields, OpsApart
    <3>2. old.op \in CmpOps => Reads(old) \cap Unknown(f) = {}
      BY <1>3, <2>2, UnknownStays
    <3> QED
      BY <2>1, <3>1, <3>2 DEF Mirror
  <2>3. CASE ins.op \in IntOps /\ \E k \in {1, 2} : new = AsCopy(ins, ins.use[k])
    BY <1>3, <2>1, <2>3, SMTT(30) DEF Mirror
  <2>4. CASE /\ ins.op = "cbr" /\ IsConst(g, ins.use[1])
             /\ new = Br(IF K[ins.use[1]] # 0 THEN ins.to[1] ELSE ins.to[2])
    <3>1. ~ TestsUnknown(f, old.use[1])
      BY <1>3, <2>4, TestStays, SMTT(30)
    <3>2. \E k \in {1, 2} : new = Br(old.to[k])
      BY <1>3, <2>4
    <3> QED
      BY <1>3, <2>1, <2>4, <3>1, <3>2, Zenon DEF Mirror
  <2> QED
    BY <2>2, <2>3, <2>4 DEF Sound
<1> QED
  BY <1>3, <1>4, <1>5, <1>6 DEF Mirrors
(* Whoever knows more has fewer operands to fear. *)
Extends(K2, K) == DOMAIN K \subseteq DOMAIN K2 /\ \A r \in DOMAIN K : K2[r] = K[r]

LEMMA KnowingMore ==
    ASSUME NEW K, NEW K2, Extends(K2, K), NEW ins
    PROVE  /\ \A v : Always(K, ins, v) => Always(K2, ins, v)
           /\ \A k : AlwaysFirst(K, ins, k) => AlwaysFirst(K2, ins, k)
           /\ \A new : Explained(K, ins, new) => Explained(K2, ins, new)
<1>1. Agreeing(K2, ins) \subseteq Agreeing(K, ins)
  BY DEF Agreeing, Extends
<1>2. \A k : AlwaysFirst(K, ins, k) => AlwaysFirst(K2, ins, k)
  BY <1>1 DEF AlwaysFirst
<1>3. ASSUME NEW new, Explained(K, ins, new) PROVE Explained(K2, ins, new)
  <2>1. ASSUME ins.op \in IntOps, new.op = "copy"
        PROVE  \E k \in {1, 2} : new = AsCopy(ins, ins.use[k]) /\ AlwaysFirst(K2, ins, k)
    BY <1>2, <1>3, <2>1 DEF Explained
  <2>2. ASSUME ins.op = "cbr", new.op = "br"
        PROVE  /\ ins.use[1] \in DOMAIN K2
               /\ new = Br(IF K2[ins.use[1]] # 0 THEN ins.to[1] ELSE ins.to[2])
    BY <1>3, <2>2 DEF Explained, Extends
  <2> QED
    BY <2>1, <2>2 DEF Explained
<1> QED
  BY <1>1, <1>2, <1>3 DEF Always

(* and what is known afterwards justifies what it has become.              *)
LEMMA RewriteFacts ==
    ASSUME NEW f \in Func, NEW g \in Func, DOMAIN g.instrs = DOMAIN f.instrs,
           OneDefinition(f), Mirrors(f, g), NEW K, Facts(f, g, K),
           NEW j \in DOMAIN g.instrs, NEW new, Becomes(new, g.instrs[j]), Sound(K, g, g.instrs[j], new),
           NEW h, h = [g EXCEPT !.instrs[j] = new]
    PROVE  \E K2 : Facts(f, h, K2)
<1> DEFINE old == f.instrs[j]
<1>0. j \in DOMAIN f.instrs /\ g.instrs[j] = old
  BY RewriteMirrors
<1>1. g.instrs[j] = old /\ old \in Instr
  BY <1>0, FuncFields
<1>2. /\ DOMAIN h.instrs = DOMAIN f.instrs /\ h.instrs[j] = new
      /\ \A i \in DOMAIN f.instrs \ {j} : h.instrs[i] = g.instrs[i]
  BY ReplaceUses
<1>3. old.op \in Foldable \cup {"cbr"}
  BY <1>1, OpsApart DEF Sound
<1>4. old.op \notin Consts \cup {Removed}
  BY <1>3, OpsApart
<1>5. ASSUME NEW K2, Extends(K2, K), NEW r \in DOMAIN K
      PROVE  /\ K2[r] \in Value
             /\ \E i \in DOMAIN f.instrs :
                   /\ f.instrs[i].dst = r /\ h.instrs[i].op \in Consts \cup {Removed}
                   /\ \/ f.instrs[i].op \in Consts /\ K2[r] = f.instrs[i].imm
                      \/ f.instrs[i].op \in Pure /\ Always(K2, f.instrs[i], K2[r])
  <2>1. PICK i \in DOMAIN f.instrs :
                   /\ f.instrs[i].dst = r /\ g.instrs[i].op \in Consts \cup {Removed}
                   /\ \/ f.instrs[i].op \in Consts /\ K[r] = f.instrs[i].imm
                      \/ f.instrs[i].op \in Pure /\ Always(K, f.instrs[i], K[r])
    BY DEF Facts, Justified
  <2>2. i # j
    BY <1>1, <1>4, <2>1
  <2>3. K2[r] = K[r] /\ K[r] \in Value
    BY <1>5 DEF Extends, Facts, Justified
  <2> QED
    BY <1>2, <1>5, <2>1, <2>2, <2>3, KnowingMore
<1>6. ASSUME NEW K2, Extends(K2, K), NEW i \in DOMAIN f.instrs \ {j}
      PROVE  /\ Explained(K2, f.instrs[i], h.instrs[i])
             /\ h.instrs[i].op \in Consts =>
                   h.instrs[i].dst \in DOMAIN K /\ h.instrs[i].imm = K[h.instrs[i].dst]
  BY <1>2, <1>6, KnowingMore DEF Facts, Grounded
<1>7. Extends(K, K)
  BY DEF Extends
<1>8. ASSUME NEW kind \in Consts, NEW v \in Value, new = AsConst(old, kind, v), Always(K, old, v),
             old.op \in Foldable
      PROVE  \E K2 : Facts(f, h, K2)
  <2> DEFINE r == old.dst
             K2 == [x \in DOMAIN K \cup {r} |-> IF x = r THEN v ELSE K[x]]
  <2>1. new.op = kind /\ new.dst = r /\ new.imm = v
    BY <1>1, <1>8, AsConstFields
  <2>2. r \notin DOMAIN K
    <3> SUFFICES ASSUME r \in DOMAIN K PROVE FALSE
      OBVIOUS
    <3>1. PICK i \in DOMAIN f.instrs : f.instrs[i].dst = r /\ g.instrs[i].op \in Consts \cup {Removed}
      BY DEF Facts, Justified
    <3>2. i = j
      BY <1>8, <3>1, UniqueDefinition, OpsApart
    <3> QED
      BY <1>1, <1>4, <3>1, <3>2
  <2>3. DOMAIN K2 = DOMAIN K \cup {r} /\ K2[r] = v /\ \A x \in DOMAIN K : K2[x] = K[x]
    BY <2>2
  <2> HIDE DEF K2
  <2>4. Extends(K2, K)
    BY <2>3 DEF Extends
  <2>5. Justified(f, h, K2)
    <3>1. /\ h.instrs[j].op \in Consts /\ f.instrs[j].op \in Pure /\ Always(K2, f.instrs[j], K2[r])
          /\ f.instrs[j].dst = r /\ K2[r] \in Value
      BY <1>2, <1>8, <2>1, <2>3, <2>4, KnowingMore, OpsApart
    <3> QED
      BY <1>5, <2>3, <2>4, <3>1 DEF Justified
  <2>6. Grounded(h, K2)
    BY <1>2, <1>6, <2>1, <2>3, <2>4 DEF Grounded
  <2>7. Explained(K2, old, new)
    BY <1>8, <2>1, OpsApart DEF Explained
  <2> QED
    BY <1>2, <1>6, <2>4, <2>5, <2>6, <2>7 DEF Facts
<1>9. ASSUME new.op \notin Consts, Explained(K, old, new)
      PROVE  \E K2 : Facts(f, h, K2)
  <2>1. Justified(f, h, K)
    BY <1>5, <1>7 DEF Justified
  <2>2. Grounded(h, K)
    BY <1>2, <1>6, <1>7, <1>9 DEF Grounded
  <2> QED
    BY <1>2, <1>6, <1>7, <1>9, <2>1, <2>2 DEF Facts
<1>10. ASSUME NEW k \in {1, 2}, old.op \in IntOps, new = AsCopy(old, old.use[k]), AlwaysFirst(K, old, k)
       PROVE  \E K2 : Facts(f, h, K2)
  <2>1. new.op = "copy" /\ old.op # "cbr"
    BY <1>1, <1>10, AsCopyFields, OpsApart
  <2>2. new.op \notin Consts
    BY <2>1, OpsApart
  <2>3. Explained(K, old, new)
    BY <1>10, <2>1 DEF Explained
  <2> QED
    BY <1>9, <2>2, <2>3
<1>11. ASSUME old.op = "cbr", IsConst(g, old.use[1]),
              new = Br(IF K[old.use[1]] # 0 THEN old.to[1] ELSE old.to[2])
       PROVE  \E K2 : Facts(f, h, K2)
  <2>1. new.op = "br"
    BY <1>11, BrFields, SMTT(30)
  <2>2. new.op \notin Consts /\ old.op \notin IntOps
    BY <1>11, <2>1, OpsApart, Zenon
  <2>3. old.use[1] \in DOMAIN K
    BY <1>11, SMTT(30) DEF IsConst, Facts, Grounded
  <2>4. Explained(K, old, new)
    BY <1>11, <2>2, <2>3 DEF Explained
  <2> QED
    BY <1>9, <2>2, <2>4, SMTT(30)
<1> QED
  BY <1>1, <1>8, <1>10, <1>11 DEF Sound

-----------------------------------------------------------------------------
(* Dead code elimination *)
LEMMA EliminateUses ==
    ASSUME NEW g \in Func, NEW h, h = WithoutDead(g)
    PROVE  /\ h \in Func /\ h.blocks = g.blocks /\ h.params = g.params
           /\ DOMAIN h.instrs = DOMAIN g.instrs /\ Phis(h) = Phis(g)
           /\ \A i \in DOMAIN g.instrs :
                 \/ h.instrs[i] = g.instrs[i] /\ ~ IsDead(g, g.instrs[i])
                 \/ /\ IsDead(g, g.instrs[i]) /\ h.instrs[i] = [g.instrs[i] EXCEPT !.op = Removed]
                    /\ h.instrs[i].op = Removed /\ h.instrs[i].dst = g.instrs[i].dst
           /\ Uses(h) \subseteq Uses(g)
           /\ \A i \in DOMAIN g.instrs : IsDead(g, g.instrs[i]) => g.instrs[i].dst \notin Uses(h)
<1>1. /\ h \in Func /\ h.blocks = g.blocks /\ h.params = g.params
      /\ h.instrs = [i \in DOMAIN g.instrs |-> IF IsDead(g, g.instrs[i])
                                               THEN [g.instrs[i] EXCEPT !.op = Removed]
                                               ELSE g.instrs[i]]
  BY WithoutDeadFields
<1>2. \A i \in DOMAIN g.instrs : g.instrs[i] \in Instr
  BY FuncFields
<1>3. DOMAIN h.instrs = DOMAIN g.instrs /\ Phis(h) = Phis(g)
  BY <1>1 DEF Phis
<1>4. ASSUME NEW i \in DOMAIN g.instrs
      PROVE  \/ h.instrs[i] = g.instrs[i] /\ ~ IsDead(g, g.instrs[i])
             \/ /\ IsDead(g, g.instrs[i]) /\ h.instrs[i] = [g.instrs[i] EXCEPT !.op = Removed]
                /\ h.instrs[i].op = Removed /\ h.instrs[i].dst = g.instrs[i].dst
  <2>1. /\ [g.instrs[i] EXCEPT !.op = Removed].op = Removed
        /\ [g.instrs[i] EXCEPT !.op = Removed].dst = g.instrs[i].dst
    BY <1>2 DEF Instr, Shape
  <2> QED
    BY <1>1, <2>1
<1>5. \A i \in Live(h) : i \in Live(g) /\ h.instrs[i] = g.instrs[i]
  BY <1>3, <1>4 DEF Live
<1>6. Uses(h) \subseteq Uses(g)
  BY <1>3, <1>5 DEF Uses
<1>7. Uses(g) \subseteq Used(g)
  BY DEF Uses, Used, Live
<1>8. \A i \in DOMAIN g.instrs : IsDead(g, g.instrs[i]) => g.instrs[i].dst \notin Uses(h)
  BY <1>6, <1>7 DEF IsDead
<1> QED
  BY <1>1, <1>3, <1>4, <1>6, <1>8

LEMMA EliminateMirrors ==
    ASSUME NEW f \in Func, NEW g \in Func, DOMAIN g.instrs = DOMAIN f.instrs,
           Mirrors(f, g), NEW h, h = WithoutDead(g)
    PROVE  Mirrors(f, h)
<1> SUFFICES ASSUME NEW i \in DOMAIN f.instrs PROVE Mirror(f, h, f.instrs[i], h.instrs[i])
  BY DEF Mirrors
<1> DEFINE old == f.instrs[i]
           ins == g.instrs[i]
           new == h.instrs[i]
<1>1. Mirror(f, g, old, ins) /\ old \in Instr /\ ins \in Instr /\ Uses(h) \subseteq Uses(g)
  BY FuncFields, EliminateUses DEF Mirrors
<1>2. CASE new = ins
  BY <1>1, <1>2 DEF Mirror
<1>3. CASE IsDead(g, ins) /\ new = [ins EXCEPT !.op = Removed] /\ new.op = Removed /\ new.dst = ins.dst
  <2>1. new.dst = old.dst /\ new.dst \notin Uses(h)
    BY <1>1, <1>3, EliminateUses DEF Mirror
  <2>2. ins.op \notin Effects
    BY <1>3, OpsApart DEF IsDead, HasSideEffects, Terminators
  <2>3. CASE old.op \in Valued
    BY <1>3, <2>1, <2>3 DEF Mirror
  <2>4. CASE old.op \notin Valued
    <3>1. old.op \in Effects \cup {Removed} /\ old.op \notin Pure \cup IntOps
      BY <1>1, <2>4, InstrFields, OpsApart
    <3>2. \A k : Br(old.to[k]).op = "br"
      BY BrFields
    <3>3. ins = old
      BY <1>1, <2>2, <2>4, <3>1, <3>2, OpsApart DEF Mirror
    <3>4. ins.op = Removed
      BY <2>2, <3>1, <3>3
    <3>5. new = ins
      BY <1>1, <1>3, <3>4 DEF Instr, Shape
    <3> QED
      BY <1>2, <3>5
  <2> QED
    BY <2>3, <2>4
<1> QED
  BY <1>2, <1>3, EliminateUses

LEMMA EliminateFacts ==
    ASSUME NEW f \in Func, NEW g \in Func, DOMAIN g.instrs = DOMAIN f.instrs,
           NEW K, Facts(f, g, K), NEW h, h = WithoutDead(g)
    PROVE  Facts(f, h, K)
<1>0. \A i \in DOMAIN g.instrs :
          \/ h.instrs[i] = g.instrs[i] /\ ~ IsDead(g, g.instrs[i])
          \/ /\ IsDead(g, g.instrs[i]) /\ h.instrs[i] = [g.instrs[i] EXCEPT !.op = Removed]
             /\ h.instrs[i].op = Removed /\ h.instrs[i].dst = g.instrs[i].dst
  BY EliminateUses
<1>1. \A i \in DOMAIN f.instrs : h.instrs[i] = g.instrs[i] \/ h.instrs[i].op = Removed
  BY <1>0
<1>2. DOMAIN h.instrs = DOMAIN f.instrs
  BY EliminateUses
<1>3. Removed \notin Consts \cup {"copy", "br"}
  BY OpsApart
<1>4. Justified(f, h, K)
  BY <1>1 DEF Facts, Justified
<1>5. Grounded(h, K)
  BY <1>1, <1>2, <1>3 DEF Facts, Grounded
<1>6. ASSUME NEW i \in DOMAIN f.instrs PROVE Explained(K, f.instrs[i], h.instrs[i])
  <2>1. CASE h.instrs[i] = g.instrs[i]
    BY <2>1 DEF Facts
  <2>2. CASE h.instrs[i].op = Removed
    BY <1>3, <2>2 DEF Explained
  <2> QED
    BY <1>1, <2>1, <2>2
<1> QED
  BY <1>4, <1>5, <1>6 DEF Facts
-----------------------------------------------------------------------------
(* The inductive invariant: every function that defines its registers once *)
(* is mirrored, and what was rewritten in it is justified.                 *)
Simulated ==
    \A k \in DOMAIN funcs :
        /\ funcs[k].params = given[k].params
        /\ OneDefinition(given[k]) =>
              /\ Mirrors(given[k], funcs[k])
              /\ \E K : Facts(given[k], funcs[k], K)

(* At first what is known are the constants. *)
LEMMA FirstFacts ==
    ASSUME NEW f \in Func, OneDefinition(f)
    PROVE  Mirrors(f, f) /\ \E K : Facts(f, f, K)
<1> DEFINE Here(r) == {i \in DOMAIN f.instrs : f.instrs[i].dst = r /\ f.instrs[i].op \in Consts}
           At(r) == CHOOSE i \in Here(r) : TRUE
           K == [r \in {f.instrs[i].dst : i \in {i \in DOMAIN f.instrs : f.instrs[i].op \in Consts}} |->
                    f.instrs[At(r)].imm]
<1>1. Mirrors(f, f)
  BY DEF Mirrors, Mirror
<1>2. ASSUME NEW r, Here(r) # {} PROVE At(r) \in Here(r)
  BY <1>2, SMTT(30)
<1>3. ASSUME NEW i \in DOMAIN f.instrs, f.instrs[i].op \in Consts
      PROVE  /\ f.instrs[i].dst \in DOMAIN K
             /\ f.instrs[i].imm = K[f.instrs[i].dst] /\ f.instrs[i].imm \in Value
  <2> DEFINE r == f.instrs[i].dst
             j == At(r)
  <2>1. i \in Here(r)
    BY <1>3
  <2>2. j \in Here(r)
    BY <2>1, <1>2
  <2> HIDE DEF j
  <2>3. i = j
    BY <1>3, <2>2, UniqueDefinition, OpsApart
  <2>4. f.instrs[i] \in Instr
    BY FuncFields
  <2>5. r \in DOMAIN K
    BY <1>3
  <2>6. K[r] = f.instrs[At(r)].imm
    BY <2>5
  <2> QED
    BY <1>3, <2>3, <2>4, <2>5, <2>6, InstrFields DEF j
<1>4. \A r \in DOMAIN K : \E i \in DOMAIN f.instrs : f.instrs[i].dst = r /\ f.instrs[i].op \in Consts
  OBVIOUS
<1> HIDE DEF K
<1>5. Justified(f, f, K)
  BY <1>3, <1>4 DEF Justified
<1>6. Grounded(f, K)
  BY <1>3 DEF Grounded
<1>7. \A i \in DOMAIN f.instrs : Explained(K, f.instrs[i], f.instrs[i])
  BY OpsApart DEF Explained
<1> QED
  BY <1>1, <1>5, <1>6, <1>7 DEF Facts

LEMMA SimulatedStep ==
    ASSUME TypeOK, EffectsKept, Simulated, [Next]_vars
    PROVE  Simulated'
<1>0. funcs \in Module /\ given \in Module /\ DOMAIN funcs = DOMAIN given
  BY DEF TypeOK, EffectsKept
<1>1. CASE UNCHANGED <<given, funcs>>
  BY <1>1 DEF Simulated
<1>2. ASSUME NEW m \in Inputs, NEW level \in Levels, Start(m, level)
      PROVE  Simulated'
  <2>1. given' = m /\ funcs' = m /\ m \in Module
    BY <1>2, InputsAssumption DEF Start
  <2>2. \A k \in DOMAIN m : m[k] \in Func
    BY <2>1 DEF Module
  <2> QED
    BY <2>1, <2>2, FirstFacts DEF Simulated
<1>3. ASSUME fi \in DOMAIN funcs, given' = given, NEW g, g \in Func, funcs' = [funcs EXCEPT ![fi] = g],
             g.params = given[fi].params,
             OneDefinition(given[fi]) => Mirrors(given[fi], g) /\ \E K : Facts(given[fi], g, K)
      PROVE  Simulated'
  <2>1. DOMAIN funcs' = DOMAIN funcs /\ funcs'[fi] = g
        /\ \A k \in DOMAIN funcs \ {fi} : funcs'[k] = funcs[k]
    BY <1>0, <1>3, FuncsReplaced
  <2> SUFFICES ASSUME NEW k \in DOMAIN funcs
               PROVE  /\ funcs'[k].params = given[k].params
                      /\ OneDefinition(given[k]) =>
                            /\ Mirrors(given[k], funcs'[k])
                            /\ \E K : Facts(given[k], funcs'[k], K)
    BY <1>3, <2>1 DEF Simulated
  <2> QED
    BY <1>3, <2>1 DEF Simulated
<1>4. CASE Rewrite
  <2>1. PICK i \in DOMAIN F.instrs, new \in Instr :
           /\ new \in Rewrites(i) /\ Becomes(new, F.instrs[i])
           /\ funcs' = [funcs EXCEPT ![fi] = [F EXCEPT !.instrs[i] = new]]
    BY <1>4, RewriteStep
  <2> DEFINE f == given[fi]
             g == [F EXCEPT !.instrs[i] = new]
  <2>2. fi \in DOMAIN funcs /\ F \in Func /\ F = funcs[fi] /\ given' = given
    BY <1>4, RewriteStep DEF F, Rewrite
  <2>3. f \in Func /\ DOMAIN F.instrs = DOMAIN f.instrs
    BY <1>0, <2>2 DEF Module, EffectsKept, Kept
  <2>4. g \in Func /\ g.params = F.params
    BY <2>1, <2>2, ReplaceUses
  <2>5. ASSUME OneDefinition(f) PROVE Mirrors(f, g) /\ \E K : Facts(f, g, K)
    <3>1. Mirrors(f, F)
      BY <2>2, <2>5 DEF Simulated
    <3>2. PICK K : Facts(f, F, K)
      BY <2>2, <2>5 DEF Simulated
    <3>3. Grounded(F, K)
      BY <3>2 DEF Facts
    <3>4. Sound(K, F, F.instrs[i], new)
      BY <2>1, <2>2, <3>3, RewritesSound
    <3> HIDE DEF f
    <3>5. Mirrors(f, g)
      BY <2>1, <2>2, <2>3, <2>5, <3>1, <3>4, RewriteMirrors
    <3>6. \E K2 : Facts(f, g, K2)
      BY <2>1, <2>2, <2>3, <2>5, <3>1, <3>2, <3>4, RewriteFacts
    <3> QED
      BY <3>5, <3>6
  <2>6. funcs' = [funcs EXCEPT ![fi] = g] /\ F.params = f.params
    BY <2>1, <2>2 DEF Simulated
  <2> HIDE DEF f, g
  <2>7. g.params = given[fi].params
        /\ (OneDefinition(given[fi]) => Mirrors(given[fi], g) /\ \E K : Facts(given[fi], g, K))
    BY <2>4, <2>5, <2>6 DEF f
  <2> QED
    BY <1>3, <2>2, <2>4, <2>6, <2>7
<1>5. CASE Eliminate
  <2> DEFINE f == given[fi]
             g == WithoutDead(F)
  <2>0. fi \in DOMAIN funcs /\ F \in Func /\ F = funcs[fi] /\ given' = given
    BY <1>5 DEF TypeOK, Module, F, Eliminate
  <2>1. /\ fi \in DOMAIN funcs /\ F \in Func /\ F = funcs[fi] /\ given' = given
        /\ funcs' = [funcs EXCEPT ![fi] = g]
    BY <1>5, <2>0 DEF Eliminate
  <2>2. f \in Func /\ DOMAIN F.instrs = DOMAIN f.instrs
    BY <1>0, <2>0 DEF Module, EffectsKept, Kept
  <2>3. F.params = f.params
    BY <2>1 DEF Simulated
  <2>4. g \in Func /\ g.params = F.params
    BY <2>1, EliminateUses
  <2>5. ASSUME OneDefinition(f) PROVE Mirrors(f, g) /\ \E K : Facts(f, g, K)
    <3>1. Mirrors(f, F)
      BY <2>1, <2>5 DEF Simulated
    <3>2. PICK K : Facts(f, F, K)
      BY <2>1, <2>5 DEF Simulated
    <3> HIDE DEF f
    <3>3. Mirrors(f, g)
      BY <2>1, <2>2, <3>1, EliminateMirrors
    <3>4. Facts(f, g, K)
      BY <2>1, <2>2, <3>2, EliminateFacts
    <3> QED
      BY <3>3, <3>4
  <2> HIDE DEF f, g
  <2>7. g.params = given[fi].params
        /\ (OneDefinition(given[fi]) => Mirrors(given[fi], g) /\ \E K : Facts(given[fi], g, K))
    BY <2>3, <2>4, <2>5 DEF f
  <2> QED
    BY <1>3, <2>1, <2>4, <2>7
<1>6. Trap \/ EndOfPass => UNCHANGED <<given, funcs>>
  BY DEF Trap, EndOfPass
<1> QED
  BY <1>1, <1>2, <1>4, <1>5, <1>6 DEF Next, Run, vars

THEOREM Simulation == Spec => []Simulated
<1>1. Init => Simulated
  BY DEF Init, Simulated
<1>2. TypeOK /\ EffectsKept /\ Simulated /\ [Next]_vars => Simulated'
  BY SimulatedStep
<1> QED
  BY <1>1, <1>2, Typing, EffectsStay, PTL DEF Spec
-----------------------------------------------------------------------------
(* Form *)

(* What the optimised function still reads and nobody could know before,   *)
(* nobody can know now.                                                    *)
LEMMA UnknownUsed ==
    ASSUME NEW f \in Func, NEW g \in Func, Kept(g, f), g.params = f.params,
           Mirrors(f, g), NEW u \in Unknown(f), u \in Uses(g)
    PROVE  u \in Unknown(g)
<1>1. Phis(g) = Phis(f) /\ DOMAIN g.instrs = DOMAIN f.instrs
  BY DEF Kept, Phis
<1>2. CASE u \in (0 .. (f.params - 1)) \cup {phi.dst : phi \in Phis(f)}
  BY <1>1, <1>2 DEF Unknown
<1>3. CASE \E i \in DOMAIN f.instrs : f.instrs[i].dst = u /\ f.instrs[i].op \in Opaque \cup {"call"}
  <2>1. PICK i \in DOMAIN f.instrs : f.instrs[i].dst = u /\ f.instrs[i].op \in Opaque \cup {"call"}
    BY <1>3
  <2>2. f.instrs[i].op \notin Pure \cup IntOps \cup {"cbr"}
    BY <2>1, OpsApart
  <2>3. Mirror(f, g, f.instrs[i], g.instrs[i])
    BY DEF Mirrors
  <2>4. g.instrs[i] = f.instrs[i]
    BY <2>1, <2>2, <2>3 DEF Mirror
  <2> QED
    BY <1>1, <2>1, <2>4 DEF Unknown
<1> QED
  BY <1>2, <1>3 DEF Unknown

LEMMA TestUsed ==
    ASSUME NEW f \in Func, NEW g \in Func, Kept(g, f), g.params = f.params,
           Mirrors(f, g), NEW r, TestsUnknown(f, r), r \in Uses(g)
    PROVE  TestsUnknown(g, r)
<1>1. DOMAIN g.instrs = DOMAIN f.instrs
  BY DEF Kept
<1>2. CASE r \in Unknown(f)
  BY <1>2, UnknownUsed DEF TestsUnknown
<1>3. CASE r \notin Unknown(f)
  <2>1. PICK i \in DOMAIN f.instrs : /\ f.instrs[i].dst = r /\ f.instrs[i].op \in CmpOps
                                     /\ Reads(f.instrs[i]) \cap Unknown(f) # {}
    BY <1>3 DEF TestsUnknown
  <2>2. f.instrs[i].op \notin IntOps \cup {"cbr"}
    BY <2>1, OpsApart
  <2>3. Mirror(f, g, f.instrs[i], g.instrs[i])
    BY DEF Mirrors
  <2>4. g.instrs[i] = f.instrs[i]
    BY <2>1, <2>2, <2>3 DEF Mirror
  <2>5. PICK u \in Reads(f.instrs[i]) : u \in Unknown(f)
    BY <2>1
  <2>6. f.instrs[i].op # Removed
    BY <2>1, OpsApart
  <2>7. u \in Uses(g)
    BY <1>1, <2>4, <2>5, <2>6 DEF Uses, Live
  <2>8. u \in Unknown(g)
    BY <2>5, <2>7, UnknownUsed
  <2> QED
    BY <1>1, <2>1, <2>4, <2>5, <2>8 DEF TestsUnknown
<1> QED
  BY <1>2, <1>3

(* Where an instruction may lead. *)
Leads(ins) == {ins.to[k] : k \in DOMAIN ins.to}

LEMMA PredecessorsStay ==
    ASSUME NEW f \in Func, NEW g \in Func, Kept(g, f), BlocksClosed(f), JoinsStay(f), Mirrors(f, g),
           NEW b \in DOMAIN f.blocks, f.blocks[b].phis # <<>>
    PROVE  Predecessors(g, b) = Predecessors(f, b)
<1>1. g.blocks = f.blocks /\ DOMAIN g.instrs = DOMAIN f.instrs
  BY DEF Kept
<1>2. \A p : Body(g, p) = Body(f, p)
  BY <1>1 DEF Body
<1>3. ASSUME NEW i \in DOMAIN f.instrs
      PROVE  /\ f.instrs[i].op \in Terminators <=> g.instrs[i].op \in Terminators
             /\ f.instrs[i].op \in Terminators =>
                   (b \in Leads(g.instrs[i]) <=> b \in Leads(f.instrs[i]))
  <2> DEFINE old == f.instrs[i]
             new == g.instrs[i]
  <2>1. old \in Instr /\ Mirror(f, g, old, new) /\ Terminators = {"br", "cbr", "ret"}
    BY FuncFields DEF Mirrors, Terminators
  <2>2. CASE new = old
    BY <2>2
  <2>3. CASE old.op = "cbr" /\ ~ TestsUnknown(f, old.use[1]) /\ \E k \in {1, 2} : new = Br(old.to[k])
    <3>1. PICK k \in {1, 2} : new = Br(old.to[k])
      BY <2>3
    <3>2. new.op = "br" /\ new.to = <<old.to[k]>>
      BY <3>1, BrFields
    <3>3. b \notin {old.to[1], old.to[2]}
      BY <2>3 DEF JoinsStay
    <3>4. old.to \in Seq(Nat) /\ Len(old.to) = 2
      BY <2>1, <2>3, InstrFields
    <3>5. Leads(old) = {old.to[1], old.to[2]}
      BY <3>4 DEF Leads
    <3>6. Leads(new) = {old.to[k]}
      BY <3>2 DEF Leads
    <3> QED
      BY <2>1, <2>3, <3>2, <3>3, <3>5, <3>6
  <2>4. CASE old.op \in Valued /\ new.op = Removed
    BY <2>1, <2>4, OpsApart
  <2>5. CASE old.op \in Pure /\ new.op \in Consts
    BY <2>1, <2>5, OpsApart
  <2>6. CASE old.op \in IntOps /\ \E k \in {1, 2} : new = AsCopy(old, old.use[k])
    <3>1. new.op = "copy"
      BY <2>1, <2>6, AsCopyFields
    <3> QED
      BY <2>1, <2>6, <3>1, OpsApart
  <2> HIDE DEF old, new
  <2> QED
    BY <2>1, <2>2, <2>3, <2>4, <2>5, <2>6 DEF Mirror
<1>4. ASSUME NEW p \in DOMAIN f.blocks
      PROVE  b \in Targets(g, p) <=> b \in Targets(f, p)
  <2>1. Branches(f, p) \subseteq DOMAIN f.instrs /\ Body(f, p) \subseteq DOMAIN f.instrs
    BY DEF BlocksClosed, Branches
  <2>2. Branches(g, p) = Branches(f, p)
    BY <1>2, <1>3, <2>1 DEF Branches
  <2>3. \A i \in Branches(f, p) : b \in Leads(g.instrs[i]) <=> b \in Leads(f.instrs[i])
    BY <1>3, <2>1 DEF Branches
  <2>4. Targets(g, p) = UNION {Leads(g.instrs[i]) : i \in Branches(g, p)}
        /\ Targets(f, p) = UNION {Leads(f.instrs[i]) : i \in Branches(f, p)}
    BY DEF Targets, Leads
  <2> QED
    BY <2>2, <2>3, <2>4
<1> QED
  BY <1>1, <1>4 DEF Predecessors

LEMMA FormStays ==
    ASSUME NEW f \in Func, NEW g \in Func, Kept(g, f), g.params = f.params,
           Mirrors(f, g), Formed(f), Supplied(g)
    PROVE  Formed(g)
<1>1. g.blocks = f.blocks /\ DOMAIN g.instrs = DOMAIN f.instrs /\ Phis(g) = Phis(f)
  BY DEF Kept, Phis
<1>2. \A i \in DOMAIN f.instrs : Mirror(f, g, f.instrs[i], g.instrs[i]) /\ g.instrs[i].dst = f.instrs[i].dst
                                /\ f.instrs[i] \in Instr /\ g.instrs[i] \in Instr
  BY <1>1, FuncFields DEF Mirrors, Mirror
<1>3. OneDefinition(g)
  <2>1. ASSUME NEW i \in DOMAIN f.instrs, f.instrs[i].op \notin Valued
        PROVE  g.instrs[i].op \notin Valued
    <3>1. f.instrs[i].op \notin Pure \cup IntOps /\ \A b : Br(b).op = "br"
      BY <2>1, BrFields, OpsApart
    <3>2. g.instrs[i] = f.instrs[i] \/ g.instrs[i].op = "br"
      BY <1>2, <2>1, <3>1 DEF Mirror
    <3> QED
      BY <2>1, <3>2, OpsApart
  <2> QED
    BY <1>1, <1>2, <2>1 DEF OneDefinition, Formed
<1>4. BlocksClosed(g)
  <2>1. \A p : Body(g, p) = Body(f, p)
    BY <1>1 DEF Body
  <2>2. ASSUME NEW i \in DOMAIN f.instrs
        PROVE  f.instrs[i].op \in Terminators <=> g.instrs[i].op \in Terminators
    <3>1. Terminators \subseteq Effects /\ \A k : Br(k).op \in Terminators /\ "cbr" \in Terminators
      BY BrFields DEF Terminators, Effects
    <3>2. {g.instrs[i].op, f.instrs[i].op} \cap Effects # {} => SameEffect(g.instrs[i], f.instrs[i])
      BY <1>1 DEF Kept
    <3> QED
      BY <3>1, <3>2 DEF SameEffect
  <2>3. \A p \in DOMAIN f.blocks : Branches(g, p) = Branches(f, p)
    BY <2>1, <2>2 DEF Branches, Formed, BlocksClosed
  <2> QED
    BY <1>1, <2>1, <2>3 DEF Formed, BlocksClosed
<1>5. PhisMatch(g)
  <2> SUFFICES ASSUME NEW b \in DOMAIN f.blocks, NEW k \in DOMAIN f.blocks[b].phis
               PROVE  Predecessors(g, b) = Predecessors(f, b)
    BY <1>1 DEF PhisMatch, Formed
  <2>1. f.blocks[b].phis # <<>>
    OBVIOUS
  <2> QED
    BY <2>1, PredecessorsStay DEF Formed
<1>6. JoinsStay(g)
  <2> SUFFICES ASSUME NEW b \in DOMAIN f.blocks, NEW i \in DOMAIN f.instrs,
                      f.blocks[b].phis # <<>>, g.instrs[i].op = "cbr",
                      b \in {g.instrs[i].to[1], g.instrs[i].to[2]}
               PROVE  TestsUnknown(g, g.instrs[i].use[1])
    BY <1>1 DEF JoinsStay
  <2>1. g.instrs[i] = f.instrs[i]
    BY <1>2, StillGiven
  <2>2. TestsUnknown(f, g.instrs[i].use[1])
    BY <2>1 DEF Formed, JoinsStay
  <2>3. g.instrs[i].use \in Seq(Int) /\ Len(g.instrs[i].use) = 1 /\ g.instrs[i].op # Removed
    BY <1>2, InstrFields, OpsApart
  <2>4. g.instrs[i].use[1] \in Reads(g.instrs[i])
    BY <2>3 DEF Reads
  <2>5. g.instrs[i].use[1] \in Uses(g)
    BY <1>1, <2>3, <2>4 DEF Uses, Live
  <2> QED
    BY <2>2, <2>5, TestUsed
<1> QED
  BY <1>3, <1>4, <1>5, <1>6 DEF Formed

(* The pipeline hands every function on as well formed as it came.         *)
THEOREM FormStaysKept == Spec => []FormKept
<1>1. TypeOK /\ EffectsKept /\ NoStrandedUse /\ Simulated => FormKept
  <2> SUFFICES ASSUME TypeOK, EffectsKept, NoStrandedUse, Simulated,
                      NEW k \in DOMAIN funcs, Formed(given[k])
               PROVE  Formed(funcs[k])
    BY DEF FormKept
  <2>1. given[k] \in Func /\ funcs[k] \in Func /\ Kept(funcs[k], given[k])
    BY DEF TypeOK, Module, EffectsKept
  <2>2. Supplied(funcs[k])
    BY DEF Formed, NoStrandedUse
  <2>3. funcs[k].params = given[k].params /\ Mirrors(given[k], funcs[k])
    BY DEF Formed, Simulated
  <2> QED
    BY <2>1, <2>2, <2>3, FormStays
<1> QED
  BY <1>1, Typing, EffectsStay, UsesStay, Simulation, PTL
-----------------------------------------------------------------------------
(* Runs *)
IsRun(s) == s \in [how : {s.how}, block : {s.block}, at : {s.at}, env : {s.env}, event : {s.event}]

LEMMA StopFields ==
    ASSUME NEW s, IsRun(s), NEW how
    PROVE  LET s2 == Stop(s, how)
           IN IsRun(s2) /\ s2.how = how /\ s2.block = s.block /\ s2.at = s.at /\ s2.env = s.env
BY DEF IsRun, Stop

LEMMA SkipFields ==
    ASSUME NEW s, IsRun(s)
    PROVE  LET s2 == Skip(s)
           IN /\ IsRun(s2) /\ s2.how = s.how /\ s2.block = s.block /\ s2.at = s.at + 1
              /\ s2.env = s.env /\ s2.event = Silent
BY DEF IsRun, Skip

LEMMA EventFields ==
    ASSUME NEW s, IsRun(s), NEW e
    PROVE  LET s2 == [s EXCEPT !.event = e]
           IN /\ IsRun(s2) /\ s2.how = s.how /\ s2.block = s.block /\ s2.at = s.at
              /\ s2.env = s.env /\ s2.event = e
BY DEF IsRun

LEMMA AssignFields ==
    ASSUME NEW s, IsRun(s), NEW r, NEW v
    PROVE  LET s2 == Assign(s, r, v)
           IN /\ IsRun(s2) /\ s2.how = s.how /\ s2.block = s.block /\ s2.at = s.at + 1
              /\ s2.env = Define(s.env, r, v) /\ s2.event = Silent
<1>1. /\ IsRun(Skip(s)) /\ Skip(s).how = s.how /\ Skip(s).block = s.block /\ Skip(s).at = s.at + 1
      /\ Skip(s).env = s.env /\ Skip(s).event = Silent
  BY SkipFields
<1> DEFINE base == Skip(s)
<1>2. Assign(s, r, v) = [base EXCEPT !.env = Define(s.env, r, v)]
  BY <1>1 DEF Assign
<1> HIDE DEF base
<1> QED
  BY <1>1, <1>2 DEF IsRun, base

(* The two runs side by side: at the same place, every register that the   *)
(* optimised function still reads has the same value in both, and what is  *)
(* known of a register is so.                                              *)
Beside(g, K, s, t) ==
    /\ IsRun(s) /\ IsRun(t)
    /\ t.how = s.how /\ t.block = s.block /\ t.at = s.at
    /\ \A r \in Uses(g) \cap DOMAIN s.env : r \in DOMAIN t.env /\ t.env[r] = s.env[r]
    /\ \A r \in DOMAIN s.env : s.env[r] \in Value /\ (r \in DOMAIN K => s.env[r] = K[r])
Together(g, K, s, t) == Beside(g, K, s, t) /\ SameEvent(t.event, s.event)

(* Both define a register with the same value, *)
LEMMA BothAssign ==
    ASSUME NEW g, NEW K, NEW s, NEW t, Beside(g, K, s, t),
           NEW r, NEW v \in Value, r \in DOMAIN K => v = K[r]
    PROVE  Together(g, K, Assign(s, r, v), Assign(t, r, v))
<1> DEFINE s2 == Assign(s, r, v)
           t2 == Assign(t, r, v)
<1>1. /\ IsRun(s2) /\ s2.how = s.how /\ s2.block = s.block /\ s2.at = s.at + 1
      /\ s2.env = Define(s.env, r, v) /\ s2.event = Silent
  BY AssignFields DEF Beside
<1>2. /\ IsRun(t2) /\ t2.how = t.how /\ t2.block = t.block /\ t2.at = t.at + 1
      /\ t2.env = Define(t.env, r, v) /\ t2.event = Silent
  BY AssignFields DEF Beside
<1> HIDE DEF s2, t2
<1>3. SameEvent(t2.event, s2.event) /\ t2.how = s2.how /\ t2.block = s2.block /\ t2.at = s2.at
  BY <1>1, <1>2 DEF SameEvent, Beside
<1>4. CASE r = NoReg
  <2>1. s2.env = s.env /\ t2.env = t.env
    BY <1>1, <1>2, <1>4 DEF Define
  <2> QED
    BY <1>1, <1>2, <1>3, <2>1 DEF Together, Beside, s2, t2
<1>5. CASE r # NoReg
  <2>1. /\ DOMAIN s2.env = DOMAIN s.env \cup {r} /\ s2.env[r] = v
        /\ \A x \in DOMAIN s.env \ {r} : s2.env[x] = s.env[x]
    BY <1>1, <1>5 DEF Define
  <2>2. /\ DOMAIN t2.env = DOMAIN t.env \cup {r} /\ t2.env[r] = v
        /\ \A x \in DOMAIN t.env \ {r} : t2.env[x] = t.env[x]
    BY <1>2, <1>5 DEF Define
  <2>3. \A x \in Uses(g) \cap DOMAIN s2.env : x \in DOMAIN t2.env /\ t2.env[x] = s2.env[x]
    BY <2>1, <2>2 DEF Beside
  <2>5. \A x \in DOMAIN s2.env : s2.env[x] \in Value /\ (x \in DOMAIN K => s2.env[x] = K[x])
    BY <2>1 DEF Beside
  <2> QED
    BY <1>1, <1>2, <1>3, <2>3, <2>5 DEF Together, Beside, s2, t2
<1> QED
  BY <1>4, <1>5

(* or only the given one does, one that is not read any more.              *)
LEMMA OneAssigns ==
    ASSUME NEW g, NEW K, NEW s, NEW t, Beside(g, K, s, t),
           NEW r, r \notin Uses(g), NEW v \in Value, r \in DOMAIN K => v = K[r]
    PROVE  Together(g, K, Assign(s, r, v), Skip(t))
<1> DEFINE s2 == Assign(s, r, v)
           t2 == Skip(t)
<1>1. /\ IsRun(s2) /\ s2.how = s.how /\ s2.block = s.block /\ s2.at = s.at + 1
      /\ s2.env = Define(s.env, r, v) /\ s2.event = Silent
  BY AssignFields DEF Beside
<1>2. /\ IsRun(t2) /\ t2.how = t.how /\ t2.block = t.block /\ t2.at = t.at + 1
      /\ t2.env = t.env /\ t2.event = Silent
  BY SkipFields DEF Beside
<1> HIDE DEF s2, t2
<1>3. SameEvent(t2.event, s2.event) /\ t2.how = s2.how /\ t2.block = s2.block /\ t2.at = s2.at
  BY <1>1, <1>2 DEF SameEvent, Beside
<1>4. CASE r = NoReg
  <2>1. s2.env = s.env
    BY <1>1, <1>4 DEF Define
  <2> QED
    BY <1>1, <1>2, <1>3, <2>1 DEF Together, Beside, s2, t2
<1>5. CASE r # NoReg
  <2>1. /\ DOMAIN s2.env = DOMAIN s.env \cup {r} /\ s2.env[r] = v
        /\ \A x \in DOMAIN s.env \ {r} : s2.env[x] = s.env[x]
    BY <1>1, <1>5 DEF Define
  <2>3. \A x \in Uses(g) \cap DOMAIN s2.env : x \in DOMAIN t2.env /\ t2.env[x] = s2.env[x]
    BY <1>2, <2>1 DEF Beside
  <2>5. \A x \in DOMAIN s2.env : s2.env[x] \in Value /\ (x \in DOMAIN K => s2.env[x] = K[x])
    BY <2>1 DEF Beside
  <2> QED
    BY <1>1, <1>2, <1>3, <2>3, <2>5 DEF Together, Beside, s2, t2
<1> QED
  BY <1>4, <1>5
-----------------------------------------------------------------------------
(* One instruction *)

(* A register that is known is defined by the instruction that K knows it  *)
(* of, and by no other.                                                    *)
LEMMA KnownBy ==
    ASSUME NEW f \in Func, OneDefinition(f), NEW g, NEW K, Justified(f, g, K),
           NEW i \in DOMAIN f.instrs, f.instrs[i].dst \in DOMAIN K
    PROVE  \/ f.instrs[i].op \in Consts /\ K[f.instrs[i].dst] = f.instrs[i].imm
           \/ f.instrs[i].op \in Pure /\ Always(K, f.instrs[i], K[f.instrs[i].dst])
<1>1. PICK j \in DOMAIN f.instrs :
         /\ f.instrs[j].dst = f.instrs[i].dst
         /\ \/ f.instrs[j].op \in Consts /\ K[f.instrs[i].dst] = f.instrs[j].imm
            \/ f.instrs[j].op \in Pure /\ Always(K, f.instrs[j], K[f.instrs[i].dst])
  BY DEF Justified
<1>2. j = i
  BY <1>1, UniqueDefinition, OpsApart
<1> QED
  BY <1>1, <1>2

LEMMA KnownFields ==
    ASSUME NEW f \in Func, OneDefinition(f), NEW g, NEW K, Justified(f, g, K), NEW r \in DOMAIN K
    PROVE  r \notin 0 .. (f.params - 1) /\ \A phi \in Phis(f) : phi.dst # r
<1>1. PICK i \in DOMAIN f.instrs : f.instrs[i].dst = r /\ f.instrs[i].op \in Valued
  BY OpsApart DEF Justified
<1>2. r >= f.params /\ f.params \in Nat
  BY <1>1, FuncFields DEF OneDefinition
<1>3. r \notin 0 .. (f.params - 1)
  BY <1>2
<1> QED
  BY <1>1, <1>3 DEF OneDefinition

(* The operands an instruction finds in a run agree with what is known. *)
LEMMA Finds ==
    ASSUME NEW K, NEW ins \in Instr, ins.op \in Pure, NEW env,
           Reads(ins) \subseteq DOMAIN env,
           \A r \in DOMAIN env : env[r] \in Value /\ (r \in DOMAIN K => env[r] = K[r])
    PROVE  /\ <<env[ins.use[1]], Second(ins, env)>> \in Agreeing(K, ins)
           /\ env[ins.use[1]] \in Value /\ Second(ins, env) \in Value
           /\ ins.op \in Two => Second(ins, env) = env[ins.use[2]]
<1>1. ins.use \in Seq(Int) /\ (ins.op \in Two => Len(ins.use) = 2) /\ (ins.op \in Unary => Len(ins.use) = 1)
  BY InstrFields
<1>2. ins.op \in Two \cup Unary
  BY DEF Pure, Two, Unary
<1>3. Len(ins.use) \in {1, 2} /\ DOMAIN ins.use = 1 .. Len(ins.use)
  BY <1>1, <1>2
<1>4. 1 \in DOMAIN ins.use /\ (Len(ins.use) = 2 => 2 \in DOMAIN ins.use)
  BY <1>3, SMTT(30)
<1>5. ins.use[1] \in DOMAIN env /\ (Len(ins.use) = 2 => ins.use[2] \in DOMAIN env)
  BY <1>4 DEF Reads
<1>6. 0 \in Value
  BY ApplyAssumption
<1>7. env[ins.use[1]] \in Value /\ Second(ins, env) \in Value
  BY <1>5, <1>6 DEF Second
<1> DEFINE p == <<env[ins.use[1]], Second(ins, env)>>
<1>8. p \in Value \X Value /\ p[1] = env[ins.use[1]] /\ p[2] = Second(ins, env)
  BY <1>7
<1> HIDE DEF p
<1>9. p \in Agreeing(K, ins)
  BY <1>5, <1>8 DEF Agreeing, Second
<1> QED
  BY <1>1, <1>7, <1>9 DEF p, Second

(* The value of a constant and of a pure instruction. *)
LEMMA ResultOf ==
    ASSUME NEW ins, NEW env
    PROVE  /\ ins.op \in Consts => Result(ins, env) = ins.imm
           /\ ins.op \in Pure => Result(ins, env) = Apply(ins.op, env[ins.use[1]], Second(ins, env))
<1>1. Consts \cap Pure = {}
  BY OpsApart
<1> QED
  BY <1>1 DEF Result

LEMMA ResultKnown ==
    ASSUME NEW f \in Func, OneDefinition(f), NEW g, NEW K, Justified(f, g, K),
           NEW i \in DOMAIN f.instrs, f.instrs[i].op \in Consts \cup Pure, NEW env,
           Reads(f.instrs[i]) \subseteq DOMAIN env,
           \A r \in DOMAIN env : env[r] \in Value /\ (r \in DOMAIN K => env[r] = K[r])
    PROVE  /\ Result(f.instrs[i], env) \in Value
           /\ f.instrs[i].dst \in DOMAIN K => Result(f.instrs[i], env) = K[f.instrs[i].dst]
<1> DEFINE ins == f.instrs[i]
<1>0. ins \in Instr
  BY FuncFields
<1>1. CASE ins.op \in Consts
  <2>1. ins.op \notin Pure /\ Result(ins, env) = ins.imm /\ ins.imm \in Value
    BY <1>0, <1>1, InstrFields, ResultOf, OpsApart
  <2> QED
    BY <2>1, KnownBy
<1>2. CASE ins.op \in Pure
  <2> DEFINE p == <<env[ins.use[1]], Second(ins, env)>>
  <2>1. p \in Agreeing(K, ins) /\ p[1] \in Value /\ p[2] \in Value
    BY <1>0, <1>2, Finds
  <2>2. Result(ins, env) = Apply(ins.op, p[1], p[2])
    BY <1>2, ResultOf
  <2> HIDE DEF p
  <2>3. Result(ins, env) \in Value
    BY <1>2, <2>1, <2>2, ApplyAssumption
  <2>4. ins.dst \in DOMAIN K => Always(K, ins, K[ins.dst])
    BY <1>2, KnownBy, OpsApart, SMTT(30)
  <2> QED
    BY <2>1, <2>2, <2>3, <2>4 DEF Always
<1> QED
  BY <1>1, <1>2

(* A step of a run, by the opcode. *)
LEMMA StepOf ==
    ASSUME NEW f, NEW s, NEW answer, s.at \in Body(f, s.block) \cap DOMAIN f.instrs,
           NEW ins, ins = f.instrs[s.at], ins.op \in Ops
    PROVE  /\ ins.op = Removed => Step(f, s, answer) = Skip(s)
           /\ ins.op # Removed /\ ~ Reads(ins) \subseteq DOMAIN s.env => Step(f, s, answer) = Stop(s, "stuck")
           /\ Reads(ins) \subseteq DOMAIN s.env =>
                /\ ins.op \in Consts \cup Pure /\ Trapping(ins, s.env) => Step(f, s, answer) = Stop(s, "trap")
                /\ ins.op \in Consts \cup Pure /\ ~ Trapping(ins, s.env) =>
                      Step(f, s, answer) = Assign(s, ins.dst, Result(ins, s.env))
                /\ ins.op \in Opaque =>
                      Step(f, s, answer) = [Assign(s, ins.dst, answer) EXCEPT
                                               !.event = <<"opaque", ins.op, ins.imm, Operands(ins, s.env)>>]
                /\ ins.op = "print" => Step(f, s, answer) = [Skip(s) EXCEPT !.event = <<"print", Operands(ins, s.env)>>]
                /\ ins.op = "call" =>
                      Step(f, s, answer) = [Assign(s, ins.dst, answer) EXCEPT
                                               !.event = <<"call", ins.fn, Operands(ins, s.env)>>]
                /\ ins.op = "ret" => Step(f, s, answer) = [Stop(s, "exit") EXCEPT !.event = <<"ret", Operands(ins, s.env)>>]
                /\ ins.op = "br" => Step(f, s, answer) = Enter(f, s, ins.to[1])
                /\ ins.op = "cbr" =>
                      Step(f, s, answer) = Enter(f, s, IF s.env[ins.use[1]] # 0 THEN ins.to[1] ELSE ins.to[2])
<1>1. /\ (Consts \cup Pure) \cap Opaque = {}
      /\ (Consts \cup Pure \cup Opaque) \cap {"print", "call", "ret", "br", "cbr", Removed} = {}
      /\ Removed \notin {"print", "call", "ret", "br", "cbr"}
  BY OpsApart
<1>2. ins.op = Removed => Step(f, s, answer) = Skip(s)
  BY DEF Step
<1>3. ins.op # Removed /\ ~ Reads(ins) \subseteq DOMAIN s.env => Step(f, s, answer) = Stop(s, "stuck")
  BY DEF Step
<1> SUFFICES ASSUME Reads(ins) \subseteq DOMAIN s.env, ins.op # Removed
             PROVE  /\ ins.op \in Consts \cup Pure /\ Trapping(ins, s.env) => Step(f, s, answer) = Stop(s, "trap")
                    /\ ins.op \in Consts \cup Pure /\ ~ Trapping(ins, s.env) =>
                          Step(f, s, answer) = Assign(s, ins.dst, Result(ins, s.env))
                    /\ ins.op \in Opaque =>
                          Step(f, s, answer) = [Assign(s, ins.dst, answer) EXCEPT
                                               !.event = <<"opaque", ins.op, ins.imm, Operands(ins, s.env)>>]
                    /\ ins.op = "print" => Step(f, s, answer) = [Skip(s) EXCEPT !.event = <<"print", Operands(ins, s.env)>>]
                    /\ ins.op = "call" =>
                          Step(f, s, answer) = [Assign(s, ins.dst, answer) EXCEPT
                                               !.event = <<"call", ins.fn, Operands(ins, s.env)>>]
                    /\ ins.op = "ret" => Step(f, s, answer) = [Stop(s, "exit") EXCEPT !.event = <<"ret", Operands(ins, s.env)>>]
                    /\ ins.op = "br" => Step(f, s, answer) = Enter(f, s, ins.to[1])
                    /\ ins.op = "cbr" =>
                          Step(f, s, answer) = Enter(f, s, IF s.env[ins.use[1]] # 0 THEN ins.to[1] ELSE ins.to[2])
  BY <1>1, <1>2, <1>3, SMTT(30)
<1>4. CASE ins.op \in Consts \cup Pure
  BY <1>1, <1>4, ZenonT(30) DEF Step
<1>5. CASE ins.op \in Opaque
  BY <1>1, <1>5 DEF Step
<1>6. CASE ins.op = "print"
  BY <1>1, <1>6 DEF Step
<1>7. CASE ins.op = "call"
  BY <1>1, <1>7 DEF Step
<1>8. CASE ins.op = "ret"
  BY <1>1, <1>8 DEF Step
<1>9. CASE ins.op = "br"
  BY <1>1, <1>9, SMTT(30) DEF Step
<1>10. CASE ins.op = "cbr"
  BY <1>1, <1>10 DEF Step
<1> QED
  BY <1>4, <1>5, <1>6, <1>7, <1>8, <1>9, <1>10
-----------------------------------------------------------------------------
(* Both runs take a step *)

LEMMA LiveReads ==
    ASSUME NEW g, NEW i \in DOMAIN g.instrs, g.instrs[i].op # Removed
    PROVE  Reads(g.instrs[i]) \subseteq Uses(g)
BY DEF Uses, Live

(* An instruction that both have finds the same in both runs. *)
LEMMA SameReads ==
    ASSUME NEW g, NEW K, NEW s, NEW t, Beside(g, K, s, t), NEW ins \in Instr,
           Reads(ins) \subseteq Uses(g) \cap DOMAIN s.env
    PROVE  /\ Reads(ins) \subseteq DOMAIN t.env
           /\ \A k \in DOMAIN ins.use : t.env[ins.use[k]] = s.env[ins.use[k]]
           /\ Operands(ins, t.env) = Operands(ins, s.env)
<1>1. \A k \in DOMAIN ins.use : ins.use[k] \in Reads(ins)
  BY DEF Reads
<1>2. \A k \in DOMAIN ins.use : t.env[ins.use[k]] = s.env[ins.use[k]]
  BY <1>1 DEF Beside
<1>3. Operands(ins, t.env) = Operands(ins, s.env)
  BY <1>2 DEF Operands
<1> QED
  BY <1>2, <1>3 DEF Beside

LEMMA SameResult ==
    ASSUME NEW g, NEW K, NEW s, NEW t, Beside(g, K, s, t), NEW ins \in Instr,
           ins.op \in Consts \cup Pure, Reads(ins) \subseteq Uses(g) \cap DOMAIN s.env
    PROVE  /\ Result(ins, t.env) = Result(ins, s.env)
           /\ Trapping(ins, t.env) = Trapping(ins, s.env)
<1>1. \A k \in DOMAIN ins.use : t.env[ins.use[k]] = s.env[ins.use[k]]
  BY SameReads
<1>2. ins.use \in Seq(Int) /\ (ins.op \in Two => Len(ins.use) = 2) /\ (ins.op \in Unary => Len(ins.use) = 1)
  BY InstrFields
<1>3. DOMAIN ins.use = 1 .. Len(ins.use) /\ Len(ins.use) \in Nat
  BY <1>2
<1>4. Second(ins, t.env) = Second(ins, s.env)
  BY <1>1, <1>3 DEF Second
<1>5. Divides(ins.op) => ins.op \in Two
  BY DEF Divides, Two, IntOps
<1>6. ins.op \in Pure => ins.op \in Two \cup Unary
  BY DEF Pure, Two, Unary
<1>7. ins.op \in Pure => t.env[ins.use[1]] = s.env[ins.use[1]]
  BY <1>1, <1>2, <1>3, <1>6
<1>8. ins.op \in Two => t.env[ins.use[1]] = s.env[ins.use[1]] /\ t.env[ins.use[2]] = s.env[ins.use[2]]
  BY <1>1, <1>2, <1>3
<1>9. Result(ins, t.env) = Result(ins, s.env)
  <2>1. CASE ins.op \in Pure
    BY <1>4, <1>7, <2>1, ResultOf
  <2>2. CASE ins.op \in Consts
    BY <2>2, ResultOf
  <2> QED
    BY <2>1, <2>2
<1>10. Trapping(ins, t.env) = Trapping(ins, s.env)
  <2>1. CASE Divides(ins.op)
    BY <1>5, <1>8, <2>1 DEF Trapping
  <2>2. CASE ~ Divides(ins.op)
    BY <2>2 DEF Trapping
  <2> QED
    BY <2>1, <2>2
<1> QED
  BY <1>9, <1>10

(* What both let be seen in a step. *)
LEMMA WithEvents ==
    ASSUME NEW g, NEW K, NEW s, NEW t, Beside(g, K, s, t), NEW e
    PROVE  Together(g, K, [s EXCEPT !.event = e], [t EXCEPT !.event = e])
<1> DEFINE s2 == [s EXCEPT !.event = e]
           t2 == [t EXCEPT !.event = e]
<1>1. IsRun(s2) /\ s2.how = s.how /\ s2.block = s.block /\ s2.at = s.at /\ s2.env = s.env /\ s2.event = e
  BY EventFields DEF Beside
<1>2. IsRun(t2) /\ t2.how = t.how /\ t2.block = t.block /\ t2.at = t.at /\ t2.env = t.env /\ t2.event = e
  BY EventFields DEF Beside
<1> HIDE DEF s2, t2
<1> QED
  BY <1>1, <1>2 DEF Together, Beside, SameEvent, s2, t2

LEMMA OneEvent ==
    ASSUME NEW g, NEW K, NEW s, NEW t, Beside(g, K, s, t), t.event = Silent, NEW x
    PROVE  Together(g, K, [s EXCEPT !.event = <<"opaque", x[1], x[2], x[3]>>], t)
<1> DEFINE e == <<"opaque", x[1], x[2], x[3]>>
           s2 == [s EXCEPT !.event = e]
<1>1. IsRun(s2) /\ s2.how = s.how /\ s2.block = s.block /\ s2.at = s.at /\ s2.env = s.env /\ s2.event = e
  BY EventFields DEF Beside
<1>2. e[1] = "opaque"
  OBVIOUS
<1> HIDE DEF s2, e
<1>3. SameEvent(t.event, s2.event)
  BY <1>1, <1>2 DEF SameEvent
<1>4. Beside(g, K, s2, t)
  BY <1>1 DEF Beside
<1> QED
  BY <1>3, <1>4 DEF Together, s2, e

LEMMA BothSkip ==
    ASSUME NEW g, NEW K, NEW s, NEW t, Beside(g, K, s, t)
    PROVE  Together(g, K, Skip(s), Skip(t))
<1> DEFINE s2 == Skip(s)
           t2 == Skip(t)
<1>1. IsRun(s2) /\ s2.how = s.how /\ s2.block = s.block /\ s2.at = s.at + 1 /\ s2.env = s.env /\ s2.event = Silent
  BY SkipFields DEF Beside
<1>2. IsRun(t2) /\ t2.how = t.how /\ t2.block = t.block /\ t2.at = t.at + 1 /\ t2.env = t.env /\ t2.event = Silent
  BY SkipFields DEF Beside
<1> HIDE DEF s2, t2
<1> QED
  BY <1>1, <1>2 DEF Together, Beside, SameEvent, s2, t2

LEMMA BothStop ==
    ASSUME NEW g, NEW K, NEW s, NEW t, Beside(g, K, s, t), NEW how
    PROVE  Beside(g, K, Stop(s, how), Stop(t, how))
<1> DEFINE s2 == Stop(s, how)
           t2 == Stop(t, how)
<1>1. IsRun(s2) /\ s2.how = how /\ s2.block = s.block /\ s2.at = s.at /\ s2.env = s.env
  BY StopFields DEF Beside
<1>2. IsRun(t2) /\ t2.how = how /\ t2.block = t.block /\ t2.at = t.at /\ t2.env = t.env
  BY StopFields DEF Beside
<1> HIDE DEF s2, t2
<1> QED
  BY <1>1, <1>2 DEF Beside, s2, t2

(* Both go into a block: its phis are read in both, so what they take from *)
(* the block left is the same.                                             *)
Moved(s, b, start, env) ==
    [s EXCEPT !.block = b, !.at = start, !.event = Silent, !.env = env]
LEMMA MovedFields ==
    ASSUME NEW s, IsRun(s), NEW b, NEW start, NEW env
    PROVE  LET s2 == Moved(s, b, start, env)
           IN /\ IsRun(s2) /\ s2.how = s.how /\ s2.block = b /\ s2.at = start
              /\ s2.env = env /\ s2.event = Silent
BY DEF IsRun, Moved

LEMMA EnterBoth ==
    ASSUME NEW f \in Func, OneDefinition(f), NEW g, g.blocks = f.blocks,
           NEW K, Justified(f, g, K), NEW s, NEW t, Beside(g, K, s, t), s.how = "go",
           NEW b, Enter(f, s, b).how \in {"go", "exit"}
    PROVE  Together(g, K, Enter(f, s, b), Enter(g, t, b))
<1> DEFINE Blocked(h, r) == b \notin DOMAIN h.blocks
              \/ \E phi \in PhisOf(h, b) : \A x \in DOMAIN r.env : Arguments(phi, r.block) # {x}
           joined == {phi.dst : phi \in PhisOf(f, b)}
           from(x) == Argument(PhiFor(f, b, x), s.block)
           Env(r) == [x \in DOMAIN r.env \cup joined |-> IF x \in joined THEN r.env[from(x)] ELSE r.env[x]]
           start == f.blocks[b].start + 1
<1>1. /\ IsRun(s) /\ IsRun(t) /\ t.how = s.how /\ t.block = s.block /\ t.at = s.at
      /\ \A r \in Uses(g) \cap DOMAIN s.env : r \in DOMAIN t.env /\ t.env[r] = s.env[r]
      /\ \A r \in DOMAIN s.env : s.env[r] \in Value /\ (r \in DOMAIN K => s.env[r] = K[r])
  BY DEF Beside
<1>2. PhisOf(g, b) = PhisOf(f, b) /\ \A x : PhiFor(g, b, x) = PhiFor(f, b, x)
  BY DEF PhisOf, PhiFor
<1>3. Stop(s, "stuck").how = "stuck"
  BY <1>1, StopFields
<1>4. ~ Blocked(f, s)
  BY <1>3 DEF Enter
<1>5. Enter(f, s, b) = Moved(s, b, start, Env(s))
  BY <1>4 DEF Enter, Moved
<1>6. ASSUME NEW phi \in PhisOf(f, b)
      PROVE  \E r \in DOMAIN s.env : /\ Arguments(phi, s.block) = {r} /\ r \in Uses(g)
                                     /\ Argument(phi, s.block) = r
  <2>1. PICK r \in DOMAIN s.env : Arguments(phi, s.block) = {r}
    BY <1>4
  <2>2. r \in PhiReads(phi)
    BY <2>1 DEF Arguments, PhiReads
  <2>3. phi \in Phis(g)
    BY <1>2, <1>4 DEF PhisOf, Phis
  <2>4. r \in Uses(g)
    BY <2>2, <2>3 DEF Uses
  <2>5. Argument(phi, s.block) = r
    BY <2>1 DEF Argument
  <2> QED
    BY <2>1, <2>4, <2>5
<1>7. ~ Blocked(g, t)
  <2>1. b \in DOMAIN g.blocks
    BY <1>4
  <2>2. ASSUME NEW phi \in PhisOf(g, b) PROVE \E x \in DOMAIN t.env : Arguments(phi, t.block) = {x}
    BY <1>1, <1>2, <1>6
  <2> QED
    BY <2>1, <2>2
<1>8. Enter(g, t, b) = Moved(t, b, start, Env(t))
  BY <1>1, <1>2, <1>7 DEF Enter, Moved
<1>9. \A x \in joined : PhiFor(f, b, x) \in PhisOf(f, b) /\ PhiFor(f, b, x).dst = x
  BY DEF PhiFor
<1>10. \A x \in joined : from(x) \in DOMAIN s.env \cap Uses(g)
  BY <1>6, <1>9
<1>11. \A x \in joined : x \notin DOMAIN K
  <2>1. \A x \in joined : \E phi \in Phis(f) : phi.dst = x
    BY <1>4 DEF PhisOf, Phis
  <2> QED
    BY <2>1, KnownFields
<1> DEFINE es == Env(s)
           et == Env(t)
<1>12. \A x \in Uses(g) \cap DOMAIN es : x \in DOMAIN et /\ et[x] = es[x]
  BY <1>1, <1>10
<1>13. \A x \in DOMAIN es : es[x] \in Value /\ (x \in DOMAIN K => es[x] = K[x])
  BY <1>1, <1>10, <1>11
<1> DEFINE s2 == Moved(s, b, start, es)
           t2 == Moved(t, b, start, et)
<1> HIDE DEF es, et
<1>14. /\ IsRun(s2) /\ s2.how = s.how /\ s2.block = b /\ s2.at = start
       /\ s2.env = es /\ s2.event = Silent
  BY <1>1, MovedFields
<1>15. /\ IsRun(t2) /\ t2.how = t.how /\ t2.block = b /\ t2.at = start
       /\ t2.env = et /\ t2.event = Silent
  BY <1>1, MovedFields
<1> HIDE DEF s2, t2
<1>16. Together(g, K, s2, t2)
  BY <1>1, <1>12, <1>13, <1>14, <1>15 DEF Together, Beside, SameEvent
<1>17. Enter(f, s, b) = s2 /\ Enter(g, t, b) = t2
  BY <1>5, <1>8 DEF s2, t2, es, et
<1> QED
  BY <1>16, <1>17

(* An instruction that is in both functions. *)
LEMMA SameStep ==
    ASSUME NEW f \in Func, OneDefinition(f), NEW g, g.blocks = f.blocks, DOMAIN g.instrs = DOMAIN f.instrs,
           NEW K, Justified(f, g, K), NEW s, NEW t, Beside(g, K, s, t), s.how = "go", NEW answer \in Value,
           s.at \in Body(f, s.block) \cap DOMAIN f.instrs, g.instrs[s.at] = f.instrs[s.at],
           Step(f, s, answer).how \in {"go", "exit"}
    PROVE  Together(g, K, Step(f, s, answer), Step(g, t, answer))
<1> DEFINE ins == f.instrs[s.at]
<1>1. ins \in Instr /\ ins.op \in Ops
  BY FuncFields, InstrFields
<1>2. t.at = s.at /\ t.block = s.block /\ t.how = "go" /\ t.at \in Body(g, t.block) \cap DOMAIN g.instrs
      /\ ins = g.instrs[t.at] /\ IsRun(s) /\ IsRun(t)
  BY DEF Beside, Body
<1> DEFINE s2 == Step(f, s, answer)
           t2 == Step(g, t, answer)
<1>3. /\ ins.op = Removed => s2 = Skip(s)
      /\ ins.op # Removed /\ ~ Reads(ins) \subseteq DOMAIN s.env => s2 = Stop(s, "stuck")
      /\ Reads(ins) \subseteq DOMAIN s.env =>
           /\ ins.op \in Consts \cup Pure /\ Trapping(ins, s.env) => s2 = Stop(s, "trap")
           /\ ins.op \in Consts \cup Pure /\ ~ Trapping(ins, s.env) =>
                 s2 = Assign(s, ins.dst, Result(ins, s.env))
           /\ ins.op \in Opaque =>
                 s2 = [Assign(s, ins.dst, answer) EXCEPT !.event = <<"opaque", ins.op, ins.imm, Operands(ins, s.env)>>]
           /\ ins.op = "print" => s2 = [Skip(s) EXCEPT !.event = <<"print", Operands(ins, s.env)>>]
           /\ ins.op = "call" =>
                 s2 = [Assign(s, ins.dst, answer) EXCEPT !.event = <<"call", ins.fn, Operands(ins, s.env)>>]
           /\ ins.op = "ret" => s2 = [Stop(s, "exit") EXCEPT !.event = <<"ret", Operands(ins, s.env)>>]
           /\ ins.op = "br" => s2 = Enter(f, s, ins.to[1])
           /\ ins.op = "cbr" => s2 = Enter(f, s, IF s.env[ins.use[1]] # 0 THEN ins.to[1] ELSE ins.to[2])
  BY <1>1, StepOf
<1>4. /\ ins.op = Removed => t2 = Skip(t)
      /\ Reads(ins) \subseteq DOMAIN t.env =>
           /\ ins.op \in Consts \cup Pure /\ ~ Trapping(ins, t.env) =>
                 t2 = Assign(t, ins.dst, Result(ins, t.env))
           /\ ins.op \in Opaque =>
                 t2 = [Assign(t, ins.dst, answer) EXCEPT !.event = <<"opaque", ins.op, ins.imm, Operands(ins, t.env)>>]
           /\ ins.op = "print" => t2 = [Skip(t) EXCEPT !.event = <<"print", Operands(ins, t.env)>>]
           /\ ins.op = "call" =>
                 t2 = [Assign(t, ins.dst, answer) EXCEPT !.event = <<"call", ins.fn, Operands(ins, t.env)>>]
           /\ ins.op = "ret" => t2 = [Stop(t, "exit") EXCEPT !.event = <<"ret", Operands(ins, t.env)>>]
           /\ ins.op = "br" => t2 = Enter(g, t, ins.to[1])
           /\ ins.op = "cbr" => t2 = Enter(g, t, IF t.env[ins.use[1]] # 0 THEN ins.to[1] ELSE ins.to[2])
  BY <1>1, <1>2, StepOf
<1>5. Stop(s, "stuck").how = "stuck" /\ Stop(s, "trap").how = "trap"
  BY <1>2, StopFields
<1> HIDE DEF s2, t2
<1>6. CASE ins.op = Removed
  BY <1>3, <1>4, <1>6, BothSkip DEF s2, t2
<1>7. CASE ins.op # Removed
  <2>1. Reads(ins) \subseteq DOMAIN s.env
    BY <1>3, <1>5, <1>7 DEF s2
  <2>2. Reads(ins) \subseteq Uses(g)
    BY <1>2, <1>7, LiveReads
  <2>3. /\ Reads(ins) \subseteq DOMAIN t.env /\ Operands(ins, t.env) = Operands(ins, s.env)
        /\ \A k \in DOMAIN ins.use : t.env[ins.use[k]] = s.env[ins.use[k]]
    BY <1>1, <2>1, <2>2, SameReads
  <2>4. CASE ins.op \in Consts \cup Pure
    <3>1. Result(ins, t.env) = Result(ins, s.env) /\ Trapping(ins, t.env) = Trapping(ins, s.env)
      BY <1>1, <2>1, <2>2, <2>4, SameResult
    <3>2. ~ Trapping(ins, s.env)
      BY <1>3, <1>5, <2>1, <2>4 DEF s2
    <3> DEFINE v == Result(ins, s.env)
    <3>3. v \in Value /\ (ins.dst \in DOMAIN K => v = K[ins.dst])
      BY <2>1, <2>4, ResultKnown, SMTT(30) DEF Beside
    <3>4. s2 = Assign(s, ins.dst, v) /\ t2 = Assign(t, ins.dst, v)
      BY <1>3, <1>4, <2>1, <2>3, <2>4, <3>1, <3>2
    <3> HIDE DEF v
    <3> QED
      BY <3>3, <3>4, BothAssign DEF s2, t2
  <2>5. CASE ins.op \in Opaque \cup {"call"}
    <3> DEFINE e == IF ins.op = "call" THEN <<"call", ins.fn, Operands(ins, s.env)>>
                    ELSE <<"opaque", ins.op, ins.imm, Operands(ins, s.env)>>
               s1 == Assign(s, ins.dst, answer)
               t1 == Assign(t, ins.dst, answer)
    <3>1. ins.dst \notin DOMAIN K
      BY <2>5, KnownBy, OpsApart
    <3>2. Beside(g, K, s1, t1)
      BY <3>1, BothAssign DEF Together
    <3>3. "call" \notin Opaque
      BY OpsApart, SMTT(30)
    <3>4. s2 = [s1 EXCEPT !.event = e] /\ t2 = [t1 EXCEPT !.event = e]
      BY <1>3, <1>4, <2>1, <2>3, <2>5, <3>3
    <3> HIDE DEF s1, t1, e
    <3> QED
      BY <3>2, <3>4, WithEvents DEF s2, t2
  <2>6. CASE ins.op = "print"
    <3> DEFINE e == <<"print", Operands(ins, s.env)>>
               s1 == Skip(s)
               t1 == Skip(t)
    <3>2. Beside(g, K, s1, t1)
      BY BothSkip DEF Together
    <3>4. s2 = [s1 EXCEPT !.event = e] /\ t2 = [t1 EXCEPT !.event = e]
      BY <1>3, <1>4, <2>1, <2>3, <2>6
    <3> HIDE DEF s1, t1, e
    <3> QED
      BY <3>2, <3>4, WithEvents DEF s2, t2
  <2>7. CASE ins.op = "ret"
    <3> DEFINE e == <<"ret", Operands(ins, s.env)>>
               s1 == Stop(s, "exit")
               t1 == Stop(t, "exit")
    <3>2. Beside(g, K, s1, t1)
      BY BothStop
    <3>4. s2 = [s1 EXCEPT !.event = e] /\ t2 = [t1 EXCEPT !.event = e]
      BY <1>3, <1>4, <2>1, <2>3, <2>7
    <3> HIDE DEF s1, t1, e
    <3> QED
      BY <3>2, <3>4, WithEvents DEF s2, t2
  <2>8. CASE ins.op \in {"br", "cbr"}
    <3> DEFINE b == IF ins.op = "cbr" /\ s.env[ins.use[1]] = 0 THEN ins.to[2] ELSE ins.to[1]
    <3>1. ins.op = "cbr" => t.env[ins.use[1]] = s.env[ins.use[1]]
      <4>1. ins.op = "cbr" => ins.use \in Seq(Int) /\ Len(ins.use) = 1
        BY <1>1, InstrFields, SMTT(30)
      <4> QED
        BY <2>3, <4>1
    <3>2. s2 = Enter(f, s, b) /\ t2 = Enter(g, t, b)
      BY <1>3, <1>4, <2>1, <2>3, <2>8, <3>1
    <3> HIDE DEF b
    <3>3. Enter(f, s, b).how \in {"go", "exit"}
      BY <3>2 DEF s2
    <3> QED
      BY <3>2, <3>3, EnterBoth DEF s2, t2
  <2> QED
    BY <1>1, <1>7, <2>4, <2>5, <2>6, <2>7, <2>8, OpsApart DEF Ops, Terminators
<1> QED
  BY <1>6, <1>7

(* An instruction that was rewritten. *)
LEMMA StepTogether ==
    ASSUME NEW f \in Func, OneDefinition(f), NEW g, g.blocks = f.blocks, DOMAIN g.instrs = DOMAIN f.instrs,
           g \in Func, Mirrors(f, g), NEW K, Facts(f, g, K),
           NEW s, NEW t, Beside(g, K, s, t), s.how = "go", NEW answer \in Value,
           Step(f, s, answer).how \in {"go", "exit"}
    PROVE  Together(g, K, Step(f, s, answer), Step(g, t, answer))
<1> DEFINE old == f.instrs[s.at]
           new == g.instrs[s.at]
           s2 == Step(f, s, answer)
           t2 == Step(g, t, answer)
<1>1. /\ t.at = s.at /\ t.block = s.block /\ t.how = "go" /\ IsRun(s) /\ IsRun(t)
      /\ \A r \in Uses(g) \cap DOMAIN s.env : r \in DOMAIN t.env /\ t.env[r] = s.env[r]
      /\ \A r \in DOMAIN s.env : s.env[r] \in Value /\ (r \in DOMAIN K => s.env[r] = K[r])
  BY DEF Beside
<1>2. Stop(s, "stuck").how = "stuck" /\ Stop(s, "trap").how = "trap"
  BY <1>1, StopFields, SMTT(30)
<1>3. s.at \in Body(f, s.block) \cap DOMAIN f.instrs
  BY <1>2 DEF Step
<1>4. t.at \in Body(g, t.block) \cap DOMAIN g.instrs /\ new = g.instrs[t.at]
  BY <1>1, <1>3 DEF Body
<1>5. old \in Instr /\ new \in Instr /\ old.op \in Ops /\ new.op \in Ops
  BY <1>3, FuncFields, InstrFields
<1>6. Mirror(f, g, old, new) /\ Explained(K, old, new) /\ Justified(f, g, K) /\ Grounded(g, K)
  BY <1>3 DEF Mirrors, Facts
<1>7. CASE new = old
  BY <1>3, <1>6, <1>7, SameStep
<1>8. CASE new # old
  <2>1. old.op # Removed /\ old.op \in Consts \cup Pure \cup Opaque \cup {"cbr"}
    BY <1>6, <1>8, OpsApart DEF Mirror
  <2>2. Reads(old) \subseteq DOMAIN s.env
    BY <1>2, <1>3, <1>5, <2>1, StepOf
  <2>3. old.op \in Consts \cup Pure =>
           /\ s2 = Assign(s, old.dst, Result(old, s.env)) /\ Result(old, s.env) \in Value
           /\ old.dst \in DOMAIN K => Result(old, s.env) = K[old.dst]
    <3> SUFFICES ASSUME old.op \in Consts \cup Pure
                 PROVE  /\ s2 = Assign(s, old.dst, Result(old, s.env)) /\ Result(old, s.env) \in Value
                        /\ old.dst \in DOMAIN K => Result(old, s.env) = K[old.dst]
      OBVIOUS
    <3>1. s2 = Assign(s, old.dst, Result(old, s.env))
      BY <1>2, <1>3, <1>5, <2>2, StepOf
    <3> QED
      BY <1>1, <1>3, <1>6, <2>2, <3>1, ResultKnown
  <2>4. CASE old.op \in Valued /\ new.op = Removed /\ new.dst \notin Uses(g)
    <3>1. t2 = Skip(t) /\ new.dst = old.dst
      BY <1>4, <1>5, <1>6, <2>4, StepOf DEF Mirror
    <3>2. CASE old.op \in Consts \cup Pure
      <4> DEFINE v == Result(old, s.env)
      <4>1. s2 = Assign(s, old.dst, v) /\ v \in Value /\ (old.dst \in DOMAIN K => v = K[old.dst])
        BY <2>3, <3>2
      <4> HIDE DEF v, s2, t2
      <4> QED
        BY <2>4, <3>1, <4>1, OneAssigns DEF s2, t2
    <3>3. CASE old.op \in Opaque
      <4> DEFINE x == <<old.op, old.imm, Operands(old, s.env)>>
                 s1 == Assign(s, old.dst, answer)
                 t1 == Skip(t)
      <4>1. old.dst \notin DOMAIN K
        BY <1>3, <1>6, <3>3, KnownBy, OpsApart
      <4>2. Beside(g, K, s1, t1)
        BY <2>4, <3>1, <4>1, OneAssigns DEF Together
      <4>3. t1.event = Silent
        BY <1>1, SkipFields
      <4>4. s2 = [s1 EXCEPT !.event = <<"opaque", x[1], x[2], x[3]>>]
        BY <1>3, <1>5, <2>2, <3>3, StepOf
      <4> HIDE DEF s1, t1, x, s2, t2
      <4>5. Together(g, K, s2, t1)
        BY <4>2, <4>3, <4>4, OneEvent
      <4> QED
        BY <3>1, <4>5 DEF t1, s2, t2
    <3> QED
      BY <2>4, <3>2, <3>3, OpsApart
  <2>5. CASE old.op \in Pure /\ new.op \in Consts /\ new.use = <<>>
    <3>1. new.dst \in DOMAIN K /\ new.imm = K[new.dst] /\ new.dst = old.dst
      BY <1>4, <1>6, <2>5, <1>1 DEF Grounded, Mirror
    <3>2. Reads(new) \subseteq DOMAIN t.env
      BY <2>5 DEF Reads
    <3>3. ~ Trapping(new, t.env)
      BY <2>5 DEF Trapping, Divides, Consts
    <3>4. t2 = Assign(t, old.dst, K[old.dst])
      BY <1>4, <1>5, <2>5, <3>1, <3>2, <3>3, StepOf, ResultOf
    <3> DEFINE v == K[old.dst]
    <3>5. s2 = Assign(s, old.dst, v) /\ v \in Value
      BY <2>3, <2>5, <3>1
    <3> HIDE DEF s2, t2
    <3> QED
      BY <3>4, <3>5, BothAssign DEF s2, t2
  <2>6. CASE old.op \in IntOps /\ \E k \in {1, 2} : new = AsCopy(old, old.use[k])
    <3>1. new.op = "copy"
      BY <1>5, <2>6, AsCopyFields
    <3>2. PICK k \in {1, 2} : new = AsCopy(old, old.use[k]) /\ AlwaysFirst(K, old, k)
      BY <1>6, <2>6, <3>1 DEF Explained
    <3>3. new.dst = old.dst /\ new.use = <<old.use[k]>>
      BY <1>5, <3>2, AsCopyFields
    <3>4. old.op \in Pure /\ old.op \in Two /\ new.op \in Pure /\ new.op # Removed
      BY <2>6, <3>1, OpsApart DEF Two
    <3>5. Len(old.use) = 2 /\ old.use \in Seq(Int)
      BY <1>5, <3>4, InstrFields
    <3> DEFINE r == old.use[k]
               p == <<s.env[old.use[1]], Second(old, s.env)>>
               v == s.env[r]
    <3>6. r \in Reads(old) /\ r \in Reads(new) /\ Reads(new) = {r}
      BY <3>3, <3>5 DEF Reads
    <3>7. r \in DOMAIN s.env /\ r \in Uses(g)
      BY <1>4, <2>2, <3>4, <3>6, LiveReads
    <3>8. t.env[r] = v /\ r \in DOMAIN t.env /\ v \in Value
      BY <1>1, <3>7
    <3>9. p \in Agreeing(K, old) /\ Second(old, s.env) = s.env[old.use[2]]
      BY <1>1, <1>5, <2>2, <3>4, Finds, ZenonT(30)
    <3>10. p[k] = v
      BY <3>9
    <3>11. Result(old, s.env) = Apply(old.op, p[1], p[2])
      BY <3>4, ResultOf
    <3>12. Result(old, s.env) = v
      BY <3>2, <3>9, <3>10, <3>11 DEF AlwaysFirst
    <3>13. Result(new, t.env) = v
      <4>1. new.use[1] = r /\ Len(new.use) = 1
        BY <3>3
      <4>2. Second(new, t.env) = 0
        BY <4>1 DEF Second
      <4>3. Apply("copy", v, 0) = v
        BY <3>8, ApplyAssumption
      <4> QED
        BY <3>1, <3>4, <3>8, <4>1, <4>2, <4>3, ResultOf
    <3>14. ~ Trapping(new, t.env)
      BY <3>1 DEF Trapping, Divides
    <3>15. t2 = Assign(t, old.dst, v)
      <4>1. Reads(new) \subseteq DOMAIN t.env
        BY <3>6, <3>8
      <4>2. t2 = Assign(t, new.dst, Result(new, t.env))
        BY <1>4, <1>5, <3>4, <3>14, <4>1, StepOf
      <4> QED
        BY <3>3, <3>13, <4>2
    <3>16. s2 = Assign(s, old.dst, v) /\ (old.dst \in DOMAIN K => v = K[old.dst])
      BY <2>3, <3>4, <3>12
    <3> HIDE DEF v, r, s2, t2
    <3> QED
      BY <3>8, <3>15, <3>16, BothAssign DEF s2, t2
  <2>7. CASE old.op = "cbr" /\ \E k \in {1, 2} : new = Br(old.to[k])
    <3> DEFINE b == IF s.env[old.use[1]] # 0 THEN old.to[1] ELSE old.to[2]
    <3>1. new.op = "br"
      BY <2>7, BrFields
    <3>2. old.use[1] \in DOMAIN K /\ new = Br(IF K[old.use[1]] # 0 THEN old.to[1] ELSE old.to[2])
      BY <1>6, <2>7, <3>1 DEF Explained
    <3>3. old.use[1] \in Reads(old)
      <4>1. Len(old.use) = 1 /\ old.use \in Seq(Int)
        BY <1>5, <2>7, InstrFields
      <4> QED
        BY <4>1 DEF Reads
    <3>4. s.env[old.use[1]] = K[old.use[1]]
      BY <1>1, <2>2, <3>2, <3>3
    <3>5. new = Br(b)
      BY <3>2, <3>4, SMTT(30)
    <3>6. new.use = <<>> /\ new.to[1] = b
      BY <3>5, BrFields
    <3>7. Reads(new) \subseteq DOMAIN t.env
      BY <3>6 DEF Reads
    <3>8. t2 = Enter(g, t, b)
      BY <1>4, <1>5, <3>1, <3>6, <3>7, StepOf
    <3>9. s2 = Enter(f, s, b)
      BY <1>3, <1>5, <2>2, <2>7, StepOf
    <3> HIDE DEF b
    <3>10. Enter(f, s, b).how \in {"go", "exit"}
      BY <3>9
    <3> HIDE DEF s2, t2
    <3> QED
      BY <1>6, <3>8, <3>9, <3>10, EnterBoth DEF s2, t2
  <2> QED
    BY <1>6, <1>8, <2>4, <2>5, <2>6, <2>7 DEF Mirror
<1> QED
  BY <1>7, <1>8
-----------------------------------------------------------------------------
(* The runs *)

LEMMA BeginTogether ==
    ASSUME NEW f \in Func, OneDefinition(f), NEW g, g.blocks = f.blocks, NEW K, Justified(f, g, K),
           NEW args \in [0 .. (f.params - 1) -> Value]
    PROVE  Together(g, K, Begin(f, args), Begin(g, args))
<1>1. \A r \in DOMAIN args : args[r] \in Value /\ r \notin DOMAIN K
  BY KnownFields
<1> QED
  BY <1>1 DEF Together, Beside, IsRun, SameEvent, Begin

(* The functions do not change while they run. *)
LEMMA LockRefines == LockSpec => Spec
<1>1. LockInit => Init
  BY DEF LockInit
<1>2. [LockNext]_LockVars => [Next]_vars
  BY DEF LockNext, LockVars, Compile, Optimise, Invoke, Advance, Next
<1> QED
  BY <1>1, <1>2, PTL DEF LockSpec, Spec

InStep ==
    running # 0 =>
        /\ pc = "done" /\ running \in DOMAIN funcs
        /\ OneDefinition(given[running]) /\ source.how \in {"go", "exit"} =>
              \E K : /\ Facts(given[running], funcs[running], K)
                     /\ Together(funcs[running], K, source, target)

LEMMA InvokeInStep ==
    ASSUME TypeOK, EffectsKept, Simulated, Invoke PROVE InStep'
<1>1. PICK k \in DOMAIN funcs : \E args \in [0 .. (given[k].params - 1) -> Answers] :
         /\ source' = Begin(given[k], args) /\ target' = Begin(funcs[k], args)
         /\ running' = k /\ UNCHANGED vars /\ pc = "done"
  BY DEF Invoke
<1>2. PICK args \in [0 .. (given[k].params - 1) -> Answers] :
         source' = Begin(given[k], args) /\ target' = Begin(funcs[k], args)
  BY <1>1
<1>3. given[k] \in Func /\ funcs[k].blocks = given[k].blocks
  BY DEF TypeOK, EffectsKept, Kept, Module
<1>a. args \in [0 .. (given[k].params - 1) -> Value]
  BY AnswersAssumption
<1>4. OneDefinition(given[k]) =>
         \E K : Facts(given[k], funcs[k], K) /\ Together(funcs[k], K, source', target')
  BY <1>2, <1>3, <1>a, BeginTogether DEF Simulated, Facts
<1> QED
  BY <1>1, <1>4 DEF InStep, vars

LEMMA AdvanceInStep ==
    ASSUME TypeOK, EffectsKept, Simulated, InStep, Advance PROVE InStep'
<1> DEFINE k == running
           f == given[k]
           g == funcs[k]
<1>1. /\ running # 0 /\ source.how = "go" /\ UNCHANGED <<vars, running>>
      /\ k \in DOMAIN funcs /\ pc = "done"
  BY DEF Advance, InStep
<1>2. PICK answer \in Answers : source' = Step(f, source, answer) /\ target' = Step(g, target, answer)
  BY DEF Advance
<1>a. answer \in Value
  BY AnswersAssumption
<1>3. /\ f \in Func /\ g \in Func /\ g.blocks = f.blocks /\ DOMAIN g.instrs = DOMAIN f.instrs
      /\ OneDefinition(f) => Mirrors(f, g)
  BY <1>1 DEF TypeOK, EffectsKept, Kept, Module, Simulated
<1>4. OneDefinition(f) /\ source'.how \in {"go", "exit"} =>
         \E K : Facts(f, g, K) /\ Together(g, K, source', target')
  <2> SUFFICES ASSUME OneDefinition(f), source'.how \in {"go", "exit"}
               PROVE  \E K : Facts(f, g, K) /\ Together(g, K, source', target')
    OBVIOUS
  <2>1. PICK K : Facts(f, g, K) /\ Together(g, K, source, target)
    BY <1>1 DEF InStep
  <2> HIDE DEF f, g
  <2>2. Together(g, K, source', target')
    BY <1>1, <1>2, <1>3, <1>a, <2>1, StepTogether DEF Together
  <2> QED
    BY <2>1, <2>2
<1> QED
  BY <1>1, <1>4 DEF InStep, vars

(* The pipeline has ended before a function is run. *)
LEMMA CompilingInStep ==
    ASSUME InStep, Compile \/ Optimise PROVE InStep'
<1>1. pc # "done" /\ UNCHANGED runs
  BY DEF Compile, Optimise, Run, Rewrite, Trap, EndOfPass, Eliminate
<1> QED
  BY <1>1 DEF InStep, runs

(* The optimised function does what the one it was made from does, for     *)
(* every module, every machine word and every answer of what it calls.     *)
THEOREM RunsAgree == LockSpec => []SameRun
<1>1. LockInit => InStep
  BY DEF LockInit, InStep
<1>2. TypeOK /\ EffectsKept /\ Simulated /\ InStep /\ [LockNext]_LockVars => InStep'
  <2> SUFFICES ASSUME TypeOK, EffectsKept, Simulated, InStep, [LockNext]_LockVars PROVE InStep'
    OBVIOUS
  <2>1. CASE UNCHANGED LockVars
    BY <2>1 DEF LockVars, vars, runs, InStep
  <2>2. CASE Compile \/ Optimise
    BY <2>2, CompilingInStep
  <2>3. CASE Invoke
    BY <2>3, InvokeInStep
  <2>4. CASE Advance
    BY <2>4, AdvanceInStep
  <2> QED
    BY <2>1, <2>2, <2>3, <2>4 DEF LockNext
<1>3. InStep => SameRun
  BY DEF InStep, SameRun, Together, Beside
<1> QED
  BY <1>1, <1>2, <1>3, LockRefines, Typing, EffectsStay, Simulation, PTL DEF LockSpec
==================================================================================
