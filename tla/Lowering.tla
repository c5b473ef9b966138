-------------------------------- MODULE Lowering --------------------------------
(***************************************************************************)
(* The pass that turns a checked program into the intermediate             *)
(* representation (src/src/ir_lower.c).  A program is a sequence of        *)
(* statements; an expression or a statement is a record whose field k is   *)
(* its AST kind.  `flat` says that the payload of an option or a result    *)
(* has a type the representation can carry (ir_optres_payload_ok).         *)
(* A lowering context c is threaded through every operator, and an         *)
(* operator that lowers an expression returns [c, r]: the context and the  *)
(* register that holds the value, NoReg when there is none.                *)
(***************************************************************************)
EXTENDS IR

CONSTANTS MaxVars, MaxLoops, MaxStreamGens

LOCAL INSTANCE SequencesExt

None == [k |-> "none_branch"]

F(c) == c.mod[c.at]
With(c, f) == [c EXCEPT !.mod[c.at] = f]
Fresh(c) == With(c, AddReg(F(c)))
NewBlock(c) == With(c, AddBlock(F(c)))
NBlocks(c) == Len(F(c).blocks)
Put(c, b, ins) == With(c, Emit(F(c), b, ins))
Here(c, ins) == Put(c, c.cur, ins)
Goto(c, b) == [c EXCEPT !.cur = b]
Fail(c) == [c EXCEPT !.ok = FALSE]

(* A new register defined by an instruction of block b. *)
Define(c, b, op, use, imm) ==
    LET r == F(c).next
    IN [c |-> Put(Fresh(c), b, [Ins(op, r, use) EXCEPT !.imm = imm]), r |-> r]
Val(c, op, use, imm) == Define(c, c.cur, op, use, imm)

(* find_var: the latest entry of a name, 0 when there is none. *)
FindVar(c, x) == SelectLastInSubSeq(c.vars, 1, Len(c.vars), LAMBDA v : v.x = x)

(* set_var rebinds the entry find_var returns, of whatever scope. *)
SetVar(c, x, r) ==
    LET i == FindVar(c, x)
    IN IF i # 0 THEN [c EXCEPT !.vars[i].reg = r]
       ELSE IF Len(c.vars) >= MaxVars THEN Fail(c)
       ELSE [c EXCEPT !.vars = Append(@, [x |-> x, reg |-> r, lvl |-> c.lvl])]

EnterScope(c) == [c EXCEPT !.lvl = @ + 1]
ExitScope(c) ==
    LET keep == SelectLastInSubSeq(c.vars, 1, Len(c.vars), LAMBDA v : v.lvl # c.lvl)
    IN [c EXCEPT !.vars = SubSeq(@, 1, keep), !.lvl = @ - 1]

IsStream(c, x) == \E i \in DOMAIN c.gens : c.gens[i].x = x

RECURSIVE LowerExpr(_, _), LowerAll(_, _), LowerArms(_, _, _, _, _, _)
RECURSIVE LowerStmt(_, _), LowerStmts(_, _)

(* The operands of a call or an aggregate, left to right. *)
LowerAll(c, es) ==
    IF es = <<>> THEN [c |-> c, rs |-> <<>>]
    ELSE LET first == LowerExpr(c, Head(es))
             rest == LowerAll(first.c, Tail(es))
         IN [c |-> rest.c, rs |-> <<first.r>> \o rest.rs]

Aggregate(c, op, es) ==
    LET a == LowerAll(c, es) IN Val(a.c, op, a.rs, 0)

(* Literals; `none` and `none()` are a pair of zeros, and the literal      *)
(* takes its register before them.                                         *)
LowerLiteral(c, e) ==
    IF e.k = "none"
    THEN LET r == F(c).next
             z0 == Val(Fresh(c), "const_int", <<>>, 0)
             z1 == Val(z0.c, "const_int", <<>>, 0)
         IN [c |-> Here(z1.c, Ins("struct_init", r, <<z0.r, z1.r>>)), r |-> r]
    ELSE Val(c, IF e.k = "bool" THEN "const_bool" ELSE "const_int", <<>>, e.v)

LowerIdentifier(c, e) ==
    LET i == FindVar(c, e.x) IN [c |-> c, r |-> IF i = 0 THEN NoReg ELSE c.vars[i].reg]

(* `l ?? r`: both sides are lowered before the flag is tested.  then, else  *)
(* and merge follow one another, and the first two hold only a branch.     *)
Choose(c, then, a, b) ==
    LET merge == then + 2
        c1 == Put(Put(c, then, Br(merge)), then + 1, Br(merge))
    IN [c |-> With(Goto(c1, merge),
                   EmitPhi(AddReg(F(c1)), merge, F(c).next, << <<a, then>>, <<b, then + 1>> >>)),
        r |-> F(c).next]

ChooseBy(c, flag, zero, a, b) ==
    LET cond == Val(c, "cmp_ne", <<flag, zero>>, 0)
        then == NBlocks(c) + 1
    IN Choose(Here(NewBlock(NewBlock(NewBlock(cond.c))), Cbr(cond.r, then, then + 1)), then, a, b)

LowerFallback(c, e) ==
    IF ~ e.flat THEN [c |-> Fail(c), r |-> NoReg]
    ELSE LET l == LowerExpr(c, e.l)
             r == LowerExpr(l.c, e.r)
             flag == Val(r.c, "field_ptr", <<l.r>>, IF e.ty = "result" THEN 2 ELSE 1)
             val == Val(flag.c, "field_ptr", <<l.r>>, 0)
             zero == Val(val.c, "const_int", <<>>, 0)
         IN ChooseBy(zero.c, flag.r, zero.r, val.r, r.r)

(* Both operands are evaluated, for && and || too. *)
LowerBinary(c, e) ==
    LET l == LowerExpr(c, e.l)
        r == LowerExpr(l.c, e.r)
    IN Val(r.c, e.op, <<l.r, r.r>>, 0)

(* `e?` reads the payload; neg and not take one operand. *)
LowerUnary(c, e) ==
    IF e.op = "try" /\ ~ e.flat THEN [c |-> Fail(c), r |-> NoReg]
    ELSE LET a == LowerExpr(c, e.e)
         IN Val(a.c, IF e.op = "try" THEN "field_ptr" ELSE e.op, <<a.r>>, 0)

(* `c ? t`: the false edge goes to the merge block and there is no phi. *)
LowerOneArm(c, e) ==
    LET cond == LowerExpr(c, e.c)
        then == NBlocks(cond.c) + 1
        merge == then + 1
        c1 == Here(NewBlock(NewBlock(cond.c)), Cbr(cond.r, then, merge))
        body == LowerExpr(Goto(c1, then), e.t)
    IN [c |-> Goto(Here(body.c, Br(merge)), merge), r |-> NoReg]

(* `c ? t : e`: the phi names the blocks the two arms end in. *)
JoinAtStarts(c, merge, t, f) ==
    LET dst == F(c).next
    IN [c |-> With(Goto(c, merge), EmitPhi(AddReg(F(c)), merge, dst,
                                           << <<t.r, merge - 1>>, <<f.r, merge + 1>> >>)),
        r |-> dst]
Join(c, merge, t, f) ==
    LET dst == F(c).next
    IN [c |-> With(Goto(c, merge), EmitPhi(AddReg(F(c)), merge, dst,
                                           << <<t.r, t.c.cur>>, <<f.r, f.c.cur>> >>)),
        r |-> dst]

ElseArm(t, e, merge) ==
    LET f == LowerExpr(Goto(Here(t.c, Br(merge)), merge + 1), e)
    IN Join(Here(f.c, Br(merge)), merge, t, f)

LowerTwoArm(c, e) ==
    LET cond == LowerExpr(c, e.c)
        then == NBlocks(cond.c) + 1
        c1 == Here(NewBlock(NewBlock(NewBlock(cond.c))), Cbr(cond.r, then, then + 2))
    IN ElseArm(LowerExpr(Goto(c1, then), e.t), e.e, then + 1)

(* some, ok and err are pairs or triples of the payload and constants. *)
LowerSome(c, e) ==
    LET a == LowerExpr(c, e.args[1])
        one == Val(a.c, "const_int", <<>>, 1)
    IN Val(one.c, "struct_init", <<a.r, one.r>>, 0)

LowerNone(c) ==
    LET z0 == Val(c, "const_int", <<>>, 0)
        z1 == Val(z0.c, "const_int", <<>>, 0)
    IN Val(z1.c, "struct_init", <<z0.r, z1.r>>, 0)

LowerOk(c, e) ==
    LET a == LowerExpr(c, e.args[1])
        z == Val(a.c, "const_int", <<>>, 0)
        one == Val(z.c, "const_int", <<>>, 1)
    IN Val(one.c, "struct_init", <<a.r, z.r, one.r>>, 0)

LowerErr(c, e) ==
    LET a == LowerExpr(c, e.args[1])
        z0 == Val(a.c, "const_int", <<>>, 0)
        z1 == Val(z0.c, "const_int", <<>>, 0)
    IN Val(z1.c, "struct_init", <<z0.r, a.r, z1.r>>, 0)

(* A call always gets a register: no semantic type maps to IR_VOID. *)
Invoke(c, fn, args) ==
    LET a == LowerAll(c, args)
        r == F(a.c).next
    IN [c |-> Here(Fresh(a.c), Call(r, fn, a.rs)), r |-> r]

(* gen(args)[n]: an index of a call is flattened into one call when the    *)
(* callee is a stream generator and is unsupported otherwise.              *)
LowerIndexedCall(c, e) ==
    IF IsStream(c, e.fn) THEN Invoke(c, e.fn, e.args \o e.index)
    ELSE [c |-> Fail(c), r |-> NoReg]

LowerCall(c, e) ==
    IF e.fn \in {"some", "none", "ok", "err"} /\ ~ e.flat THEN [c |-> Fail(c), r |-> NoReg]
    ELSE CASE e.fn = "print" ->
                LET a == LowerExpr(c, e.args[1])
                IN [c |-> Here(a.c, Ins("print", NoReg, <<a.r>>)), r |-> NoReg]
           [] e.fn = "len" -> LET a == LowerExpr(c, e.args[1]) IN Val(a.c, "len", <<a.r>>, 0)
           [] e.fn = "some" -> LowerSome(c, e)
           [] e.fn = "none" -> LowerNone(c)
           [] e.fn = "ok" -> LowerOk(c, e)
           [] e.fn = "err" -> LowerErr(c, e)
           [] OTHER -> Invoke(c, e.fn, e.args)

(* A variant of an enum is its number; a field of a struct its position. *)
LowerField(c, e) ==
    IF e.k = "variant" THEN Val(c, "const_int", <<>>, e.v)
    ELSE LET a == LowerExpr(c, e.e) IN Val(a.c, "field_ptr", <<a.r>>, e.i)

Scoped(last) == [c |-> ExitScope(last.c), r |-> last.r]
BlockEnd(c, e) == Scoped(IF e.final = None THEN [c |-> c, r |-> NoReg] ELSE LowerExpr(c, e.final))
LowerBlock(c, e) == BlockEnd(LowerStmts(EnterScope(c), e.stmts), e)

(* The test of one arm: it ends the current block, and a constructor's     *)
(* payload is read at the start of the arm's block.                        *)
CompareTo(c, a, b, body, next) ==
    LET cond == Val(c, "cmp_eq", <<a, b>>, 0) IN Here(cond.c, Cbr(cond.r, body, next))

Compare(lit, a, body, next) == CompareTo(lit.c, a, lit.r, body, next)

TestFlag(flag, expected, body, next) ==
    Compare(Val(flag.c, "const_int", <<>>, expected), flag.r, body, next)

BindPayload(payload, x) == SetVar(payload.c, x, payload.r)

Index(ctor) == CASE ctor \in {"some", "none"} -> 1 [] OTHER -> 2
ExpectedSet(ctor) == 1
Expected(ctor) == IF ctor \in {"some", "ok"} THEN 1 ELSE 0

TestArm(c, pat, target, body, next) ==
    CASE pat.p = "any" -> Here(c, Br(body))
      [] pat.p = "bind" -> Here(SetVar(c, pat.x, target), Br(body))
      [] pat.p \in {"lit", "variant"} -> Compare(Val(c, "const_int", <<>>, pat.v), target, body, next)
      [] OTHER -> TestFlag(Val(c, "field_ptr", <<target>>, Index(pat.p)), Expected(pat.p), body, next)

Payload(c, pat, target, body) ==
    IF pat.p \in {"some", "ok", "err"} /\ pat.sub.p = "bind"
    THEN BindPayload(Define(c, body, "field_ptr", <<target>>, IF pat.p = "err" THEN 1 ELSE 0), pat.sub.x)
    ELSE c

(* The arms from the i-th on; phis collects the arms that have a value. *)
EndArm(val, merge) == [c |-> ExitScope(Here(val.c, Br(merge))), r |-> val.r, from |-> val.c.cur]

LowerArm(c, arm, target, body, next, merge) ==
    LET c1 == Payload(TestArm(EnterScope(c), arm.pat, target, body, next), arm.pat, target, body)
    IN EndArm(LowerExpr(Goto(c1, body), arm.body), merge)

AfterArm(a, arms, i, target, next, merge, phis) ==
    LowerArms(Goto(a.c, next), arms, i + 1, target, merge,
              IF a.r = NoReg THEN phis ELSE Append(phis, <<a.r, a.from>>))

LowerArms(c, arms, i, target, merge, phis) ==
    IF i > Len(arms) THEN [c |-> Goto(c, merge), phis |-> phis]
    ELSE LET last == i = Len(arms)
             c0 == IF last THEN NewBlock(c) ELSE NewBlock(NewBlock(c))
             next == IF last THEN merge ELSE NBlocks(c) + 1
         IN AfterArm(LowerArm(c0, arms[i], target, NBlocks(c0), next, merge),
                     arms, i, target, next, merge, phis)

MatchValue(arms, merge) ==
    LET f == F(arms.c)
    IN IF arms.phis = <<>> THEN [c |-> arms.c, r |-> NoReg]
       ELSE [c |-> With(arms.c, EmitPhi(AddReg(f), merge, f.next, arms.phis)), r |-> f.next]

MatchOn(target, arms) ==
    LET merge == NBlocks(target.c) + 1
    IN IF arms = <<>> THEN [c |-> target.c, r |-> NoReg]
       ELSE MatchValue(LowerArms(NewBlock(target.c), arms, 1, target.r, merge, <<>>), merge)

LowerMatch(c, e) == MatchOn(LowerExpr(c, e.e), e.arms)

LowerExpr(c, e) ==
    CASE e.k \in {"int", "bool", "none"} -> LowerLiteral(c, e)
      [] e.k = "id" -> LowerIdentifier(c, e)
      [] e.k = "fallback" -> LowerFallback(c, e)
      [] e.k = "binary" -> LowerBinary(c, e)
      [] e.k = "unary" -> LowerUnary(c, e)
      [] e.k = "cond" -> IF e.e = None THEN LowerOneArm(c, e) ELSE LowerTwoArm(c, e)
      [] e.k = "call" -> LowerCall(c, e)
      [] e.k = "indexed_call" -> LowerIndexedCall(c, e)
      [] e.k = "array" -> Aggregate(c, "array_init", e.es)
      [] e.k = "record" -> Aggregate(c, "struct_init", e.es)
      [] e.k \in {"field", "variant"} -> LowerField(c, e)
      [] e.k = "block" -> LowerBlock(c, e)
      [] e.k = "match" -> LowerMatch(c, e)
      [] OTHER -> [c |-> Fail(c), r |-> NoReg]

(* A range loop: the blocks header, body, inc and exit are added together. *)
(* The header's phi names as its way in the block before the header, and   *)
(* its value on the back edge is filled in when inc has been lowered.      *)
Entry(c, header) == header - 1

LoopPhi(c, header, i, from, entry, next) ==
    With(c, EmitPhi(F(c), header, i, << <<from, entry>>, <<next, header + 2>> >>))

LoopInc(c, header, i, from, entry) ==
    LET next == F(c).next
        inc == header + 2
        one == Define(Fresh(c), inc, "const_int", <<>>, 1)
        c1 == Put(Put(one.c, inc, Ins("add", next, <<i, one.r>>)), inc, Br(header))
    IN LoopPhi(c1, header, i, from, entry, next)

PushLoop(c, inc, exit) ==
    IF Len(c.loops) >= MaxLoops THEN Fail(c)
    ELSE [c EXCEPT !.loops = Append(@, [inc |-> inc, exit |-> exit])]

PopLoop(c) == [c EXCEPT !.loops = SubSeq(@, 1, Len(@) - 1)]

LoopBody(c, s, header, from, to, entry) ==
    LET i == F(c).next
        cond == Define(SetVar(EnterScope(Fresh(c)), s.x, i), header, "cmp_lt", <<i, to>>, 0)
        c1 == Put(cond.c, header, Cbr(cond.r, header + 1, header + 3))
        c2 == LowerStmts(Goto(PushLoop(c1, header + 2, header + 3), header + 1), s.body)
    IN LoopInc(Here(c2, Br(header + 2)), header, i, from, entry)

LoopFrom(s, from, to) ==
    LET header == NBlocks(to.c) + 1
        c1 == Here(NewBlock(NewBlock(NewBlock(NewBlock(to.c)))), Br(header))
        done == LoopBody(Goto(c1, header), s, header, from.r, to.r, Entry(to.c, header))
    IN Goto(ExitScope(PopLoop(done)), header + 3)

LoopRange(s, from) == LoopFrom(s, from, LowerExpr(from.c, s.to))
LowerLoop(c, s) == LoopRange(s, LowerExpr(c, s.from))

(* break and skip leave the block; what follows them is lowered into a     *)
(* fresh block that nothing branches to.                                   *)
Leave(c, b) ==
    LET c1 == NewBlock(Here(c, Br(b))) IN Goto(c1, NBlocks(c1))

(* A function starts a new record of the module and comes back to the one  *)
(* it was met in; the variables of that one stay visible.                  *)
Params(c, xs) ==
    FoldLeft(LAMBDA cc, x : SetVar(Fresh(cc), x, F(cc).next), c, xs)

OpenFunc(c, name, params) ==
    LET c1 == [c EXCEPT !.mod = Append(@, AddBlock(NewFunc(name, params))), !.at = Len(c.mod) + 1]
    IN EnterScope(Goto(c1, 1))

FunctionRet(s, ret) ==
    IF s.body.k = "block" \/ ret.r # NoReg THEN Here(ret.c, Ins("ret", NoReg, <<ret.r>>))
    ELSE ret.c

FunctionEnd(c, s, final) == IF final = None THEN c ELSE FunctionRet(s, LowerExpr(c, final))

BackTo(c, end) == [ExitScope(end) EXCEPT !.at = c.at, !.cur = c.cur]

FunctionBody(c, s) ==
    IF s.body.k = "block" THEN FunctionEnd(LowerStmts(c, s.body.stmts), s, s.body.final)
    ELSE FunctionEnd(c, s, s.body)

LowerFunction(c, s) ==
    BackTo(c, FunctionBody(Params(OpenFunc(c, s.x, Len(s.params)), s.params), s))

(* A while loop lowers to nothing. *)
LowerStmt(c, s) ==
    CASE s.k \in {"binding", "assign"} ->
           LET val == LowerExpr(c, s.e) IN SetVar(val.c, s.x, val.r)
      [] s.k = "loop" -> LowerLoop(c, s)
      [] s.k = "while" -> c
      [] s.k \in {"break", "skip"} ->
           IF c.loops = <<>> THEN c
           ELSE LET loop == c.loops[Len(c.loops)]
                IN Leave(c, IF s.k = "break" THEN loop.exit ELSE loop.inc)
      [] s.k = "function" -> LowerFunction(c, s)
      [] s.k = "enum" -> c
      [] OTHER -> LowerExpr(c, s).c

(* A program that cannot be lowered is given up, so the rest of it counts  *)
(* for nothing.                                                            *)
LowerStmts(c, ss) ==
    IF ss = <<>> \/ ~ c.ok THEN c ELSE LowerStmts(LowerStmt(c, Head(ss)), Tail(ss))

(* A stream generator becomes a function of its parameters and an index n  *)
(* (lower_stream_gen).  It answers 0 below 0 and the seeds at the first    *)
(* indices, and otherwise runs a loop of header, body, inc and exit whose  *)
(* header holds the index and the window as phis.                          *)
Binder(s, i, default) == IF Len(s.binders) >= i THEN s.binders[i] ELSE default

(* If a test of block b holds, the function returns a value from a block   *)
(* of its own; b goes on in the block after that one.                      *)
Guard(c, b, cond) ==
    LET yes == NBlocks(c) + 1
    IN Put(NewBlock(NewBlock(c)), b, Cbr(cond, yes, yes + 1))

Return(c, b, r) == Put(c, b, Ins("ret", NoReg, <<r>>))

(* The header goes on while i <= n; body, inc and exit are added after it. *)
GenHeader(c, header, i, n) ==
    LET c1 == Goto(NewBlock(NewBlock(NewBlock(c))), header)
        le == Define(c1, header, "cmp_le", <<i, n>>, 0)
    IN Put(le.c, header, Cbr(le.r, header + 1, header + 3))

(* inc: the copies of the next window, the next index, back to the header; *)
(* exit returns the last value; then the phis of the header.               *)
WithPhi(c, header, dst, r, from, back) ==
    With(c, EmitPhi(F(c), header, dst, << <<r, from>>, <<back, header + 2>> >>))

GenPhis(c, header, i, start, from, window, init, next) ==
    FoldLeft(LAMBDA cc, k : WithPhi(cc, header, i + k, init[k], from, next + k - 1 - Len(window)),
             WithPhi(c, header, i, start, from, next), [k \in DOMAIN window |-> k])

GenInc(c, header, i, start, from, one, window, init) ==
    LET copies == FoldLeft(LAMBDA cc, w : Define(cc, header + 2, "copy", <<w>>, 0).c, c, window)
        next == Define(copies, header + 2, "add", <<i, one>>, 0)
        c1 == Return(Put(next.c, header + 2, Br(header)), header + 3, i + 1)
    IN GenPhis(c1, header, i, start, from, window, init, next.r)

(* One seed: x is the seed, and each turn of the loop its successor. *)
OneStep(step, header, i, seed, one, guard) ==
    GenInc(Put(step.c, header + 1, Br(header + 2)), header, i, one, guard, one, <<step.r>>, <<seed>>)

OneLoop(c, s, n, header, seed, one, guard) ==
    LET i == F(c).next
        c1 == SetVar(SetVar(Fresh(Fresh(c)), Binder(s, 1, "x"), i + 1), "i", i)
        c2 == Goto(GenHeader(c1, header, i, n), header + 1)
    IN OneStep(LowerExpr(c2, s.step), header, i, seed, one, guard)

OneGuard(seed, s, n, zero, guard, one) ==
    LET eq == Define(seed.c, guard, "cmp_eq", <<n, zero>>, 0)
        ret == NBlocks(eq.c) + 1
    IN OneLoop(Return(Guard(eq.c, guard, eq.r), ret, seed.r), s, n, ret + 1, seed.r, one, guard)

GenOne(c, s, n, zero, one) == OneGuard(LowerExpr(c, s.seeds[1]), s, n, zero, c.cur, one)

(* Two seeds: a is the last value and b the one before it. *)
SeedReturn(val, ret) == Goto(Return(val.c, ret, val.r), ret + 1)

SeedGuard(c, n, index, seed) ==
    LET eq == Define(c, c.cur, "cmp_eq", <<n, index>>, 0)
        ret == NBlocks(eq.c) + 1
    IN SeedReturn(LowerExpr(Goto(Guard(eq.c, c.cur, eq.r), ret), seed), ret)

TwoStep(t, header, i, start, one, def, init) ==
    LET bn == Define(t.c, header + 1, "copy", <<i + 1>>, 0)
        an == Define(bn.c, header + 1, "copy", <<t.r>>, 0)
    IN GenInc(Put(an.c, header + 1, Br(header + 2)), header, i, start, def, one, <<an.r, bn.r>>, init)

TwoLoop(c, s, n, header, start, one, def, init) ==
    LET i == F(c).next
        c1 == SetVar(Fresh(Fresh(Fresh(c))), Binder(s, 1, "a"), i + 1)
        c2 == SetVar(SetVar(c1, Binder(s, 2, "b"), i + 2), "i", i)
        c3 == Goto(GenHeader(c2, header, i, n), header + 1)
    IN TwoStep(LowerExpr(c3, s.step), header, i, start, one, def, init)

Window(ab, s, n, one, def) ==
    LET two == Define(ab.c, def, "const_int", <<>>, 2)
        header == NBlocks(two.c) + 1
    IN TwoLoop(Put(NewBlock(two.c), def, Br(header)), s, n, header, two.r, one, def, ab.rs)

GenTwo(c, s, n, zero, one) ==
    LET c1 == SeedGuard(SeedGuard(c, n, zero, s.seeds[1]), n, one, s.seeds[2])
    IN Window(LowerAll(c1, <<s.seeds[2], s.seeds[1]>>), s, n, one, c1.cur)

GenBody(c, s, n, zero) ==
    LET one == Define(c, 3, "const_int", <<>>, 1)
    IN IF Len(s.seeds) = 1 THEN GenOne(Goto(one.c, 3), s, n, zero, one.r)
       ELSE GenTwo(Goto(one.c, 3), s, n, zero, one.r)

GenGuard(c, s, n) ==
    LET zero == Define(Fresh(c), 1, "const_int", <<>>, 0)
        neg == Define(zero.c, 1, "cmp_lt", <<n, zero.r>>, 0)
    IN GenBody(Return(Guard(neg.c, 1, neg.r), 2, zero.r), s, n, zero.r)

LowerStreamGen(c, s) ==
    LET c1 == Params(OpenFunc(c, s.x, Len(s.params) + 1), s.params)
    IN IF ~ c.ok \/ s.seeds = <<>> THEN Fail(c) ELSE [ExitScope(GenGuard(c1, s, F(c1).next)) EXCEPT !.at = 1]

(* ir_lower: the functions, then the other statements into main, which     *)
(* returns 0, then the stream generators.  The module is usable when ok.   *)
NewModule(gens) ==
    LET n == IF Len(gens) < MaxStreamGens THEN Len(gens) ELSE MaxStreamGens
    IN [mod |-> <<AddBlock(NewFunc("main", 0))>>, at |-> 1, cur |-> 1, vars |-> <<>>, lvl |-> 0,
        loops |-> <<>>, gens |-> SubSeq(gens, 1, n), ok |-> Len(gens) < MaxStreamGens]

EndMain(c) ==
    LET zero == Val(c, "const_int", <<>>, 0) IN Here(zero.c, Ins("ret", NoReg, <<zero.r>>))

Lowered(c) == [funcs |-> c.mod, ok |-> c.ok]

IrLower(program) ==
    LET c0 == NewModule(SelectSeq(program, LAMBDA s : s.k = "gen"))
        Hoisted(s) == s.k = "function"
        Main(s) == s.k \notin {"function", "gen"}
        main == LowerStmts(c0, SelectSeq(program, Hoisted) \o SelectSeq(program, Main))
    IN Lowered(FoldLeft(LowerStreamGen, EndMain(main), c0.gens))
=================================================================================
