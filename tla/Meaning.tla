--------------------------------- MODULE Meaning ---------------------------------
(***************************************************************************)
(* What a program does when the host C backend compiles it                 *)
(* (src/src/emit_c.c): the behaviour every other backend has to reproduce. *)
(* The emitted C is read as C reads it: conditionals, && and || and the    *)
(* fallback operator evaluate one side, a block opens a scope, the bound   *)
(* of a range loop is evaluated again at every turn.  A program is a       *)
(* sequence of statements as in module Lowering.                           *)
(* A state is [env, out, how, v]: the names in scope, innermost last; what *)
(* was printed; "go", or how control left; the value returned.             *)
(***************************************************************************)
EXTENDS Words, Sequences
LOCAL INSTANCE SequencesExt

Nothing == [k |-> "none_branch"]
Going(s) == s.how = "go"
Ended(s, how) == [s EXCEPT !.how = how]
Result(s, v) == [s |-> s, v |-> v]

Declare(s, x, v) == [s EXCEPT !.env = Append(@, [x |-> x, v |-> v])]
Slot(s, x) == SelectLastInSubSeq(s.env, 1, Len(s.env), LAMBDA d : d.x = x)
(* The closing brace of a scope opened in state before. *)
Close(s, before) == [s EXCEPT !.env = SubSeq(@, 1, Len(before.env))]

RECURSIVE Eval(_, _, _), EvalAll(_, _, _), Arms(_, _, _, _), Turn(_, _, _), Turns(_, _, _, _)
RECURSIVE Exec(_, _, _), ExecAll(_, _, _), CallFn(_, _, _, _)

EvalAll(P, s, es) ==
    IF es = <<>> THEN Result(s, <<>>)
    ELSE LET first == Eval(P, s, Head(es))
             rest == EvalAll(P, first.s, Tail(es))
         IN Result(rest.s, <<first.v>> \o rest.v)

EvalBinary(P, s, e) ==
    LET l == Eval(P, s, e.l)
        r == Eval(P, l.s, e.r)
    IN IF e.op = "and" /\ l.v = 0 THEN Result(l.s, 0)
       ELSE IF e.op = "or" /\ l.v # 0 THEN Result(l.s, 1)
       ELSE IF ~ Going(r.s) THEN r
       ELSE IF UndefinedInC(e.op, l.v, r.v) THEN Result(Ended(r.s, "undefined"), 0)
       ELSE Result(r.s, Compute(e.op, l.v, r.v))

Flag(ty) == IF ty = "result" THEN 3 ELSE 2

EvalFallback(P, s, e) ==
    LET l == Eval(P, s, e.l)
    IN IF ~ Going(l.s) THEN l
       ELSE IF l.v[Flag(e.ty)] # 0 THEN Result(l.s, l.v[1]) ELSE Eval(P, l.s, e.r)

(* `e?` returns the empty value from the function it is written in. *)
EvalUnary(P, s, e) ==
    LET a == Eval(P, s, e.e)
    IN IF ~ Going(a.s) THEN a
       ELSE IF e.op # "try" /\ UndefinedInC(e.op, a.v, 0) THEN Result(Ended(a.s, "undefined"), 0)
       ELSE IF e.op # "try" THEN Result(a.s, Compute(e.op, a.v, 0))
       ELSE IF a.v[Flag(e.ty)] # 0 THEN Result(a.s, a.v[1])
       ELSE Result([a.s EXCEPT !.how = "return", !.v = [a.v EXCEPT ![1] = 0]], 0)

EvalCond(P, s, e) ==
    LET c == Eval(P, s, e.c)
    IN IF ~ Going(c.s) THEN c
       ELSE IF c.v # 0 THEN Eval(P, c.s, e.t)
       ELSE IF e.e = Nothing THEN Result(c.s, 0)
       ELSE Eval(P, c.s, e.e)

(* Patterns, tried in order; the pattern of a payload is tested too. *)
RECURSIVE Matches(_, _)
Matches(pat, v) ==
    CASE pat.p \in {"any", "bind"} -> TRUE
      [] pat.p \in {"lit", "variant"} -> v = pat.v
      [] pat.p = "none" -> v[2] = 0
      [] pat.p = "some" -> v[2] # 0 /\ Matches(pat.sub, v[1])
      [] pat.p = "ok" -> v[3] # 0 /\ Matches(pat.sub, v[1])
      [] pat.p = "err" -> v[3] = 0 /\ Matches(pat.sub, v[2])

RECURSIVE Bind(_, _, _)
Bind(s, pat, v) ==
    CASE pat.p = "bind" -> Declare(s, pat.x, v)
      [] pat.p \in {"some", "ok"} -> Bind(s, pat.sub, v[1])
      [] pat.p = "err" -> Bind(s, pat.sub, v[2])
      [] OTHER -> s

Arms(P, s, arms, v) ==
    IF arms = <<>> THEN Result(s, 0)
    ELSE IF ~ Matches(Head(arms).pat, v) THEN Arms(P, s, Tail(arms), v)
    ELSE LET a == Eval(P, Bind(s, Head(arms).pat, v), Head(arms).body)
         IN Result(Close(a.s, s), a.v)

EvalMatch(P, s, e) ==
    LET t == Eval(P, s, e.e) IN IF Going(t.s) THEN Arms(P, t.s, e.arms, t.v) ELSE t

(* printf's result: the bytes of "%lld\n".  (Not of a bool, whose name is   *)
(* printed; values have no types here.)                                    *)
Bytes(n) ==
    LET digits == CHOOSE d \in 1 .. 19 : Abs(n) < 10 ^ d /\ (d > 1 => Abs(n) >= 10 ^ (d - 1))
    IN digits + (IF n < 0 THEN 2 ELSE 1)

EvalCall(P, s, e) ==
    LET a == EvalAll(P, s, IF e.k = "indexed_call" THEN e.args \o e.index ELSE e.args)
    IN IF ~ Going(a.s) THEN a
       ELSE CASE e.fn = "print" -> Result([a.s EXCEPT !.out = Append(@, a.v[1])], Bytes(a.v[1]))
              [] e.fn = "some" -> Result(a.s, <<a.v[1], 1>>)
              [] e.fn = "none" -> Result(a.s, <<0, 0>>)
              [] e.fn = "ok" -> Result(a.s, <<a.v[1], 0, 1>>)
              [] e.fn = "err" -> Result(a.s, <<0, a.v[1], 0>>)
              [] OTHER -> CallFn(P, a.s, e.fn, a.v)

EvalBlock(P, s, e) ==
    LET body == ExecAll(P, s, e.stmts)
        last == IF e.final = Nothing \/ ~ Going(body) THEN Result(body, 0) ELSE Eval(P, body, e.final)
    IN Result(Close(last.s, s), last.v)

Eval(P, s, e) ==
    IF ~ Going(s) THEN Result(s, 0)
    ELSE CASE e.k \in {"int", "bool", "variant"} -> Result(s, e.v)
           [] e.k = "none" -> Result(s, <<0, 0>>)
           [] e.k = "id" -> Result(s, s.env[Slot(s, e.x)].v)
           [] e.k = "binary" -> EvalBinary(P, s, e)
           [] e.k = "fallback" -> EvalFallback(P, s, e)
           [] e.k = "unary" -> EvalUnary(P, s, e)
           [] e.k = "cond" -> EvalCond(P, s, e)
           [] e.k \in {"call", "indexed_call"} -> EvalCall(P, s, e)
           [] e.k \in {"array", "record"} -> EvalAll(P, s, e.es)
           [] e.k = "field" -> LET a == Eval(P, s, e.e) IN Result(a.s, a.v[e.i + 1])
           [] e.k = "block" -> EvalBlock(P, s, e)
           [] e.k = "match" -> EvalMatch(P, s, e)

(* for (i = from; i < to; i++) body: the name of the loop is its own, the  *)
(* body opens a scope at every turn.                                       *)
Turn(P, s, loop) ==
    LET body == ExecAll(P, s, loop.body)
        next == Close(IF body.how = "skip" THEN Ended(body, "go") ELSE body, s)
        i == Len(s.env)
    IN IF Going(next) THEN Turns(P, [next EXCEPT !.env[i].v = Wrap(@ + 1)], loop, i)
       ELSE IF next.how = "break" THEN Ended(next, "go") ELSE next

Turns(P, s, loop, i) ==
    LET to == Eval(P, s, loop.to)
    IN IF ~ Going(to.s) THEN to.s
       ELSE IF s.env[i].v < to.v THEN Turn(P, to.s, loop) ELSE to.s

ExecLoop(P, s, loop) ==
    LET from == Eval(P, s, loop.from)
        start == Declare(from.s, loop.x, from.v)
    IN IF Going(from.s) THEN Close(Turns(P, start, loop, Len(start.env)), s) ELSE from.s

Exec(P, s, st) ==
    CASE st.k = "binding" -> LET a == Eval(P, s, st.e) IN Declare(a.s, st.x, a.v)
      [] st.k = "assign" ->
           LET a == Eval(P, s, st.e) IN [a.s EXCEPT !.env[Slot(s, st.x)].v = a.v]
      [] st.k = "loop" -> ExecLoop(P, s, st)
      [] st.k \in {"break", "skip"} -> Ended(s, st.k)
      [] st.k \in {"function", "gen", "enum"} -> s
      [] OTHER -> Eval(P, s, st).s

ExecAll(P, s, ss) ==
    IF ss = <<>> \/ ~ Going(s) THEN s ELSE ExecAll(P, Exec(P, s, Head(ss)), Tail(ss))

(* tiq_gen_<name>: the value at index n, from the seeds onwards. *)
RECURSIVE Generate(_, _, _, _, _, _, _)
Generate(P, s, g, params, window, i, n) ==
    IF i > n \/ ~ Going(s) THEN Result(s, window[1])
    ELSE LET scope == FoldLeft(LAMBDA t, k : Declare(t, g.binders[k], window[k]),
                               [s EXCEPT !.env = params], [k \in DOMAIN window |-> k])
             next == Eval(P, scope, g.step)
         IN Generate(P, next.s, g, params, SubSeq(<<next.v>> \o window, 1, Len(window)), i + 1, n)

CallGen(P, s, g, args) ==
    LET params == [k \in DOMAIN g.params |-> [x |-> g.params[k], v |-> args[k]]]
        n == args[Len(args)]
        seeds == EvalAll(P, [s EXCEPT !.env = params], g.seeds)
        r == IF n < 0 THEN Result(s, 0)
             ELSE IF n < Len(g.seeds) THEN Result(seeds.s, seeds.v[n + 1])
             ELSE Generate(P, seeds.s, g, params, Reverse(seeds.v), Len(g.seeds), n)
    IN Result([r.s EXCEPT !.env = s.env], r.v)

(* A call: the callee sees its parameters and nothing of the caller. *)
CallFn(P, s, name, args) ==
    LET fn == P[CHOOSE i \in DOMAIN P : P[i].k \in {"function", "gen"} /\ P[i].x = name]
        params == [k \in DOMAIN fn.params |-> [x |-> fn.params[k], v |-> args[k]]]
        r == Eval(P, [s EXCEPT !.env = params], fn.body)
        back == [r.s EXCEPT !.env = s.env]
    IN IF fn.k = "gen" THEN CallGen(P, s, fn, args)
       ELSE IF r.s.how = "return" THEN Result([back EXCEPT !.how = "go"], r.s.v)
       ELSE Result(back, r.v)

(* The program: its statements in order, then exit. *)
Behaviour(P) ==
    LET s == ExecAll(P, [env |-> <<>>, out |-> <<>>, how |-> "go", v |-> 0], P)
    IN [out |-> s.out, how |-> IF Going(s) THEN "exit" ELSE s.how]
=================================================================================
