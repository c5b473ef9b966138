-------------------------------- MODULE MCPasses --------------------------------
(***************************************************************************)
(* Small programs for the passes.  Written(p) is what may follow program p *)
(* and is accepted by the checker: at most two variables, one option, one  *)
(* function and one generator.                                             *)
(***************************************************************************)
EXTENDS Passes
LOCAL INSTANCE SequencesExt

CONSTANT Features  \* constructs beyond the common ground of the backends

Int1(n) == [k |-> "int", v |-> n]
Id(x) == [k |-> "id", x |-> x]
Bin(op, l, r) == [k |-> "binary", op |-> op, l |-> l, r |-> r]
Un(op, e) == [k |-> "unary", op |-> op, e |-> e]
NoArm == [k |-> "none_branch"]
If(c, t, e) == [k |-> "cond", c |-> c, t |-> t, e |-> e]
When(c, ss) == If(c, [k |-> "block", stmts |-> SubSeq(ss, 1, Len(ss) - 1), final |-> ss[Len(ss)]], NoArm)
Do(ss, e) == [k |-> "block", stmts |-> ss, final |-> e]
Fn(f, as) == [k |-> "call", fn |-> f, args |-> as, flat |-> TRUE]
Prints(e) == Fn("print", <<e>>)
Let(x, e) == [k |-> "binding", x |-> x, e |-> e]
Set(x, e) == [k |-> "assign", x |-> x, e |-> e]
Loop(i, a, b, ss) == [k |-> "loop", x |-> i, from |-> a, to |-> b, body |-> ss]
Func1(f, x, e) == [k |-> "function", x |-> f, params |-> <<x>>, body |-> e]
Gen(g, ps, bs, seeds, e) ==
    [k |-> "gen", x |-> g, params |-> ps, binders |-> bs, seeds |-> seeds, step |-> e]
Arm(p, e) == [pat |-> p, body |-> e]
Wild == [p |-> "any"]
Bound(x) == [p |-> "bind", x |-> x]
Lit(n) == [p |-> "lit", v |-> n]
Ctor(c, sub) == [p |-> c, sub |-> sub]
Match(e, arms) == [k |-> "match", e |-> e, arms |-> arms]
Fallback(l, r) == [k |-> "fallback", ty |-> "option", flat |-> TRUE, l |-> l, r |-> r]
Skips == [k |-> "skip"]
Break == [k |-> "break"]

P == Id("p")
I == Id("i")
Zero == Int1(0)
One == Int1(1)
Less(a, b) == Bin("cmp_lt", a, b)
Plus(a, b) == Bin("add", a, b)

(* Functions of one parameter p. *)
Functions ==
    {Func1("f", "p", e) : e \in
        {Plus(P, One),
         If(Less(P, One), Zero, If(Less(P, Int1(2)), P, Bin("mul", P, One))),
         Match(P, <<Arm(Lit(0), One), Arm(Lit(1), Bin("mul", P, Zero)), Arm(Wild, P)>>),
         Do(<<When(Less(P, One), <<Prints(P), Zero>>)>>, Bin("sub", P, Zero)),
         Do(<<Let("q", P), Set("q", Plus(Id("q"), P))>>, Id("q")),
         Do(<<Loop("i", Zero, P, <<When(Bin("cmp_eq", I, One), <<Skips, Prints(P)>>), Prints(I)>>)>>, P)}}

Generators ==
    {Gen("g", <<>>, <<"a">>, <<One>>, Plus(Id("a"), Id("a"))),
     Gen("g", <<>>, <<"a", "b">>, <<Zero, One>>, Plus(Id("a"), Id("b")))}

Names(p, kinds) == {p[i].x : i \in {j \in DOMAIN p : p[j].k \in kinds}}
Ints1(p) == Names(p, {"binding"}) \ {"o"}
Atoms(p) == {Zero} \cup IF Ints1(p) = {} THEN {One} ELSE {Id(x) : x \in Ints1(p)}

(* Expressions over the variables of p, without effects. *)
Values(p) ==
    LET A == Atoms(p)
    IN {Bin(op, a, b) : op \in {"add", "mul"}, a \in A, b \in A \ {One}}
       \cup {Bin("bit_xor", a, a) : a \in A \ {Zero}}
       \cup {If(Less(a, One), b, If(Un("not", Less(b, a)), Zero, a)) : a, b \in A}
       \cup {Fn("f", <<a>>) : a \in IF "f" \in Names(p, {"function"}) THEN A ELSE {}}
       \cup {Fn("g", <<Int1(n)>>) : n \in IF "g" \in Names(p, {"gen"}) THEN {0, 1, 2, 3} ELSE {}}
       \cup (IF "o" \in Names(p, {"binding"})
             THEN {Fallback(Id("o"), One),
                   Match(Id("o"), <<Arm([p |-> "none"], Zero), Arm(Ctor("some", Bound("v")), Id("v")),
                                    Arm(Wild, One)>>)}
             ELSE {})

(* Functions and generators come first, as lowering takes them anyway. *)
Definitions1(p) ==
    (IF "x" \notin Ints1(p) THEN {Let("x", a) : a \in {Zero, Int1(2)} \cup Values(p)} ELSE {})
    \cup (IF Names(p, {"binding"}) = {} THEN {Let("o", Fn("some", <<a>>)) : a \in Atoms(p)} ELSE {})
    \cup (IF p = <<>> THEN Functions \cup Generators ELSE {})

(* Statements for their effect.  What branches inside leaves the current   *)
(* block in front of blocks added later, and a loop takes the block before *)
(* its header for the current one: it is only offered where that holds.    *)
Branches1(e) == e.k \in {"cond", "match", "fallback"}
Straight(p) ==
    \A i \in DOMAIN p :
        /\ p[i].k = "binding" => ~ Branches1(p[i].e)
        /\ p[i].k = "call" => ~ Branches1(p[i].args[1])
        /\ p[i].k # "loop"

Shown(p) ==
    {Prints(e) : e \in Values(p)}
    \cup {Set("x", Plus(Id("x"), a)) : a \in IF "x" \in Ints1(p) THEN Atoms(p) ELSE {}}
    \cup {When(Less(a, Int1(2)), <<Prints(a), One>>) : a \in Atoms(p)}
    \cup {Loop("i", One, Int1(4), ss) : ss \in
             IF ~ Straight(p) THEN {}
             ELSE {<<Prints(Plus(I, a)), When(Bin("cmp_eq", I, Int1(2)), <<s, Prints(I)>>), Prints(I)>> :
                       a \in Atoms(p), s \in {Skips, Break}}
                  \cup {<<Prints(If(Less(I, a), I, a))>> : a \in Atoms(p)}}
    \cup (IF "carried" \in Features /\ "x" \in Ints1(p) /\ Straight(p)
          THEN {Loop("i", Zero, Int1(3), <<Set("x", Plus(Id("x"), I))>>)} ELSE {})

Quotients ==
    {Prints(Bin("div", Bin("sub", Un("neg", Int1(7)), One), Un("neg", One))), Prints(Bin("div", One, Zero))}

(* Definitions, then effects; what follows an effect shows x. *)
Defining == {"binding", "function", "gen"}
Written(p) ==
    CASE p = <<>> -> Definitions1(p) \cup Quotients
      [] p # <<>> /\ p[Len(p)].k \in Defining -> Definitions1(p) \cup Shown(p)
      [] OTHER -> {Prints(Id(x)) : x \in Ints1(p)}

-----------------------------------------------------------------------------
(* Small functions of one parameter (register 0): those that fork on what   *)
(* they computed, those that also join again, and those that loop, over     *)
(* every choice of their instructions below.                                *)

(* A function is its blocks, in order; each is its phis and instructions. *)
Block1(phis, instrs) == [phis |-> phis, instrs |-> instrs]
Built(blocks) ==
    LET Before1(b) == Len(FlattenSeq([c \in 1 .. (b - 1) |-> blocks[c].instrs]))
    IN [name |-> "f", params |-> 1, next |-> 8,
        instrs |-> FlattenSeq([b \in DOMAIN blocks |-> blocks[b].instrs]),
        blocks |-> [b \in DOMAIN blocks |->
                       [start |-> Before1(b), end |-> Before1(b + 1), phis |-> blocks[b].phis]]]

Binary(op, dst, a, b) == Ins(op, dst, <<a, b>>)
Shows(r) == Ins("print", NoReg, <<r>>)
Ret(r) == Ins("ret", NoReg, <<r>>)

(* r1, r2 and r3 are computed from the registers before them. *)
Firsts == {Const("const_int", 1, n) : n \in {0, 1, Lowest}}
         \cup {Const("const_bool", 1, 1), FieldPtr(1, 0, 0), Binary("cmp_lt", 1, 0, 0)}
Seconds ==
    {Binary(op, 2, 0, 1) : op \in {"add", "sub", "mul", "div"}}
    \cup {Binary(op, 2, 1, 0) : op \in {"add", "sub", "mul"}}
    \cup {Binary(op, 2, 0, 0) : op \in {"bit_xor", "bit_and"}}
    \cup {Ins(op, 2, <<1>>) : op \in {"neg", "not"}}
    \cup {Binary("div", 2, 1, 1), Const("const_int", 2, -1)}
Thirds ==
    {Binary(op, 3, a, 2) : op \in {"cmp_lt", "cmp_eq", "div"}, a \in {0, 1}}
    \cup {Const("const_bool", 3, 0), Binary("and", 3, 1, 1), Binary("or", 3, 2, 1), Ins("not", 3, <<2>>)}

Fork(a, b, c) ==
    Built(<<Block1(<<>>, <<a, b, c, Cbr(3, 2, 3)>>),
            Block1(<<>>, <<Shows(2), Ret(1)>>),
            Block1(<<>>, <<Call(4, "f", <<2>>), Ret(4)>>)>>)

Join(a, b, c) ==
    Built(<<Block1(<<>>, <<a, b, c, Cbr(3, 2, 3)>>),
            Block1(<<>>, <<Binary("add", 4, 2, 1), Br(3)>>),
            Block1(<<[dst |-> 5, args |-> <<<<1, 1>>, <<4, 2>>>>]>>, <<Ret(5)>>)>>)

(* r2 is r1 at first and r4 after every turn. *)
Turn(a, c, d) ==
    Built(<<Block1(<<>>, <<a, Br(2)>>),
            Block1(<<[dst |-> 2, args |-> <<<<1, 1>>, <<4, 3>>>>]>>, <<c, Cbr(3, 3, 4)>>),
            Block1(<<>>, <<Const("const_int", 5, 1), d, Shows(4), Br(2)>>),
            Block1(<<>>, <<Ret(2)>>)>>)

Whiles == {Binary("cmp_lt", 3, 2, 0), Binary("cmp_ge", 3, 0, 2), Binary("cmp_eq", 3, 1, 1), Const("const_bool", 3, 1)}
Turns == {Binary(op, 4, 2, 5) : op \in {"add", "sub", "mul", "div"}}
         \cup {Binary("mul", 4, 5, 2), Binary("bit_or", 4, 2, 2), Ins("copy", 4, <<2>>)}

Small ==
    {<<Fork(a, b, c)>> : a \in Firsts, b \in Seconds, c \in Thirds}
    \cup {<<Join(a, b, c)>> : a \in Firsts, b \in Seconds, c \in Thirds}
    \cup {<<Turn(a, c, d)>> : a \in Firsts, c \in Whiles, d \in Turns}

(* What they are given and answered. *)
Few == {0, 1, Lowest}
None == {}
=================================================================================
