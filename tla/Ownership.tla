----------------------------- MODULE Ownership -----------------------------
(***************************************************************************)
(* Destruction of owned strings, from the source text to the heap.  A        *)
(* program (or the body of one function) is written item by item, checked    *)
(* as src/semantic.c does, given its frees as src/emit_c.c does (Cleanup),   *)
(* and then run against a heap whose blocks are never reused, so that a      *)
(* stale pointer stays recognisable.                                         *)
(***************************************************************************)
EXTENDS Cleanup

CONSTANTS Names,            \* names of the program's bindings
          Param,            \* the parameter of the function
          Units,            \* what may be compiled: "program", "str_fn", "int_fn"
          Forms,            \* forms of expressions the program may use
          Stmts,            \* kinds of statements it may use
          MaxNodes,         \* bound: statements of a program
          MaxFnNodes,       \* bound: statements of a function
          MaxAlloc,         \* bound: with this many blocks no branch is taken
          EscapingAliases   \* may a name receive an alias from a deeper scope?

ASSUME OwnershipAssumption ==
  /\ Units \subseteq {"program", "str_fn", "int_fn"}
  /\ Param \notin Names
  /\ MaxNodes \in Nat /\ MaxFnNodes \in Nat /\ MaxAlloc \in Nat
  /\ EscapingAliases \in BOOLEAN

VARIABLES phase,      \* "write", "run", "done" or "rejected"
          unit,       \* a program, or a function that returns a str or an int
          open,       \* while writing: the open constructs, innermost last
          nodes,      \* while writing: the statements so far
          code, pc,   \* the emitted program, the next instruction
          env,        \* what each C variable points to; 0 is static storage
          live, n,    \* blocks not freed; blocks allocated so far
          owned,      \* blocks that a variable with a planned free has received
          promised    \* the documents promise the destruction of all owners
vars == <<phase, unit, open, nodes, code, pc, env, live, n, owned, promised>>

IsFn == unit # "program"
Params == IF IsFn THEN {Param} ELSE {}

-----------------------------------------------------------------------------
(* The source. *)

Id(x) == [k |-> "id", n |-> x]
Lit == [k |-> "lit"]
Call(f, a) == [k |-> f, a |-> a]
Fresh == Call("own", Lit)

Values(V) ==
  LET names == {Id(x) : x \in V}
  IN  {Lit} \cup names
      \cup [k : Forms \cap {"own"}, a : {Lit} \cup names]
      \cup [k : Forms \cap {"user"}, a : names]
      \cup [k : Forms \cap {"fresh"}, a : {Fresh}]
      \cup [k : Forms \cap {"move"}, n : V]
      \cup [k : Forms \cap {"cond"}, t : {Fresh}, e : {Fresh} \cup names]
Nested == {x \in {Call("own", Fresh)} : "nested" \in Forms}
Reads(V) == [k : {"read"}, a : {Fresh} \cup Nested \cup {Id(x) : x \in V}]

Simple(V) == [k : {"bind"}, n : Names, mut : BOOLEAN, e : Values(V)] \cup Reads(V)
             \cup [k : Stmts \cap {"defer"}, e : [k : {"read"}, a : {Id(x) : x \in Names}]]
             \cup [k : Stmts \cap {"break", "skip", "exit"}]

\* What a function that returns a str may end with.
ResultKinds == {"lit", "id", "own", "fresh", "user", "cond", "move"}
ResultValues(V) == IF unit = "str_fn" /\ Len(open) = 1 THEN Values(V) ELSE {}

\* A block as the parser leaves it: its last item is its final expression.
Block(k, items) ==
  IF items = <<>> THEN [k |-> k, stmts |-> <<>>, defers |-> <<>>, fin |-> NoNode]
  ELSE [k |-> k, stmts |-> SelectSeq(Front(items), LAMBDA s : s.k # "defer"),
        defers |-> SelectSeq(Front(items), LAMBDA s : s.k = "defer"), fin |-> Last(items)]
Body(k, items) == [k |-> k, stmts |-> items, defers |-> <<>>, fin |-> NoNode]
Construct(k, items) == IF k \in {"top", "loop"} THEN Body(k, items) ELSE Block(k, items)

\* The names the text written so far has declared and not closed.
Declared == {x \in Names : \E d \in DOMAIN open : \E i \in DOMAIN open[d].items :
               LET s == open[d].items[i] IN s.k = "bind" /\ s.n = x}

-----------------------------------------------------------------------------
(* The checker.  E is the stack of environments, innermost last. *)

DepthOf(E, x) == SelectLastInSeq(E, LAMBDA s : x \in DOMAIN s)
Define(E, x, mut) == [E EXCEPT ![Len(E)] = (x :> [mut |-> mut, moved |-> FALSE]) @@ @]
SetMoved(E, x, b) == [E EXCEPT ![DepthOf(E, x)][x].moved = b]
Accept(E, s) == [ok |-> TRUE, E |-> E, s |-> s]
Reject == [ok |-> FALSE, E |-> <<>>, s |-> NoNode]

Usable(E, x) == DepthOf(E, x) > 0 /\ ~E[DepthOf(E, x)][x].moved

RECURSIVE CheckExpr(_, _)
CheckExpr(e, E) ==
  CASE e.k = "id" -> IF Usable(E, e.n) THEN Accept(E, e) ELSE Reject
    [] e.k = "move" -> IF Usable(E, e.n) /\ E[DepthOf(E, e.n)][e.n].mut
                       THEN Accept(SetMoved(E, e.n, TRUE), e) ELSE Reject
    [] e.k \in {"own", "fresh", "user", "read"} -> CheckExpr(e.a, E)
    [] e.k = "cond" -> LET t == CheckExpr(e.t, E)
                       IN  IF t.ok THEN CheckExpr(e.e, t.E) ELSE Reject
    [] OTHER -> Accept(E, e)

\* The names whose value e may hand on.
RECURSIVE Aliased(_)
Aliased(e) == CASE e.k \in {"id", "move"} -> {e.n}
                [] e.k = "user" -> Aliased(e.a)
                [] e.k = "cond" -> Aliased(e.t) \cup Aliased(e.e)
                [] OTHER -> {}
Escapes(E, e, d) == \E x \in Aliased(e) : DepthOf(E, x) > d

\* `n <- e` and `n = e` with n already bound: reassignment or an error.
CheckBind(s, E) ==
  LET d == DepthOf(E, s.n)
      e == CheckExpr(s.e, E)
  IN  IF ~e.ok \/ (d > 0 /\ (~s.mut \/ ~E[d][s.n].mut)) THEN Reject
      ELSE IF d = 0 THEN Accept(Define(e.E, s.n, s.mut), s)
      ELSE IF ~EscapingAliases /\ Escapes(E, s.e, d) THEN Reject
      ELSE Accept(SetMoved(e.E, s.n, FALSE), [k |-> "assign", n |-> s.n, e |-> s.e])

RECURSIVE CheckStmt(_, _, _)
CheckSeq(ss, E, inLoop) ==   \* the statements in order; s is their sequence
  FoldLeft(LAMBDA acc, s :
             IF ~acc.ok THEN Reject
             ELSE LET r == CheckStmt(s, acc.E, inLoop)
                  IN  IF r.ok THEN Accept(r.E, Append(acc.s, r.s)) ELSE Reject,
           Accept(E, <<>>), ss)
CheckStmt(s, E, inLoop) ==
  CASE s.k = "bind" -> CheckBind(s, E)
    [] s.k \in {"break", "skip"} -> IF inLoop THEN Accept(E, s) ELSE Reject
    [] s.k \in {"block", "if", "loop"} ->
         LET loop == inLoop \/ s.k = "loop"
             inner == CheckSeq(s.stmts, Append(E, <<>>), loop)
             defers == CheckSeq(s.defers, inner.E, loop)
             fin == CheckStmt(s.fin, defers.E, loop)
         IN  IF ~inner.ok \/ ~defers.ok \/ ~fin.ok THEN Reject
             ELSE Accept(Front(fin.E), [s EXCEPT !.stmts = inner.s, !.fin = fin.s])
    [] OTHER -> LET r == CheckExpr(IF s.k = "defer" THEN s.e ELSE s, E)
                IN  IF r.ok THEN Accept(r.E, s) ELSE Reject

CheckUnit(items) ==
  LET E == <<[x \in Params |-> [mut |-> FALSE, moved |-> FALSE]]>>
  IN  IF IsFn THEN CheckStmt(Block("block", items), E, FALSE)
      ELSE LET r == CheckSeq(items, E, FALSE)
           IN  IF r.ok THEN Accept(r.E, Body("top", r.s)) ELSE Reject

\* A function's last item has to be a value of its result type.
ResultOk(b) == CASE unit = "program" -> TRUE
                 [] unit = "str_fn" -> b.fin.k \in ResultKinds
                 [] unit = "int_fn" -> b.fin.k \in {"none", "read", "assign", "bind"}

-----------------------------------------------------------------------------
(* The emitted unit and, for a function, the caller around it: it owns the  *)
(* argument, reads the result and destroys a result that is fresh.          *)

Result == <<"tiq_fn_ret", 0>>
Limited(depth) == INSTANCE Cleanup WITH MaxScopeDepth <- depth

Emitted(b, depth) ==
  IF ~IsFn THEN Limited(depth)!EmitProgram(b)
  ELSE <<[Ins("set", Param, Fresh) EXCEPT !.own = TRUE]>>
         \o Limited(depth)!EmitFunction(b, unit = "str_fn")
         \o <<Ins("eval", "", Call("read", Id(Result)))>>
         \o (IF unit = "str_fn" /\ FnIsFreshResult(b) THEN <<Free(Result)>> ELSE <<>>)
         \o <<Free(Param), Ins("exit", "", NoNode)>>

RECURSIVE Nesting(_)
Nesting(s) == IF s.k \in {"top", "block", "if", "loop"}
              THEN 1 + Max({Nesting(s.fin)} \cup {Nesting(s.stmts[i]) : i \in DOMAIN s.stmts})
              ELSE 0
\* The emitter with its limit, and one that tracks a scope less than the
\* program nests, if it writes something else: for a short program what the
\* limit is for a deep one.
Depths(b) == {MaxScopeDepth} \cup
             {d \in {Nesting(b) - 1} \ {0} : Emitted(b, d) # Emitted(b, MaxScopeDepth)}

Promised(b, depth) ==
  /\ Nesting(b) <= depth
  /\ IsFn => FnFrees(b, unit = "str_fn") \/ XferIndex(b, unit = "str_fn") > 0

-----------------------------------------------------------------------------
(* Values at run time: where e may point, and the blocks it dereferences. *)

Lookup(x) == IF x \in DOMAIN env THEN env[x] ELSE -1

RECURSIVE Outcomes(_, _)
Outcomes(e, m) ==   \* m: blocks allocated so far
  CASE e.k \in {"id", "move"} -> {[v |-> Lookup(e.n), n |-> m, reads |-> {}]}
    [] e.k = "tmp" -> {[v |-> Lookup(TmpName(e.i)), n |-> m, reads |-> {}]}
    [] e.k \in {"own", "fresh"} ->
         {[v |-> r.n + 1, n |-> r.n + 1, reads |-> r.reads \cup {r.v}] : r \in Outcomes(e.a, m)}
    [] e.k = "read" -> {[r EXCEPT !.v = 0, !.reads = @ \cup {r.v}] : r \in Outcomes(e.a, m)}
    [] e.k = "user" -> UNION {{[r EXCEPT !.v = v, !.reads = @ \cup {r.v}] : v \in {0, r.v}}
                                : r \in Outcomes(e.a, m)}
    [] e.k = "cond" -> Outcomes(e.t, m) \cup Outcomes(e.e, m)
    [] OTHER -> {[v |-> 0, n |-> m, reads |-> {}]}

-----------------------------------------------------------------------------
Init == /\ phase = "write" /\ nodes = 0
        /\ unit \in Units
        /\ open = <<[k |-> IF IsFn THEN "block" ELSE "top", items |-> <<>>]>>
        /\ code = <<>> /\ pc = 0
        /\ env = <<>> /\ live = {} /\ n = 0 /\ owned = {} /\ promised = FALSE

Writing == phase = "write" /\ UNCHANGED <<unit, code, pc, env, live, n, owned, promised>>

\* What follows a jump in its construct is dead, and a value is written as a
\* function's last item only.
Room == /\ nodes < IF IsFn THEN MaxFnNodes ELSE MaxNodes
        /\ LET here == Last(open).items
           IN  here # <<>> => Last(here).k \notin {"break", "skip", "exit"} \cup ResultKinds

\* defer has to stand in a block; the parser refuses it elsewhere.  An
\* immutable binding of a name in scope, which CheckBind rejects, is left out.
WriteSimple ==
  /\ Writing /\ Room
  /\ \E s \in Simple(Declared \cup Params) \cup ResultValues(Declared \cup Params) :
       /\ s.k = "defer" => Last(open).k \notin {"top", "loop"}
       /\ s.k = "bind" /\ s.n \in Declared => s.mut
       /\ open' = [open EXCEPT ![Len(open)].items = Append(@, s)]
  /\ nodes' = nodes + 1
  /\ UNCHANGED phase

OpenConstruct ==
  /\ Writing /\ Room
  /\ \E k \in Stmts \cap {"block", "if", "loop"} :
       open' = Append(open, [k |-> k, items |-> <<>>])
  /\ nodes' = nodes + 1
  /\ UNCHANGED phase

CloseConstruct ==
  /\ Writing /\ Len(open) > 1
  /\ LET c == Last(open)
     IN  open' = [Front(open) EXCEPT ![Len(open) - 1].items
                    = Append(@, Construct(c.k, c.items))]
  /\ UNCHANGED <<phase, nodes>>

\* The front end's verdict, and the emitter's output.
Compile ==
  /\ phase = "write" /\ Len(open) = 1
  /\ LET r == CheckUnit(open[1].items)
     IN  IF r.ok /\ ResultOk(r.s)
         THEN /\ phase' = "run" /\ pc' = 1
              /\ \E depth \in Depths(r.s) : /\ code' = Emitted(r.s, depth)
                                            /\ promised' = Promised(r.s, depth)
         ELSE phase' = "rejected" /\ UNCHANGED <<code, pc, promised>>
  /\ open' = <<>> /\ nodes' = 0
  /\ UNCHANGED <<unit, env, live, n, owned>>

Here == code[pc]
Running(op) == phase = "run" /\ Here.op \in op /\ UNCHANGED <<unit, open, nodes, code, promised>>

\* `const char *x = e;`, `x = e;`, `e;`, and a swap, which frees the old value.
Store ==
  /\ Running({"set", "swap", "eval", "ret"})
  /\ \E r \in Outcomes(Here.e, n) :
       LET x == IF Here.op = "ret" THEN Result ELSE Here.x
           old == IF Here.op = "swap" THEN {Lookup(x)} ELSE {}
       IN  /\ n' = r.n
           /\ live' = (live \cup ((n + 1)..r.n)) \ old
           /\ env' = IF Here.op = "eval" THEN env ELSE (x :> r.v) @@ env
           /\ owned' = IF Here.own THEN owned \cup {r.v} ELSE owned
  /\ pc' = pc + 1
  /\ UNCHANGED phase

FreeOwner ==
  /\ Running({"free"})
  /\ live' = live \ {Lookup(Here.x)}
  /\ pc' = pc + 1
  /\ UNCHANGED <<phase, env, n, owned>>

\* A condition holds, and the branch falls through, or it does not.
TakeBranch ==
  /\ Running({"branch", "jump"})
  /\ pc' \in {pc + 1, pc + Here.off}
  /\ (Here.op = "jump" \/ n >= MaxAlloc) => pc' = pc + Here.off
  /\ UNCHANGED <<phase, env, live, n, owned>>

Exit == /\ Running({"exit"})
        /\ phase' = "done"
        /\ UNCHANGED <<pc, env, live, n, owned>>

Stopped == phase \in {"done", "rejected"} /\ UNCHANGED vars

Next == \/ WriteSimple \/ OpenConstruct \/ CloseConstruct \/ Compile
        \/ Store \/ FreeOwner \/ TakeBranch \/ Exit \/ Stopped
Spec == Init /\ [][Next]_vars

-----------------------------------------------------------------------------
(* Properties. *)

TypeOK == /\ phase \in {"write", "run", "done", "rejected"}
          /\ unit \in Units /\ nodes \in Nat /\ Len(open) \in Nat
          /\ n \in Nat /\ live \subseteq 1..n /\ owned \subseteq 1..n
          /\ phase = "run" => pc \in DOMAIN code
          /\ \A x \in DOMAIN env : env[x] \in 0..n
          /\ promised \in BOOLEAN

\* The emitted code never passes free() a block that was freed before, static
\* storage or an undefined variable: the frees at the ends of scopes, at
\* break, skip and exit, at reassignment and after a statement's temporaries
\* hit each owner at most once on every path.
NoInvalidFree ==
  phase = "run" /\ Here.op \in {"free", "swap"} => Lookup(Here.x) \in live

\* Every string that the program, or the caller of the function, reads is
\* still allocated: no name outlives what it aliases.
ReadsValid ==
  phase = "run" /\ Here.op \in {"set", "swap", "eval", "ret"} =>
    \A r \in Outcomes(Here.e, n) : r.reads \subseteq live \cup {0} \cup ((n + 1)..r.n)

\* When the process ends, however control left its scopes, every owned string
\* has been destroyed, in a function if the documents promise it for its
\* result; proc_exit in a function leaves what its callers own.
CallersOwn == IF IsFn /\ pc < Len(code) THEN {Lookup(Param)} ELSE {}
OwnersDestroyed == phase = "done" /\ promised => owned \cap live \subseteq CallersOwn
=============================================================================
