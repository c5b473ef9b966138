------------------------------ MODULE Cleanup ------------------------------
(***************************************************************************)
(* Where the C emitter (src/emit_c.c) writes the destruction of owned       *)
(* strings.  A program is a tree of records; k names the kind of a node.    *)
(*                                                                          *)
(*   expressions  lit, id(n), move(n), none                                 *)
(*                own(a)    a builtin that returns a fresh heap string      *)
(*                read(a)   a builtin that reads its argument: print, len   *)
(*                fresh(a)  a user function whose result is fresh           *)
(*                user(a)   a user function that may return its argument    *)
(*                cond(t, e), and tmp(i), a hoisted temporary               *)
(*   statements   bind(n, mut, e), assign(n, e), any expression, defer(e),  *)
(*                block, if (one-arm, over a block), loop, break, skip and  *)
(*                exit, a statement-level proc_exit                         *)
(*                                                                          *)
(* The emitted C is flattened: its structured statements become relative    *)
(* branches, which is what they mean.                                       *)
(***************************************************************************)
EXTENDS Integers, Sequences, SequencesExt

CONSTANTS MaxHoist,       \* TIQ_MAX_HOIST: temporaries of one statement
          MaxScopeDepth   \* TIQ_MAX_SCOPE_DEPTH: scopes the emitter tracks

ASSUME CleanupAssumption == MaxHoist \in Nat /\ MaxScopeDepth \in Nat \ {0}

NoNode == [k |-> "none"]
Tmp(i) == [k |-> "tmp", i |-> i]

-----------------------------------------------------------------------------
(* Which bindings own the string they are initialised with. *)

IsOwnedStrBuiltinCall(e) == e.k = "own"
IsFreshStrFnCall(e) == e.k = "fresh"
IsSafeBuiltinCallee(e) == e.k \in {"own", "read"}

RECURSIVE IsOwningStrInit(_)
IsOwningStrInit(e) == \/ IsOwnedStrBuiltinCall(e)
                      \/ IsFreshStrFnCall(e)
                      \/ e.k = "cond" /\ IsOwningStrInit(e.t) /\ IsOwningStrInit(e.e)

OwnedBinding(s) == s.k = "bind" /\ ~s.mut /\ IsOwningStrInit(s.e)
MutOwnedDecl(s) == s.k = "bind" /\ s.mut /\ IsOwningStrInit(s.e)

\* The escape test of a mutable owner n: every use of it is an argument of a
\* builtin, and every assignment to it is a call of an allocating builtin.
RECURSIVE MutUsesOk(_, _)
MutUsesOk(x, n) ==
  LET argsOk(call) == call.a = [k |-> "id", n |-> n] \/ MutUsesOk(call.a, n)
      allOk(xs) == \A i \in DOMAIN xs : MutUsesOk(xs[i], n)
  IN  CASE x.k \in {"none", "lit", "break", "skip", "exit"} -> TRUE
        [] x.k \in {"id", "move"} -> x.n # n
        [] IsSafeBuiltinCallee(x) -> argsOk(x)
        [] x.k \in {"fresh", "user"} -> MutUsesOk(x.a, n)
        [] x.k = "cond" -> MutUsesOk(x.t, n) /\ MutUsesOk(x.e, n)
        [] x.k = "defer" -> MutUsesOk(x.e, n)
        [] x.k = "bind" -> x.n # n /\ MutUsesOk(x.e, n)
        [] x.k = "assign" -> IF x.n = n THEN IsOwnedStrBuiltinCall(x.e) /\ argsOk(x.e)
                                        ELSE MutUsesOk(x.e, n)
        [] x.k = "loop" -> allOk(x.stmts)
        [] x.k \in {"block", "if"} -> allOk(x.stmts) /\ allOk(x.defers) /\ MutUsesOk(x.fin, n)

-----------------------------------------------------------------------------
(* A scope being emitted: its statements, the index of the one reached. *)

Scope(b, isLoop) == [stmts |-> b.stmts, defers |-> b.defers, fin |-> b.fin,
                     emitted |-> Len(b.stmts) + 1, loop |-> isLoop]

\* Mutation: an owner whose uses are not looked at.
MutOwnerAnyUse(sc, i) == MutOwnedDecl(sc.stmts[i])

MutOwnerQualifies(sc, i) ==
  LET n == sc.stmts[i].n
  IN  /\ \A j \in (i + 1)..Len(sc.stmts) : MutUsesOk(sc.stmts[j], n)
      /\ MutUsesOk(sc.fin, n)
      /\ \A j \in DOMAIN sc.defers : MutUsesOk(sc.defers[j], n)

OwnerAt(sc, i) == \/ OwnedBinding(sc.stmts[i])
                  \/ MutOwnedDecl(sc.stmts[i]) /\ MutOwnerQualifies(sc, i)

\* What the emitter writes: one instruction of the flattened C.
Ins(op, x, e) == [op |-> op, x |-> x, e |-> e, off |-> 0, own |-> FALSE]
Free(x) == Ins("free", x, NoNode)
Branch(d) == [Ins("branch", "", NoNode) EXCEPT !.off = d]
Jump(d) == [Ins("jump", "", NoNode) EXCEPT !.off = d]

\* Mutation: the owner that is handed to the caller is destroyed as well.
ScopeFreesAll(sc, limit, skip) ==
  LET owners == SelectSeq([j \in 1..(limit - 1) |-> limit - j], LAMBDA i : OwnerAt(sc, i))
  IN  [j \in DOMAIN owners |-> Free(sc.stmts[owners[j]].n)]

\* Owners declared before statement `limit`, newest first, but for `skip`.
ScopeFreesExcept(sc, limit, skip) ==
  LET owners == SelectSeq([j \in 1..(limit - 1) |-> limit - j],
                          LAMBDA i : i # skip /\ OwnerAt(sc, i))
  IN  [j \in DOMAIN owners |-> Free(sc.stmts[owners[j]].n)]
ScopeFrees(sc, limit) == ScopeFreesExcept(sc, limit, 0)
EndFrees(sc) == ScopeFrees(sc, Len(sc.stmts) + 1)

OwnerIndex(sc, n) == SelectInSeq([i \in DOMAIN sc.stmts |-> OwnerAt(sc, i) /\ sc.stmts[i].n = n],
                                 LAMBDA b : b)

\* S is the stack of scopes, innermost last; beyond MaxScopeDepth a scope is
\* not tracked, and then nothing is destroyed early.
Tracked(S) == Len(S) <= MaxScopeDepth

FreesFrom(S, d) ==   \* scopes Len(S) down to d
  FlattenSeq([j \in 1..(Len(S) + 1 - d) |->
                LET sc == S[Len(S) + 1 - j] IN ScopeFrees(sc, sc.emitted)])

\* break and skip: every scope they leave, through the loop's own.
JumpFrees(S) == IF ~Tracked(S) THEN <<>>
                ELSE FreesFrom(S, SelectLastInSeq(S, LAMBDA sc : sc.loop))

\* Mutation: the outermost scope is left to the end of main or of the
\* function, which an exit does not reach.
ExitFreesInner(S) == IF Tracked(S) THEN FreesFrom(S, 2) ELSE <<>>
\* proc_exit: every scope there is.
ExitFrees(S) == IF Tracked(S) THEN FreesFrom(S, 1) ELSE <<>>

\* The innermost scope that declares n has it as a qualifying mutable owner.
MutReassignOwner(S, n) ==
  LET declares(sc) == SelectInSeq(sc.stmts, LAMBDA s : s.k = "bind" /\ s.n = n)
      d == SelectLastInSeq(S, LAMBDA sc : declares(sc) > 0)
  IN  /\ Tracked(S) /\ d > 0
      /\ LET i == declares(S[d])
         IN  MutOwnedDecl(S[d].stmts[i]) /\ MutOwnerQualifies(S[d], i)

-----------------------------------------------------------------------------
(* Temporaries of a simple statement, hoisted in the order they evaluate. *)

RECURSIVE HoistCollect(_, _, _)
HoistCollect(e, bound, got) ==   \* got: the temporaries so far; the rest of e
  LET take(g, x) == IF ~bound /\ IsOwningStrInit(x)
                    THEN [tmps |-> Append(g, x), e |-> Tmp(Len(g) + 1)]
                    ELSE [tmps |-> g, e |-> x]
  IN  IF e.k = "cond" THEN take(got, e)
      ELSE IF IsSafeBuiltinCallee(e) \/ IsFreshStrFnCall(e)
      THEN LET in == HoistCollect(e.a, FALSE, got)
           IN  take(in.tmps, [e EXCEPT !.a = in.e])
      ELSE [tmps |-> got, e |-> e]

Hoisted(e, bound) ==
  LET h == HoistCollect(e, bound, <<>>)
  IN  IF Len(h.tmps) > MaxHoist THEN [tmps |-> <<>>, e |-> e] ELSE h

TmpName(i) == <<"tiq_tmp", i>>
WithTemps(h, core) ==
  [i \in DOMAIN h.tmps |-> [Ins("set", TmpName(i), h.tmps[i]) EXCEPT !.own = TRUE]]
    \o core
    \o Reverse([i \in DOMAIN h.tmps |-> Free(TmpName(i))])

-----------------------------------------------------------------------------
(* Statements. *)

\* Mutation: break leaves one instruction too far.
CloseLoopFar(b) ==
  LET target(j) == IF b[j].op = "break" THEN Jump(Len(b) + 3 - j)
                   ELSE IF b[j].op = "skip" THEN Jump(-j) ELSE b[j]
  IN  <<Branch(Len(b) + 2)>> \o [j \in DOMAIN b |-> target(j)] \o <<Jump(-(Len(b) + 1))>>

\* break leaves the loop whose body is b; skip goes back to its condition.
CloseLoop(b) ==
  LET target(j) == IF b[j].op = "break" THEN Jump(Len(b) + 2 - j)
                   ELSE IF b[j].op = "skip" THEN Jump(-j) ELSE b[j]
  IN  <<Branch(Len(b) + 2)>> \o [j \in DOMAIN b |-> target(j)] \o <<Jump(-(Len(b) + 1))>>

At(S, i) == [S EXCEPT ![Len(S)].emitted = i]

RECURSIVE EmitStmt(_, _)
EmitStmt(s, S) ==
  LET Inner(b, isLoop) == Append(S, Scope(b, isLoop))
      Body(b, T) == FlattenSeq([i \in DOMAIN b.stmts |-> EmitStmt(b.stmts[i], At(T, i))])
      Final(b, T) == IF b.fin = NoNode THEN <<>>
                     ELSE EmitStmt(b.fin, At(T, Len(b.stmts) + 1))
      EmitBlock(b) ==
        LET T == Inner(b, FALSE)
        IN  Body(b, T) \o Final(b, T)
              \o FlattenSeq([i \in DOMAIN b.defers |-> EmitStmt(Reverse(b.defers)[i], S)])
              \o EndFrees(Scope(b, FALSE))
  IN  CASE s.k = "bind" ->
             LET h == Hoisted(s.e, TRUE)
                 sc == Last(S)
                 owner == sc.emitted \in DOMAIN sc.stmts /\ OwnerAt(sc, sc.emitted)
             IN  WithTemps(h, <<[Ins("set", s.n, h.e) EXCEPT !.own = owner]>>)
        [] s.k = "assign" ->
             LET h == Hoisted(s.e, TRUE)
                 swap == IsOwnedStrBuiltinCall(s.e) /\ MutReassignOwner(S, s.n)
             IN  WithTemps(h, <<[Ins(IF swap THEN "swap" ELSE "set", s.n, h.e) EXCEPT !.own = swap]>>)
        [] s.k \in {"own", "read", "fresh", "user", "cond"} ->
             LET h == Hoisted(s, FALSE) IN WithTemps(h, <<Ins("eval", "", h.e)>>)
        [] s.k \in {"lit", "id", "move"} -> <<Ins("eval", "", s)>>
        [] s.k = "defer" -> EmitStmt(s.e, S)   \* one of a block's, or its last item
        [] s.k = "block" -> EmitBlock(s)
        [] s.k = "if" -> LET b == EmitBlock(s) IN <<Branch(Len(b) + 1)>> \o b
        [] s.k = "loop" -> CloseLoop(Body(s, Inner(s, TRUE)) \o EndFrees(Scope(s, TRUE)))
        [] s.k \in {"break", "skip"} -> JumpFrees(S) \o <<Ins(s.k, "", NoNode)>>
        [] s.k = "exit" -> ExitFrees(S) \o <<Ins("exit", "", NoNode)>>

EmitSeq(b, T) == FlattenSeq([i \in DOMAIN b.stmts |-> EmitStmt(b.stmts[i], At(T, i))])

\* main(): the top-level statements, then the owners among them.
EmitProgram(b) == EmitSeq(b, <<Scope(b, FALSE)>>) \o EndFrees(Scope(b, FALSE))
                    \o <<Ins("exit", "", NoNode)>>

-----------------------------------------------------------------------------
(* Functions: what is destroyed depends on what the result can point to. *)

IsStmtFinal(e) == e.k \in {"none", "assign", "bind", "defer", "break", "skip", "loop", "exit"}

\* Every str function result here has static type str, every int one is scalar.
RetFresh(b) == b.fin.k = "lit" \/ IsOwnedStrBuiltinCall(b.fin)
FnFrees(b, strResult) == ~strResult \/ RetFresh(b)
XferIndex(b, strResult) ==
  IF strResult /\ b.fin.k = "id" THEN OwnerIndex(Scope(b, FALSE), b.fin.n) ELSE 0

FnIsFreshResult(b) ==
  \/ IsOwnedStrBuiltinCall(b.fin)
  \/ b.fin.k = "id" /\ OwnerIndex(Scope(b, FALSE), b.fin.n) > 0

EmitFunction(b, strResult) ==
  LET T == <<Scope(b, FALSE)>>
      sc == Scope(b, FALSE)
      xfer == XferIndex(b, strResult)
      frees == FnFrees(b, strResult) \/ xfer > 0
      result == IF IsStmtFinal(b.fin) THEN Ins("ret", "", [k |-> "lit"])
                ELSE Ins("ret", "", b.fin)
  IN  EmitSeq(b, T)
        \o FlattenSeq([i \in DOMAIN b.defers |-> EmitStmt(b.defers[i], T)])
        \o (IF b.fin.k \in {"assign", "bind"} THEN EmitStmt(b.fin, T) ELSE <<>>)
        \o <<result>>
        \o (IF frees THEN ScopeFreesExcept(sc, Len(b.stmts) + 1, xfer) ELSE <<>>)
=============================================================================
