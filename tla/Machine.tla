--------------------------------- MODULE Machine ---------------------------------
(***************************************************************************)
(* What a module of the intermediate representation does once an emitter   *)
(* has turned it into code.  Target "wasm" is emit_wasm.c: every register  *)
(* is a local that starts at 0, and the phis of a block are assigned one   *)
(* after the other on the way into it.  Target "qbe" is emit_qbe.c: the    *)
(* phis are those of SSA form, read together, a register must have been    *)
(* defined, and the aggregates have no translation.                        *)
(* A run is [env, out, how, v]: the registers, what was printed, how it    *)
(* ended ("go" while it runs) and the value returned.                      *)
(***************************************************************************)
EXTENDS IR, Words
LOCAL INSTANCE SequencesExt

Stop(s, how) == [s EXCEPT !.how = how]
Known(s, rs) == \A k \in DOMAIN rs : rs[k] \in DOMAIN s.env
Assign(s, r, v) == [s EXCEPT !.env = [x \in DOMAIN s.env \cup {r} |-> IF x = r THEN v ELSE s.env[x]]]

(* Wasm: the moves emitted in the branch from block `from` to block `to`. *)
PhiMoves(f, s, from, to) ==
    LET moves(phi) == SelectSeq(phi.args, LAMBDA a : a[2] = from)
        move(t, phi) == FoldLeft(LAMBDA u, a : IF u.how = "go" /\ Known(u, <<a[1]>>)
                                               THEN Assign(u, phi.dst, u.env[a[1]])
                                               ELSE Stop(u, "stuck"),
                                 t, moves(phi))
    IN FoldLeft(move, s, f.blocks[to].phis)

(* QBE: every phi takes the argument of the block control came from. *)
PhiReads(f, s, from, to) ==
    LET phis == f.blocks[to].phis
        arg(k) == SelectSeq(phis[k].args, LAMBDA a : a[2] = from)
        read(t, k) == Assign(t, phis[k].dst, s.env[arg(k)[1][1]])
    IN IF \A k \in DOMAIN phis : Len(arg(k)) = 1 /\ Known(s, <<arg(k)[1][1]>>)
       THEN FoldLeft(read, s, [k \in DOMAIN phis |-> k])
       ELSE Stop(s, "stuck")

RECURSIVE Invoked(_, _, _, _, _, _), RunBlock(_, _, _, _, _), Steps(_, _, _, _, _, _)

(* One instruction that is not a branch. *)
Step(m, f, s, ins, fuel) ==
    LET arg(k) == s.env[ins.use[k]]
        args == [k \in DOMAIN ins.use |-> arg(k)]
        two == IF Len(args) > 1 THEN args[2] ELSE 0
    IN IF ins.op = Removed THEN s
       ELSE IF ~ Known(s, ins.use) THEN Stop(s, "stuck")
       ELSE CASE ins.op \in Consts -> Assign(s, ins.dst, ins.imm)
              [] ins.op \in Pure ->
                   IF Undefined(ins.op, args[1], two)
                      /\ (m.target = "wasm" => ~ (ins.op = "mod" /\ Overflows(ins.op, args[1], two)))
                   THEN Stop(s, "trap")
                   ELSE Assign(s, ins.dst, Compute(ins.op, args[1], two))
              [] ins.op = "print" -> [s EXCEPT !.out = Append(@, args[1])]
              [] ins.op = "ret" -> [s EXCEPT !.how = "exit", !.v = args[1]]
              [] ins.op = "call" ->
                   LET t == Invoked(m.funcs, m.target, ins.fn, args, s.out, fuel - 1)
                   IN IF t.how = "exit" THEN Assign([s EXCEPT !.out = t.out], ins.dst, t.v)
                      ELSE [s EXCEPT !.out = t.out, !.how = t.how]
              [] ins.op \in {"struct_init", "array_init"} ->
                   IF m.target = "qbe" THEN Stop(s, "rejected") ELSE Assign(s, ins.dst, args)
              [] ins.op = "field_ptr" ->
                   IF m.target = "qbe" THEN Stop(s, "rejected")
                   ELSE Assign(s, ins.dst, args[1][ins.imm + 1])
              [] OTHER -> Stop(s, "stuck")

(* Instructions k .. last, in order, up to where the run ends.             *)
IsBranch(ins) == ins.op \in {"br", "cbr"}
Steps(m, f, s, k, last, fuel) ==
    IF k > last \/ s.how # "go" THEN s
    ELSE Steps(m, f, IF IsBranch(f.instrs[k]) THEN s ELSE Step(m, f, s, f.instrs[k], fuel),
               k + 1, last, fuel)

(* The block's instructions, then its branch.  The wasm emitter writes a   *)
(* block's branch last wherever it stands, the QBE emitter keeps the order *)
(* and QBE wants the branch at the end.                                    *)
Enter(m, f, s, from, to) ==
    IF m.target = "wasm" THEN PhiMoves(f, s, from, to) ELSE PhiReads(f, s, from, to)

Follow(m, f, s, b, fuel) ==
    LET ends == {k \in Body(f, b) : IsBranch(f.instrs[k])}
        k == CHOOSE k \in ends : \A j \in ends : k <= j
        last == f.instrs[k]
        to == IF last.op = "br" \/ s.env[last.use[1]] # 0 THEN last.to[1] ELSE last.to[2]
    IN IF s.how # "go" THEN s
       ELSE IF fuel = 0 \/ ends = {} \/ ~ Known(s, last.use) THEN Stop(s, "stuck")
       ELSE IF m.target = "qbe" /\ k # f.blocks[b].end THEN Stop(s, "stuck")
       ELSE RunBlock(m, f, Enter(m, f, s, b, to), to, fuel - 1)

RunBlock(m, f, s, b, fuel) ==
    Follow(m, f, Steps(m, f, s, f.blocks[b].start + 1, f.blocks[b].end, fuel), b, fuel)

(* A call: the parameters are the first registers, the entry is block 1. *)
Invoked(funcs, target, name, args, out, fuel) ==
    LET named == {i \in DOMAIN funcs : funcs[i].name = name}
        f == funcs[CHOOSE i \in named : \A j \in named : i <= j]
        defined == IF target = "wasm" THEN 0 .. (f.next - 1) ELSE 0 .. (f.params - 1)
        env == [r \in defined |-> IF r < f.params THEN args[r + 1] ELSE 0]
        s == [env |-> env, out |-> out, how |-> "go", v |-> 0]
    IN IF named = {} \/ fuel = 0 THEN Stop([s EXCEPT !.out = out], "stuck")
       ELSE RunBlock([funcs |-> funcs, target |-> target], f, s, 1, fuel)

(* What is observed of a run of the whole program within some fuel. *)
Run(funcs, target, fuel) ==
    LET s == Invoked(funcs, target, "main", <<>>, <<>>, fuel)
    IN [out |-> s.out, how |-> s.how]
=================================================================================
