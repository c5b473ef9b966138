----------------------------------- MODULE IR -----------------------------------
(***************************************************************************)
(* The intermediate representation of the compiler (src/include/ir.h) and  *)
(* the operations that build it (src/src/ir.c).  A function is one flat    *)
(* sequence of instructions; a block is a range of that sequence with a    *)
(* list of phis, so where an instruction lands depends on the order in     *)
(* which blocks are filled.  Types, lines and names are left out, and a    *)
(* literal of any type is its value.                                       *)
(***************************************************************************)
EXTENDS Integers, Sequences

NoReg == -1

Ins(op, dst, use) == [op |-> op, dst |-> dst, use |-> use, imm |-> 0, to |-> <<>>, fn |-> "none"]
Const(op, dst, v) == [Ins(op, dst, <<>>) EXCEPT !.imm = v]
FieldPtr(dst, r, i) == [Ins("field_ptr", dst, <<r>>) EXCEPT !.imm = i]
Br(b) == [Ins("br", NoReg, <<>>) EXCEPT !.to = <<b>>]
Cbr(r, b, c) == [Ins("cbr", NoReg, <<r>>) EXCEPT !.to = <<b, c>>]
Call(dst, fn, rs) == [Ins("call", dst, rs) EXCEPT !.fn = fn]

Consts == {"const_int", "const_bool"}
IntOps == {"add", "sub", "mul", "div", "mod", "bit_and", "bit_or", "bit_xor", "bit_shl", "bit_shr"}
CmpOps == {"cmp_eq", "cmp_ne", "cmp_lt", "cmp_le", "cmp_gt", "cmp_ge"}
Logical == {"and", "or"}
Unary == {"neg", "not", "copy"}
Terminators == {"br", "cbr", "ret"}
Pure == IntOps \cup CmpOps \cup Logical \cup Unary
Opaque == {"field_ptr", "struct_init", "array_init", "len"}
(* Removed is the opcode an eliminated instruction is left with. *)
Removed == "ir_op_count"
Ops == Consts \cup Pure \cup Opaque \cup Terminators \cup {"call", "print", Removed}

(* ir_func_init: a function without instructions, blocks or registers. *)
NewFunc(name, params) ==
    [name |-> name, params |-> params, instrs |-> <<>>, blocks |-> <<>>, next |-> 0]

(* ir_add_block: an empty range at the end of the instructions. *)
AddBlock(f) ==
    [f EXCEPT !.blocks = Append(@, [start |-> Len(f.instrs), end |-> Len(f.instrs), phis |-> <<>>])]

(* ir_new_reg *)
AddReg(f) == [f EXCEPT !.next = @ + 1]

(* ir_emit_into_block: the instruction goes to the end of the function;    *)
(* the first one moves the start of the block's range, every one its end.  *)
Emit(f, b, ins) ==
    LET here == f.blocks[b]
    IN [f EXCEPT !.instrs = Append(@, ins),
                 !.blocks[b] = [here EXCEPT !.start = IF here.start = here.end
                                                      THEN Len(f.instrs) ELSE @,
                                            !.end = Len(f.instrs) + 1]]

(* ir_emit_phi: args are pairs of a register and the block it comes from. *)
EmitPhi(f, b, dst, args) ==
    [f EXCEPT !.blocks[b].phis = Append(@, [dst |-> dst, args |-> args])]

(* The instructions of a block, in order. *)
Body(f, b) == (f.blocks[b].start + 1) .. f.blocks[b].end

Branches(f, b) == {i \in Body(f, b) : f.instrs[i].op \in Terminators}
Targets(f, b) == UNION {{f.instrs[i].to[k] : k \in DOMAIN f.instrs[i].to} : i \in Branches(f, b)}
Predecessors(f, b) == {p \in DOMAIN f.blocks : b \in Targets(f, p)}

Phis(f) == UNION {{f.blocks[b].phis[k] : k \in DOMAIN f.blocks[b].phis} : b \in DOMAIN f.blocks}
=================================================================================
