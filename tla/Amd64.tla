------------------------------- MODULE Amd64 --------------------------------
(***************************************************************************)
(* The instruction encoder of the integrated x86-64 assembler,              *)
(* src/asm_amd64.c.  An instruction is a record [op, cc, sz, args] with its *)
(* operands in AT&T order, sources first; its encoding is a sequence of     *)
(* pieces, each a tuple that starts with its role:                          *)
(*                                                                          *)
(*   op(byte)   rex(w, r, x, b)   modrm(mod, reg, rm)   sib(s, i, b)         *)
(*   num(width, value)          an immediate or a displacement              *)
(*   sym(width, offset, name)   a displacement that names a symbol          *)
(*   rel(width, name)           the displacement of a branch or a call      *)
(*                                                                          *)
(* <<>> is an error.  Numbers are those TLC has: immediates lie within 32   *)
(* bits, so the test imm <= UINT32_MAX of encode_mov is always true.        *)
(***************************************************************************)
EXTENDS Integers, Sequences, FiniteSets, SequencesExt

None == -1                     \* R_NONE
NoSym == ""

RAX == 0   RCX == 1   RDX == 2   RBX == 3   RSP == 4   RBP == 5   RSI == 6
RDI == 7   R8 == 8    R9 == 9    R10 == 10  R11 == 11  R12 == 12  R13 == 13
Xmm(n) == 16 + n

-----------------------------------------------------------------------------
(* Operands and instructions *)

Reg(id, sz) == [k |-> "reg", id |-> id, sz |-> sz]
Imm(n) == [k |-> "imm", n |-> n, sym |-> NoSym]
Lab(name) == [k |-> "imm", n |-> 0, sym |-> name]
Mem(base, index, scale) ==
  [k |-> "mem", base |-> base, index |-> index, scale |-> scale, shown |-> FALSE,
   disp |-> 0, sym |-> NoSym, off |-> 0, rip |-> FALSE]
At(n, base) == [Mem(base, None, 1) EXCEPT !.shown = TRUE, !.disp = n]
Rip(name, n) == [Mem(None, None, 1) EXCEPT !.sym = name, !.off = n, !.rip = TRUE]

Ins(op, sz, args) == [op |-> op, cc |-> "", sz |-> sz, args |-> args]
Cond(op, cc, arg) == [op |-> op, cc |-> cc, sz |-> "q", args |-> <<arg>>]

\* What the encoders are given: a register, an immediate or label, or memory.
MemOperand ==
  [k : {"mem"}, base : Int, index : Int, scale : Nat, shown : BOOLEAN, disp : Int,
   sym : STRING, off : Int, rip : BOOLEAN]
Operand ==
  [k : {"reg"}, id : Nat, sz : STRING] \cup [k : {"imm"}, n : Int, sym : STRING]
  \cup MemOperand
Instruction == [op : STRING, cc : STRING, sz : STRING, args : Seq(Operand)]

\* What parse_reg makes of a register: it tries the 64-bit, 32-bit, 16-bit and
\* 8-bit names in this order and takes the first that is a prefix of the text,
\* so that r9d is read as r9 and sil as si, and the letter left over becomes
\* an operand of its own, a label.
ReadReg(r) ==
  LET rest == CASE r.sz \in {"l", "w", "b"} /\ r.id \in 8..15 ->
                     IF r.sz = "l" THEN "d" ELSE r.sz
                [] r.sz = "b" /\ r.id \in 4..7 -> "l"
                [] OTHER -> NoSym
  IN  IF rest = NoSym THEN <<r>> ELSE <<r, Lab(rest)>>

\* The operands of a line: the loop stops after three of them.
ReadOperands(args) ==
  LET all == FlattenSeq([i \in DOMAIN args |->
                           IF args[i].k = "reg" THEN ReadReg(args[i]) ELSE <<args[i]>>])
  IN  IF Len(all) > 3 THEN SubSeq(all, 1, 3) ELSE all

-----------------------------------------------------------------------------
(* Encoding primitives *)

Bit(b) == IF b THEN 1 ELSE 0
Bad == <<>>                                          \* err()
Op(v) == <<"op", v>>
ModRM(mod, reg, rm) == <<"modrm", mod, reg % 8, rm % 8>>
Sib(scale, index, base) == <<"sib", scale, index % 8, base % 8>>
Num(width, n) == <<"num", width, n>>
Sym(name, n) == <<"sym", 4, n, name>>
Rel(name) == <<"rel", 4, name>>

Width(p) == IF p[1] \in {"num", "sym", "rel"} THEN p[2] ELSE 1
Cells(pieces) == UNION {{j} \X (1..Width(pieces[j])) : j \in DOMAIN pieces}   \* its bytes
Size(pieces) == Cardinality(Cells(pieces))

W(sz) == Bit(sz = "q")
Ext(id) == Bit(id \in 8..15)                          \* reg_needs_rex
XExt(id) == Bit(id - 16 >= 8)                         \* xmm_needs_rex
IsInt8(n) == n \in -128..127

RexIf(w, r, x, b) == IF w + r + x + b > 0 THEN <<<<"rex", w, r, x, b>>>> ELSE <<>>
Word(sz) == IF sz = "w" THEN <<Op(\h66)>> ELSE <<>>

\* encode_mem: ModR/M, SIB and displacement of a memory operand.
EncodeMem(m, reg) ==
  LET sib == m.index # None \/ m.base \in {RSP, R12}
      mod == CASE ~m.shown /\ m.sym = NoSym /\ m.disp = 0 /\ m.base \notin {RBP, R13} -> 0
               [] m.disp \in -128..127 /\ m.sym = NoSym -> 1
               [] OTHER -> 2
      disp == IF m.sym # NoSym THEN Sym(m.sym, m.off) ELSE Num(IF mod = 1 THEN 1 ELSE 4, m.disp)
  IN  IF m.rip THEN <<ModRM(0, reg, 5), IF m.sym # NoSym THEN disp ELSE Num(4, m.disp)>>
      ELSE <<ModRM(mod, reg, IF sib THEN 4 ELSE m.base)>>
           \o (CASE ~sib -> <<>>
                 [] sib /\ m.index = None -> <<Sib(1, 4, m.base)>>
                 [] OTHER -> <<Sib(m.scale, m.index, m.base)>>)
           \o (IF mod = 0 THEN <<>> ELSE <<disp>>)

\* The three layouts the encoders share: register and register, register and
\* memory, and an opcode extension with one register.
\* Mutation: RegReg with the two registers of ModR/M exchanged.
RegRegSwapped(sz, ops, reg, rm) ==
  RexIf(W(sz), Ext(reg), 0, Ext(rm)) \o ops \o <<ModRM(3, rm, reg)>>
RegReg(sz, ops, reg, rm) ==
  RexIf(W(sz), Ext(reg), 0, Ext(rm)) \o ops \o <<ModRM(3, reg, rm)>>
RegMem(sz, ops, reg, m) == RexIf(W(sz), Ext(reg), 0, 0) \o ops \o EncodeMem(m, reg)
One(sz, ops, digit, rm) == RexIf(W(sz), 0, 0, Ext(rm)) \o ops \o <<ModRM(3, digit, rm)>>

Are(i, src, dst) == i.args[1].k = src /\ i.args[2].k = dst
Src(i) == i.args[1]
Dst(i) == i.args[2]
Narrow(sz, byte, other) == <<Op(IF sz = "b" THEN byte ELSE other)>>

-----------------------------------------------------------------------------
(* One encoder per family of instructions *)

AluDigit == [add |-> 0, or |-> 1, and |-> 4, sub |-> 5, xor |-> 6, cmp |-> 7]

EncodeAlu(i, digit) ==
  CASE Are(i, "imm", "reg") /\ i.sz = "b" ->
         One("b", <<Op(\h80)>>, digit, Dst(i).id) \o <<Num(1, Src(i).n)>>
    [] Are(i, "imm", "reg") /\ i.sz # "b" /\ i.sz # "w" /\ IsInt8(Src(i).n) ->
         One(i.sz, <<Op(\h83)>>, digit, Dst(i).id) \o <<Num(1, Src(i).n)>>
    [] Are(i, "imm", "reg") ->
         Word(i.sz) \o One(i.sz, <<Op(IF i.sz = "l" THEN \h82 ELSE \h81)>>, digit, Dst(i).id)
         \o <<Num(IF i.sz = "w" THEN 2 ELSE 4, Src(i).n)>>
    [] Are(i, "imm", "mem") ->
         RegMem(i.sz, <<Op(\h81)>>, digit, Dst(i))
         \o (IF i.sz \in {"l", "q"} THEN <<Num(4, Src(i).n)>> ELSE <<>>)
    [] Are(i, "reg", "reg") ->
         Word(i.sz) \o RegReg(i.sz, <<Op(8 * digit + 1)>>, Src(i).id, Dst(i).id)
    [] Are(i, "mem", "reg") -> Word(i.sz) \o RegMem(i.sz, <<Op(8 * digit + 3)>>, Dst(i).id, Src(i))
    [] Are(i, "reg", "mem") -> Word(i.sz) \o RegMem(i.sz, <<Op(8 * digit + 1)>>, Src(i).id, Dst(i))
    [] OTHER -> Bad

EncodeTest(i) ==
  CASE Are(i, "reg", "reg") -> Word(i.sz) \o RegReg(i.sz, <<Op(\h85)>>, Src(i).id, Dst(i).id)
    [] Are(i, "imm", "reg") ->
         Word(i.sz) \o One(i.sz, Narrow(i.sz, \hF6, \hF7), 0, Dst(i).id)
         \o (CASE i.sz = "b" -> <<Num(1, Src(i).n)>>
               [] i.sz \in {"l", "q"} -> <<Num(4, Src(i).n)>>
               [] OTHER -> <<>>)
    [] OTHER -> Bad

\* encode_shift looks at no operand kind: a destination in memory has the
\* register number of a cleared operand.
EncodeShift(i) ==
  LET digit == CASE i.op = "sar" -> 7 [] i.op = "shr" -> 5 [] i.op = "shl" -> 4
      id == IF Dst(i).k = "reg" THEN Dst(i).id ELSE 0
  IN  Word(i.sz)
      \o (CASE Src(i).k = "imm" /\ Src(i).n = 1 ->
                 One(i.sz, Narrow(i.sz, \hD0, \hD1), digit, id)
            [] Src(i).k = "imm" /\ Src(i).n # 1 ->
                 One(i.sz, Narrow(i.sz, \hC0, \hC1), digit, id) \o <<Num(1, Src(i).n)>>
            [] OTHER -> One(i.sz, Narrow(i.sz, \hD2, \hD3), digit, id))

\* An immediate of a register: B8 (B0 for bytes) plus the whole register
\* number, and a 64-bit form only for a negative quadword.
MovImm(sz, n, id) ==
  LET long == sz = "q" /\ n < 0
  IN  Word(sz) \o RexIf(Bit(long), 0, 0, Ext(id))
      \o <<Op((IF sz = "b" THEN \hB0 ELSE \hB8) + (id % 16)),
           Num(CASE long -> 8 [] sz = "w" -> 2 [] sz = "b" -> 1 [] OTHER -> 4, n)>>

EncodeMov(i) ==
  CASE Are(i, "imm", "reg") -> MovImm(i.sz, Src(i).n, Dst(i).id)
    [] Are(i, "reg", "reg") ->
         Word(i.sz) \o RegReg(i.sz, Narrow(i.sz, \h88, \h89), Src(i).id, Dst(i).id)
    [] Are(i, "mem", "reg") ->
         Word(i.sz) \o RegMem(i.sz, Narrow(i.sz, \h8A, \h8B), Dst(i).id, Src(i))
    [] Are(i, "reg", "mem") ->
         Word(i.sz) \o RegMem(i.sz, Narrow(i.sz, \h88, \h89), Src(i).id, Dst(i))
    [] OTHER -> Bad

\* opcode, escaped by 0F or not, size of the destination
ExtMoves ==
  [movslq |-> <<\h63, FALSE, "q">>, movswq |-> <<\hBF, TRUE, "q">>, movswl |-> <<\hBF, TRUE, "l">>,
   movsbq |-> <<\hBE, TRUE, "q">>, movsbl |-> <<\hBE, TRUE, "l">>, movzbq |-> <<\hB6, TRUE, "q">>,
   movzbl |-> <<\hB6, TRUE, "l">>, movzbw |-> <<\hB6, TRUE, "w">>, movzwl |-> <<\hB7, TRUE, "l">>,
   movzwq |-> <<\hB7, TRUE, "q">>]

\* Between two registers, REX has the destination as the register field and
\* ModR/M has the source there.
EncodeExtMove(i, form) ==
  LET ops == IF form[2] THEN <<Op(\h0F), Op(form[1])>> ELSE <<Op(form[1])>>
  IN  CASE Are(i, "mem", "reg") -> Word(form[3]) \o RegMem(form[3], ops, Dst(i).id, Src(i))
        [] Are(i, "reg", "reg") ->
             Word(form[3]) \o RexIf(W(form[3]), Ext(Dst(i).id), 0, Ext(Src(i).id))
             \o ops \o <<ModRM(3, Src(i).id, Dst(i).id)>>
        [] OTHER -> Bad

EncodeLea(i) ==
  IF Are(i, "mem", "reg")
  THEN RexIf(W(i.sz), Ext(Dst(i).id), Ext(Src(i).index), Ext(Src(i).base))
       \o <<Op(\h8D)>> \o EncodeMem(Src(i), Dst(i).id)
  ELSE Bad

EncodeImul(i) ==
  CASE Len(i.args) = 2 /\ Are(i, "reg", "reg") ->
         RegReg(i.sz, <<Op(\h0F), Op(\hAF)>>, Dst(i).id, Src(i).id)
    [] Len(i.args) = 2 /\ Are(i, "mem", "reg") ->
         RegMem(i.sz, <<Op(\h0F), Op(\hAF)>>, Dst(i).id, Src(i))
    [] Len(i.args) = 3 /\ Are(i, "imm", "reg") /\ i.args[3].k = "reg" ->
         RegReg(i.sz, <<Op(IF IsInt8(Src(i).n) THEN \h6B ELSE \h69)>>, i.args[3].id, Dst(i).id)
         \o <<Num(IF IsInt8(Src(i).n) THEN 1 ELSE 4, Src(i).n)>>
    [] OTHER -> Bad

\* div and idiv, and the one-operand not, neg, inc and dec
EncodeDiv(i) ==
  LET digit == IF i.op = "div" THEN 6 ELSE 7
  IN  CASE Src(i).k = "reg" -> One(i.sz, Narrow(i.sz, \hF6, \hF7), digit, Src(i).id)
        [] Src(i).k = "mem" -> RegMem(i.sz, Narrow(i.sz, \hF6, \hF7), digit, Src(i))
        [] OTHER -> Bad

EncodeUnary(i) ==
  LET digit == [neg |-> 3, not |-> 2, inc |-> 0, dec |-> 1][i.op]
  IN  IF Src(i).k = "reg" THEN Word(i.sz) \o One(i.sz, Narrow(i.sz, \hF6, \hF7), digit, Src(i).id)
      ELSE Bad

\* The linear displacement of a call, a jump or a branch is resolved by the
\* assembler; a call through a register or through memory is FF /2.
EncodeCall(i) ==
  CASE Src(i).k = "imm" /\ Src(i).sym # NoSym -> <<Op(\hE8), Rel(Src(i).sym)>>
    [] Src(i).k = "reg" -> One("l", <<Op(\hFF)>>, 2, Src(i).id)
    [] Src(i).k = "mem" -> <<Op(\hFF)>> \o EncodeMem(Src(i), 2)
    [] OTHER -> Bad

EncodeJmp(i) ==
  IF Src(i).k = "imm" /\ Src(i).sym # NoSym THEN <<Op(\hE9), Rel(Src(i).sym)>> ELSE Bad

CcCode == [be |-> 6, b |-> 2, le |-> 14, l |-> 12, g |-> 15, ge |-> 13, a |-> 7, ae |-> 3,
           z |-> 4, nz |-> 5, np |-> 11, p |-> 10]

EncodeJcc(i) ==
  IF i.cc \in DOMAIN CcCode /\ Src(i).k = "imm" /\ Src(i).sym # NoSym
  THEN <<Op(\h0F), Op(\h80 + CcCode[i.cc]), Rel(Src(i).sym)>> ELSE Bad

EncodeSetcc(i) ==
  IF i.cc \in DOMAIN CcCode /\ Src(i).k = "reg"
  THEN (IF Ext(Src(i).id) = 1 \/ Src(i).id \in RSP..RDI THEN <<<<"rex", 0, 0, 0, Ext(Src(i).id)>>>>
                                                        ELSE <<>>)
       \o <<Op(\h0F), Op(\h90 + CcCode[i.cc]), ModRM(3, 0, Src(i).id)>>
  ELSE Bad

EncodePush(i) ==
  CASE Src(i).k = "reg" -> RexIf(0, 0, 0, Ext(Src(i).id)) \o <<Op(\h50 + (Src(i).id % 16))>>
    [] Src(i).k = "imm" -> IF IsInt8(Src(i).n) THEN <<Op(\h6A), Num(1, Src(i).n)>>
                                              ELSE <<Op(\h68), Num(4, Src(i).n)>>
    [] OTHER -> Bad

EncodePop(i) ==
  IF Src(i).k = "reg" THEN RexIf(0, 0, 0, Ext(Src(i).id)) \o <<Op(\h58 + (Src(i).id % 16))>> ELSE Bad

EncodeXchg(i) ==
  IF Are(i, "reg", "reg") THEN RegReg(i.sz, <<Op(\h87)>>, Src(i).id, Dst(i).id) ELSE Bad

-----------------------------------------------------------------------------
(* SSE: REX comes first, then the prefix, then 0F and the opcode. *)

Sse == [mulss |-> <<\hF3, \h59>>, mulsd |-> <<\hF2, \h59>>, divss |-> <<\hF3, \h5E>>,
        divsd |-> <<\hF2, \h5E>>, addss |-> <<\hF3, \h58>>, addsd |-> <<\hF2, \h58>>,
        subss |-> <<\hF3, \h5C>>, subsd |-> <<\hF2, \h5C>>, movss |-> <<\hF3, \h10>>,
        movsd |-> <<\hF2, \h10>>, movaps |-> <<\h00, \h28>>, cvtss2sd |-> <<\hF3, \h5A>>,
        cvtsd2ss |-> <<\hF2, \h5A>>, ucomiss |-> <<\h00, \h2E>>, ucomisd |-> <<\h66, \h2E>>,
        xorps |-> <<\h00, \h57>>, xorpd |-> <<\h66, \h57>>]
FromFloat == [cvttss2si |-> <<\hF3, \h2C>>, cvttsd2si |-> <<\hF2, \h2C>>]
ToFloat == [cvtsi2ss |-> <<\hF3, \h2A>>, cvtsi2sd |-> <<\hF2, \h2A>>]

IsXmm(o) == o.k = "reg" /\ o.id \in 16..31

\* movsd between two registers is given its store opcode.
SseForm(i) == IF i.op = "movsd" /\ IsXmm(Src(i)) /\ IsXmm(Dst(i)) THEN <<\hF2, \h11>> ELSE Sse[i.op]
Escaped(form) == <<Op(form[1]), Op(\h0F), Op(form[2])>>

EncodeSse(i, ops) ==
  CASE Are(i, "reg", "reg") ->
         RexIf(0, XExt(Src(i).id), 0, XExt(Dst(i).id)) \o ops \o <<ModRM(3, Dst(i).id, Src(i).id)>>
    [] Are(i, "mem", "reg") -> RexIf(0, XExt(Dst(i).id), 0, 0) \o ops \o EncodeMem(Src(i), Dst(i).id)
    [] Are(i, "reg", "mem") -> RexIf(0, XExt(Src(i).id), 0, 0) \o ops \o EncodeMem(Dst(i), Src(i).id)
    [] OTHER -> Bad

EncodeToFloat(i, ops) ==
  CASE Are(i, "reg", "reg") ->
         RexIf(1, XExt(Dst(i).id), 0, Ext(Src(i).id)) \o ops \o <<ModRM(3, Dst(i).id, Src(i).id)>>
    [] Are(i, "mem", "reg") -> RexIf(1, XExt(Dst(i).id), 0, 0) \o ops \o EncodeMem(Src(i), Dst(i).id)
    [] OTHER -> Bad

EncodeFromFloat(i, ops) ==
  CASE Are(i, "reg", "reg") ->
         RexIf(1, XExt(Src(i).id), 0, Ext(Dst(i).id)) \o ops \o <<ModRM(3, Dst(i).id, Src(i).id)>>
    [] Are(i, "mem", "reg") -> RexIf(1, 0, 0, Ext(Dst(i).id)) \o ops \o EncodeMem(Src(i), Dst(i).id)
    [] OTHER -> Bad

-----------------------------------------------------------------------------
(* Dispatch on the mnemonic and the number of operands that were read. *)

Plain == [ret |-> <<Op(\hC3)>>, leave |-> <<Op(\hC9)>>, nop |-> <<Op(\h90)>>,
          cqto |-> <<<<"rex", 1, 0, 0, 0>>, Op(\h99)>>, cltd |-> <<Op(\h99)>>,
          syscall |-> <<Op(\h0F), Op(\h05)>>]

EncodeRead(i, n) ==
  CASE i.op \in DOMAIN Plain -> Plain[i.op]
    [] i.op \in DOMAIN AluDigit /\ n = 2 -> EncodeAlu(i, AluDigit[i.op])
    [] i.op = "test" /\ n = 2 -> EncodeTest(i)
    [] i.op \in {"sar", "shr", "shl"} /\ n = 2 -> EncodeShift(i)
    [] i.op = "mov" /\ n = 2 -> EncodeMov(i)
    [] i.op \in DOMAIN ExtMoves /\ n >= 2 -> EncodeExtMove(i, ExtMoves[i.op])
    [] i.op = "lea" /\ n = 2 -> EncodeLea(i)
    [] i.op = "imul" /\ n >= 2 -> EncodeImul(i)
    [] i.op \in {"div", "idiv"} /\ n = 1 -> EncodeDiv(i)
    [] i.op \in {"neg", "not", "inc", "dec"} /\ n = 1 -> EncodeUnary(i)
    [] i.op = "call" /\ n = 1 -> EncodeCall(i)
    [] i.op = "jmp" /\ n = 1 -> EncodeJmp(i)
    [] i.op = "j" /\ n = 1 -> EncodeJcc(i)
    [] i.op = "set" /\ n = 1 -> EncodeSetcc(i)
    [] i.op = "push" /\ n = 1 -> EncodePush(i)
    [] i.op = "pop" /\ n = 1 -> EncodePop(i)
    [] i.op = "xchg" /\ n = 2 -> EncodeXchg(i)
    [] i.op \in DOMAIN Sse /\ n = 2 -> EncodeSse(i, Escaped(SseForm(i)))
    [] i.op \in DOMAIN FromFloat /\ n = 2 -> EncodeFromFloat(i, Escaped(FromFloat[i.op]))
    [] i.op \in DOMAIN ToFloat /\ n = 2 -> EncodeToFloat(i, Escaped(ToFloat[i.op]))
    [] OTHER -> Bad

Encode(i) == LET args == ReadOperands(i.args)
             IN  EncodeRead([i EXCEPT !.args = args], Len(args))
=============================================================================
