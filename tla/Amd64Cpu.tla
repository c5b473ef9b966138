------------------------------ MODULE Amd64Cpu ------------------------------
(***************************************************************************)
(* How an x86-64 processor reads the pieces of an encoded instruction: the  *)
(* architecture's side of Amd64, restricted to the opcodes that the         *)
(* assembler writes.  Decode returns the instruction, or Junk.              *)
(***************************************************************************)
EXTENDS Amd64

Junk == [op |-> "junk", cc |-> "", sz |-> "", args |-> <<>>]

\* Legacy prefixes come before REX, and a REX that is not directly in front of
\* the opcode is ignored.
IsLead(p) == p[1] = "rex" \/ (p[1] = "op" /\ p[2] \in {\h66, \hF2, \hF3})
Lead(ps) == LET n == SelectInSeq(ps, LAMBDA p : ~IsLead(p))
            IN  IF n = 0 THEN ps ELSE SubSeq(ps, 1, n - 1)
Rex(lead) == IF lead # <<>> /\ Last(lead)[1] = "rex" THEN Last(lead) ELSE <<"rex", 0, 0, 0, 0>>
HasRex(lead) == lead # <<>> /\ Last(lead)[1] = "rex"
Legacy(lead) == {lead[i][2] : i \in {j \in DOMAIN lead : lead[j][1] = "op"}}

\* The opcode with its escape: 0F xx is 256 + xx.
OpCode(rest) == CASE rest = <<>> \/ rest[1][1] # "op" -> -1
                  [] rest[1][2] # \h0F -> rest[1][2]
                  [] Len(rest) >= 2 /\ rest[2][1] = "op" -> 256 + rest[2][2]
                  [] OTHER -> -1
AfterOp(rest, code) == SubSeq(rest, IF code >= 256 THEN 3 ELSE 2, Len(rest))

-----------------------------------------------------------------------------
(* ModR/M, SIB and displacement: the register field, the other operand and  *)
(* what is left of the instruction.                                          *)

NoRm == [ok |-> FALSE, reg |-> 0, k |-> "none", id |-> 0, mem |-> <<>>, rest |-> <<>>]
Address(base, index, scale, disp, sym) == <<"m", base, index, scale, disp, sym>>

Displaced(p, width) == p[1] \in {"num", "sym"} /\ p[2] = width
DispOf(p) == IF p[1] = "num" THEN <<p[3], NoSym>> ELSE <<p[3], p[4]>>

ReadAddress(m, ps, rex, base, index, scale) ==   \* ps follows ModR/M and SIB
  LET width == CASE m[2] = 1 -> 1 [] m[2] = 2 \/ base = None -> 4 [] OTHER -> 0
      ok == width = 0 \/ (ps # <<>> /\ Displaced(ps[1], width))
      d == IF width = 0 THEN <<0, NoSym>> ELSE DispOf(ps[1])
  IN  IF ~ok THEN NoRm
      ELSE [ok |-> TRUE, reg |-> m[3] + 8 * rex[3], k |-> "mem", id |-> 0,
            mem |-> Address(base, index, scale, d[1], d[2]),
            rest |-> IF width = 0 THEN ps ELSE Tail(ps)]

ReadRm(ps, rex) ==
  LET m == ps[1]
      sib == ps[2]
      rest == Tail(ps)
  IN  CASE ps = <<>> \/ m[1] # "modrm" -> NoRm
        [] m[2] = 3 -> [ok |-> TRUE, reg |-> m[3] + 8 * rex[3], k |-> "reg",
                        id |-> m[4] + 8 * rex[5], mem |-> <<>>, rest |-> rest]
        [] m[2] = 0 /\ m[4] = 5 -> ReadAddress(m, rest, rex, None, None, 0)
        [] m[2] # 3 /\ m[4] = 4 /\ (Len(ps) < 2 \/ sib[1] # "sib") -> NoRm
        [] m[2] # 3 /\ m[4] = 4 ->
             LET index == sib[3] + 8 * rex[4]
             IN  ReadAddress(m, Tail(rest), rex, sib[4] + 8 * rex[5],
                             IF index = RSP THEN None ELSE index,
                             IF index = RSP THEN 1 ELSE sib[2])
        [] OTHER -> ReadAddress(m, rest, rex, m[4] + 8 * rex[5], None, 1)

-----------------------------------------------------------------------------
(* Meanings are compared in a form of their own: an operand is a tuple    *)
(* that starts with its kind: "r", "x", "m", "n" or "s".                     *)

Number(v) == <<"n", v>>
Name(v) == <<"s", v>>
GpName(id, sz, rex) ==   \* without REX, byte registers 4 to 7 are ah to bh
  IF sz = "b" /\ id \in 4..7 /\ ~rex THEN <<"high", id>> ELSE <<"r", id, sz>>
Says(op, sz, args) == [op |-> op, cc |-> "", sz |-> sz, args |-> args]

AluName == <<"add", "or", "adc", "sbb", "and", "sub", "xor", "cmp">>

\* Group opcodes: the register field of ModR/M selects the operation.
GroupName(code, digit) ==
  CASE code \in {\h80, \h81, \h83} -> AluName[digit + 1]
    [] code \in {\hF6, \hF7} -> <<"test", "test", "not", "neg", "mul", "imul", "div", "idiv">>[digit + 1]
    [] code \in {\hC0, \hC1, \hD0, \hD1, \hD2, \hD3} ->
         <<"rol", "ror", "rcl", "rcr", "shl", "shr", "sal", "sar">>[digit + 1]
    [] code = \hFF /\ digit = 2 -> "call"
    [] OTHER -> "junk"

SseName(prefix, code) ==
  LET named == {n \in DOMAIN Sse : Sse[n][2] = code - 256
                  /\ (IF Sse[n][1] = 0 THEN {} ELSE {Sse[n][1]}) = prefix}
  IN  IF named = {} THEN "junk" ELSE CHOOSE n \in named : TRUE
ConvertName(table, prefix, code) ==
  LET named == {n \in DOMAIN table : table[n][2] = code - 256 /\ {table[n][1]} = prefix}
  IN  IF named = {} THEN "junk" ELSE CHOOSE n \in named : TRUE
ExtendName(code, sz) ==
  LET named == {n \in DOMAIN ExtMoves : ExtMoves[n][3] = sz
                  /\ ExtMoves[n][1] + (IF ExtMoves[n][2] THEN 256 ELSE 0) = code}
  IN  IF named = {} THEN "junk" ELSE CHOOSE n \in named : TRUE
ExtendFrom(op) == CASE op \in {"movslq"} -> "l"
                    [] op \in {"movswq", "movswl", "movzwl", "movzwq"} -> "w"
                    [] OTHER -> "b"

ImmWidth(code, sz) == CASE code \in {\h80, \hC0, \hC1, \hF6, \h83, \h6B, \h6A} -> 1
                        [] sz = "w" -> 2
                        [] OTHER -> 4
OneNum(ps, width) == Len(ps) = 1 /\ ps[1][1] = "num" /\ ps[1][2] = width

\* With ModR/M: rm is the decoded operand, sz the operand size.
Rm(rm, sz, rex) == IF rm.k = "reg" THEN GpName(rm.id, sz, rex) ELSE rm.mem
XRm(rm) == IF rm.k = "reg" THEN <<"x", rm.id>> ELSE rm.mem

WithRm(code, sz, rm, rex, prefix) ==
  LET r == GpName(rm.reg, sz, rex)
      e == Rm(rm, sz, rex)
      group == GroupName(code, rm.reg % 8)
      imm == IF rm.rest = <<>> THEN 0 ELSE rm.rest[1][3]
      ends == rm.rest = <<>>
  IN  CASE ~rm.ok -> Junk
        [] code < \h40 /\ code % 8 \in 0..1 /\ ends -> Says(AluName[(code \div 8) + 1], sz, <<r, e>>)
        [] code < \h40 /\ code % 8 \in 2..3 /\ ends -> Says(AluName[(code \div 8) + 1], sz, <<e, r>>)
        [] code \in {\h80, \h81, \h83, \hC0, \hC1} /\ OneNum(rm.rest, ImmWidth(code, sz)) ->
             Says(group, sz, <<Number(imm), e>>)
        [] code \in {\hF6, \hF7} /\ group = "test" /\ OneNum(rm.rest, ImmWidth(code, sz)) ->
             Says("test", sz, <<Number(imm), e>>)
        [] code \in {\hF6, \hF7} /\ group # "test" /\ ends -> Says(group, sz, <<e>>)
        [] code \in {\hD0, \hD1} /\ ends -> Says(group, sz, <<Number(1), e>>)
        [] code \in {\hD2, \hD3} /\ ends -> Says(group, sz, <<<<"r", RCX, "b">>, e>>)
        [] code = \h85 /\ ends -> Says("test", sz, <<r, e>>)
        [] code = \h87 /\ ends -> Says("xchg", sz, <<r, e>>)
        [] code \in {\h88, \h89} /\ ends -> Says("mov", sz, <<r, e>>)
        [] code \in {\h8A, \h8B} /\ ends -> Says("mov", sz, <<e, r>>)
        [] code = \h8D /\ rm.k = "mem" /\ ends -> Says("lea", sz, <<e, r>>)
        [] code \in {\h69, \h6B} /\ OneNum(rm.rest, ImmWidth(code, sz)) -> Says("imul", sz, <<Number(imm), e, r>>)
        [] code = 256 + \hAF /\ ends -> Says("imul", sz, <<e, r>>)
        [] code = \hFF /\ group = "call" /\ ends -> Says("call", "q", <<Rm(rm, "q", rex)>>)
        [] code \in {\h63, 256 + \hBE, 256 + \hBF, 256 + \hB6, 256 + \hB7} /\ ends ->
             LET op == ExtendName(code, sz)
             IN  Says(op, sz, <<Rm(rm, ExtendFrom(op), rex), r>>)
        [] code \in 256 + \h90..256 + \h9F /\ ends ->
             [Says("set", "b", <<Rm(rm, "b", rex)>>) EXCEPT !.cc = ToString(code - 256 - \h90)]
        [] code = 256 + \h2A /\ ends ->
             Says(ConvertName(ToFloat, prefix, code), sz, <<e, <<"x", rm.reg>>>>)
        [] code = 256 + \h2C /\ ends -> Says(ConvertName(FromFloat, prefix, code), sz, <<XRm(rm), r>>)
        [] code = 256 + \h11 /\ prefix = {\hF2} /\ ends -> Says("movsd", "", <<<<"x", rm.reg>>, XRm(rm)>>)
        [] code = 256 + \h11 /\ prefix = {\hF3} /\ ends -> Says("movss", "", <<<<"x", rm.reg>>, XRm(rm)>>)
        [] code > 256 /\ ends -> Says(SseName(prefix, code), "", <<XRm(rm), <<"x", rm.reg>>>>)
        [] OTHER -> Junk

-----------------------------------------------------------------------------
(* The whole instruction *)

HasRm(code) == \/ code \in 0..\h3F \/ code \in {\h63, \h69, \h6B} \/ code \in \h80..\h8D
               \/ code \in {\hC0, \hC1} \/ code \in \hD0..\hD3 \/ code \in {\hF6, \hF7, \hFF}
               \/ (code > 256 /\ code \notin 256 + \h80..256 + \h8F /\ code # 256 + 5)
ByteOp(code) == code \in {\h80, \h84, \h86, \h88, \h8A, \hC0, \hD0, \hD2, \hF6} \/ (code < \h40 /\ code % 2 = 0)

Decoded(code, sz, rest, rex, named, prefix) ==
  LET tail == IF rest = <<>> THEN <<>> ELSE rest[1]
      id == (code % 8) + 8 * rex[5]
  IN  CASE HasRm(code) -> WithRm(code, IF ByteOp(code) THEN "b" ELSE sz, ReadRm(rest, rex), named, prefix)
        [] code \in \h50..\h57 /\ rest = <<>> -> Says("push", "q", <<<<"r", id, "q">>>>)
        [] code \in \h58..\h5F /\ rest = <<>> -> Says("pop", "q", <<<<"r", id, "q">>>>)
        [] code = \h6A /\ OneNum(rest, 1) -> Says("push", "q", <<Number(tail[3])>>)
        [] code = \h68 /\ OneNum(rest, 4) -> Says("push", "q", <<Number(tail[3])>>)
        [] code \in \hB0..\hB7 /\ OneNum(rest, 1) -> Says("mov", "b", <<Number(tail[3]), GpName(id, "b", named)>>)
        [] code \in \hB8..\hBF /\ OneNum(rest, IF sz = "q" THEN 8 ELSE ImmWidth(code, sz)) ->
             Says("mov", sz, <<Number(tail[3]), <<"r", id, sz>>>>)
        [] code = \hE8 /\ Len(rest) = 1 /\ tail[1] = "rel" -> Says("call", "q", <<Name(tail[3])>>)
        [] code = \hE9 /\ Len(rest) = 1 /\ tail[1] = "rel" -> Says("jmp", "q", <<Name(tail[3])>>)
        [] code \in 256 + \h80..256 + \h8F /\ Len(rest) = 1 /\ tail[1] = "rel" ->
             [Says("j", "q", <<Name(tail[3])>>) EXCEPT !.cc = ToString(code - 256 - \h80)]
        [] code = \hC3 /\ rest = <<>> -> Says("ret", "", <<>>)
        [] code = \hC9 /\ rest = <<>> -> Says("leave", "", <<>>)
        [] code = \h90 /\ rest = <<>> -> Says("nop", "", <<>>)
        [] code = \h99 /\ rest = <<>> -> Says(IF sz = "q" THEN "cqto" ELSE "cltd", "", <<>>)
        [] code = 256 + 5 /\ rest = <<>> -> Says("syscall", "", <<>>)
        [] OTHER -> Junk

DecodeAfter(lead, rest, code) ==
  LET rex == Rex(lead)
      sz == CASE rex[2] = 1 -> "q" [] \h66 \in Legacy(lead) -> "w" [] OTHER -> "l"
  IN  Decoded(code, sz, AfterOp(rest, code), rex, HasRex(lead), Legacy(lead))
Decode(ps) ==
  LET lead == Lead(ps)
      rest == SubSeq(ps, Len(lead) + 1, Len(ps))
  IN  IF OpCode(rest) < 0 THEN Junk ELSE DecodeAfter(lead, rest, OpCode(rest))

-----------------------------------------------------------------------------
(* What the line of assembly says, in the same form. *)

SourceOperand(a) ==
  CASE a.k = "reg" /\ a.id >= 16 -> <<"x", a.id - 16>>
    [] a.k = "reg" /\ a.id < 16 -> <<"r", a.id, a.sz>>
    [] a.k = "imm" -> IF a.sym = NoSym THEN Number(a.n) ELSE Name(a.sym)
    [] a.k = "mem" -> IF a.rip THEN Address(None, None, 0, IF a.sym = NoSym THEN a.disp ELSE a.off, a.sym)
                      ELSE Address(a.base, a.index, a.scale,
                                   IF a.sym = NoSym THEN a.disp ELSE a.off, a.sym)

\* Sizes of instructions that have one size are not spelled; a quadword move
\* of a number that is not negative is the move of the lower half.
Meaning(i) ==
  LET args == [j \in DOMAIN i.args |-> SourceOperand(i.args[j])]
      plain == i.op \in DOMAIN Plain \cup DOMAIN Sse
      short == i.op = "mov" /\ i.sz = "q" /\ i.args[1].k = "imm" /\ i.args[2].k = "reg"
               /\ i.args[1].n >= 0
  IN  CASE plain -> [i EXCEPT !.sz = "", !.args = args]
        [] short -> [i EXCEPT !.sz = "l", !.args = <<args[1], <<"r", i.args[2].id, "l">>>>]
        [] i.op \in DOMAIN ExtMoves -> [i EXCEPT !.sz = ExtMoves[i.op][3], !.args = args]
        [] i.op \in {"set"} -> [i EXCEPT !.sz = "b", !.cc = ToString(CcCode[i.cc]), !.args = args]
        [] i.op \in {"j"} -> [i EXCEPT !.cc = ToString(CcCode[i.cc]), !.args = args]
        [] OTHER -> [i EXCEPT !.args = args]
=============================================================================
