----------------------------- MODULE MCToolchain -----------------------------
(***************************************************************************)
(* Texts for the toolchain: every instruction form on its own, and programs *)
(* of user_main, with a datum v in one of the sections, that the C runtime  *)
(* calls.                                                                    *)
(***************************************************************************)
EXTENDS Toolchain

Label(name) == [k |-> "label", name |-> name]
InSection(name) == [k |-> "section", name |-> name]
Globl(name) == [k |-> "globl", name |-> name]
Bytes(n) == [k |-> "put", n |-> n]
Do(i) == [k |-> "instruction", i |-> i]

-----------------------------------------------------------------------------
(* Instruction forms *)

Gp == {RAX, RSP, RBP, R12}
Regs(sz) == [k : {"reg"}, id : Gp, sz : {sz}]
Xmms == [k : {"reg"}, id : {Xmm(1), Xmm(9)}, sz : {"x"}]
Imms == {Imm(1), Imm(-1), Imm(1000)}
Mems == {Mem(b, None, 1) : b \in {RAX, RSP, RBP, R12, R13}}
        \cup {At(300, RSP), At(8, R9), Mem(RBP, RCX, 8), Mem(RAX, R9, 8), Rip("x", 0), Rip("x", 4),
              [Mem(RAX, None, 1) EXCEPT !.sym = "x", !.off = 4]}
Sizes == {"b", "w", "l", "q"}

Of2(ops, A(_), B(_)) ==
  UNION {{Ins(op, sz, <<a, b>>) : op \in ops, a \in A(sz), b \in B(sz)} : sz \in Sizes}
Of1(ops, A(_)) == UNION {{Ins(op, sz, <<a>>) : op \in ops, a \in A(sz)} : sz \in Sizes}
Memory(sz) == Mems
Number1(sz) == Imms
Count(sz) == {Imm(1), Imm(3), Reg(RCX, "b")}

Forms ==
  Of2({"add", "cmp", "mov", "test", "xchg", "imul"}, Regs, Regs)
  \cup Of2({"sub", "mov"}, Regs, Memory) \cup Of2({"add", "mov", "lea", "imul"}, Memory, Regs)
  \cup Of2({"and", "test", "mov"}, Number1, Regs) \cup Of2({"add", "mov"}, Number1, Memory)
  \cup Of2({"sar", "shl", "shr"}, Count, Regs)
  \cup Of1({"neg", "not", "inc", "dec", "div", "idiv"}, Regs) \cup Of1({"idiv"}, Memory)
  \cup UNION {{Ins("imul", sz, <<n, a, b>>) : n \in Imms, a, b \in Regs(sz)} : sz \in Sizes}
  \cup UNION {{Ins(op, ExtMoves[op][3], <<a, b>>) :
                 a \in Regs(ExtendFrom(op)) \cup {Mem(RBP, None, 1)}, b \in Regs(ExtMoves[op][3])} :
              op \in DOMAIN ExtMoves}
  \cup {Ins("push", "q", <<a>>) : a \in Regs("q") \cup Imms} \cup {Ins("pop", "q", <<a>>) : a \in Regs("q")}
  \cup {Ins("mov", "q", <<Lab("x"), a>>) : a \in Regs("q")}
  \cup {Ins("call", "q", <<a>>) : a \in Regs("q") \cup Mems}
  \cup {Ins(op, "", <<>>) : op \in DOMAIN Plain}
  \cup {Cond("j", cc, Lab("x")) : cc \in DOMAIN CcCode}
  \cup {Cond("set", cc, a) : cc \in {"z", "ge", "ne"}, a \in Regs("b")}
  \cup {Ins(op, "", <<a, b>>) : op \in DOMAIN Sse, a \in Xmms \cup {Mem(RBP, None, 1)}, b \in Xmms}
  \cup {Ins(op, "", <<a, Mem(RBP, None, 1)>>) : op \in {"movss", "movsd", "movaps"}, a \in Xmms}
  \cup {Ins("mov", "q", <<a, b>>) : a \in Xmms, b \in Xmms \cup Regs("q")}
  \cup {Ins(op, "q", <<a, b>>) : op \in DOMAIN ToFloat, a \in Regs("q"), b \in Xmms}
  \cup {Ins(op, "q", <<a, b>>) : op \in DOMAIN FromFloat, a \in Xmms, b \in Regs("q")}

-----------------------------------------------------------------------------
(* Programs *)

\* v in one section, some bytes in others, then user_main.
Data(home, others) ==
  FlattenSeq([n \in 1..3 |->
    LET s == <<"data", "bss", "rodata">>[n]
    IN  CASE s = home -> <<InSection(s), Bytes(4), Label("v"), Bytes(8)>>
          [] s # home /\ s \in others -> <<InSection(s), Bytes(4)>>
          [] OTHER -> <<>>])
Programs ==
  {Data(home, others) \o <<InSection("text"), Globl("user_main"), Label("user_main")>> :
     home \in {"data", "bss", "rodata"}, others \in SUBSET {"data", "bss", "rodata"}}
  \cup {<<InSection("bss"), Label("v"), InSection("text"), Globl("user_main"), Label("user_main")>>}

AllStarts == {[text |-> p, more |-> 3] : p \in Programs}
             \cup {[text |-> <<Do(i)>>, more |-> 0] : i \in Forms}

Reg64(id) == Reg(id, "q")
AllLines ==
  {Do(i) : i \in {Ins("call", "q", <<Lab("tiq_print")>>), Ins("call", "q", <<Lab("exit")>>),
                  Ins("call", "q", <<Lab("puts")>>), Ins("call", "q", <<Rip("exit", 0)>>),
                  Ins("jmp", "q", <<Lab("end")>>), Cond("j", "nz", Lab("end")),
                  Ins("lea", "q", <<Rip("v", 0), Reg64(RAX)>>),
                  Ins("mov", "q", <<Rip("v", 4), Reg64(RAX)>>),
                  Ins("mov", "l", <<Imm(1), Rip("v", 0)>>)}}
  \cup {Label("end"), InSection("bss"), InSection("text"),
        [k |-> "align", n |-> 16], [k |-> "quad", name |-> "v"],
        [k |-> "note", stack |-> TRUE], [k |-> "other"]}

-----------------------------------------------------------------------------
(* The runtime: main calls user_main and exit, prints to stdout and reads a  *)
(* constant; tiq_print is what the program calls.                            *)

RuntimeNames == <<".text", ".rela.text", ".data", ".bss", ".rodata", ".comment", ".eh_frame",
                  ".rela.eh_frame", ".note.GNU-stack", ".symtab", ".strtab", ".shstrtab">>
RuntimeHeader(name, type, off, size, info) ==
  [name |-> name, type |-> type, off |-> off, size |-> size, link |-> 0, info |-> info]
RuntimeHeaders ==
  <<None0,
    RuntimeHeader(".text", "progbits", 64, 60, 0), RuntimeHeader(".rela.text", "rela", 400, 120, 1),
    RuntimeHeader(".data", "progbits", 124, 8, 0), RuntimeHeader(".bss", "nobits", 132, 8, 0),
    RuntimeHeader(".rodata", "progbits", 136, 12, 0), RuntimeHeader(".comment", "progbits", 150, 20, 0),
    RuntimeHeader(".eh_frame", "progbits", 176, 56, 0), RuntimeHeader(".rela.eh_frame", "rela", 520, 48, 7),
    RuntimeHeader(".note.GNU-stack", "progbits", 232, 0, 0),
    RuntimeHeader(".symtab", "symtab", 232, 168, 0), RuntimeHeader(".strtab", "strtab", 380, 20, 0),
    RuntimeHeader(".shstrtab", "strtab", 568, 90, 0)>>
RuntimeSym(name, global, value, shndx) ==
  [name |-> name, global |-> global, value |-> value, shndx |-> shndx]
Rela(offset, sym, type, addend) == [offset |-> offset, sym |-> sym, type |-> type, addend |-> addend]

CcRuntime ==
  [shoff |-> 664, shndx |-> 12,
   bytes |-> 664 :> RuntimeHeaders
     @@ 64 :> (10 :> 0 @@ 17 :> 0 @@ 24 :> 0 @@ 40 :> 0 @@ 50 :> 0)
     @@ 124 :> <<>> @@ 136 :> <<>> @@ 150 :> <<>> @@ 176 :> <<>>
     @@ 232 :> <<RuntimeSym("", FALSE, 0, 5), RuntimeSym("tiq_print", TRUE, 0, 1),
                 RuntimeSym("main", TRUE, 32, 1), RuntimeSym("user_main", TRUE, 0, 0),
                 RuntimeSym("exit", TRUE, 0, 0), RuntimeSym("stdout", TRUE, 0, 0)>>
     @@ 400 :> <<Rela(10, 1, "R_PC32", 0), Rela(17, 6, "R_GOTPCRELX", -4),
                 Rela(24, 5, "R_PLT32", -4), Rela(40, 4, "R_PLT32", -4), Rela(50, 5, "R_PLT32", -4)>>
     @@ 520 :> <<Rela(32, 1, "R_PC32", 0), Rela(40, 1, "R_PC32", 32)>>]
=============================================================================
