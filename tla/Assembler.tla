----------------------------- MODULE Assembler ------------------------------
(***************************************************************************)
(* The single pass of the integrated x86-64 assembler over its source text, *)
(* src/asm_amd64.c: sections, symbols, labels, relocations and the branches *)
(* that wait for a label.  Bytes are kept where a later step reads or       *)
(* writes them: fields maps the position of such a field to its value.      *)
(*                                                                          *)
(* A line is label(name), section(name), globl(name), align(n), put(n), n   *)
(* bytes of data, quad(name), instruction(i), other, a directive that is    *)
(* not supported, or note, one that is recorded or ignored.                 *)
(***************************************************************************)
EXTENDS Amd64, Layout

Sections == {"text", "data", "bss", "rodata"}
Undefined == "undefined"                     \* section -1

Line == [k : {"label", "globl", "quad"}, name : STRING] \cup [k : {"section"}, name : Sections]
        \cup [k : {"align"}, n : Nat \ {0}] \cup [k : {"put"}, n : Nat] \cup [k : {"other"}]
        \cup [k : {"note"}, stack : BOOLEAN] \cup [k : {"instruction"}, i : Instruction]

EmptySection == [len |-> 0, used |-> FALSE, fields |-> <<>>, relocs |-> <<>>]
EmptyUnit == [cur |-> "text", sec |-> [s \in Sections |-> EmptySection], syms |-> <<>>,
              labels |-> <<>>, fixups |-> <<>>, stack |-> FALSE, failed |-> FALSE]

Here(u) == u.sec[u.cur].len
Fail(u) == [u EXCEPT !.failed = TRUE]
Put(u, n) == [u EXCEPT !.sec[u.cur].len = @ + n]
Patch(fields, at, v) == [a \in DOMAIN fields \cup {at} |-> IF a = at THEN v ELSE fields[a]]
PutField(u, at, v) == [u EXCEPT !.sec[u.cur].fields = Patch(@, at, v)]

-----------------------------------------------------------------------------
(* Symbols and labels.  A symbol has the value of its last definition, a    *)
(* branch goes to the first label of its name.                              *)

SymFind(syms, name) == SelectInSeq(syms, LAMBDA s : s.name = name)
SymIntern(u, name) ==
  IF SymFind(u.syms, name) > 0 THEN u
  ELSE [u EXCEPT !.syms = Append(@, [name |-> name, section |-> Undefined, value |-> 0,
                                     global |-> FALSE])]
LabelFind(u, name) == SelectInSeq(u.labels, LAMBDA l : l.name = name)

\* Mutation: the symbol is looked up before it is entered.
AddRelocStale(u, section, at, name, type) ==
  [SymIntern(u, name) EXCEPT !.sec[section].relocs =
     Append(@, [at |-> at, sym |-> SymFind(u.syms, name), type |-> type])]

AddReloc(u, section, at, name, type) ==
  LET v == SymIntern(u, name)
  IN  [v EXCEPT !.sec[section].relocs =
         Append(@, [at |-> at, sym |-> SymFind(v.syms, name), type |-> type])]

DefineSymbol(u, name, s) ==
  [u EXCEPT !.syms[SymFind(u.syms, name)] = [@ EXCEPT !.section = s, !.value = u.sec[s].len]]
DefineLabel(u, name) ==
  DefineSymbol(SymIntern([u EXCEPT !.labels =
                            Append(@, [name |-> name, section |-> u.cur, offset |-> Here(u)])],
                         name),
               name, u.cur)

-----------------------------------------------------------------------------
(* Instructions *)

\* The position of the piece that names a symbol; 0 if there is none.
Naming(pieces) == SelectInSeq(pieces, LAMBDA p : p[1] \in {"sym", "rel"})

\* A call or a branch: back to a label of this section, otherwise a call
\* becomes a relocation and a branch waits for its label, always as text.
Branch(u, i, name, at) ==
  LET l == LabelFind(u, name)
  IN  IF l > 0 /\ u.labels[l].section = u.cur
      THEN PutField(u, at, u.labels[l].offset - (at + 4))
      ELSE IF i.op = "call" THEN AddReloc(u, u.cur, at, name, "pc32")
      ELSE [u EXCEPT !.fixups = Append(@, [at |-> at, label |-> name])]

\* A displacement that names a symbol; `callq sym(%rip)` adds a GOT relocation
\* two bytes after its opcode.
Displacement(u, i, p, at, opAt) ==
  LET v == AddReloc(PutField(u, at, p[3]), u.cur, at, p[4], "pc32")
  IN  IF i.op = "call" /\ i.args[1].rip THEN AddReloc(v, v.cur, opAt + 2, p[4], "gotpcrelx") ELSE v

Emitted(u, i, ps, k) ==   \* k: the piece that names a symbol
  LET before == Size(SubSeq(ps, 1, k - 1))
      v == Put(u, Size(ps))
  IN  CASE k = 0 -> v
        [] k > 0 /\ ps[k][1] = "rel" -> Branch(v, i, ps[k][3], Here(u) + before)
        [] k > 0 /\ ps[k][1] = "sym" ->
             Displacement(v, i, ps[k], Here(u) + before, Here(u) + 1)

EncodeInstruction(u, i) ==
  LET ps == Encode(i) IN IF ps = Bad THEN Fail(u) ELSE Emitted(u, i, ps, Naming(ps))

-----------------------------------------------------------------------------
(* Directives *)

AlignSection(u, n) == Put(u, Align(Here(u), n) - Here(u))

HandleDirective(u, d) ==
  CASE d.k = "section" -> [u EXCEPT !.cur = d.name, !.sec[d.name].used = TRUE]
    [] d.k = "align" -> AlignSection(u, d.n)
    [] d.k = "globl" ->
         LET v == SymIntern(u, d.name)
         IN  [v EXCEPT !.syms[SymFind(v.syms, d.name)].global = TRUE]
    [] d.k = "put" -> Put(u, d.n)
    [] d.k = "quad" -> AddReloc(Put(PutField(u, Here(u), 0), 8), u.cur, Here(u), d.name, "abs64")
    [] d.k = "note" -> [u EXCEPT !.stack = @ \/ d.stack]
    [] d.k = "other" -> Fail(u)

AssembleLine(u, line) ==
  CASE line.k = "label" -> DefineLabel(u, line.name)
    [] line.k = "instruction" -> EncodeInstruction(u, line.i)
    [] OTHER -> HandleDirective(u, line)

-----------------------------------------------------------------------------
(* After the last line: the branches that still wait. *)

ResolveFixup(u, f) ==
  LET l == LabelFind(u, f.label)
  IN  IF l = 0 THEN AddReloc(u, "text", f.at, f.label, "pc32")
      ELSE IF u.labels[l].section # "text" THEN Fail(u)
      ELSE [u EXCEPT !.sec["text"].fields = Patch(@, f.at, u.labels[l].offset - (f.at + 4))]

ResolveFixups(u) ==
  LET after[n \in 0..Len(u.fixups)] ==
        IF n = 0 THEN u
        ELSE IF after[n - 1].failed THEN after[n - 1] ELSE ResolveFixup(after[n - 1], u.fixups[n])
  IN  after[Len(u.fixups)]
=============================================================================
