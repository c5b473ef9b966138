------------------------------ MODULE Toolchain ------------------------------
(***************************************************************************)
(* From assembly text to an executable on x86-64 Linux, as `tiq` does it    *)
(* with its own tools: cmd_emit_obj assembles a text and writes an object,  *)
(* link_elf_objects reads that object and the C runtime's and links them.   *)
(* A text is chosen line by line; it defines a label once and has its       *)
(* instructions in .text, as every text of the compiler does.               *)
(***************************************************************************)
EXTENDS ElfLink, Amd64Cpu

CONSTANTS
  Starts,    \* what a text may begin with, a sequence of lines, and how many
             \* more lines it may have: [text, more]
  Lines,     \* the lines that may follow
  Runtime    \* the object of the C runtime, as cc writes it

ASSUME ToolchainAssumption ==
  /\ \A s \in Starts : s.text \in Seq(Line) /\ s.more \in Nat
  /\ Lines \subseteq Line

VARIABLES
  phase,     \* the step that comes next, or how the run ended
  todo,      \* the rest of the chosen beginning
  more,      \* how many lines may still be chosen
  unit,      \* AsmUnit
  trace,     \* every line so far, with the section and the place it began at
  file,      \* the object written
  objs,      \* the objects read: the program's and the runtime's
  image      \* the executable
vars == <<phase, todo, more, unit, trace, file, objs, image>>

Nothing == <<>>

-----------------------------------------------------------------------------
(* Steps *)

Init ==
  /\ \E s \in Starts : todo = s.text /\ more = s.more
  /\ phase = "source"
  /\ unit = EmptyUnit
  /\ trace = <<>>
  /\ file = Nothing /\ objs = Nothing /\ image = Nothing

Written1(line) ==   \* what a text of the compiler may contain next
  /\ line.k = "label" => \A j \in DOMAIN trace : trace[j].line # line
  /\ line.k = "instruction" => unit.cur = "text"

\* asm_amd64_assemble: one line, the first error ends it.
Assemble(line) ==
  /\ unit' = AssembleLine(unit, line)
  /\ trace' = Append(trace, [line |-> line, sec |-> unit.cur, at |-> Here(unit)])
  /\ phase' = IF unit'.failed THEN "failed" ELSE "source"
  /\ UNCHANGED <<file, objs, image>>

AssembleNext ==
  /\ phase = "source"
  /\ \/ /\ todo # <<>>
        /\ Written1(Head(todo)) /\ Assemble(Head(todo))
        /\ todo' = Tail(todo)
        /\ UNCHANGED more
     \/ /\ todo = <<>> /\ more > 0
        /\ \E line \in Lines : Written1(line) /\ Assemble(line)
        /\ more' = more - 1
        /\ UNCHANGED todo

EndOfSource ==
  /\ phase = "source" /\ todo = <<>>
  /\ unit' = ResolveFixups(unit)
  /\ phase' = IF unit'.failed THEN "failed" ELSE "assembled"
  /\ UNCHANGED <<todo, more, trace, file, objs, image>>

\* elf_obj_write; a file that cannot be written is removed.
WriteObject ==
  /\ phase = "assembled"
  /\ \/ file' = ElfObjWrite(unit) /\ phase' = "object"
     \/ UNCHANGED file /\ phase' = "failed"
  /\ UNCHANGED <<todo, more, unit, trace, objs, image>>

\* elf_read of both objects
ReadObjects ==
  /\ phase = "object"
  /\ objs' = <<ElfRead(file), ElfRead(Runtime)>>
  /\ phase' = IF objs'[1].ok /\ objs'[2].ok THEN "read" ELSE "failed"
  /\ UNCHANGED <<todo, more, unit, trace, file, image>>

\* link_elf_exec
Link ==
  /\ phase = "read"
  /\ image' = LinkElfExec(objs, "main")
  /\ phase' = IF image'.ok THEN "image" ELSE "failed"
  /\ UNCHANGED <<todo, more, unit, trace, file, objs>>

Next == AssembleNext \/ EndOfSource \/ WriteObject \/ ReadObjects \/ Link
Spec == Init /\ [][Next]_vars

-----------------------------------------------------------------------------
(* The assembler keeps its books: a symbol, a relocation and a waiting      *)
(* branch are within what was emitted and name what exists.  Only the GOT   *)
(* relocation of a call through a symbol reaches one byte past its field.   *)
TypeOK ==
  /\ phase \in {"source", "assembled", "object", "read", "image", "failed"}
  /\ unit.cur \in Sections
  /\ \A s \in Sections :
       /\ \A a \in DOMAIN unit.sec[s].fields : a \in 0..(unit.sec[s].len - 4)
       /\ \A r \in Range(unit.sec[s].relocs) :
            /\ r.at \in 0..(unit.sec[s].len - (IF r.type = "gotpcrelx" THEN 3 ELSE 4))
            /\ r.sym \in DOMAIN unit.syms
  /\ \A s \in Range(unit.syms) :
       s.section = Undefined \/ s.value \in 0..unit.sec[s.section].len
  /\ \A f \in Range(unit.fixups) : f.at \in 0..(unit.sec["text"].len - 4)

-----------------------------------------------------------------------------
(* The bytes of an instruction mean what its line says, except in the       *)
(* families named here, which a processor reads as something else.          *)

Pair(x, src, dst) == Len(x.args) = 2 /\ Are(x, src, dst)
High(a) == a.k = "reg" /\ a.id \in 8..15
HighAddress(a) == a.k = "mem" /\ ~a.rip /\ (a.base \in 8..15 \/ a.index \in 8..15)
Some(x, P(_)) == \E j \in DOMAIN x.args : P(x.args[j])

MisencodedSse(x) ==
  \/ x.op \in DOMAIN FromFloat \cup DOMAIN ToFloat
  \/ x.op = "mov" /\ Some(x, IsXmm)
  \/ /\ x.op \in DOMAIN Sse
     /\ \/ Sse[x.op][1] = 0 \/ Dst(x).k = "mem"
        \/ Some(x, LAMBDA a : IsXmm(a) /\ a.id >= Xmm(8))
        \/ x.op = "movsd" /\ IsXmm(Src(x)) /\ Src(x) # Dst(x)

Misencoded(x) ==
  \/ x.op # "lea" /\ Some(x, HighAddress)
  \/ x.op \notin {"call", "jmp", "j"} /\ Some(x, LAMBDA a : a.k = "imm" /\ a.sym # NoSym)
  \/ /\ x.op \in DOMAIN AluDigit
     /\ \/ x.sz = "b" /\ ~Pair(x, "imm", "reg")
        \/ x.sz = "w" /\ Pair(x, "imm", "mem")
        \/ x.sz = "l" /\ Pair(x, "imm", "reg") /\ ~IsInt8(Src(x).n)
  \/ x.op = "test" /\ x.sz = "b" /\ Pair(x, "reg", "reg")
  \/ x.op = "test" /\ x.sz = "w" /\ Pair(x, "imm", "reg")
  \/ x.op = "mov" /\ Src(x).k = "imm" /\ High(Dst(x))
  \/ x.op \in DOMAIN ExtMoves /\ Pair(x, "reg", "reg") /\ Src(x).id % 8 # Dst(x).id % 8
  \/ x.op \in {"lea", "imul", "xchg"} /\ x.sz \in {"b", "w"}
  \/ x.op \in {"div", "idiv"} /\ x.sz = "w"
  \/ x.op \in {"inc", "dec"}
  \/ x.op \in {"push", "pop"} /\ High(Src(x))
  \/ MisencodedSse(x)

Decodes ==
  phase = "source" /\ trace # <<>> /\ Last(trace).line.k = "instruction"
    => LET i == Last(trace).line.i
       IN  Misencoded(i) <=> Decode(Encode(i)) # Meaning(i)

-----------------------------------------------------------------------------
(* What the linker reads is what the assembler had: every symbol with its   *)
(* section, value and binding, and every relocation on its own symbol and   *)
(* field.  A label of a .bss without bytes is read as undefined.            *)

Home(o, s) == IF s.section < 0 THEN "none" ELSE o.sections[s.section + 1].name
Emptied(s) == s.section = Undefined \/ ~Has(unit, s.section)
SameSymbol(s, t) ==
  /\ t.name = s.name /\ t.global = s.global /\ t.value = s.value
  /\ Home(objs[1], t) = IF Emptied(s) THEN "none" ELSE ElfName[s.section]
SameReloc(r, t) ==
  /\ t.offset = r.at /\ t.type = r.type
  /\ t.addend = IF r.type = "abs64" THEN 0 ELSE -4
  /\ SameSymbol(unit.syms[r.sym], objs[1].symbols[t.sym])

RoundTrip ==
  phase \in {"read", "image"} =>
    /\ \A s \in Range(unit.syms) : \E t \in Range(objs[1].symbols) : SameSymbol(s, t)
    /\ \A s \in {s \in Sections : Has(unit, s)} :
         LET k == FindSection(objs[1], ElfName[s])
             read == objs[1].sections[k]
         IN  /\ k > 0 /\ read.size = unit.sec[s].len
             /\ (s # "bss" /\ read.size > 0) => read.data = unit.sec[s].fields
             /\ s \in {"text", "data"} =>
                  /\ Len(read.relocs) = Len(unit.sec[s].relocs)
                  /\ \A n \in DOMAIN read.relocs : SameReloc(unit.sec[s].relocs[n], read.relocs[n])

-----------------------------------------------------------------------------
(* Every reference of the program and of the runtime arrives, in the image, *)
(* at what it names: the loaded place of the definition, or the linkage     *)
(* table entry whose slot the dynamic linker fills with that import.        *)

Base(name) == CASE name = ".text" -> image.at.text [] name = ".data" -> image.at.data
                [] name = ".bss" -> image.bss [] name = ".rodata" -> image.at.rodata
\* The value of a field that no other field overlaps.
ValueAt(a) == IF \E b \in DOMAIN image.fields : b # a /\ b - a \in -3..3 THEN "overlapped"
              ELSE ToString(image.fields[a])
Leads(a, to) == a \in DOMAIN image.fields /\ ValueAt(a) = ToString(to)

Place(o, s) == Base(Home(objs[o], s)) + OffsetOf(objs, Home(objs[o], s), o) + s.value
RuntimeSymbol(name) == Defines(objs[2], name)
Defined1(name) == \E j \in DOMAIN trace : trace[j].line = [k |-> "label", name |-> name]
DefinedAt(name) == CHOOSE e \in Range(trace) : e.line = [k |-> "label", name |-> name]

\* A field at a that counts from `from` reaches the import of this name.
ReachesImport(a, from, name) ==
  \E k \in DOMAIN image.ext :
    LET stub == image.at.plt + PltEntry * (k - 1)
    IN  /\ Leads(a, stub - from)
        /\ Leads(stub + 2, image.slots[k].offset - (stub + 6))
        /\ image.slots[k].name = name

Reaches(a, from, name, off) ==
  CASE Defined1(name) ->
         Leads(a, Base(ElfName[DefinedAt(name).sec]) + DefinedAt(name).at + off - from)
    [] ~Defined1(name) /\ RuntimeSymbol(name) > 0 ->
         Leads(a, Place(2, objs[2].symbols[RuntimeSymbol(name)]) + off - from)
    [] OTHER -> ReachesImport(a, from, name)

\* The references of an instruction: where its field is, where it ends.
Reference(e) ==
  LET ps == Encode(e.line.i)
      k == Naming(ps)
  IN  [at |-> e.at + Size(SubSeq(ps, 1, k - 1)), end |-> e.at + Size(ps),
       name |-> IF ps[k][1] = "rel" THEN ps[k][3] ELSE ps[k][4],
       off |-> IF ps[k][1] = "rel" THEN 0 ELSE ps[k][3],
       indirect |-> e.line.i.op = "call" /\ ps[k][1] = "sym" /\ e.line.i.args[1].rip]
References ==
  {Reference(e) : e \in {e \in Range(trace) : e.line.k = "instruction" /\ Naming(Encode(e.line.i)) > 0}}

\* The references that go astray: an offset from the symbol, a field that is
\* not the last of its instruction, a section whose number is taken for
\* another's, a label of an empty .bss, a name that no object imports, and a
\* call through a pointer that a library has.
Imported(name) == \E s \in Range(objs[2].symbols) : s.global /\ s.name = name
Astray(r) ==
  \/ r.off # 0
  \/ r.end # r.at + 4
  \/ Defined1(r.name) /\ DefinedAt(r.name).sec = "bss" /\ ~(Has(unit, "data") /\ Has(unit, "bss"))
  \/ Defined1(r.name) /\ DefinedAt(r.name).sec = "rodata" /\ ~(Has(unit, "data") /\ Has(unit, "bss"))
  \/ ~Defined1(r.name) /\ ~Imported(r.name)
  \/ ~Defined1(r.name) /\ RuntimeSymbol(r.name) = 0 /\ r.indirect

\* The references of the runtime, by the ELF formula for its relocations.
RuntimeReaches(r) ==
  LET s == objs[2].symbols[r.sym]
      P == image.at.text + OffsetOf(objs, ".text", 2) + r.offset
  IN  CASE s.section >= 0 -> Leads(P, Place(2, s) + r.addend - P)
        [] s.section < 0 /\ r.type = "pc32" -> Reaches(P, P - r.addend, s.name, 0)
        [] OTHER -> \E k \in DOMAIN image.slots :   \* the slot itself
                      image.slots[k].name = s.name
                      /\ Leads(P, image.slots[k].offset + r.addend - P)

Reached ==
  phase = "image" =>
    /\ image.entry = Place(2, objs[2].symbols[RuntimeSymbol("main")])
    /\ image.jmprel = image.at.rela_plt /\ image.symtab = image.at.dynsym
    /\ \A k \in DOMAIN image.slots : image.slots[k].offset = image.at.got + 8 * (k - 1)
    /\ \A r \in References :
         Astray(r) <=> ~Reaches(image.at.text + r.at, image.at.text + r.end, r.name, r.off)
    /\ \A r \in Range(TextRelocs(objs[2])) : RuntimeReaches(r)
=============================================================================
