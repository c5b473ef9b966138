----------------------------- MODULE ElfObject ------------------------------
(***************************************************************************)
(* The relocatable object between the assembler and the linker: how         *)
(* src/elf_obj.c lays it out and writes it and how src/elf_read.c reads it. *)
(* A file is its section headers and a map from positions to what was       *)
(* written there; a name counts with its length and its final NUL.          *)
(***************************************************************************)
EXTENDS Assembler

ElfName == [text |-> ".text", data |-> ".data", bss |-> ".bss", rodata |-> ".rodata"]
StringBytes(names) == FoldLeft(LAMBDA n, s : n + Len(s) + 1, 1, names)
None0 == [name |-> "", type |-> "null", off |-> 0, size |-> 0, link |-> 0, info |-> 0]

Has(u, s) == CASE s = "text" -> TRUE
               [] s = "bss" -> u.sec[s].used /\ u.sec[s].len > 0
               [] OTHER -> u.sec[s].used \/ u.sec[s].len > 0
HasRelocs(u, s) == Has(u, s) /\ s \in {"text", "data"} /\ u.sec[s].relocs # <<>>

\* The section headers in their order, from 1; a header's index is its
\* position here, header 0 being the null header.
HeaderNames(u) ==
  LET content == SelectSeq(<<"text", "data", "bss", "rodata">>, LAMBDA s : Has(u, s))
      relas == SelectSeq(<<"text", "data">>, LAMBDA s : HasRelocs(u, s))
  IN  [i \in DOMAIN content |-> ElfName[content[i]]]
      \o [i \in DOMAIN relas |-> ".rela" \o ElfName[relas[i]]]
      \o <<".symtab", ".strtab", ".shstrtab">>
      \o (IF u.stack THEN <<".note.GNU-stack">> ELSE <<>>)
Ordinal(names, name) == SelectInSeq(names, LAMBDA n : n = name)

-----------------------------------------------------------------------------
(* Symbols: locals first.  ElfIndex is an assembler symbol's index there. *)

LocalsFirst(u) == SelectSeq([i \in DOMAIN u.syms |-> i], LAMBDA i : ~u.syms[i].global)
                  \o SelectSeq([i \in DOMAIN u.syms |-> i], LAMBDA i : u.syms[i].global)

\* Mutation: relocations keep the assembler's index.
ElfIndexKept(u, i) == i
ElfIndex(u, i) == SelectInSeq(LocalsFirst(u), LAMBDA j : j = i)

ElfSymbols(u, names, order) ==
  [k \in DOMAIN order |->
     LET s == u.syms[order[k]]
     IN  [name |-> s.name, global |-> s.global, value |-> s.value,
          shndx |-> IF s.section = Undefined \/ ~Has(u, s.section) THEN 0
                    ELSE Ordinal(names, ElfName[s.section])]]

ElfType == [pc32 |-> "R_PC32", abs64 |-> "R_64", gotpcrelx |-> "R_GOTPCRELX"]
ElfRelocs(u, s) ==
  [k \in DOMAIN u.sec[s].relocs |->
     LET r == u.sec[s].relocs[k]
     IN  [offset |-> r.at, sym |-> ElfIndex(u, r.sym), type |-> ElfType[r.type],
          addend |-> IF r.type \in {"pc32", "gotpcrelx"} THEN -4 ELSE 0]]

-----------------------------------------------------------------------------
(* Where each part goes.  The offsets are computed from sizes before the    *)
(* parts are written; the writer pads to eight bytes in front of each part. *)

Part(name, align, size, what) == [name |-> name, align |-> align, size |-> size, what |-> what]
Offsets(start, parts) ==   \* the end after the parts, and where each begins
  FoldLeft(LAMBDA acc, p :
             [end |-> Align(acc.end, p.align) + p.size,
              at |-> (p.name :> Align(acc.end, p.align)) @@ acc.at],
           [end |-> start, at |-> <<>>], parts)

Present(parts, names) == SelectSeq(parts, LAMBDA p : p.name \in names)
Contents(names) == Range(names) \ {".bss"}

\* The computed offsets: .rodata, .data and the tables in that order, with a
\* place for .rela.text whether or not it is written.
Computed(u, names) ==
  Offsets(64, Present(
    <<Part(".text", 1, u.sec["text"].len, 0),
      Part(".rodata", 8, u.sec["rodata"].len, 0),
      Part(".data", 8, u.sec["data"].len, 0),
      Part(".rela.text", 8, 24 * Len(u.sec["text"].relocs), 0),
      Part(".rela.data", 8, 24 * Len(u.sec["data"].relocs), 0),
      Part(".symtab", 8, 24 * (Len(u.syms) + 1), 0),
      Part(".strtab", 8, StringBytes([i \in DOMAIN u.syms |-> u.syms[i].name]), 0),
      Part(".shstrtab", 8, StringBytes(names), 0),
      Part(".note.GNU-stack", 8, 4, 0),
      Part("headers", 8, 0, 0)>>,
    Contents(names) \cup {".rela.text", "headers"}))

Parts(u, names) == Present(
    <<Part(".text", 8, u.sec["text"].len, u.sec["text"].fields),
      Part(".rodata", 8, u.sec["rodata"].len, u.sec["rodata"].fields),
      Part(".data", 8, u.sec["data"].len, u.sec["data"].fields),
      Part(".rela.text", 8, 24 * Len(u.sec["text"].relocs), ElfRelocs(u, "text")),
      Part(".rela.data", 8, 24 * Len(u.sec["data"].relocs), ElfRelocs(u, "data")),
      Part(".symtab", 8, 24 * (Len(u.syms) + 1), ElfSymbols(u, names, LocalsFirst(u))),
      Part(".strtab", 8, StringBytes([i \in DOMAIN u.syms |-> u.syms[i].name]), "names"),
      Part(".shstrtab", 8, StringBytes(names), "names"),
      Part(".note.GNU-stack", 8, 4, "zeros"),
      Part("headers", 8, 64 * (Len(names) + 1), "headers")>>,
    Contents(names) \cup {"headers"})
Written(parts, at) ==   \* an empty part writes nothing at its position
  FoldLeft(LAMBDA bytes, p : IF p.size = 0 THEN bytes ELSE (at[p.name] :> p.what) @@ bytes, <<>>, parts)

Header(u, names, name, at, sizes) ==
  LET rela == name \in {".rela.text", ".rela.data"}
  IN  [name |-> name,
       type |-> CASE name = ".bss" -> "nobits" [] rela -> "rela" [] name = ".symtab" -> "symtab"
                  [] name \in {".strtab", ".shstrtab"} -> "strtab" [] OTHER -> "progbits",
       off |-> IF name = ".bss" THEN 0 ELSE at[name],
       size |-> IF name = ".bss" THEN u.sec["bss"].len ELSE sizes[name],
       link |-> CASE rela -> Ordinal(names, ".symtab") [] name = ".symtab" -> Ordinal(names, ".strtab")
                  [] OTHER -> 0,
       info |-> CASE name = ".rela.text" -> Ordinal(names, ".text")
                  [] name = ".rela.data" -> Ordinal(names, ".data")
                  [] OTHER -> 0]
WriteFile(u, names, computed, parts) ==
  LET emitted == Offsets(64, parts).at
      sizes == [n \in {parts[i].name : i \in DOMAIN parts} |->
                  parts[Ordinal([i \in DOMAIN parts |-> parts[i].name], n)].size]
  IN  [shoff |-> computed.at["headers"],
       shndx |-> Ordinal(names, ".shstrtab"),
       bytes |-> (emitted["headers"] :>
                   <<None0>> \o [i \in DOMAIN names |-> Header(u, names, names[i], computed.at, sizes)])
                 @@ Written(parts, emitted)]
ElfObjWrite(u) == WriteFile(u, HeaderNames(u), Computed(u, HeaderNames(u)), Parts(u, HeaderNames(u)))

-----------------------------------------------------------------------------
(* elf_read: the sections by name, in header order and numbered from 0, the *)
(* relocations of each, and every symbol but the first, so that relocation  *)
(* symbols are the table's indices.                                          *)

InternalType == ("R_64" :> "abs64") @@ ("R_PC32" :> "pc32") @@ ("R_PLT32" :> "pc32")
                @@ ("R_GOTPCRELX" :> "gotpcrelx")
Common == 65522

BytesAt(f, h) == IF h.size > 0 /\ h.off \in DOMAIN f.bytes THEN f.bytes[h.off] ELSE <<>>
Unreadable == [ok |-> FALSE, sections |-> <<>>, symbols |-> <<>>]

ReadRelocs(f, headers, i) ==   \* those of header i: the last table that names it
  LET t == SelectLastInSeq(headers, LAMBDA h : h.type = "rela" /\ h.info = i)
  IN  IF t = 0 THEN <<>> ELSE BytesAt(f, headers[t])

SectionNumber(content, shndx) ==   \* content: the headers of content sections
  IF shndx \in {0, Common} THEN -1 ELSE SelectInSeq(content, LAMBDA i : i = shndx) - 1

ReadParts(f, headers, content) ==
  LET relocs == [k \in DOMAIN content |-> ReadRelocs(f, headers, content[k])]
      t == SelectLastInSeq(headers, LAMBDA h : h.type = "symtab")
      symbols == IF t = 0 THEN <<>> ELSE BytesAt(f, headers[t])
  IN  IF \E k \in DOMAIN relocs : \E r \in Range(relocs[k]) : r.type \notin DOMAIN InternalType
      THEN Unreadable
      ELSE [ok |-> TRUE,
            sections |-> [k \in DOMAIN content |->
              [name |-> headers[content[k]].name, size |-> headers[content[k]].size,
               data |-> IF headers[content[k]].type = "nobits" THEN <<>> ELSE BytesAt(f, headers[content[k]]),
               relocs |-> [j \in DOMAIN relocs[k] |->
                             [relocs[k][j] EXCEPT !.type = InternalType[@]]]]],
            symbols |-> [k \in DOMAIN symbols |->
              [name |-> symbols[k].name, global |-> symbols[k].global, value |-> symbols[k].value,
               section |-> SectionNumber(content, symbols[k].shndx),
               common |-> symbols[k].shndx = Common]]]

ElfRead(f) ==
  LET headers == IF f.shoff \in DOMAIN f.bytes THEN Tail(f.bytes[f.shoff]) ELSE <<>>
      kept == {ElfName[s] : s \in Sections}
  IN  IF f.shndx > Len(headers) THEN Unreadable
      ELSE ReadParts(f, headers, SelectSeq([i \in DOMAIN headers |-> i],
                                           LAMBDA i : headers[i].name \in kept))
=============================================================================
