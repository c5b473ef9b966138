------------------------------ MODULE ElfLink -------------------------------
(***************************************************************************)
(* The integrated linker for x86-64 Linux, src/elf_link.c: from the objects *)
(* that were read to an executable image with a procedure linkage table for *)
(* what the C library is to provide.                                         *)
(***************************************************************************)
EXTENDS ElfObject

FindSection(o, name) == SelectInSeq(o.sections, LAMBDA s : s.name = name)
SizeOf(o, name) == LET k == FindSection(o, name) IN IF k = 0 THEN 0 ELSE o.sections[k].size

-----------------------------------------------------------------------------
(* Symbols *)

\* <<object, symbol>> of the first global definition of name; <<0, 0>> if none.
Defines(o, name) == SelectInSeq(o.symbols, LAMBDA s : s.global /\ s.section >= 0 /\ s.name = name)
FindSymbol(objs, name) ==
  LET o == SelectInSeq(objs, LAMBDA x : Defines(x, name) > 0)
  IN  IF o = 0 THEN <<0, 0>> ELSE <<o, Defines(objs[o], name)>>

\* The undefined globals no object defines, in the order they are met.
CollectExternals(objs) ==
  FoldLeft(LAMBDA ext, s :
             IF ~s.global \/ s.section >= 0 \/ s.common \/ s.name \in Range(ext)
                \/ FindSymbol(objs, s.name) # <<0, 0>>
             THEN ext ELSE Append(ext, s.name),
           <<>>, FlattenSeq([o \in DOMAIN objs |-> objs[o].symbols]))

-----------------------------------------------------------------------------
(* Sizes of the parts *)

Total(objs, name) == FoldLeft(LAMBDA n, o : n + SizeOf(o, name), 0, objs)
OffsetOf(objs, name, o) == Total(SubSeq(objs, 1, o - 1), name)
DynStrBytes(ext) == StringBytes(<<"libc.so.6">> \o ext)

LinkText(objs, ext) == ComputedText(Total(objs, ".text"), Len(ext), Total(objs, ".rodata"))
LinkData(objs, ext) == ComputedData(Len(ext), Total(objs, ".data"), DynStrBytes(ext))
LinkWritten(objs, ext) == WrittenText(Total(objs, ".text"), Len(ext), Total(objs, ".rodata"))
LoadedWith(objs, ext, text, out, vm) ==
  LoadedAddresses(out, WrittenData(out.data, Len(ext), Total(objs, ".data"), DynStrBytes(ext)),
                  text.data, vm.data)

\* symbol_vm: the number of a symbol's section is taken for ASM_SEC_*.
SymbolVm(objs, vm, o, s) ==
  CASE s.section = 0 -> vm.text + OffsetOf(objs, ".text", o) + s.value
    [] s.section = 1 -> vm.data + OffsetOf(objs, ".data", o) + s.value
    [] s.section = 2 -> vm.bss + OffsetOf(objs, ".bss", o) + s.value
    [] s.section = 3 -> vm.rodata + OffsetOf(objs, ".rodata", o) + s.value
    [] OTHER -> 0

-----------------------------------------------------------------------------
(* Relocations of .text, applied to the fields where they stand *)

\* A symbol defined in the relocation's own object needs no search.
Resolve(objs, o, s) == IF s.section >= 0 THEN <<o, s>>
                       ELSE LET f == FindSymbol(objs, s.name)
                            IN  IF f = <<0, 0>> THEN <<0, s>> ELSE <<f[1], objs[f[1]].symbols[f[2]]>>
ExternalIndex(ext, name) == SelectInSeq(ext, LAMBDA n : n = name)

\* S of PC32: a definition, a linkage table entry, or 0.
Target(objs, vm, ext, def) ==
  CASE def[1] > 0 -> SymbolVm(objs, vm, def[1], def[2])
    [] def[1] = 0 /\ def[2].name \in Range(ext) ->
         vm.plt + PltEntry * (ExternalIndex(ext, def[2].name) - 1)
    [] OTHER -> 0

Relocated(objs, vm, ext, o, fields, r, s, P) ==
  CASE r.type = "pc32" -> (P :> Target(objs, vm, ext, Resolve(objs, o, s)) + r.addend - P) @@ fields
    [] r.type = "gotpcrelx" /\ s.name \in Range(ext) ->
         (P :> vm.got + 8 * (ExternalIndex(ext, s.name) - 1) + r.addend - P) @@ fields
    [] r.type = "abs64" -> (P :> LET d == Resolve(objs, o, s)
                                 IN  IF d[1] = 0 THEN fields[P]
                                     ELSE fields[P] + SymbolVm(objs, vm, d[1], d[2])) @@ fields
    [] OTHER -> fields

ApplyTo(objs, vm, ext, o, fields, relocs) ==
  FoldLeft(LAMBDA acc, r :
             Relocated(objs, vm, ext, o, acc, r, objs[o].symbols[r.sym],
                       vm.text + OffsetOf(objs, ".text", o) + r.offset),
           fields, relocs)
TextRelocs(o) == LET k == FindSection(o, ".text") IN IF k = 0 THEN <<>> ELSE o.sections[k].relocs
ApplyRelocations(objs, vm, ext, fields) ==
  FoldLeft(LAMBDA acc, o : ApplyTo(objs, vm, ext, o, acc, TextRelocs(objs[o])),
           fields, [o \in DOMAIN objs |-> o])

-----------------------------------------------------------------------------
(* The image *)

\* The fields of a section of object o, at their addresses once loaded.
Loaded(objs, o, name, base) ==
  LET k == FindSection(objs[o], name)
      d == IF k = 0 THEN <<>> ELSE objs[o].sections[k].data
      start == base + OffsetOf(objs, name, o)
  IN  [a \in {start + x : x \in DOMAIN d} |-> d[a - start]]
LoadedAll(objs, name, base) ==
  FoldLeft(LAMBDA acc, o : Loaded(objs, o, name, base) @@ acc, <<>>, [o \in DOMAIN objs |-> o])

\* Stub i jumps through the i-th GOT slot, counted from the end of its jump.
PltFields(ext, base, vm) ==
  [a \in {base + PltEntry * (i - 1) + 2 : i \in DOMAIN ext} |->
     LET i == (a - 2 - base) \div PltEntry + 1
     IN  vm.got + 8 * (i - 1) - (vm.plt + PltEntry * (i - 1) + 6)]

LinkFailed == [ok |-> FALSE]
BuildImage(objs, ext, vm, at, entry) ==   \* at: where the parts are loaded
  [ok |-> TRUE, ext |-> ext,
   entry |-> IF FindSection(objs[entry[1]], ".text") = 0 THEN 0
             ELSE vm.text + OffsetOf(objs, ".text", entry[1])
                  + objs[entry[1]].symbols[entry[2]].value,
   at |-> at, bss |-> vm.bss,
   fields |-> ApplyRelocations(objs, vm, ext,
                LoadedAll(objs, ".text", at.text) @@ LoadedAll(objs, ".data", at.data)
                @@ LoadedAll(objs, ".rodata", at.rodata) @@ PltFields(ext, at.plt, vm)),
   \* .rela.plt and .dynsym, at the addresses that .dynamic gives
   jmprel |-> vm.rela_plt, symtab |-> vm.dynsym,
   slots |-> [i \in DOMAIN ext |-> [offset |-> vm.got + 8 * (i - 1), name |-> ext[i]]]]

LinkAt(objs, ext, entry, text, vm) ==
  BuildImage(objs, ext, vm, LoadedWith(objs, ext, text, LinkWritten(objs, ext), vm), entry)
LinkWith(objs, ext, entry, text) ==
  LinkAt(objs, ext, entry, text, Addresses(text, LinkData(objs, ext)))
LinkElfExec(objs, entry) ==
  IF FindSymbol(objs, entry) = <<0, 0>> THEN LinkFailed
  ELSE LinkWith(objs, CollectExternals(objs), FindSymbol(objs, entry),
                LinkText(objs, CollectExternals(objs)))
=============================================================================
