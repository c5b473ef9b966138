-------------------------------- MODULE Layout --------------------------------
(***************************************************************************)
(* Where the parts of a file go.  link_elf_exec (src/elf_link.c) lays the   *)
(* executable out twice: it computes addresses from the sizes of the parts, *)
(* and then it writes the parts one after the other, padding in between.    *)
(* The sizes are those of .text (t), .rodata (r), .data (d) and .dynstr (s) *)
(* and the number of imports (n).                                           *)
(***************************************************************************)
EXTENDS Integers

TextVm == 4194304          \* TEXT_VM
Page == 4096               \* PAGE
PltEntry == 16
InterpBytes == 28          \* "/lib64/ld-linux-x86-64.so.2" and its NUL
HeadBytes == 64 + 6 * 56   \* the ELF header and six program headers

\* align_up, buf_pad and sec_align
Align(n, a) == ((n + a - 1) \div a) * a

-----------------------------------------------------------------------------
(* The addresses the linker computes with. *)

ComputedText(t, n, r) ==   \* offsets in the text segment; data is its end
  LET text == Align(HeadBytes + InterpBytes, 16)
      plt == Align(text + t, 16)
      rodata == Align(plt + PltEntry * n, 8)
  IN  [text |-> text, plt |-> plt, rodata |-> rodata, data |-> Align(rodata + r, Page)]

ComputedData(n, d, s) ==   \* offsets in the data segment
  LET got == Align(d, 8)
      dynsym == Align(got + 8 * n, 8)
      dynstr == dynsym + 24 * (1 + n)
      rela_plt == Align(dynstr + s, 8)
      dynamic == Align(rela_plt + 24 * n, 8)
  IN  [got |-> got, dynsym |-> dynsym, dynstr |-> dynstr, rela_plt |-> rela_plt,
       dynamic |-> dynamic, bss |-> Align(dynamic + 16 * 14, 8)]

Addresses(text, data) ==
  LET vm == Align(TextVm + text.data, Page)          \* data_seg_vm
  IN  [text |-> TextVm + text.text, plt |-> TextVm + text.plt, rodata |-> TextVm + text.rodata,
       data |-> vm, got |-> vm + data.got, dynsym |-> vm + data.dynsym,
       dynstr |-> vm + data.dynstr, rela_plt |-> vm + data.rela_plt,
       dynamic |-> vm + data.dynamic, bss |-> vm + data.bss]

-----------------------------------------------------------------------------
(* The positions in the file that buf_pad and buf_put make. *)

\* Mutation: the linkage table is written without padding in front of it.
WrittenTextPacked(t, n, r) ==
  LET text == Align(Align(HeadBytes, 8) + InterpBytes, 16)
      plt == text + t
      rodata == Align(plt + PltEntry * n, 8)
  IN  [text |-> text, plt |-> plt, rodata |-> rodata, data |-> Align(rodata + r, Page)]

WrittenText(t, n, r) ==
  LET text == Align(Align(HeadBytes, 8) + InterpBytes, 16)
      plt == Align(text + t, 16)
      rodata == Align(plt + PltEntry * n, 8)
  IN  [text |-> text, plt |-> plt, rodata |-> rodata, data |-> Align(rodata + r, Page)]

WrittenData(start, n, d, s) ==   \* start: where .data begins
  LET got == Align(start + d, 8)
      dynsym == Align(got + 8 * n, 8)
      dynstr == Align(dynsym + 24 * (1 + n), 8)
      rela_plt == Align(dynstr + s, 8)
  IN  [got |-> got, dynsym |-> dynsym, dynstr |-> dynstr, rela_plt |-> rela_plt,
       dynamic |-> rela_plt + 24 * n]

\* Where the two PT_LOAD segments put what was written: `at` is p_offset of
\* the second one and vm its p_vaddr.
LoadedAddresses(text, data, at, vm) ==
  [text |-> TextVm + text.text, plt |-> TextVm + text.plt, rodata |-> TextVm + text.rodata,
   data |-> vm + (text.data - at), got |-> vm + (data.got - at),
   dynsym |-> vm + (data.dynsym - at), dynstr |-> vm + (data.dynstr - at),
   rela_plt |-> vm + (data.rela_plt - at), dynamic |-> vm + (data.dynamic - at)]
=============================================================================
