--------------------------- MODULE ToolchainProofs ---------------------------
(***************************************************************************)
(* The assembler and the linker for x86-64: the two layouts of              *)
(* link_elf_exec (src/elf_link.c) agree for parts of every size, and the    *)
(* assembler (src/asm_amd64.c) keeps the type invariant of Toolchain: what  *)
(* it notes of fields, relocations, symbols and waiting branches is within  *)
(* the bytes it emitted.  The invariant of the unit, Kept, has a part for   *)
(* each; that every encoder writes pieces of known widths carries it over   *)
(* an instruction, and that a call has two pieces before a displacement     *)
(* that names a symbol carries it over the second relocation of a call.     *)
(***************************************************************************)
EXTENDS Toolchain, FiniteSetTheorems, WellFoundedInduction, TLAPS

-----------------------------------------------------------------------------
(* The layouts *)

\* align_up with the alignments the linker uses gives a natural number that
\* is a multiple of the alignment, not below its argument and less than one
\* alignment above it.
LEMMA AlignBounds ==
  ASSUME NEW n \in Nat, NEW a \in {8, 16, Page}
  PROVE  /\ Align(n, a) \in Nat
         /\ Align(n, a) >= n /\ Align(n, a) < n + a
         /\ Align(n, a) % a = 0
<1>1. CASE a = 8 BY <1>1 DEF Align
<1>2. CASE a = 16 BY <1>2 DEF Align
<1>3. CASE a = Page BY <1>3 DEF Align, Page
<1> QED BY <1>1, <1>2, <1>3

\* Padding to eight from a position that is a multiple of eight can be
\* counted from that position.
LEMMA AlignFrom ==
  ASSUME NEW x \in Nat, NEW d \in Nat, x % 8 = 0
  PROVE  Align(x + d, 8) = x + Align(d, 8)
BY DEF Align

\* What is aligned already stays where it is.
LEMMA AlignAgain ==
  ASSUME NEW x \in Nat, NEW a \in {8, Page}, x % a = 0
  PROVE  Align(x, a) = x
<1>1. CASE a = 8 BY <1>1 DEF Align
<1>2. CASE a = Page BY <1>2 DEF Align, Page
<1> QED BY <1>1, <1>2

-----------------------------------------------------------------------------
\* The offsets of the text segment: the padding of the file and the
\* computation agree, each part begins behind the one before it, and the
\* segment ends at a page.
LEMMA TextLayout ==
  ASSUME NEW t \in Nat, NEW n \in Nat, NEW r \in Nat
  PROVE  LET c == ComputedText(t, n, r)
         IN  /\ WrittenText(t, n, r) = c
             /\ c.text \in Nat /\ c.plt \in Nat /\ c.rodata \in Nat /\ c.data \in Nat
             /\ c.text >= HeadBytes + InterpBytes /\ c.plt >= c.text + t
             /\ c.rodata >= c.plt + PltEntry * n /\ c.data >= c.rodata + r
             /\ c.data % Page = 0
<1> DEFINE text == Align(HeadBytes + InterpBytes, 16)
           plt == Align(text + t, 16)
           rodata == Align(plt + PltEntry * n, 8)
           data == Align(rodata + r, Page)
<1>1. HeadBytes \in Nat /\ InterpBytes \in Nat /\ HeadBytes % 8 = 0
      /\ HeadBytes + InterpBytes \in Nat
  BY DEF HeadBytes, InterpBytes
<1>2. text \in Nat /\ text >= HeadBytes + InterpBytes
  BY <1>1, AlignBounds
<1>3. plt \in Nat /\ plt >= text + t
  <2> HIDE DEF text
  <2>1. text + t \in Nat BY <1>2
  <2> QED BY <2>1, AlignBounds
<1>4. PltEntry * n \in Nat
  BY DEF PltEntry
<1>5. rodata \in Nat /\ rodata >= plt + PltEntry * n
  <2> HIDE DEF plt
  <2>1. plt + PltEntry * n \in Nat BY <1>3, <1>4
  <2> QED BY <2>1, AlignBounds
<1>6. data \in Nat /\ data >= rodata + r /\ data % Page = 0
  <2> HIDE DEF rodata
  <2>1. rodata + r \in Nat BY <1>5
  <2> QED BY <2>1, AlignBounds
<1>7. Align(HeadBytes, 8) = HeadBytes
  BY <1>1, AlignAgain
<1>8. ComputedText(t, n, r) = [text |-> text, plt |-> plt, rodata |-> rodata, data |-> data]
  BY DEF ComputedText
<1>9. WrittenText(t, n, r) = [text |-> text, plt |-> plt, rodata |-> rodata, data |-> data]
  BY <1>7 DEF WrittenText
<1> HIDE DEF text, plt, rodata, data
<1> QED BY <1>2, <1>3, <1>5, <1>6, <1>8, <1>9

\* A data segment written from `start` on: every part stands as far from
\* the segment's beginning as the linker computed.
AsComputed(start, n, d, s) ==
  LET c == ComputedData(n, d, s)
  IN  WrittenData(start, n, d, s) =
        [got |-> start + c.got, dynsym |-> start + c.dynsym, dynstr |-> start + c.dynstr,
         rela_plt |-> start + c.rela_plt, dynamic |-> start + c.dynamic]

\* The parts of the data segment follow each other without overlap.
DataApart(n, d, s) ==
  LET c == ComputedData(n, d, s)
  IN  /\ c.got \in Nat /\ c.dynsym \in Nat /\ c.dynstr \in Nat
      /\ c.rela_plt \in Nat /\ c.dynamic \in Nat /\ c.bss \in Nat
      /\ c.got >= d /\ c.dynsym >= c.got + 8 * n
      /\ c.dynstr >= c.dynsym + 24 * (1 + n)
      /\ c.rela_plt >= c.dynstr + s
      /\ c.dynamic >= c.rela_plt + 24 * n
      /\ c.bss >= c.dynamic + 16 * 14

OnEight(n) == n % 8 = 0

\* From a start that is a multiple of eight, padding the file and computing
\* the offsets come to the same.
LEMMA DataLayout ==
  ASSUME NEW start \in Nat, NEW n \in Nat, NEW d \in Nat, NEW s \in Nat, OnEight(start)
  PROVE  AsComputed(start, n, d, s) /\ DataApart(n, d, s)
<1>0. start % 8 = 0
  BY DEF OnEight
<1> DEFINE got == Align(d, 8)
           dynsym == Align(got + 8 * n, 8)
           dynstr == dynsym + 24 * (1 + n)
           rela == Align(dynstr + s, 8)
           dynamic == Align(rela + 24 * n, 8)
           bss == Align(dynamic + 16 * 14, 8)
<1>1. got \in Nat /\ got >= d /\ got % 8 = 0 /\ Align(start + d, 8) = start + got
  BY <1>0, AlignBounds, AlignFrom
<1>2. /\ dynsym \in Nat /\ dynsym >= got + 8 * n /\ dynsym % 8 = 0
      /\ Align((start + got) + 8 * n, 8) = start + dynsym
  <2> HIDE DEF got
  <2>1. got + 8 * n \in Nat /\ (start + got) + 8 * n = start + (got + 8 * n) BY <1>1
  <2> QED BY <1>0, <2>1, AlignBounds, AlignFrom, ZenonT(60)
<1>3. /\ dynstr \in Nat /\ dynstr % 8 = 0
      /\ Align((start + dynsym) + 24 * (1 + n), 8) = start + dynstr
  <2> HIDE DEF dynsym
  <2>1. dynstr \in Nat /\ dynstr % 8 = 0 BY <1>2
  <2>2. (start + dynsym) + 24 * (1 + n) \in Nat /\ ((start + dynsym) + 24 * (1 + n)) % 8 = 0
    BY <1>0, <1>2
  <2>3. (start + dynsym) + 24 * (1 + n) = start + dynstr BY <1>2
  <2> QED BY <2>1, <2>2, <2>3, AlignAgain
<1>4. /\ rela \in Nat /\ rela >= dynstr + s /\ rela % 8 = 0
      /\ Align((start + dynstr) + s, 8) = start + rela
  <2> HIDE DEF dynstr
  <2>1. dynstr + s \in Nat /\ (start + dynstr) + s = start + (dynstr + s) BY <1>3
  <2> QED BY <1>0, <2>1, AlignBounds, AlignFrom, ZenonT(60)
<1>5. /\ dynamic \in Nat /\ dynamic >= rela + 24 * n
      /\ (start + rela) + 24 * n = start + dynamic
  <2> HIDE DEF rela
  <2>1. rela + 24 * n \in Nat /\ (rela + 24 * n) % 8 = 0 BY <1>4
  <2>2. dynamic = rela + 24 * n BY <2>1, AlignAgain
  <2> QED BY <1>4, <2>1, <2>2
<1>6. bss \in Nat /\ bss >= dynamic + 16 * 14
  <2> HIDE DEF dynamic
  <2>1. dynamic + 16 * 14 \in Nat BY <1>5
  <2> QED BY <2>1, AlignBounds
<1>7. ComputedData(n, d, s) = [got |-> got, dynsym |-> dynsym, dynstr |-> dynstr,
                               rela_plt |-> rela, dynamic |-> dynamic, bss |-> bss]
  BY DEF ComputedData
<1>8. WrittenData(start, n, d, s) =
        [got |-> start + got, dynsym |-> start + dynsym, dynstr |-> start + dynstr,
         rela_plt |-> start + rela, dynamic |-> start + dynamic]
  <2> HIDE DEF got, dynsym, dynstr, rela, dynamic
  <2> QED BY <1>1, <1>2, <1>3, <1>4, <1>5 DEF WrittenData
<1>9. dynstr >= dynsym + 24 * (1 + n)
  <2> HIDE DEF dynsym
  <2> QED BY <1>2
<1> HIDE DEF got, dynsym, dynstr, rela, dynamic, bss
<1>10. AsComputed(start, n, d, s)
  BY <1>7, <1>8 DEF AsComputed
<1>11. DataApart(n, d, s)
  BY <1>1, <1>2, <1>3, <1>4, <1>5, <1>6, <1>7, <1>9 DEF DataApart
<1> QED BY <1>10, <1>11

-----------------------------------------------------------------------------
\* link_elf_exec, for every size of every part and every number of imports:
\* each part is loaded at the address the linker computed for it, and the
\* second segment's address and place in the file are a multiple of the page.
THEOREM AddressesHold ==
  ASSUME NEW t \in Nat, NEW n \in Nat, NEW r \in Nat, NEW d \in Nat, NEW s \in Nat
  PROVE  LET text == ComputedText(t, n, r)
             out == WrittenText(t, n, r)
             vm == Addresses(text, ComputedData(n, d, s))
             at == LoadedAddresses(out, WrittenData(out.data, n, d, s), text.data, vm.data)
         IN  /\ at.text = vm.text /\ at.plt = vm.plt /\ at.rodata = vm.rodata
             /\ at.data = vm.data /\ at.got = vm.got /\ at.dynsym = vm.dynsym
             /\ at.dynstr = vm.dynstr /\ at.rela_plt = vm.rela_plt
             /\ at.dynamic = vm.dynamic
             /\ vm.data % Page = 0 /\ text.data % Page = 0
<1> DEFINE text == ComputedText(t, n, r)
           c == ComputedData(n, d, s)
           vm == Addresses(text, c)
           base == Align(TextVm + text.data, Page)
<1>1. /\ WrittenText(t, n, r) = text /\ text.text \in Nat /\ text.plt \in Nat
      /\ text.rodata \in Nat /\ text.data \in Nat /\ text.data % Page = 0
  BY TextLayout
<1>2. OnEight(text.data)
  <2> HIDE DEF text
  <2> QED BY <1>1 DEF Page, OnEight
<1> DEFINE w == WrittenData(text.data, n, d, s)
<1>3. /\ w = [got |-> text.data + c.got, dynsym |-> text.data + c.dynsym,
              dynstr |-> text.data + c.dynstr, rela_plt |-> text.data + c.rela_plt,
              dynamic |-> text.data + c.dynamic]
      /\ c.got \in Nat /\ c.dynsym \in Nat /\ c.dynstr \in Nat /\ c.rela_plt \in Nat
      /\ c.dynamic \in Nat
  <2> HIDE DEF text
  <2>1. AsComputed(text.data, n, d, s) /\ DataApart(n, d, s)
    BY <1>1, <1>2, DataLayout
  <2> QED BY <2>1 DEF AsComputed, DataApart
<1>4. base \in Nat /\ base % Page = 0
  <2> HIDE DEF text
  <2>1. TextVm + text.data \in Nat BY <1>1 DEF TextVm
  <2> QED BY <2>1, AlignBounds
<1> HIDE DEF text, c, w
<1>5. vm = [text |-> TextVm + text.text, plt |-> TextVm + text.plt,
            rodata |-> TextVm + text.rodata, data |-> base, got |-> base + c.got,
            dynsym |-> base + c.dynsym, dynstr |-> base + c.dynstr,
            rela_plt |-> base + c.rela_plt, dynamic |-> base + c.dynamic,
            bss |-> base + c.bss]
  BY DEF Addresses
<1> HIDE DEF base
<1>6. vm.data = base
  BY <1>5
<1> DEFINE at == LoadedAddresses(text, w, text.data, vm.data)
<1>7. at = [text |-> TextVm + text.text, plt |-> TextVm + text.plt,
            rodata |-> TextVm + text.rodata, data |-> base + (text.data - text.data),
            got |-> base + (w.got - text.data), dynsym |-> base + (w.dynsym - text.data),
            dynstr |-> base + (w.dynstr - text.data),
            rela_plt |-> base + (w.rela_plt - text.data),
            dynamic |-> base + (w.dynamic - text.data)]
  BY <1>6 DEF LoadedAddresses
<1> HIDE DEF vm, at
<1>8. /\ at.text = vm.text /\ at.plt = vm.plt /\ at.rodata = vm.rodata
      /\ at.data = vm.data /\ at.got = vm.got /\ at.dynsym = vm.dynsym
      /\ at.dynstr = vm.dynstr /\ at.rela_plt = vm.rela_plt /\ at.dynamic = vm.dynamic
  BY <1>1, <1>3, <1>4, <1>5, <1>7
<1> QED BY <1>1, <1>4, <1>6, <1>8 DEF at, vm, w, c, text

\* No part overlaps the next, whatever their sizes: the addresses symbols,
\* stubs and slots get are those of memory of their own.
THEOREM PartsApart ==
  ASSUME NEW t \in Nat, NEW n \in Nat, NEW r \in Nat, NEW d \in Nat, NEW s \in Nat
  PROVE  LET vm == Addresses(ComputedText(t, n, r), ComputedData(n, d, s))
         IN  /\ vm.plt >= vm.text + t /\ vm.rodata >= vm.plt + PltEntry * n
             /\ vm.data >= vm.rodata + r /\ vm.got >= vm.data + d
             /\ vm.dynsym >= vm.got + 8 * n /\ vm.dynstr >= vm.dynsym + 24 * (1 + n)
             /\ vm.rela_plt >= vm.dynstr + s /\ vm.dynamic >= vm.rela_plt + 24 * n
             /\ vm.bss >= vm.dynamic + 16 * 14
<1> DEFINE text == ComputedText(t, n, r)
           c == ComputedData(n, d, s)
           base == Align(TextVm + text.data, Page)
<1>1. /\ text.text \in Nat /\ text.plt \in Nat /\ text.rodata \in Nat /\ text.data \in Nat
      /\ text.plt >= text.text + t /\ text.rodata >= text.plt + PltEntry * n
      /\ text.data >= text.rodata + r
  BY TextLayout
<1>2. /\ c.got \in Nat /\ c.dynsym \in Nat /\ c.dynstr \in Nat
      /\ c.rela_plt \in Nat /\ c.dynamic \in Nat /\ c.bss \in Nat
      /\ c.got >= d /\ c.dynsym >= c.got + 8 * n
      /\ c.dynstr >= c.dynsym + 24 * (1 + n)
      /\ c.rela_plt >= c.dynstr + s
      /\ c.dynamic >= c.rela_plt + 24 * n
      /\ c.bss >= c.dynamic + 16 * 14
  <2>1. OnEight(0) BY DEF OnEight
  <2>2. DataApart(n, d, s) BY <2>1, DataLayout
  <2> QED BY <2>2 DEF DataApart
<1> HIDE DEF text, c
<1>3. base \in Nat /\ base >= TextVm + text.data
  <2>1. TextVm + text.data \in Nat BY <1>1 DEF TextVm
  <2> QED BY <2>1, AlignBounds
<1>4. PltEntry * n \in Nat
  BY DEF PltEntry
<1> DEFINE vm == Addresses(text, c)
<1>5. vm = [text |-> TextVm + text.text, plt |-> TextVm + text.plt,
            rodata |-> TextVm + text.rodata, data |-> base, got |-> base + c.got,
            dynsym |-> base + c.dynsym, dynstr |-> base + c.dynstr,
            rela_plt |-> base + c.rela_plt, dynamic |-> base + c.dynamic,
            bss |-> base + c.bss]
  BY DEF Addresses
<1> HIDE DEF base, vm
<1>6. TextVm \in Nat BY DEF TextVm
<1>7. vm.plt >= vm.text + t /\ vm.rodata >= vm.plt + PltEntry * n /\ vm.data >= vm.rodata + r
  BY <1>1, <1>3, <1>4, <1>5, <1>6
<1>8. /\ vm.got >= vm.data + d /\ vm.dynsym >= vm.got + 8 * n
      /\ vm.dynstr >= vm.dynsym + 24 * (1 + n) /\ vm.rela_plt >= vm.dynstr + s
      /\ vm.dynamic >= vm.rela_plt + 24 * n /\ vm.bss >= vm.dynamic + 16 * 14
  BY <1>2, <1>3, <1>5
<1> QED BY <1>7, <1>8 DEF vm, text, c

-----------------------------------------------------------------------------
(* Naturals, recursion and sequences *)

\* Every nonempty set of naturals has a least element, the one Min picks.
LEMMA MinNat ==
  ASSUME NEW S \in SUBSET Nat, S # {}
  PROVE  Min(S) \in S /\ \A k \in S : Min(S) <= k
<1>1. PICK m \in S : \A y \in S : <<y, m>> \notin OpToRel(<, Nat)
  BY NatLessThanWellFounded, WFMin, Zenon
<1>2. \A y \in S : ~(y < m)
  BY <1>1, Zenon DEF OpToRel
<1>3. \E x \in S : \A y \in S : x =< y
  BY <1>2
<1> QED
  BY <1>3, Zenon DEF Min

\* The values of f begin with a at lo; each other is what F makes of its place
\* and of the value before.
Iterates(f, lo, N, a, F) ==
  f[lo] = a /\ \A n \in lo .. N : n # lo => f[n] = F[<<n, f[n - 1]>>]

\* There is such a function.
LEMMA Recursion ==
  ASSUME NEW S, NEW lo \in Nat, NEW N \in Nat, lo <= N, NEW a \in S,
         NEW F \in [(lo .. N) \X S -> S]
  PROVE  \E f \in [lo .. N -> S] : Iterates(f, lo, N, a, F)
<1> DEFINE Upto(n, f) == Iterates(f, lo, n, a, F)
           Missing == {n \in lo .. N : ~ \E f \in [lo .. n -> S] : Upto(n, f)}
<1>1. CASE Missing = {}
  <2>1. N \in lo .. N
    OBVIOUS
  <2>2. PICK f \in [lo .. N -> S] : Upto(N, f)
    BY <1>1, <2>1, Zenon
  <2> QED
    BY <2>2
<1>2. CASE Missing # {}
  <2>1. Missing \in SUBSET Nat
    OBVIOUS
  <2>2. PICK n \in Missing : \A k \in Missing : n <= k
    BY <1>2, <2>1, MinNat
  <2>3. CASE n = lo
    <3>1. [k \in lo .. lo |-> a] \in [lo .. n -> S] /\ Upto(n, [k \in lo .. lo |-> a])
      BY <2>3 DEF Iterates
    <3> QED
      BY <3>1
  <2>4. CASE n # lo
    <3>1. n - 1 \in lo .. N /\ n - 1 \notin Missing
      BY <2>2, <2>4
    <3>2. PICK f \in [lo .. (n - 1) -> S] : Upto(n - 1, f)
      BY <3>1
    <3> DEFINE g == [k \in lo .. n |-> IF k = n THEN F[<<n, f[n - 1]>>] ELSE f[k]]
    <3>3. <<n, f[n - 1]>> \in (lo .. N) \X S
      BY <3>1
    <3>4. g \in [lo .. n -> S]
      BY <3>3
    <3>5. ASSUME NEW m \in lo .. n, m # lo PROVE g[m] = F[<<m, g[m - 1]>>]
      <4>1. CASE m = n
        BY <4>1, <3>1
      <4>2. CASE m # n
        BY <4>2, <3>2, <3>5 DEF Iterates
      <4> QED
        BY <4>1, <4>2
    <3>6. g[lo] = f[lo]
      BY <2>4
    <3>7. Upto(n, g)
      BY <3>5, <3>6, <3>2 DEF Iterates
    <3> QED
      BY <3>4, <3>7
  <2> QED
    BY <2>3, <2>4
<1> QED
  BY <1>1, <1>2

\* The elements of a sequence of sequences, one after the other.
LEMMA FlattenTyped ==
  ASSUME NEW S, NEW ss \in Seq(Seq(S))
  PROVE  FlattenSeq(ss) \in Seq(S)
<1> DEFINE N == Len(ss)
           Is(f) == f = [i \in 1 .. N |-> IF i = 1 THEN ss[i] ELSE f[i - 1] \o ss[i]]
           F == [p \in (1 .. N) \X Seq(S) |-> p[2] \o ss[p[1]]]
<1>1. CASE N = 0
  BY <1>1 DEF FlattenSeq
<1>2. CASE N # 0
  <2>1. 1 \in Nat /\ N \in Nat /\ 1 <= N /\ ss[1] \in Seq(S) /\ F \in [(1 .. N) \X Seq(S) -> Seq(S)]
    BY <1>2
  <2>2. PICK f \in [1 .. N -> Seq(S)] : Iterates(f, 1, N, ss[1], F)
    <3> HIDE DEF N, F
    <3> QED BY <2>1, Recursion
  <2>3. ASSUME NEW n \in 1 .. N, n # 1
        PROVE  n - 1 \in 1 .. N /\ f[n] = f[n - 1] \o ss[n]
    <3>0. n - 1 \in 1 .. N
      <4> HIDE DEF N
      <4> QED BY <2>1, <2>3
    <3>1. n - 1 \in 1 .. N /\ <<n, f[n - 1]>> \in (1 .. N) \X Seq(S)
      BY <3>0, <2>2, <2>3
    <3>2. F[<<n, f[n - 1]>>] = f[n - 1] \o ss[n]
      BY <3>1
    <3> QED
      BY <3>1, <3>2, <2>2, <2>3 DEF Iterates
  <2>4. Is(f)
    <3> DEFINE h == [n \in 1 .. N |-> IF n = 1 THEN ss[n] ELSE f[n - 1] \o ss[n]]
    <3>1. \A n \in 1 .. N : f[n] = h[n]
      BY <2>2, <2>3 DEF Iterates
    <3> HIDE DEF N
    <3>2. f = [n \in 1 .. N |-> f[n]] /\ h = [n \in 1 .. N |-> h[n]]
      OBVIOUS
    <3>3. f = h
      BY <3>1, <3>2, Zenon
    <3> QED
      BY <3>3
  <2> DEFINE g == CHOOSE f1 : Is(f1)
  <2>5. Is(g)
    BY <2>4, Zenon
  <2>6. FlattenSeq(ss) = g[N]
    BY <1>2 DEF FlattenSeq
  <2>7. \A n \in 1 .. N : g[n] = IF n = 1 THEN ss[n] ELSE g[n - 1] \o ss[n]
    BY <2>5, Zenon
  <2> HIDE DEF g, N
  <2>8. g[N] = f[N]
    <3> DEFINE Off == {n \in 1 .. N : g[n] # f[n]}
    <3>1. Off \in SUBSET Nat
      BY <2>1
    <3>2. ASSUME Off # {} PROVE FALSE
      <4>1. PICK n \in Off : \A k \in Off : n <= k
        BY <3>1, <3>2, MinNat
      <4>2. n # 1
        BY <4>1, <2>1, <2>7, <2>2 DEF Iterates
      <4>3. n - 1 \in 1 .. N /\ f[n] = f[n - 1] \o ss[n]
        BY <4>1, <4>2, <2>3
      <4>4. g[n - 1] = f[n - 1]
        BY <4>1, <4>3
      <4>5. g[n] = g[n - 1] \o ss[n]
        BY <2>7, <4>1, <4>2
      <4> QED
        BY <4>1, <4>3, <4>4, <4>5
    <3> QED
      BY <3>2, <2>1
  <2> QED
    BY <2>6, <2>8, <2>1, <2>2
<1> QED
  BY <1>1, <1>2

-----------------------------------------------------------------------------
(* What the encoder writes *)

\* Names, and what the reader of operands makes one of: the last letter of a
\* register.
Text == STRING \cup {NoSym, "d", "w", "b", "l"}

Piece ==
  ({"op"} \X Int) \cup ({"modrm"} \X Int \X Int \X Int) \cup ({"sib"} \X Int \X Int \X Int)
  \cup ({"rex"} \X Int \X Int \X Int \X Int) \cup ({"num"} \X {1, 2, 4, 8} \X Int)
  \cup ({"sym"} \X {4} \X Int \X Text) \cup ({"rel"} \X {4} \X Text)
Code == Seq(Piece)

\* A piece has a width; one that names a symbol has four bytes.
LEMMA PieceWidth ==
  ASSUME NEW p \in Piece
  PROVE  /\ Width(p) \in Nat /\ Width(p) >= 1
         /\ p[1] = "sym" => Width(p) = 4 /\ p[3] \in Int /\ p[4] \in Text
         /\ p[1] = "rel" => Width(p) = 4 /\ p[3] \in Text
<1>1. CASE p \in {"op"} \X Int
  BY <1>1 DEF Width
<1>2. CASE p \in {"modrm"} \X Int \X Int \X Int
  BY <1>2 DEF Width
<1>3. CASE p \in {"sib"} \X Int \X Int \X Int
  BY <1>3 DEF Width
<1>4. CASE p \in {"rex"} \X Int \X Int \X Int \X Int
  BY <1>4 DEF Width
<1>5. CASE p \in {"num"} \X {1, 2, 4, 8} \X Int
  BY <1>5 DEF Width
<1>6. CASE p \in {"sym"} \X {4} \X Int \X Text
  BY <1>6 DEF Width
<1>7. CASE p \in {"rel"} \X {4} \X Text
  BY <1>7 DEF Width
<1> QED
  BY <1>1, <1>2, <1>3, <1>4, <1>5, <1>6, <1>7 DEF Piece

\* The constructors of pieces make pieces.
LEMMA Pieces ==
  /\ \A v \in Int : Op(v) \in Piece
  /\ \A a, b, c \in Int : ModRM(a, b, c) \in Piece /\ Sib(a, b, c) \in Piece
  /\ \A a, b, c, d \in Int : <<"rex", a, b, c, d>> \in Piece
  /\ \A w \in {1, 2, 4, 8}, n \in Int : Num(w, n) \in Piece
  /\ \A n \in Int, name \in Text : Sym(name, n) \in Piece
  /\ \A name \in Text : Rel(name) \in Piece
<1>1. \A v \in Int : Op(v) \in Piece
  BY DEF Op, Piece
<1>2. \A a, b, c \in Int : ModRM(a, b, c) \in Piece /\ Sib(a, b, c) \in Piece
  BY DEF ModRM, Sib, Piece
<1>3. \A a, b, c, d \in Int : <<"rex", a, b, c, d>> \in Piece
  BY DEF Piece
<1>4. \A w \in {1, 2, 4, 8}, n \in Int : Num(w, n) \in Piece
  BY DEF Num, Piece
<1>5. \A n \in Int, name \in Text : Sym(name, n) \in Piece
  BY DEF Sym, Piece
<1>6. \A name \in Text : Rel(name) \in Piece
  BY DEF Rel, Piece
<1> QED
  BY <1>1, <1>2, <1>3, <1>4, <1>5, <1>6

\* Codes of one, two and three pieces, and one code after another.
LEMMA Codes ==
  /\ <<>> \in Code
  /\ \A p \in Piece : <<p>> \in Code
  /\ \A p, q \in Piece : <<p, q>> \in Code
  /\ \A p, q, r \in Piece : <<p, q, r>> \in Code
  /\ \A s, t \in Code : s \o t \in Code
<1>1. <<>> \in Code
  BY DEF Code
<1>2. \A p \in Piece : <<p>> \in Code
  BY DEF Code
<1>3. \A p, q \in Piece : <<p, q>> \in Code
  BY DEF Code
<1>4. \A p, q, r \in Piece : <<p, q, r>> \in Code
  BY DEF Code
<1>5. \A s, t \in Code : s \o t \in Code
  BY DEF Code
<1> QED
  BY <1>1, <1>2, <1>3, <1>4, <1>5

\* The bits of a REX prefix are numbers.
LEMMA Bits ==
  /\ \A b : Bit(b) \in Int
  /\ \A sz : W(sz) \in Int
  /\ \A id : Ext(id) \in Int /\ XExt(id) \in Int
BY DEF Bit, W, Ext, XExt

\* The prefixes, and an opcode that the size selects, are codes.
LEMMA PrefixCode ==
  /\ \A a, b, c, d \in Int : RexIf(a, b, c, d) \in Code
  /\ \A sz : Word(sz) \in Code
  /\ \A sz : \A a, b \in Int : Narrow(sz, a, b) \in Code
<1>1. \A a, b, c, d \in Int : RexIf(a, b, c, d) \in Code
  BY Pieces, Codes DEF RexIf
<1>2. \A sz : Word(sz) \in Code
  BY Pieces, Codes DEF Word
<1>3. \A sz : \A a, b \in Int : Narrow(sz, a, b) \in Code
  BY Pieces, Codes DEF Narrow
<1> QED
  BY <1>1, <1>2, <1>3

\* encode_mem writes a code.
LEMMA MemCode ==
  ASSUME NEW m \in MemOperand, NEW reg \in Int
  PROVE  EncodeMem(m, reg) \in Code
<1> DEFINE sib == m.index # None \/ m.base \in {RSP, R12}
           mod == CASE ~m.shown /\ m.sym = NoSym /\ m.disp = 0 /\ m.base \notin {RBP, R13} -> 0
                    [] m.disp \in -128..127 /\ m.sym = NoSym -> 1
                    [] OTHER -> 2
           disp == IF m.sym # NoSym THEN Sym(m.sym, m.off)
                   ELSE Num(IF mod = 1 THEN 1 ELSE 4, m.disp)
           middle == CASE ~sib -> <<>>
                       [] sib /\ m.index = None -> <<Sib(1, 4, m.base)>>
                       [] OTHER -> <<Sib(m.scale, m.index, m.base)>>
<1>1. /\ m.base \in Int /\ m.index \in Int /\ m.scale \in Int /\ m.disp \in Int /\ m.off \in Int
      /\ m.sym \in Text
  BY DEF MemOperand, Text
<1>2. mod \in Int
  OBVIOUS
<1>3. disp \in Piece /\ Num(4, m.disp) \in Piece
  <2>1. Sym(m.sym, m.off) \in Piece
    BY <1>1, Pieces
  <2>2. Num(1, m.disp) \in Piece /\ Num(4, m.disp) \in Piece
    BY <1>1, Pieces
  <2> HIDE DEF mod
  <2> QED
    BY <2>1, <2>2
<1>4. middle \in Code
  <2>1. Sib(1, 4, m.base) \in Piece /\ Sib(m.scale, m.index, m.base) \in Piece
    BY <1>1, Pieces
  <2>2. /\ <<Sib(1, 4, m.base)>> \in Code /\ <<Sib(m.scale, m.index, m.base)>> \in Code
        /\ <<>> \in Code
    BY <2>1, Codes
  <2> HIDE DEF sib
  <2> QED
    BY <2>2
<1>5. ModRM(0, reg, 5) \in Piece /\ ModRM(mod, reg, IF sib THEN 4 ELSE m.base) \in Piece
  <2> HIDE DEF mod, sib
  <2> QED BY <1>1, <1>2, Pieces
<1>6. EncodeMem(m, reg) =
        IF m.rip THEN <<ModRM(0, reg, 5), IF m.sym # NoSym THEN disp ELSE Num(4, m.disp)>>
        ELSE <<ModRM(mod, reg, IF sib THEN 4 ELSE m.base)>> \o middle
             \o (IF mod = 0 THEN <<>> ELSE <<disp>>)
  BY DEF EncodeMem
<1> HIDE DEF sib, mod, disp, middle
<1> QED
  BY <1>3, <1>4, <1>5, <1>6, Codes

\* So do the three layouts that the encoders share.
LEMMA Layouts ==
  ASSUME NEW sz, NEW ops \in Code, NEW reg \in Int, NEW rm \in Int
  PROVE  /\ RegReg(sz, ops, reg, rm) \in Code
         /\ One(sz, ops, reg, rm) \in Code
         /\ \A m \in MemOperand : RegMem(sz, ops, reg, m) \in Code
<1>1. <<ModRM(3, reg, rm)>> \in Code
  BY Pieces, Codes
<1>a. 0 \in Int /\ W(sz) \in Int /\ Ext(reg) \in Int /\ Ext(rm) \in Int
  BY Bits
<1>b. /\ RexIf(W(sz), Ext(reg), 0, Ext(rm)) \in Code
      /\ RexIf(W(sz), 0, 0, Ext(rm)) \in Code
      /\ RexIf(W(sz), Ext(reg), 0, 0) \in Code
  BY <1>a, PrefixCode, Zenon
<1>2. RegReg(sz, ops, reg, rm) \in Code
  BY <1>1, <1>b, Codes DEF RegReg
<1>3. One(sz, ops, reg, rm) \in Code
  BY <1>1, <1>b, Codes DEF One
<1>4. \A m \in MemOperand : RegMem(sz, ops, reg, m) \in Code
  BY <1>b, MemCode, Codes DEF RegMem
<1> QED
  BY <1>2, <1>3, <1>4

\* An operand as it is read.
Read == [k : {"reg"}, id : Nat, sz : STRING] \cup [k : {"imm"}, n : Int, sym : Text] \cup MemOperand

\* What an operand that was read has, by its kind.
LEMMA Operands ==
  ASSUME NEW a \in Read
  PROVE  /\ a.k \in {"reg", "imm", "mem"}
         /\ a.k = "reg" => a.id \in Int
         /\ a.k = "imm" => a.n \in Int /\ a.sym \in Text
         /\ a.k = "mem" => a \in MemOperand
BY DEF Read, MemOperand

\* An operand as it is written is one as it is read.
LEMMA AnyOperand == Operand \subseteq Read
BY DEF Operand, Read, Text

-----------------------------------------------------------------------------
(* The bytes of a code *)

\* A code has finitely many bytes.
LEMMA CellsFinite ==
  ASSUME NEW ps \in Code
  PROVE  IsFiniteSet(Cells(ps)) /\ Size(ps) \in Nat
<1> DEFINE part(j) == {j} \X (1 .. Width(ps[j]))
           parts == {part(j) : j \in DOMAIN ps}
<1>1. DOMAIN ps = 1 .. Len(ps) /\ Len(ps) \in Nat /\ \A j \in DOMAIN ps : ps[j] \in Piece
  BY DEF Code
<1>2. IsFiniteSet(DOMAIN ps)
  BY <1>1, FS_Interval
<1>3. IsFiniteSet(parts)
  <2> DEFINE f == [j \in DOMAIN ps |-> part(j)]
  <2> HIDE DEF part
  <2>1. f \in Surjection(DOMAIN ps, parts)
    BY DEF Surjection
  <2> QED BY <1>2, <2>1, FS_Surjection
<1>4. ASSUME NEW j \in DOMAIN ps PROVE IsFiniteSet(part(j))
  <2>1. IsFiniteSet(1 .. Width(ps[j]))
    <3>1. 1 \in Int /\ Width(ps[j]) \in Int
      BY <1>1, PieceWidth
    <3> QED
      BY <3>1, FS_Interval, Zenon
  <2>2. IsFiniteSet({j})
    BY FS_Singleton
  <2> QED
    BY <2>1, <2>2, FS_Product
<1>5. IsFiniteSet(UNION parts)
  <2>1. \A T \in parts : IsFiniteSet(T)
    BY <1>4
  <2> HIDE DEF parts
  <2> QED BY <1>3, <2>1, FS_UNION
<1> QED
  BY <1>5, FS_CardinalityType DEF Cells, Size

\* A field of four bytes: what is before it and the field itself are within the
\* code, and a field with two pieces before it ends at the sixth byte or later.
LEMMA FieldWithin ==
  ASSUME NEW ps \in Code, NEW k \in DOMAIN ps, Width(ps[k]) = 4
  PROVE  LET before == Size(SubSeq(ps, 1, k - 1))
         IN  before \in Nat /\ before + 4 <= Size(ps) /\ (k >= 3 => Size(ps) >= 6)
<1> DEFINE head == SubSeq(ps, 1, k - 1)
           field == {k} \X (1 .. Width(ps[k]))
<1>1. DOMAIN ps = 1 .. Len(ps) /\ Len(ps) \in Nat /\ k \in 1 .. Len(ps)
      /\ \A j \in DOMAIN ps : ps[j] \in Piece
  BY DEF Code
<1>2. /\ head \in Code /\ DOMAIN head = 1 .. (k - 1)
      /\ \A j \in 1 .. (k - 1) : head[j] = ps[j] /\ j \in DOMAIN ps
  BY <1>1 DEF Code
<1> HIDE DEF head
<1>3. /\ IsFiniteSet(Cells(ps)) /\ IsFiniteSet(Cells(head))
      /\ Size(ps) \in Nat /\ Size(head) \in Nat
  BY <1>2, CellsFinite
<1>4. IsFiniteSet(field) /\ Cardinality(field) = 4
  <2>1. IsFiniteSet({k}) /\ Cardinality({k}) = 1
    BY FS_Singleton
  <2>2. IsFiniteSet(1 .. Width(ps[k])) /\ Cardinality(1 .. Width(ps[k])) = 4
    <3>1. Width(ps[k]) \in Int /\ 1 \in Int
      BY <1>1, PieceWidth
    <3>2. /\ IsFiniteSet(1 .. Width(ps[k]))
          /\ Cardinality(1 .. Width(ps[k]))
               = IF 1 > Width(ps[k]) THEN 0 ELSE Width(ps[k]) - 1 + 1
      BY <3>1, FS_Interval, Zenon
    <3>3. ~(1 > Width(ps[k])) /\ Width(ps[k]) - 1 + 1 = 4
      OBVIOUS
    <3> QED
      BY <3>2, <3>3
  <2> QED
    BY <2>1, <2>2, FS_Product
<1>5. Cells(head) \cup field \subseteq Cells(ps)
  <2>1. ASSUME NEW c \in Cells(head) PROVE c \in Cells(ps)
    <3>1. PICK j \in 1 .. (k - 1) : c \in {j} \X (1 .. Width(head[j]))
      BY <1>2 DEF Cells
    <3> QED
      BY <1>2, <3>1 DEF Cells
  <2>2. field \subseteq Cells(ps)
    BY DEF Cells
  <2> QED
    BY <2>1, <2>2
<1>6. Cells(head) \cap field = {}
  <2>1. ASSUME NEW c \in Cells(head), c \in field PROVE FALSE
    <3>1. PICK j \in 1 .. (k - 1) : c \in {j} \X (1 .. Width(head[j]))
      BY <1>2 DEF Cells
    <3>2. c[1] = j /\ c[1] = k
      BY <2>1, <3>1
    <3> QED
      BY <3>2, <1>1
  <2> QED
    BY <2>1
<1>7. Size(head) + 4 <= Size(ps)
  <2>1. Cardinality(Cells(head) \cup field) = Cardinality(Cells(head)) + 4
    <3>1. Cardinality({}) = 0
      BY FS_EmptySet
    <3> HIDE DEF field
    <3> QED
      <4>1. Cardinality(Cells(head) \cup field)
              = Cardinality(Cells(head)) + Cardinality(field) - Cardinality(Cells(head) \cap field)
        BY <1>3, <1>4, FS_Union, Zenon
      <4>2. Cardinality(Cells(head)) \in Nat
        BY <1>3, FS_CardinalityType, Zenon
      <4>3. Cardinality(Cells(head) \cap field) = 0
        BY <1>6, <3>1, Zenon
      <4> QED
        BY <4>1, <4>2, <4>3, <1>4
  <2>2. Cardinality(Cells(head) \cup field) <= Cardinality(Cells(ps))
    BY <1>3, <1>5, FS_Subset
  <2> QED
    BY <1>3, <2>1, <2>2 DEF Size
<1>8. ASSUME k >= 3 PROVE Size(head) >= 2
  <2> DEFINE two == {<<1, 1>>} \cup {<<2, 1>>}
  <2>1. two \subseteq Cells(head)
    <3>1. 1 \in 1 .. (k - 1) /\ 2 \in 1 .. (k - 1)
      BY <1>8, <1>1
    <3>2. 1 \in 1 .. Width(head[1]) /\ 1 \in 1 .. Width(head[2])
      BY <1>1, <1>2, <3>1, PieceWidth
    <3>3. <<1, 1>> \in {1} \X (1 .. Width(head[1])) /\ <<2, 1>> \in {2} \X (1 .. Width(head[2]))
      BY <3>2
    <3> QED
      BY <1>2, <3>1, <3>3 DEF Cells
  <2>2. Cardinality(two) = 2
    <3>1. IsFiniteSet({<<1, 1>>}) /\ Cardinality({<<1, 1>>}) = 1
      BY FS_Singleton, Zenon
    <3>2. <<2, 1>> \notin {<<1, 1>>}
      OBVIOUS
    <3>3. Cardinality(two) = Cardinality({<<1, 1>>}) + 1
      BY <3>1, <3>2, FS_AddElement, Zenon
    <3> QED
      BY <3>1, <3>3
  <2>3. Cardinality(two) <= Cardinality(Cells(head))
    <3> HIDE DEF two
    <3> QED BY <1>3, <2>1, FS_Subset
  <2> QED
    BY <2>2, <2>3, <1>3 DEF Size
<1> QED
  BY <1>3, <1>7, <1>8 DEF head

-----------------------------------------------------------------------------
(* Operands as they are read *)

\* What a register is read as is one operand, or it and a label.
LEMMA RegRead ==
  ASSUME NEW r \in Operand, r.k = "reg"
  PROVE  ReadReg(r) \in Seq(Read)
<1> DEFINE rest == CASE r.sz \in {"l", "w", "b"} /\ r.id \in 8..15 ->
                          IF r.sz = "l" THEN "d" ELSE r.sz
                     [] r.sz = "b" /\ r.id \in 4..7 -> "l"
                     [] OTHER -> NoSym
<1>1. r.sz \in STRING
  BY DEF Operand, MemOperand
<1>2. rest \in Text
  <2>1. CASE r.sz \in {"l", "w", "b"} /\ r.id \in 8..15
    BY <1>1, <2>1 DEF Text
  <2>2. CASE ~(r.sz \in {"l", "w", "b"} /\ r.id \in 8..15)
    BY <2>2 DEF Text
  <2> QED
    BY <2>1, <2>2
<1>3. \A name \in Text : Lab(name) \in Read
  BY DEF Lab, Read
<1>4. ReadReg(r) = IF rest = NoSym THEN <<r>> ELSE <<r, Lab(rest)>>
  BY DEF ReadReg
<1> HIDE DEF rest
<1>5. <<r>> \in Seq(Read) /\ <<r, Lab(rest)>> \in Seq(Read)
  BY <1>2, <1>3, AnyOperand
<1> QED
  BY <1>4, <1>5, Zenon

\* The reader of operands makes operands, and at most three of them.
LEMMA OperandsRead ==
  ASSUME NEW args \in Seq(Operand)
  PROVE  ReadOperands(args) \in Seq(Read) /\ Len(ReadOperands(args)) \in 0 .. 3
<1> DEFINE ss == [i \in DOMAIN args |-> IF args[i].k = "reg" THEN ReadReg(args[i]) ELSE <<args[i]>>]
           all == FlattenSeq(ss)
<1>1. ss \in Seq(Seq(Read))
  <2>1. DOMAIN args = 1 .. Len(args) /\ Len(args) \in Nat
    OBVIOUS
  <2>2. \A i \in DOMAIN args : ss[i] \in Seq(Read)
    <3> TAKE i \in DOMAIN args
    <3>1. args[i] \in Operand
      OBVIOUS
    <3>2. CASE args[i].k = "reg"
      <4>1. ReadReg(args[i]) \in Seq(Read)
        BY <3>1, <3>2, RegRead
      <4> QED BY <3>2, <4>1
    <3>3. CASE args[i].k # "reg"
      BY <3>1, <3>3, AnyOperand
    <3> QED BY <3>2, <3>3
  <2>3. DOMAIN ss = 1 .. Len(args)
    BY <2>1
  <2> HIDE DEF ss
  <2>4. \A i \in 1 .. Len(args) : ss[i] \in Seq(Read)
    BY <2>1, <2>2
  <2>5. ss = [i \in 1 .. Len(args) |-> ss[i]]
    BY <2>3 DEF ss
  <2>6. ss \in [1 .. Len(args) -> Seq(Read)]
    BY <2>4, <2>5
  <2> QED
    BY <2>1, <2>6
<1> HIDE DEF ss
<1>2. all \in Seq(Read)
  BY <1>1, FlattenTyped
<1>3. ReadOperands(args) = IF Len(all) > 3 THEN SubSeq(all, 1, 3) ELSE all
  BY DEF ReadOperands, ss
<1> HIDE DEF all
<1>4. CASE Len(all) > 3
  <2>1. SubSeq(all, 1, 3) \in Seq(Read) /\ Len(SubSeq(all, 1, 3)) = 3
    BY <1>2, <1>4
  <2> QED
    BY <1>3, <1>4, <2>1
<1>5. CASE ~(Len(all) > 3)
  <2>1. ReadOperands(args) = all
    BY <1>3, <1>5
  <2>2. \A m \in Nat : ~(m > 3) => m \in 0 .. 3
    OBVIOUS
  <2>3. Len(all) \in Nat
    BY <1>2
  <2> QED
    BY <1>2, <1>5, <2>1, <2>2, <2>3, Zenon
<1> QED
  BY <1>4, <1>5

-----------------------------------------------------------------------------
(* The encoders *)

\* An instruction with its operands as they are read.
Given == [op : STRING, cc : STRING, sz : STRING, args : Seq(Read)]

\* The operands of an instruction that has them, and codes of one piece.
LEMMA SrcSide ==
  ASSUME NEW i \in Given, Len(i.args) \in {1, 2, 3}
  PROVE  /\ Src(i).k \in {"reg", "imm", "mem"}
         /\ Src(i).k = "imm" => Src(i).n \in Int
         /\ Src(i).k = "imm" => Src(i).sym \in Text
         /\ Src(i).k = "reg" => Src(i).id \in Int
         /\ Src(i).k = "mem" => Src(i) \in MemOperand
<1>1. i.args \in Seq(Read)
  BY DEF Given
<1>2. Src(i) \in Read
  BY <1>1 DEF Src
<1> QED
  BY <1>2, Operands

\* The second operand of an instruction that has one.
LEMMA DstSide ==
  ASSUME NEW i \in Given, Len(i.args) \in {2, 3}
  PROVE  /\ Dst(i).k = "reg" => Dst(i).id \in Int
         /\ Dst(i).k = "mem" => Dst(i) \in MemOperand
<1>1. i.args \in Seq(Read)
  BY DEF Given
<1>2. Dst(i) \in Read
  BY <1>1 DEF Dst
<1> QED
  BY <1>2, Operands

\* Codes of opcodes alone, of one number and of one ModR/M byte.
LEMMA Single ==
  /\ \A v \in Int : <<Op(v)>> \in Code
  /\ \A u, v \in Int : <<Op(u), Op(v)>> \in Code
  /\ \A u, v, w \in Int : <<Op(u), Op(v), Op(w)>> \in Code
  /\ \A w \in {1, 2, 4, 8}, n \in Int : <<Num(w, n)>> \in Code
  /\ \A a, b, c \in Int : <<ModRM(a, b, c)>> \in Code
BY Pieces, Codes

\* encode_alu writes a code.
LEMMA AluCode ==
  ASSUME NEW i \in Given, Len(i.args) = 2, NEW digit \in Int
  PROVE  EncodeAlu(i, digit) \in Code
<1>1. /\ <<Op(IF i.sz = "l" THEN \h82 ELSE \h81)>> \in Code
      /\ <<Op(\h80)>> \in Code /\ <<Op(\h81)>> \in Code /\ <<Op(\h83)>> \in Code
      /\ <<Op(8 * digit + 1)>> \in Code /\ <<Op(8 * digit + 3)>> \in Code
  BY Single
<1>2. Word(i.sz) \in Code /\ <<>> \in Code
  BY PrefixCode, Codes
<1>3. CASE Are(i, "imm", "reg")
  <2>1. Src(i).n \in Int /\ Dst(i).id \in Int
    BY <1>3, SrcSide, DstSide DEF Are, Src, Dst
  <2>2. \A sz : \A ops \in Code : One(sz, ops, digit, Dst(i).id) \in Code
    BY <2>1, Layouts
  <2>3. \A w \in {1, 2, 4, 8} : <<Num(w, Src(i).n)>> \in Code
    BY <2>1, Single
  <2>4. /\ ~Are(i, "imm", "mem") /\ ~Are(i, "reg", "reg")
        /\ ~Are(i, "mem", "reg") /\ ~Are(i, "reg", "mem")
    BY <1>3 DEF Are
  <2> QED
    BY <1>1, <1>2, <1>3, <2>2, <2>3, <2>4, Codes DEF EncodeAlu
<1>4. CASE Are(i, "imm", "mem")
  BY <1>1, <1>2, <1>4, SrcSide, DstSide, Single, Layouts, Codes DEF EncodeAlu, Are, Src, Dst
<1>5. CASE Are(i, "reg", "reg")
  BY <1>1, <1>2, <1>5, SrcSide, DstSide, Layouts, Codes DEF EncodeAlu, Are, Src, Dst
<1>6. CASE Are(i, "mem", "reg")
  BY <1>1, <1>2, <1>6, SrcSide, DstSide, Layouts, Codes DEF EncodeAlu, Are, Src, Dst
<1>7. CASE Are(i, "reg", "mem")
  BY <1>1, <1>2, <1>7, SrcSide, DstSide, Layouts, Codes DEF EncodeAlu, Are, Src, Dst
<1>8. CASE /\ ~Are(i, "imm", "reg") /\ ~Are(i, "imm", "mem") /\ ~Are(i, "reg", "reg")
           /\ ~Are(i, "mem", "reg") /\ ~Are(i, "reg", "mem")
  BY <1>2, <1>8 DEF EncodeAlu, Bad
<1> QED
  BY <1>3, <1>4, <1>5, <1>6, <1>7, <1>8

\* encode_test writes a code.
LEMMA TestCode ==
  ASSUME NEW i \in Given, Len(i.args) = 2
  PROVE  EncodeTest(i) \in Code
<1>0. <<>> \in Code /\ <<Op(\h85)>> \in Code
  BY Codes, Single
<1>1. Word(i.sz) \in Code /\ Narrow(i.sz, \hF6, \hF7) \in Code
  BY PrefixCode
<1>2. CASE Are(i, "reg", "reg")
  BY <1>0, <1>1, <1>2, SrcSide, DstSide, Layouts, Codes DEF EncodeTest, Are, Src, Dst
<1>3. CASE Are(i, "imm", "reg")
  <2>1. Src(i).k # "reg" /\ Src(i).n \in Int /\ Dst(i).id \in Int
    BY <1>3, SrcSide, DstSide DEF Are, Src, Dst
  <2>2. One(i.sz, Narrow(i.sz, \hF6, \hF7), 0, Dst(i).id) \in Code
    <3>1. 0 \in Int
      OBVIOUS
    <3> QED BY <1>1, <2>1, <3>1, Layouts, Zenon
  <2>3. <<Num(1, Src(i).n)>> \in Code /\ <<Num(4, Src(i).n)>> \in Code
    BY <2>1, Single
  <2>4. ~Are(i, "reg", "reg")
    BY <2>1 DEF Are, Src
  <2> QED
    BY <1>0, <1>1, <1>3, <2>2, <2>3, <2>4, Codes DEF EncodeTest
<1>4. CASE ~Are(i, "reg", "reg") /\ ~Are(i, "imm", "reg")
  BY <1>0, <1>4 DEF EncodeTest, Bad
<1> QED
  BY <1>2, <1>3, <1>4

\* encode_shift writes a code, whatever its operands are.
LEMMA ShiftCode ==
  ASSUME NEW i \in Given, Len(i.args) = 2, i.op \in {"sar", "shr", "shl"}
  PROVE  EncodeShift(i) \in Code
<1> DEFINE digit == CASE i.op = "sar" -> 7 [] i.op = "shr" -> 5 [] i.op = "shl" -> 4
           id == IF Dst(i).k = "reg" THEN Dst(i).id ELSE 0
<1>1. digit \in Int
  OBVIOUS
<1>2. id \in Int
  BY SrcSide, DstSide
<1>3. /\ Word(i.sz) \in Code
      /\ \A a, b \in Int : Narrow(i.sz, a, b) \in Code
  BY PrefixCode
<1>4. \A a, b \in Int : One(i.sz, Narrow(i.sz, a, b), digit, id) \in Code
  <2> HIDE DEF digit, id
  <2> QED BY <1>1, <1>2, <1>3, Layouts
<1>5. Src(i).k = "imm" => <<Num(1, Src(i).n)>> \in Code
  BY SrcSide, DstSide, Single
<1>6. EncodeShift(i) =
        Word(i.sz)
        \o (CASE Src(i).k = "imm" /\ Src(i).n = 1 -> One(i.sz, Narrow(i.sz, \hD0, \hD1), digit, id)
              [] Src(i).k = "imm" /\ Src(i).n # 1 ->
                   One(i.sz, Narrow(i.sz, \hC0, \hC1), digit, id) \o <<Num(1, Src(i).n)>>
              [] OTHER -> One(i.sz, Narrow(i.sz, \hD2, \hD3), digit, id))
  BY DEF EncodeShift
<1> HIDE DEF digit, id
<1>7. CASE Src(i).k = "imm" /\ Src(i).n = 1
  BY <1>3, <1>4, <1>6, <1>7, Codes
<1>8. CASE Src(i).k = "imm" /\ Src(i).n # 1
  BY <1>3, <1>4, <1>5, <1>6, <1>8, Codes
<1>9. CASE Src(i).k # "imm"
  BY <1>3, <1>4, <1>6, <1>9, Codes
<1> QED
  BY <1>7, <1>8, <1>9

\* encode_mov writes a code.
LEMMA MovCode ==
  ASSUME NEW i \in Given, Len(i.args) = 2
  PROVE  EncodeMov(i) \in Code
<1>1. /\ Word(i.sz) \in Code
      /\ Narrow(i.sz, \h88, \h89) \in Code /\ Narrow(i.sz, \h8A, \h8B) \in Code
  BY PrefixCode
<1>a. <<>> \in Code
  BY Codes
<1>2. CASE Are(i, "imm", "reg")
  <2>1. Src(i).n \in Int /\ Dst(i).id \in Int
    BY <1>2, SrcSide, DstSide DEF Are, Src, Dst
  <2> DEFINE long == i.sz = "q" /\ Src(i).n < 0
             width == CASE long -> 8 [] i.sz = "w" -> 2 [] i.sz = "b" -> 1 [] OTHER -> 4
             op == (IF i.sz = "b" THEN \hB0 ELSE \hB8) + (Dst(i).id % 16)
  <2>2. width \in {1, 2, 4, 8}
    OBVIOUS
  <2>3. op \in Int
    BY <2>1
  <2>4. RexIf(Bit(long), 0, 0, Ext(Dst(i).id)) \in Code
    <3>1. Bit(long) \in Int /\ Ext(Dst(i).id) \in Int /\ 0 \in Int
      BY Bits
    <3> QED BY <3>1, PrefixCode, Zenon
  <2>5. EncodeMov(i) = Word(i.sz) \o RexIf(Bit(long), 0, 0, Ext(Dst(i).id))
                       \o <<Op(op), Num(width, Src(i).n)>>
    <3>1. ~Are(i, "reg", "reg") /\ ~Are(i, "mem", "reg") /\ ~Are(i, "reg", "mem")
      BY <1>2 DEF Are
    <3>2. EncodeMov(i) = MovImm(i.sz, Src(i).n, Dst(i).id)
      BY <1>2, <3>1 DEF EncodeMov
    <3> QED
      BY <3>2, Zenon DEF MovImm
  <2> HIDE DEF long, width, op
  <2>6. <<Op(op), Num(width, Src(i).n)>> \in Code
    BY <2>1, <2>2, <2>3, Pieces, Codes
  <2> QED
    BY <1>1, <2>4, <2>5, <2>6, Codes
<1>3. CASE Are(i, "reg", "reg")
  BY <1>1, <1>3, SrcSide, DstSide, Layouts, Codes DEF EncodeMov, Are, Src, Dst
<1>4. CASE Are(i, "mem", "reg")
  <2>1. Src(i).k # "imm" /\ Src(i).k # "reg" /\ Src(i) \in MemOperand /\ Dst(i).id \in Int
    BY <1>4, SrcSide, DstSide DEF Are, Src, Dst
  <2>2. RegMem(i.sz, Narrow(i.sz, \h8A, \h8B), Dst(i).id, Src(i)) \in Code
    BY <1>1, <2>1, Layouts
  <2>3. ~Are(i, "imm", "reg") /\ ~Are(i, "reg", "reg") /\ ~Are(i, "reg", "mem")
    BY <2>1 DEF Are, Src
  <2> QED
    BY <1>1, <1>4, <2>2, <2>3, Codes DEF EncodeMov
<1>5. CASE Are(i, "reg", "mem")
  <2>1. Src(i).id \in Int /\ Dst(i) \in MemOperand
    BY <1>5, SrcSide, DstSide DEF Are, Src, Dst
  <2>2. RegMem(i.sz, Narrow(i.sz, \h88, \h89), Src(i).id, Dst(i)) \in Code
    BY <1>1, <2>1, Layouts
  <2>3. ~Are(i, "imm", "reg") /\ ~Are(i, "reg", "reg") /\ ~Are(i, "mem", "reg")
    BY <1>5 DEF Are
  <2> QED
    BY <1>1, <1>5, <2>2, <2>3, Codes DEF EncodeMov
<1>6. CASE /\ ~Are(i, "imm", "reg") /\ ~Are(i, "reg", "reg")
           /\ ~Are(i, "mem", "reg") /\ ~Are(i, "reg", "mem")
  BY <1>a, <1>6 DEF EncodeMov, Bad
<1> QED
  BY <1>2, <1>3, <1>4, <1>5, <1>6

\* The moves that extend write a code.
LEMMA ExtMoveCode ==
  ASSUME NEW i \in Given, Len(i.args) \in {2, 3}, NEW form, form[1] \in Int
  PROVE  EncodeExtMove(i, form) \in Code
<1> DEFINE ops == IF form[2] THEN <<Op(\h0F), Op(form[1])>> ELSE <<Op(form[1])>>
<1>1. ops \in Code
  BY Single
<1>2. Word(form[3]) \in Code /\ <<>> \in Code
  BY PrefixCode, Codes
<1>3. EncodeExtMove(i, form) =
        CASE Are(i, "mem", "reg") -> Word(form[3]) \o RegMem(form[3], ops, Dst(i).id, Src(i))
          [] Are(i, "reg", "reg") ->
               Word(form[3]) \o RexIf(W(form[3]), Ext(Dst(i).id), 0, Ext(Src(i).id))
               \o ops \o <<ModRM(3, Src(i).id, Dst(i).id)>>
          [] OTHER -> <<>>
  BY DEF EncodeExtMove, Bad
<1> HIDE DEF ops
<1>4. CASE Are(i, "mem", "reg")
  BY <1>1, <1>2, <1>3, <1>4, SrcSide, DstSide, Layouts, Codes DEF Are, Src, Dst
<1>5. CASE Are(i, "reg", "reg")
  <2>1. 0 \in Int /\ W(form[3]) \in Int /\ Ext(Dst(i).id) \in Int /\ Ext(Src(i).id) \in Int
    BY Bits
  <2>2. RexIf(W(form[3]), Ext(Dst(i).id), 0, Ext(Src(i).id)) \in Code
    BY <2>1, PrefixCode, Zenon
  <2>3. ModRM(3, Src(i).id, Dst(i).id) \in Piece
    BY <1>5, SrcSide, DstSide, Pieces DEF Are, Src, Dst
  <2> QED
    BY <1>1, <1>2, <1>3, <1>5, <2>2, <2>3, Codes DEF Are
<1>6. CASE ~Are(i, "mem", "reg") /\ ~Are(i, "reg", "reg")
  BY <1>2, <1>3, <1>6
<1> QED
  BY <1>4, <1>5, <1>6

\* encode_lea writes a code.
LEMMA LeaCode ==
  ASSUME NEW i \in Given, Len(i.args) = 2
  PROVE  EncodeLea(i) \in Code
<1>1. CASE Are(i, "mem", "reg")
  <2>1. Src(i) \in MemOperand /\ Dst(i).id \in Int
    BY <1>1, SrcSide, DstSide DEF Are, Src, Dst
  <2>2. RexIf(W(i.sz), Ext(Dst(i).id), Ext(Src(i).index), Ext(Src(i).base)) \in Code
    BY Bits, PrefixCode
  <2>3. EncodeMem(Src(i), Dst(i).id) \in Code /\ <<Op(\h8D)>> \in Code
    BY <2>1, MemCode, Single
  <2> QED
    BY <1>1, <2>2, <2>3, Codes DEF EncodeLea
<1>2. CASE ~Are(i, "mem", "reg")
  BY <1>2, Codes DEF EncodeLea, Bad
<1> QED
  BY <1>1, <1>2

\* encode_imul writes a code, with two operands or three.
LEMMA ImulCode ==
  ASSUME NEW i \in Given, Len(i.args) \in {2, 3}
  PROVE  EncodeImul(i) \in Code
<1>1. <<Op(\h0F), Op(\hAF)>> \in Code /\ <<Op(IF IsInt8(Src(i).n) THEN \h6B ELSE \h69)>> \in Code
  BY Single
<1>2. <<>> \in Code
  BY Codes
<1>3. CASE Len(i.args) = 2 /\ Are(i, "reg", "reg")
  BY <1>1, <1>3, SrcSide, DstSide, Layouts DEF EncodeImul, Are, Src, Dst
<1>4. CASE Len(i.args) = 2 /\ Are(i, "mem", "reg")
  <2>1. Src(i) \in MemOperand /\ Dst(i).id \in Int
    BY <1>4, SrcSide, DstSide DEF Are, Src, Dst
  <2>2. RegMem(i.sz, <<Op(\h0F), Op(\hAF)>>, Dst(i).id, Src(i)) \in Code
    BY <1>1, <2>1, Layouts
  <2>3. ~Are(i, "reg", "reg") /\ ~(Len(i.args) = 3)
    BY <1>4 DEF Are
  <2> QED
    BY <1>4, <2>2, <2>3 DEF EncodeImul
<1>5. CASE Len(i.args) = 3 /\ Are(i, "imm", "reg") /\ i.args[3].k = "reg"
  <2>1. i.args[3] \in Read
    BY <1>5 DEF Given
  <2>2. i.args[3].id \in Int /\ Src(i).n \in Int /\ Dst(i).id \in Int
    BY <1>5, <2>1, Operands, SrcSide, DstSide DEF Are, Src, Dst
  <2>3. RegReg(i.sz, <<Op(IF IsInt8(Src(i).n) THEN \h6B ELSE \h69)>>, i.args[3].id, Dst(i).id)
          \in Code
    BY <1>1, <2>2, Layouts
  <2>4. <<Num(IF IsInt8(Src(i).n) THEN 1 ELSE 4, Src(i).n)>> \in Code
    BY <2>2, Single
  <2> QED
    BY <1>5, <2>3, <2>4, Codes DEF EncodeImul
<1>6. CASE /\ ~(Len(i.args) = 2 /\ Are(i, "reg", "reg"))
           /\ ~(Len(i.args) = 2 /\ Are(i, "mem", "reg"))
           /\ ~(Len(i.args) = 3 /\ Are(i, "imm", "reg") /\ i.args[3].k = "reg")
  BY <1>2, <1>6 DEF EncodeImul, Bad
<1> QED
  BY <1>3, <1>4, <1>5, <1>6

\* div and idiv write a code.
LEMMA DivCode ==
  ASSUME NEW i \in Given, Len(i.args) = 1
  PROVE  EncodeDiv(i) \in Code
<1> DEFINE digit == IF i.op = "div" THEN 6 ELSE 7
<1>1. digit \in Int
  OBVIOUS
<1>2. Narrow(i.sz, \hF6, \hF7) \in Code
  BY PrefixCode
<1>3. EncodeDiv(i) =
        CASE Src(i).k = "reg" -> One(i.sz, Narrow(i.sz, \hF6, \hF7), digit, Src(i).id)
          [] Src(i).k = "mem" -> RegMem(i.sz, Narrow(i.sz, \hF6, \hF7), digit, Src(i))
          [] OTHER -> <<>>
  BY DEF EncodeDiv, Bad
<1> HIDE DEF digit
<1>4. CASE Src(i).k = "reg"
  <2>1. Src(i).id \in Int
    BY <1>4, SrcSide
  <2>2. One(i.sz, Narrow(i.sz, \hF6, \hF7), digit, Src(i).id) \in Code
    BY <1>1, <1>2, <2>1, Layouts, Zenon
  <2> QED
    BY <1>3, <1>4, <2>2
<1>5. CASE Src(i).k = "mem"
  BY <1>1, <1>2, <1>3, <1>5, SrcSide, Layouts
<1>6. CASE Src(i).k = "imm"
  BY <1>3, <1>6, Codes
<1> QED
  BY <1>4, <1>5, <1>6, SrcSide

\* neg, not, inc and dec write a code.
LEMMA UnaryCode ==
  ASSUME NEW i \in Given, Len(i.args) = 1, i.op \in {"neg", "not", "inc", "dec"}
  PROVE  EncodeUnary(i) \in Code
<1> DEFINE digit == [neg |-> 3, not |-> 2, inc |-> 0, dec |-> 1][i.op]
<1>1. digit \in Int
  OBVIOUS
<1>2. Narrow(i.sz, \hF6, \hF7) \in Code /\ Word(i.sz) \in Code
  BY PrefixCode
<1>3. EncodeUnary(i) =
        IF Src(i).k = "reg" THEN Word(i.sz) \o One(i.sz, Narrow(i.sz, \hF6, \hF7), digit, Src(i).id)
        ELSE <<>>
  BY DEF EncodeUnary, Bad
<1> HIDE DEF digit
<1>4. Src(i).k = "reg" => One(i.sz, Narrow(i.sz, \hF6, \hF7), digit, Src(i).id) \in Code
  <2> SUFFICES ASSUME Src(i).k = "reg"
               PROVE  One(i.sz, Narrow(i.sz, \hF6, \hF7), digit, Src(i).id) \in Code
    OBVIOUS
  <2>1. Src(i).id \in Int
    BY SrcSide
  <2>2. Narrow(i.sz, \hF6, \hF7) \in Code
    BY <1>2
  <2> DEFINE narrow == Narrow(i.sz, \hF6, \hF7)  id == Src(i).id
  <2>3. narrow \in Code /\ id \in Int
    BY <2>1, <2>2
  <2> HIDE DEF narrow, id
  <2>4. One(i.sz, narrow, digit, id) \in Code
    BY <1>1, <2>3, Layouts
  <2> QED
    BY <2>4 DEF narrow, id
<1> QED
  BY <1>2, <1>3, <1>4, Codes

\* push, pop and jmp write a code.
LEMMA SmallCodes ==
  ASSUME NEW i \in Given, Len(i.args) = 1
  PROVE  EncodePush(i) \in Code /\ EncodePop(i) \in Code /\ EncodeJmp(i) \in Code
<1>1. \A name \in Text, v \in Int : <<Op(v), Rel(name)>> \in Code
  BY Pieces, Codes
<1>2. \A v \in Int, w \in {1, 4}, n \in Int : <<Op(v), Num(w, n)>> \in Code
  BY Pieces, Codes
<1>3. RexIf(0, 0, 0, Ext(Src(i).id)) \in Code
  BY Bits, PrefixCode
<1>4. EncodePush(i) \in Code
  <2>1. CASE Src(i).k = "reg"
    <3>1. <<Op(\h50 + (Src(i).id % 16))>> \in Code
      BY <2>1, SrcSide, Single
    <3> QED
      BY <1>3, <2>1, <3>1, Codes DEF EncodePush
  <2>2. CASE Src(i).k = "imm"
    BY <1>2, <2>2, SrcSide DEF EncodePush
  <2>3. CASE Src(i).k = "mem"
    BY <2>3, Codes DEF EncodePush, Bad
  <2> QED
    BY <2>1, <2>2, <2>3, SrcSide
<1>5. EncodePop(i) \in Code
  <2>1. CASE Src(i).k = "reg"
    <3>1. <<Op(\h58 + (Src(i).id % 16))>> \in Code
      BY <2>1, SrcSide, Single
    <3> QED
      BY <1>3, <2>1, <3>1, Codes DEF EncodePop
  <2> QED
    BY <2>1, Codes DEF EncodePop, Bad
<1>6. EncodeJmp(i) \in Code
  BY <1>1, SrcSide, Codes DEF EncodeJmp, Bad
<1> QED
  BY <1>4, <1>5, <1>6

\* Branches and setcc write a code, if they know the condition.
LEMMA ConditionCodes ==
  ASSUME NEW i \in Given, Len(i.args) = 1
  PROVE  EncodeJcc(i) \in Code /\ EncodeSetcc(i) \in Code
<1>1. \A c \in DOMAIN CcCode : CcCode[c] \in Int
  BY DEF CcCode
<1>2. EncodeJcc(i) \in Code
  <2>1. CASE i.cc \in DOMAIN CcCode /\ Src(i).k = "imm" /\ Src(i).sym # NoSym
    <3>1. Op(\h0F) \in Piece /\ Op(\h80 + CcCode[i.cc]) \in Piece /\ Rel(Src(i).sym) \in Piece
      BY <1>1, <2>1, SrcSide, Pieces
    <3> QED
      BY <2>1, <3>1, Codes DEF EncodeJcc
  <2> QED
    BY <2>1, Codes DEF EncodeJcc, Bad
<1>3. EncodeSetcc(i) \in Code
  <2>1. CASE i.cc \in DOMAIN CcCode /\ Src(i).k = "reg"
    <3>1. /\ Op(\h0F) \in Piece /\ Op(\h90 + CcCode[i.cc]) \in Piece
          /\ ModRM(3, 0, Src(i).id) \in Piece /\ <<"rex", 0, 0, 0, Ext(Src(i).id)>> \in Piece
      BY <1>1, <2>1, SrcSide, Pieces, Bits
    <3> QED
      BY <2>1, <3>1, Codes DEF EncodeSetcc
  <2> QED
    BY <2>1, Codes DEF EncodeSetcc, Bad
<1> QED
  BY <1>2, <1>3

\* xchg writes a code.
LEMMA XchgCode ==
  ASSUME NEW i \in Given, Len(i.args) = 2
  PROVE  EncodeXchg(i) \in Code
<1>1. <<Op(\h87)>> \in Code /\ <<>> \in Code
  BY Single, Codes
<1> QED
  BY <1>1, SrcSide, DstSide, Layouts DEF EncodeXchg, Bad, Are, Src, Dst

\* The three families of SSE write a code around an opcode.
LEMMA FloatCodes ==
  ASSUME NEW i \in Given, Len(i.args) = 2, NEW ops \in Code
  PROVE  /\ EncodeSse(i, ops) \in Code /\ EncodeToFloat(i, ops) \in Code
         /\ EncodeFromFloat(i, ops) \in Code
<1>1. 0 \in Int /\ 1 \in Int /\ \A id : Ext(id) \in Int /\ XExt(id) \in Int
  BY Bits
<1>2. <<>> \in Code
  BY Codes
<1>3. /\ Src(i).k = "reg" => Src(i).id \in Int
      /\ Src(i).k = "mem" => Src(i) \in MemOperand
      /\ Dst(i).k = "reg" => Dst(i).id \in Int
      /\ Dst(i).k = "mem" => Dst(i) \in MemOperand
  BY SrcSide, DstSide
<1>4. CASE Are(i, "reg", "reg")
  <2>1. Src(i).id \in Int /\ Dst(i).id \in Int
    BY <1>3, <1>4 DEF Are, Src, Dst
  <2>2. ~Are(i, "mem", "reg") /\ ~Are(i, "reg", "mem")
    BY <1>4 DEF Are
  <2>3. /\ RexIf(0, XExt(Src(i).id), 0, XExt(Dst(i).id)) \in Code
        /\ RexIf(1, XExt(Dst(i).id), 0, Ext(Src(i).id)) \in Code
        /\ RexIf(1, XExt(Src(i).id), 0, Ext(Dst(i).id)) \in Code
    BY <1>1, PrefixCode, Zenon
  <2>4. <<ModRM(3, Dst(i).id, Src(i).id)>> \in Code
    BY <2>1, Single
  <2>5. EncodeSse(i, ops) \in Code
    BY <1>4, <2>2, <2>3, <2>4, Codes DEF EncodeSse
  <2>6. EncodeToFloat(i, ops) \in Code
    BY <1>4, <2>2, <2>3, <2>4, Codes DEF EncodeToFloat
  <2>7. EncodeFromFloat(i, ops) \in Code
    BY <1>4, <2>2, <2>3, <2>4, Codes DEF EncodeFromFloat
  <2> QED
    BY <2>5, <2>6, <2>7
<1>5. CASE Are(i, "mem", "reg")
  <2>1. Src(i) \in MemOperand /\ Dst(i).id \in Int
    BY <1>3, <1>5 DEF Are, Src, Dst
  <2>2. ~Are(i, "reg", "reg") /\ ~Are(i, "reg", "mem")
    BY <1>5 DEF Are
  <2>3. /\ RexIf(0, XExt(Dst(i).id), 0, 0) \in Code
        /\ RexIf(1, XExt(Dst(i).id), 0, 0) \in Code
        /\ RexIf(1, 0, 0, Ext(Dst(i).id)) \in Code
    BY <1>1, PrefixCode, Zenon
  <2>4. EncodeMem(Src(i), Dst(i).id) \in Code
    BY <2>1, MemCode
  <2>5. EncodeSse(i, ops) \in Code
    BY <1>5, <2>2, <2>3, <2>4, Codes DEF EncodeSse
  <2>6. EncodeToFloat(i, ops) \in Code
    BY <1>5, <2>2, <2>3, <2>4, Codes DEF EncodeToFloat
  <2>7. EncodeFromFloat(i, ops) \in Code
    BY <1>5, <2>2, <2>3, <2>4, Codes DEF EncodeFromFloat
  <2> QED
    BY <2>5, <2>6, <2>7
<1>6. CASE Are(i, "reg", "mem")
  <2>1. Src(i).id \in Int /\ Dst(i) \in MemOperand
    BY <1>3, <1>6 DEF Are, Src, Dst
  <2>2. ~Are(i, "reg", "reg") /\ ~Are(i, "mem", "reg")
    BY <1>6 DEF Are
  <2>3. /\ RexIf(0, XExt(Src(i).id), 0, 0) \in Code
    BY <1>1, PrefixCode, Zenon
  <2>4. EncodeMem(Dst(i), Src(i).id) \in Code
    BY <2>1, MemCode
  <2>5. EncodeSse(i, ops) \in Code
    BY <1>6, <2>2, <2>3, <2>4, Codes DEF EncodeSse
  <2>6. EncodeToFloat(i, ops) \in Code /\ EncodeFromFloat(i, ops) \in Code
    BY <1>2, <2>2 DEF EncodeToFloat, EncodeFromFloat, Bad
  <2> QED
    BY <2>5, <2>6
<1>7. CASE ~Are(i, "reg", "reg") /\ ~Are(i, "mem", "reg") /\ ~Are(i, "reg", "mem")
  BY <1>2, <1>7 DEF EncodeSse, EncodeToFloat, EncodeFromFloat, Bad
<1> QED
  BY <1>4, <1>5, <1>6, <1>7

\* The opcodes of the tables.
LEMMA Tables ==
  /\ \A o \in DOMAIN AluDigit : AluDigit[o] \in Int
  /\ \A o \in DOMAIN ExtMoves : ExtMoves[o][1] \in Int
  /\ \A o \in DOMAIN Sse : Escaped(Sse[o]) \in Code
  /\ \A o \in DOMAIN FromFloat : Escaped(FromFloat[o]) \in Code
  /\ \A o \in DOMAIN ToFloat : Escaped(ToFloat[o]) \in Code
  /\ \A o \in DOMAIN Plain : Plain[o] \in Code
<1>1. \A o \in DOMAIN AluDigit : AluDigit[o] \in Int
  BY DEF AluDigit
<1>2. \A o \in DOMAIN ExtMoves : ExtMoves[o][1] \in Int
  BY DEF ExtMoves
<1>3. \A o \in DOMAIN Sse : Sse[o][1] \in Int /\ Sse[o][2] \in Int
  BY DEF Sse
<1>4. \A o \in DOMAIN FromFloat : FromFloat[o][1] \in Int /\ FromFloat[o][2] \in Int
  BY DEF FromFloat
<1>5. \A o \in DOMAIN ToFloat : ToFloat[o][1] \in Int /\ ToFloat[o][2] \in Int
  BY DEF ToFloat
<1>6. \A form : form[1] \in Int /\ form[2] \in Int => Escaped(form) \in Code
  BY Single DEF Escaped
<1>7. \A o \in DOMAIN Plain : Plain[o] \in Code
  <2>1. <<<<"rex", 1, 0, 0, 0>>, Op(\h99)>> \in Code
    <3>1. <<"rex", 1, 0, 0, 0>> \in Piece /\ Op(\h99) \in Piece
      BY Pieces
    <3> QED BY <3>1, Codes
  <2>2. /\ <<Op(\hC3)>> \in Code /\ <<Op(\hC9)>> \in Code /\ <<Op(\h90)>> \in Code
        /\ <<Op(\h99)>> \in Code /\ <<Op(\h0F), Op(\h05)>> \in Code
    BY Single
  <2> QED
    BY <2>1, <2>2 DEF Plain
<1> QED
  BY <1>1, <1>2, <1>3, <1>4, <1>5, <1>6, <1>7

\* The displacement of a memory operand comes after its ModR/M byte.
LEMMA MemHead ==
  ASSUME NEW m \in MemOperand, NEW reg \in Int
  PROVE  Len(EncodeMem(m, reg)) >= 1 /\ EncodeMem(m, reg)[1][1] = "modrm"
<1> DEFINE sib == m.index # None \/ m.base \in {RSP, R12}
           mod == CASE ~m.shown /\ m.sym = NoSym /\ m.disp = 0 /\ m.base \notin {RBP, R13} -> 0
                    [] m.disp \in -128..127 /\ m.sym = NoSym -> 1
                    [] OTHER -> 2
           disp == IF m.sym # NoSym THEN Sym(m.sym, m.off)
                   ELSE Num(IF mod = 1 THEN 1 ELSE 4, m.disp)
           middle == CASE ~sib -> <<>>
                       [] sib /\ m.index = None -> <<Sib(1, 4, m.base)>>
                       [] OTHER -> <<Sib(m.scale, m.index, m.base)>>
           rm == IF sib THEN 4 ELSE m.base
           end == IF mod = 0 THEN <<>> ELSE <<disp>>
           second == IF m.sym # NoSym THEN disp ELSE Num(4, m.disp)
<1>1. EncodeMem(m, reg) = IF m.rip THEN <<ModRM(0, reg, 5), second>>
                          ELSE <<ModRM(mod, reg, rm)>> \o middle \o end
  BY DEF EncodeMem
<1>2. middle \in {<<>>, <<Sib(1, 4, m.base)>>, <<Sib(m.scale, m.index, m.base)>>}
  <2> HIDE DEF sib
  <2> QED OBVIOUS
<1>3. end \in {<<>>, <<disp>>}
  <2> HIDE DEF mod, disp
  <2> QED OBVIOUS
<1>4. \A a, b, c : ModRM(a, b, c)[1] = "modrm"
  BY DEF ModRM
<1> HIDE DEF sib, mod, disp, middle, rm, end, second
<1>5. \A p, x, y, z : LET s == <<p>> \o x \o y
                      IN  x \in {<<>>, <<z>>} /\ y \in {<<>>, <<disp>>} => Len(s) >= 1 /\ s[1] = p
  OBVIOUS
<1>6. CASE m.rip
  BY <1>1, <1>4, <1>6
<1>7. CASE ~m.rip
  BY <1>1, <1>2, <1>3, <1>4, <1>5, <1>7
<1> QED
  BY <1>6, <1>7

\* A call is coded, and a displacement in it that names a symbol has two pieces
\* before it: the opcode and the ModR/M byte.
LEMMA CallCode ==
  ASSUME NEW i \in Given, Len(i.args) = 1
  PROVE  /\ EncodeCall(i) \in Code
         /\ \A k \in DOMAIN EncodeCall(i) : EncodeCall(i)[k][1] = "sym" => k >= 3
<1>1. CASE Src(i).k = "imm"
  <2>1. CASE Src(i).sym # NoSym
    <3>1. EncodeCall(i) = <<Op(\hE8), Rel(Src(i).sym)>>
      BY <1>1, <2>1 DEF EncodeCall
    <3>2. Op(\hE8) \in Piece /\ Rel(Src(i).sym) \in Piece
      BY <1>1, SrcSide, Pieces
    <3>3. Op(\hE8)[1] = "op" /\ Rel(Src(i).sym)[1] = "rel"
      BY DEF Op, Rel
    <3> QED
      BY <3>1, <3>2, <3>3, Codes
  <2>2. CASE Src(i).sym = NoSym
    BY <1>1, <2>2, Codes DEF EncodeCall, Bad
  <2> QED
    BY <2>1, <2>2
<1>2. CASE Src(i).k = "reg"
  <2> DEFINE id == Src(i).id
  <2>1. EncodeCall(i) = RexIf(W("l"), 0, 0, Ext(id)) \o <<Op(\hFF)>> \o <<ModRM(3, 2, id)>>
    BY <1>2 DEF EncodeCall, One
  <2>2. id \in Int
    BY <1>2, SrcSide
  <2> HIDE DEF id
  <2>3. \A a, b, c, d : RexIf(a, b, c, d) \in {<<>>, <<<<"rex", a, b, c, d>>>>}
    BY DEF RexIf
  <2>4. /\ Op(\hFF)[1] = "op" /\ ModRM(3, 2, id)[1] = "modrm"
        /\ \A a, b, c, d : <<"rex", a, b, c, d>>[1] = "rex"
    BY DEF Op, ModRM
  <2>5. One("l", <<Op(\hFF)>>, 2, id) \in Code
    <3>1. 2 \in Int /\ <<Op(\hFF)>> \in Code
      BY Single
    <3> QED BY <2>2, <3>1, Layouts, Zenon
  <2>6. CASE RexIf(W("l"), 0, 0, Ext(id)) = <<>>
    BY <2>1, <2>4, <2>5, <2>6 DEF One
  <2>7. CASE RexIf(W("l"), 0, 0, Ext(id)) = <<<<"rex", W("l"), 0, 0, Ext(id)>>>>
    <3> DEFINE p == <<"rex", W("l"), 0, 0, Ext(id)>>  q == Op(\hFF)  r == ModRM(3, 2, id)
    <3>1. EncodeCall(i) = <<p>> \o <<q>> \o <<r>>
      BY <2>1, <2>7
    <3>2. p[1] = "rex" /\ q[1] = "op" /\ r[1] = "modrm"
      BY <2>4
    <3> HIDE DEF p, q, r
    <3>3. (<<p>> \o <<q>> \o <<r>>)[1] = p /\ (<<p>> \o <<q>> \o <<r>>)[2] = q
      OBVIOUS
    <3> QED
      BY <2>1, <2>5, <3>1, <3>2, <3>3 DEF One, Code
  <2> QED
    BY <2>3, <2>6, <2>7
<1>3. CASE Src(i).k = "mem"
  <2> DEFINE rest == EncodeMem(Src(i), 2)
  <2>1. EncodeCall(i) = <<Op(\hFF)>> \o rest
    BY <1>3 DEF EncodeCall
  <2>2. rest \in Code /\ Len(rest) >= 1 /\ rest[1][1] = "modrm"
    BY <1>3, SrcSide, MemCode, MemHead
  <2>3. <<Op(\hFF)>> \in Code /\ Op(\hFF)[1] = "op"
    BY Single DEF Op
  <2> HIDE DEF rest
  <2>4. EncodeCall(i) \in Code
    BY <2>1, <2>2, <2>3, Codes
  <2>5. EncodeCall(i)[1] = Op(\hFF) /\ EncodeCall(i)[2] = rest[1]
    BY <2>1, <2>2 DEF Code
  <2> QED
    BY <2>2, <2>3, <2>4, <2>5 DEF Code
<1> QED
  BY <1>1, <1>2, <1>3, SrcSide

\* Whatever the mnemonic and the number of operands, the dispatch writes a code.
LEMMA ReadCode ==
  ASSUME NEW i \in Given, Len(i.args) \in 0 .. 3
  PROVE  EncodeRead(i, Len(i.args)) \in Code
<1> DEFINE n == Len(i.args)
<1>1. <<>> \in Code
  BY Codes
<1>2. i.op \in DOMAIN Plain => Plain[i.op] \in Code
  BY Tables
<1>3. i.op \in DOMAIN AluDigit /\ n = 2 => EncodeAlu(i, AluDigit[i.op]) \in Code
  BY Tables, AluCode
<1>4. n = 2 => EncodeTest(i) \in Code /\ EncodeMov(i) \in Code
  BY TestCode, MovCode
<1>5. n = 2 => EncodeLea(i) \in Code /\ EncodeXchg(i) \in Code
  BY LeaCode, XchgCode
<1>6. i.op \in {"sar", "shr", "shl"} /\ n = 2 => EncodeShift(i) \in Code
  BY ShiftCode
<1>7. n \in {2, 3} => EncodeImul(i) \in Code
  BY ImulCode
<1>8. i.op \in DOMAIN ExtMoves /\ n \in {2, 3} => EncodeExtMove(i, ExtMoves[i.op]) \in Code
  BY Tables, ExtMoveCode
<1>9. n = 1 => EncodeDiv(i) \in Code /\ EncodeCall(i) \in Code
  BY DivCode, CallCode
<1>10. i.op \in {"neg", "not", "inc", "dec"} /\ n = 1 => EncodeUnary(i) \in Code
  BY UnaryCode
<1>11. n = 1 => /\ EncodeJmp(i) \in Code /\ EncodePush(i) \in Code /\ EncodePop(i) \in Code
                /\ EncodeJcc(i) \in Code /\ EncodeSetcc(i) \in Code
  BY SmallCodes, ConditionCodes
<1>12. i.op \in DOMAIN Sse /\ n = 2 => EncodeSse(i, Escaped(SseForm(i))) \in Code
  <2>1. Escaped(<<\hF2, \h11>>) \in Code
    BY Single DEF Escaped
  <2>2. i.op \in DOMAIN Sse => Escaped(SseForm(i)) \in Code
    BY <2>1, Tables DEF SseForm
  <2> QED
    BY <2>2, FloatCodes
<1>13. i.op \in DOMAIN FromFloat /\ n = 2 => EncodeFromFloat(i, Escaped(FromFloat[i.op])) \in Code
  BY Tables, FloatCodes
<1>14. i.op \in DOMAIN ToFloat /\ n = 2 => EncodeToFloat(i, Escaped(ToFloat[i.op])) \in Code
  BY Tables, FloatCodes
<1>15. n >= 2 => n \in {2, 3}
  OBVIOUS
<1> HIDE DEF n
<1>16. EncodeRead(i, n) \in Code
  BY <1>1, <1>2, <1>3, <1>4, <1>5, <1>6, <1>7, <1>8, <1>9, <1>10, <1>11, <1>12, <1>13, <1>14,
     <1>15 DEF EncodeRead, Bad
<1> QED
  BY <1>16 DEF n

\* What a line is encoded as is a code, and a displacement in a call that names
\* a symbol has two pieces before it.
LEMMA EncodeCode ==
  ASSUME NEW i \in Instruction
  PROVE  /\ Encode(i) \in Code
         /\ i.op = "call" => \A k \in DOMAIN Encode(i) : Encode(i)[k][1] = "sym" => k >= 3
<1> DEFINE args == ReadOperands(i.args)
           j == [i EXCEPT !.args = args]
<1>1. args \in Seq(Read) /\ Len(args) \in 0 .. 3
  BY OperandsRead DEF Instruction
<1> HIDE DEF args
<1>2. j \in Given /\ j.args = args /\ j.op = i.op
  BY <1>1 DEF Instruction, Given
<1>3. Encode(i) = EncodeRead(j, Len(j.args))
  BY <1>2 DEF Encode, args
<1> HIDE DEF j
<1>4. Encode(i) \in Code
  BY <1>1, <1>2, <1>3, ReadCode
<1>5. ASSUME j.op = "call"
      PROVE  EncodeRead(j, Len(j.args)) = IF Len(j.args) = 1 THEN EncodeCall(j) ELSE <<>>
  <2>1. /\ j.op \notin DOMAIN Plain /\ j.op \notin DOMAIN AluDigit /\ j.op \notin DOMAIN ExtMoves
        /\ j.op \notin DOMAIN Sse /\ j.op \notin DOMAIN FromFloat /\ j.op \notin DOMAIN ToFloat
    BY <1>5 DEF Plain, AluDigit, ExtMoves, Sse, FromFloat, ToFloat
  <2> QED
    BY <1>5, <2>1 DEF EncodeRead, Bad
<1>6. ASSUME i.op = "call", NEW k \in DOMAIN Encode(i), Encode(i)[k][1] = "sym"
      PROVE  k >= 3
  <2>1. CASE Len(j.args) = 1
    BY <1>2, <1>3, <1>5, <1>6, <2>1, CallCode
  <2>2. CASE Len(j.args) # 1
    <3>1. DOMAIN Encode(i) = {}
      BY <1>2, <1>3, <1>5, <1>6, <2>2
    <3> QED
      BY <1>6, <3>1
  <2> QED
    BY <2>1, <2>2
<1> QED
  BY <1>4, <1>6

-----------------------------------------------------------------------------
(* Looking up *)

\* The places of a sequence are naturals.
LEMMA Places ==
  ASSUME NEW S, NEW q \in Seq(S), NEW I, I \subseteq 1 .. Len(q), I # {}
  PROVE  Min(I) \in I /\ Min(I) \in DOMAIN q
<1>1. I \in SUBSET Nat
  OBVIOUS
<1>2. Min(I) \in I
  BY <1>1, MinNat, Zenon
<1>3. DOMAIN q = 1 .. Len(q)
  OBVIOUS
<1> QED
  BY <1>2, <1>3, Zenon

\* The piece that names a symbol is one that does.
LEMMA NamingFinds ==
  ASSUME NEW ps \in Code
  PROVE  \/ Naming(ps) = 0
         \/ Naming(ps) \in DOMAIN ps /\ Naming(ps) # 0 /\ ps[Naming(ps)][1] \in {"sym", "rel"}
<1> DEFINE I == {k \in 1 .. Len(ps) : ps[k][1] \in {"sym", "rel"}}
<1>1. Naming(ps) = IF I # {} THEN Min(I) ELSE 0
  BY DEF Naming, SelectInSeq
<1>2. I # {} => Min(I) \in I /\ Min(I) \in DOMAIN ps
  BY Places DEF Code
<1> QED
  BY <1>1, <1>2

\* A symbol that is found is one of the table; one that is not found has no entry.
LEMMA SymFinds ==
  ASSUME NEW S, NEW syms \in Seq(S), NEW name
  PROVE  \/ SymFind(syms, name) = 0 /\ \A k \in DOMAIN syms : syms[k].name # name
         \/ SymFind(syms, name) \in DOMAIN syms /\ SymFind(syms, name) > 0
<1> DEFINE I == {k \in 1 .. Len(syms) : syms[k].name = name}
<1>1. SymFind(syms, name) = IF I # {} THEN Min(I) ELSE 0
  BY DEF SymFind, SelectInSeq
<1>2. I # {} => Min(I) \in I /\ Min(I) \in DOMAIN syms
  BY Places
<1> QED
  BY <1>1, <1>2

\* A label that is found is one of the table.
LEMMA LabelFinds ==
  ASSUME NEW S, NEW u, u.labels \in Seq(S), NEW name
  PROVE  \/ LabelFind(u, name) = 0
         \/ LabelFind(u, name) \in DOMAIN u.labels /\ LabelFind(u, name) > 0
<1> DEFINE I == {k \in 1 .. Len(u.labels) : u.labels[k].name = name}
<1>1. LabelFind(u, name) = IF I # {} THEN Min(I) ELSE 0
  BY DEF LabelFind, SelectInSeq
<1>2. I # {} => Min(I) \in I /\ Min(I) \in DOMAIN u.labels
  BY Places
<1> QED
  BY <1>1, <1>2

-----------------------------------------------------------------------------
(* The state of the assembler *)

Reloc == [at : Int, sym : Int, type : {"pc32", "gotpcrelx", "abs64"}]
Section == [len : Nat, used : BOOLEAN, fields : UNION {[D -> Int] : D \in SUBSET Int},
            relocs : Seq(Reloc)]
Symbol == [name : Text, section : Sections \cup {Undefined}, value : Nat, global : BOOLEAN]
LabelEntry == [name : Text, section : Sections, offset : Nat]
Fixup == [at : Int, label : Text]
AsmUnit == [cur : Sections, sec : [Sections -> Section], syms : Seq(Symbol),
            labels : Seq(LabelEntry), fixups : Seq(Fixup), stack : BOOLEAN, failed : BOOLEAN]

Room(type) == IF type = "gotpcrelx" THEN 3 ELSE 4

FieldsWithin(u) ==
  \A s \in Sections : \A a \in DOMAIN u.sec[s].fields : a \in 0..(u.sec[s].len - 4)
RelocsWithin(u) ==
  \A s \in Sections : \A j \in DOMAIN u.sec[s].relocs :
    LET r == u.sec[s].relocs[j]
    IN  r.at \in 0..(u.sec[s].len - Room(r.type)) /\ r.sym \in DOMAIN u.syms
SymbolsWithin(u) ==
  \A j \in DOMAIN u.syms :
    u.syms[j].section \in Sections => u.syms[j].value <= u.sec[u.syms[j].section].len
FixupsWithin(u) ==
  \A j \in DOMAIN u.fixups : u.fixups[j].at \in 0..(u.sec["text"].len - 4)

\* The books of the assembler are in order.
Kept(u) ==
  u \in AsmUnit /\ FieldsWithin(u) /\ RelocsWithin(u) /\ SymbolsWithin(u) /\ FixupsWithin(u)

\* The parts of a unit.
LEMMA UnitParts ==
  ASSUME NEW u \in AsmUnit
  PROVE  /\ u.cur \in Sections /\ u.syms \in Seq(Symbol)
         /\ u.labels \in Seq(LabelEntry) /\ u.fixups \in Seq(Fixup)
         /\ \A s \in Sections : /\ u.sec[s] \in Section /\ u.sec[s].len \in Nat
                                /\ u.sec[s].relocs \in Seq(Reloc)
         /\ \A j \in DOMAIN u.syms : u.syms[j] \in Symbol /\ u.syms[j].value \in Nat
<1>1. /\ u.cur \in Sections /\ u.syms \in Seq(Symbol) /\ u.sec \in [Sections -> Section]
      /\ u.labels \in Seq(LabelEntry) /\ u.fixups \in Seq(Fixup)
  BY DEF AsmUnit
<1>2. \A w \in Section : w.len \in Nat /\ w.relocs \in Seq(Reloc)
  BY DEF Section
<1>3. \A w \in Symbol : w.value \in Nat
  BY DEF Symbol
<1>4. \A j \in DOMAIN u.syms : u.syms[j] \in Symbol
  BY <1>1
<1> QED
  BY <1>1, <1>2, <1>3, <1>4

\* One section of a unit exchanged for another.
LEMMA Exchange ==
  ASSUME NEW u \in AsmUnit, NEW c \in Sections, NEW w \in Section
  PROVE  LET v == [u EXCEPT !.sec[c] = w]
         IN  /\ v \in AsmUnit
             /\ v.cur = u.cur /\ v.syms = u.syms /\ v.labels = u.labels /\ v.fixups = u.fixups
             /\ v.stack = u.stack /\ v.failed = u.failed
             /\ v.sec[c] = w /\ \A s \in Sections : s # c => v.sec[s] = u.sec[s]
<1> DEFINE sec == [u.sec EXCEPT ![c] = w]
           v == [u EXCEPT !.sec = sec]
<1>1. u.sec \in [Sections -> Section]
  BY DEF AsmUnit
<1>2. sec \in [Sections -> Section] /\ sec[c] = w /\ \A s \in Sections : s # c => sec[s] = u.sec[s]
  BY <1>1
<1>3. [u EXCEPT !.sec[c] = w] = v
  OBVIOUS
<1> HIDE DEF sec
<1>4. /\ v \in AsmUnit /\ v.sec = sec
      /\ v.cur = u.cur /\ v.syms = u.syms /\ v.labels = u.labels /\ v.fixups = u.fixups
      /\ v.stack = u.stack /\ v.failed = u.failed
  BY <1>2 DEF AsmUnit
<1> HIDE DEF v
<1> QED
  BY <1>2, <1>3, <1>4

\* A section that is not shorter, whose fields and relocations are within it.
LEMMA Longer ==
  ASSUME NEW u, Kept(u), NEW c \in Sections, NEW w \in Section, w.len >= u.sec[c].len,
         \A a \in DOMAIN w.fields : a \in 0..(w.len - 4),
         \A j \in DOMAIN w.relocs :
           /\ w.relocs[j].at \in 0..(w.len - Room(w.relocs[j].type))
           /\ w.relocs[j].sym \in DOMAIN u.syms
  PROVE  Kept([u EXCEPT !.sec[c] = w])
<1> DEFINE v == [u EXCEPT !.sec[c] = w]
<1>1. u \in AsmUnit
  BY DEF Kept
<1>2. /\ v \in AsmUnit
      /\ v.cur = u.cur /\ v.syms = u.syms /\ v.labels = u.labels /\ v.fixups = u.fixups
      /\ v.sec[c] = w /\ \A s \in Sections : s # c => v.sec[s] = u.sec[s]
  BY <1>1, Exchange
<1> HIDE DEF v
<1>3. \A s \in Sections :
        u.sec[s].len \in Nat /\ v.sec[s].len \in Nat /\ u.sec[s].len <= v.sec[s].len
  BY <1>1, <1>2, UnitParts
<1>4. FieldsWithin(v)
  BY <1>2 DEF Kept, FieldsWithin
<1>5. RelocsWithin(v)
  BY <1>2 DEF Kept, RelocsWithin
<1>6. SymbolsWithin(v)
  <2>1. ASSUME NEW j \in DOMAIN u.syms, u.syms[j].section \in Sections
        PROVE  u.syms[j].value <= v.sec[u.syms[j].section].len
    <3> DEFINE c1 == u.syms[j].section
    <3>1. u.syms[j].value \in Nat
      BY <1>1, UnitParts
    <3>2. u.syms[j].value <= u.sec[c1].len
      BY <2>1 DEF Kept, SymbolsWithin
    <3>3. u.sec[c1].len \in Nat /\ v.sec[c1].len \in Nat /\ u.sec[c1].len <= v.sec[c1].len
      BY <1>3, <2>1
    <3> QED
      BY <3>1, <3>2, <3>3
  <2> QED
    BY <1>2, <2>1 DEF SymbolsWithin
<1>7. FixupsWithin(v)
  <2>1. "text" \in Sections
    BY DEF Sections
  <2> QED
    BY <1>2, <1>3, <2>1 DEF Kept, FixupsWithin
<1> QED
  BY <1>2, <1>4, <1>5, <1>6, <1>7 DEF Kept, v

\* Emitting bytes keeps the books: what was within the section still is.
LEMMA Emitting ==
  ASSUME NEW u, Kept(u), NEW n \in Nat
  PROVE  /\ Kept(Put(u, n)) /\ Here(Put(u, n)) = Here(u) + n
         /\ Here(u) \in Nat /\ Put(u, n).cur = u.cur /\ Put(u, n).labels = u.labels
<1> DEFINE w == [u.sec[u.cur] EXCEPT !.len = @ + n]
<1>1. u \in AsmUnit
  BY DEF Kept
<1>2. u.cur \in Sections /\ u.sec[u.cur] \in Section /\ u.sec[u.cur].len \in Nat
  BY <1>1, UnitParts
<1>3. /\ w \in Section /\ w.len = u.sec[u.cur].len + n
      /\ w.fields = u.sec[u.cur].fields /\ w.relocs = u.sec[u.cur].relocs
  BY <1>2 DEF Section
<1>4. Put(u, n) = [u EXCEPT !.sec[u.cur] = w]
  BY DEF Put
<1> HIDE DEF w
<1>5. \A a \in DOMAIN w.fields : a \in 0..(w.len - 4)
  BY <1>2, <1>3 DEF Kept, FieldsWithin
<1>6. \A j \in DOMAIN w.relocs : /\ w.relocs[j].at \in 0..(w.len - Room(w.relocs[j].type))
                                 /\ w.relocs[j].sym \in DOMAIN u.syms
  BY <1>2, <1>3 DEF Kept, RelocsWithin, Room
<1>7. w.len >= u.sec[u.cur].len
  BY <1>2, <1>3
<1>8. Kept(Put(u, n))
  BY <1>2, <1>3, <1>4, <1>5, <1>6, <1>7, Longer
<1> QED
  BY <1>1, <1>2, <1>3, <1>4, <1>8, Exchange DEF Here

\* A field within what was emitted.
LEMMA FieldKept ==
  ASSUME NEW u, Kept(u), NEW c \in Sections, NEW at \in 0..(u.sec[c].len - 4), NEW n \in Int
  PROVE  LET v == [u EXCEPT !.sec[c].fields = Patch(@, at, n)]
         IN  /\ Kept(v) /\ v.cur = u.cur /\ v.labels = u.labels /\ v.syms = u.syms
             /\ \A s \in Sections : v.sec[s].len = u.sec[s].len
<1> DEFINE f == u.sec[c].fields
           w == [u.sec[c] EXCEPT !.fields = Patch(f, at, n)]
           v == [u EXCEPT !.sec[c].fields = Patch(@, at, n)]
<1>1. u \in AsmUnit
  BY DEF Kept
<1>2. u.sec[c] \in Section /\ u.sec[c].len \in Nat
  BY <1>1, UnitParts
<1>3. PICK D \in SUBSET Int : f \in [D -> Int]
  BY <1>2 DEF Section
<1>4. Patch(f, at, n) \in [D \cup {at} -> Int] /\ DOMAIN Patch(f, at, n) = DOMAIN f \cup {at}
  BY <1>2, <1>3 DEF Patch
<1>5. D \cup {at} \in SUBSET Int
  <2>1. at \in Int
    BY <1>2
  <2> QED BY <2>1
<1>6. Patch(f, at, n) \in UNION {[E -> Int] : E \in SUBSET Int}
  <2> DEFINE g == Patch(f, at, n)  D2 == D \cup {at}
  <2>1. g \in [D2 -> Int] /\ D2 \in SUBSET Int
    BY <1>4, <1>5
  <2> HIDE DEF g, D2
  <2> QED
    BY <2>1 DEF g
<1>7. /\ w \in Section /\ w.len = u.sec[c].len
      /\ w.fields = Patch(f, at, n) /\ w.relocs = u.sec[c].relocs
  <2> DEFINE g == Patch(f, at, n)
  <2>1. g \in UNION {[E -> Int] : E \in SUBSET Int}
    BY <1>6
  <2> HIDE DEF g
  <2>2. [u.sec[c] EXCEPT !.fields = g] \in Section
    BY <1>2, <2>1 DEF Section
  <2>3. w = [u.sec[c] EXCEPT !.fields = g]
    BY DEF g
  <2> QED
    BY <1>2, <2>2, <2>3 DEF Section, g
<1>8. v = [u EXCEPT !.sec[c] = w]
  OBVIOUS
<1>9. \A a \in DOMAIN w.fields : a \in 0..(w.len - 4)
  BY <1>4, <1>7 DEF Kept, FieldsWithin
<1>10. \A j \in DOMAIN w.relocs : /\ w.relocs[j].at \in 0..(w.len - Room(w.relocs[j].type))
                                  /\ w.relocs[j].sym \in DOMAIN u.syms
  BY <1>7 DEF Kept, RelocsWithin
<1> HIDE DEF w
<1>11. w.len >= u.sec[c].len
  BY <1>2, <1>7
<1>12. Kept([u EXCEPT !.sec[c] = w])
  BY <1>7, <1>9, <1>10, <1>11, Longer
<1> DEFINE x == [u EXCEPT !.sec[c] = w]
<1>13. /\ x \in AsmUnit /\ x.cur = u.cur /\ x.labels = u.labels /\ x.syms = u.syms
       /\ x.sec[c] = w /\ \A s \in Sections : s # c => x.sec[s] = u.sec[s]
  <2>1. w \in Section
    BY <1>7
  <2> QED
    BY <1>1, <2>1, Exchange
<1> HIDE DEF v, f
<1> QED
  BY <1>7, <1>8, <1>12, <1>13 DEF v

\* A symbol that is entered is found; nothing else changes.
LEMMA Interning ==
  ASSUME NEW u, Kept(u), NEW name \in Text
  PROVE  LET v == SymIntern(u, name)
         IN  /\ Kept(v) /\ v.cur = u.cur /\ v.labels = u.labels /\ v.sec = u.sec
             /\ SymFind(v.syms, name) \in DOMAIN v.syms
<1> DEFINE e == [name |-> name, section |-> Undefined, value |-> 0, global |-> FALSE]
           syms == Append(u.syms, e)
           v == [u EXCEPT !.syms = syms]
<1>1. u \in AsmUnit /\ u.syms \in Seq(Symbol)
  BY UnitParts DEF Kept
<1>2. CASE SymFind(u.syms, name) > 0
  <2>1. SymIntern(u, name) = u
    BY <1>2 DEF SymIntern
  <2>2. SymFind(u.syms, name) \in DOMAIN u.syms
    BY <1>1, <1>2, SymFinds
  <2> QED
    BY <2>1, <2>2
<1>3. CASE ~(SymFind(u.syms, name) > 0)
  <2>1. SymIntern(u, name) = v
    BY <1>3 DEF SymIntern
  <2>2. e \in Symbol
    BY DEF Symbol
  <2>3. /\ syms \in Seq(Symbol) /\ DOMAIN syms = DOMAIN u.syms \cup {Len(u.syms) + 1}
        /\ \A j \in DOMAIN u.syms : syms[j] = u.syms[j]
        /\ syms[Len(u.syms) + 1] = e
    <3> HIDE DEF e
    <3> QED BY <1>1, <2>2
  <2> HIDE DEF syms
  <2>4. /\ v \in AsmUnit /\ v.cur = u.cur /\ v.labels = u.labels /\ v.sec = u.sec
        /\ v.syms = syms /\ v.fixups = u.fixups
    BY <1>1, <2>3 DEF AsmUnit
  <2> HIDE DEF v
  <2>5. SymFind(syms, name) \in DOMAIN syms
    <3>1. syms[Len(u.syms) + 1].name = name
      BY <2>3
    <3> QED
      BY <2>3, <3>1, SymFinds
  <2>6. FieldsWithin(v) /\ RelocsWithin(v) /\ FixupsWithin(v)
    BY <2>3, <2>4 DEF Kept, FieldsWithin, RelocsWithin, FixupsWithin
  <2>7. SymbolsWithin(v)
    <3>1. e.section \notin Sections
      BY DEF Sections, Undefined
    <3> HIDE DEF e
    <3> QED
      BY <2>3, <2>4, <3>1 DEF Kept, SymbolsWithin
  <2> QED
    BY <2>1, <2>4, <2>5, <2>6, <2>7 DEF Kept
<1> QED
  BY <1>2, <1>3

\* A relocation within what was emitted names a symbol that exists.
LEMMA Relocating ==
  ASSUME NEW u, Kept(u), NEW c \in Sections, NEW name \in Text,
         NEW type \in {"pc32", "gotpcrelx", "abs64"}, NEW at \in 0..(u.sec[c].len - Room(type))
  PROVE  LET v == AddReloc(u, c, at, name, type)
         IN  /\ Kept(v) /\ v.cur = u.cur /\ v.labels = u.labels
             /\ \A s \in Sections : v.sec[s].len = u.sec[s].len
<1> DEFINE m == SymIntern(u, name)
           r == [at |-> at, sym |-> SymFind(m.syms, name), type |-> type]
           w == [m.sec[c] EXCEPT !.relocs = Append(@, r)]
           v == [m EXCEPT !.sec[c] = w]
<1>1. /\ Kept(m) /\ m.cur = u.cur /\ m.labels = u.labels /\ m.sec = u.sec
      /\ SymFind(m.syms, name) \in DOMAIN m.syms
  BY Interning
<1>2. AddReloc(u, c, at, name, type) = v
  BY DEF AddReloc
<1> HIDE DEF m
<1>3. /\ m \in AsmUnit /\ m.sec[c] \in Section
      /\ m.sec[c].len \in Nat /\ m.sec[c].relocs \in Seq(Reloc)
  BY <1>1, UnitParts DEF Kept
<1>4. r \in Reloc
  <2>1. SymFind(m.syms, name) \in Int
    BY <1>1, <1>3, UnitParts
  <2>2. at \in Int
    BY <1>1, <1>3 DEF Room
  <2> QED
    BY <2>1, <2>2 DEF Reloc
<1>5. /\ r.at \in 0..(m.sec[c].len - Room(r.type)) /\ r.sym \in DOMAIN m.syms
  BY <1>1
<1> HIDE DEF r
<1>6. /\ w \in Section /\ w.len = m.sec[c].len /\ w.fields = m.sec[c].fields
      /\ w.relocs = Append(m.sec[c].relocs, r)
  <2> DEFINE g == Append(m.sec[c].relocs, r)
  <2>1. g \in Seq(Reloc)
    BY <1>3, <1>4
  <2>2. w = [m.sec[c] EXCEPT !.relocs = g]
    OBVIOUS
  <2> HIDE DEF g, w
  <2>3. [m.sec[c] EXCEPT !.relocs = g] \in Section
    BY <1>3, <2>1 DEF Section
  <2> QED
    BY <1>3, <2>2, <2>3 DEF Section, g
<1>7. \A j \in DOMAIN w.relocs :
        w.relocs[j] = r \/ (j \in DOMAIN m.sec[c].relocs /\ w.relocs[j] = m.sec[c].relocs[j])
  BY <1>3, <1>4, <1>6
<1> HIDE DEF w
<1>8. \A a \in DOMAIN w.fields : a \in 0..(w.len - 4)
  BY <1>1, <1>6 DEF Kept, FieldsWithin
<1>9. \A j \in DOMAIN w.relocs : /\ w.relocs[j].at \in 0..(w.len - Room(w.relocs[j].type))
                                 /\ w.relocs[j].sym \in DOMAIN m.syms
  BY <1>1, <1>5, <1>6, <1>7 DEF Kept, RelocsWithin
<1>10. w.len >= m.sec[c].len
  BY <1>3, <1>6
<1>11. Kept(v)
  BY <1>1, <1>6, <1>8, <1>9, <1>10, Longer
<1>12. /\ v \in AsmUnit /\ v.cur = m.cur /\ v.labels = m.labels /\ v.sec[c] = w
       /\ \A s \in Sections : s # c => v.sec[s] = m.sec[s]
  <2>1. w \in Section
    BY <1>6
  <2> QED
    BY <1>3, <2>1, Exchange
<1> HIDE DEF v
<1> QED
  BY <1>1, <1>2, <1>6, <1>11, <1>12

\* One symbol of a unit exchanged for another.
LEMMA SymbolSet ==
  ASSUME NEW u, Kept(u), NEW k \in DOMAIN u.syms, NEW e \in Symbol,
         e.section \in Sections => e.value <= u.sec[e.section].len
  PROVE  LET v == [u EXCEPT !.syms[k] = e]
         IN  Kept(v) /\ v.cur = u.cur /\ v.labels = u.labels /\ v.sec = u.sec
<1> DEFINE syms == [u.syms EXCEPT ![k] = e]
           v == [u EXCEPT !.syms = syms]
<1>1. u \in AsmUnit /\ u.syms \in Seq(Symbol)
  BY UnitParts DEF Kept
<1>2. /\ syms \in Seq(Symbol) /\ DOMAIN syms = DOMAIN u.syms
      /\ syms[k] = e /\ \A j \in DOMAIN u.syms : j # k => syms[j] = u.syms[j]
  BY <1>1
<1>3. [u EXCEPT !.syms[k] = e] = v
  OBVIOUS
<1> HIDE DEF syms
<1>4. /\ v \in AsmUnit /\ v.cur = u.cur /\ v.labels = u.labels /\ v.sec = u.sec
      /\ v.syms = syms /\ v.fixups = u.fixups
  BY <1>1, <1>2 DEF AsmUnit
<1> HIDE DEF v
<1>5. FieldsWithin(v) /\ RelocsWithin(v) /\ FixupsWithin(v)
  BY <1>2, <1>4 DEF Kept, FieldsWithin, RelocsWithin, FixupsWithin
<1>6. SymbolsWithin(v)
  BY <1>2, <1>4 DEF Kept, SymbolsWithin
<1> QED
  BY <1>3, <1>4, <1>5, <1>6 DEF Kept

\* A label gives its symbol the end of the current section.
LEMMA Labelling ==
  ASSUME NEW u, Kept(u), NEW name \in Text
  PROVE  Kept(DefineLabel(u, name)) /\ DefineLabel(u, name).cur = u.cur
<1> DEFINE l == [name |-> name, section |-> u.cur, offset |-> Here(u)]
           a == [u EXCEPT !.labels = Append(@, l)]
           m == SymIntern(a, name)
           k == SymFind(m.syms, name)
           e == [m.syms[k] EXCEPT !.section = u.cur, !.value = m.sec[u.cur].len]
           v == [m EXCEPT !.syms[k] = e]
<1>1. u \in AsmUnit /\ u.cur \in Sections /\ u.labels \in Seq(LabelEntry) /\ Here(u) \in Nat
  BY UnitParts DEF Kept, Here
<1>2. l \in LabelEntry
  BY <1>1 DEF LabelEntry
<1> HIDE DEF l
<1>3. /\ a \in AsmUnit /\ a.cur = u.cur /\ a.sec = u.sec /\ a.syms = u.syms /\ a.fixups = u.fixups
  <2> DEFINE labels == Append(u.labels, l)
  <2>1. labels \in Seq(LabelEntry)
    BY <1>1, <1>2
  <2>2. a = [u EXCEPT !.labels = labels]
    OBVIOUS
  <2> HIDE DEF labels, a
  <2> QED
    BY <1>1, <2>1, <2>2 DEF AsmUnit
<1> HIDE DEF a
<1>4. Kept(a)
  BY <1>3 DEF Kept, FieldsWithin, RelocsWithin, SymbolsWithin, FixupsWithin
<1>5. Kept(m) /\ m.cur = u.cur /\ m.sec = u.sec /\ k \in DOMAIN m.syms
  BY <1>3, <1>4, Interning
<1> HIDE DEF m, k
<1>6. m \in AsmUnit /\ m.syms[k] \in Symbol /\ m.sec[u.cur].len \in Nat
  BY <1>1, <1>5, UnitParts DEF Kept
<1>7. e \in Symbol /\ e.section = u.cur /\ e.value = m.sec[u.cur].len
  BY <1>1, <1>6 DEF Symbol
<1>8. DefineLabel(u, name) = v
  BY DEF DefineLabel, DefineSymbol, a, m, k, l
<1> HIDE DEF e
<1>9. e.section \in Sections => e.value <= m.sec[e.section].len
  BY <1>6, <1>7
<1>10. Kept(v) /\ v.cur = m.cur
  BY <1>5, <1>7, <1>9, SymbolSet
<1> QED
  BY <1>5, <1>8, <1>10

\* A branch, back to a label or on to one that will come.
LEMMA Branching ==
  ASSUME NEW u, Kept(u), u.cur = "text", NEW i, NEW name \in Text, NEW at \in 0..(Here(u) - 4)
  PROVE  Kept(Branch(u, i, name, at))
<1> DEFINE l == LabelFind(u, name)
           f == [at |-> at, label |-> name]
           v == [u EXCEPT !.fixups = Append(@, f)]
<1>1. /\ u \in AsmUnit /\ u.cur \in Sections /\ u.labels \in Seq(LabelEntry)
      /\ u.fixups \in Seq(Fixup) /\ Here(u) = u.sec[u.cur].len /\ u.sec[u.cur].len \in Nat
  BY UnitParts DEF Kept, Here
<1>2. at \in Int
  BY <1>1
<1>3. l > 0 => u.labels[l].offset - (at + 4) \in Int
  <2> SUFFICES ASSUME l > 0 PROVE u.labels[l].offset \in Int
    BY <1>2
  <2>1. u.labels[l] \in LabelEntry
    BY <1>1, LabelFinds
  <2> QED
    BY <2>1 DEF LabelEntry
<1>4. CASE l > 0 /\ u.labels[l].section = u.cur
  <2> DEFINE n == u.labels[l].offset - (at + 4)
  <2>1. Branch(u, i, name, at) = [u EXCEPT !.sec[u.cur].fields = Patch(@, at, n)]
    BY <1>4 DEF Branch, PutField
  <2>2. n \in Int
    BY <1>3, <1>4
  <2> HIDE DEF n, l
  <2> QED
    BY <1>1, <2>1, <2>2, FieldKept
<1>5. CASE ~(l > 0 /\ u.labels[l].section = u.cur) /\ i.op = "call"
  <2>1. Branch(u, i, name, at) = AddReloc(u, u.cur, at, name, "pc32")
    BY <1>5 DEF Branch
  <2>2. "pc32" \in {"pc32", "gotpcrelx", "abs64"} /\ at \in 0..(u.sec[u.cur].len - Room("pc32"))
    BY <1>1 DEF Room
  <2> QED
    BY <1>1, <2>1, <2>2, Relocating
<1>6. CASE ~(l > 0 /\ u.labels[l].section = u.cur) /\ i.op # "call"
  <2>1. Branch(u, i, name, at) = v
    BY <1>6 DEF Branch
  <2> DEFINE fixups == Append(u.fixups, f)
  <2>2. f \in Fixup /\ f.at = at
    BY <1>2 DEF Fixup
  <2> HIDE DEF f
  <2>3. /\ fixups \in Seq(Fixup)
        /\ \A j \in DOMAIN fixups :
             fixups[j] = f \/ (j \in DOMAIN u.fixups /\ fixups[j] = u.fixups[j])
    BY <1>1, <2>2
  <2>4. v = [u EXCEPT !.fixups = fixups]
    OBVIOUS
  <2> HIDE DEF fixups, v
  <2>5. v \in AsmUnit /\ v.sec = u.sec /\ v.syms = u.syms /\ v.fixups = fixups
    BY <1>1, <2>3, <2>4 DEF AsmUnit
  <2>6. FieldsWithin(v) /\ RelocsWithin(v) /\ SymbolsWithin(v)
    BY <2>5 DEF Kept, FieldsWithin, RelocsWithin, SymbolsWithin
  <2>7. FixupsWithin(v)
    BY <1>1, <2>2, <2>3, <2>5 DEF Kept, FixupsWithin
  <2> QED
    BY <2>1, <2>5, <2>6, <2>7 DEF Kept
<1> QED
  BY <1>4, <1>5, <1>6

\* A displacement that names a symbol, with six bytes where a call has one.
LEMMA Displacing ==
  ASSUME NEW u, Kept(u), NEW i, NEW p, p[3] \in Int, p[4] \in Text, NEW at \in 0..(Here(u) - 4),
         NEW opAt \in Nat, i.op = "call" => opAt + 5 <= Here(u)
  PROVE  Kept(Displacement(u, i, p, at, opAt))
<1> DEFINE a == PutField(u, at, p[3])
           b == AddReloc(a, u.cur, at, p[4], "pc32")
<1>1. u.cur \in Sections /\ Here(u) = u.sec[u.cur].len /\ u.sec[u.cur].len \in Nat
  BY UnitParts DEF Kept, Here
<1>2. Kept(a) /\ a.cur = u.cur /\ a.sec[u.cur].len = Here(u)
  <2>1. a = [u EXCEPT !.sec[u.cur].fields = Patch(@, at, p[3])]
    BY DEF PutField
  <2> HIDE DEF a
  <2> QED
    BY <1>1, <2>1, FieldKept
<1> HIDE DEF a
<1>3. Kept(b) /\ b.cur = u.cur /\ b.sec[u.cur].len = Here(u)
  <2>1. at \in 0..(a.sec[u.cur].len - Room("pc32"))
    BY <1>2 DEF Room
  <2> QED
    BY <1>1, <1>2, <2>1, Relocating
<1> HIDE DEF b
<1>4. Displacement(u, i, p, at, opAt) =
        IF i.op = "call" /\ i.args[1].rip
        THEN AddReloc(b, b.cur, opAt + 2, p[4], "gotpcrelx") ELSE b
  BY DEF Displacement, a, b
<1>5. CASE i.op = "call" /\ i.args[1].rip
  <2>1. opAt + 2 \in 0..(b.sec[b.cur].len - Room("gotpcrelx"))
    BY <1>1, <1>3, <1>5 DEF Room
  <2> QED
    BY <1>1, <1>3, <1>4, <1>5, <2>1, Relocating
<1> QED
  BY <1>3, <1>4, <1>5

-----------------------------------------------------------------------------
(* Lines *)

\* An error leaves the books alone.
LEMMA Failing ==
  ASSUME NEW u, Kept(u)
  PROVE  Kept(Fail(u))
<1> DEFINE v == Fail(u)
<1>1. /\ v \in AsmUnit /\ v.sec = u.sec /\ v.syms = u.syms /\ v.fixups = u.fixups
  BY DEF Kept, AsmUnit, Fail
<1> HIDE DEF v
<1>2. FieldsWithin(v) /\ RelocsWithin(v) /\ SymbolsWithin(v) /\ FixupsWithin(v)
  BY <1>1 DEF Kept, FieldsWithin, RelocsWithin, SymbolsWithin, FixupsWithin
<1> QED
  BY <1>1, <1>2 DEF Kept, v

\* An instruction, which stands in .text.
LEMMA Instructing ==
  ASSUME NEW u, Kept(u), u.cur = "text", NEW i \in Instruction
  PROVE  Kept(EncodeInstruction(u, i))
<1> DEFINE ps == Encode(i)
           k == Naming(ps)
           v == Put(u, Size(ps))
           before == Size(SubSeq(ps, 1, k - 1))
<1>1. /\ ps \in Code
      /\ i.op = "call" => \A j \in DOMAIN ps : ps[j][1] = "sym" => j >= 3
  BY EncodeCode
<1>2. EncodeInstruction(u, i) = IF ps = <<>> THEN Fail(u) ELSE Emitted(u, i, ps, k)
  BY DEF EncodeInstruction, Bad
<1> HIDE DEF ps
<1>3. Size(ps) \in Nat
  BY <1>1, CellsFinite
<1>4. Kept(v) /\ Here(v) = Here(u) + Size(ps) /\ Here(u) \in Nat /\ v.cur = "text"
  BY <1>3, Emitting
<1>5. \/ k = 0
      \/ k \in DOMAIN ps /\ k # 0 /\ ps[k][1] \in {"sym", "rel"}
  BY <1>1, NamingFinds
<1>6. Emitted(u, i, ps, k) =
        CASE k = 0 -> v
          [] k > 0 /\ ps[k][1] = "rel" -> Branch(v, i, ps[k][3], Here(u) + before)
          [] k > 0 /\ ps[k][1] = "sym" -> Displacement(v, i, ps[k], Here(u) + before, Here(u) + 1)
  BY DEF Emitted
<1> HIDE DEF k, v
<1>7. CASE k = 0
  BY <1>2, <1>4, <1>6, <1>7, Failing
<1>8. CASE k \in DOMAIN ps /\ k # 0 /\ ps[k][1] \in {"sym", "rel"}
  <2>1. k \in Nat /\ k > 0 /\ ps[k] \in Piece
    BY <1>1, <1>8 DEF Code
  <2>2. Width(ps[k]) = 4
    BY <1>8, <2>1, PieceWidth
  <2>3. before \in Nat /\ before + 4 <= Size(ps) /\ (k >= 3 => Size(ps) >= 6)
    BY <1>1, <1>8, <2>2, FieldWithin
  <2> HIDE DEF before
  <2>4. Here(u) + before \in 0..(Here(v) - 4)
    BY <1>3, <1>4, <2>3
  <2>5. CASE ps[k][1] = "rel"
    <3>1. ps[k][3] \in Text
      BY <2>1, <2>5, PieceWidth
    <3>2. Kept(Branch(v, i, ps[k][3], Here(u) + before))
      BY <1>4, <2>4, <3>1, Branching
    <3>3. Emitted(u, i, ps, k) = Branch(v, i, ps[k][3], Here(u) + before)
      BY <1>6, <1>8, <2>1, <2>5
    <3> QED
      BY <1>2, <3>2, <3>3, Failing
  <2>6. CASE ps[k][1] = "sym"
    <3>1. ps[k][3] \in Int /\ ps[k][4] \in Text
      BY <2>1, <2>6, PieceWidth
    <3>2. i.op = "call" => k >= 3
      BY <1>1, <1>8, <2>6
    <3>3. Here(u) + 1 \in Nat /\ (i.op = "call" => Here(u) + 1 + 5 <= Here(v))
      BY <1>3, <1>4, <2>3, <3>2
    <3>4. Kept(Displacement(v, i, ps[k], Here(u) + before, Here(u) + 1))
      BY <1>4, <2>4, <3>1, <3>3, Displacing
    <3>5. Emitted(u, i, ps, k) = Displacement(v, i, ps[k], Here(u) + before, Here(u) + 1)
      BY <1>6, <1>8, <2>1, <2>6
    <3> QED
      BY <1>2, <3>4, <3>5, Failing
  <2> QED
    BY <1>8, <2>5, <2>6
<1> QED
  BY <1>5, <1>7, <1>8

\* Padding is never negative.
LEMMA Padding ==
  ASSUME NEW h \in Nat, NEW n \in Nat \ {0}
  PROVE  Align(h, n) - h \in Nat
<1> DEFINE x == h + n - 1
           q == x \div n
<1>1. x \in Nat /\ q \in Int
  OBVIOUS
<1>2. x < n * (q + 1)
  OBVIOUS
<1>3. n * (q + 1) = q * n + n
  <2> HIDE DEF q
  <2> QED BY <1>1
<1>4. Align(h, n) = q * n
  BY DEF Align
<1>5. q * n \in Int
  <2> HIDE DEF q
  <2> QED BY <1>1
<1> QED
  BY <1>2, <1>3, <1>4, <1>5

\* The word that a quad fills may be written before or after it is emitted.
LEMMA WordFirst ==
  ASSUME NEW u \in AsmUnit, NEW at, NEW n
  PROVE  Put(PutField(u, at, n), 8) = PutField(Put(u, 8), at, n)
<1> DEFINE c == u.cur
           g == Patch(u.sec[c].fields, at, n)
           x == [u.sec[c] EXCEPT !.fields = g]
           y == [u.sec[c] EXCEPT !.len = @ + 8]
           a == [u EXCEPT !.sec[c] = x]
           b == [u EXCEPT !.sec[c] = y]
<1>1. c \in Sections /\ u.sec \in [Sections -> Section] /\ u.sec[c] \in Section
  BY DEF AsmUnit
<1>2. PutField(u, at, n) = a /\ Put(u, 8) = b
  BY DEF PutField, Put
<1> HIDE DEF g
<1>3. /\ x.len = u.sec[c].len /\ y.fields = u.sec[c].fields
      /\ [x EXCEPT !.len = @ + 8] = [y EXCEPT !.fields = g]
  BY <1>1 DEF Section
<1> DEFINE w == [x EXCEPT !.len = @ + 8]
<1> HIDE DEF x, y
<1>4. /\ a.cur = c /\ a.sec[c] = x /\ b.cur = c /\ b.sec[c] = y
      /\ \A z : [a EXCEPT !.sec[c] = z] = [b EXCEPT !.sec[c] = z]
  <2>1. a.cur = c /\ a.sec = [u.sec EXCEPT ![c] = x] /\ b.cur = c /\ b.sec = [u.sec EXCEPT ![c] = y]
    BY DEF AsmUnit
  <2>2. ASSUME NEW z PROVE [a.sec EXCEPT ![c] = z] = [b.sec EXCEPT ![c] = z]
    BY <1>1, <2>1
  <2>3. ASSUME NEW t PROVE [a EXCEPT !.sec = t] = [b EXCEPT !.sec = t]
    BY DEF AsmUnit
  <2> HIDE DEF a, b
  <2>4. ASSUME NEW z PROVE [a EXCEPT !.sec[c] = z] = [b EXCEPT !.sec[c] = z]
    BY <2>2, <2>3
  <2> QED
    BY <1>1, <2>1, <2>4
<1> HIDE DEF a, b, c
<1>5. Put(a, 8) = [a EXCEPT !.sec[c] = w]
  BY <1>4 DEF Put, w
<1>6. PutField(b, at, n) = [b EXCEPT !.sec[c] = [y EXCEPT !.fields = g]]
  BY <1>3, <1>4 DEF PutField, g, c
<1> QED
  BY <1>2, <1>3, <1>4, <1>5, <1>6 DEF w

\* A directive keeps the books.
LEMMA Directing ==
  ASSUME NEW u, Kept(u), NEW d \in Line, d.k \notin {"label", "instruction"}
  PROVE  Kept(HandleDirective(u, d))
<1>1. u \in AsmUnit /\ u.cur \in Sections /\ Here(u) = u.sec[u.cur].len /\ u.sec[u.cur].len \in Nat
  BY UnitParts DEF Kept, Here
<1>2. CASE d.k = "section"
  <2>1. d.name \in Sections
    BY <1>2 DEF Line
  <2> DEFINE w == [u.sec[d.name] EXCEPT !.used = TRUE]
             a == [u EXCEPT !.sec[d.name] = w]
             v == [a EXCEPT !.cur = d.name]
  <2>2. u.sec[d.name] \in Section /\ u.sec[d.name].len \in Nat
    BY <1>1, <2>1, UnitParts
  <2>3. /\ w \in Section /\ w.len = u.sec[d.name].len
        /\ w.fields = u.sec[d.name].fields /\ w.relocs = u.sec[d.name].relocs
    BY <2>2 DEF Section
  <2>4. HandleDirective(u, d) = v
    <3>1. HandleDirective(u, d) = [u EXCEPT !.cur = d.name, !.sec[d.name].used = TRUE]
      BY <1>2 DEF HandleDirective
    <3> QED
      BY <1>1, <3>1 DEF AsmUnit
  <2> HIDE DEF w
  <2>5. /\ w.len >= u.sec[d.name].len
        /\ \A x \in DOMAIN w.fields : x \in 0..(w.len - 4)
        /\ \A j \in DOMAIN w.relocs :
             /\ w.relocs[j].at \in 0..(w.len - Room(w.relocs[j].type))
             /\ w.relocs[j].sym \in DOMAIN u.syms
    BY <2>1, <2>2, <2>3 DEF Kept, FieldsWithin, RelocsWithin
  <2>6. Kept(a)
    BY <2>1, <2>3, <2>5, Longer
  <2> HIDE DEF a
  <2>7. v \in AsmUnit /\ v.sec = a.sec /\ v.syms = a.syms /\ v.fixups = a.fixups
    BY <2>1, <2>6 DEF Kept, AsmUnit
  <2> HIDE DEF v
  <2> QED
    BY <2>4, <2>6, <2>7 DEF Kept, FieldsWithin, RelocsWithin, SymbolsWithin, FixupsWithin
<1>3. CASE d.k = "align"
  <2>1. d.n \in Nat \ {0}
    BY <1>3 DEF Line
  <2>2. Align(Here(u), d.n) - Here(u) \in Nat
    BY <1>1, <2>1, Padding
  <2>3. HandleDirective(u, d) = Put(u, Align(Here(u), d.n) - Here(u))
    BY <1>3 DEF HandleDirective, AlignSection
  <2> QED
    BY <2>2, <2>3, Emitting
<1>4. CASE d.k = "globl"
  <2> DEFINE m == SymIntern(u, d.name)
             k == SymFind(m.syms, d.name)
             e == [m.syms[k] EXCEPT !.global = TRUE]
  <2>1. d.name \in Text
    BY <1>4 DEF Line, Text
  <2>2. Kept(m) /\ k \in DOMAIN m.syms
    BY <2>1, Interning
  <2>3. HandleDirective(u, d) = [m EXCEPT !.syms[k] = e]
    BY <1>4 DEF HandleDirective
  <2> HIDE DEF m, k
  <2>4. m.syms[k] \in Symbol
    BY <2>2, UnitParts DEF Kept
  <2>5. e \in Symbol /\ e.section = m.syms[k].section /\ e.value = m.syms[k].value
    BY <2>4 DEF Symbol
  <2> HIDE DEF e
  <2>6. e.section \in Sections => e.value <= m.sec[e.section].len
    BY <2>2, <2>5 DEF Kept, SymbolsWithin
  <2> QED
    BY <2>2, <2>3, <2>5, <2>6, SymbolSet
<1>5. CASE d.k = "put"
  <2>1. d.n \in Nat
    BY <1>5 DEF Line
  <2>2. HandleDirective(u, d) = Put(u, d.n)
    BY <1>5 DEF HandleDirective
  <2> QED
    BY <2>1, <2>2, Emitting
<1>6. CASE d.k = "other"
  BY <1>6, Failing DEF HandleDirective
<1>7. CASE d.k = "note"
  <2> DEFINE v == [u EXCEPT !.stack = @ \/ d.stack]
  <2>1. d.stack \in BOOLEAN
    BY <1>7 DEF Line
  <2>2. HandleDirective(u, d) = v
    BY <1>7 DEF HandleDirective
  <2>3. /\ v \in AsmUnit /\ v.sec = u.sec /\ v.syms = u.syms /\ v.fixups = u.fixups
    BY <1>1, <2>1 DEF AsmUnit
  <2> HIDE DEF v
  <2> QED
    BY <2>2, <2>3 DEF Kept, FieldsWithin, RelocsWithin, SymbolsWithin, FixupsWithin
<1>8. CASE d.k = "quad"
  <2> DEFINE a == Put(u, 8)
             b == PutField(a, Here(u), 0)
  <2>1. d.name \in Text
    BY <1>8 DEF Line, Text
  <2>2. Kept(a) /\ Here(a) = Here(u) + 8 /\ a.cur = u.cur /\ Here(a) = a.sec[a.cur].len
    <3>1. 8 \in Nat
      OBVIOUS
    <3> QED
      BY <3>1, Emitting DEF Here
  <2>3. HandleDirective(u, d) = AddReloc(b, u.cur, Here(u), d.name, "abs64")
    BY <1>1, <1>8, WordFirst DEF HandleDirective
  <2> HIDE DEF a
  <2>4. Kept(b) /\ b.sec[u.cur].len = Here(u) + 8
    <3> DEFINE zero == 0
    <3>1. b = [a EXCEPT !.sec[u.cur].fields = Patch(@, Here(u), zero)]
      BY <2>2 DEF PutField
    <3>2. Here(u) \in 0..(a.sec[u.cur].len - 4) /\ zero \in Int
      BY <1>1, <2>2
    <3> HIDE DEF b, zero
    <3> QED
      BY <1>1, <2>2, <3>1, <3>2, FieldKept
  <2> HIDE DEF b
  <2>5. /\ "abs64" \in {"pc32", "gotpcrelx", "abs64"}
        /\ Here(u) \in 0..(b.sec[u.cur].len - Room("abs64"))
    BY <1>1, <2>4 DEF Room
  <2> QED
    BY <1>1, <2>1, <2>3, <2>4, <2>5, Relocating
<1> QED
  BY <1>2, <1>3, <1>4, <1>5, <1>6, <1>7, <1>8 DEF Line

\* A line of the source.
LEMMA Assembling ==
  ASSUME NEW u, Kept(u), NEW line \in Line, line.k = "instruction" => u.cur = "text"
  PROVE  Kept(AssembleLine(u, line))
<1>1. CASE line.k = "label"
  <2>1. line.name \in Text
    BY <1>1 DEF Line, Text
  <2> QED
    BY <1>1, <2>1, Labelling DEF AssembleLine
<1>2. CASE line.k = "instruction"
  <2>1. line.i \in Instruction
    BY <1>2 DEF Line
  <2> QED
    BY <1>2, <2>1, Instructing DEF AssembleLine
<1>3. CASE line.k \notin {"label", "instruction"}
  BY <1>3, Directing DEF AssembleLine
<1> QED
  BY <1>1, <1>2, <1>3

-----------------------------------------------------------------------------
(* The branches that wait *)

\* Resolving one branch that waits keeps the books and the length of .text.
LEMMA Resolving ==
  ASSUME NEW u, Kept(u), NEW f \in Fixup, f.at \in 0..(u.sec["text"].len - 4)
  PROVE  LET v == ResolveFixup(u, f) IN Kept(v) /\ v.sec["text"].len = u.sec["text"].len
<1> DEFINE l == LabelFind(u, f.label)
           n == u.labels[l].offset - (f.at + 4)
<1>1. u \in AsmUnit /\ "text" \in Sections /\ u.labels \in Seq(LabelEntry)
  BY UnitParts DEF Kept, Sections
<1>2. f.at \in Int /\ f.label \in Text
  BY DEF Fixup
<1>3. CASE l = 0
  <2>1. ResolveFixup(u, f) = AddReloc(u, "text", f.at, f.label, "pc32")
    BY <1>3 DEF ResolveFixup
  <2>2. "pc32" \in {"pc32", "gotpcrelx", "abs64"} /\ f.at \in 0..(u.sec["text"].len - Room("pc32"))
    BY DEF Room
  <2> QED
    BY <1>1, <1>2, <2>1, <2>2, Relocating
<1>4. CASE l # 0 /\ u.labels[l].section # "text"
  <2>1. ResolveFixup(u, f) = Fail(u)
    BY <1>4 DEF ResolveFixup
  <2>2. Fail(u).sec = u.sec
    BY <1>1 DEF Fail, AsmUnit
  <2> QED
    BY <2>1, <2>2, Failing
<1>5. CASE l # 0 /\ u.labels[l].section = "text"
  <2>1. ResolveFixup(u, f) = [u EXCEPT !.sec["text"].fields = Patch(@, f.at, n)]
    BY <1>5 DEF ResolveFixup
  <2>2. u.labels[l] \in LabelEntry
    BY <1>1, <1>5, LabelFinds
  <2>3. n \in Int
    BY <1>2, <2>2 DEF LabelEntry
  <2> HIDE DEF n
  <2> QED
    BY <1>1, <2>1, <2>3, FieldKept
<1> QED
  BY <1>3, <1>4, <1>5

\* Resolving all of them, up to the first error, keeps the books.
LEMMA ResolvingAll ==
  ASSUME NEW u, Kept(u)
  PROVE  Kept(ResolveFixups(u))
<1> DEFINE N == Len(u.fixups)
           Good == {v \in AsmUnit : Kept(v) /\ v.sec["text"].len = u.sec["text"].len}
           Step(n, v) == IF v.failed THEN v ELSE ResolveFixup(v, u.fixups[n])
           Is(f) == f = [n \in 0 .. N |-> IF n = 0 THEN u ELSE Step(n, f[n - 1])]
           F == [p \in (0 .. N) \X Good |-> IF p[1] = 0 THEN p[2] ELSE Step(p[1], p[2])]
<1>1. u \in Good /\ u.fixups \in Seq(Fixup) /\ N \in Nat /\ DOMAIN u.fixups = 1 .. N
  BY UnitParts DEF Kept
<1>2. ASSUME NEW n \in 1 .. N, NEW v \in Good PROVE Step(n, v) \in Good
  <2>1. u.fixups[n] \in Fixup /\ u.fixups[n].at \in 0..(v.sec["text"].len - 4)
    BY <1>1 DEF Kept, FixupsWithin
  <2>2. CASE v.failed
    BY <2>2
  <2>3. CASE ~v.failed
    <3> DEFINE r == ResolveFixup(v, u.fixups[n])
    <3>1. Kept(r) /\ r.sec["text"].len = v.sec["text"].len
      BY <2>1, Resolving
    <3> HIDE DEF r
    <3>2. r \in Good
      BY <3>1 DEF Kept
    <3> QED
      BY <2>3, <3>2 DEF r
  <2> QED
    BY <2>2, <2>3
<1> HIDE DEF Good, Step, N
<1>3. F \in [(0 .. N) \X Good -> Good]
  <2>1. ASSUME NEW p \in (0 .. N) \X Good
        PROVE  (IF p[1] = 0 THEN p[2] ELSE Step(p[1], p[2])) \in Good
    <3>1. p[2] \in Good /\ p[1] \in 0 .. N
      BY <2>1
    <3>2. p[1] # 0 => p[1] \in 1 .. N
      BY <1>1, <3>1
    <3> QED
      BY <1>2, <3>1, <3>2
  <2> QED
    BY <2>1
<1>4. PICK f \in [0 .. N -> Good] : Iterates(f, 0, N, u, F)
  <2>1. 0 \in Nat /\ 0 <= N
    BY <1>1
  <2> HIDE DEF F
  <2> QED BY <1>1, <1>3, <2>1, Recursion
<1>5. Is(f)
  <2> DEFINE h == [n \in 0 .. N |-> IF n = 0 THEN u ELSE Step(n, f[n - 1])]
  <2>1. ASSUME NEW n \in 0 .. N PROVE f[n] = h[n]
    <3>1. CASE n = 0
      BY <1>4, <3>1 DEF Iterates
    <3>2. CASE n # 0
      <4>1. f[n] = F[<<n, f[n - 1]>>]
        BY <1>4, <3>2 DEF Iterates
      <4>2. n - 1 \in 0 .. N
        BY <1>1, <3>2
      <4>3. <<n, f[n - 1]>> \in (0 .. N) \X Good
        BY <1>4, <4>2
      <4> QED
        BY <3>2, <4>1, <4>3
    <3> QED
      BY <3>1, <3>2
  <2>2. f = [n \in 0 .. N |-> f[n]] /\ h = [n \in 0 .. N |-> h[n]]
    BY <1>4
  <2> HIDE DEF h
  <2>3. f = h
    BY <2>1, <2>2, Zenon
  <2> QED
    BY <2>3 DEF h
<1> DEFINE g == CHOOSE f1 : Is(f1)
<1>6. Is(g)
  BY <1>5, Zenon
<1>7. ResolveFixups(u) = g[N]
  BY DEF ResolveFixups, Step, N
<1>8. \A n \in 0 .. N : g[n] = IF n = 0 THEN u ELSE Step(n, g[n - 1])
  BY <1>6, Zenon
<1> HIDE DEF g
<1>9. \A n \in 0 .. N : g[n] \in Good
  <2> DEFINE Off == {n \in 0 .. N : g[n] \notin Good}
  <2>1. Off \in SUBSET Nat
    BY <1>1
  <2>2. ASSUME Off # {} PROVE FALSE
    <3>1. PICK n \in Off : \A m \in Off : n <= m
      BY <2>1, <2>2, MinNat
    <3>2. n # 0
      BY <1>1, <1>8, <3>1
    <3>3. n - 1 \in 0 .. N /\ n \in 1 .. N
      BY <1>1, <3>1, <3>2
    <3>4. g[n - 1] \in Good
      BY <3>1, <3>3
    <3> QED
      BY <1>2, <1>8, <3>1, <3>2, <3>3, <3>4
  <2> QED
    BY <2>2
<1>10. g[N] \in Good
  BY <1>1, <1>9
<1> QED
  BY <1>7, <1>10 DEF Good

-----------------------------------------------------------------------------
(* The run *)

Phases == {"source", "assembled", "object", "read", "image", "failed"}

\* The books are kept, and what is left of the text is lines.
BooksKept == Kept(unit) /\ phase \in Phases /\ todo \in Seq(Line)

\* The books of an empty unit are in order.
LEMMA EmptyKept == Kept(EmptyUnit)
<1> DEFINE u == EmptyUnit
<1>1. <<>> \in [{} -> Int] /\ {} \in SUBSET Int
  OBVIOUS
<1>2. <<>> \in UNION {[D -> Int] : D \in SUBSET Int}
  BY <1>1
<1>3. /\ EmptySection \in Section /\ EmptySection.len = 0
      /\ EmptySection.fields = <<>> /\ EmptySection.relocs = <<>>
  BY <1>2 DEF EmptySection, Section
<1>4. u \in AsmUnit
  BY <1>3 DEF EmptyUnit, AsmUnit, Sections
<1>5. /\ \A s \in Sections : u.sec[s] = EmptySection
      /\ u.syms = <<>> /\ u.fixups = <<>>
  BY DEF EmptyUnit
<1> HIDE DEF u
<1>6. FieldsWithin(u) /\ RelocsWithin(u) /\ SymbolsWithin(u) /\ FixupsWithin(u)
  BY <1>3, <1>5 DEF FieldsWithin, RelocsWithin, SymbolsWithin, FixupsWithin
<1> QED
  BY <1>4, <1>6 DEF Kept, u

\* They are in order at the start,
LEMMA BooksStart == Init => BooksKept
BY EmptyKept, ToolchainAssumption DEF Init, BooksKept, Phases

\* every step keeps them so,
LEMMA BooksNext == BooksKept /\ [Next]_vars => BooksKept'
<1> SUFFICES ASSUME BooksKept, [Next]_vars PROVE BooksKept'
  OBVIOUS
<1>1. ASSUME NEW line \in Line, Written1(line), Assemble(line)
      PROVE  Kept(unit') /\ phase' \in Phases
  BY <1>1, Assembling DEF BooksKept, Written1, Assemble, Phases
<1>2. CASE AssembleNext
  <2>1. CASE todo # <<>> /\ Written1(Head(todo)) /\ Assemble(Head(todo)) /\ todo' = Tail(todo)
    <3>1. Head(todo) \in Line /\ todo' \in Seq(Line)
      BY <2>1 DEF BooksKept
    <3> QED
      BY <1>1, <2>1, <3>1 DEF BooksKept
  <2>2. CASE (\E line \in Lines : Written1(line) /\ Assemble(line)) /\ UNCHANGED todo
    BY <1>1, <2>2, ToolchainAssumption DEF BooksKept
  <2> QED
    BY <1>2, <2>1, <2>2 DEF AssembleNext
<1>3. CASE EndOfSource
  BY <1>3, ResolvingAll DEF BooksKept, EndOfSource, Phases
<1>4. CASE WriteObject
  BY <1>4 DEF BooksKept, WriteObject, Phases
<1>5. CASE ReadObjects
  BY <1>5 DEF BooksKept, ReadObjects, Phases
<1>6. CASE Link
  BY <1>6 DEF BooksKept, Link, Phases
<1>7. CASE UNCHANGED vars
  BY <1>7 DEF BooksKept, vars
<1> QED
  BY <1>2, <1>3, <1>4, <1>5, <1>6, <1>7 DEF Next

\* and books in order are what TypeOK says of the unit.
LEMMA BooksTyped == BooksKept => TypeOK
<1> SUFFICES ASSUME BooksKept PROVE TypeOK
  OBVIOUS
<1> DEFINE u == unit
<1>1. Kept(u) /\ u \in AsmUnit
  BY DEF BooksKept, Kept
<1> HIDE DEF u
<1>2. /\ u.cur \in Sections /\ u.syms \in Seq(Symbol)
      /\ \A s \in Sections : u.sec[s].len \in Nat
      /\ \A j \in DOMAIN u.syms : u.syms[j] \in Symbol
  BY <1>1, UnitParts
<1>3. \A s \in Sections :
        /\ \A a \in DOMAIN u.sec[s].fields : a \in 0..(u.sec[s].len - 4)
        /\ \A r \in Range(u.sec[s].relocs) :
             /\ r.at \in 0..(u.sec[s].len - (IF r.type = "gotpcrelx" THEN 3 ELSE 4))
             /\ r.sym \in DOMAIN u.syms
  BY <1>1 DEF Kept, FieldsWithin, RelocsWithin, Room, Range
<1>4. \A s \in Range(u.syms) : s.section = Undefined \/ s.value \in 0..u.sec[s.section].len
  <2>1. ASSUME NEW j \in DOMAIN u.syms
        PROVE  u.syms[j].section = Undefined \/ u.syms[j].value \in 0..u.sec[u.syms[j].section].len
    <3>1. u.syms[j].section \in Sections \cup {Undefined} /\ u.syms[j].value \in Nat
      BY <1>2 DEF Symbol
    <3> QED
      BY <1>1, <1>2, <3>1 DEF Kept, SymbolsWithin
  <2> QED
    BY <2>1 DEF Range
<1>5. \A f \in Range(u.fixups) : f.at \in 0..(u.sec["text"].len - 4)
  BY <1>1 DEF Kept, FixupsWithin, Range
<1> QED
  BY <1>2, <1>3, <1>4, <1>5 DEF TypeOK, BooksKept, Phases, u

\* The assembler of src/asm_amd64.c keeps its books: for every text whose
\* instructions are in .text, with every form of every instruction, a field, a
\* relocation and a branch that waits lie within the bytes that were emitted, a
\* relocation names a symbol of the table, and a symbol has a place within its
\* section.
THEOREM TypeCorrect == Spec => []TypeOK
<1>1. Init => BooksKept
  BY BooksStart
<1>2. BooksKept /\ [Next]_vars => BooksKept'
  BY BooksNext
<1>3. BooksKept => TypeOK
  BY BooksTyped
<1> QED
  BY <1>1, <1>2, <1>3, PTL DEF Spec
=============================================================================
