----------------------------- MODULE Containers -----------------------------
(***************************************************************************)
(* The growing containers of a compiled program (include/runtime_aux.h): map,*)
(* vec and string builder, over the process heap (allocator handle 0) or     *)
(* over an allocator the program made, which it also uses directly.          *)
(*                                                                          *)
(* store is the store of module Allocator; store.mem[p] is what the block at *)
(* p holds: a header, an array, a string or a text.  Each operation reads    *)
(* the blocks through their addresses, as the code does, so that a block     *)
(* given to two owners shows.  An array is kept up to its container's len.   *)
(* A value stands for an int or, in a vec of strings, for a string.          *)
(***************************************************************************)
EXTENDS Allocator, Sequences

CONSTANTS Key, Value, Piece,
          KeyHash,               \* tiq_map_hash
          StrLen,                \* strlen of a key, a value or a piece
          FirstCap, FirstBuckets, FirstText,     \* 8, 8 and 16 in the code
          Openings,              \* the allocators a program may make: [kind, b, c]
          Limits,                \* where malloc may give up
          RawSizes, RawAligns,   \* what the program asks of its allocator itself
          Programs,              \* which containers a program uses
          MaxKeys, MaxElems, MaxPieces, MaxRaw,  \* bounds on the containers' sizes
          MaxLost                \* a bound on the blocks left to leak

ASSUME ContainersAssumption ==
  /\ KeyHash \in [Key -> Nat] /\ StrLen \in [Key \cup Value \cup Piece -> Nat]
  /\ FirstCap \in Nat \ {0} /\ FirstBuckets \in Nat \ {0} /\ FirstText \in Nat \ {0}
  /\ PowerOfTwo(FirstBuckets)
  /\ Openings \subseteq [kind : {"general", "arena", "pool"}, b : Nat, c : Nat]
  /\ Limits \subseteq Nat /\ RawSizes \subseteq Nat /\ RawAligns \subseteq Nat

VARIABLES store,
          map, vec, buf,   \* the addresses of the containers, 0 before they are made
          snap,            \* the address of the string made from the builder
          raw,             \* the blocks the program took from its allocator: [p, n, al, a]
          uses             \* what the program uses, fixed at its start
vars == <<store, map, vec, buf, snap, raw, uses>>

Word == 8
MapBytes == 56      \* sizeof(TiqMap), TiqVec and TiqStrBuf
VecBytes == 40
BufBytes == 32

-----------------------------------------------------------------------------
\* tiq_container_alloc, for which no room is the end of the process; what
\* follows such a call in the code does not happen.
Exit(s) == [s EXCEPT !.dead = TRUE]
Take(s, a, n, al) ==
  LET r == IF a = 0 THEN Malloc(s, n) ELSE AllocatorAlloc(s, n, al)
  IN  IF s.dead \/ r.p = 0 THEN NoRoom(Exit(s)) ELSE r

Put(s, p, v) == [s EXCEPT !.mem = [q \in DOMAIN @ \cup {p} |-> IF q = p THEN v ELSE @[q]]]
Forget(s, ps) == [s EXCEPT !.mem = [q \in DOMAIN @ \ ps |-> @[q]]]

\* A block of n bytes at p, of alignment al, from allocator a.
Block(p, n, al, a) == [p |-> p, n |-> n, al |-> al, a |-> a]
Lose(s, b) == [s EXCEPT !.dropped = @ \cup {b}]

\* tiq_container_dealloc: a block of the process heap is left to leak.
DropNothing(s, b) == IF b.p = 0 THEN s ELSE Forget(s, {b.p})   \* mutation: no dealloc
Drop(s, b) == IF b.p = 0 THEN s
              ELSE IF b.a = 0 THEN Lose(Forget(s, {b.p}), b)
              ELSE AllocatorDealloc(Forget(s, {b.p}), b.p)

\* tiq_container_dup_str
DupStr(s, a, w) ==
  LET d == Take(s, a, StrLen[w] + 1, 1) IN [s |-> Put(d.s, d.p, w), p |-> d.p]

-----------------------------------------------------------------------------
\* The map.

EmptyBuckets(n) == [i \in 0..(n - 1) |-> -1]
MapNew(s, a) ==
  LET m == Take(s, a, MapBytes, MaxAlign)
      b == Take(m.s, a, FirstBuckets * Word, MaxAlign)
  IN  [s |-> Put(Put(b.s, b.p, EmptyBuckets(FirstBuckets)), m.p,
                 [keys |-> 0, vals |-> 0, len |-> 0, cap |-> 0, buckets |-> b.p,
                  nbuckets |-> FirstBuckets, a |-> a]),
       p |-> m.p]

KeyOf(mem, m, e) == mem[mem[m.keys][e + 1]]

\* The i-th bucket of n that a probe for hash h looks at.
Probe(h, n, i) == IF (h % n) + i < n THEN (h % n) + i ELSE (h % n) + i - n

\* tiq_map_place: the first free bucket from the hash on.
Place(bs, n, h, e) ==
  LET i == CHOOSE j \in 0..(n - 1) : /\ bs[Probe(h, n, j)] < 0
                                     /\ \A k \in 0..(j - 1) : bs[Probe(h, n, k)] >= 0
  IN  [bs EXCEPT ![Probe(h, n, i)] = e]

\* tiq_map_find: the entry of k, or -1 if a free bucket is met first.  The load
\* factor leaves a free bucket, so the probe ends.
Stops(mem, m, k, i) ==
  LET e == mem[m.buckets][Probe(KeyHash[k], m.nbuckets, i)]
  IN  e < 0 \/ KeyOf(mem, m, e) = k
Find(mem, m, k) ==
  LET i == CHOOSE j \in 0..(m.nbuckets - 1) : /\ Stops(mem, m, k, j)
                                              /\ \A l \in 0..(j - 1) : ~Stops(mem, m, k, l)
  IN  mem[m.buckets][Probe(KeyHash[k], m.nbuckets, i)]

\* tiq_map_get
Get(mem, m, k) == LET e == Find(mem, m, k) IN IF e >= 0 THEN mem[m.vals][e + 1] ELSE -1

\* tiq_map_rehash: every entry is placed again, in the order of insertion.
PlacedKept(mem, m, n) ==   \* mutation: the buckets are copied, not placed again
  [i \in 0..(n - 1) |-> IF i < m.nbuckets THEN mem[m.buckets][i] ELSE -1]
Placed(mem, m, n) ==
  LET placed[e \in 0..m.len] ==
        IF e = 0 THEN EmptyBuckets(n)
        ELSE Place(placed[e - 1], n, KeyHash[KeyOf(mem, m, e - 1)], e - 1)
  IN  placed[m.len]

Words(p, n, a) == Block(p, n * Word, MaxAlign, a)
Rehash(s, p) ==
  LET m == s.mem[p]
      n == 2 * m.nbuckets
      b == Take(s, m.a, n * Word, MaxAlign)
      grown == Put(Put(b.s, b.p, Placed(s.mem, m, n)), p,
                   [m EXCEPT !.nbuckets = n, !.buckets = b.p])
  IN  Drop(grown, Words(m.buckets, m.nbuckets, m.a))

GrowCap(cap) == IF cap = 0 THEN FirstCap ELSE 2 * cap
Contents(mem, p) == IF p = 0 THEN <<>> ELSE mem[p]

GrowEntries(s, p) ==
  LET m == s.mem[p]
      c == GrowCap(m.cap)
      nk == Take(s, m.a, c * Word, MaxAlign)
      nv == Take(nk.s, m.a, c * Word, MaxAlign)
      filled == Put(Put(nv.s, nk.p, Contents(s.mem, m.keys)), nv.p, Contents(s.mem, m.vals))
      emptied == Drop(Drop(filled, Words(m.keys, m.cap, m.a)), Words(m.vals, m.cap, m.a))
  IN  Put(emptied, p, [m EXCEPT !.keys = nk.p, !.vals = nv.p, !.cap = c])

AddEntry(s, p, k, v) ==
  LET m == s.mem[p]
      d == DupStr(s, m.a, k)
      keyed == Put(d.s, m.keys, Append(s.mem[m.keys], d.p))
      valued == Put(keyed, m.vals, Append(s.mem[m.vals], v))
      placed == Put(valued, m.buckets,
                    Place(s.mem[m.buckets], m.nbuckets, KeyHash[k], m.len))
  IN  Put(placed, p, [m EXCEPT !.len = @ + 1])

\* tiq_map_set
MapSet(s, p, k, v) ==
  LET m == s.mem[p]
      e == Find(s.mem, m, k)
      roomy == IF (m.len + 1) * 10 > m.nbuckets * 7 THEN Rehash(s, p) ELSE s
      ready == IF m.len = m.cap THEN GrowEntries(roomy, p) ELSE roomy
  IN  IF e >= 0 THEN Put(s, m.vals, [s.mem[m.vals] EXCEPT ![e + 1] = v])
      ELSE IF ready.dead THEN ready ELSE AddEntry(ready, p, k, v)

-----------------------------------------------------------------------------
\* The vec.

VecNew(s, a) ==
  LET v == Take(s, a, VecBytes, MaxAlign)
  IN  [s |-> Put(v.s, v.p, [data |-> 0, len |-> 0, cap |-> 0, a |-> a]), p |-> v.p]

\* tiq_vec_reserve; ints and strings both take a word.
Reserve(s, p) ==
  LET v == s.mem[p]
      c == GrowCap(v.cap)
      d == Take(s, v.a, c * Word, MaxAlign)
      grown == Put(Put(d.s, d.p, Contents(s.mem, v.data)), p,
                   [v EXCEPT !.data = d.p, !.cap = c])
  IN  IF s.dead \/ v.len < v.cap THEN s ELSE Drop(grown, Words(v.data, v.cap, v.a))

\* tiq_vec_push_i64, and tiq_vec_push_str after it has made its copy.
Push(s, p, x) ==
  LET r == Reserve(s, p)
      v == r.mem[p]
  IN  IF r.dead THEN r
      ELSE Put(Put(r, v.data, Append(r.mem[v.data], x)), p, [v EXCEPT !.len = @ + 1])
PushStr(s, p, w) == LET d == DupStr(s, s.mem[p].a, w) IN Push(d.s, p, d.p)

\* tiq_vec_set_i64 and tiq_vec_set_str, i from 0: an index out of bounds ends
\* the process, and the string that stood there stays where it is.
SetCell(s, p, i, x) ==
  LET v == s.mem[p]
  IN  IF s.dead \/ i >= v.len THEN Exit(s)
      ELSE Put(s, v.data, [s.mem[v.data] EXCEPT ![i + 1] = x])
StrBlock(mem, q, a) == Block(q, StrLen[mem[q]] + 1, 1, a)
LoseCell(s, p, i) ==
  LET v == s.mem[p]
  IN  IF s.dead \/ i >= v.len THEN s ELSE Lose(s, StrBlock(s.mem, s.mem[v.data][i + 1], v.a))
SetStr(s, p, i, w) ==
  LET d == DupStr(s, s.mem[p].a, w) IN SetCell(LoseCell(d.s, p, i), p, i, d.p)

\* tiq_vec_pop
PopCell(s, p) ==
  LET v == s.mem[p]
  IN  IF v.len = 0 THEN Exit(s)
      ELSE Put(Put(s, v.data, SubSeq(s.mem[v.data], 1, v.len - 1)), p, [v EXCEPT !.len = @ - 1])
PopStr(s, p) ==
  IF s.mem[p].len = 0 THEN Exit(s) ELSE PopCell(LoseCell(s, p, s.mem[p].len - 1), p)

-----------------------------------------------------------------------------
\* The string builder; its text is the sequence of the pieces appended, n
\* characters long.

NoText == [pieces |-> <<>>, n |-> 0]
Join(t, w) == [pieces |-> Append(t.pieces, w), n |-> t.n + StrLen[w]]

BufNew(s, a) ==
  LET b == Take(s, a, BufBytes, MaxAlign)
      d == Take(b.s, a, FirstText, 1)
  IN  [s |-> Put(Put(d.s, d.p, NoText), b.p,
                 [data |-> d.p, len |-> 0, cap |-> FirstText, a |-> a]),
       p |-> b.p]

Doubled(c, need) ==
  LET k == CHOOSE i \in 0..need : /\ c * Pow2[i] >= need
                                  /\ \A j \in 0..(i - 1) : c * Pow2[j] < need
  IN  c * Pow2[k]

NeedTextOnly(b, w) == b.len + StrLen[w]   \* mutation: no room for the NUL
Need(b, w) == b.len + StrLen[w] + 1

\* tiq_str_buf_append
GrowText(s, p, need) ==
  LET b == s.mem[p]
      c == Doubled(b.cap, need)
      d == Take(s, b.a, c, 1)
      grown == Put(Put(d.s, d.p, s.mem[b.data]), p, [b EXCEPT !.data = d.p, !.cap = c])
  IN  Drop(grown, Block(b.data, b.cap, 1, b.a))
BufAppend(s, p, w) ==
  LET need == Need(s.mem[p], w)
      r == IF need > s.mem[p].cap THEN GrowText(s, p, need) ELSE s
      b == r.mem[p]
  IN  IF StrLen[w] = 0 THEN s
      ELSE IF r.dead THEN r
      ELSE Put(Put(r, b.data, Join(r.mem[b.data], w)), p, [b EXCEPT !.len = @ + StrLen[w]])

\* tiq_str_buf_to_str: always on the process heap.
ToStr(s, p) ==
  LET b == s.mem[p]
      d == Take(s, 0, b.len + 1, MaxAlign)
  IN  [s |-> Put(d.s, d.p, s.mem[b.data]), p |-> d.p]

-----------------------------------------------------------------------------
EmptyStore(limit) == [heap |-> {}, limit |-> limit, x |-> NoAllocator, mem |-> <<>>,
                      dead |-> FALSE, dropped |-> {}]

Init == /\ \E l \in Limits : store = EmptyStore(l)
        /\ map = 0 /\ vec = 0 /\ buf = 0 /\ snap = 0 /\ raw = {}
        /\ uses \in Programs

Running(what) == ~store.dead /\ what \in uses
Handles == {0} \cup (IF store.x.kind = "none" THEN {} ELSE {store.x.h})

\* The store after an operation: memory is as it was when the process ends in it.
Committed(r) == IF r.dead THEN Exit(store) ELSE r
Made(r) == IF r.s.dead THEN 0 ELSE r.p

\* tiq_arena_create, tiq_pool_create, tiq_allocator_general; a bound: a program
\* has one allocator, made while it holds nothing else.
Open(o) ==
  /\ ~store.dead /\ store.x.kind = "none" /\ store.heap = {}
  /\ store' = CASE o.kind = "arena" -> ArenaCreate(store, o.c)
                [] o.kind = "pool" -> PoolCreate(store, o.b, o.c)
                [] o.kind = "general" -> [store EXCEPT !.x = General]
  /\ UNCHANGED <<map, vec, buf, snap, raw, uses>>

NewMap(a) ==
  LET r == MapNew(store, a)
  IN  /\ Running("map") /\ map = 0
      /\ store' = Committed(r.s) /\ map' = Made(r)
      /\ UNCHANGED <<vec, buf, snap, raw, uses>>

SetKey(k, v) ==
  /\ Running("map") /\ map # 0
  /\ store.mem[map].len < MaxKeys \/ Find(store.mem, store.mem[map], k) >= 0
  /\ store' = Committed(MapSet(store, map, k, v))
  /\ UNCHANGED <<map, vec, buf, snap, raw, uses>>

Strings == "strs" \in uses
NewVec(a) ==
  LET r == VecNew(store, a)
  IN  /\ Running("ints") \/ Running("strs")
      /\ vec = 0
      /\ store' = Committed(r.s) /\ vec' = Made(r)
      /\ UNCHANGED <<map, buf, snap, raw, uses>>

PushElem(w) ==
  /\ ~store.dead /\ vec # 0 /\ store.mem[vec].len < MaxElems
  /\ store' = Committed(IF Strings THEN PushStr(store, vec, w) ELSE Push(store, vec, w))
  /\ UNCHANGED <<map, vec, buf, snap, raw, uses>>

Bounded == Strings => Cardinality(store.dropped) < MaxLost
SetElem(i, w) ==
  /\ ~store.dead /\ vec # 0 /\ Bounded
  /\ store' = Committed(IF Strings THEN SetStr(store, vec, i, w) ELSE SetCell(store, vec, i, w))
  /\ UNCHANGED <<map, vec, buf, snap, raw, uses>>

PopElem ==
  /\ ~store.dead /\ vec # 0 /\ Bounded
  /\ store' = Committed(IF Strings THEN PopStr(store, vec) ELSE PopCell(store, vec))
  /\ UNCHANGED <<map, vec, buf, snap, raw, uses>>

NewBuf(a) ==
  LET r == BufNew(store, a)
  IN  /\ Running("buf") /\ buf = 0
      /\ store' = Committed(r.s) /\ buf' = Made(r)
      /\ UNCHANGED <<map, vec, snap, raw, uses>>

AppendText(w) ==
  /\ ~store.dead /\ buf # 0 /\ Len(store.mem[store.mem[buf].data].pieces) < MaxPieces
  /\ store' = Committed(BufAppend(store, buf, w))
  /\ UNCHANGED <<map, vec, buf, snap, raw, uses>>

MakeString ==
  LET r == ToStr(store, buf)
  IN  /\ ~store.dead /\ buf # 0 /\ snap = 0
      /\ store' = Committed(r.s) /\ snap' = Made(r)
      /\ UNCHANGED <<map, vec, buf, raw, uses>>

FreeString ==
  /\ ~store.dead /\ snap # 0
  /\ store' = Release(Forget(store, {snap}), {snap}) /\ snap' = 0
  /\ UNCHANGED <<map, vec, buf, raw, uses>>

-----------------------------------------------------------------------------
\* The program on its allocator: a block, a block given back, an address that
\* is none of its blocks, everything at once, the end.

RawAlloc(n, al) ==
  LET r == AllocatorAlloc(store, n, al)
  IN  /\ Running("raw") /\ store.x.kind # "none" /\ Cardinality(raw) < MaxRaw
      /\ store' = r.s
      /\ raw' = IF r.p = 0 THEN raw ELSE raw \cup {Block(r.p, n, al, store.x.h)}
      /\ UNCHANGED <<map, vec, buf, snap, uses>>

RawFree(b) ==
  /\ Running("raw")
  /\ store' = AllocatorDealloc(store, b.p) /\ raw' = raw \ {b}
  /\ UNCHANGED <<map, vec, buf, snap, uses>>

\* Of the general allocator only its own blocks may be freed.
StrayAddresses ==
  LET x == store.x
  IN  {x.buf - 1, x.buf + Extent(x)} \cup {BlockAt(x, i) + 1 : i \in x.used} \cup
      {BlockAt(x, i) : i \in (0..(x.count - 1)) \ x.used}
StrayFree(p) ==
  /\ Running("raw") /\ store.x.kind = "pool" /\ p \in StrayAddresses
  /\ store' = AllocatorDealloc(store, p)
  /\ UNCHANGED <<map, vec, buf, snap, raw, uses>>

\* What an allocator held is not used after its reset or its end.
Surviving(h) == IF h # 0 /\ store.mem[h].a # 0 THEN 0 ELSE h
InAllocator(x, p) == x.buf <= p /\ p < x.buf + Extent(x)
Emptied(s) == [Forget(s, {p \in DOMAIN s.mem : InAllocator(s.x, p)}) EXCEPT
                 !.dropped = {b \in @ : b.a = 0}]
Empty(s) ==
  /\ ~store.dead /\ store.x.kind \in {"arena", "pool"}
  /\ store' = s
  /\ map' = Surviving(map) /\ vec' = Surviving(vec) /\ buf' = Surviving(buf)
  /\ raw' = {}
  /\ UNCHANGED <<snap, uses>>
Reset == Empty(AllocatorReset(Emptied(store)))
DestroyAllocator == Empty(AllocatorDestroy(Emptied(store)))

Next == \/ \E o \in Openings : Open(o)
        \/ \E a \in Handles : NewMap(a) \/ NewVec(a) \/ NewBuf(a)
        \/ \E k \in Key, v \in Value : SetKey(k, v)
        \/ \E w \in Value : PushElem(w) \/ \E i \in 0..MaxElems : SetElem(i, w)
        \/ \E w \in Piece : AppendText(w)
        \/ PopElem \/ MakeString \/ FreeString
        \/ \E n \in RawSizes, al \in RawAligns : RawAlloc(n, al)
        \/ \E b \in raw : RawFree(b)
        \/ \E p \in StrayAddresses : StrayFree(p)
        \/ Reset \/ DestroyAllocator
Spec == Init /\ [][Next]_vars

-----------------------------------------------------------------------------
\* The blocks the program can still reach, each with its owner.
Owned(o, b) == [o |-> o, p |-> b.p, n |-> b.n, al |-> b.al, a |-> b.a]
Strs(mem, ps, what, a) ==
  {Owned(<<what, "string", i>>, StrBlock(mem, ps[i], a)) : i \in 1..Len(ps)}

MapBlocks(mem, p) ==
  LET m == mem[p]
  IN  {Owned(<<"map", "header", 0>>, Block(p, MapBytes, MaxAlign, m.a)),
       Owned(<<"map", "buckets", 0>>, Words(m.buckets, m.nbuckets, m.a))}
      \cup (IF m.cap = 0 THEN {}
            ELSE {Owned(<<"map", "keys", 0>>, Words(m.keys, m.cap, m.a)),
                  Owned(<<"map", "vals", 0>>, Words(m.vals, m.cap, m.a))})
      \cup Strs(mem, Contents(mem, m.keys), "map", m.a)
VecBlocks(mem, p, strings) ==
  LET v == mem[p]
  IN  {Owned(<<"vec", "header", 0>>, Block(p, VecBytes, MaxAlign, v.a))}
      \cup (IF v.cap = 0 THEN {} ELSE {Owned(<<"vec", "cells", 0>>, Words(v.data, v.cap, v.a))})
      \cup (IF strings THEN Strs(mem, Contents(mem, v.data), "vec", v.a) ELSE {})
BufBlocks(mem, p) ==
  LET b == mem[p]
  IN  {Owned(<<"buf", "header", 0>>, Block(p, BufBytes, MaxAlign, b.a)),
       Owned(<<"buf", "text", 0>>, Block(b.data, b.cap, 1, b.a))}
SnapBlocks(mem, p) ==
  {Owned(<<"snap", "text", 0>>, Block(p, mem[p].n + 1, MaxAlign, 0))}
Loose(what, bs) == {Owned(<<what, "block", b.p>>, b) : b \in bs}

Held == (IF map = 0 THEN {} ELSE MapBlocks(store.mem, map))
        \cup (IF vec = 0 THEN {} ELSE VecBlocks(store.mem, vec, Strings))
        \cup (IF buf = 0 THEN {} ELSE BufBlocks(store.mem, buf))
        \cup (IF snap = 0 THEN {} ELSE SnapBlocks(store.mem, snap))
        \cup Loose("raw", raw) \cup Loose("dropped", store.dropped)

\* What malloc and a pool have given out to the program, and where a block may
\* lie: in one of these, or in what an arena has given out.
OwnBlocks(x) ==
  (IF x.kind \in {"arena", "pool"}
   THEN {[p |-> x.h, n |-> AllocatorBytes], [p |-> x.buf, n |-> Extent(x)]} ELSE {})
  \cup (IF x.kind = "pool" THEN {[p |-> x.flags, n |-> x.count]} ELSE {})
PoolBlocks(x) == {[p |-> BlockAt(x, i), n |-> x.block] : i \in x.used}
Granted(heap, x) == (heap \ OwnBlocks(x)) \cup PoolBlocks(x)
Regions(heap, x) ==
  Granted(heap, x) \cup (IF x.kind = "arena" THEN {[p |-> x.buf, n |-> x.pos]} ELSE {})
Inside(b, r) == r.p <= b.p /\ b.p + b.n <= r.p + r.n
Apart(b, c) == b.p + b.n <= c.p \/ c.p + c.n <= b.p

-----------------------------------------------------------------------------
\* The allocator's blocks lie in the heap, and its marks within its bounds.
HeapOK(heap) ==
  /\ heap \subseteq [p : Nat \ {0}, n : Nat \ {0}]
  /\ \A b \in heap : b.p % MaxAlign = 0
  /\ \A b, c \in heap : b # c => Apart(b, c)
AllocatorOK(heap, x) ==
  /\ x \in [kind : {"none", "general", "arena", "pool"}, h : Nat, buf : Nat, cap : Nat,
            pos : Nat, block : Nat, count : Nat, flags : Nat, used : SUBSET Nat]
  /\ x.kind = "none" => x.h = 0
  /\ x.kind # "none" => x.h # 0
  /\ OwnBlocks(x) \subseteq heap
  /\ x.kind = "arena" => x.h # x.buf /\ x.pos <= x.cap
  /\ x.kind = "pool" => /\ x.h # x.buf /\ x.h # x.flags /\ x.buf # x.flags
                        /\ x.block > 0 /\ x.block % MaxAlign = 0
                        /\ x.used \subseteq 0..(x.count - 1)
  /\ x.kind # "pool" => x.used = {} /\ x.flags = 0
StoreOK(s) ==
  /\ s \in [heap : {s.heap}, limit : Nat, x : {s.x}, mem : {s.mem}, dead : BOOLEAN,
            dropped : SUBSET [p : Nat, n : Nat, al : Nat, a : {0, s.x.h}]]
  /\ HeapOK(s.heap) /\ AllocatorOK(s.heap, s.x)

\* Each entry of a map is in one bucket, which the probe for its hash reaches.
Reached(bs, n, h, e) ==
  \E i \in 0..(n - 1) : /\ bs[Probe(h, n, i)] = e
                        /\ \A j \in 0..(i - 1) : bs[Probe(h, n, j)] >= 0
Bucketed(bs, n, hs, len) ==
  /\ bs \in [0..(n - 1) -> -1..(len - 1)]
  /\ \A i, j \in 0..(n - 1) : bs[i] >= 0 /\ bs[i] = bs[j] => i = j
  /\ \A e \in 0..(len - 1) : Reached(bs, n, hs[e], e)
Hashes(mem, ks) == [e \in 0..(Len(ks) - 1) |-> KeyHash[mem[ks[e + 1]]]]

StringsOK(mem, ps, S) == \A i \in 1..Len(ps) : ps[i] \in DOMAIN mem /\ mem[ps[i]] \in S
Different(mem, ks) == \A i, j \in 1..Len(ks) : mem[ks[i]] = mem[ks[j]] => i = j

MapOK(mem, p, h) ==
  LET m == mem[p]
      ks == Contents(mem, m.keys)
      vs == Contents(mem, m.vals)
  IN  /\ m \in [keys : Nat, vals : Nat, len : Nat, cap : Nat, buckets : Nat,
                nbuckets : Nat \ {0}, a : {0, h}]
      /\ {p, m.buckets} \subseteq DOMAIN mem
      /\ IF m.cap = 0 THEN m.keys = 0 /\ m.vals = 0 ELSE {m.keys, m.vals} \subseteq DOMAIN mem
      /\ m.len <= m.cap /\ m.len * 10 <= m.nbuckets * 7
      /\ ks \in Seq(Nat) /\ Len(ks) = m.len /\ vs \in Seq(Value) /\ Len(vs) = m.len
      /\ StringsOK(mem, ks, Key) /\ Different(mem, ks)
      /\ Bucketed(mem[m.buckets], m.nbuckets, Hashes(mem, ks), m.len)

VecOK(mem, p, h, strings) ==
  LET v == mem[p]
      xs == Contents(mem, v.data)
  IN  /\ v \in [data : Nat, len : Nat, cap : Nat, a : {0, h}]
      /\ p \in DOMAIN mem
      /\ IF v.cap = 0 THEN v.data = 0 ELSE v.data \in DOMAIN mem
      /\ v.len <= v.cap
      /\ xs \in Seq(IF strings THEN Nat ELSE Value) /\ Len(xs) = v.len
      /\ strings => StringsOK(mem, xs, Value)

Text == [pieces : Seq(Piece), n : Nat]
BufOK(mem, p, h) ==
  LET b == mem[p]
  IN  /\ b \in [data : Nat, len : Nat, cap : Nat, a : {0, h}]
      /\ {p, b.data} \subseteq DOMAIN mem
      /\ mem[b.data] \in Text /\ mem[b.data].n = b.len /\ b.len < b.cap
SnapOK(mem, p) == p \in DOMAIN mem /\ mem[p] \in Text

\* The type invariant: the allocator, the containers' headers and their arrays
\* agree, a map keeps its load factor and each key's probe ends at its entry.
TypeOK ==
  /\ StoreOK(store)
  /\ map \in Nat /\ vec \in Nat /\ buf \in Nat /\ snap \in Nat
  /\ map # 0 => MapOK(store.mem, map, store.x.h)
  /\ vec # 0 => VecOK(store.mem, vec, store.x.h, Strings)
  /\ buf # 0 => BufOK(store.mem, buf, store.x.h)
  /\ snap # 0 => SnapOK(store.mem, snap)
  /\ raw \subseteq [p : Nat, n : Nat, al : Nat, a : {store.x.h}]

\* "Leak, never dangle" (runtime_aux.h:866): whatever the program can reach, a
\* string that a vec has let go included, lies in memory that is allocated to
\* it, no two such blocks share a byte, and each is aligned as it was asked for.
NeverDangles ==
  /\ \A b \in Held : \E r \in Regions(store.heap, store.x) : Inside(b, r)
  /\ \A b, c \in Held : b # c => Apart(b, c)
  /\ \A b \in Held : b.al <= MaxAlign => b.p % b.al = 0

\* A container on an allocator gives back what it outgrows: all that malloc or
\* a pool has given out is held, or is a string that a vec let go.
Accounted == \A g \in Granted(store.heap, store.x) : \E b \in Held : b.p = g.p

\* The containers as their users see them: the map through tiq_map_get and the
\* order of its entries.
Header == store.mem[map]
Order == [i \in 1..(IF map = 0 THEN 0 ELSE Header.len) |-> KeyOf(store.mem, Header, i - 1)]
Values == [k \in Key |-> IF map = 0 THEN -1 ELSE Get(store.mem, Header, k)]
Cells == IF vec = 0 THEN <<>> ELSE Contents(store.mem, store.mem[vec].data)
Elements == IF Strings THEN [i \in DOMAIN Cells |-> store.mem[Cells[i]]] ELSE Cells
Pieces == IF buf = 0 THEN <<>> ELSE store.mem[store.mem[buf].data].pieces
Copies == IF snap = 0 THEN <<>> ELSE <<store.mem[snap].pieces>>
C == INSTANCE Collections WITH
       order <- Order, value <- Values, elems <- Elements, text <- Pieces, made <- Copies

\* The map, the vec and the builder are what docs/LANGUAGE_SPEC.md promises,
\* through every growth and with every allocator.
Implements == C!Spec
=============================================================================
