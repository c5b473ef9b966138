------------------------------ MODULE Allocator -----------------------------
(***************************************************************************)
(* The allocators of a compiled program (include/runtime_prelude.h): the    *)
(* process heap, an arena and a pool behind one handle.  A store s is       *)
(*                                                                          *)
(*   heap, limit   the blocks malloc has given out and not taken back, and   *)
(*                 where it gives up; it reuses the lowest address it can,   *)
(*                 so that a stale pointer soon meets another block          *)
(*   x             the allocator behind the handle                           *)
(*   mem           what has been written, by the address of its block        *)
(*   dead          the process has ended with exit(1)                        *)
(*   dropped       blocks whose last reference the code has let go           *)
(*                                                                          *)
(* An operator that allocates returns [s, p]: the store and the address, 0   *)
(* if there is no room.                                                      *)
(***************************************************************************)
EXTENDS Integers, FiniteSets

CONSTANTS SizeMax,     \* SIZE_MAX, one less than a power of two
          MaxAlign     \* _Alignof(max_align_t)

ASSUME AllocatorAssumption == SizeMax \in Nat /\ MaxAlign \in {8, 16}

AllocatorBytes == 56   \* sizeof(TiqAllocator)
StaticHandle == 16     \* the address of the general allocator

Pow2[k \in Nat] == IF k = 0 THEN 1 ELSE 2 * Pow2[k - 1]
MaxPower == 20         \* a bound: no alignment of more than 2^20 is asked for
PowerOfTwo(a) == \E k \in 0..MaxPower : a = Pow2[k]              \* tiq_aa

Wrap(n) == n % (SizeMax + 1)
AlignUp(n, a) == LET t == Wrap(n + a - 1) IN t - (t % a)
Least(S) == CHOOSE n \in S : \A k \in S : n <= k
NoRoom(s) == [s |-> s, p |-> 0]

NoAllocator == [kind |-> "none", h |-> 0, buf |-> 0, cap |-> 0, pos |-> 0,
                block |-> 0, count |-> 0, flags |-> 0, used |-> {}]
General == [NoAllocator EXCEPT !.kind = "general", !.h = StaticHandle]

\* The bytes of an allocator's buffer, and the i-th block of a pool.
Extent(x) == IF x.kind = "pool" THEN x.block * x.count ELSE x.cap
BlockAt(x, i) == x.buf + i * x.block

-----------------------------------------------------------------------------
\* malloc and free of the C library.
HeapStart == 4 * MaxAlign
Beyond(b) == ((b.p + b.n + MaxAlign - 1) \div MaxAlign) * MaxAlign
Places(s, n) == {p \in {HeapStart} \cup {Beyond(b) : b \in s.heap} :
                   /\ p + n <= s.limit
                   /\ \A b \in s.heap : p + n <= b.p \/ b.p + b.n <= p}
Malloc(s, n) ==
  LET p == Least(Places(s, n))
  IN  IF Places(s, n) = {} THEN NoRoom(s)
      ELSE [s |-> [s EXCEPT !.heap = @ \cup {[p |-> p, n |-> n]}], p |-> p]
Release(s, ps) == [s EXCEPT !.heap = {b \in @ : b.p \notin ps}]

\* tiq_arena_create and tiq_pool_create; what was obtained is given back when
\* a part is missing.
ArenaCreate(s, c) ==
  LET a == Malloc(s, AllocatorBytes)
      b == Malloc(a.s, c)
  IN  IF c = 0 \/ a.p = 0 THEN s
      ELSE IF b.p = 0 THEN Release(a.s, {a.p})
      ELSE [b.s EXCEPT !.x = [NoAllocator EXCEPT !.kind = "arena", !.h = a.p,
                                                 !.buf = b.p, !.cap = c]]

PoolRefused(b, c) == b = 0 \/ c = 0 \/ b % MaxAlign # 0 \/ c > SizeMax \div b

PoolCreate(s, b, c) ==
  LET a == Malloc(s, AllocatorBytes)
      m == Malloc(a.s, Wrap(b * c))
      u == Malloc(m.s, c)
  IN  IF PoolRefused(b, c) \/ a.p = 0 THEN s
      ELSE IF 0 \in {m.p, u.p} THEN Release(u.s, {a.p, m.p, u.p})
      ELSE [u.s EXCEPT !.x = [NoAllocator EXCEPT !.kind = "pool", !.h = a.p, !.buf = m.p,
                                !.block = b, !.count = c, !.flags = u.p]]

-----------------------------------------------------------------------------
\* tiq_allocator_alloc
ArenaAllocUnaligned(s, n, al) ==    \* mutation: the test looks at the old position
  LET x == s.x
      p == AlignUp(x.pos, al)
  IN  IF n > x.cap - x.pos THEN NoRoom(s)
      ELSE [s |-> [s EXCEPT !.x = [x EXCEPT !.pos = p + n]], p |-> x.buf + p]
ArenaAlloc(s, n, al) ==
  LET x == s.x
      p == AlignUp(x.pos, al)
  IN  IF x.pos > SizeMax - (al - 1) \/ p > x.cap \/ n > x.cap - p THEN NoRoom(s)
      ELSE [s |-> [s EXCEPT !.x = [x EXCEPT !.pos = p + n]], p |-> x.buf + p]

PoolAlloc(s, n, al) ==
  LET x == s.x
      free == (0..(x.count - 1)) \ x.used
      i == Least(free)
  IN  IF n > x.block \/ al > MaxAlign \/ free = {} THEN NoRoom(s)
      ELSE [s |-> [s EXCEPT !.x = [x EXCEPT !.used = @ \cup {i}]], p |-> BlockAt(x, i)]

AllocatorAlloc(s, n, al) ==
  IF n = 0 \/ ~PowerOfTwo(al) THEN NoRoom(s)
  ELSE CASE s.x.kind = "general" -> IF al <= MaxAlign THEN Malloc(s, n) ELSE NoRoom(s)
         [] s.x.kind = "arena" -> ArenaAlloc(s, n, al)
         [] s.x.kind = "pool" -> PoolAlloc(s, n, al)
         [] OTHER -> NoRoom(s)

\* tiq_allocator_dealloc; an address that is not a block in use is answered -1
\* and changes nothing.
PoolDealloc(s, p) ==
  LET x == s.x
  IN  [s EXCEPT !.x = [x EXCEPT !.used = {i \in @ : BlockAt(x, i) # p}]]

AllocatorDealloc(s, p) ==
  CASE s.x.kind = "general" -> Release(s, {p})
    [] s.x.kind = "pool" -> PoolDealloc(s, p)
    [] OTHER -> s

AllocatorReset(s) == [s EXCEPT !.x = [@ EXCEPT !.pos = 0, !.used = {}]]
AllocatorDestroy(s) ==
  [Release(s, {s.x.flags, s.x.buf, s.x.h}) EXCEPT !.x = NoAllocator]
=============================================================================
