-------------------------- MODULE ContainersProofs --------------------------
(***************************************************************************)
(* Theorems about module Containers: type correctness, that nothing          *)
(* dangles, that nothing leaks, and the refinement of module Collections,    *)
(* for any keys, values, hashes, sizes, capacities and requests.             *)
(*                                                                          *)
(* The proof goes bottom up.  A set H of held blocks is Sound in a heap with *)
(* an allocator: each lies at a home of its own and whatever was given out   *)
(* is the home of one.  malloc, the arena and the pool keep a store sound.   *)
(* Kept says this of a store, the blocks it let go included.  Each operation *)
(* on a container works on Kept(s, its blocks and the others F): it leaves   *)
(* the container well formed and writes at no address of F, so F stays.      *)
(* Fine, the inductive invariant, says it of all the containers at once.     *)
(***************************************************************************)
EXTENDS Containers, FiniteSetTheorems, WellFoundedInduction, SequenceTheorems, TLAPS

-----------------------------------------------------------------------------
\* Numbers: least elements, functions computed step by step, powers of two,
\* alignment.

\* Every nonempty set of naturals has a least element, the one Least picks.
LEMMA LeastNat ==
  ASSUME NEW S \in SUBSET Nat, S # {}
  PROVE  Least(S) \in S /\ \A k \in S : Least(S) <= k
<1>1. PICK n \in S : \A k \in S : <<k, n>> \notin OpToRel(<, Nat)
  BY NatLessThanWellFounded, WFMin, Zenon
<1>2. \A k \in S : ~(k < n)
  BY <1>1, Zenon DEF OpToRel
<1>3. \A k \in S : n <= k
  BY <1>2
<1> QED
  BY <1>3 DEF Least

\* f is the result of n steps of G from z.
Steps(G, T) == G \in [Nat -> [T -> T]]
Iterates(f, n, z, G) ==
  /\ DOMAIN f = 0..n /\ f[0] = z
  /\ \A i \in 1..n : f[i] = G[i][f[i - 1]]

\* The values that G computes step by step from z make up a function.
LEMMA Iteration ==
  ASSUME NEW T, NEW z \in T, NEW G, Steps(G, T), NEW n \in Nat
  PROVE  \E f \in [0..n -> T] : Iterates(f, n, z, G)
<1> DEFINE P(k) == \E f \in [0..k -> T] : Iterates(f, k, z, G)
           Bad == {k \in Nat : ~P(k)}
<1>1. SUFFICES ASSUME Bad # {} PROVE FALSE
  OBVIOUS
<1>2. P(0)
  <2> DEFINE f == [i \in 0..0 |-> z]
  <2>1. f \in [0..0 -> T] /\ f[0] = z /\ DOMAIN f = 0..0 /\ 1..0 = {}
    OBVIOUS
  <2> HIDE DEF f
  <2> QED
    BY <2>1 DEF Iterates
<1>3. PICK m \in Nat : ~P(m) /\ \A k \in Nat : ~P(k) => m <= k
  <2> HIDE DEF P
  <2> QED
    BY <1>1, LeastNat
<1>4. m - 1 \in Nat /\ P(m - 1)
  <2> HIDE DEF P
  <2> QED
    BY <1>2, <1>3
<1>5. PICK f \in [0..(m - 1) -> T] : Iterates(f, m - 1, z, G)
  BY <1>4
<1> DEFINE g == [i \in 0..m |-> IF i = m THEN G[m][f[m - 1]] ELSE f[i]]
<1>6. f[m - 1] \in T /\ G[m][f[m - 1]] \in T
  BY <1>4, <1>5 DEF Steps
<1>7. g \in [0..m -> T] /\ g[m] = G[m][f[m - 1]] /\ \A i \in 0..(m - 1) : g[i] = f[i]
  BY <1>4, <1>5, <1>6
<1>8. DOMAIN g = 0..m
  OBVIOUS
<1> HIDE DEF g
<1>9. ASSUME NEW i \in 1..m PROVE g[i] = G[i][g[i - 1]]
  <2>1. CASE i = m
    BY <2>1, <1>4, <1>7
  <2>2. CASE i # m
    BY <2>2, <1>4, <1>5, <1>7 DEF Iterates
  <2> QED
    BY <2>1, <2>2
<1>10. g[0] = z
  BY <1>4, <1>5, <1>7 DEF Iterates
<1>11. P(m)
  BY <1>7, <1>8, <1>9, <1>10 DEF Iterates
<1> QED
  BY <1>3, <1>11

\* They are the same for every number of steps.
LEMMA IterationUnique ==
  ASSUME NEW z, NEW G, NEW m \in Nat, NEW n \in Nat, m <= n,
         NEW f, NEW g, Iterates(f, m, z, G), Iterates(g, n, z, G), NEW i \in 0..m
  PROVE  f[i] = g[i]
<1> DEFINE Bad == {k \in 0..m : f[k] # g[k]}
<1>1. SUFFICES ASSUME Bad # {} PROVE FALSE
  OBVIOUS
<1>2. Bad \in SUBSET Nat
  OBVIOUS
<1>3. PICK k \in Bad : \A j \in Bad : k <= j
  <2> HIDE DEF Bad
  <2> QED
    BY <1>1, <1>2, LeastNat
<1>4. CASE k = 0
  BY <1>3, <1>4 DEF Iterates
<1>5. CASE k # 0
  <2>1. k - 1 \in 0..m /\ k - 1 \notin Bad /\ k \in 1..m /\ k \in 1..n
    BY <1>3, <1>5
  <2>2. f[k - 1] = g[k - 1]
    BY <2>1
  <2> QED
    BY <2>1, <2>2 DEF Iterates
<1> QED
  BY <1>4, <1>5

\* The recursive function of the powers of two is a function.
LEMMA Pow2Def ==
  Pow2 = [n \in Nat |-> IF n = 0 THEN 1 ELSE 2 * Pow2[n - 1]]
<1> DEFINE G == [i \in Nat |-> [k \in Nat |-> 2 * k]]
           F == [n \in Nat |-> CHOOSE f \in [0..n -> Nat] : Iterates(f, n, 1, G)]
           pow == [n \in Nat |-> F[n][n]]
<1>1. Steps(G, Nat)
  BY DEF Steps
<1> HIDE DEF G
<1>2. ASSUME NEW n \in Nat PROVE F[n] \in [0..n -> Nat] /\ Iterates(F[n], n, 1, G)
  BY <1>1, Iteration
<1> HIDE DEF F
<1>3. ASSUME NEW n \in Nat PROVE pow[n] = IF n = 0 THEN 1 ELSE 2 * pow[n - 1]
  <2>1. CASE n = 0
    BY <2>1, <1>2 DEF Iterates
  <2>2. CASE n # 0
    <3>1. n - 1 \in Nat /\ n - 1 \in 0..(n - 1) /\ n \in 1..n
      BY <2>2
    <3>2. F[n - 1][n - 1] = F[n][n - 1]
      BY <3>1, <1>2, IterationUnique
    <3>3. F[n][n] = G[n][F[n][n - 1]]
      BY <3>1, <1>2 DEF Iterates
    <3>4. F[n - 1][n - 1] \in Nat
      BY <3>1, <1>2
    <3>5. G[n][F[n][n - 1]] = 2 * F[n][n - 1]
      BY <3>2, <3>4 DEF G
    <3> QED
      BY <3>1, <3>2, <3>3, <3>5, <2>2
  <2> QED
    BY <2>1, <2>2
<1>4. pow = [n \in Nat |-> IF n = 0 THEN 1 ELSE 2 * pow[n - 1]]
  BY <1>3
<1> HIDE DEF pow
<1> QED
  BY <1>4, Zenon DEF Pow2

\* The powers of two are naturals that double from 1 on.
LEMMA Pow2Values ==
  /\ \A n \in Nat : Pow2[n] \in Nat /\ Pow2[n] >= n + 1 /\ Pow2[n + 1] = 2 * Pow2[n]
  /\ Pow2[0] = 1
<1>1. \A n \in Nat : Pow2[n] = IF n = 0 THEN 1 ELSE 2 * Pow2[n - 1]
  BY Pow2Def
<1> DEFINE Bad == {n \in Nat : ~(Pow2[n] \in Nat /\ Pow2[n] >= n + 1)}
<1>2. ASSUME Bad # {} PROVE FALSE
  <2>1. PICK n \in Bad : \A k \in Bad : n <= k
    BY <1>2, LeastNat
  <2>2. n # 0 /\ n \in Nat
    BY <2>1, <1>1
  <2>3. n - 1 \in Nat /\ n - 1 \notin Bad
    BY <2>1, <2>2
  <2>4. Pow2[n] = 2 * Pow2[n - 1] /\ Pow2[n - 1] \in Nat /\ Pow2[n - 1] >= n
    BY <2>2, <2>3, <1>1
  <2> QED
    BY <2>1, <2>2, <2>4
<1>3. ASSUME NEW n \in Nat PROVE Pow2[n + 1] = 2 * Pow2[n]
  BY <1>1
<1> QED
  BY <1>1, <1>2, <1>3

\* An alignment malloc can give divides its own.
LEMMA AlignDivides ==
  ASSUME NEW al \in Nat, PowerOfTwo(al), al <= MaxAlign
  PROVE  al \in {1, 2, 4, 8, 16} /\ al > 0
<1>1. PICK k \in 0..MaxPower : al = Pow2[k]
  BY DEF PowerOfTwo
<1>2. Pow2[0] = 1 /\ Pow2[1] = 2 /\ Pow2[2] = 4 /\ Pow2[3] = 8 /\ Pow2[4] = 16 /\ Pow2[5] = 32
  <2>1. Pow2[0] = 1 /\ Pow2[0 + 1] = 2 * Pow2[0] /\ Pow2[1 + 1] = 2 * Pow2[1] /\ Pow2[2 + 1] = 2 * Pow2[2]
        /\ Pow2[3 + 1] = 2 * Pow2[3] /\ Pow2[4 + 1] = 2 * Pow2[4]
    BY Pow2Values
  <2> QED
    BY <2>1
<1>3. k \in 0..15
  BY <1>1, Pow2Values, AllocatorAssumption DEF MaxPower
<1>4. \A n \in 5..15 : Pow2[n] >= 17
  <2>1. Pow2[5 + 1] = 2 * Pow2[5] /\ Pow2[6 + 1] = 2 * Pow2[6] /\ Pow2[7 + 1] = 2 * Pow2[7]
        /\ Pow2[8 + 1] = 2 * Pow2[8] /\ Pow2[9 + 1] = 2 * Pow2[9] /\ Pow2[10 + 1] = 2 * Pow2[10]
        /\ Pow2[11 + 1] = 2 * Pow2[11] /\ Pow2[12 + 1] = 2 * Pow2[12] /\ Pow2[13 + 1] = 2 * Pow2[13]
        /\ Pow2[14 + 1] = 2 * Pow2[14]
    BY Pow2Values
  <2> QED
    BY <2>1, <1>2
<1>5. k \in 0..4
  BY <1>1, <1>3, <1>4, AllocatorAssumption
<1> QED
  BY <1>1, <1>2, <1>5

\* Products, for the blocks of a pool.
LEMMA Products ==
  ASSUME NEW i \in Nat, NEW j \in Nat, NEW b \in Nat
  PROVE  /\ i * b \in Nat
         /\ i < j => i * b + b <= j * b
<1>1. i * b \in Nat /\ j * b \in Nat
  OBVIOUS
<1>2. ASSUME i < j PROVE i * b + b <= j * b
  <2>1. j - i - 1 \in Nat
    BY <1>2
  <2>2. (j - i - 1) * b \in Nat
    BY <2>1
  <2>3. j * b = i * b + b + (j - i - 1) * b
    BY <2>1
  <2> QED
    BY <1>1, <2>2, <2>3
<1> QED
  BY <1>1, <1>2

\* A multiple of an aligned size is aligned.
LEMMA MultiplesAligned ==
  ASSUME NEW i \in Nat, NEW b \in Nat, b % MaxAlign = 0
  PROVE  (i * b) % MaxAlign = 0
<1>1. CASE MaxAlign = 8
  <2>1. PICK c \in Nat : b = 8 * c
    BY <1>1
  <2>2. PICK e \in Nat : i * b = 8 * e
    <3>1. i * b = 8 * (i * c) /\ i * c \in Nat
      BY <2>1
    <3> QED
      BY <3>1
  <2>3. (8 * e) % 8 = 0
    OBVIOUS
  <2> QED
    BY <2>2, <2>3, <1>1, Zenon
<1>2. CASE MaxAlign = 16
  <2>1. PICK c \in Nat : b = 16 * c
    BY <1>2
  <2>2. PICK e \in Nat : i * b = 16 * e
    <3>1. i * b = 16 * (i * c) /\ i * c \in Nat
      BY <2>1
    <3> QED
      BY <3>1
  <2>3. (16 * e) % 16 = 0
    OBVIOUS
  <2> QED
    BY <2>2, <2>3, <1>2, Zenon
<1> QED
  BY <1>1, <1>2, AllocatorAssumption

\* The guard of tiq_pool_create: a product that fits does not wrap.
LEMMA Quotients ==
  ASSUME NEW b \in Nat \ {0}, NEW c \in Nat, c <= SizeMax \div b
  PROVE  b * c \in Nat /\ b * c <= SizeMax /\ Wrap(b * c) = b * c
<1> DEFINE q == SizeMax \div b
<1>1. q \in Nat /\ b * q <= SizeMax
  BY AllocatorAssumption
<1> HIDE DEF q
<1>2. PICK d \in Nat : q = c + d
  <2>1. q - c \in Nat /\ q = c + (q - c)
    BY <1>1 DEF q
  <2> QED
    BY <2>1
<1>3. b * q = b * c + b * d /\ b * d \in Nat /\ b * c \in Nat
  BY <1>2
<1>4. b * c <= SizeMax
  BY <1>1, <1>3, AllocatorAssumption
<1> QED
  BY <1>3, <1>4, AllocatorAssumption DEF Wrap

-----------------------------------------------------------------------------
\* A store's fields, malloc and free.

\* A store of which only the fields' names and limit are known.
IsStore(s) == s \in [heap : {s.heap}, limit : Nat, x : {s.x}, mem : {s.mem},
                     dead : BOOLEAN, dropped : {s.dropped}]

\* t differs from s in the field it is named for only.
OnlyHeap(s, t) == /\ IsStore(t) /\ t.limit = s.limit /\ t.x = s.x /\ t.mem = s.mem
                  /\ t.dead = s.dead /\ t.dropped = s.dropped
OnlyHeapX(s, t) == /\ IsStore(t) /\ t.limit = s.limit /\ t.mem = s.mem
                   /\ t.dead = s.dead /\ t.dropped = s.dropped

\* malloc adds its block to the heap and changes nothing else.
LEMMA MallocFields ==
  ASSUME NEW s, IsStore(s), NEW n
  PROVE  LET r == Malloc(s, n)
         IN  IF r.p = 0 THEN TRUE ELSE OnlyHeap(s, r.s) /\ r.s.heap = s.heap \cup {[p |-> r.p, n |-> n]}
  BY DEF IsStore, OnlyHeap, Malloc, NoRoom

\* free takes blocks out of the heap and changes nothing else.
LEMMA ReleaseFields ==
  ASSUME NEW s, IsStore(s), NEW ps
  PROVE  OnlyHeap(s, Release(s, ps)) /\ Release(s, ps).heap = {b \in s.heap : b.p \notin ps}
  BY DEF IsStore, OnlyHeap, Release

\* The address that malloc answers is aligned and meets no block.
LEMMA MallocPlace ==
  ASSUME NEW s, HeapOK(s.heap), NEW n \in Nat \ {0}, Malloc(s, n).p # 0
  PROVE  LET p == Malloc(s, n).p
         IN  /\ p \in Nat \ {0} /\ p % MaxAlign = 0
             /\ \A b \in s.heap : p + n <= b.p \/ b.p + b.n <= p
<1> DEFINE S == {HeapStart} \cup {Beyond(b) : b \in s.heap}
<1>1. \A p \in S : p \in Nat \ {0} /\ p % MaxAlign = 0
  <2>1. HeapStart \in Nat \ {0} /\ HeapStart % MaxAlign = 0
    BY AllocatorAssumption DEF HeapStart
  <2>2. ASSUME NEW b \in s.heap PROVE Beyond(b) \in Nat \ {0} /\ Beyond(b) % MaxAlign = 0
    <3>1. b.p \in Nat \ {0} /\ b.n \in Nat \ {0}
      BY DEF HeapOK
    <3> QED
      BY <3>1, AllocatorAssumption DEF Beyond
  <2> QED
    BY <2>1, <2>2
<1>2. Places(s, n) # {} /\ Malloc(s, n).p = Least(Places(s, n))
  BY DEF Malloc, NoRoom
<1>3. Places(s, n) \in SUBSET S
  BY DEF Places
<1>4. Places(s, n) \in SUBSET Nat
  BY <1>1, <1>3
<1>5. Least(Places(s, n)) \in Places(s, n)
  BY <1>2, <1>4, LeastNat
<1> HIDE DEF S
<1>6. \A b \in s.heap : Least(Places(s, n)) + n <= b.p \/ b.p + b.n <= Least(Places(s, n))
  BY <1>5 DEF Places
<1> QED
  BY <1>1, <1>2, <1>3, <1>5, <1>6

-----------------------------------------------------------------------------
\* What is held: homes of blocks, and one block more on the process heap.

\* Where a held block is: on the heap outside the allocator's own blocks, in what
\* the arena has given out, or in one of the pool's used blocks.
OnHeap(x, b) == b.a = 0 \/ x.kind = "general"
HeapHome(heap, x, b) == \E g \in heap \ OwnBlocks(x) : g.p = b.p /\ b.n <= g.n
ArenaHome(x, b) == x.buf <= b.p /\ b.p + b.n <= x.buf + x.pos
PoolHome(x, b) == \E i \in x.used : b.p = BlockAt(x, i) /\ b.n <= x.block
Sized(x, b) == /\ b.p \in Nat \ {0} /\ b.n \in Nat \ {0} /\ b.al \in Nat /\ b.a \in {0, x.h}
               /\ b.al <= MaxAlign => b.p % b.al = 0
Home(heap, x, b) ==
  /\ Sized(x, b)
  /\ OnHeap(x, b) => HeapHome(heap, x, b)
  /\ ~OnHeap(x, b) /\ x.kind = "arena" => ArenaHome(x, b)
  /\ ~OnHeap(x, b) /\ x.kind = "pool" => PoolHome(x, b)
Homes(heap, x, H) == \A b \in H : Home(heap, x, b)
Disjoint(H) == \A b, c \in H : b # c => Apart(b, c)
Covered(heap, x, H) == \A g \in Granted(heap, x) : \E b \in H : b.p = g.p
Sound(heap, x, H) == /\ HeapOK(heap) /\ AllocatorOK(heap, x)
                     /\ Homes(heap, x, H) /\ Disjoint(H) /\ Covered(heap, x, H)

\* The numbers of an allocator, and its buffer.
LEMMA OwnNumbers ==
  ASSUME NEW heap, NEW x, AllocatorOK(heap, x)
  PROVE  /\ x.h \in Nat /\ x.buf \in Nat /\ x.cap \in Nat /\ x.pos \in Nat /\ x.block \in Nat
         /\ x.count \in Nat /\ x.flags \in Nat /\ x.used \in SUBSET Nat /\ Extent(x) \in Nat
         /\ x.kind \in {"none", "general", "arena", "pool"} /\ (x.kind = "none" <=> x.h = 0)
<1>1. /\ x.h \in Nat /\ x.buf \in Nat /\ x.cap \in Nat /\ x.pos \in Nat /\ x.block \in Nat
      /\ x.count \in Nat /\ x.flags \in Nat /\ x.used \in SUBSET Nat
      /\ x.kind \in {"none", "general", "arena", "pool"} /\ (x.kind = "none" <=> x.h = 0)
  BY DEF AllocatorOK
<1>2. x.block * x.count \in Nat
  BY <1>1
<1> QED
  BY <1>1, <1>2 DEF Extent

\* The buffer of an arena or a pool is a block of the heap, and the allocator's own.
LEMMA OwnBuffer ==
  ASSUME NEW heap, NEW x, HeapOK(heap), AllocatorOK(heap, x), x.kind \in {"arena", "pool"}
  PROVE  /\ [p |-> x.buf, n |-> Extent(x)] \in heap
         /\ [p |-> x.buf, n |-> Extent(x)] \in OwnBlocks(x)
         /\ x.buf > 0 /\ x.buf % MaxAlign = 0
<1> DEFINE g == [p |-> x.buf, n |-> Extent(x)]
<1>1. g \in OwnBlocks(x)
  BY DEF OwnBlocks
<1>2. g \in heap
  BY <1>1 DEF AllocatorOK
<1>3. g.p % MaxAlign = 0 /\ g.p \in Nat \ {0}
  <2> HIDE DEF g
  <2> QED
    BY <1>2 DEF HeapOK
<1> QED
  BY <1>1, <1>2, <1>3

\* A pool's blocks lie in its buffer, are aligned and do not overlap.
LEMMA PoolRange ==
  ASSUME NEW heap, NEW x, HeapOK(heap), AllocatorOK(heap, x), x.kind = "pool",
         NEW i \in 0..(x.count - 1)
  PROVE  /\ BlockAt(x, i) \in Nat \ {0} /\ x.buf <= BlockAt(x, i)
         /\ BlockAt(x, i) + x.block <= x.buf + Extent(x)
         /\ BlockAt(x, i) % MaxAlign = 0
<1>1. x.block \in Nat /\ x.count \in Nat /\ x.buf \in Nat /\ x.buf > 0
  BY OwnNumbers, OwnBuffer
<1>2. i \in Nat /\ i < x.count
  BY <1>1
<1>3. i * x.block \in Nat /\ i * x.block + x.block <= x.count * x.block
  BY <1>1, <1>2, Products
<1>4. x.count * x.block = x.block * x.count
  BY <1>1
<1>5. x.block % MaxAlign = 0
  BY DEF AllocatorOK
<1>6. (i * x.block) % MaxAlign = 0
  BY <1>1, <1>2, <1>5, MultiplesAligned
<1>7. PICK d \in Nat : d = i * x.block /\ d % MaxAlign = 0
  BY <1>3, <1>6
<1>8. x.buf % MaxAlign = 0
  BY OwnBuffer
<1>9. BlockAt(x, i) = x.buf + d
  BY <1>7 DEF BlockAt
<1>10. BlockAt(x, i) % MaxAlign = 0
  BY <1>1, <1>7, <1>8, <1>9, AllocatorAssumption
<1>11. PICK e \in Nat : e = Extent(x) /\ d + x.block <= e
  BY <1>3, <1>4, <1>7, OwnNumbers DEF Extent
<1> QED
  BY <1>1, <1>7, <1>9, <1>10, <1>11

\* The blocks of a pool do not overlap.
LEMMA PoolApart ==
  ASSUME NEW x, x.block \in Nat, x.buf \in Nat, NEW i \in Nat, NEW j \in Nat, i # j
  PROVE  \/ BlockAt(x, i) + x.block <= BlockAt(x, j)
         \/ BlockAt(x, j) + x.block <= BlockAt(x, i)
<1>1. \/ i * x.block + x.block <= j * x.block
      \/ j * x.block + x.block <= i * x.block
  BY Products
<1>2. PICK d \in Nat, e \in Nat : d = i * x.block /\ e = j * x.block
  BY Products
<1>3. BlockAt(x, i) = x.buf + d /\ BlockAt(x, j) = x.buf + e
  BY <1>2 DEF BlockAt
<1> QED
  BY <1>1, <1>2, <1>3

\* Every held block lies in a block of the heap: the allocator's buffer if it
\* came from an arena or a pool, and else one that is not the allocator's own.
LEMMA HomeInHeap ==
  ASSUME NEW heap, NEW x, HeapOK(heap), AllocatorOK(heap, x), NEW b, Home(heap, x, b)
  PROVE  \E g \in heap : /\ Inside(b, g)
                         /\ OnHeap(x, b) => g \notin OwnBlocks(x) /\ g.p = b.p
                         /\ ~OnHeap(x, b) => g \in OwnBlocks(x) /\ g.p = x.buf
<1>1. b.p \in Nat \ {0} /\ b.n \in Nat \ {0}
  BY DEF Home, Sized
<1> DEFINE o == [p |-> x.buf, n |-> Extent(x)]
<1>2. o.p = x.buf /\ o.n = Extent(x)
  OBVIOUS
<1>3. x.kind \in {"arena", "pool"} => o \in heap /\ o \in OwnBlocks(x)
  BY OwnBuffer
<1> HIDE DEF o
<1>4. x.buf \in Nat /\ Extent(x) \in Nat /\ x.pos \in Nat /\ x.cap \in Nat /\ x.count \in Nat /\ x.block \in Nat
  BY OwnNumbers
<1>5. CASE OnHeap(x, b)
  <2>1. PICK g \in heap \ OwnBlocks(x) : g.p = b.p /\ b.n <= g.n
    BY <1>5 DEF Home, HeapHome
  <2>2. g.n \in Nat /\ g.p \in Nat
    BY DEF HeapOK
  <2> QED
    BY <1>1, <1>5, <2>1, <2>2 DEF Inside
<1>6. CASE ~OnHeap(x, b) /\ x.kind = "arena"
  <2>1. ArenaHome(x, b) /\ x.pos <= x.cap /\ Extent(x) = x.cap
    BY <1>6 DEF Home, AllocatorOK, Extent
  <2>2. Inside(b, o)
    BY <1>1, <1>2, <1>4, <2>1 DEF ArenaHome, Inside
  <2> QED
    BY <1>6, <1>2, <1>3, <2>2
<1>7. CASE ~OnHeap(x, b) /\ x.kind = "pool"
  <2>1. PoolHome(x, b) /\ x.used \subseteq 0..(x.count - 1)
    BY <1>7 DEF Home, AllocatorOK
  <2>2. PICK i \in x.used : b.p = BlockAt(x, i) /\ b.n <= x.block
    BY <2>1 DEF PoolHome
  <2>3. x.buf <= BlockAt(x, i) /\ BlockAt(x, i) + x.block <= x.buf + Extent(x)
    BY <1>7, <2>1, PoolRange
  <2>4. Inside(b, o)
    BY <1>1, <1>2, <1>4, <2>2, <2>3 DEF Inside
  <2> QED
    BY <1>7, <1>2, <1>3, <2>4
<1>8. x.kind = "none" => OnHeap(x, b)
  BY OwnNumbers DEF Home, Sized, OnHeap
<1> QED
  BY <1>5, <1>6, <1>7, <1>8, OwnNumbers DEF OnHeap

-----------------------------------------------------------------------------
\* The arena and the pool give out a block.

\* A block of the heap is met by none that lies in another.
LEMMA InsideApart ==
  ASSUME NEW heap, HeapOK(heap), NEW g \in heap, NEW k \in heap, g # k,
         NEW b, NEW c, b.p \in Nat, b.n \in Nat, c.p \in Nat, c.n \in Nat, Inside(b, g), Inside(c, k)
  PROVE  Apart(b, c)
<1>1. g.p \in Nat /\ g.n \in Nat /\ k.p \in Nat /\ k.n \in Nat /\ Apart(g, k)
  BY DEF HeapOK
<1> QED
  BY <1>1 DEF Inside, Apart

\* One block more of the process heap.
LEMMA AcquireHeap ==
  ASSUME NEW heap, NEW x, NEW H, Sound(heap, x, H),
         NEW g, g \in [p : Nat \ {0}, n : Nat \ {0}], g.p % MaxAlign = 0,
         \A k \in heap : Apart(g, k),
         NEW b, b.p = g.p, b.n = g.n, b.a \in {0, x.h}, OnHeap(x, b),
         b.al \in {1, 2, 4, 8, 16}, b.al <= MaxAlign
  PROVE  Sound(heap \cup {g}, x, H \cup {b}) /\ \A c \in H : Apart(c, b)
<1>1. HeapOK(heap) /\ AllocatorOK(heap, x) /\ Homes(heap, x, H) /\ Disjoint(H) /\ Covered(heap, x, H)
  BY DEF Sound
<1>2. g.p \in Nat \ {0} /\ g.n \in Nat \ {0}
  OBVIOUS
<1>3. g \notin heap
  BY <1>2 DEF Apart
<1>4. HeapOK(heap \cup {g})
  <2>1. \A c, k \in heap \cup {g} : c # k => Apart(c, k)
    <3>1. \A k \in heap : k.p \in Nat /\ k.n \in Nat
      BY <1>1 DEF HeapOK
    <3> QED
      BY <1>1, <1>2, <3>1 DEF HeapOK, Apart
  <2> QED
    BY <1>1, <2>1 DEF HeapOK
<1>5. AllocatorOK(heap \cup {g}, x)
  BY <1>1 DEF AllocatorOK
<1>6. g \notin OwnBlocks(x)
  BY <1>1, <1>3 DEF AllocatorOK
<1>7. ASSUME NEW c \in H PROVE Home(heap \cup {g}, x, c)
  BY <1>1, <1>3 DEF Homes, Home, HeapHome
<1>8. Home(heap \cup {g}, x, b)
  <2>1. b.p % b.al = 0
    BY <1>2, AllocatorAssumption
  <2>2. HeapHome(heap \cup {g}, x, b)
    BY <1>2, <1>6 DEF HeapHome
  <2> QED
    BY <1>2, <2>1, <2>2 DEF Home, Sized
<1>9. ASSUME NEW c \in H PROVE Apart(c, b)
  <2>1. Home(heap, x, c)
    BY <1>1 DEF Homes
  <2>2. PICK k \in heap : Inside(c, k)
    BY <1>1, <2>1, HomeInHeap
  <2>3. Apart(g, k) /\ k.p \in Nat /\ k.n \in Nat /\ c.p \in Nat /\ c.n \in Nat
    BY <1>1, <2>1 DEF HeapOK, Home, Sized
  <2> QED
    BY <1>2, <2>2, <2>3 DEF Inside, Apart
<1>10. Disjoint(H \cup {b})
  <2>1. \A c \in H : c.p \in Nat /\ c.n \in Nat
    BY <1>1 DEF Homes, Home, Sized
  <2> QED
    BY <1>1, <1>2, <1>9, <2>1 DEF Disjoint, Apart
<1>11. Covered(heap \cup {g}, x, H \cup {b})
  BY <1>1 DEF Covered, Granted
<1> QED
  BY <1>4, <1>5, <1>7, <1>8, <1>9, <1>10, <1>11 DEF Sound, Homes

\* What an arena gives out next.
LEMMA ArenaPlace ==
  ASSUME NEW heap, NEW x, AllocatorOK(heap, x), HeapOK(heap), x.kind = "arena",
         NEW al \in Nat \ {0}, PowerOfTwo(al), x.pos <= SizeMax - (al - 1)
  PROVE  /\ AlignUp(x.pos, al) \in Nat /\ x.pos <= AlignUp(x.pos, al)
         /\ al <= MaxAlign => (x.buf + AlignUp(x.pos, al)) % al = 0
<1>1. x.pos \in Nat /\ x.buf \in Nat /\ x.buf % MaxAlign = 0
  BY OwnNumbers, OwnBuffer
<1> DEFINE t == x.pos + al - 1
<1>2. t \in Nat /\ Wrap(t) = t
  BY <1>1, AllocatorAssumption DEF Wrap
<1>3. AlignUp(x.pos, al) = t - (t % al)
  BY <1>2 DEF AlignUp
<1>4. t % al \in 0..(al - 1) /\ t % al <= t
  BY <1>2
<1>5. AlignUp(x.pos, al) \in Nat /\ x.pos <= AlignUp(x.pos, al)
  BY <1>1, <1>2, <1>3, <1>4
<1>6. ASSUME al <= MaxAlign PROVE (x.buf + AlignUp(x.pos, al)) % al = 0
  <2> DEFINE u == t - (t % al)
  <2>1. u \in Nat /\ AlignUp(x.pos, al) = u
    BY <1>2, <1>3, <1>4
  <2>2. u % al = 0 /\ al \in {1, 2, 4, 8, 16} /\ (al = 16 => MaxAlign = 16)
    <3>1. al \in {1, 2, 4, 8, 16}
      BY <1>6, AlignDivides
    <3> HIDE DEF t
    <3>2. al = 1 => u % al = 0
      BY <1>2
    <3>3. al = 2 => u % al = 0
      BY <1>2
    <3>4. al = 4 => u % al = 0
      BY <1>2
    <3>5. al = 8 => u % al = 0
      BY <1>2
    <3>6. al = 16 => u % al = 0
      BY <1>2
    <3> QED
      BY <3>1, <3>2, <3>3, <3>4, <3>5, <3>6, <1>6, AllocatorAssumption
  <2> HIDE DEF u
  <2>3. (x.buf + u) % al = 0
    <3>1. x.buf % 8 = 0 /\ (al = 16 => x.buf % 16 = 0)
      BY <1>1, <2>2, AllocatorAssumption
    <3>2. al = 1 => (x.buf + u) % al = 0
      BY <1>1, <2>1
    <3>3. al = 2 => (x.buf + u) % al = 0
      BY <1>1, <2>1, <2>2, <3>1
    <3>4. al = 4 => (x.buf + u) % al = 0
      <4>1. x.buf \in Nat /\ u \in Nat /\ x.buf % 4 = 0 /\ (al = 4 => u % 4 = 0)
        BY <1>1, <2>1, <2>2, <3>1
      <4>2. \A c, d \in Nat : c % 4 = 0 /\ d % 4 = 0 => (c + d) % 4 = 0
        OBVIOUS
      <4> QED
        BY <4>1, <4>2
    <3>5. al = 8 => (x.buf + u) % al = 0
      BY <1>1, <2>1, <2>2, <3>1
    <3>6. al = 16 => (x.buf + u) % al = 0
      BY <1>1, <2>1, <2>2, <3>1
    <3> QED
      BY <2>2, <3>2, <3>3, <3>4, <3>5, <3>6
  <2> QED
    BY <2>1, <2>3
<1> QED
  BY <1>5, <1>6

\* A block that an arena gives out at p, behind its position, joins the held ones.
LEMMA AcquireArena ==
  ASSUME NEW heap, NEW x, NEW H, Sound(heap, x, H), x.kind = "arena",
         NEW p \in Nat, NEW n \in Nat \ {0}, x.pos <= p, p <= x.cap, n <= x.cap - p,
         NEW b, b.p = x.buf + p, b.n = n, b.a = x.h, b.al \in Nat,
         b.al <= MaxAlign => (x.buf + p) % b.al = 0,
         NEW y, y = [x EXCEPT !.pos = p + n]
  PROVE  Sound(heap, y, H \cup {b}) /\ \A c \in H : Apart(c, b)
<1>1. HeapOK(heap) /\ AllocatorOK(heap, x) /\ Homes(heap, x, H) /\ Disjoint(H) /\ Covered(heap, x, H)
  BY DEF Sound
<1>2. /\ x.h \in Nat /\ x.buf \in Nat /\ x.cap \in Nat /\ x.pos \in Nat /\ x.h # 0 /\ x.buf > 0
      /\ Extent(x) = x.cap /\ x.used = {}
  BY <1>1, OwnNumbers, OwnBuffer DEF Extent, AllocatorOK
<1>3. /\ y.kind = x.kind /\ y.h = x.h /\ y.buf = x.buf /\ y.cap = x.cap /\ y.pos = p + n
      /\ y.block = x.block /\ y.count = x.count /\ y.flags = x.flags /\ y.used = x.used
  BY <1>1 DEF AllocatorOK
<1>4. OwnBlocks(y) = OwnBlocks(x) /\ PoolBlocks(y) = PoolBlocks(x) /\ Granted(heap, y) = Granted(heap, x)
  BY <1>2, <1>3 DEF OwnBlocks, PoolBlocks, Extent, Granted
<1>5. AllocatorOK(heap, y)
  BY <1>1, <1>2, <1>3, <1>4 DEF AllocatorOK
<1>6. ASSUME NEW c \in H PROVE Home(heap, y, c)
  <2>1. Home(heap, x, c)
    BY <1>1 DEF Homes
  <2>2. Sized(y, c) /\ (OnHeap(y, c) <=> OnHeap(x, c))
    BY <1>3, <2>1 DEF Home, Sized, OnHeap
  <2>3. OnHeap(x, c) => HeapHome(heap, y, c)
    BY <1>4, <2>1 DEF Home, HeapHome
  <2>4. ~OnHeap(x, c) => ArenaHome(y, c)
    BY <1>2, <1>3, <2>1 DEF Home, ArenaHome, Sized
  <2> QED
    BY <1>3, <2>2, <2>3, <2>4 DEF Home
<1>7. ~OnHeap(x, b) /\ ~OnHeap(y, b)
  BY <1>2, <1>3 DEF OnHeap
<1>8. Home(heap, y, b)
  <2>1. Sized(y, b)
    BY <1>2, <1>3 DEF Sized
  <2>2. ArenaHome(y, b)
    BY <1>2, <1>3 DEF ArenaHome
  <2> QED
    BY <1>3, <1>7, <2>1, <2>2 DEF Home
<1>9. ASSUME NEW c \in H PROVE Apart(c, b)
  <2>1. Home(heap, x, c) /\ c.p \in Nat /\ c.n \in Nat
    BY <1>1 DEF Homes, Home, Sized
  <2>2. CASE OnHeap(x, c)
    <3>1. PICK k \in heap : Inside(c, k) /\ k \notin OwnBlocks(x)
      BY <1>1, <2>1, <2>2, HomeInHeap
    <3> DEFINE o == [p |-> x.buf, n |-> Extent(x)]
    <3>2. o \in heap /\ o \in OwnBlocks(x)
      BY <1>1, OwnBuffer
    <3>3. Inside(b, o)
      BY <1>2 DEF Inside
    <3> HIDE DEF o
    <3>4. b.p \in Nat /\ b.n \in Nat
      BY <1>2
    <3> QED
      BY <1>1, <2>1, <3>1, <3>2, <3>3, <3>4, InsideApart
  <2>3. CASE ~OnHeap(x, c)
    BY <1>2, <2>1, <2>3 DEF Home, ArenaHome, Apart
  <2> QED
    BY <2>2, <2>3
<1>10. Disjoint(H \cup {b})
  <2>1. \A c \in H : c.p \in Nat /\ c.n \in Nat
    BY <1>1 DEF Homes, Home, Sized
  <2>2. b.p \in Nat /\ b.n \in Nat
    BY <1>2
  <2> QED
    BY <1>1, <1>9, <2>1, <2>2 DEF Disjoint, Apart
<1>11. Covered(heap, y, H \cup {b})
  BY <1>1, <1>4 DEF Covered
<1> QED
  BY <1>1, <1>5, <1>6, <1>8, <1>9, <1>10, <1>11 DEF Sound, Homes

\* A free block of a pool joins the held ones.
LEMMA AcquirePool ==
  ASSUME NEW heap, NEW x, NEW H, Sound(heap, x, H), x.kind = "pool",
         NEW i \in (0..(x.count - 1)) \ x.used, NEW n \in Nat \ {0}, n <= x.block,
         NEW b, b.p = BlockAt(x, i), b.n = n, b.a = x.h, b.al \in {1, 2, 4, 8, 16}, b.al <= MaxAlign,
         NEW y, y = [x EXCEPT !.used = x.used \cup {i}]
  PROVE  Sound(heap, y, H \cup {b}) /\ \A c \in H : Apart(c, b)
<1>1. HeapOK(heap) /\ AllocatorOK(heap, x) /\ Homes(heap, x, H) /\ Disjoint(H) /\ Covered(heap, x, H)
  BY DEF Sound
<1>2. /\ x.h \in Nat /\ x.buf \in Nat /\ x.block \in Nat /\ x.count \in Nat /\ x.h # 0 /\ x.buf > 0
      /\ Extent(x) \in Nat /\ x.used \subseteq 0..(x.count - 1)
  BY <1>1, OwnNumbers, OwnBuffer DEF AllocatorOK
<1>3. /\ y.kind = x.kind /\ y.h = x.h /\ y.buf = x.buf /\ y.cap = x.cap /\ y.pos = x.pos
      /\ y.block = x.block /\ y.count = x.count /\ y.flags = x.flags /\ y.used = x.used \cup {i}
  BY <1>1 DEF AllocatorOK
<1>4. OwnBlocks(y) = OwnBlocks(x) /\ \A j : BlockAt(y, j) = BlockAt(x, j)
  BY <1>3 DEF OwnBlocks, Extent, BlockAt
<1>5. AllocatorOK(heap, y)
  <2>1. y.used \in SUBSET Nat /\ y.used \subseteq 0..(y.count - 1)
    BY <1>2, <1>3
  <2>2. y \in [kind : {"none", "general", "arena", "pool"}, h : Nat, buf : Nat, cap : Nat,
               pos : Nat, block : Nat, count : Nat, flags : Nat, used : SUBSET Nat]
    BY <1>1, <2>1 DEF AllocatorOK
  <2> QED
    BY <1>1, <1>3, <1>4, <2>1, <2>2 DEF AllocatorOK
<1>6. ASSUME NEW c \in H PROVE Home(heap, y, c)
  <2>1. Home(heap, x, c)
    BY <1>1 DEF Homes
  <2>2. Sized(y, c) /\ (OnHeap(y, c) <=> OnHeap(x, c))
    BY <1>3, <2>1 DEF Home, Sized, OnHeap
  <2>3. OnHeap(x, c) => HeapHome(heap, y, c)
    BY <1>4, <2>1 DEF Home, HeapHome
  <2>4. ~OnHeap(x, c) => PoolHome(y, c)
    BY <1>3, <1>4, <2>1 DEF Home, PoolHome
  <2> QED
    BY <1>3, <2>2, <2>3, <2>4 DEF Home
<1>7. ~OnHeap(x, b) /\ ~OnHeap(y, b)
  BY <1>2, <1>3 DEF OnHeap
<1>8. /\ b.p \in Nat \ {0} /\ x.buf <= b.p /\ b.p + b.n <= x.buf + Extent(x) /\ b.p % MaxAlign = 0
      /\ b.n \in Nat \ {0}
  <2>1. BlockAt(x, i) \in Nat \ {0} /\ x.buf <= BlockAt(x, i) /\ BlockAt(x, i) % MaxAlign = 0
        /\ BlockAt(x, i) + x.block <= x.buf + Extent(x)
    BY <1>1, PoolRange
  <2> QED
    BY <1>2, <2>1
<1>9. Home(heap, y, b)
  <2>1. b.p % b.al = 0
    BY <1>8, AllocatorAssumption
  <2>2. Sized(y, b)
    BY <1>2, <1>3, <1>8, <2>1 DEF Sized
  <2>3. PoolHome(y, b)
    BY <1>3, <1>4 DEF PoolHome
  <2> QED
    BY <1>3, <1>7, <2>2, <2>3 DEF Home
<1>10. ASSUME NEW c \in H PROVE Apart(c, b)
  <2>1. Home(heap, x, c) /\ c.p \in Nat /\ c.n \in Nat
    BY <1>1 DEF Homes, Home, Sized
  <2>2. CASE OnHeap(x, c)
    <3>1. PICK k \in heap : Inside(c, k) /\ k \notin OwnBlocks(x)
      BY <1>1, <2>1, <2>2, HomeInHeap
    <3> DEFINE o == [p |-> x.buf, n |-> Extent(x)]
    <3>2. o \in heap /\ o \in OwnBlocks(x)
      BY <1>1, OwnBuffer
    <3>3. Inside(b, o)
      BY <1>8 DEF Inside
    <3> HIDE DEF o
    <3> QED
      BY <1>1, <1>8, <2>1, <3>1, <3>2, <3>3, InsideApart
  <2>3. CASE ~OnHeap(x, c)
    <3>1. PICK j \in x.used : c.p = BlockAt(x, j) /\ c.n <= x.block
      BY <2>1, <2>3 DEF Home, PoolHome
    <3>2. i \in Nat /\ j \in Nat /\ i # j
      BY <1>2
    <3>3. \/ BlockAt(x, i) + x.block <= BlockAt(x, j)
          \/ BlockAt(x, j) + x.block <= BlockAt(x, i)
      BY <1>2, <3>2, PoolApart
    <3> QED
      BY <1>2, <1>8, <2>1, <3>1, <3>3 DEF Apart
  <2> QED
    BY <2>2, <2>3
<1>11. Disjoint(H \cup {b})
  <2>1. \A c \in H : c.p \in Nat /\ c.n \in Nat
    BY <1>1 DEF Homes, Home, Sized
  <2> QED
    BY <1>1, <1>8, <1>10, <2>1 DEF Disjoint, Apart
<1>12. Covered(heap, y, H \cup {b})
  <2>1. PoolBlocks(y) = PoolBlocks(x) \cup {[p |-> BlockAt(x, i), n |-> x.block]}
    BY <1>3, <1>4 DEF PoolBlocks
  <2> QED
    BY <1>1, <1>4, <2>1 DEF Covered, Granted
<1> QED
  BY <1>1, <1>5, <1>6, <1>9, <1>10, <1>11, <1>12 DEF Sound, Homes

-----------------------------------------------------------------------------
\* A block that an allocator or malloc answers is a new one.

\* Of t only the heap and the allocator's state differ from s.
Follows(s, t) == /\ IsStore(t) /\ t.limit = s.limit /\ t.mem = s.mem /\ t.dead = s.dead
                 /\ t.dropped = s.dropped /\ t.x.h = s.x.h /\ t.x.kind = s.x.kind

\* A block that the allocator or malloc has answered.
Got(s, r, H, b) == /\ Follows(s, r.s) /\ r.p \in Nat \ {0}
                   /\ Sound(r.s.heap, r.s.x, H \cup {b})
                   /\ \A c \in H : Apart(c, b)

\* malloc's block is a new one.
LEMMA MallocSound ==
  ASSUME NEW s, IsStore(s), NEW H, Sound(s.heap, s.x, H), NEW n \in Nat \ {0},
         Malloc(s, n).p # 0,
         NEW b, b.p = Malloc(s, n).p, b.n = n, b.a \in {0, s.x.h}, OnHeap(s.x, b),
         b.al \in {1, 2, 4, 8, 16}, b.al <= MaxAlign
  PROVE  Got(s, Malloc(s, n), H, b)
<1> DEFINE r == Malloc(s, n)
           g == [p |-> r.p, n |-> n]
<1>1. HeapOK(s.heap)
  BY DEF Sound
<1>2. /\ r.p \in Nat \ {0} /\ r.p % MaxAlign = 0
      /\ \A k \in s.heap : r.p + n <= k.p \/ k.p + k.n <= r.p
  BY <1>1, MallocPlace
<1>3. OnlyHeap(s, r.s) /\ r.s.heap = s.heap \cup {g}
  BY MallocFields
<1> HIDE DEF r
<1>4. g \in [p : Nat \ {0}, n : Nat \ {0}] /\ g.p = r.p /\ g.n = n
  BY <1>2
<1>5. \A k \in s.heap : Apart(g, k)
  BY <1>2, <1>4 DEF Apart
<1> HIDE DEF g
<1>6. b.p = g.p /\ b.n = g.n /\ g.p % MaxAlign = 0
  BY <1>2, <1>4 DEF r
<1>7. Sound(s.heap \cup {g}, s.x, H \cup {b}) /\ \A c \in H : Apart(c, b)
  BY <1>4, <1>5, <1>6, AcquireHeap
<1>8. Follows(s, r.s)
  BY <1>3 DEF OnlyHeap, Follows
<1> QED
  BY <1>2, <1>3, <1>7, <1>8 DEF Got, OnlyHeap, r

\* An arena's block is a new one, aligned as it was asked for up to max_align_t.
LEMMA ArenaAllocSound ==
  ASSUME NEW s, IsStore(s), NEW H, Sound(s.heap, s.x, H), s.x.kind = "arena",
         NEW n \in Nat \ {0}, NEW al \in Nat \ {0}, PowerOfTwo(al), ArenaAlloc(s, n, al).p # 0,
         NEW b, b.p = ArenaAlloc(s, n, al).p, b.n = n, b.al = al, b.a = s.x.h
  PROVE  Got(s, ArenaAlloc(s, n, al), H, b)
<1> DEFINE x == s.x
           p == AlignUp(x.pos, al)
           y == [x EXCEPT !.pos = p + n]
           t == [s EXCEPT !.x = y]
<1>1. AllocatorOK(s.heap, x) /\ HeapOK(s.heap)
  BY DEF Sound
<1>2. /\ ~(x.pos > SizeMax - (al - 1) \/ p > x.cap \/ n > x.cap - p)
      /\ ArenaAlloc(s, n, al) = [s |-> t, p |-> x.buf + p]
  BY DEF ArenaAlloc, NoRoom
<1>3. x.pos \in Nat /\ x.cap \in Nat /\ x.buf \in Nat /\ x.buf > 0
  BY <1>1, OwnNumbers, OwnBuffer
<1>4. x.pos <= SizeMax - (al - 1)
  BY <1>2, <1>3, AllocatorAssumption
<1>5. p \in Nat /\ x.pos <= p /\ (al <= MaxAlign => (x.buf + p) % al = 0)
  BY <1>1, <1>4, ArenaPlace
<1>6. p <= x.cap /\ n <= x.cap - p
  BY <1>2, <1>3, <1>5
<1>7. Sound(s.heap, y, H \cup {b}) /\ \A c \in H : Apart(c, b)
  <2> HIDE DEF p
  <2>1. b.p = x.buf + p
    BY <1>2
  <2> QED
    BY <1>5, <1>6, <2>1, AcquireArena
<1>8. y.h = x.h /\ y.kind = x.kind
  BY <1>1 DEF AllocatorOK
<1>9. Follows(s, t) /\ t.heap = s.heap /\ t.x = y
  BY <1>8 DEF IsStore, Follows
<1> HIDE DEF t, y, p
<1> QED
  BY <1>2, <1>3, <1>5, <1>7, <1>9 DEF Got

\* A pool's block is a new one.
LEMMA PoolAllocSound ==
  ASSUME NEW s, IsStore(s), NEW H, Sound(s.heap, s.x, H), s.x.kind = "pool",
         NEW n \in Nat \ {0}, NEW al \in Nat \ {0}, PowerOfTwo(al), PoolAlloc(s, n, al).p # 0,
         NEW b, b.p = PoolAlloc(s, n, al).p, b.n = n, b.al = al, b.a = s.x.h
  PROVE  Got(s, PoolAlloc(s, n, al), H, b)
<1> DEFINE x == s.x
           free == (0..(x.count - 1)) \ x.used
           i == Least(free)
           y == [x EXCEPT !.used = x.used \cup {i}]
           t == [s EXCEPT !.x = y]
<1>1. AllocatorOK(s.heap, x) /\ HeapOK(s.heap)
  BY DEF Sound
<1>2. /\ ~(n > x.block \/ al > MaxAlign \/ free = {})
      /\ PoolAlloc(s, n, al) = [s |-> t, p |-> BlockAt(x, i)]
  BY DEF PoolAlloc, NoRoom
<1>3. x.block \in Nat /\ x.count \in Nat
  BY <1>1, OwnNumbers
<1>4. i \in free
  BY <1>2, <1>3, LeastNat
<1>5. n <= x.block /\ al <= MaxAlign /\ al \in {1, 2, 4, 8, 16}
  BY <1>2, <1>3, AlignDivides, AllocatorAssumption
<1>6. BlockAt(x, i) \in Nat \ {0}
  <2> HIDE DEF i
  <2> QED
    BY <1>1, <1>4, PoolRange
<1>7. Sound(s.heap, y, H \cup {b}) /\ \A c \in H : Apart(c, b)
  <2> HIDE DEF i
  <2>1. b.p = BlockAt(x, i)
    BY <1>2
  <2> QED
    BY <1>4, <1>5, <2>1, AcquirePool
<1>8. y.h = x.h /\ y.kind = x.kind
  BY <1>1 DEF AllocatorOK
<1>9. Follows(s, t) /\ t.heap = s.heap /\ t.x = y
  BY <1>8 DEF IsStore, Follows
<1> HIDE DEF t, y, i
<1> QED
  BY <1>2, <1>6, <1>7, <1>9 DEF Got

\* tiq_allocator_alloc answers a block of its own, or the store as it was.
LEMMA AllocSound ==
  ASSUME NEW s, IsStore(s), NEW H, Sound(s.heap, s.x, H), s.x.kind # "none",
         NEW n \in Nat, NEW al \in Nat, AllocatorAlloc(s, n, al).p # 0,
         NEW b, b.p = AllocatorAlloc(s, n, al).p, b.n = n, b.al = al, b.a = s.x.h
  PROVE  Got(s, AllocatorAlloc(s, n, al), H, b) /\ n # 0
<1>1. n # 0 /\ PowerOfTwo(al)
  BY DEF AllocatorAlloc, NoRoom
<1>2. al # 0
  BY <1>1, Pow2Values DEF PowerOfTwo, MaxPower
<1>3. s.x.kind \in {"general", "arena", "pool"} /\ s.x.h \in Nat
  BY OwnNumbers DEF Sound
<1>4. CASE s.x.kind = "general"
  <2>1. al <= MaxAlign /\ AllocatorAlloc(s, n, al) = Malloc(s, n)
    BY <1>1, <1>4 DEF AllocatorAlloc, NoRoom
  <2>2. al \in {1, 2, 4, 8, 16}
    BY <1>1, <2>1, AlignDivides
  <2>3. OnHeap(s.x, b)
    BY <1>4 DEF OnHeap
  <2> QED
    BY <1>1, <2>1, <2>2, <2>3, MallocSound
<1>5. CASE s.x.kind = "arena"
  <2>1. AllocatorAlloc(s, n, al) = ArenaAlloc(s, n, al)
    BY <1>1, <1>5 DEF AllocatorAlloc
  <2> QED
    BY <1>1, <1>2, <1>5, <2>1, ArenaAllocSound
<1>6. CASE s.x.kind = "pool"
  <2>1. AllocatorAlloc(s, n, al) = PoolAlloc(s, n, al)
    BY <1>1, <1>6 DEF AllocatorAlloc
  <2> QED
    BY <1>1, <1>2, <1>6, <2>1, PoolAllocSound
<1> QED
  BY <1>3, <1>4, <1>5, <1>6

\* Without room the store is as it was.
LEMMA MallocRefused ==
  ASSUME NEW s, HeapOK(s.heap), NEW n, Malloc(s, n).p = 0
  PROVE  Malloc(s, n).s = s
<1>1. \A k \in s.heap : k.p \in Nat \ {0} /\ k.n \in Nat \ {0}
  BY DEF HeapOK
<1>2. HeapStart \in Nat \ {0}
  BY AllocatorAssumption DEF HeapStart
<1>3. ASSUME NEW k \in s.heap PROVE Beyond(k) \in Nat \ {0}
  BY <1>1, AllocatorAssumption DEF Beyond
<1>4. Places(s, n) \in SUBSET Nat /\ 0 \notin Places(s, n)
  BY <1>2, <1>3 DEF Places
<1>5. Places(s, n) # {} => Least(Places(s, n)) # 0
  BY <1>4, LeastNat
<1> QED
  BY <1>5 DEF Malloc, NoRoom

\* tiq_allocator_alloc without room changes nothing.
LEMMA AllocRefused ==
  ASSUME NEW s, NEW n, NEW al, AllocatorAlloc(s, n, al).p = 0, IsStore(s), NEW H,
         Sound(s.heap, s.x, H), n \in Nat, al \in Nat, s.x.kind # "none"
  PROVE  AllocatorAlloc(s, n, al).s = s
<1>1. SUFFICES ASSUME n # 0, PowerOfTwo(al) PROVE AllocatorAlloc(s, n, al).s = s
  BY DEF AllocatorAlloc, NoRoom
<1>2. s.x.kind \in {"general", "arena", "pool"} /\ s.x.h \in Nat
  BY OwnNumbers DEF Sound
<1>3. CASE s.x.kind = "general"
  <2>1. HeapOK(s.heap)
    BY DEF Sound
  <2>2. Malloc(s, n).p = 0 => Malloc(s, n).s = s
    BY <2>1, MallocRefused
  <2> QED
    BY <1>1, <1>3, <2>2 DEF AllocatorAlloc, NoRoom
<1>4. CASE s.x.kind = "arena"
  <2>1. ArenaAlloc(s, n, al).p = 0 => ArenaAlloc(s, n, al).s = s
    <3>1. AllocatorOK(s.heap, s.x) /\ HeapOK(s.heap)
      BY DEF Sound
    <3>2. s.x.buf \in Nat /\ s.x.buf > 0 /\ s.x.pos \in Nat
      BY <3>1, <1>4, OwnNumbers, OwnBuffer
    <3>3. al \in Nat \ {0}
      BY <1>1, Pow2Values DEF PowerOfTwo, MaxPower
    <3>4. s.x.pos <= SizeMax - (al - 1) => AlignUp(s.x.pos, al) \in Nat
      BY <1>1, <1>4, <3>1, <3>3, ArenaPlace
    <3> QED
      BY <3>2, <3>3, <3>4, AllocatorAssumption DEF ArenaAlloc, NoRoom
  <2> QED
    BY <1>1, <1>4, <2>1 DEF AllocatorAlloc
<1>5. CASE s.x.kind = "pool"
  <2>1. PoolAlloc(s, n, al).p = 0 => PoolAlloc(s, n, al).s = s
    <3> DEFINE free == (0..(s.x.count - 1)) \ s.x.used
    <3>1. AllocatorOK(s.heap, s.x) /\ HeapOK(s.heap)
      BY DEF Sound
    <3>2. free # {} => BlockAt(s.x, Least(free)) # 0
      <4>1. ASSUME free # {} PROVE Least(free) \in free
        BY <4>1, <3>1, OwnNumbers, LeastNat
      <4>2. ASSUME NEW i \in free PROVE BlockAt(s.x, i) # 0
        BY <1>5, <3>1, PoolRange
      <4> HIDE DEF free
      <4> QED
        BY <4>1, <4>2
    <3> QED
      BY <3>2 DEF PoolAlloc, NoRoom
  <2> QED
    BY <1>1, <1>5, <2>1 DEF AllocatorAlloc
<1> QED
  BY <1>2, <1>3, <1>4, <1>5

\* tiq_container_alloc, unless the process has ended.
LEMMA TakeSound ==
  ASSUME NEW s, IsStore(s), NEW H, Sound(s.heap, s.x, H), NEW a \in {0, s.x.h},
         NEW n \in Nat \ {0}, NEW al \in {1, MaxAlign}, ~Take(s, a, n, al).s.dead,
         NEW b, b.p = Take(s, a, n, al).p, b.n = n, b.al = al, b.a = a
  PROVE  Got(s, Take(s, a, n, al), H, b) /\ ~s.dead
<1> DEFINE r == IF a = 0 THEN Malloc(s, n) ELSE AllocatorAlloc(s, n, al)
<1>1. ~s.dead /\ r.p # 0 /\ Take(s, a, n, al) = r
  <2>1. NoRoom(Exit(s)).s.dead
    BY DEF NoRoom, Exit, IsStore
  <2> QED
    BY <2>1 DEF Take
<1>2. CASE a = 0
  BY <1>1, <1>2, MallocSound, AllocatorAssumption DEF OnHeap
<1>3. CASE a # 0
  <2>1. s.x.kind # "none"
    BY <1>3, OwnNumbers DEF Sound
  <2> QED
    BY <1>1, <1>3, <2>1, AllocSound, AllocatorAssumption
<1> QED
  BY <1>2, <1>3

-----------------------------------------------------------------------------
\* Blocks given back.

\* Two blocks of the heap at one address are the same.
LEMMA OneAtAddress ==
  ASSUME NEW heap, HeapOK(heap), NEW g \in heap, NEW k \in heap, g.p = k.p
  PROVE  g = k
<1>1. g.p \in Nat /\ g.n \in Nat \ {0} /\ k.p \in Nat /\ k.n \in Nat \ {0} /\ (g # k => Apart(g, k))
  BY DEF HeapOK
<1> QED
  BY <1>1 DEF Apart

\* A block of the heap is not found where a pool's or an arena's block lies.
LEMMA HomesApart ==
  ASSUME NEW heap, NEW x, HeapOK(heap), AllocatorOK(heap, x), NEW b, Home(heap, x, b)
  PROVE  /\ ~OnHeap(x, b) => \A g \in heap \ OwnBlocks(x) : g.p # b.p
         /\ OnHeap(x, b) => \A g \in PoolBlocks(x) : g.p # b.p
<1>1. b.p \in Nat \ {0} /\ b.n \in Nat \ {0}
  BY DEF Home, Sized
<1>2. PICK k \in heap : /\ Inside(b, k)
                        /\ OnHeap(x, b) => k \notin OwnBlocks(x) /\ k.p = b.p
                        /\ ~OnHeap(x, b) => k \in OwnBlocks(x)
  BY HomeInHeap
<1>3. k.p \in Nat /\ k.n \in Nat \ {0}
  BY DEF HeapOK
<1>4. ASSUME ~OnHeap(x, b), NEW g \in heap \ OwnBlocks(x) PROVE g.p # b.p
  <2>1. g.p \in Nat /\ g.n \in Nat \ {0} /\ Apart(g, k)
    BY <1>2, <1>4 DEF HeapOK
  <2> QED
    BY <1>1, <1>2, <1>3, <2>1 DEF Inside, Apart
<1>5. ASSUME OnHeap(x, b), NEW g \in PoolBlocks(x) PROVE g.p # b.p
  <2>1. PICK i \in x.used : g = [p |-> BlockAt(x, i), n |-> x.block]
    BY DEF PoolBlocks
  <2>2. x.kind = "pool" /\ i \in 0..(x.count - 1) /\ x.block \in Nat /\ x.block > 0
    BY OwnNumbers DEF AllocatorOK
  <2>3. BlockAt(x, i) \in Nat /\ x.buf <= BlockAt(x, i) /\ BlockAt(x, i) + x.block <= x.buf + Extent(x)
    BY <2>2, PoolRange
  <2> DEFINE o == [p |-> x.buf, n |-> Extent(x)]
  <2>4. o.p = x.buf /\ o.n = Extent(x)
    OBVIOUS
  <2>5. o \in heap /\ o \in OwnBlocks(x)
    BY <2>2, OwnBuffer
  <2> HIDE DEF o
  <2>6. Apart(k, o) /\ o.p \in Nat /\ o.n \in Nat
    BY <1>2, <1>5, <2>5 DEF HeapOK
  <2> QED
    BY <1>1, <1>2, <1>3, <1>5, <2>1, <2>2, <2>3, <2>4, <2>6 DEF Apart
<1> QED
  BY <1>4, <1>5

\* Two held blocks are not at the same address.
LEMMA Distinct ==
  ASSUME NEW heap, NEW x, NEW H, Sound(heap, x, H), NEW b \in H, NEW c \in H, b.p = c.p
  PROVE  b = c
<1>1. b.p \in Nat /\ b.n \in Nat \ {0} /\ c.p \in Nat /\ c.n \in Nat \ {0} /\ (b # c => Apart(b, c))
  BY DEF Sound, Homes, Home, Sized, Disjoint
<1> QED
  BY <1>1 DEF Apart

\* free, for a block that the program holds.
LEMMA GiveBackHeap ==
  ASSUME NEW heap, NEW x, NEW H, Sound(heap, x, H), NEW b \in H, OnHeap(x, b),
         NEW left, left = {g \in heap : g.p # b.p}
  PROVE  Sound(left, x, H \ {b})
<1>1. HeapOK(heap) /\ AllocatorOK(heap, x) /\ Homes(heap, x, H) /\ Disjoint(H) /\ Covered(heap, x, H)
  BY DEF Sound
<1>2. Home(heap, x, b)
  BY <1>1 DEF Homes
<1>3. PICK k \in heap \ OwnBlocks(x) : k.p = b.p
  BY <1>2 DEF Home, HeapHome
<1>4. HeapOK(left)
  BY <1>1 DEF HeapOK
<1>5. AllocatorOK(left, x)
  <2>1. ASSUME NEW g \in OwnBlocks(x) PROVE g \in left
    <3>1. g \in heap
      BY <1>1 DEF AllocatorOK
    <3>2. g.p # b.p
      BY <1>1, <1>3, <3>1, OneAtAddress
    <3> QED
      BY <3>1, <3>2
  <2> QED
    BY <1>1, <2>1 DEF AllocatorOK
<1>6. ASSUME NEW c \in H \ {b} PROVE Home(left, x, c)
  <2>1. Home(heap, x, c) /\ c.p # b.p
    BY <1>1, Distinct DEF Homes
  <2>2. OnHeap(x, c) => HeapHome(left, x, c)
    BY <2>1 DEF Home, HeapHome
  <2> QED
    BY <2>1, <2>2 DEF Home
<1>7. ASSUME NEW g \in Granted(left, x) PROVE \E c \in H \ {b} : c.p = g.p
  <2>1. g \in Granted(heap, x)
    BY DEF Granted
  <2>2. PICK c \in H : c.p = g.p
    BY <1>1, <2>1 DEF Covered
  <2>3. g.p # b.p
    BY <1>1, <1>2, HomesApart DEF Granted
  <2> QED
    BY <2>2, <2>3
<1> QED
  BY <1>1, <1>4, <1>5, <1>6, <1>7 DEF Sound, Homes, Disjoint, Covered

\* An arena takes nothing back before it is reset.
LEMMA GiveBackArena ==
  ASSUME NEW heap, NEW x, NEW H, Sound(heap, x, H), NEW b \in H, ~OnHeap(x, b), x.kind = "arena"
  PROVE  Sound(heap, x, H \ {b})
<1>1. HeapOK(heap) /\ AllocatorOK(heap, x) /\ Homes(heap, x, H) /\ Disjoint(H) /\ Covered(heap, x, H)
  BY DEF Sound
<1>2. Home(heap, x, b)
  BY <1>1 DEF Homes
<1>3. ASSUME NEW g \in Granted(heap, x) PROVE \E c \in H \ {b} : c.p = g.p
  <2>1. PICK c \in H : c.p = g.p
    BY <1>1 DEF Covered
  <2>2. PoolBlocks(x) = {}
    BY <1>1 DEF AllocatorOK, PoolBlocks
  <2>3. g.p # b.p
    BY <1>1, <1>2, <2>2, HomesApart DEF Granted
  <2> QED
    BY <2>1, <2>3
<1> QED
  BY <1>1, <1>3 DEF Sound, Homes, Disjoint, Covered

\* A pool marks the block as free.
LEMMA GiveBackPool ==
  ASSUME NEW heap, NEW x, NEW H, Sound(heap, x, H), NEW b \in H, ~OnHeap(x, b), x.kind = "pool",
         NEW y, y = [x EXCEPT !.used = {i \in x.used : BlockAt(x, i) # b.p}]
  PROVE  Sound(heap, y, H \ {b})
<1>1. HeapOK(heap) /\ AllocatorOK(heap, x) /\ Homes(heap, x, H) /\ Disjoint(H) /\ Covered(heap, x, H)
  BY DEF Sound
<1>2. Home(heap, x, b)
  BY <1>1 DEF Homes
<1>3. /\ y.kind = x.kind /\ y.h = x.h /\ y.buf = x.buf /\ y.cap = x.cap /\ y.pos = x.pos
      /\ y.block = x.block /\ y.count = x.count /\ y.flags = x.flags
      /\ y.used = {i \in x.used : BlockAt(x, i) # b.p}
  BY <1>1 DEF AllocatorOK
<1>4. OwnBlocks(y) = OwnBlocks(x) /\ \A j : BlockAt(y, j) = BlockAt(x, j)
  BY <1>3 DEF OwnBlocks, Extent, BlockAt
<1>5. AllocatorOK(heap, y)
  <2>1. x.used \subseteq 0..(x.count - 1) /\ x.used \in SUBSET Nat
    BY <1>1 DEF AllocatorOK
  <2>2. y.used \in SUBSET Nat /\ y.used \subseteq 0..(y.count - 1)
    BY <1>3, <2>1
  <2>3. y \in [kind : {"none", "general", "arena", "pool"}, h : Nat, buf : Nat, cap : Nat,
               pos : Nat, block : Nat, count : Nat, flags : Nat, used : SUBSET Nat]
    BY <1>1, <2>2 DEF AllocatorOK
  <2> QED
    BY <1>1, <1>3, <1>4, <2>2, <2>3 DEF AllocatorOK
<1>6. ASSUME NEW c \in H \ {b} PROVE Home(heap, y, c)
  <2>1. Home(heap, x, c) /\ c.p # b.p
    BY <1>1, Distinct DEF Homes
  <2>2. Sized(y, c) /\ (OnHeap(y, c) <=> OnHeap(x, c))
    BY <1>3, <2>1 DEF Home, Sized, OnHeap
  <2>3. OnHeap(x, c) => HeapHome(heap, y, c)
    BY <1>4, <2>1 DEF Home, HeapHome
  <2>4. ~OnHeap(x, c) => PoolHome(y, c)
    BY <1>3, <1>4, <2>1 DEF Home, PoolHome
  <2> QED
    BY <1>3, <2>2, <2>3, <2>4 DEF Home
<1>7. ASSUME NEW g \in Granted(heap, y) PROVE \E c \in H \ {b} : c.p = g.p
  <2>1. g \in heap \ OwnBlocks(x) \/ (g \in PoolBlocks(x) /\ g.p # b.p)
    BY <1>3, <1>4 DEF Granted, PoolBlocks
  <2>2. PICK c \in H : c.p = g.p
    BY <1>1, <2>1 DEF Covered, Granted
  <2>3. g.p # b.p
    BY <1>1, <1>2, <2>1, HomesApart
  <2> QED
    BY <2>2, <2>3
<1> QED
  BY <1>1, <1>5, <1>6, <1>7 DEF Sound, Homes, Disjoint, Covered

\* Only the allocator's free marks, or the heap, differ after a dealloc.
LEMMA DeallocSound ==
  ASSUME NEW s, IsStore(s), NEW H, Sound(s.heap, s.x, H), NEW b \in H, b.a = s.x.h, b.a # 0
  PROVE  LET t == AllocatorDealloc(s, b.p) IN Follows(s, t) /\ Sound(t.heap, t.x, H \ {b})
<1>1. AllocatorOK(s.heap, s.x)
  BY DEF Sound
<1>2. s.x.kind \in {"general", "arena", "pool"}
  BY <1>1, OwnNumbers
<1>3. CASE s.x.kind = "general"
  <2> DEFINE t == Release(s, {b.p})
  <2>1. OnlyHeap(s, t) /\ t.heap = {g \in s.heap : g.p # b.p}
    BY ReleaseFields
  <2>2. OnHeap(s.x, b)
    BY <1>3 DEF OnHeap
  <2>3. AllocatorDealloc(s, b.p) = t
    BY <1>3 DEF AllocatorDealloc
  <2> HIDE DEF t
  <2>4. Sound(t.heap, s.x, H \ {b})
    BY <2>1, <2>2, GiveBackHeap
  <2> QED
    BY <2>1, <2>3, <2>4 DEF OnlyHeap, Follows
<1>4. CASE s.x.kind = "arena"
  <2>1. AllocatorDealloc(s, b.p) = s /\ ~OnHeap(s.x, b)
    BY <1>4 DEF AllocatorDealloc, OnHeap
  <2>2. Sound(s.heap, s.x, H \ {b})
    BY <1>4, <2>1, GiveBackArena
  <2> QED
    BY <2>1, <2>2 DEF Follows
<1>5. CASE s.x.kind = "pool"
  <2> DEFINE y == [s.x EXCEPT !.used = {i \in s.x.used : BlockAt(s.x, i) # b.p}]
             t == [s EXCEPT !.x = y]
  <2>1. AllocatorDealloc(s, b.p) = t /\ ~OnHeap(s.x, b)
    BY <1>5 DEF AllocatorDealloc, PoolDealloc, OnHeap
  <2>2. Sound(s.heap, y, H \ {b})
    BY <1>5, <2>1, GiveBackPool
  <2>3. y.h = s.x.h /\ y.kind = s.x.kind
    BY <1>1 DEF AllocatorOK
  <2> HIDE DEF y
  <2>4. Follows(s, t) /\ t.heap = s.heap /\ t.x = y
    BY <2>3 DEF IsStore, Follows
  <2> QED
    BY <2>1, <2>2, <2>4
<1> QED
  BY <1>2, <1>3, <1>4, <1>5

-----------------------------------------------------------------------------
\* The allocator emptied, destroyed and made.

\* An address that is none of a pool's blocks in use changes nothing.
LEMMA StrayDealloc ==
  ASSUME NEW s, IsStore(s), NEW H, Sound(s.heap, s.x, H), s.x.kind = "pool",
         NEW p, \/ p \in {s.x.buf - 1, s.x.buf + Extent(s.x)}
                \/ \E i \in s.x.used : p = BlockAt(s.x, i) + 1
                \/ \E i \in (0..(s.x.count - 1)) \ s.x.used : p = BlockAt(s.x, i)
  PROVE  AllocatorDealloc(s, p) = s
<1> DEFINE x == s.x
           y == [x EXCEPT !.used = {i \in x.used : BlockAt(x, i) # p}]
<1>1. HeapOK(s.heap) /\ AllocatorOK(s.heap, x)
  BY DEF Sound
<1>2. /\ x.block \in Nat /\ x.block > 0 /\ x.buf \in Nat /\ x.count \in Nat /\ Extent(x) \in Nat
      /\ x.used \subseteq 0..(x.count - 1) /\ x.used \subseteq Nat
  BY <1>1, OwnNumbers DEF AllocatorOK
<1>3. ASSUME NEW j \in x.used PROVE BlockAt(x, j) # p
  <2>1. /\ BlockAt(x, j) \in Nat /\ x.buf <= BlockAt(x, j) /\ BlockAt(x, j) % MaxAlign = 0
        /\ BlockAt(x, j) + x.block <= x.buf + Extent(x)
    BY <1>1, <1>2, PoolRange
  <2>2. ASSUME p = x.buf - 1 \/ p = x.buf + Extent(x) PROVE BlockAt(x, j) # p
    BY <1>2, <2>1, <2>2
  <2>3. ASSUME NEW i \in x.used, p = BlockAt(x, i) + 1 PROVE BlockAt(x, j) # p
    <3>1. BlockAt(x, i) \in Nat /\ BlockAt(x, i) % MaxAlign = 0
      BY <1>1, <1>2, PoolRange
    <3>2. \A c, d \in Nat : c % 8 = 0 /\ d % 8 = 0 => c # d + 1
      OBVIOUS
    <3>3. \A c, d \in Nat : c % 16 = 0 /\ d % 16 = 0 => c # d + 1
      OBVIOUS
    <3> QED
      BY <2>1, <2>3, <3>1, <3>2, <3>3, AllocatorAssumption
  <2>4. ASSUME NEW i \in (0..(x.count - 1)) \ x.used, p = BlockAt(x, i) PROVE BlockAt(x, j) # p
    <3>1. BlockAt(x, i) \in Nat
      BY <1>1, PoolRange
    <3>2. i # j /\ i \in Nat /\ j \in Nat
      BY <1>2
    <3>3. \/ BlockAt(x, i) + x.block <= BlockAt(x, j)
          \/ BlockAt(x, j) + x.block <= BlockAt(x, i)
      BY <1>2, <3>2, PoolApart
    <3> QED
      BY <1>2, <2>1, <2>4, <3>1, <3>3
  <2> QED
    BY <2>2, <2>3, <2>4
<1>4. y = x
  <2>1. {i \in x.used : BlockAt(x, i) # p} = x.used
    BY <1>3
  <2> QED
    BY <1>1, <2>1 DEF AllocatorOK
<1>5. AllocatorDealloc(s, p) = [s EXCEPT !.x = y]
  BY DEF AllocatorDealloc, PoolDealloc
<1> HIDE DEF y
<1> QED
  BY <1>4, <1>5 DEF IsStore

\* tiq_allocator_reset: what the process heap holds stays.
LEMMA ResetSound ==
  ASSUME NEW heap, NEW x, NEW H, Sound(heap, x, H), x.kind \in {"arena", "pool"},
         NEW y, y = [x EXCEPT !.pos = 0, !.used = {}]
  PROVE  Sound(heap, y, {b \in H : b.a = 0})
<1> DEFINE G == {b \in H : b.a = 0}
<1>1. HeapOK(heap) /\ AllocatorOK(heap, x) /\ Homes(heap, x, H) /\ Disjoint(H) /\ Covered(heap, x, H)
  BY DEF Sound
<1>2. /\ y.kind = x.kind /\ y.h = x.h /\ y.buf = x.buf /\ y.cap = x.cap /\ y.pos = 0
      /\ y.block = x.block /\ y.count = x.count /\ y.flags = x.flags /\ y.used = {}
  BY <1>1 DEF AllocatorOK
<1>3. OwnBlocks(y) = OwnBlocks(x)
  BY <1>2 DEF OwnBlocks, Extent
<1>4. AllocatorOK(heap, y)
  <2>1. y \in [kind : {"none", "general", "arena", "pool"}, h : Nat, buf : Nat, cap : Nat,
               pos : Nat, block : Nat, count : Nat, flags : Nat, used : SUBSET Nat]
    BY <1>1 DEF AllocatorOK
  <2>2. y.pos <= y.cap
    BY <1>1, <1>2, OwnNumbers
  <2> QED
    BY <1>1, <1>2, <1>3, <2>1, <2>2 DEF AllocatorOK
<1>5. ASSUME NEW c \in G PROVE Home(heap, y, c)
  <2>1. Home(heap, x, c) /\ OnHeap(x, c) /\ OnHeap(y, c)
    BY <1>1 DEF Homes, OnHeap
  <2> QED
    BY <1>2, <1>3, <2>1 DEF Home, Sized, HeapHome
<1>6. ASSUME NEW g \in Granted(heap, y) PROVE \E c \in G : c.p = g.p
  <2>1. g \in heap \ OwnBlocks(x)
    BY <1>2, <1>3 DEF Granted, PoolBlocks
  <2>2. PICK c \in H : c.p = g.p
    BY <1>1, <2>1 DEF Covered, Granted
  <2>3. Home(heap, x, c)
    BY <1>1 DEF Homes
  <2>4. OnHeap(x, c)
    BY <1>1, <2>1, <2>2, <2>3, HomesApart
  <2> QED
    BY <2>2, <2>4 DEF OnHeap
<1> QED
  BY <1>1, <1>4, <1>5, <1>6 DEF Sound, Homes, Disjoint, Covered

\* tiq_allocator_destroy: so does what the heap holds for others.
LEMMA DestroySound ==
  ASSUME NEW heap, NEW x, NEW H, Sound(heap, x, H), x.kind \in {"arena", "pool"},
         NEW left, left = {g \in heap : g.p \notin {x.flags, x.buf, x.h}}
  PROVE  Sound(left, NoAllocator, {b \in H : b.a = 0})
<1> DEFINE G == {b \in H : b.a = 0}
<1>1. HeapOK(heap) /\ AllocatorOK(heap, x) /\ Homes(heap, x, H) /\ Disjoint(H) /\ Covered(heap, x, H)
  BY DEF Sound
<1>2. OwnBlocks(NoAllocator) = {} /\ PoolBlocks(NoAllocator) = {}
  BY DEF OwnBlocks, PoolBlocks, NoAllocator
<1>3. HeapOK(left)
  BY <1>1 DEF HeapOK
<1>4. AllocatorOK(left, NoAllocator)
  BY <1>2 DEF AllocatorOK, NoAllocator
<1>5. \A g \in OwnBlocks(x) : g.p \in {x.flags, x.buf, x.h}
  BY DEF OwnBlocks
<1>6. ASSUME NEW g \in heap \ OwnBlocks(x) PROVE g \in left
  <2>1. g.p > 0
    BY <1>1 DEF HeapOK
  <2>2. [p |-> x.h, n |-> AllocatorBytes] \in OwnBlocks(x) /\ [p |-> x.buf, n |-> Extent(x)] \in OwnBlocks(x)
    BY DEF OwnBlocks
  <2>3. x.kind = "pool" => [p |-> x.flags, n |-> x.count] \in OwnBlocks(x)
    BY DEF OwnBlocks
  <2>4. x.kind # "pool" => x.flags = 0
    BY <1>1 DEF AllocatorOK
  <2>5. ASSUME NEW k \in OwnBlocks(x) PROVE g.p # k.p
    <3>1. k \in heap
      BY <1>1 DEF AllocatorOK
    <3> QED
      BY <1>1, <3>1, OneAtAddress
  <2>6. g.p # x.h /\ g.p # x.buf
    BY <2>2, <2>5
  <2>7. g.p # x.flags
    BY <2>1, <2>3, <2>4, <2>5
  <2> QED
    BY <2>6, <2>7
<1>7. ASSUME NEW c \in G PROVE Home(left, NoAllocator, c)
  <2>1. Home(heap, x, c) /\ OnHeap(x, c) /\ OnHeap(NoAllocator, c) /\ c.a = 0
    BY <1>1 DEF Homes, OnHeap
  <2>2. HeapHome(left, NoAllocator, c)
    BY <1>2, <1>6, <2>1 DEF Home, HeapHome
  <2>3. Sized(NoAllocator, c)
    BY <2>1 DEF Home, Sized
  <2> QED
    BY <2>1, <2>2, <2>3 DEF Home
<1>8. ASSUME NEW g \in Granted(left, NoAllocator) PROVE \E c \in G : c.p = g.p
  <2>1. g \in heap \ OwnBlocks(x)
    BY <1>2, <1>5 DEF Granted
  <2>2. PICK c \in H : c.p = g.p
    BY <1>1, <2>1 DEF Covered, Granted
  <2>3. Home(heap, x, c)
    BY <1>1 DEF Homes
  <2>4. OnHeap(x, c)
    BY <1>1, <2>1, <2>2, <2>3, HomesApart
  <2> QED
    BY <2>2, <2>4 DEF OnHeap
<1> QED
  BY <1>1, <1>3, <1>4, <1>7, <1>8 DEF Sound, Homes, Disjoint, Covered

\* A block more, with none held yet.
LEMMA MallocHeap ==
  ASSUME NEW s, IsStore(s), HeapOK(s.heap), NEW n \in Nat \ {0}, Malloc(s, n).p # 0
  PROVE  LET r == Malloc(s, n)
         IN  /\ OnlyHeap(s, r.s) /\ r.s.heap = s.heap \cup {[p |-> r.p, n |-> n]} /\ HeapOK(r.s.heap)
             /\ r.p \in Nat \ {0} /\ \A k \in s.heap : k.p # r.p
<1> DEFINE r == Malloc(s, n)
           g == [p |-> r.p, n |-> n]
<1>1. /\ r.p \in Nat \ {0} /\ r.p % MaxAlign = 0
      /\ \A k \in s.heap : r.p + n <= k.p \/ k.p + k.n <= r.p
  BY MallocPlace
<1>2. OnlyHeap(s, r.s) /\ r.s.heap = s.heap \cup {g}
  BY MallocFields
<1> HIDE DEF r
<1>3. g \in [p : Nat \ {0}, n : Nat \ {0}] /\ g.p = r.p /\ g.n = n
  BY <1>1
<1>4. \A k \in s.heap : k.p \in Nat \ {0} /\ k.n \in Nat \ {0}
  BY DEF HeapOK
<1>5. \A k \in s.heap : k.p # r.p /\ Apart(g, k) /\ Apart(k, g)
  BY <1>1, <1>3, <1>4 DEF Apart
<1> HIDE DEF g
<1>6. HeapOK(s.heap \cup {g})
  BY <1>1, <1>3, <1>5 DEF HeapOK
<1> QED
  BY <1>1, <1>2, <1>5, <1>6 DEF g, r

\* An empty heap holds nothing of a program's.
LEMMA NothingHeld ==
  ASSUME NEW x, NEW H, Sound({}, x, H), x.kind = "none"
  PROVE  H = {}
<1>1. ASSUME NEW b \in H PROVE FALSE
  <2>1. Home({}, x, b) /\ OnHeap(x, b)
    BY OwnNumbers DEF Sound, Homes, Home, Sized, OnHeap
  <2> QED
    BY <2>1 DEF Home, HeapHome
<1> QED
  BY <1>1

\* A store whose allocator has given out nothing.
Fresh(s, t) == /\ IsStore(t) /\ t.limit = s.limit /\ t.mem = s.mem /\ t.dead = s.dead
               /\ t.dropped = s.dropped /\ Sound(t.heap, t.x, {})

\* An allocator that was just made, with nothing held.
LEMMA Unheld ==
  ASSUME NEW heap, NEW x, HeapOK(heap), AllocatorOK(heap, x), heap = OwnBlocks(x), x.used = {}
  PROVE  Sound(heap, x, {})
<1>1. Granted(heap, x) = {}
  BY DEF Granted, PoolBlocks
<1> QED
  BY <1>1 DEF Sound, Homes, Disjoint, Covered

\* All that was obtained since the heap was empty is given back.
LEMMA ReleaseAll ==
  ASSUME NEW s, IsStore(s), NEW t, OnlyHeap(s, t), NEW ps,
         s.heap = {}, \A g \in t.heap : g.p \in ps
  PROVE  Release(t, ps) = s
<1>1. OnlyHeap(t, Release(t, ps)) /\ Release(t, ps).heap = {}
  BY ReleaseFields DEF OnlyHeap
<1> HIDE DEF Release
<1> QED
  BY <1>1 DEF OnlyHeap, IsStore

\* tiq_arena_create makes an arena, or leaves no trace.
LEMMA ArenaFresh ==
  ASSUME NEW s, IsStore(s), s.heap = {}, NEW c \in Nat
  PROVE  ArenaCreate(s, c) = s \/ Fresh(s, ArenaCreate(s, c))
<1> DEFINE a == Malloc(s, AllocatorBytes)
           b == Malloc(a.s, c)
           x == [NoAllocator EXCEPT !.kind = "arena", !.h = a.p, !.buf = b.p, !.cap = c]
<1>1. SUFFICES ASSUME c # 0, a.p # 0 PROVE ArenaCreate(s, c) = s \/ Fresh(s, ArenaCreate(s, c))
  BY DEF ArenaCreate
<1>2. HeapOK(s.heap) /\ AllocatorBytes \in Nat \ {0}
  BY DEF HeapOK, AllocatorBytes
<1>3. OnlyHeap(s, a.s) /\ HeapOK(a.s.heap) /\ a.s.heap = {[p |-> a.p, n |-> AllocatorBytes]} /\ a.p \in Nat \ {0}
  BY <1>1, <1>2, MallocHeap
<1>4. CASE b.p = 0
  <2>1. ArenaCreate(s, c) = Release(a.s, {a.p})
    BY <1>1, <1>4 DEF ArenaCreate
  <2> HIDE DEF a
  <2> QED
    BY <1>3, <2>1, ReleaseAll
<1>5. CASE b.p # 0
  <2>1. ArenaCreate(s, c) = [b.s EXCEPT !.x = x]
    BY <1>1, <1>5 DEF ArenaCreate
  <2> HIDE DEF a
  <2>2. IsStore(a.s)
    BY <1>3 DEF OnlyHeap
  <2>3. /\ OnlyHeap(a.s, b.s) /\ HeapOK(b.s.heap) /\ b.p \in Nat \ {0} /\ b.p # a.p
        /\ b.s.heap = {[p |-> a.p, n |-> AllocatorBytes], [p |-> b.p, n |-> c]}
    <3>1. /\ OnlyHeap(a.s, b.s) /\ HeapOK(b.s.heap) /\ b.p \in Nat \ {0} /\ \A k \in a.s.heap : k.p # b.p
          /\ b.s.heap = a.s.heap \cup {[p |-> b.p, n |-> c]}
      BY <1>1, <1>3, <1>5, <2>2, MallocHeap
    <3>2. [p |-> a.p, n |-> AllocatorBytes].p # b.p
      BY <1>3, <3>1, Zenon
    <3> QED
      BY <1>3, <3>1, <3>2
  <2> HIDE DEF b
  <2>4. /\ x \in [kind : {"arena"}, h : {a.p}, buf : {b.p}, cap : {c}, pos : {0}, block : {0},
                  count : {0}, flags : {0}, used : {{}}]
    BY DEF NoAllocator
  <2> HIDE DEF x
  <2>5. OwnBlocks(x) = b.s.heap
    BY <2>3, <2>4 DEF OwnBlocks, Extent
  <2>6. AllocatorOK(b.s.heap, x)
    BY <1>3, <2>3, <2>4, <2>5 DEF AllocatorOK
  <2>7. Sound(b.s.heap, x, {})
    BY <2>3, <2>4, <2>5, <2>6, Unheld
  <2> QED
    BY <1>3, <2>1, <2>3, <2>7 DEF Fresh, OnlyHeap, IsStore
<1> QED
  BY <1>4, <1>5

\* tiq_pool_create makes a pool, or leaves no trace.
LEMMA PoolFresh ==
  ASSUME NEW s, IsStore(s), s.heap = {}, NEW n \in Nat, NEW c \in Nat
  PROVE  PoolCreate(s, n, c) = s \/ Fresh(s, PoolCreate(s, n, c))
<1> DEFINE a == Malloc(s, AllocatorBytes)
           m == Malloc(a.s, Wrap(n * c))
           u == Malloc(m.s, c)
           x == [NoAllocator EXCEPT !.kind = "pool", !.h = a.p, !.buf = m.p,
                                    !.block = n, !.count = c, !.flags = u.p]
<1>1. SUFFICES ASSUME ~PoolRefused(n, c), a.p # 0
               PROVE  PoolCreate(s, n, c) = s \/ Fresh(s, PoolCreate(s, n, c))
  BY DEF PoolCreate
<1>2. HeapOK(s.heap) /\ AllocatorBytes \in Nat \ {0}
  BY DEF HeapOK, AllocatorBytes
<1>3. /\ OnlyHeap(s, a.s) /\ IsStore(a.s) /\ HeapOK(a.s.heap)
      /\ a.s.heap = {[p |-> a.p, n |-> AllocatorBytes]} /\ a.p \in Nat \ {0}
  <2>1. OnlyHeap(s, a.s) /\ HeapOK(a.s.heap) /\ a.s.heap = {[p |-> a.p, n |-> AllocatorBytes]} /\ a.p \in Nat \ {0}
    BY <1>1, <1>2, MallocHeap
  <2> HIDE DEF a
  <2> QED
    BY <2>1 DEF OnlyHeap
<1> DEFINE first == [p |-> a.p, n |-> AllocatorBytes]
<1>4. first.p = a.p /\ a.s.heap = {first}
  BY <1>3
<1> HIDE DEF first
<1>5. n # 0 /\ c # 0 /\ n % MaxAlign = 0 /\ c <= SizeMax \div n
  <2>1. SizeMax \div n \in Int
    BY <1>1, AllocatorAssumption DEF PoolRefused
  <2> QED
    BY <1>1, <2>1 DEF PoolRefused
<1>6. Wrap(n * c) = n * c /\ n * c \in Nat
  BY <1>5, Quotients
<1>7. n * c # 0
  BY <1>5
<1> DEFINE fail == 0 \in {m.p, u.p}
<1>8. PoolCreate(s, n, c) = IF fail THEN Release(u.s, {a.p, m.p, u.p}) ELSE [u.s EXCEPT !.x = x]
  BY <1>1 DEF PoolCreate
<1> HIDE DEF a
<1> DEFINE e == Wrap(n * c)
<1>9. m = Malloc(a.s, e) /\ e \in Nat \ {0} /\ e = n * c
  BY <1>6, <1>7
<1> HIDE DEF e
<1> DEFINE second == [p |-> m.p, n |-> e]
<1>10. second.p = m.p
  OBVIOUS
<1>11. ASSUME m.p = 0 PROVE m.s = a.s
  BY <1>3, <1>9, <1>11, MallocRefused
<1>12. ASSUME m.p # 0
       PROVE  /\ OnlyHeap(a.s, m.s) /\ m.s.heap = a.s.heap \cup {second} /\ HeapOK(m.s.heap)
              /\ m.p \in Nat \ {0} /\ \A k \in a.s.heap : k.p # m.p
  <2>1. /\ OnlyHeap(a.s, m.s) /\ m.s.heap = a.s.heap \cup {[p |-> m.p, n |-> e]} /\ HeapOK(m.s.heap)
        /\ m.p \in Nat \ {0} /\ \A k \in a.s.heap : k.p # m.p
    <3> HIDE DEF m
    <3> QED
      BY <1>3, <1>9, <1>12, MallocHeap, ZenonT(60)
  <2> HIDE DEF m
  <2> QED
    BY <2>1
<1> HIDE DEF second, m
<1>13. /\ OnlyHeap(s, m.s) /\ HeapOK(m.s.heap) /\ IsStore(m.s) /\ \A g \in m.s.heap : g.p \in {a.p, m.p}
       /\ m.p # 0 => m.p \in Nat \ {0} /\ m.p # a.p /\ m.s.heap = {first, second}
  <2>1. CASE m.p = 0
    BY <1>3, <1>4, <1>11, <2>1
  <2>2. CASE m.p # 0
    BY <1>3, <1>4, <1>10, <1>12, <2>2 DEF OnlyHeap
  <2> QED
    BY <2>1, <2>2
<1> DEFINE third == [p |-> u.p, n |-> c]
<1>14. third.p = u.p
  OBVIOUS
<1>15. ASSUME u.p = 0 PROVE u.s = m.s
  BY <1>5, <1>13, <1>15, MallocRefused
<1>16. ASSUME u.p # 0
       PROVE  /\ OnlyHeap(m.s, u.s) /\ u.s.heap = m.s.heap \cup {third} /\ HeapOK(u.s.heap)
              /\ u.p \in Nat \ {0} /\ \A k \in m.s.heap : k.p # u.p
  <2>1. /\ OnlyHeap(m.s, u.s) /\ u.s.heap = m.s.heap \cup {[p |-> u.p, n |-> c]} /\ HeapOK(u.s.heap)
        /\ u.p \in Nat \ {0} /\ \A k \in m.s.heap : k.p # u.p
    BY <1>5, <1>13, <1>16, MallocHeap
  <2> HIDE DEF u
  <2> QED
    BY <2>1
<1> HIDE DEF third, u
<1>17. /\ OnlyHeap(s, u.s) /\ HeapOK(u.s.heap) /\ IsStore(u.s) /\ \A g \in u.s.heap : g.p \in {a.p, m.p, u.p}
       /\ u.p # 0 => /\ u.p \in Nat \ {0} /\ \A k \in m.s.heap : k.p # u.p
                     /\ u.s.heap = m.s.heap \cup {third}
  <2>1. CASE u.p = 0
    BY <1>13, <1>15, <2>1
  <2>2. CASE u.p # 0
    BY <1>13, <1>14, <1>16, <2>2 DEF OnlyHeap
  <2> QED
    BY <2>1, <2>2
<1>18. CASE fail
  BY <1>8, <1>17, <1>18, ReleaseAll
<1>19. CASE ~fail
  <2>1. /\ x \in [kind : {"pool"}, h : {a.p}, buf : {m.p}, cap : {0}, pos : {0}, block : {n},
                  count : {c}, flags : {u.p}, used : {{}}]
    BY DEF NoAllocator
  <2> HIDE DEF x
  <2>2. /\ u.s.heap = {first, second, third}
        /\ u.p # a.p /\ u.p # m.p /\ m.p # a.p /\ u.p \in Nat \ {0} /\ m.p \in Nat \ {0}
    <3>1. m.p # 0 /\ u.p # 0
      BY <1>19
    <3>2. u.p # a.p /\ u.p # m.p
      BY <1>13, <1>17, <1>4, <1>10, <3>1
    <3> QED
      BY <1>13, <1>17, <3>1, <3>2
  <2>3. OwnBlocks(x) = u.s.heap
    BY <1>9, <2>1, <2>2 DEF OwnBlocks, Extent, first, second, third
  <2>4. AllocatorOK(u.s.heap, x)
    BY <1>3, <1>5, <2>1, <2>2, <2>3 DEF AllocatorOK
  <2>5. Sound(u.s.heap, x, {})
    BY <1>17, <2>1, <2>3, <2>4, Unheld
  <2> QED
    BY <1>8, <1>17, <1>19, <2>5 DEF Fresh, OnlyHeap, IsStore
<1> QED
  BY <1>18, <1>19

-----------------------------------------------------------------------------
\* The operations of the containers on a store: tiq_container_alloc, _dealloc and
\* writing.

\* Memory with v written at p, and with nothing at p.
Written(mem, p, v) == [q \in DOMAIN mem \cup {p} |-> IF q = p THEN v ELSE mem[q]]
Without(mem, p) == [q \in DOMAIN mem \ {p} |-> mem[q]]

\* Of t only the memory differs from s.
OnlyMem(s, t) == /\ IsStore(t) /\ t.limit = s.limit /\ t.heap = s.heap /\ t.x = s.x
                 /\ t.dead = s.dead /\ t.dropped = s.dropped

\* Writing changes memory only.
LEMMA PutStore ==
  ASSUME NEW s, IsStore(s), NEW p, NEW v
  PROVE  OnlyMem(s, Put(s, p, v)) /\ Put(s, p, v).mem = Written(s.mem, p, v)
  BY DEF IsStore, OnlyMem, Put, Written

\* A block given up changes memory only.
LEMMA ForgetStore ==
  ASSUME NEW s, IsStore(s), NEW p
  PROVE  OnlyMem(s, Forget(s, {p})) /\ Forget(s, {p}).mem = Without(s.mem, p)
  BY DEF IsStore, OnlyMem, Forget, Without

\* A block let go is added to those that were dropped.
LEMMA LoseStore ==
  ASSUME NEW s, IsStore(s), NEW b
  PROVE  LET t == Lose(s, b)
         IN  /\ IsStore(t) /\ t.limit = s.limit /\ t.heap = s.heap /\ t.x = s.x
             /\ t.dead = s.dead /\ t.mem = s.mem /\ t.dropped = s.dropped \cup {b}
  BY DEF IsStore, Lose

\* exit changes nothing but that the process is dead.
LEMMA ExitStore ==
  ASSUME NEW s, IsStore(s)
  PROVE  LET t == Exit(s)
         IN  /\ IsStore(t) /\ t.limit = s.limit /\ t.heap = s.heap /\ t.x = s.x
             /\ t.dead = TRUE /\ t.mem = s.mem /\ t.dropped = s.dropped
  BY DEF IsStore, Exit

\* malloc neither ends the process nor breaks the store.
LEMMA MallocStore ==
  ASSUME NEW s, IsStore(s), NEW n
  PROVE  LET t == Malloc(s, n).s IN IsStore(t) /\ t.dead = s.dead
  BY DEF IsStore, Malloc, NoRoom

\* tiq_allocator_alloc neither ends the process nor breaks the store.
LEMMA AllocatorAllocStore ==
  ASSUME NEW s, IsStore(s), NEW n, NEW al
  PROVE  LET t == AllocatorAlloc(s, n, al).s IN IsStore(t) /\ t.dead = s.dead
<1>1. LET t == Malloc(s, n).s IN IsStore(t) /\ t.dead = s.dead
  BY MallocStore
<1>2. LET t == ArenaAlloc(s, n, al).s IN IsStore(t) /\ t.dead = s.dead
  <2> DEFINE u == [s EXCEPT !.x = [s.x EXCEPT !.pos = AlignUp(s.x.pos, al) + n]]
  <2>1. IsStore(u) /\ u.dead = s.dead
    BY DEF IsStore
  <2>2. ArenaAlloc(s, n, al).s \in {s, u}
    BY DEF ArenaAlloc, NoRoom
  <2> HIDE DEF u
  <2> QED
    BY <2>1, <2>2
<1>3. LET t == PoolAlloc(s, n, al).s IN IsStore(t) /\ t.dead = s.dead
  <2> DEFINE free == (0..(s.x.count - 1)) \ s.x.used
             u == [s EXCEPT !.x = [s.x EXCEPT !.used = s.x.used \cup {Least(free)}]]
  <2>1. IsStore(u) /\ u.dead = s.dead
    BY DEF IsStore
  <2>2. PoolAlloc(s, n, al).s \in {s, u}
    BY DEF PoolAlloc, NoRoom
  <2> HIDE DEF u
  <2> QED
    BY <2>1, <2>2
<1>4. AllocatorAlloc(s, n, al).s \in {s, Malloc(s, n).s, ArenaAlloc(s, n, al).s, PoolAlloc(s, n, al).s}
  BY DEF AllocatorAlloc, NoRoom
<1> QED
  BY <1>1, <1>2, <1>3, <1>4

\* tiq_allocator_dealloc writes nothing and does not end the process.
LEMMA DeallocStore ==
  ASSUME NEW s, IsStore(s), NEW p
  PROVE  LET t == AllocatorDealloc(s, p) IN IsStore(t) /\ t.dead = s.dead /\ t.mem = s.mem
<1>1. LET t == Release(s, {p}) IN IsStore(t) /\ t.dead = s.dead /\ t.mem = s.mem
  BY DEF IsStore, Release
<1>2. LET t == PoolDealloc(s, p) IN IsStore(t) /\ t.dead = s.dead /\ t.mem = s.mem
  BY DEF IsStore, PoolDealloc
<1>3. AllocatorDealloc(s, p) \in {s, Release(s, {p}), PoolDealloc(s, p)}
  BY DEF AllocatorDealloc
<1> QED
  BY <1>1, <1>2, <1>3

\* A process that has ended stays so.
LEMMA TakeStore ==
  ASSUME NEW s, IsStore(s), NEW a, NEW n, NEW al
  PROVE  LET t == Take(s, a, n, al).s IN IsStore(t) /\ (s.dead => t.dead)
<1> DEFINE r == IF a = 0 THEN Malloc(s, n) ELSE AllocatorAlloc(s, n, al)
<1>1. IsStore(r.s) /\ r.s.dead = s.dead
  BY MallocStore, AllocatorAllocStore
<1>2. IsStore(Exit(s)) /\ Exit(s).dead = TRUE
  BY ExitStore
<1>3. Take(s, a, n, al).s = IF s.dead \/ r.p = 0 THEN Exit(s) ELSE r.s
  BY DEF Take, NoRoom
<1> HIDE DEF r
<1> QED
  BY <1>1, <1>2, <1>3

\* tiq_container_dealloc forgets what the block held.
LEMMA DropStore ==
  ASSUME NEW s, IsStore(s), NEW b
  PROVE  LET t == Drop(s, b)
         IN  /\ IsStore(t) /\ t.dead = s.dead
             /\ t.mem = IF b.p = 0 THEN s.mem ELSE Without(s.mem, b.p)
<1> DEFINE f == Forget(s, {b.p})
<1>1. IsStore(f) /\ f.dead = s.dead /\ f.mem = Without(s.mem, b.p)
  BY ForgetStore DEF OnlyMem
<1>2. Drop(s, b) \in {IF b.p = 0 THEN s ELSE Lose(f, b), IF b.p = 0 THEN s ELSE AllocatorDealloc(f, b.p)}
  BY DEF Drop
<1> HIDE DEF f
<1>3. LET t == Lose(f, b) IN IsStore(t) /\ t.dead = f.dead /\ t.mem = f.mem
  BY <1>1, LoseStore
<1>4. LET t == AllocatorDealloc(f, b.p) IN IsStore(t) /\ t.dead = f.dead /\ t.mem = f.mem
  BY <1>1, DeallocStore
<1> QED
  BY <1>1, <1>2, <1>3, <1>4

\* The blocks of G are held, beside those that were let go.
BlockSet(h) == [p : Nat, n : Nat, al : Nat, a : {0, h}]
Kept(s, G) == /\ IsStore(s) /\ s.dropped \subseteq BlockSet(s.x.h)
              /\ Sound(s.heap, s.x, G \cup Loose("dropped", s.dropped))
              /\ G \cap Loose("dropped", s.dropped) = {}
Like(s, t) == t.x.h = s.x.h /\ t.x.kind = s.x.kind /\ t.dead = s.dead

\* The block b under any name.
Names(b, p, n, al, a) == b.p = p /\ b.n = n /\ b.al = al /\ b.a = a

\* Two held blocks have two addresses.
LEMMA KeptApart ==
  ASSUME NEW s, NEW G, Kept(s, G), NEW b \in G, NEW c \in G, b # c
  PROVE  b.p # c.p
  BY Distinct DEF Kept

\* The numbers of a held block.
LEMMA KeptTyped ==
  ASSUME NEW s, NEW G, Kept(s, G), NEW b \in G
  PROVE  b.p \in Nat \ {0} /\ b.n \in Nat \ {0} /\ b.al \in Nat /\ b.a \in {0, s.x.h}
  BY DEF Kept, Sound, Homes, Home, Sized

\* b is a new block, taken by r.
Taken(s, r, G, b) == /\ Kept(r.s, G \cup {b}) /\ Like(s, r.s) /\ r.s.mem = s.mem
                     /\ r.p \in Nat \ {0} /\ ~s.dead /\ \A c \in G : c.p # r.p
Dropped(s, t, G, c) == Kept(t, G \ {c}) /\ Like(s, t) /\ t.mem = Without(s.mem, c.p)

\* tiq_container_alloc: a new block beside those that are held.
LEMMA TakeKept ==
  ASSUME NEW s, NEW G, Kept(s, G), NEW a \in {0, s.x.h},
         NEW n \in Nat \ {0}, NEW al \in {1, MaxAlign}, ~Take(s, a, n, al).s.dead,
         NEW b, Names(b, Take(s, a, n, al).p, n, al, a)
  PROVE  Taken(s, Take(s, a, n, al), G, b)
<1> DEFINE D == Loose("dropped", s.dropped)
           H == G \cup D
           r == Take(s, a, n, al)
<1>1. IsStore(s) /\ Sound(s.heap, s.x, H) /\ G \cap D = {} /\ s.dropped \subseteq BlockSet(s.x.h)
  BY DEF Kept
<1> HIDE DEF H
<1>2. Got(s, r, H, b) /\ ~s.dead
  BY <1>1, TakeSound DEF Names
<1> HIDE DEF r
<1>3. \A c \in H : Apart(c, b)
  BY <1>2 DEF Got
<1>4. \A c \in H \cup {b} : c.p \in Nat /\ c.n \in Nat \ {0}
  BY <1>2 DEF Got, Sound, Homes, Home, Sized
<1>5. \A c \in H : c.p # b.p
  BY <1>3, <1>4 DEF Apart
<1>6. b.p = r.p
  BY DEF Names, r
<1>7. (G \cup {b}) \cap D = {}
  BY <1>1, <1>5 DEF H
<1>8. H \cup {b} = (G \cup {b}) \cup D
  BY DEF H
<1>9. Follows(s, r.s) /\ r.p \in Nat \ {0} /\ Sound(r.s.heap, r.s.x, H \cup {b})
  BY <1>2 DEF Got
<1>10. Loose("dropped", r.s.dropped) = D
  BY <1>9 DEF Follows
<1>11. Kept(r.s, G \cup {b})
  BY <1>1, <1>7, <1>8, <1>9, <1>10 DEF Kept, Follows
<1> QED
  BY <1>2, <1>5, <1>6, <1>9, <1>11 DEF Taken, Like, Follows, r, H

\* Writing leaves the held blocks as they are.
LEMMA PutKept ==
  ASSUME NEW s, NEW G, Kept(s, G), NEW p, NEW v
  PROVE  Kept(Put(s, p, v), G) /\ Like(s, Put(s, p, v)) /\ Put(s, p, v).mem = Written(s.mem, p, v)
<1>1. OnlyMem(s, Put(s, p, v)) /\ Put(s, p, v).mem = Written(s.mem, p, v)
  BY PutStore DEF Kept
<1> HIDE DEF Put
<1> QED
  BY <1>1 DEF OnlyMem, Kept, Like

\* A held block may go by another name.
LEMMA Renamed ==
  ASSUME NEW heap, NEW x, NEW H, Sound(heap, x, H), NEW c \in H, NEW d, Names(d, c.p, c.n, c.al, c.a)
  PROVE  Sound(heap, x, (H \ {c}) \cup {d})
<1>1. HeapOK(heap) /\ AllocatorOK(heap, x) /\ Homes(heap, x, H) /\ Disjoint(H) /\ Covered(heap, x, H)
  BY DEF Sound
<1>2. Home(heap, x, d)
  <2>1. Home(heap, x, c)
    BY <1>1 DEF Homes
  <2> QED
    BY <2>1 DEF Names, Home, Sized, OnHeap, HeapHome, ArenaHome, PoolHome
<1>3. Disjoint((H \ {c}) \cup {d})
  BY <1>1 DEF Names, Disjoint, Apart
<1>4. Covered(heap, x, (H \ {c}) \cup {d})
  BY <1>1 DEF Names, Covered
<1> QED
  BY <1>1, <1>2, <1>3, <1>4 DEF Sound, Homes

\* A block let go is still accounted for.
LEMMA LoseKept ==
  ASSUME NEW s, NEW G, Kept(s, G), NEW c \in G, NEW b, b = Block(c.p, c.n, c.al, c.a)
  PROVE  Kept(Lose(s, b), G \ {c}) /\ Like(s, Lose(s, b)) /\ Lose(s, b).mem = s.mem
<1> DEFINE D == Loose("dropped", s.dropped)
           d == Owned(<<"dropped", "block", b.p>>, b)
           t == Lose(s, b)
<1>1. /\ IsStore(t) /\ t.heap = s.heap /\ t.x = s.x
      /\ t.dead = s.dead /\ t.mem = s.mem /\ t.dropped = s.dropped \cup {b}
  BY LoseStore DEF Kept
<1> HIDE DEF t
<1>2. Loose("dropped", t.dropped) = D \cup {d}
  BY <1>1 DEF Loose
<1>3. Names(d, c.p, c.n, c.al, c.a) /\ d.p = c.p
  BY DEF Owned, Block, Names
<1> HIDE DEF d
<1>4. c.p \in Nat /\ c.n \in Nat /\ c.al \in Nat /\ c.a \in {0, s.x.h}
  BY KeptTyped
<1>5. b \in BlockSet(s.x.h)
  BY <1>4 DEF Block, BlockSet
<1>6. Sound(s.heap, s.x, ((G \cup D) \ {c}) \cup {d}) /\ G \cap D = {}
  BY <1>3, Renamed DEF Kept
<1>7. ((G \cup D) \ {c}) \cup {d} = (G \ {c}) \cup (D \cup {d})
  BY <1>6
<1>8. \A e \in G \ {c} : e.p # c.p
  BY KeptApart
<1>9. (G \ {c}) \cap (D \cup {d}) = {}
  BY <1>3, <1>6, <1>8
<1>10. Kept(t, G \ {c})
  <2> HIDE DEF D
  <2> QED
    BY <1>1, <1>2, <1>5, <1>6, <1>7, <1>9 DEF Kept
<1> QED
  BY <1>1, <1>10 DEF Like, t

\* tiq_container_dealloc of a held block: the others stay held.
LEMMA DropKept ==
  ASSUME NEW s, NEW G, Kept(s, G), NEW c \in G, NEW b, b = Block(c.p, c.n, c.al, c.a)
  PROVE  Dropped(s, Drop(s, b), G, c)
<1> DEFINE D == Loose("dropped", s.dropped)
           f == Forget(s, {b.p})
           t == Drop(s, b)
<1>1. b.p = c.p /\ b.a = c.a
  BY DEF Block
<1>2. OnlyMem(s, f) /\ f.mem = Without(s.mem, b.p)
  BY ForgetStore DEF Kept
<1>3. c.p # 0
  BY KeptTyped
<1>4. t = IF b.a = 0 THEN Lose(f, b) ELSE AllocatorDealloc(f, b.p)
  BY <1>1, <1>3 DEF Drop
<1> HIDE DEF f, t
<1>5. Kept(f, G) /\ Like(s, f)
  BY <1>2 DEF OnlyMem, Kept, Like
<1>6. CASE b.a = 0
  <2>1. Kept(t, G \ {c}) /\ Like(f, t) /\ t.mem = f.mem
    BY <1>4, <1>5, <1>6, LoseKept
  <2> QED
    BY <1>1, <1>2, <1>5, <2>1 DEF Dropped, Like, t
<1>7. CASE b.a # 0
  <2>1. c.a = f.x.h /\ c.a # 0
    BY <1>1, <1>5, <1>7, KeptTyped
  <2>2. Sound(f.heap, f.x, G \cup D) /\ G \cap D = {} /\ f.dropped = s.dropped /\ IsStore(f)
    BY <1>2, <1>5 DEF Kept, OnlyMem
  <2> HIDE DEF D
  <2>3. Follows(f, t) /\ Sound(t.heap, t.x, (G \cup D) \ {c})
    BY <1>1, <1>4, <1>7, <2>1, <2>2, DeallocSound
  <2>4. (G \cup D) \ {c} = (G \ {c}) \cup D
    BY <2>2
  <2>5. Loose("dropped", t.dropped) = D /\ t.dropped \subseteq BlockSet(t.x.h)
    BY <1>5, <2>2, <2>3 DEF D, Follows, Kept
  <2>6. Kept(t, G \ {c})
    BY <2>2, <2>3, <2>4, <2>5 DEF Kept, Follows
  <2> QED
    BY <1>1, <1>2, <1>5, <2>3, <2>6 DEF Dropped, Like, Follows, t
<1> QED
  BY <1>6, <1>7

-----------------------------------------------------------------------------
\* What is not written stays.

\* Where B says, next holds what mem held.
Agree(mem, next, B) ==
  \A b \in B : b.p \in DOMAIN mem => b.p \in DOMAIN next /\ next[b.p] = mem[b.p]

\* At the address of a block of B, memory is as it was.
LEMMA AgreeAt ==
  ASSUME NEW mem, NEW next, NEW B, Agree(mem, next, B), NEW b \in B, NEW p \in DOMAIN mem, b.p = p
  PROVE  p \in DOMAIN next /\ next[p] = mem[p]
  BY DEF Agree

\* Strings that are not written stay.
LEMMA StringsFrame ==
  ASSUME NEW mem, NEW next, NEW ps \in Seq(Nat), NEW S, StringsOK(mem, ps, S), NEW what, NEW a,
         Agree(mem, next, Strs(mem, ps, what, a))
  PROVE  /\ \A i \in 1..Len(ps) : ps[i] \in DOMAIN next /\ next[ps[i]] = mem[ps[i]]
         /\ StringsOK(next, ps, S) /\ Strs(next, ps, what, a) = Strs(mem, ps, what, a)
<1>1. ASSUME NEW i \in 1..Len(ps) PROVE ps[i] \in DOMAIN next /\ next[ps[i]] = mem[ps[i]]
  <2> DEFINE b == Owned(<<what, "string", i>>, StrBlock(mem, ps[i], a))
  <2>1. b \in Strs(mem, ps, what, a)
    BY DEF Strs
  <2>2. b.p = ps[i]
    BY DEF Owned, StrBlock, Block
  <2>3. ps[i] \in DOMAIN mem
    BY DEF StringsOK
  <2> HIDE DEF b
  <2> QED
    BY <2>1, <2>2, <2>3, AgreeAt
<1>2. StringsOK(next, ps, S)
  BY <1>1 DEF StringsOK
<1>3. Strs(next, ps, what, a) = Strs(mem, ps, what, a)
  BY <1>1 DEF Strs, StrBlock
<1> QED
  BY <1>1, <1>2, <1>3

\* A map none of whose blocks is written stays.
LEMMA MapFrame ==
  ASSUME NEW mem, NEW next, NEW p, NEW h, MapOK(mem, p, h), Agree(mem, next, MapBlocks(mem, p))
  PROVE  MapOK(next, p, h) /\ MapBlocks(next, p) = MapBlocks(mem, p) /\ next[p] = mem[p]
<1> DEFINE m == mem[p]
           ks == Contents(mem, m.keys)
           vs == Contents(mem, m.vals)
           B == MapBlocks(mem, p)
<1>1. p \in DOMAIN mem /\ m.buckets \in DOMAIN mem /\ ks \in Seq(Nat) /\ StringsOK(mem, ks, Key)
      /\ (m.cap # 0 => m.keys \in DOMAIN mem /\ m.vals \in DOMAIN mem)
      /\ (m.cap = 0 => m.keys = 0 /\ m.vals = 0)
  BY DEF MapOK
<1>2. next[p] = m /\ p \in DOMAIN next
  <2> DEFINE b == Owned(<<"map", "header", 0>>, Block(p, MapBytes, MaxAlign, m.a))
  <2>1. b \in B /\ b.p = p
    BY DEF MapBlocks, Owned, Block
  <2> HIDE DEF b, B
  <2> QED
    BY <1>1, <2>1, AgreeAt DEF B
<1>3. next[m.buckets] = mem[m.buckets] /\ m.buckets \in DOMAIN next
  <2> DEFINE b == Owned(<<"map", "buckets", 0>>, Words(m.buckets, m.nbuckets, m.a))
  <2>1. b \in B /\ b.p = m.buckets
    BY DEF MapBlocks, Owned, Block, Words
  <2> HIDE DEF b, B
  <2> QED
    BY <1>1, <2>1, AgreeAt DEF B
<1>4. m.cap # 0 => next[m.keys] = mem[m.keys] /\ m.keys \in DOMAIN next
  <2> DEFINE b == Owned(<<"map", "keys", 0>>, Words(m.keys, m.cap, m.a))
  <2>1. m.cap # 0 => b \in B /\ b.p = m.keys
    BY DEF MapBlocks, Owned, Block, Words
  <2> HIDE DEF b, B
  <2> QED
    BY <1>1, <2>1, AgreeAt DEF B
<1>5. m.cap # 0 => next[m.vals] = mem[m.vals] /\ m.vals \in DOMAIN next
  <2> DEFINE b == Owned(<<"map", "vals", 0>>, Words(m.vals, m.cap, m.a))
  <2>1. m.cap # 0 => b \in B /\ b.p = m.vals
    BY DEF MapBlocks, Owned, Block, Words
  <2> HIDE DEF b, B
  <2> QED
    BY <1>1, <2>1, AgreeAt DEF B
<1>6. Contents(next, m.keys) = ks /\ Contents(next, m.vals) = vs
  BY <1>1, <1>4, <1>5 DEF Contents
<1>7. Agree(mem, next, Strs(mem, ks, "map", m.a))
  BY DEF MapBlocks, Agree
<1>8. /\ \A i \in 1..Len(ks) : ks[i] \in DOMAIN next /\ next[ks[i]] = mem[ks[i]]
      /\ StringsOK(next, ks, Key) /\ Strs(next, ks, "map", m.a) = Strs(mem, ks, "map", m.a)
  <2> HIDE DEF ks
  <2> QED
    BY <1>1, <1>7, StringsFrame
<1>9. Different(next, ks) /\ Hashes(next, ks) = Hashes(mem, ks)
  <2>1. Different(mem, ks) /\ Len(ks) \in Nat
    BY <1>1 DEF MapOK
  <2>2. Different(next, ks)
    BY <1>8, <2>1 DEF Different
  <2>3. \A e \in 0..(Len(ks) - 1) : next[ks[e + 1]] = mem[ks[e + 1]]
    BY <1>8, <2>1
  <2> HIDE DEF ks
  <2>4. Hashes(next, ks) = Hashes(mem, ks)
    BY <2>3 DEF Hashes
  <2> QED
    BY <2>2, <2>4
<1>10. MapBlocks(next, p) = MapBlocks(mem, p)
  BY <1>2, <1>6, <1>8 DEF MapBlocks
<1>11. MapOK(next, p, h)
  <2>1. next[p] = m /\ Contents(next, m.keys) = ks /\ Contents(next, m.vals) = vs
    BY <1>2, <1>6
  <2>2. next[m.buckets] = mem[m.buckets]
    BY <1>3
  <2>3. {p, m.buckets} \subseteq DOMAIN next
        /\ IF m.cap = 0 THEN m.keys = 0 /\ m.vals = 0 ELSE {m.keys, m.vals} \subseteq DOMAIN next
    BY <1>1, <1>2, <1>3, <1>4, <1>5
  <2> QED
    BY <1>8, <1>9, <2>1, <2>2, <2>3 DEF MapOK
<1> QED
  BY <1>2, <1>10, <1>11

\* A vec none of whose blocks is written stays.
LEMMA VecFrame ==
  ASSUME NEW mem, NEW next, NEW p, NEW h, NEW strings \in BOOLEAN, VecOK(mem, p, h, strings),
         Agree(mem, next, VecBlocks(mem, p, strings))
  PROVE  /\ VecOK(next, p, h, strings) /\ VecBlocks(next, p, strings) = VecBlocks(mem, p, strings)
         /\ next[p] = mem[p]
<1> DEFINE v == mem[p]
           xs == Contents(mem, v.data)
           B == VecBlocks(mem, p, strings)
<1>1. p \in DOMAIN mem /\ (strings => xs \in Seq(Nat) /\ StringsOK(mem, xs, Value))
      /\ (v.cap # 0 => v.data \in DOMAIN mem) /\ (v.cap = 0 => v.data = 0)
  BY DEF VecOK
<1>2. next[p] = v /\ p \in DOMAIN next
  <2> DEFINE b == Owned(<<"vec", "header", 0>>, Block(p, VecBytes, MaxAlign, v.a))
  <2>1. b \in B /\ b.p = p
    BY DEF VecBlocks, Owned, Block
  <2> HIDE DEF b, B
  <2> QED
    BY <1>1, <2>1, AgreeAt DEF B
<1>3. v.cap # 0 => next[v.data] = mem[v.data] /\ v.data \in DOMAIN next
  <2> DEFINE b == Owned(<<"vec", "cells", 0>>, Words(v.data, v.cap, v.a))
  <2>1. v.cap # 0 => b \in B /\ b.p = v.data
    BY DEF VecBlocks, Owned, Block, Words
  <2> HIDE DEF b, B
  <2> QED
    BY <1>1, <2>1, AgreeAt DEF B
<1>4. Contents(next, v.data) = xs
  BY <1>1, <1>3 DEF Contents
<1>5. ASSUME strings
      PROVE  StringsOK(next, xs, Value) /\ Strs(next, xs, "vec", v.a) = Strs(mem, xs, "vec", v.a)
  <2>1. Agree(mem, next, Strs(mem, xs, "vec", v.a))
    BY <1>5 DEF VecBlocks, Agree
  <2>2. xs \in Seq(Nat) /\ StringsOK(mem, xs, Value)
    BY <1>1, <1>5
  <2> HIDE DEF v, xs, B
  <2>3. StringsOK(next, xs, Value) /\ \A i \in 1..Len(xs) : next[xs[i]] = mem[xs[i]]
    BY <2>1, <2>2, StringsFrame
  <2>4. Strs(next, xs, "vec", v.a) = Strs(mem, xs, "vec", v.a)
    BY <2>3 DEF Strs, StrBlock
  <2> QED
    BY <2>3, <2>4
<1>6. VecBlocks(next, p, strings) = VecBlocks(mem, p, strings)
  BY <1>2, <1>4, <1>5 DEF VecBlocks
<1>7. VecOK(next, p, h, strings)
  <2>1. next[p] = v /\ Contents(next, v.data) = xs
    BY <1>2, <1>4
  <2>2. p \in DOMAIN next /\ IF v.cap = 0 THEN v.data = 0 ELSE v.data \in DOMAIN next
    BY <1>1, <1>2, <1>3
  <2> QED
    BY <1>5, <2>1, <2>2 DEF VecOK
<1> QED
  BY <1>2, <1>6, <1>7

\* A builder none of whose blocks is written stays.
LEMMA BufFrame ==
  ASSUME NEW mem, NEW next, NEW p, NEW h, BufOK(mem, p, h), Agree(mem, next, BufBlocks(mem, p))
  PROVE  BufOK(next, p, h) /\ BufBlocks(next, p) = BufBlocks(mem, p)
<1> DEFINE v == mem[p]
           B == BufBlocks(mem, p)
<1>1. p \in DOMAIN mem /\ v.data \in DOMAIN mem
  BY DEF BufOK
<1>2. next[p] = v /\ p \in DOMAIN next
  <2> DEFINE b == Owned(<<"buf", "header", 0>>, Block(p, BufBytes, MaxAlign, v.a))
  <2>1. b \in B /\ b.p = p
    BY DEF BufBlocks, Owned, Block
  <2> HIDE DEF b, B
  <2> QED
    BY <1>1, <2>1, AgreeAt DEF B
<1>3. next[v.data] = mem[v.data] /\ v.data \in DOMAIN next
  <2> DEFINE b == Owned(<<"buf", "text", 0>>, Block(v.data, v.cap, 1, v.a))
  <2>1. b \in B /\ b.p = v.data
    BY DEF BufBlocks, Owned, Block
  <2> HIDE DEF b, B
  <2> QED
    BY <1>1, <2>1, AgreeAt DEF B
<1> QED
  BY <1>2, <1>3 DEF BufOK, BufBlocks

\* A string that is not written stays.
LEMMA SnapFrame ==
  ASSUME NEW mem, NEW next, NEW p, SnapOK(mem, p), Agree(mem, next, SnapBlocks(mem, p))
  PROVE  SnapOK(next, p) /\ SnapBlocks(next, p) = SnapBlocks(mem, p)
<1> DEFINE b == Owned(<<"snap", "text", 0>>, Block(p, mem[p].n + 1, MaxAlign, 0))
<1>1. b \in SnapBlocks(mem, p) /\ b.p = p
  BY DEF SnapBlocks, Owned, Block
<1>2. p \in DOMAIN mem
  BY DEF SnapOK
<1> HIDE DEF b
<1>3. next[p] = mem[p] /\ p \in DOMAIN next
  BY <1>1, <1>2, AgreeAt
<1> QED
  BY <1>3 DEF SnapOK, SnapBlocks

-----------------------------------------------------------------------------
\* The buckets of a map.

\* The probes for a hash look at every bucket.
LEMMA ProbeRange ==
  ASSUME NEW n \in Nat \ {0}, NEW h \in Nat
  PROVE  /\ \A i \in 0..(n - 1) : Probe(h, n, i) \in 0..(n - 1)
         /\ \A q \in 0..(n - 1) : \E i \in 0..(n - 1) : Probe(h, n, i) = q
<1>1. PICK r \in 0..(n - 1) : r = h % n
  OBVIOUS
<1>2. \A i : Probe(h, n, i) = IF r + i < n THEN r + i ELSE r + i - n
  BY <1>1 DEF Probe
<1>3. \A i \in 0..(n - 1) : Probe(h, n, i) \in 0..(n - 1)
  BY <1>2
<1>4. ASSUME NEW q \in 0..(n - 1) PROVE \E i \in 0..(n - 1) : Probe(h, n, i) = q
  <2>1. CASE q >= r
    <3>1. q - r \in 0..(n - 1) /\ Probe(h, n, q - r) = q
      BY <1>2, <2>1
    <3> QED
      BY <3>1
  <2>2. CASE q < r
    <3>1. q - r + n \in 0..(n - 1) /\ Probe(h, n, q - r + n) = q
      BY <1>2, <2>2
    <3> QED
      BY <3>1
  <2> QED
    BY <2>1, <2>2
<1> QED
  BY <1>3, <1>4

\* There are n numbers below n.
LEMMA IntervalSize ==
  \A n \in Nat : IsFiniteSet(0..(n - 1)) /\ Cardinality(0..(n - 1)) = n
<1>1. \A b \in Int : IsFiniteSet(0..b) /\ Cardinality(0..b) = IF 0 > b THEN 0 ELSE b - 0 + 1
  BY FS_Interval
<1> QED
  BY <1>1

\* The load factor leaves a free bucket.
LEMMA FreeBucket ==
  ASSUME NEW n \in Nat \ {0}, NEW len \in Nat, len < n, NEW bs, NEW hs, Bucketed(bs, n, hs, len)
  PROVE  \E q \in 0..(n - 1) : bs[q] < 0
<1>1. SUFFICES ASSUME \A q \in 0..(n - 1) : ~(bs[q] < 0) PROVE FALSE
  OBVIOUS
<1> DEFINE S == 0..(n - 1)
           T == 0..(len - 1)
<1>2. bs \in [S -> -1..(len - 1)] /\ \A i, j \in S : bs[i] >= 0 /\ bs[i] = bs[j] => i = j
  BY DEF Bucketed
<1>3. \A q \in S : bs[q] \in -1..(len - 1) /\ ~(bs[q] < 0)
  BY <1>1, <1>2
<1>4. \A q \in S : bs[q] \in T /\ bs[q] >= 0
  BY <1>3
<1>5. bs \in [S -> T]
  BY <1>2, <1>4
<1>6. IsFiniteSet(S) /\ IsFiniteSet(T) /\ Cardinality(S) = n /\ Cardinality(T) = len
  BY IntervalSize
<1>7. \E i, j \in S : i # j /\ bs[i] = bs[j]
  <2> HIDE DEF S, T
  <2> QED
    BY <1>5, <1>6, FS_PigeonHole
<1> QED
  BY <1>2, <1>4, <1>7

\* tiq_map_place puts an entry into the first free bucket that its probe meets.
LEMMA PlaceFirst ==
  ASSUME NEW n \in Nat \ {0}, NEW h \in Nat, NEW bs, NEW e, \E q \in 0..(n - 1) : bs[q] < 0
  PROVE  \E i \in 0..(n - 1) :
            /\ bs[Probe(h, n, i)] < 0 /\ \A k \in 0..(i - 1) : ~(bs[Probe(h, n, k)] < 0)
<1> DEFINE S == {i \in 0..(n - 1) : bs[Probe(h, n, i)] < 0}
<1>1. S # {} /\ S \in SUBSET Nat
  <2>1. PICK q \in 0..(n - 1) : bs[q] < 0
    OBVIOUS
  <2>2. PICK i \in 0..(n - 1) : Probe(h, n, i) = q
    BY ProbeRange
  <2>3. i \in S
    BY <2>1, <2>2
  <2> QED
    BY <2>3
<1>2. PICK i \in S : \A k \in S : i <= k
  <2> HIDE DEF S
  <2> QED
    BY <1>1, LeastNat
<1>3. \A k \in 0..(i - 1) : k \notin S /\ k \in 0..(n - 1)
  BY <1>2
<1> QED
  BY <1>2, <1>3

\* tiq_map_place of the next entry keeps every entry within its probe's reach.
LEMMA PlaceBucketed ==
  ASSUME NEW n \in Nat \ {0}, NEW h \in Nat, NEW len \in Nat, len < n,
         NEW bs, NEW hs, Bucketed(bs, n, hs, len), \A e \in 0..(len - 1) : hs[e] \in Nat,
         NEW more, \A e \in 0..(len - 1) : more[e] = hs[e], more[len] = h
  PROVE  Bucketed(Place(bs, n, h, len), n, more, len + 1)
<1>1. /\ bs \in [0..(n - 1) -> -1..(len - 1)]
      /\ \A i, j \in 0..(n - 1) : bs[i] >= 0 /\ bs[i] = bs[j] => i = j
      /\ \A e \in 0..(len - 1) : Reached(bs, n, hs[e], e)
  BY DEF Bucketed
<1>2. \A i \in 0..(n - 1) : Probe(h, n, i) \in 0..(n - 1)
  BY ProbeRange
<1>3. PICK i \in 0..(n - 1) : /\ Place(bs, n, h, len) = [bs EXCEPT ![Probe(h, n, i)] = len]
                              /\ bs[Probe(h, n, i)] < 0
                              /\ \A k \in 0..(i - 1) : bs[Probe(h, n, k)] >= 0
  <2> DEFINE P(j) == /\ bs[Probe(h, n, j)] < 0
                     /\ \A k \in 0..(j - 1) : bs[Probe(h, n, k)] >= 0
  <2>1. \E j \in 0..(n - 1) : /\ bs[Probe(h, n, j)] < 0
                              /\ \A k \in 0..(j - 1) : ~(bs[Probe(h, n, k)] < 0)
    BY FreeBucket, PlaceFirst
  <2>2. ASSUME NEW j \in 0..(n - 1), NEW k \in 0..(j - 1), ~(bs[Probe(h, n, k)] < 0)
        PROVE  bs[Probe(h, n, k)] >= 0
    <3>1. k \in 0..(n - 1)
      OBVIOUS
    <3>2. bs[Probe(h, n, k)] \in -1..(len - 1)
      BY <1>1, <1>2, <3>1
    <3> QED
      BY <2>2, <3>2
  <2>3. \E j \in 0..(n - 1) : P(j)
    BY <2>1, <2>2
  <2>4. P(CHOOSE j \in 0..(n - 1) : P(j)) /\ (CHOOSE j \in 0..(n - 1) : P(j)) \in 0..(n - 1)
    <3> HIDE DEF P
    <3> QED
      BY <2>3
  <2>5. Place(bs, n, h, len) = [bs EXCEPT ![Probe(h, n, CHOOSE j \in 0..(n - 1) : P(j))] = len]
    BY DEF Place
  <2> DEFINE c == CHOOSE j \in 0..(n - 1) : P(j)
  <2>6. c \in 0..(n - 1) /\ P(c) /\ Place(bs, n, h, len) = [bs EXCEPT ![Probe(h, n, c)] = len]
    BY <2>4, <2>5
  <2> HIDE DEF c
  <2> QED
    BY <2>6
<1> DEFINE q == Probe(h, n, i)
           new == Place(bs, n, h, len)
<1>4. q \in 0..(n - 1) /\ bs[q] < 0 /\ new = [bs EXCEPT ![q] = len]
  BY <1>2, <1>3
<1>5. \A k \in 0..(i - 1) : bs[Probe(h, n, k)] >= 0 /\ k \in 0..(n - 1)
  BY <1>3
<1> HIDE DEF new
<1>6. Probe(h, n, i) = q
  OBVIOUS
<1> HIDE DEF q
<1>7. /\ new \in [0..(n - 1) -> -1..len] /\ new[q] = len
      /\ \A k \in 0..(n - 1) : k # q => new[k] = bs[k]
  <2>1. new[q] = len /\ DOMAIN new = 0..(n - 1) /\ \A k \in 0..(n - 1) : k # q => new[k] = bs[k]
    BY <1>1, <1>4
  <2>2. ASSUME NEW k \in 0..(n - 1) PROVE new[k] \in -1..len
    <3>1. bs[k] \in -1..(len - 1)
      BY <1>1
    <3> QED
      BY <2>1, <3>1
  <2>3. new = [k \in 0..(n - 1) |-> new[k]]
    BY <1>1, <1>4
  <2> QED
    BY <2>1, <2>2, <2>3
<1>8. \A k \in 0..(n - 1) : bs[k] >= 0 => new[k] >= 0 /\ new[k] = bs[k]
  BY <1>1, <1>4, <1>7
<1>9. ASSUME NEW k \in 0..(n - 1), NEW j \in 0..(n - 1), new[k] >= 0, new[k] = new[j] PROVE k = j
  <2>1. bs[k] \in -1..(len - 1) /\ bs[j] \in -1..(len - 1)
    BY <1>1
  <2> QED
    BY <1>1, <1>4, <1>7, <1>9, <2>1
<1>10. ASSUME NEW e \in 0..(len - 1) PROVE Reached(new, n, more[e], e)
  <2>1. PICK j \in 0..(n - 1) : /\ bs[Probe(hs[e], n, j)] = e
                                /\ \A k \in 0..(j - 1) : bs[Probe(hs[e], n, k)] >= 0
    BY <1>1 DEF Reached
  <2>2. hs[e] \in Nat /\ \A k \in 0..(n - 1) : Probe(hs[e], n, k) \in 0..(n - 1)
    BY ProbeRange
  <2>3. new[Probe(hs[e], n, j)] = e
    BY <1>8, <2>1, <2>2
  <2>4. ASSUME NEW k \in 0..(j - 1) PROVE new[Probe(hs[e], n, k)] >= 0
    <3>1. k \in 0..(n - 1)
      BY <2>1
    <3> QED
      BY <1>8, <2>1, <2>2, <3>1
  <2> QED
    BY <2>3, <2>4 DEF Reached
<1>11. Reached(new, n, more[len], len)
  <2>1. \A k \in 0..(i - 1) : new[Probe(h, n, k)] >= 0
    BY <1>2, <1>5, <1>8
  <2> QED
    BY <1>6, <1>7, <2>1 DEF Reached
<1>12. ASSUME NEW e \in 0..(len + 1 - 1) PROVE Reached(new, n, more[e], e)
  <2>1. e = len \/ e \in 0..(len - 1)
    OBVIOUS
  <2> QED
    BY <1>10, <1>11, <2>1
<1>13. len + 1 - 1 = len
  OBVIOUS
<1> QED
  BY <1>7, <1>9, <1>12, <1>13 DEF Bucketed, new

\* No entry is in the buckets of a new table.
LEMMA EmptyBucketed ==
  ASSUME NEW n \in Nat \ {0}, NEW hs
  PROVE  Bucketed(EmptyBuckets(n), n, hs, 0)
<1>1. \A i \in 0..(n - 1) : EmptyBuckets(n)[i] = -1
  BY DEF EmptyBuckets
<1>2. EmptyBuckets(n) \in [0..(n - 1) -> -1..(0 - 1)]
  BY DEF EmptyBuckets
<1>3. 0..(0 - 1) = {}
  OBVIOUS
<1> QED
  BY <1>1, <1>2, <1>3 DEF Bucketed

\* The hashes of a map's keys are numbers.
LEMMA HashesNat ==
  ASSUME NEW mem, NEW ks \in Seq(Nat), StringsOK(mem, ks, Key)
  PROVE  \A e \in 0..(Len(ks) - 1) : /\ Hashes(mem, ks)[e] = KeyHash[mem[ks[e + 1]]]
                                      /\ Hashes(mem, ks)[e] \in Nat
<1>1. ASSUME NEW e \in 0..(Len(ks) - 1) PROVE KeyHash[mem[ks[e + 1]]] \in Nat
  <2>1. e + 1 \in 1..Len(ks)
    OBVIOUS
  <2>2. mem[ks[e + 1]] \in Key
    BY <2>1 DEF StringsOK
  <2> QED
    BY <2>2, ContainersAssumption
<1> QED
  BY <1>1 DEF Hashes

\* The steps by which tiq_map_rehash places the entries of m.
PlacedBy(g, mem, m, n) ==
  /\ g[0] = EmptyBuckets(n) /\ Placed(mem, m, n) = g[m.len]
  /\ \A e \in 1..m.len : g[e] = Place(g[e - 1], n, KeyHash[KeyOf(mem, m, e - 1)], e - 1)

\* The steps of tiq_map_rehash exist, entry by entry.
LEMMA PlacedSteps ==
  ASSUME NEW mem, NEW m, m.len \in Nat, NEW n \in Nat \ {0}
  PROVE  \E g : PlacedBy(g, mem, m, n)
<1> DEFINE T == [0..(n - 1) -> Int]
           One(bs, e) == Place(bs, n, KeyHash[KeyOf(mem, m, e - 1)], e - 1)
           G == [i \in Nat |-> [bs \in T |-> IF i = 0 THEN bs ELSE One(bs, i)]]
           Step(g) == g = [e \in 0..m.len |-> IF e = 0 THEN EmptyBuckets(n) ELSE One(g[e - 1], e)]
           c == CHOOSE g : Step(g)
<1>1. ASSUME NEW bs \in T, NEW i \in Nat PROVE One(bs, i) \in T
  <2>1. \E q : One(bs, i) = [bs EXCEPT ![q] = i - 1]
    BY DEF Place
  <2> HIDE DEF One
  <2>2. PICK q : One(bs, i) = [bs EXCEPT ![q] = i - 1]
    BY <2>1
  <2>3. [bs EXCEPT ![q] = i - 1] = [x \in 0..(n - 1) |-> IF x = q THEN i - 1 ELSE bs[x]]
    OBVIOUS
  <2>4. \A x \in 0..(n - 1) : (IF x = q THEN i - 1 ELSE bs[x]) \in Int
    OBVIOUS
  <2>5. [x \in 0..(n - 1) |-> IF x = q THEN i - 1 ELSE bs[x]] \in T
    BY <2>4
  <2> QED
    BY <2>2, <2>3, <2>5, Zenon
<1>2. Steps(G, T)
  <2> HIDE DEF T, One
  <2> QED
    BY <1>1 DEF Steps
<1>3. EmptyBuckets(n) \in T
  BY DEF EmptyBuckets
<1>4. PICK f \in [0..m.len -> T] : Iterates(f, m.len, EmptyBuckets(n), G)
  <2> HIDE DEF T, G
  <2> QED
    BY <1>2, <1>3, Iteration
<1>5. Step(f)
  <2> HIDE DEF T, One
  <2>1. ASSUME NEW e \in 1..m.len PROVE f[e] = One(f[e - 1], e)
    <3>1. f[e] = G[e][f[e - 1]] /\ e \in Nat /\ e - 1 \in 0..m.len /\ e # 0
      <4> HIDE DEF G
      <4> QED
        BY <1>4, <2>1 DEF Iterates
    <3>2. f[e - 1] \in T
      BY <1>4, <3>1
    <3>3. G[e][f[e - 1]] = One(f[e - 1], e)
      BY <3>1, <3>2
    <3> QED
      BY <3>1, <3>3
  <2>2. \A e \in 0..m.len : f[e] = IF e = 0 THEN EmptyBuckets(n) ELSE One(f[e - 1], e)
    BY <1>4, <2>1 DEF Iterates
  <2> QED
    BY <1>4, <2>2
<1>6. Step(c)
  <2> HIDE DEF Step
  <2> QED
    BY <1>5
<1>7. Placed(mem, m, n) = c[m.len]
  BY DEF Placed
<1> HIDE DEF c, One
<1>8. c[0] = EmptyBuckets(n) /\ \A e \in 1..m.len : c[e] = One(c[e - 1], e)
  BY <1>6
<1> QED
  BY <1>7, <1>8 DEF One, PlacedBy

\* tiq_map_rehash brings every entry within its probe's reach in the new table.
LEMMA PlacedBucketed ==
  ASSUME NEW mem, NEW m, m.len \in Nat, NEW n \in Nat \ {0}, m.len < n,
         NEW ks \in Seq(Nat), Len(ks) = m.len, StringsOK(mem, ks, Key),
         \A e \in 1..m.len : mem[m.keys][e] = ks[e]
  PROVE  Bucketed(Placed(mem, m, n), n, Hashes(mem, ks), m.len)
<1> DEFINE hs == Hashes(mem, ks)
           len == m.len
<1>1. \A e \in 0..(len - 1) : hs[e] = KeyHash[mem[ks[e + 1]]] /\ hs[e] \in Nat
  BY HashesNat
<1>2. PICK g : PlacedBy(g, mem, m, n)
  BY PlacedSteps
<1>3. /\ g[0] = EmptyBuckets(n) /\ Placed(mem, m, n) = g[len]
      /\ \A e \in 1..len : g[e] = Place(g[e - 1], n, KeyHash[KeyOf(mem, m, e - 1)], e - 1)
  BY <1>2 DEF PlacedBy
<1> HIDE DEF hs
<1>4. ASSUME NEW e \in 1..len PROVE KeyHash[KeyOf(mem, m, e - 1)] = hs[e - 1]
  <2>1. e - 1 + 1 = e /\ e - 1 \in 0..(len - 1)
    BY <1>4
  <2> QED
    BY <1>1, <2>1 DEF KeyOf
<1> DEFINE Bad == {e \in 0..len : ~Bucketed(g[e], n, hs, e)}
<1>5. ASSUME Bad # {} PROVE FALSE
  <2>1. PICK e \in Bad : \A k \in Bad : e <= k
    <3>1. Bad \in SUBSET Nat
      OBVIOUS
    <3> HIDE DEF Bad
    <3> QED
      BY <1>5, <3>1, LeastNat
  <2>2. e # 0
    BY <1>3, <2>1, EmptyBucketed
  <2>3. e - 1 \in 0..(len - 1) /\ e - 1 \notin Bad /\ e \in 1..len /\ e - 1 + 1 = e
    BY <2>1, <2>2
  <2>4. Bucketed(g[e - 1], n, hs, e - 1)
    BY <2>3
  <2>5. g[e] = Place(g[e - 1], n, hs[e - 1], e - 1)
    BY <1>3, <1>4, <2>3
  <2>6. Bucketed(g[e], n, hs, e - 1 + 1)
    <3>1. \A k \in 0..(e - 1 - 1) : hs[k] \in Nat
      BY <1>1, <2>3
    <3>2. hs[e - 1] \in Nat /\ e - 1 \in Nat /\ e - 1 < n
      BY <1>1, <2>3
    <3> QED
      BY <2>4, <2>5, <3>1, <3>2, PlaceBucketed
  <2> QED
    BY <2>1, <2>3, <2>6
<1>6. Bucketed(g[len], n, hs, len)
  BY <1>5
<1> QED
  BY <1>3, <1>6 DEF hs

\* Every bucket is looked at.
Hits(h, n) == \A q \in 0..(n - 1) : \E j \in 0..(n - 1) : Probe(h, n, j) = q

\* The probes for any hash look at every bucket.
LEMMA ProbeHits ==
  ASSUME NEW n \in Nat \ {0}, NEW h \in Nat
  PROVE  Hits(h, n)
  BY ProbeRange DEF Hits

\* tiq_map_find answers the entry of the key, and -1 only for a key that has none.
FoundEntry(mem, m, ks, k) ==
  LET e == Find(mem, m, k)
  IN  /\ e \in -1..(m.len - 1)
      /\ e < 0 => \A i \in 1..Len(ks) : mem[ks[i]] # k
      /\ e >= 0 => mem[ks[e + 1]] = k

\* tiq_map_find of a bucketed map finds the entry of the key.
LEMMA FindEntry ==
  ASSUME NEW mem, NEW m, NEW n \in Nat \ {0}, m.nbuckets = n, m.len \in Nat, m.len < n,
         NEW ks \in Seq(Nat), Len(ks) = m.len, StringsOK(mem, ks, Key),
         \A e \in 1..m.len : mem[m.keys][e] = ks[e],
         Bucketed(mem[m.buckets], n, Hashes(mem, ks), m.len),
         NEW k \in Key
  PROVE  FoundEntry(mem, m, ks, k)
<1> DEFINE bs == mem[m.buckets]
           h == KeyHash[k]
           hs == Hashes(mem, ks)
           len == m.len
           P(j) == Stops(mem, m, k, j) /\ \A l \in 0..(j - 1) : ~Stops(mem, m, k, l)
<1>1. h \in Nat
  BY ContainersAssumption
<1>2. \A j : Stops(mem, m, k, j) <=>
              bs[Probe(h, n, j)] < 0 \/ KeyOf(mem, m, bs[Probe(h, n, j)]) = k
  BY DEF Stops
<1>3. \E j \in 0..(n - 1) : P(j)
  <2> DEFINE S == {j \in 0..(n - 1) : Stops(mem, m, k, j)}
  <2>1. PICK q \in 0..(n - 1) : bs[q] < 0
    BY FreeBucket
  <2>2. PICK j \in 0..(n - 1) : Probe(h, n, j) = q
    <3>1. Hits(h, n)
      BY <1>1, ProbeHits
    <3> QED
      BY <2>1, <3>1 DEF Hits
  <2>3. j \in S /\ S \in SUBSET Nat
    BY <1>2, <2>1, <2>2
  <2>4. PICK i \in S : \A l \in S : i <= l
    <3> HIDE DEF S
    <3> QED
      BY <2>3, LeastNat
  <2>5. \A l \in 0..(i - 1) : l \notin S /\ l \in 0..(n - 1)
    BY <2>4
  <2> QED
    BY <2>4, <2>5
<1> DEFINE i == CHOOSE j \in 0..(n - 1) : P(j)
<1>4. i \in 0..(n - 1) /\ P(i)
  <2> HIDE DEF P
  <2> QED
    BY <1>3
<1>5. Find(mem, m, k) = bs[Probe(h, n, i)]
  BY DEF Find
<1> HIDE DEF i
<1>6. bs[Probe(h, n, i)] \in -1..(len - 1)
  <2>1. Probe(h, n, i) \in 0..(n - 1)
    BY <1>1, <1>4, ProbeRange
  <2> QED
    BY <2>1 DEF Bucketed
<1>7. ASSUME bs[Probe(h, n, i)] < 0, NEW e \in 1..Len(ks), mem[ks[e]] = k PROVE FALSE
  <2>1. e - 1 \in 0..(len - 1) /\ e - 1 + 1 = e /\ e \in 1..m.len
    BY <1>7
  <2>2. hs[e - 1] = h
    BY <1>7, <2>1, HashesNat
  <2>3. Reached(bs, n, h, e - 1)
    BY <2>1, <2>2 DEF Bucketed
  <2>4. PICK j \in 0..(n - 1) : /\ bs[Probe(h, n, j)] = e - 1
                                /\ \A l \in 0..(j - 1) : bs[Probe(h, n, l)] >= 0
    BY <2>3 DEF Reached
  <2>5. Stops(mem, m, k, j)
    <3>1. KeyOf(mem, m, e - 1) = k
      BY <1>7, <2>1 DEF KeyOf
    <3> QED
      BY <1>2, <2>4, <3>1
  <2>6. i <= j
    BY <1>4, <2>5
  <2>7. bs[Probe(h, n, i)] >= 0
    BY <1>4, <2>1, <2>4, <2>6
  <2>8. bs[Probe(h, n, i)] \in -1..(len - 1)
    BY <1>6
  <2> QED
    BY <1>7, <2>7, <2>8
<1>8. ASSUME bs[Probe(h, n, i)] >= 0 PROVE mem[ks[bs[Probe(h, n, i)] + 1]] = k
  <2> DEFINE e == bs[Probe(h, n, i)]
  <2>1. e \in 0..(len - 1)
    BY <1>6, <1>8
  <2>2. KeyOf(mem, m, e) = k
    BY <1>2, <1>4, <2>1
  <2> HIDE DEF e
  <2>3. e + 1 \in 1..m.len
    BY <2>1
  <2> QED
    BY <2>2, <2>3 DEF KeyOf, e
<1> QED
  BY <1>5, <1>6, <1>7, <1>8 DEF FoundEntry

-----------------------------------------------------------------------------
\* The map.

\* The blocks of a map, by name.
MapHead(p, m) == Owned(<<"map", "header", 0>>, Block(p, MapBytes, MaxAlign, m.a))
MapTable(m) == Owned(<<"map", "buckets", 0>>, Words(m.buckets, m.nbuckets, m.a))
MapKeys(m) == Owned(<<"map", "keys", 0>>, Words(m.keys, m.cap, m.a))
MapVals(m) == Owned(<<"map", "vals", 0>>, Words(m.vals, m.cap, m.a))
MapArrays(m) == IF m.cap = 0 THEN {} ELSE {MapKeys(m), MapVals(m)}
MapStrings(mem, m) == Strs(mem, Contents(mem, m.keys), "map", m.a)

\* The blocks of a map: header, table, arrays, strings.
LEMMA MapParts ==
  ASSUME NEW mem, NEW p
  PROVE  MapBlocks(mem, p) = {MapHead(p, mem[p]), MapTable(mem[p])} \cup MapArrays(mem[p])
                             \cup MapStrings(mem, mem[p])
  BY DEF MapBlocks, MapHead, MapTable, MapKeys, MapVals, MapArrays, MapStrings

\* The blocks of a map have different names.
LEMMA NamesApart ==
  ASSUME NEW p, NEW m, NEW k, NEW l, NEW j, NEW mem, NEW ps, NEW a
  PROVE  /\ MapHead(p, m) # MapTable(k) /\ MapHead(p, m) # MapKeys(k) /\ MapHead(p, m) # MapVals(k)
         /\ MapTable(m) # MapKeys(k) /\ MapTable(m) # MapVals(k) /\ MapKeys(m) # MapVals(k)
         /\ \A b \in Strs(mem, ps, "map", a) : b \notin {MapHead(p, m), MapTable(k), MapKeys(l), MapVals(j)}
<1>1. /\ MapHead(p, m).o = <<"map", "header", 0>> /\ MapTable(m).o = <<"map", "buckets", 0>>
      /\ MapTable(k).o = <<"map", "buckets", 0>>
      /\ MapKeys(m).o = <<"map", "keys", 0>> /\ MapKeys(k).o = <<"map", "keys", 0>>
      /\ MapKeys(l).o = <<"map", "keys", 0>>
      /\ MapVals(k).o = <<"map", "vals", 0>> /\ MapVals(j).o = <<"map", "vals", 0>>
  BY DEF MapHead, MapTable, MapKeys, MapVals, Owned
<1>2. \A b \in Strs(mem, ps, "map", a) : b.o[2] = "string"
  BY DEF Strs, Owned
<1>3. /\ <<"map", "header", 0>>[2] = "header" /\ <<"map", "buckets", 0>>[2] = "buckets"
      /\ <<"map", "keys", 0>>[2] = "keys" /\ <<"map", "vals", 0>>[2] = "vals"
  OBVIOUS
<1> QED
  BY <1>1, <1>2, <1>3

\* Address, size, alignment and allocator of a map's blocks.
LEMMA PartFields ==
  ASSUME NEW p, NEW m
  PROVE  /\ Names(MapHead(p, m), p, MapBytes, MaxAlign, m.a)
         /\ Names(MapTable(m), m.buckets, m.nbuckets * Word, MaxAlign, m.a)
         /\ Names(MapKeys(m), m.keys, m.cap * Word, MaxAlign, m.a)
         /\ Names(MapVals(m), m.vals, m.cap * Word, MaxAlign, m.a)
  BY DEF MapHead, MapTable, MapKeys, MapVals, Owned, Words, Block, Names

StrCell(mem, ps, what, a, i) == Owned(<<what, "string", i>>, StrBlock(mem, ps[i], a))

\* Address, size, alignment and allocator of the blocks of strings.
LEMMA StringFields ==
  ASSUME NEW mem, NEW ps, NEW what, NEW a
  PROVE  /\ \A b \in Strs(mem, ps, what, a) : \E i \in 1..Len(ps) : b = StrCell(mem, ps, what, a, i)
         /\ \A i \in 1..Len(ps) : /\ StrCell(mem, ps, what, a, i) \in Strs(mem, ps, what, a)
                                  /\ Names(StrCell(mem, ps, what, a, i), ps[i], StrLen[mem[ps[i]]] + 1, 1, a)
<1>1. Strs(mem, ps, what, a) = {StrCell(mem, ps, what, a, i) : i \in 1..Len(ps)}
  BY DEF Strs, StrCell
<1>2. \A i : Names(StrCell(mem, ps, what, a, i), ps[i], StrLen[mem[ps[i]]] + 1, 1, a)
  BY DEF StrCell, Owned, StrBlock, Block, Names
<1> QED
  BY <1>1, <1>2

\* A map among other blocks.
MapIn(s, p, F) == /\ Kept(s, MapBlocks(s.mem, p) \cup F) /\ MapBlocks(s.mem, p) \cap F = {}
                  /\ MapOK(s.mem, p, s.x.h)

\* No two of its blocks are at one address, nor is one at 0 or at another's.
MapApart(mem, p, F) ==
  LET m == mem[p]
      ks == Contents(mem, m.keys)
  IN  /\ p # 0 /\ m.buckets # 0 /\ p # m.buckets
      /\ m.cap # 0 => /\ m.keys \notin {0, p, m.buckets} /\ m.vals \notin {0, p, m.buckets}
                      /\ m.keys # m.vals
      /\ \A i \in 1..Len(ks) : ks[i] \notin {0, p, m.buckets} /\ (m.cap # 0 => ks[i] \notin {m.keys, m.vals})
      /\ \A f \in F : /\ f.p \notin {p, m.buckets} /\ (m.cap # 0 => f.p \notin {m.keys, m.vals})
                      /\ \A i \in 1..Len(ks) : f.p # ks[i]

\* A map's blocks and those beside it lie at different addresses.
LEMMA MapAddresses ==
  ASSUME NEW s, NEW p, NEW F, MapIn(s, p, F)
  PROVE  MapApart(s.mem, p, F)
<1> DEFINE m == s.mem[p]
           ks == Contents(s.mem, m.keys)
           M == MapBlocks(s.mem, p)
           G == M \cup F
           S == MapStrings(s.mem, m)
<1>1. Kept(s, G) /\ M \cap F = {}
  BY DEF MapIn
<1>2. MapHead(p, m) \in M /\ MapTable(m) \in M /\ (m.cap # 0 => MapKeys(m) \in M /\ MapVals(m) \in M) /\ S \subseteq M
  BY MapParts DEF MapArrays
<1> HIDE DEF M
<1>3. /\ MapHead(p, m).p = p /\ MapTable(m).p = m.buckets /\ MapKeys(m).p = m.keys /\ MapVals(m).p = m.vals
  BY PartFields DEF Names
<1>4. \A i \in 1..Len(ks) : \E b \in S : b.p = ks[i]
  BY StringFields DEF MapStrings, Names
<1>5. \A b \in S : b \notin {MapHead(p, m), MapTable(m), MapKeys(m), MapVals(m)}
  BY NamesApart DEF MapStrings
<1>6. /\ MapHead(p, m) # MapTable(m) /\ MapHead(p, m) # MapKeys(m) /\ MapHead(p, m) # MapVals(m)
      /\ MapTable(m) # MapKeys(m) /\ MapTable(m) # MapVals(m) /\ MapKeys(m) # MapVals(m)
  BY NamesApart
<1>7. \A b, c \in G : b # c => b.p # c.p
  BY <1>1, KeptApart
<1>8. \A b \in G : b.p # 0
  BY <1>1, KeptTyped
<1>9. \A b \in M, f \in F : b.p # f.p
  BY <1>1, <1>7
<1> HIDE DEF G, S
<1>10. M \subseteq G
  BY DEF G
<1> DEFINE hd == MapHead(p, m)
           tb == MapTable(m)
           ky == MapKeys(m)
           vl == MapVals(m)
<1> HIDE DEF hd, tb, ky, vl
<1>11. /\ p # 0 /\ m.buckets # 0 /\ p # m.buckets
       /\ m.cap # 0 => /\ m.keys \notin {0, p, m.buckets} /\ m.vals \notin {0, p, m.buckets}
                       /\ m.keys # m.vals
  BY <1>2, <1>3, <1>6, <1>7, <1>8, <1>10 DEF hd, tb, ky, vl
<1>12. ASSUME NEW i \in 1..Len(ks)
       PROVE  /\ ks[i] \notin {0, p, m.buckets} /\ (m.cap # 0 => ks[i] \notin {m.keys, m.vals})
              /\ \A f \in F : f.p # ks[i]
  <2>1. PICK b \in S : b.p = ks[i]
    BY <1>4
  <2>2. b \in M /\ b \in G
    BY <1>2, <1>10
  <2> QED
    BY <1>2, <1>3, <1>5, <1>7, <1>8, <1>9, <1>10, <2>1, <2>2
<1>13. \A f \in F : f.p \notin {p, m.buckets} /\ (m.cap # 0 => f.p \notin {m.keys, m.vals})
  BY <1>2, <1>3, <1>9
<1> QED
  BY <1>11, <1>12, <1>13 DEF MapApart

\* Only what is at the addresses P differs.
Touched(mem, next, P) == \A q \in DOMAIN mem \ P : q \in DOMAIN next /\ next[q] = mem[q]

\* What lies at none of the addresses P is as it was.
LEMMA TouchedAgree ==
  ASSUME NEW mem, NEW next, NEW P, Touched(mem, next, P), NEW F, \A f \in F : f.p \notin P
  PROVE  Agree(mem, next, F)
  BY DEF Touched, Agree

\* What a map's users see of it.
KeysOf(mem, p) == [i \in 1..mem[p].len |-> mem[Contents(mem, mem[p].keys)[i]]]
ValsOf(mem, p) == Contents(mem, mem[p].vals)
SameMap(mem, next, p) == /\ next[p].len = mem[p].len /\ next[p].a = mem[p].a
                         /\ KeysOf(next, p) = KeysOf(mem, p) /\ ValsOf(next, p) = ValsOf(mem, p)

\* An operation on the map at p, beside F.
MapStep(s, t, p, F) == MapIn(t, p, F) /\ Like(s, t) /\ Agree(s.mem, t.mem, F)

\* The sizes that the containers ask for are positive.
LEMMA Bytes ==
  /\ MapBytes \in Nat \ {0} /\ VecBytes \in Nat \ {0} /\ BufBytes \in Nat \ {0}
  /\ \A n \in Nat \ {0} : n * Word \in Nat \ {0}
  /\ MaxAlign \in {1, MaxAlign} /\ 1 \in {1, MaxAlign}
  BY DEF MapBytes, VecBytes, BufBytes, Word

\* q is none of the addresses of the map at p.
Elsewhere(mem, p, q) ==
  LET m == mem[p]
      ks == Contents(mem, m.keys)
  IN  /\ q \notin {p, m.buckets} /\ (m.cap # 0 => q \notin {m.keys, m.vals})
      /\ \A i \in 1..Len(ks) : ks[i] # q

\* A new block is none of the map's.
LEMMA MapFresh ==
  ASSUME NEW mem, NEW p, NEW q, \A e \in MapBlocks(mem, p) : e.p # q
  PROVE  Elsewhere(mem, p, q)
<1> DEFINE m == mem[p]
           ks == Contents(mem, m.keys)
           M == MapBlocks(mem, p)
<1>1. /\ MapHead(p, m) \in M /\ MapTable(m) \in M /\ (m.cap # 0 => MapKeys(m) \in M /\ MapVals(m) \in M)
      /\ Strs(mem, ks, "map", m.a) \subseteq M
  BY MapParts DEF MapArrays, MapStrings
<1>2. /\ MapHead(p, m).p = p /\ MapTable(m).p = m.buckets /\ MapKeys(m).p = m.keys /\ MapVals(m).p = m.vals
  BY PartFields DEF Names
<1>3. \A i \in 1..Len(ks) : StrCell(mem, ks, "map", m.a, i) \in M /\ StrCell(mem, ks, "map", m.a, i).p = ks[i]
  BY <1>1, StringFields DEF Names
<1> QED
  BY <1>1, <1>2, <1>3 DEF Elsewhere

\* Both hold the same at the addresses ks.
SameAt(mem, next, ks) == \A i \in 1..Len(ks) : ks[i] \in DOMAIN next /\ next[ks[i]] = mem[ks[i]]

\* The same strings have the same hashes and are as different.
LEMMA SameStrings ==
  ASSUME NEW mem, NEW next, NEW ks \in Seq(Nat), NEW S, StringsOK(mem, ks, S), SameAt(mem, next, ks)
  PROVE  /\ StringsOK(next, ks, S) /\ (Different(mem, ks) => Different(next, ks))
         /\ Hashes(next, ks) = Hashes(mem, ks)
<1>1. StringsOK(next, ks, S) /\ (Different(mem, ks) => Different(next, ks))
  BY DEF SameAt, StringsOK, Different
<1>2. \A e \in 0..(Len(ks) - 1) : next[ks[e + 1]] = mem[ks[e + 1]]
  BY DEF SameAt
<1>3. Hashes(next, ks) = Hashes(mem, ks)
  BY <1>2 DEF Hashes
<1> QED
  BY <1>1, <1>3

\* The same strings take the same blocks.
LEMMA SameCells ==
  ASSUME NEW mem, NEW next, NEW ks, SameAt(mem, next, ks), NEW what, NEW a
  PROVE  Strs(next, ks, what, a) = Strs(mem, ks, what, a)
  BY DEF SameAt, Strs, StrBlock

\* tiq_map_rehash: the map stays what it was, with a table twice as long.
LEMMA RehashKept ==
  ASSUME NEW s, NEW p, NEW F, MapIn(s, p, F), ~Rehash(s, p).dead
  PROVE  LET t == Rehash(s, p)
         IN  /\ MapStep(s, t, p, F) /\ SameMap(s.mem, t.mem, p)
             /\ t.mem[p].cap = s.mem[p].cap /\ t.mem[p].nbuckets = 2 * s.mem[p].nbuckets
<1> DEFINE mem == s.mem
           m == mem[p]
           n == 2 * m.nbuckets
           ks == Contents(mem, m.keys)
           M == MapBlocks(mem, p)
           r == Take(s, m.a, n * Word, MaxAlign)
           bs == Placed(mem, m, n)
           new == [m EXCEPT !.nbuckets = n, !.buckets = r.p]
           one == Put(r.s, r.p, bs)
           two == Put(one, p, new)
           old == Words(m.buckets, m.nbuckets, m.a)
           t == Drop(two, old)
<1>1. Rehash(s, p) = t
  BY DEF Rehash
<1>2. /\ m \in [keys : Nat, vals : Nat, len : Nat, cap : Nat, buckets : Nat,
                nbuckets : Nat \ {0}, a : {0, s.x.h}]
      /\ p \in DOMAIN mem /\ m.buckets \in DOMAIN mem
      /\ IF m.cap = 0 THEN m.keys = 0 /\ m.vals = 0 ELSE {m.keys, m.vals} \subseteq DOMAIN mem
      /\ m.len <= m.cap /\ m.len * 10 <= m.nbuckets * 7
      /\ ks \in Seq(Nat) /\ Len(ks) = m.len
      /\ Contents(mem, m.vals) \in Seq(Value) /\ Len(Contents(mem, m.vals)) = m.len
      /\ StringsOK(mem, ks, Key) /\ Different(mem, ks)
  BY DEF MapIn, MapOK
<1>3. Kept(s, M \cup F) /\ M \cap F = {} /\ IsStore(s)
  BY DEF MapIn, Kept
<1>4. MapApart(mem, p, F)
  BY MapAddresses
<1>5. n \in Nat \ {0} /\ m.len < n /\ n * Word \in Nat \ {0} /\ m.a \in {0, s.x.h} /\ m.len \in Nat
  <2>1. m.nbuckets \in Nat \ {0} /\ m.len \in Nat /\ m.a \in {0, s.x.h} /\ m.len * 10 <= m.nbuckets * 7
    BY <1>2
  <2>2. n \in Nat \ {0} /\ m.len < n
    BY <2>1
  <2> HIDE DEF n, m
  <2> QED
    BY <2>1, <2>2, Bytes
<1> HIDE DEF n
<1>6. ~r.s.dead
  <2>1. IsStore(r.s)
    BY <1>3, TakeStore
  <2> HIDE DEF r, bs, new
  <2>2. IsStore(one) /\ one.dead = r.s.dead
    BY <2>1, PutStore DEF OnlyMem
  <2> HIDE DEF one
  <2>3. IsStore(two) /\ two.dead = one.dead
    BY <2>2, PutStore DEF OnlyMem
  <2> HIDE DEF two, old
  <2>4. t.dead = two.dead
    BY <2>3, DropStore
  <2> QED
    BY <1>1, <2>2, <2>3, <2>4
<1> DEFINE b == MapTable(new)
           c == MapTable(m)
<1>7. new.buckets = r.p /\ new.nbuckets = n /\ new.a = m.a /\ new.keys = m.keys /\ new.vals = m.vals
      /\ new.len = m.len /\ new.cap = m.cap
      /\ (r.p \in Nat => new \in [keys : Nat, vals : Nat, len : Nat, cap : Nat, buckets : Nat,
                                 nbuckets : Nat \ {0}, a : {0, s.x.h}])
  BY <1>2, <1>5
<1>8. Names(b, r.p, n * Word, MaxAlign, m.a)
  <2> HIDE DEF new, r
  <2> QED
    BY <1>7, PartFields
<1>9. /\ Kept(r.s, M \cup F \cup {b}) /\ Like(s, r.s) /\ r.s.mem = mem
      /\ r.p \in Nat \ {0} /\ \A e \in M \cup F : e.p # r.p
  <2> HIDE DEF b, M, new, m, one, two, old, t, bs
  <2> DEFINE k == n * Word
  <2>1. Kept(s, M \cup F) /\ k \in Nat \ {0} /\ MaxAlign \in {1, MaxAlign}
    BY <1>3, <1>5
  <2> HIDE DEF k
  <2>2. Taken(s, Take(s, m.a, k, MaxAlign), M \cup F, b)
    BY <1>5, <1>6, <1>8, <2>1, TakeKept DEF k
  <2> QED
    BY <2>2 DEF Taken, k
<1> HIDE DEF r, b, M, new
<1>10. Kept(one, M \cup F \cup {b}) /\ Like(r.s, one) /\ one.mem = Written(mem, r.p, bs)
  BY <1>9, PutKept
<1> HIDE DEF one, bs
<1>11. Kept(two, M \cup F \cup {b}) /\ Like(one, two) /\ two.mem = Written(Written(mem, r.p, bs), p, new)
  BY <1>10, PutKept
<1> HIDE DEF two
<1>12. c \in M /\ old = Block(c.p, c.n, c.al, c.a) /\ c.p = m.buckets
  BY MapParts, PartFields DEF Names, Words, M
<1> HIDE DEF c, old
<1>13. /\ Kept(t, (M \cup F \cup {b}) \ {c}) /\ Like(two, t)
       /\ t.mem = Without(Written(Written(mem, r.p, bs), p, new), m.buckets)
  BY <1>11, <1>12, DropKept DEF Dropped
<1> HIDE DEF t
<1> DEFINE next == t.mem
           q == r.p
<1>14. q \notin {0, p, m.buckets} /\ (m.cap # 0 => q \notin {m.keys, m.vals})
       /\ \A i \in 1..Len(ks) : ks[i] # q
  <2>1. Elsewhere(mem, p, r.p)
    BY <1>9, MapFresh DEF M
  <2> QED
    BY <1>9, <2>1 DEF Elsewhere
<1>15. /\ p \in DOMAIN next /\ next[p] = new /\ q \in DOMAIN next /\ next[q] = bs
       /\ Touched(mem, next, {p, q, m.buckets})
  BY <1>4, <1>13, <1>14 DEF MapApart, Written, Without, Touched
<1>16. Contents(next, m.keys) = ks /\ Contents(next, m.vals) = Contents(mem, m.vals)
       /\ (m.cap # 0 => {m.keys, m.vals} \subseteq DOMAIN next)
  BY <1>2, <1>4, <1>14, <1>15 DEF MapApart, Touched, Contents
<1>17. SameAt(mem, next, ks)
  BY <1>2, <1>4, <1>14, <1>15 DEF MapApart, Touched, StringsOK, SameAt
<1> HIDE DEF next, q, m, ks
<1>18. /\ StringsOK(next, ks, Key) /\ Different(next, ks) /\ Hashes(next, ks) = Hashes(mem, ks)
       /\ Strs(next, ks, "map", m.a) = Strs(mem, ks, "map", m.a)
  BY <1>2, <1>17, SameStrings, SameCells
<1>19. Bucketed(bs, n, Hashes(mem, ks), m.len)
  <2>1. \A e \in 1..m.len : mem[m.keys][e] = ks[e]
    BY <1>2 DEF ks, Contents
  <2> QED
    BY <1>2, <1>5, <2>1, PlacedBucketed DEF bs
<1>20. MapOK(next, p, s.x.h)
  <2>1. next[new.buckets] = bs /\ Contents(next, new.keys) = ks /\ Contents(next, new.vals) = Contents(mem, m.vals)
    BY <1>7, <1>15, <1>16 DEF q
  <2>2. new.len * 10 <= new.nbuckets * 7
    BY <1>2, <1>5, <1>7 DEF n
  <2> QED
    BY <1>2, <1>7, <1>9, <1>15, <1>16, <1>18, <1>19, <2>1, <2>2 DEF MapOK, q
<1>21. MapBlocks(next, p) = (M \ {c}) \cup {b}
  <2>1. MapBlocks(next, p) = {MapHead(p, new), b} \cup MapArrays(new) \cup Strs(next, ks, "map", new.a)
    BY <1>7, <1>15, <1>16, MapParts DEF b, MapStrings
  <2>2. M = {MapHead(p, m), c} \cup MapArrays(m) \cup Strs(mem, ks, "map", m.a)
    BY MapParts DEF M, c, m, ks, MapStrings
  <2>3. MapHead(p, new) = MapHead(p, m) /\ MapArrays(new) = MapArrays(m)
    BY <1>7 DEF MapHead, MapArrays, MapKeys, MapVals
  <2>4. MapHead(p, m) # c /\ c \notin MapArrays(m) /\ c \notin Strs(mem, ks, "map", m.a)
    BY NamesApart DEF c, MapArrays
  <2> QED
    BY <1>7, <1>18, <2>1, <2>2, <2>3, <2>4
<1>22. Kept(t, MapBlocks(next, p) \cup F) /\ MapBlocks(next, p) \cap F = {}
  <2>1. b \notin M \cup F /\ b # c
    BY <1>8, <1>9, <1>12 DEF Names
  <2>2. (M \cup F \cup {b}) \ {c} = MapBlocks(next, p) \cup F
    BY <1>3, <1>12, <1>21, <2>1
  <2> QED
    BY <1>3, <1>13, <1>21, <2>1, <2>2
<1>23. SameMap(mem, next, p)
  <2>1. KeysOf(next, p) = KeysOf(mem, p)
    BY <1>2, <1>7, <1>15, <1>16, <1>17 DEF KeysOf, m, ks, SameAt
  <2> QED
    BY <1>7, <1>15, <1>16, <2>1 DEF SameMap, ValsOf, m
<1>24. Agree(mem, next, F)
  <2>1. \A f \in F : f.p \notin {p, q, m.buckets}
    BY <1>4, <1>9 DEF MapApart, q, m
  <2> QED
    BY <1>15, <2>1, TouchedAgree
<1>25. Like(s, t) /\ t.x.h = s.x.h
  BY <1>9, <1>10, <1>11, <1>13 DEF Like
<1>26. next[p].cap = m.cap /\ next[p].nbuckets = 2 * m.nbuckets
  BY <1>7, <1>15 DEF n
<1> QED
  BY <1>1, <1>20, <1>22, <1>23, <1>24, <1>25, <1>26 DEF MapStep, MapIn, next, m

\* A capacity grows.
LEMMA GrowCapMore ==
  ASSUME NEW cap \in Nat
  PROVE  GrowCap(cap) \in Nat \ {0} /\ cap < GrowCap(cap)
  BY ContainersAssumption DEF GrowCap

\* The growth of a map's arrays: the map stays what it was, with more room.
LEMMA GrowEntriesKept ==
  ASSUME NEW s, NEW p, NEW F, MapIn(s, p, F), ~GrowEntries(s, p).dead
  PROVE  /\ MapStep(s, GrowEntries(s, p), p, F) /\ SameMap(s.mem, GrowEntries(s, p).mem, p)
         /\ GrowEntries(s, p).mem[p].cap = GrowCap(s.mem[p].cap)
         /\ GrowEntries(s, p).mem[p].nbuckets = s.mem[p].nbuckets
<1> DEFINE mem == s.mem
           m == mem[p]
           n == GrowCap(m.cap)
           ks == Contents(mem, m.keys)
           vs == Contents(mem, m.vals)
           M == MapBlocks(mem, p)
           k == Take(s, m.a, n * Word, MaxAlign)
           v == Take(k.s, m.a, n * Word, MaxAlign)
           new == [m EXCEPT !.keys = k.p, !.vals = v.p, !.cap = n]
           one == Put(v.s, k.p, ks)
           two == Put(one, v.p, vs)
           oldK == Words(m.keys, m.cap, m.a)
           oldV == Words(m.vals, m.cap, m.a)
           three == Drop(two, oldK)
           four == Drop(three, oldV)
           t == Put(four, p, new)
<1>1. GrowEntries(s, p) = t
  BY DEF GrowEntries
<1>2. /\ m \in [keys : Nat, vals : Nat, len : Nat, cap : Nat, buckets : Nat,
                nbuckets : Nat \ {0}, a : {0, s.x.h}]
      /\ p \in DOMAIN mem /\ m.buckets \in DOMAIN mem
      /\ IF m.cap = 0 THEN m.keys = 0 /\ m.vals = 0 ELSE {m.keys, m.vals} \subseteq DOMAIN mem
      /\ m.len <= m.cap /\ m.len * 10 <= m.nbuckets * 7
      /\ ks \in Seq(Nat) /\ Len(ks) = m.len /\ vs \in Seq(Value) /\ Len(vs) = m.len
      /\ StringsOK(mem, ks, Key) /\ Different(mem, ks)
      /\ Bucketed(mem[m.buckets], m.nbuckets, Hashes(mem, ks), m.len)
  BY DEF MapIn, MapOK
<1>3. Kept(s, M \cup F) /\ M \cap F = {} /\ IsStore(s)
  BY DEF MapIn, Kept
<1>4. MapApart(mem, p, F)
  BY MapAddresses
<1>5. n \in Nat \ {0} /\ n * Word \in Nat \ {0} /\ m.a \in {0, s.x.h} /\ m.len <= n /\ m.len \in Nat
  <2>1. m.cap \in Nat /\ m.len \in Nat /\ m.a \in {0, s.x.h} /\ m.len <= m.cap
    BY <1>2
  <2>2. n \in Nat \ {0} /\ m.cap < n
    BY <2>1, GrowCapMore
  <2> HIDE DEF n, m
  <2> QED
    BY <2>1, <2>2, Bytes
<1> HIDE DEF n
<1>6. ~v.s.dead /\ ~k.s.dead
  <2>1. IsStore(k.s)
    BY <1>3, TakeStore
  <2> HIDE DEF k
  <2>2. IsStore(v.s) /\ (k.s.dead => v.s.dead)
    BY <2>1, TakeStore
  <2> HIDE DEF v, ks, vs, new, oldK, oldV
  <2>3. IsStore(one) /\ one.dead = v.s.dead
    BY <2>2, PutStore DEF OnlyMem
  <2> HIDE DEF one
  <2>4. IsStore(two) /\ two.dead = one.dead
    BY <2>3, PutStore DEF OnlyMem
  <2> HIDE DEF two
  <2>5. IsStore(three) /\ three.dead = two.dead
    BY <2>4, DropStore
  <2> HIDE DEF three
  <2>6. IsStore(four) /\ four.dead = three.dead
    BY <2>5, DropStore
  <2> HIDE DEF four
  <2>7. t.dead = four.dead
    BY <2>6, PutStore DEF OnlyMem
  <2> QED
    BY <1>1, <2>2, <2>3, <2>4, <2>5, <2>6, <2>7
<1> DEFINE bk == MapKeys(new)
           bv == MapVals(new)
           size == n * Word
<1>7. new.buckets = m.buckets /\ new.nbuckets = m.nbuckets /\ new.a = m.a /\ new.keys = k.p /\ new.vals = v.p
      /\ new.len = m.len /\ new.cap = n
      /\ (k.p \in Nat /\ v.p \in Nat =>
            new \in [keys : Nat, vals : Nat, len : Nat, cap : Nat, buckets : Nat,
                     nbuckets : Nat \ {0}, a : {0, s.x.h}])
  BY <1>2, <1>5
<1>8. Names(bk, k.p, size, MaxAlign, m.a) /\ Names(bv, v.p, size, MaxAlign, m.a)
  <2> HIDE DEF new, k, v
  <2> QED
    BY <1>7, PartFields
<1> HIDE DEF bk, bv, M, new, one, two, three, four, oldK, oldV, t, ks, vs
<1>9. size \in Nat \ {0} /\ MaxAlign \in {1, MaxAlign} /\ m.a \in {0, s.x.h}
  BY <1>5
<1>10. k = Take(s, m.a, size, MaxAlign) /\ v = Take(k.s, m.a, size, MaxAlign)
  OBVIOUS
<1> HIDE DEF size, k, v
<1>11. Taken(s, k, M \cup F, bk)
  <2> HIDE DEF m
  <2> QED
    BY <1>3, <1>6, <1>8, <1>9, <1>10, TakeKept
<1>12. Kept(k.s, M \cup F \cup {bk}) /\ k.s.x.h = s.x.h
  BY <1>11 DEF Taken, Like
<1>13. Taken(k.s, v, M \cup F \cup {bk}, bv)
  <2> HIDE DEF m
  <2> QED
    BY <1>6, <1>8, <1>9, <1>10, <1>12, TakeKept
<1> DEFINE G == M \cup F \cup {bk} \cup {bv}
<1>14. Kept(v.s, G) /\ v.s.mem = mem
  BY <1>11, <1>13 DEF Taken
<1> HIDE DEF G
<1>15. Kept(one, G) /\ Like(v.s, one) /\ one.mem = Written(mem, k.p, ks)
  BY <1>14, PutKept DEF one
<1>16. Kept(two, G) /\ Like(one, two) /\ two.mem = Written(Written(mem, k.p, ks), v.p, vs)
  BY <1>15, PutKept DEF two
<1> DEFINE filled == Written(Written(mem, k.p, ks), v.p, vs)
           ok == MapKeys(m)
           ov == MapVals(m)
<1>17. /\ Kept(four, G \ MapArrays(m)) /\ Like(two, four)
       /\ four.mem = IF m.cap = 0 THEN filled ELSE Without(Without(filled, m.keys), m.vals)
  <2>1. CASE m.cap = 0
    <3>1. four = two
      BY <1>2, <2>1 DEF oldK, oldV, three, four, Drop, Words, Block
    <3> QED
      BY <1>16, <2>1, <3>1 DEF MapArrays, Like
  <2>2. CASE m.cap # 0
    <3>1. ok \in G /\ ov \in G \ {ok}
      BY <2>2, MapParts, NamesApart DEF G, M, MapArrays
    <3>2. /\ oldK = Block(ok.p, ok.n, ok.al, ok.a) /\ ok.p = m.keys
          /\ oldV = Block(ov.p, ov.n, ov.al, ov.a) /\ ov.p = m.vals
      BY PartFields DEF Names, Words, oldK, oldV
    <3>3. MapArrays(m) = {ok, ov}
      BY <2>2 DEF MapArrays
    <3> HIDE DEF ok, ov, m, filled
    <3>4. Kept(three, G \ {ok}) /\ Like(two, three) /\ three.mem = Without(two.mem, m.keys)
      BY <1>16, <3>1, <3>2, DropKept DEF three, Dropped
    <3>5. Kept(four, (G \ {ok}) \ {ov}) /\ Like(three, four) /\ four.mem = Without(three.mem, m.vals)
      BY <3>1, <3>2, <3>4, DropKept DEF four, Dropped
    <3>6. (G \ {ok}) \ {ov} = G \ MapArrays(m)
      BY <3>3
    <3> QED
      BY <1>16, <2>2, <3>4, <3>5, <3>6 DEF Like, filled
  <2> QED
    BY <2>1, <2>2
<1>18. Kept(t, G \ MapArrays(m)) /\ Like(four, t) /\ t.mem = Written(four.mem, p, new)
  BY <1>17, PutKept DEF t
<1> DEFINE next == t.mem
           q == k.p
           w == v.p
<1>19. /\ Elsewhere(mem, p, q) /\ Elsewhere(mem, p, w) /\ q # w /\ q # 0 /\ w # 0
       /\ \A f \in F : f.p # q /\ f.p # w
  <2>1. /\ \A e \in M \cup F : e.p # q
        /\ \A e \in M \cup F \cup {bk} : e.p # w
        /\ q \in Nat \ {0} /\ w \in Nat \ {0}
    BY <1>11, <1>13 DEF Taken
  <2>2. bk.p = q
    BY <1>8 DEF Names
  <2>3. (\A e \in M : e.p # q) /\ (\A e \in M : e.p # w)
    BY <2>1
  <2> QED
    BY <2>1, <2>2, <2>3, MapFresh DEF M
<1>20. /\ p \in DOMAIN next /\ next[p] = new /\ q \in DOMAIN next /\ next[q] = ks
       /\ w \in DOMAIN next /\ next[w] = vs
       /\ Touched(mem, next, {p, q, w} \cup (IF m.cap = 0 THEN {} ELSE {m.keys, m.vals}))
  <2>1. CASE m.cap = 0
    <3>1. next = Written(filled, p, new)
      BY <1>17, <1>18, <2>1
    <3> HIDE DEF next
    <3> QED
      BY <1>4, <1>19, <2>1, <3>1 DEF MapApart, Elsewhere, Written, Touched
  <2>2. CASE m.cap # 0
    <3>1. next = Written(Without(Without(filled, m.keys), m.vals), p, new)
      BY <1>17, <1>18, <2>2
    <3> HIDE DEF next
    <3> QED
      BY <1>4, <1>19, <2>2, <3>1 DEF MapApart, Elsewhere, Written, Without, Touched
  <2> QED
    BY <2>1, <2>2
<1>21. m.buckets \in DOMAIN next /\ next[m.buckets] = mem[m.buckets]
  BY <1>2, <1>4, <1>19, <1>20 DEF MapApart, Elsewhere, Touched
<1>22. SameAt(mem, next, ks)
  <2>1. \A i \in 1..Len(ks) : /\ ks[i] \in DOMAIN mem /\ ks[i] \notin {p, q, w}
                              /\ (m.cap # 0 => ks[i] \notin {m.keys, m.vals})
    BY <1>2, <1>4, <1>19 DEF MapApart, Elsewhere, StringsOK, ks
  <2> QED
    BY <1>20, <2>1 DEF Touched, SameAt
<1> HIDE DEF next, q, w, m
<1>23. /\ StringsOK(next, ks, Key) /\ Different(next, ks) /\ Hashes(next, ks) = Hashes(mem, ks)
       /\ Strs(next, ks, "map", m.a) = Strs(mem, ks, "map", m.a)
  BY <1>2, <1>22, SameStrings, SameCells
<1>24. Contents(next, new.keys) = ks /\ Contents(next, new.vals) = vs
  BY <1>7, <1>19, <1>20 DEF q, w, Contents
<1>25. MapOK(next, p, s.x.h)
  <2>1. k.p \in Nat /\ v.p \in Nat
    BY <1>11, <1>13 DEF Taken
  <2>2. new.cap # 0 /\ new.len <= new.cap
    BY <1>5, <1>7
  <2>3. {new.keys, new.vals} \subseteq DOMAIN next
    BY <1>7, <1>20 DEF q, w
  <2> QED
    BY <1>2, <1>7, <1>20, <1>21, <1>23, <1>24, <2>1, <2>2, <2>3 DEF MapOK
<1>26. MapBlocks(next, p) = (M \ MapArrays(m)) \cup {bk, bv}
  <2>1. MapBlocks(next, p) = {MapHead(p, new), MapTable(new)} \cup {bk, bv} \cup Strs(next, ks, "map", new.a)
    BY <1>5, <1>7, <1>20, <1>24, MapParts DEF bk, bv, MapStrings, MapArrays
  <2>2. M = {MapHead(p, m), MapTable(m)} \cup MapArrays(m) \cup Strs(mem, ks, "map", m.a)
    BY MapParts DEF M, m, ks, MapStrings
  <2>3. MapHead(p, new) = MapHead(p, m) /\ MapTable(new) = MapTable(m)
    BY <1>7 DEF MapHead, MapTable
  <2>4. MapHead(p, m) \notin MapArrays(m) /\ MapTable(m) \notin MapArrays(m)
        /\ \A e \in Strs(mem, ks, "map", m.a) : e \notin MapArrays(m)
    BY NamesApart DEF MapArrays
  <2> QED
    BY <1>7, <1>23, <2>1, <2>2, <2>3, <2>4
<1>27. Kept(t, MapBlocks(next, p) \cup F) /\ MapBlocks(next, p) \cap F = {}
  <2>1. bk \notin M \cup F /\ bv \notin M \cup F
    BY <1>8, <1>11, <1>13 DEF Names, Taken
  <2>2. MapArrays(m) \subseteq M
    BY MapParts DEF M, m
  <2>3. G \ MapArrays(m) = MapBlocks(next, p) \cup F
    BY <1>3, <1>26, <2>1, <2>2 DEF G
  <2> QED
    BY <1>3, <1>18, <1>26, <2>1, <2>3
<1>28. SameMap(mem, next, p)
  <2>1. KeysOf(next, p) = KeysOf(mem, p)
    BY <1>2, <1>7, <1>20, <1>22, <1>24 DEF KeysOf, m, ks, SameAt
  <2> QED
    BY <1>7, <1>20, <1>24, <2>1 DEF SameMap, ValsOf, m, vs
<1>29. Agree(mem, next, F)
  <2>1. \A f \in F : f.p \notin {p, q, w} \cup (IF m.cap = 0 THEN {} ELSE {m.keys, m.vals})
    BY <1>4, <1>19 DEF MapApart, m
  <2> QED
    BY <1>20, <2>1, TouchedAgree
<1>30. Like(s, t) /\ t.x.h = s.x.h
  BY <1>11, <1>13, <1>15, <1>16, <1>17, <1>18 DEF Taken, Like
<1>31. next[p].cap = n /\ next[p].nbuckets = m.nbuckets
  BY <1>7, <1>20
<1> QED
  BY <1>1, <1>25, <1>27, <1>28, <1>29, <1>30, <1>31 DEF MapStep, MapIn, next, m, n

\* tiq_container_dup_str: b is the block of the copy of w.
Duped(s, r, G, b, w) == /\ Kept(r.s, G \cup {b}) /\ Like(s, r.s) /\ r.s.mem = Written(s.mem, r.p, w)
                        /\ r.p \in Nat \ {0} /\ ~s.dead /\ \A c \in G : c.p # r.p

\* tiq_container_dup_str makes a new block with the string.
LEMMA DupKept ==
  ASSUME NEW s, NEW G, Kept(s, G), NEW a \in {0, s.x.h}, NEW w \in Key \cup Value \cup Piece,
         ~DupStr(s, a, w).s.dead,
         NEW b, Names(b, DupStr(s, a, w).p, StrLen[w] + 1, 1, a)
  PROVE  Duped(s, DupStr(s, a, w), G, b, w)
<1> DEFINE n == StrLen[w] + 1
           d == Take(s, a, n, 1)
           t == Put(d.s, d.p, w)
<1>1. n \in Nat \ {0} /\ 1 \in {1, MaxAlign}
  BY ContainersAssumption
<1>2. DupStr(s, a, w) = [s |-> t, p |-> d.p]
  BY DEF DupStr
<1>3. IsStore(s)
  BY DEF Kept
<1> HIDE DEF n
<1>4. IsStore(d.s)
  BY <1>3, TakeStore
<1> HIDE DEF d
<1>5. IsStore(t) /\ t.dead = d.s.dead
  BY <1>4, PutStore DEF OnlyMem
<1> HIDE DEF t
<1>6. ~d.s.dead /\ Names(b, d.p, n, 1, a)
  BY <1>2, <1>5 DEF n
<1>7. Taken(s, d, G, b)
  BY <1>1, <1>6, TakeKept DEF d
<1>8. Kept(t, G \cup {b}) /\ Like(d.s, t) /\ t.mem = Written(d.s.mem, d.p, w)
  BY <1>7, PutKept DEF t, Taken
<1> QED
  BY <1>2, <1>7, <1>8 DEF Duped, Taken, Like

\* tiq_container_dup_str does not bring the process back.
LEMMA DupStore ==
  ASSUME NEW s, IsStore(s), NEW a, NEW w
  PROVE  IsStore(DupStr(s, a, w).s) /\ (s.dead => DupStr(s, a, w).s.dead)
<1> DEFINE d == Take(s, a, StrLen[w] + 1, 1)
           t == Put(d.s, d.p, w)
<1>1. IsStore(d.s) /\ (s.dead => d.s.dead)
  BY TakeStore
<1>2. DupStr(s, a, w).s = t
  BY DEF DupStr
<1> HIDE DEF d
<1>3. IsStore(t) /\ t.dead = d.s.dead
  BY <1>1, PutStore DEF OnlyMem
<1> QED
  BY <1>1, <1>2, <1>3

\* An entry more.
Added(mem, next, p, k, v) ==
  /\ next[p].len = mem[p].len + 1 /\ next[p].a = mem[p].a
  /\ KeysOf(next, p) = [i \in 1..(mem[p].len + 1) |-> IF i = mem[p].len + 1 THEN k ELSE KeysOf(mem, p)[i]]
  /\ ValsOf(next, p) = Append(ValsOf(mem, p), v)

\* The header of a map of one entry more.
LEMMA Longer ==
  ASSUME NEW h, NEW m \in [keys : Nat, vals : Nat, len : Nat, cap : Nat, buckets : Nat,
                           nbuckets : Nat \ {0}, a : {0, h}],
         NEW new, new = [m EXCEPT !.len = m.len + 1]
  PROVE  /\ new.buckets = m.buckets /\ new.nbuckets = m.nbuckets /\ new.a = m.a /\ new.keys = m.keys
         /\ new.vals = m.vals /\ new.len = m.len + 1 /\ new.cap = m.cap
         /\ new \in [keys : Nat, vals : Nat, len : Nat, cap : Nat, buckets : Nat,
                     nbuckets : Nat \ {0}, a : {0, h}]
<1>1. m.len + 1 \in Nat
  OBVIOUS
<1> QED
  BY <1>1

\* A sequence and one element more.
LEMMA OneMore ==
  ASSUME NEW S, NEW q \in Seq(S), NEW n \in Nat, Len(q) = n, NEW e \in S
  PROVE  /\ Append(q, e) \in Seq(S) /\ Len(Append(q, e)) = n + 1 /\ Append(q, e)[n + 1] = e
         /\ \A i \in 1..n : Append(q, e)[i] = q[i]
  OBVIOUS

\* A key that is not in the map, added where there is room.
LEMMA AddEntryKept ==
  ASSUME NEW s, NEW p, NEW F, MapIn(s, p, F), NEW k \in Key, NEW v \in Value,
         s.mem[p].len < s.mem[p].cap, (s.mem[p].len + 1) * 10 <= s.mem[p].nbuckets * 7,
         \A i \in 1..s.mem[p].len : KeysOf(s.mem, p)[i] # k,
         ~AddEntry(s, p, k, v).dead
  PROVE  MapStep(s, AddEntry(s, p, k, v), p, F) /\ Added(s.mem, AddEntry(s, p, k, v).mem, p, k, v)
<1> DEFINE mem == s.mem
           m == mem[p]
           ks == Contents(mem, m.keys)
           vs == Contents(mem, m.vals)
           bs == mem[m.buckets]
           M == MapBlocks(mem, p)
           d == DupStr(s, m.a, k)
           ks1 == Append(mem[m.keys], d.p)
           vs1 == Append(mem[m.vals], v)
           bs1 == Place(bs, m.nbuckets, KeyHash[k], m.len)
           new == [m EXCEPT !.len = m.len + 1]
           one == Put(d.s, m.keys, ks1)
           two == Put(one, m.vals, vs1)
           three == Put(two, m.buckets, bs1)
           t == Put(three, p, new)
<1>1. AddEntry(s, p, k, v) = t
  BY DEF AddEntry
<1>2. /\ m \in [keys : Nat, vals : Nat, len : Nat, cap : Nat, buckets : Nat,
                nbuckets : Nat \ {0}, a : {0, s.x.h}]
      /\ p \in DOMAIN mem /\ m.buckets \in DOMAIN mem
      /\ IF m.cap = 0 THEN m.keys = 0 /\ m.vals = 0 ELSE {m.keys, m.vals} \subseteq DOMAIN mem
      /\ m.len <= m.cap /\ m.len * 10 <= m.nbuckets * 7
      /\ ks \in Seq(Nat) /\ Len(ks) = m.len /\ vs \in Seq(Value) /\ Len(vs) = m.len
      /\ StringsOK(mem, ks, Key) /\ Different(mem, ks)
      /\ Bucketed(bs, m.nbuckets, Hashes(mem, ks), m.len)
  BY DEF MapIn, MapOK
<1>3. Kept(s, M \cup F) /\ M \cap F = {} /\ IsStore(s)
  BY DEF MapIn, Kept
<1>4. MapApart(mem, p, F)
  BY MapAddresses
<1>5. m.cap # 0 /\ m.len \in Nat /\ m.cap \in Nat /\ m.nbuckets \in Nat \ {0} /\ m.a \in {0, s.x.h}
  BY <1>2
<1>6. mem[m.keys] = ks /\ mem[m.vals] = vs
  BY <1>4, <1>5 DEF MapApart, Contents
<1> DEFINE b == StrCell([q \in {d.p} |-> k], [i \in {m.len + 1} |-> d.p], "map", m.a, m.len + 1)
<1>7. b = Owned(<<"map", "string", m.len + 1>>, Block(d.p, StrLen[k] + 1, 1, m.a))
  BY DEF StrCell, StrBlock
<1>8. Names(b, d.p, StrLen[k] + 1, 1, m.a)
  BY <1>7 DEF Owned, Block, Names
<1> HIDE DEF b
<1>9. ~d.s.dead
  <2>1. IsStore(d.s)
    BY <1>3, DupStore
  <2> HIDE DEF d, ks1, vs1, bs1, new
  <2>2. IsStore(one) /\ one.dead = d.s.dead
    BY <2>1, PutStore DEF OnlyMem
  <2> HIDE DEF one
  <2>3. IsStore(two) /\ two.dead = one.dead
    BY <2>2, PutStore DEF OnlyMem
  <2> HIDE DEF two
  <2>4. IsStore(three) /\ three.dead = two.dead
    BY <2>3, PutStore DEF OnlyMem
  <2> HIDE DEF three
  <2>5. t.dead = three.dead
    BY <2>4, PutStore DEF OnlyMem
  <2> QED
    BY <1>1, <2>2, <2>3, <2>4, <2>5
<1>10. new.buckets = m.buckets /\ new.nbuckets = m.nbuckets /\ new.a = m.a /\ new.keys = m.keys
       /\ new.vals = m.vals /\ new.len = m.len + 1 /\ new.cap = m.cap
       /\ new \in [keys : Nat, vals : Nat, len : Nat, cap : Nat, buckets : Nat,
                   nbuckets : Nat \ {0}, a : {0, s.x.h}]
  <2>1. m \in [keys : Nat, vals : Nat, len : Nat, cap : Nat, buckets : Nat,
               nbuckets : Nat \ {0}, a : {0, s.x.h}]
    BY <1>2
  <2>2. new = [m EXCEPT !.len = m.len + 1]
    OBVIOUS
  <2> HIDE DEF m, new
  <2> QED
    BY <2>1, <2>2, Longer
<1> HIDE DEF M, new, one, two, three, t, ks1, vs1, bs1
<1>11. Duped(s, d, M \cup F, b, k)
  <2> HIDE DEF m
  <2> QED
    BY <1>3, <1>5, <1>8, <1>9, DupKept
<1> HIDE DEF d
<1> DEFINE G == M \cup F \cup {b}
<1>12. Kept(d.s, G) /\ d.s.mem = Written(mem, d.p, k)
  BY <1>11 DEF Duped
<1> HIDE DEF G
<1>13. Kept(one, G) /\ Like(d.s, one) /\ one.mem = Written(d.s.mem, m.keys, ks1)
  BY <1>12, PutKept DEF one
<1>14. Kept(two, G) /\ Like(one, two) /\ two.mem = Written(one.mem, m.vals, vs1)
  BY <1>13, PutKept DEF two
<1>15. Kept(three, G) /\ Like(two, three) /\ three.mem = Written(two.mem, m.buckets, bs1)
  BY <1>14, PutKept DEF three
<1>16. Kept(t, G) /\ Like(three, t) /\ t.mem = Written(three.mem, p, new)
  BY <1>15, PutKept DEF t
<1> DEFINE next == t.mem
           q == d.p
<1>17. Elsewhere(mem, p, q) /\ q # 0 /\ q \in Nat /\ \A f \in F : f.p # q
  <2>1. (\A e \in M \cup F : e.p # q) /\ q \in Nat \ {0}
    BY <1>11 DEF Duped
  <2>2. \A e \in M : e.p # q
    BY <2>1
  <2> QED
    BY <2>1, <2>2, MapFresh DEF M
<1>18. /\ p \in DOMAIN next /\ next[p] = new /\ q \in DOMAIN next /\ next[q] = k
       /\ m.keys \in DOMAIN next /\ next[m.keys] = ks1 /\ m.vals \in DOMAIN next /\ next[m.vals] = vs1
       /\ m.buckets \in DOMAIN next /\ next[m.buckets] = bs1
       /\ Touched(mem, next, {p, q, m.keys, m.vals, m.buckets})
  <2>1. next = Written(Written(Written(Written(Written(mem, q, k), m.keys, ks1), m.vals, vs1), m.buckets, bs1), p, new)
    BY <1>12, <1>13, <1>14, <1>15, <1>16
  <2>2. /\ q \notin {p, m.keys, m.vals, m.buckets} /\ p \notin {m.keys, m.vals, m.buckets}
        /\ m.keys # m.vals /\ m.keys # m.buckets /\ m.vals # m.buckets
    BY <1>4, <1>5, <1>17 DEF MapApart, Elsewhere
  <2> HIDE DEF next, q, m
  <2> QED
    BY <2>1, <2>2 DEF Written, Touched
<1>19. SameAt(mem, next, ks)
  <2>1. \A i \in 1..Len(ks) : ks[i] \in DOMAIN mem /\ ks[i] \notin {p, q, m.keys, m.vals, m.buckets}
    BY <1>2, <1>4, <1>5, <1>17 DEF MapApart, Elsewhere, StringsOK
  <2> QED
    BY <1>18, <2>1 DEF Touched, SameAt
<1> HIDE DEF next, q, m, ks, vs
<1>20. /\ ks1 = Append(ks, q) /\ ks1 \in Seq(Nat) /\ Len(ks1) = m.len + 1 /\ ks1[m.len + 1] = q
       /\ \A i \in 1..m.len : ks1[i] = ks[i]
  <2>1. ks \in Seq(Nat) /\ Len(ks) = m.len /\ q \in Nat /\ m.len \in Nat
    BY <1>2, <1>5, <1>17
  <2>2. ks1 = Append(ks, q)
    BY <1>6 DEF ks1, q
  <2> QED
    BY <2>1, <2>2, OneMore
<1>21. vs1 = Append(vs, v) /\ vs1 \in Seq(Value) /\ Len(vs1) = m.len + 1
  <2>1. vs \in Seq(Value) /\ Len(vs) = m.len /\ m.len \in Nat
    BY <1>2, <1>5
  <2>2. vs1 = Append(vs, v)
    BY <1>6 DEF vs1
  <2> QED
    BY <2>1, <2>2, OneMore
<1>22. Contents(next, new.keys) = ks1 /\ Contents(next, new.vals) = vs1
  BY <1>4, <1>5, <1>10, <1>18 DEF MapApart, Contents, m
<1>23. /\ \A i \in 1..(m.len + 1) : i = m.len + 1 \/ i \in 1..m.len
       /\ \A i \in 1..m.len : ks1[i] \in DOMAIN next /\ next[ks1[i]] = mem[ks[i]] /\ mem[ks[i]] \in Key
       /\ ks1[m.len + 1] \in DOMAIN next /\ next[ks1[m.len + 1]] = k
  <2>1. \A i \in 1..(m.len + 1) : i = m.len + 1 \/ i \in 1..m.len
    BY <1>5
  <2>2. Len(ks) = m.len /\ StringsOK(mem, ks, Key)
    BY <1>2
  <2>3. \A i \in 1..m.len : ks[i] \in DOMAIN next /\ next[ks[i]] = mem[ks[i]] /\ mem[ks[i]] \in Key
    BY <1>19, <2>2 DEF SameAt, StringsOK
  <2>4. ks1[m.len + 1] \in DOMAIN next /\ next[ks1[m.len + 1]] = k
    BY <1>18, <1>20
  <2> QED
    BY <1>20, <2>1, <2>3, <2>4
<1>24. StringsOK(next, ks1, Key)
  BY <1>20, <1>23 DEF StringsOK
<1>25. \A i \in 1..m.len : mem[ks[i]] # k
  BY DEF KeysOf, m, ks, mem
<1>26. Different(next, ks1)
  <2>1. \A i, j \in 1..m.len : mem[ks[i]] = mem[ks[j]] => i = j
    BY <1>2 DEF Different
  <2>2. ASSUME NEW i \in 1..(m.len + 1), NEW j \in 1..(m.len + 1), next[ks1[i]] = next[ks1[j]]
        PROVE  i = j
    <3>1. (i = m.len + 1 \/ i \in 1..m.len) /\ (j = m.len + 1 \/ j \in 1..m.len)
      BY <1>23
    <3> QED
      BY <1>23, <1>25, <2>1, <2>2, <3>1
  <2> QED
    BY <1>20, <2>2 DEF Different
<1>27. Bucketed(bs1, m.nbuckets, Hashes(next, ks1), m.len + 1)
  <2> DEFINE hs == Hashes(mem, ks)
             more == Hashes(next, ks1)
  <2>1. \A e \in 0..(m.len - 1) : hs[e] = KeyHash[mem[ks[e + 1]]] /\ hs[e] \in Nat
    <3>1. Len(ks) = m.len /\ ks \in Seq(Nat) /\ StringsOK(mem, ks, Key)
      BY <1>2
    <3> QED
      BY <3>1, HashesNat
  <2>2. \A e \in 0..(m.len + 1 - 1) : more[e] = KeyHash[next[ks1[e + 1]]]
    <3>1. ks1 \in Seq(Nat) /\ Len(ks1) = m.len + 1 /\ StringsOK(next, ks1, Key)
      BY <1>20, <1>24
    <3>2. \A e \in 0..(Len(ks1) - 1) : more[e] = KeyHash[next[ks1[e + 1]]]
      BY <3>1, HashesNat
    <3>3. 0..(Len(ks1) - 1) = 0..(m.len + 1 - 1)
      BY <1>5, <3>1
    <3> HIDE DEF more
    <3> QED
      BY <3>2, <3>3, Zenon
  <2>3. more[m.len] = KeyHash[k]
    BY <1>5, <1>23, <2>2
  <2>4. \A e \in 0..(m.len - 1) : more[e] = hs[e]
    <3>1. ASSUME NEW e \in 0..(m.len - 1) PROVE more[e] = hs[e]
      <4>1. e + 1 \in 1..m.len /\ e \in 0..(m.len + 1 - 1)
        BY <1>5
      <4> QED
        BY <1>23, <2>1, <2>2, <4>1
    <3> QED
      BY <3>1
  <2>5. m.len < m.nbuckets /\ KeyHash[k] \in Nat
    <3>1. m.len \in Nat /\ m.nbuckets \in Nat /\ (m.len + 1) * 10 <= m.nbuckets * 7
      BY <1>5 DEF m, mem
    <3> QED
      BY <3>1, ContainersAssumption
  <2>6. Bucketed(bs, m.nbuckets, hs, m.len)
    BY <1>2
  <2>7. bs1 = Place(bs, m.nbuckets, KeyHash[k], m.len)
    BY DEF bs1
  <2> HIDE DEF hs, more, bs
  <2>8. Bucketed(bs1, m.nbuckets, more, m.len + 1)
    BY <1>5, <2>1, <2>3, <2>4, <2>5, <2>6, <2>7, PlaceBucketed
  <2> QED
    BY <2>8 DEF more
<1>28. MapOK(next, p, s.x.h)
  <2>1. new.cap # 0 /\ new.len <= new.cap /\ new.len * 10 <= new.nbuckets * 7
    BY <1>5, <1>10 DEF m, mem
  <2>2. {new.keys, new.vals} \subseteq DOMAIN next /\ {p, new.buckets} \subseteq DOMAIN next
    BY <1>10, <1>18
  <2> QED
    BY <1>10, <1>18, <1>20, <1>21, <1>22, <1>24, <1>26, <1>27, <2>1, <2>2 DEF MapOK
<1>29. Strs(next, ks1, "map", m.a) = Strs(mem, ks, "map", m.a) \cup {b}
  <2>1. StrCell(next, ks1, "map", m.a, m.len + 1) = b
    BY <1>7, <1>20, <1>23 DEF StrCell, StrBlock, q
  <2>2. \A i \in 1..m.len : StrCell(next, ks1, "map", m.a, i) = StrCell(mem, ks, "map", m.a, i)
    BY <1>20, <1>23 DEF StrCell, StrBlock
  <2>3. 1..(m.len + 1) = 1..m.len \cup {m.len + 1}
    BY <1>5
  <2>4. Strs(next, ks1, "map", m.a) = {StrCell(next, ks1, "map", m.a, i) : i \in 1..(m.len + 1)}
    BY <1>20 DEF Strs, StrCell
  <2>5. Strs(mem, ks, "map", m.a) = {StrCell(mem, ks, "map", m.a, i) : i \in 1..m.len}
    BY <1>2 DEF Strs, StrCell
  <2> QED
    BY <2>1, <2>2, <2>3, <2>4, <2>5
<1>30. MapBlocks(next, p) = M \cup {b}
  <2>1. MapBlocks(next, p) = {MapHead(p, new), MapTable(new)} \cup MapArrays(new) \cup Strs(next, ks1, "map", new.a)
    BY <1>18, <1>22, MapParts DEF MapStrings
  <2>2. M = {MapHead(p, m), MapTable(m)} \cup MapArrays(m) \cup Strs(mem, ks, "map", m.a)
    BY MapParts DEF M, m, ks, MapStrings
  <2>3. MapHead(p, new) = MapHead(p, m) /\ MapTable(new) = MapTable(m) /\ MapArrays(new) = MapArrays(m)
    BY <1>10 DEF MapHead, MapTable, MapArrays, MapKeys, MapVals
  <2> QED
    BY <1>10, <1>29, <2>1, <2>2, <2>3
<1>31. Kept(t, MapBlocks(next, p) \cup F) /\ MapBlocks(next, p) \cap F = {}
  <2>1. b \notin F
    BY <1>8, <1>17 DEF Names, q
  <2>2. G = MapBlocks(next, p) \cup F
    BY <1>30 DEF G
  <2> QED
    BY <1>3, <1>16, <1>30, <2>1, <2>2
<1>32. Added(mem, next, p, k, v)
  <2>1. KeysOf(mem, p) = [i \in 1..m.len |-> mem[ks[i]]]
    BY DEF KeysOf, m, ks
  <2>2. KeysOf(next, p) = [i \in 1..(m.len + 1) |-> next[ks1[i]]]
    BY <1>10, <1>18, <1>22 DEF KeysOf
  <2>3. \A i \in 1..(m.len + 1) : next[ks1[i]] = IF i = m.len + 1 THEN k ELSE KeysOf(mem, p)[i]
    BY <1>23, <2>1
  <2>4. ValsOf(next, p) = Append(ValsOf(mem, p), v)
    BY <1>18, <1>21, <1>22 DEF ValsOf, vs, m
  <2>5. next[p].len = m.len + 1 /\ next[p].a = m.a
    BY <1>10, <1>18
  <2> QED
    BY <2>2, <2>3, <2>4, <2>5 DEF Added, m
<1>33. Agree(mem, next, F)
  <2>1. \A f \in F : f.p \notin {p, q, m.keys, m.vals, m.buckets}
    BY <1>4, <1>5, <1>17 DEF MapApart, m
  <2> QED
    BY <1>18, <2>1, TouchedAgree
<1>34. Like(s, t) /\ t.x.h = s.x.h
  BY <1>11, <1>13, <1>14, <1>15, <1>16 DEF Duped, Like
<1> QED
  BY <1>1, <1>28, <1>31, <1>32, <1>33, <1>34 DEF MapStep, MapIn, next

\* The numbers of a map; the load factor leaves a free bucket.
LEMMA MapFields ==
  ASSUME NEW mem, NEW p, NEW h, MapOK(mem, p, h)
  PROVE  /\ mem[p].len \in Nat /\ mem[p].cap \in Nat /\ mem[p].nbuckets \in Nat \ {0}
         /\ mem[p].a \in {0, h} /\ mem[p].len <= mem[p].cap /\ mem[p].len * 10 <= mem[p].nbuckets * 7
         /\ mem[p].len < mem[p].nbuckets
<1>1. /\ mem[p].len \in Nat /\ mem[p].cap \in Nat /\ mem[p].nbuckets \in Nat \ {0}
      /\ mem[p].a \in {0, h} /\ mem[p].len <= mem[p].cap /\ mem[p].len * 10 <= mem[p].nbuckets * 7
  BY DEF MapOK
<1> QED
  BY <1>1

\* What tiq_map_find answers of a map.
Sought(mem, p, k) ==
  LET e == Find(mem, mem[p], k)
  IN  /\ e \in -1..(mem[p].len - 1)
      /\ e < 0 => \A i \in 1..mem[p].len : KeysOf(mem, p)[i] # k
      /\ e >= 0 => KeysOf(mem, p)[e + 1] = k

\* tiq_map_find on a map that is well formed.
LEMMA MapSought ==
  ASSUME NEW mem, NEW p, NEW h, MapOK(mem, p, h), NEW k \in Key
  PROVE  Sought(mem, p, k)
<1> DEFINE m == mem[p]
           ks == Contents(mem, m.keys)
           n == m.nbuckets
           e == Find(mem, m, k)
<1>1. n \in Nat \ {0} /\ m.len \in Nat /\ m.len < n
  BY MapFields
<1>2. ks \in Seq(Nat) /\ Len(ks) = m.len /\ StringsOK(mem, ks, Key)
      /\ Bucketed(mem[m.buckets], n, Hashes(mem, ks), m.len)
  BY DEF MapOK
<1>3. \A i \in 1..m.len : mem[m.keys][i] = ks[i]
  BY <1>1, <1>2 DEF Contents
<1> HIDE DEF ks, m, n, e
<1>4. /\ e \in -1..(m.len - 1)
      /\ e < 0 => \A i \in 1..Len(ks) : mem[ks[i]] # k
      /\ e >= 0 => mem[ks[e + 1]] = k
  <2>1. FoundEntry(mem, m, ks, k)
    BY <1>1, <1>2, <1>3, FindEntry DEF n
  <2> QED
    BY <2>1 DEF FoundEntry, e
<1>5. KeysOf(mem, p) = [i \in 1..m.len |-> mem[ks[i]]]
  BY DEF KeysOf, m, ks
<1>6. e >= 0 => e + 1 \in 1..m.len
  BY <1>1, <1>4
<1> QED
  BY <1>2, <1>4, <1>5, <1>6 DEF Sought, e, m

\* A store stays as dead as it was.
LEMMA RehashStore ==
  ASSUME NEW s, IsStore(s), NEW p
  PROVE  IsStore(Rehash(s, p)) /\ (s.dead => Rehash(s, p).dead)
<1> DEFINE mem == s.mem
           m == mem[p]
           n == 2 * m.nbuckets
           r == Take(s, m.a, n * Word, MaxAlign)
           bs == Placed(mem, m, n)
           new == [m EXCEPT !.nbuckets = n, !.buckets = r.p]
           one == Put(r.s, r.p, bs)
           two == Put(one, p, new)
           old == Words(m.buckets, m.nbuckets, m.a)
           t == Drop(two, old)
<1>1. Rehash(s, p) = t
  BY DEF Rehash
<1>2. IsStore(r.s) /\ (s.dead => r.s.dead)
  BY TakeStore
<1> HIDE DEF r, bs, new
<1>3. IsStore(one) /\ one.dead = r.s.dead
  BY <1>2, PutStore DEF OnlyMem
<1> HIDE DEF one
<1>4. IsStore(two) /\ two.dead = one.dead
  BY <1>3, PutStore DEF OnlyMem
<1> HIDE DEF two, old
<1>5. IsStore(t) /\ t.dead = two.dead
  BY <1>4, DropStore
<1> QED
  BY <1>1, <1>2, <1>3, <1>4, <1>5

\* The growth of the arrays does not bring the process back.
LEMMA GrowEntriesStore ==
  ASSUME NEW s, IsStore(s), NEW p
  PROVE  IsStore(GrowEntries(s, p)) /\ (s.dead => GrowEntries(s, p).dead)
<1> DEFINE mem == s.mem
           m == mem[p]
           n == GrowCap(m.cap)
           ks == Contents(mem, m.keys)
           vs == Contents(mem, m.vals)
           k == Take(s, m.a, n * Word, MaxAlign)
           v == Take(k.s, m.a, n * Word, MaxAlign)
           new == [m EXCEPT !.keys = k.p, !.vals = v.p, !.cap = n]
           one == Put(v.s, k.p, ks)
           two == Put(one, v.p, vs)
           oldK == Words(m.keys, m.cap, m.a)
           oldV == Words(m.vals, m.cap, m.a)
           three == Drop(two, oldK)
           four == Drop(three, oldV)
           t == Put(four, p, new)
<1>1. GrowEntries(s, p) = t
  BY DEF GrowEntries
<1>2. IsStore(k.s) /\ (s.dead => k.s.dead)
  BY TakeStore
<1> HIDE DEF k
<1>3. IsStore(v.s) /\ (k.s.dead => v.s.dead)
  BY <1>2, TakeStore
<1> HIDE DEF v, ks, vs, new, oldK, oldV
<1>4. IsStore(one) /\ one.dead = v.s.dead
  BY <1>3, PutStore DEF OnlyMem
<1> HIDE DEF one
<1>5. IsStore(two) /\ two.dead = one.dead
  BY <1>4, PutStore DEF OnlyMem
<1> HIDE DEF two
<1>6. IsStore(three) /\ three.dead = two.dead
  BY <1>5, DropStore
<1> HIDE DEF three
<1>7. IsStore(four) /\ four.dead = three.dead
  BY <1>6, DropStore
<1> HIDE DEF four
<1>8. IsStore(t) /\ t.dead = four.dead
  BY <1>7, PutStore DEF OnlyMem
<1> QED
  BY <1>1, <1>2, <1>3, <1>4, <1>5, <1>6, <1>7, <1>8

\* What stays in two steps stays.
LEMMA AgreeTrans ==
  ASSUME NEW mem, NEW mid, NEW next, NEW B, Agree(mem, mid, B), Agree(mid, next, B)
  PROVE  Agree(mem, next, B)
  BY DEF Agree

\* Two operations on a map make one.
LEMMA StepTrans ==
  ASSUME NEW s, NEW r, NEW t, NEW p, NEW F, MapStep(s, r, p, F), MapStep(r, t, p, F)
  PROVE  MapStep(s, t, p, F)
  BY AgreeTrans DEF MapStep, Like

\* No operation on a map is one.
LEMMA StepSame ==
  ASSUME NEW s, NEW p, NEW F, MapIn(s, p, F)
  PROVE  MapStep(s, s, p, F)
  BY DEF MapStep, Like, Agree

\* An element of a sequence replaced.
LEMMA Replaced ==
  ASSUME NEW S, NEW q \in Seq(S), NEW i, NEW v \in S
  PROVE  [q EXCEPT ![i] = v] \in Seq(S) /\ Len([q EXCEPT ![i] = v]) = Len(q)
<1>1. CASE i \in 1..Len(q)
  BY <1>1, ExceptSeq
<1>2. CASE i \notin 1..Len(q)
  <2>1. [q EXCEPT ![i] = v] = q
    BY <1>2
  <2> QED
    BY <2>1
<1> QED
  BY <1>1, <1>2

\* tiq_map_set of a key that is there: only its value changes.
Revalued(mem, next, p, i, v) ==
  /\ next[p] = mem[p] /\ KeysOf(next, p) = KeysOf(mem, p)
  /\ ValsOf(next, p) = [ValsOf(mem, p) EXCEPT ![i] = v]

\* The value of an entry written anew.
LEMMA RevalueKept ==
  ASSUME NEW s, NEW p, NEW F, MapIn(s, p, F), NEW v \in Value, NEW i, s.mem[p].cap # 0,
         NEW t, t = Put(s, s.mem[p].vals, [s.mem[s.mem[p].vals] EXCEPT ![i] = v])
  PROVE  MapStep(s, t, p, F) /\ Revalued(s.mem, t.mem, p, i, v)
<1> DEFINE mem == s.mem
           m == mem[p]
           ks == Contents(mem, m.keys)
           vs == Contents(mem, m.vals)
           vs1 == [vs EXCEPT ![i] = v]
           next == t.mem
<1>1. /\ p \in DOMAIN mem /\ m.buckets \in DOMAIN mem /\ {m.keys, m.vals} \subseteq DOMAIN mem
      /\ ks \in Seq(Nat) /\ Len(ks) = m.len /\ vs \in Seq(Value) /\ Len(vs) = m.len
      /\ StringsOK(mem, ks, Key) /\ Different(mem, ks)
  BY DEF MapIn, MapOK
<1>2. Kept(s, MapBlocks(mem, p) \cup F) /\ MapBlocks(mem, p) \cap F = {}
  BY DEF MapIn
<1>3. MapApart(mem, p, F)
  BY MapAddresses
<1>4. vs = mem[m.vals]
  BY <1>3 DEF MapApart, Contents
<1>5. t = Put(s, m.vals, vs1)
  BY <1>4
<1>6. Kept(t, MapBlocks(mem, p) \cup F) /\ Like(s, t) /\ next = Written(mem, m.vals, vs1)
  BY <1>2, <1>5, PutKept
<1>7. vs1 \in Seq(Value) /\ Len(vs1) = m.len
  <2>1. vs \in Seq(Value) /\ Len(vs) = m.len
    BY <1>1
  <2> HIDE DEF vs
  <2> QED
    BY <2>1, Replaced
<1> HIDE DEF vs1, next
<1>8. next[m.vals] = vs1 /\ m.vals \in DOMAIN next /\ Touched(mem, next, {m.vals})
  BY <1>6 DEF Written, Touched
<1>9. next[p] = m /\ next[m.buckets] = mem[m.buckets] /\ {p, m.buckets, m.keys} \subseteq DOMAIN next
      /\ Contents(next, m.keys) = ks /\ Contents(next, m.vals) = vs1
  BY <1>1, <1>3, <1>8 DEF MapApart, Touched, Contents
<1>10. SameAt(mem, next, ks)
  BY <1>1, <1>3, <1>8 DEF MapApart, Touched, StringsOK, SameAt
<1> HIDE DEF ks, vs
<1>11. /\ StringsOK(next, ks, Key) /\ Different(next, ks) /\ Hashes(next, ks) = Hashes(mem, ks)
       /\ Strs(next, ks, "map", m.a) = Strs(mem, ks, "map", m.a)
  BY <1>1, <1>10, SameStrings, SameCells
<1>12. MapOK(next, p, s.x.h)
  <2>1. MapOK(mem, p, s.x.h)
    BY DEF MapIn
  <2> QED
    BY <1>7, <1>8, <1>9, <1>11, <2>1 DEF MapOK, ks
<1>13. MapBlocks(next, p) = MapBlocks(mem, p)
  BY <1>9, <1>11, MapParts DEF MapStrings, ks
<1>14. Agree(mem, next, F)
  <2>1. \A f \in F : f.p \notin {m.vals}
    BY <1>3 DEF MapApart
  <2> QED
    BY <1>8, <2>1, TouchedAgree
<1>15. KeysOf(next, p) = KeysOf(mem, p) /\ ValsOf(next, p) = vs1
  BY <1>1, <1>9, <1>10 DEF KeysOf, ValsOf, SameAt, ks
<1>16. MapStep(s, t, p, F)
  BY <1>2, <1>6, <1>12, <1>13, <1>14 DEF MapStep, MapIn, Like, next
<1> QED
  BY <1>9, <1>15, <1>16 DEF Revalued, ValsOf, vs, vs1, next

\* What tiq_map_set does to a map.
Assigned(mem, next, p, k, v) ==
  LET e == Find(mem, mem[p], k)
  IN  IF e >= 0 THEN Revalued(mem, next, p, e + 1, v) ELSE Added(mem, next, p, k, v)

\* An entry added after the map has grown.
LEMMA AddedAfter ==
  ASSUME NEW mem, NEW mid, NEW next, NEW p, NEW k, NEW v, SameMap(mem, mid, p), Added(mid, next, p, k, v)
  PROVE  Added(mem, next, p, k, v)
  BY DEF SameMap, Added

\* A map that stays what it was twice stays what it was.
LEMMA SameTrans ==
  ASSUME NEW mem, NEW mid, NEW next, NEW p, SameMap(mem, mid, p), SameMap(mid, next, p)
  PROVE  SameMap(mem, next, p)
  BY DEF SameMap

\* tiq_map_set: the map is well formed, holds what it should, and nothing beside it
\* is written.
LEMMA MapSetKept ==
  ASSUME NEW s, NEW p, NEW F, MapIn(s, p, F), NEW k \in Key, NEW v \in Value,
         ~MapSet(s, p, k, v).dead
  PROVE  /\ MapStep(s, MapSet(s, p, k, v), p, F)
         /\ Assigned(s.mem, MapSet(s, p, k, v).mem, p, k, v)
<1> DEFINE mem == s.mem
           m == mem[p]
           e == Find(mem, m, k)
           full == (m.len + 1) * 10 > m.nbuckets * 7
           roomy == IF full THEN Rehash(s, p) ELSE s
           ready == IF m.len = m.cap THEN GrowEntries(roomy, p) ELSE roomy
           t == MapSet(s, p, k, v)
<1>1. MapOK(mem, p, s.x.h) /\ IsStore(s)
  BY DEF MapIn, Kept
<1>2. /\ m.len \in Nat /\ m.cap \in Nat /\ m.nbuckets \in Nat \ {0}
      /\ m.len <= m.cap /\ m.len * 10 <= m.nbuckets * 7 /\ m.len < m.nbuckets
  BY <1>1, MapFields
<1>3. Sought(mem, p, k)
  BY <1>1, MapSought
<1>4. CASE e >= 0
  <2>1. t = Put(s, m.vals, [mem[m.vals] EXCEPT ![e + 1] = v])
    BY <1>4 DEF MapSet
  <2>2. m.cap # 0
    BY <1>2, <1>3, <1>4 DEF Sought
  <2> HIDE DEF t, e
  <2>3. MapStep(s, t, p, F) /\ Revalued(mem, t.mem, p, e + 1, v)
    BY <2>1, <2>2, RevalueKept
  <2> QED
    BY <1>4, <2>3 DEF Assigned, t, e
<1>5. CASE ~(e >= 0)
  <2>1. t = IF ready.dead THEN ready ELSE AddEntry(ready, p, k, v)
    BY <1>5 DEF MapSet
  <2>2. ~ready.dead /\ t = AddEntry(ready, p, k, v) /\ ~AddEntry(ready, p, k, v).dead
    BY <2>1
  <2>3. \A i \in 1..m.len : KeysOf(mem, p)[i] # k
    BY <1>3, <1>5 DEF Sought
  <2> HIDE DEF t, e, ready
  <2>4. ~roomy.dead
    <3>1. IsStore(roomy)
      BY <1>1, RehashStore
    <3> HIDE DEF roomy
    <3> QED
      BY <2>2, <3>1, GrowEntriesStore DEF ready
  <2>5. /\ MapStep(s, roomy, p, F) /\ SameMap(mem, roomy.mem, p) /\ roomy.mem[p].cap = m.cap
        /\ (m.len + 1) * 10 <= roomy.mem[p].nbuckets * 7
    <3>1. CASE full
      <4>1. roomy = Rehash(s, p)
        BY <3>1
      <4>2. /\ MapStep(s, roomy, p, F) /\ SameMap(mem, roomy.mem, p) /\ roomy.mem[p].cap = m.cap
            /\ roomy.mem[p].nbuckets = 2 * m.nbuckets
        BY <2>4, <4>1, RehashKept
      <4> QED
        BY <1>2, <4>2
    <3>2. CASE ~full
      <4>1. roomy = s
        BY <3>2
      <4>2. SameMap(mem, mem, p) /\ MapStep(s, s, p, F)
        BY StepSame DEF SameMap
      <4>3. (m.len + 1) * 10 <= m.nbuckets * 7
        BY <1>2, <3>2
      <4> QED
        BY <4>1, <4>2, <4>3
    <3> QED
      BY <3>1, <3>2
  <2>6. MapIn(roomy, p, F) /\ roomy.mem[p].len = m.len
    BY <2>5 DEF MapStep, SameMap
  <2> HIDE DEF roomy
  <2>7. /\ MapStep(roomy, ready, p, F) /\ SameMap(roomy.mem, ready.mem, p) /\ m.len < ready.mem[p].cap
        /\ ready.mem[p].nbuckets = roomy.mem[p].nbuckets
    <3>1. CASE m.len = m.cap
      <4>1. ready = GrowEntries(roomy, p)
        BY <3>1 DEF ready
      <4>2. /\ MapStep(roomy, ready, p, F) /\ SameMap(roomy.mem, ready.mem, p)
            /\ ready.mem[p].cap = GrowCap(m.cap) /\ ready.mem[p].nbuckets = roomy.mem[p].nbuckets
        BY <2>2, <2>5, <2>6, <4>1, GrowEntriesKept
      <4> QED
        BY <1>2, <3>1, <4>2, GrowCapMore
    <3>2. CASE m.len # m.cap
      <4>1. ready = roomy
        BY <3>2 DEF ready
      <4>2. SameMap(roomy.mem, roomy.mem, p) /\ MapStep(roomy, roomy, p, F)
        BY <2>6, StepSame DEF SameMap
      <4>3. m.len < roomy.mem[p].cap
        BY <1>2, <2>5, <3>2
      <4> QED
        BY <4>1, <4>2, <4>3
    <3> QED
      BY <3>1, <3>2
  <2>8. MapStep(s, ready, p, F) /\ SameMap(mem, ready.mem, p)
    BY <2>5, <2>7, StepTrans, SameTrans
  <2>9. /\ MapIn(ready, p, F) /\ ready.mem[p].len < ready.mem[p].cap
        /\ (ready.mem[p].len + 1) * 10 <= ready.mem[p].nbuckets * 7
        /\ \A i \in 1..ready.mem[p].len : KeysOf(ready.mem, p)[i] # k
    BY <2>3, <2>5, <2>7, <2>8 DEF MapStep, SameMap
  <2>10. MapStep(ready, t, p, F) /\ Added(ready.mem, t.mem, p, k, v)
    BY <2>2, <2>9, AddEntryKept
  <2>11. MapStep(s, t, p, F) /\ Added(mem, t.mem, p, k, v)
    BY <2>8, <2>10, StepTrans, AddedAfter
  <2> QED
    BY <1>5, <2>11 DEF Assigned, e, t
<1> QED
  BY <1>4, <1>5

\* A container made beside the blocks F.
MapMade(s, r, F) == /\ MapIn(r.s, r.p, F) /\ Like(s, r.s) /\ Agree(s.mem, r.s.mem, F) /\ r.p \in Nat \ {0}
                    /\ r.s.mem[r.p].len = 0

\* tiq_map_new: an empty map beside what is held.
LEMMA MapNewKept ==
  ASSUME NEW s, NEW F, Kept(s, F), NEW a \in {0, s.x.h}, ~MapNew(s, a).s.dead
  PROVE  MapMade(s, MapNew(s, a), F)
<1> DEFINE size == FirstBuckets * Word
           m == Take(s, a, MapBytes, MaxAlign)
           b == Take(m.s, a, size, MaxAlign)
           bs == EmptyBuckets(FirstBuckets)
           new == [keys |-> 0, vals |-> 0, len |-> 0, cap |-> 0, buckets |-> b.p,
                   nbuckets |-> FirstBuckets, a |-> a]
           one == Put(b.s, b.p, bs)
           t == Put(one, m.p, new)
           hd == MapHead(m.p, new)
           tb == MapTable(new)
           p == m.p
           q == b.p
<1>1. MapNew(s, a) = [s |-> t, p |-> m.p]
  BY DEF MapNew
<1>2. /\ MapBytes \in Nat \ {0} /\ size \in Nat \ {0} /\ MaxAlign \in {1, MaxAlign}
      /\ FirstBuckets \in Nat \ {0}
  BY Bytes, ContainersAssumption
<1>3. /\ new.keys = 0 /\ new.vals = 0 /\ new.len = 0 /\ new.cap = 0 /\ new.buckets = q
      /\ new.nbuckets = FirstBuckets /\ new.a = a
      /\ (q \in Nat => new \in [keys : Nat, vals : Nat, len : Nat, cap : Nat, buckets : Nat,
                                nbuckets : Nat \ {0}, a : {0, s.x.h}])
  BY <1>2
<1>4. Names(hd, p, MapBytes, MaxAlign, a) /\ Names(tb, q, size, MaxAlign, a)
  <2> HIDE DEF new, m, b
  <2> QED
    BY <1>3, PartFields
<1>5. IsStore(s)
  BY DEF Kept
<1> HIDE DEF new, hd, tb, bs, size
<1>6. IsStore(m.s)
  BY <1>5, TakeStore
<1> HIDE DEF m
<1>7. IsStore(b.s) /\ (m.s.dead => b.s.dead)
  BY <1>6, TakeStore
<1> HIDE DEF b
<1>8. IsStore(one) /\ one.dead = b.s.dead
  BY <1>7, PutStore DEF OnlyMem
<1> HIDE DEF one
<1>9. t.dead = one.dead
  BY <1>8, PutStore DEF OnlyMem
<1>10. ~m.s.dead /\ ~b.s.dead
  BY <1>1, <1>7, <1>8, <1>9
<1> HIDE DEF t
<1>11. Taken(s, m, F, hd)
  BY <1>2, <1>4, <1>10, TakeKept DEF m
<1>12. Kept(m.s, F \cup {hd}) /\ Like(s, m.s) /\ m.s.mem = s.mem /\ a \in {0, m.s.x.h}
  BY <1>11 DEF Taken, Like
<1>13. Taken(m.s, b, F \cup {hd}, tb)
  BY <1>2, <1>4, <1>10, <1>12, TakeKept DEF b
<1>14. Kept(b.s, F \cup {hd} \cup {tb}) /\ Like(m.s, b.s) /\ b.s.mem = s.mem
  BY <1>12, <1>13 DEF Taken
<1>15. Kept(one, F \cup {hd} \cup {tb}) /\ Like(b.s, one) /\ one.mem = Written(s.mem, q, bs)
  BY <1>14, PutKept DEF one
<1>16. Kept(t, F \cup {hd} \cup {tb}) /\ Like(one, t) /\ t.mem = Written(Written(s.mem, q, bs), p, new)
  BY <1>15, PutKept DEF t
<1>17. p \in Nat \ {0} /\ q \in Nat \ {0} /\ p # q /\ \A f \in F : f.p \notin {p, q}
  <2>1. (\A f \in F : f.p # p) /\ (\A f \in F \cup {hd} : f.p # q) /\ hd.p = p
    BY <1>4, <1>11, <1>13 DEF Taken, Names
  <2> QED
    BY <1>11, <1>13, <2>1 DEF Taken
<1> DEFINE next == t.mem
<1>18. /\ p \in DOMAIN next /\ next[p] = new /\ q \in DOMAIN next /\ next[q] = bs
       /\ Touched(s.mem, next, {p, q})
  <2> HIDE DEF next, p, q
  <2> QED
    BY <1>16, <1>17 DEF Written, Touched, next
<1> HIDE DEF next, p, q
<1>19. Contents(next, new.keys) = <<>> /\ Contents(next, new.vals) = <<>>
  BY <1>3 DEF Contents
<1>20. MapOK(next, p, s.x.h)
  <2>1. Bucketed(bs, FirstBuckets, Hashes(next, <<>>), 0)
    BY <1>2, EmptyBucketed DEF bs
  <2>2. StringsOK(next, <<>>, Key) /\ Different(next, <<>>)
    BY DEF StringsOK, Different
  <2>3. <<>> \in Seq(Nat) /\ <<>> \in Seq(Value) /\ Len(<<>>) = 0
    OBVIOUS
  <2>4. new.len * 10 <= new.nbuckets * 7 /\ new.len <= new.cap
    BY <1>2, <1>3
  <2> QED
    BY <1>3, <1>17, <1>18, <1>19, <2>1, <2>2, <2>3, <2>4 DEF MapOK
<1>21. MapBlocks(next, p) = {hd, tb}
  <2>1. Strs(next, <<>>, "map", a) = {}
    BY DEF Strs
  <2> QED
    BY <1>3, <1>18, <1>19, <2>1, MapParts DEF MapArrays, MapStrings, hd, tb, p
<1>22. hd \notin F /\ tb \notin F
  BY <1>4, <1>17 DEF Names
<1>23. MapBlocks(next, p) \cup F = F \cup {hd} \cup {tb} /\ MapBlocks(next, p) \cap F = {}
  BY <1>21, <1>22
<1>24. Like(s, t) /\ t.x.h = s.x.h
  BY <1>12, <1>14, <1>15, <1>16 DEF Like
<1>25. MapIn(t, p, F)
  BY <1>16, <1>20, <1>23, <1>24 DEF MapIn, next
<1>26. Agree(s.mem, next, F)
  BY <1>17, <1>18, TouchedAgree
<1> QED
  BY <1>1, <1>3, <1>17, <1>18, <1>24, <1>25, <1>26 DEF MapMade, next, p

-----------------------------------------------------------------------------
\* The vec.

\* The blocks of a vec, by name.
VecHead(p, v) == Owned(<<"vec", "header", 0>>, Block(p, VecBytes, MaxAlign, v.a))
VecCells(v) == Owned(<<"vec", "cells", 0>>, Words(v.data, v.cap, v.a))
VecArrays(v) == IF v.cap = 0 THEN {} ELSE {VecCells(v)}
VecStrings(mem, xs, a, strings) == IF strings THEN Strs(mem, xs, "vec", a) ELSE {}

\* The blocks of a vec: header, cells, strings.
LEMMA VecParts ==
  ASSUME NEW mem, NEW p, NEW strings
  PROVE  VecBlocks(mem, p, strings) =
           {VecHead(p, mem[p])} \cup VecArrays(mem[p])
           \cup VecStrings(mem, Contents(mem, mem[p].data), mem[p].a, strings)
  BY DEF VecBlocks, VecHead, VecCells, VecArrays, VecStrings

\* Address, size, alignment and allocator of a vec's blocks.
LEMMA VecFields ==
  ASSUME NEW p, NEW v
  PROVE  /\ Names(VecHead(p, v), p, VecBytes, MaxAlign, v.a)
         /\ Names(VecCells(v), v.data, v.cap * Word, MaxAlign, v.a)
  BY DEF VecHead, VecCells, Owned, Words, Block, Names

\* The blocks of a vec have different names.
LEMMA VecNamesApart ==
  ASSUME NEW p, NEW v, NEW k, NEW mem, NEW ps, NEW a, NEW strings
  PROVE  /\ VecHead(p, v) # VecCells(k)
         /\ \A b \in VecStrings(mem, ps, a, strings) : b # VecHead(p, v) /\ b # VecCells(k)
<1>1. VecHead(p, v).o = <<"vec", "header", 0>> /\ VecCells(k).o = <<"vec", "cells", 0>>
  BY DEF VecHead, VecCells, Owned
<1>2. \A b \in VecStrings(mem, ps, a, strings) : b.o[2] = "string"
  BY DEF VecStrings, Strs, Owned
<1>3. <<"vec", "header", 0>>[2] = "header" /\ <<"vec", "cells", 0>>[2] = "cells"
  OBVIOUS
<1> QED
  BY <1>1, <1>2, <1>3

\* A vec among other blocks, and an operation on it.
VecIn(s, p, F, strings) ==
  /\ Kept(s, VecBlocks(s.mem, p, strings) \cup F) /\ VecBlocks(s.mem, p, strings) \cap F = {}
  /\ VecOK(s.mem, p, s.x.h, strings)
VecStep(s, t, p, F, strings) == VecIn(t, p, F, strings) /\ Like(s, t) /\ Agree(s.mem, t.mem, F)

\* What its users see of it.
CellsOf(mem, p) == Contents(mem, mem[p].data)
Elems(mem, xs, strings) == IF strings THEN [i \in 1..Len(xs) |-> mem[xs[i]]] ELSE xs
SameVec(mem, next, p, strings) ==
  /\ next[p].len = mem[p].len /\ next[p].a = mem[p].a /\ CellsOf(next, p) = CellsOf(mem, p)
  /\ Elems(next, CellsOf(next, p), strings) = Elems(mem, CellsOf(mem, p), strings)

VecApart(mem, p, F, strings) ==
  LET v == mem[p]
      xs == Contents(mem, v.data)
  IN  /\ p # 0 /\ (v.cap # 0 => v.data \notin {0, p})
      /\ \A f \in F : f.p # p /\ (v.cap # 0 => f.p # v.data)
      /\ strings => \A i \in 1..Len(xs) : /\ xs[i] \notin {0, p} /\ (v.cap # 0 => xs[i] # v.data)
                                          /\ \A f \in F : f.p # xs[i]

\* A vec's blocks and those beside it lie at different addresses.
LEMMA VecAddresses ==
  ASSUME NEW s, NEW p, NEW F, NEW strings, VecIn(s, p, F, strings)
  PROVE  VecApart(s.mem, p, F, strings)
<1> DEFINE v == s.mem[p]
           xs == Contents(s.mem, v.data)
           M == VecBlocks(s.mem, p, strings)
           G == M \cup F
           S == VecStrings(s.mem, xs, v.a, strings)
           hd == VecHead(p, v)
           cl == VecCells(v)
<1>1. Kept(s, G) /\ M \cap F = {}
  BY DEF VecIn
<1>2. hd \in M /\ (v.cap # 0 => cl \in M) /\ S \subseteq M
  BY VecParts DEF VecArrays
<1> HIDE DEF M
<1>3. hd.p = p /\ cl.p = v.data
  BY VecFields DEF Names
<1>4. ASSUME strings PROVE \A i \in 1..Len(xs) : \E b \in S : b.p = xs[i]
  BY <1>4, StringFields DEF VecStrings, Names
<1>5. hd # cl /\ \A b \in S : b # hd /\ b # cl
  BY VecNamesApart
<1>6. \A b, c \in G : b # c => b.p # c.p
  BY <1>1, KeptApart
<1>7. \A b \in G : b.p # 0
  BY <1>1, KeptTyped
<1>8. \A b \in M, f \in F : b.p # f.p
  BY <1>1, <1>6
<1> HIDE DEF G, S
<1>9. M \subseteq G
  BY DEF G
<1> HIDE DEF hd, cl
<1>10. p # 0 /\ (v.cap # 0 => v.data \notin {0, p}) /\ \A f \in F : f.p # p /\ (v.cap # 0 => f.p # v.data)
  BY <1>2, <1>3, <1>5, <1>6, <1>7, <1>8, <1>9
<1>11. ASSUME strings, NEW i \in 1..Len(xs)
       PROVE  /\ xs[i] \notin {0, p} /\ (v.cap # 0 => xs[i] # v.data)
              /\ \A f \in F : f.p # xs[i]
  <2>1. PICK b \in S : b.p = xs[i]
    BY <1>4, <1>11
  <2>2. b \in M /\ b \in G
    BY <1>2, <1>9
  <2> QED
    BY <1>2, <1>3, <1>5, <1>6, <1>7, <1>8, <1>9, <2>1, <2>2
<1> QED
  BY <1>10, <1>11 DEF VecApart

\* Sequences of strings: one more, another in a place, one less.
LEMMA CellNames ==
  ASSUME NEW mem, NEW ps, NEW qs, NEW what, NEW a, NEW i, NEW j,
         StrCell(mem, ps, what, a, i) = StrCell(mem, qs, what, a, j)
  PROVE  i = j
<1>1. StrCell(mem, ps, what, a, i).o = <<what, "string", i>>
      /\ StrCell(mem, qs, what, a, j).o = <<what, "string", j>>
  BY DEF StrCell, Owned
<1>2. <<what, "string", i>>[3] = i /\ <<what, "string", j>>[3] = j
  OBVIOUS
<1> QED
  BY <1>1, <1>2

\* The blocks of a sequence of strings, one by one.
LEMMA StrsCells ==
  ASSUME NEW mem, NEW ps, NEW what, NEW a
  PROVE  Strs(mem, ps, what, a) = {StrCell(mem, ps, what, a, i) : i \in 1..Len(ps)}
  BY DEF Strs, StrCell

\* The same address in the same place is the same block.
LEMMA CellSame ==
  ASSUME NEW mem, NEW ps, NEW qs, NEW what, NEW a, NEW i, ps[i] = qs[i]
  PROVE  StrCell(mem, ps, what, a, i) = StrCell(mem, qs, what, a, i)
  BY DEF StrCell

\* The cells of a vec with room, written anew.
Rewritten(mem, next, p, xs) ==
  /\ next[p] = [mem[p] EXCEPT !.len = Len(xs)] /\ p \in DOMAIN next
  /\ next[mem[p].data] = xs /\ mem[p].data \in DOMAIN next
  /\ Touched(mem, next, {p, mem[p].data})
Listed(mem, p, xs, strings) ==
  /\ xs \in Seq(IF strings THEN Nat ELSE Value) /\ Len(xs) <= mem[p].cap
  /\ strings => /\ StringsOK(mem, xs, Value)
                /\ \A i \in 1..Len(xs) : xs[i] \notin {p, mem[p].data}
RewrittenOK(mem, next, p, h, xs, strings) ==
  /\ VecOK(next, p, h, strings)
  /\ VecBlocks(next, p, strings) = {VecHead(p, mem[p]), VecCells(mem[p])} \cup VecStrings(mem, xs, mem[p].a, strings)
  /\ next[p].len = Len(xs) /\ next[p].a = mem[p].a /\ next[p].cap = mem[p].cap
  /\ CellsOf(next, p) = xs /\ Elems(next, xs, strings) = Elems(mem, xs, strings)

\* The cells of a vec written anew: the vec of the new elements.
LEMMA CellsRewritten ==
  ASSUME NEW mem, NEW next, NEW p, NEW h, NEW strings \in BOOLEAN, VecOK(mem, p, h, strings),
         mem[p].cap # 0, mem[p].data # 0,
         NEW xs, Listed(mem, p, xs, strings), Rewritten(mem, next, p, xs)
  PROVE  RewrittenOK(mem, next, p, h, xs, strings)
<1> DEFINE v == mem[p]
           new == next[p]
<1>1. v \in [data : Nat, len : Nat, cap : Nat, a : {0, h}]
  BY DEF VecOK
<1>2. Len(xs) \in Nat /\ Len(xs) <= v.cap
  BY DEF Listed
<1>3. new = [v EXCEPT !.len = Len(xs)]
  BY DEF Rewritten
<1> HIDE DEF v, new
<1>4. /\ new.data = v.data /\ new.len = Len(xs) /\ new.cap = v.cap /\ new.a = v.a
      /\ new \in [data : Nat, len : Nat, cap : Nat, a : {0, h}]
  BY <1>1, <1>2, <1>3
<1>5. Contents(next, new.data) = xs /\ v.data # 0 /\ v.cap # 0
  BY <1>4 DEF Contents, Rewritten, v
<1>6. ASSUME strings PROVE SameAt(mem, next, xs) /\ xs \in Seq(Nat) /\ StringsOK(mem, xs, Value)
  BY <1>6 DEF Listed, Rewritten, Touched, StringsOK, SameAt
<1>7. ASSUME strings PROVE StringsOK(next, xs, Value) /\ Strs(next, xs, "vec", v.a) = Strs(mem, xs, "vec", v.a)
                           /\ \A i \in 1..Len(xs) : next[xs[i]] = mem[xs[i]]
  <2>1. SameAt(mem, next, xs) /\ xs \in Seq(Nat) /\ StringsOK(mem, xs, Value)
    BY <1>6, <1>7
  <2>2. StringsOK(next, xs, Value)
    BY <2>1, SameStrings
  <2>3. Strs(next, xs, "vec", v.a) = Strs(mem, xs, "vec", v.a)
    BY <2>1, SameCells
  <2>4. \A i \in 1..Len(xs) : next[xs[i]] = mem[xs[i]]
    BY <2>1 DEF SameAt
  <2> QED
    BY <2>2, <2>3, <2>4
<1>8. VecOK(next, p, h, strings)
  <2>1. p \in DOMAIN next /\ new.data \in DOMAIN next
    BY <1>4 DEF Rewritten, v
  <2>2. xs \in Seq(IF strings THEN Nat ELSE Value)
    BY DEF Listed
  <2> QED
    BY <1>2, <1>4, <1>5, <1>7, <2>1, <2>2 DEF VecOK, new
<1>9. VecBlocks(next, p, strings) = {VecHead(p, v), VecCells(v)} \cup VecStrings(mem, xs, v.a, strings)
  <2>1. VecHead(p, new) = VecHead(p, v) /\ VecCells(new) = VecCells(v) /\ new.cap # 0
    BY <1>4, <1>5 DEF VecHead, VecCells
  <2>2. VecStrings(next, xs, v.a, strings) = VecStrings(mem, xs, v.a, strings)
    BY <1>7 DEF VecStrings
  <2>3. VecBlocks(next, p, strings) = {VecHead(p, new)} \cup VecArrays(new) \cup VecStrings(next, xs, new.a, strings)
    BY <1>5, VecParts DEF new
  <2> QED
    BY <1>4, <2>1, <2>2, <2>3 DEF VecArrays
<1>10. Elems(next, xs, strings) = Elems(mem, xs, strings)
  BY <1>7 DEF Elems
<1> QED
  BY <1>4, <1>5, <1>8, <1>9, <1>10 DEF RewrittenOK, CellsOf, v, new

VecMade(s, r, F, strings) ==
  /\ VecIn(r.s, r.p, F, strings) /\ Like(s, r.s) /\ Agree(s.mem, r.s.mem, F) /\ r.p \in Nat \ {0}
  /\ CellsOf(r.s.mem, r.p) = <<>>

\* tiq_vec_new: an empty vec beside what is held.
LEMMA VecNewKept ==
  ASSUME NEW s, NEW F, Kept(s, F), NEW a \in {0, s.x.h}, NEW strings \in BOOLEAN, ~VecNew(s, a).s.dead
  PROVE  VecMade(s, VecNew(s, a), F, strings)
<1> DEFINE v == Take(s, a, VecBytes, MaxAlign)
           new == [data |-> 0, len |-> 0, cap |-> 0, a |-> a]
           t == Put(v.s, v.p, new)
           p == v.p
           hd == VecHead(p, new)
           next == t.mem
<1>1. VecNew(s, a) = [s |-> t, p |-> p]
  BY DEF VecNew
<1>2. VecBytes \in Nat \ {0} /\ MaxAlign \in {1, MaxAlign}
  BY Bytes
<1>3. /\ new.data = 0 /\ new.len = 0 /\ new.cap = 0 /\ new.a = a
      /\ new \in [data : Nat, len : Nat, cap : Nat, a : {0, s.x.h}]
  OBVIOUS
<1> HIDE DEF new
<1>4. Names(hd, p, VecBytes, MaxAlign, a)
  BY <1>3, VecFields
<1>5. IsStore(s)
  BY DEF Kept
<1> HIDE DEF hd
<1>6. IsStore(v.s)
  BY <1>5, TakeStore
<1> HIDE DEF v
<1>7. t.dead = v.s.dead
  BY <1>6, PutStore DEF OnlyMem
<1>8. ~v.s.dead
  BY <1>1, <1>7
<1> HIDE DEF t
<1>9. Taken(s, v, F, hd)
  BY <1>2, <1>4, <1>8, TakeKept DEF v
<1>10. Kept(v.s, F \cup {hd}) /\ Like(s, v.s) /\ v.s.mem = s.mem
  BY <1>9 DEF Taken
<1>11. Kept(t, F \cup {hd}) /\ Like(v.s, t) /\ next = Written(s.mem, p, new)
  BY <1>10, PutKept DEF t
<1>12. p \in Nat \ {0} /\ \A f \in F : f.p # p
  BY <1>9 DEF Taken
<1>13. p \in DOMAIN next /\ next[p] = new /\ Touched(s.mem, next, {p})
  BY <1>11 DEF Written, Touched
<1> HIDE DEF next, p
<1>14. Contents(next, new.data) = <<>>
  BY <1>3 DEF Contents
<1>15. VecOK(next, p, s.x.h, strings)
  <2>1. StringsOK(next, <<>>, Value)
    BY DEF StringsOK
  <2>2. <<>> \in Seq(IF strings THEN Nat ELSE Value) /\ Len(<<>>) = 0
    OBVIOUS
  <2>3. new.len <= new.cap
    BY <1>3
  <2> QED
    BY <1>3, <1>13, <1>14, <2>1, <2>2, <2>3 DEF VecOK
<1>16. VecBlocks(next, p, strings) = {hd}
  <2>1. VecStrings(next, <<>>, a, strings) = {}
    BY DEF VecStrings, Strs
  <2> QED
    BY <1>3, <1>13, <1>14, <2>1, VecParts DEF VecArrays, hd, p
<1>17. hd \notin F
  BY <1>4, <1>12 DEF Names
<1>18. VecBlocks(next, p, strings) \cup F = F \cup {hd} /\ VecBlocks(next, p, strings) \cap F = {}
  BY <1>16, <1>17
<1>19. Like(s, t) /\ t.x.h = s.x.h
  BY <1>10, <1>11 DEF Like
<1>20. VecIn(t, p, F, strings)
  BY <1>11, <1>15, <1>18, <1>19 DEF VecIn, next
<1>21. Agree(s.mem, next, F)
  BY <1>12, <1>13, TouchedAgree
<1> QED
  BY <1>1, <1>12, <1>13, <1>14, <1>19, <1>20, <1>21 DEF VecMade, CellsOf, next, p

\* The numbers of a vec.
LEMMA VecNumbers ==
  ASSUME NEW mem, NEW p, NEW h, NEW strings, VecOK(mem, p, h, strings)
  PROVE  /\ mem[p].len \in Nat /\ mem[p].cap \in Nat /\ mem[p].a \in {0, h} /\ mem[p].len <= mem[p].cap
         /\ CellsOf(mem, p) \in Seq(IF strings THEN Nat ELSE Value) /\ Len(CellsOf(mem, p)) = mem[p].len
         /\ p \in DOMAIN mem /\ (mem[p].cap # 0 => mem[p].data \in DOMAIN mem)
         /\ strings => StringsOK(mem, CellsOf(mem, p), Value)
  BY DEF VecOK, CellsOf

\* tiq_vec_reserve does not bring the process back.
LEMMA ReserveStore ==
  ASSUME NEW s, IsStore(s), NEW p
  PROVE  IsStore(Reserve(s, p)) /\ (s.dead => Reserve(s, p).dead)
<1> DEFINE v == s.mem[p]
           c == GrowCap(v.cap)
           d == Take(s, v.a, c * Word, MaxAlign)
           xs == Contents(s.mem, v.data)
           new == [v EXCEPT !.data = d.p, !.cap = c]
           one == Put(d.s, d.p, xs)
           two == Put(one, p, new)
           old == Words(v.data, v.cap, v.a)
           t == Drop(two, old)
<1>1. Reserve(s, p) = IF s.dead \/ v.len < v.cap THEN s ELSE t
  BY DEF Reserve
<1>2. IsStore(d.s) /\ (s.dead => d.s.dead)
  BY TakeStore
<1> HIDE DEF d, xs, new
<1>3. IsStore(one) /\ one.dead = d.s.dead
  BY <1>2, PutStore DEF OnlyMem
<1> HIDE DEF one
<1>4. IsStore(two) /\ two.dead = one.dead
  BY <1>3, PutStore DEF OnlyMem
<1> HIDE DEF two, old
<1>5. IsStore(t) /\ t.dead = two.dead
  BY <1>4, DropStore
<1> QED
  BY <1>1, <1>2, <1>3, <1>4, <1>5

\* No operation on a vec is one.
LEMMA VecSame ==
  ASSUME NEW s, NEW p, NEW F, NEW strings, VecIn(s, p, F, strings)
  PROVE  VecStep(s, s, p, F, strings) /\ SameVec(s.mem, s.mem, p, strings)
  BY DEF VecStep, SameVec, Like, Agree

Moved(mem, next, p, q, xs, new) ==
  /\ p \in DOMAIN next /\ next[p] = new /\ q \in DOMAIN next /\ next[q] = xs
  /\ Touched(mem, next, {p, q} \cup (IF mem[p].cap = 0 THEN {} ELSE {mem[p].data}))

\* tiq_vec_reserve: the vec stays what it was, with room for one more.
LEMMA ReserveKept ==
  ASSUME NEW s, NEW p, NEW F, NEW strings \in BOOLEAN, VecIn(s, p, F, strings), ~Reserve(s, p).dead
  PROVE  /\ VecStep(s, Reserve(s, p), p, F, strings) /\ SameVec(s.mem, Reserve(s, p).mem, p, strings)
         /\ s.mem[p].len < Reserve(s, p).mem[p].cap
<1> DEFINE mem == s.mem
           v == mem[p]
           c == GrowCap(v.cap)
           size == c * Word
           d == Take(s, v.a, size, MaxAlign)
           xs == Contents(mem, v.data)
           M == VecBlocks(mem, p, strings)
           new == [v EXCEPT !.data = d.p, !.cap = c]
           one == Put(d.s, d.p, xs)
           two == Put(one, p, new)
           old == Words(v.data, v.cap, v.a)
           t == Drop(two, old)
           q == d.p
           b == VecCells(new)
           next == t.mem
<1>1. Reserve(s, p) = IF s.dead \/ v.len < v.cap THEN s ELSE t
  BY DEF Reserve
<1>2. Kept(s, M \cup F) /\ M \cap F = {} /\ IsStore(s) /\ VecOK(mem, p, s.x.h, strings)
  BY DEF VecIn, Kept
<1>3. /\ v \in [data : Nat, len : Nat, cap : Nat, a : {0, s.x.h}]
      /\ p \in DOMAIN mem /\ (v.cap # 0 => v.data \in DOMAIN mem) /\ (v.cap = 0 => v.data = 0)
      /\ xs \in Seq(IF strings THEN Nat ELSE Value) /\ Len(xs) = v.len
      /\ strings => StringsOK(mem, xs, Value)
  BY <1>2 DEF VecOK
<1>4. v.len \in Nat /\ v.cap \in Nat /\ v.a \in {0, s.x.h} /\ v.len <= v.cap
  BY <1>2, VecNumbers
<1>5. VecApart(mem, p, F, strings)
  BY VecAddresses
<1>6. CASE s.dead \/ v.len < v.cap
  BY <1>1, <1>6, VecSame
<1>7. CASE ~(s.dead \/ v.len < v.cap)
  <2>1. c \in Nat \ {0} /\ v.cap < c /\ size \in Nat \ {0} /\ MaxAlign \in {1, MaxAlign} /\ v.len <= c /\ v.len < c
    <3>1. c \in Nat \ {0} /\ v.cap < c
      BY <1>4, GrowCapMore
    <3> HIDE DEF c, v
    <3> QED
      BY <1>4, <3>1, Bytes
  <2> HIDE DEF c, size
  <2>2. /\ new.data = q /\ new.len = v.len /\ new.cap = c /\ new.a = v.a
        /\ (q \in Nat => new \in [data : Nat, len : Nat, cap : Nat, a : {0, s.x.h}])
    BY <1>3, <2>1
  <2>3. Names(b, q, size, MaxAlign, v.a)
    <3> HIDE DEF new, d, v
    <3> QED
      BY <2>2, VecFields DEF size
  <2> HIDE DEF new, b, xs
  <2>4. ~d.s.dead
    <3>1. IsStore(d.s)
      BY <1>2, TakeStore
    <3> HIDE DEF d
    <3>2. IsStore(one) /\ one.dead = d.s.dead
      BY <3>1, PutStore DEF OnlyMem
    <3> HIDE DEF one
    <3>3. IsStore(two) /\ two.dead = one.dead
      BY <3>2, PutStore DEF OnlyMem
    <3> HIDE DEF two, old
    <3>4. t.dead = two.dead
      BY <3>3, DropStore
    <3> QED
      BY <1>1, <1>7, <3>2, <3>3, <3>4
  <2> HIDE DEF d, t, M
  <2>5. Taken(s, d, M \cup F, b)
    <3> HIDE DEF v
    <3> QED
      BY <1>2, <1>4, <2>1, <2>3, <2>4, TakeKept DEF d
  <2> DEFINE G == M \cup F \cup {b}
  <2>6. Kept(d.s, G) /\ Like(s, d.s) /\ d.s.mem = mem
    BY <2>5 DEF Taken
  <2> HIDE DEF G, one, two
  <2>7. Kept(one, G) /\ Like(d.s, one) /\ one.mem = Written(mem, q, xs)
    BY <2>6, PutKept DEF one
  <2>8. Kept(two, G) /\ Like(one, two) /\ two.mem = Written(Written(mem, q, xs), p, new)
    BY <2>7, PutKept DEF two
  <2> DEFINE filled == Written(Written(mem, q, xs), p, new)
  <2>9. /\ Kept(t, G \ VecArrays(v)) /\ Like(two, t)
        /\ next = IF v.cap = 0 THEN filled ELSE Without(filled, v.data)
    <3>1. CASE v.cap = 0
      <4>1. t = two
        BY <1>3, <3>1 DEF old, t, Drop, Words, Block
      <4> QED
        BY <2>8, <3>1, <4>1 DEF VecArrays, Like
    <3>2. CASE v.cap # 0
      <4> DEFINE o == VecCells(v)
      <4>1. o \in G /\ VecArrays(v) = {o}
        BY <3>2, VecParts DEF G, M, VecArrays
      <4>2. old = Block(o.p, o.n, o.al, o.a) /\ o.p = v.data
        BY VecFields DEF Names, Words, old
      <4> HIDE DEF o, v, filled, old
      <4>3. Dropped(two, t, G, o)
        BY <2>8, <4>1, <4>2, DropKept DEF t
      <4> QED
        BY <2>8, <3>2, <4>1, <4>2, <4>3 DEF Dropped, filled
    <3> QED
      BY <3>1, <3>2
  <2>10. (\A e \in M \cup F : e.p # q) /\ q \in Nat \ {0}
    BY <2>5 DEF Taken
  <2>11. q # p /\ (v.cap # 0 => q # v.data) /\ \A f \in F : f.p # q
    <3>1. VecHead(p, v) \in M /\ (v.cap # 0 => VecCells(v) \in M)
      BY VecParts DEF M, VecArrays
    <3>2. VecHead(p, v).p = p /\ VecCells(v).p = v.data
      BY VecFields DEF Names
    <3> HIDE DEF v
    <3> QED
      BY <2>10, <3>1, <3>2
  <2>12. Moved(mem, next, p, q, xs, new)
    <3>1. CASE v.cap = 0
      <4>1. next = filled
        BY <2>9, <3>1
      <4> HIDE DEF next
      <4> QED
        BY <2>11, <3>1, <4>1 DEF Written, Touched, Moved
    <3>2. CASE v.cap # 0
      <4>1. next = Without(filled, v.data)
        BY <2>9, <3>2
      <4>2. v.data # p
        BY <1>5, <3>2 DEF VecApart
      <4> HIDE DEF next
      <4> QED
        BY <2>11, <3>2, <4>1, <4>2 DEF Written, Without, Touched, Moved
    <3> QED
      BY <3>1, <3>2
  <2> HIDE DEF next, q
  <2>13. ASSUME strings
         PROVE  /\ StringsOK(next, xs, Value) /\ Strs(next, xs, "vec", v.a) = Strs(mem, xs, "vec", v.a)
                /\ \A i \in 1..Len(xs) : next[xs[i]] = mem[xs[i]]
    <3>1. \A i \in 1..Len(xs) : StrCell(mem, xs, "vec", v.a, i) \in M /\ StrCell(mem, xs, "vec", v.a, i).p = xs[i]
      <4>1. Strs(mem, xs, "vec", v.a) \subseteq M
        BY <2>13, VecParts DEF M, VecStrings, xs, v
      <4>2. \A i \in 1..Len(xs) : StrCell(mem, xs, "vec", v.a, i) \in Strs(mem, xs, "vec", v.a)
                                   /\ StrCell(mem, xs, "vec", v.a, i).p = xs[i]
        BY StringFields DEF Names
      <4> QED
        BY <4>1, <4>2
    <3>2. \A i \in 1..Len(xs) : xs[i] # q
      BY <2>10, <3>1
    <3>3. \A i \in 1..Len(xs) : xs[i] # p /\ (v.cap # 0 => xs[i] # v.data)
      BY <1>5, <2>13 DEF VecApart, xs
    <3>4. \A i \in 1..Len(xs) : xs[i] \in DOMAIN mem
      BY <1>3, <2>13 DEF StringsOK
    <3>5. SameAt(mem, next, xs)
      BY <2>12, <3>2, <3>3, <3>4 DEF Moved, Touched, SameAt
    <3>6. xs \in Seq(Nat) /\ StringsOK(mem, xs, Value)
      BY <1>3, <2>13
    <3>7. StringsOK(next, xs, Value)
      BY <3>5, <3>6, SameStrings
    <3>8. Strs(next, xs, "vec", v.a) = Strs(mem, xs, "vec", v.a)
      BY <3>5, SameCells
    <3> QED
      BY <3>5, <3>7, <3>8 DEF SameAt
  <2>14. Contents(next, new.data) = xs /\ new.cap # 0
    BY <2>1, <2>2, <2>10, <2>12 DEF Contents, Moved
  <2>15. VecOK(next, p, s.x.h, strings)
    <3>1. p \in DOMAIN next /\ new.data \in DOMAIN next /\ next[p] = new
      BY <2>2, <2>12 DEF Moved
    <3>2. new \in [data : Nat, len : Nat, cap : Nat, a : {0, s.x.h}] /\ new.len <= new.cap
      BY <2>1, <2>2, <2>10
    <3>3. xs \in Seq(IF strings THEN Nat ELSE Value) /\ Len(xs) = new.len
      BY <1>3, <2>2
    <3> QED
      BY <2>13, <2>14, <3>1, <3>2, <3>3 DEF VecOK
  <2>16. VecBlocks(next, p, strings) = (M \ VecArrays(v)) \cup {b}
    <3>1. VecBlocks(next, p, strings) = {VecHead(p, new)} \cup {b} \cup VecStrings(next, xs, v.a, strings)
      BY <2>2, <2>12, <2>14, VecParts DEF Moved, VecArrays, b
    <3>2. M = {VecHead(p, v)} \cup VecArrays(v) \cup VecStrings(mem, xs, v.a, strings)
      BY VecParts DEF M, xs, v
    <3>3. VecHead(p, new) = VecHead(p, v) /\ VecStrings(next, xs, v.a, strings) = VecStrings(mem, xs, v.a, strings)
      BY <2>2, <2>13 DEF VecHead, VecStrings
    <3>4. VecHead(p, v) \notin VecArrays(v) /\ \A e \in VecStrings(mem, xs, v.a, strings) : e \notin VecArrays(v)
      BY VecNamesApart DEF VecArrays
    <3> QED
      BY <3>1, <3>2, <3>3, <3>4
  <2>17. Kept(t, VecBlocks(next, p, strings) \cup F) /\ VecBlocks(next, p, strings) \cap F = {}
    <3>1. b \notin M \cup F
      BY <2>3, <2>10 DEF Names
    <3>2. VecArrays(v) \subseteq M
      BY VecParts DEF M, v
    <3>3. G \ VecArrays(v) = VecBlocks(next, p, strings) \cup F
      BY <1>2, <2>16, <3>1, <3>2 DEF G
    <3> QED
      BY <1>2, <2>9, <2>16, <3>1, <3>3
  <2>18. Agree(mem, next, F)
    <3>1. \A f \in F : f.p \notin {p, q} \cup (IF v.cap = 0 THEN {} ELSE {v.data})
      BY <1>5, <2>11 DEF VecApart
    <3> QED
      BY <2>12, <3>1, TouchedAgree DEF Moved
  <2>19. Like(s, t) /\ t.x.h = s.x.h
    BY <2>6, <2>7, <2>8, <2>9 DEF Like
  <2>20. VecStep(s, t, p, F, strings)
    BY <2>15, <2>17, <2>18, <2>19 DEF VecStep, VecIn, next
  <2>21. next[p] = new
    BY <2>12 DEF Moved
  <2>22. SameVec(mem, next, p, strings)
    <3>1. Elems(next, xs, strings) = Elems(mem, xs, strings)
      BY <2>13 DEF Elems
    <3> QED
      BY <2>2, <2>14, <2>21, <3>1 DEF SameVec, CellsOf, xs
  <2> QED
    BY <1>1, <1>7, <2>1, <2>2, <2>20, <2>21, <2>22 DEF next
<1> QED
  BY <1>6, <1>7

\* qs is ps, of length n, and one more.
Extended(ps, qs, n) == n \in Nat /\ Len(ps) = n /\ Len(qs) = n + 1 /\ \A i \in 1..n : qs[i] = ps[i]

\* One string more: one block more.
LEMMA StrsAdd ==
  ASSUME NEW ps, NEW qs, NEW n, Extended(ps, qs, n), NEW mem, NEW what, NEW a
  PROVE  Strs(mem, qs, what, a) = Strs(mem, ps, what, a) \cup {StrCell(mem, qs, what, a, n + 1)}
<1>1. n \in Nat /\ Len(ps) = n /\ Len(qs) = n + 1 /\ \A i \in 1..n : qs[i] = ps[i]
  BY DEF Extended
<1>2. Strs(mem, qs, what, a) = {StrCell(mem, qs, what, a, i) : i \in 1..(n + 1)}
  BY <1>1, StrsCells
<1>3. Strs(mem, ps, what, a) = {StrCell(mem, ps, what, a, i) : i \in 1..n}
  BY <1>1, StrsCells
<1>4. \A i \in 1..n : StrCell(mem, ps, what, a, i) = StrCell(mem, qs, what, a, i)
  BY <1>1, CellSame
<1>5. 1..(n + 1) = 1..n \cup {n + 1}
  BY <1>1
<1> QED
  BY <1>2, <1>3, <1>4, <1>5

\* qs is ps, of length n, but for the j-th.
Changed(ps, qs, n, j) ==
  n \in Nat /\ Len(ps) = n /\ Len(qs) = n /\ j \in 1..n /\ \A i \in (1..n) \ {j} : qs[i] = ps[i]

\* A string in another's place: a block in another's place.
LEMMA StrsSet ==
  ASSUME NEW ps, NEW qs, NEW n, NEW j, Changed(ps, qs, n, j), NEW mem, NEW what, NEW a
  PROVE  Strs(mem, qs, what, a) = (Strs(mem, ps, what, a) \ {StrCell(mem, ps, what, a, j)})
                                  \cup {StrCell(mem, qs, what, a, j)}
<1> DEFINE f(i) == StrCell(mem, ps, what, a, i)
           g(i) == StrCell(mem, qs, what, a, i)
<1>1. n \in Nat /\ Len(ps) = n /\ Len(qs) = n /\ j \in 1..n /\ \A i \in (1..n) \ {j} : qs[i] = ps[i]
  BY DEF Changed
<1>2. Strs(mem, qs, what, a) = {g(i) : i \in 1..n} /\ Strs(mem, ps, what, a) = {f(i) : i \in 1..n}
  BY <1>1, StrsCells
<1>3. \A i \in (1..n) \ {j} : f(i) = g(i)
  BY <1>1, CellSame
<1>4. \A i \in (1..n) \ {j} : f(i) # f(j)
  BY <1>1, CellNames
<1> HIDE DEF f, g
<1>5. {g(i) : i \in 1..n} = ({f(i) : i \in 1..n} \ {f(j)}) \cup {g(j)}
  BY <1>1, <1>3, <1>4
<1> QED
  BY <1>2, <1>5 DEF f, g

\* One string less: one block less.
LEMMA StrsPop ==
  ASSUME NEW ps, NEW qs, NEW n, Extended(qs, ps, n), NEW mem, NEW what, NEW a
  PROVE  Strs(mem, qs, what, a) = Strs(mem, ps, what, a) \ {StrCell(mem, ps, what, a, n + 1)}
<1>1. Strs(mem, ps, what, a) = Strs(mem, qs, what, a) \cup {StrCell(mem, ps, what, a, n + 1)}
  BY StrsAdd
<1>2. n \in Nat /\ Len(qs) = n
  BY DEF Extended
<1>3. \A b \in Strs(mem, qs, what, a) : b # StrCell(mem, ps, what, a, n + 1)
  <2>1. ASSUME NEW i \in 1..n PROVE StrCell(mem, qs, what, a, i) # StrCell(mem, ps, what, a, n + 1)
    BY <1>2, CellNames
  <2>2. Strs(mem, qs, what, a) = {StrCell(mem, qs, what, a, i) : i \in 1..n}
    BY <1>2, StrsCells
  <2> QED
    BY <2>1, <2>2
<1> QED
  BY <1>1, <1>3

\* What a vec holds besides its strings, while it has room.
Body(mem, p) == {VecHead(p, mem[p]), VecCells(mem[p])}

\* The cells of a vec written anew, among other blocks.
LEMMA RewriteKept ==
  ASSUME NEW s, NEW t, NEW p, NEW F, NEW strings \in BOOLEAN, NEW xs,
         VecOK(s.mem, p, s.x.h, strings), VecApart(s.mem, p, F, strings), s.mem[p].cap # 0,
         Listed(s.mem, p, xs, strings), Rewritten(s.mem, t.mem, p, xs), Like(s, t),
         NEW B, B = Body(s.mem, p) \cup VecStrings(s.mem, xs, s.mem[p].a, strings),
         Kept(t, B \cup F), B \cap F = {}
  PROVE  VecStep(s, t, p, F, strings) /\ RewrittenOK(s.mem, t.mem, p, s.x.h, xs, strings)
<1> DEFINE mem == s.mem
           next == t.mem
           v == mem[p]
<1>1. v.data # 0 /\ \A f \in F : f.p \notin {p, v.data}
  BY DEF VecApart
<1>2. RewrittenOK(mem, next, p, s.x.h, xs, strings)
  BY <1>1, CellsRewritten
<1>3. VecBlocks(next, p, strings) = B /\ VecOK(next, p, s.x.h, strings) /\ t.x.h = s.x.h
  BY <1>2 DEF RewrittenOK, Body, Like
<1>4. VecIn(t, p, F, strings)
  BY <1>3 DEF VecIn
<1>5. Agree(mem, next, F)
  BY <1>1, TouchedAgree DEF Rewritten
<1> QED
  BY <1>2, <1>4, <1>5 DEF VecStep

\* The cells and the header written.
LEMMA WriteBoth ==
  ASSUME NEW mem, NEW p, NEW xs, mem[p].data # p, NEW n, Len(xs) = n,
         NEW next, next = Written(Written(mem, mem[p].data, xs), p, [mem[p] EXCEPT !.len = n])
  PROVE  Rewritten(mem, next, p, xs)
<1> DEFINE v == mem[p]
           new == [v EXCEPT !.len = n]
<1> HIDE DEF new
<1>1. next = Written(Written(mem, v.data, xs), p, new)
  BY DEF new
<1>2. p \in DOMAIN next /\ next[p] = new /\ next[v.data] = xs /\ v.data \in DOMAIN next
      /\ Touched(mem, next, {p, v.data})
  BY <1>1 DEF Written, Touched
<1> QED
  BY <1>2 DEF Rewritten, new

\* Only the cells written.
LEMMA WriteCells ==
  ASSUME NEW mem, NEW p, NEW xs, NEW h, mem[p] \in [data : Nat, len : Nat, cap : Nat, a : {0, h}],
         p \in DOMAIN mem, mem[p].data # p, Len(xs) = mem[p].len,
         NEW next, next = Written(mem, mem[p].data, xs)
  PROVE  Rewritten(mem, next, p, xs)
<1> DEFINE v == mem[p]
<1>1. [v EXCEPT !.len = Len(xs)] = v
  <2> HIDE DEF v
  <2> QED
    BY DEF v
<1>2. p \in DOMAIN next /\ next[p] = v /\ next[v.data] = xs /\ v.data \in DOMAIN next
      /\ Touched(mem, next, {p, v.data})
  BY DEF Written, Touched
<1> QED
  BY <1>1, <1>2 DEF Rewritten

\* x is what the vec at p is to hold as its n-th element, and B the block it brings.
Brings(mem, p, n, x, B, strings) ==
  IF strings
  THEN /\ x \in Nat /\ x \in DOMAIN mem /\ mem[x] \in Value
       /\ B = {Owned(<<"vec", "string", n>>, StrBlock(mem, x, mem[p].a))}
  ELSE x \in Value /\ B = {}

Shown(mem, x, strings) == IF strings THEN mem[x] ELSE x
Pushed(mem, next, p, x, strings) ==
  /\ next[p].len = mem[p].len + 1 /\ next[p].a = mem[p].a
  /\ CellsOf(next, p) = Append(CellsOf(mem, p), x)
  /\ Elems(next, CellsOf(next, p), strings) = Append(Elems(mem, CellsOf(mem, p), strings), Shown(mem, x, strings))

\* An element pushed, as its users see it.
LEMMA ElemsPushed ==
  ASSUME NEW mem, NEW xs, NEW strings \in BOOLEAN, NEW S, xs \in Seq(S), NEW n \in Nat, Len(xs) = n, NEW x \in S,
         NEW ys, ys = Append(xs, x)
  PROVE  Elems(mem, ys, strings) = Append(Elems(mem, xs, strings), Shown(mem, x, strings))
<1>1. Len(ys) = n + 1 /\ ys[n + 1] = x /\ \A i \in 1..n : ys[i] = xs[i]
  BY OneMore
<1>2. CASE strings
  <2> DEFINE f == [i \in 1..(n + 1) |-> mem[ys[i]]]
             g == [i \in 1..n |-> mem[xs[i]]]
  <2>1. Elems(mem, ys, strings) = f /\ Elems(mem, xs, strings) = g
    BY <1>1, <1>2 DEF Elems
  <2>2. g \in Seq({mem[xs[i]] : i \in 1..n}) /\ Len(g) = n
    OBVIOUS
  <2>3. Append(g, mem[x]) = [i \in 1..(n + 1) |-> IF i = n + 1 THEN mem[x] ELSE g[i]]
    <3> HIDE DEF g
    <3> QED
      BY <2>2
  <2>4. \A i \in 1..(n + 1) : f[i] = IF i = n + 1 THEN mem[x] ELSE g[i]
    BY <1>1
  <2> HIDE DEF g
  <2>5. f = Append(g, mem[x])
    BY <2>3, <2>4
  <2> QED
    BY <1>2, <2>1, <2>5 DEF Shown
<1>3. CASE ~strings
  BY <1>3 DEF Elems, Shown
<1> QED
  BY <1>2, <1>3

\* A push where there is room.
LEMMA AppendKept ==
  ASSUME NEW s, NEW p, NEW F, NEW strings \in BOOLEAN, NEW x, NEW B,
         VecIn(s, p, F \cup B, strings), B \cap F = {}, s.mem[p].len < s.mem[p].cap,
         Brings(s.mem, p, s.mem[p].len + 1, x, B, strings),
         NEW t, t = Put(Put(s, s.mem[p].data, Append(s.mem[s.mem[p].data], x)), p,
                        [s.mem[p] EXCEPT !.len = s.mem[p].len + 1])
  PROVE  VecStep(s, t, p, F, strings) /\ Pushed(s.mem, t.mem, p, x, strings)
<1> DEFINE mem == s.mem
           v == mem[p]
           n == v.len
           xs == CellsOf(mem, p)
           ys == Append(xs, x)
           S == IF strings THEN Nat ELSE Value
           M == VecBlocks(mem, p, strings)
           one == Put(s, v.data, ys)
           Own == Body(mem, p) \cup VecStrings(mem, ys, v.a, strings)
<1>1. Kept(s, M \cup (F \cup B)) /\ M \cap (F \cup B) = {} /\ VecOK(mem, p, s.x.h, strings)
  BY DEF VecIn
<1>2. /\ n \in Nat /\ v.cap \in Nat /\ xs \in Seq(S) /\ Len(xs) = n /\ n < v.cap /\ v.cap # 0
      /\ (strings => StringsOK(mem, xs, Value))
  BY <1>1, VecNumbers
<1>3. VecApart(mem, p, F \cup B, strings)
  BY VecAddresses
<1>4. mem[v.data] = xs /\ v.data # p
  BY <1>2, <1>3 DEF VecApart, CellsOf, Contents
<1>5. x \in S
  BY DEF Brings
<1> HIDE DEF xs, S
<1>6. ys \in Seq(S) /\ Len(ys) = n + 1 /\ ys[n + 1] = x /\ \A i \in 1..n : ys[i] = xs[i]
  <2> HIDE DEF n
  <2> QED
    BY <1>2, <1>5, OneMore
<1> HIDE DEF ys
<1>7. /\ Kept(t, M \cup (F \cup B)) /\ Like(s, t)
      /\ t.mem = Written(Written(mem, v.data, ys), p, [v EXCEPT !.len = n + 1])
  <2> DEFINE new == [v EXCEPT !.len = n + 1]
  <2>1. t = Put(one, p, new)
    BY <1>4 DEF ys
  <2> HIDE DEF new, one, M
  <2>2. Kept(one, M \cup (F \cup B)) /\ Like(s, one) /\ one.mem = Written(mem, v.data, ys)
    BY <1>1, PutKept DEF one
  <2>3. Kept(t, M \cup (F \cup B)) /\ Like(one, t) /\ t.mem = Written(one.mem, p, new)
    BY <2>1, <2>2, PutKept
  <2> QED
    BY <2>2, <2>3 DEF Like, new
<1> HIDE DEF M, n
<1>8. Rewritten(mem, t.mem, p, ys)
  <2> DEFINE k == n + 1
  <2>1. /\ Len(ys) = k /\ v.data # p
        /\ t.mem = Written(Written(mem, v.data, ys), p, [v EXCEPT !.len = k])
    BY <1>4, <1>6, <1>7
  <2> HIDE DEF k, mem
  <2> QED
    BY <2>1, WriteBoth
<1>9. \A i \in 1..(n + 1) : i = n + 1 \/ i \in 1..n
  BY <1>2
<1>10. ASSUME strings
       PROVE  /\ \A i \in 1..(n + 1) : ys[i] \in DOMAIN mem /\ mem[ys[i]] \in Value /\ ys[i] \notin {p, v.data}
              /\ Strs(mem, ys, "vec", v.a) = Strs(mem, xs, "vec", v.a) \cup B
  <2> DEFINE b == Owned(<<"vec", "string", n + 1>>, StrBlock(mem, x, v.a))
  <2>1. x \in DOMAIN mem /\ mem[x] \in Value /\ B = {b}
    BY <1>10 DEF Brings, n
  <2>2. b.p = x
    BY DEF Owned, StrBlock, Block
  <2>3. StrCell(mem, ys, "vec", v.a, n + 1) = b
    BY <1>6 DEF StrCell
  <2> HIDE DEF b
  <2>4. x \notin {p, v.data}
    BY <1>2, <1>3, <2>1, <2>2 DEF VecApart
  <2>5. \A i \in 1..n : xs[i] \in DOMAIN mem /\ mem[xs[i]] \in Value /\ xs[i] \notin {p, v.data}
    <3>1. StringsOK(mem, xs, Value) /\ Len(xs) = n
      BY <1>2, <1>10
    <3>2. \A i \in 1..n : xs[i] \notin {p, v.data}
      BY <1>2, <1>3, <1>10, <3>1 DEF VecApart, CellsOf, xs
    <3> QED
      BY <3>1, <3>2 DEF StringsOK
  <2>6. Strs(mem, ys, "vec", v.a) = Strs(mem, xs, "vec", v.a) \cup {StrCell(mem, ys, "vec", v.a, n + 1)}
    <3>1. Extended(xs, ys, n)
      BY <1>2, <1>6 DEF Extended
    <3> QED
      BY <3>1, StrsAdd
  <2> QED
    BY <1>6, <1>9, <2>1, <2>3, <2>4, <2>5, <2>6
<1>11. Listed(mem, p, ys, strings)
  <2>1. n + 1 <= v.cap
    BY <1>2
  <2>2. strings => StringsOK(mem, ys, Value)
    BY <1>6, <1>10 DEF StringsOK
  <2> QED
    BY <1>6, <1>10, <2>1, <2>2 DEF Listed, S
<1>12. VecStrings(mem, ys, v.a, strings) = VecStrings(mem, xs, v.a, strings) \cup B
  BY <1>10 DEF VecStrings, Brings
<1>13. Own = M \cup B
  <2>1. M = {VecHead(p, v)} \cup VecArrays(v) \cup VecStrings(mem, xs, v.a, strings)
    BY VecParts DEF M, xs, CellsOf
  <2>2. {VecHead(p, v)} \cup VecArrays(v) = Body(mem, p)
    BY <1>2 DEF VecArrays, Body
  <2> QED
    BY <1>12, <2>1, <2>2
<1>14. Kept(t, Own \cup F) /\ Own \cap F = {}
  <2>1. M \cup (F \cup B) = Own \cup F
    BY <1>13
  <2> QED
    BY <1>1, <1>7, <1>13, <2>1
<1>15. VecApart(mem, p, F, strings)
  BY <1>3 DEF VecApart
<1> HIDE DEF Own, mem
<1>16. VecStep(s, t, p, F, strings) /\ RewrittenOK(mem, t.mem, p, s.x.h, ys, strings)
  BY <1>1, <1>2, <1>7, <1>8, <1>11, <1>14, <1>15, RewriteKept DEF Own, mem
<1>17. Elems(mem, ys, strings) = Append(Elems(mem, xs, strings), Shown(mem, x, strings))
  <2>1. n \in Nat /\ xs \in Seq(S) /\ Len(xs) = n /\ ys = Append(xs, x)
    BY <1>2 DEF ys
  <2> QED
    BY <1>5, <2>1, ElemsPushed, ZenonT(60)
<1> QED
  BY <1>6, <1>16, <1>17 DEF RewrittenOK, Pushed, ys, xs, n, mem

\* Two operations on a vec make one.
LEMMA VecTrans ==
  ASSUME NEW s, NEW r, NEW t, NEW p, NEW F, NEW G, F \subseteq G, NEW strings,
         VecStep(s, r, p, G, strings), VecStep(r, t, p, F, strings)
  PROVE  VecStep(s, t, p, F, strings)
  BY DEF VecStep, Like, Agree

\* An operation on a vec after one that left everything in place.
LEMMA VecAfter ==
  ASSUME NEW s, NEW r, NEW t, NEW p, NEW F, NEW strings, Like(s, r), Agree(s.mem, r.mem, F),
         VecStep(r, t, p, F, strings)
  PROVE  VecStep(s, t, p, F, strings)
  BY DEF VecStep, Like, Agree

\* An element pushed after the vec has grown.
LEMMA PushedAfter ==
  ASSUME NEW mem, NEW mid, NEW next, NEW p, NEW x, NEW strings, SameVec(mem, mid, p, strings),
         Pushed(mid, next, p, x, strings), Shown(mid, x, strings) = Shown(mem, x, strings)
  PROVE  Pushed(mem, next, p, x, strings)
  BY DEF SameVec, Pushed

\* tiq_vec_push_i64, and tiq_vec_push_str after its copy.
LEMMA PushKept ==
  ASSUME NEW s, NEW p, NEW F, NEW strings \in BOOLEAN, NEW x, NEW B,
         VecIn(s, p, F \cup B, strings), B \cap F = {},
         Brings(s.mem, p, s.mem[p].len + 1, x, B, strings), ~Push(s, p, x).dead
  PROVE  VecStep(s, Push(s, p, x), p, F, strings) /\ Pushed(s.mem, Push(s, p, x).mem, p, x, strings)
<1> DEFINE mem == s.mem
           r == Reserve(s, p)
           t == Push(s, p, x)
           G == F \cup B
<1>1. t = IF r.dead THEN r ELSE Put(Put(r, r.mem[p].data, Append(r.mem[r.mem[p].data], x)), p,
                                    [r.mem[p] EXCEPT !.len = r.mem[p].len + 1])
  BY DEF Push
<1> HIDE DEF r, t, G
<1>2. ~r.dead
  BY <1>1 DEF t
<1>3. /\ VecStep(s, r, p, G, strings) /\ SameVec(mem, r.mem, p, strings)
      /\ mem[p].len < r.mem[p].cap
  BY <1>2, ReserveKept DEF r, G
<1>4. VecIn(r, p, G, strings) /\ Agree(mem, r.mem, G)
  BY <1>3 DEF VecStep
<1>5. r.mem[p].len = mem[p].len /\ r.mem[p].a = mem[p].a
  BY <1>3 DEF SameVec
<1>6. strings => x \in DOMAIN r.mem /\ r.mem[x] = mem[x]
  <2> DEFINE b == Owned(<<"vec", "string", mem[p].len + 1>>, StrBlock(mem, x, mem[p].a))
  <2>1. b.p = x
    BY DEF Owned, StrBlock, Block
  <2>2. ASSUME strings PROVE x \in DOMAIN mem /\ b \in G
    BY <2>2 DEF Brings, G
  <2> HIDE DEF b
  <2> QED
    BY <1>4, <2>1, <2>2, AgreeAt
<1>7. Brings(r.mem, p, r.mem[p].len + 1, x, B, strings)
  BY <1>5, <1>6 DEF Brings, StrBlock
<1>8. t = Put(Put(r, r.mem[p].data, Append(r.mem[r.mem[p].data], x)), p,
              [r.mem[p] EXCEPT !.len = r.mem[p].len + 1])
  BY <1>1, <1>2
<1>9. VecStep(r, t, p, F, strings) /\ Pushed(r.mem, t.mem, p, x, strings)
  <2>1. r.mem[p].len < r.mem[p].cap
    BY <1>3, <1>5
  <2> QED
    BY <1>4, <1>7, <1>8, <2>1, AppendKept DEF G
<1>10. VecStep(s, t, p, F, strings)
  BY <1>3, <1>9, VecTrans DEF G
<1>11. Pushed(mem, t.mem, p, x, strings)
  <2>1. Shown(r.mem, x, strings) = Shown(mem, x, strings)
    BY <1>6 DEF Shown
  <2> QED
    BY <1>3, <1>9, <2>1, PushedAfter
<1> QED
  BY <1>10, <1>11 DEF t

\* The copy of a string for a vec, which the vec does not hold yet.
Copied(s, d, p, F, b, w, strings) ==
  /\ VecIn(d.s, p, F \cup {b}, strings) /\ SameVec(s.mem, d.s.mem, p, strings)
  /\ Like(s, d.s) /\ Agree(s.mem, d.s.mem, F) /\ b \notin F /\ d.s.mem[p] = s.mem[p]
  /\ d.p \in Nat /\ d.p \in DOMAIN d.s.mem /\ d.s.mem[d.p] = w

\* The copy of a string is made beside the vec.
LEMMA CopyKept ==
  ASSUME NEW s, NEW p, NEW F, NEW strings \in BOOLEAN, VecIn(s, p, F, strings), NEW w \in Value,
         ~DupStr(s, s.mem[p].a, w).s.dead,
         NEW b, Names(b, DupStr(s, s.mem[p].a, w).p, StrLen[w] + 1, 1, s.mem[p].a)
  PROVE  Copied(s, DupStr(s, s.mem[p].a, w), p, F, b, w, strings)
<1> DEFINE mem == s.mem
           M == VecBlocks(mem, p, strings)
           d == DupStr(s, mem[p].a, w)
           next == d.s.mem
           xs == CellsOf(mem, p)
<1>1. Kept(s, M \cup F) /\ M \cap F = {} /\ VecOK(mem, p, s.x.h, strings)
  BY DEF VecIn
<1>2. mem[p].a \in {0, s.x.h} /\ p \in DOMAIN mem /\ (strings => xs \in Seq(Nat) /\ StringsOK(mem, xs, Value))
  BY <1>1, VecNumbers
<1> HIDE DEF M
<1>3. Duped(s, d, M \cup F, b, w)
  BY <1>1, <1>2, DupKept
<1> HIDE DEF d
<1>4. /\ Kept(d.s, (M \cup F) \cup {b}) /\ Like(s, d.s) /\ next = Written(mem, d.p, w)
      /\ d.p \in Nat \ {0} /\ \A c \in M \cup F : c.p # d.p
  BY <1>3 DEF Duped
<1>5. b \notin M /\ b \notin F /\ d.p \in DOMAIN next /\ next[d.p] = w /\ Touched(mem, next, {d.p})
  <2>1. b.p = d.p
    BY DEF Names, d
  <2> QED
    BY <1>4, <2>1 DEF Written, Touched
<1> HIDE DEF next
<1>6. Agree(mem, next, M) /\ Agree(mem, next, F)
  <2>1. \A c \in M : c.p \notin {d.p}
    BY <1>4
  <2>2. \A c \in F : c.p \notin {d.p}
    BY <1>4
  <2> QED
    BY <1>5, <2>1, <2>2, TouchedAgree
<1>7. VecOK(next, p, s.x.h, strings) /\ VecBlocks(next, p, strings) = M /\ next[p] = mem[p]
  BY <1>1, <1>6, VecFrame DEF M
<1>8. VecIn(d.s, p, F \cup {b}, strings)
  <2>1. (M \cup F) \cup {b} = M \cup (F \cup {b}) /\ M \cap (F \cup {b}) = {}
    BY <1>1, <1>5
  <2>2. d.s.x.h = s.x.h
    BY <1>4 DEF Like
  <2> QED
    BY <1>4, <1>7, <2>1, <2>2 DEF VecIn, next
<1>9. ~(p = d.p) /\ (mem[p].cap # 0 => mem[p].data # d.p)
      /\ (strings => \A i \in 1..Len(xs) : xs[i] # d.p)
  <2>1. VecHead(p, mem[p]) \in M /\ (mem[p].cap # 0 => VecCells(mem[p]) \in M)
        /\ VecStrings(mem, xs, mem[p].a, strings) \subseteq M
    BY VecParts DEF M, VecArrays, CellsOf
  <2>2. VecHead(p, mem[p]).p = p /\ VecCells(mem[p]).p = mem[p].data
    BY VecFields DEF Names
  <2>3. ASSUME strings, NEW i \in 1..Len(xs) PROVE xs[i] # d.p
    <3>1. \A j \in 1..Len(xs) : StrCell(mem, xs, "vec", mem[p].a, j) \in Strs(mem, xs, "vec", mem[p].a)
                                /\ StrCell(mem, xs, "vec", mem[p].a, j).p = xs[j]
      BY StringFields DEF Names
    <3>2. StrCell(mem, xs, "vec", mem[p].a, i) \in M
      BY <2>1, <2>3, <3>1 DEF VecStrings
    <3> QED
      BY <1>4, <2>3, <3>1, <3>2
  <2> QED
    BY <1>4, <2>1, <2>2, <2>3
<1>10. SameVec(mem, next, p, strings)
  <2>1. CellsOf(next, p) = xs
    <3>1. mem[p].cap = 0 => mem[p].data = 0
      BY <1>1 DEF VecOK
    <3>2. mem[p].cap # 0 => mem[p].data \in DOMAIN mem
      BY <1>1, VecNumbers
    <3> QED
      BY <1>5, <1>7, <1>9, <3>1, <3>2 DEF CellsOf, Contents, Touched
  <2>2. ASSUME strings PROVE \A i \in 1..Len(xs) : next[xs[i]] = mem[xs[i]]
    BY <1>2, <1>5, <1>9, <2>2 DEF Touched, StringsOK
  <2>3. Elems(next, xs, strings) = Elems(mem, xs, strings)
    BY <2>2 DEF Elems
  <2> QED
    BY <1>7, <2>1, <2>3 DEF SameVec
<1> QED
  BY <1>4, <1>5, <1>6, <1>7, <1>8, <1>10 DEF Copied, next, d

\* tiq_vec_push_str
LEMMA PushStrKept ==
  ASSUME NEW s, NEW p, NEW F, VecIn(s, p, F, TRUE), NEW w \in Value, ~PushStr(s, p, w).dead
  PROVE  /\ VecStep(s, PushStr(s, p, w), p, F, TRUE)
         /\ PushStr(s, p, w).mem[p].len = s.mem[p].len + 1
         /\ Elems(PushStr(s, p, w).mem, CellsOf(PushStr(s, p, w).mem, p), TRUE) =
              Append(Elems(s.mem, CellsOf(s.mem, p), TRUE), w)
<1> DEFINE mem == s.mem
           a == mem[p].a
           d == DupStr(s, a, w)
           t == PushStr(s, p, w)
           n == mem[p].len + 1
           b == Owned(<<"vec", "string", n>>, Block(d.p, StrLen[w] + 1, 1, a))
<1>1. t = Push(d.s, p, d.p)
  BY DEF PushStr
<1>2. Names(b, d.p, StrLen[w] + 1, 1, a)
  BY DEF Owned, Block, Names
<1>3. TRUE \in BOOLEAN
  OBVIOUS
<1>4. IsStore(s)
  BY DEF VecIn, Kept
<1> HIDE DEF d, b, t
<1>5. ~d.s.dead
  <2>1. IsStore(d.s)
    BY <1>4, DupStore DEF d
  <2>2. d.s.dead => Reserve(d.s, p).dead
    BY <2>1, ReserveStore
  <2>3. Reserve(d.s, p).dead => t = Reserve(d.s, p)
    BY <1>1 DEF Push
  <2> QED
    BY <2>2, <2>3 DEF t
<1>6. Copied(s, d, p, F, b, w, TRUE)
  BY <1>2, <1>3, <1>5, CopyKept DEF d
<1>7. /\ VecIn(d.s, p, F \cup {b}, TRUE) /\ SameVec(mem, d.s.mem, p, TRUE)
      /\ Like(s, d.s) /\ Agree(mem, d.s.mem, F) /\ b \notin F /\ d.s.mem[p] = mem[p]
      /\ d.p \in Nat /\ d.p \in DOMAIN d.s.mem /\ d.s.mem[d.p] = w
  BY <1>6 DEF Copied
<1>8. Brings(d.s.mem, p, d.s.mem[p].len + 1, d.p, {b}, TRUE)
  BY <1>7 DEF Brings, StrBlock, b
<1>9. {b} \cap F = {}
  BY <1>7
<1>10. VecStep(d.s, t, p, F, TRUE) /\ Pushed(d.s.mem, t.mem, p, d.p, TRUE)
  <2> HIDE DEF mem
  <2> QED
    BY <1>1, <1>3, <1>7, <1>8, <1>9, PushKept DEF t
<1>11. VecStep(s, t, p, F, TRUE)
  BY <1>7, <1>10, VecAfter
<1>12. /\ t.mem[p].len = mem[p].len + 1
       /\ Elems(t.mem, CellsOf(t.mem, p), TRUE) = Append(Elems(mem, CellsOf(mem, p), TRUE), w)
  <2>1. Shown(d.s.mem, d.p, TRUE) = w
    BY <1>7 DEF Shown
  <2> QED
    BY <1>7, <1>10, <2>1 DEF Pushed, SameVec
<1> QED
  BY <1>11, <1>12 DEF t

\* A string of a vec is let go.
Gone(mem, p, i, strings) ==
  IF strings THEN {StrCell(mem, CellsOf(mem, p), "vec", mem[p].a, i + 1)} ELSE {}
Loosened(s, p, i, strings) ==
  IF strings THEN Lose(s, StrBlock(s.mem, CellsOf(s.mem, p)[i + 1], s.mem[p].a)) ELSE s

\* A string let go is still accounted for, and the vec's no more.
LEMMA LoosenKept ==
  ASSUME NEW s, NEW p, NEW G, NEW strings \in BOOLEAN, VecIn(s, p, G, strings),
         NEW i \in Nat, i < s.mem[p].len
  PROVE  /\ Kept(Loosened(s, p, i, strings), (VecBlocks(s.mem, p, strings) \cup G) \ Gone(s.mem, p, i, strings))
         /\ Like(s, Loosened(s, p, i, strings)) /\ Loosened(s, p, i, strings).mem = s.mem
         /\ Gone(s.mem, p, i, strings) \subseteq VecBlocks(s.mem, p, strings)
<1> DEFINE mem == s.mem
           xs == CellsOf(mem, p)
           a == mem[p].a
           M == VecBlocks(mem, p, strings)
           r == Loosened(s, p, i, strings)
<1>1. Kept(s, M \cup G) /\ VecOK(mem, p, s.x.h, strings)
  BY DEF VecIn
<1>2. CASE ~strings
  <2>1. r = s /\ Gone(mem, p, i, strings) = {} /\ (M \cup G) \ Gone(mem, p, i, strings) = M \cup G
    BY <1>2 DEF Loosened, Gone
  <2> QED
    BY <1>1, <2>1 DEF Like
<1>3. CASE strings
  <2> DEFINE c == StrCell(mem, xs, "vec", a, i + 1)
             b == StrBlock(mem, xs[i + 1], a)
  <2>1. i + 1 \in 1..Len(xs)
    BY <1>1, VecNumbers
  <2>2. c \in Strs(mem, xs, "vec", a)
    BY <2>1, StringFields
  <2>3. Strs(mem, xs, "vec", a) \subseteq M
    BY <1>3, VecParts DEF VecStrings, CellsOf
  <2>4. b = Block(c.p, c.n, c.al, c.a)
    BY DEF StrCell, Owned, StrBlock, Block
  <2>5. r = Lose(s, b) /\ Gone(mem, p, i, strings) = {c}
    BY <1>3 DEF Loosened, Gone
  <2>6. c \in M \cup G /\ c \in M
    BY <2>2, <2>3
  <2> HIDE DEF b, c, M, r
  <2>7. Kept(r, (M \cup G) \ {c}) /\ Like(s, r) /\ r.mem = mem
    BY <1>1, <2>4, <2>5, <2>6, LoseKept
  <2> QED
    BY <2>5, <2>6, <2>7 DEF r, M
<1> QED
  BY <1>2, <1>3

\* A cell written after the string that stood there was let go.
LEMMA SetKept ==
  ASSUME NEW s, NEW p, NEW F, NEW strings \in BOOLEAN, NEW x, NEW B, NEW i \in Nat,
         VecIn(s, p, F \cup B, strings), B \cap F = {}, i < s.mem[p].len,
         Brings(s.mem, p, i + 1, x, B, strings),
         NEW t, t = Put(Loosened(s, p, i, strings), s.mem[p].data, [s.mem[s.mem[p].data] EXCEPT ![i + 1] = x])
  PROVE  /\ VecStep(s, t, p, F, strings)
         /\ RewrittenOK(s.mem, t.mem, p, s.x.h, [CellsOf(s.mem, p) EXCEPT ![i + 1] = x], strings)
<1> DEFINE mem == s.mem
           v == mem[p]
           n == v.len
           xs == CellsOf(mem, p)
           ys == [xs EXCEPT ![i + 1] = x]
           S == IF strings THEN Nat ELSE Value
           M == VecBlocks(mem, p, strings)
           r == Loosened(s, p, i, strings)
           gone == Gone(mem, p, i, strings)
           Own == Body(mem, p) \cup VecStrings(mem, ys, v.a, strings)
<1>1. Kept(s, M \cup (F \cup B)) /\ M \cap (F \cup B) = {} /\ VecOK(mem, p, s.x.h, strings)
  BY DEF VecIn
<1>2. /\ n \in Nat /\ v.cap \in Nat /\ xs \in Seq(S) /\ Len(xs) = n /\ n <= v.cap /\ v.cap # 0
      /\ (strings => StringsOK(mem, xs, Value)) /\ p \in DOMAIN mem
  BY <1>1, VecNumbers
<1>3. v \in [data : Nat, len : Nat, cap : Nat, a : {0, s.x.h}]
  BY <1>1 DEF VecOK
<1>4. VecApart(mem, p, F \cup B, strings)
  BY VecAddresses
<1>5. mem[v.data] = xs /\ v.data # p
  BY <1>2, <1>4 DEF VecApart, CellsOf, Contents
<1>6. x \in S
  BY DEF Brings
<1> HIDE DEF xs, S
<1>7. ys \in Seq(S) /\ Len(ys) = n
  <2>1. ys \in Seq(S) /\ Len(ys) = Len(xs)
    BY <1>2, <1>6, Replaced
  <2> QED
    BY <1>2, <2>1
<1>8. ys[i + 1] = x /\ (\A j \in (1..n) \ {i + 1} : ys[j] = xs[j]) /\ i + 1 \in 1..n
  <2>1. i + 1 \in 1..n
    BY <1>2
  <2>2. DOMAIN xs = 1..n
    BY <1>2
  <2> QED
    BY <2>1, <2>2
<1>9. Kept(r, (M \cup (F \cup B)) \ gone) /\ Like(s, r) /\ r.mem = mem /\ gone \subseteq M
  BY LoosenKept
<1> HIDE DEF ys, r, gone
<1>10. Kept(t, (M \cup (F \cup B)) \ gone) /\ Like(s, t) /\ t.mem = Written(mem, v.data, ys)
  <2>1. t = Put(r, v.data, ys)
    BY <1>5 DEF ys, r
  <2> HIDE DEF M
  <2>2. Kept(t, (M \cup (F \cup B)) \ gone) /\ Like(r, t) /\ t.mem = Written(r.mem, v.data, ys)
    BY <1>9, <2>1, PutKept
  <2> QED
    BY <1>9, <2>2 DEF Like
<1> HIDE DEF M
<1>11. Rewritten(mem, t.mem, p, ys)
  BY <1>2, <1>3, <1>5, <1>7, <1>10, WriteCells
<1>12. ASSUME strings
       PROVE  /\ \A j \in 1..n : ys[j] \in DOMAIN mem /\ mem[ys[j]] \in Value /\ ys[j] \notin {p, v.data}
              /\ Strs(mem, ys, "vec", v.a) = (Strs(mem, xs, "vec", v.a) \ gone) \cup B
  <2> DEFINE b == Owned(<<"vec", "string", i + 1>>, StrBlock(mem, x, v.a))
  <2>1. x \in DOMAIN mem /\ mem[x] \in Value /\ B = {b}
    BY <1>12 DEF Brings
  <2>2. b.p = x
    BY DEF Owned, StrBlock, Block
  <2>3. StrCell(mem, ys, "vec", v.a, i + 1) = b
    BY <1>8 DEF StrCell
  <2> HIDE DEF b
  <2>4. x \notin {p, v.data}
    BY <1>2, <1>4, <2>1, <2>2 DEF VecApart
  <2>5. \A j \in 1..n : xs[j] \in DOMAIN mem /\ mem[xs[j]] \in Value /\ xs[j] \notin {p, v.data}
    <3>1. StringsOK(mem, xs, Value) /\ Len(xs) = n
      BY <1>2, <1>12
    <3>2. \A j \in 1..n : xs[j] \notin {p, v.data}
      BY <1>2, <1>4, <1>12, <3>1 DEF VecApart, CellsOf, xs
    <3> QED
      BY <3>1, <3>2 DEF StringsOK
  <2>6. Strs(mem, ys, "vec", v.a) =
          (Strs(mem, xs, "vec", v.a) \ {StrCell(mem, xs, "vec", v.a, i + 1)}) \cup {StrCell(mem, ys, "vec", v.a, i + 1)}
    <3>1. Changed(xs, ys, n, i + 1)
      BY <1>2, <1>7, <1>8 DEF Changed
    <3> QED
      BY <3>1, StrsSet
  <2>7. gone = {StrCell(mem, xs, "vec", v.a, i + 1)}
    BY <1>12 DEF gone, Gone, xs
  <2>8. \A j \in 1..n : ys[j] = x \/ ys[j] = xs[j]
    BY <1>8
  <2> QED
    BY <2>1, <2>3, <2>4, <2>5, <2>6, <2>7, <2>8
<1>13. Listed(mem, p, ys, strings)
  <2>1. strings => StringsOK(mem, ys, Value)
    BY <1>7, <1>12 DEF StringsOK
  <2> QED
    BY <1>2, <1>7, <1>12, <2>1 DEF Listed, S
<1>14. VecStrings(mem, ys, v.a, strings) = (VecStrings(mem, xs, v.a, strings) \ gone) \cup B
  BY <1>12 DEF VecStrings, Brings
<1>15. Own = (M \ gone) \cup B
  <2>1. M = {VecHead(p, v)} \cup VecArrays(v) \cup VecStrings(mem, xs, v.a, strings)
    BY VecParts DEF M, xs, CellsOf
  <2>2. {VecHead(p, v)} \cup VecArrays(v) = Body(mem, p)
    BY <1>2 DEF VecArrays, Body
  <2>3. Body(mem, p) \cap gone = {}
    <3>1. CASE strings
      <4>1. gone \subseteq VecStrings(mem, xs, v.a, strings)
        BY <1>2, <1>8, <3>1, StringFields DEF gone, Gone, VecStrings, xs
      <4>2. \A e \in VecStrings(mem, xs, v.a, strings) : e # VecHead(p, v) /\ e # VecCells(v)
        BY VecNamesApart
      <4> QED
        BY <4>1, <4>2 DEF Body
    <3>2. CASE ~strings
      BY <3>2 DEF gone, Gone
    <3> QED
      BY <3>1, <3>2
  <2> HIDE DEF gone
  <2> QED
    BY <1>14, <2>1, <2>2, <2>3
<1>16. Kept(t, Own \cup F) /\ Own \cap F = {}
  <2>1. (M \cup (F \cup B)) \ gone = Own \cup F
    BY <1>1, <1>9, <1>15
  <2> QED
    BY <1>1, <1>10, <1>15, <2>1
<1>17. VecApart(mem, p, F, strings)
  BY <1>4 DEF VecApart
<1> HIDE DEF Own, mem
<1>18. VecStep(s, t, p, F, strings) /\ RewrittenOK(mem, t.mem, p, s.x.h, ys, strings)
  BY <1>1, <1>2, <1>10, <1>11, <1>13, <1>16, <1>17, RewriteKept DEF Own, mem
<1> QED
  BY <1>18 DEF ys, xs, mem

\* The first m of a sequence longer by one.
LEMMA Shorter ==
  ASSUME NEW S, NEW xs \in Seq(S), NEW m \in Nat, Len(xs) = m + 1,
         NEW ys, ys = SubSeq(xs, 1, m)
  PROVE  ys \in Seq(S) /\ Len(ys) = m /\ \A i \in 1..m : ys[i] = xs[i]
<1>1. \A i \in 1..m : xs[i] \in S
  OBVIOUS
<1>2. ys \in Seq(S) /\ Len(ys) = (IF 1 <= m THEN m - 1 + 1 ELSE 0)
      /\ \A i \in 1..(m - 1 + 1) : ys[i] = xs[1 + i - 1]
  BY <1>1, SubSeqProperties
<1>3. m - 1 + 1 = m /\ \A i \in 1..m : 1 + i - 1 = i
  OBVIOUS
<1>4. Len(ys) = m
  BY <1>2
<1> QED
  BY <1>2, <1>3, <1>4

\* tiq_vec_pop of a vec of ints or strings, as the two writes it does.
LEMMA PopKept ==
  ASSUME NEW s, NEW p, NEW F, NEW strings \in BOOLEAN, VecIn(s, p, F, strings),
         NEW m \in Nat, s.mem[p].len = m + 1,
         NEW t, t = Put(Put(Loosened(s, p, m, strings), s.mem[p].data, SubSeq(s.mem[s.mem[p].data], 1, m)), p,
                        [s.mem[p] EXCEPT !.len = m])
  PROVE  /\ VecStep(s, t, p, F, strings)
         /\ RewrittenOK(s.mem, t.mem, p, s.x.h, SubSeq(CellsOf(s.mem, p), 1, m), strings)
<1> DEFINE mem == s.mem
           v == mem[p]
           xs == CellsOf(mem, p)
           ys == SubSeq(xs, 1, m)
           S == IF strings THEN Nat ELSE Value
           M == VecBlocks(mem, p, strings)
           r == Loosened(s, p, m, strings)
           one == Put(r, v.data, ys)
           gone == Gone(mem, p, m, strings)
           Own == Body(mem, p) \cup VecStrings(mem, ys, v.a, strings)
<1>1. Kept(s, M \cup F) /\ M \cap F = {} /\ VecOK(mem, p, s.x.h, strings)
  BY DEF VecIn
<1>2. /\ v.cap \in Nat /\ xs \in Seq(S) /\ Len(xs) = m + 1 /\ m + 1 <= v.cap /\ v.cap # 0
      /\ (strings => StringsOK(mem, xs, Value)) /\ p \in DOMAIN mem
  BY <1>1, VecNumbers
<1>3. VecApart(mem, p, F, strings)
  BY VecAddresses
<1>4. mem[v.data] = xs /\ v.data # p
  BY <1>2, <1>3 DEF VecApart, CellsOf, Contents
<1> HIDE DEF xs, S
<1>5. ys \in Seq(S) /\ Len(ys) = m /\ \A i \in 1..m : ys[i] = xs[i]
  BY <1>2, Shorter
<1>6. Kept(r, (M \cup F) \ gone) /\ Like(s, r) /\ r.mem = mem /\ gone \subseteq M
  <2>1. m < s.mem[p].len
    OBVIOUS
  <2> QED
    BY <2>1, LoosenKept
<1> HIDE DEF ys, r, gone
<1>7. /\ Kept(t, (M \cup F) \ gone) /\ Like(s, t)
      /\ t.mem = Written(Written(mem, v.data, ys), p, [v EXCEPT !.len = m])
  <2> DEFINE new == [v EXCEPT !.len = m]
  <2>1. t = Put(one, p, new)
    BY <1>4 DEF ys, r
  <2> HIDE DEF new, one, M
  <2>2. Kept(one, (M \cup F) \ gone) /\ Like(r, one) /\ one.mem = Written(r.mem, v.data, ys)
    BY <1>6, PutKept DEF one
  <2>3. Kept(t, (M \cup F) \ gone) /\ Like(one, t) /\ t.mem = Written(one.mem, p, new)
    BY <2>1, <2>2, PutKept
  <2> QED
    BY <1>6, <2>2, <2>3 DEF Like, new
<1> HIDE DEF M
<1>8. Rewritten(mem, t.mem, p, ys)
  <2>1. v.data # p /\ Len(ys) = m /\ t.mem = Written(Written(mem, v.data, ys), p, [v EXCEPT !.len = m])
    BY <1>4, <1>5, <1>7
  <2> HIDE DEF mem
  <2> QED
    BY <2>1, WriteBoth
<1>9. ASSUME strings
      PROVE  /\ \A j \in 1..m : ys[j] \in DOMAIN mem /\ mem[ys[j]] \in Value /\ ys[j] \notin {p, v.data}
             /\ Strs(mem, ys, "vec", v.a) = Strs(mem, xs, "vec", v.a) \ gone
  <2>1. \A j \in 1..(m + 1) : xs[j] \in DOMAIN mem /\ mem[xs[j]] \in Value /\ xs[j] \notin {p, v.data}
    <3>1. StringsOK(mem, xs, Value) /\ Len(xs) = m + 1
      BY <1>2, <1>9
    <3>2. \A j \in 1..(m + 1) : xs[j] \notin {p, v.data}
      BY <1>2, <1>3, <1>9, <3>1 DEF VecApart, CellsOf, xs
    <3> QED
      BY <3>1, <3>2 DEF StringsOK
  <2>2. Extended(ys, xs, m)
    BY <1>2, <1>5 DEF Extended
  <2>3. Strs(mem, ys, "vec", v.a) = Strs(mem, xs, "vec", v.a) \ {StrCell(mem, xs, "vec", v.a, m + 1)}
    BY <2>2, StrsPop
  <2>4. gone = {StrCell(mem, xs, "vec", v.a, m + 1)}
    BY <1>9 DEF gone, Gone, xs
  <2>5. \A j \in 1..m : j \in 1..(m + 1)
    OBVIOUS
  <2> QED
    BY <1>5, <2>1, <2>3, <2>4, <2>5
<1>10. Listed(mem, p, ys, strings)
  <2>1. strings => StringsOK(mem, ys, Value)
    BY <1>5, <1>9 DEF StringsOK
  <2>2. m <= v.cap
    BY <1>2
  <2> QED
    BY <1>5, <1>9, <2>1, <2>2 DEF Listed, S
<1>11. VecStrings(mem, ys, v.a, strings) = VecStrings(mem, xs, v.a, strings) \ gone
  <2>1. ~strings => gone = {}
    BY DEF gone, Gone
  <2> QED
    BY <1>9, <2>1 DEF VecStrings
<1>12. Own = M \ gone
  <2>1. M = {VecHead(p, v)} \cup VecArrays(v) \cup VecStrings(mem, xs, v.a, strings)
    BY VecParts DEF M, xs, CellsOf
  <2>2. {VecHead(p, v)} \cup VecArrays(v) = Body(mem, p)
    BY <1>2 DEF VecArrays, Body
  <2>3. Body(mem, p) \cap gone = {}
    <3>1. CASE strings
      <4>1. m + 1 \in 1..Len(xs)
        BY <1>2
      <4>2. gone \subseteq VecStrings(mem, xs, v.a, strings)
        BY <3>1, <4>1, StringFields DEF gone, Gone, VecStrings, xs
      <4>3. \A e \in VecStrings(mem, xs, v.a, strings) : e # VecHead(p, v) /\ e # VecCells(v)
        BY VecNamesApart
      <4> QED
        BY <4>2, <4>3 DEF Body
    <3>2. CASE ~strings
      BY <3>2 DEF gone, Gone
    <3> QED
      BY <3>1, <3>2
  <2> HIDE DEF gone
  <2> QED
    BY <1>11, <2>1, <2>2, <2>3
<1>13. Kept(t, Own \cup F) /\ Own \cap F = {}
  <2>1. (M \cup F) \ gone = Own \cup F
    BY <1>1, <1>6, <1>12
  <2> QED
    BY <1>1, <1>7, <1>12, <2>1
<1> HIDE DEF Own, mem
<1>14. VecStep(s, t, p, F, strings) /\ RewrittenOK(mem, t.mem, p, s.x.h, ys, strings)
  BY <1>1, <1>2, <1>3, <1>7, <1>8, <1>10, <1>13, RewriteKept DEF Own, mem
<1> QED
  BY <1>14 DEF ys, xs, mem

\* The i-th string let go, under the name of its block.
LEMMA LoosenIs ==
  ASSUME NEW s, NEW p, NEW F, VecIn(s, p, F, TRUE), NEW i \in Nat, i < s.mem[p].len, ~s.dead
  PROVE  LoseCell(s, p, i) = Loosened(s, p, i, TRUE)
<1>1. VecOK(s.mem, p, s.x.h, TRUE)
  BY DEF VecIn
<1>2. s.mem[p].data # 0 /\ s.mem[p].len \in Nat
  <2>1. s.mem[p].cap # 0 /\ s.mem[p].len \in Nat
    <3>1. s.mem[p].len \in Nat /\ s.mem[p].cap \in Nat /\ s.mem[p].len <= s.mem[p].cap
      BY <1>1, VecNumbers
    <3> QED
      BY <3>1
  <2> QED
    BY <2>1, VecAddresses DEF VecApart
<1>3. CellsOf(s.mem, p) = s.mem[s.mem[p].data]
  BY <1>2 DEF CellsOf, Contents
<1> QED
  BY <1>2, <1>3 DEF LoseCell, Loosened

\* tiq_vec_set_i64
LEMMA SetCellKept ==
  ASSUME NEW s, NEW p, NEW F, VecIn(s, p, F, FALSE), NEW i \in Nat, NEW x \in Value,
         ~SetCell(s, p, i, x).dead
  PROVE  /\ VecStep(s, SetCell(s, p, i, x), p, F, FALSE) /\ i < s.mem[p].len
         /\ RewrittenOK(s.mem, SetCell(s, p, i, x).mem, p, s.x.h, [CellsOf(s.mem, p) EXCEPT ![i + 1] = x], FALSE)
<1> DEFINE t == SetCell(s, p, i, x)
           u == Put(s, s.mem[p].data, [s.mem[s.mem[p].data] EXCEPT ![i + 1] = x])
<1>1. IsStore(s) /\ VecOK(s.mem, p, s.x.h, FALSE)
  BY DEF VecIn, Kept
<1>2. ~s.dead /\ ~(i >= s.mem[p].len)
  BY <1>1, ExitStore DEF SetCell
<1>3. i < s.mem[p].len
  <2>1. s.mem[p].len \in Nat
    BY <1>1, VecNumbers
  <2> QED
    BY <1>2, <2>1
<1>4. t = Put(Loosened(s, p, i, FALSE), s.mem[p].data, [s.mem[s.mem[p].data] EXCEPT ![i + 1] = x])
  BY <1>2 DEF SetCell, Loosened
<1> HIDE DEF t
<1>5. Brings(s.mem, p, i + 1, x, {}, FALSE)
  BY DEF Brings
<1>6. VecIn(s, p, F \cup {}, FALSE) /\ {} \cap F = {} /\ FALSE \in BOOLEAN
  OBVIOUS
<1>7. VecStep(s, t, p, F, FALSE)
      /\ RewrittenOK(s.mem, t.mem, p, s.x.h, [CellsOf(s.mem, p) EXCEPT ![i + 1] = x], FALSE)
  BY <1>3, <1>4, <1>5, <1>6, SetKept
<1> QED
  BY <1>3, <1>7 DEF t

\* tiq_vec_set_str
LEMMA SetStrKept ==
  ASSUME NEW s, NEW p, NEW F, VecIn(s, p, F, TRUE), NEW i \in Nat, NEW w \in Value,
         ~SetStr(s, p, i, w).dead
  PROVE  /\ VecStep(s, SetStr(s, p, i, w), p, F, TRUE) /\ i < s.mem[p].len
         /\ \E d : /\ Copied(s, d, p, F, Owned(<<"vec", "string", i + 1>>, Block(d.p, StrLen[w] + 1, 1, s.mem[p].a)), w, TRUE)
                   /\ RewrittenOK(d.s.mem, SetStr(s, p, i, w).mem, p, s.x.h, [CellsOf(s.mem, p) EXCEPT ![i + 1] = d.p], TRUE)
<1> DEFINE mem == s.mem
           a == mem[p].a
           d == DupStr(s, a, w)
           l == LoseCell(d.s, p, i)
           t == SetStr(s, p, i, w)
           n == i + 1
           b == Owned(<<"vec", "string", n>>, Block(d.p, StrLen[w] + 1, 1, a))
<1>1. t = SetCell(l, p, i, d.p)
  BY DEF SetStr
<1>2. Names(b, d.p, StrLen[w] + 1, 1, a)
  BY DEF Owned, Block, Names
<1>3. TRUE \in BOOLEAN
  OBVIOUS
<1>4. IsStore(s)
  BY DEF VecIn, Kept
<1>5. IsStore(d.s)
  BY <1>4, DupStore
<1>6. IsStore(l) /\ l.dead = d.s.dead /\ l.mem = d.s.mem
  BY <1>5, LoseStore DEF LoseCell
<1> HIDE DEF d, b, t, l
<1>7. ~l.dead /\ ~(i >= l.mem[p].len)
  <2>1. l.dead \/ i >= l.mem[p].len => t = Exit(l)
    BY <1>1 DEF SetCell
  <2> QED
    BY <1>6, <2>1, ExitStore DEF t
<1>8. Copied(s, d, p, F, b, w, TRUE)
  BY <1>2, <1>3, <1>6, <1>7, CopyKept DEF d
<1>9. /\ VecIn(d.s, p, F \cup {b}, TRUE) /\ SameVec(mem, d.s.mem, p, TRUE)
      /\ Like(s, d.s) /\ Agree(mem, d.s.mem, F) /\ b \notin F /\ d.s.mem[p] = mem[p]
      /\ d.p \in Nat /\ d.p \in DOMAIN d.s.mem /\ d.s.mem[d.p] = w
  BY <1>8 DEF Copied
<1>10. Brings(d.s.mem, p, i + 1, d.p, {b}, TRUE)
  BY <1>9 DEF Brings, StrBlock, b
<1>11. {b} \cap F = {}
  BY <1>9
<1>12. i < d.s.mem[p].len /\ i < mem[p].len
  <2>1. VecOK(d.s.mem, p, d.s.x.h, TRUE)
    BY <1>9 DEF VecIn
  <2>2. d.s.mem[p].len \in Nat
    BY <2>1, VecNumbers
  <2> QED
    BY <1>6, <1>7, <1>9, <2>2
<1>13. l = Loosened(d.s, p, i, TRUE)
  BY <1>6, <1>7, <1>9, <1>12, LoosenIs DEF l
<1>14. t = Put(Loosened(d.s, p, i, TRUE), d.s.mem[p].data, [d.s.mem[d.s.mem[p].data] EXCEPT ![i + 1] = d.p])
  <2>1. t = Put(l, l.mem[p].data, [l.mem[l.mem[p].data] EXCEPT ![i + 1] = d.p])
    BY <1>1, <1>7 DEF SetCell
  <2> QED
    BY <1>6, <1>13, <2>1
<1>15. /\ VecStep(d.s, t, p, F, TRUE)
       /\ RewrittenOK(d.s.mem, t.mem, p, d.s.x.h, [CellsOf(d.s.mem, p) EXCEPT ![i + 1] = d.p], TRUE)
  <2> HIDE DEF mem
  <2> QED
    BY <1>3, <1>9, <1>10, <1>11, <1>12, <1>14, SetKept
<1>16. VecStep(s, t, p, F, TRUE)
  BY <1>9, <1>15, VecAfter
<1>17. RewrittenOK(d.s.mem, t.mem, p, s.x.h, [CellsOf(mem, p) EXCEPT ![i + 1] = d.p], TRUE)
  BY <1>9, <1>15 DEF SameVec, Like
<1> QED
  BY <1>8, <1>12, <1>16, <1>17 DEF t, b

\* tiq_vec_pop
LEMMA PopCellKept ==
  ASSUME NEW s, NEW p, NEW F, VecIn(s, p, F, FALSE), ~PopCell(s, p).dead
  PROVE  /\ VecStep(s, PopCell(s, p), p, F, FALSE) /\ s.mem[p].len # 0
         /\ RewrittenOK(s.mem, PopCell(s, p).mem, p, s.x.h, SubSeq(CellsOf(s.mem, p), 1, s.mem[p].len - 1), FALSE)
<1> DEFINE t == PopCell(s, p)
<1>1. IsStore(s) /\ VecOK(s.mem, p, s.x.h, FALSE)
  BY DEF VecIn, Kept
<1>2. s.mem[p].len # 0
  BY <1>1, ExitStore DEF PopCell
<1>3. s.mem[p].len \in Nat
  BY <1>1, VecNumbers
<1>4. PICK m \in Nat : s.mem[p].len = m + 1
  <2>1. s.mem[p].len - 1 \in Nat
    BY <1>2, <1>3
  <2> QED
    BY <1>3, <2>1
<1>5. m = s.mem[p].len - 1
  BY <1>4
<1>6. t = Put(Put(Loosened(s, p, m, FALSE), s.mem[p].data, SubSeq(s.mem[s.mem[p].data], 1, m)), p,
              [s.mem[p] EXCEPT !.len = m])
  BY <1>2, <1>5 DEF PopCell, Loosened
<1> HIDE DEF t
<1>7. VecStep(s, t, p, F, FALSE)
      /\ RewrittenOK(s.mem, t.mem, p, s.x.h, SubSeq(CellsOf(s.mem, p), 1, m), FALSE)
  BY <1>4, <1>6, PopKept
<1> QED
  BY <1>2, <1>5, <1>7 DEF t

\* tiq_vec_pop of a vec of strings: its last string is let go.
LEMMA PopStrKept ==
  ASSUME NEW s, NEW p, NEW F, VecIn(s, p, F, TRUE), ~s.dead, ~PopStr(s, p).dead
  PROVE  /\ VecStep(s, PopStr(s, p), p, F, TRUE) /\ s.mem[p].len # 0
         /\ RewrittenOK(s.mem, PopStr(s, p).mem, p, s.x.h, SubSeq(CellsOf(s.mem, p), 1, s.mem[p].len - 1), TRUE)
<1> DEFINE t == PopStr(s, p)
<1>1. IsStore(s) /\ VecOK(s.mem, p, s.x.h, TRUE)
  BY DEF VecIn, Kept
<1>2. s.mem[p].len # 0
  BY <1>1, ExitStore DEF PopStr
<1>3. s.mem[p].len \in Nat
  BY <1>1, VecNumbers
<1>4. PICK m \in Nat : s.mem[p].len = m + 1
  <2>1. s.mem[p].len - 1 \in Nat
    BY <1>2, <1>3
  <2> QED
    BY <1>3, <2>1
<1>5. m = s.mem[p].len - 1 /\ m < s.mem[p].len
  BY <1>4
<1>6. LoseCell(s, p, m) = Loosened(s, p, m, TRUE)
  BY <1>4, <1>5, LoosenIs
<1>7. LoseCell(s, p, m).mem = s.mem
  BY <1>1, LoseStore DEF LoseCell
<1>8. t = PopCell(LoseCell(s, p, m), p)
  BY <1>2, <1>5 DEF PopStr
<1> HIDE DEF t
<1>9. t = Put(Put(Loosened(s, p, m, TRUE), s.mem[p].data, SubSeq(s.mem[s.mem[p].data], 1, m)), p,
              [s.mem[p] EXCEPT !.len = m])
  BY <1>2, <1>5, <1>6, <1>7, <1>8 DEF PopCell
<1>10. VecStep(s, t, p, F, TRUE)
      /\ RewrittenOK(s.mem, t.mem, p, s.x.h, SubSeq(CellsOf(s.mem, p), 1, m), TRUE)
  BY <1>4, <1>9, PopKept
<1> QED
  BY <1>2, <1>5, <1>10 DEF t

-----------------------------------------------------------------------------
\* The string builder.

\* The doubling of a builder's capacity ends, at a capacity that is enough.
LEMMA DoubledEnough ==
  ASSUME NEW c \in Nat \ {0}, NEW need \in Nat
  PROVE  Doubled(c, need) \in Nat \ {0} /\ Doubled(c, need) >= need
<1> DEFINE S == {i \in Nat : c * Pow2[i] >= need}
           G(i) == c * Pow2[i] >= need /\ \A j \in 0..(i - 1) : c * Pow2[j] < need
<1>1. \A i \in Nat : Pow2[i] \in Nat /\ Pow2[i] >= i + 1 /\ c * Pow2[i] \in Nat /\ c * Pow2[i] >= Pow2[i]
  <2>1. ASSUME NEW i \in Nat
        PROVE Pow2[i] \in Nat /\ Pow2[i] >= i + 1 /\ c * Pow2[i] \in Nat /\ c * Pow2[i] >= Pow2[i]
    <3>1. Pow2[i] \in Nat /\ Pow2[i] >= i + 1
      BY Pow2Values
    <3>2. PICK k \in Nat : k = Pow2[i]
      BY <3>1
    <3>3. c * k \in Nat /\ c * k >= k
      <4>1. PICK d \in Nat : c = d + 1
        <5>1. c - 1 \in Nat /\ c = (c - 1) + 1
          OBVIOUS
        <5> QED
          BY <5>1
      <4>2. d * k \in Nat /\ c * k = d * k + k
        BY <3>2, <4>1
      <4> QED
        BY <3>2, <4>2
    <3> QED
      BY <3>1, <3>2, <3>3
  <2> QED
    BY <2>1
<1>2. need \in S
  BY <1>1
<1>3. PICK n \in S : \A k \in S : n <= k
  <2>1. S \in SUBSET Nat /\ S # {}
    BY <1>2
  <2> HIDE DEF S
  <2> QED
    BY <2>1, LeastNat
<1>4. n \in 0..need /\ G(n)
  <2>1. n \in Nat /\ n <= need /\ c * Pow2[n] >= need
    BY <1>2, <1>3
  <2>2. ASSUME NEW j \in 0..(n - 1) PROVE c * Pow2[j] < need
    <3>1. j \in Nat /\ j < n
      BY <2>1
    <3>2. j \notin S
      BY <1>3, <2>1, <3>1
    <3> QED
      BY <1>1, <3>1, <3>2
  <2> QED
    BY <2>1, <2>2
<1> HIDE DEF G
<1> DEFINE k == CHOOSE i \in 0..need : G(i)
<1>5. k \in 0..need /\ G(k)
  BY <1>4
<1>6. Doubled(c, need) = c * Pow2[k]
  BY DEF Doubled, G
<1> HIDE DEF k
<1>7. Pow2[k] \in Nat /\ Pow2[k] >= k + 1 /\ c * Pow2[k] \in Nat /\ c * Pow2[k] >= Pow2[k] /\ k \in Nat
  BY <1>1, <1>5
<1>8. c * Pow2[k] >= need
  BY <1>5 DEF G
<1> HIDE DEF S
<1> QED
  BY <1>6, <1>7, <1>8

\* The blocks of a string builder, by name.
BufHead(p, b) == Owned(<<"buf", "header", 0>>, Block(p, BufBytes, MaxAlign, b.a))
BufText(b) == Owned(<<"buf", "text", 0>>, Block(b.data, b.cap, 1, b.a))

\* The blocks of a builder: header and text.
LEMMA BufParts ==
  ASSUME NEW mem, NEW p
  PROVE  BufBlocks(mem, p) = {BufHead(p, mem[p]), BufText(mem[p])}
  BY DEF BufBlocks, BufHead, BufText

\* Address, size, alignment and allocator of a builder's blocks.
LEMMA BufFields ==
  ASSUME NEW p, NEW b
  PROVE  /\ Names(BufHead(p, b), p, BufBytes, MaxAlign, b.a)
         /\ Names(BufText(b), b.data, b.cap, 1, b.a)
         /\ \A c : BufHead(p, b) # BufText(c)
<1>1. BufHead(p, b).o = <<"buf", "header", 0>> /\ \A c : BufText(c).o = <<"buf", "text", 0>>
  BY DEF BufHead, BufText, Owned
<1>2. <<"buf", "header", 0>>[2] = "header" /\ <<"buf", "text", 0>>[2] = "text"
  OBVIOUS
<1>3. /\ Names(BufHead(p, b), p, BufBytes, MaxAlign, b.a)
      /\ Names(BufText(b), b.data, b.cap, 1, b.a)
  BY DEF BufHead, BufText, Owned, Block, Names
<1> QED
  BY <1>1, <1>2, <1>3

\* A builder among other blocks, and an operation on it.
BufIn(s, p, F) ==
  /\ Kept(s, BufBlocks(s.mem, p) \cup F) /\ BufBlocks(s.mem, p) \cap F = {}
  /\ BufOK(s.mem, p, s.x.h)
BufStep(s, t, p, F) == BufIn(t, p, F) /\ Like(s, t) /\ Agree(s.mem, t.mem, F)
TextOf(mem, p) == mem[mem[p].data]

BufApart(mem, p, F) == /\ mem[p].data # p /\ p \in Nat \ {0} /\ mem[p].data \in Nat \ {0}
                       /\ \A f \in F : f.p \notin {p, mem[p].data}

\* A builder's blocks and those beside it lie at different addresses.
LEMMA BufAddresses ==
  ASSUME NEW s, NEW p, NEW F, BufIn(s, p, F)
  PROVE  BufApart(s.mem, p, F)
<1> DEFINE v == s.mem[p]
           M == BufBlocks(s.mem, p)
           hd == BufHead(p, v)
           tx == BufText(v)
<1>1. Kept(s, M \cup F) /\ M \cap F = {} /\ hd \in M /\ tx \in M
  BY BufParts DEF BufIn
<1>2. hd.p = p /\ tx.p = v.data /\ hd # tx
  <2> HIDE DEF v
  <2> QED
    BY BufFields DEF Names
<1> HIDE DEF M, hd, tx
<1>3. \A b, c \in M \cup F : b # c => b.p # c.p
  BY <1>1, KeptApart
<1>4. \A b \in M \cup F : b.p \in Nat \ {0}
  BY <1>1, KeptTyped
<1>5. \A f \in F : f \in M \cup F /\ f # hd /\ f # tx
  BY <1>1
<1> QED
  BY <1>1, <1>2, <1>3, <1>4, <1>5 DEF BufApart

\* The numbers of a builder.
LEMMA BufNumbers ==
  ASSUME NEW mem, NEW p, NEW h, BufOK(mem, p, h)
  PROVE  /\ mem[p] \in [data : Nat, len : Nat, cap : Nat, a : {0, h}]
         /\ mem[p].len \in Nat /\ mem[p].cap \in Nat \ {0} /\ mem[p].a \in {0, h} /\ mem[p].data \in Nat
         /\ p \in DOMAIN mem /\ mem[p].data \in DOMAIN mem
         /\ TextOf(mem, p) \in Text /\ TextOf(mem, p).n = mem[p].len /\ mem[p].len < mem[p].cap
<1>1. /\ mem[p] \in [data : Nat, len : Nat, cap : Nat, a : {0, h}]
      /\ p \in DOMAIN mem /\ mem[p].data \in DOMAIN mem
      /\ TextOf(mem, p) \in Text /\ TextOf(mem, p).n = mem[p].len /\ mem[p].len < mem[p].cap
  BY DEF BufOK, TextOf
<1>2. mem[p].len \in Nat /\ mem[p].cap \in Nat /\ mem[p].a \in {0, h} /\ mem[p].data \in Nat
  BY <1>1
<1> QED
  BY <1>1, <1>2

\* A builder with a header and a text, rewritten.
LEMMA BufWritten ==
  ASSUME NEW s, NEW t, NEW p, NEW F, NEW h, h = s.x.h,
         NEW new \in [data : Nat, len : Nat, cap : Nat, a : {0, h}], p \in DOMAIN t.mem, t.mem[p] = new,
         new.data \in DOMAIN t.mem, t.mem[new.data] \in Text, t.mem[new.data].n = new.len, new.len < new.cap,
         Kept(t, {BufHead(p, new), BufText(new)} \cup F), {BufHead(p, new), BufText(new)} \cap F = {},
         Like(s, t), Agree(s.mem, t.mem, F)
  PROVE  BufStep(s, t, p, F)
<1>1. BufBlocks(t.mem, p) = {BufHead(p, new), BufText(new)}
  BY BufParts
<1>2. BufOK(t.mem, p, h) /\ t.x.h = h
  BY DEF BufOK, Like
<1> QED
  BY <1>1, <1>2 DEF BufStep, BufIn

BufMade(s, r, F) ==
  /\ BufStep(s, r.s, r.p, F) /\ r.p \in Nat \ {0} /\ TextOf(r.s.mem, r.p) = NoText
  /\ r.s.mem[r.p].a \in {0, s.x.h}

\* tiq_str_buf_new
LEMMA BufNewKept ==
  ASSUME NEW s, NEW F, Kept(s, F), NEW a \in {0, s.x.h}, ~BufNew(s, a).s.dead
  PROVE  BufMade(s, BufNew(s, a), F)
<1> DEFINE b == Take(s, a, BufBytes, MaxAlign)
           d == Take(b.s, a, FirstText, 1)
           new == [data |-> d.p, len |-> 0, cap |-> FirstText, a |-> a]
           one == Put(d.s, d.p, NoText)
           t == Put(one, b.p, new)
           p == b.p
           q == d.p
           hd == BufHead(p, new)
           tx == BufText(new)
<1>1. BufNew(s, a) = [s |-> t, p |-> p]
  BY DEF BufNew
<1>2. BufBytes \in Nat \ {0} /\ FirstText \in Nat \ {0} /\ MaxAlign \in {1, MaxAlign} /\ 1 \in {1, MaxAlign}
  BY Bytes, ContainersAssumption
<1>3. /\ new.data = q /\ new.len = 0 /\ new.cap = FirstText /\ new.a = a
      /\ (q \in Nat => new \in [data : Nat, len : Nat, cap : Nat, a : {0, s.x.h}])
  BY <1>2
<1>4. Names(hd, p, BufBytes, MaxAlign, a) /\ Names(tx, q, FirstText, 1, a) /\ hd # tx
  <2> HIDE DEF new, b, d
  <2> QED
    BY <1>3, BufFields
<1>5. IsStore(s)
  BY DEF Kept
<1> HIDE DEF new, hd, tx
<1>6. IsStore(b.s)
  BY <1>5, TakeStore
<1> HIDE DEF b
<1>7. IsStore(d.s) /\ (b.s.dead => d.s.dead)
  BY <1>6, TakeStore
<1> HIDE DEF d
<1>8. IsStore(one) /\ one.dead = d.s.dead
  BY <1>7, PutStore DEF OnlyMem
<1> HIDE DEF one
<1>9. t.dead = one.dead
  BY <1>8, PutStore DEF OnlyMem
<1>10. ~b.s.dead /\ ~d.s.dead
  BY <1>1, <1>7, <1>8, <1>9
<1> HIDE DEF t
<1>11. Taken(s, b, F, hd)
  BY <1>2, <1>4, <1>10, TakeKept DEF b
<1>12. Kept(b.s, F \cup {hd}) /\ Like(s, b.s) /\ b.s.mem = s.mem /\ a \in {0, b.s.x.h}
  BY <1>11 DEF Taken, Like
<1>13. Taken(b.s, d, F \cup {hd}, tx)
  BY <1>2, <1>4, <1>10, <1>12, TakeKept DEF d
<1>14. Kept(d.s, F \cup {hd} \cup {tx}) /\ Like(b.s, d.s) /\ d.s.mem = s.mem
  BY <1>12, <1>13 DEF Taken
<1>15. Kept(one, F \cup {hd} \cup {tx}) /\ Like(d.s, one) /\ one.mem = Written(s.mem, q, NoText)
  BY <1>14, PutKept DEF one
<1>16. Kept(t, F \cup {hd} \cup {tx}) /\ Like(one, t) /\ t.mem = Written(Written(s.mem, q, NoText), p, new)
  BY <1>15, PutKept DEF t
<1>17. p \in Nat \ {0} /\ q \in Nat \ {0} /\ p # q /\ \A f \in F : f.p \notin {p, q}
  <2>1. (\A f \in F : f.p # p) /\ (\A f \in F \cup {hd} : f.p # q) /\ hd.p = p
    BY <1>4, <1>11, <1>13 DEF Taken, Names
  <2> QED
    BY <1>11, <1>13, <2>1 DEF Taken
<1> DEFINE next == t.mem
<1>18. /\ p \in DOMAIN next /\ next[p] = new /\ q \in DOMAIN next /\ next[q] = NoText
       /\ Touched(s.mem, next, {p, q})
  <2> HIDE DEF next, p, q
  <2> QED
    BY <1>16, <1>17 DEF Written, Touched, next
<1> HIDE DEF p, q
<1>19. Agree(s.mem, next, F)
  <2> HIDE DEF next
  <2> QED
    BY <1>17, <1>18, TouchedAgree
<1>20. NoText \in Text /\ NoText.n = 0 /\ NoText.pieces = <<>>
  BY DEF NoText, Text
<1>21. {hd, tx} \cap F = {} /\ F \cup {hd} \cup {tx} = {hd, tx} \cup F
  BY <1>4, <1>17 DEF Names
<1>22. Like(s, t)
  BY <1>12, <1>14, <1>15, <1>16 DEF Like
<1>23. BufStep(s, t, p, F)
  <2>1. 0 < FirstText /\ new.data = q /\ new.len = 0 /\ new.cap = FirstText
    BY <1>2, <1>3
  <2>2. Kept(t, {hd, tx} \cup F)
    BY <1>16, <1>21
  <2> QED
    BY <1>3, <1>17, <1>18, <1>19, <1>20, <1>21, <1>22, <2>1, <2>2, BufWritten DEF hd, tx, p
<1> QED
  BY <1>1, <1>3, <1>17, <1>18, <1>20, <1>23 DEF BufMade, TextOf, p

\* The growth of a text does not bring the process back.
LEMMA GrowTextStore ==
  ASSUME NEW s, IsStore(s), NEW p, NEW need
  PROVE  IsStore(GrowText(s, p, need)) /\ (s.dead => GrowText(s, p, need).dead)
<1> DEFINE b == s.mem[p]
           c == Doubled(b.cap, need)
           d == Take(s, b.a, c, 1)
           new == [b EXCEPT !.data = d.p, !.cap = c]
           tx == s.mem[b.data]
           one == Put(d.s, d.p, tx)
           two == Put(one, p, new)
           old == Block(b.data, b.cap, 1, b.a)
           t == Drop(two, old)
<1>1. GrowText(s, p, need) = t
  BY DEF GrowText
<1>2. IsStore(d.s) /\ (s.dead => d.s.dead)
  BY TakeStore
<1> HIDE DEF d, new, tx
<1>3. IsStore(one) /\ one.dead = d.s.dead
  BY <1>2, PutStore DEF OnlyMem
<1> HIDE DEF one
<1>4. IsStore(two) /\ two.dead = one.dead
  BY <1>3, PutStore DEF OnlyMem
<1> HIDE DEF two, old
<1>5. IsStore(t) /\ t.dead = two.dead
  BY <1>4, DropStore
<1> QED
  BY <1>1, <1>2, <1>3, <1>4, <1>5

\* The text moves to a block that has room for need characters.
LEMMA GrowTextKept ==
  ASSUME NEW s, NEW p, NEW F, BufIn(s, p, F), NEW need \in Nat, s.mem[p].len < need, ~GrowText(s, p, need).dead
  PROVE  /\ BufStep(s, GrowText(s, p, need), p, F)
         /\ GrowText(s, p, need).mem[p].len = s.mem[p].len /\ GrowText(s, p, need).mem[p].cap >= need
         /\ TextOf(GrowText(s, p, need).mem, p) = TextOf(s.mem, p)
<1> DEFINE mem == s.mem
           v == mem[p]
           c == Doubled(v.cap, need)
           d == Take(s, v.a, c, 1)
           M == BufBlocks(mem, p)
           new == [v EXCEPT !.data = d.p, !.cap = c]
           tx == mem[v.data]
           one == Put(d.s, d.p, tx)
           two == Put(one, p, new)
           o == BufText(v)
           old == Block(v.data, v.cap, 1, v.a)
           t == Drop(two, old)
           q == d.p
           b == BufText(new)
           next == t.mem
<1>1. GrowText(s, p, need) = t
  BY DEF GrowText
<1>2. Kept(s, M \cup F) /\ M \cap F = {} /\ IsStore(s) /\ BufOK(mem, p, s.x.h)
  BY DEF BufIn, Kept
<1>3. /\ v \in [data : Nat, len : Nat, cap : Nat, a : {0, s.x.h}]
      /\ v.len \in Nat /\ v.cap \in Nat \ {0} /\ v.a \in {0, s.x.h} /\ v.data \in Nat
      /\ p \in DOMAIN mem /\ v.data \in DOMAIN mem /\ tx \in Text /\ tx.n = v.len
  BY <1>2, BufNumbers DEF TextOf
<1>4. v.data # p /\ p \in Nat \ {0} /\ v.data \in Nat \ {0} /\ \A f \in F : f.p \notin {p, v.data}
  BY BufAddresses DEF BufApart
<1>5. c \in Nat \ {0} /\ c >= need
  <2> HIDE DEF v
  <2> QED
    BY <1>3, DoubledEnough
<1>6. M = {BufHead(p, v), o} /\ Names(o, v.data, v.cap, 1, v.a) /\ BufHead(p, v) # o
  <2>1. M = {BufHead(p, v), o}
    BY BufParts
  <2> HIDE DEF v, M
  <2> QED
    BY <2>1, BufFields
<1> HIDE DEF c
<1>7. /\ new.data = q /\ new.len = v.len /\ new.cap = c /\ new.a = v.a
      /\ (q \in Nat => new \in [data : Nat, len : Nat, cap : Nat, a : {0, s.x.h}])
  BY <1>3, <1>5
<1>8. Names(b, q, c, 1, v.a) /\ BufHead(p, new) = BufHead(p, v)
  <2> HIDE DEF new, d, v
  <2> QED
    BY <1>7, BufFields DEF BufHead
<1> HIDE DEF new, b, tx, o
<1>9. ~d.s.dead
  <2>1. IsStore(d.s)
    BY <1>2, TakeStore
  <2> HIDE DEF d
  <2>2. IsStore(one) /\ one.dead = d.s.dead
    BY <2>1, PutStore DEF OnlyMem
  <2> HIDE DEF one
  <2>3. IsStore(two) /\ two.dead = one.dead
    BY <2>2, PutStore DEF OnlyMem
  <2> HIDE DEF two, old
  <2>4. t.dead = two.dead
    BY <2>3, DropStore
  <2> QED
    BY <1>1, <2>2, <2>3, <2>4
<1> HIDE DEF d, t, M
<1>10. Taken(s, d, M \cup F, b)
  <2>1. 1 \in {1, MaxAlign}
    OBVIOUS
  <2> HIDE DEF v
  <2> QED
    BY <1>2, <1>3, <1>5, <1>8, <1>9, <2>1, TakeKept DEF d
<1> DEFINE G == M \cup F \cup {b}
<1>11. Kept(d.s, G) /\ Like(s, d.s) /\ d.s.mem = mem
  BY <1>10 DEF Taken
<1>12. (\A e \in M \cup F : e.p # q) /\ q \in Nat \ {0}
  BY <1>10 DEF Taken
<1>13. q # p /\ q # v.data /\ (\A f \in F : f.p # q) /\ b \notin M \cup F
  <2>1. BufHead(p, v) \in M /\ o \in M /\ o.p = v.data
    BY <1>6 DEF Names
  <2>2. BufHead(p, v).p = p
    BY BufFields DEF Names
  <2>3. b.p = q
    BY <1>8 DEF Names
  <2> HIDE DEF v
  <2> QED
    BY <1>12, <2>1, <2>2, <2>3
<1> HIDE DEF one, two
<1>14. Kept(one, G) /\ Like(d.s, one) /\ one.mem = Written(mem, q, tx)
  <2> HIDE DEF G
  <2> QED
    BY <1>11, PutKept DEF one
<1>15. Kept(two, G) /\ Like(one, two) /\ two.mem = Written(Written(mem, q, tx), p, new)
  <2> HIDE DEF G
  <2> QED
    BY <1>14, PutKept DEF two
<1> DEFINE filled == Written(Written(mem, q, tx), p, new)
<1>16. Kept(t, G \ {o}) /\ Like(two, t) /\ next = Without(filled, v.data)
  <2>1. o \in G
    BY <1>6 DEF G
  <2>2. old = Block(o.p, o.n, o.al, o.a) /\ o.p = v.data
    BY <1>6 DEF Names, Block
  <2> HIDE DEF filled, old, G
  <2>3. Dropped(two, t, G, o)
    BY <1>15, <2>1, <2>2, DropKept DEF t
  <2> QED
    BY <1>15, <2>2, <2>3 DEF Dropped, filled
<1>17. /\ p \in DOMAIN next /\ next[p] = new /\ q \in DOMAIN next /\ next[q] = tx
       /\ Touched(mem, next, {p, q, v.data})
  <2> HIDE DEF next
  <2> QED
    BY <1>4, <1>13, <1>16 DEF Written, Without, Touched
<1> HIDE DEF next, q
<1>18. Agree(mem, next, F)
  <2>1. \A f \in F : f.p \notin {p, q, v.data}
    BY <1>4, <1>13
  <2> QED
    BY <1>17, <2>1, TouchedAgree
<1>19. G \ {o} = {BufHead(p, new), b} \cup F /\ {BufHead(p, new), b} \cap F = {}
  <2>1. o \notin F /\ BufHead(p, v) \notin F /\ b # o
    BY <1>2, <1>6, <1>13
  <2> QED
    BY <1>6, <1>8, <1>13, <2>1 DEF G
<1>20. Like(s, t)
  BY <1>11, <1>14, <1>15, <1>16 DEF Like
<1>21. BufStep(s, t, p, F)
  <2>1. new.len < new.cap
    BY <1>3, <1>5, <1>7
  <2>2. new \in [data : Nat, len : Nat, cap : Nat, a : {0, s.x.h}]
    BY <1>7, <1>12
  <2>3. Kept(t, {BufHead(p, new), b} \cup F)
    BY <1>16, <1>19
  <2> QED
    BY <1>3, <1>7, <1>17, <1>18, <1>19, <1>20, <2>1, <2>2, <2>3, BufWritten DEF next, b
<1>22. TextOf(next, p) = TextOf(mem, p)
  BY <1>7, <1>17 DEF TextOf, tx
<1> QED
  BY <1>1, <1>5, <1>7, <1>17, <1>21, <1>22 DEF next

\* No operation on a builder is one.
LEMMA BufSame ==
  ASSUME NEW s, NEW p, NEW F, BufIn(s, p, F)
  PROVE  BufStep(s, s, p, F)
  BY DEF BufStep, Like, Agree

\* Two operations on a builder make one.
LEMMA BufTrans ==
  ASSUME NEW s, NEW r, NEW t, NEW p, NEW F, BufStep(s, r, p, F), BufStep(r, t, p, F)
  PROVE  BufStep(s, t, p, F)
  BY DEF BufStep, Like, Agree

\* A text joined with a piece.
LEMMA Joined ==
  ASSUME NEW tx \in Text, NEW w \in Piece
  PROVE  Join(tx, w) \in Text /\ Join(tx, w).n = tx.n + StrLen[w] /\ Join(tx, w).pieces = Append(tx.pieces, w)
<1>1. tx.pieces \in Seq(Piece) /\ tx.n \in Nat
  BY DEF Text
<1>2. StrLen[w] \in Nat
  BY ContainersAssumption
<1>3. Append(tx.pieces, w) \in Seq(Piece)
  BY <1>1
<1> HIDE DEF Text
<1> QED
  BY <1>1, <1>2, <1>3 DEF Join, Text

\* A piece written behind the text of a builder that has room for it.
LEMMA JoinKept ==
  ASSUME NEW s, NEW p, NEW F, BufIn(s, p, F), NEW w \in Piece,
         s.mem[p].len + StrLen[w] + 1 <= s.mem[p].cap,
         NEW t, t = Put(Put(s, s.mem[p].data, Join(s.mem[s.mem[p].data], w)), p,
                        [s.mem[p] EXCEPT !.len = @ + StrLen[w]])
  PROVE  BufStep(s, t, p, F) /\ TextOf(t.mem, p) = Join(TextOf(s.mem, p), w)
<1> DEFINE mem == s.mem
           v == mem[p]
           M == BufBlocks(mem, p)
           tx == Join(mem[v.data], w)
           new == [v EXCEPT !.len = v.len + StrLen[w]]
           one == Put(s, v.data, tx)
           next == t.mem
<1>1. Kept(s, M \cup F) /\ M \cap F = {} /\ BufOK(mem, p, s.x.h)
  BY DEF BufIn
<1>2. /\ v \in [data : Nat, len : Nat, cap : Nat, a : {0, s.x.h}]
      /\ v.len \in Nat /\ v.cap \in Nat \ {0} /\ v.a \in {0, s.x.h} /\ v.data \in Nat
      /\ p \in DOMAIN mem /\ v.data \in DOMAIN mem /\ mem[v.data] \in Text /\ mem[v.data].n = v.len
  BY <1>1, BufNumbers DEF TextOf
<1>3. v.data # p /\ \A f \in F : f.p \notin {p, v.data}
  BY BufAddresses DEF BufApart
<1>4. StrLen[w] \in Nat
  BY ContainersAssumption
<1>5. tx \in Text /\ tx.n = v.len + StrLen[w]
  BY <1>2, Joined
<1>6. /\ new.data = v.data /\ new.len = v.len + StrLen[w] /\ new.cap = v.cap /\ new.a = v.a
      /\ new \in [data : Nat, len : Nat, cap : Nat, a : {0, s.x.h}]
  BY <1>2, <1>4
<1>7. t = Put(one, p, new)
  OBVIOUS
<1>8. new.len < new.cap
  <2>1. v.len + StrLen[w] + 1 <= v.cap
    OBVIOUS
  <2> HIDE DEF v, new
  <2> QED
    BY <1>2, <1>4, <1>6, <2>1
<1> HIDE DEF tx, new, M
<1>9. Kept(one, M \cup F) /\ Like(s, one) /\ one.mem = Written(mem, v.data, tx)
  BY <1>1, PutKept
<1> HIDE DEF one
<1>10. Kept(t, M \cup F) /\ Like(one, t) /\ t.mem = Written(Written(mem, v.data, tx), p, new)
  BY <1>7, <1>9, PutKept
<1>11. /\ p \in DOMAIN next /\ next[p] = new /\ v.data \in DOMAIN next /\ next[v.data] = tx
       /\ Touched(mem, next, {p, v.data})
  <2> HIDE DEF next, v
  <2> QED
    BY <1>3, <1>10 DEF Written, Touched, next
<1> HIDE DEF next
<1>12. Agree(mem, next, F)
  BY <1>3, <1>11, TouchedAgree
<1>13. M = {BufHead(p, new), BufText(new)}
  <2>1. M = {BufHead(p, v), BufText(v)}
    BY BufParts DEF M
  <2>2. BufHead(p, v) = BufHead(p, new) /\ BufText(v) = BufText(new)
    BY <1>6 DEF BufHead, BufText
  <2> QED
    BY <2>1, <2>2
<1>14. Like(s, t)
  BY <1>9, <1>10 DEF Like
<1>15. BufStep(s, t, p, F)
  <2>1. Kept(t, {BufHead(p, new), BufText(new)} \cup F) /\ {BufHead(p, new), BufText(new)} \cap F = {}
    BY <1>1, <1>10, <1>13
  <2> QED
    BY <1>5, <1>6, <1>8, <1>11, <1>12, <1>14, <2>1, BufWritten DEF next
<1>16. TextOf(next, p) = tx
  BY <1>6, <1>11 DEF TextOf
<1> QED
  BY <1>15, <1>16 DEF TextOf, tx, next

\* tiq_str_buf_append
LEMMA BufAppendKept ==
  ASSUME NEW s, NEW p, NEW F, BufIn(s, p, F), NEW w \in Piece, ~BufAppend(s, p, w).dead
  PROVE  /\ BufStep(s, BufAppend(s, p, w), p, F)
         /\ TextOf(BufAppend(s, p, w).mem, p) =
              IF StrLen[w] = 0 THEN TextOf(s.mem, p) ELSE Join(TextOf(s.mem, p), w)
<1> DEFINE v == s.mem[p]
           need == Need(v, w)
           r == IF need > v.cap THEN GrowText(s, p, need) ELSE s
           u == Put(Put(r, r.mem[p].data, Join(r.mem[r.mem[p].data], w)), p,
                    [r.mem[p] EXCEPT !.len = @ + StrLen[w]])
           t == BufAppend(s, p, w)
<1>1. t = IF StrLen[w] = 0 THEN s ELSE IF r.dead THEN r ELSE u
  BY DEF BufAppend
<1>2. BufOK(s.mem, p, s.x.h)
  BY DEF BufIn
<1>3. v.len \in Nat /\ v.cap \in Nat /\ StrLen[w] \in Nat
  BY <1>2, BufNumbers, ContainersAssumption
<1>4. need \in Nat /\ need = v.len + StrLen[w] + 1 /\ v.len < need
  <2>1. need = v.len + StrLen[w] + 1
    BY DEF Need
  <2> HIDE DEF need, v
  <2> QED
    BY <1>3, <2>1
<1> HIDE DEF need
<1>5. CASE StrLen[w] = 0
  BY <1>1, <1>5, BufSame
<1>6. CASE StrLen[w] # 0
  <2>1. ~r.dead /\ t = u
    BY <1>1, <1>6
  <2>2. /\ BufStep(s, r, p, F) /\ r.mem[p].len = v.len /\ need <= r.mem[p].cap
        /\ TextOf(r.mem, p) = TextOf(s.mem, p)
    <3>1. CASE need > v.cap
      <4>1. ~GrowText(s, p, need).dead
        BY <2>1, <3>1
      <4>2. /\ BufStep(s, GrowText(s, p, need), p, F)
            /\ GrowText(s, p, need).mem[p].len = v.len /\ GrowText(s, p, need).mem[p].cap >= need
            /\ TextOf(GrowText(s, p, need).mem, p) = TextOf(s.mem, p)
        BY <1>4, <4>1, GrowTextKept
      <4>3. BufOK(GrowText(s, p, need).mem, p, GrowText(s, p, need).x.h)
        BY <4>2 DEF BufStep, BufIn
      <4>4. GrowText(s, p, need).mem[p].cap \in Nat
        BY <4>3, BufNumbers
      <4> HIDE DEF v
      <4> QED
        BY <1>4, <3>1, <4>2, <4>4
    <3>2. CASE ~(need > v.cap)
      <4>1. r = s
        BY <3>2
      <4>2. need <= v.cap
        <5> HIDE DEF v
        <5> QED
          BY <1>3, <1>4, <3>2
      <4> QED
        BY <4>1, <4>2, BufSame
    <3> QED
      BY <3>1, <3>2
  <2> HIDE DEF r
  <2>3. BufIn(r, p, F)
    BY <2>2 DEF BufStep
  <2>4. r.mem[p].len + StrLen[w] + 1 <= r.mem[p].cap
    BY <1>4, <2>2
  <2>5. BufStep(r, u, p, F) /\ TextOf(u.mem, p) = Join(TextOf(r.mem, p), w)
    BY <2>3, <2>4, JoinKept
  <2> HIDE DEF u
  <2>6. BufStep(s, u, p, F)
    BY <2>2, <2>5, BufTrans
  <2> HIDE DEF t
  <2> QED
    BY <1>6, <2>1, <2>2, <2>5, <2>6 DEF t
<1> QED
  BY <1>5, <1>6

\* The string made from a builder: a text of its own on the process heap.
SnapText(p, n) == Owned(<<"snap", "text", 0>>, Block(p, n + 1, MaxAlign, 0))

StringMade(s, r, F) ==
  /\ r.p \in Nat \ {0} /\ Like(s, r.s) /\ Agree(s.mem, r.s.mem, F)
  /\ SnapOK(r.s.mem, r.p) /\ Kept(r.s, F \cup SnapBlocks(r.s.mem, r.p))
  /\ F \cap SnapBlocks(r.s.mem, r.p) = {}

\* tiq_str_buf_to_str
LEMMA ToStrKept ==
  ASSUME NEW s, NEW p, NEW F, Kept(s, F), BufOK(s.mem, p, s.x.h), ~ToStr(s, p).s.dead
  PROVE  /\ StringMade(s, ToStr(s, p), F)
         /\ ToStr(s, p).s.mem[ToStr(s, p).p] = TextOf(s.mem, p)
<1> DEFINE v == s.mem[p]
           d == Take(s, 0, v.len + 1, MaxAlign)
           tx == s.mem[v.data]
           t == Put(d.s, d.p, tx)
           q == d.p
           b == SnapText(q, v.len)
           next == t.mem
<1>1. ToStr(s, p) = [s |-> t, p |-> q]
  BY DEF ToStr
<1>2. v.len \in Nat /\ tx \in Text /\ tx.n = v.len
  BY BufNumbers DEF TextOf
<1>3. v.len + 1 \in Nat \ {0} /\ MaxAlign \in {1, MaxAlign} /\ 0 \in {0, s.x.h}
  <2> HIDE DEF v
  <2> QED
    BY <1>2
<1>4. Names(b, q, v.len + 1, MaxAlign, 0)
  BY DEF SnapText, Owned, Block, Names
<1> HIDE DEF b
<1>5. IsStore(s)
  BY DEF Kept
<1>6. IsStore(d.s)
  BY <1>5, TakeStore
<1> HIDE DEF tx
<1>7. ~d.s.dead
  <2> HIDE DEF d
  <2>1. t.dead = d.s.dead
    BY <1>6, PutStore DEF OnlyMem
  <2> HIDE DEF t
  <2> QED
    BY <1>1, <2>1
<1>8. Taken(s, d, F, b)
  <2> HIDE DEF v
  <2> QED
    BY <1>3, <1>4, <1>7, TakeKept
<1> HIDE DEF d
<1>9. Kept(d.s, F \cup {b}) /\ Like(s, d.s) /\ d.s.mem = s.mem /\ q \in Nat \ {0} /\ \A f \in F : f.p # q
  BY <1>8 DEF Taken
<1>10. Kept(t, F \cup {b}) /\ Like(d.s, t) /\ t.mem = Written(s.mem, q, tx)
  BY <1>9, PutKept
<1> HIDE DEF t
<1>11. q \in DOMAIN next /\ next[q] = tx /\ Touched(s.mem, next, {q})
  BY <1>10 DEF Written, Touched
<1> HIDE DEF next, q
<1>12. Agree(s.mem, next, F)
  BY <1>9, <1>11, TouchedAgree
<1>13. SnapBlocks(next, q) = {b} /\ SnapOK(next, q)
  BY <1>2, <1>11 DEF SnapBlocks, SnapOK, SnapText, b
<1>14. b \notin F
  BY <1>4, <1>9 DEF Names
<1>15. Like(s, t)
  BY <1>9, <1>10 DEF Like
<1>16. StringMade(s, ToStr(s, p), F)
  <2>1. ToStr(s, p).s = t /\ ToStr(s, p).p = q
    BY <1>1
  <2>2. Kept(t, F \cup SnapBlocks(next, q)) /\ F \cap SnapBlocks(next, q) = {}
    BY <1>10, <1>13, <1>14
  <2>3. q \in Nat \ {0}
    BY <1>9 DEF q
  <2> HIDE DEF v
  <2> QED
    BY <1>12, <1>13, <1>15, <2>1, <2>2, <2>3 DEF StringMade, next
<1> QED
  BY <1>1, <1>11, <1>16 DEF TextOf, tx, next

-----------------------------------------------------------------------------
\* All that a program holds, and the inductive invariant.

\* What the program holds, container by container.
MapPart(mem, p) == IF p = 0 THEN {} ELSE MapBlocks(mem, p)
VecPart(mem, p, strings) == IF p = 0 THEN {} ELSE VecBlocks(mem, p, strings)
BufPart(mem, p) == IF p = 0 THEN {} ELSE BufBlocks(mem, p)
SnapPart(mem, p) == IF p = 0 THEN {} ELSE SnapBlocks(mem, p)

MapFine(mem, p, h) == p \in Nat /\ (p # 0 => MapOK(mem, p, h))
VecFine(mem, p, h, strings) == p \in Nat /\ (p # 0 => VecOK(mem, p, h, strings))
BufFine(mem, p, h) == p \in Nat /\ (p # 0 => BufOK(mem, p, h))
SnapFine(mem, p) == p \in Nat /\ (p # 0 => SnapOK(mem, p))

\* The owner's kind tells the parts apart.
Tagged(S, w) == \A b \in S : b.o[1] = w

\* The parts of what a program holds have different tags.
LEMMA Tags ==
  ASSUME NEW mem, NEW p, NEW strings
  PROVE  /\ Tagged(MapPart(mem, p), "map") /\ Tagged(VecPart(mem, p, strings), "vec")
         /\ Tagged(BufPart(mem, p), "buf") /\ Tagged(SnapPart(mem, p), "snap")
         /\ \A w, bs : Tagged(Loose(w, bs), w)
<1>1. \A w, x, y : <<w, x, y>>[1] = w
  OBVIOUS
<1>2. \A o, b : Owned(o, b).o = o
  BY DEF Owned
<1>3. \A ps, w, a : Tagged(Strs(mem, ps, w, a), w)
  <2>1. ASSUME NEW ps, NEW w, NEW a, NEW b \in Strs(mem, ps, w, a) PROVE b.o[1] = w
    <3>1. PICK i \in 1..Len(ps) : b = Owned(<<w, "string", i>>, StrBlock(mem, ps[i], a))
      BY <2>1 DEF Strs
    <3>2. b.o = <<w, "string", i>>
      BY <1>2, <3>1
    <3> QED
      BY <3>2
  <2> QED
    BY <2>1 DEF Tagged
<1>4. Tagged(MapPart(mem, p), "map")
  BY <1>1, <1>2, <1>3 DEF Tagged, MapPart, MapBlocks
<1>5. Tagged(VecPart(mem, p, strings), "vec")
  BY <1>1, <1>2, <1>3 DEF Tagged, VecPart, VecBlocks
<1>6. Tagged(BufPart(mem, p), "buf") /\ Tagged(SnapPart(mem, p), "snap")
  BY <1>1, <1>2 DEF Tagged, BufPart, BufBlocks, SnapPart, SnapBlocks
<1>7. \A w, bs : Tagged(Loose(w, bs), w)
  <2>1. ASSUME NEW w, NEW bs, NEW b \in Loose(w, bs) PROVE b.o[1] = w
    <3>1. PICK c \in bs : b = Owned(<<w, "block", c.p>>, c)
      BY <2>1 DEF Loose
    <3>2. b.o = <<w, "block", c.p>>
      BY <1>2, <3>1
    <3> QED
      BY <3>2
  <2> QED
    BY <2>1 DEF Tagged
<1> QED
  BY <1>4, <1>5, <1>6, <1>7

\* A part keeps what it is while nothing is written in its blocks.
LEMMA MapRest ==
  ASSUME NEW mem, NEW next, NEW p, NEW h, MapFine(mem, p, h), NEW F, Agree(mem, next, F), MapPart(mem, p) \subseteq F
  PROVE  MapFine(next, p, h) /\ MapPart(next, p) = MapPart(mem, p)
<1>1. Agree(mem, next, MapPart(mem, p))
  BY DEF Agree
<1> QED
  BY <1>1, MapFrame DEF MapFine, MapPart

\* The vec stays while nothing is written in its blocks.
LEMMA VecRest ==
  ASSUME NEW mem, NEW next, NEW p, NEW h, NEW strings \in BOOLEAN, VecFine(mem, p, h, strings),
         NEW F, Agree(mem, next, F), VecPart(mem, p, strings) \subseteq F
  PROVE  VecFine(next, p, h, strings) /\ VecPart(next, p, strings) = VecPart(mem, p, strings)
<1>1. Agree(mem, next, VecPart(mem, p, strings))
  BY DEF Agree
<1> QED
  BY <1>1, VecFrame DEF VecFine, VecPart

\* The builder stays while nothing is written in its blocks.
LEMMA BufRest ==
  ASSUME NEW mem, NEW next, NEW p, NEW h, BufFine(mem, p, h), NEW F, Agree(mem, next, F), BufPart(mem, p) \subseteq F
  PROVE  BufFine(next, p, h) /\ BufPart(next, p) = BufPart(mem, p)
<1>1. Agree(mem, next, BufPart(mem, p))
  BY DEF Agree
<1> QED
  BY <1>1, BufFrame DEF BufFine, BufPart

\* The string stays while nothing is written in its block.
LEMMA SnapRest ==
  ASSUME NEW mem, NEW next, NEW p, SnapFine(mem, p), NEW F, Agree(mem, next, F), SnapPart(mem, p) \subseteq F
  PROVE  SnapFine(next, p) /\ SnapPart(next, p) = SnapPart(mem, p)
<1>1. Agree(mem, next, SnapPart(mem, p))
  BY DEF Agree
<1> QED
  BY <1>1, SnapFrame DEF SnapFine, SnapPart

\* exit leaves what is held, and memory.
LEMMA ExitKept ==
  ASSUME NEW s, NEW G, Kept(s, G)
  PROVE  Kept(Exit(s), G) /\ Exit(s).mem = s.mem /\ Exit(s).x = s.x /\ Exit(s).dead
  BY ExitStore DEF Kept

\* A block the program asks its allocator for.
LEMMA AllocKept ==
  ASSUME NEW s, NEW G, Kept(s, G), s.x.kind # "none", NEW n \in Nat, NEW al \in Nat,
         AllocatorAlloc(s, n, al).p # 0,
         NEW b, Names(b, AllocatorAlloc(s, n, al).p, n, al, s.x.h)
  PROVE  /\ Kept(AllocatorAlloc(s, n, al).s, G \cup {b}) /\ Like(s, AllocatorAlloc(s, n, al).s)
         /\ AllocatorAlloc(s, n, al).s.mem = s.mem /\ AllocatorAlloc(s, n, al).p \in Nat \ {0}
         /\ \A c \in G : c.p # b.p
<1> DEFINE D == Loose("dropped", s.dropped)
           H == G \cup D
           r == AllocatorAlloc(s, n, al)
<1>1. IsStore(s) /\ Sound(s.heap, s.x, H) /\ G \cap D = {} /\ s.dropped \subseteq BlockSet(s.x.h)
  BY DEF Kept
<1> HIDE DEF H
<1>2. Got(s, r, H, b)
  BY <1>1, AllocSound DEF Names
<1> HIDE DEF r
<1>3. \A c \in H : Apart(c, b)
  BY <1>2 DEF Got
<1>4. \A c \in H \cup {b} : c.p \in Nat /\ c.n \in Nat \ {0}
  BY <1>2 DEF Got, Sound, Homes, Home, Sized
<1>5. \A c \in H : c.p # b.p
  BY <1>3, <1>4 DEF Apart
<1>6. (G \cup {b}) \cap D = {}
  BY <1>1, <1>5 DEF H
<1>7. H \cup {b} = (G \cup {b}) \cup D
  BY DEF H
<1>8. Follows(s, r.s) /\ r.p \in Nat \ {0} /\ Sound(r.s.heap, r.s.x, H \cup {b})
  BY <1>2 DEF Got
<1>9. Loose("dropped", r.s.dropped) = D
  BY <1>8 DEF Follows
<1>10. Kept(r.s, G \cup {b})
  BY <1>1, <1>6, <1>7, <1>8, <1>9 DEF Kept, Follows
<1> QED
  BY <1>5, <1>8, <1>10 DEF Like, Follows, r, H

\* A request that the allocator refuses changes nothing.
LEMMA AllocRefusedKept ==
  ASSUME NEW s, NEW G, Kept(s, G), s.x.kind # "none", NEW n \in Nat, NEW al \in Nat,
         AllocatorAlloc(s, n, al).p = 0
  PROVE  AllocatorAlloc(s, n, al).s = s
  BY AllocRefused DEF Kept

\* A block given back.
LEMMA DeallocKept ==
  ASSUME NEW s, NEW G, Kept(s, G), NEW b \in G, b.a = s.x.h, b.a # 0
  PROVE  /\ Kept(AllocatorDealloc(s, b.p), G \ {b}) /\ Like(s, AllocatorDealloc(s, b.p))
         /\ AllocatorDealloc(s, b.p).mem = s.mem
<1> DEFINE D == Loose("dropped", s.dropped)
           t == AllocatorDealloc(s, b.p)
<1>1. IsStore(s) /\ Sound(s.heap, s.x, G \cup D) /\ G \cap D = {} /\ s.dropped \subseteq BlockSet(s.x.h)
  BY DEF Kept
<1> HIDE DEF D
<1>2. Follows(s, t) /\ Sound(t.heap, t.x, (G \cup D) \ {b})
  BY <1>1, DeallocSound
<1> HIDE DEF t
<1>3. (G \cup D) \ {b} = (G \ {b}) \cup D
  BY <1>1
<1>4. Loose("dropped", t.dropped) = D
  BY <1>2 DEF Follows, D
<1> QED
  BY <1>1, <1>2, <1>3, <1>4 DEF Kept, Like, Follows, t

\* free of a string that lies on the process heap.
LEMMA FreeKept ==
  ASSUME NEW s, NEW G, Kept(s, G), NEW b \in G, b.a = 0
  PROVE  /\ Kept(Release(Forget(s, {b.p}), {b.p}), G \ {b}) /\ Like(s, Release(Forget(s, {b.p}), {b.p}))
         /\ Agree(s.mem, Release(Forget(s, {b.p}), {b.p}).mem, G \ {b})
<1> DEFINE D == Loose("dropped", s.dropped)
           p == b.p
           f == Forget(s, {p})
           t == Release(f, {p})
<1>1. IsStore(s) /\ Sound(s.heap, s.x, G \cup D) /\ G \cap D = {} /\ s.dropped \subseteq BlockSet(s.x.h)
  BY DEF Kept
<1>2. OnlyMem(s, f) /\ f.mem = Without(s.mem, p)
  BY <1>1, ForgetStore
<1> HIDE DEF D, f
<1>3. OnlyHeap(f, t) /\ t.heap = {g \in f.heap : g.p # b.p}
  BY <1>2, ReleaseFields DEF OnlyMem
<1> HIDE DEF t
<1>4. OnHeap(s.x, b)
  BY DEF OnHeap
<1>5. t.heap = {g \in s.heap : g.p # b.p} /\ t.x = s.x
  BY <1>2, <1>3 DEF OnlyMem, OnlyHeap
<1>6. Sound(t.heap, s.x, (G \cup D) \ {b})
  BY <1>1, <1>4, <1>5, GiveBackHeap
<1>7. (G \cup D) \ {b} = (G \ {b}) \cup D
  BY <1>1
<1>8. IsStore(t) /\ t.dropped = s.dropped /\ t.dead = s.dead /\ t.mem = Without(s.mem, p)
  BY <1>2, <1>3 DEF OnlyMem, OnlyHeap
<1>9. Kept(t, G \ {b}) /\ Like(s, t)
  BY <1>1, <1>5, <1>6, <1>7, <1>8 DEF Kept, Like, D
<1>10. \A c \in G \ {b} : c.p # p
  BY KeptApart
<1>11. Agree(s.mem, t.mem, G \ {b})
  BY <1>8, <1>10 DEF Agree, Without
<1> QED
  BY <1>9, <1>11 DEF t, f

RawSet(h) == [p : Nat, n : Nat, al : Nat, a : {h}]
Rest(mem, m, v, b, n, rw, st) ==
  MapPart(mem, m) \cup VecPart(mem, v, st) \cup BufPart(mem, b) \cup SnapPart(mem, n) \cup Loose("raw", rw)

\* The inductive invariant, of a store and the addresses of the containers.
Fine(s, m, v, b, n, rw, st) ==
  /\ Kept(s, Rest(s.mem, m, v, b, n, rw, st))
  /\ MapFine(s.mem, m, s.x.h) /\ VecFine(s.mem, v, s.x.h, st) /\ BufFine(s.mem, b, s.x.h) /\ SnapFine(s.mem, n)
  /\ rw \subseteq RawSet(s.x.h) /\ (s.x.kind = "none" => rw = {})
IInv == Fine(store, map, vec, buf, snap, raw, Strings)

\* A part has no block in common with the others.
LEMMA PartsApart ==
  ASSUME NEW mem, NEW m, NEW v, NEW b, NEW n, NEW rw, NEW st
  PROVE  /\ MapPart(mem, m) \cap Rest(mem, 0, v, b, n, rw, st) = {}
         /\ VecPart(mem, v, st) \cap Rest(mem, m, 0, b, n, rw, st) = {}
         /\ BufPart(mem, b) \cap Rest(mem, m, v, 0, n, rw, st) = {}
         /\ SnapPart(mem, n) \cap Rest(mem, m, v, b, 0, rw, st) = {}
         /\ Loose("raw", rw) \cap Rest(mem, m, v, b, n, {}, st) = {}
<1> DEFINE M == MapPart(mem, m)
           V == VecPart(mem, v, st)
           B == BufPart(mem, b)
           N == SnapPart(mem, n)
           R == Loose("raw", rw)
<1>1. Tagged(M, "map") /\ Tagged(V, "vec") /\ Tagged(B, "buf") /\ Tagged(N, "snap") /\ Tagged(R, "raw")
  BY Tags
<1>2. /\ Rest(mem, 0, v, b, n, rw, st) = V \cup B \cup N \cup R
      /\ Rest(mem, m, 0, b, n, rw, st) = M \cup B \cup N \cup R
      /\ Rest(mem, m, v, 0, n, rw, st) = M \cup V \cup N \cup R
      /\ Rest(mem, m, v, b, 0, rw, st) = M \cup V \cup B \cup R
      /\ Rest(mem, m, v, b, n, {}, st) = M \cup V \cup B \cup N
  BY DEF Rest, MapPart, VecPart, BufPart, SnapPart, Loose
<1> HIDE DEF M, V, B, N, R
<1>3. M \cap V = {} /\ M \cap B = {} /\ M \cap N = {} /\ M \cap R = {} /\ V \cap B = {} /\ V \cap N = {}
      /\ V \cap R = {} /\ B \cap N = {} /\ B \cap R = {} /\ N \cap R = {}
  BY <1>1 DEF Tagged
<1> QED
  BY <1>2, <1>3 DEF M, V, B, N, R

\* What is held is a part and the others.
LEMMA RestParts ==
  ASSUME NEW mem, NEW m, NEW v, NEW b, NEW n, NEW rw, NEW st
  PROVE  /\ Rest(mem, m, v, b, n, rw, st) = MapPart(mem, m) \cup Rest(mem, 0, v, b, n, rw, st)
         /\ Rest(mem, m, v, b, n, rw, st) = VecPart(mem, v, st) \cup Rest(mem, m, 0, b, n, rw, st)
         /\ Rest(mem, m, v, b, n, rw, st) = BufPart(mem, b) \cup Rest(mem, m, v, 0, n, rw, st)
         /\ Rest(mem, m, v, b, n, rw, st) = SnapPart(mem, n) \cup Rest(mem, m, v, b, 0, rw, st)
         /\ Rest(mem, m, v, b, n, rw, st) = Loose("raw", rw) \cup Rest(mem, m, v, b, n, {}, st)
<1>1. Loose("raw", {}) = {} /\ MapPart(mem, 0) = {} /\ VecPart(mem, 0, st) = {} /\ BufPart(mem, 0) = {} /\ SnapPart(mem, 0) = {}
  BY DEF Loose, MapPart, VecPart, BufPart, SnapPart
<1> QED
  BY <1>1 DEF Rest

\* What is beside the container an operation works on stays as it is.
LEMMA RestSame ==
  ASSUME NEW mem, NEW next, NEW m, NEW v, NEW b, NEW n, NEW rw, NEW st \in BOOLEAN, NEW h,
         MapFine(mem, m, h), VecFine(mem, v, h, st), BufFine(mem, b, h), SnapFine(mem, n),
         NEW F, F = Rest(mem, m, v, b, n, rw, st), Agree(mem, next, F)
  PROVE  /\ Rest(next, m, v, b, n, rw, st) = F
         /\ MapFine(next, m, h) /\ VecFine(next, v, h, st) /\ BufFine(next, b, h) /\ SnapFine(next, n)
<1>1. /\ MapPart(mem, m) \subseteq F /\ VecPart(mem, v, st) \subseteq F
      /\ BufPart(mem, b) \subseteq F /\ SnapPart(mem, n) \subseteq F
  BY DEF Rest
<1>2. MapFine(next, m, h) /\ MapPart(next, m) = MapPart(mem, m)
  BY <1>1, MapRest
<1>3. VecFine(next, v, h, st) /\ VecPart(next, v, st) = VecPart(mem, v, st)
  BY <1>1, VecRest
<1>4. BufFine(next, b, h) /\ BufPart(next, b) = BufPart(mem, b)
  BY <1>1, BufRest
<1>5. SnapFine(next, n) /\ SnapPart(next, n) = SnapPart(mem, n)
  BY <1>1, SnapRest
<1> QED
  BY <1>2, <1>3, <1>4, <1>5 DEF Rest

\* A container that is not there is well formed.
LEMMA NoneFine ==
  ASSUME NEW mem, NEW h, NEW st
  PROVE  MapFine(mem, 0, h) /\ VecFine(mem, 0, h, st) /\ BufFine(mem, 0, h) /\ SnapFine(mem, 0)
  BY DEF MapFine, VecFine, BufFine, SnapFine

\* An operation on the map, on the vec, on the builder.
LEMMA MapFineAfter ==
  ASSUME NEW s, NEW m, NEW v, NEW b, NEW n, NEW rw, NEW st \in BOOLEAN, Fine(s, m, v, b, n, rw, st),
         NEW F, F = Rest(s.mem, 0, v, b, n, rw, st),
         NEW t, NEW k \in Nat \ {0}, MapStep(s, t, k, F)
  PROVE  Fine(t, k, v, b, n, rw, st)
<1>1. Like(s, t) /\ Agree(s.mem, t.mem, F) /\ MapIn(t, k, F)
  BY DEF MapStep
<1>2. /\ Rest(t.mem, 0, v, b, n, rw, st) = F
      /\ VecFine(t.mem, v, s.x.h, st) /\ BufFine(t.mem, b, s.x.h) /\ SnapFine(t.mem, n)
  BY <1>1, NoneFine, RestSame DEF Fine
<1>3. Rest(t.mem, k, v, b, n, rw, st) = MapBlocks(t.mem, k) \cup F
  BY <1>2, RestParts DEF MapPart
<1>4. Kept(t, MapBlocks(t.mem, k) \cup F) /\ MapFine(t.mem, k, t.x.h)
  BY <1>1 DEF MapIn, MapFine
<1>5. t.x.h = s.x.h /\ t.x.kind = s.x.kind
  BY <1>1 DEF Like
<1> QED
  BY <1>2, <1>3, <1>4, <1>5 DEF Fine

\* After an operation on the vec the invariant holds.
LEMMA VecFineAfter ==
  ASSUME NEW s, NEW m, NEW v, NEW b, NEW n, NEW rw, NEW st \in BOOLEAN, Fine(s, m, v, b, n, rw, st),
         NEW F, F = Rest(s.mem, m, 0, b, n, rw, st),
         NEW t, NEW k \in Nat \ {0}, VecStep(s, t, k, F, st)
  PROVE  Fine(t, m, k, b, n, rw, st)
<1>1. Like(s, t) /\ Agree(s.mem, t.mem, F) /\ VecIn(t, k, F, st)
  BY DEF VecStep
<1>2. /\ Rest(t.mem, m, 0, b, n, rw, st) = F
      /\ MapFine(t.mem, m, s.x.h) /\ BufFine(t.mem, b, s.x.h) /\ SnapFine(t.mem, n)
  BY <1>1, NoneFine, RestSame DEF Fine
<1>3. Rest(t.mem, m, k, b, n, rw, st) = VecBlocks(t.mem, k, st) \cup F
  BY <1>2, RestParts DEF VecPart
<1>4. Kept(t, VecBlocks(t.mem, k, st) \cup F) /\ VecFine(t.mem, k, t.x.h, st)
  BY <1>1 DEF VecIn, VecFine
<1>5. t.x.h = s.x.h /\ t.x.kind = s.x.kind
  BY <1>1 DEF Like
<1> QED
  BY <1>2, <1>3, <1>4, <1>5 DEF Fine

\* After an operation on the builder the invariant holds.
LEMMA BufFineAfter ==
  ASSUME NEW s, NEW m, NEW v, NEW b, NEW n, NEW rw, NEW st \in BOOLEAN, Fine(s, m, v, b, n, rw, st),
         NEW F, F = Rest(s.mem, m, v, 0, n, rw, st),
         NEW t, NEW k \in Nat \ {0}, BufStep(s, t, k, F)
  PROVE  Fine(t, m, v, k, n, rw, st)
<1>1. Like(s, t) /\ Agree(s.mem, t.mem, F) /\ BufIn(t, k, F)
  BY DEF BufStep
<1>2. /\ Rest(t.mem, m, v, 0, n, rw, st) = F
      /\ MapFine(t.mem, m, s.x.h) /\ VecFine(t.mem, v, s.x.h, st) /\ SnapFine(t.mem, n)
  BY <1>1, NoneFine, RestSame DEF Fine
<1>3. Rest(t.mem, m, v, k, n, rw, st) = BufBlocks(t.mem, k) \cup F
  BY <1>2, RestParts DEF BufPart
<1>4. Kept(t, BufBlocks(t.mem, k) \cup F) /\ BufFine(t.mem, k, t.x.h)
  BY <1>1 DEF BufIn, BufFine
<1>5. t.x.h = s.x.h /\ t.x.kind = s.x.kind
  BY <1>1 DEF Like
<1> QED
  BY <1>2, <1>3, <1>4, <1>5 DEF Fine

\* The process ends: nothing is written.
LEMMA FineExit ==
  ASSUME NEW s, NEW m, NEW v, NEW b, NEW n, NEW rw, NEW st, Fine(s, m, v, b, n, rw, st)
  PROVE  Fine(Exit(s), m, v, b, n, rw, st)
<1>1. Kept(Exit(s), Rest(s.mem, m, v, b, n, rw, st)) /\ Exit(s).mem = s.mem /\ Exit(s).x = s.x
  BY ExitKept DEF Fine
<1> QED
  BY <1>1 DEF Fine

\* The containers in their places.
LEMMA FineParts ==
  ASSUME NEW s, NEW m, NEW v, NEW b, NEW n, NEW rw, NEW st, Fine(s, m, v, b, n, rw, st)
  PROVE  /\ m = 0 => Kept(s, Rest(s.mem, 0, v, b, n, rw, st))
         /\ m # 0 => MapIn(s, m, Rest(s.mem, 0, v, b, n, rw, st)) /\ m \in Nat \ {0}
         /\ v = 0 => Kept(s, Rest(s.mem, m, 0, b, n, rw, st))
         /\ v # 0 => VecIn(s, v, Rest(s.mem, m, 0, b, n, rw, st), st) /\ v \in Nat \ {0}
         /\ b = 0 => Kept(s, Rest(s.mem, m, v, 0, n, rw, st))
         /\ b # 0 => BufIn(s, b, Rest(s.mem, m, v, 0, n, rw, st)) /\ b \in Nat \ {0}
<1> DEFINE R == Rest(s.mem, m, v, b, n, rw, st)
<1>1. Kept(s, R) /\ MapFine(s.mem, m, s.x.h) /\ VecFine(s.mem, v, s.x.h, st) /\ BufFine(s.mem, b, s.x.h)
  BY DEF Fine
<1>2. ASSUME m # 0 PROVE MapIn(s, m, Rest(s.mem, 0, v, b, n, rw, st)) /\ m \in Nat \ {0}
  <2>1. MapPart(s.mem, m) = MapBlocks(s.mem, m)
    BY <1>2 DEF MapPart
  <2>2. R = MapBlocks(s.mem, m) \cup Rest(s.mem, 0, v, b, n, rw, st)
        /\ MapBlocks(s.mem, m) \cap Rest(s.mem, 0, v, b, n, rw, st) = {}
    BY <2>1, RestParts, PartsApart
  <2> QED
    BY <1>1, <1>2, <2>2 DEF MapIn, MapFine
<1>3. ASSUME v # 0 PROVE VecIn(s, v, Rest(s.mem, m, 0, b, n, rw, st), st) /\ v \in Nat \ {0}
  <2>1. VecPart(s.mem, v, st) = VecBlocks(s.mem, v, st)
    BY <1>3 DEF VecPart
  <2>2. R = VecBlocks(s.mem, v, st) \cup Rest(s.mem, m, 0, b, n, rw, st)
        /\ VecBlocks(s.mem, v, st) \cap Rest(s.mem, m, 0, b, n, rw, st) = {}
    BY <2>1, RestParts, PartsApart
  <2> QED
    BY <1>1, <1>3, <2>2 DEF VecIn, VecFine
<1>4. ASSUME b # 0 PROVE BufIn(s, b, Rest(s.mem, m, v, 0, n, rw, st)) /\ b \in Nat \ {0}
  <2>1. BufPart(s.mem, b) = BufBlocks(s.mem, b)
    BY <1>4 DEF BufPart
  <2>2. R = BufBlocks(s.mem, b) \cup Rest(s.mem, m, v, 0, n, rw, st)
        /\ BufBlocks(s.mem, b) \cap Rest(s.mem, m, v, 0, n, rw, st) = {}
    BY <2>1, RestParts, PartsApart
  <2> QED
    BY <1>1, <1>4, <2>2 DEF BufIn, BufFine
<1> QED
  BY <1>1, <1>2, <1>3, <1>4

\* A string made from the builder, and one given back.
LEMMA FineMade ==
  ASSUME NEW s, NEW m, NEW v, NEW b, NEW rw, NEW st \in BOOLEAN, Fine(s, m, v, b, 0, rw, st),
         NEW r, StringMade(s, r, Rest(s.mem, m, v, b, 0, rw, st))
  PROVE  Fine(r.s, m, v, b, r.p, rw, st)
<1> DEFINE F == Rest(s.mem, m, v, b, 0, rw, st)
           t == r.s
           n == r.p
<1>1. /\ n \in Nat \ {0} /\ Like(s, t) /\ Agree(s.mem, t.mem, F)
      /\ SnapOK(t.mem, n) /\ Kept(t, F \cup SnapBlocks(t.mem, n))
  BY DEF StringMade
<1>2. /\ Rest(t.mem, m, v, b, 0, rw, st) = F
      /\ MapFine(t.mem, m, s.x.h) /\ VecFine(t.mem, v, s.x.h, st) /\ BufFine(t.mem, b, s.x.h)
  BY <1>1, RestSame DEF Fine
<1>3. Rest(t.mem, m, v, b, n, rw, st) = SnapBlocks(t.mem, n) \cup F
  BY <1>1, <1>2, RestParts DEF SnapPart
<1>4. SnapFine(t.mem, n)
  BY <1>1 DEF SnapFine
<1>5. t.x.h = s.x.h /\ t.x.kind = s.x.kind
  BY <1>1 DEF Like
<1>6. F \cup SnapBlocks(t.mem, n) = SnapBlocks(t.mem, n) \cup F
  OBVIOUS
<1> QED
  BY <1>1, <1>2, <1>3, <1>4, <1>5, <1>6 DEF Fine

\* After the string is freed the invariant holds, and nothing else was written.
LEMMA FineFreed ==
  ASSUME NEW s, NEW m, NEW v, NEW b, NEW n, NEW rw, NEW st \in BOOLEAN, Fine(s, m, v, b, n, rw, st), n # 0,
         NEW t, t = Release(Forget(s, {n}), {n})
  PROVE  Fine(t, m, v, b, 0, rw, st) /\ Agree(s.mem, t.mem, Rest(s.mem, m, v, b, 0, rw, st))
<1> DEFINE F == Rest(s.mem, m, v, b, 0, rw, st)
           c == SnapText(n, s.mem[n].n)
<1>1. SnapPart(s.mem, n) = {c} /\ c.a = 0 /\ c.p = n
  BY DEF SnapPart, SnapBlocks, SnapText, Owned, Block
<1> HIDE DEF c
<1>2. Rest(s.mem, m, v, b, n, rw, st) = {c} \cup F /\ {c} \cap F = {}
  <2>1. Rest(s.mem, m, v, b, n, rw, st) = SnapPart(s.mem, n) \cup F
    BY RestParts
  <2>2. SnapPart(s.mem, n) \cap F = {}
    BY PartsApart
  <2> QED
    BY <1>1, <2>1, <2>2
<1> HIDE DEF F
<1>3. Kept(s, {c} \cup F) /\ ({c} \cup F) \ {c} = F /\ c \in {c} \cup F
  BY <1>2 DEF Fine
<1>4. Kept(t, F) /\ Like(s, t) /\ Agree(s.mem, t.mem, F)
  <2>1. t = Release(Forget(s, {c.p}), {c.p})
    BY <1>1
  <2> QED
    BY <1>1, <1>3, <2>1, FreeKept
<1>5. /\ Rest(t.mem, m, v, b, 0, rw, st) = F /\ SnapFine(t.mem, 0)
      /\ MapFine(t.mem, m, s.x.h) /\ VecFine(t.mem, v, s.x.h, st) /\ BufFine(t.mem, b, s.x.h)
  BY <1>4, NoneFine, RestSame DEF Fine, F
<1>6. t.x.h = s.x.h /\ t.x.kind = s.x.kind
  BY <1>4 DEF Like
<1> QED
  BY <1>4, <1>5, <1>6 DEF Fine, F

\* A raw block goes by one name.
RawName(c) == Owned(<<"raw", "block", c.p>>, c)

\* The names of raw blocks are as different as the blocks.
LEMMA RawNames ==
  ASSUME NEW h, NEW rw, rw \subseteq RawSet(h)
  PROVE  /\ Loose("raw", rw) = {RawName(c) : c \in rw}
         /\ \A c \in rw, d \in rw : RawName(c) = RawName(d) => c = d
         /\ \A c : RawName(c).p = c.p /\ RawName(c).a = c.a /\ RawName(c).n = c.n /\ RawName(c).al = c.al
<1>1. \A c : RawName(c).p = c.p /\ RawName(c).a = c.a /\ RawName(c).n = c.n /\ RawName(c).al = c.al
  BY DEF RawName, Owned
<1>2. \A c \in rw : c = [p |-> c.p, n |-> c.n, al |-> c.al, a |-> c.a]
  BY DEF RawSet
<1>3. ASSUME NEW c \in rw, NEW d \in rw, RawName(c) = RawName(d) PROVE c = d
  <2>1. c.p = d.p /\ c.n = d.n /\ c.al = d.al /\ c.a = d.a
    BY <1>1, <1>3
  <2> QED
    BY <1>2, <2>1
<1> QED
  BY <1>1, <1>3 DEF Loose, RawName

\* Memory is as it was, and so are the containers.
LEMMA FineStill ==
  ASSUME NEW s, NEW m, NEW v, NEW b, NEW n, NEW rw, NEW st, Fine(s, m, v, b, n, rw, st),
         NEW t, Like(s, t), t.mem = s.mem, NEW rw2, rw2 \subseteq RawSet(s.x.h), s.x.kind = "none" => rw2 = {},
         Kept(t, Loose("raw", rw2) \cup Rest(s.mem, m, v, b, n, {}, st))
  PROVE  Fine(t, m, v, b, n, rw2, st)
<1>1. Rest(t.mem, m, v, b, n, rw2, st) = Loose("raw", rw2) \cup Rest(s.mem, m, v, b, n, {}, st)
  BY RestParts
<1>2. t.x.h = s.x.h /\ t.x.kind = s.x.kind
  BY DEF Like
<1> QED
  BY <1>1, <1>2 DEF Fine

\* After the program took a block from its allocator the invariant holds.
LEMMA FineAlloc ==
  ASSUME NEW s, NEW m, NEW v, NEW b, NEW n, NEW rw, NEW st, Fine(s, m, v, b, n, rw, st),
         s.x.kind # "none", NEW size \in Nat, NEW al \in Nat, AllocatorAlloc(s, size, al).p # 0
  PROVE  /\ Fine(AllocatorAlloc(s, size, al).s, m, v, b, n,
                 rw \cup {Block(AllocatorAlloc(s, size, al).p, size, al, s.x.h)}, st)
         /\ AllocatorAlloc(s, size, al).s.mem = s.mem
<1> DEFINE r == AllocatorAlloc(s, size, al)
           c == Block(r.p, size, al, s.x.h)
           F == Rest(s.mem, m, v, b, n, {}, st)
           G == Rest(s.mem, m, v, b, n, rw, st)
<1>1. Kept(s, G) /\ rw \subseteq RawSet(s.x.h)
  BY DEF Fine
<1>2. Names(RawName(c), r.p, size, al, s.x.h)
  BY DEF RawName, Owned, Block, Names
<1> HIDE DEF G
<1>3. Kept(r.s, G \cup {RawName(c)}) /\ Like(s, r.s) /\ r.s.mem = s.mem /\ r.p \in Nat \ {0}
  <2> DEFINE e == RawName(c)
  <2>1. Kept(s, G) /\ s.x.kind # "none" /\ Names(e, r.p, size, al, s.x.h) /\ r.p # 0
    BY <1>1, <1>2
  <2> HIDE DEF e, c
  <2>2. Kept(r.s, G \cup {e}) /\ Like(s, r.s)
    BY <2>1, AllocKept
  <2>3. r.s.mem = s.mem
    BY <2>1, AllocKept
  <2>4. r.p \in Nat \ {0}
    BY <2>1, AllocKept
  <2> QED
    BY <2>2, <2>3, <2>4 DEF e
<1>4. s.x.h \in Nat
  BY <1>1, OwnNumbers DEF Kept, Sound
<1> HIDE DEF r
<1>5. c \in RawSet(s.x.h)
  BY <1>3, <1>4 DEF Block, RawSet
<1> HIDE DEF c
<1>6. rw \cup {c} \subseteq RawSet(s.x.h)
  BY <1>1, <1>5
<1>7. Loose("raw", rw \cup {c}) \cup F = G \cup {RawName(c)}
  <2>1. Loose("raw", rw \cup {c}) = Loose("raw", rw) \cup {RawName(c)}
    BY DEF Loose, RawName
  <2>2. G = Loose("raw", rw) \cup F
    BY RestParts DEF G
  <2> QED
    BY <2>1, <2>2
<1>8. Fine(r.s, m, v, b, n, rw \cup {c}, st)
  BY <1>3, <1>6, <1>7, FineStill
<1> QED
  BY <1>3, <1>8 DEF r, c

\* After the program gave a block back the invariant holds.
LEMMA FineDealloc ==
  ASSUME NEW s, NEW m, NEW v, NEW b, NEW n, NEW rw, NEW st, Fine(s, m, v, b, n, rw, st), NEW c \in rw
  PROVE  /\ Fine(AllocatorDealloc(s, c.p), m, v, b, n, rw \ {c}, st)
         /\ AllocatorDealloc(s, c.p).mem = s.mem
<1> DEFINE t == AllocatorDealloc(s, c.p)
           F == Rest(s.mem, m, v, b, n, {}, st)
           G == Rest(s.mem, m, v, b, n, rw, st)
           R == Loose("raw", rw)
           d == RawName(c)
<1>1. Kept(s, G) /\ rw \subseteq RawSet(s.x.h) /\ s.x.kind # "none"
  BY DEF Fine
<1>2. G = R \cup F /\ R \cap F = {}
  BY RestParts, PartsApart
<1>3. c.a = s.x.h
  BY <1>1 DEF RawSet
<1>4. s.x.h # 0
  BY <1>1, OwnNumbers DEF Kept, Sound
<1>5. d \in R /\ d.p = c.p /\ d.a = s.x.h
  BY <1>1, <1>3, RawNames
<1> HIDE DEF F, d
<1>6. Loose("raw", rw \ {c}) = R \ {d}
  <2>1. R = {RawName(e) : e \in rw} /\ Loose("raw", rw \ {c}) = {RawName(e) : e \in rw \ {c}}
    BY DEF Loose, RawName
  <2>2. \A e \in rw : RawName(e) = d => e = c
    BY <1>1, RawNames DEF d
  <2> QED
    BY <2>1, <2>2 DEF d
<1> HIDE DEF R, G
<1>7. Kept(t, G \ {d}) /\ Like(s, t) /\ t.mem = s.mem
  <2>1. d \in G /\ d.a = s.x.h /\ d.a # 0
    BY <1>2, <1>4, <1>5
  <2> HIDE DEF t
  <2>2. AllocatorDealloc(s, d.p) = t
    BY <1>5 DEF t
  <2> QED
    BY <1>1, <2>1, <2>2, DeallocKept
<1> HIDE DEF t
<1>8. G \ {d} = Loose("raw", rw \ {c}) \cup F
  BY <1>2, <1>5, <1>6
<1>9. rw \ {c} \subseteq RawSet(s.x.h)
  BY <1>1
<1>10. Fine(t, m, v, b, n, rw \ {c}, st)
  BY <1>1, <1>7, <1>8, <1>9, FineStill DEF F
<1> QED
  BY <1>7, <1>10 DEF t

\* A store of which nothing is held.
LEMMA FineNone ==
  ASSUME NEW s, Kept(s, {}), NEW st
  PROVE  Fine(s, 0, 0, 0, 0, {}, st)
<1>1. Rest(s.mem, 0, 0, 0, 0, {}, st) = {}
  BY DEF Rest, MapPart, VecPart, BufPart, SnapPart, Loose
<1> QED
  BY <1>1, NoneFine DEF Fine

\* While the heap is empty nothing is held.
LEMMA FineNothing ==
  ASSUME NEW s, NEW m, NEW v, NEW b, NEW n, NEW rw, NEW st, Fine(s, m, v, b, n, rw, st),
         s.x.kind = "none", s.heap = {}
  PROVE  m = 0 /\ v = 0 /\ b = 0 /\ n = 0 /\ rw = {} /\ s.dropped = {} /\ IsStore(s)
<1> DEFINE G == Rest(s.mem, m, v, b, n, rw, st)
           D == Loose("dropped", s.dropped)
<1>1. Kept(s, G) /\ rw = {}
  BY DEF Fine
<1>2. G \cup D = {}
  BY <1>1, NothingHeld DEF Kept
<1>3. MapPart(s.mem, m) = {} /\ VecPart(s.mem, v, st) = {} /\ BufPart(s.mem, b) = {} /\ SnapPart(s.mem, n) = {}
  BY <1>2 DEF Rest
<1>4. m = 0 /\ v = 0 /\ b = 0 /\ n = 0
  BY <1>3 DEF MapPart, VecPart, BufPart, SnapPart, MapBlocks, VecBlocks, BufBlocks, SnapBlocks
<1>5. s.dropped = {}
  BY <1>2 DEF Loose
<1> QED
  BY <1>1, <1>4, <1>5 DEF Kept

\* What lies in no allocator, and what the end of one leaves of a container.
Outside(B) == {b \in B : b.a = 0}
Left(mem, p) == IF p # 0 /\ mem[p].a # 0 THEN 0 ELSE p

\* All the blocks of a container come from one allocator.
LEMMA OneAllocator ==
  ASSUME NEW mem, NEW p
  PROVE  /\ \A b \in MapBlocks(mem, p) : b.a = mem[p].a
         /\ \A st : \A b \in VecBlocks(mem, p, st) : b.a = mem[p].a
         /\ \A b \in BufBlocks(mem, p) : b.a = mem[p].a
         /\ \A b \in SnapBlocks(mem, p) : b.a = 0
<1>1. \A o, q, n, al, a : Owned(o, Block(q, n, al, a)).a = a
  BY DEF Owned, Block
<1>2. \A ps, w, a : \A b \in Strs(mem, ps, w, a) : b.a = a
  <2>1. ASSUME NEW ps, NEW w, NEW a, NEW b \in Strs(mem, ps, w, a) PROVE b.a = a
    <3>1. PICK i \in 1..Len(ps) : b = Owned(<<w, "string", i>>, StrBlock(mem, ps[i], a))
      BY <2>1 DEF Strs
    <3> QED
      BY <1>1, <3>1 DEF StrBlock
  <2> QED
    BY <2>1
<1>3. \A b \in MapBlocks(mem, p) : b.a = mem[p].a
  BY <1>1, <1>2 DEF MapBlocks, Words
<1>4. \A st : \A b \in VecBlocks(mem, p, st) : b.a = mem[p].a
  BY <1>1, <1>2 DEF VecBlocks, Words
<1>5. \A b \in BufBlocks(mem, p) : b.a = mem[p].a
  BY <1>1 DEF BufBlocks
<1>6. \A b \in SnapBlocks(mem, p) : b.a = 0
  BY <1>1 DEF SnapBlocks
<1> QED
  BY <1>3, <1>4, <1>5, <1>6

\* What the end of an allocator leaves of the map.
LEMMA MapLeft ==
  ASSUME NEW mem, NEW next, NEW p, NEW h, MapFine(mem, p, h), NEW G, MapPart(mem, p) \subseteq G,
         Agree(mem, next, Outside(G)), NEW k
  PROVE  MapFine(next, Left(mem, p), k) /\ MapPart(next, Left(mem, p)) = Outside(MapPart(mem, p))
<1>1. CASE p = 0
  BY <1>1 DEF Left, MapFine, MapPart, Outside
<1>2. CASE p # 0 /\ mem[p].a # 0
  BY <1>2, OneAllocator DEF Left, MapFine, MapPart, Outside
<1>3. CASE p # 0 /\ mem[p].a = 0
  <2>1. MapOK(mem, p, h) /\ MapPart(mem, p) = MapBlocks(mem, p) /\ Left(mem, p) = p
    BY <1>3 DEF MapFine, MapPart, Left
  <2>2. Outside(MapBlocks(mem, p)) = MapBlocks(mem, p) /\ MapBlocks(mem, p) \subseteq Outside(G)
    BY <1>3, <2>1, OneAllocator DEF Outside
  <2>3. Agree(mem, next, MapBlocks(mem, p))
    BY <2>2 DEF Agree
  <2>4. MapOK(next, p, h) /\ MapBlocks(next, p) = MapBlocks(mem, p) /\ next[p] = mem[p]
    BY <2>1, <2>3, MapFrame
  <2>5. MapOK(next, p, k)
    BY <1>3, <2>4 DEF MapOK
  <2> QED
    BY <1>3, <2>1, <2>2, <2>4, <2>5 DEF MapFine, MapPart
<1> QED
  BY <1>1, <1>2, <1>3

\* What the end of an allocator leaves of the vec.
LEMMA VecLeft ==
  ASSUME NEW mem, NEW next, NEW p, NEW h, NEW st \in BOOLEAN, VecFine(mem, p, h, st),
         NEW G, VecPart(mem, p, st) \subseteq G, Agree(mem, next, Outside(G)), NEW k
  PROVE  VecFine(next, Left(mem, p), k, st) /\ VecPart(next, Left(mem, p), st) = Outside(VecPart(mem, p, st))
<1>1. CASE p = 0
  BY <1>1 DEF Left, VecFine, VecPart, Outside
<1>2. CASE p # 0 /\ mem[p].a # 0
  BY <1>2, OneAllocator DEF Left, VecFine, VecPart, Outside
<1>3. CASE p # 0 /\ mem[p].a = 0
  <2>1. VecOK(mem, p, h, st) /\ VecPart(mem, p, st) = VecBlocks(mem, p, st) /\ Left(mem, p) = p
    BY <1>3 DEF VecFine, VecPart, Left
  <2>2. Outside(VecBlocks(mem, p, st)) = VecBlocks(mem, p, st) /\ VecBlocks(mem, p, st) \subseteq Outside(G)
    BY <1>3, <2>1, OneAllocator DEF Outside
  <2>3. Agree(mem, next, VecBlocks(mem, p, st))
    BY <2>2 DEF Agree
  <2>4. VecOK(next, p, h, st) /\ VecBlocks(next, p, st) = VecBlocks(mem, p, st) /\ next[p] = mem[p]
    BY <2>1, <2>3, VecFrame
  <2>5. VecOK(next, p, k, st)
    BY <1>3, <2>4 DEF VecOK
  <2> QED
    BY <1>3, <2>1, <2>2, <2>4, <2>5 DEF VecFine, VecPart
<1> QED
  BY <1>1, <1>2, <1>3

\* What the end of an allocator leaves of the builder.
LEMMA BufLeft ==
  ASSUME NEW mem, NEW next, NEW p, NEW h, BufFine(mem, p, h), NEW G, BufPart(mem, p) \subseteq G,
         Agree(mem, next, Outside(G)), NEW k
  PROVE  BufFine(next, Left(mem, p), k) /\ BufPart(next, Left(mem, p)) = Outside(BufPart(mem, p))
<1>1. CASE p = 0
  BY <1>1 DEF Left, BufFine, BufPart, Outside
<1>2. CASE p # 0 /\ mem[p].a # 0
  BY <1>2, OneAllocator DEF Left, BufFine, BufPart, Outside
<1>3. CASE p # 0 /\ mem[p].a = 0
  <2>1. BufOK(mem, p, h) /\ BufPart(mem, p) = BufBlocks(mem, p) /\ Left(mem, p) = p
    BY <1>3 DEF BufFine, BufPart, Left
  <2>2. Outside(BufBlocks(mem, p)) = BufBlocks(mem, p) /\ BufBlocks(mem, p) \subseteq Outside(G)
    BY <1>3, <2>1, OneAllocator DEF Outside
  <2>3. Agree(mem, next, BufBlocks(mem, p))
    BY <2>2 DEF Agree
  <2>4. BufOK(next, p, h) /\ BufBlocks(next, p) = BufBlocks(mem, p)
    BY <2>1, <2>3, BufFrame
  <2>5. next[p] = mem[p]
    <3> DEFINE c == Owned(<<"buf", "header", 0>>, Block(p, BufBytes, MaxAlign, mem[p].a))
    <3>1. c \in BufBlocks(mem, p) /\ c.p = p
      BY DEF BufBlocks, Owned, Block
    <3>2. p \in DOMAIN mem
      BY <2>1 DEF BufOK
    <3> HIDE DEF c
    <3> QED
      BY <2>3, <3>1, <3>2, AgreeAt
  <2>6. BufOK(next, p, k)
    BY <1>3, <2>4, <2>5 DEF BufOK
  <2> QED
    BY <1>3, <2>1, <2>2, <2>4, <2>6 DEF BufFine, BufPart
<1> QED
  BY <1>1, <1>2, <1>3

\* A block outside the allocator is not in its buffer.
LEMMA OutsideBuffer ==
  ASSUME NEW heap, NEW x, NEW H, Sound(heap, x, H), x.kind \in {"arena", "pool"}, NEW b \in H, b.a = 0
  PROVE  ~InAllocator(x, b.p)
<1>1. HeapOK(heap) /\ AllocatorOK(heap, x) /\ Home(heap, x, b)
  BY DEF Sound, Homes
<1>2. OnHeap(x, b)
  BY DEF OnHeap
<1>3. PICK g \in heap : Inside(b, g) /\ g \notin OwnBlocks(x)
  BY <1>1, <1>2, HomeInHeap
<1> DEFINE o == [p |-> x.buf, n |-> Extent(x)]
<1>4. o \in heap /\ o \in OwnBlocks(x)
  BY <1>1, OwnBuffer
<1>5. o.p = x.buf /\ o.n = Extent(x)
  OBVIOUS
<1> HIDE DEF o
<1>6. Apart(g, o)
  BY <1>1, <1>3, <1>4 DEF HeapOK
<1>7. b.p \in Nat /\ b.n \in Nat \ {0}
  BY <1>1 DEF Home, Sized
<1>8. g.p \in Nat /\ g.n \in Nat /\ o.p \in Nat /\ o.n \in Nat
  BY <1>1, <1>3, <1>4 DEF HeapOK
<1> QED
  BY <1>3, <1>5, <1>6, <1>7, <1>8 DEF Inside, Apart, InAllocator

\* The allocator is emptied: what lies outside it stays.
LEMMA FineEmptied ==
  ASSUME NEW s, NEW m, NEW v, NEW b, NEW n, NEW rw, NEW st \in BOOLEAN, Fine(s, m, v, b, n, rw, st),
         s.x.kind \in {"arena", "pool"}, NEW t, IsStore(t),
         t.mem = [p \in DOMAIN s.mem \ {q \in DOMAIN s.mem : InAllocator(s.x, q)} |-> s.mem[p]],
         t.dropped = {c \in s.dropped : c.a = 0},
         Sound(t.heap, t.x, {c \in Rest(s.mem, m, v, b, n, rw, st) \cup Loose("dropped", s.dropped) : c.a = 0})
  PROVE  /\ Fine(t, Left(s.mem, m), Left(s.mem, v), Left(s.mem, b), n, {}, st)
         /\ Agree(s.mem, t.mem, Outside(Rest(s.mem, m, v, b, n, rw, st)))
<1> DEFINE G == Rest(s.mem, m, v, b, n, rw, st)
           D == Loose("dropped", s.dropped)
<1>1. /\ Sound(s.heap, s.x, G \cup D) /\ G \cap D = {} /\ s.dropped \subseteq BlockSet(s.x.h)
      /\ MapFine(s.mem, m, s.x.h) /\ VecFine(s.mem, v, s.x.h, st) /\ BufFine(s.mem, b, s.x.h)
      /\ SnapFine(s.mem, n) /\ rw \subseteq RawSet(s.x.h)
  BY DEF Fine, Kept
<1>2. s.x.h # 0
  BY <1>1, OwnNumbers DEF Sound
<1>3. /\ MapPart(s.mem, m) \subseteq G /\ VecPart(s.mem, v, st) \subseteq G
      /\ BufPart(s.mem, b) \subseteq G /\ SnapPart(s.mem, n) \subseteq G
  BY DEF Rest
<1>4. Agree(s.mem, t.mem, Outside(G))
  <2> HIDE DEF G, D
  <2>1. ASSUME NEW c \in Outside(G), c.p \in DOMAIN s.mem PROVE c.p \in DOMAIN t.mem /\ t.mem[c.p] = s.mem[c.p]
    <3>1. ~InAllocator(s.x, c.p)
      BY <1>1, <2>1, OutsideBuffer DEF Outside
    <3> QED
      BY <2>1, <3>1
  <2> QED
    BY <2>1 DEF Agree
<1>5. /\ MapFine(t.mem, Left(s.mem, m), t.x.h)
      /\ MapPart(t.mem, Left(s.mem, m)) = Outside(MapPart(s.mem, m))
  <2> HIDE DEF G
  <2> QED
    BY <1>1, <1>3, <1>4, MapLeft
<1>6. /\ VecFine(t.mem, Left(s.mem, v), t.x.h, st)
      /\ VecPart(t.mem, Left(s.mem, v), st) = Outside(VecPart(s.mem, v, st))
  <2> HIDE DEF G
  <2> QED
    BY <1>1, <1>3, <1>4, VecLeft
<1>7. /\ BufFine(t.mem, Left(s.mem, b), t.x.h)
      /\ BufPart(t.mem, Left(s.mem, b)) = Outside(BufPart(s.mem, b))
  <2> HIDE DEF G
  <2> QED
    BY <1>1, <1>3, <1>4, BufLeft
<1>8. Outside(SnapPart(s.mem, n)) = SnapPart(s.mem, n)
  BY OneAllocator DEF Outside, SnapPart
<1>9. SnapFine(t.mem, n) /\ SnapPart(t.mem, n) = SnapPart(s.mem, n)
  <2>1. SnapPart(s.mem, n) \subseteq Outside(G)
    BY <1>3, <1>8 DEF Outside
  <2> HIDE DEF G
  <2> QED
    BY <1>1, <1>4, <2>1, SnapRest
<1>10. Outside(Loose("raw", rw)) = {}
  <2>1. \A c \in rw : RawName(c).a = s.x.h
    BY <1>1, RawNames DEF RawSet
  <2>2. Loose("raw", rw) = {RawName(c) : c \in rw}
    BY <1>1, RawNames
  <2> QED
    BY <1>2, <2>1, <2>2 DEF Outside
<1>11. Rest(t.mem, Left(s.mem, m), Left(s.mem, v), Left(s.mem, b), n, {}, st) = Outside(G)
  <2>1. Loose("raw", {}) = {}
    BY DEF Loose
  <2>2. Rest(t.mem, Left(s.mem, m), Left(s.mem, v), Left(s.mem, b), n, {}, st)
        = Outside(MapPart(s.mem, m)) \cup Outside(VecPart(s.mem, v, st)) \cup Outside(BufPart(s.mem, b))
          \cup Outside(SnapPart(s.mem, n))
    BY <1>5, <1>6, <1>7, <1>8, <1>9, <2>1 DEF Rest
  <2> QED
    BY <1>10, <2>2 DEF Rest, Outside
<1>12. Loose("dropped", t.dropped) = Outside(D)
  BY DEF Loose, Outside, Owned
<1>13. t.dropped \subseteq BlockSet(t.x.h)
  BY <1>1 DEF BlockSet
<1> HIDE DEF G, D
<1>14. {c \in G \cup D : c.a = 0} = Outside(G) \cup Outside(D) /\ Outside(G) \cap Outside(D) = {}
  BY <1>1 DEF Outside
<1>15. Kept(t, Outside(G))
  BY <1>12, <1>13, <1>14 DEF Kept, G, D
<1> QED
  BY <1>4, <1>5, <1>6, <1>7, <1>9, <1>11, <1>15 DEF Fine, G

\* The store after its allocator has been reset, and destroyed.
LEMMA EmptiedStore ==
  ASSUME NEW s, IsStore(s)
  PROVE  /\ IsStore(Emptied(s)) /\ Emptied(s).limit = s.limit /\ Emptied(s).heap = s.heap
         /\ Emptied(s).x = s.x /\ Emptied(s).dead = s.dead
         /\ Emptied(s).dropped = {c \in s.dropped : c.a = 0}
         /\ Emptied(s).mem = [p \in DOMAIN s.mem \ {q \in DOMAIN s.mem : InAllocator(s.x, q)} |-> s.mem[p]]
  BY DEF IsStore, Emptied, Forget

\* tiq_allocator_reset changes the allocator's marks only.
LEMMA ResetStore ==
  ASSUME NEW s, IsStore(s)
  PROVE  /\ IsStore(AllocatorReset(s)) /\ AllocatorReset(s).heap = s.heap
         /\ AllocatorReset(s).x = [s.x EXCEPT !.pos = 0, !.used = {}]
         /\ AllocatorReset(s).mem = s.mem /\ AllocatorReset(s).dropped = s.dropped
  BY DEF IsStore, AllocatorReset

\* tiq_allocator_destroy frees the allocator's own blocks.
LEMMA DestroyStore ==
  ASSUME NEW s, IsStore(s)
  PROVE  /\ IsStore(AllocatorDestroy(s)) /\ AllocatorDestroy(s).x = NoAllocator
         /\ AllocatorDestroy(s).heap = {g \in s.heap : g.p \notin {s.x.flags, s.x.buf, s.x.h}}
         /\ AllocatorDestroy(s).mem = s.mem /\ AllocatorDestroy(s).dropped = s.dropped
<1> DEFINE ps == {s.x.flags, s.x.buf, s.x.h}
<1>1. OnlyHeap(s, Release(s, ps)) /\ Release(s, ps).heap = {b \in s.heap : b.p \notin ps}
  BY ReleaseFields
<1>2. AllocatorDestroy(s) = [Release(s, ps) EXCEPT !.x = NoAllocator]
  BY DEF AllocatorDestroy
<1> HIDE DEF Release
<1> QED
  BY <1>1, <1>2 DEF OnlyHeap, IsStore

\* After tiq_allocator_reset the invariant holds, and nothing outside was written.
LEMMA FineReset ==
  ASSUME NEW s, NEW m, NEW v, NEW b, NEW n, NEW rw, NEW st \in BOOLEAN, Fine(s, m, v, b, n, rw, st),
         s.x.kind \in {"arena", "pool"}
  PROVE  /\ Fine(AllocatorReset(Emptied(s)), Left(s.mem, m), Left(s.mem, v), Left(s.mem, b), n, {}, st)
         /\ Agree(s.mem, AllocatorReset(Emptied(s)).mem, Outside(Rest(s.mem, m, v, b, n, rw, st)))
<1> DEFINE H == Rest(s.mem, m, v, b, n, rw, st) \cup Loose("dropped", s.dropped)
           e == Emptied(s)
           t == AllocatorReset(e)
<1>1. IsStore(s) /\ Sound(s.heap, s.x, H)
  BY DEF Fine, Kept
<1>2. /\ IsStore(e) /\ e.heap = s.heap /\ e.x = s.x /\ e.dropped = {c \in s.dropped : c.a = 0}
      /\ e.mem = [p \in DOMAIN s.mem \ {q \in DOMAIN s.mem : InAllocator(s.x, q)} |-> s.mem[p]]
  BY <1>1, EmptiedStore
<1> HIDE DEF e, H
<1>3. /\ IsStore(t) /\ t.heap = e.heap /\ t.x = [e.x EXCEPT !.pos = 0, !.used = {}]
      /\ t.mem = e.mem /\ t.dropped = e.dropped
  <2>1. IsStore(e)
    BY <1>2
  <2> QED
    BY <2>1, ResetStore
<1> HIDE DEF t
<1>4. t.heap = s.heap /\ t.x = [s.x EXCEPT !.pos = 0, !.used = {}]
  BY <1>2, <1>3
<1>5. Sound(t.heap, t.x, {c \in H : c.a = 0})
  BY <1>1, <1>4, ResetSound
<1>6. /\ t.mem = [p \in DOMAIN s.mem \ {q \in DOMAIN s.mem : InAllocator(s.x, q)} |-> s.mem[p]]
      /\ t.dropped = {c \in s.dropped : c.a = 0} /\ IsStore(t)
  BY <1>2, <1>3
<1>7. /\ Fine(t, Left(s.mem, m), Left(s.mem, v), Left(s.mem, b), n, {}, st)
      /\ Agree(s.mem, t.mem, Outside(Rest(s.mem, m, v, b, n, rw, st)))
  BY <1>5, <1>6, FineEmptied DEF H
<1> QED
  BY <1>7 DEF t, e

\* After tiq_allocator_destroy the invariant holds, and nothing outside was written.
LEMMA FineDestroyed ==
  ASSUME NEW s, NEW m, NEW v, NEW b, NEW n, NEW rw, NEW st \in BOOLEAN, Fine(s, m, v, b, n, rw, st),
         s.x.kind \in {"arena", "pool"}
  PROVE  /\ Fine(AllocatorDestroy(Emptied(s)), Left(s.mem, m), Left(s.mem, v), Left(s.mem, b), n, {}, st)
         /\ Agree(s.mem, AllocatorDestroy(Emptied(s)).mem, Outside(Rest(s.mem, m, v, b, n, rw, st)))
<1> DEFINE H == Rest(s.mem, m, v, b, n, rw, st) \cup Loose("dropped", s.dropped)
           e == Emptied(s)
           t == AllocatorDestroy(e)
<1>1. IsStore(s) /\ Sound(s.heap, s.x, H)
  BY DEF Fine, Kept
<1>2. /\ IsStore(e) /\ e.heap = s.heap /\ e.x = s.x /\ e.dropped = {c \in s.dropped : c.a = 0}
      /\ e.mem = [p \in DOMAIN s.mem \ {q \in DOMAIN s.mem : InAllocator(s.x, q)} |-> s.mem[p]]
  BY <1>1, EmptiedStore
<1> HIDE DEF e, H
<1>3. /\ IsStore(t) /\ t.heap = {g \in e.heap : g.p \notin {e.x.flags, e.x.buf, e.x.h}} /\ t.x = NoAllocator
      /\ t.mem = e.mem /\ t.dropped = e.dropped
  <2>1. IsStore(e)
    BY <1>2
  <2> QED
    BY <2>1, DestroyStore
<1> HIDE DEF t
<1>4. t.heap = {g \in s.heap : g.p \notin {s.x.flags, s.x.buf, s.x.h}}
  BY <1>2, <1>3
<1>5. Sound(t.heap, t.x, {c \in H : c.a = 0})
  BY <1>1, <1>3, <1>4, DestroySound
<1>6. /\ t.mem = [p \in DOMAIN s.mem \ {q \in DOMAIN s.mem : InAllocator(s.x, q)} |-> s.mem[p]]
      /\ t.dropped = {c \in s.dropped : c.a = 0} /\ IsStore(t)
  BY <1>2, <1>3
<1>7. /\ Fine(t, Left(s.mem, m), Left(s.mem, v), Left(s.mem, b), n, {}, st)
      /\ Agree(s.mem, t.mem, Outside(Rest(s.mem, m, v, b, n, rw, st)))
  BY <1>5, <1>6, FineEmptied DEF H
<1> QED
  BY <1>7 DEF t, e

\* An address that is none of the program's blocks.
LEMMA StrayKept ==
  ASSUME NEW s, NEW G, Kept(s, G), s.x.kind = "pool",
         NEW p, \/ p \in {s.x.buf - 1, s.x.buf + Extent(s.x)}
                \/ \E i \in s.x.used : p = BlockAt(s.x, i) + 1
                \/ \E i \in (0..(s.x.count - 1)) \ s.x.used : p = BlockAt(s.x, i)
  PROVE  AllocatorDealloc(s, p) = s
<1>1. IsStore(s) /\ Sound(s.heap, s.x, G \cup Loose("dropped", s.dropped))
  BY DEF Kept
<1> QED
  BY <1>1, StrayDealloc

\* An allocator is made while nothing is held.
Opened(s, o) == CASE o.kind = "arena" -> ArenaCreate(s, o.c)
                  [] o.kind = "pool" -> PoolCreate(s, o.b, o.c)
                  [] o.kind = "general" -> [s EXCEPT !.x = General]

\* tiq_allocator_general has given out nothing yet.
LEMMA GeneralFresh ==
  ASSUME NEW s, IsStore(s), s.heap = {}
  PROVE  Fresh(s, [s EXCEPT !.x = General])
<1>1. /\ General \in [kind : {"general"}, h : {StaticHandle}, buf : {0}, cap : {0}, pos : {0}, block : {0},
                      count : {0}, flags : {0}, used : {{}}]
  BY DEF General, NoAllocator
<1>2. StaticHandle \in Nat \ {0}
  BY DEF StaticHandle
<1>3. OwnBlocks(General) = {}
  BY <1>1 DEF OwnBlocks
<1>4. AllocatorOK({}, General)
  BY <1>1, <1>2, <1>3 DEF AllocatorOK
<1>5. HeapOK({})
  BY DEF HeapOK
<1>6. Sound({}, General, {})
  BY <1>1, <1>3, <1>4, <1>5, Unheld
<1> QED
  BY <1>6 DEF Fresh, IsStore

\* After an allocator is made the invariant holds.
LEMMA FineOpened ==
  ASSUME NEW s, NEW m, NEW v, NEW b, NEW n, NEW rw, NEW st, Fine(s, m, v, b, n, rw, st),
         s.x.kind = "none", s.heap = {}, NEW o \in Openings
  PROVE  Fine(Opened(s, o), m, v, b, n, rw, st)
<1>1. m = 0 /\ v = 0 /\ b = 0 /\ n = 0 /\ rw = {} /\ s.dropped = {} /\ IsStore(s)
  BY FineNothing
<1>2. o.kind \in {"general", "arena", "pool"} /\ o.b \in Nat /\ o.c \in Nat
  BY ContainersAssumption
<1>3. \/ Opened(s, o) = s
      \/ Fresh(s, Opened(s, o))
  <2>1. CASE o.kind = "arena"
    <3>1. Opened(s, o) = ArenaCreate(s, o.c)
      BY <2>1 DEF Opened
    <3> QED
      BY <1>1, <1>2, <3>1, ArenaFresh
  <2>2. CASE o.kind = "pool"
    <3>1. Opened(s, o) = PoolCreate(s, o.b, o.c)
      BY <2>2 DEF Opened
    <3> QED
      BY <1>1, <1>2, <3>1, PoolFresh
  <2>3. CASE o.kind = "general"
    <3>1. Opened(s, o) = [s EXCEPT !.x = General]
      BY <2>3 DEF Opened
    <3> QED
      BY <1>1, <3>1, GeneralFresh
  <2> QED
    BY <1>2, <2>1, <2>2, <2>3
<1>4. ASSUME NEW t, Fresh(s, t) PROVE Fine(t, 0, 0, 0, 0, {}, st)
  <2>1. IsStore(t) /\ t.dropped = {} /\ Sound(t.heap, t.x, {})
    BY <1>1, <1>4 DEF Fresh
  <2>2. Loose("dropped", {}) = {}
    BY DEF Loose
  <2>3. Kept(t, {})
    BY <2>1, <2>2 DEF Kept
  <2> QED
    BY <2>3, FineNone
<1> QED
  BY <1>1, <1>3, <1>4

-----------------------------------------------------------------------------
\* The invariant holds in every state.

\* What the model calls held is the parts and the blocks let go.
LEMMA HeldParts ==
  Held = Rest(store.mem, map, vec, buf, snap, raw, Strings) \cup Loose("dropped", store.dropped)
  BY DEF Held, Rest, MapPart, VecPart, BufPart, SnapPart

\* The inductive invariant implies what the runs check.
LEMMA InvTyped == IInv => TypeOK
<1> SUFFICES ASSUME IInv PROVE TypeOK
  OBVIOUS
<1>1. /\ IsStore(store) /\ store.dropped \subseteq BlockSet(store.x.h)
      /\ HeapOK(store.heap) /\ AllocatorOK(store.heap, store.x)
  BY DEF IInv, Fine, Kept, Sound
<1>2. StoreOK(store)
  BY <1>1 DEF StoreOK, IsStore, BlockSet
<1>3. /\ MapFine(store.mem, map, store.x.h) /\ VecFine(store.mem, vec, store.x.h, Strings)
      /\ BufFine(store.mem, buf, store.x.h) /\ SnapFine(store.mem, snap) /\ raw \subseteq RawSet(store.x.h)
  BY DEF IInv, Fine
<1> QED
  BY <1>2, <1>3 DEF TypeOK, MapFine, VecFine, BufFine, SnapFine, RawSet

\* The invariant implies that nothing dangles.
LEMMA InvSafe == IInv => NeverDangles
<1> SUFFICES ASSUME IInv PROVE NeverDangles
  OBVIOUS
<1>1. Sound(store.heap, store.x, Held)
  BY HeldParts DEF IInv, Fine, Kept
<1>2. HeapOK(store.heap) /\ AllocatorOK(store.heap, store.x) /\ Homes(store.heap, store.x, Held) /\ Disjoint(Held)
  BY <1>1 DEF Sound
<1>3. ASSUME NEW b \in Held PROVE \E r \in Regions(store.heap, store.x) : Inside(b, r)
  <2> DEFINE x == store.x
  <2>1. Home(store.heap, x, b) /\ b.p \in Nat /\ b.n \in Nat
    BY <1>2, <1>3 DEF Homes, Home, Sized
  <2>2. CASE OnHeap(x, b)
    <3>1. PICK g \in store.heap \ OwnBlocks(x) : g.p = b.p /\ b.n <= g.n
      BY <2>1, <2>2 DEF Home, HeapHome
    <3>2. g.p \in Nat /\ g.n \in Nat
      BY <1>2 DEF HeapOK
    <3>3. Inside(b, g)
      BY <2>1, <3>1, <3>2 DEF Inside
    <3> QED
      BY <3>1, <3>3 DEF Regions, Granted
  <2>3. CASE ~OnHeap(x, b) /\ x.kind = "arena"
    <3> DEFINE r == [p |-> x.buf, n |-> x.pos]
    <3>1. Inside(b, r)
      BY <2>1, <2>3 DEF Home, ArenaHome, Inside
    <3> QED
      BY <2>3, <3>1 DEF Regions
  <2>4. CASE ~OnHeap(x, b) /\ x.kind = "pool"
    <3>1. PICK i \in x.used : b.p = BlockAt(x, i) /\ b.n <= x.block
      BY <2>1, <2>4 DEF Home, PoolHome
    <3>2. x.block \in Nat
      BY <1>2, OwnNumbers
    <3> DEFINE r == [p |-> BlockAt(x, i), n |-> x.block]
    <3>3. r \in Regions(store.heap, x)
      BY DEF Regions, Granted, PoolBlocks
    <3>4. r.p = b.p /\ r.n = x.block
      BY <3>1
    <3> HIDE DEF r
    <3>5. Inside(b, r)
      BY <2>1, <3>1, <3>2, <3>4 DEF Inside
    <3> QED
      BY <3>3, <3>5
  <2>5. x.kind = "none" => OnHeap(x, b)
    BY <1>2, <2>1, OwnNumbers DEF Home, Sized, OnHeap
  <2>6. x.kind \in {"none", "general", "arena", "pool"}
    BY <1>2, OwnNumbers
  <2> QED
    BY <2>2, <2>3, <2>4, <2>5, <2>6 DEF OnHeap
<1>4. \A b, c \in Held : b # c => Apart(b, c)
  BY <1>2 DEF Disjoint
<1>5. \A b \in Held : b.al <= MaxAlign => b.p % b.al = 0
  BY <1>2 DEF Homes, Home, Sized
<1> QED
  BY <1>3, <1>4, <1>5 DEF NeverDangles

\* The invariant implies that all that was given out is accounted for.
LEMMA InvAccounted == IInv => Accounted
  BY HeldParts DEF IInv, Fine, Kept, Sound, Covered, Accounted

\* The invariant holds in the beginning.
LEMMA InitFine == Init => IInv
<1> SUFFICES ASSUME Init PROVE IInv
  OBVIOUS
<1>1. PICK l \in Limits : store = EmptyStore(l)
  BY DEF Init
<1>2. l \in Nat
  BY ContainersAssumption
<1>3. IsStore(store) /\ store.heap = {} /\ store.x = NoAllocator /\ store.dropped = {}
  BY <1>1, <1>2 DEF EmptyStore, IsStore
<1>4. OwnBlocks(NoAllocator) = {} /\ NoAllocator.used = {} /\ AllocatorOK({}, NoAllocator) /\ HeapOK({})
  BY DEF OwnBlocks, NoAllocator, AllocatorOK, HeapOK
<1>5. Sound({}, NoAllocator, {})
  BY <1>4, Unheld
<1>6. Loose("dropped", {}) = {}
  BY DEF Loose
<1>7. Kept(store, {})
  BY <1>3, <1>5, <1>6 DEF Kept
<1>8. map = 0 /\ vec = 0 /\ buf = 0 /\ snap = 0 /\ raw = {}
  BY DEF Init
<1> QED
  BY <1>7, <1>8, FineNone DEF IInv

\* An operation that ends the process leaves everything where it is.
LEMMA FineCommitted ==
  ASSUME NEW m, NEW v, NEW b, NEW n, NEW rw, NEW st, Fine(store, m, v, b, n, rw, st),
         NEW r, ~r.dead => Fine(r, m, v, b, n, rw, st)
  PROVE  Fine(Committed(r), m, v, b, n, rw, st)
  BY FineExit DEF Committed

\* A handle is the process heap's or the allocator's.
LEMMA HandlesKnown ==
  ASSUME IInv, NEW a \in Handles
  PROVE  a \in {0, store.x.h}
  BY DEF Handles

\* Every step of a program keeps the invariant.
LEMMA StepFine == IInv /\ [Next]_vars => IInv'
<1> SUFFICES ASSUME IInv, [Next]_vars PROVE IInv'
  OBVIOUS
<1> DEFINE M == Rest(store.mem, 0, vec, buf, snap, raw, Strings)
           V == Rest(store.mem, map, 0, buf, snap, raw, Strings)
           B == Rest(store.mem, map, vec, 0, snap, raw, Strings)
           N == Rest(store.mem, map, vec, buf, 0, raw, Strings)
<1>1. Fine(store, map, vec, buf, snap, raw, Strings) /\ Strings \in BOOLEAN
  BY DEF IInv, Strings
<1>2. /\ map = 0 => Kept(store, M)
      /\ map # 0 => MapIn(store, map, M) /\ map \in Nat \ {0}
      /\ vec = 0 => Kept(store, V)
      /\ vec # 0 => VecIn(store, vec, V, Strings) /\ vec \in Nat \ {0}
      /\ buf = 0 => Kept(store, B)
      /\ buf # 0 => BufIn(store, buf, B) /\ buf \in Nat \ {0}
  BY <1>1, FineParts
<1> HIDE DEF M, V, B, N
<1>3. ASSUME uses' = uses, Fine(store', map', vec', buf', snap', raw', Strings) PROVE IInv'
  BY <1>3 DEF IInv, Strings
<1>4. ASSUME NEW o \in Openings, Open(o) PROVE IInv'
  <2>1. store' = Opened(store, o) /\ store.x.kind = "none" /\ store.heap = {}
    BY <1>4 DEF Open, Opened
  <2>2. Fine(store', map, vec, buf, snap, raw, Strings)
    BY <1>1, <2>1, FineOpened
  <2> QED
    BY <1>3, <1>4, <2>2 DEF Open
<1>5. ASSUME NEW a \in Handles, NewMap(a) PROVE IInv'
  <2> DEFINE r == MapNew(store, a)
  <2>1. map = 0 /\ store' = Committed(r.s) /\ map' = Made(r) /\ UNCHANGED <<vec, buf, snap, raw, uses>>
    BY <1>5 DEF NewMap
  <2>2. CASE r.s.dead
    <3>1. store' = Exit(store) /\ map' = map
      BY <2>1, <2>2 DEF Committed, Made
    <3> QED
      BY <1>1, <1>3, <2>1, <3>1, FineExit
  <2>3. CASE ~r.s.dead
    <3>1. store' = r.s /\ map' = r.p
      BY <2>1, <2>3 DEF Committed, Made
    <3>2. MapMade(store, r, M)
      BY <1>2, <1>5, <2>1, <2>3, HandlesKnown, MapNewKept
    <3> HIDE DEF r
    <3>3. MapStep(store, r.s, r.p, M) /\ r.p \in Nat \ {0}
      BY <3>2 DEF MapMade, MapStep
    <3>4. Fine(r.s, r.p, vec, buf, snap, raw, Strings)
      BY <1>1, <3>3, MapFineAfter DEF M
    <3> QED
      BY <1>3, <2>1, <3>1, <3>4
  <2> QED
    BY <2>2, <2>3
<1>6. ASSUME NEW a \in Handles, NewVec(a) PROVE IInv'
  <2> DEFINE r == VecNew(store, a)
  <2>1. vec = 0 /\ store' = Committed(r.s) /\ vec' = Made(r) /\ UNCHANGED <<map, buf, snap, raw, uses>>
    BY <1>6 DEF NewVec
  <2>2. CASE r.s.dead
    <3>1. store' = Exit(store) /\ vec' = vec
      BY <2>1, <2>2 DEF Committed, Made
    <3> QED
      BY <1>1, <1>3, <2>1, <3>1, FineExit
  <2>3. CASE ~r.s.dead
    <3>1. store' = r.s /\ vec' = r.p
      BY <2>1, <2>3 DEF Committed, Made
    <3>2. VecMade(store, r, V, Strings)
      BY <1>1, <1>2, <1>6, <2>1, <2>3, HandlesKnown, VecNewKept
    <3> HIDE DEF r
    <3>3. VecStep(store, r.s, r.p, V, Strings) /\ r.p \in Nat \ {0}
      BY <3>2 DEF VecMade, VecStep
    <3>4. Fine(r.s, map, r.p, buf, snap, raw, Strings)
      BY <1>1, <3>3, VecFineAfter DEF V
    <3> QED
      BY <1>3, <2>1, <3>1, <3>4
  <2> QED
    BY <2>2, <2>3
<1>7. ASSUME NEW a \in Handles, NewBuf(a) PROVE IInv'
  <2> DEFINE r == BufNew(store, a)
  <2>1. buf = 0 /\ store' = Committed(r.s) /\ buf' = Made(r) /\ UNCHANGED <<map, vec, snap, raw, uses>>
    BY <1>7 DEF NewBuf
  <2>2. CASE r.s.dead
    <3>1. store' = Exit(store) /\ buf' = buf
      BY <2>1, <2>2 DEF Committed, Made
    <3> QED
      BY <1>1, <1>3, <2>1, <3>1, FineExit
  <2>3. CASE ~r.s.dead
    <3>1. store' = r.s /\ buf' = r.p
      BY <2>1, <2>3 DEF Committed, Made
    <3>2. BufMade(store, r, B)
      BY <1>2, <1>7, <2>1, <2>3, HandlesKnown, BufNewKept
    <3> HIDE DEF r
    <3>3. BufStep(store, r.s, r.p, B) /\ r.p \in Nat \ {0}
      BY <3>2 DEF BufMade
    <3>4. Fine(r.s, map, vec, r.p, snap, raw, Strings)
      BY <1>1, <3>3, BufFineAfter DEF B
    <3> QED
      BY <1>3, <2>1, <3>1, <3>4
  <2> QED
    BY <2>2, <2>3
<1>8. ASSUME NEW k \in Key, NEW v \in Value, SetKey(k, v) PROVE IInv'
  <2> DEFINE t == MapSet(store, map, k, v)
  <2>1. map # 0 /\ store' = Committed(t) /\ UNCHANGED <<map, vec, buf, snap, raw, uses>>
    BY <1>8 DEF SetKey
  <2>2. ASSUME ~t.dead PROVE Fine(t, map, vec, buf, snap, raw, Strings)
    <3>1. MapStep(store, t, map, M)
      BY <1>2, <2>1, <2>2, MapSetKept
    <3> HIDE DEF t
    <3> QED
      BY <1>1, <1>2, <2>1, <3>1, MapFineAfter DEF M
  <2> HIDE DEF t
  <2>3. Fine(Committed(t), map, vec, buf, snap, raw, Strings)
    BY <1>1, <2>2, FineCommitted
  <2> QED
    BY <1>3, <2>1, <2>3
<1>9. ASSUME vec # 0, NEW t, ~t.dead => VecStep(store, t, vec, V, Strings),
             store' = Committed(t), UNCHANGED <<map, vec, buf, snap, raw, uses>>
      PROVE  IInv'
  <2>1. ASSUME ~t.dead PROVE Fine(t, map, vec, buf, snap, raw, Strings)
    BY <1>1, <1>2, <1>9, <2>1, VecFineAfter DEF V
  <2>2. Fine(Committed(t), map, vec, buf, snap, raw, Strings)
    BY <1>1, <2>1, FineCommitted
  <2> QED
    BY <1>3, <1>9, <2>2
<1>10. ASSUME NEW w \in Value, PushElem(w) PROVE IInv'
  <2>1. vec # 0 /\ ~store.dead /\ UNCHANGED <<map, vec, buf, snap, raw, uses>>
        /\ store' = Committed(IF Strings THEN PushStr(store, vec, w) ELSE Push(store, vec, w))
    BY <1>10 DEF PushElem
  <2>2. CASE Strings
    <3>1. ~PushStr(store, vec, w).dead => VecStep(store, PushStr(store, vec, w), vec, V, Strings)
      BY <1>2, <2>1, <2>2, PushStrKept
    <3> QED
      BY <1>9, <2>1, <2>2, <3>1
  <2>3. CASE ~Strings
    <3>1. Brings(store.mem, vec, store.mem[vec].len + 1, w, {}, Strings)
      BY <2>3 DEF Brings
    <3>2. VecIn(store, vec, V \cup {}, Strings) /\ {} \cap V = {}
      BY <1>2, <2>1
    <3>3. ~Push(store, vec, w).dead => VecStep(store, Push(store, vec, w), vec, V, Strings)
      BY <1>1, <3>1, <3>2, PushKept
    <3> QED
      BY <1>9, <2>1, <2>3, <3>3
  <2> QED
    BY <2>2, <2>3
<1>11. ASSUME NEW i \in 0..MaxElems, NEW w \in Value, SetElem(i, w) PROVE IInv'
  <2>1. vec # 0 /\ ~store.dead /\ UNCHANGED <<map, vec, buf, snap, raw, uses>> /\ i \in Nat
        /\ store' = Committed(IF Strings THEN SetStr(store, vec, i, w) ELSE SetCell(store, vec, i, w))
    BY <1>11 DEF SetElem
  <2>2. CASE Strings
    <3>1. ~SetStr(store, vec, i, w).dead => VecStep(store, SetStr(store, vec, i, w), vec, V, Strings)
      BY <1>2, <2>1, <2>2, SetStrKept
    <3> QED
      BY <1>9, <2>1, <2>2, <3>1
  <2>3. CASE ~Strings
    <3>1. Strings = FALSE
      BY <1>1, <2>3
    <3>2. ~SetCell(store, vec, i, w).dead => VecStep(store, SetCell(store, vec, i, w), vec, V, Strings)
      BY <1>1, <1>2, <2>1, <2>3, <3>1, SetCellKept
    <3> QED
      BY <1>9, <2>1, <2>3, <3>2
  <2> QED
    BY <2>2, <2>3
<1>12. ASSUME PopElem PROVE IInv'
  <2>1. vec # 0 /\ ~store.dead /\ UNCHANGED <<map, vec, buf, snap, raw, uses>>
        /\ store' = Committed(IF Strings THEN PopStr(store, vec) ELSE PopCell(store, vec))
    BY <1>12 DEF PopElem
  <2>2. CASE Strings
    <3>1. ~PopStr(store, vec).dead => VecStep(store, PopStr(store, vec), vec, V, Strings)
      BY <1>2, <2>1, <2>2, PopStrKept
    <3> QED
      BY <1>9, <2>1, <2>2, <3>1
  <2>3. CASE ~Strings
    <3>1. Strings = FALSE
      BY <1>1, <2>3
    <3>2. ~PopCell(store, vec).dead => VecStep(store, PopCell(store, vec), vec, V, Strings)
      BY <1>1, <1>2, <2>1, <2>3, <3>1, PopCellKept
    <3> QED
      BY <1>9, <2>1, <2>3, <3>2
  <2> QED
    BY <2>2, <2>3
<1>13. ASSUME NEW w \in Piece, AppendText(w) PROVE IInv'
  <2> DEFINE t == BufAppend(store, buf, w)
  <2>1. buf # 0 /\ store' = Committed(t) /\ UNCHANGED <<map, vec, buf, snap, raw, uses>>
    BY <1>13 DEF AppendText
  <2>2. ASSUME ~t.dead PROVE Fine(t, map, vec, buf, snap, raw, Strings)
    <3>1. BufStep(store, t, buf, B)
      BY <1>2, <2>1, <2>2, BufAppendKept
    <3> HIDE DEF t
    <3> QED
      BY <1>1, <1>2, <2>1, <3>1, BufFineAfter DEF B
  <2> HIDE DEF t
  <2>3. Fine(Committed(t), map, vec, buf, snap, raw, Strings)
    BY <1>1, <2>2, FineCommitted
  <2> QED
    BY <1>3, <2>1, <2>3
<1>14. ASSUME MakeString PROVE IInv'
  <2> DEFINE r == ToStr(store, buf)
  <2>1. buf # 0 /\ snap = 0 /\ store' = Committed(r.s) /\ snap' = Made(r) /\ UNCHANGED <<map, vec, buf, raw, uses>>
    BY <1>14 DEF MakeString
  <2>2. CASE r.s.dead
    <3>1. store' = Exit(store) /\ snap' = snap
      BY <2>1, <2>2 DEF Committed, Made
    <3> QED
      BY <1>1, <1>3, <2>1, <3>1, FineExit
  <2>3. CASE ~r.s.dead
    <3>1. store' = r.s /\ snap' = r.p
      BY <2>1, <2>3 DEF Committed, Made
    <3>2. Kept(store, N) /\ BufOK(store.mem, buf, store.x.h)
      BY <1>1, <2>1 DEF Fine, BufFine, N
    <3>3. StringMade(store, r, N)
      BY <2>3, <3>2, ToStrKept
    <3> HIDE DEF r
    <3>4. Fine(r.s, map, vec, buf, r.p, raw, Strings)
      BY <1>1, <2>1, <3>3, FineMade DEF N
    <3> QED
      BY <1>3, <2>1, <3>1, <3>4
  <2> QED
    BY <2>2, <2>3
<1>15. ASSUME FreeString PROVE IInv'
  <2>1. Fine(Release(Forget(store, {snap}), {snap}), map, vec, buf, 0, raw, Strings)
    BY <1>1, <1>15, FineFreed DEF FreeString
  <2> QED
    BY <1>3, <1>15, <2>1 DEF FreeString
<1>16. ASSUME NEW n \in RawSizes, NEW al \in RawAligns, RawAlloc(n, al) PROVE IInv'
  <2> DEFINE r == AllocatorAlloc(store, n, al)
             c == Block(r.p, n, al, store.x.h)
  <2>1. /\ store.x.kind # "none" /\ store' = r.s /\ raw' = IF r.p = 0 THEN raw ELSE raw \cup {c}
        /\ UNCHANGED <<map, vec, buf, snap, uses>>
    BY <1>16 DEF RawAlloc
  <2>2. n \in Nat /\ al \in Nat
    BY ContainersAssumption
  <2>3. CASE r.p = 0
    <3>1. r.s = store
      BY <1>1, <2>1, <2>2, <2>3, AllocRefusedKept DEF Fine
    <3> QED
      BY <1>1, <1>3, <2>1, <2>3, <3>1
  <2>4. CASE r.p # 0
    <3>1. Fine(r.s, map, vec, buf, snap, raw \cup {c}, Strings)
      BY <1>1, <2>1, <2>2, <2>4, FineAlloc
    <3> QED
      BY <1>3, <2>1, <2>4, <3>1
  <2> QED
    BY <2>3, <2>4
<1>17. ASSUME NEW b \in raw, RawFree(b) PROVE IInv'
  <2>1. Fine(AllocatorDealloc(store, b.p), map, vec, buf, snap, raw \ {b}, Strings)
    BY <1>1, FineDealloc
  <2> QED
    BY <1>3, <1>17, <2>1 DEF RawFree
<1>18. ASSUME NEW p \in StrayAddresses, StrayFree(p) PROVE IInv'
  <2>1. store.x.kind = "pool" /\ store' = AllocatorDealloc(store, p)
        /\ UNCHANGED <<map, vec, buf, snap, raw, uses>>
    BY <1>18 DEF StrayFree
  <2>2. \/ p \in {store.x.buf - 1, store.x.buf + Extent(store.x)}
        \/ \E i \in store.x.used : p = BlockAt(store.x, i) + 1
        \/ \E i \in (0..(store.x.count - 1)) \ store.x.used : p = BlockAt(store.x, i)
    BY DEF StrayAddresses
  <2>3. AllocatorDealloc(store, p) = store
    BY <1>1, <2>1, <2>2, StrayKept DEF Fine
  <2> QED
    BY <1>1, <1>3, <2>1, <2>3
<1>19. ASSUME NEW t, Empty(t), store.x.kind \in {"arena", "pool"} =>
                Fine(t, Left(store.mem, map), Left(store.mem, vec), Left(store.mem, buf), snap, {}, Strings)
       PROVE IInv'
  <2>1. /\ store.x.kind \in {"arena", "pool"} /\ store' = t /\ raw' = {} /\ UNCHANGED <<snap, uses>>
        /\ map' = Left(store.mem, map) /\ vec' = Left(store.mem, vec) /\ buf' = Left(store.mem, buf)
    BY <1>19 DEF Empty, Surviving, Left
  <2> QED
    BY <1>3, <1>19, <2>1
<1>20. ASSUME Reset PROVE IInv'
  <2> DEFINE t == AllocatorReset(Emptied(store))
  <2>1. Empty(t)
    BY <1>20 DEF Reset
  <2>2. store.x.kind \in {"arena", "pool"} =>
          Fine(t, Left(store.mem, map), Left(store.mem, vec), Left(store.mem, buf), snap, {}, Strings)
    BY <1>1, FineReset
  <2> HIDE DEF t
  <2> QED
    BY <1>19, <2>1, <2>2
<1>21. ASSUME DestroyAllocator PROVE IInv'
  <2> DEFINE t == AllocatorDestroy(Emptied(store))
  <2>1. Empty(t)
    BY <1>21 DEF DestroyAllocator
  <2>2. store.x.kind \in {"arena", "pool"} =>
          Fine(t, Left(store.mem, map), Left(store.mem, vec), Left(store.mem, buf), snap, {}, Strings)
    BY <1>1, FineDestroyed
  <2> HIDE DEF t
  <2> QED
    BY <1>19, <2>1, <2>2
<1>22. CASE UNCHANGED vars
  BY <1>1, <1>3, <1>22 DEF vars
<1> QED
  BY <1>4, <1>5, <1>6, <1>7, <1>8, <1>10, <1>11, <1>12, <1>13, <1>14, <1>15, <1>16, <1>17, <1>18,
     <1>20, <1>21, <1>22 DEF Next

\* Every state of a program with containers satisfies the inductive invariant.
THEOREM Invariance == Spec => []IInv
  BY InitFine, StepFine, PTL DEF Spec

\* The allocator's marks stay within its bounds, the containers' headers agree with
\* their arrays, and each key of a map is where its probe looks: runtime_aux.h, whatever
\* the sizes, the hashes, the allocator and the requests.
THEOREM TypeCorrect == Spec => []TypeOK
  BY Invariance, InvTyped, PTL

\* "Leak, never dangle" (runtime_aux.h:866): no block that a program can reach is
\* outside what it was given, or shares a byte with another, or is misaligned.
THEOREM MemorySafety == Spec => []NeverDangles
  BY Invariance, InvSafe, PTL

\* Whatever malloc or a pool has given out is held by a container or by the program,
\* or is a string that a vec let go.
THEOREM NothingLeaks == Spec => []Accounted
  BY Invariance, InvAccounted, PTL

-----------------------------------------------------------------------------
\* The refinement: what the users of the containers see.

\* The value that stands beside a key.
Beside(n, ks, vs, k) == IF \E i \in 1..n : ks[i] = k THEN vs[CHOOSE i \in 1..n : ks[i] = k] ELSE -1
OnceEach(n, ks) == \A i, j \in 1..n : ks[i] = ks[j] => i = j

\* The value beside a key.
LEMMA BesideAt ==
  ASSUME NEW n, NEW ks, OnceEach(n, ks), NEW vs, NEW i \in 1..n
  PROVE  Beside(n, ks, vs, ks[i]) = vs[i]
<1> DEFINE j == CHOOSE j \in 1..n : ks[j] = ks[i]
<1>1. j \in 1..n /\ ks[j] = ks[i]
  OBVIOUS
<1> HIDE DEF j
<1>2. j = i
  BY <1>1 DEF OnceEach
<1>3. Beside(n, ks, vs, ks[i]) = vs[j]
  BY DEF Beside, j
<1> QED
  BY <1>2, <1>3

\* tiq_map_get, and the keys in the order of their entries.
LEMMA MapSeen ==
  ASSUME NEW mem, NEW p, NEW h, MapOK(mem, p, h)
  PROVE  /\ mem[p].len \in Nat /\ OnceEach(mem[p].len, KeysOf(mem, p))
         /\ \A i \in 1..mem[p].len : KeyOf(mem, mem[p], i - 1) = KeysOf(mem, p)[i]
         /\ \A k \in Key : Get(mem, mem[p], k) = Beside(mem[p].len, KeysOf(mem, p), ValsOf(mem, p), k)
         /\ ValsOf(mem, p) \in Seq(Value) /\ Len(ValsOf(mem, p)) = mem[p].len
<1> DEFINE m == mem[p]
           ks == Contents(mem, m.keys)
           n == m.len
<1>1. n \in Nat /\ (n > 0 => m.cap # 0)
  BY MapFields
<1>2. /\ ks \in Seq(Nat) /\ Len(ks) = n /\ StringsOK(mem, ks, Key) /\ Different(mem, ks)
      /\ ValsOf(mem, p) \in Seq(Value) /\ Len(ValsOf(mem, p)) = n
  BY DEF MapOK, ValsOf
<1>3. KeysOf(mem, p) = [i \in 1..n |-> mem[ks[i]]]
  BY DEF KeysOf
<1>4. ASSUME NEW i \in 1..n PROVE mem[m.keys] = ks /\ mem[m.vals] = ValsOf(mem, p)
  <2>1. ks # <<>> /\ ValsOf(mem, p) # <<>>
    BY <1>1, <1>2
  <2> QED
    BY <2>1 DEF Contents, ValsOf
<1>5. OnceEach(n, KeysOf(mem, p))
  BY <1>2, <1>3 DEF OnceEach, Different
<1> HIDE DEF ks, n
<1>6. ASSUME NEW i \in 1..n PROVE KeyOf(mem, m, i - 1) = KeysOf(mem, p)[i]
  <2>1. mem[m.keys] = ks /\ i - 1 + 1 = i
    BY <1>1, <1>4
  <2> QED
    BY <1>3, <2>1 DEF KeyOf
<1>7. ASSUME NEW k \in Key PROVE Get(mem, m, k) = Beside(n, KeysOf(mem, p), ValsOf(mem, p), k)
  <2> DEFINE e == Find(mem, m, k)
  <2>1. /\ e \in -1..(n - 1)
        /\ e < 0 => \A i \in 1..n : KeysOf(mem, p)[i] # k
        /\ e >= 0 => KeysOf(mem, p)[e + 1] = k
    BY MapSought DEF Sought, n
  <2>2. Get(mem, m, k) = IF e >= 0 THEN mem[m.vals][e + 1] ELSE -1
    BY DEF Get
  <2> HIDE DEF e
  <2>3. CASE e >= 0
    <3>1. e + 1 \in 1..n
      BY <1>1, <2>1, <2>3
    <3>2. Beside(n, KeysOf(mem, p), ValsOf(mem, p), KeysOf(mem, p)[e + 1]) = ValsOf(mem, p)[e + 1]
      BY <1>5, <3>1, BesideAt
    <3> QED
      BY <1>4, <2>1, <2>2, <2>3, <3>1, <3>2
  <2>4. CASE e < 0
    <3>1. ~(e >= 0)
      BY <1>1, <2>1, <2>4
    <3>2. \A i \in 1..n : KeysOf(mem, p)[i] # k
      BY <2>1, <2>4
    <3> QED
      BY <2>2, <3>1, <3>2 DEF Beside
  <2> QED
    BY <1>1, <2>1, <2>3, <2>4
<1> QED
  BY <1>1, <1>2, <1>5, <1>6, <1>7 DEF n

\* A value put in another's place, and a key and a value more.
SetAt(vs, ws, n, i, v) == i \in 1..n /\ \A j \in 1..n : ws[j] = IF j = i THEN v ELSE vs[j]
AddedAt(vs, ws, n, v) == ws[n + 1] = v /\ \A j \in 1..n : ws[j] = vs[j]

\* The values after one was put in another's place.
LEMMA BesideRevalued ==
  ASSUME NEW n, NEW ks, OnceEach(n, ks), NEW vs, NEW ws, NEW i, NEW v, SetAt(vs, ws, n, i, v), NEW k
  PROVE  Beside(n, ks, ws, k) = IF k = ks[i] THEN v ELSE Beside(n, ks, vs, k)
<1>1. CASE \E j \in 1..n : ks[j] = k
  <2>1. PICK j \in 1..n : ks[j] = k
    BY <1>1
  <2>2. Beside(n, ks, ws, ks[j]) = ws[j] /\ Beside(n, ks, vs, ks[j]) = vs[j]
    BY BesideAt
  <2>3. k = ks[i] <=> j = i
    BY <2>1 DEF OnceEach, SetAt
  <2> QED
    BY <2>1, <2>2, <2>3 DEF SetAt
<1>2. CASE ~\E j \in 1..n : ks[j] = k
  BY <1>2 DEF Beside, SetAt
<1> QED
  BY <1>1, <1>2

\* The values after a key and its value were added.
LEMMA BesideAdded ==
  ASSUME NEW n \in Nat, NEW ks, OnceEach(n, ks), NEW vs, NEW v, NEW l, NEW q, q = n + 1, NEW qs, OnceEach(q, qs),
         AddedAt(ks, qs, n, l), NEW ws, AddedAt(vs, ws, n, v), NEW k
  PROVE  Beside(q, qs, ws, k) = IF k = l THEN v ELSE Beside(n, ks, vs, k)
<1>1. n + 1 \in 1..(n + 1) /\ 1..(n + 1) = 1..n \cup {n + 1} /\ n + 1 \notin 1..n
      /\ qs[n + 1] = l /\ ws[n + 1] = v /\ \A j \in 1..n : qs[j] = ks[j] /\ ws[j] = vs[j]
  BY DEF AddedAt
<1>2. \A j \in 1..n : ks[j] # l
  BY <1>1 DEF OnceEach
<1>3. CASE k = l
  <2>1. Beside(q, qs, ws, qs[n + 1]) = ws[n + 1]
    BY <1>1, BesideAt
  <2> QED
    BY <1>1, <1>3, <2>1
<1>4. CASE k # l /\ \E j \in 1..n : ks[j] = k
  <2>1. PICK j \in 1..n : ks[j] = k
    BY <1>4
  <2>2. Beside(q, qs, ws, qs[j]) = ws[j] /\ Beside(n, ks, vs, ks[j]) = vs[j]
    BY <1>1, BesideAt
  <2> QED
    BY <1>1, <1>4, <2>1, <2>2
<1>5. CASE k # l /\ ~\E j \in 1..n : ks[j] = k
  <2>1. ~\E j \in 1..(n + 1) : qs[j] = k
    BY <1>1, <1>5
  <2> QED
    BY <1>5, <2>1 DEF Beside
<1> QED
  BY <1>3, <1>4, <1>5

\* The containers as their users see them, of a memory.
OrderOf(mem, p) == IF p = 0 THEN <<>> ELSE KeysOf(mem, p)
ValuesOf(mem, p) ==
  [k \in Key |-> IF p = 0 THEN -1 ELSE Beside(mem[p].len, KeysOf(mem, p), ValsOf(mem, p), k)]
ElementsOf(mem, p, st) == IF p = 0 THEN <<>> ELSE Elems(mem, CellsOf(mem, p), st)
PiecesOf(mem, p) == IF p = 0 THEN <<>> ELSE TextOf(mem, p).pieces
CopiesOf(mem, p) == IF p = 0 THEN <<>> ELSE <<mem[p].pieces>>

\* What the users of the containers see, in terms of the memory.
LEMMA ViewsAre ==
  ASSUME IInv
  PROVE  /\ Order = OrderOf(store.mem, map) /\ Values = ValuesOf(store.mem, map)
         /\ Elements = ElementsOf(store.mem, vec, Strings)
         /\ Pieces = PiecesOf(store.mem, buf) /\ Copies = CopiesOf(store.mem, snap)
<1>1. MapFine(store.mem, map, store.x.h) /\ VecFine(store.mem, vec, store.x.h, Strings)
  BY DEF IInv, Fine
<1>2. Order = OrderOf(store.mem, map) /\ Values = ValuesOf(store.mem, map)
  <2>1. CASE map = 0
    <3>1. 1..0 = {}
      OBVIOUS
    <3>2. Order = <<>>
      BY <2>1, <3>1 DEF Order
    <3> QED
      BY <2>1, <3>2 DEF OrderOf, ValuesOf, Values
  <2>2. CASE map # 0
    <3>1. MapOK(store.mem, map, store.x.h)
      BY <1>1, <2>2 DEF MapFine
    <3> DEFINE mem == store.mem
    <3>2. /\ \A i \in 1..mem[map].len : KeyOf(mem, mem[map], i - 1) = KeysOf(mem, map)[i]
          /\ \A k \in Key : Get(mem, mem[map], k) = Beside(mem[map].len, KeysOf(mem, map), ValsOf(mem, map), k)
      BY <3>1, MapSeen
    <3>3. Order = [i \in 1..mem[map].len |-> KeyOf(mem, mem[map], i - 1)]
      BY <2>2 DEF Order, Header
    <3>4. Order = [i \in 1..mem[map].len |-> KeysOf(mem, map)[i]]
      BY <3>2, <3>3
    <3>5. Order = KeysOf(mem, map)
      BY <3>4 DEF KeysOf
    <3>6. Values = ValuesOf(mem, map)
      BY <2>2, <3>2 DEF Values, ValuesOf, Header
    <3> QED
      BY <2>2, <3>5, <3>6 DEF OrderOf
  <2> QED
    BY <2>1, <2>2
<1>3. Elements = ElementsOf(store.mem, vec, Strings)
  <2>1. CASE vec = 0
    <3>1. Cells = <<>> /\ DOMAIN Cells = 1..0
      BY <2>1 DEF Cells
    <3>2. [i \in DOMAIN Cells |-> store.mem[Cells[i]]] = <<>>
      BY <3>1
    <3> QED
      BY <2>1, <3>1, <3>2 DEF Elements, ElementsOf
  <2>2. CASE vec # 0
    <3>1. VecOK(store.mem, vec, store.x.h, Strings)
      BY <1>1, <2>2 DEF VecFine
    <3>2. Cells = CellsOf(store.mem, vec)
      BY <2>2 DEF Cells, CellsOf
    <3>3. Strings => Cells \in Seq(Nat)
      BY <3>1, <3>2 DEF VecOK, CellsOf
    <3>4. Strings => DOMAIN Cells = 1..Len(Cells)
      BY <3>3
    <3>5. Elements = Elems(store.mem, Cells, Strings)
      BY <3>4 DEF Elements, Elems
    <3> QED
      BY <2>2, <3>2, <3>5 DEF ElementsOf
  <2> QED
    BY <2>1, <2>2
<1>4. Pieces = PiecesOf(store.mem, buf) /\ Copies = CopiesOf(store.mem, snap)
  BY DEF Pieces, PiecesOf, Copies, CopiesOf, TextOf
<1> QED
  BY <1>2, <1>3, <1>4

\* What its users see of a container stays while nothing is written in its blocks.
LEMMA MapKeeps ==
  ASSUME NEW mem, NEW next, NEW p, NEW h, MapFine(mem, p, h), Agree(mem, next, MapPart(mem, p))
  PROVE  OrderOf(next, p) = OrderOf(mem, p) /\ ValuesOf(next, p) = ValuesOf(mem, p)
<1>1. CASE p = 0
  BY <1>1 DEF OrderOf, ValuesOf
<1>2. CASE p # 0
  <2> DEFINE m == mem[p]
             ks == Contents(mem, m.keys)
             B == MapBlocks(mem, p)
  <2>1. MapOK(mem, p, h) /\ Agree(mem, next, B)
    BY <1>2 DEF MapFine, MapPart
  <2>2. next[p] = m
    BY <2>1, MapFrame
  <2>3. ks \in Seq(Nat) /\ Len(ks) = m.len /\ StringsOK(mem, ks, Key)
        /\ (m.cap = 0 => m.keys = 0 /\ m.vals = 0)
        /\ (m.cap # 0 => m.keys \in DOMAIN mem /\ m.vals \in DOMAIN mem)
    BY <2>1 DEF MapOK
  <2>4. MapStrings(mem, m) \subseteq B /\ (m.cap # 0 => MapKeys(m) \in B /\ MapVals(m) \in B)
    BY MapParts DEF MapArrays
  <2>5. MapKeys(m).p = m.keys /\ MapVals(m).p = m.vals
    BY PartFields DEF Names
  <2> HIDE DEF B
  <2>6. m.cap # 0 => next[m.keys] = mem[m.keys] /\ next[m.vals] = mem[m.vals]
    BY <2>1, <2>3, <2>4, <2>5, AgreeAt
  <2>7. Contents(next, m.keys) = ks /\ Contents(next, m.vals) = Contents(mem, m.vals)
    BY <2>3, <2>6 DEF Contents
  <2>8. \A i \in 1..Len(ks) : next[ks[i]] = mem[ks[i]]
    <3>1. Agree(mem, next, Strs(mem, ks, "map", m.a))
      BY <2>1, <2>4 DEF Agree, MapStrings
    <3> HIDE DEF ks
    <3> QED
      BY <2>3, <3>1, StringsFrame
  <2>9. KeysOf(next, p) = KeysOf(mem, p) /\ ValsOf(next, p) = ValsOf(mem, p)
    <3> HIDE DEF ks
    <3>1. KeysOf(next, p) = [i \in 1..m.len |-> next[ks[i]]] /\ KeysOf(mem, p) = [i \in 1..m.len |-> mem[ks[i]]]
      BY <2>2, <2>7 DEF KeysOf, ks
    <3> QED
      BY <2>2, <2>3, <2>7, <2>8, <3>1 DEF ValsOf
  <2> QED
    BY <1>2, <2>2, <2>9 DEF OrderOf, ValuesOf
<1> QED
  BY <1>1, <1>2

\* The elements of a vec stay while nothing is written in its blocks.
LEMMA VecKeeps ==
  ASSUME NEW mem, NEW next, NEW p, NEW h, NEW st \in BOOLEAN, VecFine(mem, p, h, st), Agree(mem, next, VecPart(mem, p, st))
  PROVE  ElementsOf(next, p, st) = ElementsOf(mem, p, st)
<1>1. CASE p = 0
  BY <1>1 DEF ElementsOf
<1>2. CASE p # 0
  <2> DEFINE v == mem[p]
             xs == CellsOf(mem, p)
             B == VecBlocks(mem, p, st)
  <2>1. VecOK(mem, p, h, st) /\ Agree(mem, next, B)
    BY <1>2 DEF VecFine, VecPart
  <2>2. next[p] = v
    BY <2>1, VecFrame
  <2>3. (v.cap = 0 => v.data = 0) /\ (v.cap # 0 => v.data \in DOMAIN mem)
        /\ (st => xs \in Seq(Nat) /\ StringsOK(mem, xs, Value))
    BY <2>1 DEF VecOK, CellsOf
  <2>4. VecStrings(mem, xs, v.a, st) \subseteq B /\ (v.cap # 0 => VecCells(v) \in B)
    BY VecParts DEF VecArrays, CellsOf
  <2>5. VecCells(v).p = v.data
    BY VecFields DEF Names
  <2> HIDE DEF B
  <2>6. v.cap # 0 => next[v.data] = mem[v.data]
    BY <2>1, <2>3, <2>4, <2>5, AgreeAt
  <2>7. CellsOf(next, p) = xs
    BY <2>2, <2>3, <2>6 DEF CellsOf, Contents
  <2>8. ASSUME st PROVE \A i \in 1..Len(xs) : next[xs[i]] = mem[xs[i]]
    <3>1. Agree(mem, next, Strs(mem, xs, "vec", v.a))
      BY <2>1, <2>4, <2>8 DEF Agree, VecStrings
    <3>2. xs \in Seq(Nat) /\ StringsOK(mem, xs, Value)
      BY <2>3, <2>8
    <3> HIDE DEF xs
    <3> QED
      BY <3>1, <3>2, StringsFrame
  <2> HIDE DEF xs
  <2>9. Elems(next, xs, st) = Elems(mem, xs, st)
    BY <2>8 DEF Elems
  <2> QED
    BY <1>2, <2>7, <2>9 DEF ElementsOf, xs
<1> QED
  BY <1>1, <1>2

\* The text of a builder stays while nothing is written in its blocks.
LEMMA BufKeeps ==
  ASSUME NEW mem, NEW next, NEW p, NEW h, BufFine(mem, p, h), Agree(mem, next, BufPart(mem, p))
  PROVE  PiecesOf(next, p) = PiecesOf(mem, p)
<1>1. CASE p = 0
  BY <1>1 DEF PiecesOf
<1>2. CASE p # 0
  <2> DEFINE v == mem[p]
             c == Owned(<<"buf", "header", 0>>, Block(p, BufBytes, MaxAlign, v.a))
             d == Owned(<<"buf", "text", 0>>, Block(v.data, v.cap, 1, v.a))
  <2>1. BufOK(mem, p, h) /\ Agree(mem, next, BufBlocks(mem, p))
    BY <1>2 DEF BufFine, BufPart
  <2>2. p \in DOMAIN mem /\ v.data \in DOMAIN mem
    BY <2>1 DEF BufOK
  <2>3. c \in BufBlocks(mem, p) /\ d \in BufBlocks(mem, p)
    BY DEF BufBlocks
  <2>4. c.p = p /\ d.p = v.data
    BY DEF Owned, Block
  <2> HIDE DEF c, d
  <2>5. next[p] = v /\ next[v.data] = mem[v.data]
    BY <2>1, <2>2, <2>3, <2>4, AgreeAt
  <2> QED
    BY <1>2, <2>5 DEF PiecesOf, TextOf
<1> QED
  BY <1>1, <1>2

\* A string stays while nothing is written in its block.
LEMMA SnapKeeps ==
  ASSUME NEW mem, NEW next, NEW p, SnapFine(mem, p), Agree(mem, next, SnapPart(mem, p))
  PROVE  CopiesOf(next, p) = CopiesOf(mem, p)
<1>1. CASE p = 0
  BY <1>1 DEF CopiesOf
<1>2. CASE p # 0
  <2> DEFINE c == Owned(<<"snap", "text", 0>>, Block(p, mem[p].n + 1, MaxAlign, 0))
  <2>1. p \in DOMAIN mem /\ Agree(mem, next, SnapBlocks(mem, p))
    BY <1>2 DEF SnapFine, SnapPart, SnapOK
  <2>2. c \in SnapBlocks(mem, p) /\ c.p = p
    BY DEF SnapBlocks, Owned, Block
  <2> HIDE DEF c
  <2>3. next[p] = mem[p]
    BY <2>1, <2>2, AgreeAt
  <2> QED
    BY <1>2, <2>3 DEF CopiesOf
<1> QED
  BY <1>1, <1>2

\* All that stands beside the container an operation works on.
LEMMA PartAgrees ==
  ASSUME NEW mem, NEW next, NEW F, Agree(mem, next, F), NEW B, B \subseteq F
  PROVE  Agree(mem, next, B)
  BY DEF Agree

\* Beside the container an operation works on, all that is seen stays.
LEMMA RestSeen ==
  ASSUME NEW mem, NEW next, NEW m, NEW v, NEW b, NEW n, NEW rw, NEW st \in BOOLEAN, NEW h,
         MapFine(mem, m, h), VecFine(mem, v, h, st), BufFine(mem, b, h), SnapFine(mem, n),
         Agree(mem, next, Rest(mem, m, v, b, n, rw, st))
  PROVE  /\ OrderOf(next, m) = OrderOf(mem, m) /\ ValuesOf(next, m) = ValuesOf(mem, m)
         /\ ElementsOf(next, v, st) = ElementsOf(mem, v, st)
         /\ PiecesOf(next, b) = PiecesOf(mem, b) /\ CopiesOf(next, n) = CopiesOf(mem, n)
<1> DEFINE F == Rest(mem, m, v, b, n, rw, st)
<1>1. /\ MapPart(mem, m) \subseteq F /\ VecPart(mem, v, st) \subseteq F
      /\ BufPart(mem, b) \subseteq F /\ SnapPart(mem, n) \subseteq F
  BY DEF Rest
<1> HIDE DEF F
<1>2. /\ Agree(mem, next, MapPart(mem, m)) /\ Agree(mem, next, VecPart(mem, v, st))
      /\ Agree(mem, next, BufPart(mem, b)) /\ Agree(mem, next, SnapPart(mem, n))
  BY <1>1, PartAgrees DEF F
<1> QED
  BY <1>2, MapKeeps, VecKeeps, BufKeeps, SnapKeeps

\* tiq_map_set, as its users see it.
LEMMA MapAssigned ==
  ASSUME NEW mem, NEW next, NEW p, NEW h, p # 0, MapOK(mem, p, h), MapOK(next, p, h),
         NEW k \in Key, NEW v \in Value, Assigned(mem, next, p, k, v)
  PROVE  /\ ValuesOf(next, p) = [ValuesOf(mem, p) EXCEPT ![k] = v]
         /\ OrderOf(next, p) = IF \E i \in DOMAIN OrderOf(mem, p) : OrderOf(mem, p)[i] = k
                               THEN OrderOf(mem, p) ELSE Append(OrderOf(mem, p), k)
<1> DEFINE n == mem[p].len
           ks == KeysOf(mem, p)
           vs == ValsOf(mem, p)
           e == Find(mem, mem[p], k)
<1>1. /\ n \in Nat /\ OnceEach(n, ks) /\ vs \in Seq(Value) /\ Len(vs) = n
      /\ next[p].len \in Nat /\ OnceEach(next[p].len, KeysOf(next, p))
  BY MapSeen
<1>2. /\ e \in -1..(n - 1)
      /\ e < 0 => \A i \in 1..n : ks[i] # k
      /\ e >= 0 => ks[e + 1] = k
  BY MapSought DEF Sought
<1>3. IF e >= 0 THEN Revalued(mem, next, p, e + 1, v) ELSE Added(mem, next, p, k, v)
  BY DEF Assigned
<1>4. OrderOf(mem, p) = ks /\ DOMAIN ks = 1..n /\ OrderOf(next, p) = KeysOf(next, p)
  BY DEF OrderOf, KeysOf
<1>5. ValuesOf(mem, p) = [j \in Key |-> Beside(n, ks, vs, j)]
      /\ ValuesOf(next, p) = [j \in Key |-> Beside(next[p].len, KeysOf(next, p), ValsOf(next, p), j)]
  BY DEF ValuesOf
<1>6. ks \in Seq({ks[i] : i \in 1..n}) /\ Len(ks) = n
  <2>1. ks = [i \in 1..n |-> ks[i]]
    BY DEF KeysOf
  <2> HIDE DEF ks, n
  <2>2. ks \in [1..n -> {ks[i] : i \in 1..n}]
    BY <2>1
  <2> QED
    BY <1>1, <2>2
<1> HIDE DEF n, ks, vs, e
<1>7. CASE e >= 0
  <2>1. next[p].len = n /\ KeysOf(next, p) = ks /\ ValsOf(next, p) = [vs EXCEPT ![e + 1] = v]
    BY <1>3, <1>7 DEF Revalued, n, ks, vs
  <2>2. e + 1 \in 1..n /\ ks[e + 1] = k
    BY <1>1, <1>2, <1>7
  <2> DEFINE ws == ValsOf(next, p)
  <2>3. SetAt(vs, ws, n, e + 1, v)
    BY <1>1, <2>1, <2>2 DEF SetAt
  <2> HIDE DEF ws
  <2>4. ASSUME NEW j \in Key PROVE Beside(n, ks, ws, j) = IF j = k THEN v ELSE Beside(n, ks, vs, j)
    BY <1>1, <2>2, <2>3, BesideRevalued
  <2>5. ValuesOf(next, p) = [j \in Key |-> IF j = k THEN v ELSE Beside(n, ks, vs, j)]
    BY <1>5, <2>1, <2>4 DEF ws
  <2>6. ValuesOf(next, p) = [ValuesOf(mem, p) EXCEPT ![k] = v]
    BY <1>5, <2>5
  <2> QED
    BY <1>4, <2>1, <2>2, <2>6
<1>8. CASE e < 0
  <2> DEFINE qs == KeysOf(next, p)
  <2>1. next[p].len = n + 1 /\ ValsOf(next, p) = Append(vs, v)
        /\ qs = [i \in 1..(n + 1) |-> IF i = n + 1 THEN k ELSE ks[i]]
    BY <1>1, <1>2, <1>3, <1>8 DEF Added, n, ks, vs
  <2> HIDE DEF qs
  <2>2. qs[n + 1] = k /\ \A i \in 1..n : qs[i] = ks[i]
    BY <1>1, <2>1
  <2>3. OnceEach(n + 1, qs) /\ \A i \in 1..n : ks[i] # k
    BY <1>1, <1>2, <1>8, <2>1 DEF qs
  <2> DEFINE ws == ValsOf(next, p)
  <2>4. AddedAt(vs, ws, n, v) /\ AddedAt(ks, qs, n, k)
    BY <1>1, <2>1, <2>2 DEF AddedAt
  <2> HIDE DEF ws
  <2>5. ASSUME NEW j \in Key PROVE Beside(n + 1, qs, ws, j) = IF j = k THEN v ELSE Beside(n, ks, vs, j)
    BY <1>1, <2>2, <2>3, <2>4, BesideAdded
  <2>6. ValuesOf(next, p) = [j \in Key |-> IF j = k THEN v ELSE Beside(n, ks, vs, j)]
    BY <1>5, <2>1, <2>5 DEF qs, ws
  <2>7. ValuesOf(next, p) = [ValuesOf(mem, p) EXCEPT ![k] = v]
    BY <1>5, <2>6
  <2>8. qs = Append(ks, k)
    <3> DEFINE as == Append(ks, k)
               S == {ks[i] : i \in 1..n} \cup {k}
    <3>1. ks \in Seq(S) /\ k \in S /\ Len(ks) = n
      BY <1>6
    <3> HIDE DEF S
    <3>2. as \in Seq(S) /\ Len(as) = n + 1 /\ as[n + 1] = k /\ \A i \in 1..n : as[i] = ks[i]
      BY <3>1, AppendProperties
    <3> HIDE DEF as
    <3>3. DOMAIN as = 1..(n + 1) /\ as = [i \in DOMAIN as |-> as[i]]
      BY <3>2, LenProperties
    <3>4. \A i \in 1..(n + 1) : as[i] = IF i = n + 1 THEN k ELSE ks[i]
      <4>1. \A i \in 1..(n + 1) : i = n + 1 \/ (i \in 1..n /\ i # n + 1)
        BY <1>1
      <4>2. as[n + 1] = k /\ \A i \in 1..n : as[i] = ks[i]
        BY <3>2
      <4> QED
        BY <4>1, <4>2
    <3>5. qs = as
      BY <2>1, <3>3, <3>4
    <3> QED
      BY <3>5 DEF as
  <2> QED
    BY <1>4, <2>3, <2>7, <2>8 DEF qs
<1> QED
  BY <1>1, <1>2, <1>7, <1>8

\* The elements of a vec, of ints or of strings.
LEMMA VecShape ==
  ASSUME NEW mem, NEW p, p # 0, NEW h, NEW st \in BOOLEAN, VecOK(mem, p, h, st)
  PROVE  /\ ElementsOf(mem, p, st) \in Seq(Value) /\ Len(ElementsOf(mem, p, st)) = mem[p].len
         /\ mem[p].len \in Nat /\ Len(CellsOf(mem, p)) = mem[p].len
         /\ st => CellsOf(mem, p) \in Seq(Nat) /\ ElementsOf(mem, p, st) = [i \in 1..mem[p].len |-> mem[CellsOf(mem, p)[i]]]
         /\ ~st => CellsOf(mem, p) \in Seq(Value) /\ ElementsOf(mem, p, st) = CellsOf(mem, p)
<1> DEFINE xs == CellsOf(mem, p)
<1>1. /\ xs \in Seq(IF st THEN Nat ELSE Value) /\ Len(xs) = mem[p].len /\ mem[p].len \in Nat
      /\ st => StringsOK(mem, xs, Value)
  BY DEF VecOK, CellsOf
<1> HIDE DEF xs
<1>2. CASE st
  <2>1. ElementsOf(mem, p, st) = [i \in 1..mem[p].len |-> mem[xs[i]]]
    BY <1>1, <1>2 DEF ElementsOf, Elems, xs
  <2>2. \A i \in 1..mem[p].len : mem[xs[i]] \in Value
    BY <1>1, <1>2 DEF StringsOK
  <2>3. [i \in 1..mem[p].len |-> mem[xs[i]]] \in Seq(Value) /\ Len([i \in 1..mem[p].len |-> mem[xs[i]]]) = mem[p].len
    BY <1>1, <2>2
  <2> QED
    BY <1>1, <1>2, <2>1, <2>3 DEF xs
<1>3. CASE ~st
  BY <1>1, <1>3 DEF ElementsOf, Elems, xs
<1> QED
  BY <1>2, <1>3

\* A string that is put in another's place.
LEMMA StrPut ==
  ASSUME NEW s, NEW p, p # 0, NEW F, VecIn(s, p, F, TRUE), NEW i \in Nat, i < s.mem[p].len, NEW w,
         NEW d, NEW b, Copied(s, d, p, F, b, w, TRUE),
         NEW next, NEW h, RewrittenOK(d.s.mem, next, p, h, [CellsOf(s.mem, p) EXCEPT ![i + 1] = d.p], TRUE)
  PROVE  /\ ElementsOf(next, p, TRUE) = [ElementsOf(s.mem, p, TRUE) EXCEPT ![i + 1] = w]
         /\ i + 1 \in DOMAIN ElementsOf(s.mem, p, TRUE)
<1> DEFINE mem == s.mem
           mid == d.s.mem
           n == mem[p].len
           xs == CellsOf(mem, p)
           ys == [xs EXCEPT ![i + 1] = d.p]
<1>1. /\ VecOK(mem, p, s.x.h, TRUE) /\ VecOK(mid, p, d.s.x.h, TRUE) /\ mid[d.p] = w
      /\ CellsOf(mid, p) = xs /\ mid[p].len = n /\ ElementsOf(mid, p, TRUE) = ElementsOf(mem, p, TRUE)
  BY DEF VecIn, Copied, SameVec, ElementsOf
<1>2. /\ n \in Nat /\ Len(xs) = n /\ xs \in Seq(Nat)
      /\ ElementsOf(mem, p, TRUE) = [j \in 1..n |-> mid[xs[j]]]
  <2>1. n \in Nat /\ Len(xs) = n /\ (TRUE => xs \in Seq(Nat))
    BY <1>1, VecShape
  <2> HIDE DEF mid
  <2>2. Len(CellsOf(mid, p)) = mid[p].len
    BY <1>1, VecShape
  <2>3. ElementsOf(mid, p, TRUE) = [j \in 1..mid[p].len |-> mid[CellsOf(mid, p)[j]]]
    BY <2>2 DEF ElementsOf, Elems
  <2> HIDE DEF xs, n
  <2> QED
    BY <1>1, <2>1, <2>3
<1>3. ElementsOf(next, p, TRUE) = [j \in 1..Len(ys) |-> mid[ys[j]]]
  BY DEF RewrittenOK, ElementsOf, Elems
<1> HIDE DEF n, xs, mid, mem
<1>4. i + 1 \in 1..n /\ DOMAIN xs = 1..n
  BY <1>2 DEF n, mem
<1>5. Len(ys) = n /\ ys[i + 1] = d.p /\ \A j \in 1..n : j # i + 1 => ys[j] = xs[j]
  BY <1>2, <1>4
<1> HIDE DEF ys
<1>6. ElementsOf(next, p, TRUE) = [j \in 1..n |-> IF j = i + 1 THEN w ELSE mid[xs[j]]]
  BY <1>1, <1>3, <1>5
<1>7. ElementsOf(next, p, TRUE) = [ElementsOf(mem, p, TRUE) EXCEPT ![i + 1] = w]
  BY <1>2, <1>4, <1>6
<1>8. i + 1 \in DOMAIN ElementsOf(mem, p, TRUE)
  BY <1>2, <1>4
<1> QED
  BY <1>7, <1>8 DEF mem

\* The first elements of a vec.
LEMMA ElemsShorter ==
  ASSUME NEW mem, NEW p, p # 0, NEW h, NEW st \in BOOLEAN, VecOK(mem, p, h, st), mem[p].len # 0,
         NEW next, NEW k, RewrittenOK(mem, next, p, k, SubSeq(CellsOf(mem, p), 1, mem[p].len - 1), st)
  PROVE  /\ ElementsOf(next, p, st) = SubSeq(ElementsOf(mem, p, st), 1, Len(ElementsOf(mem, p, st)) - 1)
         /\ ElementsOf(mem, p, st) # <<>>
<1> DEFINE n == mem[p].len
           xs == CellsOf(mem, p)
           ys == SubSeq(xs, 1, n - 1)
           es == ElementsOf(mem, p, st)
<1>1. /\ n \in Nat /\ Len(xs) = n /\ es \in Seq(Value) /\ Len(es) = n
      /\ st => xs \in Seq(Nat) /\ es = [i \in 1..n |-> mem[xs[i]]]
      /\ ~st => xs \in Seq(Value) /\ es = xs
  BY VecShape
<1>2. ElementsOf(next, p, st) = Elems(mem, ys, st)
  BY DEF RewrittenOK, ElementsOf
<1>3. n # 0
  OBVIOUS
<1> HIDE DEF n, xs, es
<1>4. es # <<>> /\ n - 1 \in Nat /\ n - 1 <= n
  BY <1>1, <1>3
<1>5. ASSUME st PROVE Elems(mem, ys, st) = SubSeq(es, 1, n - 1)
  <2>1. Len(ys) = n - 1 /\ \A i \in 1..(n - 1) : ys[i] = xs[i]
    BY <1>1, <1>4, <1>5
  <2> HIDE DEF ys
  <2>2. Elems(mem, ys, st) = [i \in 1..(n - 1) |-> mem[xs[i]]]
    BY <1>5, <2>1 DEF Elems
  <2> DEFINE zs == SubSeq(es, 1, n - 1)
  <2>3. zs \in Seq(Value) /\ Len(zs) = n - 1 /\ \A i \in 1..(n - 1) : zs[i] = es[i]
    BY <1>1, <1>4
  <2> HIDE DEF zs
  <2>4. zs = [i \in 1..(n - 1) |-> zs[i]]
    BY <2>3, LenProperties
  <2>5. \A i \in 1..(n - 1) : es[i] = mem[xs[i]]
    BY <1>1, <1>4, <1>5
  <2> QED
    BY <2>2, <2>3, <2>4, <2>5 DEF zs
<1>6. ASSUME ~st PROVE Elems(mem, ys, st) = SubSeq(es, 1, n - 1)
  BY <1>1, <1>6 DEF Elems
<1> QED
  BY <1>1, <1>2, <1>4, <1>5, <1>6 DEF n, es, xs

\* What is left of the containers after the end of an allocator.
LEMMA LeftSeen ==
  ASSUME NEW mem, NEW next, NEW m, NEW v, NEW b, NEW n, NEW rw, NEW st \in BOOLEAN, NEW h,
         MapFine(mem, m, h), VecFine(mem, v, h, st), BufFine(mem, b, h), SnapFine(mem, n),
         Agree(mem, next, Outside(Rest(mem, m, v, b, n, rw, st)))
  PROVE  /\ \/ OrderOf(next, Left(mem, m)) = OrderOf(mem, m) /\ ValuesOf(next, Left(mem, m)) = ValuesOf(mem, m)
            \/ OrderOf(next, Left(mem, m)) = <<>> /\ ValuesOf(next, Left(mem, m)) = [k \in Key |-> -1]
         /\ ElementsOf(next, Left(mem, v), st) \in {ElementsOf(mem, v, st), <<>>}
         /\ PiecesOf(next, Left(mem, b)) \in {PiecesOf(mem, b), <<>>}
         /\ CopiesOf(next, n) = CopiesOf(mem, n)
<1> DEFINE F == Outside(Rest(mem, m, v, b, n, rw, st))
<1>1. /\ Outside(MapPart(mem, m)) \subseteq F /\ Outside(VecPart(mem, v, st)) \subseteq F
      /\ Outside(BufPart(mem, b)) \subseteq F /\ Outside(SnapPart(mem, n)) \subseteq F
  BY DEF Rest, Outside
<1> HIDE DEF F
<1>2. OrderOf(next, 0) = <<>> /\ ValuesOf(next, 0) = [k \in Key |-> -1] /\ ElementsOf(next, 0, st) = <<>>
      /\ PiecesOf(next, 0) = <<>>
  BY DEF OrderOf, ValuesOf, ElementsOf, PiecesOf
<1>3. \/ OrderOf(next, Left(mem, m)) = OrderOf(mem, m) /\ ValuesOf(next, Left(mem, m)) = ValuesOf(mem, m)
      \/ OrderOf(next, Left(mem, m)) = <<>> /\ ValuesOf(next, Left(mem, m)) = [k \in Key |-> -1]
  <2>1. CASE Left(mem, m) = 0
    BY <1>2, <2>1
  <2>2. CASE Left(mem, m) # 0
    <3>1. Left(mem, m) = m /\ Outside(MapPart(mem, m)) = MapPart(mem, m)
      BY <2>2, OneAllocator DEF Left, Outside, MapPart
    <3>2. Agree(mem, next, MapPart(mem, m))
      BY <1>1, <3>1, PartAgrees DEF F
    <3> QED
      BY <3>1, <3>2, MapKeeps
  <2> QED
    BY <2>1, <2>2
<1>4. ElementsOf(next, Left(mem, v), st) \in {ElementsOf(mem, v, st), <<>>}
  <2>1. CASE Left(mem, v) = 0
    BY <1>2, <2>1
  <2>2. CASE Left(mem, v) # 0
    <3>1. Left(mem, v) = v /\ Outside(VecPart(mem, v, st)) = VecPart(mem, v, st)
      BY <2>2, OneAllocator DEF Left, Outside, VecPart
    <3>2. Agree(mem, next, VecPart(mem, v, st))
      BY <1>1, <3>1, PartAgrees DEF F
    <3> QED
      BY <3>1, <3>2, VecKeeps
  <2> QED
    BY <2>1, <2>2
<1>5. PiecesOf(next, Left(mem, b)) \in {PiecesOf(mem, b), <<>>}
  <2>1. CASE Left(mem, b) = 0
    BY <1>2, <2>1
  <2>2. CASE Left(mem, b) # 0
    <3>1. Left(mem, b) = b /\ Outside(BufPart(mem, b)) = BufPart(mem, b)
      BY <2>2, OneAllocator DEF Left, Outside, BufPart
    <3>2. Agree(mem, next, BufPart(mem, b))
      BY <1>1, <3>1, PartAgrees DEF F
    <3> QED
      BY <3>1, <3>2, BufKeeps
  <2> QED
    BY <2>1, <2>2
<1>6. CopiesOf(next, n) = CopiesOf(mem, n)
  <2>1. Outside(SnapPart(mem, n)) = SnapPart(mem, n)
    BY OneAllocator DEF Outside, SnapPart
  <2>2. Agree(mem, next, SnapPart(mem, n))
    BY <1>1, <2>1, PartAgrees DEF F
  <2> QED
    BY <2>2, SnapKeeps
<1> QED
  BY <1>3, <1>4, <1>5, <1>6

\* A new container is empty.
LEMMA NewSeen ==
  ASSUME NEW mem, NEW p
  PROVE  /\ mem[p].len = 0 => OrderOf(mem, p) = <<>> /\ ValuesOf(mem, p) = [k \in Key |-> -1]
         /\ CellsOf(mem, p) = <<>> => \A st \in BOOLEAN : ElementsOf(mem, p, st) = <<>>
         /\ TextOf(mem, p) = NoText => PiecesOf(mem, p) = <<>>
<1>1. ASSUME mem[p].len = 0 PROVE OrderOf(mem, p) = <<>> /\ ValuesOf(mem, p) = [k \in Key |-> -1]
  <2>1. 1..0 = {}
    OBVIOUS
  <2>2. KeysOf(mem, p) = <<>>
    BY <1>1, <2>1 DEF KeysOf
  <2>3. \A k \in Key : Beside(0, KeysOf(mem, p), ValsOf(mem, p), k) = -1
    BY <2>1 DEF Beside
  <2> QED
    BY <1>1, <2>2, <2>3 DEF OrderOf, ValuesOf
<1>2. ASSUME CellsOf(mem, p) = <<>>, NEW st \in BOOLEAN PROVE ElementsOf(mem, p, st) = <<>>
  <2>1. [i \in 1..Len(<<>>) |-> mem[<<>>[i]]] = <<>>
    OBVIOUS
  <2> QED
    BY <1>2, <2>1 DEF ElementsOf, Elems
<1>3. ASSUME TextOf(mem, p) = NoText PROVE PiecesOf(mem, p) = <<>>
  BY <1>3 DEF PiecesOf, NoText
<1> QED
  BY <1>1, <1>2, <1>3

\* What a program can do to a vec: an element more, another one, or one less.
VecChange(e, f) ==
  \/ \E w \in Value : f = Append(e, w)
  \/ \E i \in DOMAIN e, w \in Value : f = [e EXCEPT ![i] = w]
  \/ e # <<>> /\ f = SubSeq(e, 1, Len(e) - 1)

\* tiq_vec_push, as its users see it.
LEMMA PushSeen ==
  ASSUME NEW s, NEW p, p # 0, NEW F, NEW st \in BOOLEAN, VecIn(s, p, F, st), NEW w \in Value,
         NEW t, t = IF st THEN PushStr(s, p, w) ELSE Push(s, p, w), ~t.dead
  PROVE  VecStep(s, t, p, F, st) /\ VecChange(ElementsOf(s.mem, p, st), ElementsOf(t.mem, p, st))
<1>1. ElementsOf(s.mem, p, st) = Elems(s.mem, CellsOf(s.mem, p), st)
      /\ ElementsOf(t.mem, p, st) = Elems(t.mem, CellsOf(t.mem, p), st)
  BY DEF ElementsOf
<1>2. CASE st
  <2>1. st = TRUE /\ t = PushStr(s, p, w)
    BY <1>2
  <2>2. VecStep(s, t, p, F, TRUE)
        /\ Elems(t.mem, CellsOf(t.mem, p), TRUE) = Append(Elems(s.mem, CellsOf(s.mem, p), TRUE), w)
    BY <2>1, PushStrKept
  <2> QED
    BY <1>1, <2>1, <2>2 DEF VecChange
<1>3. CASE ~st
  <2>1. st = FALSE /\ t = Push(s, p, w)
    BY <1>3
  <2>2. Brings(s.mem, p, s.mem[p].len + 1, w, {}, st) /\ VecIn(s, p, F \cup {}, st) /\ {} \cap F = {}
    BY <2>1 DEF Brings
  <2>3. VecStep(s, t, p, F, st) /\ Pushed(s.mem, t.mem, p, w, st)
    BY <2>1, <2>2, PushKept
  <2>4. Elems(t.mem, CellsOf(t.mem, p), st) = Append(Elems(s.mem, CellsOf(s.mem, p), st), w)
    BY <2>1, <2>3 DEF Pushed, Shown
  <2> QED
    BY <1>1, <2>3, <2>4 DEF VecChange
<1> QED
  BY <1>2, <1>3

\* tiq_vec_set, as its users see it.
LEMMA SetSeen ==
  ASSUME NEW s, NEW p, p # 0, NEW F, NEW st \in BOOLEAN, VecIn(s, p, F, st), NEW i \in Nat, NEW w \in Value,
         NEW t, t = IF st THEN SetStr(s, p, i, w) ELSE SetCell(s, p, i, w), ~t.dead
  PROVE  VecStep(s, t, p, F, st) /\ VecChange(ElementsOf(s.mem, p, st), ElementsOf(t.mem, p, st))
<1>1. CASE st
  <2>1. st = TRUE /\ t = SetStr(s, p, i, w)
    BY <1>1
  <2>2. /\ VecStep(s, t, p, F, TRUE) /\ i < s.mem[p].len
        /\ \E d : /\ Copied(s, d, p, F, Owned(<<"vec", "string", i + 1>>, Block(d.p, StrLen[w] + 1, 1, s.mem[p].a)), w, TRUE)
                  /\ RewrittenOK(d.s.mem, t.mem, p, s.x.h, [CellsOf(s.mem, p) EXCEPT ![i + 1] = d.p], TRUE)
    BY <2>1, SetStrKept
  <2>3. PICK d, b : /\ Copied(s, d, p, F, b, w, TRUE)
                    /\ RewrittenOK(d.s.mem, t.mem, p, s.x.h, [CellsOf(s.mem, p) EXCEPT ![i + 1] = d.p], TRUE)
    BY <2>2
  <2>4. /\ ElementsOf(t.mem, p, TRUE) = [ElementsOf(s.mem, p, TRUE) EXCEPT ![i + 1] = w]
        /\ i + 1 \in DOMAIN ElementsOf(s.mem, p, TRUE)
    BY <2>1, <2>2, <2>3, StrPut
  <2> QED
    BY <2>1, <2>2, <2>4 DEF VecChange
<1>2. CASE ~st
  <2>1. st = FALSE /\ t = SetCell(s, p, i, w)
    BY <1>2
  <2>2. /\ VecStep(s, t, p, F, FALSE) /\ i < s.mem[p].len
        /\ RewrittenOK(s.mem, t.mem, p, s.x.h, [CellsOf(s.mem, p) EXCEPT ![i + 1] = w], FALSE)
    BY <2>1, SetCellKept
  <2>3. VecOK(s.mem, p, s.x.h, FALSE)
    BY <2>1 DEF VecIn
  <2>4. /\ ElementsOf(s.mem, p, FALSE) \in Seq(Value) /\ Len(ElementsOf(s.mem, p, FALSE)) = s.mem[p].len
        /\ s.mem[p].len \in Nat /\ (~FALSE => ElementsOf(s.mem, p, FALSE) = CellsOf(s.mem, p))
    BY <2>3, VecShape
  <2>5. ElementsOf(t.mem, p, FALSE) = [ElementsOf(s.mem, p, FALSE) EXCEPT ![i + 1] = w]
    BY <2>2, <2>4 DEF RewrittenOK, ElementsOf, Elems
  <2> DEFINE e == ElementsOf(s.mem, p, FALSE)
  <2>6. i + 1 \in DOMAIN e
    <3>1. e \in Seq(Value) /\ Len(e) = s.mem[p].len
      BY <2>4
    <3> HIDE DEF e
    <3>2. DOMAIN e = 1..s.mem[p].len
      BY <3>1, LenProperties
    <3> QED
      BY <2>2, <2>4, <3>2
  <2> QED
    BY <2>1, <2>2, <2>5, <2>6 DEF VecChange
<1> QED
  BY <1>1, <1>2

\* tiq_vec_pop, as its users see it.
LEMMA PopSeen ==
  ASSUME NEW s, NEW p, p # 0, NEW F, NEW st \in BOOLEAN, VecIn(s, p, F, st), ~s.dead,
         NEW t, t = IF st THEN PopStr(s, p) ELSE PopCell(s, p), ~t.dead
  PROVE  VecStep(s, t, p, F, st) /\ VecChange(ElementsOf(s.mem, p, st), ElementsOf(t.mem, p, st))
<1>1. VecStep(s, t, p, F, st) /\ s.mem[p].len # 0
      /\ RewrittenOK(s.mem, t.mem, p, s.x.h, SubSeq(CellsOf(s.mem, p), 1, s.mem[p].len - 1), st)
  <2>1. CASE st
    <3>1. st = TRUE /\ t = PopStr(s, p)
      BY <2>1
    <3> QED
      BY <3>1, PopStrKept
  <2>2. CASE ~st
    <3>1. st = FALSE /\ t = PopCell(s, p)
      BY <2>2
    <3> QED
      BY <3>1, PopCellKept
  <2> QED
    BY <2>1, <2>2
<1>2. VecOK(s.mem, p, s.x.h, st)
  BY DEF VecIn
<1>3. /\ ElementsOf(t.mem, p, st) = SubSeq(ElementsOf(s.mem, p, st), 1, Len(ElementsOf(s.mem, p, st)) - 1)
      /\ ElementsOf(s.mem, p, st) # <<>>
  BY <1>1, <1>2, ElemsShorter
<1> QED
  BY <1>1, <1>3 DEF VecChange

\* What the users of the containers see, of the memory.
Seen == /\ Order = OrderOf(store.mem, map) /\ Values = ValuesOf(store.mem, map)
        /\ Elements = ElementsOf(store.mem, vec, Strings)
        /\ Pieces = PiecesOf(store.mem, buf) /\ Copies = CopiesOf(store.mem, snap)

\* ViewsAre, as a fact about every state.
LEMMA InvSeen == IInv => Seen
  BY ViewsAre DEF Seen

\* In the beginning the containers are empty.
LEMMA InitSeen == Init => C!Init
<1> SUFFICES ASSUME Init PROVE C!Init
  OBVIOUS
<1>1. map = 0 /\ vec = 0 /\ buf = 0 /\ snap = 0
  BY DEF Init
<1>2. Seen
  BY InitFine, InvSeen
<1>3. Order = <<>> /\ Elements = <<>> /\ Pieces = <<>> /\ Copies = <<>> /\ Values = [k \in Key |-> -1]
  BY <1>1, <1>2 DEF Seen, OrderOf, ValuesOf, ElementsOf, PiecesOf, CopiesOf
<1> QED
  BY <1>3 DEF C!Init, C!NoValues

\* The steps of a program, as the users of its containers see them.
LEMMA StepSeen == IInv /\ IInv' /\ [Next]_vars => [C!Next]_(C!vars)
<1> SUFFICES ASSUME IInv, IInv', [Next]_vars PROVE [C!Next]_(C!vars)
  OBVIOUS
<1> DEFINE mem == store.mem
           M == Rest(mem, 0, vec, buf, snap, raw, Strings)
           V == Rest(mem, map, 0, buf, snap, raw, Strings)
           B == Rest(mem, map, vec, 0, snap, raw, Strings)
           N == Rest(mem, map, vec, buf, 0, raw, Strings)
<1>1. /\ Fine(store, map, vec, buf, snap, raw, Strings) /\ Strings \in BOOLEAN
      /\ MapFine(mem, map, store.x.h) /\ VecFine(mem, vec, store.x.h, Strings)
      /\ BufFine(mem, buf, store.x.h) /\ SnapFine(mem, snap)
  BY DEF IInv, Strings, Fine
<1>2. /\ map = 0 => Kept(store, M)
      /\ map # 0 => MapIn(store, map, M) /\ map \in Nat \ {0}
      /\ vec = 0 => Kept(store, V)
      /\ vec # 0 => VecIn(store, vec, V, Strings) /\ vec \in Nat \ {0}
      /\ buf = 0 => Kept(store, B)
      /\ buf # 0 => BufIn(store, buf, B) /\ buf \in Nat \ {0}
  BY <1>1, FineParts
<1>3. MapFine(mem, 0, store.x.h) /\ VecFine(mem, 0, store.x.h, Strings) /\ BufFine(mem, 0, store.x.h) /\ SnapFine(mem, 0)
  BY NoneFine
<1>4. ASSUME NEW next, Agree(mem, next, M)
      PROVE  /\ ElementsOf(next, vec, Strings) = ElementsOf(mem, vec, Strings)
             /\ PiecesOf(next, buf) = PiecesOf(mem, buf) /\ CopiesOf(next, snap) = CopiesOf(mem, snap)
  BY <1>1, <1>3, <1>4, RestSeen
<1>5. ASSUME NEW next, Agree(mem, next, V)
      PROVE  /\ OrderOf(next, map) = OrderOf(mem, map) /\ ValuesOf(next, map) = ValuesOf(mem, map)
             /\ PiecesOf(next, buf) = PiecesOf(mem, buf) /\ CopiesOf(next, snap) = CopiesOf(mem, snap)
  BY <1>1, <1>3, <1>5, RestSeen
<1>6. ASSUME NEW next, Agree(mem, next, B)
      PROVE  /\ OrderOf(next, map) = OrderOf(mem, map) /\ ValuesOf(next, map) = ValuesOf(mem, map)
             /\ ElementsOf(next, vec, Strings) = ElementsOf(mem, vec, Strings) /\ CopiesOf(next, snap) = CopiesOf(mem, snap)
  BY <1>1, <1>3, <1>6, RestSeen
<1>7. ASSUME NEW next, Agree(mem, next, N)
      PROVE  /\ OrderOf(next, map) = OrderOf(mem, map) /\ ValuesOf(next, map) = ValuesOf(mem, map)
             /\ ElementsOf(next, vec, Strings) = ElementsOf(mem, vec, Strings) /\ PiecesOf(next, buf) = PiecesOf(mem, buf)
  BY <1>1, <1>3, <1>7, RestSeen
<1>8. /\ Order = OrderOf(mem, map) /\ Values = ValuesOf(mem, map) /\ Elements = ElementsOf(mem, vec, Strings)
      /\ Pieces = PiecesOf(mem, buf) /\ Copies = CopiesOf(mem, snap)
  BY InvSeen DEF Seen
<1>9. Seen'
  BY InvSeen, PTL
<1>10. ASSUME uses' = uses
       PROVE  /\ Order' = OrderOf(store'.mem, map') /\ Values' = ValuesOf(store'.mem, map')
              /\ Elements' = ElementsOf(store'.mem, vec', Strings)
              /\ Pieces' = PiecesOf(store'.mem, buf') /\ Copies' = CopiesOf(store'.mem, snap')
  BY <1>9, <1>10 DEF Seen, Strings
<1> HIDE DEF M, V, B, N
<1>11. ASSUME uses' = uses,
              OrderOf(store'.mem, map') = OrderOf(mem, map), ValuesOf(store'.mem, map') = ValuesOf(mem, map),
              ElementsOf(store'.mem, vec', Strings) = ElementsOf(mem, vec, Strings),
              PiecesOf(store'.mem, buf') = PiecesOf(mem, buf), CopiesOf(store'.mem, snap') = CopiesOf(mem, snap)
       PROVE  UNCHANGED C!vars
  BY <1>8, <1>10, <1>11 DEF C!vars
<1>12. ASSUME UNCHANGED <<map, vec, buf, snap, uses>>, store'.mem = mem PROVE UNCHANGED C!vars
  BY <1>11, <1>12
<1>13. Exit(store).mem = mem
  BY <1>1, ExitKept DEF Fine
<1>14. ASSUME NEW o \in Openings, Open(o) PROVE UNCHANGED C!vars
  <2>1. map = 0 /\ vec = 0 /\ buf = 0 /\ snap = 0 /\ UNCHANGED <<map, vec, buf, snap, uses>>
    BY <1>1, <1>14, FineNothing DEF Open
  <2> QED
    BY <1>11, <2>1 DEF OrderOf, ValuesOf, ElementsOf, PiecesOf, CopiesOf
<1>15. ASSUME NEW a \in Handles, NewMap(a) PROVE UNCHANGED C!vars
  <2> DEFINE r == MapNew(store, a)
  <2>1. map = 0 /\ store' = Committed(r.s) /\ map' = Made(r) /\ UNCHANGED <<vec, buf, snap, uses>>
    BY <1>15 DEF NewMap
  <2>2. CASE r.s.dead
    BY <1>12, <1>13, <2>1, <2>2 DEF Committed, Made
  <2>3. CASE ~r.s.dead
    <3>1. store' = r.s /\ map' = r.p
      BY <2>1, <2>3 DEF Committed, Made
    <3>2. MapMade(store, r, M)
      BY <1>2, <1>15, <2>1, <2>3, HandlesKnown, MapNewKept
    <3> HIDE DEF r
    <3>3. Agree(mem, store'.mem, M) /\ store'.mem[map'].len = 0
      BY <3>1, <3>2 DEF MapMade
    <3>4. OrderOf(store'.mem, map') = <<>> /\ ValuesOf(store'.mem, map') = [k \in Key |-> -1]
      BY <3>3, NewSeen
    <3>5. OrderOf(mem, map) = <<>> /\ ValuesOf(mem, map) = [k \in Key |-> -1]
      BY <2>1 DEF OrderOf, ValuesOf
    <3>6. /\ ElementsOf(store'.mem, vec, Strings) = ElementsOf(mem, vec, Strings)
          /\ PiecesOf(store'.mem, buf) = PiecesOf(mem, buf) /\ CopiesOf(store'.mem, snap) = CopiesOf(mem, snap)
      BY <1>4, <3>3
    <3> QED
      BY <1>11, <2>1, <3>4, <3>5, <3>6
  <2> QED
    BY <2>2, <2>3
<1>16. ASSUME NEW a \in Handles, NewVec(a) PROVE UNCHANGED C!vars
  <2> DEFINE r == VecNew(store, a)
  <2>1. vec = 0 /\ store' = Committed(r.s) /\ vec' = Made(r) /\ UNCHANGED <<map, buf, snap, uses>>
    BY <1>16 DEF NewVec
  <2>2. CASE r.s.dead
    BY <1>12, <1>13, <2>1, <2>2 DEF Committed, Made
  <2>3. CASE ~r.s.dead
    <3>1. store' = r.s /\ vec' = r.p
      BY <2>1, <2>3 DEF Committed, Made
    <3>2. VecMade(store, r, V, Strings)
      BY <1>1, <1>2, <1>16, <2>1, <2>3, HandlesKnown, VecNewKept
    <3> HIDE DEF r
    <3>3. Agree(mem, store'.mem, V) /\ CellsOf(store'.mem, vec') = <<>>
      BY <3>1, <3>2 DEF VecMade
    <3>4. ElementsOf(store'.mem, vec', Strings) = <<>>
      BY <1>1, <3>3, NewSeen
    <3>5. ElementsOf(mem, vec, Strings) = <<>>
      BY <2>1 DEF ElementsOf
    <3>6. /\ OrderOf(store'.mem, map) = OrderOf(mem, map) /\ ValuesOf(store'.mem, map) = ValuesOf(mem, map)
          /\ PiecesOf(store'.mem, buf) = PiecesOf(mem, buf) /\ CopiesOf(store'.mem, snap) = CopiesOf(mem, snap)
      BY <1>5, <3>3
    <3> QED
      BY <1>11, <2>1, <3>4, <3>5, <3>6
  <2> QED
    BY <2>2, <2>3
<1>17. ASSUME NEW a \in Handles, NewBuf(a) PROVE UNCHANGED C!vars
  <2> DEFINE r == BufNew(store, a)
  <2>1. buf = 0 /\ store' = Committed(r.s) /\ buf' = Made(r) /\ UNCHANGED <<map, vec, snap, uses>>
    BY <1>17 DEF NewBuf
  <2>2. CASE r.s.dead
    BY <1>12, <1>13, <2>1, <2>2 DEF Committed, Made
  <2>3. CASE ~r.s.dead
    <3>1. store' = r.s /\ buf' = r.p
      BY <2>1, <2>3 DEF Committed, Made
    <3>2. BufMade(store, r, B)
      BY <1>2, <1>17, <2>1, <2>3, HandlesKnown, BufNewKept
    <3> HIDE DEF r
    <3>3. Agree(mem, store'.mem, B) /\ TextOf(store'.mem, buf') = NoText
      BY <3>1, <3>2 DEF BufMade, BufStep
    <3>4. PiecesOf(store'.mem, buf') = <<>>
      BY <3>3, NewSeen
    <3>5. PiecesOf(mem, buf) = <<>>
      BY <2>1 DEF PiecesOf
    <3>6. /\ OrderOf(store'.mem, map) = OrderOf(mem, map) /\ ValuesOf(store'.mem, map) = ValuesOf(mem, map)
          /\ ElementsOf(store'.mem, vec, Strings) = ElementsOf(mem, vec, Strings)
          /\ CopiesOf(store'.mem, snap) = CopiesOf(mem, snap)
      BY <1>6, <3>3
    <3> QED
      BY <1>11, <2>1, <3>4, <3>5, <3>6
  <2> QED
    BY <2>2, <2>3
<1>18. ASSUME NEW k \in Key, NEW v \in Value, SetKey(k, v) PROVE UNCHANGED C!vars \/ C!Set(k, v)
  <2> DEFINE t == MapSet(store, map, k, v)
  <2>1. map # 0 /\ store' = Committed(t) /\ UNCHANGED <<map, vec, buf, snap, uses>>
    BY <1>18 DEF SetKey
  <2>2. CASE t.dead
    BY <1>12, <1>13, <2>1, <2>2 DEF Committed
  <2>3. CASE ~t.dead
    <3>1. store' = t
      BY <2>1, <2>3 DEF Committed
    <3>2. MapStep(store, t, map, M) /\ Assigned(mem, t.mem, map, k, v)
      BY <1>2, <2>1, <2>3, MapSetKept
    <3> HIDE DEF t
    <3>3. MapOK(mem, map, store.x.h) /\ MapOK(t.mem, map, store.x.h) /\ Agree(mem, t.mem, M)
      BY <1>2, <2>1, <3>2 DEF MapStep, MapIn, Like
    <3>4. /\ ValuesOf(t.mem, map) = [ValuesOf(mem, map) EXCEPT ![k] = v]
          /\ OrderOf(t.mem, map) = IF \E i \in DOMAIN OrderOf(mem, map) : OrderOf(mem, map)[i] = k
                                   THEN OrderOf(mem, map) ELSE Append(OrderOf(mem, map), k)
      <4> DEFINE next == t.mem
      <4>1. MapOK(next, map, store.x.h) /\ Assigned(mem, next, map, k, v)
        BY <3>2, <3>3
      <4> HIDE DEF mem, next
      <4>2. ValuesOf(next, map) = [ValuesOf(mem, map) EXCEPT ![k] = v]
        BY <2>1, <3>3, <4>1, MapAssigned
      <4>3. OrderOf(next, map) = IF \E i \in DOMAIN OrderOf(mem, map) : OrderOf(mem, map)[i] = k
                                 THEN OrderOf(mem, map) ELSE Append(OrderOf(mem, map), k)
        BY <2>1, <3>3, <4>1, MapAssigned
      <4> QED
        BY <4>2, <4>3 DEF next
    <3>5. /\ ElementsOf(t.mem, vec, Strings) = ElementsOf(mem, vec, Strings)
          /\ PiecesOf(t.mem, buf) = PiecesOf(mem, buf) /\ CopiesOf(t.mem, snap) = CopiesOf(mem, snap)
      BY <1>4, <3>3
    <3>6. Values' = [Values EXCEPT ![k] = v]
          /\ Order' = IF \E i \in DOMAIN Order : Order[i] = k THEN Order ELSE Append(Order, k)
      BY <1>8, <1>10, <2>1, <3>1, <3>4
    <3>7. Elements' = Elements /\ Pieces' = Pieces /\ Copies' = Copies
      BY <1>8, <1>10, <2>1, <3>1, <3>5
    <3> QED
      BY <3>6, <3>7 DEF C!Set
  <2> QED
    BY <2>2, <2>3
<1>19. ASSUME NEW t, vec # 0, store' = Committed(t), UNCHANGED <<map, vec, buf, snap, uses>>,
              ~t.dead => /\ VecStep(store, t, vec, V, Strings)
                         /\ VecChange(ElementsOf(mem, vec, Strings), ElementsOf(t.mem, vec, Strings))
       PROVE  [C!Next]_(C!vars)
  <2>1. CASE t.dead
    BY <1>12, <1>13, <1>19, <2>1 DEF Committed
  <2>2. CASE ~t.dead
    <3>1. store' = t /\ Agree(mem, t.mem, V)
      BY <1>19, <2>2 DEF Committed, VecStep
    <3>2. /\ OrderOf(t.mem, map) = OrderOf(mem, map) /\ ValuesOf(t.mem, map) = ValuesOf(mem, map)
          /\ PiecesOf(t.mem, buf) = PiecesOf(mem, buf) /\ CopiesOf(t.mem, snap) = CopiesOf(mem, snap)
      BY <1>5, <3>1
    <3>3. UNCHANGED <<Order, Values, Pieces, Copies>>
      BY <1>8, <1>10, <1>19, <3>1, <3>2
    <3>4. VecChange(Elements, Elements')
      BY <1>8, <1>10, <1>19, <2>2, <3>1
    <3>5. CASE \E w \in Value : Elements' = Append(Elements, w)
      BY <3>3, <3>5 DEF C!Next, C!Push
    <3>6. CASE \E i \in DOMAIN Elements, w \in Value : Elements' = [Elements EXCEPT ![i] = w]
      BY <3>3, <3>6 DEF C!Next, C!SetAt
    <3>7. CASE Elements # <<>> /\ Elements' = SubSeq(Elements, 1, Len(Elements) - 1)
      BY <3>3, <3>7 DEF C!Next, C!Pop
    <3> QED
      BY <3>4, <3>5, <3>6, <3>7 DEF VecChange
  <2> QED
    BY <2>1, <2>2
<1>20. ASSUME NEW w \in Value, PushElem(w) PROVE [C!Next]_(C!vars)
  <2> DEFINE t == IF Strings THEN PushStr(store, vec, w) ELSE Push(store, vec, w)
  <2>1. vec # 0 /\ store' = Committed(t) /\ UNCHANGED <<map, vec, buf, snap, uses>>
    BY <1>20 DEF PushElem
  <2>2. ~t.dead => /\ VecStep(store, t, vec, V, Strings)
                   /\ VecChange(ElementsOf(mem, vec, Strings), ElementsOf(t.mem, vec, Strings))
    BY <1>1, <1>2, <2>1, PushSeen
  <2> HIDE DEF t
  <2> QED
    BY <1>19, <2>1, <2>2
<1>21. ASSUME NEW i \in 0..MaxElems, NEW w \in Value, SetElem(i, w) PROVE [C!Next]_(C!vars)
  <2> DEFINE t == IF Strings THEN SetStr(store, vec, i, w) ELSE SetCell(store, vec, i, w)
  <2>1. vec # 0 /\ store' = Committed(t) /\ UNCHANGED <<map, vec, buf, snap, uses>> /\ i \in Nat
    BY <1>21 DEF SetElem
  <2>2. ~t.dead => /\ VecStep(store, t, vec, V, Strings)
                   /\ VecChange(ElementsOf(mem, vec, Strings), ElementsOf(t.mem, vec, Strings))
    BY <1>1, <1>2, <2>1, SetSeen
  <2> HIDE DEF t
  <2> QED
    BY <1>19, <2>1, <2>2
<1>22. ASSUME PopElem PROVE [C!Next]_(C!vars)
  <2> DEFINE t == IF Strings THEN PopStr(store, vec) ELSE PopCell(store, vec)
  <2>1. vec # 0 /\ store' = Committed(t) /\ UNCHANGED <<map, vec, buf, snap, uses>> /\ ~store.dead
    BY <1>22 DEF PopElem
  <2>2. ~t.dead => /\ VecStep(store, t, vec, V, Strings)
                   /\ VecChange(ElementsOf(mem, vec, Strings), ElementsOf(t.mem, vec, Strings))
    BY <1>1, <1>2, <2>1, PopSeen
  <2> HIDE DEF t
  <2> QED
    BY <1>19, <2>1, <2>2
<1>23. ASSUME NEW w \in Piece, AppendText(w) PROVE UNCHANGED C!vars \/ C!AppendPiece(w)
  <2> DEFINE t == BufAppend(store, buf, w)
  <2>1. buf # 0 /\ store' = Committed(t) /\ UNCHANGED <<map, vec, buf, snap, uses>>
    BY <1>23 DEF AppendText
  <2>2. CASE t.dead
    BY <1>12, <1>13, <2>1, <2>2 DEF Committed
  <2>3. CASE ~t.dead
    <3>1. store' = t
      BY <2>1, <2>3 DEF Committed
    <3>2. BufStep(store, t, buf, B)
          /\ TextOf(t.mem, buf) = IF StrLen[w] = 0 THEN TextOf(mem, buf) ELSE Join(TextOf(mem, buf), w)
      BY <1>2, <2>1, <2>3, BufAppendKept
    <3> HIDE DEF t
    <3>3. /\ OrderOf(t.mem, map) = OrderOf(mem, map) /\ ValuesOf(t.mem, map) = ValuesOf(mem, map)
          /\ ElementsOf(t.mem, vec, Strings) = ElementsOf(mem, vec, Strings)
          /\ CopiesOf(t.mem, snap) = CopiesOf(mem, snap)
      BY <1>6, <3>2 DEF BufStep
    <3>4. CASE StrLen[w] = 0
      <4>1. PiecesOf(t.mem, buf) = PiecesOf(mem, buf)
        BY <3>2, <3>4 DEF PiecesOf
      <4> QED
        BY <1>11, <2>1, <3>1, <3>3, <4>1
    <3>5. CASE StrLen[w] # 0
      <4>1. PiecesOf(t.mem, buf) = Append(PiecesOf(mem, buf), w)
        BY <2>1, <3>2, <3>5 DEF PiecesOf, Join
      <4>2. Pieces' = Append(Pieces, w) /\ UNCHANGED <<Order, Values, Elements, Copies>>
        BY <1>8, <1>10, <2>1, <3>1, <3>3, <4>1
      <4> QED
        BY <4>2 DEF C!AppendPiece
    <3> QED
      BY <3>4, <3>5
  <2> QED
    BY <2>2, <2>3
<1>24. ASSUME MakeString PROVE UNCHANGED C!vars \/ C!Make
  <2> DEFINE r == ToStr(store, buf)
  <2>1. buf # 0 /\ snap = 0 /\ store' = Committed(r.s) /\ snap' = Made(r) /\ UNCHANGED <<map, vec, buf, uses>>
    BY <1>24 DEF MakeString
  <2>2. CASE r.s.dead
    BY <1>12, <1>13, <2>1, <2>2 DEF Committed, Made
  <2>3. CASE ~r.s.dead
    <3>1. store' = r.s /\ snap' = r.p
      BY <2>1, <2>3 DEF Committed, Made
    <3>2. Kept(store, N) /\ BufOK(mem, buf, store.x.h)
      BY <1>1, <2>1 DEF Fine, BufFine, N
    <3>3. StringMade(store, r, N) /\ r.s.mem[r.p] = TextOf(mem, buf)
      BY <2>3, <3>2, ToStrKept
    <3> HIDE DEF r
    <3>4. r.p # 0 /\ Agree(mem, r.s.mem, N)
      BY <3>3 DEF StringMade
    <3>5. CopiesOf(r.s.mem, r.p) = <<PiecesOf(mem, buf)>>
      BY <2>1, <3>3, <3>4 DEF CopiesOf, PiecesOf
    <3>6. /\ OrderOf(r.s.mem, map) = OrderOf(mem, map) /\ ValuesOf(r.s.mem, map) = ValuesOf(mem, map)
          /\ ElementsOf(r.s.mem, vec, Strings) = ElementsOf(mem, vec, Strings)
          /\ PiecesOf(r.s.mem, buf) = PiecesOf(mem, buf)
      BY <1>7, <3>4
    <3>7. Copies' = <<Pieces>> /\ UNCHANGED <<Order, Values, Elements, Pieces>>
      BY <1>8, <1>10, <2>1, <3>1, <3>5, <3>6
    <3> QED
      BY <3>7 DEF C!Make
  <2> QED
    BY <2>2, <2>3
<1>25. ASSUME FreeString PROVE C!Destroy
  <2>1. snap # 0 /\ store' = Release(Forget(store, {snap}), {snap}) /\ snap' = 0 /\ UNCHANGED <<map, vec, buf, uses>>
    BY <1>25 DEF FreeString
  <2>2. Agree(mem, store'.mem, N)
    BY <1>1, <2>1, FineFreed DEF N
  <2>3. /\ OrderOf(store'.mem, map) = OrderOf(mem, map) /\ ValuesOf(store'.mem, map) = ValuesOf(mem, map)
        /\ ElementsOf(store'.mem, vec, Strings) = ElementsOf(mem, vec, Strings)
        /\ PiecesOf(store'.mem, buf) = PiecesOf(mem, buf)
    BY <1>7, <2>2
  <2>4. CopiesOf(store'.mem, snap') = <<>>
    BY <2>1 DEF CopiesOf
  <2>5. Copies' = <<>> /\ UNCHANGED <<Order, Values, Elements, Pieces>>
    BY <1>8, <1>10, <2>1, <2>3, <2>4
  <2> QED
    BY <2>5 DEF C!Destroy
<1>26. ASSUME NEW n \in RawSizes, NEW al \in RawAligns, RawAlloc(n, al) PROVE UNCHANGED C!vars
  <2>1. store.x.kind # "none" /\ store' = AllocatorAlloc(store, n, al).s /\ UNCHANGED <<map, vec, buf, snap, uses>>
    BY <1>26 DEF RawAlloc
  <2>2. n \in Nat /\ al \in Nat
    BY ContainersAssumption
  <2>3. CASE AllocatorAlloc(store, n, al).p = 0
    BY <1>1, <1>12, <2>1, <2>2, <2>3, AllocRefusedKept DEF Fine
  <2>4. CASE AllocatorAlloc(store, n, al).p # 0
    <3>1. /\ Fine(AllocatorAlloc(store, n, al).s, map, vec, buf, snap,
                  raw \cup {Block(AllocatorAlloc(store, n, al).p, n, al, store.x.h)}, Strings)
          /\ AllocatorAlloc(store, n, al).s.mem = store.mem
      BY <1>1, <2>1, <2>2, <2>4, FineAlloc
    <3> QED
      BY <1>12, <2>1, <3>1
  <2> QED
    BY <2>3, <2>4
<1>27. ASSUME NEW b \in raw, RawFree(b) PROVE UNCHANGED C!vars
  <2>1. /\ Fine(AllocatorDealloc(store, b.p), map, vec, buf, snap, raw \ {b}, Strings)
        /\ AllocatorDealloc(store, b.p).mem = store.mem
    BY <1>1, FineDealloc
  <2> QED
    BY <1>12, <1>27, <2>1 DEF RawFree
<1>28. ASSUME NEW p \in StrayAddresses, StrayFree(p) PROVE UNCHANGED C!vars
  <2>1. store.x.kind = "pool" /\ store' = AllocatorDealloc(store, p) /\ UNCHANGED <<map, vec, buf, snap, uses>>
    BY <1>28 DEF StrayFree
  <2>2. \/ p \in {store.x.buf - 1, store.x.buf + Extent(store.x)}
        \/ \E i \in store.x.used : p = BlockAt(store.x, i) + 1
        \/ \E i \in (0..(store.x.count - 1)) \ store.x.used : p = BlockAt(store.x, i)
    BY DEF StrayAddresses
  <2>3. AllocatorDealloc(store, p) = store
    BY <1>1, <2>1, <2>2, StrayKept DEF Fine
  <2> QED
    BY <1>12, <2>1, <2>3
<1>29. ASSUME NEW t, Empty(t),
              store.x.kind \in {"arena", "pool"} =>
                Agree(mem, t.mem, Outside(Rest(mem, map, vec, buf, snap, raw, Strings)))
       PROVE  C!Vanish
  <2>1. /\ store.x.kind \in {"arena", "pool"} /\ store' = t /\ UNCHANGED <<snap, uses>>
        /\ map' = Left(mem, map) /\ vec' = Left(mem, vec) /\ buf' = Left(mem, buf)
    BY <1>29 DEF Empty, Surviving, Left
  <2>2. Agree(mem, t.mem, Outside(Rest(mem, map, vec, buf, snap, raw, Strings)))
    BY <1>29, <2>1
  <2>3. /\ \/ OrderOf(t.mem, Left(mem, map)) = OrderOf(mem, map) /\ ValuesOf(t.mem, Left(mem, map)) = ValuesOf(mem, map)
           \/ OrderOf(t.mem, Left(mem, map)) = <<>> /\ ValuesOf(t.mem, Left(mem, map)) = [k \in Key |-> -1]
        /\ ElementsOf(t.mem, Left(mem, vec), Strings) \in {ElementsOf(mem, vec, Strings), <<>>}
        /\ PiecesOf(t.mem, Left(mem, buf)) \in {PiecesOf(mem, buf), <<>>}
        /\ CopiesOf(t.mem, snap) = CopiesOf(mem, snap)
    BY <1>1, <2>2, LeftSeen
  <2>4. /\ UNCHANGED <<Order, Values>> \/ (Order' = <<>> /\ Values' = [k \in Key |-> -1])
        /\ Elements' \in {Elements, <<>>} /\ Pieces' \in {Pieces, <<>>} /\ Copies' = Copies
    BY <1>8, <1>10, <2>1, <2>3
  <2> QED
    BY <2>4 DEF C!Vanish, C!NoValues
<1>30. ASSUME Reset PROVE C!Vanish
  <2> DEFINE t == AllocatorReset(Emptied(store))
  <2>1. store.x.kind \in {"arena", "pool"} =>
          Agree(mem, t.mem, Outside(Rest(mem, map, vec, buf, snap, raw, Strings)))
    BY <1>1, FineReset
  <2>2. Empty(t)
    BY <1>30 DEF Reset
  <2> HIDE DEF t
  <2> QED
    BY <1>29, <2>1, <2>2
<1>31. ASSUME DestroyAllocator PROVE C!Vanish
  <2> DEFINE t == AllocatorDestroy(Emptied(store))
  <2>1. store.x.kind \in {"arena", "pool"} =>
          Agree(mem, t.mem, Outside(Rest(mem, map, vec, buf, snap, raw, Strings)))
    BY <1>1, FineDestroyed
  <2>2. Empty(t)
    BY <1>31 DEF DestroyAllocator
  <2> HIDE DEF t
  <2> QED
    BY <1>29, <2>1, <2>2
<1>32. CASE UNCHANGED vars
  BY <1>12, <1>32 DEF vars
<1>33. ASSUME Next PROVE [C!Next]_(C!vars)
  <2>1. \A k \in Key, v \in Value : C!Set(k, v) => C!Next
    BY DEF C!Next
  <2>2. \A w \in Piece : C!AppendPiece(w) => C!Next
    BY DEF C!Next
  <2>3. (C!Make => C!Next) /\ (C!Destroy => C!Next) /\ (C!Vanish => C!Next)
    BY DEF C!Next
  <2> QED
    BY <1>14, <1>15, <1>16, <1>17, <1>18, <1>20, <1>21, <1>22, <1>23, <1>24, <1>25, <1>26, <1>27, <1>28,
       <1>30, <1>31, <1>33, <2>1, <2>2, <2>3 DEF Next
<1> QED
  BY <1>32, <1>33

\* The map, the vec and the builder are what docs/LANGUAGE_SPEC.md promises.
THEOREM Refinement == Spec => Implements
<1>1. Spec => []IInv
  BY Invariance
<1> QED
  BY <1>1, InitSeen, StepSeen, PTL DEF Spec, Implements, C!Spec
=============================================================================
