------------------------ MODULE DatabaseCachesProofs ------------------------
(***************************************************************************)
(* Proofs about DatabaseCaches and its associative cache, for every set of *)
(* keys, any slots they share, every size of a record and any size of      *)
(* either cache: of the ring, of the table of indexes and of the counter.  *)
(***************************************************************************)
EXTENDS DatabaseCaches, FiniteSetTheorems, NaturalsInduction, WellFoundedInduction, TLAPS

-----------------------------------------------------------------------------
(* The associative cache: what storing an entry and clearing the cache do  *)
(* to MtaInv.                                                              *)

\* What the assumption says about the sizes.
LEMMA Sizes ==
    /\ indexesSize \in Nat \ {0} /\ cacheSize \in Nat \ {0} /\ RawValues \in Nat \ {0}
    /\ RawValues % cacheSize = 0
    /\ RawValues >= 2 * cacheSize + 2
    /\ UINT32_MAX \in Nat /\ UINT32_MAX = RawValues - 1
    /\ \A k \in DOMAIN slots : \A i \in 1..4 : slots[k][i] \in 0..indexesSize - 1
    /\ NoEntry \notin DOMAIN slots
  BY AssociativeCacheAssumption DEF AssociativeCacheAssumption, UINT32_MAX

-----------------------------------------------------------------------------
(* The position of a raw index in the ring.                                *)

\* A number is n * q + p with p below n in one way only, and p is its remainder.
LEMMA ModOfSum ==
    ASSUME NEW n \in Nat \ {0}, NEW q \in Nat, NEW p \in 0..n - 1
    PROVE  ((n * q) + p) % n = p
  OBVIOUS

LEMMA ModIs ==
    ASSUME NEW n \in Nat \ {0}, NEW q \in Nat, NEW p \in 0..n - 1,
           NEW a \in Nat, a = (n * q) + p
    PROVE  a % n = p
  BY ModOfSum

LEMMA ModAndQuotient ==
    ASSUME NEW n \in Nat \ {0}, NEW a \in Nat
    PROVE  \E q \in Nat : \E p \in 0..n - 1 : a = (n * q) + p /\ a % n = p
<1>1. a % n \in 0..n - 1 /\ a = (n * (a \div n)) + (a % n) /\ a \div n \in Nat
  OBVIOUS
<1> QED
  BY <1>1

LEMMA Distribute ==
    ASSUME NEW n \in Nat, NEW q \in Nat, NEW r \in Nat
    PROVE  n * (q + r) = (n * q) + (n * r) /\ n * q \in Nat /\ n * r \in Nat
  OBVIOUS

\* A multiple of n does not change the remainder.
LEMMA ModOfMultiple ==
    ASSUME NEW n \in Nat \ {0}, NEW a \in Nat, NEW m \in Nat, m % n = 0
    PROVE  (a + m) % n = a % n
<1>1. PICK q \in Nat, p \in 0..n - 1 : a = (n * q) + p /\ a % n = p
  BY ModAndQuotient
<1>2. PICK r \in Nat : m = n * r
  <2>1. PICK r \in Nat, z \in 0..n - 1 : m = (n * r) + z /\ m % n = z
    BY ModAndQuotient
  <2>2. z = 0
    BY <2>1
  <2> QED
    BY <2>1, <2>2
<1>3. PICK b \in Nat, u \in Nat : b = a + m /\ u = q + r
  OBVIOUS
<1>4. b = (n * u) + p
  BY <1>1, <1>2, <1>3, Distribute
<1>5. b % n = p
  BY <1>4, ModIs
<1> QED
  BY <1>1, <1>3, <1>5

\* Two numbers less than n apart have different remainders.
LEMMA ModDiffers ==
    ASSUME NEW n \in Nat \ {0}, NEW a \in Nat, NEW d \in 1..n - 1
    PROVE  (a + d) % n # a % n
<1>1. PICK q \in Nat, p \in 0..n - 1 : a = (n * q) + p /\ a % n = p
  BY ModAndQuotient
<1>2. PICK b \in Nat : b = a + d
  OBVIOUS
<1>3. CASE p + d < n
  <2>1. PICK e \in 0..n - 1 : e = p + d
    BY <1>3
  <2>2. b = (n * q) + e
    BY <1>1, <1>2, <2>1, Distribute
  <2>3. b % n = e
    BY <2>2, ModIs
  <2> QED
    BY <1>1, <1>2, <2>1, <2>3
<1>4. CASE p + d >= n
  <2>1. PICK e \in 0..n - 1, u \in Nat : e = p + d - n /\ u = q + 1
    BY <1>4
  <2>2. n * u = (n * q) + n /\ n * q \in Nat
    BY <2>1, Distribute
  <2>3. b = (n * u) + e
    BY <1>1, <1>2, <2>1, <2>2
  <2>4. b % n = e
    BY <2>3, ModIs
  <2> QED
    BY <1>1, <1>2, <2>1, <2>4
<1> QED
  BY <1>3, <1>4

-----------------------------------------------------------------------------
(* Raw indexes and the counter.                                            *)

\* The counter stays in its width, and the index just used is a recent one.
LEMMA CounterStep ==
    ASSUME NEW c \in 0..UINT32_MAX
    PROVE  NextIndex(c) \in 0..UINT32_MAX /\ Recent(NextIndex(c), c)
  BY Sizes DEF NextIndex, Recent

\* The index of a recent insertion is never taken for that of an empty slot,
\* on either side of the point where the counter wraps.
LEMMA RecentNotEmpty ==
    ASSUME NEW c \in 0..UINT32_MAX, NEW raw \in 0..UINT32_MAX, Recent(c, raw)
    PROVE  ~emptyCacheSlot(c, raw)
  BY Sizes DEF emptyCacheSlot, Recent

\* The other recent insertions were recent before, at other positions.
LEMMA RecentBefore ==
    ASSUME NEW c \in 0..UINT32_MAX, NEW raw \in 0..UINT32_MAX,
           Recent(NextIndex(c), raw), raw # c
    PROVE  Recent(c, raw) /\ raw % cacheSize # c % cacheSize
<1>a. cacheSize \in Nat \ {0} /\ RawValues \in Nat /\ c \in Nat /\ raw \in Nat
      /\ RawValues % cacheSize = 0
  BY Sizes
<1>1. \/ /\ raw < c /\ c - raw \in 1..cacheSize - 1
      \/ /\ raw > c /\ c + RawValues - raw \in 1..cacheSize - 1
  BY Sizes DEF NextIndex, Recent
<1>2. Recent(c, raw)
  BY <1>1, Sizes DEF Recent
<1>3. CASE raw < c
  <2>1. PICK d \in 1..cacheSize - 1 : c = raw + d
    BY <1>1, <1>3, Sizes
  <2>2. (raw + d) % cacheSize # raw % cacheSize
    BY <1>a, ModDiffers
  <2> QED
    BY <1>2, <2>1, <2>2
<1>4. CASE raw > c
  <2>1. PICK d \in 1..cacheSize - 1 : c + RawValues = raw + d
    BY <1>1, <1>4, Sizes
  <2>2. (c + RawValues) % cacheSize = c % cacheSize
    BY <1>a, ModOfMultiple
  <2>3. (raw + d) % cacheSize # raw % cacheSize
    BY <1>a, ModDiffers
  <2> QED
    BY <1>2, <2>1, <2>2, <2>3
<1> QED
  BY <1>3, <1>4, Sizes

\* Every position of the ring is that of a recent insertion.
LEMMA RecentAtPosition ==
    ASSUME NEW c \in 0..UINT32_MAX, NEW p \in 0..cacheSize - 1
    PROVE  \E raw \in 0..UINT32_MAX : Recent(c, raw) /\ raw % cacheSize = p
<1>a. cacheSize \in Nat \ {0} /\ c \in Nat /\ p \in Nat
  BY Sizes
<1>1. PICK q \in Nat, m \in 0..cacheSize - 1 : c = (cacheSize * q) + m
  BY <1>a, ModAndQuotient
<1>2. cacheSize * q \in Nat
  BY <1>a, Distribute
<1>3. CASE p < m
  <2>1. PICK raw \in Nat : raw = (cacheSize * q) + p
    BY <1>2, <1>a
  <2>2. raw % cacheSize = p
    BY <2>1, <1>a, ModIs
  <2>3. raw \in 0..UINT32_MAX /\ Recent(c, raw)
    BY <1>1, <1>2, <1>3, <2>1, Sizes DEF Recent
  <2> QED
    BY <2>2, <2>3
<1>4. CASE p >= m /\ q # 0
  <2>1. PICK u \in Nat : q = u + 1
    BY <1>4
  <2>2. cacheSize * q = (cacheSize * u) + cacheSize /\ cacheSize * u \in Nat
    BY <2>1, <1>a, Distribute
  <2>3. PICK raw \in Nat : raw = (cacheSize * u) + p
    BY <2>2, <1>a
  <2>4. raw % cacheSize = p
    BY <2>3, <1>a, ModIs
  <2>5. raw \in 0..UINT32_MAX /\ Recent(c, raw)
    BY <1>1, <1>4, <2>2, <2>3, Sizes DEF Recent
  <2> QED
    BY <2>4, <2>5
<1>5. CASE p >= m /\ q = 0
  <2>1. c = m
    BY <1>1, <1>5, <1>a
  <2>2. PICK raw \in Nat : raw = RawValues - cacheSize + p
    BY <1>a, Sizes
  <2>3. (raw + cacheSize) % cacheSize = raw % cacheSize
    <3>1. cacheSize % cacheSize = 0
      BY <1>a
    <3> QED
      BY <3>1, <1>a, ModOfMultiple
  <2>4. (p + RawValues) % cacheSize = p % cacheSize
    BY <1>a, Sizes, ModOfMultiple
  <2>5. p % cacheSize = p
    BY <1>a
  <2>6. raw + cacheSize = p + RawValues
    BY <2>2, <1>a, Sizes
  <2>7. raw % cacheSize = p
    BY <2>3, <2>4, <2>5, <2>6
  <2>8. raw \in 0..UINT32_MAX /\ Recent(c, raw)
    BY <2>1, <2>2, <1>5, Sizes DEF Recent
  <2> QED
    BY <2>7, <2>8
<1> QED
  BY <1>3, <1>4, <1>5, <1>a

-----------------------------------------------------------------------------
(* The minimum of the loops over the four slots.                           *)

\* A set of numbers that is not empty has a least one.
LEMMA LeastNumber ==
    ASSUME NEW T \in SUBSET Nat, T # {}
    PROVE  \E x \in T : \A y \in T : x <= y
<1> DEFINE R == {ss \in Nat \X Nat : ss[1] < ss[2]}
<1>1. IsWellFoundedOn(R, Nat)
  BY NatLessThanWellFounded DEF OpToRel
<1>2. PICK x \in T : \A y \in T : ~(<<y, x>> \in R)
  BY <1>1, WFMin
<1>3. \A y \in T : ~(y < x)
  BY <1>2
<1> QED
  BY <1>3

\* The first free slot is free.
LEMMA MinOfSlots ==
    ASSUME NEW T \in SUBSET (1..4), T # {}
    PROVE  Min(T) \in T
<1>1. \E x \in T : \A y \in T : x <= y
  BY LeastNumber
<1> QED
  BY <1>1 DEF Min

\* There is a slot with the smallest raw index, and a first one among these.
LEMMA OldestExists ==
    ASSUME NEW T \in SUBSET (1..4), T # {}, NEW f \in [1..4 -> Nat]
    PROVE  \E i \in T : \A j \in T : f[i] < f[j] \/ (f[i] = f[j] /\ i <= j)
<1> DEFINE V == {f[i] : i \in T}
<1>1. V \in SUBSET Nat /\ V # {}
  OBVIOUS
<1>2. PICK x \in V : \A y \in V : x <= y
  BY <1>1, LeastNumber
<1> DEFINE W == {i \in T : f[i] = x}
<1>3. W \in SUBSET Nat /\ W # {}
  <2>1. \E i \in T : f[i] = x
    BY <1>2
  <2>2. \A i \in T : i \in Nat
    OBVIOUS
  <2> QED
    BY <2>1, <2>2
<1>4. PICK i \in W : \A j \in W : i <= j
  BY <1>3, LeastNumber
<1>5. \A j \in T : f[j] \in V /\ f[j] \in Nat
  OBVIOUS
<1>6. \A j \in T : f[i] < f[j] \/ (f[i] = f[j] /\ i <= j)
  <2> TAKE j \in T
  <2>1. x <= f[j] /\ f[i] = x /\ x \in Nat
    BY <1>2, <1>4, <1>5
  <2>2. CASE f[j] = x
    BY <2>1, <2>2, <1>4
  <2>3. CASE f[j] # x
    BY <2>1, <2>3, <1>5
  <2> QED
    BY <2>2, <2>3
<1> QED
  BY <1>4, <1>6

-----------------------------------------------------------------------------
(* forcedInsertion                                                         *)

Rings == [0..cacheSize - 1 -> DOMAIN slots \cup {NoEntry}]

Chains(ring, current) ==
    [table  : [0..indexesSize - 1 -> RawIndexes(ring, current)],
     used   : Seq(RawIndexes(ring, current)),
     result : {"insert", "done", "exit"}]

\* The own index of every recent entry is in a slot of its key, but for one.
KeptBut(table, ring, current, input) ==
    \A raw \in 0..UINT32_MAX :
        Recent(current, raw) /\ ring[raw % cacheSize] # NoEntry
            => InSlot(table, ring[raw % cacheSize], raw) \/ raw = input

\* Level n of the recursion: the own index of every recent entry is in a slot
\* of its key, but for the one that is being put.
ChainInv(chain, n, ring, current) ==
    /\ chain \in Chains(ring, current)
    /\ chain.result = "insert" => /\ n <= 9 /\ Len(chain.used) = n + 1
                                  /\ ring[chain.used[n + 1] % cacheSize] # NoEntry
    /\ chain.result # "exit" => \A raw \in 0..UINT32_MAX :
          Recent(current, raw) /\ ring[raw % cacheSize] # NoEntry
              => \/ InSlot(chain.table, ring[raw % cacheSize], raw)
                 \/ chain.result = "insert" /\ raw = chain.used[n + 1]

\* A position of the ring.
LEMMA PositionInRing ==
    ASSUME NEW raw \in 0..UINT32_MAX
    PROVE  raw % cacheSize \in 0..cacheSize - 1
<1>1. raw \in Nat /\ cacheSize \in Nat \ {0}
  BY Sizes
<1> QED
  BY <1>1, ModAndQuotient

\* A slot that is not empty leads to an entry that was written.
LEMMA NotEmptyIsWritten ==
    ASSUME NEW ring \in Rings, NEW current \in 0..UINT32_MAX, Filling(ring, current),
           NEW raw \in RawIndexes(ring, current), ~emptyCacheSlot(current, raw)
    PROVE  ring[raw % cacheSize] \in DOMAIN slots
<1>1. raw \in 0..UINT32_MAX /\ raw % cacheSize \in 0..cacheSize - 1
  BY PositionInRing DEF RawIndexes
<1>2. SUFFICES ring[raw % cacheSize] # NoEntry
  BY <1>1 DEF Rings
<1>3. CASE NotFull(ring)
  <2>1. current < cacheSize /\ (raw < current \/ raw = UINT32_MAX - cacheSize - 1)
    BY <1>3 DEF Filling, RawIndexes
  <2>2. raw < current
    BY <2>1, Sizes DEF emptyCacheSlot
  <2>3. raw % cacheSize = raw
    BY <1>1, <2>1, <2>2, Sizes
  <2> QED
    BY <1>1, <1>3, <2>2, <2>3 DEF Filling
<1>4. CASE ~NotFull(ring)
  BY <1>1, <1>4 DEF NotFull
<1> QED
  BY <1>3, <1>4

\* Putting the input into a slot of its key, in place of an index that is
\* either not recent or is the next one to be put, loses no entry.
LEMMA PutInSlot ==
    ASSUME NEW ring \in Rings, NEW current \in 0..UINT32_MAX,
           NEW table \in [0..indexesSize - 1 -> 0..UINT32_MAX],
           NEW input \in 0..UINT32_MAX, NEW i \in 1..4,
           ring[input % cacheSize] # NoEntry, KeptBut(table, ring, current, input)
    PROVE  KeptBut([table EXCEPT ![slots[ring[input % cacheSize]][i]] = input], ring, current,
                   table[slots[ring[input % cacheSize]][i]])
<1> DEFINE slot == slots[ring[input % cacheSize]][i]
           put == [table EXCEPT ![slot] = input]
<1>1. ring[input % cacheSize] \in DOMAIN slots
  BY PositionInRing DEF Rings
<1>2. slot \in 0..indexesSize - 1
  BY <1>1, Sizes
<1>3. put[slot] = input /\ \A s \in 0..indexesSize - 1 : s # slot => put[s] = table[s]
  BY <1>2
<1> HIDE DEF slot, put
<1> SUFFICES ASSUME NEW raw \in 0..UINT32_MAX, Recent(current, raw),
                    ring[raw % cacheSize] # NoEntry, raw # table[slot]
             PROVE  InSlot(put, ring[raw % cacheSize], raw)
  BY DEF slot, put, KeptBut
<1>4. CASE raw = input
  BY <1>3, <1>4 DEF InSlot, slot
<1>5. CASE InSlot(table, ring[raw % cacheSize], raw)
  <2>1. PICK j \in 1..4 : table[slots[ring[raw % cacheSize]][j]] = raw
    BY <1>5 DEF InSlot
  <2>2. slots[ring[raw % cacheSize]][j] \in 0..indexesSize - 1
    BY Sizes, PositionInRing DEF Rings
  <2>3. put[slots[ring[raw % cacheSize]][j]] = raw
    BY <1>3, <2>1, <2>2
  <2> QED
    BY <2>3 DEF InSlot
<1> QED
  BY <1>4, <1>5 DEF KeptBut

\* One level of the recursion, with its input and the key of the input.
LEMMA PutIndex ==
    ASSUME NEW ring \in Rings, NEW current \in 0..UINT32_MAX, Filling(ring, current),
           NEW n \in 0..8, NEW chain, ChainInv(chain, n, ring, current),
           chain.result = "insert",
           NEW input, input = chain.used[n + 1],
           NEW k, k = ring[input % cacheSize]
    PROVE  ChainInv(putIndex(chain, input, k, current), n + 1, ring, current)
<1> DEFINE Raws == RawIndexes(ring, current)
<1>1. /\ chain.table \in [0..indexesSize - 1 -> Raws] /\ chain.used \in Seq(Raws)
      /\ chain \in Chains(ring, current) /\ Raws \subseteq 0..UINT32_MAX
  BY DEF ChainInv, Chains, RawIndexes
<1>2. Len(chain.used) = n + 1 /\ input \in Raws /\ k # NoEntry
  BY <1>1 DEF ChainInv
<1>3. k \in DOMAIN slots /\ \A i \in 1..4 : slots[k][i] \in 0..indexesSize - 1
  BY <1>1, <1>2, Sizes, PositionInRing DEF Rings
<1>4. \A i \in 1..4 : chain.table[slots[k][i]] \in Raws /\ chain.table[slots[k][i]] \in Nat
  <2> HIDE DEF Raws
  <2>1. \A i \in 1..4 : chain.table[slots[k][i]] \in Raws
    BY <1>1, <1>3
  <2>2. \A x \in Raws : x \in Nat
    BY <1>1, Sizes
  <2> QED
    BY <2>1, <2>2
<1>5. \A i \in 1..4 : KeptBut([chain.table EXCEPT ![slots[k][i]] = input], ring, current,
                             chain.table[slots[k][i]])
  <2>1. PICK table \in [0..indexesSize - 1 -> 0..UINT32_MAX] : table = chain.table
    BY <1>1
  <2>2. input \in 0..UINT32_MAX
    BY <1>1, <1>2
  <2>3. KeptBut(table, ring, current, input)
    BY <2>1 DEF ChainInv, KeptBut
  <2>4. \A i \in 1..4 :
           KeptBut([table EXCEPT ![slots[ring[input % cacheSize]][i]] = input], ring, current,
                   table[slots[ring[input % cacheSize]][i]])
    BY <1>2, <2>2, <2>3, PutInSlot
  <2> QED
    BY <2>1, <2>4
<1> DEFINE free == EmptySlots(k, chain.table, current)
           olds == MovableSlots(k, chain)
<1>6. CASE free # {}
  <2>1. PICK i \in free : i = Min(free)
    BY <1>6, MinOfSlots DEF EmptySlots
  <2> DEFINE moved == [chain EXCEPT !.table[slots[k][i]] = input, !.result = "done"]
  <2>2. putIndex(chain, input, k, current) = moved
    BY <1>6, <2>1 DEF putIndex
  <2>3. /\ moved \in Chains(ring, current) /\ moved.result = "done"
        /\ moved.table = [chain.table EXCEPT ![slots[k][i]] = input]
    BY <1>1, <1>2, <1>3, <2>1 DEF Chains, EmptySlots
  <2>4. i \in 1..4 /\ emptyCacheSlot(current, chain.table[slots[k][i]])
    BY <2>1 DEF EmptySlots
  <2>5. ~Recent(current, chain.table[slots[k][i]])
    BY <1>1, <1>4, <2>4, RecentNotEmpty
  <2> HIDE DEF moved
  <2> QED
    BY <1>5, <2>2, <2>3, <2>4, <2>5 DEF ChainInv, KeptBut
<1>7. CASE free = {} /\ olds = {}
  <2>1. putIndex(chain, input, k, current) = [chain EXCEPT !.result = "exit"]
    BY <1>7 DEF putIndex
  <2>2. /\ [chain EXCEPT !.result = "exit"] \in Chains(ring, current)
        /\ [chain EXCEPT !.result = "exit"].result = "exit"
    BY <1>1 DEF Chains
  <2> QED
    BY <2>1, <2>2 DEF ChainInv
<1>8. CASE free = {} /\ olds # {}
  <2>1. OldestSlot(k, chain) \in olds
    <3> DEFINE f == [i \in 1..4 |-> chain.table[slots[k][i]]]
    <3>1. f \in [1..4 -> Nat] /\ olds \in SUBSET (1..4)
      BY <1>4 DEF MovableSlots
    <3>2. \E i \in olds : \A j \in olds : f[i] < f[j] \/ (f[i] = f[j] /\ i <= j)
      <4> HIDE DEF f, olds
      <4> QED
        BY <1>8, <3>1, OldestExists
    <3>3. \E i \in olds : \A j \in olds :
             \/ chain.table[slots[k][i]] < chain.table[slots[k][j]]
             \/ chain.table[slots[k][i]] = chain.table[slots[k][j]] /\ i <= j
      BY <3>1, <3>2
    <3> QED
      BY <3>3 DEF OldestSlot
  <2>2. PICK i \in olds : i = OldestSlot(k, chain)
    BY <2>1
  <2>3. i \in 1..4
    BY <2>2 DEF MovableSlots
  <2>4. PICK old \in Raws : old = chain.table[slots[k][i]]
    BY <1>4, <2>3
  <2> DEFINE moved == [chain EXCEPT !.table[slots[k][i]] = input, !.used = Append(@, old)]
  <2>5. putIndex(chain, input, k, current) = moved
    BY <1>8, <2>2, <2>4 DEF putIndex
  <2>6. Append(chain.used, old) \in Seq(Raws)
    BY <1>1
  <2>7. /\ moved \in Chains(ring, current) /\ moved.result = "insert"
        /\ moved.table = [chain.table EXCEPT ![slots[k][i]] = input]
        /\ moved.used = Append(chain.used, old)
    BY <1>1, <1>2, <1>3, <2>3, <2>6 DEF Chains
  <2>8. Len(moved.used) = n + 2 /\ moved.used[n + 2] = old
    <3>1. PICK u \in Seq(Raws) : u = chain.used
      BY <1>1
    <3>2. Len(Append(u, old)) = Len(u) + 1 /\ Append(u, old)[Len(u) + 1] = old
      OBVIOUS
    <3> QED
      BY <1>2, <2>7, <3>1, <3>2
  <2>9. ring[old % cacheSize] # NoEntry
    <3>1. ~emptyCacheSlot(current, old)
      BY <1>8, <2>3, <2>4 DEF EmptySlots
    <3> QED
      BY <3>1, NotEmptyIsWritten, Sizes
  <2>10. \A r \in 0..UINT32_MAX :
            Recent(current, r) /\ ring[r % cacheSize] # NoEntry
               => InSlot(moved.table, ring[r % cacheSize], r) \/ r = moved.used[n + 2]
    BY <1>5, <2>3, <2>4, <2>7, <2>8 DEF KeptBut
  <2>11. n + 1 <= 9 /\ (n + 1) + 1 = n + 2
    OBVIOUS
  <2> HIDE DEF moved
  <2> QED
    BY <2>5, <2>7, <2>8, <2>9, <2>10, <2>11 DEF ChainInv
<1> QED
  BY <1>6, <1>7, <1>8

\* One level of the recursion, or none when it has ended.
LEMMA ForcedStep ==
    ASSUME NEW ring \in Rings, NEW current \in 0..UINT32_MAX, Filling(ring, current),
           NEW n \in 0..9, NEW chain, ChainInv(chain, n, ring, current)
    PROVE  ChainInv(forcedInsertionStep(chain, ring, current), n + 1, ring, current)
<1>1. CASE chain.result # "insert"
  <2>1. forcedInsertionStep(chain, ring, current) = chain
    BY <1>1 DEF forcedInsertionStep
  <2> QED
    BY <1>1, <2>1 DEF ChainInv
<1>2. CASE chain.result = "insert" /\ Len(chain.used) > 9
  <2>1. forcedInsertionStep(chain, ring, current) = [chain EXCEPT !.result = "exit"]
    BY <1>2 DEF forcedInsertionStep
  <2>2. /\ [chain EXCEPT !.result = "exit"] \in Chains(ring, current)
        /\ [chain EXCEPT !.result = "exit"].result = "exit"
    BY DEF ChainInv, Chains
  <2> QED
    BY <2>1, <2>2 DEF ChainInv
<1>3. CASE chain.result = "insert" /\ ~(Len(chain.used) > 9)
  <2>1. Len(chain.used) = n + 1 /\ n \in 0..8
    BY <1>3 DEF ChainInv
  <2>2. PICK input, k : input = chain.used[n + 1] /\ k = ring[input % cacheSize]
    OBVIOUS
  <2>3. forcedInsertionStep(chain, ring, current) = putIndex(chain, input, k, current)
    BY <1>3, <2>1, <2>2 DEF forcedInsertionStep
  <2> QED
    BY <1>3, <2>1, <2>2, <2>3, PutIndex
<1> QED
  BY <1>1, <1>2, <1>3

\* The levels of the recursion exist: each one is made from the one before.
LEMMA ForcedChain ==
    ASSUME NEW start, NEW ring, NEW current
    PROVE  /\ forcedChain(start, ring, current)[0] = start
           /\ \A n \in 0..9 : forcedChain(start, ring, current)[n + 1] =
                 forcedInsertionStep(forcedChain(start, ring, current)[n], ring, current)
<1>1. PICK c1, c2, c3, c4, c5, c6, c7, c8, c9, c10 :
         /\ c1 = forcedInsertionStep(start, ring, current)
         /\ c2 = forcedInsertionStep(c1, ring, current)
         /\ c3 = forcedInsertionStep(c2, ring, current)
         /\ c4 = forcedInsertionStep(c3, ring, current)
         /\ c5 = forcedInsertionStep(c4, ring, current)
         /\ c6 = forcedInsertionStep(c5, ring, current)
         /\ c7 = forcedInsertionStep(c6, ring, current)
         /\ c8 = forcedInsertionStep(c7, ring, current)
         /\ c9 = forcedInsertionStep(c8, ring, current)
         /\ c10 = forcedInsertionStep(c9, ring, current)
  OBVIOUS
<1> DEFINE levels == <<c1, c2, c3, c4, c5, c6, c7, c8, c9, c10>>
           f == [n \in 0..10 |-> IF n = 0 THEN start ELSE levels[n]]
           Body(g) == [n \in 0..10 |-> IF n = 0 THEN start
                                       ELSE forcedInsertionStep(g[n - 1], ring, current)]
<1>2. /\ f[0] = start
      /\ f[1] = c1 /\ f[2] = c2 /\ f[3] = c3 /\ f[4] = c4 /\ f[5] = c5
      /\ f[6] = c6 /\ f[7] = c7 /\ f[8] = c8 /\ f[9] = c9 /\ f[10] = c10
  OBVIOUS
<1>3. \A n \in 0..10 : n # 0 => f[n] = forcedInsertionStep(f[n - 1], ring, current)
  <2> HIDE DEF f
  <2>1. \A n \in 0..10 : n \in {0, 1, 2, 3, 4, 5, 6, 7, 8, 9, 10}
    OBVIOUS
  <2> QED
    BY <1>1, <1>2, <2>1
<1>4. f = Body(f)
  <2>1. DOMAIN f = 0..10 /\ f = [n \in 0..10 |-> f[n]]
    OBVIOUS
  <2> HIDE DEF f
  <2> QED
    BY <1>2, <1>3, <2>1
<1>5. forcedChain(start, ring, current) = CHOOSE g : g = Body(g)
  BY DEF forcedChain
<1> HIDE DEF f
<1>6. PICK g : g = forcedChain(start, ring, current) /\ g = Body(g)
  BY <1>4, <1>5
<1>7. g[0] = start /\ \A n \in 0..9 : g[n + 1] = forcedInsertionStep(g[n], ring, current)
  BY <1>6
<1> QED
  BY <1>6, <1>7

\* The recursion ends in a table in which no entry is lost, or it exits.
LEMMA ForcedInsertion ==
    ASSUME NEW ring \in Rings, NEW current \in 0..UINT32_MAX, Filling(ring, current),
           NEW table \in [0..indexesSize - 1 -> RawIndexes(ring, current)],
           NEW raw \in RawIndexes(ring, current),
           ring[raw % cacheSize] # NoEntry, KeptBut(table, ring, current, raw)
    PROVE  LET forced == forcedInsertion(table, raw, ring, current)
           IN  /\ forced.table \in [0..indexesSize - 1 -> RawIndexes(ring, current)]
               /\ forced.result # "exit" => \A r \in 0..UINT32_MAX :
                     Recent(current, r) /\ ring[r % cacheSize] # NoEntry
                        => InSlot(forced.table, ring[r % cacheSize], r)
<1> DEFINE start == [table |-> table, used |-> <<raw>>, result |-> "insert"]
           chain == forcedChain(start, ring, current)
           Bad == {n \in 0..10 : ~ChainInv(chain[n], n, ring, current)}
<1>1. ChainInv(start, 0, ring, current)
  <2>1. start \in Chains(ring, current) /\ Len(start.used) = 0 + 1 /\ start.used[0 + 1] = raw
    BY DEF Chains
  <2> QED
    BY <2>1 DEF ChainInv, KeptBut
<1>2. chain[0] = start /\ \A n \in 0..9 : chain[n + 1] = forcedInsertionStep(chain[n], ring, current)
  BY ForcedChain
<1> HIDE DEF start, chain
<1>3. Bad = {}
  <2>1. SUFFICES ASSUME Bad # {} PROVE FALSE
    OBVIOUS
  <2>2. PICK m \in Bad : \A n \in Bad : m <= n
    <3>1. Bad \in SUBSET Nat
      OBVIOUS
    <3> HIDE DEF Bad
    <3> QED
      BY <2>1, <3>1, LeastNumber
  <2>3. m # 0
    BY <1>1, <1>2, <2>2
  <2>4. PICK n \in 0..9 : m = n + 1
    BY <2>2, <2>3
  <2>5. ChainInv(chain[n], n, ring, current)
    BY <2>2, <2>4
  <2>6. ChainInv(chain[n + 1], n + 1, ring, current)
    BY <1>2, <2>5, ForcedStep
  <2> QED
    BY <2>2, <2>4, <2>6
<1>4. ChainInv(chain[10], 10, ring, current)
  BY <1>3
<1>5. forcedInsertion(table, raw, ring, current) = chain[10]
  BY DEF forcedInsertion, start, chain
<1> QED
  BY <1>4, <1>5 DEF ChainInv, Chains

-----------------------------------------------------------------------------
(* The calls on the cache.                                                 *)

\* The table and the ring that postConstruct makes.
Constructed(table, ring, current) ==
    /\ table = [s \in 0..indexesSize - 1 |-> UINT32_MAX - cacheSize - 1]
    /\ ring = [p \in 0..cacheSize - 1 |-> NoEntry]
    /\ current = 0

\* An empty cache satisfies the invariant.
LEMMA MtaConstruct == Constructed(indexes, keys, currentCacheIndex) /\ exited = FALSE => MtaInv
<1> SUFFICES ASSUME Constructed(indexes, keys, currentCacheIndex), exited = FALSE
             PROVE  MtaInv
  OBVIOUS
<1>1. keys \in Rings /\ \A p \in 0..cacheSize - 1 : keys[p] = NoEntry
  BY DEF Constructed, Rings
<1>2. currentCacheIndex \in 0..UINT32_MAX /\ Filling(keys, currentCacheIndex)
  BY <1>1, Sizes DEF Constructed, Filling
<1>3. UINT32_MAX - cacheSize - 1 \in RawIndexes(keys, currentCacheIndex)
  BY Sizes DEF RawIndexes
<1>4. indexes \in [0..indexesSize - 1 -> RawIndexes(keys, currentCacheIndex)]
  BY <1>3 DEF Constructed
<1>5. OwnIndex
  BY <1>1, PositionInRing DEF OwnIndex
<1> QED
  BY <1>1, <1>2, <1>4, <1>5 DEF MtaInv, MtaTypeOK, NoCopies, Rings

\* The invariant is what makes every entry reachable, at its own position.
LEMMA InvReachable == MtaInv => EntriesReachable
<1> SUFFICES ASSUME MtaInv, ~exited, NEW p \in 0..cacheSize - 1, keys[p] # NoEntry
             PROVE  Hit(keys[p]) /\ Position(keys[p]) = p
  BY DEF EntriesReachable, MtaInv, MtaTypeOK
<1> DEFINE k == keys[p]
           c == currentCacheIndex
<1>1. k \in DOMAIN slots /\ c \in 0..UINT32_MAX
  BY DEF MtaInv, MtaTypeOK
<1>2. PICK raw \in 0..UINT32_MAX : Recent(c, raw) /\ raw % cacheSize = p
  BY <1>1, RecentAtPosition
<1>3. PICK i \in 1..4 : indexes[slots[k][i]] = raw
  BY <1>2 DEF MtaInv, OwnIndex, InSlot
<1>4. i \in MatchingSlots(k)
  BY <1>1, <1>2, <1>3, RecentNotEmpty DEF MatchingSlots
<1>5. Min(MatchingSlots(k)) \in MatchingSlots(k)
  BY <1>4, MinOfSlots DEF MatchingSlots
<1>6. PICK j \in 1..4 : j = Min(MatchingSlots(k)) /\ keys[indexes[slots[k][j]] % cacheSize] = k
  BY <1>5 DEF MatchingSlots
<1>7. indexes[slots[k][j]] \in 0..UINT32_MAX
  BY <1>1, Sizes DEF MtaInv, MtaTypeOK, RawIndexes
<1>8. indexes[slots[k][j]] % cacheSize = p
  BY <1>6, <1>7, PositionInRing DEF MtaInv, NoCopies
<1> QED
  BY <1>4, <1>6, <1>8 DEF Hit, Position

\* addKeyValue of a key that is present keeps the invariant.
LEMMA AddPresentKeeps ==
    ASSUME MtaInv, UNCHANGED <<indexes, keys, currentCacheIndex, exited>>
    PROVE  MtaInv'
  BY DEF MtaInv, MtaTypeOK, Filling, NotFull, NoCopies, OwnIndex, RawIndexes, InSlot

\* The entry is written to the ring: what is known of the ring afterwards.
LEMMA WriteRing ==
    ASSUME MtaInv, ~exited, NEW k \in DOMAIN slots, ~Hit(k),
           NEW ring, ring = [keys EXCEPT ![currentCacheIndex % cacheSize] = k],
           NEW current, current = NextIndex(currentCacheIndex)
    PROVE  /\ ring \in Rings /\ current \in 0..UINT32_MAX
           /\ ring[currentCacheIndex % cacheSize] = k
           /\ Filling(ring, current) /\ NoCopies(ring)
           /\ RawIndexes(keys, currentCacheIndex) \subseteq RawIndexes(ring, current)
           /\ currentCacheIndex \in RawIndexes(ring, current)
<1> DEFINE c == currentCacheIndex
           p0 == c % cacheSize
<1>1. /\ c \in 0..UINT32_MAX /\ p0 \in 0..cacheSize - 1 /\ keys \in Rings
      /\ current \in 0..UINT32_MAX /\ k # NoEntry
  BY PositionInRing, CounterStep, Sizes DEF MtaInv, MtaTypeOK, Rings
<1>2. /\ ring \in Rings /\ ring[p0] = k
      /\ \A p \in 0..cacheSize - 1 : p # p0 => ring[p] = keys[p]
  BY <1>1 DEF Rings
<1>3. \A p \in 0..cacheSize - 1 : keys[p] # k
  BY <1>1, InvReachable DEF EntriesReachable, Rings
<1>4. NoCopies(ring)
  BY <1>2, <1>3 DEF NoCopies, MtaInv
<1>5. NotFull(ring) => /\ NotFull(keys) /\ c < cacheSize /\ p0 = c /\ current = c + 1
  <2>1. NotFull(ring) => NotFull(keys)
    BY <1>1, <1>2 DEF NotFull
  <2>2. NotFull(keys) => c < cacheSize
    BY DEF MtaInv, Filling
  <2>3. c < cacheSize => p0 = c /\ current = c + 1
    BY <1>1, Sizes DEF NextIndex
  <2> QED
    BY <2>1, <2>2, <2>3
<1>6. Filling(ring, current)
  <2> SUFFICES ASSUME NotFull(ring)
               PROVE  /\ current < cacheSize
                      /\ \A p \in 0..cacheSize - 1 : ring[p] # NoEntry <=> p < current
    BY DEF Filling
  <2>1. \A p \in 0..cacheSize - 1 : ring[p] # NoEntry <=> p < current
    BY <1>1, <1>2, <1>5, Sizes DEF MtaInv, Filling
  <2>2. PICK p \in 0..cacheSize - 1 : ring[p] = NoEntry
    BY DEF NotFull
  <2> QED
    BY <1>1, <2>1, <2>2, Sizes
<1>7. RawIndexes(keys, c) \subseteq RawIndexes(ring, current)
  BY <1>1, <1>5, Sizes DEF RawIndexes
<1>8. c \in RawIndexes(ring, current)
  BY <1>1, <1>5, Sizes DEF RawIndexes
<1> QED
  BY <1>1, <1>2, <1>4, <1>6, <1>7, <1>8

\* addKeyValue of a new key, displacing others or not, keeps the invariant.
LEMMA AddNewKeeps ==
    ASSUME MtaInv, ~exited, NEW k \in DOMAIN slots, NEW v, mtaAddNew(k, v)
    PROVE  MtaInv'
<1>1. PICK c, ring, current, free :
         /\ c = currentCacheIndex /\ current = NextIndex(c)
         /\ ring = [keys EXCEPT ![c % cacheSize] = k]
         /\ free = EmptySlots(k, indexes, c)
  OBVIOUS
<1>2. /\ ~Hit(k) /\ keys' = ring /\ currentCacheIndex' = current
      /\ IF free # {}
         THEN indexes' = [indexes EXCEPT ![slots[k][Min(free)]] = c] /\ UNCHANGED exited
         ELSE /\ indexes' = forcedInsertion(indexes, c, ring, current).table
              /\ exited' = (forcedInsertion(indexes, c, ring, current).result = "exit")
  BY <1>1 DEF mtaAddNew
<1> DEFINE Raws == RawIndexes(ring, current)
<1>3. /\ ring \in Rings /\ current \in 0..UINT32_MAX /\ ring[c % cacheSize] = k
      /\ Filling(ring, current) /\ NoCopies(ring)
      /\ RawIndexes(keys, c) \subseteq Raws /\ c \in Raws
  BY <1>1, <1>2, WriteRing
<1>4. c \in 0..UINT32_MAX /\ indexes \in [0..indexesSize - 1 -> Raws]
  BY <1>1, <1>3 DEF MtaInv, MtaTypeOK
<1>5. \A r \in 0..UINT32_MAX :
         Recent(current, r) /\ ring[r % cacheSize] # NoEntry /\ r # c
            => /\ Recent(c, r) /\ keys[r % cacheSize] # NoEntry
               /\ ring[r % cacheSize] = keys[r % cacheSize]
               /\ InSlot(indexes, ring[r % cacheSize], r)
  <2> SUFFICES ASSUME NEW r \in 0..UINT32_MAX, Recent(current, r),
                      ring[r % cacheSize] # NoEntry, r # c
               PROVE  /\ Recent(c, r) /\ keys[r % cacheSize] # NoEntry
                      /\ ring[r % cacheSize] = keys[r % cacheSize]
                      /\ InSlot(indexes, ring[r % cacheSize], r)
    OBVIOUS
  <2>1. Recent(c, r) /\ r % cacheSize # c % cacheSize
    BY <1>1, <1>4, RecentBefore
  <2>2. r % cacheSize \in 0..cacheSize - 1 /\ c % cacheSize \in 0..cacheSize - 1
    BY <1>4, PositionInRing
  <2>3. ring[r % cacheSize] = keys[r % cacheSize]
    BY <1>1, <2>1, <2>2 DEF MtaInv, MtaTypeOK
  <2>4. InSlot(indexes, keys[r % cacheSize], r)
    BY <1>1, <2>1, <2>3 DEF MtaInv, OwnIndex
  <2> QED
    BY <2>1, <2>3, <2>4
<1>6. KeptBut(indexes, ring, current, c)
  BY <1>5 DEF KeptBut
<1>7. k # NoEntry
  BY Sizes
<1>8. CASE free # {}
  <2>1. PICK i \in 1..4 : i = Min(free) /\ emptyCacheSlot(c, indexes[slots[k][i]])
    BY <1>1, <1>8, MinOfSlots DEF EmptySlots
  <2>2. indexes' = [indexes EXCEPT ![slots[ring[c % cacheSize]][i]] = c] /\ exited' = exited
    BY <1>2, <1>3, <1>8, <2>1
  <2>3. indexes' \in [0..indexesSize - 1 -> Raws]
    BY <1>3, <1>4, <2>2
  <2>4. indexes \in [0..indexesSize - 1 -> 0..UINT32_MAX]
    BY <1>4 DEF RawIndexes
  <2>5. KeptBut(indexes', ring, current, indexes[slots[ring[c % cacheSize]][i]])
    BY <1>3, <1>4, <1>6, <1>7, <2>2, <2>4, PutInSlot
  <2>6. slots[k][i] \in 0..indexesSize - 1 /\ indexes[slots[k][i]] \in 0..UINT32_MAX
    BY <2>4, Sizes
  <2>7. ~Recent(c, indexes[slots[k][i]])
    BY <1>4, <2>1, <2>6, RecentNotEmpty
  <2>8. \A r \in 0..UINT32_MAX :
           Recent(current, r) /\ ring[r % cacheSize] # NoEntry
              => InSlot(indexes', ring[r % cacheSize], r)
    <3> SUFFICES ASSUME NEW r \in 0..UINT32_MAX, Recent(current, r),
                        ring[r % cacheSize] # NoEntry
                 PROVE  InSlot(indexes', ring[r % cacheSize], r)
      OBVIOUS
    <3>1. CASE r = c
      <4>1. indexes'[slots[ring[c % cacheSize]][i]] = c
        BY <1>3, <1>4, <2>2, <2>6
      <4> QED
        BY <3>1, <4>1 DEF InSlot
    <3>2. CASE r # c
      BY <1>3, <1>5, <2>5, <2>7, <3>2 DEF KeptBut
    <3> QED
      BY <3>1, <3>2
  <2> QED
    BY <1>2, <1>3, <2>2, <2>3, <2>8 DEF MtaInv, MtaTypeOK, OwnIndex, Rings
<1>9. CASE free = {}
  <2>1. PICK forced : forced = forcedInsertion(indexes, c, ring, current)
    OBVIOUS
  <2>2. /\ forced.table \in [0..indexesSize - 1 -> Raws]
        /\ forced.result # "exit" => \A r \in 0..UINT32_MAX :
              Recent(current, r) /\ ring[r % cacheSize] # NoEntry
                 => InSlot(forced.table, ring[r % cacheSize], r)
    BY <1>3, <1>4, <1>6, <1>7, <2>1, ForcedInsertion
  <2>3. indexes' = forced.table /\ exited' = (forced.result = "exit")
    BY <1>2, <1>9, <2>1
  <2> QED
    BY <1>2, <1>3, <2>2, <2>3 DEF MtaInv, MtaTypeOK, OwnIndex, Rings
<1> QED
  BY <1>8, <1>9

-----------------------------------------------------------------------------
(* No entry of the associative cache is lost.                              *)

\* Every step keeps the invariant of the associative cache.
LEMMA MtaNext ==
    ASSUME MtaInv, [Next]_vars
    PROVE  MtaInv'
<1>1. CASE UNCHANGED mtaVars
  BY <1>1, AddPresentKeeps DEF mtaVars
<1>2. ASSUME NEW k \in Keys, NEW v, NEW update, store(k, v, update)
      PROVE  MtaInv'
  <2>1. CASE useAssociativeCache
    <3>1. ~exited /\ (mtaAddPresent(k, v, update) \/ mtaAddNew(k, v))
      BY <1>2, <2>1 DEF store, addKeyValue
    <3>2. CASE mtaAddPresent(k, v, update)
      BY <3>2, AddPresentKeeps DEF mtaAddPresent
    <3>3. CASE mtaAddNew(k, v)
      BY <3>1, <3>3, AddNewKeeps, DatabaseCachesAssumption
    <3> QED
      BY <3>1, <3>2, <3>3
  <2>2. CASE ~useAssociativeCache
    BY <1>1, <1>2, <2>2 DEF store
  <2> QED
    BY <2>1, <2>2
<1>3. CASE clearCache
  <2>1. CASE useAssociativeCache
    <3>1. Constructed(indexes, keys, currentCacheIndex)' /\ exited' = FALSE
      BY <1>3, <2>1 DEF clearCache, mtaClear, Constructed, MtaInv, MtaTypeOK
    <3>2. (Constructed(indexes, keys, currentCacheIndex) /\ exited = FALSE => MtaInv)'
      BY MtaConstruct, PTL
    <3> QED
      BY <3>1, <3>2
  <2>2. CASE ~useAssociativeCache
    BY <1>1, <1>3, <2>2 DEF clearCache
  <2> QED
    BY <2>1, <2>2
<1>4. CASE \E k \in Keys : storeNode(k)
  BY <1>2, <1>4 DEF storeNode
<1>5. CASE \E v \in RootValues : updateStateRoot(v)
  BY <1>2, <1>5, DatabaseCachesAssumption DEF updateStateRoot
<1>6. CASE (\E k \in Keys : readCached(k)) \/ evict \/ UNCHANGED vars
  BY <1>1, <1>6 DEF readCached, evict, vars
<1> QED
  BY <1>3, <1>4, <1>5, <1>6 DEF Next

\* The index of its own insertion is in a slot of the key of every entry.
THEOREM MtaCorrect == Spec => []MtaInv
<1>1. Init => MtaInv
  BY MtaConstruct DEF Init, MtaInit, Constructed
<1> QED
  BY <1>1, MtaNext, PTL DEF Spec

\* Every entry of the ring is found, at its own position, whatever entries
\* displaced each other and wherever the counter wrapped.
THEOREM Reachable == Spec => []EntriesReachable
  BY MtaCorrect, InvReachable, PTL

-----------------------------------------------------------------------------
(* A hit returns the value stored last.                                    *)

\* The keys that hit.
Content ==
    IF exited THEN {}
    ELSE IF useAssociativeCache
    THEN {k \in Keys : \E p \in 0..cacheSize - 1 : keys[p] = k}
    ELSE cacheMap

\* The values that a key can have are values.
LEMMA ValueFacts ==
    /\ Keys = DOMAIN slots /\ dbStateRootKey \in Keys /\ NoEntry \notin Keys
    /\ \A k \in Keys : \A v \in ValuesOf(k) : v \in Values
    /\ NodeValue \in Values /\ \A v \in RootValues : v \in Values
  BY DatabaseCachesAssumption, Sizes DEF ValuesOf

\* A key hits in the associative cache when it is in the ring, and is found
\* at a position where it is.
LEMMA HitFacts ==
    MtaInv /\ ~exited =>
        \A k \in Keys :
            /\ Hit(k) <=> \E p \in 0..cacheSize - 1 : keys[p] = k
            /\ Hit(k) => Position(k) \in 0..cacheSize - 1 /\ keys[Position(k)] = k
<1> SUFFICES ASSUME MtaInv, ~exited, NEW k \in Keys
             PROVE  /\ Hit(k) <=> \E p \in 0..cacheSize - 1 : keys[p] = k
                    /\ Hit(k) => Position(k) \in 0..cacheSize - 1 /\ keys[Position(k)] = k
  OBVIOUS
<1>1. ASSUME Hit(k)
      PROVE  Position(k) \in 0..cacheSize - 1 /\ keys[Position(k)] = k
  <2>1. Min(MatchingSlots(k)) \in MatchingSlots(k)
    BY <1>1, MinOfSlots DEF Hit, MatchingSlots
  <2>2. PICK i \in 1..4 : i = Min(MatchingSlots(k)) /\ keys[indexes[slots[k][i]] % cacheSize] = k
    BY <2>1 DEF MatchingSlots
  <2>3. indexes[slots[k][i]] \in 0..UINT32_MAX
    BY ValueFacts, Sizes DEF MtaInv, MtaTypeOK, RawIndexes
  <2>4. indexes[slots[k][i]] % cacheSize \in 0..cacheSize - 1
    BY <2>3, PositionInRing
  <2> QED
    BY <2>2, <2>4 DEF Position
<1>2. ASSUME NEW p \in 0..cacheSize - 1, keys[p] = k
      PROVE  Hit(k)
  BY <1>2, InvReachable, ValueFacts DEF EntriesReachable, MtaInv, MtaTypeOK
<1> QED
  BY <1>1, <1>2

\* What is cached are the values stored last.
LEMMA CachedFacts ==
    MtaInv /\ ContentInv =>
        /\ DOMAIN Cached = Content
        /\ \A k \in Content : Cached[k] = latest[k]
<1> SUFFICES ASSUME MtaInv, ContentInv
             PROVE  /\ DOMAIN Cached = Content
                    /\ \A k \in Content : Cached[k] = latest[k]
  OBVIOUS
<1>1. CASE exited
  BY <1>1 DEF Cached, Content
<1>2. CASE ~exited /\ useAssociativeCache
  <2>1. Content = {j \in Keys : Hit(j)}
    BY <1>2, HitFacts DEF Content
  <2>2. Cached = [k \in Content |-> values[Position(k)]]
    BY <1>2, <2>1 DEF Cached
  <2>3. \A k \in Content : values[Position(k)] = latest[k]
    BY <1>2, <2>1, HitFacts, ValueFacts DEF ContentInv
  <2> QED
    BY <2>2, <2>3
<1>3. CASE ~exited /\ ~useAssociativeCache
  BY <1>3 DEF Cached, Content, ContentInv
<1> QED
  BY <1>1, <1>2, <1>3

\* A store, in either cache, of a value that the key can have.
LEMMA StoreKeepsContent ==
    ASSUME MtaInv, ContentInv, NEW k \in Keys, NEW v \in ValuesOf(k), NEW update \in BOOLEAN,
           update \/ k # dbStateRootKey, store(k, v, update)
    PROVE  /\ ContentInv'
           /\ \/ latest' = latest /\ Content' \subseteq Content
              \/ /\ latest' = [latest EXCEPT ![k] = v]
                 /\ k \in Content' /\ Content' \subseteq Content \cup {k}
<1>1. v \in Values /\ (~update => v = latest[k])
  BY ValueFacts DEF ContentInv, ValuesOf
<1>2. useAssociativeCache' = useAssociativeCache
  BY DEF store
<1>3. ASSUME latest' = [latest EXCEPT ![k] = v]
      PROVE  /\ latest' \in [Keys -> Values] /\ \A j \in Keys : latest'[j] \in ValuesOf(j)
             /\ latest'[k] = v /\ \A j \in Keys : j # k => latest'[j] = latest[j]
  BY <1>1, <1>3 DEF ContentInv
<1>4. CASE useAssociativeCache
  <2>1. UNCHANGED <<cacheMap, value>> /\ ~exited
    BY <1>4 DEF store, lruVars, addKeyValue
  <2>2. values' \in [0..cacheSize - 1 -> Values \cup {NoEntry}]
    BY <1>1, <1>4 DEF store, addKeyValue, mtaAddPresent, mtaAddNew, ContentInv
  <2>3. CASE exited'
    <3>1. latest' = latest
      BY <2>3 DEF store
    <3>2. ContentInv'
      BY <1>2, <1>4, <2>1, <2>2, <2>3, <3>1 DEF ContentInv, ValuesOf
    <3> QED
      BY <2>3, <3>1, <3>2 DEF Content
  <2>4. CASE ~exited'
    <3>1. latest' = [latest EXCEPT ![k] = v]
      BY <2>4 DEF store
    <3>2. PICK p0 \in 0..cacheSize - 1 :
            /\ keys' = [keys EXCEPT ![p0] = k]
            /\ values'[p0] = v
            /\ \A p \in 0..cacheSize - 1 : p # p0 => values'[p] = values[p]
            /\ \A p \in 0..cacheSize - 1 : p # p0 => keys[p] # k
      <4>1. CASE mtaAddPresent(k, v, update)
        <5>1. Hit(k) /\ Position(k) \in 0..cacheSize - 1 /\ keys[Position(k)] = k
          BY <2>1, <4>1, HitFacts DEF mtaAddPresent
        <5>2. values[Position(k)] = latest[k]
          BY <1>4, <2>1, <5>1, ValueFacts DEF ContentInv
        <5>3. /\ values'[Position(k)] = v
              /\ \A p \in 0..cacheSize - 1 : p # Position(k) => values'[p] = values[p]
          BY <1>1, <4>1, <5>1, <5>2 DEF mtaAddPresent, ContentInv
        <5>4. keys' = [keys EXCEPT ![Position(k)] = k]
          BY <4>1, <5>1 DEF mtaAddPresent, MtaInv, MtaTypeOK
        <5>5. \A p \in 0..cacheSize - 1 : p # Position(k) => keys[p] # k
          BY <5>1, ValueFacts DEF MtaInv, NoCopies
        <5> QED
          BY <5>1, <5>3, <5>4, <5>5
      <4>2. CASE mtaAddNew(k, v)
        <5>1. PICK p0 \in 0..cacheSize - 1 : p0 = currentCacheIndex % cacheSize
          BY PositionInRing DEF MtaInv, MtaTypeOK
        <5>2. keys' = [keys EXCEPT ![p0] = k] /\ values' = [values EXCEPT ![p0] = v] /\ ~Hit(k)
          BY <4>2, <5>1 DEF mtaAddNew
        <5>3. \A p \in 0..cacheSize - 1 : keys[p] # k
          BY <2>1, <5>2, HitFacts
        <5> QED
          BY <5>2, <5>3 DEF ContentInv
      <4> QED
        BY <1>4, <4>1, <4>2 DEF store, addKeyValue
    <3>3. keys \in Rings /\ keys'[p0] = k
          /\ \A p \in 0..cacheSize - 1 : p # p0 => keys'[p] = keys[p]
      BY <3>2 DEF MtaInv, MtaTypeOK, Rings
    <3>4. \A p \in 0..cacheSize - 1 : keys'[p] # NoEntry => values'[p] = latest'[keys'[p]]
      <4> SUFFICES ASSUME NEW p \in 0..cacheSize - 1, keys'[p] # NoEntry
                   PROVE  values'[p] = latest'[keys'[p]]
        OBVIOUS
      <4>1. CASE p = p0
        BY <1>3, <3>1, <3>2, <3>3, <4>1
      <4>2. CASE p # p0
        <5>1. keys'[p] = keys[p] /\ values'[p] = values[p] /\ keys[p] # k /\ keys[p] \in Keys
          BY <3>2, <3>3, <4>2, ValueFacts DEF Rings
        <5>2. values[p] = latest[keys[p]]
          BY <1>4, <2>1, <5>1 DEF ContentInv
        <5> QED
          BY <1>3, <3>1, <5>1, <5>2
      <4> QED
        BY <4>1, <4>2
    <3>5. ContentInv'
      BY <1>2, <1>3, <1>4, <2>1, <2>2, <2>4, <3>1, <3>4 DEF ContentInv, ValuesOf
    <3>6. k \in Content' /\ Content' \subseteq Content \cup {k}
      BY <1>2, <1>4, <2>1, <2>4, <3>2, <3>3 DEF Content
    <3> QED
      BY <3>1, <3>5, <3>6
  <2> QED
    BY <2>3, <2>4
<1>5. CASE ~useAssociativeCache
  <2>1. /\ ~exited /\ UNCHANGED <<values, keys, exited>>
        /\ latest' = [latest EXCEPT ![k] = v]
    BY <1>5 DEF store, mtaVars, ContentInv
  <2>2. /\ cacheMap' = cacheMap \cup {k}
        /\ value' = [value EXCEPT ![k] = v]
    <3>1. CASE addPresent(k, v, update)
      <4>1. value[k] = latest[k] /\ cacheMap' = cacheMap /\ k \in cacheMap
        BY <1>5, <3>1 DEF addPresent, ContentInv
      <4> QED
        BY <1>1, <3>1, <4>1 DEF addPresent, ContentInv
    <3>2. CASE addNew(k, v)
      BY <3>2 DEF addNew
    <3> QED
      BY <1>5, <3>1, <3>2 DEF store, add
  <2>3. /\ cacheMap' \subseteq Keys /\ value' \in [Keys -> Values \cup {NULL}]
        /\ \A j \in cacheMap' : value'[j] = latest'[j]
    BY <1>1, <1>3, <1>5, <2>1, <2>2 DEF ContentInv
  <2>4. ContentInv'
    BY <1>2, <1>3, <1>5, <2>1, <2>3 DEF ContentInv, ValuesOf
  <2>5. k \in Content' /\ Content' \subseteq Content \cup {k}
    BY <1>2, <1>5, <2>1, <2>2 DEF Content
  <2> QED
    BY <2>1, <2>4, <2>5
<1> QED
  BY <1>4, <1>5 DEF ContentInv

\* Every step keeps the values, and stores a key or drops some.
LEMMA ContentNext ==
    ASSUME MtaInv, ContentInv, [Next]_vars
    PROVE  /\ ContentInv'
           /\ \/ latest' = latest /\ Content' \subseteq Content
              \/ \E k \in Keys : \E v \in Values :
                    /\ latest' = [latest EXCEPT ![k] = v]
                    /\ k \in Content' /\ Content' \subseteq Content \cup {k}
<1>1. CASE \E k \in Keys : storeNode(k)
  <2>1. PICK k \in Keys : k # dbStateRootKey /\ store(k, NodeValue, FALSE)
    BY <1>1 DEF storeNode
  <2>2. NodeValue \in ValuesOf(k) /\ NodeValue \in Values
    BY <2>1, ValueFacts DEF ValuesOf
  <2> QED
    BY <2>1, <2>2, StoreKeepsContent
<1>2. CASE \E v \in RootValues : updateStateRoot(v)
  <2>1. PICK v \in RootValues : store(dbStateRootKey, v, TRUE)
    BY <1>2 DEF updateStateRoot
  <2>2. v \in ValuesOf(dbStateRootKey) /\ v \in Values /\ dbStateRootKey \in Keys
    BY ValueFacts DEF ValuesOf
  <2> QED
    BY <2>1, <2>2, StoreKeepsContent
<1>3. CASE (\E k \in Keys : readCached(k)) \/ (evict /\ addReturn) \/ UNCHANGED vars
  <2>1. UNCHANGED <<useAssociativeCache, latest, cacheMap, value, keys, values, exited>>
    BY <1>3 DEF readCached, find, evict, addReturn, vars, lruVars, mtaVars
  <2> QED
    BY <2>1 DEF ContentInv, Content, ValuesOf
<1>4. CASE evict /\ evictLast
  <2>1. /\ UNCHANGED <<useAssociativeCache, latest, keys, values, exited>>
        /\ cacheMap' = cacheMap \ {last} /\ value' = [value EXCEPT ![last] = NULL]
    BY <1>4 DEF evict, evictLast, mtaVars
  <2>2. value' \in [Keys -> Values \cup {NULL}]
        /\ \A k \in cacheMap' : value'[k] = value[k]
    BY <2>1 DEF ContentInv
  <2> QED
    BY <2>1, <2>2 DEF ContentInv, Content, ValuesOf
<1>5. CASE clearCache
  <2>1. UNCHANGED <<useAssociativeCache, latest>>
    BY <1>5 DEF clearCache
  <2>2. CASE useAssociativeCache
    <3>1. /\ UNCHANGED <<cacheMap, value, exited>> /\ ~exited
          /\ keys' = [p \in 0..cacheSize - 1 |-> NoEntry]
          /\ values' = [p \in 0..cacheSize - 1 |-> NoEntry]
      BY <1>5, <2>2 DEF clearCache, mtaClear, lruVars
    <3>2. ContentInv'
      BY <2>1, <2>2, <3>1 DEF ContentInv, ValuesOf
    <3>3. Content' = {}
      BY <2>1, <2>2, <3>1, ValueFacts DEF Content
    <3> QED
      BY <2>1, <3>2, <3>3
  <2>3. CASE ~useAssociativeCache
    <3>1. UNCHANGED <<keys, values, exited>> /\ cacheMap' = {} /\ value' = NoPointers
      BY <1>5, <2>3 DEF clearCache, clear, mtaVars
    <3> QED
      BY <2>1, <2>3, <3>1 DEF ContentInv, Content, ValuesOf, NoPointers
  <2> QED
    BY <2>2, <2>3
<1> QED
  BY <1>1, <1>2, <1>3, <1>4, <1>5 DEF Next, evict

\* Every record and every entry has the value stored last for its key.
THEOREM ContentCorrect == Spec => []ContentInv
<1>1. Init => ContentInv
  BY ValueFacts DEF Init, LruInit, MtaInit, ContentInv, NoPointers
<1> QED
  BY <1>1, ContentNext, MtaCorrect, PTL DEF Spec

\* Whichever cache is configured, it implements the abstract cache: a hit
\* returns the value stored last, the key just stored is a hit, and a dropped
\* key does not come back.
THEOREM CacheRefinement == Spec => ImplementsCache
<1>1. Init => AbstractCache!Init
  <2> SUFFICES ASSUME Init PROVE AbstractCache!Init
    OBVIOUS
  <2>1. MtaInv /\ ContentInv
    BY MtaConstruct, ValueFacts
    DEF Init, LruInit, MtaInit, Constructed, ContentInv, NoPointers
  <2>2. Content = {}
    BY ValueFacts DEF Init, LruInit, MtaInit, Content
  <2>3. DOMAIN Cached = {}
    BY <2>1, <2>2, CachedFacts
  <2>4. Cached = <<>>
    BY <2>3 DEF Cached
  <2> QED
    BY <2>4 DEF Init, AbstractCache!Init
<1>2. ASSUME MtaInv, ContentInv, MtaInv', ContentInv', [Next]_vars
      PROVE  AbstractCache!Next
  <2>1. DOMAIN Cached = Content /\ \A k \in Content : Cached[k] = latest[k]
    BY <1>2, CachedFacts
  <2>2. DOMAIN Cached' = Content' /\ \A k \in Content' : Cached'[k] = latest'[k]
    <3>1. (MtaInv /\ ContentInv => /\ DOMAIN Cached = Content
                                   /\ \A k \in Content : Cached[k] = latest[k])'
      BY CachedFacts, PTL
    <3> QED
      BY <1>2, <3>1
  <2>3. CASE latest' = latest /\ Content' \subseteq Content
    <3>1. AbstractCache!Drop
      BY <2>1, <2>2, <2>3 DEF AbstractCache!Drop, AbstractCache!Dropped
    <3> QED
      BY <3>1 DEF AbstractCache!Next
  <2>4. ASSUME NEW k \in Keys, NEW v \in Values, latest' = [latest EXCEPT ![k] = v],
               k \in Content', Content' \subseteq Content \cup {k}
        PROVE  AbstractCache!Store(k)
    BY <2>1, <2>2, <2>4 DEF AbstractCache!Store, AbstractCache!Stored
  <2> QED
    BY <1>2, <2>3, <2>4, ContentNext DEF AbstractCache!Next
<1> QED
  BY <1>1, <1>2, MtaCorrect, ContentCorrect, PTL
  DEF Spec, ImplementsCache, AbstractCache!Spec

-----------------------------------------------------------------------------
(* The operators of DatabaseCache: the list of records and its size.       *)

\* t is s with k, which s has at position p (or nowhere, if p is behind its
\* end), at the front.
Fronted(s, t, k, p) ==
    /\ p \in 1..Len(s) + 1
    /\ IF p <= Len(s) THEN s[p] = k /\ Len(t) = Len(s)
       ELSE Len(t) = Len(s) + 1 /\ \A i \in 1..Len(s) : s[i] # k
    /\ t[1] = k
    /\ \A i \in 2..Len(t) : t[i] = IF i <= p THEN s[i - 1] ELSE s[i]

\* What ToFront computes; the history has every key once.
LEMMA ToFrontFacts ==
    ASSUME NEW S, NEW s \in Seq(S), IsInjective(s), NEW k \in S
    PROVE  /\ ToFront(s, k) \in Seq(S) /\ IsInjective(ToFront(s, k))
           /\ \E p \in Nat : Fronted(s, ToFront(s, k), k, p)
<1> DEFINE t == ToFront(s, k)
           p == IF k \in Range(s) THEN CHOOSE i \in DOMAIN s : s[i] = k ELSE Len(s) + 1
           n == IF k \in Range(s) THEN Len(s) ELSE Len(s) + 1
<1>1. Len(s) \in Nat /\ DOMAIN s = 1..Len(s) /\ \A i \in 1..Len(s) : s[i] \in S
  OBVIOUS
<1>2. t = [i \in 1..n |-> IF i = 1 THEN k ELSE IF i <= p THEN s[i - 1] ELSE s[i]]
  BY DEF ToFront
<1>3. k \in Range(s) <=> \E i \in 1..Len(s) : s[i] = k
  BY <1>1 DEF Range
<1>4. CASE k \in Range(s)
  <2>1. p \in 1..Len(s) /\ s[p] = k /\ n = Len(s)
    BY <1>1, <1>3, <1>4
  <2> HIDE DEF p, n, t
  <2>2. \A i \in 1..n : t[i] \in S
    BY <1>1, <1>2, <2>1
  <2>3. t \in Seq(S) /\ Len(t) = n
    <3>1. t \in [1..n -> S] /\ n \in Nat
      BY <1>1, <1>2, <2>1, <2>2
    <3> QED
      BY <3>1
  <2>4. Fronted(s, t, k, p)
    BY <1>1, <1>2, <2>1, <2>3 DEF Fronted
  <2>5. IsInjective(t)
    <3>1. \A i, j \in 1..Len(s) : s[i] = s[j] => i = j
      BY <1>1 DEF IsInjective
    <3>2. SUFFICES ASSUME NEW i \in 1..n, NEW j \in 1..n, t[i] = t[j]
                   PROVE  i = j
      BY <2>3 DEF IsInjective
    <3> DEFINE o(x) == IF x = 1 THEN p ELSE IF x <= p THEN x - 1 ELSE x
    <3>3. \A x \in 1..n : o(x) \in 1..Len(s) /\ t[x] = s[o(x)]
      BY <1>1, <1>2, <2>1
    <3>4. o(i) = o(j)
      BY <3>1, <3>2, <3>3
    <3> QED
      BY <3>4, <2>1, <1>1
  <2> QED
    BY <2>1, <2>3, <2>4, <2>5, <1>1 DEF t
<1>5. CASE k \notin Range(s)
  <2>1. p = Len(s) + 1 /\ n = Len(s) + 1 /\ \A i \in 1..Len(s) : s[i] # k
    BY <1>3, <1>5
  <2> HIDE DEF p, n, t
  <2>2. \A i \in 1..n : t[i] = IF i = 1 THEN k ELSE s[i - 1]
    BY <1>1, <1>2, <2>1
  <2>3. t \in Seq(S) /\ Len(t) = n
    <3>1. \A i \in 1..n : t[i] \in S
      BY <1>1, <2>1, <2>2
    <3>2. t \in [1..n -> S] /\ n \in Nat
      BY <1>1, <1>2, <2>1, <3>1
    <3> QED
      BY <3>2
  <2>4. Fronted(s, t, k, p)
    <3>1. p \in 1..Len(s) + 1 /\ ~(p <= Len(s)) /\ Len(t) = Len(s) + 1
      BY <1>1, <2>1, <2>3
    <3>2. t[1] = k /\ \A i \in 2..Len(t) : i <= p /\ t[i] = s[i - 1]
      BY <1>1, <2>1, <2>2, <2>3
    <3> QED
      BY <2>1, <3>1, <3>2 DEF Fronted
  <2>5. IsInjective(t)
    <3>1. \A i, j \in 1..Len(s) : s[i] = s[j] => i = j
      BY <1>1 DEF IsInjective
    <3>2. SUFFICES ASSUME NEW i \in 1..n, NEW j \in 1..n, t[i] = t[j]
                   PROVE  i = j
      BY <2>3 DEF IsInjective
    <3> QED
      BY <1>1, <2>1, <2>2, <3>1, <3>2
  <2> QED
    BY <2>1, <2>3, <2>4, <2>5, <1>1 DEF t
<1> QED
  BY <1>4, <1>5

\* f sums up the sizes of the first n records.
Sums(f, sizes, s, n) ==
    /\ f \in [0..n -> Int]
    /\ f[0] = 0
    /\ \A i \in 1..n : sizes[s[i]] \in Int
    /\ \A i \in 1..n : f[i] = f[i - 1] + sizes[s[i]]

\* The recursion of TotalSize has one solution.
LEMMA TotalSizeIs ==
    ASSUME NEW n \in Nat, NEW sizes, NEW s, NEW f, Sums(f, sizes, s, n)
    PROVE  TotalSize(sizes, s, n) = f[n]
<1> DEFINE g == CHOOSE total :
                  total = [i \in 0..n |-> IF i = 0 THEN 0 ELSE total[i - 1] + sizes[s[i]]]
<1>1. f = [i \in 0..n |-> IF i = 0 THEN 0 ELSE f[i - 1] + sizes[s[i]]]
  BY DEF Sums
<1>2. g = [i \in 0..n |-> IF i = 0 THEN 0 ELSE g[i - 1] + sizes[s[i]]]
  BY <1>1
<1>3. TotalSize(sizes, s, n) = g[n]
  BY DEF TotalSize
<1> HIDE DEF g
<1> DEFINE T == {i \in 0..n : g[i] # f[i]}
<1>4. T = {}
  <2>1. SUFFICES ASSUME T # {}
                 PROVE  FALSE
    OBVIOUS
  <2>2. PICK m \in T : \A i \in T : m <= i
    <3>1. T \in SUBSET Nat
      OBVIOUS
    <3> QED
      BY <2>1, <3>1, LeastNumber
  <2>3. m # 0
    BY <1>2, <2>2 DEF Sums
  <2>4. m \in 1..n /\ m - 1 \in 0..n /\ g[m - 1] = f[m - 1]
    BY <2>2, <2>3
  <2> QED
    BY <1>2, <2>2, <2>3, <2>4 DEF Sums
<1> QED
  BY <1>3, <1>4

-----------------------------------------------------------------------------
(* The list.                                                               *)

\* What a record in the list has to do with its neighbours.
LEMMA ListFacts ==
    ASSUME LruInv
    PROVE  \E n \in Nat :
             /\ n = Cardinality(cacheMap) /\ n <= Len(recency) /\ Listed(n)
             /\ n = 0 <=> cacheMap = {}
             /\ \A i \in 1..n : recency[i] \in cacheMap
             /\ \A i \in 1..Len(recency) : recency[i] \in Keys /\ recency[i] # NULL
             /\ \A i, j \in 1..Len(recency) : recency[i] = recency[j] => i = j
<1> DEFINE n == Cardinality(cacheMap)
<1>1. n \in Nat /\ (n = 0 <=> cacheMap = {})
  BY FS_CardinalityType, FS_EmptySet DEF LruInv
<1>2. Listed(n)
  BY DEF LruInv, ListIsRecency
<1> HIDE DEF n
<1>3. n <= Len(recency) /\ \A i \in 1..n : recency[i] \in cacheMap
  BY <1>2 DEF Listed
<1>4. \A i \in 1..Len(recency) : recency[i] \in Keys /\ recency[i] # NULL
  BY DatabaseCacheAssumption DEF LruInv
<1>5. \A i, j \in 1..Len(recency) : recency[i] = recency[j] => i = j
  BY DEF LruInv, IsInjective
<1> QED
  BY <1>1, <1>2, <1>3, <1>4, <1>5 DEF n

\* findKey relinks the record it found, whether it is the first, the last or
\* one in between, and no other.
LEMMA MoveKeepsList ==
    ASSUME LruInv, NEW k \in cacheMap, moveToHead(k), Used(k), cacheMap' = cacheMap,
           NEW n \in Nat, n = Cardinality(cacheMap)
    PROVE  /\ Listed(n)'
           /\ next' \in [Keys -> Keys \cup {NULL}] /\ prev' \in [Keys -> Keys \cup {NULL}]
           /\ \A j \in Keys \ cacheMap : prev'[j] = NULL
<1>1. /\ n <= Len(recency) /\ Listed(n)
      /\ \A i \in 1..n : recency[i] \in cacheMap
      /\ \A i \in 1..Len(recency) : recency[i] \in Keys /\ recency[i] # NULL
      /\ \A i, j \in 1..Len(recency) : recency[i] = recency[j] => i = j
  BY ListFacts
<1>2. Len(recency) \in Nat /\ k \in Keys
  <2>1. Len(recency) \in Nat
    BY DEF LruInv
  <2>2. PICK j \in 1..n : recency[j] = k
    BY <1>1 DEF Listed
  <2> QED
    BY <1>1, <2>1, <2>2
<1>3. PICK p \in Nat : Fronted(recency, recency', k, p)
  BY <1>2, ToFrontFacts DEF LruInv, Used
<1>4. p \in 1..n /\ recency[p] = k /\ Len(recency') = Len(recency)
  <2>1. PICK j \in 1..n : recency[j] = k
    BY <1>1 DEF Listed
  <2> QED
    BY <1>1, <1>2, <1>3, <2>1 DEF Fronted
<1>5. \A i \in 1..n : recency'[i] = IF i = 1 THEN k ELSE IF i <= p THEN recency[i - 1] ELSE recency[i]
  BY <1>1, <1>2, <1>3, <1>4 DEF Fronted
<1>6. cacheMap' = {recency'[i] : i \in 1..n}
  <2>1. \A i \in 1..n : recency'[i] \in cacheMap
    BY <1>1, <1>4, <1>5
  <2>2. ASSUME NEW x \in cacheMap
        PROVE  \E i \in 1..n : recency'[i] = x
    <3>1. PICK j \in 1..n : recency[j] = x
      BY <1>1 DEF Listed
    <3>2. CASE j = p
      BY <1>4, <1>5, <3>1, <3>2
    <3>3. CASE j < p
      <4>1. j + 1 \in 1..n /\ recency'[j + 1] = x
        BY <1>4, <1>5, <3>1, <3>3
      <4> QED
        BY <4>1
    <3>4. CASE j > p
      BY <1>4, <1>5, <3>1, <3>4
    <3> QED
      BY <3>2, <3>3, <3>4, <1>4
  <2> QED
    BY <2>1, <2>2
<1>7. /\ head = recency[1] /\ last = recency[n]
      /\ \A i \in 1..n : next[recency[i]] = IF i = n THEN NULL ELSE recency[i + 1]
      /\ \A i \in 1..n : prev[recency[i]] = IF i = 1 THEN NULL ELSE recency[i - 1]
  BY <1>1, <1>4 DEF Listed
<1>8. /\ next \in [Keys -> Keys \cup {NULL}] /\ prev \in [Keys -> Keys \cup {NULL}]
      /\ \A j \in Keys \ cacheMap : prev[j] = NULL
  BY DEF LruInv
<1>9. CASE head = k
  <2>1. p = 1
    <3>1. 1 \in 1..Len(recency) /\ p \in 1..Len(recency) /\ recency[1] = recency[p]
      BY <1>1, <1>2, <1>4, <1>7, <1>9
    <3> QED
      BY <1>1, <3>1
  <2>2. ASSUME NEW i \in 1..n
        PROVE  recency'[i] = recency[i]
    BY <1>4, <1>5, <2>1
  <2>3. head' = head /\ last' = last /\ next' = next /\ prev' = prev
    BY <1>9 DEF moveToHead, links
  <2>4. Listed(n)'
    <3>1. ASSUME NEW i \in 1..n
          PROVE  next'[recency'[i]] = IF i = n THEN NULL ELSE recency'[i + 1]
      <4>1. next'[recency'[i]] = next[recency[i]]
        BY <2>2, <2>3
      <4>2. i # n => i + 1 \in 1..n
        OBVIOUS
      <4>3. i # n => recency'[i + 1] = recency[i + 1]
        BY <2>2, <4>2
      <4> QED
        BY <1>7, <4>1, <4>3
    <3>2. ASSUME NEW i \in 1..n
          PROVE  prev'[recency'[i]] = IF i = 1 THEN NULL ELSE recency'[i - 1]
      <4>1. prev'[recency'[i]] = prev[recency[i]]
        BY <2>2, <2>3
      <4>2. i # 1 => i - 1 \in 1..n
        OBVIOUS
      <4>3. i # 1 => recency'[i - 1] = recency[i - 1]
        BY <2>2, <4>2
      <4> QED
        BY <1>7, <4>1, <4>3
    <3>3. head' = recency'[1] /\ last' = recency'[n] /\ n # 0
      BY <1>4, <1>7, <2>2, <2>3
    <3> QED
      BY <1>1, <1>4, <1>6, <3>1, <3>2, <3>3 DEF Listed
  <2> QED
    BY <1>8, <2>3, <2>4
<1>10. CASE head # k
  <2>1. p \in 2..n /\ head \in Keys /\ head # NULL /\ n >= 2
    BY <1>1, <1>4, <1>7, <1>10
  <2>2. /\ next' = [next EXCEPT ![prev[k]] = next[k], ![k] = head]
        /\ last' = IF last = k THEN prev[k] ELSE last
        /\ prev' = IF last = k THEN [prev EXCEPT ![head] = k, ![k] = NULL]
                    ELSE [prev EXCEPT ![next[k]] = prev[k], ![head] = k, ![k] = NULL]
        /\ head' = k
    BY <1>10 DEF moveToHead
  <2>3. prev[k] = recency[p - 1] /\ prev[k] \in Keys /\ prev[k] # k /\ p - 1 \in 1..n
    BY <1>1, <1>2, <1>4, <1>7, <2>1
  <2>4. last = k <=> p = n
    BY <1>1, <1>2, <1>4, <1>7
  <2>5. \A x \in Keys : next'[x] = IF x = k THEN head ELSE IF x = prev[k] THEN next[k] ELSE next[x]
    BY <1>8, <2>2, <2>3
  <2>6. ASSUME NEW i \in 1..n
        PROVE  next'[recency'[i]] = IF i = n THEN NULL ELSE recency'[i + 1]
    <3>1. CASE i = 1
      BY <1>2, <1>4, <1>5, <1>7, <2>1, <2>5, <3>1
    <3>2. CASE i \in 2..p
      <4>1. recency'[i] = recency[i - 1] /\ i - 1 \in 1..n /\ recency[i - 1] # k /\ recency[i - 1] \in Keys
        BY <1>1, <1>2, <1>4, <1>5, <3>2
      <4>2. CASE i = p
        <5>1. next'[recency'[i]] = next[k]
          BY <2>3, <2>5, <4>1, <4>2
        <5>2. i # n => i + 1 \in 1..n /\ i + 1 # 1 /\ ~(i + 1 <= p)
          BY <1>4, <4>2
        <5>3. i # n => recency'[i + 1] = recency[i + 1]
          BY <1>5, <5>2
        <5> QED
          BY <1>4, <1>7, <4>2, <5>1, <5>3
      <4>3. CASE i # p
        <5>1. recency[i - 1] # prev[k]
          BY <1>1, <1>2, <1>4, <2>3, <4>1, <4>3
        <5>2. next'[recency'[i]] = next[recency[i - 1]] /\ next[recency[i - 1]] = recency[i]
          BY <1>4, <1>7, <2>5, <3>2, <4>1, <4>3, <5>1
        <5>3. i + 1 \in 1..n /\ recency'[i + 1] = recency[i]
          BY <1>4, <1>5, <3>2, <4>3
        <5> QED
          BY <5>2, <5>3, <3>2
      <4> QED
        BY <4>2, <4>3
    <3>3. CASE i > p
      <4>1. recency'[i] = recency[i] /\ recency[i] # k /\ recency[i] # prev[k] /\ recency[i] \in Keys
        BY <1>1, <1>2, <1>4, <1>5, <2>1, <2>3, <3>3
      <4>2. i # n => recency'[i + 1] = recency[i + 1]
        BY <1>4, <1>5, <3>3
      <4> QED
        BY <1>7, <2>5, <4>1, <4>2
    <3> QED
      BY <1>4, <3>1, <3>2, <3>3
  <2>7. /\ p # n => next[k] = recency[p + 1] /\ next[k] \in Keys /\ next[k] # k /\ next[k] # head
                    /\ p + 1 \in 1..n
    BY <1>1, <1>2, <1>4, <1>7, <2>1
  <2>8. \A x \in Keys : prev'[x] = IF x = k THEN NULL ELSE IF x = head THEN k
                                   ELSE IF p # n /\ x = next[k] THEN prev[k] ELSE prev[x]
    BY <1>8, <2>1, <2>2, <2>3, <2>4, <2>7
  <2>9. ASSUME NEW i \in 1..n
        PROVE  prev'[recency'[i]] = IF i = 1 THEN NULL ELSE recency'[i - 1]
    <3>1. CASE i = 1
      BY <1>2, <1>5, <2>8, <3>1
    <3>2. CASE i \in 2..p
      <4>1. recency'[i] = recency[i - 1] /\ i - 1 \in 1..n /\ recency[i - 1] # k /\ recency[i - 1] \in Keys
        BY <1>1, <1>2, <1>4, <1>5, <3>2
      <4>2. CASE i = 2
        BY <1>5, <1>7, <2>8, <4>1, <4>2
      <4>3. CASE i # 2
        <5>1. recency[i - 1] # head /\ (p # n => recency[i - 1] # next[k])
          BY <1>1, <1>2, <1>4, <1>7, <2>7, <3>2, <4>1, <4>3
        <5>2. prev'[recency'[i]] = prev[recency[i - 1]] /\ prev[recency[i - 1]] = recency[i - 2]
          BY <1>7, <2>8, <3>2, <4>1, <4>3, <5>1
        <5>3. recency'[i - 1] = recency[i - 2]
          BY <1>4, <1>5, <3>2, <4>1, <4>3
        <5> QED
          BY <5>2, <5>3, <3>2
      <4> QED
        BY <4>2, <4>3
    <3>3. CASE i > p
      <4>1. recency'[i] = recency[i] /\ recency[i] # k /\ recency[i] # head /\ recency[i] \in Keys
        BY <1>1, <1>2, <1>4, <1>5, <1>7, <2>1, <3>3
      <4>2. CASE i = p + 1
        <5>1. p # n /\ prev'[recency'[i]] = prev[k]
          BY <1>4, <2>7, <2>8, <4>1, <4>2
        <5>2. recency'[i - 1] = recency[p - 1]
          BY <1>4, <1>5, <2>1, <4>2
        <5> QED
          BY <2>1, <2>3, <5>1, <5>2, <3>3
      <4>3. CASE i # p + 1
        <5>1. p # n => recency[i] # next[k]
          BY <1>1, <1>2, <2>7, <4>3
        <5>2. recency'[i - 1] = recency[i - 1] /\ i # 1
          BY <1>4, <1>5, <3>3, <4>3
        <5> QED
          BY <1>7, <2>8, <4>1, <5>1, <5>2
      <4> QED
        BY <4>2, <4>3
    <3> QED
      BY <1>4, <3>1, <3>2, <3>3
  <2>10. head' = recency'[1] /\ last' = recency'[n]
    <3>1. head' = recency'[1]
      BY <1>4, <1>5, <2>2
    <3>2. CASE p = n
      BY <1>4, <1>5, <2>1, <2>2, <2>3, <2>4, <3>1, <3>2
    <3>3. CASE p # n
      <4>1. n \in 1..n /\ n # 1 /\ ~(n <= p)
        BY <1>4, <2>1, <3>3
      <4>2. recency'[n] = recency[n]
        BY <1>5, <4>1
      <4> QED
        BY <1>7, <2>2, <2>4, <3>1, <3>3, <4>2
    <3> QED
      BY <3>2, <3>3
  <2>11. Listed(n)'
    BY <1>1, <1>4, <1>6, <2>1, <2>6, <2>9, <2>10 DEF Listed
  <2>12. next' \in [Keys -> Keys \cup {NULL}]
    <3>1. next[k] \in Keys \cup {NULL}
      BY <1>2, <1>8
    <3> QED
      BY <1>8, <2>1, <2>2, <3>1
  <2>13. prev' \in [Keys -> Keys \cup {NULL}]
    BY <1>2, <1>8, <2>2, <2>3
  <2>14. \A j \in Keys \ cacheMap : prev'[j] = NULL
    <3>1. head \in cacheMap /\ (p # n => next[k] \in cacheMap)
      BY <1>1, <1>7, <2>1, <2>7
    <3> QED
      BY <1>8, <2>8, <3>1
  <2> QED
    BY <2>11, <2>12, <2>13, <2>14
<1> QED
  BY <1>9, <1>10

\* addKeyValue puts the new record before the head; it may be of a key that was
\* evicted before.
LEMMA AddKeepsList ==
    ASSUME LruInv, NEW k \in Keys, NEW v, addNew(k, v),
           NEW n \in Nat, n = Cardinality(cacheMap)
    PROVE  /\ Listed(n + 1)'
           /\ next' \in [Keys -> Keys \cup {NULL}] /\ prev' \in [Keys -> Keys \cup {NULL}]
           /\ \A j \in Keys \ cacheMap' : prev'[j] = NULL
           /\ recency'[1] = k /\ \A i \in 1..n : recency'[i + 1] = recency[i]
<1>1. /\ n <= Len(recency) /\ Listed(n)
      /\ \A i \in 1..n : recency[i] \in cacheMap
      /\ \A i \in 1..Len(recency) : recency[i] \in Keys /\ recency[i] # NULL
      /\ \A i, j \in 1..Len(recency) : recency[i] = recency[j] => i = j
  BY ListFacts
<1>2. Len(recency) \in Nat
  BY DEF LruInv
<1>3. PICK p \in Nat : Fronted(recency, recency', k, p)
  BY ToFrontFacts DEF LruInv, addNew, Used
<1>4. /\ k \notin cacheMap /\ cacheMap' = cacheMap \cup {k}
      /\ next' = [next EXCEPT ![k] = head]
      /\ prev' = IF head = NULL THEN prev ELSE [prev EXCEPT ![head] = k]
      /\ last' = IF head = NULL THEN k ELSE last
      /\ head' = k
  BY DEF addNew
<1>5. p > n
  BY <1>1, <1>2, <1>3, <1>4 DEF Fronted
<1>6. n + 1 <= Len(recency')
  BY <1>1, <1>2, <1>3, <1>5 DEF Fronted
<1>7. recency'[1] = k
  BY <1>3 DEF Fronted
<1>8. ASSUME NEW i \in 1..n
      PROVE  recency'[i + 1] = recency[i]
  <2>1. i + 1 \in 2..Len(recency') /\ i + 1 <= p /\ (i + 1) - 1 = i
    BY <1>2, <1>3, <1>5, <1>6 DEF Fronted
  <2> QED
    BY <1>3, <2>1 DEF Fronted
<1>9. \A i \in 2..n + 1 : recency'[i] = recency[i - 1] /\ i - 1 \in 1..n
  <2> TAKE i \in 2..n + 1
  <2>1. PICK j \in 1..n : i = j + 1
    <3>1. i - 1 \in 1..n /\ i = (i - 1) + 1
      OBVIOUS
    <3> QED
      BY <3>1
  <2> QED
    BY <1>8, <2>1
<1>10. /\ IF n = 0 THEN head = NULL /\ last = NULL ELSE head = recency[1] /\ last = recency[n]
       /\ \A i \in 1..n : next[recency[i]] = IF i = n THEN NULL ELSE recency[i + 1]
       /\ \A i \in 1..n : prev[recency[i]] = IF i = 1 THEN NULL ELSE recency[i - 1]
  BY <1>1 DEF Listed
<1>11. /\ next \in [Keys -> Keys \cup {NULL}] /\ prev \in [Keys -> Keys \cup {NULL}]
       /\ \A j \in Keys \ cacheMap : prev[j] = NULL
  BY DEF LruInv
<1>12. IF n = 0 THEN head = NULL ELSE head \in Keys /\ head # NULL /\ head # k /\ head \in cacheMap
  <2>1. n # 0 => 1 \in 1..n /\ 1 \in 1..Len(recency)
    BY <1>1, <1>2
  <2> QED
    BY <1>1, <1>4, <1>10, <2>1
<1>13. cacheMap' = {recency'[i] : i \in 1..n + 1}
  <2>1. \A i \in 1..n + 1 : recency'[i] \in cacheMap'
    <3> TAKE i \in 1..n + 1
    <3>1. i = 1 \/ i \in 2..n + 1
      OBVIOUS
    <3> QED
      BY <1>1, <1>4, <1>7, <1>9, <3>1
  <2>2. ASSUME NEW x \in cacheMap'
        PROVE  \E i \in 1..n + 1 : recency'[i] = x
    <3>1. CASE x = k
      BY <1>7, <3>1
    <3>2. CASE x \in cacheMap
      <4>1. PICK j \in 1..n : recency[j] = x
        <5>1. cacheMap = {recency[i] : i \in 1..n}
          BY <1>1 DEF Listed
        <5> QED
          BY <3>2, <5>1
      <4>2. j + 1 \in 1..n + 1 /\ recency'[j + 1] = x
        BY <1>8, <4>1
      <4> QED
        BY <4>2
    <3> QED
      BY <1>4, <3>1, <3>2
  <2> QED
    BY <2>1, <2>2
<1>14. ASSUME NEW i \in 1..n + 1
       PROVE  next'[recency'[i]] = IF i = n + 1 THEN NULL ELSE recency'[i + 1]
  <2>1. CASE i = 1
    <3>1. next'[recency'[i]] = head
      BY <1>4, <1>7, <1>11, <2>1
    <3>2. n # 0 => recency'[2] = recency[1]
      BY <1>8
    <3> QED
      BY <1>10, <2>1, <3>1, <3>2
  <2>2. CASE i # 1
    <3>1. i \in 2..n + 1
      BY <2>2
    <3>2. recency'[i] = recency[i - 1] /\ i - 1 \in 1..n /\ recency[i - 1] # k
      BY <1>1, <1>4, <1>9, <3>1
    <3>3. next'[recency'[i]] = next[recency[i - 1]]
      BY <1>4, <1>11, <3>2
    <3>4. next[recency[i - 1]] = IF i - 1 = n THEN NULL ELSE recency[i]
      <4>1. PICK j \in 1..n : i = j + 1
        <5>1. i = (i - 1) + 1
          BY <3>1
        <5> QED
          BY <3>2, <5>1
      <4>2. i - 1 = j
        BY <4>1
      <4> QED
        BY <1>10, <4>1, <4>2
    <3>5. i # n + 1 => recency'[i + 1] = recency[i]
      BY <1>8, <3>1
    <3> QED
      BY <3>1, <3>3, <3>4, <3>5
  <2> QED
    BY <2>1, <2>2
<1>15. \A x \in Keys : prev'[x] = IF n # 0 /\ x = head THEN k ELSE prev[x]
  BY <1>4, <1>11, <1>12
<1>16. ASSUME NEW i \in 1..n + 1
       PROVE  prev'[recency'[i]] = IF i = 1 THEN NULL ELSE recency'[i - 1]
  <2>1. CASE i = 1
    BY <1>4, <1>7, <1>11, <1>12, <1>15, <2>1
  <2>2. CASE i # 1
    <3>1. PICK j \in 1..n : i = j + 1
      <4>1. i - 1 \in 1..n /\ i = (i - 1) + 1
        BY <2>2
      <4> QED
        BY <4>1
    <3>2. recency'[i] = recency[j] /\ i - 1 = j /\ recency[j] \in Keys /\ n # 0
      BY <1>1, <1>2, <1>8, <3>1
    <3>3. CASE j = 1
      BY <1>7, <1>10, <1>15, <2>2, <3>2, <3>3
    <3>4. CASE j # 1
      <4>1. recency[j] # head
        BY <1>1, <1>2, <1>10, <3>4
      <4>2. prev'[recency'[i]] = recency[j - 1]
        BY <1>10, <1>15, <3>2, <3>4, <4>1
      <4>3. j - 1 \in 1..n /\ (j - 1) + 1 = j
        BY <3>4
      <4>4. recency'[j] = recency[j - 1]
        BY <1>8, <4>3
      <4> QED
        BY <2>2, <3>2, <4>2, <4>4
    <3> QED
      BY <3>3, <3>4
  <2> QED
    BY <2>1, <2>2
<1>17. head' = recency'[1] /\ last' = recency'[n + 1]
  BY <1>4, <1>7, <1>8, <1>10, <1>12
<1>18. Listed(n + 1)'
  BY <1>6, <1>13, <1>14, <1>16, <1>17 DEF Listed
<1>19. next' \in [Keys -> Keys \cup {NULL}] /\ prev' \in [Keys -> Keys \cup {NULL}]
  BY <1>4, <1>11, <1>12
<1>20. \A j \in Keys \ cacheMap' : prev'[j] = NULL
  BY <1>4, <1>11, <1>12, <1>15
<1> QED
  BY <1>7, <1>8, <1>18, <1>19, <1>20

\* The loop of addKeyValue cuts the last record off, and never the first one.
LEMMA EvictKeepsList ==
    ASSUME LruInv, evictLast, NEW n \in Nat, n = Cardinality(cacheMap)
    PROVE  /\ n >= 2 /\ last = recency[n] /\ last \in cacheMap
           /\ Listed(n - 1)'
           /\ next' \in [Keys -> Keys \cup {NULL}] /\ prev' \in [Keys -> Keys \cup {NULL}]
           /\ \A j \in Keys \ cacheMap' : prev'[j] = NULL
<1>1. /\ n <= Len(recency) /\ Listed(n)
      /\ n = 0 <=> cacheMap = {}
      /\ \A i \in 1..n : recency[i] \in cacheMap
      /\ \A i \in 1..Len(recency) : recency[i] \in Keys /\ recency[i] # NULL
      /\ \A i, j \in 1..Len(recency) : recency[i] = recency[j] => i = j
  BY ListFacts
<1>2. /\ Len(recency) \in Nat /\ n # 0
      /\ next \in [Keys -> Keys \cup {NULL}] /\ prev \in [Keys -> Keys \cup {NULL}]
      /\ \A j \in Keys \ cacheMap : prev[j] = NULL
  BY <1>1 DEF LruInv, evictLast
<1>3. /\ head = recency[1] /\ last = recency[n]
      /\ \A i \in 1..n : next[recency[i]] = IF i = n THEN NULL ELSE recency[i + 1]
      /\ \A i \in 1..n : prev[recency[i]] = IF i = 1 THEN NULL ELSE recency[i - 1]
  BY <1>1, <1>2 DEF Listed
<1>4. /\ prev[last] # NULL /\ cacheMap' = cacheMap \ {last}
      /\ next' = [next EXCEPT ![prev[last]] = NULL, ![last] = NULL]
      /\ prev' = [prev EXCEPT ![last] = NULL]
      /\ last' = prev[last]
      /\ head' = head /\ recency' = recency
  BY DEF evictLast, TooLarge
<1>5. n \in 1..n /\ n >= 2 /\ last \in Keys /\ last \in cacheMap
  BY <1>1, <1>2, <1>3, <1>4
<1>6. PICK m \in Nat : n = m + 1 /\ m \in 1..n /\ m = n - 1
  <2>1. n - 1 \in Nat /\ n = (n - 1) + 1 /\ n - 1 \in 1..n
    BY <1>5
  <2> QED
    BY <2>1
<1>7. prev[last] = recency[m] /\ recency[m] # last /\ recency[m] \in Keys
  BY <1>1, <1>2, <1>3, <1>5, <1>6
<1>8. \A i \in 1..m : i \in 1..n /\ i # n /\ i \in 1..Len(recency) /\ recency[i] # last /\ recency[i] \in Keys
  BY <1>1, <1>2, <1>3, <1>6
<1>9. cacheMap' = {recency'[i] : i \in 1..m}
  <2>1. \A i \in 1..m : recency'[i] \in cacheMap'
    BY <1>1, <1>4, <1>8
  <2>2. ASSUME NEW x \in cacheMap'
        PROVE  \E i \in 1..m : recency'[i] = x
    <3>1. PICK i \in 1..n : recency[i] = x
      BY <1>1, <1>4 DEF Listed
    <3>2. i # n
      BY <1>3, <1>4, <3>1
    <3> QED
      BY <1>4, <1>6, <3>1, <3>2
  <2> QED
    BY <2>1, <2>2
<1>10. \A x \in Keys : next'[x] = IF x = last \/ x = recency[m] THEN NULL ELSE next[x]
  BY <1>2, <1>4, <1>5, <1>7
<1>11. ASSUME NEW i \in 1..m
       PROVE  next'[recency'[i]] = IF i = m THEN NULL ELSE recency'[i + 1]
  <2>1. CASE i = m
    BY <1>4, <1>7, <1>10, <2>1
  <2>2. CASE i # m
    <3>1. recency[i] # recency[m] /\ i # n
      BY <1>1, <1>6, <1>8, <2>2
    <3>2. next'[recency'[i]] = next[recency[i]]
      BY <1>4, <1>8, <1>10, <3>1
    <3>3. next[recency[i]] = recency[i + 1]
      BY <1>3, <1>8
    <3> QED
      BY <1>4, <2>2, <3>2, <3>3
  <2> QED
    BY <2>1, <2>2
<1>12. \A x \in Keys : prev'[x] = IF x = last THEN NULL ELSE prev[x]
  BY <1>2, <1>4, <1>5
<1>13. ASSUME NEW i \in 1..m
       PROVE  prev'[recency'[i]] = IF i = 1 THEN NULL ELSE recency'[i - 1]
  BY <1>3, <1>4, <1>8, <1>12
<1>14. Listed(m)'
  <2>1. m <= Len(recency') /\ m # 0 /\ head' = recency'[1] /\ last' = recency'[m]
    BY <1>1, <1>2, <1>3, <1>4, <1>5, <1>6, <1>7
  <2> QED
    BY <1>9, <1>11, <1>13, <2>1 DEF Listed
<1>15. next' \in [Keys -> Keys \cup {NULL}] /\ prev' \in [Keys -> Keys \cup {NULL}]
  BY <1>2, <1>4
<1>16. \A j \in Keys \ cacheMap' : prev'[j] = NULL
  BY <1>2, <1>4, <1>12
<1> QED
  BY <1>3, <1>5, <1>6, <1>14, <1>15, <1>16

-----------------------------------------------------------------------------
(* The size.                                                               *)

\* The sums exist in every state of the invariant.
LEMMA SumsExist ==
    ASSUME LruInv, NEW n \in Nat, n <= Len(recency)
    PROVE  \E f : Sums(f, size, recency, n)
<1> DEFINE T == {m \in 0..n : ~\E f : Sums(f, size, recency, m)}
<1>1. SUFFICES T = {}
  <2>1. n \in 0..n
    OBVIOUS
  <2> QED
    BY <2>1
<1>2. SUFFICES ASSUME T # {}
               PROVE  FALSE
  OBVIOUS
<1>3. PICK m \in T : \A i \in T : m <= i
  <2>1. T \in SUBSET Nat
    OBVIOUS
  <2> QED
    BY <1>2, <2>1, LeastNumber
<1>4. m # 0
  <2>1. Sums([i \in 0..0 |-> 0], size, recency, 0)
    BY DEF Sums
  <2> QED
    BY <1>3, <2>1
<1>5. PICK j \in 0..n : m = j + 1 /\ j \notin T
  <2>1. m - 1 \in 0..n /\ m = (m - 1) + 1 /\ ~(m <= m - 1)
    BY <1>3, <1>4
  <2>2. m - 1 \notin T
    BY <1>3, <2>1
  <2> QED
    BY <2>1, <2>2
<1>6. PICK f : Sums(f, size, recency, j)
  BY <1>5
<1> DEFINE w == size[recency[m]]
           g == [i \in 0..m |-> IF i = m THEN f[j] + w ELSE f[i]]
<1>7. w \in Int /\ \A i \in 1..m : size[recency[i]] \in Int
  <2>1. \A i \in 1..m : i \in 1..Len(recency)
    BY <1>3, <1>4 DEF LruInv
  <2>2. m \in 1..m
    BY <1>3, <1>4
  <2>3. \A i \in 1..m : recency[i] \in Keys
    BY <2>1 DEF LruInv
  <2>4. \A i \in 1..m : size[recency[i]] \in Int
    BY <2>3 DEF LruInv
  <2> QED
    BY <2>2, <2>4
<1>8. Sums(g, size, recency, m)
  <2> HIDE DEF w
  <2>1. g \in [0..m -> Int] /\ g[0] = 0
    BY <1>3, <1>4, <1>5, <1>6, <1>7 DEF Sums
  <2>2. ASSUME NEW i \in 1..m
        PROVE  g[i] = g[i - 1] + size[recency[i]]
    <3>1. i - 1 \in 0..m /\ i - 1 # m /\ g[i - 1] = f[i - 1]
      BY <1>3, <1>5
    <3>2. CASE i = m
      <4>1. i - 1 = j
        BY <1>5, <3>2
      <4> QED
        BY <3>1, <3>2, <4>1 DEF w
    <3>3. CASE i # m
      <4>1. i \in 1..j /\ g[i] = f[i]
        BY <1>3, <1>5, <3>3
      <4> QED
        BY <1>6, <3>1, <4>1 DEF Sums
    <3> QED
      BY <3>2, <3>3
  <2> HIDE DEF g
  <2> QED
    BY <1>7, <2>1, <2>2 DEF Sums
<1> QED
  BY <1>3, <1>8

\* f sums up the list s before k, at position p of it, was moved to the front.
SumsBefore(f, sizes, s, t, k, p, n) ==
    /\ Len(s) \in Nat /\ Fronted(s, t, k, p) /\ p <= n /\ n <= Len(s)
    /\ sizes[k] \in Int
    /\ Sums(f, sizes, s, n)

\* Moving a record to the front of the list does not change the sum.
LEMMA MoveKeepsSum ==
    ASSUME NEW sizes, NEW s, NEW t, NEW k, NEW p \in Nat, NEW n \in Nat, NEW f,
           SumsBefore(f, sizes, s, t, k, p, n)
    PROVE  TotalSize(sizes, t, n) = f[n]
<1> DEFINE w == sizes[k]
           g == [i \in 0..n |-> IF i = 0 THEN 0 ELSE IF i < p THEN f[i - 1] + w ELSE f[i]]
<1>1. /\ p \in 1..n /\ s[p] = k /\ t[1] = k
      /\ \A i \in 2..n : t[i] = IF i <= p THEN s[i - 1] ELSE s[i]
  BY DEF Fronted, SumsBefore
<1>2. /\ f \in [0..n -> Int] /\ f[0] = 0 /\ w \in Int
      /\ \A i \in 1..n : f[i] = f[i - 1] + sizes[s[i]] /\ sizes[s[i]] \in Int
  BY DEF Sums, SumsBefore
<1> HIDE DEF w
<1>3. f[p] = f[p - 1] + w /\ p - 1 \in 0..n
  BY <1>1, <1>2 DEF w
<1>4. g \in [0..n -> Int]
  <2>1. \A i \in 0..n : i # 0 => i - 1 \in 0..n
    OBVIOUS
  <2> QED
    BY <1>2, <2>1
<1>5. ASSUME NEW i \in 1..n
      PROVE  g[i] = g[i - 1] + sizes[t[i]]
  <2>1. i - 1 \in 0..n
    OBVIOUS
  <2>2. CASE i = 1
    <3>1. g[i - 1] = 0 /\ sizes[t[i]] = w
      BY <1>1, <2>2 DEF w
    <3>2. g[i] = w
      <4>1. CASE p = 1
        BY <1>2, <1>3, <2>2, <4>1
      <4>2. CASE p # 1
        BY <1>1, <1>2, <2>2, <4>2
      <4> QED
        BY <4>1, <4>2
    <3> QED
      BY <1>2, <3>1, <3>2
  <2>3. CASE i # 1
    <3>1. i \in 2..n /\ i - 2 \in 0..n /\ i - 1 \in 1..n /\ (i - 1) - 1 = i - 2
      BY <2>3
    <3>2. f[i - 1] = f[i - 2] + sizes[s[i - 1]] /\ f[i - 1] \in Int /\ f[i - 2] \in Int
      BY <1>2, <3>1
    <3>3. f[i] = f[i - 1] + sizes[s[i]]
      BY <1>2
    <3>4. CASE i < p
      <4>1. g[i] = f[i - 1] + w /\ g[i - 1] = f[i - 2] + w /\ t[i] = s[i - 1]
        BY <1>1, <2>1, <3>1, <3>4
      <4>2. PICK x, y, z \in Int : x = f[i - 1] /\ y = f[i - 2] /\ z = w
        BY <1>2, <3>2
      <4>3. x = y + sizes[s[i - 1]] /\ g[i] = x + z /\ g[i - 1] = y + z
        BY <3>2, <4>1, <4>2
      <4>4. sizes[s[i - 1]] \in Int
        BY <1>2, <3>1
      <4> QED
        BY <4>1, <4>3, <4>4
    <3>5. CASE i = p
      <4>1. g[i] = f[i] /\ f[i] = f[i - 1] + w /\ g[i - 1] = f[i - 2] + w /\ t[i] = s[i - 1]
        BY <1>1, <1>3, <2>1, <3>1, <3>5
      <4>2. PICK x, y, z, u \in Int : x = f[i - 1] /\ y = f[i - 2] /\ z = w /\ u = sizes[s[i - 1]]
        BY <1>2, <3>1, <3>2
      <4>3. g[i] = x + z /\ x = y + u /\ g[i - 1] = y + z /\ sizes[t[i]] = u
        BY <3>2, <4>1, <4>2
      <4> QED
        BY <4>3
    <3>6. CASE i > p
      <4>1. g[i] = f[i] /\ g[i - 1] = f[i - 1] /\ t[i] = s[i]
        BY <1>1, <2>1, <3>1, <3>6
      <4> QED
        BY <3>3, <4>1
    <3> QED
      BY <3>4, <3>5, <3>6
  <2> QED
    BY <2>2, <2>3
<1>6. g[n] = f[n] /\ g[0] = 0
  BY <1>1
<1> HIDE DEF g
<1>7. Sums(g, sizes, t, n)
  <2>1. ASSUME NEW i \in 1..n
        PROVE  sizes[t[i]] \in Int
    <3>1. i = 1 \/ (i \in 2..n /\ i - 1 \in 1..n)
      OBVIOUS
    <3> QED
      BY <1>1, <1>2, <3>1 DEF w
  <2> QED
    BY <1>4, <1>5, <1>6, <2>1 DEF Sums
<1> QED
  BY <1>6, <1>7, TotalSizeIs

\* f sums up the list s before a record of size w was put before it.
SumsRest(f, sizes, s, sizes2, t, n, w) ==
    /\ Sums(f, sizes, s, n)
    /\ \A i \in 1..n : t[i + 1] = s[i] /\ sizes2[s[i]] = sizes[s[i]]
    /\ sizes2[t[1]] = w

\* A new record at the front adds its size.
LEMMA AddSum ==
    ASSUME NEW sizes, NEW sizes2, NEW s, NEW t, NEW w \in Int, NEW n \in Nat, NEW f,
           SumsRest(f, sizes, s, sizes2, t, n, w)
    PROVE  TotalSize(sizes2, t, n + 1) = f[n] + w
<1> DEFINE g == [i \in 0..n + 1 |-> IF i = 0 THEN 0 ELSE f[i - 1] + w]
<1>1. /\ f \in [0..n -> Int] /\ f[0] = 0
      /\ \A i \in 1..n : f[i] = f[i - 1] + sizes[s[i]] /\ sizes[s[i]] \in Int
  BY DEF Sums, SumsRest
<1>2. \A i \in 1..n + 1 : i - 1 \in 0..n /\ f[i - 1] \in Int
  BY <1>1
<1>3. g \in [0..n + 1 -> Int] /\ g[0] = 0
  BY <1>2
<1>4. ASSUME NEW i \in 1..n + 1
      PROVE  g[i] = g[i - 1] + sizes2[t[i]] /\ sizes2[t[i]] \in Int
  <2>1. CASE i = 1
    BY <1>1, <2>1 DEF SumsRest
  <2>2. CASE i # 1
    <3>1. PICK j \in 1..n : i = j + 1
      <4>1. i - 1 \in 1..n /\ i = (i - 1) + 1
        BY <2>2
      <4> QED
        BY <4>1
    <3>2. i - 1 = j /\ j - 1 \in 0..n /\ j \in 0..n + 1 /\ j # 0 /\ j \in 0..n
      BY <3>1
    <3>3. g[i] = f[j] + w /\ g[i - 1] = f[j - 1] + w
      BY <2>2, <3>2
    <3>4. sizes2[t[i]] = sizes[s[j]] /\ sizes[s[j]] \in Int
      BY <1>1, <3>1 DEF SumsRest
    <3>5. f[j] = f[j - 1] + sizes[s[j]] /\ f[j - 1] \in Int
      BY <1>1, <3>2
    <3> QED
      BY <3>3, <3>4, <3>5
  <2> QED
    BY <2>1, <2>2
<1>5. g[n + 1] = f[n] + w
  OBVIOUS
<1> HIDE DEF g
<1>6. Sums(g, sizes2, t, n + 1)
  BY <1>3, <1>4 DEF Sums
<1> QED
  BY <1>5, <1>6, TotalSizeIs

\* Freeing the last record takes its size off.
LEMMA EvictSum ==
    ASSUME NEW sizes, NEW sizes2, NEW s, NEW m \in Nat, NEW f,
           Sums(f, sizes, s, m + 1),
           \A i \in 1..m : sizes2[s[i]] = sizes[s[i]]
    PROVE  TotalSize(sizes2, s, m) = f[m + 1] - sizes[s[m + 1]]
<1> DEFINE g == [i \in 0..m |-> f[i]]
<1>1. /\ f \in [0..m + 1 -> Int] /\ f[0] = 0
      /\ \A i \in 1..m + 1 : f[i] = f[i - 1] + sizes[s[i]] /\ sizes[s[i]] \in Int
  BY DEF Sums
<1>2. Sums(g, sizes2, s, m)
  <2>1. g \in [0..m -> Int] /\ g[0] = 0
    BY <1>1
  <2>2. ASSUME NEW i \in 1..m
        PROVE  g[i] = g[i - 1] + sizes2[s[i]] /\ sizes2[s[i]] \in Int
    <3>1. i \in 1..m + 1 /\ i - 1 \in 0..m /\ i \in 0..m
      OBVIOUS
    <3> QED
      BY <1>1, <3>1
  <2> HIDE DEF g
  <2> QED
    BY <2>1, <2>2 DEF Sums
<1>3. g[m] = f[m] /\ f[m] \in Int /\ m + 1 \in 1..m + 1 /\ (m + 1) - 1 = m
  BY <1>1
<1>4. f[m + 1] = f[m] + sizes[s[m + 1]] /\ sizes[s[m + 1]] \in Int
  BY <1>1, <1>3
<1> HIDE DEF g
<1>5. TotalSize(sizes2, s, m) = g[m]
  BY <1>2, TotalSizeIs
<1> QED
  BY <1>3, <1>4, <1>5

-----------------------------------------------------------------------------
(* The invariant.                                                          *)

\* Finding a key, and storing one that is present.
LEMMA MoveKeepsInv ==
    ASSUME LruInv, NEW k \in cacheMap, moveToHead(k), Used(k),
           UNCHANGED <<cacheMap, size, currentSize, evicting>>
    PROVE  LruInv'
<1>1. PICK n \in Nat :
        /\ n = Cardinality(cacheMap) /\ n <= Len(recency) /\ Listed(n)
        /\ \A i, j \in 1..Len(recency) : recency[i] = recency[j] => i = j
  BY ListFacts
<1>2. PICK i \in 1..n : recency[i] = k
  <2>1. cacheMap = {recency[j] : j \in 1..n}
    BY <1>1 DEF Listed
  <2> QED
    BY <2>1
<1>3. k \in Keys /\ Len(recency) \in Nat
  BY <1>1, <1>2 DEF LruInv
<1>4. recency' \in Seq(Keys) /\ IsInjective(recency')
  BY <1>3, ToFrontFacts DEF LruInv, Used
<1>5. PICK p \in Nat : Fronted(recency, recency', k, p)
  BY <1>3, ToFrontFacts DEF LruInv, Used
<1>6. p <= n
  <2>1. i \in 1..Len(recency)
    BY <1>1, <1>3
  <2>2. p \in 1..Len(recency) /\ recency[p] = k
    BY <1>2, <1>3, <1>5, <2>1 DEF Fronted
  <2>3. p = i
    BY <1>1, <1>2, <2>1, <2>2
  <2> QED
    BY <2>3
<1>7. PICK f : Sums(f, size, recency, n)
  BY <1>1, SumsExist
<1>8. TotalSize(size, recency, n) = f[n] /\ TotalSize(size, recency', n) = f[n]
  <2>1. size[k] \in Int
    BY <1>3 DEF LruInv
  <2>2. TotalSize(size, recency, n) = f[n]
    BY <1>7, TotalSizeIs
  <2>3. n <= Len(recency) /\ Len(recency) \in Nat
    BY <1>1, <1>3
  <2>4. TotalSize(size, recency', n) = f[n]
    <3>1. SumsBefore(f, size, recency, recency', k, p, n)
      BY <1>5, <1>6, <1>7, <2>1, <2>3 DEF SumsBefore
    <3> QED
      BY <3>1, MoveKeepsSum
  <2> QED
    BY <2>2, <2>4
<1>9. SizeIsBounded'
  BY <1>1, <1>8 DEF LruInv, SizeIsBounded
<1>10. /\ Listed(n)'
       /\ next' \in [Keys -> Keys \cup {NULL}] /\ prev' \in [Keys -> Keys \cup {NULL}]
       /\ \A j \in Keys \ cacheMap : prev'[j] = NULL
  BY <1>1, MoveKeepsList
<1>11. ListIsRecency'
  BY <1>1, <1>10 DEF ListIsRecency
<1> QED
  BY <1>4, <1>9, <1>10, <1>11 DEF LruInv

\* Storing a new key.
LEMMA AddKeepsInv ==
    ASSUME LruInv, NEW k \in Keys, NEW v \in Values, addNew(k, v)
    PROVE  LruInv'
<1>1. PICK n \in Nat :
        /\ n = Cardinality(cacheMap) /\ n <= Len(recency) /\ Listed(n)
        /\ \A i \in 1..n : recency[i] \in cacheMap
  BY ListFacts
<1>2. /\ Listed(n + 1)'
      /\ next' \in [Keys -> Keys \cup {NULL}] /\ prev' \in [Keys -> Keys \cup {NULL}]
      /\ \A j \in Keys \ cacheMap' : prev'[j] = NULL
      /\ recency'[1] = k /\ \A i \in 1..n : recency'[i + 1] = recency[i]
  BY <1>1, AddKeepsList
<1>3. /\ k \notin cacheMap /\ cacheMap' = cacheMap \cup {k}
      /\ size' = [size EXCEPT ![k] = RecordSize[v]]
      /\ currentSize' = currentSize + RecordSize[v]
      /\ evicting' = TRUE
  BY DEF addNew
<1>4. IsFiniteSet(cacheMap') /\ Cardinality(cacheMap') = n + 1
  <2>1. IsFiniteSet(cacheMap)
    BY DEF LruInv
  <2> QED
    BY <1>1, <1>3, <2>1, FS_AddElement
<1>5. ListIsRecency'
  BY <1>2, <1>4 DEF ListIsRecency
<1>6. recency' \in Seq(Keys) /\ IsInjective(recency')
  BY ToFrontFacts DEF LruInv, addNew, Used
<1>7. RecordSize[v] \in Nat
  BY DatabaseCacheAssumption
<1>8. PICK f : Sums(f, size, recency, n)
  BY <1>1, SumsExist
<1>9. size' \in [Keys -> Nat] /\ size'[k] = RecordSize[v]
      /\ \A i \in 1..n : size'[recency[i]] = size[recency[i]]
  BY <1>1, <1>3, <1>7 DEF LruInv
<1>10. TotalSize(size', recency', n + 1) = f[n] + RecordSize[v]
  <2>1. RecordSize[v] \in Int
    BY <1>7
  <2>2. \A i \in 1..n : recency'[i + 1] = recency[i] /\ size'[recency[i]] = size[recency[i]]
    BY <1>2, <1>9
  <2>3. size'[recency'[1]] = RecordSize[v]
    BY <1>2, <1>9
  <2>4. SumsRest(f, size, recency, size', recency', n, RecordSize[v])
    BY <1>8, <2>2, <2>3 DEF SumsRest
  <2> QED
    BY <2>1, <2>4, AddSum
<1>11. TotalSize(size, recency, n) = f[n]
  BY <1>8, TotalSizeIs
<1>12. SizeIsBounded'
  BY <1>1, <1>3, <1>4, <1>10, <1>11 DEF LruInv, SizeIsBounded
<1>13. currentSize' \in Int
  BY <1>3, <1>7 DEF LruInv
<1> QED
  BY <1>2, <1>3, <1>4, <1>5, <1>6, <1>9, <1>12, <1>13 DEF LruInv

\* One round of the loop.
LEMMA EvictKeepsInv ==
    ASSUME LruInv, evictLast
    PROVE  LruInv'
<1>1. PICK n \in Nat :
        /\ n = Cardinality(cacheMap) /\ n <= Len(recency)
        /\ \A i \in 1..n : recency[i] \in cacheMap
        /\ \A i \in 1..Len(recency) : recency[i] \in Keys
        /\ \A i, j \in 1..Len(recency) : recency[i] = recency[j] => i = j
  BY ListFacts
<1>2. /\ n >= 2 /\ last = recency[n] /\ last \in cacheMap
      /\ Listed(n - 1)'
      /\ next' \in [Keys -> Keys \cup {NULL}] /\ prev' \in [Keys -> Keys \cup {NULL}]
      /\ \A j \in Keys \ cacheMap' : prev'[j] = NULL
  BY <1>1, EvictKeepsList
<1>3. /\ cacheMap' = cacheMap \ {last}
      /\ size' = [size EXCEPT ![last] = 0]
      /\ currentSize' = currentSize - size[last]
      /\ evicting' = TRUE /\ evicting = TRUE /\ recency' = recency
  BY DEF evictLast, LruInv
<1>4. PICK m \in Nat : n = m + 1 /\ n - 1 = m /\ m # 0
  <2>1. n - 1 \in Nat /\ n = (n - 1) + 1 /\ n - 1 # 0
    BY <1>2
  <2> QED
    BY <2>1
<1>5. IsFiniteSet(cacheMap') /\ Cardinality(cacheMap') = m
  <2>1. IsFiniteSet(cacheMap)
    BY DEF LruInv
  <2>2. IsFiniteSet(cacheMap \ {last}) /\ Cardinality(cacheMap \ {last}) = n - 1
    BY <1>1, <1>2, <2>1, FS_RemoveElement
  <2> QED
    BY <1>3, <1>4, <2>2
<1>6. ListIsRecency'
  BY <1>2, <1>4, <1>5 DEF ListIsRecency
<1>7. cacheMap' # {}
  BY <1>4, <1>5, FS_EmptySet
<1>8. Len(recency) \in Nat /\ last \in Keys
  BY <1>1, <1>2 DEF LruInv
<1>9. size' \in [Keys -> Nat] /\ \A i \in 1..m : size'[recency[i]] = size[recency[i]]
  <2>1. ASSUME NEW i \in 1..m
        PROVE  recency[i] \in Keys /\ recency[i] # last
    BY <1>1, <1>2, <1>4, <1>8
  <2> QED
    BY <1>3, <2>1 DEF LruInv
<1>10. PICK f : Sums(f, size, recency, n)
  BY <1>1, SumsExist
<1>11. TotalSize(size, recency, n) = f[n]
  BY <1>10, TotalSizeIs
<1>12. TotalSize(size', recency, m) = f[n] - size[last]
  BY <1>2, <1>4, <1>9, <1>10, EvictSum
<1>13. SizeIsBounded'
  BY <1>1, <1>3, <1>5, <1>11, <1>12 DEF LruInv, SizeIsBounded
<1>14. currentSize' \in Int
  BY <1>3, <1>8 DEF LruInv
<1> QED
  BY <1>2, <1>3, <1>5, <1>6, <1>7, <1>9, <1>13, <1>14 DEF LruInv

\* The end of the loop: the size fits, or one record is left.
LEMMA ReturnKeepsInv ==
    ASSUME LruInv, addReturn
    PROVE  LruInv'
<1>1. PICK n \in Nat :
        /\ n = Cardinality(cacheMap) /\ n <= Len(recency) /\ Listed(n)
        /\ n = 0 <=> cacheMap = {}
        /\ \A i \in 1..Len(recency) : recency[i] \in Keys /\ recency[i] # NULL
  BY ListFacts
<1>2. /\ UNCHANGED <<cacheMap, links, size, currentSize, recency>>
      /\ evicting' = FALSE /\ ~TooLarge /\ n # 0
  BY <1>1 DEF addReturn, LruInv
<1>3. currentSize <= maxSize \/ n = 1
  <2>1. SUFFICES ASSUME prev[last] = NULL
                 PROVE  n = 1
    BY <1>2, DatabaseCacheAssumption DEF TooLarge, LruInv
  <2>2. last = recency[n] /\ prev[recency[n]] = IF n = 1 THEN NULL ELSE recency[n - 1]
    <3>1. Listed(n) /\ n \in 1..n
      BY <1>1, <1>2
    <3> QED
      BY <3>1 DEF Listed
  <2>3. n # 1 => n - 1 \in 1..Len(recency)
    BY <1>1, <1>2 DEF LruInv
  <2> QED
    BY <1>1, <2>1, <2>2, <2>3
<1>4. head' = head /\ last' = last /\ next' = next /\ prev' = prev
  BY <1>2 DEF links
<1>5. ListIsRecency'
  <2>1. ListIsRecency
    BY DEF LruInv
  <2> QED
    BY <1>2, <1>4, <2>1 DEF ListIsRecency, Listed
<1>6. SizeIsBounded'
  BY <1>1, <1>2, <1>3 DEF SizeIsBounded, LruInv
<1> QED
  BY <1>2, <1>4, <1>5, <1>6 DEF LruInv

\* The empty cache.
Empty ==
    /\ cacheMap = {}
    /\ head = NULL /\ last = NULL /\ next = NoPointers /\ prev = NoPointers
    /\ size = [k \in Keys |-> 0]
    /\ currentSize = 0
    /\ recency = <<>>
    /\ evicting = FALSE

LEMMA EmptyInv == Empty => LruInv
<1> SUFFICES ASSUME Empty
             PROVE  LruInv
  OBVIOUS
<1>1. IsFiniteSet(cacheMap) /\ Cardinality(cacheMap) = 0
  BY FS_EmptySet DEF Empty
<1>2. Listed(0)
  BY DEF Empty, Listed
<1>3. TotalSize(size, recency, 0) = 0
  <2>1. Sums([i \in 0..0 |-> 0], size, recency, 0)
    BY DEF Sums
  <2> QED
    BY <2>1, TotalSizeIs
<1>4. ListIsRecency /\ SizeIsBounded
  BY <1>1, <1>2, <1>3, DatabaseCacheAssumption DEF ListIsRecency, SizeIsBounded, Empty
<1>5. recency \in Seq(Keys) /\ IsInjective(recency)
  BY DEF Empty, IsInjective
<1>6. /\ next \in [Keys -> Keys \cup {NULL}] /\ prev \in [Keys -> Keys \cup {NULL}]
      /\ size \in [Keys -> Nat] /\ currentSize \in Int /\ evicting = FALSE
      /\ \A k \in Keys \ cacheMap : prev[k] = NULL
  BY DEF Empty, NoPointers
<1> QED
  BY <1>1, <1>4, <1>5, <1>6 DEF LruInv

\* Every step of the cache, as Database uses it.
LEMMA LruNext ==
    ASSUME LruInv, [Next]_vars
    PROVE  LruInv'
<1>1. CASE UNCHANGED lruVars
  BY <1>1 DEF lruVars, links, LruInv, ListIsRecency, Listed, SizeIsBounded
<1>2. ASSUME NEW k \in Keys, NEW v \in Values, NEW update, store(k, v, update)
      PROVE  LruInv'
  <2>1. CASE useAssociativeCache
    BY <1>1, <1>2, <2>1 DEF store
  <2>2. CASE ~useAssociativeCache
    <3>1. addPresent(k, v, update) \/ addNew(k, v)
      BY <1>2, <2>2 DEF store, add
    <3>2. CASE addPresent(k, v, update)
      BY <3>2, MoveKeepsInv DEF addPresent
    <3> QED
      BY <3>1, <3>2, AddKeepsInv
  <2> QED
    BY <2>1, <2>2
<1>3. CASE clearCache
  <2>1. CASE useAssociativeCache
    BY <1>1, <1>3, <2>1 DEF clearCache
  <2>2. CASE ~useAssociativeCache
    <3>1. Empty'
      BY <1>3, <2>2 DEF clearCache, clear, Empty, NoPointers, LruInv
    <3>2. (Empty => LruInv)'
      BY EmptyInv, PTL
    <3> QED
      BY <3>1, <3>2
  <2> QED
    BY <2>1, <2>2
<1>4. CASE \E k \in Keys : storeNode(k)
  BY <1>2, <1>4, DatabaseCachesAssumption DEF storeNode
<1>5. CASE \E v \in RootValues : updateStateRoot(v)
  BY <1>2, <1>5, DatabaseCachesAssumption DEF updateStateRoot
<1>6. CASE \E k \in Keys : readCached(k)
  <2>1. PICK k \in Keys : find(k)
    BY <1>6 DEF readCached
  <2> QED
    BY <2>1, MoveKeepsInv DEF find
<1>7. CASE evict
  BY <1>7, EvictKeepsInv, ReturnKeepsInv DEF evict
<1>8. CASE UNCHANGED vars
  BY <1>1, <1>8 DEF vars
<1> QED
  BY <1>3, <1>4, <1>5, <1>6, <1>7, <1>8 DEF Next

\* The list and its size are as they should be in every reachable state, for
\* every number of keys, all sizes of records and every maxSize.
THEOREM LruCorrect == Spec => []LruInv
<1>1. Init => LruInv
  BY EmptyInv DEF Init, LruInit, Empty
<1> QED
  BY <1>1, LruNext, PTL DEF Spec

\* The list of DatabaseCache is the cached keys in the order of their last use,
\* whatever records findKey relinked and addKeyValue pushed or freed.
THEOREM ListInOrder == Spec => []ListIsRecency
<1>1. LruInv => ListIsRecency
  BY DEF LruInv
<1> QED
  BY <1>1, LruCorrect, PTL

\* currentSize is the sum of the sizes of the records, and at most maxSize
\* between two calls unless there is only one record.
THEOREM SizeCorrect == Spec => []SizeIsBounded
<1>1. LruInv => SizeIsBounded
  BY DEF LruInv
<1> QED
  BY <1>1, LruCorrect, PTL
=============================================================================
