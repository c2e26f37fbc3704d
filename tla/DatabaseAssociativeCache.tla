----------------------- MODULE DatabaseAssociativeCache -----------------------
(***************************************************************************)
(* DatabaseMTAssociativeCache (hashdb/database_associative_cache): entries *)
(* are written to consecutive positions of a ring of cacheSize positions,  *)
(* and a table of raw indexes, four slots of which belong to a key, says   *)
(* where an entry is.  A raw index counts all insertions modulo 2^32; the  *)
(* width is a constant here, so that the counter wraps.  A slot is empty   *)
(* when its raw index is more than cacheSize behind the counter.           *)
(* Every call holds the mutex from beginning to end.                       *)
(***************************************************************************)
EXTENDS Naturals, Sequences, FiniteSetsExt

CONSTANTS
    slots,       \* slots[k][i]: vkey[i] & indexesMask, for i in 1..4
    indexesSize,
    cacheSize,
    RawValues,   \* 2^32 in the code
    NoEntry      \* the key of a position never written

ASSUME AssociativeCacheAssumption ==
    /\ {indexesSize, cacheSize, RawValues} \subseteq Nat \ {0}
    /\ RawValues % cacheSize = 0
    /\ RawValues >= 2 * cacheSize + 2
    /\ \A k \in DOMAIN slots : slots[k] \in [1..4 -> 0..indexesSize - 1]
    /\ NoEntry \notin DOMAIN slots

VARIABLES
    indexes,            \* raw index in each slot
    keys, values,       \* the ring
    currentCacheIndex,
    exited              \* exitProcess was called

mtaVars == <<indexes, keys, values, currentCacheIndex, exited>>

UINT32_MAX == RawValues - 1

\* postConstruct
MtaInit ==
    /\ indexes = [s \in 0..indexesSize - 1 |-> UINT32_MAX - cacheSize - 1]
    /\ keys = [p \in 0..cacheSize - 1 |-> NoEntry]
    /\ values = [p \in 0..cacheSize - 1 |-> NoEntry]
    /\ currentCacheIndex = 0
    /\ exited = FALSE

emptyCacheSlot(current, raw) ==
    \/ current >= raw /\ current - raw > cacheSize
    \/ current < raw /\ UINT32_MAX - raw + current > cacheSize

NextIndex(current) == IF current = UINT32_MAX THEN 0 ELSE current + 1

\* The positions in slots[k] at which findKey and addKeyValue find key k.
MatchingSlots(k) ==
    {i \in 1..4 : LET raw == indexes[slots[k][i]]
                  IN  ~emptyCacheSlot(currentCacheIndex, raw) /\ keys[raw % cacheSize] = k}

Hit(k) == MatchingSlots(k) # {}
Position(k) == indexes[slots[k][Min(MatchingSlots(k))]] % cacheSize

-----------------------------------------------------------------------------
(* forcedInsertion.  chain.used is usedRawCacheIndexes: the last one is to *)
(* be put into one of the slots of its key, replacing the oldest entry     *)
(* that has not been moved yet, which is then the next to be put.          *)

EmptySlots(k, table, current) == {i \in 1..4 : emptyCacheSlot(current, table[slots[k][i]])}

MovableSlots(k, chain) ==
    {i \in 1..4 : LET raw == chain.table[slots[k][i]]
                  IN  raw \notin Range(chain.used) /\ raw < UINT32_MAX}

mutForceInsertDrops(chain, ring, current) ==
    LET input == chain.used[Len(chain.used)]
        key   == ring[input % cacheSize]
    IN  IF chain.result # "insert" THEN chain
        ELSE [chain EXCEPT !.table[slots[key][1]] = input, !.result = "done"]

\* The slot with the lowest raw index among those.
OldestSlot(k, chain) ==
    LET raw(i) == chain.table[slots[k][i]]
        olds == MovableSlots(k, chain)
    IN  CHOOSE i \in olds : \A j \in olds :
            raw(i) < raw(j) \/ (raw(i) = raw(j) /\ i <= j)

\* The raw index goes to a free slot of its key, or displaces another one.
putIndex(chain, raw, k, current) ==
    LET free == EmptySlots(k, chain.table, current)
        slot(i) == slots[k][i]
        old == OldestSlot(k, chain)
    IN  IF free # {}
        THEN [chain EXCEPT !.table[slot(Min(free))] = raw, !.result = "done"]
        ELSE IF MovableSlots(k, chain) = {} THEN [chain EXCEPT !.result = "exit"]
        ELSE [chain EXCEPT !.table[slot(old)] = raw, !.used = Append(@, chain.table[slot(old)])]

\* One level of the recursion, with the ring and the counter it sees.
forcedInsertionStep(chain, ring, current) ==
    LET input == chain.used[Len(chain.used)]
    IN  IF chain.result # "insert" THEN chain
        ELSE IF Len(chain.used) > 9 THEN [chain EXCEPT !.result = "exit"]
        ELSE putIndex(chain, input, ring[input % cacheSize], current)

\* The levels of the recursion; the tenth one can only exit.
forcedChain(start, ring, current) ==
    LET chain[n \in 0..10] == IF n = 0 THEN start
                              ELSE forcedInsertionStep(chain[n - 1], ring, current)
    IN  chain

forcedInsertion(table, raw, ring, current) ==
    forcedChain([table |-> table, used |-> <<raw>>, result |-> "insert"], ring, current)[10]

-----------------------------------------------------------------------------
(* addKeyValue                                                             *)

mtaAddPresent(k, v, update) ==
    /\ Hit(k)
    /\ values' = IF update THEN [values EXCEPT ![Position(k)] = v] ELSE values
    /\ UNCHANGED <<indexes, keys, currentCacheIndex, exited>>

mtaAddNew(k, v) ==
    LET raw  == currentCacheIndex
        ring == [keys EXCEPT ![raw % cacheSize] = k]
        free == EmptySlots(k, indexes, currentCacheIndex)
        forced == forcedInsertion(indexes, raw, ring, NextIndex(raw))
    IN
    /\ ~Hit(k)
    /\ keys' = ring
    /\ values' = [values EXCEPT ![raw % cacheSize] = v]
    /\ currentCacheIndex' = NextIndex(raw)
    /\ IF free # {}
       THEN indexes' = [indexes EXCEPT ![slots[k][Min(free)]] = raw] /\ UNCHANGED exited
       ELSE indexes' = forced.table /\ exited' = (forced.result = "exit")

addKeyValue(k, v, update) ==
    /\ ~exited
    /\ mtaAddPresent(k, v, update) \/ mtaAddNew(k, v)

\* clear calls postConstruct again.
mtaClear ==
    /\ ~exited
    /\ indexes' = [s \in 0..indexesSize - 1 |-> UINT32_MAX - cacheSize - 1]
    /\ keys' = [p \in 0..cacheSize - 1 |-> NoEntry]
    /\ values' = [p \in 0..cacheSize - 1 |-> NoEntry]
    /\ currentCacheIndex' = 0
    /\ UNCHANGED exited

-----------------------------------------------------------------------------
\* Each of the last cacheSize entries is found through one of the slots of its
\* key, and at its own position: displacing entries in forcedInsertion, and the
\* counter when it wraps, lose no entry and leave no second copy of a key.
EntriesReachable ==
    ~exited => \A p \in DOMAIN keys :
        keys[p] # NoEntry => Hit(keys[p]) /\ Position(keys[p]) = p

-----------------------------------------------------------------------------
(* The inductive invariant behind EntriesReachable (proved in              *)
(* DatabaseCachesProofs for every size of the tables and the counter).     *)

\* raw is the index of one of the last cacheSize insertions before current.
Recent(current, raw) ==
    \/ raw < current /\ current - raw <= cacheSize
    \/ raw > current /\ current + RawValues - raw <= cacheSize

NotFull(ring) == \E p \in 0..cacheSize - 1 : ring[p] = NoEntry

\* Until the ring is full the counter has not wrapped, and the positions below
\* it are the written ones.
Filling(ring, current) ==
    NotFull(ring) => /\ current < cacheSize
                     /\ \A p \in 0..cacheSize - 1 : ring[p] # NoEntry <=> p < current

\* The raw indexes a slot can have; until the ring is full, those of the
\* written positions and the one that slots are constructed with.
RawIndexes(ring, current) ==
    {raw \in 0..UINT32_MAX :
        NotFull(ring) => raw < current \/ raw = UINT32_MAX - cacheSize - 1}

MtaTypeOK ==
    /\ indexes \in [0..indexesSize - 1 -> RawIndexes(keys, currentCacheIndex)]
    /\ keys \in [0..cacheSize - 1 -> DOMAIN slots \cup {NoEntry}]
    /\ currentCacheIndex \in 0..UINT32_MAX
    /\ exited \in BOOLEAN

NoCopies(ring) ==
    \A p, q \in 0..cacheSize - 1 : ring[p] = ring[q] /\ ring[p] # NoEntry => p = q

\* A slot of key k has the raw index.
InSlot(table, k, raw) == \E i \in 1..4 : table[slots[k][i]] = raw

\* Not any index that leads to the entry: the index of its own insertion is in
\* a slot of its key.  Others, left from before, may become empty at any time.
OwnIndex ==
    \A raw \in 0..UINT32_MAX :
        Recent(currentCacheIndex, raw) /\ keys[raw % cacheSize] # NoEntry
            => InSlot(indexes, keys[raw % cacheSize], raw)

MtaInv ==
    /\ MtaTypeOK
    /\ Filling(keys, currentCacheIndex)
    /\ NoCopies(keys)
    /\ ~exited => OwnIndex
=============================================================================
