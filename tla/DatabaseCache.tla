---------------------------- MODULE DatabaseCache ----------------------------
(***************************************************************************)
(* DatabaseCache (hashdb/database_cache), the base class of the caches of  *)
(* Merkle-tree nodes and of programs: a map to records in a doubly linked  *)
(* list, most recently used first, cut at its end to stay in maxSize.      *)
(* There is at most one record per key, so a pointer to a record is the    *)
(* key of the record.  Every call holds the mutex, but the loop that       *)
(* evicts takes several steps.  maxSize > 0: a cache of size 0 is disabled *)
(* and every call returns at once.                                         *)
(***************************************************************************)
EXTENDS Integers, Sequences, FiniteSetsExt

CONSTANTS
    Keys,
    Values,
    RecordSize,  \* size of the record of a value, as allocRecord computes it
    maxSize,
    NULL

ASSUME DatabaseCacheAssumption ==
    /\ NULL \notin Keys
    /\ RecordSize \in [Values -> Nat \ {0}]
    /\ maxSize \in Nat \ {0}

VARIABLES
    cacheMap,          \* the keys that have a record
    head, last,
    next, prev, value, size,  \* the fields of the records
    currentSize,
    evicting,          \* addKeyValue is in its loop
    recency            \* history: the keys stored or found, latest first

links == <<head, last, next, prev>>
lruVars == <<cacheMap, links, value, size, currentSize, evicting, recency>>

NoPointers == [k \in Keys |-> NULL]

LruInit ==
    /\ cacheMap = {}
    /\ head = NULL /\ last = NULL /\ next = NoPointers /\ prev = NoPointers
    /\ value = NoPointers /\ size = [k \in Keys |-> 0]
    /\ currentSize = 0 /\ evicting = FALSE
    /\ recency = <<>>

\* The sequence s with k at its front, moved there if s has it.
ToFront(s, k) ==
    LET p == IF k \in Range(s) THEN CHOOSE i \in DOMAIN s : s[i] = k ELSE Len(s) + 1
        n == IF k \in Range(s) THEN Len(s) ELSE Len(s) + 1
    IN  [i \in 1..n |-> IF i = 1 THEN k ELSE IF i <= p THEN s[i - 1] ELSE s[i]]

Used(k) == recency' = ToFront(recency, k)

\* findKey on a key that is present: its record goes to the head.
mutMoveToHeadKeepsLast(k) ==
    IF head = k THEN UNCHANGED links
    ELSE /\ next' = [next EXCEPT ![prev[k]] = next[k], ![k] = head]
         /\ last' = last
         /\ prev' = IF last = k THEN [prev EXCEPT ![head] = k, ![k] = NULL]
                    ELSE [prev EXCEPT ![next[k]] = prev[k], ![head] = k, ![k] = NULL]
         /\ head' = k

moveToHead(k) ==
    IF head = k THEN UNCHANGED links
    ELSE /\ next' = [next EXCEPT ![prev[k]] = next[k], ![k] = head]
         /\ last' = IF last = k THEN prev[k] ELSE last
         /\ prev' = IF last = k THEN [prev EXCEPT ![head] = k, ![k] = NULL]
                    ELSE [prev EXCEPT ![next[k]] = prev[k], ![head] = k, ![k] = NULL]
         /\ head' = k

\* addKeyValue on a key that is present.  updateRecord does not touch the size.
addPresent(k, v, update) ==
    /\ ~evicting
    /\ k \in cacheMap
    /\ moveToHead(k)
    /\ value' = IF update THEN [value EXCEPT ![k] = v] ELSE value
    /\ Used(k)
    /\ UNCHANGED <<cacheMap, size, currentSize, evicting>>

\* addKeyValue on a new key, up to the loop.
addNew(k, v) ==
    /\ ~evicting
    /\ k \notin cacheMap
    /\ cacheMap' = cacheMap \cup {k}
    /\ next' = [next EXCEPT ![k] = head]
    /\ prev' = IF head = NULL THEN prev ELSE [prev EXCEPT ![head] = k]
    /\ last' = IF head = NULL THEN k ELSE last
    /\ head' = k
    /\ value' = [value EXCEPT ![k] = v]
    /\ size' = [size EXCEPT ![k] = RecordSize[v]]
    /\ currentSize' = currentSize + RecordSize[v]
    /\ evicting' = TRUE
    /\ Used(k)

add(k, v, update) == addPresent(k, v, update) \/ addNew(k, v)

TooLarge == currentSize > maxSize /\ prev[last] # NULL

mutEvictKeepsSize ==
    /\ evicting /\ TooLarge
    /\ cacheMap' = cacheMap \ {last}
    /\ next' = [next EXCEPT ![prev[last]] = NULL, ![last] = NULL]
    /\ prev' = [prev EXCEPT ![last] = NULL]
    /\ last' = prev[last]
    /\ value' = [value EXCEPT ![last] = NULL]
    /\ size' = [size EXCEPT ![last] = 0]
    /\ UNCHANGED <<head, currentSize, evicting, recency>>

\* The body of the loop: the last record is freed.
evictLast ==
    /\ evicting /\ TooLarge
    /\ cacheMap' = cacheMap \ {last}
    /\ next' = [next EXCEPT ![prev[last]] = NULL, ![last] = NULL]
    /\ prev' = [prev EXCEPT ![last] = NULL]
    /\ last' = prev[last]
    /\ value' = [value EXCEPT ![last] = NULL]
    /\ size' = [size EXCEPT ![last] = 0]
    /\ currentSize' = currentSize - size[last]
    /\ UNCHANGED <<head, evicting, recency>>

addReturn ==
    /\ evicting /\ ~TooLarge
    /\ evicting' = FALSE
    /\ UNCHANGED <<cacheMap, links, value, size, currentSize, recency>>

\* find; a miss changes nothing.
find(k) ==
    /\ ~evicting
    /\ k \in cacheMap
    /\ moveToHead(k)
    /\ Used(k)
    /\ UNCHANGED <<cacheMap, value, size, currentSize, evicting>>

clear ==
    /\ ~evicting
    /\ cacheMap' = {}
    /\ head' = NULL /\ last' = NULL /\ next' = NoPointers /\ prev' = NoPointers
    /\ value' = NoPointers /\ size' = [k \in Keys |-> 0]
    /\ currentSize' = 0
    /\ recency' = <<>>
    /\ UNCHANGED evicting

-----------------------------------------------------------------------------
\* The records, from head to last and back, are the first n keys of recency.
Listed(n) ==
    /\ n <= Len(recency)
    /\ cacheMap = {recency[i] : i \in 1..n}
    /\ IF n = 0 THEN head = NULL /\ last = NULL
       ELSE head = recency[1] /\ last = recency[n]
    /\ \A i \in 1..n :
          /\ next[recency[i]] = IF i = n THEN NULL ELSE recency[i + 1]
          /\ prev[recency[i]] = IF i = 1 THEN NULL ELSE recency[i - 1]

\* The list, followed in either direction, is the cached keys from the most to
\* the least recently used, and no key that was evicted was used later than one
\* that was kept: relinking a record in findKey, pushing one in addKeyValue and
\* cutting the list never lose a record or keep the wrong one.
ListIsRecency == Listed(Cardinality(cacheMap))

\* The sum of the sizes of the first n keys of s.
TotalSize(sizes, s, n) ==
    LET total[i \in 0..n] == IF i = 0 THEN 0 ELSE total[i - 1] + sizes[s[i]]
    IN  total[n]

\* currentSize is the sum of the sizes of the records, although updates keep
\* the old size, and outside of addKeyValue it is at most maxSize unless a
\* single record is larger (the loop never frees the record just added).
SizeIsBounded ==
    /\ currentSize = TotalSize(size, recency, Cardinality(cacheMap))
    /\ ~evicting => currentSize <= maxSize \/ Cardinality(cacheMap) = 1

-----------------------------------------------------------------------------
\* The inductive invariant behind the two (proved in LruCacheProofs).  A record
\* outside of the list has no predecessor, and the loop that evicts has the
\* record just added.
LruInv ==
    /\ recency \in Seq(Keys) /\ IsInjective(recency)
    /\ next \in [Keys -> Keys \cup {NULL}] /\ prev \in [Keys -> Keys \cup {NULL}]
    /\ size \in [Keys -> Nat] /\ currentSize \in Int /\ evicting \in BOOLEAN
    /\ IsFiniteSet(cacheMap)
    /\ \A k \in Keys \ cacheMap : prev[k] = NULL
    /\ evicting => cacheMap # {}
    /\ ListIsRecency
    /\ SizeIsBounded
=============================================================================
