--------------------------- MODULE DatabaseCaches ---------------------------
(***************************************************************************)
(* The cache of nodes of Database: dbMTCache or dbMTACache, as the static  *)
(* useAssociativeCache says.  A node is stored under the hash of its value,*)
(* so its value never changes, and is stored with update = false by write  *)
(* and by read after a miss.  The state root is the only key with several  *)
(* values: updateStateRoot stores them with update = true.                 *)
(***************************************************************************)
EXTENDS DatabaseCache, DatabaseAssociativeCache

CONSTANTS
    dbStateRootKey,  \* one of the keys; its four slots are the same
    NodeValue,       \* the value of a node
    RootValues       \* the values of the state root

ASSUME DatabaseCachesAssumption ==
    /\ Keys = DOMAIN slots
    /\ dbStateRootKey \in Keys
    /\ \A i, j \in 1..4 : slots[dbStateRootKey][i] = slots[dbStateRootKey][j]
    /\ Values = {NodeValue} \cup RootValues

VARIABLES
    useAssociativeCache,
    latest  \* history: the value stored last, by a call that returned

vars == <<useAssociativeCache, latest, lruVars, mtaVars>>

ValuesOf(k) == IF k = dbStateRootKey THEN RootValues ELSE {NodeValue}

Init ==
    /\ useAssociativeCache \in BOOLEAN
    /\ latest \in [Keys -> Values]
    /\ \A k \in Keys : latest[k] \in ValuesOf(k)
    /\ LruInit
    /\ MtaInit

store(k, v, update) ==
    /\ IF useAssociativeCache
       THEN addKeyValue(k, v, update) /\ UNCHANGED lruVars
       ELSE add(k, v, update) /\ UNCHANGED mtaVars
    /\ latest' = IF exited' THEN latest ELSE [latest EXCEPT ![k] = v]
    /\ UNCHANGED useAssociativeCache

\* write, and read when the cache missed
storeNode(k) == k # dbStateRootKey /\ store(k, NodeValue, FALSE)

mutUpdateStateRootAsWrite(v) == store(dbStateRootKey, v, FALSE)
updateStateRoot(v) == store(dbStateRootKey, v, TRUE)

\* read of a cached key; the associative cache does not record its use
readCached(k) ==
    /\ ~useAssociativeCache
    /\ find(k)
    /\ UNCHANGED <<useAssociativeCache, latest, mtaVars>>

\* The loop of addKeyValue of dbMTCache
evict ==
    /\ evictLast \/ addReturn
    /\ UNCHANGED <<useAssociativeCache, latest, mtaVars>>

clearCache ==
    /\ IF useAssociativeCache THEN mtaClear /\ UNCHANGED lruVars
                              ELSE clear /\ UNCHANGED mtaVars
    /\ UNCHANGED <<useAssociativeCache, latest>>

Next ==
    \/ \E k \in Keys : storeNode(k) \/ readCached(k)
    \/ \E v \in RootValues : updateStateRoot(v)
    \/ evict
    \/ clearCache

Spec == Init /\ [][Next]_vars

-----------------------------------------------------------------------------
\* What is cached, in a process that has not exited.
Cached ==
    IF exited THEN <<>>
    ELSE IF useAssociativeCache
    THEN [k \in {j \in Keys : Hit(j)} |-> values[Position(k)]]
    ELSE [k \in cacheMap |-> value[k]]

\* Whichever cache is configured, it is a cache: a hit returns the last value
\* stored, the key just stored is a hit, and a dropped key does not come back.
AbstractCache == INSTANCE Cache WITH content <- Cached, CacheKeys <- Keys, CacheValues <- Values
ImplementsCache == AbstractCache!Spec

-----------------------------------------------------------------------------
(* The inductive invariant behind ImplementsCache (proved, with MtaInv, in *)
(* DatabaseCachesProofs).                                                  *)

\* Every record, and every entry of the ring, has the value stored last for
\* its key: a record that is present is only left as it is for keys that have
\* one value.
ContentInv ==
    /\ useAssociativeCache \in BOOLEAN
    /\ exited => useAssociativeCache
    /\ latest \in [Keys -> Values] /\ \A k \in Keys : latest[k] \in ValuesOf(k)
    /\ cacheMap \subseteq Keys /\ value \in [Keys -> Values \cup {NULL}]
    /\ ~useAssociativeCache => \A k \in cacheMap : value[k] = latest[k]
    /\ values \in [0..cacheSize - 1 -> Values \cup {NoEntry}]
    /\ useAssociativeCache /\ ~exited
          => \A p \in 0..cacheSize - 1 : keys[p] # NoEntry => values[p] = latest[keys[p]]
=============================================================================
