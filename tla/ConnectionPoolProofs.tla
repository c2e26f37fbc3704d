------------------------ MODULE ConnectionPoolProofs ------------------------
(***************************************************************************)
(* Proofs about ConnectionPool, for every number of threads and of         *)
(* connections that initRemote accepts, with and without the pool.         *)
(***************************************************************************)
EXTENDS ConnectionPool, FiniteSetTheorems, TLAPS

-----------------------------------------------------------------------------
(* The constants, and the loop of getConnection.                           *)

\* There are finitely many threads, and at least one connection.
LEMMA PoolFacts ==
    /\ IsFiniteSet(Counted) /\ IsFiniteSet(Threads)
    /\ dbNumberOfPoolConnections \in Nat \ {0}
    /\ 0 \in Connections
    /\ IsFiniteSet(Connections) /\ Cardinality(Connections) = dbNumberOfPoolConnections
    /\ NULL \notin Threads
    /\ Counted \subseteq Threads
<1> USE ConnectionPoolAssumption
<1>1. IsFiniteSet(HashDBThreads \cup ExecutorThreads)
  BY FS_Union
<1>2. IsFiniteSet(Counted)
  BY <1>1, FS_AddElement DEF Counted
<1>3. IsFiniteSet(Threads)
  BY <1>2, FS_Union DEF Threads
<1>4. Cardinality(Counted) # 0 /\ Cardinality(Counted) \in Nat
  BY <1>2, FS_EmptySet, FS_CardinalityType DEF Counted
<1>5. dbNumberOfPoolConnections \in Nat \ {0}
  BY <1>4
<1>6. 0 \in Connections
  BY <1>5 DEF Connections
<1>7. IsFiniteSet(Connections) /\ Cardinality(Connections) = dbNumberOfPoolConnections
  BY <1>5, FS_Interval DEF Connections
<1> QED
  BY <1>2, <1>3, <1>5, <1>6, <1>7 DEF Threads

\* A set of numbers that is not empty has a least one.
LEMMA LeastElement ==
    ASSUME NEW T \in SUBSET Nat, T # {}
    PROVE  \E x \in T : \A y \in T : x <= y
<1> DEFINE R == {ss \in Nat \X Nat : ss[1] < ss[2]}
<1>1. IsWellFoundedOn(R, Nat)
  BY NatLessThanWellFounded DEF OpToRel
<1>2. PICK x \in T : \A y \in T : ~(<<y, x>> \in R)
  BY <1>1, WFMin
<1>3. \A y \in T : ~(y < x)
  BY <1>2
<1> QED
  BY <1>3

\* The loop of getConnection ends at a free connection whenever there is one.
LEMMA FirstFreeIsFree ==
    ASSUME nextConnection \in Connections, Free # {}
    PROVE  FirstFree \in Free
<1> DEFINE D == {Distance(c) : c \in Free}
<1>1. \A c \in Connections : Distance(c) \in Nat
  BY PoolFacts DEF Connections, Distance
<1>2. D \in SUBSET Nat /\ D # {}
  BY <1>1 DEF Free
<1>3. PICK x \in D : \A y \in D : x <= y
  BY <1>2, LeastElement
<1>4. \E c \in Free : \A d \in Free : Distance(c) <= Distance(d)
  BY <1>3
<1> QED
  BY <1>4 DEF FirstFree

\* The position after a connection is again one of the pool.
LEMMA SuccInRange ==
    ASSUME NEW c \in Connections
    PROVE  Succ(c) \in Connections
  BY PoolFacts DEF Connections, Succ

-----------------------------------------------------------------------------
(* The invariant, action by action.                                        *)

\* The initial state satisfies the invariant.
LEMMA PoolInit == Init => PoolInv
<1> SUFFICES ASSUME Init PROVE PoolInv
  OBVIOUS
<1>1. TypeOK
  BY PoolFacts DEF Init, TypeOK
<1>2. Holders = {}
  BY DEF Init, Holders
<1>3. ConnectionsAreExclusive
  BY <1>2, FS_EmptySet DEF Init, ConnectionsAreExclusive
<1>4. MutexInv /\ SessionInv /\ ExhaustedOnlyByUncounted
  BY <1>2 DEF Init, MutexInv, SessionInv, ExhaustedOnlyByUncounted
<1> QED
  BY <1>1, <1>3, <1>4 DEF PoolInv

\* The number of threads that have a connection is a number.
LEMMA HoldersFinite ==
    /\ IsFiniteSet(Holders)
    /\ Cardinality(Holders) \in Nat
  BY PoolFacts, FS_Subset, FS_CardinalityType DEF Holders

\* getConnection with a pool gives a connection that nobody has, with a session
\* that is not older than the last failure.
LEMMA GetPooledNext ==
    ASSUME PoolInv, NEW t \in Threads, getPooled(t)
    PROVE  PoolInv'
<1> DEFINE c == FirstFree
<1> USE PoolFacts
<1>1. /\ Running /\ dbConnectionsPool /\ dbConnectionsPool'
      /\ pc[t] = "idle" /\ Free # {}
      /\ connMutex' = connMutex /\ exited' = exited /\ failures' = failures
      /\ bInUse' = [bInUse EXCEPT ![c] = TRUE]
      /\ nextConnection' = Succ(c)
      /\ usedConnections' = usedConnections + 1
      /\ bDisconnect' = [bDisconnect EXCEPT ![c] = FALSE]
      /\ session' = IF bDisconnect[c] THEN [session EXCEPT ![c] = failures] ELSE session
      /\ conn' = [conn EXCEPT ![t] = c]
      /\ since' = [since EXCEPT ![t] = failures]
      /\ pc' = [pc EXCEPT ![t] = "query"]
  BY DEF getPooled
<1> HIDE DEF c
<1>2. c \in Connections /\ ~bInUse[c]
  BY <1>1, FirstFreeIsFree DEF PoolInv, TypeOK, Free, c
<1>3. TypeOK'
  BY <1>1, <1>2, SuccInRange DEF PoolInv, TypeOK
<1>4. t \notin Holders /\ Holders' = Holders \cup {t}
  BY <1>1 DEF PoolInv, TypeOK, Holders
<1>5. /\ \A u \in Holders : conn[u] # c /\ conn'[u] = conn[u] /\ conn[u] \in Connections
      /\ conn'[t] = c
  <2>1. \A u \in Holders : bInUse[conn[u]] /\ u \in Threads
    BY <1>1 DEF PoolInv, ConnectionsAreExclusive, Holders
  <2> QED
    BY <1>1, <1>2, <1>4, <2>1 DEF PoolInv, TypeOK
<1>6. ConnectionsAreExclusive'
  <2>1. \A u, v \in Holders' : conn'[u] = conn'[v] => u = v
    BY <1>1, <1>4, <1>5 DEF PoolInv, ConnectionsAreExclusive
  <2>2. {d \in Connections : bInUse'[d]} = {d \in Connections : bInUse[d]} \cup {c}
    BY <1>1, <1>2 DEF PoolInv, TypeOK
  <2>3. {conn'[u] : u \in Holders'} = {conn[u] : u \in Holders} \cup {c}
    BY <1>4, <1>5
  <2>4. Cardinality(Holders') = Cardinality(Holders) + 1
    BY <1>4, HoldersFinite, FS_AddElement
  <2> QED
    BY <1>1, <2>1, <2>2, <2>3, <2>4 DEF PoolInv, ConnectionsAreExclusive
<1>7. SessionInv'
  <2>1. \A d \in Connections : bDisconnect'[d] \/ session'[d] = failures'
    BY <1>1, <1>2 DEF PoolInv, TypeOK, SessionInv
  <2>2. session'[c] = failures
    BY <1>1, <1>2 DEF PoolInv, TypeOK, SessionInv
  <2>3. ASSUME NEW u \in Holders
        PROVE  session'[conn'[u]] >= since'[u]
    BY <1>1, <1>2, <1>4, <1>5 DEF PoolInv, TypeOK, SessionInv, Holders
  <2>4. session'[conn'[t]] >= since'[t]
    BY <1>1, <1>5, <2>2 DEF PoolInv, TypeOK
  <2> QED
    BY <1>4, <2>1, <2>3, <2>4 DEF SessionInv
<1>8. MutexInv' /\ ExhaustedOnlyByUncounted'
  BY <1>1 DEF PoolInv, MutexInv, ExhaustedOnlyByUncounted, Running
<1> QED
  BY <1>3, <1>6, <1>7, <1>8 DEF PoolInv

\* The process ends for want of a connection only if a thread that initRemote
\* does not count has one or asks for one.
LEMMA GetExhaustedNext ==
    ASSUME PoolInv, NEW t \in Threads, getExhausted(t)
    PROVE  PoolInv'
<1> USE PoolFacts
<1>1. /\ dbConnectionsPool /\ pc[t] = "idle" /\ Free = {}
      /\ exited' = t
      /\ UNCHANGED <<dbConnectionsPool, connMutex, pool, pc, conn, failures, since>>
  BY DEF getExhausted
<1>2. /\ TypeOK' /\ MutexInv'
      /\ Holders' = Holders
  BY <1>1 DEF PoolInv, TypeOK, MutexInv, pool, Holders
<1>3. ConnectionsAreExclusive' /\ SessionInv'
  BY <1>1, <1>2 DEF PoolInv, ConnectionsAreExclusive, SessionInv, pool
<1>4. ExhaustedOnlyByUncounted'
  <2> SUFFICES ASSUME t \notin Uncounted, \A u \in Uncounted : pc[u] = "idle"
               PROVE  FALSE
    BY <1>1 DEF ExhaustedOnlyByUncounted
  <2>1. Holders \subseteq Counted /\ t \in Counted /\ t \notin Holders
    BY <1>1 DEF Holders, Threads
  <2>2. Cardinality(Holders \cup {t}) <= Cardinality(Counted)
    BY <2>1, FS_Subset
  <2>3. Cardinality(Holders \cup {t}) = Cardinality(Holders) + 1
    BY <2>1, HoldersFinite, FS_AddElement
  <2>4. Cardinality(Counted) \in Nat /\ Cardinality(Counted) <= dbNumberOfPoolConnections
    BY ConnectionPoolAssumption, FS_CardinalityType
  <2>5. Connections = {conn[u] : u \in Holders}
    BY <1>1 DEF PoolInv, TypeOK, ConnectionsAreExclusive, Free
  <2> DEFINE f == [u \in Holders |-> conn[u]]
  <2>6. f \in Surjection(Holders, Connections)
    BY <2>5 DEF Surjection
  <2>7. Cardinality(Connections) <= Cardinality(Holders)
    BY <2>6, HoldersFinite, FS_Surjection
  <2> QED
    BY <2>2, <2>3, <2>4, <2>7, HoldersFinite
<1> QED
  BY <1>2, <1>3, <1>4 DEF PoolInv

\* Without a pool the one connection is given under connMutex.
LEMMA GetUniqueNext ==
    ASSUME PoolInv, NEW t \in Threads, getUnique(t)
    PROVE  PoolInv'
<1> USE PoolFacts
<1>1. /\ Running /\ ~dbConnectionsPool /\ connMutex = NULL
      /\ connMutex' = t
      /\ since' = [since EXCEPT ![t] = failures]
      /\ pc' = [pc EXCEPT ![t] = "query"]
      /\ UNCHANGED <<dbConnectionsPool, pool, conn, exited, failures>>
  BY DEF getUnique
<1>2. TypeOK' /\ MutexInv' /\ SessionInv'
  BY <1>1 DEF PoolInv, TypeOK, MutexInv, SessionInv, pool
<1>3. Holders = {}
  BY <1>1 DEF PoolInv, ConnectionsAreExclusive, Holders
<1>4. Holders' \subseteq {t}
  BY <1>1, <1>3 DEF PoolInv, TypeOK, Holders
<1>5. ConnectionsAreExclusive' /\ ExhaustedOnlyByUncounted'
  BY <1>1, <1>4 DEF ConnectionsAreExclusive, ExhaustedOnlyByUncounted, Running
<1> QED
  BY <1>2, <1>5 DEF PoolInv

\* A query, and queryFailed, change neither who has a connection nor which one;
\* a failure marks every session as old.
LEMMA QueryNext ==
    ASSUME PoolInv, NEW t \in Threads, query(t) \/ queryFailed(t)
    PROVE  PoolInv'
<1> USE PoolFacts
<1>1. /\ Running /\ pc[t] \in {"query", "failed"}
      /\ pc' \in {[pc EXCEPT ![t] = "failed"], [pc EXCEPT ![t] = "dispose"]}
      /\ UNCHANGED <<dbConnectionsPool, connMutex, bInUse, nextConnection,
                     usedConnections, session, conn, exited, since>>
      /\ \/ UNCHANGED <<failures, bDisconnect>>
         \/ /\ failures' = failures + 1
            /\ bDisconnect' = [c \in Connections |-> TRUE]
  BY DEF query, queryFailed, pool
<1>2. TypeOK' /\ MutexInv'
  <2>1. failures' \in Nat
    BY <1>1 DEF PoolInv, TypeOK
  <2>2. bDisconnect' \in [Connections -> BOOLEAN]
    <3>1. bDisconnect \in [Connections -> BOOLEAN]
      BY DEF PoolInv, TypeOK
    <3>2. [c \in Connections |-> TRUE] \in [Connections -> BOOLEAN]
      OBVIOUS
    <3>3. bDisconnect' = bDisconnect \/ bDisconnect' = [c \in Connections |-> TRUE]
      BY <1>1
    <3> QED
      BY <3>1, <3>2, <3>3, Zenon
  <2>3. pc' \in [Threads -> {"idle", "query", "failed", "dispose"}]
    BY <1>1 DEF PoolInv, TypeOK
  <2> QED
    BY <1>1, <2>1, <2>2, <2>3 DEF PoolInv, TypeOK, MutexInv
<1>3. Holders' = Holders
  BY <1>1 DEF PoolInv, TypeOK, Holders
<1>4. ConnectionsAreExclusive' /\ ExhaustedOnlyByUncounted'
  BY <1>1, <1>3 DEF PoolInv, ConnectionsAreExclusive, ExhaustedOnlyByUncounted, Running
<1>5. SessionInv'
  BY <1>1, <1>3 DEF PoolInv, SessionInv
<1> QED
  BY <1>2, <1>4, <1>5 DEF PoolInv

\* disposeConnection gives back the connection of its own thread, and no other.
LEMMA DisposePooledNext ==
    ASSUME PoolInv, NEW t \in Threads, disposePooled(t)
    PROVE  PoolInv'
<1> USE PoolFacts
<1>1. /\ Running /\ dbConnectionsPool /\ dbConnectionsPool'
      /\ pc[t] = "dispose"
      /\ bInUse' = [bInUse EXCEPT ![conn[t]] = FALSE]
      /\ usedConnections' = usedConnections - 1
      /\ conn' = [conn EXCEPT ![t] = 0]
      /\ since' = [since EXCEPT ![t] = 0]
      /\ pc' = [pc EXCEPT ![t] = "idle"]
      /\ UNCHANGED <<dbConnectionsPool, connMutex, bDisconnect, nextConnection, session,
                     exited, failures>>
  BY DEF disposePooled
<1>2. t \in Holders /\ Holders' = Holders \ {t}
  BY <1>1 DEF PoolInv, TypeOK, Holders
<1>3. /\ Cardinality(Holders') = Cardinality(Holders) - 1
      /\ Cardinality(Holders) # 0
      /\ usedConnections = Cardinality(Holders)
  BY <1>1, <1>2, HoldersFinite, FS_RemoveElement, FS_EmptySet
     DEF PoolInv, ConnectionsAreExclusive
<1>4. TypeOK'
  BY <1>1, <1>3 DEF PoolInv, TypeOK
<1>5. \A u \in Holders' : conn'[u] = conn[u] /\ since'[u] = since[u] /\ conn[u] # conn[t]
  BY <1>1, <1>2 DEF PoolInv, TypeOK, ConnectionsAreExclusive, Holders
<1>6. ConnectionsAreExclusive'
  <2>1. \A u, v \in Holders' : conn'[u] = conn'[v] => u = v
    BY <1>1, <1>2, <1>5 DEF PoolInv, ConnectionsAreExclusive
  <2>2. {d \in Connections : bInUse'[d]} = {d \in Connections : bInUse[d]} \ {conn[t]}
    BY <1>1 DEF PoolInv, TypeOK
  <2>3. {conn'[u] : u \in Holders'} = {conn[u] : u \in Holders} \ {conn[t]}
    BY <1>2, <1>5
  <2> QED
    BY <1>1, <1>3, <2>1, <2>2, <2>3 DEF PoolInv, ConnectionsAreExclusive
<1>7. SessionInv'
  BY <1>1, <1>2, <1>5 DEF PoolInv, SessionInv
<1>8. MutexInv' /\ ExhaustedOnlyByUncounted'
  BY <1>1 DEF PoolInv, MutexInv, ExhaustedOnlyByUncounted, Running
<1> QED
  BY <1>4, <1>6, <1>7, <1>8 DEF PoolInv

\* Without a pool, disposeConnection releases connMutex.
LEMMA DisposeUniqueNext ==
    ASSUME PoolInv, NEW t \in Threads, disposeUnique(t)
    PROVE  PoolInv'
<1> USE PoolFacts
<1>1. /\ Running /\ ~dbConnectionsPool /\ pc[t] = "dispose"
      /\ connMutex' = NULL
      /\ since' = [since EXCEPT ![t] = 0]
      /\ pc' = [pc EXCEPT ![t] = "idle"]
      /\ UNCHANGED <<dbConnectionsPool, pool, conn, exited, failures>>
  BY DEF disposeUnique
<1>2. TypeOK' /\ MutexInv' /\ SessionInv'
  BY <1>1 DEF PoolInv, TypeOK, MutexInv, SessionInv, pool
<1>3. Holders = {t}
  BY <1>1 DEF PoolInv, ConnectionsAreExclusive, Holders
<1>4. Holders' = {}
  BY <1>1, <1>3 DEF PoolInv, TypeOK, Holders
<1>5. ConnectionsAreExclusive' /\ ExhaustedOnlyByUncounted'
  BY <1>1, <1>4 DEF ConnectionsAreExclusive, ExhaustedOnlyByUncounted, Running
<1> QED
  BY <1>2, <1>5 DEF PoolInv

\* The invariant of the pool, for every number of threads and connections.
THEOREM PoolCorrect == Spec => []PoolInv
<1>1. PoolInv /\ [Next]_vars => PoolInv'
  <2> SUFFICES ASSUME PoolInv, [Next]_vars PROVE PoolInv'
    OBVIOUS
  <2>1. CASE Next
    BY <2>1, GetPooledNext, GetExhaustedNext, GetUniqueNext, QueryNext,
       DisposePooledNext, DisposeUniqueNext DEF Next, Start, Continue
  <2>2. CASE UNCHANGED vars
    <3>1. Holders' = Holders
      BY <2>2 DEF vars, Holders
    <3> QED
      BY <2>2, <3>1 DEF vars, pool, PoolInv, TypeOK, MutexInv, ConnectionsAreExclusive,
         SessionInv, ExhaustedOnlyByUncounted
  <2> QED
    BY <2>1, <2>2
<1> QED
  BY <1>1, PoolInit, PTL DEF Spec

-----------------------------------------------------------------------------
\* Every variable of the pool has its type; in particular usedConnections does
\* not fall below zero.
THEOREM PoolTypeCorrect == Spec => []TypeOK
  BY PoolCorrect, PTL DEF PoolInv

\* No two threads use the same connection.
THEOREM Exclusive == Spec => []ConnectionsAreExclusive
  BY PoolCorrect, PTL DEF PoolInv

\* A retry after a failed query uses a session opened after the failure.
THEOREM Reconnected == Spec => []RetryIsReconnected
<1>1. PoolInv => RetryIsReconnected
  BY DEF PoolInv, SessionInv, RetryIsReconnected
<1> QED
  BY <1>1, PoolCorrect, PTL

\* The threads that initRemote counts never run out of connections.
THEOREM NeverExhausted == Spec => []ExhaustedOnlyByUncounted
  BY PoolCorrect, PTL DEF PoolInv
=============================================================================
