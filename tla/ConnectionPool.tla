--------------------------- MODULE ConnectionPool ---------------------------
(***************************************************************************)
(* The connections of Database to PostgreSQL: getConnection,               *)
(* disposeConnection and queryFailed, and the threads that call them (in   *)
(* readRemote, readTreeRemote, writeRemote, updateStateRoot and sendData,  *)
(* which all have the same shape).  With dbConnectionsPool a call locks    *)
(* connMutex for as long as it runs.  Without it there is one connection,  *)
(* and getConnection keeps connMutex until disposeConnection.              *)
(***************************************************************************)
EXTENDS Naturals, FiniteSets

CONSTANTS
    HashDBThreads,    \* maxHashDBThreads threads of the HashDB server
    ExecutorThreads,  \* maxExecutorThreads threads of the executor server
    Sender,           \* dbSenderThread
    Uncounted,        \* other threads that read the database: proverThread, which
                      \* executes batches, the detached thread of loadDb2MemCache
    dbNumberOfPoolConnections,
    NULL,
    MaxFailures       \* bound: queries that throw

Counted == HashDBThreads \cup ExecutorThreads \cup {Sender}
Threads == Counted \cup Uncounted
Connections == 0..dbNumberOfPoolConnections - 1

\* The checks of initRemote.
ASSUME ConnectionPoolAssumption ==
    /\ IsFiniteSet(HashDBThreads) /\ IsFiniteSet(ExecutorThreads)
    /\ IsFiniteSet(Uncounted) /\ Counted \cap Uncounted = {}
    /\ NULL \notin Threads
    /\ dbNumberOfPoolConnections \in Nat
    /\ Cardinality(Counted) <= dbNumberOfPoolConnections
    /\ MaxFailures \in Nat

VARIABLES
    dbConnectionsPool,   \* config.dbConnectionsPool
    connMutex,           \* the thread that holds it, or NULL
    bInUse, bDisconnect, \* connectionsPool
    nextConnection, usedConnections,
    pc,                  \* what each thread does
    conn,                \* the index of the connection it has
    exited,              \* the thread that called exitProcess, or NULL
    failures,            \* calls of queryFailed
    session, since       \* history: failures when the session of a connection
                         \* was opened, and when a thread got its connection

pool == <<bInUse, bDisconnect, nextConnection, usedConnections, session>>
vars == <<dbConnectionsPool, connMutex, pool, pc, conn, exited, failures, since>>

Init ==
    /\ dbConnectionsPool \in BOOLEAN
    /\ connMutex = NULL
    /\ bInUse = [c \in Connections |-> FALSE]
    /\ bDisconnect = [c \in Connections |-> FALSE]
    /\ nextConnection = 0 /\ usedConnections = 0
    /\ pc = [t \in Threads |-> "idle"]
    /\ conn = [t \in Threads |-> 0]
    /\ exited = NULL
    /\ failures = 0
    /\ session = [c \in Connections |-> 0]
    /\ since = [t \in Threads |-> 0]

Running == exited = NULL

Succ(c) == IF c + 1 = dbNumberOfPoolConnections THEN 0 ELSE c + 1

\* How many connections the loop of getConnection passes before it reaches c.
Distance(c) ==
    IF c >= nextConnection THEN c - nextConnection
    ELSE c + dbNumberOfPoolConnections - nextConnection

mutFreeNoWrap == {c \in Connections : ~bInUse[c] /\ c >= nextConnection}
Free == {c \in Connections : ~bInUse[c]}

FirstFree == CHOOSE c \in Free : \A d \in Free : Distance(c) <= Distance(d)

mutGetPooledKeepsSession(t) ==
    /\ Running /\ dbConnectionsPool
    /\ pc[t] = "idle" /\ connMutex = NULL
    /\ Free # {}
    /\ bInUse' = [bInUse EXCEPT ![FirstFree] = TRUE]
    /\ nextConnection' = Succ(FirstFree)
    /\ usedConnections' = usedConnections + 1
    /\ bDisconnect' = [bDisconnect EXCEPT ![FirstFree] = FALSE]
    /\ UNCHANGED session
    /\ conn' = [conn EXCEPT ![t] = FirstFree]
    /\ since' = [since EXCEPT ![t] = failures]
    /\ pc' = [pc EXCEPT ![t] = "query"]
    /\ UNCHANGED <<dbConnectionsPool, connMutex, exited, failures>>

\* getConnection with a pool: a free connection, reconnected if asked to.
getPooled(t) ==
    /\ Running /\ dbConnectionsPool
    /\ pc[t] = "idle" /\ connMutex = NULL
    /\ Free # {}
    /\ bInUse' = [bInUse EXCEPT ![FirstFree] = TRUE]
    /\ nextConnection' = Succ(FirstFree)
    /\ usedConnections' = usedConnections + 1
    /\ bDisconnect' = [bDisconnect EXCEPT ![FirstFree] = FALSE]
    /\ session' = IF bDisconnect[FirstFree]
                  THEN [session EXCEPT ![FirstFree] = failures] ELSE session
    /\ conn' = [conn EXCEPT ![t] = FirstFree]
    /\ since' = [since EXCEPT ![t] = failures]
    /\ pc' = [pc EXCEPT ![t] = "query"]
    /\ UNCHANGED <<dbConnectionsPool, connMutex, exited, failures>>

\* "run out of free connections"
getExhausted(t) ==
    /\ Running /\ dbConnectionsPool
    /\ pc[t] = "idle" /\ connMutex = NULL
    /\ Free = {}
    /\ exited' = t
    /\ UNCHANGED <<dbConnectionsPool, connMutex, pool, pc, conn, failures, since>>

\* getConnection without a pool.
getUnique(t) ==
    /\ Running /\ ~dbConnectionsPool
    /\ pc[t] = "idle" /\ connMutex = NULL
    /\ connMutex' = t
    /\ since' = [since EXCEPT ![t] = failures]
    /\ pc' = [pc EXCEPT ![t] = "query"]
    /\ UNCHANGED <<dbConnectionsPool, pool, conn, exited, failures>>

\* The query returns, or throws.
query(t) ==
    /\ Running
    /\ pc[t] = "query"
    /\ \/ pc' = [pc EXCEPT ![t] = "dispose"]
       \/ /\ failures + Cardinality({u \in Threads : pc[u] = "failed"}) < MaxFailures
          /\ pc' = [pc EXCEPT ![t] = "failed"]
    /\ UNCHANGED <<dbConnectionsPool, connMutex, pool, conn, exited, failures, since>>

mutQueryFailedKeepsLock(t) ==
    /\ Running
    /\ pc[t] = "failed" /\ connMutex = NULL
    /\ connMutex' = t
    /\ bDisconnect' = [c \in Connections |-> TRUE]
    /\ failures' = failures + 1
    /\ pc' = [pc EXCEPT ![t] = "dispose"]
    /\ UNCHANGED <<dbConnectionsPool, bInUse, nextConnection, usedConnections,
                   session, conn, exited, since>>

\* queryFailed, in the handler of the exception: every connection is to be
\* reconnected before its next use.
queryFailed(t) ==
    /\ Running
    /\ pc[t] = "failed" /\ connMutex = NULL
    /\ bDisconnect' = [c \in Connections |-> TRUE]
    /\ failures' = failures + 1
    /\ pc' = [pc EXCEPT ![t] = "dispose"]
    /\ UNCHANGED <<dbConnectionsPool, connMutex, bInUse, nextConnection, usedConnections,
                   session, conn, exited, since>>

mutDisposeNext(t) ==
    /\ Running /\ dbConnectionsPool
    /\ pc[t] = "dispose" /\ connMutex = NULL
    /\ bInUse' = [bInUse EXCEPT ![(conn[t] + 1) % dbNumberOfPoolConnections] = FALSE]
    /\ usedConnections' = usedConnections - 1
    /\ conn' = [conn EXCEPT ![t] = 0]
    /\ since' = [since EXCEPT ![t] = 0]
    /\ pc' = [pc EXCEPT ![t] = "idle"]
    /\ UNCHANGED <<dbConnectionsPool, connMutex, bDisconnect, nextConnection, session,
                   exited, failures>>

disposePooled(t) ==
    /\ Running /\ dbConnectionsPool
    /\ pc[t] = "dispose" /\ connMutex = NULL
    /\ bInUse' = [bInUse EXCEPT ![conn[t]] = FALSE]
    /\ usedConnections' = usedConnections - 1
    /\ conn' = [conn EXCEPT ![t] = 0]
    /\ since' = [since EXCEPT ![t] = 0]
    /\ pc' = [pc EXCEPT ![t] = "idle"]
    /\ UNCHANGED <<dbConnectionsPool, connMutex, bDisconnect, nextConnection, session,
                   exited, failures>>

disposeUnique(t) ==
    /\ Running /\ ~dbConnectionsPool
    /\ pc[t] = "dispose"
    /\ connMutex' = NULL
    /\ since' = [since EXCEPT ![t] = 0]
    /\ pc' = [pc EXCEPT ![t] = "idle"]
    /\ UNCHANGED <<dbConnectionsPool, pool, conn, exited, failures>>

Start(t) == getPooled(t) \/ getExhausted(t) \/ getUnique(t)
Continue(t) == query(t) \/ queryFailed(t) \/ disposePooled(t) \/ disposeUnique(t)

Next == \E t \in Threads : Start(t) \/ Continue(t)

Spec == Init /\ [][Next]_vars

\* A thread that has a connection keeps running; nobody has to ask for one.
FairSpec == Spec /\ \A t \in Threads : WF_vars(Continue(t))

-----------------------------------------------------------------------------
(* Properties.                                                             *)

\* Every variable has its type.
TypeOK ==
    /\ dbConnectionsPool \in BOOLEAN
    /\ connMutex \in Threads \cup {NULL}
    /\ bInUse \in [Connections -> BOOLEAN]
    /\ bDisconnect \in [Connections -> BOOLEAN]
    /\ nextConnection \in Connections
    /\ usedConnections \in Nat
    /\ pc \in [Threads -> {"idle", "query", "failed", "dispose"}]
    /\ conn \in [Threads -> Connections]
    /\ exited \in Threads \cup {NULL}
    /\ failures \in Nat
    /\ session \in [Connections -> Nat]
    /\ since \in [Threads -> Nat]

Holders == {t \in Threads : pc[t] # "idle"}

\* No two threads ever send queries through the same connection, with or
\* without the pool, and bInUse and usedConnections say who has one.
ConnectionsAreExclusive ==
    IF dbConnectionsPool
    THEN /\ \A t, u \in Holders : conn[t] = conn[u] => t = u
         /\ {c \in Connections : bInUse[c]} = {conn[t] : t \in Holders}
         /\ usedConnections = Cardinality(Holders)
    ELSE Holders \subseteq {connMutex}

\* A thread that asks for a connection after a query failed, to send it again
\* or for another one, gets a session that was opened after the failure, also
\* when the connection was in use by another thread at the time.
RetryIsReconnected ==
    dbConnectionsPool => \A t \in Holders : session[conn[t]] >= since[t]

\* initRemote leaves a connection for each thread it counts: the process runs
\* out of connections only when a thread that it does not count, the prover
\* thread or the one that loads the caches, asks for one or has one.
ExhaustedOnlyByUncounted ==
    exited # NULL => exited \in Uncounted \/ \E u \in Uncounted : pc[u] # "idle"

\* With the pool every thread that got a connection gives it back, whatever
\* fails: no thread waits for a mutex that nobody will release.
ConnectionsReturn ==
    \A t \in Threads :
        dbConnectionsPool /\ pc[t] # "idle" ~> pc[t] = "idle" \/ ~Running

-----------------------------------------------------------------------------
(* The inductive invariant behind the safety properties (proved in         *)
(* ConnectionPoolProofs for every value of the constants).                 *)

\* A connection that need not be reconnected has a session that was opened
\* after the last failure.
SessionInv ==
    /\ \A c \in Connections : bDisconnect[c] \/ session[c] = failures
    /\ dbConnectionsPool => \A t \in Holders : session[conn[t]] >= since[t]

\* With the pool nobody keeps connMutex between two calls.
MutexInv == dbConnectionsPool => connMutex = NULL

PoolInv ==
    /\ TypeOK
    /\ MutexInv
    /\ ConnectionsAreExclusive
    /\ SessionInv
    /\ ExhaustedOnlyByUncounted
=============================================================================
