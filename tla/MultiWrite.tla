----------------------------- MODULE MultiWrite -----------------------------
(***************************************************************************)
(* The write path of the Merkle-tree database: Database (hashdb/database)  *)
(* with its three MultiWriteData buffers (hashdb/multi_write), the sender  *)
(* thread dbSenderThread, the readers that miss the cache, the getFlushData*)
(* call of a replica, and the crash of the process.                        *)
(*                                                                         *)
(* Nodes and programs are content addressed: the key is the hash of the    *)
(* value, so a map from keys to values is modelled by the set of its keys. *)
(* The node table and the program table, and the nodes and program maps of *)
(* a buffer, go through the same steps; one set holds both kinds.  The     *)
(* state root is the one row that is overwritten: its successive values    *)
(* are numbered by the order of the updateStateRoot calls (0 is the zero   *)
(* root that createStateRoot inserts, or the empty nodesStateRoot string). *)
(*                                                                         *)
(* Database.read and getProgram return a cached value before they look     *)
(* here, and a cached entry may be evicted at any time: only the reads     *)
(* that miss the cache are modelled.  config.dbMultiWrite is true.         *)
(*                                                                         *)
(* An operator named mut... is a plausible fault of the definition after   *)
(* it; no specification uses it, mutation tests of the properties do.      *)
(***************************************************************************)
EXTENDS Naturals, FiniteSets

CONSTANTS
    Nodes,               \* hashes of Merkle-tree nodes
    Programs,            \* hashes of smart-contract programs
    dbStateRootKey,      \* the row of the node table that holds the state root
    Readers,             \* threads that read
    dbReadRetryCounter,  \* config.dbReadRetryCounter
    MaxWrites,           \* bound: calls of writeRemote()
    MaxFlush,            \* bound: calls of flush() per process lifetime
    MaxRoots,            \* bound: calls of updateStateRoot()
    MaxFailures,         \* bound: queries that throw
    MaxCrashes           \* bound: crashes of the process

ASSUME ConstantsAssumption ==
    /\ Nodes \cap Programs = {}
    /\ dbStateRootKey \notin Nodes \cup Programs
    /\ dbReadRetryCounter \in Nat
    /\ MaxWrites \in Nat
    /\ MaxFlush \in Nat
    /\ MaxRoots \in Nat
    /\ MaxFailures \in Nat
    /\ MaxCrashes \in Nat

Keys == Nodes \cup Programs

Rows == Keys \cup {dbStateRootKey}
Buffer == 0..2
mutSuccNoWrap(i) == i + 1
SuccMod3(i) == (i + 1) % 3

NoRead == [pc |-> "idle"]

VARIABLES
    \* config.dbReadOnly, read once when the process starts
    dbReadOnly,
    \* data[0..2], one function per field of MultiWriteData
    accepted,        \* nodes and program
    intray,          \* nodesIntray and programIntray
    nodesStateRoot,  \* version of the root to store, 0 when there is none
    built,           \* ~multiQuery.isEmpty()
    unsent,          \* rows of the queries of multiQuery with sent = false
    stored,          \* the stored flag
    \* MultiWrite
    lastFlushId, storedFlushId, storingFlushId,
    pendingToFlushDataIndex, storingDataIndex, synchronizingDataIndex,
    \* dbSenderThread and getFlushDataSem
    senderPc, getFlushDataSem,
    \* the remote database (external), which survives a crash
    db, dbRoot,
    \* the readers that missed the cache
    read,
    \* history: keys written and last root set since the process started,
    \* both at each flush, the nodes of the tree of each root that came before
    \* it, what the replica received
    written, setRoot, promised, promisedRoot, lastRoot, treeBefore, delivered,
    \* how much of the bounds is used
    writes, failures, crashes

buffers == <<accepted, intray, nodesStateRoot, built, unsent, stored>>
ids     == <<lastFlushId, storedFlushId, storingFlushId>>
indexes == <<pendingToFlushDataIndex, storingDataIndex, synchronizingDataIndex>>
remote  == <<db, dbRoot>>
history == <<written, setRoot, promised, promisedRoot, lastRoot, treeBefore, delivered>>
vars == <<dbReadOnly, buffers, ids, indexes, senderPc, getFlushDataSem, remote, read,
          history, writes, failures, crashes>>

-----------------------------------------------------------------------------
(* Reset, IsEmpty and acceptIntray of MultiWriteData.                      *)

IsEmpty(b) == accepted[b] = {} /\ intray[b] = {} /\ nodesStateRoot[b] = 0

\* acceptIntray: what becomes of the maps and of their intrays.
Merged(b)  == [accepted EXCEPT ![b] = @ \cup intray[b]]
Cleared(b) == [intray EXCEPT ![b] = {}]

mutResetKeepsRoot(b, acc, int) ==
    /\ accepted' = [acc EXCEPT ![b] = {}]
    /\ intray'   = [int EXCEPT ![b] = {}]
    /\ nodesStateRoot' = nodesStateRoot
    /\ built'  = [built EXCEPT ![b] = FALSE]
    /\ unsent' = [unsent EXCEPT ![b] = {}]
    /\ stored' = [stored EXCEPT ![b] = FALSE]

Reset(b, acc, int) ==
    /\ accepted' = [acc EXCEPT ![b] = {}]
    /\ intray'   = [int EXCEPT ![b] = {}]
    /\ nodesStateRoot' = [nodesStateRoot EXCEPT ![b] = 0]
    /\ built'  = [built EXCEPT ![b] = FALSE]
    /\ unsent' = [unsent EXCEPT ![b] = {}]
    /\ stored' = [stored EXCEPT ![b] = FALSE]

acceptIntray(b) ==
    /\ accepted' = Merged(b)
    /\ intray'   = Cleared(b)

\* findNode, findProgram: the node search looks at the storing buffer only
\* while the flush being stored is not the stored one.
findNode(k) ==
    \/ k \in accepted[pendingToFlushDataIndex]
    \/ k \in intray[pendingToFlushDataIndex]
    \/ storingFlushId # storedFlushId /\ k \in accepted[storingDataIndex]

mutFindProgramGuarded(k) ==
    \/ k \in accepted[pendingToFlushDataIndex]
    \/ k \in intray[pendingToFlushDataIndex]
    \/ storingFlushId # storedFlushId /\ k \in accepted[storingDataIndex]

findProgram(k) ==
    \/ k \in accepted[pendingToFlushDataIndex]
    \/ k \in intray[pendingToFlushDataIndex]
    \/ k \in accepted[storingDataIndex]

find(k) == IF k \in Nodes THEN findNode(k) ELSE findProgram(k)

-----------------------------------------------------------------------------
(* The constructors of MultiWrite and MultiWriteData.                      *)

NoKeys  == [b \in Buffer |-> {}]
NoRoots == [b \in Buffer |-> 0]
NoFlags == [b \in Buffer |-> FALSE]
AllIdle == [r \in Readers |-> NoRead]
NoPromises == [f \in 0..MaxFlush |-> {}]

Init ==
    /\ dbReadOnly \in BOOLEAN
    /\ accepted = NoKeys /\ intray = NoKeys /\ nodesStateRoot = NoRoots
    /\ built = NoFlags /\ unsent = NoKeys /\ stored = NoFlags
    /\ lastFlushId = 0 /\ storedFlushId = 0 /\ storingFlushId = 0
    /\ pendingToFlushDataIndex = 0
    /\ storingDataIndex = 2 /\ synchronizingDataIndex = 2
    /\ senderPc = "wait" /\ getFlushDataSem = 0
    /\ db = {} /\ dbRoot = 0
    /\ read = AllIdle
    /\ written = {} /\ setRoot = 0
    /\ promised = NoPromises /\ promisedRoot = [f \in 0..MaxFlush |-> 0]
    /\ lastRoot = 0 /\ treeBefore = [v \in 0..MaxRoots |-> {}]
    /\ delivered = {}
    /\ writes = 0 /\ failures = 0 /\ crashes = 0

-----------------------------------------------------------------------------
(* Operations of the clients: StateManager.flush, Smt.set and loadDB call  *)
(* write, setProgram, updateStateRoot, semiFlush and flush from any number *)
(* of threads; each holds the MultiWrite mutex for the step shown here.    *)

\* write and setProgram with persistent = true, through writeRemote.
writeRemote(k) ==
    /\ writes < MaxWrites
    /\ writes' = writes + 1
    /\ intray' = [intray EXCEPT ![pendingToFlushDataIndex] = @ \cup {k}]
    /\ written' = written \cup {k}
    /\ UNCHANGED <<accepted, nodesStateRoot, built, unsent, stored, ids, indexes,
                   senderPc, getFlushDataSem, remote, read, setRoot, promised,
                   promisedRoot, lastRoot, treeBefore, delivered, failures, crashes>>

\* updateStateRoot.  T is the set of nodes of the new tree.  StateManager.flush
\* calls it also for PERSISTENCE_CACHE, whose nodes go to the cache alone, so
\* nothing says that T was written; treeBefore remembers what was.
updateStateRoot(T) ==
    /\ lastRoot < MaxRoots
    /\ nodesStateRoot' = [nodesStateRoot EXCEPT ![pendingToFlushDataIndex] = lastRoot + 1]
    /\ lastRoot' = lastRoot + 1
    /\ setRoot' = lastRoot + 1
    /\ treeBefore' = [treeBefore EXCEPT ![lastRoot + 1] = T \cap (written \cup db)]
    /\ UNCHANGED <<accepted, intray, built, unsent, stored, ids, indexes, senderPc,
                   getFlushDataSem, remote, read, written, promised, promisedRoot,
                   delivered, writes, failures, crashes>>

semiFlush ==
    /\ intray[pendingToFlushDataIndex] # {}
    /\ acceptIntray(pendingToFlushDataIndex)
    /\ UNCHANGED <<nodesStateRoot, built, unsent, stored, ids, indexes, senderPc,
                   getFlushDataSem, remote, read, history, writes, failures, crashes>>

\* flush: the returned id promises everything written so far.  sem_post of
\* senderSem is not modelled: the sender also wakes up by itself.
flush ==
    /\ ~dbReadOnly
    /\ lastFlushId < MaxFlush
    /\ acceptIntray(pendingToFlushDataIndex)
    /\ lastFlushId' = lastFlushId + 1
    /\ promised' = [promised EXCEPT ![lastFlushId + 1] = written]
    /\ promisedRoot' = [promisedRoot EXCEPT ![lastFlushId + 1] = setRoot]
    /\ UNCHANGED <<nodesStateRoot, built, unsent, stored, storedFlushId,
                   storingFlushId, indexes, senderPc, getFlushDataSem, remote, read,
                   written, setRoot, lastRoot, treeBefore, delivered, writes, failures, crashes>>

\* flush on a read-only database: "just free memory".
flushReadOnly ==
    /\ dbReadOnly
    /\ ~IsEmpty(pendingToFlushDataIndex)
    /\ Reset(pendingToFlushDataIndex, accepted, intray)
    /\ UNCHANGED <<ids, indexes, senderPc, getFlushDataSem, remote, read, history,
                   writes, failures, crashes>>

-----------------------------------------------------------------------------
(* Reads that missed the cache.                                            *)

\* findNode or findProgram, under the mutex.
readMultiWrite(r, k) ==
    /\ read[r].pc = "idle"
    /\ read' = [read EXCEPT ![r] =
                  [pc |-> IF find(k) THEN "found" ELSE "remote",
                   key |-> k, mine |-> k \in written,
                   tries |-> IF k \in Nodes THEN dbReadRetryCounter ELSE 0]]
    /\ UNCHANGED <<buffers, ids, indexes, senderPc, getFlushDataSem, remote, history,
                   writes, failures, crashes>>

\* readRemote, and its retries: only read() retries, getProgram does not.
readRemote(r) ==
    /\ read[r].pc = "remote"
    /\ \/ /\ read[r].key \in db
          /\ read' = [read EXCEPT ![r].pc = "found"]
          /\ UNCHANGED failures
       \/ /\ read[r].key \notin db
          /\ read' = IF read[r].tries = 0
                     THEN [read EXCEPT ![r].pc = "notfound"]
                     ELSE [read EXCEPT ![r].tries = @ - 1]
          /\ UNCHANGED failures
       \/ /\ failures < MaxFailures
          /\ failures' = failures + 1
          /\ read' = IF read[r].tries = 0
                     THEN [read EXCEPT ![r].pc = "dberror"]
                     ELSE [read EXCEPT ![r].tries = @ - 1]
    /\ UNCHANGED <<buffers, ids, indexes, senderPc, getFlushDataSem, remote, history,
                   writes, crashes>>

readReturn(r) ==
    /\ read[r].pc \in {"found", "notfound", "dberror"}
    /\ read' = [read EXCEPT ![r] = NoRead]
    /\ UNCHANGED <<buffers, ids, indexes, senderPc, getFlushDataSem, remote, history,
                   writes, failures, crashes>>

mutGetStoringData ==
    /\ getFlushDataSem > 0
    /\ getFlushDataSem' = getFlushDataSem - 1
    /\ delivered' = delivered \cup accepted[storingDataIndex]
    /\ UNCHANGED <<buffers, ids, indexes, senderPc, remote, read, written, setRoot,
                   promised, promisedRoot, lastRoot, treeBefore, writes, failures, crashes>>

\* getFlushData, called by the dbCacheSynchThread of a replica.
getFlushData ==
    /\ getFlushDataSem > 0
    /\ getFlushDataSem' = getFlushDataSem - 1
    /\ delivered' = delivered \cup accepted[synchronizingDataIndex]
    /\ UNCHANGED <<buffers, ids, indexes, senderPc, remote, read, written, setRoot,
                   promised, promisedRoot, lastRoot, treeBefore, writes, failures, crashes>>

-----------------------------------------------------------------------------
(* dbSenderThread.  sem_timedwait returns after a flush or after 5 seconds *)
(* without one, so the thread may wake up in every state.                  *)

mutResumeOnlyWithNewData ==
    /\ senderPc = "wait"
    /\ built[storingDataIndex]
    /\ ~IsEmpty(pendingToFlushDataIndex)
    /\ senderPc' = "send"
    /\ UNCHANGED <<buffers, ids, indexes, getFlushDataSem, remote, read, history,
                   writes, failures, crashes>>

senderResume ==
    /\ senderPc = "wait"
    /\ built[storingDataIndex]
    /\ senderPc' = "send"
    /\ UNCHANGED <<buffers, ids, indexes, getFlushDataSem, remote, read, history,
                   writes, failures, crashes>>

mutIdleWhileStoring ==
    /\ senderPc = "wait"
    /\ IsEmpty(pendingToFlushDataIndex)
    /\ storedFlushId' = lastFlushId
    /\ UNCHANGED <<buffers, lastFlushId, storingFlushId, indexes, senderPc,
                   getFlushDataSem, remote, read, history, writes, failures, crashes>>

senderIdle ==
    /\ senderPc = "wait"
    /\ ~built[storingDataIndex]
    /\ IsEmpty(pendingToFlushDataIndex)
    /\ storedFlushId' = lastFlushId
    /\ UNCHANGED <<buffers, lastFlushId, storingFlushId, indexes, senderPc,
                   getFlushDataSem, remote, read, history, writes, failures, crashes>>

mutSwitchKeepsStoringFlushId ==
    /\ senderPc = "wait"
    /\ ~built[storingDataIndex]
    /\ ~IsEmpty(pendingToFlushDataIndex)
    /\ LET next == SuccMod3(pendingToFlushDataIndex) IN
         /\ storingDataIndex' = SuccMod3(storingDataIndex)
         /\ pendingToFlushDataIndex' = next
         /\ Reset(next, Merged(pendingToFlushDataIndex), Cleared(pendingToFlushDataIndex))
    /\ senderPc' = "send"
    /\ UNCHANGED <<ids, synchronizingDataIndex, getFlushDataSem, remote, read, history,
                   writes, failures, crashes>>

\* The new storing buffer is never empty here, so the branch that tests it
\* again is never taken.
senderSwitch ==
    /\ senderPc = "wait"
    /\ ~built[storingDataIndex]
    /\ ~IsEmpty(pendingToFlushDataIndex)
    /\ LET next == SuccMod3(pendingToFlushDataIndex) IN
         /\ storingDataIndex' = SuccMod3(storingDataIndex)
         /\ pendingToFlushDataIndex' = next
         /\ Reset(next, Merged(pendingToFlushDataIndex), Cleared(pendingToFlushDataIndex))
    /\ storingFlushId' = lastFlushId
    /\ senderPc' = "send"
    /\ UNCHANGED <<lastFlushId, storedFlushId, synchronizingDataIndex,
                   getFlushDataSem, remote, read, history, writes, failures, crashes>>

\* sendData on a read-only database pretends to have sent the data.
sendDataReadOnly ==
    /\ senderPc = "send"
    /\ dbReadOnly
    /\ storedFlushId' = storingFlushId
    /\ senderPc' = "sent"
    /\ UNCHANGED <<buffers, lastFlushId, storingFlushId, indexes, getFlushDataSem,
                   remote, read, history, writes, failures, crashes>>

\* sendData prepares the queries, unless they remain from a failed attempt.
sendDataBuild ==
    LET b == storingDataIndex IN
    /\ senderPc = "send"
    /\ ~dbReadOnly
    /\ ~built[b]
    /\ built'  = [built EXCEPT ![b] = TRUE]
    /\ unsent' = [unsent EXCEPT ![b] = accepted[b] \cup
                    (IF nodesStateRoot[b] # 0 THEN {dbStateRootKey} ELSE {})]
    /\ UNCHANGED <<accepted, intray, nodesStateRoot, stored, ids, indexes, senderPc,
                   getFlushDataSem, remote, read, history, writes, failures, crashes>>

mutRootInAnyQuery(b) ==
    {q \in SUBSET unsent[b] :
        /\ q # {}
        /\ q \cap Programs # {} => unsent[b] \cap Nodes \subseteq q}

\* The rows of the next query: the queries list the nodes first, then the
\* programs, and the state root last; where a query ends depends on the sizes
\* of the values (dbMultiWriteSingleQuerySize).
NextQuery(b) ==
    {q \in SUBSET unsent[b] :
        /\ q # {}
        /\ q \cap Programs # {} => unsent[b] \cap Nodes \subseteq q
        /\ dbStateRootKey \in q => q = unsent[b]}

\* External: one transaction, INSERT ... ON CONFLICT DO NOTHING and UPDATE.
commit(q, root) ==
    /\ db' = db \cup (q \cap Keys)
    /\ dbRoot' = IF dbStateRootKey \in q THEN root ELSE dbRoot

sendDataQuery(q) ==
    LET b == storingDataIndex IN
    /\ senderPc = "send"
    /\ built[b]
    /\ commit(q, nodesStateRoot[b])
    /\ unsent' = [unsent EXCEPT ![b] = @ \ q]
    /\ UNCHANGED <<accepted, intray, nodesStateRoot, built, stored, ids, indexes,
                   senderPc, getFlushDataSem, read, history, writes, failures, crashes>>

mutFailForgetsQuery(q) ==
    LET b == storingDataIndex IN
    /\ senderPc = "send"
    /\ built[b]
    /\ failures < MaxFailures
    /\ failures' = failures + 1
    /\ \/ commit(q, nodesStateRoot[b])
       \/ UNCHANGED remote
    /\ unsent' = [unsent EXCEPT ![b] = @ \ q]
    /\ senderPc' = "wait"
    /\ UNCHANGED <<accepted, intray, nodesStateRoot, built, stored, ids, indexes,
                   getFlushDataSem, read, history, writes, crashes>>

\* A query throws, before or after the database committed it: the queries
\* are kept, queryFailed is called, and the thread sleeps.
sendDataFail(q) ==
    LET b == storingDataIndex IN
    /\ senderPc = "send"
    /\ built[b]
    /\ failures < MaxFailures
    /\ failures' = failures + 1
    /\ \/ commit(q, nodesStateRoot[b])
       \/ UNCHANGED remote
    /\ senderPc' = "wait"
    /\ UNCHANGED <<buffers, ids, indexes, getFlushDataSem, read, history, writes, crashes>>

\* All queries sent: multiQuery.reset(), and sendData returns ZKR_SUCCESS.
sendDataDone ==
    LET b == storingDataIndex IN
    /\ senderPc = "send"
    /\ built[b]
    /\ unsent[b] = {}
    /\ built' = [built EXCEPT ![b] = FALSE]
    /\ stored' = [stored EXCEPT ![b] = TRUE]
    /\ storedFlushId' = storingFlushId
    /\ senderPc' = "sent"
    /\ UNCHANGED <<accepted, intray, nodesStateRoot, unsent, lastFlushId,
                   storingFlushId, indexes, getFlushDataSem, remote, read, history,
                   writes, failures, crashes>>

mutSynchronizeStays ==
    /\ senderPc = "sent"
    /\ storedFlushId' = storingFlushId
    /\ getFlushDataSem' = getFlushDataSem + 1
    /\ senderPc' = "wait"
    /\ UNCHANGED <<buffers, lastFlushId, storingFlushId, indexes, remote, read, history,
                   writes, failures, crashes>>

\* Back in dbSenderThread: the data set is published to the replica.
senderSynchronize ==
    /\ senderPc = "sent"
    /\ storedFlushId' = storingFlushId
    /\ synchronizingDataIndex' = SuccMod3(synchronizingDataIndex)
    /\ getFlushDataSem' = getFlushDataSem + 1
    /\ senderPc' = "wait"
    /\ UNCHANGED <<buffers, lastFlushId, storingFlushId, pendingToFlushDataIndex,
                   storingDataIndex, remote, read, history, writes, failures, crashes>>

\* The process dies at any point (exitProcess, kill) and starts again.
crash ==
    /\ crashes < MaxCrashes
    /\ crashes' = crashes + 1
    /\ accepted' = NoKeys /\ intray' = NoKeys /\ nodesStateRoot' = NoRoots
    /\ built' = NoFlags /\ unsent' = NoKeys /\ stored' = NoFlags
    /\ lastFlushId' = 0 /\ storedFlushId' = 0 /\ storingFlushId' = 0
    /\ pendingToFlushDataIndex' = 0
    /\ storingDataIndex' = 2 /\ synchronizingDataIndex' = 2
    /\ senderPc' = "wait" /\ getFlushDataSem' = 0
    /\ read' = AllIdle
    /\ written' = {} /\ setRoot' = 0
    /\ promised' = NoPromises /\ promisedRoot' = [f \in 0..MaxFlush |-> 0]
    /\ UNCHANGED <<remote, lastRoot, treeBefore, delivered, writes, failures>>

-----------------------------------------------------------------------------
Client ==
    \/ \E k \in Keys : writeRemote(k)
    \/ \E T \in SUBSET Nodes : updateStateRoot(T)
    \/ semiFlush
    \/ flush
    \/ flushReadOnly

Reader ==
    \/ \E r \in Readers, k \in Keys : readMultiWrite(r, k)
    \/ \E r \in Readers : readRemote(r) \/ readReturn(r)

Sender ==
    \/ senderResume
    \/ senderIdle
    \/ senderSwitch
    \/ sendDataReadOnly
    \/ sendDataBuild
    \/ \E q \in NextQuery(storingDataIndex) : sendDataQuery(q)
    \/ sendDataDone
    \/ senderSynchronize

SenderFails == \E q \in NextQuery(storingDataIndex) : sendDataFail(q)

Next ==
    /\ Client \/ Reader \/ getFlushData \/ Sender \/ SenderFails \/ crash
    /\ UNCHANGED dbReadOnly

Spec == Init /\ [][Next]_vars

\* The sender thread is never starved: its waits have a timeout.  Queries
\* fail at most MaxFailures times, so the database recovers.
FairSpec == Spec /\ WF_vars(Sender /\ UNCHANGED dbReadOnly)

-----------------------------------------------------------------------------
(* Properties.                                                             *)

ReadRecords ==
    {NoRead} \cup [pc : {"found", "remote", "notfound", "dberror"}, key : Keys,
                   mine : BOOLEAN, tries : 0..dbReadRetryCounter]

\* Every variable has its type.
TypeOK ==
    /\ dbReadOnly \in BOOLEAN
    /\ accepted \in [Buffer -> SUBSET Keys]
    /\ intray \in [Buffer -> SUBSET Keys]
    /\ nodesStateRoot \in [Buffer -> 0..MaxRoots]
    /\ built \in [Buffer -> BOOLEAN]
    /\ unsent \in [Buffer -> SUBSET Rows]
    /\ stored \in [Buffer -> BOOLEAN]
    /\ lastFlushId \in 0..MaxFlush
    /\ storedFlushId \in 0..MaxFlush
    /\ storingFlushId \in 0..MaxFlush
    /\ pendingToFlushDataIndex \in Buffer
    /\ storingDataIndex \in Buffer
    /\ synchronizingDataIndex \in Buffer
    /\ senderPc \in {"wait", "send", "sent"}
    /\ getFlushDataSem \in Nat
    /\ db \in SUBSET Keys
    /\ dbRoot \in 0..MaxRoots
    /\ read \in [Readers -> ReadRecords]
    /\ written \in SUBSET Keys
    /\ setRoot \in 0..MaxRoots
    /\ promised \in [0..MaxFlush -> SUBSET Keys]
    /\ promisedRoot \in [0..MaxFlush -> 0..MaxRoots]
    /\ lastRoot \in 0..MaxRoots
    /\ treeBefore \in [0..MaxRoots -> SUBSET Nodes]
    /\ delivered \in SUBSET Keys
    /\ writes \in 0..MaxWrites
    /\ failures \in 0..MaxFailures
    /\ crashes \in 0..MaxCrashes

\* What a client of flush() and getFlushStatus() relies on: once storedFlushId
\* reaches the id that flush() returned, everything written before that flush,
\* from whatever thread, is in the database, and the state root row holds the
\* root set before it or a later one.
FlushDurability ==
    ~dbReadOnly =>
        \A f \in 0..storedFlushId :
            promised[f] \subseteq db /\ promisedRoot[f] <= dbRoot

\* The state root row never overtakes the nodes of its tree: those that were
\* written, or were in the database, when the root was set are in the database
\* when the row holds that root, whichever query failed or whenever the process
\* died (sendData stores the root after its nodes).  Nothing is promised of the
\* nodes that were not written before it, such as those of PERSISTENCE_CACHE.
RootAfterItsNodes == ~dbReadOnly => treeBefore[dbRoot] \subseteq db

\* The stored state root never returns to an older one: an UPDATE that is sent
\* again after an exception does not overwrite a later root.
RootNeverGoesBack == [][dbRoot' >= dbRoot]_vars

\* While the process lives storedFlushId never decreases: a client that saw
\* its flush stored sees it stored at every later call.
StoredNeverGoesBack ==
    [][~dbReadOnly /\ crashes' = crashes => storedFlushId' >= storedFlushId]_vars

\* The buffer that takes new data, and that is reset when the indexes advance,
\* is neither the one being stored nor the one a replica is reading.
PendingIsPrivate ==
    pendingToFlushDataIndex \notin {storingDataIndex, synchronizingDataIndex}

\* The assertions of findNode and findProgram: no write is left in the intray
\* of the buffer that is being stored, where nothing would ever store it.
StoringIntrayEmpty == intray[storingDataIndex] = {}

\* sendData never finds one of the cases it only logs a warning for: it is
\* called with data, and with data that has not been stored.
SendHasWork ==
    senderPc = "send" => ~IsEmpty(storingDataIndex) /\ ~stored[storingDataIndex]

\* A program that was written is found by every later getProgram, while it
\* moves from buffer to buffer and to the database between the two lookups.
ProgramReadYourWrites ==
    \A r \in Readers :
        read[r].pc = "notfound" /\ read[r].key \in Programs /\ ~dbReadOnly
            => ~read[r].mine

\* The same for nodes: "If the key is pending to be stored in database, but
\* already deleted from cache" (Database.read) the multi-write data has it.
NodeReadYourWrites ==
    \A r \in Readers :
        read[r].pc = "notfound" /\ read[r].key \in Nodes /\ ~dbReadOnly
            => ~read[r].mine

\* getFlushData hands to a replica only data that is already stored.
DeliveredIsStored == ~dbReadOnly => delivered \subseteq db

\* Every flush is eventually stored, whatever fails in between.
FlushEventuallyStored ==
    \A f \in 1..MaxFlush : lastFlushId = f ~> storedFlushId >= f

\* The buffers, the sender thread and its queries hidden, the database is the
\* service its clients rely on: ids of flush() are acknowledged in order and
\* only when durable, the root row follows the nodes set before it, a restart
\* loses only what was never acknowledged.
Service == INSTANCE FlushService
ImplementsFlushService == Service!Spec

-----------------------------------------------------------------------------
(* The inductive invariant behind the safety properties (proved in         *)
(* MultiWriteProofs for every value of the constants).                     *)

\* The sender has taken a data set that it has not published yet.
Busy == senderPc # "wait" \/ built[storingDataIndex]

\* The three indexes turn together; the third buffer is the one a replica
\* reads while the sender is busy.
IndexInv ==
    /\ storingDataIndex = SuccMod3(SuccMod3(pendingToFlushDataIndex))
    /\ synchronizingDataIndex = IF Busy THEN SuccMod3(pendingToFlushDataIndex)
                                        ELSE storingDataIndex
    /\ intray[storingDataIndex] = {}
    /\ ~built[pendingToFlushDataIndex]
    /\ ~stored[pendingToFlushDataIndex]
    /\ built[storingDataIndex] => senderPc # "sent" /\ ~dbReadOnly
    /\ senderPc = "send" \/ built[storingDataIndex]
          => ~IsEmpty(storingDataIndex) /\ ~stored[storingDataIndex]

\* Where the written keys are.
KeyInv ==
    LET p == pendingToFlushDataIndex
        s == storingDataIndex IN
    /\ written \subseteq db \cup accepted[s] \cup accepted[p] \cup intray[p]
    /\ ~(senderPc = "send" \/ built[s]) => accepted[s] \subseteq db
    /\ built[s] => accepted[s] \ unsent[s] \subseteq db
    /\ Busy => accepted[SuccMod3(p)] \subseteq db

\* Which flushes cover them.
FlushInv ==
    LET s == storingDataIndex IN
    /\ storedFlushId <= lastFlushId
    /\ storingFlushId <= lastFlushId
    /\ Busy => storedFlushId <= storingFlushId
    /\ \A f \in 0..lastFlushId :
         /\ promised[f] \subseteq written
         /\ promisedRoot[f] <= setRoot
         /\ f <= storingFlushId => /\ promised[f] \subseteq db \cup accepted[s]
                                   /\ \/ promisedRoot[f] <= dbRoot
                                      \/ promisedRoot[f] <= nodesStateRoot[s]
         /\ f <= storedFlushId  => /\ promised[f] \subseteq db
                                   /\ promisedRoot[f] <= dbRoot

\* In which order the roots reach the database, and after which nodes.
RootInv ==
    LET p == pendingToFlushDataIndex
        s == storingDataIndex IN
    /\ dbRoot <= lastRoot /\ nodesStateRoot[s] <= lastRoot
    /\ nodesStateRoot[p] <= lastRoot
    /\ setRoot <= dbRoot \/ setRoot <= nodesStateRoot[s] \/ setRoot <= nodesStateRoot[p]
    /\ nodesStateRoot[s] # 0 => dbRoot <= nodesStateRoot[s]
    /\ nodesStateRoot[p] # 0 => /\ dbRoot <= nodesStateRoot[p]
                                /\ nodesStateRoot[s] <= nodesStateRoot[p]
    /\ ~(senderPc = "send" \/ built[s]) => nodesStateRoot[s] <= dbRoot
    /\ built[s] /\ dbStateRootKey \notin unsent[s] => nodesStateRoot[s] <= dbRoot
    /\ built[s] /\ dbStateRootKey \in unsent[s] => nodesStateRoot[s] # 0
    /\ treeBefore[0] = {}
    /\ treeBefore[dbRoot] \subseteq db
    /\ treeBefore[nodesStateRoot[s]] \subseteq db \cup accepted[s]
    /\ treeBefore[nodesStateRoot[p]] \subseteq db \cup accepted[s] \cup accepted[p] \cup intray[p]

\* What the readers past the first lookup will find in the database.
ReadInv ==
    \A r \in Readers :
        read[r].pc \in {"remote", "notfound"} =>
            (read[r].key \in Programs /\ read[r].mine
                => read[r].pc = "remote" /\ read[r].key \in db)

\* Nothing is kept, or sent, that no client wrote.
OriginInv ==
    \A b \in Buffer :
        /\ accepted[b] \cup intray[b] \subseteq written
        /\ unsent[b] \subseteq written \cup {dbStateRootKey}

\* A read-only process hands out no flush id.
ReadOnlyInv ==
    dbReadOnly => /\ lastFlushId = 0 /\ storedFlushId = 0 /\ storingFlushId = 0
                  /\ promised[0] = {} /\ promisedRoot[0] = 0

\* All of it, for a process that may write.
StoreInv ==
    ~dbReadOnly => /\ KeyInv /\ FlushInv /\ RootInv /\ ReadInv
                   /\ delivered \subseteq db
=============================================================================
