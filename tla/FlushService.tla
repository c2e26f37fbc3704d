---------------------------- MODULE FlushService ----------------------------
(***************************************************************************)
(* What the Merkle-tree database promises its clients, without buffers,    *)
(* threads or queries: keys and roots are set, flush() hands out an id,    *)
(* the store catches up in its own time, and an id is acknowledged only    *)
(* when everything it covers is durable.  A restart forgets what was not   *)
(* durable, and the ids with it.  MultiWrite implements this service.      *)
(***************************************************************************)
EXTENDS Naturals

CONSTANTS Keys, Nodes, MaxFlush, MaxRoots

VARIABLES
    written, setRoot,           \* what the clients set since the last restart
    lastFlushId, storedFlushId, \* the last id handed out, the last acknowledged
    promised, promisedRoot,     \* what each id covers
    db, dbRoot,                 \* what is durable
    lastRoot, treeBefore        \* the roots so far, and the nodes of the tree of
                                \* each one that were set or durable before it

client == <<written, setRoot>>
issued == <<lastFlushId, promised, promisedRoot>>
durable == <<db, dbRoot>>
roots  == <<lastRoot, treeBefore>>
vars == <<client, issued, storedFlushId, durable, roots>>

\* No id has been handed out since the process started.
Fresh ==
    /\ written = {} /\ setRoot = 0
    /\ lastFlushId = 0 /\ storedFlushId = 0
    /\ promised = [f \in 0..MaxFlush |-> {}]
    /\ promisedRoot = [f \in 0..MaxFlush |-> 0]

Init ==
    /\ Fresh
    /\ db = {} /\ dbRoot = 0
    /\ lastRoot = 0 /\ treeBefore = [v \in 0..MaxRoots |-> {}]

Write ==
    /\ \E k \in Keys : written' = written \cup {k}
    /\ UNCHANGED <<setRoot, issued, storedFlushId, durable, roots>>

\* A root is set; its tree may have nodes that nobody has written.
SetRoot ==
    /\ lastRoot < MaxRoots
    /\ lastRoot' = lastRoot + 1
    /\ setRoot' = lastRoot + 1
    /\ \E T \in SUBSET Nodes :
         treeBefore' = [treeBefore EXCEPT ![lastRoot + 1] = T \cap (written \cup db)]
    /\ UNCHANGED <<written, issued, storedFlushId, durable>>

Flush ==
    /\ lastFlushId < MaxFlush
    /\ lastFlushId' = lastFlushId + 1
    /\ promised' = [promised EXCEPT ![lastFlushId + 1] = written]
    /\ promisedRoot' = [promisedRoot EXCEPT ![lastFlushId + 1] = setRoot]
    /\ UNCHANGED <<client, storedFlushId, durable, roots>>

\* The store catches up with some of what was written, flushed or not; it
\* never stores what nobody wrote, and a root only after the nodes
\* set before it.
Store ==
    /\ db \subseteq db' /\ db' \subseteq db \cup written
    /\ dbRoot' \in dbRoot..lastRoot
    /\ treeBefore[dbRoot'] \subseteq db'
    /\ UNCHANGED <<client, issued, storedFlushId, roots>>

\* Ids are acknowledged in their order, once all that they cover is durable.
Acknowledge ==
    /\ storedFlushId' \in storedFlushId..lastFlushId
    /\ promised[storedFlushId'] \subseteq db
    /\ promisedRoot[storedFlushId'] <= dbRoot
    /\ UNCHANGED <<client, issued, durable, roots>>

Restart ==
    /\ Fresh'
    /\ UNCHANGED <<durable, roots>>

Next == Write \/ SetRoot \/ Flush \/ Store \/ Acknowledge \/ Restart

Spec == Init /\ [][Next]_vars
=============================================================================
