--------------------------- MODULE BatchExecution ---------------------------
(***************************************************************************)
(* The executor (main_executor.cpp and full_tracer.cpp of the fork that a  *)
(* batch asks for) runs batches against the state manager.  The ROM, which *)
(* decides what to set and when to call and to revert, is external: calls  *)
(* nest, a failed call or transaction restores the root it began with, and *)
(* a batch out of counters restores the root of the batch.                 *)
(***************************************************************************)
EXTENDS StateManager

CONSTANTS
    Programs,           \* the values that are hashes of a program
    InitContents,       \* contents of the tree before the first batch
    Workloads,          \* the kinds of batches, each with the bounds of its size
    MaxBatches          \* bound: batches

\* What a batch asks for, and bounds: the blocks, transactions, sets and nested
\* calls it has, and the values it sets.  Before fork 7 there are no block
\* events.
Workload ==
    [fork : {6, 9}, persistence : {"database", "cache"},
     blocks : Nat, txs : Nat, sets : Nat, calls : Nat, values : SUBSET Values]

ASSUME BatchExecutionAssumption ==
    /\ Programs \subseteq Values \ {0}
    /\ InitContents \subseteq [Keys -> Values]
    /\ Workloads \subseteq Workload
    /\ stateManagerPurge \in BOOLEAN
    /\ MaxBatches \in Nat

VARIABLES
    batch,      \* state[batchUUID] of the state manager, NoBatch if there is none
    exec,       \* the executor running the batch
    database,   \* what db.write, db.setProgram and db.updateStateRoot stored
    lastFlush   \* the outcome of the last flush; durable if what it left does not
                \* rest on a batch that was only cached

vars == <<batch, exec, database, lastFlush>>

NoFlush == [ok |-> TRUE, oldRoot |-> Zero, newRoot |-> Zero, durable |-> TRUE]

Init ==
    \E content \in InitContents :
        LET r == Tree(content)
        IN  /\ batch = NoBatch
            /\ exec = [phase |-> "idle", batches |-> 0]
            /\ database = [cached |-> NodesOf(r), persisted |-> NodesOf(r),
                           programs |-> {content[k] : k \in Keys} \cap Programs,
                           stateRoot |-> r]
            /\ lastFlush = [NoFlush EXCEPT !.oldRoot = r, !.newRoot = r]

LegacyFork == exec.workload.fork < 7

\* get_block_number and get_tx_number of the full tracer
block == IF LegacyFork THEN exec.txs ELSE exec.blocks
tx == IF LegacyFork THEN 0 ELSE exec.txs

In(phases) == exec.phase \in phases

\* A batch starts from the last root flushed
StartBatch(workload) ==
    /\ In({"idle"}) /\ exec.batches < MaxBatches
    /\ exec' = [phase |-> "batch", batches |-> exec.batches + 1,
                workload |-> workload, aborted |-> FALSE,
                oldRoot |-> lastFlush.newRoot, root |-> lastFlush.newRoot,
                blocks |-> 0, txs |-> 0, started |-> 0, sets |-> 0, calls |-> <<>>,
                marks |-> {lastFlush.newRoot}]
    /\ UNCHANGED <<batch, database, lastFlush>>

\* onStartBlock
StartBlock ==
    /\ In({"batch"}) /\ ~LegacyFork /\ ~exec.aborted /\ exec.blocks < exec.workload.blocks
    /\ batch' = startBlock(batch, exec.root)
    /\ exec' = [exec EXCEPT !.phase = "block", !.txs = 0, !.marks = @ \cup {exec.root}]
    /\ UNCHANGED <<database, lastFlush>>

\* onProcessTx
ProcessTx ==
    /\ ~In({"idle"})
    /\ In(IF LegacyFork THEN {"batch"} ELSE {"block"}) /\ ~exec.aborted /\ exec.started < exec.workload.txs
    /\ exec' = [exec EXCEPT !.phase = "tx", !.txs = @ + 1, !.started = @ + 1, !.calls = <<exec.root>>,
                            !.marks = @ \cup {exec.root}]
    /\ UNCHANGED <<batch, database, lastFlush>>

\* Sets happen in transactions, and around them in a block (batch, in legacy
\* forks): block data, global exit root
Working ==
    /\ ~In({"idle"}) /\ ~exec.aborted
    /\ In(IF LegacyFork THEN {"batch", "tx"} ELSE {"block", "tx"})

\* The program of a contract is written before the leaf that points to it
HasProgram(v) ==
    v \in Programs =>
        /\ batch.exists /\ block < Len(batch.blockState)
        /\ tx < Len(batch.blockState[block + 1].txState)
        /\ v \in batch.blockState[block + 1].txState[tx + 1].dbWritePrograms

\* A set never leads back to the root at which a transaction, a block or the
\* batch began: the nonce of the sender and the number of the block have moved
Set(k, v) ==
    /\ Working /\ exec.sets < exec.workload.sets
    /\ v \in exec.workload.values /\ HasProgram(v)
    /\ LET new == set(exec.root, k, v).newRoot
       IN  /\ new \notin exec.marks \/ new = exec.root
           /\ exec' = [exec EXCEPT !.root = new, !.sets = @ + 1]
    /\ batch' = setStateRoots(Found(batch), block, tx, exec.root, k, v)
    /\ UNCHANGED <<database, lastFlush>>

SetTemporary ==
    /\ Working
    /\ batch' = setTemporary(Found(batch), block, tx)
    /\ UNCHANGED <<exec, database, lastFlush>>

\* setProgram.  Before the first block, where the transactions of the batch are
\* hashed, it is ignored; a call that the range checks of writeProgram refuse
\* cancels the batch.  The ROM writes no program in a transaction before its
\* first set, of the nonce: the one that writeProgram would then create would
\* not be the current one.
WriteProgram(p) ==
    /\ ~In({"idle"}) /\ ~exec.aborted /\ p \in exec.workload.values
    /\ LET blocks == Found(batch).blockState
       IN  \/ block = 0 /\ blocks = <<>>
           \/ block < Len(blocks) /\ tx < Len(blocks[block + 1].txState)
    /\ batch' = writeProgram(Found(batch), block, tx, p)
    /\ UNCHANGED <<exec, database, lastFlush>>

\* A call remembers the root, to return to it if the call fails
Call ==
    /\ In({"tx"}) /\ ~exec.aborted /\ Len(exec.calls) < exec.workload.calls
    /\ exec' = [exec EXCEPT !.calls = Append(@, exec.root)]
    /\ UNCHANGED <<batch, database, lastFlush>>

Return ==
    /\ In({"tx"}) /\ Len(exec.calls) > 1
    /\ exec' = [exec EXCEPT !.calls = Front(@)]
    /\ UNCHANGED <<batch, database, lastFlush>>

Revert ==
    /\ In({"tx"}) /\ Len(exec.calls) > 1
    /\ exec' = [exec EXCEPT !.root = Last(exec.calls), !.calls = Front(@)]
    /\ UNCHANGED <<batch, database, lastFlush>>

\* onFinishTx; a failed transaction ends with the root it began with
FinishTx ==
    /\ In({"tx"}) /\ Len(exec.calls) = 1
    /\ \E final \in {exec.root} \cup (IF exec.aborted THEN {} ELSE {exec.calls[1]}) :
          /\ batch' = finishTx(batch, final)
          /\ exec' = [exec EXCEPT !.root = final, !.calls = <<>>,
                                  !.phase = IF LegacyFork THEN "batch" ELSE "block"]
    /\ UNCHANGED <<database, lastFlush>>

\* onFinishBlock
FinishBlock ==
    /\ In({"block"})
    /\ batch' = finishBlock(batch, exec.root)
    /\ exec' = [exec EXCEPT !.phase = "batch", !.blocks = @ + 1]
    /\ UNCHANGED <<database, lastFlush>>

\* Out of counters: the batch ends with the root it began with
AbortBatch ==
    /\ In({"batch", "block", "tx"}) /\ ~exec.aborted
    /\ exec' = [exec EXCEPT !.aborted = TRUE, !.root = exec.oldRoot,
                            !.calls = IF In({"tx"}) THEN <<exec.oldRoot>> ELSE <<>>]
    /\ UNCHANGED <<batch, database, lastFlush>>

\* The end of MainExecutor::execute; a flush that fails cancels the batch
Flush ==
    /\ exec.phase # "idle"
    /\ In({"batch"}) \/ exec.aborted
    /\ LET f == IF batch.exists THEN flush(batch, exec.root, exec.workload.persistence, database)
                ELSE [ok |-> TRUE, db |-> database]
       IN  /\ database' = f.db
           /\ lastFlush' = [ok |-> f.ok, oldRoot |-> exec.oldRoot, newRoot |-> exec.root,
                            durable |-> lastFlush.durable /\ exec.workload.persistence = "database"]
    /\ batch' = NoBatch
    /\ exec' = [phase |-> "idle", batches |-> exec.batches]

\* Any call to the hash database may fail; the executor then cancels the batch
CancelBatch ==
    /\ exec.phase # "idle"
    /\ batch' = NoBatch
    /\ exec' = [phase |-> "idle", batches |-> exec.batches]
    /\ UNCHANGED <<database, lastFlush>>

Next ==
    \/ \E w \in Workloads : StartBatch(w)
    \/ StartBlock \/ ProcessTx
    \/ \E k \in Keys, v \in Values : Set(k, v)
    \/ SetTemporary
    \/ \E p \in Programs : WriteProgram(p)
    \/ Call \/ Return \/ Revert
    \/ FinishTx \/ FinishBlock
    \/ AbortBatch \/ Flush \/ CancelBatch

Spec == Init /\ [][Next]_vars

----------------------------------------------------------------------------
(* Properties *)

\* The positions the state manager keeps stay inside its vectors, so that the
\* range checks of setStateRoot and flush never fire (the executor would lose
\* the batch) although finishTx and finishBlock shorten the vectors.
IndexesInRange ==
    batch.exists =>
        \A i \in DOMAIN batch.blockState :
            LET bs == batch.blockState[i]
            IN  /\ bs.txState # <<>> => bs.currentTx < Len(bs.txState)
                /\ \A j \in DOMAIN bs.txState :
                      LET ts == bs.txState[j]
                      IN  IF ts.subState = <<>> THEN ts.currentSubState = 0
                          ELSE ts.currentSubState < Len(ts.subState)

\* However the batch was reverted, flush finds a chain of sub-states from the
\* old to the new root of every transaction it keeps and does not fail with
\* "inconsistent state roots" or "could not find previous tx sub-state".
FlushNeverFails == lastFlush.ok

\* What can be relied on to be read: caches evict, so if every batch up to now
\* was to be written to the SQL database, only what reached it
Kept == IF lastFlush.durable THEN database.persisted ELSE database.cached

\* After a flush the whole tree of the new root can be read from the SQL
\* database, or after batches that are only cached from the caches, although
\* flush drops blocks, transactions, sub-states and nodes that it takes to be
\* unnecessary.
FlushedTreeIsWhole == NodesOf(lastFlush.newRoot) \subseteq Kept

\* A batch that changed the state leaves its new root as the stored one
FlushedRootIsStored ==
    lastFlush.newRoot # lastFlush.oldRoot => database.stateRoot = lastFlush.newRoot

\* Every contract of the new tree has its program in the database
FlushedProgramsAreThere ==
    {get(lastFlush.newRoot, k).value : k \in Keys} \cap Programs \subseteq database.programs

\* The executor can read the tree it works on: what is not in the database is
\* still in the write list of the batch, whatever finishTx has thrown away
WorkingTreeIsReadable ==
    exec.phase # "idle" =>
        NodesOf(exec.root) \subseteq
            Kept \cup (IF batch.exists THEN batch.dbWriteNodes ELSE {})
=============================================================================
