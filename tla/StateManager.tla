---------------------------- MODULE StateManager ----------------------------
(***************************************************************************)
(* The state manager of src/hashdb/state_manager.cpp: it keeps the changes *)
(* of a batch per block, transaction and sub-state (one Smt::set each)     *)
(* until the batch is flushed, and then writes to the database only what   *)
(* leads from the old state root to the new one.  This module has the      *)
(* batch state and the calls on it; BatchExecution has the executor that   *)
(* makes them and the database they end in.  Batches have disjoint entries *)
(* in the map of the state manager and every call holds its mutex, so one  *)
(* batch is modelled.                                                      *)
(***************************************************************************)
EXTENDS Smt, SequencesExt

CONSTANT stateManagerPurge      \* configuration flag

NoRoot == [type |-> "none"]     \* the empty string
NoBatch == [exists |-> FALSE]

----------------------------------------------------------------------------
(* The batch.  Sub-states, transactions and blocks are numbered from 0 as  *)
(* in the code, so the one numbered i is at position i + 1.  A sub-state   *)
(* records the arguments of its Smt::set; what that call wrote and deleted *)
(* follows from them.                                                      *)

EmptyTx == [oldStateRoot |-> NoRoot, newStateRoot |-> NoRoot,
            currentSubState |-> 0, subState |-> <<>>, dbWritePrograms |-> {}]

EmptyBlock == [oldStateRoot |-> NoRoot, currentStateRoot |-> NoRoot,
               currentTx |-> 0, txState |-> <<>>]

EmptyBatch == [exists |-> TRUE, oldStateRoot |-> NoRoot,
               currentStateRoot |-> NoRoot, currentBlock |-> 0, blockState |-> <<>>,
               dbWriteNodes |-> {}, dbWritePrograms |-> {}]

dbWriteNodes(ss) == set(ss.oldStateRoot, ss.key, ss.value).writes
dbDeleteNodes(ss) == set(ss.oldStateRoot, ss.key, ss.value).deletes

\* "Find batch state for this uuid, or create it"
Found(b) == IF b.exists THEN b ELSE EmptyBatch

OrElse(r, default) == IF r = NoRoot THEN default ELSE r

\* "The first time we set a non-temporary old state root", of batch and of block
FirstRoot(r, old) == OrElse(r, old)

\* Vectors grow with empty elements up to index n
GrowTo(s, n, empty) == s \o [i \in 1..(n + 1 - Len(s)) |-> empty]

\* setStateRoot up to the reference to the tx state: missing blocks and txs
\* are created, and a new one becomes the current one
ReserveTx(bs, tx) ==
    [bs EXCEPT !.txState = GrowTo(@, tx, EmptyTx),
               !.currentTx = IF tx >= Len(bs.txState) THEN tx ELSE @]

Reserve(b, block, tx) ==
    LET grown == [b EXCEPT
            !.blockState = GrowTo(@, block, EmptyBlock),
            !.currentBlock = IF block >= Len(b.blockState) THEN block ELSE @]
    IN  [grown EXCEPT !.blockState[block + 1] = ReserveTx(@, tx)]

\* mutant: deleteNode also erases from the common write list
mutWriteListLosesDeleted(pool, ss) == (pool \cup dbWriteNodes(ss)) \ dbDeleteNodes(ss)

\* The common write list of the batch only grows: deleteNode leaves it alone
commonWriteList(pool, ss) == pool \cup dbWriteNodes(ss)

\* setOldStateRoot, the writeNode calls of Smt::set, setNewStateRoot: on the
\* tx, on the block and on the batch
setTxRoots(ts, ss) ==
    [ts EXCEPT !.oldStateRoot = IF ts.subState = <<>> THEN ss.oldStateRoot ELSE @,
               !.newStateRoot = ss.newStateRoot,
               !.subState = Append(@, ss),
               !.currentSubState = Len(ts.subState)]

setBlockRoots(bs, tx, ss) ==
    [bs EXCEPT !.oldStateRoot = FirstRoot(@, ss.oldStateRoot),
               !.currentStateRoot = ss.newStateRoot,
               !.txState[tx + 1] = setTxRoots(@, ss)]

setStateRoots(b, block, tx, old, key, value) ==
    LET r  == Reserve(b, block, tx)
        ss == [oldStateRoot |-> old, newStateRoot |-> set(old, key, value).newRoot,
               previousSubState |-> r.blockState[block + 1].txState[tx + 1].currentSubState,
               key |-> key, value |-> value]
    IN  [r EXCEPT !.oldStateRoot = FirstRoot(@, old),
                  !.currentStateRoot = ss.newStateRoot,
                  !.dbWriteNodes = commonWriteList(@, ss),
                  !.blockState[block + 1] = setBlockRoots(@, tx, ss)]

\* The same for a tree that does not outlive the batch (touched addresses, block
\* hash): its roots and nodes are dropped by flush, so only what it changes in
\* the shared structure is kept
TemporaryRoot == [type |-> "temporary"]

setTemporary(b, block, tx) ==
    [Reserve(b, block, tx) EXCEPT !.currentStateRoot = TemporaryRoot]

\* writeProgram: programs seen before the first block are ignored.  It creates
\* a missing tx, which does not become the current one.
writeProgram(b, block, tx, p) ==
    IF block = 0 /\ b.blockState = <<>> THEN b
    ELSE LET created == [EmptyTx EXCEPT !.oldStateRoot = b.currentStateRoot]
             r == [b EXCEPT !.blockState[block + 1].txState = GrowTo(@, tx, created)]
         IN  [r EXCEPT
                !.dbWritePrograms = @ \cup {p},
                !.blockState[block + 1].txState[tx + 1].dbWritePrograms = @ \cup {p}]

\* mutant: the sub-state that starts at the final root is kept
mutFinishTxKeepsOne(ts, stateRoot) ==
    LET i == SelectInSeq(ts.subState, LAMBDA ss : ss.oldStateRoot = stateRoot)
    IN  IF ts.newStateRoot = stateRoot \/ i = 0 THEN ts
        ELSE [ts EXCEPT !.newStateRoot = stateRoot, !.currentSubState = i - 1,
                        !.subState = SubSeq(@, 1, i)]

\* mutant: the index survives the sub-states
mutFinishTxKeepsIndex(ts, stateRoot) ==
    IF ts.newStateRoot = stateRoot \/ ts.oldStateRoot # stateRoot THEN ts
    ELSE [ts EXCEPT !.subState = <<>>, !.newStateRoot = stateRoot]

\* finishTx on the state of the current tx: undo what led away from stateRoot
finishTxState(ts, stateRoot) ==
    LET i == SelectInSeq(ts.subState, LAMBDA ss : ss.oldStateRoot = stateRoot)
    IN  CASE ts.newStateRoot = stateRoot \/ ~stateManagerPurge -> ts
          [] ts.newStateRoot # stateRoot /\ stateManagerPurge /\ ts.oldStateRoot = stateRoot ->
                 [ts EXCEPT !.subState = <<>>, !.newStateRoot = stateRoot,
                            !.currentSubState = 0]
          [] OTHER ->
                 IF i = 0 THEN ts
                 ELSE [ts EXCEPT !.newStateRoot = stateRoot,
                                 !.currentSubState = IF i = 1 THEN 0 ELSE i - 2,
                                 !.subState = SubSeq(@, 1, i - 1)]

\* A batch without activity, or a block without transactions, is left alone
finishTx(b, stateRoot) ==
    IF ~b.exists \/ b.currentBlock >= Len(b.blockState) THEN b
    ELSE LET bs == b.blockState[b.currentBlock + 1]
         IN  IF bs.currentTx >= Len(bs.txState) THEN b
             ELSE [b EXCEPT !.blockState[b.currentBlock + 1].txState[bs.currentTx + 1] =
                       finishTxState(@, stateRoot)]

startBlock(b, stateRoot) ==
    LET f == Found(b)
    IN  [f EXCEPT !.blockState = Append(@, [EmptyBlock EXCEPT !.oldStateRoot = stateRoot]),
                  !.currentBlock = Len(f.blockState)]

\* finishBlock on the current block: its last tx decides
finishBlockState(bs, stateRoot) ==
    LET last == bs.txState[bs.currentTx + 1]
        i    == SelectInSeq(bs.txState, LAMBDA ts : ts.oldStateRoot = stateRoot)
    IN  CASE last.newStateRoot = stateRoot -> [bs EXCEPT !.currentStateRoot = stateRoot]
          [] last.newStateRoot # stateRoot /\ ~stateManagerPurge -> bs
          [] last.newStateRoot # stateRoot /\ stateManagerPurge /\ last.oldStateRoot = stateRoot ->
                 [bs EXCEPT !.txState = <<>>, !.currentStateRoot = stateRoot, !.currentTx = 0]
          [] OTHER ->
                 IF i = 0 THEN bs
                 ELSE [bs EXCEPT !.currentStateRoot = stateRoot,
                                 !.currentTx = IF i = 1 THEN 0 ELSE i - 2,
                                 !.txState = SubSeq(@, 1, i - 1)]

finishBlock(b, stateRoot) ==
    IF ~b.exists \/ b.currentBlock >= Len(b.blockState) THEN b
    ELSE LET bs == b.blockState[b.currentBlock + 1]
         IN  IF bs.currentTx >= Len(bs.txState) THEN b
             ELSE [b EXCEPT !.blockState[b.currentBlock + 1] =
                       finishBlockState(@, stateRoot)]

----------------------------------------------------------------------------
(* flush *)

\* The blocks that did not end where they began
changedBlocks(blocks) ==
    LET kept[i \in 0..Len(blocks)] ==
            IF i = 0 THEN <<>>
            ELSE IF blocks[i].currentStateRoot = blocks[i].oldStateRoot THEN kept[i - 1]
            ELSE Append(kept[i - 1], blocks[i])
    IN  kept[Len(blocks)]

\* The blocks that flush keeps
purgeBlocks(b, newStateRoot) ==
    CASE stateManagerPurge /\ newStateRoot = b.oldStateRoot -> <<>>
      [] stateManagerPurge /\ newStateRoot # b.oldStateRoot /\ b.oldStateRoot # NoRoot ->
             changedBlocks(b.blockState)
      [] OTHER -> b.blockState

Start == -1     \* "the origin of this sub-state is the tx old state root"
Broken == -2    \* no sub-state connects to this one

\* The sub-state that sub-state i of a tx builds on
previous(ts, i) ==
    LET ss == ts.subState[i + 1]
        Connects(j) == ts.subState[j + 1].newStateRoot = ss.oldStateRoot
        from == {j \in 0..i - 1 : Connects(j)}
    IN  CASE i = 0 -> IF ss.oldStateRoot = ts.oldStateRoot THEN Start ELSE Broken
          [] i > 0 /\ Connects(ss.previousSubState) -> ss.previousSubState
          [] i > 0 /\ ~Connects(ss.previousSubState) /\ from # {} -> Min(from)
          [] OTHER -> IF ss.oldStateRoot = ts.oldStateRoot THEN Start ELSE Broken

\* bValid: the sub-states met going back from the current one, with the end
validSubStates(ts) ==
    LET back[i \in 0..Len(ts.subState) - 1] ==
            LET p == previous(ts, i)
            IN  {i} \cup (IF p < 0 THEN {p} ELSE back[p])
    IN  back[ts.currentSubState]

txConsistent(ts) ==
    ts.subState # <<>> =>
        /\ ts.subState[ts.currentSubState + 1].newStateRoot = ts.newStateRoot
        /\ Broken \notin validSubStates(ts)

\* The sub-states whose nodes are loaded
loadedSubStates(ts) ==
    LET valid == IF ts.subState = <<>> THEN {} ELSE validSubStates(ts)
        Loaded(i) == LET ss == ts.subState[i]
                     IN  ~stateManagerPurge \/ (i - 1 \in valid /\ ss.oldStateRoot # ss.newStateRoot)
    IN  {i \in DOMAIN ts.subState : Loaded(i)}

\* mutant: the deletes are not applied in the order of the sub-states
mutDeleteLast(nodes, ts) ==
    LET ss == loadedSubStates(ts)
    IN  (nodes \cup UNION {dbWriteNodes(ts.subState[i]) : i \in ss})
            \ UNION {dbDeleteNodes(ts.subState[i]) : i \in ss}

\* "Load data to write database": insert the writes, then erase the deletes,
\* of one sub-state after another
loadTx(nodes, ts) ==
    LET loaded == loadedSubStates(ts)
        load[i \in 0..Len(ts.subState)] ==
            IF i = 0 THEN nodes
            ELSE IF i \notin loaded THEN load[i - 1]
            ELSE LET more == load[i - 1] \cup dbWriteNodes(ts.subState[i])
                 IN  IF stateManagerPurge THEN more \ dbDeleteNodes(ts.subState[i]) ELSE more
    IN  load[Len(ts.subState)]

loadBlock(bs) ==
    LET load[j \in 0..Len(bs.txState)] ==
            IF j = 0 THEN {} ELSE loadTx(load[j - 1], bs.txState[j])
    IN  load[Len(bs.txState)]

\* The transactions of all blocks, in order
Txs(blocks) ==
    LET upTo[i \in 0..Len(blocks)] ==
            IF i = 0 THEN <<>> ELSE upTo[i - 1] \o blocks[i].txState
    IN  upTo[Len(blocks)]

\* mutant: the first transaction that loaded anything wins
mutFirstNewStateRoot(txs) ==
    LET loading == {i \in DOMAIN txs : loadedSubStates(txs[i]) # {}}
    IN  IF loading = {} THEN NoRoot ELSE txs[Min(loading)].newStateRoot

\* The state root of the last transaction that loaded anything, NoRoot if none
lastNewStateRoot(txs) ==
    LET loading == {i \in DOMAIN txs : loadedSubStates(txs[i]) # {}}
    IN  IF loading = {} THEN NoRoot ELSE txs[Max(loading)].newStateRoot

\* mutant: only the programs of the last transaction are written
mutProgramsOfLastTx(txs) == IF txs = <<>> THEN {} ELSE Last(txs).dbWritePrograms

\* Programs go with the transactions that still have sub-states
flushedPrograms(txs) ==
    UNION {txs[i].dbWritePrograms : i \in {j \in DOMAIN txs : txs[j].subState # <<>>}}

\* db.write and db.setProgram keep everything in the cache; only the database
\* persistence reaches the SQL database.  db.updateStateRoot does not ask.
stored(db, nodes, programs, stateRoot, persistence) ==
    LET sql == persistence = "database"
    IN  [cached    |-> db.cached \cup nodes,
         persisted |-> IF sql THEN db.persisted \cup nodes ELSE db.persisted,
         programs  |-> db.programs \cup programs,
         stateRoot |-> OrElse(stateRoot, db.stateRoot)]

\* flush: the checks of a transaction come before its programs and before the
\* nodes of its block, so a failure leaves what precedes it written
flush(b, newStateRoot, persistence, db) ==
    LET blocks   == purgeBlocks(b, newStateRoot)
        badBlock == SelectInSeq(blocks, LAMBDA bs :
                        \E i \in DOMAIN bs.txState : ~txConsistent(bs.txState[i]))
        good     == IF badBlock = 0 THEN blocks ELSE SubSeq(blocks, 1, badBlock - 1)
        txs      == Txs(blocks)
        badTx    == SelectInSeq(txs, LAMBDA ts : ~txConsistent(ts))
        nodes    == UNION {loadBlock(good[i]) : i \in DOMAIN good}
    IN  IF badTx = 0
        THEN [ok |-> TRUE, db |-> stored(db, nodes, flushedPrograms(txs),
                                         lastNewStateRoot(txs), persistence)]
        ELSE [ok |-> FALSE, db |-> stored(db, nodes, flushedPrograms(SubSeq(txs, 1, badTx - 1)),
                                          NoRoot, persistence)]
=============================================================================
