-------------------------- MODULE MultiWriteProofs --------------------------
(***************************************************************************)
(* Proofs about MultiWrite, for every set of nodes, programs and readers   *)
(* and every bound.                                                        *)
(***************************************************************************)
EXTENDS MultiWrite, TLAPS

\* The three buffer indexes form a cycle of three different values.
LEMMA SuccFacts ==
    ASSUME NEW i \in Buffer
    PROVE  /\ SuccMod3(i) \in Buffer
           /\ SuccMod3(i) # i
           /\ SuccMod3(SuccMod3(i)) \in Buffer
           /\ SuccMod3(SuccMod3(i)) # i
           /\ SuccMod3(SuccMod3(i)) # SuccMod3(i)
           /\ SuccMod3(SuccMod3(SuccMod3(i))) = i
<1>1. i = 0 \/ i = 1 \/ i = 2
  BY DEF Buffer
<1>2. SuccMod3(0) = 1 /\ SuccMod3(1) = 2 /\ SuccMod3(2) = 0
  BY DEF SuccMod3
<1>3. QED
  BY <1>1, <1>2 DEF Buffer


\* The initial state and every action of the specification preserve the types.
LEMMA TypeInit == Init => TypeOK
  BY ConstantsAssumption DEF Init, TypeOK, NoKeys, NoRoots, NoFlags, AllIdle,
     NoPromises, ReadRecords, NoRead, Keys, Rows, Buffer

\* The disjuncts of Next, with their parameters named.
LEMMA NextCases ==
    ASSUME Next
    PROVE  \/ \E k \in Keys : writeRemote(k)
           \/ \E T \in SUBSET Nodes : updateStateRoot(T)
           \/ semiFlush \/ flush \/ flushReadOnly
           \/ \E r \in Readers, k \in Keys : readMultiWrite(r, k)
           \/ \E r \in Readers : readRemote(r)
           \/ \E r \in Readers : readReturn(r)
           \/ getFlushData \/ senderResume \/ senderIdle \/ senderSwitch
           \/ sendDataReadOnly \/ sendDataBuild
           \/ \E q \in NextQuery(storingDataIndex) : sendDataQuery(q)
           \/ sendDataDone \/ senderSynchronize
           \/ \E q \in NextQuery(storingDataIndex) : sendDataFail(q)
           \/ crash
  BY DEF Next, Client, Reader, Sender, SenderFails

\* The configuration is read once: no step changes it.
LEMMA ConfigFixed ==
    ASSUME [Next]_vars
    PROVE  dbReadOnly' = dbReadOnly
  BY DEF Next, vars

\* Every step, of a client, a reader, the sender or a crash, preserves the types.
LEMMA TypeNext ==
    ASSUME TypeOK, [Next]_vars
    PROVE  TypeOK'
<1>0. dbReadOnly' = dbReadOnly
  BY ConfigFixed
<1> USE ConstantsAssumption
<1>n1. CASE \E k \in Keys : writeRemote(k)
  BY <1>0, <1>n1 DEF TypeOK, writeRemote, ids, indexes, remote
<1>n2. CASE \E T \in SUBSET Nodes : updateStateRoot(T)
  <2> PICK T \in SUBSET Nodes : updateStateRoot(T)
    BY <1>n2
  <2>1. lastRoot + 1 \in 0..MaxRoots
    BY DEF TypeOK, updateStateRoot
  <2>2. treeBefore' \in [0..MaxRoots -> SUBSET Nodes]
    BY <2>1 DEF TypeOK, updateStateRoot
  <2> QED
    BY <1>0, <2>1, <2>2 DEF TypeOK, updateStateRoot, ids, indexes, remote
<1>n3. CASE semiFlush
  BY <1>0, <1>n3 DEF TypeOK, semiFlush, acceptIntray, Merged, Cleared, ids, indexes, remote, history
<1>n4. CASE flush
  <2>1. lastFlushId + 1 \in 0..MaxFlush
    BY <1>0, <1>n4 DEF TypeOK, flush
  <2> QED
    BY <1>0, <1>n4, <2>1 DEF TypeOK, flush, acceptIntray, Merged, Cleared, indexes, remote
<1>n5. CASE flushReadOnly
  BY <1>0, <1>n5 DEF TypeOK, flushReadOnly, Reset, ids, indexes, remote, history, Rows
<1>n6. CASE \E r \in Readers, k \in Keys : readMultiWrite(r, k)
  BY <1>0, <1>n6 DEF TypeOK, readMultiWrite, ReadRecords, buffers, ids, indexes, remote, history
<1>n7. CASE \E r \in Readers : readRemote(r)
  <2> PICK r \in Readers : readRemote(r)
    BY <1>n7
  <2>1. read[r] \in ReadRecords /\ read[r].pc = "remote"
    BY DEF TypeOK, readRemote
  <2>2. read[r] \in [pc : {"found", "remote", "notfound", "dberror"}, key : Keys,
                     mine : BOOLEAN, tries : 0..dbReadRetryCounter]
    BY <2>1 DEF ReadRecords, NoRead
  <2>3. failures' \in 0..MaxFailures
    <3>1. failures' = failures \/ (failures < MaxFailures /\ failures' = failures + 1)
      BY DEF readRemote
    <3> QED
      BY <3>1 DEF TypeOK
  <2>4. \/ \E p \in {"found", "notfound", "dberror"} : read' = [read EXCEPT ![r].pc = p]
        \/ /\ read[r].tries # 0
           /\ read' = [read EXCEPT ![r].tries = @ - 1]
    BY DEF readRemote
  <2>5. read' \in [Readers -> ReadRecords]
    <3>1. ASSUME NEW p \in {"found", "notfound", "dberror"},
                 read' = [read EXCEPT ![r].pc = p]
          PROVE  read' \in [Readers -> ReadRecords]
      BY <2>2, <3>1 DEF TypeOK, ReadRecords
    <3>2. ASSUME read[r].tries # 0, read' = [read EXCEPT ![r].tries = @ - 1]
          PROVE  read' \in [Readers -> ReadRecords]
      <4>1. read[r].tries - 1 \in 0..dbReadRetryCounter
        BY <2>2, <3>2
      <4> QED
        BY <2>2, <3>2, <4>1 DEF TypeOK, ReadRecords
    <3> QED
      BY <2>4, <3>1, <3>2
  <2> QED
    BY <1>0, <2>3, <2>5 DEF TypeOK, readRemote, buffers, ids, indexes, remote, history
<1>n8. CASE \E r \in Readers : readReturn(r)
  BY <1>0, <1>n8 DEF TypeOK, readReturn, ReadRecords, buffers, ids, indexes, remote, history
<1>n9. CASE getFlushData
  BY <1>0, <1>n9 DEF TypeOK, getFlushData, buffers, ids, indexes, remote
<1>n10. CASE senderResume
  BY <1>0, <1>n10 DEF TypeOK, senderResume, buffers, ids, indexes, remote, history
<1>n11. CASE senderIdle
  BY <1>0, <1>n11 DEF TypeOK, senderIdle, buffers, indexes, remote, history
<1>n12. CASE senderSwitch
  <2>1. /\ SuccMod3(pendingToFlushDataIndex) \in Buffer
        /\ SuccMod3(storingDataIndex) \in Buffer
    BY SuccFacts DEF TypeOK
  <2>2. Merged(pendingToFlushDataIndex) \in [Buffer -> SUBSET Keys]
    BY DEF TypeOK, Merged
  <2>3. /\ accepted' \in [Buffer -> SUBSET Keys]
        /\ intray' \in [Buffer -> SUBSET Keys]
    BY <1>0, <1>n12, <2>1, <2>2 DEF TypeOK, senderSwitch, Reset, Cleared
  <2>4. /\ nodesStateRoot' \in [Buffer -> 0..MaxRoots]
        /\ built' \in [Buffer -> BOOLEAN]
        /\ unsent' \in [Buffer -> SUBSET Rows]
        /\ stored' \in [Buffer -> BOOLEAN]
    BY <1>0, <1>n12, <2>1 DEF TypeOK, senderSwitch, Reset
  <2> QED
    BY <1>0, <1>n12, <2>1, <2>3, <2>4 DEF TypeOK, senderSwitch, remote, history
<1>n13. CASE sendDataReadOnly
  BY <1>0, <1>n13 DEF TypeOK, sendDataReadOnly, buffers, indexes, remote, history
<1>n14. CASE sendDataBuild
  BY <1>0, <1>n14 DEF TypeOK, sendDataBuild, ids, indexes, remote, history, Rows
<1>n15. CASE \E q \in NextQuery(storingDataIndex) : sendDataQuery(q)
  BY <1>0, <1>n15 DEF TypeOK, sendDataQuery, commit, ids, indexes, history, Rows
<1>n16. CASE sendDataDone
  BY <1>0, <1>n16 DEF TypeOK, sendDataDone, indexes, remote, history
<1>n17. CASE senderSynchronize
  BY <1>0, <1>n17, SuccFacts DEF TypeOK, senderSynchronize, buffers, remote, history
<1>n18. CASE \E q \in NextQuery(storingDataIndex) : sendDataFail(q)
  BY <1>0, <1>n18 DEF TypeOK, sendDataFail, commit, buffers, ids, indexes, remote, history
<1>n19. CASE crash
  BY <1>0, <1>n19 DEF TypeOK, crash, NoKeys, NoRoots, NoFlags, AllIdle, NoPromises,
     ReadRecords, Buffer, Rows, remote
<1>n20. CASE UNCHANGED vars
  BY <1>0, <1>n20 DEF TypeOK, vars, buffers, ids, indexes, remote, history
<1> QED
  BY <1>0, NextCases, <1>n1, <1>n2, <1>n3, <1>n4, <1>n5, <1>n6, <1>n7, <1>n8, <1>n9, <1>n10,
     <1>n11, <1>n12, <1>n13, <1>n14, <1>n15, <1>n16, <1>n17, <1>n18, <1>n19, <1>n20

\* The type invariant holds in every reachable state.
THEOREM TypeCorrect == Spec => []TypeOK
  BY TypeInit, TypeNext, PTL DEF Spec

-----------------------------------------------------------------------------
(* The discipline of the three buffers.                                    *)

\* What the index invariant says about the three buffers: they are different.
LEMMA ThreeBuffers ==
    ASSUME TypeOK, IndexInv
    PROVE  /\ storingDataIndex # pendingToFlushDataIndex
           /\ SuccMod3(pendingToFlushDataIndex) # pendingToFlushDataIndex
           /\ SuccMod3(pendingToFlushDataIndex) # storingDataIndex
           /\ SuccMod3(pendingToFlushDataIndex) \in Buffer
           /\ SuccMod3(storingDataIndex) = pendingToFlushDataIndex
  BY SuccFacts DEF TypeOK, IndexInv

\* The constructor of MultiWrite establishes the index invariant.
LEMMA IndexInit == Init => IndexInv
<1> SUFFICES ASSUME Init PROVE IndexInv
  OBVIOUS
<1>1. SuccMod3(SuccMod3(0)) = 2
  BY DEF SuccMod3
<1> QED
  BY <1>1 DEF Init, IndexInv, Busy, NoKeys, NoFlags, Buffer

\* Every step preserves it: only senderSwitch and senderSynchronize turn indexes.
LEMMA IndexNext ==
    ASSUME TypeOK, IndexInv, [Next]_vars
    PROVE  IndexInv'
<1>0. dbReadOnly' = dbReadOnly
  BY ConfigFixed
<1> USE <1>0, ThreeBuffers
<1>n1. CASE \E k \in Keys : writeRemote(k)
  BY <1>n1 DEF TypeOK, IndexInv, Busy, IsEmpty, writeRemote, ids, indexes
<1>n2. CASE \E T \in SUBSET Nodes : updateStateRoot(T)
  BY <1>n2 DEF TypeOK, IndexInv, Busy, IsEmpty, updateStateRoot, ids, indexes
<1>n3. CASE semiFlush
  BY <1>n3 DEF TypeOK, IndexInv, Busy, IsEmpty, semiFlush, acceptIntray, Merged, Cleared, indexes
<1>n4. CASE flush
  BY <1>n4 DEF TypeOK, IndexInv, Busy, IsEmpty, flush, acceptIntray, Merged, Cleared, indexes
<1>n5. CASE flushReadOnly
  BY <1>n5 DEF TypeOK, IndexInv, Busy, IsEmpty, flushReadOnly, Reset, indexes
<1>n6. CASE \E r \in Readers, k \in Keys : readMultiWrite(r, k)
  BY <1>n6 DEF IndexInv, Busy, IsEmpty, readMultiWrite, buffers, indexes
<1>n7. CASE \E r \in Readers : readRemote(r)
  BY <1>n7 DEF IndexInv, Busy, IsEmpty, readRemote, buffers, indexes
<1>n8. CASE \E r \in Readers : readReturn(r)
  BY <1>n8 DEF IndexInv, Busy, IsEmpty, readReturn, buffers, indexes
<1>n9. CASE getFlushData
  BY <1>n9 DEF IndexInv, Busy, IsEmpty, getFlushData, buffers, indexes
<1>n10. CASE senderResume
  BY <1>n10 DEF IndexInv, Busy, IsEmpty, senderResume, buffers, indexes
<1>n11. CASE senderIdle
  BY <1>n11 DEF IndexInv, Busy, IsEmpty, senderIdle, buffers, indexes
<1>n12. CASE senderSwitch
  <2>1. /\ storingDataIndex' = pendingToFlushDataIndex
        /\ pendingToFlushDataIndex' = SuccMod3(pendingToFlushDataIndex)
        /\ synchronizingDataIndex' = storingDataIndex
        /\ senderPc' = "send"
    BY <1>n12 DEF senderSwitch, IndexInv, Busy
  <2>2. /\ storingDataIndex' = SuccMod3(SuccMod3(pendingToFlushDataIndex'))
        /\ synchronizingDataIndex' = SuccMod3(pendingToFlushDataIndex')
    BY <2>1, SuccFacts DEF IndexInv, TypeOK
  <2>3. /\ intray'[storingDataIndex'] = {}
        /\ ~built'[pendingToFlushDataIndex'] /\ ~stored'[pendingToFlushDataIndex']
        /\ ~built'[storingDataIndex'] /\ ~stored'[storingDataIndex']
    BY <1>n12, <2>1 DEF TypeOK, senderSwitch, Reset, Cleared, IndexInv
  <2>4. /\ accepted'[storingDataIndex'] = accepted[pendingToFlushDataIndex]
                                          \cup intray[pendingToFlushDataIndex]
        /\ nodesStateRoot'[storingDataIndex'] = nodesStateRoot[pendingToFlushDataIndex]
    BY <1>n12, <2>1 DEF TypeOK, senderSwitch, Reset, Merged, Cleared
  <2>5. ~IsEmpty(storingDataIndex)'
    BY <1>n12, <2>4 DEF senderSwitch, IsEmpty
  <2> QED
    BY <2>1, <2>2, <2>3, <2>5 DEF IndexInv, Busy
<1>n13. CASE sendDataReadOnly
  BY <1>n13 DEF IndexInv, Busy, IsEmpty, sendDataReadOnly, buffers, indexes
<1>n14. CASE sendDataBuild
  BY <1>n14 DEF TypeOK, IndexInv, Busy, IsEmpty, sendDataBuild, indexes
<1>n15. CASE \E q \in NextQuery(storingDataIndex) : sendDataQuery(q)
  BY <1>n15 DEF IndexInv, Busy, IsEmpty, sendDataQuery, indexes
<1>n16. CASE sendDataDone
  <2>1. ~built'[storingDataIndex] /\ built'[pendingToFlushDataIndex] = FALSE
    BY <1>n16 DEF TypeOK, IndexInv, sendDataDone
  <2>2. ~stored'[pendingToFlushDataIndex]
    BY <1>n16 DEF TypeOK, IndexInv, sendDataDone
  <2> QED
    BY <1>n16, <2>1, <2>2 DEF IndexInv, Busy, sendDataDone, indexes
<1>n17. CASE senderSynchronize
  <2>1. /\ synchronizingDataIndex' = SuccMod3(SuccMod3(pendingToFlushDataIndex))
        /\ UNCHANGED <<buffers, pendingToFlushDataIndex, storingDataIndex>>
        /\ senderPc' = "wait" /\ ~built[storingDataIndex]
    BY <1>n17 DEF IndexInv, Busy, senderSynchronize
  <2> QED
    BY <2>1 DEF IndexInv, Busy, IsEmpty, buffers
<1>n18. CASE \E q \in NextQuery(storingDataIndex) : sendDataFail(q)
  BY <1>n18 DEF IndexInv, Busy, IsEmpty, sendDataFail, buffers, indexes
<1>n19. CASE crash
  <2>1. SuccMod3(SuccMod3(0)) = 2
    BY DEF SuccMod3
  <2> QED
    BY <1>n19, <2>1 DEF crash, IndexInv, Busy, NoKeys, NoFlags, Buffer
<1>n20. CASE UNCHANGED vars
  BY <1>n20 DEF vars, IndexInv, Busy, IsEmpty, buffers, indexes
<1> QED
  BY NextCases, <1>n1, <1>n2, <1>n3, <1>n4, <1>n5, <1>n6, <1>n7, <1>n8, <1>n9, <1>n10,
     <1>n11, <1>n12, <1>n13, <1>n14, <1>n15, <1>n16, <1>n17, <1>n18, <1>n19, <1>n20

\* The three indexes turn together in every reachable state.
THEOREM IndexCorrect == Spec => []IndexInv
  BY TypeCorrect, IndexInit, IndexNext, PTL DEF Spec

\* New data never goes to a buffer that is being stored or synchronised.
THEOREM PendingPrivate == Spec => []PendingIsPrivate
<1>1. TypeOK /\ IndexInv => PendingIsPrivate
  BY ThreeBuffers DEF PendingIsPrivate, IndexInv
<1> QED
  BY <1>1, TypeCorrect, IndexCorrect, PTL

\* The assertions of findNode and findProgram hold.
THEOREM IntrayAssertion == Spec => []StoringIntrayEmpty
<1>1. IndexInv => StoringIntrayEmpty
  BY DEF StoringIntrayEmpty, IndexInv
<1> QED
  BY <1>1, IndexCorrect, PTL

\* sendData always has unsent data to send.
THEOREM SendWork == Spec => []SendHasWork
<1>1. IndexInv => SendHasWork
  BY DEF SendHasWork, IndexInv
<1> QED
  BY <1>1, IndexCorrect, PTL

-----------------------------------------------------------------------------
(* Durability: where the keys are, which flushes cover them, in which      *)
(* order the roots are stored.                                             *)

\* What senderSwitch does to the three buffers.
LEMMA SwitchFacts ==
    ASSUME TypeOK, IndexInv, senderSwitch
    PROVE  LET p == pendingToFlushDataIndex
               s == storingDataIndex
               x == SuccMod3(pendingToFlushDataIndex) IN
           /\ storingDataIndex' = p
           /\ pendingToFlushDataIndex' = x
           /\ SuccMod3(pendingToFlushDataIndex)' = s
           /\ senderPc' = "send"
           /\ ~built'[p]
           /\ accepted'[p] = accepted[p] \cup intray[p]
           /\ nodesStateRoot'[p] = nodesStateRoot[p]
           /\ accepted'[x] = {} /\ intray'[x] = {} /\ nodesStateRoot'[x] = 0
           /\ accepted'[s] = accepted[s]
           /\ nodesStateRoot'[s] = nodesStateRoot[s]
<1>1. /\ storingDataIndex' = pendingToFlushDataIndex
      /\ pendingToFlushDataIndex' = SuccMod3(pendingToFlushDataIndex)
      /\ senderPc' = "send"
  BY ThreeBuffers DEF senderSwitch
<1>2. SuccMod3(pendingToFlushDataIndex)' = storingDataIndex
  BY <1>1 DEF IndexInv
<1>3. /\ ~built'[pendingToFlushDataIndex]
      /\ nodesStateRoot'[pendingToFlushDataIndex] = nodesStateRoot[pendingToFlushDataIndex]
      /\ nodesStateRoot'[SuccMod3(pendingToFlushDataIndex)] = 0
      /\ nodesStateRoot'[storingDataIndex] = nodesStateRoot[storingDataIndex]
  BY ThreeBuffers DEF TypeOK, IndexInv, senderSwitch, Reset
<1>4. /\ accepted'[pendingToFlushDataIndex] = accepted[pendingToFlushDataIndex]
                                              \cup intray[pendingToFlushDataIndex]
      /\ accepted'[SuccMod3(pendingToFlushDataIndex)] = {}
      /\ intray'[SuccMod3(pendingToFlushDataIndex)] = {}
      /\ accepted'[storingDataIndex] = accepted[storingDataIndex]
  BY ThreeBuffers DEF TypeOK, senderSwitch, Reset, Merged, Cleared
<1> QED
  BY <1>1, <1>2, <1>3, <1>4

\* What semiFlush and flush do to the buffers.
LEMMA AcceptFacts ==
    ASSUME TypeOK, IndexInv, acceptIntray(pendingToFlushDataIndex)
    PROVE  LET p == pendingToFlushDataIndex
               s == storingDataIndex
               x == SuccMod3(pendingToFlushDataIndex) IN
           /\ accepted'[p] = accepted[p] \cup intray[p]
           /\ intray'[p] = {}
           /\ accepted'[s] = accepted[s]
           /\ accepted'[x] = accepted[x]
  BY ThreeBuffers DEF TypeOK, acceptIntray, Merged, Cleared

\* A fresh process satisfies the invariant behind the durability properties.
LEMMA StoreInit == Init => StoreInv
<1> SUFFICES ASSUME Init PROVE KeyInv /\ FlushInv /\ RootInv /\ ReadInv /\ delivered = {}
  BY DEF StoreInv
<1>0. SuccMod3(0) = 1
  BY DEF SuccMod3
<1>1. KeyInv
  BY <1>0 DEF Init, KeyInv, Busy, NoKeys, NoFlags, Buffer
<1>2. FlushInv
  BY ConstantsAssumption DEF Init, FlushInv, Busy, NoKeys, NoRoots, NoFlags, NoPromises,
     Buffer
<1>3. RootInv
  BY ConstantsAssumption DEF Init, RootInv, NoKeys, NoRoots, NoFlags, Buffer
<1>4. ReadInv
  BY DEF Init, ReadInv, AllIdle, NoRead
<1> QED
  BY <1>1, <1>2, <1>3, <1>4 DEF Init

\* No step loses a written key: it moves from intray to accepted to the database.
LEMMA KeyNext ==
    ASSUME TypeOK, IndexInv, KeyInv, ~dbReadOnly, [Next]_vars
    PROVE  KeyInv'
<1> USE ThreeBuffers
<1>n1. CASE \E k \in Keys : writeRemote(k)
  BY <1>n1 DEF TypeOK, KeyInv, Busy, writeRemote, indexes, remote
<1>n2. CASE \E T \in SUBSET Nodes : updateStateRoot(T)
  BY <1>n2 DEF KeyInv, Busy, updateStateRoot, indexes, remote
<1>n3. CASE semiFlush
  BY <1>n3, AcceptFacts DEF KeyInv, Busy, semiFlush, indexes, remote, history
<1>n4. CASE flush
  BY <1>n4, AcceptFacts DEF KeyInv, Busy, flush, indexes, remote
<1>n5. CASE flushReadOnly
  BY <1>n5 DEF flushReadOnly
<1>n6. CASE \E r \in Readers, k \in Keys : readMultiWrite(r, k)
  BY <1>n6 DEF KeyInv, Busy, readMultiWrite, buffers, indexes, remote, history
<1>n7. CASE \E r \in Readers : readRemote(r)
  BY <1>n7 DEF KeyInv, Busy, readRemote, buffers, indexes, remote, history
<1>n8. CASE \E r \in Readers : readReturn(r)
  BY <1>n8 DEF KeyInv, Busy, readReturn, buffers, indexes, remote, history
<1>n9. CASE getFlushData
  BY <1>n9 DEF KeyInv, Busy, getFlushData, buffers, indexes, remote
<1>n10. CASE senderResume
  BY <1>n10 DEF KeyInv, Busy, senderResume, buffers, indexes, remote, history
<1>n11. CASE senderIdle
  BY <1>n11 DEF KeyInv, Busy, senderIdle, buffers, indexes, remote, history
<1>n12. CASE senderSwitch
  <2>1. /\ senderPc = "wait" /\ ~built[storingDataIndex]
        /\ UNCHANGED <<db, written>>
    BY <1>n12 DEF senderSwitch, remote, history
  <2> QED
    BY <1>n12, <2>1, SwitchFacts DEF KeyInv
<1>n13. CASE sendDataReadOnly
  BY <1>n13 DEF sendDataReadOnly
<1>n14. CASE sendDataBuild
  <2>1. /\ built' = [built EXCEPT ![storingDataIndex] = TRUE]
        /\ accepted[storingDataIndex] \subseteq unsent'[storingDataIndex]
        /\ senderPc = "send"
        /\ UNCHANGED <<accepted, intray, db, written, senderPc, indexes>>
    BY <1>n14 DEF TypeOK, sendDataBuild, remote, history
  <2> QED
    BY <2>1 DEF TypeOK, KeyInv, Busy, indexes
<1>n15. CASE \E q \in NextQuery(storingDataIndex) : sendDataQuery(q)
  <2> PICK q \in NextQuery(storingDataIndex) : sendDataQuery(q)
    BY <1>n15
  <2>1. /\ unsent'[storingDataIndex] = unsent[storingDataIndex] \ q
        /\ db' = db \cup (q \cap Keys)
        /\ built[storingDataIndex] /\ senderPc = "send"
        /\ UNCHANGED <<accepted, intray, built, written, senderPc, indexes>>
    BY DEF TypeOK, sendDataQuery, commit, history
  <2>2. accepted[storingDataIndex] \subseteq Keys
    BY DEF TypeOK
  <2> QED
    BY <2>1, <2>2 DEF KeyInv, Busy, indexes
<1>n16. CASE sendDataDone
  <2>1. /\ built' = [built EXCEPT ![storingDataIndex] = FALSE]
        /\ unsent[storingDataIndex] = {}
        /\ senderPc = "send" /\ senderPc' = "sent" /\ built[storingDataIndex]
        /\ UNCHANGED <<accepted, intray, unsent, db, written, indexes>>
    BY <1>n16 DEF sendDataDone, remote, history
  <2> QED
    BY <2>1 DEF TypeOK, KeyInv, Busy, indexes
<1>n17. CASE senderSynchronize
  <2>1. senderPc = "sent" /\ ~built[storingDataIndex]
    BY <1>n17 DEF senderSynchronize, IndexInv
  <2> QED
    BY <1>n17, <2>1 DEF KeyInv, Busy, senderSynchronize, buffers, remote, history
<1>n18. CASE \E q \in NextQuery(storingDataIndex) : sendDataFail(q)
  <2>1. db \subseteq db' /\ UNCHANGED <<buffers, indexes, written>>
        /\ built[storingDataIndex] /\ senderPc = "send"
    BY <1>n18 DEF sendDataFail, commit, remote, history
  <2> QED
    BY <2>1 DEF KeyInv, Busy, buffers, indexes
<1>n19. CASE crash
  <2>1. SuccMod3(0) = 1
    BY DEF SuccMod3
  <2> QED
    BY <1>n19, <2>1 DEF crash, KeyInv, Busy, NoKeys, NoFlags, Buffer
<1>n20. CASE UNCHANGED vars
  BY <1>n20 DEF vars, KeyInv, Busy, buffers, indexes, remote, history
<1> QED
  BY NextCases, <1>n1, <1>n2, <1>n3, <1>n4, <1>n5, <1>n6, <1>n7, <1>n8, <1>n9, <1>n10,
     <1>n11, <1>n12, <1>n13, <1>n14, <1>n15, <1>n16, <1>n17, <1>n18, <1>n19, <1>n20

\* The numbers of the flush and root bookkeeping are naturals.
LEMMA NatFacts ==
    ASSUME TypeOK
    PROVE  /\ lastFlushId \in Nat /\ storedFlushId \in Nat /\ storingFlushId \in Nat
           /\ \A f \in 0..lastFlushId : f \in 0..MaxFlush
           /\ \A f \in 0..lastFlushId : promisedRoot[f] \in Nat
           /\ dbRoot \in Nat /\ setRoot \in Nat /\ lastRoot \in Nat
           /\ \A b \in Buffer : nodesStateRoot[b] \in Nat
<1>1. MaxFlush \in Nat /\ MaxRoots \in Nat
  BY ConstantsAssumption
<1>2. \A f \in 0..lastFlushId : f \in 0..MaxFlush
  BY <1>1 DEF TypeOK
<1> QED
  BY <1>1, <1>2 DEF TypeOK

\* Once the storing buffer is in the database, so is every flush it covers.
LEMMA StoredUpTo ==
    ASSUME TypeOK, FlushInv,
           accepted[storingDataIndex] \subseteq db,
           nodesStateRoot[storingDataIndex] <= dbRoot
    PROVE  \A f \in 0..lastFlushId : f <= storingFlushId =>
              promised[f] \subseteq db /\ promisedRoot[f] <= dbRoot
<1> TAKE f \in 0..lastFlushId
<1> HAVE f <= storingFlushId
<1>1. /\ promised[f] \subseteq db \cup accepted[storingDataIndex]
      /\ \/ promisedRoot[f] <= dbRoot
         \/ promisedRoot[f] <= nodesStateRoot[storingDataIndex]
  BY DEF FlushInv
<1>2. f \in 0..MaxFlush
  BY ConstantsAssumption DEF TypeOK
<1>3. promisedRoot[f] \in Nat /\ dbRoot \in Nat /\ nodesStateRoot[storingDataIndex] \in Nat
  BY <1>2, ConstantsAssumption DEF TypeOK
<1>4. promisedRoot[f] <= dbRoot
  BY <1>1, <1>3
<1> QED
  BY <1>1, <1>4

\* Every step keeps the flush ids in line with what the buffers still hold.
LEMMA FlushNext ==
    ASSUME TypeOK, IndexInv, KeyInv, FlushInv, RootInv, ~dbReadOnly, [Next]_vars
    PROVE  FlushInv'
<1> USE ThreeBuffers
<1>n1. CASE \E k \in Keys : writeRemote(k)
  BY <1>n1 DEF FlushInv, Busy, writeRemote, ids, indexes, remote
<1>n2. CASE \E T \in SUBSET Nodes : updateStateRoot(T)
  <2>1. /\ setRoot <= setRoot' /\ setRoot' \in Nat
        /\ nodesStateRoot'[storingDataIndex] = nodesStateRoot[storingDataIndex]
    BY <1>n2 DEF TypeOK, RootInv, updateStateRoot
  <2>2. \A f \in 0..lastFlushId : promisedRoot[f] <= setRoot'
    BY <2>1, NatFacts DEF FlushInv
  <2> QED
    BY <1>n2, <2>1, <2>2 DEF FlushInv, Busy, updateStateRoot, ids, indexes, remote
<1>n3. CASE semiFlush
  BY <1>n3, AcceptFacts DEF FlushInv, Busy, semiFlush, ids, indexes, remote, history
<1>n4. CASE flush
  <2>1. /\ lastFlushId' = lastFlushId + 1
        /\ lastFlushId + 1 \in 0..MaxFlush
        /\ promised' = [promised EXCEPT ![lastFlushId + 1] = written]
        /\ promisedRoot' = [promisedRoot EXCEPT ![lastFlushId + 1] = setRoot]
        /\ UNCHANGED <<storedFlushId, storingFlushId, db, dbRoot, written, setRoot,
                       nodesStateRoot, built, senderPc, indexes>>
    BY <1>n4, ConstantsAssumption DEF TypeOK, flush, remote
  <2>2. accepted'[storingDataIndex] = accepted[storingDataIndex]
    BY <1>n4, AcceptFacts DEF flush
  <2>3. \A f \in 0..lastFlushId : /\ promised'[f] = promised[f]
                                  /\ promisedRoot'[f] = promisedRoot[f]
    BY <2>1 DEF TypeOK
  <2>4. /\ promised'[lastFlushId + 1] = written
        /\ promisedRoot'[lastFlushId + 1] = setRoot
    BY <2>1 DEF TypeOK
  <2>5. setRoot <= setRoot /\ lastFlushId <= lastFlushId + 1
    BY DEF TypeOK
  <2>6. /\ storedFlushId <= lastFlushId' /\ storingFlushId <= lastFlushId'
        /\ ~(lastFlushId + 1 <= storingFlushId) /\ ~(lastFlushId + 1 <= storedFlushId)
    BY <2>1 DEF TypeOK, FlushInv
  <2>7. \A f \in 0..lastFlushId' : f \in 0..lastFlushId \/ f = lastFlushId + 1
    BY <2>1 DEF TypeOK
  <2> QED
    BY <2>1, <2>2, <2>3, <2>4, <2>5, <2>6, <2>7 DEF FlushInv, Busy, indexes
<1>n5. CASE flushReadOnly
  BY <1>n5 DEF flushReadOnly
<1>n6. CASE \E r \in Readers, k \in Keys : readMultiWrite(r, k)
  BY <1>n6 DEF FlushInv, Busy, readMultiWrite, buffers, ids, indexes, remote, history
<1>n7. CASE \E r \in Readers : readRemote(r)
  BY <1>n7 DEF FlushInv, Busy, readRemote, buffers, ids, indexes, remote, history
<1>n8. CASE \E r \in Readers : readReturn(r)
  BY <1>n8 DEF FlushInv, Busy, readReturn, buffers, ids, indexes, remote, history
<1>n9. CASE getFlushData
  BY <1>n9 DEF FlushInv, Busy, getFlushData, buffers, ids, indexes, remote
<1>n10. CASE senderResume
  BY <1>n10 DEF FlushInv, Busy, senderResume, buffers, ids, indexes, remote, history
<1>n11. CASE senderIdle
  \* Nothing is pending and the last data set is stored: all is in the database.
  <2>1. /\ senderPc = "wait" /\ ~built[storingDataIndex]
        /\ accepted[pendingToFlushDataIndex] = {} /\ intray[pendingToFlushDataIndex] = {}
        /\ nodesStateRoot[pendingToFlushDataIndex] = 0
        /\ storedFlushId' = lastFlushId
        /\ UNCHANGED <<buffers, lastFlushId, storingFlushId, indexes, senderPc, remote,
                       history>>
    BY <1>n11 DEF senderIdle, IsEmpty
  <2>2. written \subseteq db
    BY <2>1 DEF KeyInv
  <2>3. setRoot <= dbRoot
    BY <2>1 DEF RootInv, TypeOK
  <2>4. \A f \in 0..lastFlushId : promised[f] \subseteq db /\ promisedRoot[f] <= dbRoot
    BY <2>2, <2>3, NatFacts DEF FlushInv
  <2>5. lastFlushId <= lastFlushId
    BY DEF TypeOK
  <2> QED
    BY <2>1, <2>4, <2>5 DEF FlushInv, Busy, buffers, indexes, remote, history
<1>n12. CASE senderSwitch
  <2>1. /\ senderPc = "wait" /\ ~built[storingDataIndex]
        /\ storingFlushId' = lastFlushId
        /\ UNCHANGED <<lastFlushId, storedFlushId, remote, history>>
    BY <1>n12 DEF senderSwitch
  <2>2. /\ storingDataIndex' = pendingToFlushDataIndex
        /\ accepted'[pendingToFlushDataIndex] =
             accepted[pendingToFlushDataIndex] \cup intray[pendingToFlushDataIndex]
        /\ nodesStateRoot'[pendingToFlushDataIndex] = nodesStateRoot[pendingToFlushDataIndex]
    BY <1>n12, SwitchFacts
  <2>3. written \subseteq db \cup accepted'[pendingToFlushDataIndex]
    BY <2>1, <2>2 DEF KeyInv
  <2>4. setRoot <= dbRoot \/ setRoot <= nodesStateRoot[pendingToFlushDataIndex]
    BY <2>1 DEF RootInv, TypeOK
  <2>5. \A f \in 0..lastFlushId :
          \/ promisedRoot[f] <= dbRoot
          \/ promisedRoot[f] <= nodesStateRoot[pendingToFlushDataIndex]
    BY <2>4, NatFacts DEF FlushInv, TypeOK
  <2>6. lastFlushId <= lastFlushId
    BY DEF TypeOK
  <2> QED
    BY <2>1, <2>2, <2>3, <2>5, <2>6 DEF FlushInv, remote, history
<1>n13. CASE sendDataReadOnly
  BY <1>n13 DEF sendDataReadOnly
<1>n14. CASE sendDataBuild
  BY <1>n14 DEF FlushInv, Busy, sendDataBuild, ids, indexes, remote, history
<1>n15. CASE \E q \in NextQuery(storingDataIndex) : sendDataQuery(q)
  <2> PICK q \in NextQuery(storingDataIndex) : sendDataQuery(q)
    BY <1>n15
  <2>1. /\ db \subseteq db'
        /\ dbRoot' = dbRoot \/ (/\ dbStateRootKey \in unsent[storingDataIndex]
                                /\ dbRoot' = nodesStateRoot[storingDataIndex])
        /\ senderPc = "send" /\ built[storingDataIndex]
        /\ UNCHANGED <<accepted, nodesStateRoot, built, ids, indexes, senderPc, history>>
    BY DEF sendDataQuery, commit, NextQuery
  <2>2. dbRoot <= dbRoot'
    BY <2>1 DEF RootInv, TypeOK
  <2>3. \A f \in 0..lastFlushId : promisedRoot[f] <= dbRoot => promisedRoot[f] <= dbRoot'
    <3>1. dbRoot' \in Nat
      BY <2>1, NatFacts DEF TypeOK
    <3> QED
      BY <2>2, <3>1, NatFacts
  <2> QED
    BY <2>1, <2>3 DEF FlushInv, Busy, ids, indexes, history
<1>n16. CASE sendDataDone
  <2>1. /\ built[storingDataIndex] /\ senderPc = "send" /\ unsent[storingDataIndex] = {}
        /\ storedFlushId' = storingFlushId
        /\ UNCHANGED <<accepted, nodesStateRoot, lastFlushId, storingFlushId, indexes,
                       remote, history>>
    BY <1>n16 DEF sendDataDone
  <2>2. accepted[storingDataIndex] \subseteq db /\ nodesStateRoot[storingDataIndex] <= dbRoot
    BY <2>1 DEF KeyInv, RootInv
  <2>3. \A f \in 0..lastFlushId : f <= storingFlushId =>
          promised[f] \subseteq db /\ promisedRoot[f] <= dbRoot
    BY <2>2, StoredUpTo
  <2>4. storingFlushId <= storingFlushId
    BY DEF TypeOK
  <2> QED
    BY <2>1, <2>3, <2>4 DEF FlushInv, indexes, remote, history
<1>n17. CASE senderSynchronize
  <2>1. /\ ~built[storingDataIndex] /\ senderPc = "sent"
        /\ storedFlushId' = storingFlushId
        /\ UNCHANGED <<buffers, lastFlushId, storingFlushId, storingDataIndex, remote,
                       history>>
    BY <1>n17 DEF senderSynchronize, IndexInv
  <2>2. accepted[storingDataIndex] \subseteq db /\ nodesStateRoot[storingDataIndex] <= dbRoot
    BY <2>1 DEF KeyInv, RootInv
  <2>3. \A f \in 0..lastFlushId : f <= storingFlushId =>
          promised[f] \subseteq db /\ promisedRoot[f] <= dbRoot
    BY <2>2, StoredUpTo
  <2>4. storingFlushId <= storingFlushId
    BY DEF TypeOK
  <2> QED
    BY <2>1, <2>3, <2>4 DEF FlushInv, buffers, remote, history
<1>n18. CASE \E q \in NextQuery(storingDataIndex) : sendDataFail(q)
  <2> PICK q \in NextQuery(storingDataIndex) : sendDataFail(q)
    BY <1>n18
  <2>1. /\ db \subseteq db'
        /\ dbRoot' = dbRoot \/ (/\ dbStateRootKey \in unsent[storingDataIndex]
                                /\ dbRoot' = nodesStateRoot[storingDataIndex])
        /\ senderPc = "send" /\ built[storingDataIndex]
        /\ UNCHANGED <<buffers, ids, indexes, history>>
    BY DEF sendDataFail, commit, NextQuery, remote
  <2>2. dbRoot <= dbRoot'
    BY <2>1 DEF RootInv, TypeOK
  <2>3. \A f \in 0..lastFlushId : promisedRoot[f] <= dbRoot => promisedRoot[f] <= dbRoot'
    <3>1. dbRoot' \in Nat
      BY <2>1, NatFacts DEF TypeOK
    <3> QED
      BY <2>2, <3>1, NatFacts
  <2> QED
    BY <2>1, <2>3 DEF FlushInv, Busy, buffers, ids, indexes, history
<1>n19. CASE crash
  <2>1. /\ lastFlushId' = 0 /\ storedFlushId' = 0 /\ storingFlushId' = 0
        /\ promised'[0] = {} /\ promisedRoot'[0] = 0 /\ setRoot' = 0
        /\ dbRoot' \in Nat
    BY <1>n19, ConstantsAssumption DEF crash, NoPromises, remote, TypeOK
  <2> QED
    BY <2>1 DEF FlushInv
<1>n20. CASE UNCHANGED vars
  BY <1>n20 DEF vars, FlushInv, Busy, buffers, ids, indexes, remote, history
<1> QED
  BY NextCases, <1>n1, <1>n2, <1>n3, <1>n4, <1>n5, <1>n6, <1>n7, <1>n8, <1>n9, <1>n10,
     <1>n11, <1>n12, <1>n13, <1>n14, <1>n15, <1>n16, <1>n17, <1>n18, <1>n19, <1>n20

\* What one query, committed or in doubt, does to the database.
LEMMA CommitFacts ==
    ASSUME TypeOK, IndexInv, KeyInv, RootInv, built[storingDataIndex],
           NEW q \in NextQuery(storingDataIndex),
           \/ commit(q, nodesStateRoot[storingDataIndex])
           \/ UNCHANGED remote
    PROVE  /\ db \subseteq db'
           /\ \/ dbRoot' = dbRoot
              \/ /\ dbRoot' = nodesStateRoot[storingDataIndex]
                 /\ nodesStateRoot[storingDataIndex] # 0
                 /\ accepted[storingDataIndex] \subseteq db'
           /\ dbStateRootKey \in q /\ commit(q, nodesStateRoot[storingDataIndex])
                => dbRoot' = nodesStateRoot[storingDataIndex]
<1>1. CASE UNCHANGED remote
  <2>1. ASSUME dbStateRootKey \in q, commit(q, nodesStateRoot[storingDataIndex])
        PROVE  dbRoot' = nodesStateRoot[storingDataIndex]
    BY <2>1 DEF commit
  <2> QED
    BY <1>1, <2>1 DEF remote
<1>2. CASE commit(q, nodesStateRoot[storingDataIndex]) /\ dbStateRootKey \notin q
  BY <1>2 DEF commit
<1>3. CASE commit(q, nodesStateRoot[storingDataIndex]) /\ dbStateRootKey \in q
  <2>1. q = unsent[storingDataIndex]
    BY <1>3 DEF NextQuery
  <2>2. nodesStateRoot[storingDataIndex] # 0
    BY <1>3, <2>1 DEF RootInv
  <2>3. /\ db' = db \cup (q \cap Keys)
        /\ dbRoot' = nodesStateRoot[storingDataIndex]
    BY <1>3 DEF commit
  <2>4. accepted[storingDataIndex] \subseteq db'
    BY <2>1, <2>3 DEF KeyInv, TypeOK
  <2> QED
    BY <2>2, <2>3, <2>4
<1> QED
  BY <1>1, <1>2, <1>3

\* Every step keeps the order of the roots, and their trees below them.
LEMMA RootNext ==
    ASSUME TypeOK, IndexInv, KeyInv, RootInv, ~dbReadOnly, [Next]_vars
    PROVE  RootInv'
<1> USE ThreeBuffers, NatFacts
<1>n1. CASE \E k \in Keys : writeRemote(k)
  <2>1. /\ intray[pendingToFlushDataIndex] \subseteq intray'[pendingToFlushDataIndex]
        /\ UNCHANGED <<accepted, nodesStateRoot, built, unsent, indexes, senderPc,
                       remote, setRoot, lastRoot, treeBefore>>
    BY <1>n1 DEF TypeOK, writeRemote
  <2> QED
    BY <2>1 DEF RootInv, indexes, remote
<1>n2. CASE \E T \in SUBSET Nodes : updateStateRoot(T)
  <2> PICK T \in SUBSET Nodes : updateStateRoot(T)
    BY <1>n2
  <2>1. /\ lastRoot + 1 \in 0..MaxRoots
        /\ lastRoot' = lastRoot + 1 /\ setRoot' = lastRoot + 1
        /\ UNCHANGED <<accepted, intray, built, unsent, indexes, senderPc, remote>>
    BY ConstantsAssumption DEF TypeOK, updateStateRoot
  <2>2. /\ nodesStateRoot'[pendingToFlushDataIndex] = lastRoot + 1
        /\ nodesStateRoot'[storingDataIndex] = nodesStateRoot[storingDataIndex]
    BY DEF TypeOK, updateStateRoot
  <2>3. /\ treeBefore'[lastRoot + 1] = T \cap (written \cup db)
        /\ treeBefore'[0] = treeBefore[0]
        /\ treeBefore'[dbRoot] = treeBefore[dbRoot]
        /\ treeBefore'[nodesStateRoot[storingDataIndex]] = treeBefore[nodesStateRoot[storingDataIndex]]
    BY <2>1, ConstantsAssumption DEF TypeOK, RootInv, updateStateRoot
  <2>4. T \cap (written \cup db) \subseteq db \cup accepted[storingDataIndex]
          \cup accepted[pendingToFlushDataIndex] \cup intray[pendingToFlushDataIndex]
    BY DEF KeyInv
  <2>5. /\ dbRoot <= lastRoot + 1 /\ nodesStateRoot[storingDataIndex] <= lastRoot + 1
        /\ lastRoot + 1 <= lastRoot + 1
    BY DEF RootInv, TypeOK
  <2> QED
    BY <2>1, <2>2, <2>3, <2>4, <2>5 DEF RootInv, indexes, remote
<1>n3. CASE semiFlush
  BY <1>n3, AcceptFacts DEF RootInv, semiFlush, indexes, remote, history
<1>n4. CASE flush
  BY <1>n4, AcceptFacts DEF RootInv, flush, indexes, remote
<1>n5. CASE flushReadOnly
  BY <1>n5 DEF flushReadOnly
<1>n6. CASE \E r \in Readers, k \in Keys : readMultiWrite(r, k)
  BY <1>n6 DEF RootInv, readMultiWrite, buffers, indexes, remote, history
<1>n7. CASE \E r \in Readers : readRemote(r)
  BY <1>n7 DEF RootInv, readRemote, buffers, indexes, remote, history
<1>n8. CASE \E r \in Readers : readReturn(r)
  BY <1>n8 DEF RootInv, readReturn, buffers, indexes, remote, history
<1>n9. CASE getFlushData
  BY <1>n9 DEF RootInv, getFlushData, buffers, indexes, remote
<1>n10. CASE senderResume
  BY <1>n10 DEF RootInv, senderResume, buffers, indexes, remote, history
<1>n11. CASE senderIdle
  BY <1>n11 DEF RootInv, senderIdle, buffers, indexes, remote, history
<1>n12. CASE senderSwitch
  \* The stored root of the old data set is in the database, the new data set
  \* takes the pending root with the keys that came before it.
  <2>1. /\ senderPc = "wait" /\ ~built[storingDataIndex]
        /\ UNCHANGED <<remote, history>>
    BY <1>n12 DEF senderSwitch
  <2>2. /\ nodesStateRoot[storingDataIndex] <= dbRoot
        /\ accepted[storingDataIndex] \subseteq db
    BY <2>1 DEF RootInv, KeyInv
  <2>3. /\ setRoot <= dbRoot \/ setRoot <= nodesStateRoot[pendingToFlushDataIndex]
    BY <2>2 DEF RootInv, TypeOK
  <2>4. treeBefore[nodesStateRoot[pendingToFlushDataIndex]]
          \subseteq db \cup accepted'[pendingToFlushDataIndex]
    BY <1>n12, <2>2, SwitchFacts DEF RootInv
  <2>5. dbRoot \in 0..MaxRoots /\ 0 <= lastRoot
    BY DEF TypeOK
  <2> QED
    BY <1>n12, <2>1, <2>3, <2>4, <2>5, SwitchFacts DEF RootInv, remote, history
<1>n13. CASE sendDataReadOnly
  BY <1>n13 DEF sendDataReadOnly
<1>n14. CASE sendDataBuild
  <2>1. /\ built'[storingDataIndex] /\ senderPc = "send"
        /\ dbStateRootKey \in unsent'[storingDataIndex]
             <=> nodesStateRoot[storingDataIndex] # 0
        /\ UNCHANGED <<accepted, intray, nodesStateRoot, indexes, senderPc, remote,
                       history>>
    BY <1>n14, ConstantsAssumption DEF TypeOK, sendDataBuild, Keys
  <2> QED
    BY <2>1 DEF RootInv, TypeOK, indexes, remote, history
<1>n15. CASE \E q \in NextQuery(storingDataIndex) : sendDataQuery(q)
  <2> PICK q \in NextQuery(storingDataIndex) : sendDataQuery(q)
    BY <1>n15
  <2>1. /\ built[storingDataIndex] /\ senderPc = "send"
        /\ commit(q, nodesStateRoot[storingDataIndex])
        /\ unsent'[storingDataIndex] = unsent[storingDataIndex] \ q
        /\ UNCHANGED <<accepted, intray, nodesStateRoot, built, indexes, senderPc, history>>
    BY DEF TypeOK, sendDataQuery
  <2>2. /\ db \subseteq db'
        /\ \/ dbRoot' = dbRoot
           \/ /\ dbRoot' = nodesStateRoot[storingDataIndex]
              /\ nodesStateRoot[storingDataIndex] # 0
              /\ accepted[storingDataIndex] \subseteq db'
        /\ dbStateRootKey \in q => dbRoot' = nodesStateRoot[storingDataIndex]
    BY <2>1, CommitFacts
  <2>3. dbRoot <= dbRoot' /\ dbRoot' <= lastRoot
    BY <2>2 DEF RootInv, TypeOK
  <2>4. /\ nodesStateRoot[storingDataIndex] # 0 => dbRoot' <= nodesStateRoot[storingDataIndex]
        /\ nodesStateRoot[pendingToFlushDataIndex] # 0
             => dbRoot' <= nodesStateRoot[pendingToFlushDataIndex]
    BY <2>2 DEF RootInv, TypeOK
  <2>5. dbStateRootKey \notin unsent'[storingDataIndex]
          => nodesStateRoot[storingDataIndex] <= dbRoot'
    BY <2>1, <2>2, <2>3 DEF RootInv, TypeOK
  <2>6. treeBefore[dbRoot'] \subseteq db'
    BY <2>2 DEF RootInv
  <2>7. setRoot <= dbRoot => setRoot <= dbRoot'
    BY <2>2, <2>3 DEF TypeOK
  <2> QED
    BY <2>1, <2>2, <2>3, <2>4, <2>5, <2>6, <2>7 DEF RootInv, indexes, history
<1>n16. CASE sendDataDone
  <2>1. /\ built[storingDataIndex] /\ unsent[storingDataIndex] = {}
        /\ ~built'[storingDataIndex]
        /\ UNCHANGED <<accepted, intray, nodesStateRoot, indexes, remote, history>>
    BY <1>n16 DEF TypeOK, sendDataDone
  <2> QED
    BY <2>1 DEF RootInv, indexes, remote, history
<1>n17. CASE senderSynchronize
  BY <1>n17 DEF RootInv, IndexInv, senderSynchronize, buffers, remote, history
<1>n18. CASE \E q \in NextQuery(storingDataIndex) : sendDataFail(q)
  <2> PICK q \in NextQuery(storingDataIndex) : sendDataFail(q)
    BY <1>n18
  <2>1. /\ built[storingDataIndex] /\ senderPc = "send"
        /\ commit(q, nodesStateRoot[storingDataIndex]) \/ UNCHANGED remote
        /\ UNCHANGED <<buffers, indexes, history>>
    BY DEF sendDataFail
  <2>2. /\ db \subseteq db'
        /\ \/ dbRoot' = dbRoot
           \/ /\ dbRoot' = nodesStateRoot[storingDataIndex]
              /\ nodesStateRoot[storingDataIndex] # 0
              /\ accepted[storingDataIndex] \subseteq db'
    BY <2>1, CommitFacts
  <2>3. dbRoot <= dbRoot' /\ dbRoot' <= lastRoot
    BY <2>2 DEF RootInv, TypeOK
  <2>4. /\ nodesStateRoot[storingDataIndex] # 0 => dbRoot' <= nodesStateRoot[storingDataIndex]
        /\ nodesStateRoot[pendingToFlushDataIndex] # 0
             => dbRoot' <= nodesStateRoot[pendingToFlushDataIndex]
    BY <2>2 DEF RootInv, TypeOK
  <2>5. dbStateRootKey \notin unsent[storingDataIndex]
          => nodesStateRoot[storingDataIndex] <= dbRoot'
    BY <2>1, <2>2, <2>3 DEF RootInv, TypeOK
  <2>6. treeBefore[dbRoot'] \subseteq db'
    BY <2>2 DEF RootInv
  <2>7. setRoot <= dbRoot => setRoot <= dbRoot'
    BY <2>2, <2>3 DEF TypeOK
  <2> QED
    BY <2>1, <2>2, <2>3, <2>4, <2>5, <2>6, <2>7 DEF RootInv, buffers, indexes, history
<1>n19. CASE crash
  <2>1. /\ nodesStateRoot'[pendingToFlushDataIndex'] = 0
        /\ nodesStateRoot'[storingDataIndex'] = 0
        /\ ~built'[storingDataIndex'] /\ setRoot' = 0
        /\ UNCHANGED <<remote, lastRoot, treeBefore>>
    BY <1>n19 DEF crash, NoRoots, NoFlags, Buffer
  <2>2. 0 <= dbRoot /\ 0 <= lastRoot
    OBVIOUS
  <2> QED
    BY <2>1, <2>2 DEF RootInv, remote
<1>n20. CASE UNCHANGED vars
  BY <1>n20 DEF vars, RootInv, buffers, indexes, remote, history
<1> QED
  BY NextCases, <1>n1, <1>n2, <1>n3, <1>n4, <1>n5, <1>n6, <1>n7, <1>n8, <1>n9, <1>n10,
     <1>n11, <1>n12, <1>n13, <1>n14, <1>n15, <1>n16, <1>n17, <1>n18, <1>n19, <1>n20

\* The database never loses a key.
LEMMA DbGrows ==
    ASSUME [Next]_vars
    PROVE  db \subseteq db'
<1>1. CASE Next
  BY <1>1, NextCases DEF writeRemote, updateStateRoot, semiFlush, flush, flushReadOnly,
     readMultiWrite, readRemote, readReturn, getFlushData, senderResume, senderIdle,
     senderSwitch, sendDataReadOnly, sendDataBuild, sendDataQuery, sendDataDone,
     senderSynchronize, sendDataFail, crash, commit, remote
<1>2. CASE UNCHANGED vars
  BY <1>2 DEF vars, remote
<1> QED
  BY <1>1, <1>2

\* A program read that passed the buffers will find the program in the database.
LEMMA ReadNext ==
    ASSUME TypeOK, IndexInv, KeyInv, ReadInv, ~dbReadOnly, [Next]_vars
    PROVE  ReadInv'
<1>1. CASE \E r \in Readers, k \in Keys : readMultiWrite(r, k)
  <2> PICK r \in Readers, k \in Keys : readMultiWrite(r, k)
    BY <1>1
  <2>1. ASSUME k \in Programs, k \in written, ~find(k)
        PROVE  k \in db
    <3>1. k \notin Nodes
      BY <2>1, ConstantsAssumption
    <3>2. ~findProgram(k)
      BY <2>1, <3>1 DEF find
    <3> QED
      BY <2>1, <3>2 DEF findProgram, KeyInv
  <2>2. read'[r].pc = "found" \/ (read'[r].pc = "remote" /\ ~find(k))
    BY DEF readMultiWrite, TypeOK
  <2>3. read'[r].key = k /\ (read'[r].mine <=> k \in written)
    BY DEF readMultiWrite, TypeOK
  <2>4. \A t \in Readers : t # r => read'[t] = read[t]
    BY DEF readMultiWrite, TypeOK
  <2>5. db' = db
    BY DEF readMultiWrite, remote
  <2> QED
    BY <2>1, <2>2, <2>3, <2>4, <2>5 DEF ReadInv
<1>2. CASE \E r \in Readers : readRemote(r)
  <2> PICK r \in Readers : readRemote(r)
    BY <1>2
  <2>1. read[r] \in [pc : {"found", "remote", "notfound", "dberror"}, key : Keys,
                     mine : BOOLEAN, tries : 0..dbReadRetryCounter]
    BY DEF TypeOK, readRemote, ReadRecords, NoRead
  <2>2. \/ \E p \in {"found", "notfound", "dberror"} :
             /\ read' = [read EXCEPT ![r].pc = p]
             /\ p = "notfound" => read[r].key \notin db
        \/ read' = [read EXCEPT ![r].tries = @ - 1]
    BY DEF readRemote
  <2>3. /\ read'[r].key = read[r].key /\ read'[r].mine = read[r].mine
        /\ read'[r].pc = "notfound" => read[r].key \notin db
    <3>1. ASSUME NEW p \in {"found", "notfound", "dberror"},
                 read' = [read EXCEPT ![r].pc = p],
                 p = "notfound" => read[r].key \notin db
          PROVE  /\ read'[r].key = read[r].key /\ read'[r].mine = read[r].mine
                 /\ read'[r].pc = "notfound" => read[r].key \notin db
      BY <2>1, <3>1 DEF TypeOK
    <3>2. ASSUME read' = [read EXCEPT ![r].tries = @ - 1]
          PROVE  /\ read'[r].key = read[r].key /\ read'[r].mine = read[r].mine
                 /\ read'[r].pc = read[r].pc
      BY <2>1, <3>2 DEF TypeOK
    <3>3. read[r].pc = "remote"
      BY DEF readRemote
    <3> QED
      BY <2>2, <3>1, <3>2, <3>3
  <2>4. \A t \in Readers : t # r => read'[t] = read[t]
    BY <2>2 DEF TypeOK
  <2>5. db' = db /\ read[r].pc = "remote"
    BY DEF readRemote, remote
  <2> QED
    BY <2>3, <2>4, <2>5 DEF ReadInv
<1>3. CASE \E r \in Readers : readReturn(r)
  BY <1>3, DbGrows DEF readReturn, ReadInv, NoRead, TypeOK
<1>4. CASE crash
  BY <1>4 DEF crash, ReadInv, AllIdle, NoRead
<1>5. CASE UNCHANGED read
  BY <1>5, DbGrows DEF ReadInv
<1>6. \/ \E r \in Readers, k \in Keys : readMultiWrite(r, k)
      \/ \E r \in Readers : readRemote(r)
      \/ \E r \in Readers : readReturn(r)
      \/ crash
      \/ UNCHANGED read
  <2>1. CASE Next
    BY <2>1, NextCases DEF writeRemote, updateStateRoot, semiFlush, flush, flushReadOnly,
       getFlushData, senderResume, senderIdle, senderSwitch, sendDataReadOnly,
       sendDataBuild, sendDataQuery, sendDataDone, senderSynchronize, sendDataFail
  <2>2. CASE UNCHANGED vars
    BY <2>2 DEF vars
  <2> QED
    BY <2>1, <2>2
<1> QED
  BY <1>1, <1>2, <1>3, <1>4, <1>5, <1>6

\* getFlushData delivers the buffer that sendData has stored completely.
LEMMA DeliveredNext ==
    ASSUME TypeOK, IndexInv, KeyInv, delivered \subseteq db, ~dbReadOnly, [Next]_vars
    PROVE  delivered' \subseteq db'
<1>1. CASE getFlushData
  <2>1. accepted[synchronizingDataIndex] \subseteq db
    BY DEF IndexInv, KeyInv, Busy
  <2> QED
    BY <1>1, <2>1, DbGrows DEF getFlushData
<1>2. getFlushData \/ delivered' = delivered
  <2>1. CASE Next
    BY <2>1, NextCases DEF writeRemote, updateStateRoot, semiFlush, flush, flushReadOnly,
       readMultiWrite, readRemote, readReturn, senderResume, senderIdle, senderSwitch,
       sendDataReadOnly, sendDataBuild, sendDataQuery, sendDataDone, senderSynchronize,
       sendDataFail, crash, history
  <2>2. CASE UNCHANGED vars
    BY <2>2 DEF vars, history
  <2> QED
    BY <2>1, <2>2
<1> QED
  BY <1>1, <1>2, DbGrows

\* The whole inductive invariant holds in every reachable state.
THEOREM StoreCorrect == Spec => []StoreInv
<1>1. TypeOK /\ IndexInv /\ StoreInv /\ [Next]_vars => StoreInv'
  BY ConfigFixed, KeyNext, FlushNext, RootNext, ReadNext, DeliveredNext DEF StoreInv
<1> QED
  BY <1>1, StoreInit, TypeCorrect, IndexCorrect, PTL DEF Spec

-----------------------------------------------------------------------------
\* A flush that getFlushStatus reports as stored is in the database, with
\* every key and the root set before it.
THEOREM Durability == Spec => []FlushDurability
<1>1. TypeOK /\ StoreInv => FlushDurability
  <2> SUFFICES ASSUME TypeOK, StoreInv, ~dbReadOnly, NEW f \in 0..storedFlushId
               PROVE  promised[f] \subseteq db /\ promisedRoot[f] <= dbRoot
    BY DEF FlushDurability
  <2>1. f \in 0..lastFlushId /\ f <= storedFlushId
    BY NatFacts DEF StoreInv, FlushInv
  <2> QED
    BY <2>1 DEF StoreInv, FlushInv
<1> QED
  BY <1>1, TypeCorrect, StoreCorrect, PTL

\* The row never holds a root before the nodes of its tree that were written
\* before it, also after any crash.
THEOREM RootComesAfter == Spec => []RootAfterItsNodes
<1>1. StoreInv => RootAfterItsNodes
  BY DEF StoreInv, RootInv, RootAfterItsNodes
<1> QED
  BY <1>1, StoreCorrect, PTL

\* A program that was written is found by every later read.
THEOREM ProgramsReadable == Spec => []ProgramReadYourWrites
<1>1. StoreInv => ProgramReadYourWrites
  BY DEF StoreInv, ReadInv, ProgramReadYourWrites
<1> QED
  BY <1>1, StoreCorrect, PTL

\* A replica only receives data that is stored.
THEOREM ReplicaGetsStored == Spec => []DeliveredIsStored
<1>1. StoreInv => DeliveredIsStored
  BY DEF StoreInv, DeliveredIsStored
<1> QED
  BY <1>1, StoreCorrect, PTL

\* The state root in the database never returns to an older version.
THEOREM RootMonotonic == Spec => RootNeverGoesBack
<1>1. ASSUME TypeOK, IndexInv, StoreInv, [Next]_vars
      PROVE  dbRoot' >= dbRoot
  <2>0. dbRoot \in Nat
    BY <1>1, NatFacts
  <2>1. CASE \E q \in NextQuery(storingDataIndex) : sendDataQuery(q) \/ sendDataFail(q)
    <3> PICK q \in NextQuery(storingDataIndex) : sendDataQuery(q) \/ sendDataFail(q)
      BY <2>1
    <3>1. /\ built[storingDataIndex]
          /\ commit(q, nodesStateRoot[storingDataIndex]) \/ UNCHANGED remote
      BY DEF sendDataQuery, sendDataFail
    <3>2. KeyInv /\ RootInv
      BY <1>1, <3>1 DEF StoreInv, IndexInv
    <3>3. \/ dbRoot' = dbRoot
          \/ /\ dbRoot' = nodesStateRoot[storingDataIndex]
             /\ nodesStateRoot[storingDataIndex] # 0
      BY <1>1, <3>1, <3>2, CommitFacts
    <3>4. storingDataIndex \in Buffer
      BY <1>1 DEF TypeOK
    <3> QED
      BY <1>1, <2>0, <3>2, <3>3, <3>4, NatFacts DEF RootInv
  <2>2. CASE UNCHANGED dbRoot
    BY <2>0, <2>2
  <2>3. \/ \E q \in NextQuery(storingDataIndex) : sendDataQuery(q) \/ sendDataFail(q)
        \/ UNCHANGED dbRoot
    <3>1. CASE Next
      BY <3>1, NextCases DEF writeRemote, updateStateRoot, semiFlush, flush,
         flushReadOnly, readMultiWrite, readRemote, readReturn, getFlushData,
         senderResume, senderIdle, senderSwitch, sendDataReadOnly, sendDataBuild,
         sendDataDone, senderSynchronize, crash, remote
    <3>2. CASE UNCHANGED vars
      BY <3>2 DEF vars, remote
    <3> QED
      BY <1>1, <3>1, <3>2
  <2> QED
    BY <2>1, <2>2, <2>3
<1>2. TypeOK /\ IndexInv /\ StoreInv /\ [Next]_vars => [dbRoot' >= dbRoot]_vars
  BY <1>1
<1> QED
  BY <1>2, TypeCorrect, IndexCorrect, StoreCorrect, PTL DEF Spec, RootNeverGoesBack

\* While the process lives, what it reports as stored never shrinks.
THEOREM StoredMonotonic == Spec => StoredNeverGoesBack
<1>1. ASSUME TypeOK, IndexInv, StoreInv, [Next]_vars, ~dbReadOnly, crashes' = crashes
      PROVE  storedFlushId' >= storedFlushId
  <2> USE NatFacts
  <2>1. CASE senderIdle
    BY <1>1, <2>1 DEF StoreInv, FlushInv, senderIdle
  <2>2. CASE sendDataDone \/ senderSynchronize
    BY <1>1, <2>2 DEF StoreInv, FlushInv, Busy, sendDataDone, senderSynchronize
  <2>3. CASE UNCHANGED storedFlushId
    BY <1>1, <2>3
  <2>4. senderIdle \/ sendDataDone \/ senderSynchronize \/ UNCHANGED storedFlushId
    <3>0. crashes \in Nat
      BY <1>1, ConstantsAssumption DEF TypeOK
    <3>1. CASE Next
      BY <1>1, <3>0, <3>1, NextCases DEF writeRemote, updateStateRoot, semiFlush, flush,
         flushReadOnly, readMultiWrite, readRemote, readReturn, getFlushData,
         senderResume, senderSwitch, sendDataReadOnly, sendDataBuild, sendDataQuery,
         sendDataFail, crash, ids
    <3>2. CASE UNCHANGED vars
      BY <3>2 DEF vars, ids
    <3> QED
      BY <1>1, <3>1, <3>2
  <2> QED
    BY <2>1, <2>2, <2>3, <2>4
<1>2. TypeOK /\ IndexInv /\ StoreInv /\ [Next]_vars
        => [~dbReadOnly /\ crashes' = crashes => storedFlushId' >= storedFlushId]_vars
  BY <1>1
<1> QED
  BY <1>2, TypeCorrect, IndexCorrect, StoreCorrect, PTL DEF Spec, StoredNeverGoesBack

-----------------------------------------------------------------------------
(* Refinement: MultiWrite implements FlushService.  What the three buffers, *)
(* the sender thread and its queries do is, for a client, one of the steps *)
(* of the service.                                                         *)

\* Every action leaves only keys that clients wrote in the buffers.
LEMMA OriginNext ==
    ASSUME TypeOK, OriginInv, [Next]_vars
    PROVE  OriginInv'
<1> USE ConstantsAssumption
<1>1. CASE \E k \in Keys : writeRemote(k)
  BY <1>1 DEF TypeOK, OriginInv, writeRemote
<1>2. CASE senderSwitch
  <2> DEFINE p == pendingToFlushDataIndex
             n == SuccMod3(p)
  <2>1. p \in Buffer /\ n \in Buffer
    BY SuccFacts DEF TypeOK
  <2>2. /\ accepted' = [[accepted EXCEPT ![p] = @ \cup intray[p]] EXCEPT ![n] = {}]
        /\ intray' = [[intray EXCEPT ![p] = {}] EXCEPT ![n] = {}]
        /\ unsent' = [unsent EXCEPT ![n] = {}]
        /\ written' = written
    BY <1>2 DEF senderSwitch, Reset, Merged, Cleared, history
  <2>3. ASSUME NEW b \in Buffer
        PROVE  /\ accepted'[b] \subseteq accepted[b] \cup intray[b]
               /\ intray'[b] \subseteq intray[b]
               /\ unsent'[b] \subseteq unsent[b]
    BY <2>1, <2>2 DEF TypeOK
  <2> QED
    BY <2>2, <2>3 DEF OriginInv
<1>3. CASE semiFlush \/ flush
  <2> DEFINE p == pendingToFlushDataIndex
  <2>1. /\ accepted' = [accepted EXCEPT ![p] = @ \cup intray[p]]
        /\ intray' = [intray EXCEPT ![p] = {}]
        /\ UNCHANGED <<unsent, written>>
    BY <1>3 DEF semiFlush, flush, acceptIntray, Merged, Cleared, history
  <2>2. p \in Buffer
    BY DEF TypeOK
  <2> QED
    BY <2>1, <2>2 DEF TypeOK, OriginInv
<1>4. CASE flushReadOnly
  <2> DEFINE p == pendingToFlushDataIndex
  <2>1. /\ accepted' = [accepted EXCEPT ![p] = {}]
        /\ intray' = [intray EXCEPT ![p] = {}]
        /\ unsent' = [unsent EXCEPT ![p] = {}]
        /\ written' = written
    BY <1>4 DEF flushReadOnly, Reset, history
  <2> QED
    BY <2>1 DEF TypeOK, OriginInv
<1>5. CASE sendDataBuild
  <2> DEFINE s == storingDataIndex
  <2>1. /\ UNCHANGED <<accepted, intray, written>>
        /\ unsent' = [unsent EXCEPT ![s] = accepted[s] \cup
                        (IF nodesStateRoot[s] # 0 THEN {dbStateRootKey} ELSE {})]
    BY <1>5 DEF sendDataBuild, history
  <2> QED
    BY <2>1 DEF TypeOK, OriginInv
<1>6. CASE \E q \in NextQuery(storingDataIndex) : sendDataQuery(q)
  <2> PICK q \in NextQuery(storingDataIndex) : sendDataQuery(q)
    BY <1>6
  <2>1. /\ UNCHANGED <<accepted, intray, written>>
        /\ unsent' = [unsent EXCEPT ![storingDataIndex] = @ \ q]
    BY DEF sendDataQuery, history
  <2> QED
    BY <2>1 DEF TypeOK, OriginInv
<1>7. CASE crash
  BY <1>7 DEF crash, NoKeys, OriginInv
<1>8. CASE UNCHANGED <<accepted, intray, unsent, written>>
  BY <1>8 DEF OriginInv
<1>9. CASE UNCHANGED vars
  BY <1>8, <1>9 DEF vars, buffers, history
<1>10. CASE \E T \in SUBSET Nodes : updateStateRoot(T)
  BY <1>8, <1>10 DEF updateStateRoot
<1>11. CASE \/ \E r \in Readers, k \in Keys : readMultiWrite(r, k)
            \/ \E r \in Readers : readRemote(r)
            \/ \E r \in Readers : readReturn(r)
            \/ getFlushData
  <2>1. UNCHANGED <<buffers, written>>
    BY <1>11 DEF readMultiWrite, readRemote, readReturn, getFlushData, history
  <2> QED
    BY <1>8, <2>1 DEF buffers
<1>12. CASE senderResume \/ senderIdle \/ sendDataReadOnly \/ sendDataDone \/ senderSynchronize
  <2>1. UNCHANGED <<accepted, intray, unsent, written>>
    BY <1>12 DEF senderResume, senderIdle, sendDataReadOnly, sendDataDone,
       senderSynchronize, buffers, history
  <2> QED
    BY <1>8, <2>1
<1>13. CASE \E q \in NextQuery(storingDataIndex) : sendDataFail(q)
  <2>1. UNCHANGED <<accepted, intray, unsent, written>>
    BY <1>13 DEF sendDataFail, buffers, history
  <2> QED
    BY <1>8, <2>1
<1> QED
  BY NextCases, <1>1, <1>2, <1>3, <1>4, <1>5, <1>6, <1>7, <1>9, <1>10, <1>11, <1>12, <1>13

\* Nothing is stored that no client wrote.
THEOREM OriginCorrect == Spec => []OriginInv
<1>1. Init => OriginInv
  BY DEF Init, NoKeys, OriginInv
<1> QED
  BY <1>1, OriginNext, TypeCorrect, PTL DEF Spec

\* No flush id is handed out by a process configured with dbReadOnly.
THEOREM ReadOnlyCorrect == Spec => []ReadOnlyInv
<1>1. Init => ReadOnlyInv
  BY ConstantsAssumption DEF Init, NoPromises, ReadOnlyInv
<1>2. ReadOnlyInv /\ [Next]_vars => ReadOnlyInv'
  <2> SUFFICES ASSUME ReadOnlyInv, [Next]_vars, dbReadOnly
               PROVE  /\ lastFlushId' = 0 /\ storedFlushId' = 0 /\ storingFlushId' = 0
                      /\ promised'[0] = {} /\ promisedRoot'[0] = 0
    BY ConfigFixed DEF ReadOnlyInv
  <2>0. /\ lastFlushId = 0 /\ storedFlushId = 0 /\ storingFlushId = 0
        /\ promised[0] = {} /\ promisedRoot[0] = 0
    BY DEF ReadOnlyInv
  <2>1. CASE Next
    <3>1. CASE crash
      BY <3>1, ConstantsAssumption DEF crash, NoPromises
    <3>2. CASE ~crash
      <4>1. /\ UNCHANGED <<lastFlushId, promised, promisedRoot>>
            /\ storedFlushId' \in {storedFlushId, lastFlushId, storingFlushId}
            /\ storingFlushId' \in {storingFlushId, lastFlushId}
        BY <2>1, <3>2, NextCases DEF writeRemote, updateStateRoot, semiFlush, flush,
           flushReadOnly, readMultiWrite, readRemote, readReturn, getFlushData,
           senderResume, senderIdle, senderSwitch, sendDataReadOnly, sendDataBuild,
           sendDataQuery, sendDataDone, senderSynchronize, sendDataFail, ids, history
      <4> QED
        BY <2>0, <4>1
    <3> QED
      BY <3>1, <3>2
  <2>2. CASE UNCHANGED vars
    BY <2>0, <2>2 DEF vars, ids, history
  <2> QED
    BY <2>1, <2>2
<1> QED
  BY <1>1, <1>2, PTL DEF Spec

-----------------------------------------------------------------------------
(* The steps of MultiWrite as steps of the service.                        *)

\* The keys and the root that a committed query stores were written, and the
\* root comes after the nodes set before it.
LEMMA QueryIsStore ==
    ASSUME TypeOK, IndexInv, StoreInv, OriginInv, TypeOK', StoreInv', ~dbReadOnly, ~dbReadOnly',
           built[storingDataIndex],
           NEW q \in NextQuery(storingDataIndex),
           \/ commit(q, nodesStateRoot[storingDataIndex])
           \/ UNCHANGED remote,
           UNCHANGED <<written, setRoot, ids, promised, promisedRoot, lastRoot, treeBefore>>
    PROVE  Service!Store
<1> USE NatFacts
<1>1. KeyInv /\ RootInv /\ RootInv'
  BY DEF StoreInv
<1>2. storingDataIndex \in Buffer
  BY DEF TypeOK
<1>3. /\ db \subseteq db'
      /\ dbRoot' = dbRoot \/ (dbRoot' = nodesStateRoot[storingDataIndex] /\ dbRoot' # 0)
  BY <1>1, CommitFacts
<1>4. q \cap Keys \subseteq written
  BY <1>2, ConstantsAssumption DEF NextQuery, OriginInv, Keys
<1>5. db' \subseteq db \cup written
  BY <1>4 DEF commit, remote
<1>6. dbRoot \in Nat /\ lastRoot \in Nat /\ dbRoot' \in Nat
  BY ConstantsAssumption DEF TypeOK
<1>7. dbRoot <= dbRoot' /\ dbRoot' <= lastRoot
  BY <1>1, <1>3, <1>6 DEF RootInv
<1>8. treeBefore[dbRoot'] \subseteq db'
  BY <1>1 DEF RootInv
<1> QED
  BY <1>3, <1>5, <1>6, <1>7, <1>8 DEF Service!Store, Service!client, Service!issued,
     Service!roots, ids

\* An id is acknowledged once all that it covers is stored.
LEMMA StoredIsAcknowledge ==
    ASSUME TypeOK, TypeOK', StoreInv', ReadOnlyInv',
           dbReadOnly \/ storedFlushId' >= storedFlushId,
           ReadOnlyInv, dbReadOnly' = dbReadOnly,
           UNCHANGED <<written, setRoot, lastFlushId, promised, promisedRoot, remote,
                       lastRoot, treeBefore>>
    PROVE  Service!Acknowledge
<1>1. CASE dbReadOnly
  <2>1. /\ storedFlushId = 0 /\ lastFlushId = 0 /\ storedFlushId' = 0
        /\ promised[0] = {} /\ promisedRoot[0] = 0
    BY <1>1 DEF ReadOnlyInv
  <2>2. dbRoot \in Nat
    BY ConstantsAssumption DEF TypeOK
  <2> QED
    BY <2>1, <2>2 DEF Service!Acknowledge, Service!client, Service!issued,
       Service!durable, Service!roots, remote
<1>2. CASE ~dbReadOnly
  <2>1. FlushInv'
    BY <1>2 DEF StoreInv
  <2>2. storedFlushId \in Nat /\ storedFlushId' \in Nat /\ lastFlushId \in Nat
    BY ConstantsAssumption DEF TypeOK
  <2>3. storedFlushId' \in storedFlushId..lastFlushId /\ storedFlushId' \in 0..lastFlushId'
    BY <1>2, <2>1, <2>2 DEF FlushInv
  <2>4. promised'[storedFlushId'] \subseteq db' /\ promisedRoot'[storedFlushId'] <= dbRoot'
    BY <2>1, <2>2, <2>3 DEF FlushInv
  <2> QED
    BY <2>3, <2>4 DEF Service!Acknowledge, Service!client, Service!issued,
       Service!durable, Service!roots, remote
<1> QED
  BY <1>1, <1>2

\* Every step of MultiWrite is a step of the service, or changes nothing that
\* its clients see.
LEMMA ServiceStep ==
    ASSUME TypeOK, IndexInv, StoreInv, OriginInv, ReadOnlyInv,
           TypeOK', StoreInv', ReadOnlyInv',
           Next
    PROVE  Service!Next \/ UNCHANGED Service!vars
<1> DEFINE serviceVars == <<written, setRoot, lastFlushId, storedFlushId, promised,
                            promisedRoot, db, dbRoot, lastRoot, treeBefore>>
<1>c. dbReadOnly' = dbReadOnly
  BY ConfigFixed
<1>0. ASSUME UNCHANGED serviceVars
      PROVE  UNCHANGED Service!vars
  BY <1>0 DEF Service!vars, Service!client, Service!issued, Service!durable, Service!roots
<1>1. CASE \E k \in Keys : writeRemote(k)
  <2>1. Service!Write
    BY <1>1 DEF writeRemote, Service!Write, Service!issued, Service!durable,
       Service!roots, ids, remote
  <2> QED
    BY <2>1 DEF Service!Next
<1>2. CASE \E T \in SUBSET Nodes : updateStateRoot(T)
  <2>1. Service!SetRoot
    BY <1>2 DEF updateStateRoot, Service!SetRoot, Service!issued, Service!durable, ids, remote
  <2> QED
    BY <2>1 DEF Service!Next
<1>3. CASE flush
  <2>1. Service!Flush
    BY <1>3 DEF flush, Service!Flush, Service!client, Service!durable, Service!roots, remote
  <2> QED
    BY <2>1 DEF Service!Next
<1>4. CASE crash
  <2>1. Service!Restart
    BY <1>4 DEF crash, NoPromises, Service!Restart, Service!Fresh, Service!durable,
       Service!roots, remote
  <2> QED
    BY <2>1 DEF Service!Next
<1>5. CASE senderIdle \/ sendDataReadOnly \/ sendDataDone \/ senderSynchronize
  <2>1. UNCHANGED <<written, setRoot, lastFlushId, promised, promisedRoot, remote,
                    lastRoot, treeBefore>>
    BY <1>5 DEF senderIdle, sendDataReadOnly, sendDataDone, senderSynchronize, history
  <2>2. ASSUME ~dbReadOnly
        PROVE  storedFlushId' >= storedFlushId
    <3>1. FlushInv
      BY <2>2 DEF StoreInv
    <3>2. storedFlushId \in Nat /\ lastFlushId \in Nat /\ storingFlushId \in Nat
      BY ConstantsAssumption DEF TypeOK
    <3> QED
      BY <1>5, <2>2, <3>1, <3>2 DEF FlushInv, Busy, senderIdle, sendDataReadOnly,
         sendDataDone, senderSynchronize
  <2>3. Service!Acknowledge
    BY <1>c, <2>1, <2>2, StoredIsAcknowledge
  <2> QED
    BY <2>3 DEF Service!Next
<1>6. CASE \E q \in NextQuery(storingDataIndex) : sendDataQuery(q) \/ sendDataFail(q)
  <2> PICK q \in NextQuery(storingDataIndex) : sendDataQuery(q) \/ sendDataFail(q)
    BY <1>6
  <2>1. /\ built[storingDataIndex]
        /\ commit(q, nodesStateRoot[storingDataIndex]) \/ UNCHANGED remote
        /\ UNCHANGED <<written, setRoot, ids, promised, promisedRoot, lastRoot, treeBefore>>
    BY DEF sendDataQuery, sendDataFail, history
  <2>2. ~dbReadOnly /\ ~dbReadOnly'
    BY <1>c, <2>1 DEF IndexInv
  <2>3. Service!Store
    BY <2>1, <2>2, QueryIsStore
  <2> QED
    BY <2>3 DEF Service!Next
<1>7. CASE semiFlush \/ flushReadOnly \/ getFlushData
  <2>1. UNCHANGED serviceVars
    BY <1>7 DEF semiFlush, flushReadOnly, getFlushData, history, ids, remote
  <2> QED
    BY <1>0, <2>1
<1>8. CASE \/ \E r \in Readers, k \in Keys : readMultiWrite(r, k)
           \/ \E r \in Readers : readRemote(r)
           \/ \E r \in Readers : readReturn(r)
  <2>1. UNCHANGED <<history, ids, remote>>
    BY <1>8 DEF readMultiWrite, readRemote, readReturn
  <2> QED
    BY <1>0, <2>1 DEF history, ids, remote
<1>9. CASE senderResume \/ senderSwitch \/ sendDataBuild
  <2>1. UNCHANGED serviceVars
    BY <1>9 DEF senderResume, senderSwitch, sendDataBuild, history, ids, remote
  <2> QED
    BY <1>0, <2>1
<1> QED
  BY NextCases, <1>1, <1>2, <1>3, <1>4, <1>5, <1>6, <1>7, <1>8, <1>9

\* The database with its buffers, its sender thread, failing queries and
\* crashes implements the service its clients rely on: an id is acknowledged
\* only when all that was written before it is durable, and a restart loses
\* only what was not acknowledged.
THEOREM ServiceRefinement == Spec => ImplementsFlushService
<1>1. Init => Service!Init
  BY DEF Init, NoPromises, Service!Init, Service!Fresh
<1>2. ASSUME TypeOK, IndexInv, StoreInv, OriginInv, ReadOnlyInv,
             TypeOK', StoreInv', ReadOnlyInv', [Next]_vars
      PROVE  [Service!Next]_(Service!vars)
  <2>1. CASE Next
    BY <1>2, <2>1, ServiceStep
  <2>2. CASE UNCHANGED vars
    BY <2>2 DEF vars, ids, remote, history, Service!vars, Service!client,
       Service!issued, Service!durable, Service!roots
  <2> QED
    BY <1>2, <2>1, <2>2
<1> QED
  BY <1>1, <1>2, TypeCorrect, IndexCorrect, StoreCorrect, OriginCorrect,
     ReadOnlyCorrect, PTL DEF Spec, ImplementsFlushService, Service!Spec
=============================================================================
