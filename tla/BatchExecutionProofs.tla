------------------------ MODULE BatchExecutionProofs ------------------------
(***************************************************************************)
(* Proofs about BatchExecution, for every set of keys, values, programs    *)
(* and workloads: however calls nest and revert, what flush writes leads   *)
(* from the old root of the batch to the new one.                          *)
(***************************************************************************)
EXTENDS BatchExecution, SmtProofs, SequenceTheorems

-----------------------------------------------------------------------------
(* Sequences                                                               *)

\* t is the first n elements of s.
Begins(t, s, n) ==
    /\ Len(t) = n
    /\ \A i \in 1..n : t[i] = s[i]

\* t is the first n elements of s, and then x.
Then(t, s, n, x) ==
    /\ Len(t) = n + 1
    /\ \A i \in 1..n : t[i] = s[i]
    /\ t[n + 1] = x

LEMMA PrefixIs ==
    ASSUME NEW S, NEW s \in Seq(S), NEW n \in 0..Len(s)
    PROVE  SubSeq(s, 1, n) \in Seq(S) /\ Begins(SubSeq(s, 1, n), s, n)
<1>1. \A i \in 1..n : s[i] \in S
  BY LenProperties, ElementOfSeq
<1>2. /\ SubSeq(s, 1, n) \in Seq(S)
      /\ Len(SubSeq(s, 1, n)) = IF 1 <= n THEN n - 1 + 1 ELSE 0
      /\ \A i \in 1..n - 1 + 1 : SubSeq(s, 1, n)[i] = s[1 + i - 1]
  BY <1>1, SubSeqProperties
<1> QED
  BY <1>2, LenProperties DEF Begins

LEMMA AppendIs ==
    ASSUME NEW S, NEW s \in Seq(S), NEW x \in S
    PROVE  Append(s, x) \in Seq(S) /\ Then(Append(s, x), s, Len(s), x)
  BY AppendProperties, LenProperties DEF Then

LEMMA LastIs ==
    ASSUME NEW S, NEW s \in Seq(S), NEW x \in S, NEW n \in Nat, Len(s) = n + 1
    PROVE  /\ [s EXCEPT ![n + 1] = x] \in Seq(S)
           /\ Then([s EXCEPT ![n + 1] = x], s, n, x)
<1>1. n + 1 \in 1..Len(s) /\ \A i \in 1..n : i \in 1..Len(s) /\ i # n + 1
  OBVIOUS
<1> QED
  BY <1>1, ExceptSeq DEF Then

LEMMA GrowIs ==
    ASSUME NEW S, NEW s \in Seq(S), NEW e \in S, NEW n \in Nat
    PROVE  /\ GrowTo(s, n, e) \in Seq(S)
           /\ Len(GrowTo(s, n, e)) = IF n >= Len(s) THEN n + 1 ELSE Len(s)
           /\ \A i \in 1..Len(s) : GrowTo(s, n, e)[i] = s[i]
           /\ \A i \in Len(s) + 1..n + 1 : GrowTo(s, n, e)[i] = e
<1>1. Len(s) \in Nat
  BY LenProperties
<1> DEFINE m == IF n >= Len(s) THEN n + 1 - Len(s) ELSE 0
           t == [i \in 1..m |-> e]
<1>2. m \in Nat /\ 1..(n + 1 - Len(s)) = 1..m
  BY <1>1
<1>3. t \in Seq(S) /\ Len(t) = m /\ \A i \in 1..m : t[i] = e
  BY <1>2
<1>4. GrowTo(s, n, e) = s \o t
  BY <1>2 DEF GrowTo
<1> HIDE DEF t
<1>5. /\ s \o t \in Seq(S) /\ Len(s \o t) = Len(s) + m
      /\ \A i \in 1..Len(s) + m : (s \o t)[i] = IF i <= Len(s) THEN s[i] ELSE t[i - Len(s)]
  BY <1>3, ConcatProperties
<1>6. Len(GrowTo(s, n, e)) = IF n >= Len(s) THEN n + 1 ELSE Len(s)
  BY <1>1, <1>4, <1>5
<1>7. ASSUME NEW i \in 1..Len(s)
      PROVE  GrowTo(s, n, e)[i] = s[i]
  BY <1>1, <1>2, <1>4, <1>5
<1>8. ASSUME NEW i \in Len(s) + 1..n + 1
      PROVE  GrowTo(s, n, e)[i] = e
  <2>1. i \in 1..Len(s) + m /\ ~(i <= Len(s)) /\ i - Len(s) \in 1..m
    BY <1>1
  <2> QED
    BY <1>3, <1>4, <1>5, <2>1
<1> QED
  BY <1>4, <1>5, <1>6, <1>7, <1>8

\* The first element that passes a test, if there is one: Min of the set that
\* SelectInSeq builds.
LEMMA MinIs ==
    ASSUME NEW I \in SUBSET Nat, I # {}
    PROVE  Min(I) \in I /\ \A i \in I : Min(I) <= i
  BY SmallestNumber DEF Min

-----------------------------------------------------------------------------
(* The states of a batch                                                   *)

Contents == [Keys -> Values]
Trees == {Tree(c) : c \in Contents}
Roots == Trees \cup {NoRoot}
Saves == UNION {set(r, k, v).writes : r \in Trees, k \in Keys, v \in Values}

SubStates == [oldStateRoot : Trees, newStateRoot : Trees, previousSubState : Nat,
              key : Keys, value : Values]

TxStates == [oldStateRoot : Roots, newStateRoot : Roots, currentSubState : Nat,
             subState : Seq(SubStates), dbWritePrograms : SUBSET Programs]

BlockStates == [oldStateRoot : Roots, currentStateRoot : Roots, currentTx : Nat,
                txState : Seq(TxStates)]

BatchStates == [exists : {TRUE}, oldStateRoot : Roots,
                currentStateRoot : Roots \cup {TemporaryRoot}, currentBlock : Nat,
                blockState : Seq(BlockStates), dbWriteNodes : SUBSET Saves,
                dbWritePrograms : SUBSET Programs]

\* A transaction with nothing to flush.
Idle(ts) == ts.subState = <<>>

\* r is where the transaction or one of its sub-states began.
Left(ts, r) ==
    \/ r = ts.oldStateRoot
    \/ \E j \in 1..Len(ts.subState) : ts.subState[j].oldStateRoot = r

\* A set from the root r connects to the sub-states of the transaction.
Fits(ts, r) == Idle(ts) \/ r = ts.newStateRoot \/ Left(ts, r)

\* Sub-state i records a set and the one before it, its program has been
\* written, and if none of the earlier ones left the root it starts from then
\* the one before it leads there.
SubOK(ts, i) ==
    LET s == ts.subState
    IN  /\ s[i].newStateRoot = set(s[i].oldStateRoot, s[i].key, s[i].value).newRoot
        /\ s[i].previousSubState = IF i = 1 THEN 0 ELSE i - 2
        /\ s[i].value \in Programs => s[i].value \in ts.dbWritePrograms
        /\ \/ s[i].oldStateRoot = ts.oldStateRoot
           \/ \E j \in 1..i - 1 : s[j].oldStateRoot = s[i].oldStateRoot
           \/ i > 1 /\ s[i - 1].newStateRoot = s[i].oldStateRoot

\* The current sub-state is the last one, and the roots of the transaction are
\* those of its first and its last sub-state.
TxOK(ts) ==
    LET s == ts.subState
    IN  /\ ts.currentSubState = IF s = <<>> THEN 0 ELSE Len(s) - 1
        /\ s = <<>> => ts.oldStateRoot = ts.newStateRoot
        /\ s # <<>> => /\ ts.newStateRoot = s[Len(s)].newStateRoot
                       /\ ts.oldStateRoot = s[1].oldStateRoot
        /\ \A i \in 1..Len(s) : SubOK(ts, i)

\* The current transaction is the last one.
BlockOK(bs) ==
    /\ bs.currentTx = IF bs.txState = <<>> THEN 0 ELSE Len(bs.txState) - 1
    /\ \A j \in 1..Len(bs.txState) :
          /\ TxOK(bs.txState[j])
          /\ bs.oldStateRoot = NoRoot => Idle(bs.txState[j])

BlockIdle(bs) == \A j \in 1..Len(bs.txState) : Idle(bs.txState[j])

\* The current block is the last one; without an old root nothing has been set.
BatchOK(b) ==
    /\ b \in BatchStates
    /\ b.currentBlock = IF b.blockState = <<>> THEN 0 ELSE Len(b.blockState) - 1
    /\ \A i \in 1..Len(b.blockState) :
          /\ BlockOK(b.blockState[i])
          /\ b.oldStateRoot = NoRoot => BlockIdle(b.blockState[i])

LEMMA TreeIsNode ==
    ASSUME NEW c
    PROVE  Tree(c) = Zero \/ IsLeaf(Tree(c)) \/ IsIntermediate(Tree(c))
<1> DEFINE ks == {k \in Keys : c[k] # 0}
<1>1. Prefixed(ks, 0) /\ 0 \in 0..KeyBits
  BY KeyFacts DEF Prefixed
<1>2. ks = {} \/ (\E k \in Keys : ks = {k}) \/ Many(ks)
  BY NoneOneMany
<1>3. Tree(c) = Sub(c, 0, ks)
  BY DEF Tree, Sub
<1> HIDE DEF ks
<1> QED
  BY <1>1, <1>2, <1>3, SubtreeKinds

LEMMA NoRootIsNoTree ==
    NoRoot \notin Trees
<1>1. ASSUME NEW c, NoRoot = Tree(c)
      PROVE  FALSE
  BY <1>1, TreeIsNode DEF NoRoot, Zero, IsLeaf, IsIntermediate
<1> QED
  BY <1>1 DEF Trees

LEMMA SetIsTree ==
    ASSUME NEW r \in Trees, NEW k \in Keys, NEW v \in Values
    PROVE  /\ set(r, k, v).newRoot \in Trees
           /\ set(r, k, v).writes \subseteq Saves
<1>1. PICK c \in Contents : r = Tree(c)
  BY DEF Trees
<1>2. set(r, k, v).newRoot = Tree([c EXCEPT ![k] = v]) /\ [c EXCEPT ![k] = v] \in Contents
  BY <1>1, SetKeepsCanonical DEF Contents
<1> QED
  BY <1>2 DEF Trees, Saves

-----------------------------------------------------------------------------
(* One transaction                                                         *)

LEMMA TxFacts ==
    ASSUME NEW ts \in TxStates
    PROVE  /\ ts.subState \in Seq(SubStates) /\ Len(ts.subState) \in Nat
           /\ Idle(ts) <=> Len(ts.subState) = 0
           /\ \A i \in 1..Len(ts.subState) : ts.subState[i] \in SubStates
           /\ ts.oldStateRoot \in Roots /\ ts.newStateRoot \in Roots
           /\ ts.dbWritePrograms \subseteq Programs
<1>1. ts.subState \in Seq(SubStates)
  BY DEF TxStates
<1>2. Len(ts.subState) \in Nat /\ (ts.subState = <<>> <=> Len(ts.subState) = 0)
  BY <1>1, LenProperties, EmptySeq
<1>3. \A i \in 1..Len(ts.subState) : ts.subState[i] \in SubStates
  BY <1>1, ElementOfSeq
<1> QED
  BY <1>1, <1>2, <1>3 DEF TxStates, Idle

LEMMA SubFacts ==
    ASSUME NEW ss \in SubStates
    PROVE  /\ ss.oldStateRoot \in Trees /\ ss.newStateRoot \in Trees
           /\ ss.key \in Keys /\ ss.value \in Values /\ ss.previousSubState \in Nat
  BY DEF SubStates

\* t is ts cut back to the sub-states before number i, where the root r is
\* left for the first time.
CutBack(t, ts, r, i) ==
    /\ t.oldStateRoot = ts.oldStateRoot /\ t.newStateRoot = r
    /\ t.dbWritePrograms = ts.dbWritePrograms
    /\ t.currentSubState = i - 2
    /\ Begins(t.subState, ts.subState, i - 1)

LEMMA CutBackIsOK ==
    ASSUME NEW ts \in TxStates, TxOK(ts), NEW r, r # ts.oldStateRoot,
           NEW i \in 1..Len(ts.subState), ts.subState[i].oldStateRoot = r,
           \A j \in 1..i - 1 : ts.subState[j].oldStateRoot # r,
           NEW t \in TxStates, CutBack(t, ts, r, i)
    PROVE  TxOK(t) /\ ~Idle(t)
<1> DEFINE s == ts.subState
           q == t.subState
<1>1. Len(s) \in Nat /\ i \in Int
  BY TxFacts
<1>2. s # <<>> /\ s[1].oldStateRoot = ts.oldStateRoot /\ \A j \in 1..Len(s) : SubOK(ts, j)
  BY TxFacts DEF TxOK, Idle
<1>3. i # 1
  BY <1>2
<1>4. /\ i > 1 /\ i - 1 \in 1..Len(s) /\ 1 \in 1..i - 1 /\ i - 1 \in 1..i - 1
      /\ \A j \in 1..i - 1 : j \in 1..Len(s)
  BY <1>1, <1>3
<1>5. s[i - 1].newStateRoot = r
  BY <1>2, <1>3 DEF SubOK
<1>6. Len(q) = i - 1 /\ \A j \in 1..i - 1 : q[j] = s[j]
  BY DEF CutBack, Begins
<1>7. q # <<>> /\ ~Idle(t)
  BY <1>4, <1>6, TxFacts DEF Idle
<1>8. q[Len(q)].newStateRoot = t.newStateRoot /\ q[1].oldStateRoot = t.oldStateRoot
  BY <1>2, <1>4, <1>5, <1>6 DEF CutBack
<1>9. ASSUME NEW j \in 1..Len(q)
      PROVE  SubOK(t, j)
  <2>1. j \in 1..i - 1 /\ q[j] = s[j] /\ SubOK(ts, j) /\ j \in Int
    BY <1>2, <1>4, <1>6
  <2>2. /\ \A h \in 1..j - 1 : q[h] = s[h]
        /\ j > 1 => q[j - 1] = s[j - 1]
    <3>1. \A h \in 1..j - 1 : h \in 1..i - 1
      BY <1>1, <2>1
    <3>2. j > 1 => j - 1 \in 1..i - 1
      BY <1>1, <2>1
    <3> QED
      BY <1>6, <3>1, <3>2
  <2>3. t.oldStateRoot = ts.oldStateRoot /\ t.dbWritePrograms = ts.dbWritePrograms
    BY DEF CutBack
  <2> QED
    BY <2>1, <2>2, <2>3 DEF SubOK
<1>10. t.currentSubState = Len(q) - 1
  BY <1>1, <1>6 DEF CutBack
<1> QED
  BY <1>7, <1>8, <1>9, <1>10 DEF TxOK

\* finishTx keeps a transaction in order, and with the purge it ends at the
\* root if the transaction could go on from there.
FinishedTx(t, ts, r) ==
    /\ t \in TxStates /\ TxOK(t)
    /\ t.oldStateRoot = ts.oldStateRoot /\ t.dbWritePrograms = ts.dbWritePrograms
    /\ Idle(ts) => Idle(t)
    /\ ~Idle(t) /\ t.newStateRoot # r => t = ts
    /\ stateManagerPurge /\ ~Idle(ts) /\ Fits(ts, r) => t.newStateRoot = r
    /\ ~stateManagerPurge => t = ts

LEMMA FinishTxIsRight ==
    ASSUME NEW ts \in TxStates, TxOK(ts), NEW r \in Trees
    PROVE  FinishedTx(finishTxState(ts, r), ts, r)
<1> DEFINE s == ts.subState
           I == {j \in 1..Len(s) : s[j].oldStateRoot = r}
           i == IF I # {} THEN Min(I) ELSE 0
<1>0. PICK t : t = finishTxState(ts, r)
  OBVIOUS
<1>1. CASE ts.newStateRoot = r \/ ~stateManagerPurge
  <2>1. t = ts
    BY <1>0, <1>1 DEF finishTxState
  <2> QED
    BY <1>0, <1>1, <2>1 DEF FinishedTx
<1>2. CASE ts.newStateRoot # r /\ stateManagerPurge /\ ts.oldStateRoot = r
  <2>0. PICK q : q = <<>>
    OBVIOUS
  <2>1. t = [ts EXCEPT !.subState = q, !.newStateRoot = r, !.currentSubState = 0]
    BY <1>0, <1>2, <2>0 DEF finishTxState
  <2>2. q \in Seq(SubStates) /\ r \in Roots /\ 0 \in Nat
    BY <2>0, EmptySeq DEF Roots
  <2>3. /\ t \in TxStates /\ t.subState = q /\ t.newStateRoot = r /\ t.currentSubState = 0
        /\ t.oldStateRoot = ts.oldStateRoot /\ t.dbWritePrograms = ts.dbWritePrograms
    BY <2>1, <2>2 DEF TxStates
  <2>4. TxOK(t)
    <3>1. 1..Len(t.subState) = {}
      BY <2>0, <2>3, EmptySeq
    <3> QED
      BY <1>2, <2>0, <2>3, <3>1 DEF TxOK
  <2> QED
    BY <1>0, <1>2, <2>0, <2>3, <2>4 DEF FinishedTx, Idle
<1>3. CASE ts.newStateRoot # r /\ stateManagerPurge /\ ts.oldStateRoot # r
  <2>1. t = IF i = 0 THEN ts
            ELSE [ts EXCEPT !.newStateRoot = r, !.currentSubState = IF i = 1 THEN 0 ELSE i - 2,
                            !.subState = SubSeq(@, 1, i - 1)]
    BY <1>0, <1>3 DEF finishTxState, SelectInSeq
  <2>2. I \in SUBSET Nat /\ I \in SUBSET (1..Len(s)) /\ Len(s) \in Nat
    BY TxFacts
  <2>3. CASE I = {}
    <3>1. t = ts
      BY <2>1, <2>3
    <3>2. ~Idle(ts) => ~Fits(ts, r)
      BY <1>3, <2>3 DEF Fits, Left
    <3> QED
      BY <1>0, <1>3, <3>1, <3>2 DEF FinishedTx
  <2>4. CASE I # {}
    <3>1. i = Min(I) /\ Min(I) \in I /\ \A j \in I : Min(I) <= j
      BY <2>2, <2>4, MinIs
    <3> HIDE DEF i
    <3>2. i \in 1..Len(s) /\ s[i].oldStateRoot = r /\ i # 0
      BY <2>2, <3>1
    <3>3. \A j \in 1..i - 1 : s[j].oldStateRoot # r
      <4>1. \A j \in 1..i - 1 : j \in 1..Len(s) /\ ~(i <= j)
        BY <2>2, <3>2
      <4> QED
        BY <3>1, <4>1
    <3>4. PICK q : q = SubSeq(s, 1, i - 1)
      OBVIOUS
    <3>5. q \in Seq(SubStates) /\ Begins(q, s, i - 1)
      <4>1. i - 1 \in 0..Len(s) /\ s \in Seq(SubStates)
        BY <2>2, <3>2, TxFacts
      <4> QED
        BY <3>4, <4>1, PrefixIs
    <3>6. i # 1
      BY <1>3, <3>2, TxFacts DEF TxOK, Idle
    <3>7. t = [ts EXCEPT !.newStateRoot = r, !.currentSubState = i - 2, !.subState = q]
      BY <2>1, <3>2, <3>4, <3>6
    <3>8. r \in Roots /\ i - 2 \in Nat
      BY <2>2, <3>2, <3>6 DEF Roots
    <3>9. t \in TxStates /\ CutBack(t, ts, r, i)
      BY <3>5, <3>7, <3>8 DEF CutBack, TxStates
    <3>10. t.newStateRoot = r /\ t.oldStateRoot = ts.oldStateRoot /\ t.dbWritePrograms = ts.dbWritePrograms
      BY <3>9 DEF CutBack
    <3>11. TxOK(t) /\ ~Idle(t)
      BY <1>3, <3>2, <3>3, <3>9, CutBackIsOK
    <3>12. ~Idle(ts)
      BY <2>2, <3>2, TxFacts
    <3> QED
      BY <1>0, <1>3, <3>9, <3>10, <3>11, <3>12 DEF FinishedTx
  <2> QED
    BY <2>3, <2>4
<1> QED
  BY <1>1, <1>2, <1>3

\* The sub-state of a set, and the transaction once it has it.
SubStateOf(ts, old, k, v) ==
    [oldStateRoot |-> old, newStateRoot |-> set(old, k, v).newRoot,
     previousSubState |-> ts.currentSubState, key |-> k, value |-> v]

AddSub(ts, old, k, v) == setTxRoots(ts, SubStateOf(ts, old, k, v))

\* What a set does to its transaction.
AddedTx(t, ts, old, k, v) ==
    /\ t \in TxStates /\ TxOK(t) /\ ~Idle(t)
    /\ t.oldStateRoot = IF Idle(ts) THEN old ELSE ts.oldStateRoot
    /\ t.newStateRoot = set(old, k, v).newRoot
    /\ t.dbWritePrograms = ts.dbWritePrograms
    /\ Left(t, old)
    /\ \A r : ~Idle(ts) /\ Left(ts, r) => Left(t, r)

LEMMA AddSubIsRight ==
    ASSUME NEW ts \in TxStates, TxOK(ts), NEW old \in Trees, Fits(ts, old),
           NEW k \in Keys, NEW v \in Values, v \in Programs => v \in ts.dbWritePrograms
    PROVE  AddedTx(AddSub(ts, old, k, v), ts, old, k, v)
<1>0. PICK t, new, ss, s, q, n :
         /\ t = AddSub(ts, old, k, v) /\ new = set(old, k, v).newRoot
         /\ ss = SubStateOf(ts, old, k, v) /\ s = ts.subState /\ q = Append(s, ss)
         /\ n = Len(s)
  OBVIOUS
<1>1. new \in Trees /\ new \in Roots /\ old \in Roots
  BY <1>0, SetIsTree DEF Roots
<1>2. /\ ss \in SubStates /\ ss.oldStateRoot = old /\ ss.newStateRoot = new
      /\ ss.key = k /\ ss.value = v /\ ss.previousSubState = ts.currentSubState
  BY <1>0, <1>1 DEF SubStateOf, SubStates, TxStates
<1>3. s \in Seq(SubStates) /\ n \in Nat /\ (s = <<>> <=> n = 0) /\ (Idle(ts) <=> n = 0)
  BY <1>0, TxFacts DEF Idle
<1>4. q \in Seq(SubStates) /\ Then(q, s, n, ss)
  BY <1>0, <1>2, <1>3, AppendIs
<1>5. t = [ts EXCEPT !.oldStateRoot = IF n = 0 THEN old ELSE @, !.newStateRoot = new,
                     !.subState = q, !.currentSubState = n]
  BY <1>0, <1>2, <1>3 DEF AddSub, setTxRoots
<1>6. /\ t \in TxStates /\ t.subState = q /\ t.newStateRoot = new /\ t.currentSubState = n
      /\ t.oldStateRoot = (IF n = 0 THEN old ELSE ts.oldStateRoot)
      /\ t.dbWritePrograms = ts.dbWritePrograms
  BY <1>1, <1>3, <1>4, <1>5 DEF TxStates
<1>7. Len(q) = n + 1 /\ (\A i \in 1..n : q[i] = s[i]) /\ q[n + 1] = ss
  BY <1>4 DEF Then
<1>8. q # <<>> /\ ~Idle(t)
  BY <1>3, <1>4, <1>6, <1>7, EmptySeq DEF Idle
<1>9. n + 1 \in 1..n + 1 /\ 1 \in 1..n + 1 /\ n + 1 - 1 = n
  BY <1>3
<1>10. q[1].oldStateRoot = t.oldStateRoot
  <2>1. CASE n = 0
    BY <1>2, <1>6, <1>7, <2>1
  <2>2. CASE n # 0
    <3>1. 1 \in 1..n /\ s[1].oldStateRoot = ts.oldStateRoot
      BY <1>0, <1>3, <2>2 DEF TxOK
    <3> QED
      BY <1>6, <1>7, <2>2, <3>1
  <2> QED
    BY <2>1, <2>2
<1>11. ASSUME NEW i \in 1..n
       PROVE  SubOK(t, i)
  <2>1. SubOK(ts, i) /\ q[i] = s[i] /\ n # 0
    BY <1>0, <1>3, <1>7 DEF TxOK
  <2>2. (\A h \in 1..i - 1 : q[h] = s[h]) /\ (i > 1 => q[i - 1] = s[i - 1])
    <3>1. (\A h \in 1..i - 1 : h \in 1..n) /\ (i > 1 => i - 1 \in 1..n)
      BY <1>3
    <3> QED
      BY <1>7, <3>1
  <2> QED
    BY <1>0, <1>6, <2>1, <2>2 DEF SubOK
<1>12. SubOK(t, n + 1)
  <2>1. ss.previousSubState = IF n + 1 = 1 THEN 0 ELSE (n + 1) - 2
    BY <1>0, <1>2, <1>3 DEF TxOK
  <2>2. \/ old = t.oldStateRoot
        \/ \E j \in 1..n : q[j].oldStateRoot = old
        \/ n + 1 > 1 /\ q[n].newStateRoot = old
    <3>1. CASE Idle(ts)
      BY <1>3, <1>6, <3>1
    <3>2. CASE ~Idle(ts) /\ old = ts.newStateRoot
      <4>1. n # 0 /\ n \in 1..n /\ s[n].newStateRoot = ts.newStateRoot
        BY <1>0, <1>3, <3>2 DEF TxOK
      <4> QED
        BY <1>3, <1>7, <3>2, <4>1
    <3>3. CASE ~Idle(ts) /\ Left(ts, old)
      BY <1>0, <1>3, <1>6, <1>7, <3>3 DEF Left
    <3> QED
      BY <3>1, <3>2, <3>3 DEF Fits
  <2> QED
    BY <1>0, <1>2, <1>6, <1>7, <1>9, <2>1, <2>2 DEF SubOK
<1>13. \A i \in 1..n + 1 : SubOK(t, i)
  <2> TAKE i \in 1..n + 1
  <2>1. i \in 1..n \/ i = n + 1
    BY <1>3
  <2> QED
    BY <1>11, <1>12, <2>1
<1>14. TxOK(t)
  <2>1. t.currentSubState = Len(q) - 1
    BY <1>3, <1>6, <1>7
  <2> QED
    BY <1>2, <1>6, <1>7, <1>8, <1>10, <1>13, <2>1 DEF TxOK
<1>15. Left(t, old)
  BY <1>2, <1>6, <1>7, <1>9 DEF Left
<1>16. ASSUME NEW r, ~Idle(ts), Left(ts, r)
       PROVE  Left(t, r)
  <2>1. \A j \in 1..n : j \in 1..n + 1
    BY <1>3
  <2> QED
    BY <1>0, <1>3, <1>6, <1>7, <1>16, <2>1 DEF Left
<1> QED
  BY <1>0, <1>3, <1>6, <1>8, <1>14, <1>15, <1>16 DEF AddedTx

-----------------------------------------------------------------------------
(* Chains of roots                                                         *)

\* The transaction leads from the root r to the root r2.
TxLink(ts, r, r2) ==
    IF Idle(ts) THEN r = r2 /\ ts.oldStateRoot \in {NoRoot, r}
    ELSE ts.oldStateRoot = r /\ ts.newStateRoot = r2

\* f holds the roots between the transactions, from a on.
TxsChain(f, txs, a) ==
    /\ f[0] = a
    /\ \A j \in 1..Len(txs) : TxLink(txs[j], f[j - 1], f[j])

\* The block leads from r to r2, which are the same root if flush drops it.
BlockLink(bs, r, r2) ==
    /\ bs.oldStateRoot \in {NoRoot, r}
    /\ bs.currentStateRoot = bs.oldStateRoot => r = r2
    /\ \E f : TxsChain(f, bs.txState, r) /\ f[Len(bs.txState)] = r2

\* g holds the roots between the blocks, from a on.
BlocksChain(g, blocks, a) ==
    /\ g[0] = a
    /\ \A i \in 1..Len(blocks) : BlockLink(blocks[i], g[i - 1], g[i])

\* t is s, and then only elements e.
Padded(t, s, e) ==
    /\ Len(s) <= Len(t)
    /\ \A i \in 1..Len(s) : t[i] = s[i]
    /\ \A i \in Len(s) + 1..Len(t) : t[i] = e

LEMMA GrowPads ==
    ASSUME NEW S, NEW s \in Seq(S), NEW e \in S, NEW n \in Nat
    PROVE  GrowTo(s, n, e) \in Seq(S) /\ Padded(GrowTo(s, n, e), s, e)
<1>1. PICK t : t = GrowTo(s, n, e)
  OBVIOUS
<1>2. /\ t \in Seq(S)
      /\ Len(t) = IF n >= Len(s) THEN n + 1 ELSE Len(s)
      /\ \A i \in 1..Len(s) : t[i] = s[i]
      /\ \A i \in Len(s) + 1..n + 1 : t[i] = e
  BY <1>1, GrowIs
<1>3. Len(s) \in Nat
  BY LenProperties
<1>4. Len(s) <= Len(t) /\ \A i \in Len(s) + 1..Len(t) : i \in Len(s) + 1..n + 1
  BY <1>2, <1>3
<1> QED
  BY <1>1, <1>2, <1>4 DEF Padded

LEMMA EmptyTxFacts ==
    /\ EmptyTx \in TxStates /\ TxOK(EmptyTx) /\ Idle(EmptyTx)
    /\ EmptyTx.oldStateRoot = NoRoot /\ EmptyTx.newStateRoot = NoRoot
    /\ \A r : TxLink(EmptyTx, r, r)
<1>1. PICK e : e = <<>>
  OBVIOUS
<1>2. e \in Seq(SubStates) /\ Len(e) = 0
  BY <1>1, EmptySeq
<1>3. EmptyTx = [oldStateRoot |-> NoRoot, newStateRoot |-> NoRoot,
                 currentSubState |-> 0, subState |-> e, dbWritePrograms |-> {}]
  BY <1>1 DEF EmptyTx
<1>4. /\ EmptyTx \in TxStates /\ EmptyTx.subState = e /\ EmptyTx.currentSubState = 0
      /\ EmptyTx.oldStateRoot = NoRoot /\ EmptyTx.newStateRoot = NoRoot
  BY <1>2, <1>3 DEF TxStates, Roots
<1>5. 1..Len(EmptyTx.subState) = {}
  BY <1>2, <1>4
<1> QED
  BY <1>1, <1>4, <1>5 DEF TxOK, Idle, TxLink

LEMMA TxsPad ==
    ASSUME NEW s \in Seq(TxStates), NEW t \in Seq(TxStates), Padded(t, s, EmptyTx),
           NEW f, NEW a, TxsChain(f, s, a)
    PROVE  \E h : TxsChain(h, t, a) /\ h[Len(t)] = f[Len(s)]
<1> DEFINE n == Len(s)
           h == [i \in 0..Len(t) |-> IF i <= n THEN f[i] ELSE f[n]]
<1>1. n \in Nat /\ Len(t) \in Nat /\ n <= Len(t)
  BY LenProperties DEF Padded
<1>2. ASSUME NEW j \in 1..Len(t)
      PROVE  TxLink(t[j], h[j - 1], h[j])
  <2>1. j \in 0..Len(t) /\ j - 1 \in 0..Len(t)
    BY <1>1
  <2>2. CASE j <= n
    <3>1. j \in 1..n /\ j - 1 <= n
      BY <1>1, <2>2
    <3>2. h[j - 1] = f[j - 1] /\ h[j] = f[j]
      BY <2>1, <2>2, <3>1
    <3> QED
      BY <3>1, <3>2 DEF TxsChain, Padded
  <2>3. CASE ~(j <= n)
    <3>1. j \in n + 1..Len(t) /\ (j - 1 <= n => j - 1 = n)
      BY <1>1, <2>3
    <3>2. h[j - 1] = f[n] /\ h[j] = f[n]
      BY <2>1, <2>3, <3>1
    <3> QED
      BY <3>1, <3>2, EmptyTxFacts DEF Padded
  <2> QED
    BY <2>2, <2>3
<1>3. h[0] = a /\ h[Len(t)] = f[n]
  BY <1>1 DEF TxsChain
<1> QED
  BY <1>2, <1>3 DEF TxsChain

\* The chain goes on with x after the first n transactions.
LEMMA TxsThen ==
    ASSUME NEW s, NEW n \in Nat, n <= Len(s), Len(s) \in Nat, NEW x, NEW t, Then(t, s, n, x),
           NEW f, NEW a, TxsChain(f, s, a), NEW b, TxLink(x, f[n], b)
    PROVE  \E h : TxsChain(h, t, a) /\ h[Len(t)] = b
<1> DEFINE h == [i \in 0..n + 1 |-> IF i <= n THEN f[i] ELSE b]
<1>1. ASSUME NEW j \in 1..n + 1
      PROVE  TxLink(t[j], h[j - 1], h[j])
  <2>1. CASE j <= n
    <3>1. j \in 1..n /\ j - 1 \in 0..n + 1 /\ j - 1 <= n /\ j \in 0..n + 1 /\ j \in 1..Len(s)
      BY <2>1
    <3>2. h[j - 1] = f[j - 1] /\ h[j] = f[j]
      BY <2>1, <3>1
    <3> QED
      BY <3>1, <3>2 DEF TxsChain, Then
  <2>2. CASE j = n + 1
    <3>1. h[j - 1] = f[n] /\ h[j] = b
      BY <2>2
    <3> QED
      BY <2>2, <3>1 DEF Then
  <2> QED
    BY <2>1, <2>2
<1>2. h[0] = a /\ h[n + 1] = b
  BY DEF TxsChain
<1> QED
  BY <1>1, <1>2 DEF TxsChain, Then

\* The same for blocks.
LEMMA EmptyBlockFacts ==
    /\ EmptyBlock \in BlockStates /\ BlockOK(EmptyBlock) /\ BlockIdle(EmptyBlock)
    /\ EmptyBlock.oldStateRoot = NoRoot /\ EmptyBlock.currentStateRoot = NoRoot
    /\ EmptyBlock.txState = <<>>
    /\ \A r : BlockLink(EmptyBlock, r, r)
<1>1. PICK e : e = <<>>
  OBVIOUS
<1>2. e \in Seq(TxStates) /\ Len(e) = 0
  BY <1>1, EmptySeq
<1>3. EmptyBlock = [oldStateRoot |-> NoRoot, currentStateRoot |-> NoRoot,
                    currentTx |-> 0, txState |-> e]
  BY <1>1 DEF EmptyBlock
<1>4. /\ EmptyBlock \in BlockStates /\ EmptyBlock.txState = e /\ EmptyBlock.currentTx = 0
      /\ EmptyBlock.oldStateRoot = NoRoot /\ EmptyBlock.currentStateRoot = NoRoot
  BY <1>2, <1>3 DEF BlockStates, Roots
<1>5. 1..Len(EmptyBlock.txState) = {} /\ Len(EmptyBlock.txState) = 0
  BY <1>2, <1>4
<1>6. ASSUME NEW r
      PROVE  BlockLink(EmptyBlock, r, r)
  <2> DEFINE f == [i \in {0} |-> r]
  <2>1. f[0] = r
    OBVIOUS
  <2>2. TxsChain(f, EmptyBlock.txState, r)
    BY <1>5, <2>1 DEF TxsChain
  <2> QED
    BY <1>4, <1>5, <2>1, <2>2 DEF BlockLink
<1> QED
  BY <1>1, <1>4, <1>5, <1>6 DEF BlockOK, BlockIdle

LEMMA BlocksPad ==
    ASSUME NEW s \in Seq(BlockStates), NEW t \in Seq(BlockStates), Padded(t, s, EmptyBlock),
           NEW g, NEW a, BlocksChain(g, s, a)
    PROVE  \E h : BlocksChain(h, t, a) /\ h[Len(t)] = g[Len(s)]
<1> DEFINE n == Len(s)
           h == [i \in 0..Len(t) |-> IF i <= n THEN g[i] ELSE g[n]]
<1>1. n \in Nat /\ Len(t) \in Nat /\ n <= Len(t)
  BY LenProperties DEF Padded
<1>2. ASSUME NEW j \in 1..Len(t)
      PROVE  BlockLink(t[j], h[j - 1], h[j])
  <2>1. j \in 0..Len(t) /\ j - 1 \in 0..Len(t)
    BY <1>1
  <2>2. CASE j <= n
    <3>1. j \in 1..n /\ j - 1 <= n
      BY <1>1, <2>2
    <3>2. h[j - 1] = g[j - 1] /\ h[j] = g[j]
      BY <2>1, <2>2, <3>1
    <3> QED
      BY <3>1, <3>2 DEF BlocksChain, Padded
  <2>3. CASE ~(j <= n)
    <3>1. j \in n + 1..Len(t) /\ (j - 1 <= n => j - 1 = n)
      BY <1>1, <2>3
    <3>2. h[j - 1] = g[n] /\ h[j] = g[n]
      BY <2>1, <2>3, <3>1
    <3> QED
      BY <3>1, <3>2, EmptyBlockFacts DEF Padded
  <2> QED
    BY <2>2, <2>3
<1>3. h[0] = a /\ h[Len(t)] = g[n]
  BY <1>1 DEF BlocksChain
<1> QED
  BY <1>2, <1>3 DEF BlocksChain

LEMMA BlocksThen ==
    ASSUME NEW s, NEW n \in Nat, n <= Len(s), Len(s) \in Nat, NEW x, NEW t, Then(t, s, n, x),
           NEW g, NEW a, BlocksChain(g, s, a), NEW b, BlockLink(x, g[n], b)
    PROVE  \E h : BlocksChain(h, t, a) /\ h[Len(t)] = b /\ h[n] = g[n]
<1> DEFINE h == [i \in 0..n + 1 |-> IF i <= n THEN g[i] ELSE b]
<1>1. ASSUME NEW j \in 1..n + 1
      PROVE  BlockLink(t[j], h[j - 1], h[j])
  <2>1. CASE j <= n
    <3>1. j \in 1..n /\ j - 1 \in 0..n + 1 /\ j - 1 <= n /\ j \in 0..n + 1 /\ j \in 1..Len(s)
      BY <2>1
    <3>2. h[j - 1] = g[j - 1] /\ h[j] = g[j]
      BY <2>1, <3>1
    <3> QED
      BY <3>1, <3>2 DEF BlocksChain, Then
  <2>2. CASE j = n + 1
    <3>1. h[j - 1] = g[n] /\ h[j] = b
      BY <2>2
    <3> QED
      BY <2>2, <3>1 DEF Then
  <2> QED
    BY <2>1, <2>2
<1>2. h[0] = a /\ h[n + 1] = b /\ h[n] = g[n]
  BY DEF BlocksChain
<1> QED
  BY <1>1, <1>2 DEF BlocksChain, Then

-----------------------------------------------------------------------------
(* The slot of a set: block nb, transaction nt                             *)

LEMMA BlockFacts ==
    ASSUME NEW bs \in BlockStates
    PROVE  /\ bs.txState \in Seq(TxStates) /\ Len(bs.txState) \in Nat
           /\ bs.txState = <<>> <=> Len(bs.txState) = 0
           /\ \A j \in 1..Len(bs.txState) : bs.txState[j] \in TxStates
           /\ bs.oldStateRoot \in Roots /\ bs.currentStateRoot \in Roots
<1>1. bs.txState \in Seq(TxStates)
  BY DEF BlockStates
<1>2. Len(bs.txState) \in Nat /\ (bs.txState = <<>> <=> Len(bs.txState) = 0)
  BY <1>1, LenProperties, EmptySeq
<1>3. \A j \in 1..Len(bs.txState) : bs.txState[j] \in TxStates
  BY <1>1, ElementOfSeq
<1> QED
  BY <1>1, <1>2, <1>3 DEF BlockStates

LEMMA BatchFacts ==
    ASSUME NEW b \in BatchStates
    PROVE  /\ b.exists = TRUE
           /\ b.blockState \in Seq(BlockStates) /\ Len(b.blockState) \in Nat
           /\ b.blockState = <<>> <=> Len(b.blockState) = 0
           /\ \A i \in 1..Len(b.blockState) : b.blockState[i] \in BlockStates
           /\ b.oldStateRoot \in Roots /\ b.dbWriteNodes \subseteq Saves
<1>1. b.blockState \in Seq(BlockStates)
  BY DEF BatchStates
<1>2. Len(b.blockState) \in Nat /\ (b.blockState = <<>> <=> Len(b.blockState) = 0)
  BY <1>1, LenProperties, EmptySeq
<1>3. \A i \in 1..Len(b.blockState) : b.blockState[i] \in BlockStates
  BY <1>1, ElementOfSeq
<1> QED
  BY <1>1, <1>2, <1>3 DEF BatchStates

\* Nothing comes after the slot.
Reaches(blocks, nb, nt) ==
    /\ Len(blocks) <= nb + 1
    /\ Len(blocks) = nb + 1 => Len(blocks[nb + 1].txState) <= nt + 1

\* y is the block x with room for transaction nt.
RoomInBlock(y, x, nt) ==
    /\ y \in BlockStates
    /\ y.oldStateRoot = x.oldStateRoot /\ y.currentStateRoot = x.currentStateRoot
    /\ y.currentTx = nt
    /\ Len(y.txState) = nt + 1 /\ Padded(y.txState, x.txState, EmptyTx)

\* r is the batch b with room for transaction nt of block nb; mid is what b
\* has up to that block.
RoomInBatch(r, b, mid, nb, nt) ==
    /\ r \in BatchStates
    /\ r.oldStateRoot = b.oldStateRoot
    /\ r.dbWriteNodes = b.dbWriteNodes /\ r.dbWritePrograms = b.dbWritePrograms
    /\ r.currentBlock = nb
    /\ mid \in Seq(BlockStates) /\ Len(mid) = nb + 1 /\ Padded(mid, b.blockState, EmptyBlock)
    /\ Then(r.blockState, mid, nb, r.blockState[nb + 1])
    /\ RoomInBlock(r.blockState[nb + 1], mid[nb + 1], nt)

LEMMA PaddedIn ==
    ASSUME NEW t, NEW s, NEW e, Padded(t, s, e), Len(s) \in Nat, Len(t) \in Nat, NEW i \in 1..Len(t)
    PROVE  IF i <= Len(s) THEN i \in 1..Len(s) /\ t[i] = s[i] ELSE t[i] = e
<1>1. IF i <= Len(s) THEN i \in 1..Len(s) ELSE i \in Len(s) + 1..Len(t)
  OBVIOUS
<1> QED
  BY <1>1 DEF Padded

LEMMA ReserveIs ==
    ASSUME NEW b, BatchOK(b), NEW nb \in Nat, NEW nt \in Nat, Reaches(b.blockState, nb, nt)
    PROVE  \E mid : RoomInBatch(Reserve(b, nb, nt), b, mid, nb, nt)
<1>0. /\ b \in BatchStates
      /\ b.currentBlock = IF b.blockState = <<>> THEN 0 ELSE Len(b.blockState) - 1
      /\ \A i \in 1..Len(b.blockState) : BlockOK(b.blockState[i])
  BY DEF BatchOK
<1>1. PICK s, n, mid, cur : /\ s = b.blockState /\ n = Len(s) /\ mid = GrowTo(s, nb, EmptyBlock)
                            /\ cur = IF nb >= n THEN nb ELSE b.currentBlock
  OBVIOUS
<1>2. /\ s \in Seq(BlockStates) /\ n \in Nat /\ (s = <<>> <=> n = 0)
      /\ \A i \in 1..n : s[i] \in BlockStates
  BY <1>0, <1>1, BatchFacts
<1>3. n <= nb + 1
  BY <1>1 DEF Reaches
<1>4. mid \in Seq(BlockStates) /\ Padded(mid, s, EmptyBlock) /\ Len(mid) = nb + 1
  <2>1. Len(mid) = IF nb >= n THEN nb + 1 ELSE n
    BY <1>1, <1>2, EmptyBlockFacts, GrowIs
  <2>2. mid \in Seq(BlockStates) /\ Padded(mid, s, EmptyBlock)
    BY <1>1, <1>2, EmptyBlockFacts, GrowPads
  <2>3. Len(mid) = nb + 1
    BY <1>2, <1>3, <2>1
  <2> QED
    BY <2>2, <2>3
<1>5. cur = nb
  BY <1>0, <1>1, <1>2, <1>3
<1>6. PICK m : m = [b EXCEPT !.blockState = mid, !.currentBlock = cur]
  OBVIOUS
<1>7. /\ m \in BatchStates /\ m.blockState = mid /\ m.currentBlock = nb
      /\ m.oldStateRoot = b.oldStateRoot
      /\ m.dbWriteNodes = b.dbWriteNodes /\ m.dbWritePrograms = b.dbWritePrograms
  BY <1>0, <1>4, <1>5, <1>6 DEF BatchStates
<1>8. PICK x, tt : x = mid[nb + 1] /\ tt = GrowTo(x.txState, nt, EmptyTx)
  OBVIOUS
<1>9. nb + 1 \in 1..Len(mid) /\ x \in BlockStates
  BY <1>4, <1>8, ElementOfSeq
<1>10. /\ Len(x.txState) <= nt + 1
       /\ x.currentTx = IF x.txState = <<>> THEN 0 ELSE Len(x.txState) - 1
  <2>1. CASE n = nb + 1
    <3>1. nb + 1 \in 1..n /\ x = s[nb + 1]
      BY <1>4, <1>1, <1>8, <2>1 DEF Padded
    <3> QED
      BY <1>0, <1>1, <2>1, <3>1 DEF Reaches, BlockOK
  <2>2. CASE n # nb + 1
    <3>1. x = EmptyBlock
      <4>1. nb + 1 \in n + 1..Len(mid)
        BY <1>2, <1>3, <1>4, <2>2
      <4> QED
        BY <1>1, <1>4, <1>8, <4>1 DEF Padded
    <3>2. Len(x.txState) = 0
      BY <3>1, EmptyBlockFacts, EmptySeq
    <3> QED
      BY <3>1, <3>2, EmptyBlockFacts DEF BlockOK
  <2> QED
    BY <2>1, <2>2
<1>11. x.txState \in Seq(TxStates) /\ Len(x.txState) \in Nat /\ (x.txState = <<>> <=> Len(x.txState) = 0)
  BY <1>9, BlockFacts
<1>12. tt \in Seq(TxStates) /\ Padded(tt, x.txState, EmptyTx) /\ Len(tt) = nt + 1
  <2>1. Len(tt) = IF nt >= Len(x.txState) THEN nt + 1 ELSE Len(x.txState)
    BY <1>8, <1>11, EmptyTxFacts, GrowIs
  <2> QED
    BY <1>8, <1>10, <1>11, <2>1, EmptyTxFacts, GrowPads
<1>13. PICK ct : ct = IF nt >= Len(x.txState) THEN nt ELSE x.currentTx
  OBVIOUS
<1>14. ct = nt
  BY <1>10, <1>11, <1>13
<1>15. PICK y : y = [x EXCEPT !.txState = tt, !.currentTx = ct]
  OBVIOUS
<1>16. RoomInBlock(y, x, nt)
  BY <1>9, <1>12, <1>14, <1>15 DEF RoomInBlock, BlockStates
<1>17. PICK r : r = Reserve(b, nb, nt)
  OBVIOUS
<1>18. r = [m EXCEPT !.blockState[nb + 1] = ReserveTx(@, nt)]
  BY <1>1, <1>6, <1>17 DEF Reserve
<1>19. r = [m EXCEPT !.blockState = [mid EXCEPT ![nb + 1] = y]]
  <2>1. y = ReserveTx(x, nt)
    BY <1>8, <1>13, <1>15 DEF ReserveTx
  <2>2. m.blockState[nb + 1] = x
    BY <1>7, <1>8
  <2>3. r = [m EXCEPT !.blockState[nb + 1] = y]
    BY <1>18, <2>1, <2>2
  <2> QED
    BY <1>7, <2>3
<1>20. PICK z : z = [mid EXCEPT ![nb + 1] = y]
  OBVIOUS
<1>21. z \in Seq(BlockStates) /\ Then(z, mid, nb, y)
  BY <1>4, <1>16, <1>20, LastIs DEF RoomInBlock
<1>22. /\ r \in BatchStates /\ r.blockState = z /\ r.currentBlock = nb
       /\ r.oldStateRoot = b.oldStateRoot
       /\ r.dbWriteNodes = b.dbWriteNodes /\ r.dbWritePrograms = b.dbWritePrograms
  BY <1>7, <1>19, <1>20, <1>21 DEF BatchStates
<1>23. z[nb + 1] = y
  BY <1>21 DEF Then
<1> QED
  BY <1>1, <1>4, <1>8, <1>16, <1>17, <1>21, <1>22, <1>23 DEF RoomInBatch

\* A chain of transactions, or of blocks, with nothing to flush stays where it is.
LEMMA IdleTxs ==
    ASSUME NEW txs, Len(txs) \in Nat, NEW f, NEW a, TxsChain(f, txs, a),
           \A j \in 1..Len(txs) : Idle(txs[j])
    PROVE  f[Len(txs)] = a
<1> DEFINE U == {j \in 0..Len(txs) : f[j] # a}
<1>1. 0 \notin U
  BY DEF TxsChain
<1>2. ASSUME NEW j \in 0..Len(txs), 0 < j, j - 1 \notin U
      PROVE  j \notin U
  <2>1. j \in 1..Len(txs) /\ j - 1 \in 0..Len(txs)
    BY <1>2
  <2>2. f[j - 1] = f[j]
    BY <2>1 DEF TxsChain, TxLink
  <2> QED
    BY <1>2, <2>1, <2>2
<1>3. U \in SUBSET (0..Len(txs)) /\ 0 \in Int /\ Len(txs) \in Int
  OBVIOUS
<1> HIDE DEF U
<1>4. U = {}
  BY <1>1, <1>2, <1>3, UpFrom
<1>5. Len(txs) \in 0..Len(txs)
  OBVIOUS
<1> QED
  BY <1>4, <1>5 DEF U

LEMMA IdleBlocks ==
    ASSUME NEW blocks, Len(blocks) \in Nat, NEW g, NEW a, BlocksChain(g, blocks, a),
           \A i \in 1..Len(blocks) : Len(blocks[i].txState) \in Nat /\ BlockIdle(blocks[i])
    PROVE  g[Len(blocks)] = a
<1> DEFINE U == {i \in 0..Len(blocks) : g[i] # a}
<1>1. 0 \notin U
  BY DEF BlocksChain
<1>2. ASSUME NEW i \in 0..Len(blocks), 0 < i, i - 1 \notin U
      PROVE  i \notin U
  <2>1. i \in 1..Len(blocks) /\ i - 1 \in 0..Len(blocks)
    BY <1>2
  <2>2. g[i - 1] = g[i]
    <3>1. PICK f : TxsChain(f, blocks[i].txState, g[i - 1]) /\ f[Len(blocks[i].txState)] = g[i]
      BY <2>1 DEF BlocksChain, BlockLink
    <3>2. \A j \in 1..Len(blocks[i].txState) : Idle(blocks[i].txState[j])
      BY <2>1 DEF BlockIdle
    <3> QED
      BY <2>1, <3>1, <3>2, IdleTxs
  <2> QED
    BY <1>2, <2>1, <2>2
<1>3. U \in SUBSET (0..Len(blocks)) /\ 0 \in Int /\ Len(blocks) \in Int
  OBVIOUS
<1> HIDE DEF U
<1>4. U = {}
  BY <1>1, <1>2, <1>3, UpFrom
<1>5. Len(blocks) \in 0..Len(blocks)
  OBVIOUS
<1> QED
  BY <1>4, <1>5 DEF U

\* The transaction of the slot, an empty one if it is not there yet; and the
\* block of the slot.
SlotOf(blocks, nb, nt) ==
    IF nb < Len(blocks) /\ nt < Len(blocks[nb + 1].txState)
    THEN blocks[nb + 1].txState[nt + 1] ELSE EmptyTx

BlockOf(blocks, nb) == IF nb < Len(blocks) THEN blocks[nb + 1] ELSE EmptyBlock

\* The slot is the last one: it is there, and nothing comes after it.
IsLastSlot(blocks, nb, nt) ==
    /\ Len(blocks) = nb + 1
    /\ Len(blocks[nb + 1].txState) = nt + 1

LEMMA RoomFacts ==
    ASSUME NEW b, BatchOK(b), NEW nb \in Nat, NEW nt \in Nat, Reaches(b.blockState, nb, nt),
           NEW r, NEW mid, RoomInBatch(r, b, mid, nb, nt)
    PROVE  /\ BatchOK(r) /\ IsLastSlot(r.blockState, nb, nt)
           /\ SlotOf(r.blockState, nb, nt) = SlotOf(b.blockState, nb, nt)
           /\ BlockOf(r.blockState, nb).oldStateRoot = BlockOf(b.blockState, nb).oldStateRoot
           /\ BlockOf(r.blockState, nb).currentStateRoot = BlockOf(b.blockState, nb).currentStateRoot
           /\ \A g, a : BlocksChain(g, b.blockState, a) =>
                 \E h : BlocksChain(h, r.blockState, a) /\ h[nb + 1] = g[Len(b.blockState)]
<1>1. PICK s, z, x, y : s = b.blockState /\ z = r.blockState /\ x = mid[nb + 1] /\ y = z[nb + 1]
  OBVIOUS
<1>2. /\ b \in BatchStates /\ r \in BatchStates
      /\ s \in Seq(BlockStates) /\ Len(s) \in Nat
      /\ mid \in Seq(BlockStates) /\ Len(mid) = nb + 1 /\ Padded(mid, s, EmptyBlock)
      /\ Len(z) = nb + 1 /\ (\A i \in 1..nb : z[i] = mid[i]) /\ RoomInBlock(y, x, nt)
      /\ Then(z, mid, nb, y)
      /\ z \in Seq(BlockStates)
  BY <1>1, BatchFacts DEF BatchOK, RoomInBatch, Then
<1>3. Len(s) <= nb + 1
  BY <1>1 DEF Reaches
<1>4. x = BlockOf(s, nb)
  <2>1. nb + 1 \in 1..Len(mid)
    BY <1>2
  <2> QED
    BY <1>1, <1>2, <1>3, <2>1, PaddedIn DEF BlockOf
<1>5. x \in BlockStates /\ x.txState \in Seq(TxStates) /\ Len(x.txState) \in Nat
  <2>1. nb + 1 \in 1..Len(mid)
    BY <1>2
  <2> QED
    BY <1>1, <1>2, <2>1, ElementOfSeq, BlockFacts
<1>6. /\ y \in BlockStates /\ y.oldStateRoot = x.oldStateRoot /\ y.currentStateRoot = x.currentStateRoot
      /\ y.currentTx = nt /\ Len(y.txState) = nt + 1 /\ Padded(y.txState, x.txState, EmptyTx)
      /\ y.txState \in Seq(TxStates)
  BY <1>2, BlockFacts DEF RoomInBlock
<1>7. SlotOf(z, nb, nt) = SlotOf(s, nb, nt)
  <2>1. SlotOf(z, nb, nt) = y.txState[nt + 1]
    BY <1>1, <1>2, <1>6 DEF SlotOf
  <2>2. nt + 1 \in 1..Len(y.txState)
    BY <1>6
  <2>3. y.txState[nt + 1] = IF nt + 1 <= Len(x.txState) THEN x.txState[nt + 1] ELSE EmptyTx
    BY <1>5, <1>6, <2>2, PaddedIn
  <2>4. CASE nb < Len(s)
    BY <1>4, <1>5, <2>1, <2>3, <2>4 DEF BlockOf, SlotOf
  <2>5. CASE ~(nb < Len(s))
    <3>1. Len(x.txState) = 0
      BY <1>4, <2>5, EmptyBlockFacts, EmptySeq DEF BlockOf
    <3> QED
      BY <2>1, <2>3, <2>5, <3>1 DEF SlotOf
  <2> QED
    BY <2>4, <2>5
<1>8. /\ BlockOf(z, nb).oldStateRoot = BlockOf(s, nb).oldStateRoot
      /\ BlockOf(z, nb).currentStateRoot = BlockOf(s, nb).currentStateRoot
  <2>1. BlockOf(z, nb) = y
    BY <1>1, <1>2 DEF BlockOf
  <2> QED
    BY <1>4, <1>6, <2>1
<1>9. /\ BlockOK(x) /\ (b.oldStateRoot = NoRoot => BlockIdle(x))
  <2>1. CASE nb < Len(s)
    <3>1. nb + 1 \in 1..Len(s)
      BY <1>2, <2>1
    <3> QED
      BY <1>1, <1>4, <2>1, <3>1 DEF BatchOK, BlockOf
  <2>2. CASE ~(nb < Len(s))
    BY <1>4, <2>2, EmptyBlockFacts DEF BlockOf
  <2> QED
    BY <2>1, <2>2
<1>10. BlockOK(y) /\ (b.oldStateRoot = NoRoot => BlockIdle(y))
  <2>1. ASSUME NEW j \in 1..Len(y.txState)
        PROVE  /\ TxOK(y.txState[j])
               /\ y.oldStateRoot = NoRoot => Idle(y.txState[j])
               /\ b.oldStateRoot = NoRoot => Idle(y.txState[j])
    <3>1. /\ j <= Len(x.txState) => j \in 1..Len(x.txState) /\ y.txState[j] = x.txState[j]
          /\ ~(j <= Len(x.txState)) => y.txState[j] = EmptyTx
      BY <1>5, <1>6, PaddedIn
    <3>2. CASE j <= Len(x.txState)
      BY <1>6, <1>9, <3>1, <3>2 DEF BlockOK, BlockIdle
    <3>3. CASE ~(j <= Len(x.txState))
      BY <3>1, <3>3, EmptyTxFacts
    <3> QED
      BY <3>2, <3>3
  <2>2. y.txState # <<>> /\ y.currentTx = Len(y.txState) - 1
    BY <1>6, EmptySeq
  <2> QED
    BY <2>1, <2>2 DEF BlockOK, BlockIdle
<1>11. BatchOK(r)
  <2>1. ASSUME NEW i \in 1..Len(z)
        PROVE  BlockOK(z[i]) /\ (r.oldStateRoot = NoRoot => BlockIdle(z[i]))
    <3>1. r.oldStateRoot = b.oldStateRoot
      BY DEF RoomInBatch
    <3>2. CASE i = nb + 1
      BY <1>1, <1>10, <3>1, <3>2
    <3>3. CASE i # nb + 1
      <4>1. i \in 1..nb /\ i \in 1..Len(mid) /\ z[i] = mid[i]
        BY <1>2, <3>3
      <4>2. IF i <= Len(s) THEN i \in 1..Len(s) /\ mid[i] = s[i] ELSE mid[i] = EmptyBlock
        BY <1>2, <4>1, PaddedIn
      <4> QED
        BY <1>1, <3>1, <4>1, <4>2, EmptyBlockFacts DEF BatchOK
    <3> QED
      BY <3>2, <3>3
  <2>2. z # <<>> /\ r.currentBlock = Len(z) - 1
    BY <1>2, EmptySeq DEF RoomInBatch
  <2> QED
    BY <1>1, <1>2, <2>1, <2>2 DEF BatchOK
<1>12. ASSUME NEW g, NEW a, BlocksChain(g, s, a)
       PROVE  \E h : BlocksChain(h, z, a) /\ h[nb + 1] = g[Len(s)]
  <2>1. PICK h : BlocksChain(h, mid, a) /\ h[Len(mid)] = g[Len(s)]
    BY <1>2, <1>12, BlocksPad
  <2>2. BlockLink(x, h[nb], h[nb + 1])
    <3>1. nb + 1 \in 1..Len(mid) /\ nb + 1 - 1 = nb
      BY <1>2
    <3> QED
      BY <1>1, <2>1, <3>1 DEF BlocksChain
  <2>3. PICK f : TxsChain(f, x.txState, h[nb]) /\ f[Len(x.txState)] = h[nb + 1]
    BY <2>2 DEF BlockLink
  <2>4. PICK f2 : TxsChain(f2, y.txState, h[nb]) /\ f2[Len(y.txState)] = h[nb + 1]
    BY <1>5, <1>6, <2>3, TxsPad
  <2>5. BlockLink(y, h[nb], h[nb + 1])
    BY <1>6, <2>2, <2>4 DEF BlockLink
  <2>6. nb <= Len(mid) /\ Len(mid) \in Nat
    BY <1>2
  <2>7. PICK h2 : BlocksChain(h2, z, a) /\ h2[Len(z)] = h[nb + 1]
    <3>1. PICK e : e = h[nb + 1]
      OBVIOUS
    <3>2. Then(z, mid, nb, y) /\ BlocksChain(h, mid, a) /\ BlockLink(y, h[nb], e)
      BY <1>2, <2>1, <2>5, <3>1
    <3>3. \E h2 : BlocksChain(h2, z, a) /\ h2[Len(z)] = e /\ h2[nb] = h[nb]
      BY <2>6, <3>2, BlocksThen
    <3> QED
      BY <3>1, <3>3
  <2> QED
    BY <1>2, <2>1, <2>7
<1>13. IsLastSlot(z, nb, nt)
  BY <1>1, <1>2, <1>6 DEF IsLastSlot
<1> QED
  BY <1>1, <1>7, <1>8, <1>11, <1>12, <1>13

-----------------------------------------------------------------------------
(* setStateRoots                                                           *)

LEMMA FirstRootFacts ==
    ASSUME NEW r \in Roots, NEW old \in Trees
    PROVE  /\ FirstRoot(r, old) \in Trees /\ FirstRoot(r, old) # NoRoot
           /\ FirstRoot(r, old) = IF r = NoRoot THEN old ELSE r
  BY NoRootIsNoTree DEF FirstRoot, OrElse, Roots

\* y2 is the block y after a set in its last transaction.
SetInBlock(y2, y, nt, old, k, v) ==
    /\ y2 \in BlockStates /\ BlockOK(y2)
    /\ y2.oldStateRoot = FirstRoot(y.oldStateRoot, old)
    /\ y2.currentStateRoot = set(old, k, v).newRoot
    /\ Len(y2.txState) = nt + 1
    /\ Then(y2.txState, y.txState, nt, y2.txState[nt + 1])
    /\ AddedTx(y2.txState[nt + 1], y.txState[nt + 1], old, k, v)

LEMMA SetInBlockIs ==
    ASSUME NEW y \in BlockStates, BlockOK(y), NEW nt \in Nat, Len(y.txState) = nt + 1,
           NEW old \in Trees, NEW k \in Keys, NEW v \in Values, NEW ts, ts = y.txState[nt + 1],
           Fits(ts, old), v \in Programs => v \in ts.dbWritePrograms
    PROVE  SetInBlock(setBlockRoots(y, nt, SubStateOf(ts, old, k, v)), y, nt, old, k, v)
<1>1. PICK ss, t2, q, q2, new : /\ ss = SubStateOf(ts, old, k, v) /\ t2 = AddSub(ts, old, k, v)
                           /\ q = y.txState /\ q2 = [q EXCEPT ![nt + 1] = t2]
                           /\ new = set(old, k, v).newRoot
  OBVIOUS
<1>2. q \in Seq(TxStates) /\ nt + 1 \in 1..Len(q) /\ ts \in TxStates /\ TxOK(ts)
  BY <1>1, BlockFacts DEF BlockOK
<1>3. AddedTx(t2, ts, old, k, v)
  BY <1>1, <1>2, AddSubIsRight
<1>4. t2 \in TxStates /\ TxOK(t2)
  BY <1>3 DEF AddedTx
<1>5. q2 \in Seq(TxStates) /\ Then(q2, q, nt, t2)
  BY <1>1, <1>2, <1>4, LastIs
<1>6. ss.oldStateRoot = old /\ ss.newStateRoot = new /\ setTxRoots(ts, ss) = t2
  BY <1>1 DEF SubStateOf, AddSub
<1>7. PICK y2 : y2 = setBlockRoots(y, nt, ss)
  OBVIOUS
<1>8. y2 = [y EXCEPT !.oldStateRoot = FirstRoot(y.oldStateRoot, old), !.currentStateRoot = new,
                     !.txState = q2]
  BY <1>1, <1>6, <1>7 DEF setBlockRoots
<1>9. /\ FirstRoot(y.oldStateRoot, old) \in Roots /\ FirstRoot(y.oldStateRoot, old) # NoRoot
      /\ new \in Roots
  BY <1>1, BlockFacts, FirstRootFacts, SetIsTree DEF Roots
<1>10. /\ y2 \in BlockStates /\ y2.oldStateRoot = FirstRoot(y.oldStateRoot, old)
       /\ y2.currentStateRoot = new /\ y2.txState = q2 /\ y2.currentTx = y.currentTx
  BY <1>5, <1>8, <1>9 DEF BlockStates
<1>11. Len(q2) = nt + 1 /\ q2[nt + 1] = t2 /\ q2 # <<>> /\ q # <<>> /\ y2.currentTx = Len(q2) - 1
  BY <1>1, <1>5, <1>10, EmptySeq DEF Then, BlockOK
<1>12. ASSUME NEW j \in 1..Len(q2)
       PROVE  TxOK(q2[j])
  <2>1. (j \in 1..nt /\ j \in 1..Len(q)) \/ j = nt + 1
    BY <1>1, <1>11
  <2> QED
    BY <1>1, <1>4, <1>5, <1>11, <2>1 DEF Then, BlockOK
<1>13. BlockOK(y2)
  BY <1>9, <1>10, <1>11, <1>12 DEF BlockOK
<1> QED
  BY <1>1, <1>3, <1>5, <1>7, <1>10, <1>11, <1>13 DEF SetInBlock

\* What setStateRoots does to a batch.
SetInBatch(b2, b, nb, nt, old, k, v) ==
    /\ BatchOK(b2) /\ IsLastSlot(b2.blockState, nb, nt)
    /\ b2.oldStateRoot = FirstRoot(b.oldStateRoot, old)
    /\ b2.dbWriteNodes = b.dbWriteNodes \cup set(old, k, v).writes
    /\ AddedTx(SlotOf(b2.blockState, nb, nt), SlotOf(b.blockState, nb, nt), old, k, v)
    /\ BlockOf(b2.blockState, nb).oldStateRoot = FirstRoot(BlockOf(b.blockState, nb).oldStateRoot, old)
    /\ BlockOf(b2.blockState, nb).currentStateRoot = set(old, k, v).newRoot
    /\ \A g, a : /\ BlocksChain(g, b.blockState, a)
                 /\ Idle(SlotOf(b.blockState, nb, nt)) => old = g[Len(b.blockState)]
                 => \E h : BlocksChain(h, b2.blockState, a) /\ h[nb + 1] = set(old, k, v).newRoot

\* The block after the set goes on where the blocks before it ended.
LEMMA SetLinks ==
    ASSUME NEW y \in BlockStates, BlockOK(y), NEW nt \in Nat, Len(y.txState) = nt + 1,
           NEW old \in Trees, NEW k, NEW v, NEW y2, SetInBlock(y2, y, nt, old, k, v),
           NEW from, NEW to, BlockLink(y, from, to),
           Idle(y.txState[nt + 1]) => old = to
    PROVE  BlockLink(y2, from, set(old, k, v).newRoot)
<1>1. PICK q, t, new : q = y.txState /\ t = y2.txState[nt + 1] /\ new = set(old, k, v).newRoot
  OBVIOUS
<1>2. PICK f : TxsChain(f, q, from) /\ f[nt + 1] = to
  BY <1>1 DEF BlockLink
<1>3. nt + 1 \in 1..Len(q) /\ nt + 1 - 1 = nt /\ nt <= Len(q) /\ Len(q) \in Nat
  BY <1>1
<1>4. TxLink(q[nt + 1], f[nt], to)
  BY <1>2, <1>3 DEF TxsChain
<1>5. AddedTx(t, q[nt + 1], old, k, v) /\ Then(y2.txState, q, nt, t) /\ Len(y2.txState) = nt + 1
  BY <1>1 DEF SetInBlock
<1>6. TxLink(t, f[nt], new)
  BY <1>1, <1>4, <1>5 DEF TxLink, AddedTx
<1>7. PICK h : TxsChain(h, y2.txState, from) /\ h[Len(y2.txState)] = new
  <2>1. PICK q2 : q2 = y2.txState
    OBVIOUS
  <2>2. Then(q2, q, nt, t) /\ TxsChain(f, q, from) /\ TxLink(t, f[nt], new)
    BY <1>2, <1>5, <1>6, <2>1
  <2>3. \E h : TxsChain(h, q2, from) /\ h[Len(q2)] = new
    BY <1>3, <2>2, TxsThen
  <2> QED
    BY <2>1, <2>3
<1>8. y2.oldStateRoot = from
  <2>1. y.oldStateRoot \in Roots /\ y2.oldStateRoot = IF y.oldStateRoot = NoRoot THEN old ELSE y.oldStateRoot
    BY BlockFacts, FirstRootFacts DEF SetInBlock
  <2>2. CASE y.oldStateRoot # NoRoot
    BY <2>1, <2>2 DEF BlockLink
  <2>3. CASE y.oldStateRoot = NoRoot
    <3>1. \A j \in 1..Len(q) : Idle(q[j])
      BY <1>1, <2>3 DEF BlockOK
    <3>2. to = from
      BY <1>1, <1>2, <1>3, <3>1, IdleTxs
    <3> QED
      BY <1>1, <1>3, <2>1, <2>3, <3>1, <3>2
  <2> QED
    BY <2>2, <2>3
<1>9. y2.currentStateRoot = new
  BY <1>1 DEF SetInBlock
<1> QED
  BY <1>1, <1>7, <1>8, <1>9 DEF BlockLink

LEMMA SetStateRootsIs ==
    ASSUME NEW b, BatchOK(b), NEW nb \in Nat, NEW nt \in Nat, Reaches(b.blockState, nb, nt),
           NEW old \in Trees, NEW k \in Keys, NEW v \in Values,
           Fits(SlotOf(b.blockState, nb, nt), old),
           v \in Programs => v \in SlotOf(b.blockState, nb, nt).dbWritePrograms
    PROVE  SetInBatch(setStateRoots(b, nb, nt, old, k, v), b, nb, nt, old, k, v)
<1>1. PICK r : r = Reserve(b, nb, nt)
  OBVIOUS
<1>2. PICK mid : RoomInBatch(r, b, mid, nb, nt)
  BY <1>1, ReserveIs
<1>3. /\ BatchOK(r) /\ IsLastSlot(r.blockState, nb, nt)
      /\ SlotOf(r.blockState, nb, nt) = SlotOf(b.blockState, nb, nt)
      /\ BlockOf(r.blockState, nb).oldStateRoot = BlockOf(b.blockState, nb).oldStateRoot
      /\ r.oldStateRoot = b.oldStateRoot /\ r.dbWriteNodes = b.dbWriteNodes
  BY <1>2, RoomFacts DEF RoomInBatch
<1>4. PICK z, y, ts, ss, y2, z2, new :
         /\ z = r.blockState /\ y = z[nb + 1] /\ ts = y.txState[nt + 1]
         /\ ss = SubStateOf(ts, old, k, v) /\ y2 = setBlockRoots(y, nt, ss)
         /\ z2 = [z EXCEPT ![nb + 1] = y2] /\ new = set(old, k, v).newRoot
  OBVIOUS
<1>5. /\ r \in BatchStates /\ z \in Seq(BlockStates) /\ Len(z) = nb + 1 /\ nb + 1 \in 1..Len(z)
      /\ Len(y.txState) = nt + 1
  <2>1. r \in BatchStates
    BY <1>3 DEF BatchOK
  <2>2. Len(z) = nb + 1 /\ Len(y.txState) = nt + 1
    BY <1>3, <1>4 DEF IsLastSlot
  <2>3. r.blockState \in Seq(BlockStates)
    BY <2>1, BatchFacts
  <2>4. nb + 1 \in 1..Len(z)
    BY <2>2
  <2> QED
    BY <1>4, <2>1, <2>2, <2>3, <2>4
<1>6. y \in BlockStates /\ BlockOK(y) /\ ts = SlotOf(b.blockState, nb, nt) /\ y = BlockOf(z, nb)
  <2>1. y \in BlockStates /\ BlockOK(y)
    BY <1>3, <1>4, <1>5, ElementOfSeq DEF BatchOK
  <2>2. nb < Len(z) /\ nt < Len(y.txState)
    BY <1>5
  <2> QED
    BY <1>3, <1>4, <2>1, <2>2 DEF SlotOf, BlockOf
<1>7. SetInBlock(y2, y, nt, old, k, v)
  BY <1>4, <1>5, <1>6, SetInBlockIs
<1>8. y2 \in BlockStates /\ BlockOK(y2) /\ Len(y2.txState) = nt + 1
  BY <1>7 DEF SetInBlock
<1>9. z2 \in Seq(BlockStates) /\ Then(z2, z, nb, y2)
  BY <1>4, <1>5, <1>8, LastIs
<1>10. PICK b2 : b2 = setStateRoots(b, nb, nt, old, k, v)
  OBVIOUS
<1>11. ss.newStateRoot = new /\ dbWriteNodes(ss) = set(old, k, v).writes
  BY <1>4 DEF SubStateOf, dbWriteNodes
<1>12. b2 = [r EXCEPT !.oldStateRoot = FirstRoot(r.oldStateRoot, old), !.currentStateRoot = new,
                      !.dbWriteNodes = r.dbWriteNodes \cup set(old, k, v).writes,
                      !.blockState = z2]
  <2>1. b2 = [r EXCEPT !.oldStateRoot = FirstRoot(@, old),
                       !.currentStateRoot = ss.newStateRoot,
                       !.dbWriteNodes = commonWriteList(@, ss),
                       !.blockState[nb + 1] = setBlockRoots(@, nt, ss)]
    BY <1>1, <1>4, <1>10 DEF setStateRoots, SubStateOf
  <2> QED
    BY <1>4, <1>11, <2>1 DEF commonWriteList
<1>13. /\ FirstRoot(r.oldStateRoot, old) \in Roots /\ FirstRoot(r.oldStateRoot, old) # NoRoot
       /\ new \in Roots /\ set(old, k, v).writes \subseteq Saves
  BY <1>4, <1>5, BatchFacts, FirstRootFacts, SetIsTree DEF Roots
<1>14. /\ b2 \in BatchStates /\ b2.oldStateRoot = FirstRoot(r.oldStateRoot, old)
       /\ b2.dbWriteNodes = r.dbWriteNodes \cup set(old, k, v).writes /\ b2.blockState = z2
       /\ b2.currentBlock = r.currentBlock
  BY <1>5, <1>9, <1>12, <1>13 DEF BatchStates
<1>15. /\ Len(z2) = nb + 1 /\ z2[nb + 1] = y2 /\ (\A i \in 1..nb : z2[i] = z[i])
       /\ z2 # <<>> /\ z # <<>>
  BY <1>5, <1>9, EmptySeq DEF Then
<1>16. BatchOK(b2)
  <2>1. ASSUME NEW i \in 1..Len(z2)
        PROVE  BlockOK(z2[i])
    <3>1. (i \in 1..nb /\ i \in 1..Len(z)) \/ i = nb + 1
      BY <1>5, <1>15
    <3> QED
      BY <1>3, <1>4, <1>8, <1>15, <3>1 DEF BatchOK
  <2>2. b2.currentBlock = Len(z2) - 1
    BY <1>3, <1>4, <1>5, <1>14, <1>15 DEF BatchOK
  <2> QED
    BY <1>13, <1>14, <1>15, <2>1, <2>2 DEF BatchOK
<1>17. IsLastSlot(z2, nb, nt) /\ BlockOf(z2, nb) = y2 /\ SlotOf(z2, nb, nt) = y2.txState[nt + 1]
  <2>1. nb < Len(z2) /\ nt < Len(y2.txState)
    BY <1>8, <1>15
  <2> QED
    BY <1>8, <1>15, <2>1 DEF IsLastSlot, BlockOf, SlotOf
<1>18. ASSUME NEW g, NEW a, BlocksChain(g, b.blockState, a),
              Idle(SlotOf(b.blockState, nb, nt)) => old = g[Len(b.blockState)]
       PROVE  \E h : BlocksChain(h, z2, a) /\ h[nb + 1] = new
  <2>1. PICK h : BlocksChain(h, z, a) /\ h[nb + 1] = g[Len(b.blockState)]
    BY <1>2, <1>4, <1>18, RoomFacts
  <2>2. PICK from, to : from = h[nb] /\ to = h[nb + 1]
    OBVIOUS
  <2>3. BlockLink(y, from, to)
    <3>1. nb + 1 - 1 = nb
      OBVIOUS
    <3> QED
      BY <1>4, <1>5, <2>1, <2>2, <3>1 DEF BlocksChain
  <2>4. Idle(y.txState[nt + 1]) => old = to
    BY <1>4, <1>6, <1>18, <2>1, <2>2
  <2>5. BlockLink(y2, from, new)
    <3>1. BlockLink(y2, from, set(old, k, v).newRoot)
      BY <1>5, <1>6, <1>7, <2>3, <2>4, SetLinks
    <3> QED
      BY <1>4, <3>1
  <2>6. BlockLink(y2, h[nb], new) /\ nb <= Len(z) /\ Len(z) \in Nat
    BY <1>5, <2>2, <2>5
  <2>7. \E h2 : BlocksChain(h2, z2, a) /\ h2[Len(z2)] = new /\ h2[nb] = h[nb]
    BY <1>9, <2>1, <2>6, BlocksThen
  <2> QED
    BY <1>15, <2>7
<1>19. /\ AddedTx(SlotOf(z2, nb, nt), SlotOf(b.blockState, nb, nt), old, k, v)
       /\ BlockOf(z2, nb).oldStateRoot = FirstRoot(BlockOf(b.blockState, nb).oldStateRoot, old)
       /\ BlockOf(z2, nb).currentStateRoot = new
  BY <1>3, <1>4, <1>6, <1>7, <1>17 DEF SetInBlock
<1>20. /\ b2.oldStateRoot = FirstRoot(b.oldStateRoot, old)
       /\ b2.dbWriteNodes = b.dbWriteNodes \cup set(old, k, v).writes
  BY <1>3, <1>14
<1>21. \A g, a : /\ BlocksChain(g, b.blockState, a)
                 /\ Idle(SlotOf(b.blockState, nb, nt)) => old = g[Len(b.blockState)]
                 => \E h : BlocksChain(h, z2, a) /\ h[nb + 1] = new
  BY <1>18
<1>22. SetInBatch(b2, b, nb, nt, old, k, v)
  BY <1>4, <1>14, <1>16, <1>17, <1>19, <1>20, <1>21 DEF SetInBatch
<1> QED
  BY <1>10, <1>22

-----------------------------------------------------------------------------
(* The other calls on a batch                                              *)

\* b2 is the batch b with room for the slot and nothing else.
OnlyRoom(b2, b, nb, nt) ==
    /\ BatchOK(b2) /\ IsLastSlot(b2.blockState, nb, nt)
    /\ b2.oldStateRoot = b.oldStateRoot /\ b2.dbWriteNodes = b.dbWriteNodes
    /\ SlotOf(b2.blockState, nb, nt) = SlotOf(b.blockState, nb, nt)
    /\ BlockOf(b2.blockState, nb).oldStateRoot = BlockOf(b.blockState, nb).oldStateRoot
    /\ BlockOf(b2.blockState, nb).currentStateRoot = BlockOf(b.blockState, nb).currentStateRoot
    /\ \A g, a : BlocksChain(g, b.blockState, a) =>
          \E h : BlocksChain(h, b2.blockState, a) /\ h[nb + 1] = g[Len(b.blockState)]

LEMMA SetTemporaryIs ==
    ASSUME NEW b, BatchOK(b), NEW nb \in Nat, NEW nt \in Nat, Reaches(b.blockState, nb, nt)
    PROVE  OnlyRoom(setTemporary(b, nb, nt), b, nb, nt)
<1>1. PICK r : r = Reserve(b, nb, nt)
  OBVIOUS
<1>2. PICK mid : RoomInBatch(r, b, mid, nb, nt)
  BY <1>1, ReserveIs
<1>3. /\ BatchOK(r) /\ IsLastSlot(r.blockState, nb, nt)
      /\ SlotOf(r.blockState, nb, nt) = SlotOf(b.blockState, nb, nt)
      /\ BlockOf(r.blockState, nb).oldStateRoot = BlockOf(b.blockState, nb).oldStateRoot
      /\ BlockOf(r.blockState, nb).currentStateRoot = BlockOf(b.blockState, nb).currentStateRoot
      /\ \A g, a : BlocksChain(g, b.blockState, a) =>
            \E h : BlocksChain(h, r.blockState, a) /\ h[nb + 1] = g[Len(b.blockState)]
  BY <1>2, RoomFacts
<1>4. r.oldStateRoot = b.oldStateRoot /\ r.dbWriteNodes = b.dbWriteNodes
  BY <1>2 DEF RoomInBatch
<1>5. PICK b2 : b2 = setTemporary(b, nb, nt)
  OBVIOUS
<1>6. b2 = [r EXCEPT !.currentStateRoot = TemporaryRoot] /\ r \in BatchStates
  BY <1>1, <1>3, <1>5 DEF setTemporary, BatchOK
<1>7. /\ b2 \in BatchStates /\ b2.oldStateRoot = r.oldStateRoot /\ b2.dbWriteNodes = r.dbWriteNodes
      /\ b2.blockState = r.blockState /\ b2.currentBlock = r.currentBlock
  BY <1>6 DEF BatchStates
<1>8. BatchOK(b2)
  BY <1>3, <1>7 DEF BatchOK
<1>9. OnlyRoom(b2, b, nb, nt)
  BY <1>3, <1>4, <1>7, <1>8 DEF OnlyRoom
<1> QED
  BY <1>5, <1>9

\* z2 is z with its last transaction replaced by t.
Replaced(z2, z, nb, nt, t) ==
    /\ z2 \in Seq(BlockStates) /\ IsLastSlot(z2, nb, nt)
    /\ SlotOf(z2, nb, nt) = t
    /\ BlockOf(z2, nb).oldStateRoot = BlockOf(z, nb).oldStateRoot
    /\ BlockOf(z2, nb).currentStateRoot = BlockOf(z, nb).currentStateRoot
    /\ \A i \in 1..nb + 1 : BlockOK(z2[i]) /\ (BlockIdle(z[i]) => BlockIdle(z2[i]))

\* Where the last transaction of z led on in the chain g, t leads to the root to.
LeadsTo(t, z, nb, nt, g, to) ==
    /\ \A from : TxLink(SlotOf(z, nb, nt), from, g[nb + 1]) => TxLink(t, from, to)
    /\ BlockOf(z, nb).currentStateRoot = BlockOf(z, nb).oldStateRoot => to = g[nb + 1]

\* The chain of z2 ends where t leads to.
TakesOver(z2, z, nb, nt, t) ==
    \A g, a, to : BlocksChain(g, z, a) /\ LeadsTo(t, z, nb, nt, g, to)
                  => \E h : BlocksChain(h, z2, a) /\ h[nb + 1] = to

LEMMA ReplaceTx ==
    ASSUME NEW z \in Seq(BlockStates), NEW nb \in Nat, NEW nt \in Nat, IsLastSlot(z, nb, nt),
           \A i \in 1..Len(z) : BlockOK(z[i]),
           NEW t \in TxStates, TxOK(t), Idle(SlotOf(z, nb, nt)) => Idle(t),
           NEW z2, z2 = [z EXCEPT ![nb + 1].txState[nt + 1] = t]
    PROVE  Replaced(z2, z, nb, nt, t) /\ TakesOver(z2, z, nb, nt, t)
<1>1. PICK y, q, q2, y2, ts : /\ y = z[nb + 1] /\ q = y.txState /\ q2 = [q EXCEPT ![nt + 1] = t]
                              /\ y2 = [y EXCEPT !.txState = q2] /\ ts = q[nt + 1]
  OBVIOUS
<1>2. Len(z) = nb + 1 /\ Len(q) = nt + 1 /\ nb + 1 \in 1..Len(z) /\ nt + 1 \in 1..Len(q)
  BY <1>1 DEF IsLastSlot
<1>3. y \in BlockStates /\ BlockOK(y)
  BY <1>1, <1>2, ElementOfSeq
<1>4. q \in Seq(TxStates)
  BY <1>1, <1>3, BlockFacts
<1>5. q2 \in Seq(TxStates) /\ Then(q2, q, nt, t)
  BY <1>1, <1>2, <1>4, LastIs
<1>6. /\ y2 \in BlockStates /\ y2.txState = q2 /\ y2.oldStateRoot = y.oldStateRoot
      /\ y2.currentStateRoot = y.currentStateRoot /\ y2.currentTx = y.currentTx
  BY <1>1, <1>3, <1>5 DEF BlockStates
<1>7. z2 = [z EXCEPT ![nb + 1] = y2]
  BY <1>1
<1>8. z2 \in Seq(BlockStates) /\ Then(z2, z, nb, y2)
  <2>1. [z EXCEPT ![nb + 1] = y2] \in Seq(BlockStates) /\ Then([z EXCEPT ![nb + 1] = y2], z, nb, y2)
    BY <1>2, <1>6, LastIs
  <2> QED
    BY <1>7, <2>1
<1>9. BlockOf(z, nb) = y /\ SlotOf(z, nb, nt) = ts
  <2>1. nb < Len(z) /\ nt < Len(q)
    BY <1>2
  <2> QED
    BY <1>1, <2>1 DEF BlockOf, SlotOf
<1>10. Len(z2) = nb + 1 /\ z2[nb + 1] = y2 /\ Len(q2) = nt + 1 /\ q2[nt + 1] = t
  BY <1>5, <1>8 DEF Then
<1>11. BlockOf(z2, nb) = y2 /\ SlotOf(z2, nb, nt) = t /\ IsLastSlot(z2, nb, nt)
  <2>1. nb < Len(z2) /\ nt < Len(q2)
    BY <1>10
  <2> QED
    BY <1>6, <1>10, <2>1 DEF BlockOf, SlotOf, IsLastSlot
<1>12. BlockOK(y2) /\ (BlockIdle(y) => BlockIdle(y2))
  <2>1. ASSUME NEW j \in 1..Len(q2)
        PROVE  /\ TxOK(q2[j])
               /\ Idle(q[j]) => Idle(q2[j])
               /\ y.oldStateRoot = NoRoot => Idle(q[j])
               /\ j \in 1..Len(q)
    <3>1. j \in 1..Len(q) /\ (j \in 1..nt \/ j = nt + 1)
      BY <1>2, <1>10
    <3>2. CASE j \in 1..nt
      BY <1>1, <1>3, <1>5, <3>1, <3>2 DEF Then, BlockOK
    <3>3. CASE j = nt + 1
      BY <1>1, <1>3, <1>9, <1>10, <3>1, <3>3 DEF BlockOK
    <3> QED
      BY <3>1, <3>2, <3>3
  <2>2. q2 # <<>> /\ q # <<>> /\ y2.currentTx = Len(q2) - 1
    BY <1>1, <1>2, <1>3, <1>6, <1>10, EmptySeq DEF BlockOK
  <2> QED
    BY <1>1, <1>6, <2>1, <2>2 DEF BlockOK, BlockIdle
<1>13. ASSUME NEW i \in 1..nb + 1
       PROVE  BlockOK(z2[i]) /\ (BlockIdle(z[i]) => BlockIdle(z2[i]))
  <2>1. i \in 1..Len(z) /\ (i \in 1..nb \/ i = nb + 1)
    BY <1>2
  <2> QED
    BY <1>1, <1>8, <1>10, <1>12, <2>1 DEF Then
<1>14. ASSUME NEW g, NEW a, NEW to, BlocksChain(g, z, a),
              \A from : TxLink(ts, from, g[nb + 1]) => TxLink(t, from, to),
              y.currentStateRoot = y.oldStateRoot => to = g[nb + 1]
       PROVE  \E h : BlocksChain(h, z2, a) /\ h[nb + 1] = to
  <2>1. PICK r, r2 : r = g[nb] /\ r2 = g[nb + 1]
    OBVIOUS
  <2>2. BlockLink(y, r, r2)
    <3>1. nb + 1 - 1 = nb
      OBVIOUS
    <3> QED
      BY <1>1, <1>2, <1>14, <2>1, <3>1 DEF BlocksChain
  <2>3. PICK f : TxsChain(f, q, r) /\ f[nt + 1] = r2
    BY <1>1, <1>2, <2>2 DEF BlockLink
  <2>4. TxLink(ts, f[nt], r2)
    <3>1. nt + 1 - 1 = nt
      OBVIOUS
    <3> QED
      BY <1>1, <1>2, <2>3, <3>1 DEF TxsChain
  <2>5. TxLink(t, f[nt], to) /\ nt <= Len(q) /\ Len(q) \in Nat
    BY <1>2, <1>14, <2>1, <2>4
  <2>6. PICK f2 : TxsChain(f2, q2, r) /\ f2[Len(q2)] = to
    <3>1. Then(q2, q, nt, t) /\ TxsChain(f, q, r) /\ TxLink(t, f[nt], to)
      BY <1>5, <2>3, <2>5
    <3> QED
      BY <2>5, <3>1, TxsThen
  <2>7. BlockLink(y2, r, to)
    <3>1. y2.oldStateRoot \in {NoRoot, r} /\ (y2.currentStateRoot = y2.oldStateRoot => r = to)
      BY <1>6, <1>14, <2>1, <2>2 DEF BlockLink
    <3> QED
      BY <1>6, <2>6, <3>1 DEF BlockLink
  <2>8. BlockLink(y2, g[nb], to) /\ nb <= Len(z) /\ Len(z) \in Nat
    BY <1>2, <2>1, <2>7
  <2>9. \E h : BlocksChain(h, z2, a) /\ h[Len(z2)] = to /\ h[nb] = g[nb]
    <3>1. PICK z3 : z3 = z2
      OBVIOUS
    <3>2. Then(z3, z, nb, y2) /\ BlocksChain(g, z, a) /\ BlockLink(y2, g[nb], to)
      BY <1>8, <1>14, <2>8, <3>1
    <3>3. \E h : BlocksChain(h, z3, a) /\ h[Len(z3)] = to /\ h[nb] = g[nb]
      BY <2>8, <3>2, BlocksThen
    <3> QED
      BY <3>1, <3>3
  <2> QED
    BY <1>10, <2>9
<1>15. Replaced(z2, z, nb, nt, t)
  BY <1>6, <1>8, <1>9, <1>11, <1>13 DEF Replaced
<1>16. TakesOver(z2, z, nb, nt, t)
  <2>1. SUFFICES ASSUME NEW g, NEW a, NEW to, BlocksChain(g, z, a), LeadsTo(t, z, nb, nt, g, to)
                 PROVE  \E h : BlocksChain(h, z2, a) /\ h[nb + 1] = to
    BY Zenon DEF TakesOver
  <2>2. /\ \A from : TxLink(ts, from, g[nb + 1]) => TxLink(t, from, to)
        /\ y.currentStateRoot = y.oldStateRoot => to = g[nb + 1]
    BY <1>9, <2>1 DEF LeadsTo
  <2> QED
    BY <1>14, <2>1, <2>2, Zenon
<1> QED
  BY <1>15, <1>16

\* b2 is b with its last transaction replaced by t.
NewTx(b2, b, nb, nt, t) ==
    /\ BatchOK(b2)
    /\ b2.oldStateRoot = b.oldStateRoot /\ b2.dbWriteNodes = b.dbWriteNodes
    /\ Replaced(b2.blockState, b.blockState, nb, nt, t)
    /\ TakesOver(b2.blockState, b.blockState, nb, nt, t)

LEMMA NewTxIs ==
    ASSUME NEW b, BatchOK(b), NEW nb \in Nat, NEW nt \in Nat, IsLastSlot(b.blockState, nb, nt),
           NEW t \in TxStates, TxOK(t), Idle(SlotOf(b.blockState, nb, nt)) => Idle(t),
           NEW b2 \in BatchStates,
           b2.blockState = [b.blockState EXCEPT ![nb + 1].txState[nt + 1] = t],
           b2.currentBlock = b.currentBlock, b2.oldStateRoot = b.oldStateRoot,
           b2.dbWriteNodes = b.dbWriteNodes
    PROVE  NewTx(b2, b, nb, nt, t)
<1>1. PICK z : z = b.blockState
  OBVIOUS
<1>2. /\ z \in Seq(BlockStates) /\ IsLastSlot(z, nb, nt) /\ Len(z) = nb + 1
      /\ (\A i \in 1..Len(z) : BlockOK(z[i]) /\ (b.oldStateRoot = NoRoot => BlockIdle(z[i])))
      /\ b.currentBlock = IF z = <<>> THEN 0 ELSE Len(z) - 1
  BY <1>1, BatchFacts DEF BatchOK, IsLastSlot
<1>3. PICK z2 : z2 = [z EXCEPT ![nb + 1].txState[nt + 1] = t]
  OBVIOUS
<1>4. Replaced(z2, z, nb, nt, t) /\ TakesOver(z2, z, nb, nt, t)
  <2>1. (\A i \in 1..Len(z) : BlockOK(z[i])) /\ (Idle(SlotOf(z, nb, nt)) => Idle(t))
    BY <1>1, <1>2
  <2> QED
    BY <1>2, <1>3, <2>1, ReplaceTx
<1>5. b2.blockState = z2
  BY <1>1, <1>3
<1>6. /\ z2 \in Seq(BlockStates) /\ Len(z2) = nb + 1
      /\ \A i \in 1..nb + 1 : BlockOK(z2[i]) /\ (BlockIdle(z[i]) => BlockIdle(z2[i]))
  BY <1>4 DEF Replaced, IsLastSlot
<1>7. z # <<>> /\ z2 # <<>>
  BY <1>2, <1>6, EmptySeq
<1>8. BatchOK(b2)
  BY <1>2, <1>5, <1>6, <1>7 DEF BatchOK
<1> QED
  BY <1>1, <1>4, <1>5, <1>8 DEF NewTx

WithProgram(ts, p) == [ts EXCEPT !.dbWritePrograms = @ \cup {p}]

LEMMA WithProgramFacts ==
    ASSUME NEW ts \in TxStates, TxOK(ts), NEW p \in Programs, NEW t, t = WithProgram(ts, p)
    PROVE  /\ t \in TxStates /\ TxOK(t) /\ (Idle(t) <=> Idle(ts))
           /\ t.oldStateRoot = ts.oldStateRoot /\ t.newStateRoot = ts.newStateRoot
           /\ t.subState = ts.subState
           /\ \A r : (Left(t, r) <=> Left(ts, r)) /\ (Fits(t, r) <=> Fits(ts, r))
           /\ \A r, r2 : TxLink(t, r, r2) <=> TxLink(ts, r, r2)
<1>1. /\ t \in TxStates /\ t.oldStateRoot = ts.oldStateRoot /\ t.newStateRoot = ts.newStateRoot
      /\ t.subState = ts.subState /\ t.currentSubState = ts.currentSubState
      /\ t.dbWritePrograms = ts.dbWritePrograms \cup {p}
  BY DEF WithProgram, TxStates
<1>2. \A i \in 1..Len(ts.subState) : SubOK(t, i)
  BY <1>1 DEF TxOK, SubOK
<1>3. TxOK(t)
  BY <1>1, <1>2 DEF TxOK
<1>4. Idle(t) <=> Idle(ts)
  BY <1>1 DEF Idle
<1>5. \A r : Left(t, r) <=> Left(ts, r)
  BY <1>1 DEF Left
<1>6. \A r, r2 : TxLink(t, r, r2) <=> TxLink(ts, r, r2)
  BY <1>1, <1>4 DEF TxLink
<1>7. \A r : Fits(t, r) <=> Fits(ts, r)
  BY <1>1, <1>4, <1>5 DEF Fits
<1> QED
  BY <1>1, <1>3, <1>4, <1>5, <1>6, <1>7

LEMMA LastSlotFacts ==
    ASSUME NEW b, BatchOK(b), NEW nb \in Nat, NEW nt \in Nat, IsLastSlot(b.blockState, nb, nt)
    PROVE  /\ SlotOf(b.blockState, nb, nt) = b.blockState[nb + 1].txState[nt + 1]
           /\ SlotOf(b.blockState, nb, nt) \in TxStates /\ TxOK(SlotOf(b.blockState, nb, nt))
           /\ BlockOf(b.blockState, nb) = b.blockState[nb + 1]
           /\ b.blockState[nb + 1] \in BlockStates /\ BlockOK(b.blockState[nb + 1])
<1>1. PICK z, y : z = b.blockState /\ y = z[nb + 1]
  OBVIOUS
<1>2. /\ Len(z) = nb + 1 /\ Len(y.txState) = nt + 1 /\ nb < Len(z) /\ nt < Len(y.txState)
      /\ nb + 1 \in 1..Len(z) /\ nt + 1 \in 1..Len(y.txState)
  BY <1>1 DEF IsLastSlot
<1>3. y \in BlockStates /\ BlockOK(y)
  BY <1>1, <1>2, BatchFacts DEF BatchOK
<1>4. y.txState[nt + 1] \in TxStates /\ TxOK(y.txState[nt + 1])
  BY <1>2, <1>3, BlockFacts DEF BlockOK
<1> QED
  BY <1>1, <1>2, <1>3, <1>4 DEF SlotOf, BlockOf

LEMMA WriteProgramIs ==
    ASSUME NEW b, BatchOK(b), NEW nb \in Nat, NEW nt \in Nat, IsLastSlot(b.blockState, nb, nt),
           NEW p \in Programs
    PROVE  NewTx(writeProgram(b, nb, nt, p), b, nb, nt, WithProgram(SlotOf(b.blockState, nb, nt), p))
<1>1. PICK z, y, q, ts, t : /\ z = b.blockState /\ y = z[nb + 1] /\ q = y.txState /\ ts = q[nt + 1]
                            /\ t = WithProgram(ts, p)
  OBVIOUS
<1>2. /\ Len(z) = nb + 1 /\ Len(q) = nt + 1 /\ z # <<>>
      /\ nb + 1 \in 1..Len(z) /\ nt + 1 \in 1..Len(q)
  BY <1>1, EmptySeq DEF IsLastSlot
<1>3. /\ ts = SlotOf(b.blockState, nb, nt) /\ ts \in TxStates /\ TxOK(ts) /\ y \in BlockStates
      /\ b \in BatchStates /\ z \in Seq(BlockStates)
  <2>1. b \in BatchStates
    BY DEF BatchOK
  <2>2. b.blockState \in Seq(BlockStates)
    BY <2>1, BatchFacts
  <2>3. /\ SlotOf(b.blockState, nb, nt) = b.blockState[nb + 1].txState[nt + 1]
        /\ SlotOf(b.blockState, nb, nt) \in TxStates /\ TxOK(SlotOf(b.blockState, nb, nt))
        /\ b.blockState[nb + 1] \in BlockStates
    BY LastSlotFacts
  <2> QED
    BY <1>1, <2>1, <2>2, <2>3
<1>4. /\ t \in TxStates /\ TxOK(t) /\ (Idle(t) <=> Idle(ts))
  BY <1>1, <1>3, WithProgramFacts
<1>5. PICK c : c = [EmptyTx EXCEPT !.oldStateRoot = b.currentStateRoot]
  OBVIOUS
<1>6. GrowTo(q, nt, c) = q
  <2>1. q \in Seq(TxStates)
    BY <1>1, <1>3, BlockFacts
  <2>2. 1..(nt + 1 - Len(q)) = {}
    BY <1>2
  <2>3. [i \in {} |-> c] = <<>>
    OBVIOUS
  <2>4. GrowTo(q, nt, c) = q \o <<>>
    BY <2>2, <2>3 DEF GrowTo
  <2> QED
    BY <2>1, <2>4, ConcatEmptySeq
<1>7. PICK b2, r : /\ b2 = writeProgram(b, nb, nt, p)
                   /\ r = [b EXCEPT !.blockState[nb + 1].txState = GrowTo(@, nt, c)]
  OBVIOUS
<1>8. r = b
  BY <1>1, <1>2, <1>3, <1>6, <1>7 DEF BatchStates, BlockStates
<1>9. b2 = [b EXCEPT !.dbWritePrograms = @ \cup {p},
                     !.blockState[nb + 1].txState[nt + 1].dbWritePrograms = @ \cup {p}]
  BY <1>1, <1>2, <1>5, <1>7, <1>8 DEF writeProgram
<1>10. PICK z2 : z2 = [z EXCEPT ![nb + 1].txState[nt + 1] = t]
  OBVIOUS
<1>11. b2 = [b EXCEPT !.dbWritePrograms = b.dbWritePrograms \cup {p}, !.blockState = z2]
  BY <1>1, <1>9, <1>10 DEF WithProgram
<1>12. z2 \in Seq(BlockStates)
  <2>1. IsLastSlot(z, nb, nt) /\ (\A i \in 1..Len(z) : BlockOK(z[i])) /\ (Idle(SlotOf(z, nb, nt)) => Idle(t))
    BY <1>1, <1>3, <1>4 DEF BatchOK
  <2>2. Replaced(z2, z, nb, nt, t)
    BY <1>3, <1>4, <1>10, <2>1, ReplaceTx
  <2> QED
    BY <2>2 DEF Replaced
<1>13. /\ b2 \in BatchStates /\ b2.blockState = z2 /\ b2.currentBlock = b.currentBlock
       /\ b2.oldStateRoot = b.oldStateRoot /\ b2.dbWriteNodes = b.dbWriteNodes
  BY <1>3, <1>11, <1>12 DEF BatchStates
<1>14. NewTx(b2, b, nb, nt, t)
  <2>1. b2.blockState = [b.blockState EXCEPT ![nb + 1].txState[nt + 1] = t]
    BY <1>1, <1>10, <1>13
  <2>2. Idle(SlotOf(b.blockState, nb, nt)) => Idle(t)
    BY <1>3, <1>4
  <2> QED
    BY <1>4, <1>13, <2>1, <2>2, NewTxIs
<1> QED
  BY <1>1, <1>3, <1>7, <1>14

-----------------------------------------------------------------------------
\* The batch has a current transaction.
HasTx(blocks) == Len(blocks) > 0 /\ Len(blocks[Len(blocks)].txState) > 0

LEMMA LastSlotIs ==
    ASSUME NEW z \in Seq(BlockStates), HasTx(z)
    PROVE  \E nb, nt \in Nat : IsLastSlot(z, nb, nt)
<1>1. PICK nb, nt : nb = Len(z) - 1 /\ nt = Len(z[Len(z)].txState) - 1
  OBVIOUS
<1>2. Len(z) \in Nat /\ Len(z) > 0
  BY LenProperties DEF HasTx
<1>3. Len(z) \in 1..Len(z)
  BY <1>2
<1>4. z[Len(z)] \in BlockStates
  BY <1>3, ElementOfSeq
<1>5. Len(z[Len(z)].txState) \in Nat /\ Len(z[Len(z)].txState) > 0
  BY <1>4, BlockFacts DEF HasTx
<1>6. nb \in Nat /\ nt \in Nat /\ nb + 1 = Len(z) /\ nt + 1 = Len(z[Len(z)].txState)
  BY <1>1, <1>2, <1>5
<1> QED
  BY <1>6 DEF IsLastSlot

\* The current transaction is the last one.
LEMMA CurrentIsLast ==
    ASSUME NEW b, BatchOK(b)
    PROVE  /\ (b.currentBlock >= Len(b.blockState)) <=> (Len(b.blockState) = 0)
           /\ \A nb, nt \in Nat : IsLastSlot(b.blockState, nb, nt) =>
                 b.currentBlock = nb /\ b.blockState[nb + 1].currentTx = nt
           /\ Len(b.blockState) > 0 =>
                 /\ b.currentBlock + 1 = Len(b.blockState)
                 /\ LET bs == b.blockState[Len(b.blockState)]
                    IN  (bs.currentTx >= Len(bs.txState)) <=> ~HasTx(b.blockState)
<1>1. PICK z, n : z = b.blockState /\ n = Len(z)
  OBVIOUS
<1>2. /\ b \in BatchStates /\ z \in Seq(BlockStates) /\ n \in Nat /\ (z = <<>> <=> n = 0)
      /\ \A i \in 1..n : z[i] \in BlockStates
  BY <1>1, BatchFacts DEF BatchOK
<1>3. b.currentBlock = IF n = 0 THEN 0 ELSE n - 1
  BY <1>1, <1>2 DEF BatchOK
<1>4. (b.currentBlock >= n) <=> (n = 0)
  BY <1>2, <1>3
<1>5. ASSUME n > 0
      PROVE  /\ b.currentBlock + 1 = n
             /\ (z[n].currentTx >= Len(z[n].txState)) <=> ~HasTx(z)
             /\ z[n].currentTx = IF Len(z[n].txState) = 0 THEN 0 ELSE Len(z[n].txState) - 1
  <2>1. n \in 1..n
    BY <1>2, <1>5
  <2>2. z[n] \in BlockStates /\ BlockOK(z[n])
    BY <1>1, <1>2, <2>1 DEF BatchOK
  <2>3. PICK y, m : y = z[n] /\ m = Len(y.txState)
    OBVIOUS
  <2>4. m \in Nat /\ y.currentTx = IF m = 0 THEN 0 ELSE m - 1
    BY <2>2, <2>3, BlockFacts DEF BlockOK
  <2>5. (y.currentTx >= m) <=> ~(m > 0)
    BY <2>4
  <2>6. HasTx(z) <=> m > 0
    BY <1>1, <1>5, <2>3 DEF HasTx
  <2>7. b.currentBlock + 1 = n
    BY <1>2, <1>3, <1>5
  <2> QED
    BY <2>3, <2>4, <2>5, <2>6, <2>7
<1>6. ASSUME NEW nb \in Nat, NEW nt \in Nat, IsLastSlot(z, nb, nt)
      PROVE  b.currentBlock = nb /\ z[nb + 1].currentTx = nt
  <2>1. n = nb + 1 /\ Len(z[n].txState) = nt + 1 /\ n > 0
    BY <1>1, <1>6 DEF IsLastSlot
  <2>2. z[n].currentTx = IF Len(z[n].txState) = 0 THEN 0 ELSE Len(z[n].txState) - 1
    BY <1>5, <2>1
  <2>3. z[n].currentTx = nt
    BY <2>1, <2>2
  <2> QED
    BY <1>3, <2>1, <2>3
<1> QED
  BY <1>1, <1>4, <1>5, <1>6

LEMMA FinishTxIs ==
    ASSUME NEW b, BatchOK(b), NEW r \in Trees
    PROVE  /\ ~HasTx(b.blockState) => finishTx(b, r) = b
           /\ \A nb, nt \in Nat : IsLastSlot(b.blockState, nb, nt) =>
                 NewTx(finishTx(b, r), b, nb, nt, finishTxState(SlotOf(b.blockState, nb, nt), r))
<1>1. PICK z : z = b.blockState
  OBVIOUS
<1>2. b \in BatchStates /\ z \in Seq(BlockStates) /\ b.exists = TRUE /\ Len(z) \in Nat
  BY <1>1, BatchFacts DEF BatchOK
<1>3. ASSUME ~HasTx(z)
      PROVE  finishTx(b, r) = b
  <2>1. CASE Len(z) = 0
    BY <1>1, <2>1, CurrentIsLast DEF finishTx
  <2>2. CASE Len(z) # 0
    <3>1. Len(z) > 0
      BY <1>2, <2>2
    <3>2. b.currentBlock + 1 = Len(z) /\ z[Len(z)].currentTx >= Len(z[Len(z)].txState)
      BY <1>1, <1>3, <3>1, CurrentIsLast
    <3> QED
      BY <1>1, <3>2 DEF finishTx
  <2> QED
    BY <2>1, <2>2
<1>4. ASSUME NEW nb \in Nat, NEW nt \in Nat, IsLastSlot(z, nb, nt)
      PROVE  NewTx(finishTx(b, r), b, nb, nt, finishTxState(SlotOf(z, nb, nt), r))
  <2>1. PICK y, ts, t, b2 : /\ y = z[nb + 1] /\ ts = y.txState[nt + 1] /\ t = finishTxState(ts, r)
                            /\ b2 = finishTx(b, r)
    OBVIOUS
  <2>2. b.currentBlock = nb /\ y.currentTx = nt
    BY <1>1, <1>4, <2>1, CurrentIsLast
  <2>3. Len(z) = nb + 1 /\ Len(y.txState) = nt + 1 /\ ~(nb >= Len(z)) /\ ~(nt >= Len(y.txState))
    BY <1>4, <2>1 DEF IsLastSlot
  <2>4. b2 = [b EXCEPT !.blockState[nb + 1].txState[nt + 1] = finishTxState(@, r)]
    BY <1>1, <1>2, <2>1, <2>2, <2>3 DEF finishTx
  <2>5. PICK z2 : z2 = [z EXCEPT ![nb + 1].txState[nt + 1] = t]
    OBVIOUS
  <2>6. b2 = [b EXCEPT !.blockState = z2]
    BY <1>1, <2>1, <2>4, <2>5
  <2>7. ts = SlotOf(z, nb, nt) /\ ts \in TxStates /\ TxOK(ts)
    BY <1>1, <1>4, <2>1, LastSlotFacts
  <2>8. FinishedTx(t, ts, r)
    BY <2>1, <2>7, FinishTxIsRight
  <2>9. t \in TxStates /\ TxOK(t) /\ (Idle(SlotOf(z, nb, nt)) => Idle(t))
    BY <2>7, <2>8 DEF FinishedTx
  <2>10. z2 \in Seq(BlockStates)
    <3>1. \A i \in 1..Len(z) : BlockOK(z[i])
      BY <1>1 DEF BatchOK
    <3>2. Replaced(z2, z, nb, nt, t)
      BY <1>2, <1>4, <2>5, <2>9, <3>1, ReplaceTx
    <3> QED
      BY <3>2 DEF Replaced
  <2>11. /\ b2 \in BatchStates /\ b2.blockState = z2 /\ b2.currentBlock = b.currentBlock
         /\ b2.oldStateRoot = b.oldStateRoot /\ b2.dbWriteNodes = b.dbWriteNodes
    BY <1>2, <2>6, <2>10 DEF BatchStates
  <2>12. NewTx(b2, b, nb, nt, t)
    <3>1. b2.blockState = [b.blockState EXCEPT ![nb + 1].txState[nt + 1] = t]
      BY <1>1, <2>5, <2>11
    <3>2. IsLastSlot(b.blockState, nb, nt) /\ (Idle(SlotOf(b.blockState, nb, nt)) => Idle(t))
      BY <1>1, <1>4, <2>9
    <3> QED
      BY <2>9, <2>11, <3>1, <3>2, NewTxIs
  <2> QED
    BY <2>1, <2>7, <2>12
<1> QED
  BY <1>1, <1>3, <1>4

\* b2 is b and one more block, which begins at r.
NewBlock(b2, b, r) ==
    /\ BatchOK(b2)
    /\ b2.oldStateRoot = b.oldStateRoot /\ b2.dbWriteNodes = b.dbWriteNodes
    /\ Len(b2.blockState) = Len(b.blockState) + 1
    /\ b2.blockState[Len(b.blockState) + 1] = [EmptyBlock EXCEPT !.oldStateRoot = r]
    /\ \A g, a : BlocksChain(g, b.blockState, a) /\ g[Len(b.blockState)] = r
                 => \E h : BlocksChain(h, b2.blockState, a) /\ h[Len(b2.blockState)] = r

LEMMA NewBlockFacts ==
    ASSUME NEW r \in Trees, NEW e, e = [EmptyBlock EXCEPT !.oldStateRoot = r]
    PROVE  /\ e \in BlockStates /\ BlockOK(e) /\ BlockIdle(e) /\ Len(e.txState) = 0
           /\ e.oldStateRoot = r /\ e.currentStateRoot = NoRoot /\ BlockLink(e, r, r)
<1>1. PICK q : q = <<>>
  OBVIOUS
<1>2. q \in Seq(TxStates) /\ Len(q) = 0 /\ r \in Roots /\ NoRoot \in Roots /\ r # NoRoot
  BY <1>1, EmptySeq, NoRootIsNoTree DEF Roots
<1>3. e = [oldStateRoot |-> r, currentStateRoot |-> NoRoot, currentTx |-> 0, txState |-> q]
  BY <1>1 DEF EmptyBlock
<1>4. /\ e \in BlockStates /\ e.txState = q /\ e.currentTx = 0
      /\ e.oldStateRoot = r /\ e.currentStateRoot = NoRoot
  <2>1. PICK x : x = [oldStateRoot |-> r, currentStateRoot |-> NoRoot, currentTx |-> 0, txState |-> q]
    OBVIOUS
  <2>2. /\ x \in BlockStates /\ x.txState = q /\ x.currentTx = 0
        /\ x.oldStateRoot = r /\ x.currentStateRoot = NoRoot
    BY <1>2, <2>1 DEF BlockStates
  <2>3. x = e
    BY <1>3, <2>1
  <2> QED
    BY <2>2, <2>3
<1>5. 1..Len(q) = {}
  BY <1>2
<1>6. BlockLink(e, r, r)
  <2> DEFINE f == [i \in {0} |-> r]
  <2>1. f[0] = r
    OBVIOUS
  <2>2. TxsChain(f, q, r)
    BY <1>5, <2>1 DEF TxsChain
  <2> HIDE DEF f
  <2> QED
    BY <1>2, <1>4, <2>1, <2>2 DEF BlockLink
<1> QED
  BY <1>1, <1>2, <1>4, <1>5, <1>6 DEF BlockOK, BlockIdle

LEMMA StartBlockIs ==
    ASSUME NEW b, BatchOK(b), NEW r \in Trees
    PROVE  NewBlock(startBlock(b, r), b, r)
<1>1. PICK z, n, e, z2, b2 :
         /\ z = b.blockState /\ n = Len(z) /\ e = [EmptyBlock EXCEPT !.oldStateRoot = r]
         /\ z2 = Append(z, e) /\ b2 = startBlock(b, r)
  OBVIOUS
<1>2. /\ b \in BatchStates /\ z \in Seq(BlockStates) /\ n \in Nat /\ b.exists = TRUE
  BY <1>1, BatchFacts DEF BatchOK
<1>3. e \in BlockStates /\ BlockOK(e) /\ BlockIdle(e) /\ BlockLink(e, r, r)
  BY <1>1, NewBlockFacts
<1>4. z2 \in Seq(BlockStates) /\ Then(z2, z, n, e)
  BY <1>1, <1>2, <1>3, AppendIs
<1>5. b2 = [b EXCEPT !.blockState = z2, !.currentBlock = n]
  BY <1>1, <1>2 DEF startBlock, Found
<1>6. /\ b2 \in BatchStates /\ b2.blockState = z2 /\ b2.currentBlock = n
      /\ b2.oldStateRoot = b.oldStateRoot /\ b2.dbWriteNodes = b.dbWriteNodes
  BY <1>2, <1>4, <1>5 DEF BatchStates
<1>7. Len(z2) = n + 1 /\ z2[n + 1] = e /\ (\A i \in 1..n : z2[i] = z[i]) /\ z2 # <<>>
  BY <1>2, <1>4, EmptySeq DEF Then
<1>8. ASSUME NEW i \in 1..Len(z2)
      PROVE  BlockOK(z2[i]) /\ (b.oldStateRoot = NoRoot => BlockIdle(z2[i]))
  <2>1. i \in 1..n \/ i = n + 1
    BY <1>2, <1>7
  <2> QED
    BY <1>1, <1>3, <1>7, <2>1 DEF BatchOK
<1>9. BatchOK(b2)
  <2>1. n = Len(z2) - 1
    BY <1>2, <1>7
  <2> QED
    BY <1>6, <1>7, <1>8, <2>1 DEF BatchOK
<1>10. ASSUME NEW g, NEW a, BlocksChain(g, z, a), g[n] = r
       PROVE  \E h : BlocksChain(h, z2, a) /\ h[Len(z2)] = r
  <2>1. BlockLink(e, g[n], r) /\ n <= Len(z) /\ Len(z) \in Nat
    BY <1>1, <1>2, <1>3, <1>10
  <2>2. \E h : BlocksChain(h, z2, a) /\ h[Len(z2)] = r /\ h[n] = g[n]
    BY <1>2, <1>4, <1>10, <2>1, BlocksThen
  <2> QED
    BY <2>2
<1>11. \A g, a : BlocksChain(g, z, a) /\ g[n] = r => \E h : BlocksChain(h, z2, a) /\ h[Len(z2)] = r
  BY <1>10
<1>12. NewBlock(b2, b, r)
  BY <1>1, <1>6, <1>7, <1>9, <1>11 DEF NewBlock
<1> QED
  BY <1>1, <1>12

\* y2 is the block y once it has been finished at the root r.
FinishedBlock(y2, y, r) ==
    /\ y2 \in BlockStates /\ BlockOK(y2) /\ (BlockIdle(y) => BlockIdle(y2))
    /\ y2.oldStateRoot = y.oldStateRoot
    /\ stateManagerPurge => \A from : BlockLink(y, from, r) => BlockLink(y2, from, r)

\* A block that ends at r may say so.
LEMMA EndsAt ==
    ASSUME NEW y \in BlockStates, NEW from, NEW r \in Trees,
           y.oldStateRoot \in {NoRoot, from}, y.currentStateRoot = r,
           \E f : TxsChain(f, y.txState, from) /\ f[Len(y.txState)] = r
    PROVE  BlockLink(y, from, r)
<1>1. r # NoRoot
  BY NoRootIsNoTree
<1> QED
  BY <1>1 DEF BlockLink

LEMMA FinishBlockStateIs ==
    ASSUME NEW y \in BlockStates, BlockOK(y), Len(y.txState) > 0, NEW r \in Trees
    PROVE  FinishedBlock(finishBlockState(y, r), y, r)
<1>1. PICK y2, q, n, last : /\ y2 = finishBlockState(y, r) /\ q = y.txState /\ n = Len(q)
                            /\ last = q[y.currentTx + 1]
  OBVIOUS
<1>2. /\ q \in Seq(TxStates) /\ n \in Nat /\ n > 0 /\ (q = <<>> <=> n = 0)
      /\ \A j \in 1..n : q[j] \in TxStates
  BY <1>1, BlockFacts
<1>3. n \in 1..n /\ y.currentTx + 1 = n
  BY <1>1, <1>2 DEF BlockOK
<1>4. last = q[n] /\ last \in TxStates /\ TxOK(last)
  BY <1>1, <1>2, <1>3 DEF BlockOK
<1>5. r \in Roots /\ r # NoRoot
  BY NoRootIsNoTree DEF Roots
<1> DEFINE I == {j \in 1..Len(q) : q[j].oldStateRoot = r}
           i == IF I # {} THEN Min(I) ELSE 0
<1>6. CASE last.newStateRoot = r
  <2>1. y2 = [y EXCEPT !.currentStateRoot = r]
    BY <1>1, <1>6 DEF finishBlockState
  <2>2. /\ y2 \in BlockStates /\ y2.txState = q /\ y2.oldStateRoot = y.oldStateRoot
        /\ y2.currentTx = y.currentTx /\ y2.currentStateRoot = r
    BY <1>1, <1>5, <2>1 DEF BlockStates
  <2>3. BlockOK(y2) /\ (BlockIdle(y) => BlockIdle(y2))
    BY <1>1, <2>2 DEF BlockOK, BlockIdle
  <2>4. ASSUME NEW from, BlockLink(y, from, r)
        PROVE  BlockLink(y2, from, r)
    BY <1>1, <2>2, <2>4, EndsAt DEF BlockLink
  <2> QED
    BY <1>1, <2>2, <2>3, <2>4 DEF FinishedBlock
<1>7. CASE last.newStateRoot # r /\ ~stateManagerPurge
  <2>1. y2 = y
    BY <1>1, <1>7 DEF finishBlockState
  <2> QED
    BY <1>1, <1>7, <2>1 DEF FinishedBlock
<1>8. CASE last.newStateRoot # r /\ stateManagerPurge /\ last.oldStateRoot = r
  <2>0. PICK e : e = <<>>
    OBVIOUS
  <2>1. y2 = [y EXCEPT !.txState = e, !.currentStateRoot = r, !.currentTx = 0]
    BY <1>1, <1>8, <2>0 DEF finishBlockState
  <2>2. e \in Seq(TxStates) /\ Len(e) = 0 /\ 1..Len(e) = {}
    BY <2>0, EmptySeq
  <2>3. /\ y2 \in BlockStates /\ y2.txState = e /\ y2.oldStateRoot = y.oldStateRoot
        /\ y2.currentTx = 0 /\ y2.currentStateRoot = r
    BY <1>5, <2>1, <2>2 DEF BlockStates
  <2>4. BlockOK(y2) /\ BlockIdle(y2)
    BY <2>0, <2>2, <2>3 DEF BlockOK, BlockIdle
  <2>5. ASSUME NEW from, BlockLink(y, from, r)
        PROVE  FALSE
    <3>1. PICK f : TxsChain(f, q, from) /\ f[n] = r
      BY <1>1, <2>5 DEF BlockLink
    <3>2. TxLink(last, f[n - 1], r)
      BY <1>1, <1>3, <1>4, <3>1 DEF TxsChain
    <3> QED
      BY <1>4, <1>8, <3>2 DEF TxLink, TxOK, Idle
  <2> QED
    BY <1>1, <2>3, <2>4, <2>5 DEF FinishedBlock
<1>9. CASE last.newStateRoot # r /\ stateManagerPurge /\ last.oldStateRoot # r
  <2>1. y2 = IF i = 0 THEN y
             ELSE [y EXCEPT !.currentStateRoot = r, !.currentTx = IF i = 1 THEN 0 ELSE i - 2,
                            !.txState = SubSeq(@, 1, i - 1)]
    BY <1>1, <1>9 DEF finishBlockState, SelectInSeq
  <2>2. I \in SUBSET Nat /\ I \in SUBSET (1..n)
    BY <1>1, <1>2
  <2>3. CASE I = {}
    <3>1. y2 = y
      BY <2>1, <2>3
    <3> QED
      BY <1>1, <3>1 DEF FinishedBlock
  <2>4. CASE I # {}
    <3>1. i = Min(I) /\ Min(I) \in I
      BY <2>2, <2>4, MinIs
    <3> HIDE DEF i
    <3>2. i \in 1..n /\ q[i].oldStateRoot = r /\ i # 0
      BY <1>1, <1>2, <3>1
    <3> HIDE DEF I
    <3>3. PICK p, c : p = SubSeq(q, 1, i - 1) /\ c = IF i = 1 THEN 0 ELSE i - 2
      OBVIOUS
    <3>4. i - 1 \in 0..n /\ i - 1 \in Nat /\ c \in Nat /\ c = IF i - 1 = 0 THEN 0 ELSE i - 1 - 1
      BY <1>2, <3>2, <3>3
    <3>5. p \in Seq(TxStates) /\ Begins(p, q, i - 1)
      <4>1. i - 1 \in 0..Len(q)
        BY <1>1, <3>4
      <4> QED
        BY <1>2, <3>3, <4>1, PrefixIs
    <3>6. y2 = [y EXCEPT !.currentStateRoot = r, !.currentTx = c, !.txState = p]
      BY <1>1, <2>1, <3>2, <3>3
    <3>7. /\ y2 \in BlockStates /\ y2.txState = p /\ y2.oldStateRoot = y.oldStateRoot
          /\ y2.currentTx = c /\ y2.currentStateRoot = r
      BY <1>5, <3>4, <3>5, <3>6 DEF BlockStates
    <3>8. Len(p) = i - 1 /\ (\A j \in 1..i - 1 : p[j] = q[j]) /\ (p = <<>> <=> Len(p) = 0)
      BY <3>5, EmptySeq DEF Begins
    <3>9. \A j \in 1..i - 1 : j \in 1..n
      BY <1>2, <3>2
    <3>10. BlockOK(y2) /\ (BlockIdle(y) => BlockIdle(y2))
      <4>1. ASSUME NEW j \in 1..Len(p)
            PROVE  /\ TxOK(p[j]) /\ (y.oldStateRoot = NoRoot => Idle(p[j]))
                   /\ BlockIdle(y) => Idle(p[j])
        <5>1. j \in 1..n /\ p[j] = q[j]
          BY <3>8, <3>9
        <5> QED
          BY <1>1, <5>1 DEF BlockOK, BlockIdle
      <4>2. y2.currentTx = IF p = <<>> THEN 0 ELSE Len(p) - 1
        BY <3>4, <3>7, <3>8
      <4> QED
        BY <3>7, <4>1, <4>2 DEF BlockOK, BlockIdle
    <3>11. ASSUME NEW from, BlockLink(y, from, r)
           PROVE  BlockLink(y2, from, r)
      <4>1. PICK f : TxsChain(f, q, from) /\ f[n] = r
        BY <1>1, <3>11 DEF BlockLink
      <4>2. TxLink(q[i], f[i - 1], f[i])
        BY <1>1, <3>2, <4>1 DEF TxsChain
      <4>3. f[i - 1] = r
        BY <1>5, <3>2, <4>2 DEF TxLink
      <4>4. TxsChain(f, p, from)
        BY <1>1, <3>8, <3>9, <4>1 DEF TxsChain
      <4>5. \E h : TxsChain(h, y2.txState, from) /\ h[Len(y2.txState)] = r
        BY <3>7, <3>8, <4>3, <4>4
      <4>6. y2.oldStateRoot \in {NoRoot, from} /\ y2.currentStateRoot = r
        BY <3>7, <3>11 DEF BlockLink
      <4> QED
        BY <3>7, <4>5, <4>6, EndsAt
    <3> QED
      BY <1>1, <3>7, <3>10, <3>11 DEF FinishedBlock
  <2> QED
    BY <2>3, <2>4
<1> QED
  BY <1>6, <1>7, <1>8, <1>9

LEMMA FinishBlockIs ==
    ASSUME NEW b, BatchOK(b), NEW r \in Trees, NEW b2, b2 = finishBlock(b, r)
    PROVE  /\ BatchOK(b2)
           /\ b2.oldStateRoot = b.oldStateRoot /\ b2.dbWriteNodes = b.dbWriteNodes
           /\ Len(b2.blockState) = Len(b.blockState)
           /\ stateManagerPurge =>
                 \A g, a : BlocksChain(g, b.blockState, a) /\ g[Len(b.blockState)] = r
                           => \E h : BlocksChain(h, b2.blockState, a) /\ h[Len(b2.blockState)] = r
<1>1. PICK z, n, b3 : z = b.blockState /\ n = Len(z) /\ b3 = b2
  OBVIOUS
<1>2. /\ b \in BatchStates /\ z \in Seq(BlockStates) /\ b.exists = TRUE /\ n \in Nat
      /\ \A i \in 1..n : z[i] \in BlockStates
  BY <1>1, BatchFacts DEF BatchOK
<1>3. CASE ~HasTx(z)
  <2>1. b3 = b
    <3>1. CASE n = 0
      BY <1>1, <3>1, CurrentIsLast DEF finishBlock
    <3>2. CASE n # 0
      <4>1. n > 0
        BY <1>2, <3>2
      <4>2. b.currentBlock + 1 = n /\ z[n].currentTx >= Len(z[n].txState)
        BY <1>1, <1>3, <4>1, CurrentIsLast
      <4> QED
        BY <1>1, <4>2 DEF finishBlock
    <3> QED
      BY <3>1, <3>2
  <2> QED
    BY <1>1, <2>1
<1>4. CASE HasTx(z)
  <2>1. PICK y, y2, z2 : y = z[n] /\ y2 = finishBlockState(y, r) /\ z2 = [z EXCEPT ![n] = y2]
    OBVIOUS
  <2>2. n > 0 /\ Len(y.txState) > 0
    BY <1>1, <1>4, <2>1 DEF HasTx
  <2>3. b.currentBlock + 1 = n /\ ~(y.currentTx >= Len(y.txState))
    BY <1>1, <1>4, <2>1, <2>2, CurrentIsLast
  <2>4. ~(b.currentBlock >= n)
    BY <1>1, <1>2, <2>2, CurrentIsLast
  <2>5. b3 = [b EXCEPT !.blockState[n] = finishBlockState(@, r)]
    BY <1>1, <1>2, <2>1, <2>3, <2>4 DEF finishBlock
  <2>6. b3 = [b EXCEPT !.blockState = z2]
    BY <1>1, <2>1, <2>5
  <2>7. n \in 1..n /\ y \in BlockStates /\ BlockOK(y)
    <3>1. n \in 1..n
      BY <1>2, <2>2
    <3> QED
      BY <1>1, <1>2, <2>1, <3>1 DEF BatchOK
  <2>8. FinishedBlock(y2, y, r)
    BY <2>1, <2>2, <2>7, FinishBlockStateIs
  <2>9. y2 \in BlockStates /\ BlockOK(y2) /\ (BlockIdle(y) => BlockIdle(y2))
    BY <2>8 DEF FinishedBlock
  <2>10. PICK m \in Nat : n = m + 1
    <3>1. n - 1 \in Nat /\ n = n - 1 + 1
      BY <1>2, <2>2
    <3> QED
      BY <3>1
  <2>11. z2 \in Seq(BlockStates) /\ Then(z2, z, m, y2)
    BY <1>1, <1>2, <2>1, <2>9, <2>10, LastIs
  <2>12. /\ b3 \in BatchStates /\ b3.blockState = z2 /\ b3.currentBlock = b.currentBlock
         /\ b3.oldStateRoot = b.oldStateRoot /\ b3.dbWriteNodes = b.dbWriteNodes
    BY <1>2, <2>6, <2>11 DEF BatchStates
  <2>13. Len(z2) = n /\ z2[n] = y2 /\ (\A i \in 1..m : z2[i] = z[i]) /\ z2 # <<>> /\ z # <<>>
    <3>1. Len(z2) = n /\ z2[n] = y2 /\ (\A i \in 1..m : z2[i] = z[i])
      <4>1. PICK z3 : z3 = z2
        OBVIOUS
      <4>2. Then(z3, z, m, y2)
        BY <2>11, <4>1
      <4> QED
        BY <2>10, <4>1, <4>2 DEF Then
    <3>2. Len(<<>>) = 0
      BY EmptySeq
    <3> QED
      BY <1>1, <2>2, <3>1, <3>2
  <2>14. ASSUME NEW i \in 1..Len(z2)
         PROVE  BlockOK(z2[i]) /\ (b.oldStateRoot = NoRoot => BlockIdle(z2[i]))
    <3>1. i \in 1..n /\ (i \in 1..m \/ i = n)
      BY <2>10, <2>13
    <3> QED
      BY <1>1, <2>1, <2>9, <2>13, <3>1 DEF BatchOK
  <2>15. BatchOK(b3)
    <3>1. b.currentBlock = Len(z2) - 1
      BY <1>1, <2>13 DEF BatchOK
    <3> QED
      BY <2>12, <2>13, <2>14, <3>1 DEF BatchOK
  <2>16. ASSUME stateManagerPurge, NEW g, NEW a, BlocksChain(g, z, a), g[n] = r
         PROVE  \E h : BlocksChain(h, z2, a) /\ h[Len(z2)] = r
    <3>1. BlockLink(y, g[m], r)
      <4>1. n - 1 = m
        BY <2>10
      <4> QED
        BY <1>1, <2>1, <2>7, <2>16, <4>1 DEF BlocksChain
    <3>2. BlockLink(y2, g[m], r) /\ m <= Len(z) /\ Len(z) \in Nat
      BY <1>1, <1>2, <2>8, <2>10, <2>16, <3>1 DEF FinishedBlock
    <3>3. PICK z3 : z3 = z2
      OBVIOUS
    <3>4. Then(z3, z, m, y2) /\ BlocksChain(g, z, a) /\ BlockLink(y2, g[m], r)
      BY <2>11, <2>16, <3>2, <3>3
    <3>5. \E h : BlocksChain(h, z3, a) /\ h[Len(z3)] = r /\ h[m] = g[m]
      BY <3>2, <3>4, BlocksThen
    <3> QED
      BY <3>3, <3>5
  <2>17. stateManagerPurge =>
            \A g, a : BlocksChain(g, z, a) /\ g[n] = r => \E h : BlocksChain(h, z2, a) /\ h[Len(z2)] = r
    BY <2>16
  <2> QED
    BY <1>1, <2>12, <2>13, <2>15, <2>17
<1> QED
  BY <1>3, <1>4

-----------------------------------------------------------------------------
(* The executor                                                            *)

Executors == [phase : {"batch", "block", "tx"}, batches : Nat, workload : Workloads,
              aborted : BOOLEAN, oldRoot : Trees, root : Trees, blocks : Nat, txs : Nat,
              started : Nat, sets : Nat, calls : Seq(Trees), marks : SUBSET Trees]

Idlers == [phase : {"idle"}, batches : Nat]

Flushes == [ok : BOOLEAN, oldRoot : Trees, newRoot : Trees, durable : BOOLEAN]

\* Where the executor e is: LegacyFork, block and tx of BatchExecution.
Legacy(e) == e.workload.fork < 7
BlockNo(e) == IF Legacy(e) THEN e.txs ELSE e.blocks
TxNo(e) == IF Legacy(e) THEN 0 ELSE e.txs
AtWork(e) == e.phase \in (IF Legacy(e) THEN {"batch", "tx"} ELSE {"block", "tx"})

BlocksOf(b) == IF b.exists THEN b.blockState ELSE <<>>
SlotAt(e, b) == SlotOf(BlocksOf(b), BlockNo(e), TxNo(e))
BlockAt(e, b) == BlockOf(BlocksOf(b), BlockNo(e))

\* The roots that the executor may go back to, and last the one it is at.
StackOf(e) == Append(e.calls, e.root)

All(T, x) == \A p \in 1..Len(T) : T[p] = x

\* Every root below another one is the same, or the transaction has left it:
\* whatever call is reverted, finishTx and flush find the root again.
Stacked(T, ts) ==
    /\ Fits(ts, T[Len(T)])
    /\ ~Idle(ts) => \A p, q \in 1..Len(T) : p < q => T[p] = T[q] \/ Left(ts, T[p])

\* A marked root has only itself below it.
Marked(T, marks) == \A p, q \in 1..Len(T) : p < q /\ T[q] \in marks => T[p] = T[q]

\* ts is the transaction of the slot, bk its block.
Nested(e, ts, bk) ==
    /\ Stacked(StackOf(e), ts)
    /\ Marked(StackOf(e), e.marks)
    /\ e.phase = "tx" => /\ e.calls[1] \in e.marks
                         /\ IF Idle(ts) THEN All(StackOf(e), e.root)
                            ELSE ts.oldStateRoot = e.calls[1]
    /\ AtWork(e) /\ Idle(ts) => e.root \in e.marks
    /\ bk.oldStateRoot # NoRoot =>
          /\ bk.oldStateRoot \in e.marks
          /\ bk.currentStateRoot = bk.oldStateRoot => All(StackOf(e), bk.oldStateRoot)

\* The slot is at the end of the batch, and no block is open between blocks.
Placed(e, z) ==
    /\ e.phase = "block" => ~Legacy(e)
    /\ e.phase = "tx" <=> Len(e.calls) > 0
    /\ Reaches(z, BlockNo(e), TxNo(e))
    /\ e.phase = "batch" /\ ~Legacy(e) => Len(z) <= e.blocks

\* What has not been reverted leads from the old root of the batch to the root
\* of the executor, but for what the current transaction may still revert.
Linked(e, b, ts) ==
    /\ b.exists => b.oldStateRoot \in {NoRoot, e.oldRoot}
    /\ \E g : /\ BlocksChain(g, BlocksOf(b), e.oldRoot)
              /\ e.phase # "tx" \/ Idle(ts) => g[Len(BlocksOf(b))] = e.root

Live(e, b) ==
    /\ Placed(e, BlocksOf(b))
    /\ Nested(e, SlotAt(e, b), BlockAt(e, b))
    /\ stateManagerPurge => Linked(e, b, SlotAt(e, b))

IsBatch(b) == b = NoBatch \/ BatchOK(b)

\* What the executor e, the batch b and the last flush l have to do with each
\* other; an aborted batch has only its old root left.
Good(e, b, l) ==
    \/ e \in Idlers /\ b = NoBatch
    \/ /\ e \in Executors /\ e.oldRoot = l.newRoot
       /\ IF e.aborted THEN All(StackOf(e), e.oldRoot) ELSE Live(e, b)

\* The inductive invariant.
Inv ==
    /\ IsBatch(batch)
    /\ lastFlush \in Flushes
    /\ Good(exec, batch, lastFlush)

LEMMA StackFacts ==
    ASSUME NEW e \in Executors
    PROVE  /\ e.calls \in Seq(Trees) /\ Len(e.calls) \in Nat
           /\ StackOf(e) \in Seq(Trees) /\ Len(StackOf(e)) = Len(e.calls) + 1
           /\ \A p \in 1..Len(e.calls) : StackOf(e)[p] = e.calls[p]
           /\ StackOf(e)[Len(e.calls) + 1] = e.root
           /\ \A p \in 1..Len(e.calls) + 1 : StackOf(e)[p] \in Trees
<1>1. PICK c, r, T : c = e.calls /\ r = e.root /\ T = StackOf(e)
  OBVIOUS
<1>2. c \in Seq(Trees) /\ r \in Trees
  BY <1>1 DEF Executors
<1>3. T = Append(c, r)
  BY <1>1 DEF StackOf
<1>4. T \in Seq(Trees) /\ Then(T, c, Len(c), r)
  BY <1>2, <1>3, AppendIs
<1>5. Len(c) \in Nat
  BY <1>2, LenProperties
<1>6. Len(T) = Len(c) + 1 /\ (\A p \in 1..Len(c) : T[p] = c[p]) /\ T[Len(c) + 1] = r
  BY <1>4 DEF Then
<1>7. \A p \in 1..Len(c) + 1 : T[p] \in Trees
  BY <1>4, <1>6, ElementOfSeq
<1> QED
  BY <1>1, <1>2, <1>4, <1>5, <1>6, <1>7

\* Every root of T2 is one of T, in the same order.
Drawn(T2, T) ==
    \E m : /\ \A p \in 1..Len(T2) : m[p] \in 1..Len(T) /\ T2[p] = T[m[p]]
           /\ \A p, q \in 1..Len(T2) : p < q => m[p] <= m[q]

LEMMA DrawnKeeps ==
    ASSUME NEW T, NEW T2, Drawn(T2, T), Len(T) \in Nat, Len(T2) \in Nat \ {0}, NEW ts
    PROVE  /\ Stacked(T, ts) => Stacked(T2, ts)
           /\ \A marks : Marked(T, marks) => Marked(T2, marks)
           /\ \A x : All(T, x) => All(T2, x)
<1>1. PICK m : /\ \A p \in 1..Len(T2) : m[p] \in 1..Len(T) /\ T2[p] = T[m[p]]
               /\ \A p, q \in 1..Len(T2) : p < q => m[p] <= m[q]
  BY DEF Drawn
<1>2. PICK n, n2 : n = Len(T) /\ n2 = Len(T2)
  OBVIOUS
<1>3. \A p, q \in 1..n2 : p < q => m[p] = m[q] \/ m[p] < m[q]
  BY <1>1, <1>2
<1>4. \A x : All(T, x) => All(T2, x)
  BY <1>1 DEF All
<1>5. ASSUME NEW marks, Marked(T, marks)
      PROVE  Marked(T2, marks)
  BY <1>1, <1>2, <1>3, <1>5 DEF Marked
<1>6. ASSUME Stacked(T, ts)
      PROVE  Stacked(T2, ts)
  <2>1. ASSUME ~Idle(ts), NEW p \in 1..n2, NEW q \in 1..n2, p < q
        PROVE  T2[p] = T2[q] \/ Left(ts, T2[p])
    BY <1>1, <1>2, <1>3, <1>6, <2>1 DEF Stacked
  <2>2. n2 \in 1..n2 /\ m[n2] \in 1..n /\ (m[n2] = n \/ (m[n2] < n /\ n \in 1..n))
    <3>1. n2 \in 1..n2
      BY <1>2
    <3>2. m[n2] \in 1..n
      BY <1>1, <1>2, <3>1
    <3> QED
      BY <1>2, <3>1, <3>2
  <2>3. Fits(ts, T2[n2])
    <3>1. T2[n2] = T[m[n2]] /\ Fits(ts, T[n])
      BY <1>1, <1>2, <1>6, <2>2 DEF Stacked
    <3>2. CASE Idle(ts)
      BY <3>2 DEF Fits
    <3>3. CASE ~Idle(ts)
      <4>1. T[m[n2]] = T[n] \/ Left(ts, T[m[n2]])
        BY <1>2, <1>6, <2>2, <3>3 DEF Stacked
      <4> QED
        BY <3>1, <4>1 DEF Fits
    <3> QED
      BY <3>2, <3>3
  <2> QED
    BY <1>2, <2>1, <2>3 DEF Stacked
<1> QED
  BY <1>4, <1>5, <1>6

\* A stack of one root, at the start of a batch, a block or a transaction.
LEMMA NestedAfresh ==
    ASSUME NEW e \in Executors, All(StackOf(e), e.root), NEW ts, Idle(ts), NEW bk,
           e.phase = "tx" => Len(e.calls) > 0,
           AtWork(e) \/ e.phase = "tx" => e.root \in e.marks,
           bk.oldStateRoot # NoRoot => /\ bk.oldStateRoot \in e.marks
                                       /\ bk.currentStateRoot = bk.oldStateRoot => bk.oldStateRoot = e.root
    PROVE  Nested(e, ts, bk)
<1>1. PICK T, n, r : T = StackOf(e) /\ n = Len(e.calls) /\ r = e.root
  OBVIOUS
<1>2. /\ n \in Nat /\ Len(T) = n + 1 /\ (\A p \in 1..n : T[p] = e.calls[p])
      /\ \A p \in 1..n + 1 : T[p] = r
  BY <1>1, StackFacts DEF All
<1>3. Stacked(T, ts)
  BY DEF Stacked, Fits
<1>4. Marked(T, e.marks)
  BY <1>2 DEF Marked
<1>5. e.phase = "tx" => e.calls[1] = r
  <2>1. ASSUME n > 0
        PROVE  1 \in 1..n /\ 1 \in 1..n + 1
    BY <1>2, <2>1
  <2> QED
    BY <1>1, <1>2, <2>1
<1> QED
  BY <1>1, <1>3, <1>4, <1>5 DEF Nested

\* Calling, returning and reverting.
LEMMA NestedDrawn ==
    ASSUME NEW e \in Executors, NEW e2 \in Executors, NEW ts, NEW bk, Nested(e, ts, bk),
           Drawn(StackOf(e2), StackOf(e)), e.phase = "tx", e2.phase = "tx",
           Len(e.calls) > 0, Len(e2.calls) > 0, e2.calls[1] = e.calls[1],
           e2.workload = e.workload, e2.marks = e.marks
    PROVE  Nested(e2, ts, bk)
<1>1. PICK T, T2, n2 : T = StackOf(e) /\ T2 = StackOf(e2) /\ n2 = Len(e2.calls)
  OBVIOUS
<1>2. /\ Len(T) \in Nat /\ n2 \in Nat /\ Len(T2) = n2 + 1 /\ T2[n2 + 1] = e2.root
  BY <1>1, StackFacts
<1>3. Len(T2) \in Nat \ {0} /\ n2 + 1 \in 1..Len(T2)
  BY <1>2
<1>4. /\ Stacked(T, ts) => Stacked(T2, ts)
      /\ \A marks : Marked(T, marks) => Marked(T2, marks)
      /\ \A x : All(T, x) => All(T2, x)
  BY <1>1, <1>2, <1>3, DrawnKeeps
<1>5. \A x : All(T2, x) => e2.root = x
  BY <1>2, <1>3 DEF All
<1>6. AtWork(e2) /\ AtWork(e)
  BY DEF AtWork, Legacy
<1> QED
  BY <1>1, <1>4, <1>5, <1>6 DEF Nested

LEMMA NestedFinished ==
    ASSUME NEW e \in Executors, NEW e2 \in Executors, NEW ts, NEW bk, Nested(e, ts, bk),
           e.phase = "tx", Len(e.calls) > 0, e2.phase # "tx", e2.calls = <<>>,
           e2.workload = e.workload, e2.marks = e.marks,
           Drawn(StackOf(e2), StackOf(e)),
           NEW ts2, FinishedTx(ts2, ts, e2.root),
           NEW bk2, bk2.oldStateRoot = bk.oldStateRoot, bk2.currentStateRoot = bk.currentStateRoot
    PROVE  Nested(e2, ts2, bk2)
<1>1. PICK T, T2, final : T = StackOf(e) /\ T2 = StackOf(e2) /\ final = e2.root
  OBVIOUS
<1>2. Len(T) \in Nat /\ Len(T2) = 1 /\ T2[1] = final
  <2>1. Len(e2.calls) = 0 /\ 0 + 1 = 1
    BY EmptySeq
  <2>2. Len(T2) = 1 /\ T2[1] = final
    BY <1>1, <2>1, StackFacts
  <2>3. Len(T) \in Nat
    BY <1>1, StackFacts
  <2> QED
    BY <2>2, <2>3
<1>3. Len(T2) \in Nat \ {0} /\ 1 \in 1..Len(T2) /\ \A p \in 1..Len(T2) : p = 1
  BY <1>2
<1>4. /\ Stacked(T, ts) => Stacked(T2, ts)
      /\ \A x : All(T, x) => All(T2, x)
  BY <1>1, <1>2, <1>3, DrawnKeeps
<1>5. Fits(ts, final)
  BY <1>1, <1>2, <1>4 DEF Nested, Stacked
<1>6. Fits(ts2, final)
  BY <1>1, <1>5 DEF FinishedTx, Fits
<1>7. Stacked(T2, ts2) /\ Marked(T2, e2.marks)
  <2>1. \A p, q \in 1..Len(T2) : ~(p < q)
    BY <1>3
  <2> QED
    BY <1>2, <1>6, <2>1 DEF Stacked, Marked
<1>8. ASSUME Idle(ts2)
      PROVE  final \in e.marks
  <2>1. CASE Idle(ts)
    <3>1. All(T, e.root) /\ e.calls[1] \in e.marks
      BY <1>1, <2>1 DEF Nested
    <3>2. T[1] = e.calls[1] /\ 1 \in 1..Len(T)
      <4>1. 1 \in 1..Len(e.calls) /\ 1 \in 1..Len(e.calls) + 1
        BY StackFacts
      <4> QED
        BY <1>1, <4>1, StackFacts
    <3>3. final = e.root /\ e.calls[1] = e.root
      BY <1>2, <1>3, <1>4, <3>1, <3>2 DEF All
    <3> QED
      BY <3>1, <3>3
  <2>2. CASE ~Idle(ts)
    <3>1. ts.oldStateRoot = e.calls[1] /\ e.calls[1] \in e.marks
      BY <2>2 DEF Nested
    <3>2. ts2.oldStateRoot = ts2.newStateRoot /\ ts2.oldStateRoot = ts.oldStateRoot
      BY <1>8 DEF FinishedTx, TxOK, Idle
    <3>3. ts2.newStateRoot = final
      BY <1>1, <1>5, <1>8, <2>2 DEF FinishedTx
    <3> QED
      BY <3>1, <3>2, <3>3
  <2> QED
    BY <2>1, <2>2
<1>9. bk.oldStateRoot # NoRoot =>
          /\ bk.oldStateRoot \in e.marks
          /\ bk.currentStateRoot = bk.oldStateRoot => All(T2, bk.oldStateRoot)
  BY <1>1, <1>4 DEF Nested
<1> QED
  BY <1>1, <1>7, <1>8, <1>9 DEF Nested

LEMMA NestedSet ==
    ASSUME NEW e \in Executors, NEW e2 \in Executors, NEW k \in Keys, NEW v \in Values,
           NEW ts, NEW bk, Nested(e, ts, bk), bk.oldStateRoot \in Roots,
           ~Idle(ts) => bk.oldStateRoot # NoRoot,
           AtWork(e), e.phase = "tx" <=> Len(e.calls) > 0,
           e2.root = set(e.root, k, v).newRoot, e2.root \notin e.marks \/ e2.root = e.root,
           e2.phase = e.phase, e2.calls = e.calls, e2.workload = e.workload, e2.marks = e.marks,
           NEW ts2, AddedTx(ts2, ts, e.root, k, v),
           NEW bk2, bk2.oldStateRoot = FirstRoot(bk.oldStateRoot, e.root),
           bk2.currentStateRoot = e2.root
    PROVE  Nested(e2, ts2, bk2)
<1>1. PICK T, T2, n, c, root, new, marks : /\ T = StackOf(e) /\ T2 = StackOf(e2) /\ n = Len(e.calls)
                                 /\ c = e.calls /\ root = e.root /\ new = e2.root /\ marks = e.marks
  OBVIOUS
<1>2. /\ n \in Nat /\ Len(T) = n + 1 /\ Len(T2) = n + 1
      /\ (\A p \in 1..n : T[p] = c[p] /\ T2[p] = c[p])
      /\ T[n + 1] = root /\ T2[n + 1] = new /\ root \in Trees
  BY <1>1, StackFacts DEF Executors
<1>3. /\ Stacked(T, ts) /\ Marked(T, marks)
      /\ e.phase = "tx" => /\ c[1] \in marks
                           /\ IF Idle(ts) THEN All(T, root) ELSE ts.oldStateRoot = c[1]
      /\ Idle(ts) => root \in marks
      /\ bk.oldStateRoot # NoRoot => bk.oldStateRoot \in marks
  BY <1>1 DEF Nested
<1>4. /\ ~Idle(ts2) /\ ts2.newStateRoot = new /\ Left(ts2, root)
      /\ ts2.oldStateRoot = (IF Idle(ts) THEN root ELSE ts.oldStateRoot)
      /\ \A r : ~Idle(ts) /\ Left(ts, r) => Left(ts2, r)
  BY <1>1 DEF AddedTx
<1>5. /\ n + 1 \in 1..n + 1
      /\ \A p \in 1..n : p \in 1..n + 1 /\ p < n + 1 /\ n > 0
      /\ \A p, q \in 1..n + 1 : p < q => p \in 1..n
      /\ \A p \in 1..n + 1 : p \in 1..n \/ p = n + 1
  BY <1>2
<1>6. ASSUME NEW p \in 1..n
      PROVE  T2[p] = T[p] /\ Left(ts2, T[p])
  <2>1. T2[p] = T[p]
    BY <1>2
  <2>2. CASE Idle(ts)
    <3>1. T[p] = root
      BY <1>1, <1>2, <1>3, <1>5, <2>2 DEF All
    <3> QED
      BY <1>4, <2>1, <3>1
  <2>3. CASE ~Idle(ts)
    <3>1. T[p] = root \/ Left(ts, T[p])
      BY <1>2, <1>3, <1>5, <2>3 DEF Stacked
    <3> QED
      BY <1>4, <2>1, <2>3, <3>1
  <2> QED
    BY <2>2, <2>3
<1>7. Stacked(T2, ts2)
  <2>1. Fits(ts2, T2[Len(T2)])
    BY <1>2, <1>4 DEF Fits
  <2>2. ASSUME NEW p \in 1..Len(T2), NEW q \in 1..Len(T2), p < q
        PROVE  Left(ts2, T2[p])
    BY <1>2, <1>5, <1>6, <2>2
  <2> QED
    BY <2>1, <2>2 DEF Stacked
<1>8. ASSUME new \in marks
      PROVE  All(T2, new)
  <2>1. new = root
    BY <1>1, <1>8
  <2>2. ASSUME NEW p \in 1..n
        PROVE  T[p] = root
    BY <1>2, <1>3, <1>5, <1>8, <2>1 DEF Marked
  <2> QED
    BY <1>2, <1>5, <1>6, <2>1, <2>2 DEF All
<1>9. Marked(T2, marks)
  <2>1. ASSUME NEW p \in 1..Len(T2), NEW q \in 1..Len(T2), p < q, T2[q] \in marks
        PROVE  T2[p] = T2[q]
    <3>1. CASE q = n + 1
      BY <1>2, <1>8, <2>1, <3>1 DEF All
    <3>2. CASE q # n + 1
      <4>1. q \in 1..n /\ p \in 1..n /\ p \in 1..n + 1 /\ q \in 1..n + 1
        BY <1>2, <1>5, <2>1, <3>2
      <4>2. T2[p] = T[p] /\ T2[q] = T[q]
        BY <1>6, <4>1
      <4> QED
        BY <1>2, <1>3, <2>1, <4>1, <4>2 DEF Marked
    <3> QED
      BY <3>1, <3>2
  <2> QED
    BY <2>1 DEF Marked
<1>10. ASSUME e.phase = "tx"
       PROVE  c[1] \in marks /\ ts2.oldStateRoot = c[1]
  <2>1. 1 \in 1..n
    BY <1>1, <1>2, <1>10
  <2>2. Idle(ts) => c[1] = root
    BY <1>2, <1>3, <1>5, <1>10, <2>1 DEF All
  <2> QED
    BY <1>3, <1>4, <1>10, <2>2
<1>11. bk2.oldStateRoot \in marks
  <2>1. bk2.oldStateRoot = IF bk.oldStateRoot = NoRoot THEN root ELSE bk.oldStateRoot
    BY <1>1, <1>2, FirstRootFacts
  <2> QED
    BY <1>3, <2>1
<1>12. bk2.currentStateRoot = bk2.oldStateRoot => All(T2, bk2.oldStateRoot)
  BY <1>1, <1>8, <1>11
<1> QED
  BY <1>1, <1>4, <1>7, <1>9, <1>10, <1>11, <1>12 DEF Nested

\* What the steps of the executor do to its stack.
LEMMA CallDraws ==
    ASSUME NEW e \in Executors, NEW e2 \in Executors, e2.root = e.root,
           e2.calls = Append(e.calls, e.root)
    PROVE  /\ Drawn(StackOf(e2), StackOf(e)) /\ Len(e2.calls) = Len(e.calls) + 1
           /\ Len(e.calls) > 0 => e2.calls[1] = e.calls[1]
<1>1. PICK T, T2, n, c, c2 : /\ T = StackOf(e) /\ T2 = StackOf(e2) /\ n = Len(e.calls)
                             /\ c = e.calls /\ c2 = e2.calls
  OBVIOUS
<1>2. /\ n \in Nat /\ Len(T) = n + 1 /\ (\A p \in 1..n : T[p] = c[p]) /\ T[n + 1] = e.root
      /\ c \in Seq(Trees) /\ e.root \in Trees
  BY <1>1, StackFacts DEF Executors
<1>3. Then(c2, c, n, e.root)
  BY <1>1, <1>2, AppendIs
<1>4. Len(c2) = n + 1 /\ (\A p \in 1..n : c2[p] = c[p]) /\ c2[n + 1] = e.root
  BY <1>3 DEF Then
<1>5. /\ Len(T2) = Len(c2) + 1 /\ (\A p \in 1..Len(c2) : T2[p] = c2[p]) /\ T2[Len(c2) + 1] = e2.root
  BY <1>1, StackFacts
<1>6. Len(T2) = n + 2 /\ (\A p \in 1..n + 1 : T2[p] = c2[p]) /\ T2[n + 2] = e.root
  <2>1. n + 1 + 1 = n + 2
    BY <1>2
  <2> QED
    BY <1>4, <1>5, <2>1
<1> DEFINE m == [p \in 1..n + 2 |-> IF p <= n + 1 THEN p ELSE n + 1]
<1>7. ASSUME NEW p \in 1..n + 2
      PROVE  m[p] \in 1..n + 1 /\ T2[p] = T[m[p]]
  <2>1. CASE p \in 1..n
    <3>1. m[p] = p /\ p \in 1..n + 1
      BY <1>2, <2>1
    <3> QED
      BY <1>2, <1>4, <1>6, <2>1, <3>1
  <2>2. CASE p = n + 1
    <3>1. m[p] = n + 1 /\ n + 1 \in 1..n + 1
      BY <1>2, <2>2
    <3> QED
      BY <1>2, <1>4, <1>6, <2>2, <3>1
  <2>3. CASE p = n + 2
    <3>1. m[p] = n + 1 /\ n + 1 \in 1..n + 1
      BY <1>2, <2>3
    <3> QED
      BY <1>2, <1>6, <2>3, <3>1
  <2> QED
    BY <1>2, <2>1, <2>2, <2>3
<1>8. \A p, q \in 1..n + 2 : p < q => m[p] <= m[q]
  BY <1>2
<1> HIDE DEF m
<1>9. Drawn(T2, T)
  BY <1>2, <1>6, <1>7, <1>8 DEF Drawn
<1>10. n > 0 => c2[1] = c[1]
  BY <1>2, <1>4
<1> QED
  BY <1>1, <1>4, <1>9, <1>10

LEMMA FrontIs ==
    ASSUME NEW S, NEW s \in Seq(S), Len(s) > 1
    PROVE  Front(s) \in Seq(S) /\ Begins(Front(s), s, Len(s) - 1)
<1>1. Len(s) - 1 \in 0..Len(s)
  BY LenProperties
<1> QED
  BY <1>1, PrefixIs DEF Front

LEMMA ReturnDraws ==
    ASSUME NEW e \in Executors, NEW e2 \in Executors, Len(e.calls) > 1,
           e2.root = e.root \/ e2.root = Last(e.calls), e2.calls = Front(e.calls)
    PROVE  /\ Drawn(StackOf(e2), StackOf(e)) /\ Len(e2.calls) > 0
           /\ e2.calls[1] = e.calls[1]
<1>1. PICK T, T2, n, c, c2 : /\ T = StackOf(e) /\ T2 = StackOf(e2) /\ n = Len(e.calls)
                             /\ c = e.calls /\ c2 = e2.calls
  OBVIOUS
<1>2. /\ n \in Nat /\ n > 1 /\ Len(T) = n + 1 /\ (\A p \in 1..n : T[p] = c[p]) /\ T[n + 1] = e.root
      /\ c \in Seq(Trees)
  BY <1>1, StackFacts
<1>3. Begins(c2, c, n - 1)
  BY <1>1, <1>2, FrontIs
<1>4. Len(c2) = n - 1 /\ \A p \in 1..n - 1 : c2[p] = c[p]
  BY <1>3 DEF Begins
<1>5. /\ Len(T2) = Len(c2) + 1 /\ (\A p \in 1..Len(c2) : T2[p] = c2[p]) /\ T2[Len(c2) + 1] = e2.root
  BY <1>1, StackFacts
<1>6. Len(T2) = n /\ (\A p \in 1..n - 1 : T2[p] = c[p]) /\ T2[n] = e2.root
  <2>1. n - 1 + 1 = n
    BY <1>2
  <2> QED
    BY <1>4, <1>5, <2>1
<1>7. e2.root = T[n + 1] \/ e2.root = T[n]
  <2>1. n \in 1..n /\ Last(c) = c[n]
    BY <1>1, <1>2 DEF Last
  <2> QED
    BY <1>1, <1>2, <2>1
<1> DEFINE m == [p \in 1..n |-> IF p < n THEN p ELSE IF e2.root = T[n] THEN n ELSE n + 1]
<1>8. ASSUME NEW p \in 1..n
      PROVE  m[p] \in 1..n + 1 /\ T2[p] = T[m[p]]
  <2>1. CASE p \in 1..n - 1
    <3>1. m[p] = p /\ p \in 1..n + 1
      BY <1>2, <2>1
    <3> QED
      BY <1>2, <1>6, <2>1, <3>1
  <2>2. CASE p = n
    <3>1. m[n] = IF e2.root = T[n] THEN n ELSE n + 1
      BY <1>2
    <3>2. n \in 1..n + 1 /\ n + 1 \in 1..n + 1
      BY <1>2
    <3> QED
      BY <1>6, <1>7, <2>2, <3>1, <3>2
  <2> QED
    BY <1>2, <2>1, <2>2
<1>9. \A p, q \in 1..n : p < q => m[p] <= m[q]
  BY <1>2
<1> HIDE DEF m
<1>10. Drawn(T2, T)
  BY <1>2, <1>6, <1>8, <1>9 DEF Drawn
<1>11. Len(c2) > 0 /\ c2[1] = c[1]
  <2>1. n - 1 > 0 /\ 1 \in 1..n - 1
    BY <1>2
  <2> QED
    BY <1>4, <2>1
<1> QED
  BY <1>1, <1>10, <1>11

LEMMA FinishDraws ==
    ASSUME NEW e \in Executors, NEW e2 \in Executors, Len(e.calls) = 1,
           e2.root = e.root \/ e2.root = e.calls[1], e2.calls = <<>>
    PROVE  Drawn(StackOf(e2), StackOf(e))
<1>1. PICK T, T2 : T = StackOf(e) /\ T2 = StackOf(e2)
  OBVIOUS
<1>2. Len(T) = 2 /\ T[1] = e.calls[1] /\ T[2] = e.root
  <2>1. 1 + 1 = 2 /\ 1 \in 1..1
    OBVIOUS
  <2> QED
    BY <1>1, <2>1, StackFacts
<1>3. Len(T2) = 1 /\ T2[1] = e2.root
  <2>1. Len(e2.calls) = 0 /\ 0 + 1 = 1
    BY EmptySeq
  <2> QED
    BY <1>1, <2>1, StackFacts
<1> DEFINE m == [p \in 1..1 |-> IF e2.root = T[1] THEN 1 ELSE 2]
<1>4. ASSUME NEW p \in 1..1
      PROVE  m[p] \in 1..2 /\ T2[p] = T[m[p]]
  BY <1>2, <1>3
<1>5. \A p, q \in 1..1 : ~(p < q)
  OBVIOUS
<1> HIDE DEF m
<1> QED
  BY <1>1, <1>2, <1>3, <1>4, <1>5 DEF Drawn

-----------------------------------------------------------------------------
(* Every step keeps the executor and its batch in order                    *)

LEMMA FoundFacts ==
    ASSUME NEW b, IsBatch(b)
    PROVE  /\ BatchOK(Found(b)) /\ Found(b).exists = TRUE
           /\ Found(b).blockState = BlocksOf(b) /\ BlocksOf(Found(b)) = BlocksOf(b)
           /\ BlocksOf(b) \in Seq(BlockStates)
           /\ b.exists => Found(b) = b /\ BatchOK(b)
           /\ ~b.exists => b = NoBatch /\ Found(b).oldStateRoot = NoRoot /\ Found(b).dbWriteNodes = {}
<1>1. CASE b = NoBatch
  <2>1. b.exists = FALSE /\ Found(b) = EmptyBatch
    BY <1>1 DEF NoBatch, Found
  <2>2. PICK e, x : e = <<>> /\ x = EmptyBatch
    OBVIOUS
  <2>3. e \in Seq(BlockStates) /\ Len(e) = 0 /\ 1..Len(e) = {}
    BY <2>2, EmptySeq
  <2>4. x = [exists |-> TRUE, oldStateRoot |-> NoRoot,
             currentStateRoot |-> NoRoot, currentBlock |-> 0, blockState |-> e,
             dbWriteNodes |-> {}, dbWritePrograms |-> {}]
    BY <2>2 DEF EmptyBatch
  <2>5. /\ x \in BatchStates /\ x.blockState = e /\ x.currentBlock = 0 /\ x.exists = TRUE
        /\ x.oldStateRoot = NoRoot /\ x.dbWriteNodes = {}
    BY <2>3, <2>4 DEF BatchStates, Roots
  <2>6. BatchOK(x)
    BY <2>2, <2>3, <2>5 DEF BatchOK
  <2> QED
    BY <1>1, <2>1, <2>2, <2>3, <2>5, <2>6 DEF BlocksOf
<1>2. CASE b # NoBatch
  <2>1. BatchOK(b)
    BY <1>2 DEF IsBatch
  <2>2. b \in BatchStates
    BY <2>1 DEF BatchOK
  <2>3. b.exists = TRUE /\ b.blockState \in Seq(BlockStates)
    BY <2>2, BatchFacts
  <2> QED
    BY <2>1, <2>3 DEF Found, BlocksOf
<1> QED
  BY <1>1, <1>2

LEMMA SlotFacts ==
    ASSUME NEW b, BatchOK(b), NEW z, z = b.blockState, NEW nb \in Nat, NEW nt \in Nat
    PROVE  /\ SlotOf(z, nb, nt) \in TxStates /\ TxOK(SlotOf(z, nb, nt))
           /\ BlockOf(z, nb) \in BlockStates
           /\ ~Idle(SlotOf(z, nb, nt)) =>
                 /\ BlockOf(z, nb).oldStateRoot # NoRoot /\ b.oldStateRoot # NoRoot
                 /\ Reaches(z, nb, nt) => IsLastSlot(z, nb, nt)
<1>1. /\ b \in BatchStates /\ Len(z) \in Nat /\ \A i \in 1..Len(z) : z[i] \in BlockStates
  <2>1. b \in BatchStates
    BY DEF BatchOK
  <2> QED
    BY <2>1, BatchFacts
<1>2. CASE nb < Len(z)
  <2>1. PICK y : y = z[nb + 1]
    OBVIOUS
  <2>2. nb + 1 \in 1..Len(z)
    BY <1>1, <1>2
  <2>3. y \in BlockStates /\ BlockOK(y) /\ (b.oldStateRoot = NoRoot => BlockIdle(y)) /\ BlockOf(z, nb) = y
    BY <1>1, <1>2, <2>1, <2>2 DEF BatchOK, BlockOf
  <2>4. Len(y.txState) \in Nat /\ \A j \in 1..Len(y.txState) : y.txState[j] \in TxStates
    BY <2>3, BlockFacts
  <2>5. CASE nt < Len(y.txState)
    <3>1. nt + 1 \in 1..Len(y.txState) /\ SlotOf(z, nb, nt) = y.txState[nt + 1]
      BY <1>2, <2>1, <2>4, <2>5 DEF SlotOf
    <3>2. Reaches(z, nb, nt) => Len(z) = nb + 1 /\ Len(y.txState) = nt + 1
      BY <1>1, <1>2, <2>1, <2>4, <2>5 DEF Reaches
    <3> QED
      BY <2>1, <2>3, <2>4, <3>1, <3>2 DEF BlockOK, BlockIdle, IsLastSlot
  <2>6. CASE ~(nt < Len(y.txState))
    <3>1. SlotOf(z, nb, nt) = EmptyTx
      BY <2>1, <2>6 DEF SlotOf
    <3> QED
      BY <2>3, <3>1, EmptyTxFacts
  <2> QED
    BY <2>5, <2>6
<1>3. CASE ~(nb < Len(z))
  <2>1. SlotOf(z, nb, nt) = EmptyTx /\ BlockOf(z, nb) = EmptyBlock
    BY <1>3 DEF SlotOf, BlockOf
  <2> QED
    BY <2>1, EmptyTxFacts, EmptyBlockFacts
<1> QED
  BY <1>2, <1>3

LEMMA NumberFacts ==
    ASSUME NEW e \in Executors
    PROVE  BlockNo(e) \in Nat /\ TxNo(e) \in Nat
  BY DEF Executors, BlockNo, TxNo

\* A chain of blocks with nothing to flush is at the old root of the batch.
LEMMA NothingSet ==
    ASSUME NEW b, BatchOK(b), b.oldStateRoot = NoRoot, NEW g, NEW a, BlocksChain(g, b.blockState, a)
    PROVE  g[Len(b.blockState)] = a
<1>1. PICK z : z = b.blockState
  OBVIOUS
<1>2. b \in BatchStates
  BY DEF BatchOK
<1>3. Len(z) \in Nat /\ \A i \in 1..Len(z) : z[i] \in BlockStates
  BY <1>1, <1>2, BatchFacts
<1>4. \A i \in 1..Len(z) : Len(z[i].txState) \in Nat /\ BlockIdle(z[i])
  BY <1>1, <1>3, BlockFacts DEF BatchOK
<1> QED
  BY <1>1, <1>3, <1>4, IdleBlocks

LEMMA SetIsLive ==
    ASSUME NEW b, IsBatch(b), NEW e \in Executors, NEW e2 \in Executors, Live(e, b),
           NEW k \in Keys, NEW v \in Values, AtWork(e),
           v \in Programs => v \in SlotAt(e, b).dbWritePrograms,
           e2.root = set(e.root, k, v).newRoot, e2.root \notin e.marks \/ e2.root = e.root,
           e2.phase = e.phase, e2.calls = e.calls, e2.workload = e.workload, e2.marks = e.marks,
           e2.blocks = e.blocks, e2.txs = e.txs, e2.oldRoot = e.oldRoot,
           NEW b2, b2 = setStateRoots(Found(b), BlockNo(e), TxNo(e), e.root, k, v)
    PROVE  BatchOK(b2) /\ Live(e2, b2) /\ b2.dbWriteNodes = Found(b).dbWriteNodes \cup set(e.root, k, v).writes
<1>1. PICK f, z, z2, nb, nt, ts, ts2, bk, bk2, root :
         /\ f = Found(b) /\ z = BlocksOf(b) /\ z2 = b2.blockState /\ nb = BlockNo(e) /\ nt = TxNo(e)
         /\ ts = SlotOf(z, nb, nt) /\ ts2 = SlotOf(z2, nb, nt)
         /\ bk = BlockOf(z, nb) /\ bk2 = BlockOf(z2, nb) /\ root = e.root
  OBVIOUS
<1>2. BatchOK(f) /\ z = f.blockState /\ nb \in Nat /\ nt \in Nat /\ root \in Trees
  BY <1>1, FoundFacts, NumberFacts DEF Executors
<1>3. Placed(e, z) /\ Nested(e, ts, bk) /\ (stateManagerPurge => Linked(e, b, ts))
  BY <1>1 DEF Live, SlotAt, BlockAt
<1>4. Reaches(z, nb, nt) /\ Fits(ts, root) /\ (e.phase = "tx" <=> Len(e.calls) > 0)
  <2>1. Stacked(StackOf(e), ts)
    BY <1>3 DEF Nested
  <2>2. Fits(ts, root)
    BY <1>1, <2>1, StackFacts DEF Stacked
  <2> QED
    BY <1>1, <1>3, <2>2 DEF Placed
<1>5. v \in Programs => v \in ts.dbWritePrograms
  BY <1>1 DEF SlotAt
<1>6. SetInBatch(b2, f, nb, nt, root, k, v)
  <2>1. PICK c : c = setStateRoots(f, nb, nt, root, k, v)
    OBVIOUS
  <2>2. SetInBatch(c, f, nb, nt, root, k, v)
    BY <1>1, <1>2, <1>4, <1>5, <2>1, SetStateRootsIs
  <2> QED
    BY <1>1, <2>1, <2>2
<1>7. /\ BatchOK(b2) /\ IsLastSlot(z2, nb, nt)
      /\ b2.oldStateRoot = FirstRoot(f.oldStateRoot, root)
      /\ b2.dbWriteNodes = f.dbWriteNodes \cup set(root, k, v).writes
      /\ AddedTx(ts2, ts, root, k, v)
      /\ bk2.oldStateRoot = FirstRoot(bk.oldStateRoot, root)
      /\ bk2.currentStateRoot = e2.root
  BY <1>1, <1>2, <1>6 DEF SetInBatch
<1>8. BlockNo(e2) = nb /\ TxNo(e2) = nt /\ Legacy(e2) = Legacy(e) /\ BlocksOf(b2) = z2
  <2>1. b2 \in BatchStates
    BY <1>7 DEF BatchOK
  <2>2. b2.exists = TRUE
    BY <2>1, BatchFacts
  <2> QED
    BY <1>1, <2>2 DEF BlockNo, TxNo, Legacy, BlocksOf
<1>9. Placed(e2, z2)
  <2>1. Reaches(z2, nb, nt)
    BY <1>2, <1>7 DEF Reaches, IsLastSlot
  <2>2. ~(e.phase = "batch" /\ ~Legacy(e))
    BY DEF AtWork
  <2> QED
    BY <1>3, <1>8, <2>1, <2>2 DEF Placed
<1>10. Nested(e2, ts2, bk2)
  <2>1. bk \in BlockStates /\ (~Idle(ts) => bk.oldStateRoot # NoRoot)
    BY <1>1, <1>2, SlotFacts
  <2>2. bk.oldStateRoot \in Roots
    BY <2>1, BlockFacts
  <2> QED
    BY <1>1, <1>3, <1>4, <1>7, <2>1, <2>2, NestedSet
<1>11. ASSUME stateManagerPurge
       PROVE  Linked(e2, b2, ts2)
  <2>1. PICK g : /\ BlocksChain(g, z, e.oldRoot)
                 /\ e.phase # "tx" \/ Idle(ts) => g[Len(z)] = root
    BY <1>1, <1>3, <1>11 DEF Linked
  <2>2. PICK h : BlocksChain(h, z2, e.oldRoot) /\ h[nb + 1] = e2.root
    <3>1. BlocksChain(g, f.blockState, e.oldRoot) /\ (Idle(SlotOf(f.blockState, nb, nt)) => root = g[Len(f.blockState)])
      BY <1>1, <1>2, <2>1
    <3> QED
      BY <1>1, <1>6, <3>1 DEF SetInBatch
  <2>3. Len(z2) = nb + 1
    BY <1>7 DEF IsLastSlot
  <2>4. b2.oldStateRoot \in {NoRoot, e.oldRoot}
    <3>0. f \in BatchStates
      BY <1>2 DEF BatchOK
    <3>1. f.oldStateRoot \in Roots
      BY <3>0, BatchFacts
    <3>2. b2.oldStateRoot = IF f.oldStateRoot = NoRoot THEN root ELSE f.oldStateRoot
      BY <1>2, <1>7, <3>1, FirstRootFacts
    <3>3. CASE f.oldStateRoot = NoRoot
      <4>1. Idle(ts)
        BY <1>1, <1>2, <3>3, SlotFacts
      <4>2. g[Len(z)] = e.oldRoot
        BY <1>2, <2>1, <3>3, NothingSet
      <4> QED
        BY <2>1, <3>2, <3>3, <4>1, <4>2
    <3>4. CASE f.oldStateRoot # NoRoot
      <4>1. b.exists /\ f = b
        BY <1>1, <3>4, FoundFacts
      <4> QED
        BY <1>3, <1>11, <3>2, <3>4, <4>1 DEF Linked
    <3> QED
      BY <3>3, <3>4
  <2> QED
    BY <1>8, <2>2, <2>3, <2>4 DEF Linked
<1>12. Live(e2, b2)
  BY <1>1, <1>8, <1>9, <1>10, <1>11 DEF Live, SlotAt, BlockAt
<1> QED
  BY <1>1, <1>7, <1>12

LEMMA SetTemporaryIsLive ==
    ASSUME NEW b, IsBatch(b), NEW e \in Executors, Live(e, b), AtWork(e),
           NEW b2, b2 = setTemporary(Found(b), BlockNo(e), TxNo(e))
    PROVE  BatchOK(b2) /\ Live(e, b2) /\ b2.dbWriteNodes = Found(b).dbWriteNodes
<1>1. PICK f, z, z2, nb, nt, ts, ts2, bk, bk2 :
         /\ f = Found(b) /\ z = BlocksOf(b) /\ z2 = b2.blockState /\ nb = BlockNo(e) /\ nt = TxNo(e)
         /\ ts = SlotOf(z, nb, nt) /\ ts2 = SlotOf(z2, nb, nt)
         /\ bk = BlockOf(z, nb) /\ bk2 = BlockOf(z2, nb)
  OBVIOUS
<1>2. BatchOK(f) /\ z = f.blockState /\ nb \in Nat /\ nt \in Nat
  BY <1>1, FoundFacts, NumberFacts
<1>3. Placed(e, z) /\ Nested(e, ts, bk) /\ (stateManagerPurge => Linked(e, b, ts))
  BY <1>1 DEF Live, SlotAt, BlockAt
<1>4. OnlyRoom(b2, f, nb, nt)
  <2>1. PICK c : c = setTemporary(f, nb, nt)
    OBVIOUS
  <2>2. Reaches(f.blockState, nb, nt)
    BY <1>1, <1>2, <1>3 DEF Placed
  <2>3. OnlyRoom(c, f, nb, nt)
    BY <1>2, <2>1, <2>2, SetTemporaryIs
  <2> QED
    BY <1>1, <2>1, <2>3
<1>5. /\ BatchOK(b2) /\ IsLastSlot(z2, nb, nt) /\ b2.oldStateRoot = f.oldStateRoot
      /\ b2.dbWriteNodes = f.dbWriteNodes /\ ts2 = ts
      /\ bk2.oldStateRoot = bk.oldStateRoot /\ bk2.currentStateRoot = bk.currentStateRoot
  BY <1>1, <1>2, <1>4 DEF OnlyRoom
<1>6. BlocksOf(b2) = z2
  <2>1. b2 \in BatchStates
    BY <1>5 DEF BatchOK
  <2>2. b2.exists = TRUE
    BY <2>1, BatchFacts
  <2> QED
    BY <1>1, <2>2 DEF BlocksOf
<1>7. Placed(e, z2)
  <2>1. Reaches(z2, nb, nt)
    BY <1>2, <1>5 DEF Reaches, IsLastSlot
  <2>2. ~(e.phase = "batch" /\ ~Legacy(e))
    BY DEF AtWork
  <2> QED
    BY <1>1, <1>3, <2>1, <2>2 DEF Placed
<1>8. Nested(e, ts2, bk2)
  BY <1>3, <1>5 DEF Nested
<1>9. ASSUME stateManagerPurge
      PROVE  Linked(e, b2, ts2)
  <2>1. PICK g : /\ BlocksChain(g, z, e.oldRoot)
                 /\ e.phase # "tx" \/ Idle(ts) => g[Len(z)] = e.root
    BY <1>1, <1>3, <1>9 DEF Linked
  <2>2. PICK h : BlocksChain(h, z2, e.oldRoot) /\ h[nb + 1] = g[Len(z)]
    <3>1. BlocksChain(g, f.blockState, e.oldRoot)
      BY <1>2, <2>1
    <3> QED
      BY <1>1, <1>2, <1>4, <3>1 DEF OnlyRoom
  <2>3. Len(z2) = nb + 1
    BY <1>5 DEF IsLastSlot
  <2>4. b2.oldStateRoot \in {NoRoot, e.oldRoot}
    <3>1. f.oldStateRoot = NoRoot \/ (b.exists /\ f = b)
      BY <1>1, FoundFacts
    <3> QED
      BY <1>3, <1>5, <1>9, <3>1 DEF Linked
  <2> QED
    BY <1>5, <1>6, <2>1, <2>2, <2>3, <2>4 DEF Linked
<1>10. Live(e, b2)
  BY <1>1, <1>6, <1>7, <1>8, <1>9 DEF Live, SlotAt, BlockAt
<1> QED
  BY <1>1, <1>5, <1>10

\* Replacing the last transaction leaves any other slot at the end alone.
LEMMA SlotsAfter ==
    ASSUME NEW z, NEW z2, NEW lb \in Nat, NEW lt \in Nat, NEW t, IsLastSlot(z, lb, lt),
           Replaced(z2, z, lb, lt, t), NEW nb \in Nat, NEW nt \in Nat, Reaches(z, nb, nt)
    PROVE  /\ Reaches(z2, nb, nt)
           /\ nb = lb /\ nt = lt => SlotOf(z2, nb, nt) = t
           /\ ~(nb = lb /\ nt = lt) => SlotOf(z, nb, nt) = EmptyTx /\ SlotOf(z2, nb, nt) = EmptyTx
           /\ BlockOf(z2, nb).oldStateRoot = BlockOf(z, nb).oldStateRoot
           /\ BlockOf(z2, nb).currentStateRoot = BlockOf(z, nb).currentStateRoot
<1>1. /\ Len(z) = lb + 1 /\ Len(z[lb + 1].txState) = lt + 1
      /\ Len(z2) = lb + 1 /\ Len(z2[lb + 1].txState) = lt + 1
      /\ SlotOf(z2, lb, lt) = t
      /\ BlockOf(z2, lb).oldStateRoot = BlockOf(z, lb).oldStateRoot
      /\ BlockOf(z2, lb).currentStateRoot = BlockOf(z, lb).currentStateRoot
  BY DEF Replaced, IsLastSlot
<1>2. lb <= nb /\ (lb = nb => lt <= nt)
  BY <1>1 DEF Reaches
<1>3. Reaches(z2, nb, nt)
  BY <1>1, <1>2 DEF Reaches
<1>4. CASE nb = lb
  <2>1. ASSUME nt # lt
        PROVE  SlotOf(z, nb, nt) = EmptyTx /\ SlotOf(z2, nb, nt) = EmptyTx
    <3>1. ~(nt < lt + 1)
      BY <1>2, <1>4, <2>1
    <3> QED
      BY <1>1, <1>4, <3>1 DEF SlotOf
  <2> QED
    BY <1>1, <1>3, <1>4, <2>1
<1>5. CASE nb # lb
  <2>1. ~(nb < lb + 1)
    BY <1>2, <1>5
  <2>2. BlockOf(z2, nb) = EmptyBlock /\ BlockOf(z, nb) = EmptyBlock
    BY <1>1, <2>1 DEF BlockOf
  <2>3. SlotOf(z, nb, nt) = EmptyTx /\ SlotOf(z2, nb, nt) = EmptyTx
    BY <1>1, <2>1 DEF SlotOf
  <2> QED
    BY <1>3, <1>5, <2>2, <2>3
<1> QED
  BY <1>4, <1>5

LEMMA WriteProgramIsLive ==
    ASSUME NEW b, IsBatch(b), b.exists, NEW e \in Executors, Live(e, b), AtWork(e),
           NEW p \in Programs, BlockNo(e) < Len(b.blockState),
           TxNo(e) < Len(b.blockState[BlockNo(e) + 1].txState),
           NEW b2, b2 = writeProgram(b, BlockNo(e), TxNo(e), p)
    PROVE  BatchOK(b2) /\ Live(e, b2) /\ b2.dbWriteNodes = b.dbWriteNodes
<1>1. PICK z, z2, nb, nt, ts, ts2, bk, bk2 :
         /\ z = b.blockState /\ z2 = b2.blockState /\ nb = BlockNo(e) /\ nt = TxNo(e)
         /\ ts = SlotOf(z, nb, nt) /\ ts2 = SlotOf(z2, nb, nt)
         /\ bk = BlockOf(z, nb) /\ bk2 = BlockOf(z2, nb)
  OBVIOUS
<1>2. BatchOK(b) /\ BlocksOf(b) = z /\ nb \in Nat /\ nt \in Nat
  BY <1>1, FoundFacts, NumberFacts DEF BlocksOf
<1>3. Placed(e, z) /\ Nested(e, ts, bk) /\ (stateManagerPurge => Linked(e, b, ts))
  BY <1>1, <1>2 DEF Live, SlotAt, BlockAt
<1>4. Reaches(z, nb, nt)
  BY <1>1, <1>3 DEF Placed
<1>5. IsLastSlot(z, nb, nt)
  <2>0. b \in BatchStates
    BY <1>2 DEF BatchOK
  <2>1. Len(z) \in Nat /\ \A i \in 1..Len(z) : z[i] \in BlockStates
    BY <1>1, <2>0, BatchFacts
  <2>2. Len(z) = nb + 1
    BY <1>1, <1>2, <1>4, <2>1 DEF Reaches
  <2>3. nb + 1 \in 1..Len(z)
    BY <1>2, <2>2
  <2>4. Len(z[nb + 1].txState) \in Nat
    BY <2>1, <2>3, BlockFacts
  <2>5. Len(z[nb + 1].txState) = nt + 1
    BY <1>1, <1>2, <1>4, <2>2, <2>4 DEF Reaches
  <2> QED
    BY <2>2, <2>5 DEF IsLastSlot
<1>6. PICK t : t = WithProgram(ts, p)
  OBVIOUS
<1>7. NewTx(b2, b, nb, nt, t)
  <2>1. PICK c : c = writeProgram(b, nb, nt, p)
    OBVIOUS
  <2>2. IsLastSlot(b.blockState, nb, nt)
    BY <1>1, <1>5
  <2>3. NewTx(c, b, nb, nt, WithProgram(SlotOf(b.blockState, nb, nt), p))
    BY <1>2, <2>1, <2>2, WriteProgramIs
  <2> QED
    BY <1>1, <1>6, <2>1, <2>3
<1>8. /\ BatchOK(b2) /\ b2.oldStateRoot = b.oldStateRoot /\ b2.dbWriteNodes = b.dbWriteNodes
      /\ Replaced(z2, z, nb, nt, t) /\ TakesOver(z2, z, nb, nt, t)
  BY <1>1, <1>7 DEF NewTx
<1>9. /\ Reaches(z2, nb, nt) /\ ts2 = t
      /\ bk2.oldStateRoot = bk.oldStateRoot /\ bk2.currentStateRoot = bk.currentStateRoot
  BY <1>1, <1>2, <1>4, <1>5, <1>8, SlotsAfter
<1>10. /\ (Idle(t) <=> Idle(ts)) /\ t.oldStateRoot = ts.oldStateRoot
       /\ \A r : (Left(t, r) <=> Left(ts, r)) /\ (Fits(t, r) <=> Fits(ts, r))
       /\ \A r, r2 : TxLink(t, r, r2) <=> TxLink(ts, r, r2)
  <2>1. ts \in TxStates /\ TxOK(ts)
    BY <1>1, <1>2, SlotFacts
  <2> QED
    BY <1>6, <2>1, WithProgramFacts
<1>11. BlocksOf(b2) = z2
  <2>1. b2 \in BatchStates
    BY <1>8 DEF BatchOK
  <2>2. b2.exists = TRUE
    BY <2>1, BatchFacts
  <2> QED
    BY <1>1, <2>2 DEF BlocksOf
<1>12. Placed(e, z2)
  <2>1. ~(e.phase = "batch" /\ ~Legacy(e))
    BY DEF AtWork
  <2> QED
    BY <1>1, <1>3, <1>9, <2>1 DEF Placed
<1>13. Nested(e, ts2, bk2)
  <2>1. Stacked(StackOf(e), t)
    BY <1>3, <1>10 DEF Nested, Stacked
  <2> QED
    BY <1>3, <1>9, <1>10, <2>1 DEF Nested
<1>14. ASSUME stateManagerPurge
       PROVE  Linked(e, b2, ts2)
  <2>1. PICK g : /\ BlocksChain(g, z, e.oldRoot)
                 /\ e.phase # "tx" \/ Idle(ts) => g[Len(z)] = e.root
    BY <1>2, <1>3, <1>14 DEF Linked
  <2>2. Len(z2) = nb + 1 /\ Len(z) = nb + 1
    BY <1>5, <1>8 DEF IsLastSlot, Replaced
  <2>3. PICK to : to = g[nb + 1]
    OBVIOUS
  <2>4. LeadsTo(t, z, nb, nt, g, to)
    BY <1>1, <1>10, <2>3 DEF LeadsTo
  <2>5. PICK h : BlocksChain(h, z2, e.oldRoot) /\ h[nb + 1] = to
    BY <1>8, <2>1, <2>4 DEF TakesOver
  <2>6. b2.oldStateRoot \in {NoRoot, e.oldRoot}
    BY <1>3, <1>8, <1>14 DEF Linked
  <2> QED
    BY <1>9, <1>10, <1>11, <2>1, <2>2, <2>3, <2>5, <2>6 DEF Linked
<1>15. Live(e, b2)
  BY <1>1, <1>11, <1>12, <1>13, <1>14 DEF Live, SlotAt, BlockAt
<1> QED
  BY <1>8, <1>15

\* A finished transaction leads to the root where it ended.
LEMMA FinishLinks ==
    ASSUME stateManagerPurge, NEW ts, NEW t, NEW final, FinishedTx(t, ts, final),
           NEW from, NEW to, TxLink(ts, from, to),
           to = final \/ (~Idle(ts) /\ Fits(ts, final))
    PROVE  TxLink(t, from, final)
<1>1. /\ TxOK(t) /\ t.oldStateRoot = ts.oldStateRoot /\ (Idle(ts) => Idle(t))
      /\ ~Idle(ts) /\ Fits(ts, final) => t.newStateRoot = final
  BY DEF FinishedTx
<1>2. CASE Idle(ts)
  BY <1>1, <1>2 DEF TxLink
<1>3. CASE ~Idle(ts)
  <2>1. Fits(ts, final)
    BY <1>3 DEF TxLink, Fits
  <2>2. t.newStateRoot = final /\ t.oldStateRoot = from
    BY <1>1, <1>3, <2>1 DEF TxLink
  <2>3. Idle(t) => t.oldStateRoot = t.newStateRoot
    BY <1>1 DEF TxOK, Idle
  <2> QED
    BY <2>2, <2>3 DEF TxLink
<1> QED
  BY <1>2, <1>3

LEMMA FinishTxIsLive ==
    ASSUME NEW b, IsBatch(b), NEW e \in Executors, NEW e2 \in Executors, Live(e, b),
           e.phase = "tx", Len(e.calls) = 1, e2.root = e.root \/ e2.root = e.calls[1],
           e2.phase = IF Legacy(e) THEN "batch" ELSE "block", e2.calls = <<>>,
           e2.workload = e.workload, e2.marks = e.marks,
           e2.blocks = e.blocks, e2.txs = e.txs, e2.oldRoot = e.oldRoot,
           NEW b2, b2 = finishTx(b, e2.root)
    PROVE  Live(e2, b2)
<1>1. PICK z, nb, nt, ts, bk, final :
         /\ z = BlocksOf(b) /\ nb = BlockNo(e) /\ nt = TxNo(e)
         /\ ts = SlotOf(z, nb, nt) /\ bk = BlockOf(z, nb) /\ final = e2.root
  OBVIOUS
<1>2. /\ nb \in Nat /\ nt \in Nat /\ final \in Trees
      /\ BlockNo(e2) = nb /\ TxNo(e2) = nt /\ (Legacy(e2) <=> Legacy(e))
  BY <1>1, NumberFacts DEF Executors, BlockNo, TxNo, Legacy
<1>3. Placed(e, z) /\ Nested(e, ts, bk) /\ (stateManagerPurge => Linked(e, b, ts))
  BY <1>1 DEF Live, SlotAt, BlockAt
<1>4. Reaches(z, nb, nt)
  BY <1>1, <1>3 DEF Placed
<1>5. Drawn(StackOf(e2), StackOf(e)) /\ Len(e.calls) > 0
  BY FinishDraws
<1>6. /\ \A x : All(StackOf(e), x) => final = x
      /\ Fits(ts, final)
  <2>1. PICK T, T2 : T = StackOf(e) /\ T2 = StackOf(e2)
    OBVIOUS
  <2>2. Len(e2.calls) = 0 /\ 0 + 1 = 1
    BY EmptySeq
  <2>3. Len(T2) = 1 /\ T2[1] = final
    BY <1>1, <2>1, <2>2, StackFacts
  <2>4. Len(T) \in Nat
    BY <2>1, StackFacts
  <2>5. 1 \in 1..Len(T2) /\ Len(T2) \in Nat \ {0}
    BY <2>3
  <2>6. (\A x : All(T, x) => All(T2, x)) /\ (Stacked(T, ts) => Stacked(T2, ts))
    BY <1>5, <2>1, <2>4, <2>5, DrawnKeeps
  <2> QED
    BY <1>3, <2>1, <2>3, <2>5, <2>6 DEF All, Nested, Stacked
<1>7. ASSUME NEW z2, Reaches(z2, nb, nt)
      PROVE  Placed(e2, z2)
  <2>1. Len(e2.calls) = 0 /\ ~(0 > 0)
    BY EmptySeq
  <2> QED
    BY <1>2, <1>7, <2>1 DEF Placed
<1>8. Idle(ts) => final = e.root
  BY <1>3, <1>6 DEF Nested
<1>9. CASE ~HasTx(z)
  <2>1. b2 = b
    <3>1. CASE b.exists
      <4>1. BatchOK(b) /\ b.blockState = z
        BY <1>1, <3>1, FoundFacts DEF BlocksOf
      <4> QED
        BY <1>1, <1>2, <1>9, <4>1, FinishTxIs
    <3>2. CASE ~b.exists
      BY <3>2 DEF finishTx
    <3> QED
      BY <3>1, <3>2
  <2>2. ts = EmptyTx
    <3>1. z \in Seq(BlockStates)
      BY <1>1, FoundFacts
    <3>2. Len(z) \in Nat
      BY <3>1, LenProperties
    <3>3. CASE nb < Len(z)
      <4>1. Len(z) = nb + 1 /\ Len(z) > 0 /\ nb + 1 \in 1..Len(z)
        BY <1>2, <1>4, <3>2, <3>3 DEF Reaches
      <4>2. z[nb + 1] \in BlockStates
        BY <3>1, <4>1, ElementOfSeq
      <4>3. Len(z[nb + 1].txState) \in Nat /\ ~(Len(z[nb + 1].txState) > 0)
        BY <1>9, <4>1, <4>2, BlockFacts DEF HasTx
      <4>4. ~(nt < Len(z[nb + 1].txState))
        BY <1>2, <4>3
      <4> QED
        BY <1>1, <4>4 DEF SlotOf
    <3>4. CASE ~(nb < Len(z))
      BY <1>1, <3>4 DEF SlotOf
    <3> QED
      BY <3>3, <3>4
  <2>3. FinishedTx(ts, ts, final) /\ Idle(ts)
    BY <2>2, EmptyTxFacts DEF FinishedTx
  <2>4. Nested(e2, ts, bk)
    <3>1. e2.phase # "tx"
      OBVIOUS
    <3> QED
      BY <1>1, <1>3, <1>5, <2>3, <3>1, NestedFinished
  <2>5. stateManagerPurge => Linked(e2, b2, ts)
    BY <1>1, <1>3, <1>8, <2>1, <2>3 DEF Linked
  <2> QED
    BY <1>1, <1>2, <1>4, <1>7, <2>1, <2>4, <2>5 DEF Live, SlotAt, BlockAt
<1>10. CASE HasTx(z)
  <2>0. z \in Seq(BlockStates)
    BY <1>1, FoundFacts
  <2>1. b.exists /\ BatchOK(b) /\ b.blockState = z
    <3>1. Len(z) # 0
      BY <1>10, <2>0, LenProperties DEF HasTx
    <3>2. z # <<>>
      BY <3>1, EmptySeq
    <3>3. b.exists
      BY <1>1, <3>2 DEF BlocksOf
    <3> QED
      BY <1>1, <3>3, FoundFacts DEF BlocksOf
  <2>2. PICK lb \in Nat, lt \in Nat : IsLastSlot(z, lb, lt)
    BY <1>10, <2>0, LastSlotIs
  <2>3. PICK last, t, z2, ts2, bk2 :
           /\ last = SlotOf(z, lb, lt) /\ t = finishTxState(last, final) /\ z2 = b2.blockState
           /\ ts2 = SlotOf(z2, nb, nt) /\ bk2 = BlockOf(z2, nb)
    OBVIOUS
  <2>4. NewTx(b2, b, lb, lt, t)
    <3>1. PICK c : c = finishTx(b, final)
      OBVIOUS
    <3>2. IsLastSlot(b.blockState, lb, lt)
      BY <2>1, <2>2
    <3>3. NewTx(c, b, lb, lt, finishTxState(SlotOf(b.blockState, lb, lt), final))
      BY <1>2, <2>1, <3>1, <3>2, FinishTxIs
    <3> QED
      BY <1>1, <2>1, <2>3, <3>1, <3>3
  <2>5. /\ BatchOK(b2) /\ b2.oldStateRoot = b.oldStateRoot
        /\ Replaced(z2, z, lb, lt, t) /\ TakesOver(z2, z, lb, lt, t)
    BY <2>1, <2>3, <2>4 DEF NewTx
  <2>6. /\ Reaches(z2, nb, nt)
        /\ nb = lb /\ nt = lt => ts2 = t
        /\ ~(nb = lb /\ nt = lt) => ts = EmptyTx /\ ts2 = EmptyTx
        /\ bk2.oldStateRoot = bk.oldStateRoot /\ bk2.currentStateRoot = bk.currentStateRoot
    BY <1>1, <1>2, <1>4, <2>2, <2>3, <2>5, SlotsAfter
  <2>7. last \in TxStates /\ TxOK(last)
    BY <2>1, <2>3, SlotFacts
  <2>8. FinishedTx(t, last, final)
    BY <1>2, <2>3, <2>7, FinishTxIsRight
  <2>9. FinishedTx(ts2, ts, final)
    <3>1. CASE nb = lb /\ nt = lt
      BY <1>1, <2>3, <2>6, <2>8, <3>1
    <3>2. CASE ~(nb = lb /\ nt = lt)
      <4>1. ts = EmptyTx /\ ts2 = EmptyTx
        BY <2>6, <3>2
      <4> QED
        BY <4>1, EmptyTxFacts DEF FinishedTx
    <3> QED
      BY <3>1, <3>2
  <2>10. Nested(e2, ts2, bk2)
    <3>1. e2.phase # "tx"
      OBVIOUS
    <3> QED
      BY <1>1, <1>3, <1>5, <2>6, <2>9, <3>1, NestedFinished
  <2>11. BlocksOf(b2) = z2
    <3>1. b2 \in BatchStates
      BY <2>5 DEF BatchOK
    <3>2. b2.exists = TRUE
      BY <3>1, BatchFacts
    <3> QED
      BY <2>3, <3>2 DEF BlocksOf
  <2>12. ASSUME stateManagerPurge
         PROVE  Linked(e2, b2, ts2)
    <3>1. PICK g : /\ BlocksChain(g, z, e.oldRoot)
                   /\ Idle(ts) => g[Len(z)] = e.root
      BY <1>1, <1>3, <2>12 DEF Linked
    <3>2. Len(z2) = lb + 1 /\ Len(z) = lb + 1
      BY <2>2, <2>5 DEF IsLastSlot, Replaced
    <3>3. PICK to : to = g[lb + 1]
      OBVIOUS
    <3>4. to = final \/ (~Idle(last) /\ Fits(last, final) /\ nb = lb /\ ~Idle(ts))
      <4>1. CASE Idle(ts)
        BY <1>8, <3>1, <3>2, <3>3, <4>1
      <4>2. CASE ~Idle(ts)
        <5>1. nb = lb /\ nt = lt
          BY <2>6, <4>2, EmptyTxFacts
        <5> QED
          BY <1>1, <1>6, <2>3, <4>2, <5>1
      <4> QED
        BY <4>1, <4>2
    <3>5. \A from : TxLink(SlotOf(z, lb, lt), from, g[lb + 1]) => TxLink(t, from, final)
      BY <2>3, <2>8, <2>12, <3>3, <3>4, FinishLinks
    <3>6. BlockOf(z, lb).currentStateRoot = BlockOf(z, lb).oldStateRoot => final = g[lb + 1]
      <4>1. SUFFICES ASSUME BlockOf(z, lb).currentStateRoot = BlockOf(z, lb).oldStateRoot, to # final
                     PROVE  FALSE
        BY <3>3
      <4>2. nb = lb /\ ~Idle(ts) /\ bk = BlockOf(z, lb)
        BY <1>1, <3>4, <4>1
      <4>3. bk.oldStateRoot # NoRoot
        BY <1>1, <1>2, <2>1, <4>2, SlotFacts
      <4>4. final = bk.oldStateRoot
        BY <1>3, <1>6, <4>1, <4>2, <4>3 DEF Nested
      <4>5. bk = z[lb + 1] /\ lb + 1 \in 1..Len(z) /\ lb + 1 - 1 = lb
        BY <3>2, <4>2 DEF BlockOf
      <4>6. BlockLink(bk, g[lb], to)
        BY <3>1, <3>3, <4>5 DEF BlocksChain
      <4> QED
        BY <4>1, <4>2, <4>3, <4>4, <4>6 DEF BlockLink
    <3>7. PICK h : BlocksChain(h, z2, e.oldRoot) /\ h[lb + 1] = final
      <4>1. LeadsTo(t, z, lb, lt, g, final)
        BY <3>5, <3>6 DEF LeadsTo
      <4> QED
        BY <2>5, <3>1, <4>1 DEF TakesOver
    <3>8. b2.oldStateRoot \in {NoRoot, e.oldRoot}
      BY <1>3, <2>1, <2>5, <2>12 DEF Linked
    <3> QED
      BY <1>1, <2>11, <3>2, <3>7, <3>8 DEF Linked
  <2> QED
    BY <1>1, <1>2, <1>7, <2>3, <2>6, <2>10, <2>11, <2>12 DEF Live, SlotAt, BlockAt
<1> QED
  BY <1>9, <1>10

\* A slot beyond the end of the batch is empty.
LEMMA BeyondIsEmpty ==
    ASSUME NEW z, Len(z) \in Nat, NEW nb \in Nat, NEW nt \in Nat
    PROVE  /\ Len(z) <= nb => /\ SlotOf(z, nb, nt) = EmptyTx /\ BlockOf(z, nb) = EmptyBlock
                              /\ Reaches(z, nb, nt)
           /\ /\ Len(z) = nb + 1 /\ Len(z[nb + 1].txState) \in Nat
              /\ Len(z[nb + 1].txState) <= nt
              => SlotOf(z, nb, nt) = EmptyTx /\ Reaches(z, nb, nt)
<1>1. ASSUME Len(z) <= nb
      PROVE  SlotOf(z, nb, nt) = EmptyTx /\ BlockOf(z, nb) = EmptyBlock /\ Reaches(z, nb, nt)
  <2>1. ~(nb < Len(z)) /\ Len(z) <= nb + 1 /\ Len(z) # nb + 1
    BY <1>1
  <2> QED
    BY <2>1 DEF SlotOf, BlockOf, Reaches
<1>2. ASSUME Len(z) = nb + 1, Len(z[nb + 1].txState) \in Nat, Len(z[nb + 1].txState) <= nt
      PROVE  SlotOf(z, nb, nt) = EmptyTx /\ Reaches(z, nb, nt)
  <2>1. ~(nt < Len(z[nb + 1].txState)) /\ Len(z[nb + 1].txState) <= nt + 1
    BY <1>2
  <2> QED
    BY <1>2, <2>1 DEF SlotOf, Reaches
<1> QED
  BY <1>1, <1>2

LEMMA AloneOnStack ==
    ASSUME NEW e \in Executors, Len(e.calls) = 0
    PROVE  All(StackOf(e), e.root) /\ \A x : All(StackOf(e), x) => x = e.root
<1>1. 0 + 1 = 1 /\ 1 \in 1..1 /\ \A p \in 1..1 : p = 1
  OBVIOUS
<1>2. Len(StackOf(e)) = 1 /\ StackOf(e)[1] = e.root
  BY <1>1, StackFacts
<1> QED
  BY <1>1, <1>2 DEF All

LEMMA BlocksFacts ==
    ASSUME NEW b, IsBatch(b), NEW z, z = BlocksOf(b)
    PROVE  z \in Seq(BlockStates) /\ Len(z) \in Nat /\ \A i \in 1..Len(z) : Len(z[i].txState) \in Nat
<1>1. z \in Seq(BlockStates)
  BY FoundFacts
<1>2. Len(z) \in Nat /\ \A i \in 1..Len(z) : z[i] \in BlockStates
  BY <1>1, LenProperties, ElementOfSeq
<1> QED
  BY <1>1, <1>2, BlockFacts

LEMMA StartBatchIsLive ==
    ASSUME NEW e \in Executors, e.phase = "batch", e.calls = <<>>, e.root = e.oldRoot,
           e.root \in e.marks, e.blocks = 0, e.txs = 0
    PROVE  Live(e, NoBatch)
<1>1. PICK z : z = <<>>
  OBVIOUS
<1>2. BlocksOf(NoBatch) = z /\ NoBatch.exists = FALSE /\ Len(z) = 0 /\ Len(e.calls) = 0
  BY <1>1, EmptySeq DEF BlocksOf, NoBatch
<1>3. BlockNo(e) = 0 /\ TxNo(e) = 0
  BY DEF BlockNo, TxNo
<1>4. SlotOf(z, 0, 0) = EmptyTx /\ BlockOf(z, 0) = EmptyBlock /\ Reaches(z, 0, 0)
  <2>1. PICK o : o = 0 /\ o \in Nat
    OBVIOUS
  <2>2. Len(z) = o
    BY <1>2, <2>1
  <2>3. Len(z) \in Nat /\ Len(z) <= o
    BY <2>1, <2>2
  <2>4. SlotOf(z, o, o) = EmptyTx /\ BlockOf(z, o) = EmptyBlock /\ Reaches(z, o, o)
    BY <2>1, <2>3, BeyondIsEmpty
  <2> QED
    BY <2>1, <2>4
<1>5. Placed(e, z)
  BY <1>2, <1>3, <1>4 DEF Placed
<1>6. Nested(e, EmptyTx, EmptyBlock)
  BY <1>2, AloneOnStack, NestedAfresh, EmptyTxFacts, EmptyBlockFacts
<1>7. Linked(e, NoBatch, EmptyTx)
  <2> DEFINE g == [i \in {0} |-> e.oldRoot]
  <2>1. g[0] = e.oldRoot /\ 1..Len(z) = {}
    BY <1>2
  <2> HIDE DEF g
  <2>2. BlocksChain(g, z, e.oldRoot)
    BY <2>1 DEF BlocksChain
  <2> QED
    BY <1>2, <2>1, <2>2 DEF Linked
<1> QED
  BY <1>2, <1>3, <1>4, <1>5, <1>6, <1>7 DEF Live, SlotAt, BlockAt

LEMMA StartBlockIsLive ==
    ASSUME NEW b, IsBatch(b), NEW e \in Executors, NEW e2 \in Executors, Live(e, b),
           e.phase = "batch", ~Legacy(e), e2.phase = "block", e2.txs = 0,
           e2.marks = e.marks \cup {e.root}, e2.root = e.root, e2.calls = e.calls,
           e2.workload = e.workload, e2.blocks = e.blocks, e2.oldRoot = e.oldRoot,
           NEW b2, b2 = startBlock(b, e.root)
    PROVE  BatchOK(b2) /\ Live(e2, b2) /\ b2.dbWriteNodes = Found(b).dbWriteNodes
<1>1. PICK f, z, z2, nb, n, root, bk :
         /\ f = Found(b) /\ z = BlocksOf(b) /\ z2 = b2.blockState /\ nb = e.blocks /\ n = Len(z)
         /\ root = e.root /\ bk = [EmptyBlock EXCEPT !.oldStateRoot = root]
  OBVIOUS
<1>2. /\ BatchOK(f) /\ f.exists = TRUE /\ f.blockState = z /\ nb \in Nat /\ root \in Trees
  BY <1>1, FoundFacts DEF Executors
<1>3. Placed(e, z) /\ (stateManagerPurge => Linked(e, b, SlotAt(e, b)))
  BY <1>1 DEF Live
<1>4. n <= nb /\ n \in Nat /\ Len(e.calls) = 0
  <2>1. Len(e.calls) \in Nat
    BY StackFacts
  <2> QED
    BY <1>1, <1>3, <2>1, BlocksFacts DEF Placed
<1>5. NewBlock(b2, f, root)
  <2>1. PICK c : c = startBlock(f, root)
    OBVIOUS
  <2>2. NewBlock(c, f, root)
    BY <1>2, <2>1, StartBlockIs
  <2>3. c = b2
    BY <1>1, <1>2, <2>1 DEF startBlock, Found
  <2> QED
    BY <2>2, <2>3
<1>6. /\ BatchOK(b2) /\ b2.oldStateRoot = f.oldStateRoot /\ b2.dbWriteNodes = f.dbWriteNodes
      /\ Len(z2) = n + 1 /\ z2[n + 1] = bk
  BY <1>1, <1>2, <1>5 DEF NewBlock
<1>7. /\ bk \in BlockStates /\ Len(bk.txState) = 0
      /\ bk.oldStateRoot = root /\ bk.currentStateRoot = NoRoot /\ root # NoRoot
  BY <1>1, <1>2, NewBlockFacts, NoRootIsNoTree
<1>8. BlocksOf(b2) = z2
  <2>1. b2 \in BatchStates
    BY <1>6 DEF BatchOK
  <2>2. b2.exists = TRUE
    BY <2>1, BatchFacts
  <2> QED
    BY <1>1, <2>2 DEF BlocksOf
<1>9. BlockNo(e2) = nb /\ TxNo(e2) = 0 /\ ~Legacy(e2)
  BY <1>1 DEF BlockNo, TxNo, Legacy
<1>10. /\ SlotOf(z2, nb, 0) = EmptyTx /\ Reaches(z2, nb, 0)
       /\ BlockOf(z2, nb) = EmptyBlock \/ BlockOf(z2, nb) = bk
  <2>1. CASE n = nb
    <3>1. BlockOf(z2, nb) = bk
      BY <1>2, <1>6, <2>1 DEF BlockOf
    <3>2. Len(z2) = nb + 1 /\ Len(z2) \in Nat /\ Len(z2[nb + 1].txState) = 0
      BY <1>2, <1>6, <1>7, <2>1
    <3> QED
      BY <1>2, <3>1, <3>2, BeyondIsEmpty
  <2>2. CASE n # nb
    <3>1. Len(z2) <= nb /\ Len(z2) \in Nat
      BY <1>2, <1>4, <1>6, <2>2
    <3> QED
      BY <1>2, <3>1, BeyondIsEmpty
  <2> QED
    BY <2>1, <2>2
<1>11. Placed(e2, z2)
  BY <1>4, <1>9, <1>10 DEF Placed
<1>12. Nested(e2, EmptyTx, BlockOf(z2, nb))
  <2>1. All(StackOf(e2), e2.root) /\ e2.root \in e2.marks
    BY <1>4, AloneOnStack
  <2>2. PICK x : x = BlockOf(z2, nb)
    OBVIOUS
  <2>3. x.oldStateRoot = NoRoot \/ (x.oldStateRoot = root /\ x.currentStateRoot # root)
    BY <1>7, <1>10, <2>2, EmptyBlockFacts
  <2>4. Nested(e2, EmptyTx, x)
    BY <1>1, <2>1, <2>3, NestedAfresh, EmptyTxFacts
  <2> QED
    BY <2>2, <2>4
<1>13. ASSUME stateManagerPurge
       PROVE  Linked(e2, b2, EmptyTx)
  <2>1. PICK g : BlocksChain(g, z, e.oldRoot) /\ g[n] = root
    BY <1>1, <1>3, <1>13 DEF Linked
  <2>2. PICK h : BlocksChain(h, z2, e.oldRoot) /\ h[Len(z2)] = root
    <3>1. BlocksChain(g, f.blockState, e.oldRoot) /\ g[Len(f.blockState)] = root
      BY <1>1, <1>2, <2>1
    <3> QED
      BY <1>1, <1>5, <3>1 DEF NewBlock
  <2>3. b2.oldStateRoot \in {NoRoot, e.oldRoot}
    <3>1. f.oldStateRoot = NoRoot \/ (b.exists /\ f = b)
      BY <1>1, FoundFacts
    <3> QED
      BY <1>3, <1>6, <1>13, <3>1 DEF Linked
  <2> QED
    BY <1>1, <1>8, <2>2, <2>3 DEF Linked
<1>14. Live(e2, b2)
  BY <1>8, <1>9, <1>10, <1>11, <1>12, <1>13 DEF Live, SlotAt, BlockAt
<1> QED
  BY <1>1, <1>6, <1>14

LEMMA ProcessTxIsLive ==
    ASSUME NEW b, IsBatch(b), NEW e \in Executors, NEW e2 \in Executors, Live(e, b),
           e.phase = IF Legacy(e) THEN "batch" ELSE "block", e2.phase = "tx", e2.txs = e.txs + 1,
           e2.marks = e.marks \cup {e.root}, e2.root = e.root, e2.calls = <<e.root>>,
           e2.workload = e.workload, e2.blocks = e.blocks, e2.oldRoot = e.oldRoot
    PROVE  Live(e2, b)
<1>1. PICK z, nb, nt, nb2, nt2, bk, bk2, root :
         /\ z = BlocksOf(b) /\ nb = BlockNo(e) /\ nt = TxNo(e)
         /\ nb2 = BlockNo(e2) /\ nt2 = TxNo(e2)
         /\ bk = BlockOf(z, nb) /\ bk2 = BlockOf(z, nb2) /\ root = e.root
  OBVIOUS
<1>2. /\ Placed(e, z) /\ Nested(e, SlotOf(z, nb, nt), bk)
      /\ stateManagerPurge => Linked(e, b, SlotOf(z, nb, nt))
  BY <1>1 DEF Live, SlotAt, BlockAt
<1>3. /\ Len(z) \in Nat /\ (\A i \in 1..Len(z) : Len(z[i].txState) \in Nat)
      /\ nb \in Nat /\ nt \in Nat /\ nb2 \in Nat /\ nt2 \in Nat
  BY <1>1, BlocksFacts, NumberFacts
<1>4. Reaches(z, nb, nt) /\ Len(e.calls) = 0
  <2>1. Len(e.calls) \in Nat /\ e.phase # "tx"
    BY StackFacts
  <2> QED
    BY <1>1, <1>2, <2>1 DEF Placed
<1>5. /\ SlotOf(z, nb2, nt2) = EmptyTx /\ Reaches(z, nb2, nt2)
      /\ bk2 = EmptyBlock \/ bk2 = bk
  <2>1. CASE Legacy(e)
    <3>1. nb2 = nb + 1 /\ Len(z) <= nb2
      BY <1>1, <1>3, <1>4, <2>1 DEF BlockNo, Legacy, Reaches
    <3> QED
      BY <1>1, <1>3, <3>1, BeyondIsEmpty
  <2>2. CASE ~Legacy(e)
    <3>1. nb2 = nb /\ nt2 = nt + 1
      BY <1>1, <2>2 DEF BlockNo, TxNo, Legacy
    <3>2. CASE Len(z) <= nb2
      BY <1>1, <1>3, <3>2, BeyondIsEmpty
    <3>3. CASE ~(Len(z) <= nb2)
      <4>1. Len(z) = nb2 + 1 /\ nb2 + 1 \in 1..Len(z)
        BY <1>3, <1>4, <3>1, <3>3 DEF Reaches
      <4>2. Len(z[nb2 + 1].txState) \in Nat /\ Len(z[nb2 + 1].txState) <= nt2
        BY <1>3, <1>4, <3>1, <4>1 DEF Reaches
      <4> QED
        BY <1>1, <1>3, <3>1, <4>1, <4>2, BeyondIsEmpty
    <3> QED
      BY <3>2, <3>3
  <2> QED
    BY <2>1, <2>2
<1>6. Len(e2.calls) = 1 /\ e2.calls[1] = root
  BY <1>1
<1>7. Placed(e2, z)
  BY <1>1, <1>5, <1>6 DEF Placed
<1>8. All(StackOf(e2), e2.root)
  <2>1. PICK T2 : T2 = StackOf(e2)
    OBVIOUS
  <2>2. 1 + 1 = 2 /\ 1 \in 1..1 /\ \A p \in 1..2 : p = 1 \/ p = 2
    OBVIOUS
  <2>3. Len(T2) = 2 /\ T2[1] = root /\ T2[2] = root
    BY <1>1, <1>6, <2>1, <2>2, StackFacts
  <2> QED
    BY <1>1, <2>1, <2>2, <2>3 DEF All
<1>9. Nested(e2, EmptyTx, bk2)
  <2>1. bk2.oldStateRoot # NoRoot =>
          /\ bk2.oldStateRoot \in e.marks
          /\ bk2.currentStateRoot = bk2.oldStateRoot => bk2.oldStateRoot = root
    BY <1>1, <1>2, <1>4, <1>5, EmptyBlockFacts, AloneOnStack DEF Nested
  <2>2. e2.root \in e2.marks /\ Len(e2.calls) > 0 /\ Idle(EmptyTx)
    BY <1>6, EmptyTxFacts
  <2> QED
    BY <1>1, <1>8, <2>1, <2>2, NestedAfresh
<1>10. stateManagerPurge => Linked(e2, b, EmptyTx)
  BY <1>2 DEF Linked
<1> QED
  BY <1>1, <1>5, <1>7, <1>9, <1>10 DEF Live, SlotAt, BlockAt

LEMMA DrawIsLive ==
    ASSUME NEW b, IsBatch(b), NEW e \in Executors, NEW e2 \in Executors, Live(e, b),
           e.phase = "tx", e2.phase = "tx", Drawn(StackOf(e2), StackOf(e)),
           Len(e2.calls) > 0, e2.calls[1] = e.calls[1],
           e2.marks = e.marks, e2.workload = e.workload, e2.blocks = e.blocks, e2.txs = e.txs,
           e2.oldRoot = e.oldRoot
    PROVE  Live(e2, b)
<1>1. PICK z, nb, nt, ts, bk :
         /\ z = BlocksOf(b) /\ nb = BlockNo(e) /\ nt = TxNo(e)
         /\ ts = SlotOf(z, nb, nt) /\ bk = BlockOf(z, nb)
  OBVIOUS
<1>2. /\ Placed(e, z) /\ Nested(e, ts, bk) /\ (stateManagerPurge => Linked(e, b, ts))
  BY <1>1 DEF Live, SlotAt, BlockAt
<1>3. nb = BlockNo(e2) /\ nt = TxNo(e2) /\ (Legacy(e) <=> Legacy(e2))
  BY <1>1 DEF BlockNo, TxNo, Legacy
<1>4. Len(e.calls) > 0
  BY <1>2 DEF Placed
<1>5. Placed(e2, z)
  BY <1>1, <1>2, <1>3 DEF Placed
<1>6. Nested(e2, ts, bk)
  BY <1>2, <1>4, NestedDrawn
<1>7. Idle(ts) => e2.root = e.root
  <2>1. PICK T, T2, n2 : T = StackOf(e) /\ T2 = StackOf(e2) /\ n2 = Len(e2.calls)
    OBVIOUS
  <2>2. Len(T) \in Nat /\ n2 \in Nat /\ Len(T2) = n2 + 1 /\ T2[n2 + 1] = e2.root
    BY <2>1, StackFacts
  <2>3. Len(T2) \in Nat \ {0} /\ n2 + 1 \in 1..Len(T2)
    BY <2>2
  <2>4. \A x : All(T, x) => All(T2, x)
    BY <2>1, <2>2, <2>3, DrawnKeeps
  <2> QED
    BY <1>2, <2>1, <2>2, <2>3, <2>4 DEF Nested, All
<1>8. stateManagerPurge => Linked(e2, b, ts)
  BY <1>2, <1>7 DEF Linked
<1> QED
  BY <1>1, <1>3, <1>5, <1>6, <1>8 DEF Live, SlotAt, BlockAt

LEMMA FinishBlockIsLive ==
    ASSUME NEW b, IsBatch(b), NEW e \in Executors, NEW e2 \in Executors, Live(e, b),
           e.phase = "block", e2.phase = "batch", e2.blocks = e.blocks + 1, e2.calls = e.calls,
           e2.root = e.root, e2.marks = e.marks, e2.workload = e.workload, e2.txs = e.txs,
           e2.oldRoot = e.oldRoot, NEW b2, b2 = finishBlock(b, e.root)
    PROVE  Live(e2, b2)
<1>1. PICK z, z2, nb, nt, nb2, root :
         /\ z = BlocksOf(b) /\ z2 = BlocksOf(b2) /\ nb = BlockNo(e) /\ nt = TxNo(e)
         /\ nb2 = BlockNo(e2) /\ root = e.root
  OBVIOUS
<1>2. Placed(e, z) /\ (stateManagerPurge => Linked(e, b, SlotOf(z, nb, nt)))
  BY <1>1 DEF Live, SlotAt
<1>3. ~Legacy(e) /\ ~Legacy(e2) /\ nb = e.blocks /\ nb2 = e.blocks + 1 /\ TxNo(e2) = nt
  BY <1>1, <1>2 DEF Placed, Legacy, BlockNo, TxNo
<1>4. nb \in Nat /\ nt \in Nat /\ nb2 \in Nat /\ root \in Trees /\ Len(z) \in Nat /\ Len(e.calls) = 0
  <2>1. Len(e.calls) \in Nat
    BY StackFacts
  <2> QED
    BY <1>1, <1>2, <2>1, NumberFacts, BlocksFacts DEF Executors, Placed
<1>5. /\ Len(z2) = Len(z)
      /\ b2.exists => b.exists /\ b2.oldStateRoot = b.oldStateRoot
      /\ stateManagerPurge => \A g, a : BlocksChain(g, z, a) /\ g[Len(z)] = root
                                 => \E h : BlocksChain(h, z2, a) /\ h[Len(z2)] = root
  <2>1. CASE b.exists
    <3>1. BatchOK(b) /\ z = b.blockState
      BY <1>1, <2>1, FoundFacts DEF BlocksOf
    <3>2. PICK c : c = finishBlock(b, root)
      OBVIOUS
    <3>3. /\ BatchOK(c) /\ c.oldStateRoot = b.oldStateRoot /\ Len(c.blockState) = Len(b.blockState)
          /\ stateManagerPurge =>
                 \A g, a : BlocksChain(g, b.blockState, a) /\ g[Len(b.blockState)] = root
                           => \E h : BlocksChain(h, c.blockState, a) /\ h[Len(c.blockState)] = root
      BY <1>4, <3>1, <3>2, FinishBlockIs
    <3>4. c = b2 /\ c \in BatchStates
      BY <1>1, <3>2, <3>3 DEF BatchOK
    <3>5. b2.exists = TRUE
      BY <3>4, BatchFacts
    <3>6. z2 = c.blockState
      BY <1>1, <3>4, <3>5 DEF BlocksOf
    <3> QED
      BY <2>1, <3>1, <3>3, <3>4, <3>6
  <2>2. CASE ~b.exists
    <3>1. b2 = b
      BY <2>2 DEF finishBlock
    <3>2. z2 = z
      BY <1>1, <3>1
    <3> QED
      BY <2>2, <3>1, <3>2
  <2> QED
    BY <2>1, <2>2
<1>6. Len(z2) <= nb2 /\ Len(z2) \in Nat
  BY <1>1, <1>2, <1>3, <1>4, <1>5 DEF Placed, Reaches
<1>7. SlotOf(z2, nb2, nt) = EmptyTx /\ BlockOf(z2, nb2) = EmptyBlock /\ Reaches(z2, nb2, nt)
  BY <1>4, <1>6, BeyondIsEmpty
<1>8. Placed(e2, z2)
  BY <1>1, <1>3, <1>4, <1>6, <1>7 DEF Placed
<1>9. Nested(e2, EmptyTx, EmptyBlock)
  <2>1. All(StackOf(e2), e2.root)
    BY <1>4, AloneOnStack
  <2>2. ~AtWork(e2)
    BY <1>3 DEF AtWork
  <2> QED
    BY <2>1, <2>2, NestedAfresh, EmptyTxFacts, EmptyBlockFacts
<1>10. ASSUME stateManagerPurge
       PROVE  Linked(e2, b2, EmptyTx)
  <2>1. PICK g : BlocksChain(g, z, e.oldRoot) /\ g[Len(z)] = root
    BY <1>1, <1>2, <1>10 DEF Linked
  <2>2. PICK h : BlocksChain(h, z2, e.oldRoot) /\ h[Len(z2)] = root
    BY <1>5, <1>10, <2>1
  <2>3. b2.exists => b2.oldStateRoot \in {NoRoot, e.oldRoot}
    BY <1>2, <1>5, <1>10 DEF Linked
  <2> QED
    BY <1>1, <2>2, <2>3 DEF Linked
<1> QED
  BY <1>1, <1>3, <1>7, <1>8, <1>9, <1>10 DEF Live, SlotAt, BlockAt

\* The nodes of a batch that are not in the database yet.
Writes(b) == Found(b).dbWriteNodes

LEMMA FinishTxKeeps ==
    ASSUME NEW b, IsBatch(b), NEW r \in Trees, NEW b2, b2 = finishTx(b, r)
    PROVE  IsBatch(b2) /\ Writes(b2) = Writes(b)
<1>1. CASE ~b.exists
  <2>1. b2 = b
    BY <1>1 DEF finishTx
  <2> QED
    BY <2>1
<1>2. CASE b.exists
  <2>1. BatchOK(b) /\ Found(b) = b
    BY <1>2, FoundFacts
  <2>2. CASE ~HasTx(b.blockState)
    <3>1. b2 = b
      BY <2>1, <2>2, FinishTxIs
    <3> QED
      BY <3>1
  <2>3. CASE HasTx(b.blockState)
    <3>1. PICK z : z = b.blockState
      OBVIOUS
    <3>2. z \in Seq(BlockStates)
      BY <2>1, <3>1, BatchFacts DEF BatchOK
    <3>3. PICK nb \in Nat, nt \in Nat : IsLastSlot(z, nb, nt)
      BY <2>3, <3>1, <3>2, LastSlotIs
    <3>4. PICK t : NewTx(b2, b, nb, nt, t)
      BY <2>1, <3>1, <3>3, FinishTxIs
    <3>5. BatchOK(b2) /\ b2.dbWriteNodes = b.dbWriteNodes
      BY <3>4 DEF NewTx
    <3>6. b2.exists
      BY <3>5, BatchFacts DEF BatchOK
    <3> QED
      BY <2>1, <3>5, <3>6 DEF IsBatch, Writes, Found
  <2> QED
    BY <2>2, <2>3
<1> QED
  BY <1>1, <1>2

LEMMA FinishBlockKeeps ==
    ASSUME NEW b, IsBatch(b), NEW r \in Trees, NEW b2, b2 = finishBlock(b, r)
    PROVE  IsBatch(b2) /\ Writes(b2) = Writes(b)
<1>1. CASE ~b.exists
  <2>1. b2 = b
    BY <1>1 DEF finishBlock
  <2> QED
    BY <2>1
<1>2. CASE b.exists
  <2>1. BatchOK(b) /\ Found(b) = b
    BY <1>2, FoundFacts
  <2>2. BatchOK(b2) /\ b2.dbWriteNodes = b.dbWriteNodes
    BY <2>1, FinishBlockIs
  <2>3. b2.exists
    BY <2>2, BatchFacts DEF BatchOK
  <2> QED
    BY <2>1, <2>2, <2>3 DEF IsBatch, Writes, Found
<1> QED
  BY <1>1, <1>2

LEMMA AtRun ==
    ASSUME NEW e, NEW b, NEW l, Good(e, b, l), e.phase # "idle"
    PROVE  /\ e \in Executors /\ e.oldRoot = l.newRoot
           /\ ~e.aborted => Live(e, b)
           /\ e.aborted => All(StackOf(e), e.oldRoot)
           /\ Workloads \subseteq Workload
<1>1. e \notin Idlers
  BY DEF Idlers
<1> QED
  BY <1>1, BatchExecutionAssumption DEF Good

LEMMA KeptRun ==
    ASSUME NEW e, NEW b, NEW l, e \in Executors, e.oldRoot = l.newRoot,
           ~e.aborted => Live(e, b), e.aborted => All(StackOf(e), e.oldRoot)
    PROVE  Good(e, b, l)
  BY DEF Good

\* The executor has no root that it did not have before, and the batch keeps
\* its nodes.
Moves(e, e2, b, b2) == Drawn(StackOf(e2), StackOf(e)) /\ Writes(b2) = Writes(b)

LEMMA SameStackDraws ==
    ASSUME NEW e, NEW e2, e2.calls = e.calls, e2.root = e.root
    PROVE  Drawn(StackOf(e2), StackOf(e))
<1>1. PICK T : T = StackOf(e) /\ T = StackOf(e2)
  BY DEF StackOf
<1> DEFINE m == [p \in 1..Len(T) |-> p]
<1>2. \A p \in 1..Len(T) : m[p] \in 1..Len(T) /\ T[p] = T[m[p]]
  OBVIOUS
<1>3. \A p, q \in 1..Len(T) : p < q => m[p] <= m[q]
  OBVIOUS
<1> QED
  BY <1>1, <1>2, <1>3 DEF Drawn

LEMMA InitIsGood ==
    ASSUME Init
    PROVE  Inv
<1>1. PICK content \in InitContents :
        /\ batch = NoBatch /\ exec = [phase |-> "idle", batches |-> 0]
        /\ lastFlush = [NoFlush EXCEPT !.oldRoot = Tree(content), !.newRoot = Tree(content)]
  BY DEF Init
<1>2. Tree(content) \in Trees
  BY BatchExecutionAssumption DEF Trees, Contents
<1>3. lastFlush \in Flushes
  BY <1>1, <1>2 DEF Flushes, NoFlush
<1>4. exec \in Idlers
  BY <1>1 DEF Idlers
<1> QED
  BY <1>1, <1>3, <1>4 DEF Inv, Good, IsBatch

LEMMA StartBatchIsGood ==
    ASSUME Inv, NEW w \in Workloads, StartBatch(w)
    PROVE  /\ Inv' /\ Writes(batch') = {} /\ exec'.root = lastFlush.newRoot
           /\ exec' \in Executors /\ Len(exec'.calls) = 0
<1>1. PICK e, e2, b, l : e = exec /\ e2 = exec' /\ b = batch /\ l = lastFlush
  OBVIOUS
<1>2. /\ IsBatch(b) /\ l \in Flushes /\ Good(e, b, l) /\ batch' = b /\ lastFlush' = l
      /\ e.phase = "idle"
  BY <1>1 DEF Inv, StartBatch, In
<1>3. e \in Idlers /\ b = NoBatch
  <2>1. e \notin Executors
    BY <1>2 DEF Executors
  <2> QED
    BY <1>2, <2>1 DEF Good
<1>4. e2 = [phase |-> "batch", batches |-> e.batches + 1,
            workload |-> w, aborted |-> FALSE, oldRoot |-> l.newRoot, root |-> l.newRoot,
            blocks |-> 0, txs |-> 0, started |-> 0, sets |-> 0, calls |-> <<>>,
            marks |-> {l.newRoot}]
  BY <1>1 DEF StartBatch
<1>5. e.batches \in Nat /\ l.newRoot \in Trees /\ <<>> \in Seq(Trees) /\ Len(<<>>) = 0
  BY <1>2, <1>3, EmptySeq DEF Idlers, Flushes
<1>6. e2 \in Executors
  BY <1>4, <1>5 DEF Executors
<1>7. /\ e2.phase = "batch" /\ e2.calls = <<>> /\ e2.root = e2.oldRoot /\ e2.root \in e2.marks
      /\ e2.blocks = 0 /\ e2.txs = 0 /\ ~e2.aborted /\ e2.oldRoot = l.newRoot
  BY <1>4
<1>8. Live(e2, b)
  BY <1>3, <1>6, <1>7, StartBatchIsLive
<1>9. Writes(b) = {}
  BY <1>3 DEF Writes, Found, NoBatch, EmptyBatch
<1>10. Good(e2, b, l)
  BY <1>6, <1>7, <1>8, KeptRun
<1> QED
  BY <1>1, <1>2, <1>5, <1>6, <1>7, <1>9, <1>10 DEF Inv

LEMMA StartBlockIsGood ==
    ASSUME Inv, StartBlock
    PROVE  Inv' /\ exec' \in Executors /\ Moves(exec, exec', batch, batch')
<1>1. PICK e, e2, b, b2, l : e = exec /\ e2 = exec' /\ b = batch /\ b2 = batch' /\ l = lastFlush
  OBVIOUS
<1>2. IsBatch(b) /\ l \in Flushes /\ Good(e, b, l) /\ lastFlush' = l
  BY <1>1 DEF Inv, StartBlock
<1>3. /\ e.phase = "batch" /\ ~e.aborted /\ ~Legacy(e) /\ b2 = startBlock(b, e.root)
      /\ e2 = [e EXCEPT !.phase = "block", !.txs = 0, !.marks = @ \cup {e.root}]
  BY <1>1 DEF StartBlock, In, LegacyFork, Legacy
<1>4. e \in Executors /\ e.oldRoot = l.newRoot /\ Live(e, b)
  BY <1>2, <1>3, AtRun
<1>5. /\ e2 \in Executors /\ e2.phase = "block" /\ e2.txs = 0 /\ ~e2.aborted
      /\ e2.marks = e.marks \cup {e.root} /\ e2.root = e.root /\ e2.calls = e.calls
      /\ e2.workload = e.workload /\ e2.blocks = e.blocks /\ e2.oldRoot = e.oldRoot
  BY <1>3, <1>4 DEF Executors
<1>6. BatchOK(b2) /\ Live(e2, b2) /\ b2.dbWriteNodes = Found(b).dbWriteNodes
  BY <1>2, <1>3, <1>4, <1>5, StartBlockIsLive
<1>7. Writes(b2) = Writes(b)
  BY <1>6, FoundFacts, BatchFacts DEF Writes, Found, BatchOK
<1>8. Good(e2, b2, l)
  BY <1>4, <1>5, <1>6, KeptRun
<1>9. Moves(e, e2, b, b2)
  BY <1>5, <1>7, SameStackDraws DEF Moves
<1> QED
  BY <1>1, <1>2, <1>5, <1>6, <1>8, <1>9 DEF Inv, IsBatch

LEMMA ProcessTxIsGood ==
    ASSUME Inv, ProcessTx
    PROVE  Inv' /\ exec' \in Executors /\ Moves(exec, exec', batch, batch')
<1>1. PICK e, e2, b, l : e = exec /\ e2 = exec' /\ b = batch /\ l = lastFlush
  OBVIOUS
<1>2. IsBatch(b) /\ l \in Flushes /\ Good(e, b, l) /\ lastFlush' = l /\ batch' = b
  BY <1>1 DEF Inv, ProcessTx
<1>3. /\ e.phase # "idle" /\ ~e.aborted /\ e.phase = IF Legacy(e) THEN "batch" ELSE "block"
      /\ e2 = [e EXCEPT !.phase = "tx", !.txs = @ + 1, !.started = @ + 1, !.calls = <<e.root>>,
                        !.marks = @ \cup {e.root}]
  BY <1>1 DEF ProcessTx, In, LegacyFork, Legacy
<1>4. e \in Executors /\ e.oldRoot = l.newRoot /\ Live(e, b)
  BY <1>2, <1>3, AtRun
<1>5. /\ e2.phase = "tx" /\ e2.txs = e.txs + 1 /\ ~e2.aborted
      /\ e2.marks = e.marks \cup {e.root} /\ e2.root = e.root /\ e2.calls = <<e.root>>
      /\ e2.workload = e.workload /\ e2.blocks = e.blocks /\ e2.oldRoot = e.oldRoot
  BY <1>3, <1>4 DEF Executors
<1>6. e2 \in Executors
  <2>1. PICK c, n, j, m : c = <<e.root>> /\ n = e.txs + 1 /\ j = e.started + 1 /\ m = e.marks \cup {e.root}
    OBVIOUS
  <2>2. c \in Seq(Trees) /\ n \in Nat /\ j \in Nat /\ m \in SUBSET Trees
    BY <1>4, <2>1 DEF Executors
  <2>3. e2 = [e EXCEPT !.phase = "tx", !.txs = n, !.started = j, !.calls = c, !.marks = m]
    BY <1>3, <2>1
  <2> QED
    BY <1>4, <2>2, <2>3 DEF Executors
<1>7. Live(e2, b)
  BY <1>2, <1>3, <1>4, <1>5, <1>6, ProcessTxIsLive
<1>8. Good(e2, b, l)
  BY <1>4, <1>5, <1>6, <1>7, KeptRun
<1>9. Drawn(StackOf(e2), StackOf(e))
  <2>1. Len(e.calls) \in Nat /\ Len(StackOf(e)) = Len(e.calls) + 1
        /\ StackOf(e)[Len(e.calls) + 1] = e.root
    BY <1>4, StackFacts
  <2>2. Len(e2.calls) = 1 /\ e2.calls[1] = e.root
    BY <1>5
  <2>3. /\ Len(StackOf(e2)) = Len(e2.calls) + 1
        /\ \A p \in 1..Len(e2.calls) : StackOf(e2)[p] = e2.calls[p]
        /\ StackOf(e2)[Len(e2.calls) + 1] = e2.root
    BY <1>6, StackFacts
  <2>4. PICK T, T2, n, r : T = StackOf(e) /\ T2 = StackOf(e2) /\ n = Len(e.calls) + 1 /\ r = e.root
    OBVIOUS
  <2>5. n \in 1..Len(T) /\ T[n] = r
    BY <2>1, <2>4
  <2>6. Len(T2) = 2 /\ T2[1] = r /\ T2[2] = r
    BY <1>5, <2>2, <2>3, <2>4
  <2> DEFINE m == [p \in 1..2 |-> n]
  <2>7. \A p \in 1..2 : m[p] = n /\ T2[p] = r
    BY <2>6
  <2>8. \A p, q \in 1..2 : m[p] <= m[q]
    BY <2>5, <2>7
  <2> QED
    BY <2>4, <2>5, <2>6, <2>7, <2>8 DEF Drawn
<1> QED
  BY <1>1, <1>2, <1>6, <1>8, <1>9 DEF Inv, Moves

LEMMA SetIsGood ==
    ASSUME Inv, NEW k \in Keys, NEW v \in Values, Set(k, v)
    PROVE  /\ Inv' /\ exec \in Executors /\ exec' \in Executors /\ exec'.calls = exec.calls
           /\ exec'.root = set(exec.root, k, v).newRoot
           /\ Writes(batch') = Writes(batch) \cup set(exec.root, k, v).writes
<1>1. PICK e, e2, b, b2, l : e = exec /\ e2 = exec' /\ b = batch /\ b2 = batch' /\ l = lastFlush
  OBVIOUS
<1>2. IsBatch(b) /\ l \in Flushes /\ Good(e, b, l) /\ lastFlush' = l
  BY <1>1 DEF Inv, Set
<1>3. e.phase # "idle" /\ ~e.aborted /\ AtWork(e)
  BY <1>1 DEF Set, Working, In, AtWork, LegacyFork, Legacy
<1>4. PICK new : /\ new = set(e.root, k, v).newRoot /\ (new \notin e.marks \/ new = e.root)
                 /\ e2 = [e EXCEPT !.root = new, !.sets = @ + 1]
  BY <1>1 DEF Set
<1>5. /\ b2 = setStateRoots(Found(b), BlockNo(e), TxNo(e), e.root, k, v)
      /\ v \in Programs => v \in SlotAt(e, b).dbWritePrograms
  <2>1. /\ b2 = setStateRoots(Found(b), block, tx, e.root, k, v) /\ HasProgram(v)
        /\ block = BlockNo(e) /\ tx = TxNo(e)
    BY <1>1 DEF Set, block, tx, BlockNo, TxNo, LegacyFork, Legacy
  <2> QED
    BY <1>1, <2>1 DEF HasProgram, SlotAt, SlotOf, BlocksOf
<1>6. e \in Executors /\ e.oldRoot = l.newRoot /\ Live(e, b)
  BY <1>2, <1>3, AtRun
<1>7. new \in Trees
  BY <1>4, <1>6, SetIsTree DEF Executors
<1>8. /\ e2 \in Executors /\ e2.phase = e.phase /\ e2.txs = e.txs /\ ~e2.aborted
      /\ e2.marks = e.marks /\ e2.root = new /\ e2.calls = e.calls
      /\ e2.workload = e.workload /\ e2.blocks = e.blocks /\ e2.oldRoot = e.oldRoot
  <2>1. PICK n : n = e.sets + 1
    OBVIOUS
  <2>2. n \in Nat
    BY <1>6, <2>1 DEF Executors
  <2>3. e2 = [e EXCEPT !.root = new, !.sets = n]
    BY <1>4, <2>1
  <2> QED
    BY <1>3, <1>6, <1>7, <2>2, <2>3 DEF Executors
<1>9. /\ BatchOK(b2) /\ Live(e2, b2)
      /\ b2.dbWriteNodes = Found(b).dbWriteNodes \cup set(e.root, k, v).writes
  <2>1. e2.root = set(e.root, k, v).newRoot /\ (e2.root \notin e.marks \/ e2.root = e.root)
    BY <1>4, <1>8
  <2> QED
    BY <1>2, <1>3, <1>5, <1>6, <1>8, <2>1, SetIsLive
<1>10. Writes(b2) = Writes(b) \cup set(e.root, k, v).writes
  BY <1>9, FoundFacts, BatchFacts DEF Writes, Found, BatchOK
<1>11. Good(e2, b2, l)
  BY <1>6, <1>8, <1>9, KeptRun
<1> QED
  BY <1>1, <1>2, <1>4, <1>6, <1>8, <1>9, <1>10, <1>11 DEF Inv, IsBatch

LEMMA SetTemporaryIsGood ==
    ASSUME Inv, SetTemporary
    PROVE  Inv' /\ exec' \in Executors /\ Moves(exec, exec', batch, batch')
<1>1. PICK e, b, b2, l : e = exec /\ b = batch /\ b2 = batch' /\ l = lastFlush
  OBVIOUS
<1>2. IsBatch(b) /\ l \in Flushes /\ Good(e, b, l) /\ lastFlush' = l /\ exec' = e
  BY <1>1 DEF Inv, SetTemporary
<1>3. e.phase # "idle" /\ ~e.aborted /\ AtWork(e)
  BY <1>1 DEF SetTemporary, Working, In, AtWork, LegacyFork, Legacy
<1>4. b2 = setTemporary(Found(b), BlockNo(e), TxNo(e))
  BY <1>1 DEF SetTemporary, block, tx, BlockNo, TxNo, LegacyFork, Legacy
<1>5. e \in Executors /\ e.oldRoot = l.newRoot /\ Live(e, b)
  BY <1>2, <1>3, AtRun
<1>6. BatchOK(b2) /\ Live(e, b2) /\ b2.dbWriteNodes = Found(b).dbWriteNodes
  BY <1>2, <1>3, <1>4, <1>5, SetTemporaryIsLive
<1>7. Writes(b2) = Writes(b)
  BY <1>6, FoundFacts, BatchFacts DEF Writes, Found, BatchOK
<1>8. Good(e, b2, l) /\ Moves(e, e, b, b2)
  BY <1>3, <1>5, <1>6, <1>7, KeptRun, SameStackDraws DEF Moves
<1> QED
  BY <1>1, <1>2, <1>5, <1>6, <1>8 DEF Inv, IsBatch

\* What is true of a batch that does not exist is true of an empty one.
LEMMA FoundLives ==
    ASSUME NEW b, IsBatch(b), NEW e, Live(e, b)
    PROVE  Live(e, Found(b))
<1>1. CASE b.exists
  BY <1>1, FoundFacts
<1>2. CASE ~b.exists
  <2>1. /\ BlocksOf(Found(b)) = BlocksOf(b) /\ Found(b).oldStateRoot = NoRoot
    BY <1>2, FoundFacts
  <2>2. PICK c, ts, bk : c = Found(b) /\ ts = SlotAt(e, b) /\ bk = BlockAt(e, b)
    OBVIOUS
  <2>3. SlotAt(e, c) = ts /\ BlockAt(e, c) = bk /\ BlocksOf(c) = BlocksOf(b)
    BY <2>1, <2>2 DEF SlotAt, BlockAt
  <2>4. stateManagerPurge => Linked(e, c, ts)
    BY <2>1, <2>2, <2>3 DEF Live, Linked
  <2> QED
    BY <2>2, <2>3, <2>4 DEF Live
<1> QED
  BY <1>1, <1>2

LEMMA WritesOfFound ==
    ASSUME NEW b, IsBatch(b)
    PROVE  Writes(Found(b)) = Writes(b)
<1>1. Found(b).exists = TRUE
  BY FoundFacts
<1> QED
  BY <1>1 DEF Writes, Found

\* An executor that is between blocks is beyond the last one.
LEMMA AtWorkInBlock ==
    ASSUME NEW e \in Executors, NEW b, Live(e, b), BlockNo(e) < Len(BlocksOf(b)),
           Len(BlocksOf(b)) \in Nat
    PROVE  AtWork(e)
<1>1. PICK n, m : n = Len(BlocksOf(b)) /\ m = BlockNo(e)
  OBVIOUS
<1>2. n \in Nat /\ m \in Nat /\ m < n
  BY <1>1, NumberFacts
<1>3. ~(n <= m)
  BY <1>2
<1>4. /\ e.phase = "block" => ~Legacy(e)
      /\ e.phase = "batch" /\ ~Legacy(e) => n <= m
  BY <1>1 DEF Live, Placed, BlockNo
<1>5. e.phase \in {"batch", "block", "tx"}
  BY DEF Executors
<1> QED
  BY <1>3, <1>4, <1>5 DEF AtWork

LEMMA WriteProgramIsGood ==
    ASSUME Inv, NEW p \in Programs, WriteProgram(p)
    PROVE  Inv' /\ exec' \in Executors /\ Moves(exec, exec', batch, batch')
<1>1. PICK e, b, b2, l : e = exec /\ b = batch /\ b2 = batch' /\ l = lastFlush
  OBVIOUS
<1>2. IsBatch(b) /\ l \in Flushes /\ Good(e, b, l) /\ lastFlush' = l /\ exec' = e
  BY <1>1 DEF Inv, WriteProgram
<1>3. e.phase # "idle" /\ ~e.aborted
  BY <1>1 DEF WriteProgram, In
<1>4. /\ \/ BlockNo(e) = 0 /\ Found(b).blockState = <<>>
         \/ /\ BlockNo(e) < Len(Found(b).blockState)
            /\ TxNo(e) < Len(Found(b).blockState[BlockNo(e) + 1].txState)
      /\ b2 = writeProgram(Found(b), BlockNo(e), TxNo(e), p)
  BY <1>1 DEF WriteProgram, block, tx, BlockNo, TxNo, LegacyFork, Legacy
<1>5. e \in Executors /\ e.oldRoot = l.newRoot /\ Live(e, b)
  BY <1>2, <1>3, AtRun
<1>6. BatchOK(b2) /\ Live(e, b2) /\ Writes(b2) = Writes(b)
  <2>1. PICK c, z : c = Found(b) /\ z = c.blockState
    OBVIOUS
  <2>2. BatchOK(c) /\ BlocksOf(b) = z /\ Len(z) \in Nat /\ (z = <<>> <=> Len(z) = 0)
    BY <1>2, <2>1, FoundFacts, LenProperties, EmptySeq
  <2>3. CASE BlockNo(e) = 0 /\ z = <<>>
    <3>1. b2 = c
      BY <1>4, <2>1, <2>3 DEF writeProgram
    <3>2. Live(e, c)
      BY <1>2, <1>5, <2>1, FoundLives
    <3> QED
      BY <2>1, <2>2, <3>1, <3>2, WritesOfFound, <1>2
  <2>4. CASE BlockNo(e) < Len(z) /\ TxNo(e) < Len(z[BlockNo(e) + 1].txState)
    <3>1. BlockNo(e) \in Nat
      BY <1>5, NumberFacts
    <3>2. z # <<>>
      BY <2>2, <2>4, <3>1
    <3>3. b.exists
      BY <2>2, <3>2 DEF BlocksOf
    <3>4. c = b
      BY <2>1, <3>3 DEF Found
    <3>5. AtWork(e)
      BY <1>3, <1>5, <2>2, <2>4, AtWorkInBlock
    <3>6. BatchOK(b2) /\ Live(e, b2) /\ b2.dbWriteNodes = b.dbWriteNodes
      BY <1>2, <1>4, <1>5, <2>1, <2>4, <3>3, <3>4, <3>5, WriteProgramIsLive
    <3> QED
      BY <2>1, <2>2, <3>3, <3>6, BatchFacts DEF Writes, Found, BatchOK
  <2> QED
    BY <1>4, <2>1, <2>3, <2>4
<1>7. Good(e, b2, l) /\ Moves(e, e, b, b2)
  BY <1>3, <1>5, <1>6, KeptRun, SameStackDraws DEF Moves
<1> QED
  BY <1>1, <1>2, <1>5, <1>6, <1>7 DEF Inv, IsBatch

\* Steps of a transaction that leave the batch alone.
LEMMA DrawIsGood ==
    ASSUME NEW e, NEW e2, NEW b, NEW l, IsBatch(b), Good(e, b, l),
           e.phase = "tx", e2 \in Executors, e2.phase = "tx", Drawn(StackOf(e2), StackOf(e)),
           Len(e2.calls) > 0, e2.calls[1] = e.calls[1],
           e2.marks = e.marks, e2.workload = e.workload, e2.blocks = e.blocks, e2.txs = e.txs,
           e2.oldRoot = e.oldRoot, e2.aborted = e.aborted
    PROVE  Good(e2, b, l)
<1>1. /\ e \in Executors /\ e.oldRoot = l.newRoot
      /\ ~e.aborted => Live(e, b)
      /\ e.aborted => All(StackOf(e), e.oldRoot)
  BY AtRun
<1>2. ASSUME e.aborted
      PROVE  All(StackOf(e2), e2.oldRoot)
  <2>1. PICK T, T2 : T = StackOf(e) /\ T2 = StackOf(e2)
    OBVIOUS
  <2>2. Len(T) \in Nat /\ Len(T2) \in Nat \ {0}
    BY <1>1, <2>1, StackFacts
  <2>3. PICK ts : ts = EmptyTx
    OBVIOUS
  <2>4. \A x : All(T, x) => All(T2, x)
    BY <2>1, <2>2, DrawnKeeps
  <2> QED
    BY <1>1, <1>2, <2>1, <2>4
<1>3. ASSUME ~e.aborted
      PROVE  Live(e2, b)
  BY <1>1, <1>3, DrawIsLive
<1> QED
  BY <1>1, <1>2, <1>3, KeptRun

LEMMA CallIsGood ==
    ASSUME Inv, Call
    PROVE  Inv' /\ exec' \in Executors /\ Moves(exec, exec', batch, batch')
<1>1. PICK e, e2, b, l : e = exec /\ e2 = exec' /\ b = batch /\ l = lastFlush
  OBVIOUS
<1>2. IsBatch(b) /\ l \in Flushes /\ Good(e, b, l) /\ batch' = b /\ lastFlush' = l
  BY <1>1 DEF Inv, Call
<1>3. e.phase = "tx" /\ ~e.aborted /\ e2 = [e EXCEPT !.calls = Append(@, e.root)]
  BY <1>1 DEF Call, In
<1>4. e \in Executors /\ e.oldRoot = l.newRoot /\ Live(e, b)
  BY <1>2, <1>3, AtRun
<1>5. e2 \in Executors /\ e2.calls = Append(e.calls, e.root) /\ e2.root = e.root
  BY <1>3, <1>4, AppendProperties DEF Executors
<1>6. Len(e.calls) > 0
  BY <1>3, <1>4 DEF Live, Placed
<1>7. /\ Drawn(StackOf(e2), StackOf(e)) /\ Len(e2.calls) = Len(e.calls) + 1
      /\ e2.calls[1] = e.calls[1]
  BY <1>4, <1>5, <1>6, CallDraws
<1>8. Len(e2.calls) > 0
  BY <1>4, <1>6, <1>7, StackFacts
<1>9. /\ e2.phase = "tx" /\ e2.marks = e.marks /\ e2.workload = e.workload
      /\ e2.blocks = e.blocks /\ e2.txs = e.txs /\ e2.oldRoot = e.oldRoot /\ e2.aborted = e.aborted
  BY <1>3, <1>4 DEF Executors
<1>10. Good(e2, b, l)
  BY <1>2, <1>3, <1>5, <1>7, <1>8, <1>9, DrawIsGood
<1> QED
  BY <1>1, <1>2, <1>5, <1>7, <1>10 DEF Inv, Moves

LEMMA ReturnIsGood ==
    ASSUME Inv, Return \/ Revert
    PROVE  Inv' /\ exec' \in Executors /\ Moves(exec, exec', batch, batch')
<1>1. PICK e, e2, b, l : e = exec /\ e2 = exec' /\ b = batch /\ l = lastFlush
  OBVIOUS
<1>2. IsBatch(b) /\ l \in Flushes /\ Good(e, b, l) /\ batch' = b /\ lastFlush' = l
  BY <1>1 DEF Inv, Return, Revert
<1>3. PICK r : /\ e.phase = "tx" /\ Len(e.calls) > 1 /\ (r = e.root \/ r = Last(e.calls))
               /\ e2 = [e EXCEPT !.root = r, !.calls = Front(@)]
  <2>1. CASE Revert
    BY <1>1, <2>1 DEF Revert, In
  <2>2. CASE Return
    <3>1. e.phase = "tx" /\ Len(e.calls) > 1 /\ e2 = [e EXCEPT !.calls = Front(@)]
      BY <1>1, <2>2 DEF Return, In
    <3>2. e \in Executors
      BY <1>2, <3>1, AtRun
    <3>3. e2 = [e EXCEPT !.root = e.root, !.calls = Front(@)]
      BY <3>1, <3>2 DEF Executors
    <3> QED
      BY <3>1, <3>3
  <2> QED
    BY <2>1, <2>2
<1>4. e \in Executors
  BY <1>2, <1>3, AtRun
<1>5. e2 \in Executors /\ e2.calls = Front(e.calls) /\ e2.root = r
  <2>1. PICK c, f, n : c = e.calls /\ f = Front(c) /\ n = Len(c)
    OBVIOUS
  <2>2. c \in Seq(Trees) /\ n > 1 /\ n \in Nat /\ e.root \in Trees
    BY <1>3, <1>4, <2>1, StackFacts DEF Executors
  <2>3. f \in Seq(Trees)
    BY <2>1, <2>2, FrontIs
  <2>4. Last(c) = c[n]
    BY <2>1, <2>2 DEF Last
  <2>5. r \in Trees
    BY <1>3, <2>1, <2>2, <2>4, ElementOfSeq
  <2>6. e2 = [e EXCEPT !.root = r, !.calls = f]
    BY <1>3, <2>1
  <2> QED
    BY <1>4, <2>1, <2>3, <2>5, <2>6 DEF Executors
<1>6. Drawn(StackOf(e2), StackOf(e)) /\ Len(e2.calls) > 0 /\ e2.calls[1] = e.calls[1]
  <2>1. e2.root = e.root \/ e2.root = Last(e.calls)
    BY <1>3, <1>5
  <2> QED
    BY <1>3, <1>4, <1>5, <2>1, ReturnDraws
<1>7. /\ e2.phase = "tx" /\ e2.marks = e.marks /\ e2.workload = e.workload
      /\ e2.blocks = e.blocks /\ e2.txs = e.txs /\ e2.oldRoot = e.oldRoot /\ e2.aborted = e.aborted
  BY <1>3, <1>4 DEF Executors
<1>8. Good(e2, b, l)
  BY <1>2, <1>3, <1>5, <1>6, <1>7, DrawIsGood
<1> QED
  BY <1>1, <1>2, <1>5, <1>6, <1>8 DEF Inv, Moves

LEMMA FinishTxIsGood ==
    ASSUME Inv, FinishTx
    PROVE  Inv' /\ exec' \in Executors /\ Moves(exec, exec', batch, batch')
<1>1. PICK e, e2, b, b2, l : e = exec /\ e2 = exec' /\ b = batch /\ b2 = batch' /\ l = lastFlush
  OBVIOUS
<1>2. IsBatch(b) /\ l \in Flushes /\ Good(e, b, l) /\ lastFlush' = l /\ e.phase = "tx" /\ Len(e.calls) = 1
  BY <1>1 DEF Inv, FinishTx, In
<1>3. PICK r : /\ r = e.root \/ r = e.calls[1]
               /\ b2 = finishTx(b, r)
               /\ e2 = [e EXCEPT !.root = r, !.calls = <<>>,
                                 !.phase = IF Legacy(e) THEN "batch" ELSE "block"]
  BY <1>1 DEF FinishTx, LegacyFork, Legacy
<1>4. /\ e \in Executors /\ e.oldRoot = l.newRoot
      /\ ~e.aborted => Live(e, b)
      /\ e.aborted => All(StackOf(e), e.oldRoot)
  BY <1>2, AtRun
<1>5. r \in Trees
  <2>1. e.calls \in Seq(Trees) /\ 1 \in 1..Len(e.calls) /\ e.root \in Trees
    BY <1>2, <1>4 DEF Executors
  <2> QED
    BY <1>3, <2>1, ElementOfSeq
<1>6. /\ e2.root = r /\ e2.phase = IF Legacy(e) THEN "batch" ELSE "block"
      /\ e2.calls = <<>> /\ e2.workload = e.workload /\ e2.marks = e.marks
      /\ e2.blocks = e.blocks /\ e2.txs = e.txs /\ e2.oldRoot = e.oldRoot /\ e2.aborted = e.aborted
  BY <1>3, <1>4 DEF Executors
<1>7. e2 \in Executors
  <2>1. PICK c, p : c = <<>> /\ p = IF Legacy(e) THEN "batch" ELSE "block"
    OBVIOUS
  <2>2. c \in Seq(Trees) /\ p \in {"batch", "block", "tx"}
    BY <2>1
  <2>3. e2 = [e EXCEPT !.root = r, !.calls = c, !.phase = p]
    BY <1>3, <2>1
  <2> QED
    BY <1>4, <1>5, <2>2, <2>3 DEF Executors
<1>8. e2.root = e.root \/ e2.root = e.calls[1]
  BY <1>3, <1>6
<1>9. Drawn(StackOf(e2), StackOf(e))
  BY <1>2, <1>4, <1>6, <1>7, <1>8, FinishDraws
<1>10. IsBatch(b2) /\ Writes(b2) = Writes(b)
  BY <1>2, <1>3, <1>5, FinishTxKeeps
<1>11. ASSUME e.aborted
       PROVE  All(StackOf(e2), e2.oldRoot)
  <2>1. PICK T, T2 : T = StackOf(e) /\ T2 = StackOf(e2)
    OBVIOUS
  <2>2. Len(T) \in Nat /\ Len(T2) \in Nat \ {0}
    BY <1>4, <1>7, <2>1, StackFacts
  <2>3. PICK ts : ts = EmptyTx
    OBVIOUS
  <2>4. \A x : All(T, x) => All(T2, x)
    BY <1>9, <2>1, <2>2, DrawnKeeps
  <2> QED
    BY <1>4, <1>6, <1>11, <2>1, <2>4
<1>12. ASSUME ~e.aborted
       PROVE  Live(e2, b2)
  <2>1. b2 = finishTx(b, e2.root)
    BY <1>3, <1>6
  <2> QED
    BY <1>2, <1>4, <1>6, <1>7, <1>8, <1>12, <2>1, FinishTxIsLive
<1>13. Good(e2, b2, l)
  BY <1>4, <1>6, <1>7, <1>11, <1>12, KeptRun
<1> QED
  BY <1>1, <1>2, <1>7, <1>9, <1>10, <1>13 DEF Inv, Moves

LEMMA FinishBlockIsGood ==
    ASSUME Inv, FinishBlock
    PROVE  Inv' /\ exec' \in Executors /\ Moves(exec, exec', batch, batch')
<1>1. PICK e, e2, b, b2, l : e = exec /\ e2 = exec' /\ b = batch /\ b2 = batch' /\ l = lastFlush
  OBVIOUS
<1>2. IsBatch(b) /\ l \in Flushes /\ Good(e, b, l) /\ lastFlush' = l /\ e.phase = "block"
  BY <1>1 DEF Inv, FinishBlock, In
<1>3. b2 = finishBlock(b, e.root) /\ e2 = [e EXCEPT !.phase = "batch", !.blocks = @ + 1]
  BY <1>1 DEF FinishBlock
<1>4. /\ e \in Executors /\ e.oldRoot = l.newRoot
      /\ ~e.aborted => Live(e, b)
      /\ e.aborted => All(StackOf(e), e.oldRoot)
  BY <1>2, AtRun
<1>5. /\ e2 \in Executors /\ e2.phase = "batch" /\ e2.blocks = e.blocks + 1 /\ e2.calls = e.calls
      /\ e2.root = e.root /\ e2.marks = e.marks /\ e2.workload = e.workload /\ e2.txs = e.txs
      /\ e2.oldRoot = e.oldRoot /\ e2.aborted = e.aborted
  <2>1. PICK n : n = e.blocks + 1
    OBVIOUS
  <2>2. n \in Nat
    BY <1>4, <2>1 DEF Executors
  <2>3. e2 = [e EXCEPT !.phase = "batch", !.blocks = n]
    BY <1>3, <2>1
  <2> QED
    BY <1>4, <2>1, <2>2, <2>3 DEF Executors
<1>6. IsBatch(b2) /\ Writes(b2) = Writes(b)
  <2>1. e.root \in Trees
    BY <1>4 DEF Executors
  <2> QED
    BY <1>2, <1>3, <2>1, FinishBlockKeeps
<1>7. e.aborted => All(StackOf(e2), e2.oldRoot)
  <2>1. StackOf(e2) = StackOf(e)
    BY <1>5 DEF StackOf
  <2> QED
    BY <1>4, <1>5, <2>1
<1>8. ~e.aborted => Live(e2, b2)
  BY <1>2, <1>3, <1>4, <1>5, FinishBlockIsLive
<1>9. Good(e2, b2, l)
  BY <1>4, <1>5, <1>7, <1>8, KeptRun
<1>10. Moves(e, e2, b, b2)
  BY <1>5, <1>6, SameStackDraws DEF Moves
<1> QED
  BY <1>1, <1>2, <1>5, <1>6, <1>9, <1>10 DEF Inv

LEMMA AbortBatchIsGood ==
    ASSUME Inv, AbortBatch
    PROVE  /\ Inv' /\ exec' \in Executors /\ Writes(batch') = Writes(batch)
           /\ All(StackOf(exec'), lastFlush.newRoot)
<1>1. PICK e, e2, b, l : e = exec /\ e2 = exec' /\ b = batch /\ l = lastFlush
  OBVIOUS
<1>2. /\ IsBatch(b) /\ l \in Flushes /\ Good(e, b, l) /\ lastFlush' = l /\ batch' = b
      /\ e.phase \in {"batch", "block", "tx"}
  BY <1>1 DEF Inv, AbortBatch, In
<1>3. e \in Executors /\ e.oldRoot = l.newRoot
  BY <1>2, AtRun
<1>4. PICK c, o : /\ e2 = [e EXCEPT !.aborted = TRUE, !.root = o, !.calls = c]
                  /\ o = e.oldRoot /\ (c = <<o>> \/ c = <<>>)
  BY <1>1 DEF AbortBatch
<1>5. o \in Trees /\ c \in Seq(Trees)
  <2>1. o \in Trees
    BY <1>3, <1>4 DEF Executors
  <2>2. <<o>> \in Seq(Trees) /\ <<>> \in Seq(Trees)
    BY <2>1
  <2> QED
    BY <1>4, <2>1, <2>2
<1>6. /\ e2 \in Executors /\ e2.aborted /\ e2.root = o /\ e2.calls = c /\ e2.oldRoot = o
  BY <1>3, <1>4, <1>5 DEF Executors
<1>7. All(StackOf(e2), o)
  <2>1. PICK n, T : n = Len(c) /\ T = StackOf(e2)
    OBVIOUS
  <2>2. n \in Nat /\ Len(T) = n + 1 /\ (\A p \in 1..n : T[p] = c[p]) /\ T[n + 1] = o
    BY <1>6, <2>1, StackFacts
  <2>3. \A p \in 1..n : c[p] = o
    BY <1>4, <2>1
  <2>4. \A p \in 1..n + 1 : p \in 1..n \/ p = n + 1
    BY <2>2
  <2> QED
    BY <2>1, <2>2, <2>3, <2>4 DEF All
<1>8. Good(e2, b, l)
  BY <1>3, <1>4, <1>6, <1>7, KeptRun
<1> QED
  BY <1>1, <1>2, <1>3, <1>4, <1>6, <1>7, <1>8 DEF Inv

LEMMA FlushIsGood ==
    ASSUME Inv, Flush \/ CancelBatch
    PROVE  Inv' /\ exec' \in Idlers
<1>1. PICK e, l : e = exec /\ l = lastFlush
  OBVIOUS
<1>2. /\ l \in Flushes /\ Good(e, batch, l) /\ e.phase # "idle" /\ batch' = NoBatch
      /\ exec' = [phase |-> "idle", batches |-> e.batches]
  BY <1>1 DEF Inv, Flush, CancelBatch
<1>3. e \in Executors /\ Workloads \subseteq Workload
  BY <1>2, AtRun
<1>4. exec' \in Idlers
  BY <1>2, <1>3 DEF Executors, Idlers
<1>5. lastFlush' \in Flushes
  <2>1. CASE CancelBatch
    BY <1>1, <1>2, <2>1 DEF CancelBatch
  <2>2. CASE Flush
    <3>1. PICK f : /\ f = IF batch.exists THEN flush(batch, e.root, e.workload.persistence, database)
                          ELSE [ok |-> TRUE, db |-> database]
                   /\ lastFlush' = [ok |-> f.ok, oldRoot |-> e.oldRoot, newRoot |-> e.root,
                                    durable |-> l.durable /\ e.workload.persistence = "database"]
      BY <1>1, <2>2 DEF Flush
    <3>2. f.ok \in BOOLEAN
      <4>1. CASE ~batch.exists
        BY <3>1, <4>1
      <4>2. CASE batch.exists
        BY <3>1, <4>2 DEF flush
      <4> QED
        BY <4>1, <4>2
    <3>3. e.oldRoot \in Trees /\ e.root \in Trees /\ l.durable \in BOOLEAN
      BY <1>2, <1>3 DEF Executors, Flushes
    <3>4. (l.durable /\ e.workload.persistence = "database") \in BOOLEAN
      OBVIOUS
    <3> QED
      BY <3>1, <3>2, <3>3, <3>4 DEF Flushes
  <2> QED
    BY <2>1, <2>2
<1> QED
  BY <1>2, <1>4, <1>5 DEF Inv, Good, IsBatch

LEMMA StepIsGood ==
    ASSUME Inv, [Next]_vars
    PROVE  Inv'
<1>1. CASE UNCHANGED vars
  BY <1>1 DEF vars, Inv
<1>2. ASSUME NEW w \in Workloads, StartBatch(w)
      PROVE  Inv'
  BY <1>2, StartBatchIsGood
<1>3. CASE StartBlock
  BY <1>3, StartBlockIsGood
<1>4. CASE ProcessTx
  BY <1>4, ProcessTxIsGood
<1>5. ASSUME NEW k \in Keys, NEW v \in Values, Set(k, v)
      PROVE  Inv'
  BY <1>5, SetIsGood
<1>6. CASE SetTemporary
  BY <1>6, SetTemporaryIsGood
<1>7. ASSUME NEW p \in Programs, WriteProgram(p)
      PROVE  Inv'
  BY <1>7, WriteProgramIsGood
<1>8. CASE Call
  BY <1>8, CallIsGood
<1>9. CASE Return \/ Revert
  BY <1>9, ReturnIsGood
<1>10. CASE FinishTx
  BY <1>10, FinishTxIsGood
<1>11. CASE FinishBlock
  BY <1>11, FinishBlockIsGood
<1>12. CASE AbortBatch
  BY <1>12, AbortBatchIsGood
<1>13. CASE Flush \/ CancelBatch
  BY <1>13, FlushIsGood
<1> QED
  BY <1>1, <1>2, <1>3, <1>4, <1>5, <1>6, <1>7, <1>8, <1>9, <1>10, <1>11, <1>12, <1>13 DEF Next

LEMMA InvHolds == Spec => []Inv
<1>1. Init => Inv
  BY InitIsGood
<1>2. Inv /\ [Next]_vars => Inv'
  BY StepIsGood
<1> QED
  BY <1>1, <1>2, PTL DEF Spec

\* For every tree, workload and number of batches, with and without the purge,
\* the positions that the state manager keeps are those of the last block,
\* transaction and sub-state, so the range checks of setStateRoot and of flush
\* never fire.
THEOREM IndexesAreInRange == Spec => []IndexesInRange
<1>1. ASSUME Inv
      PROVE  IndexesInRange
  <2>1. SUFFICES ASSUME batch.exists, NEW i \in DOMAIN batch.blockState, NEW bs, bs = batch.blockState[i]
                 PROVE  /\ bs.txState # <<>> => bs.currentTx < Len(bs.txState)
                        /\ \A j \in DOMAIN bs.txState :
                              LET ts == bs.txState[j]
                              IN  IF ts.subState = <<>> THEN ts.currentSubState = 0
                                  ELSE ts.currentSubState < Len(ts.subState)
    BY DEF IndexesInRange
  <2>2. BatchOK(batch)
    BY <1>1, <2>1, FoundFacts DEF Inv
  <2>3. PICK z : z = batch.blockState /\ z \in Seq(BlockStates)
    BY <2>2, BatchFacts DEF BatchOK
  <2>4. i \in 1..Len(z) /\ bs \in BlockStates /\ BlockOK(bs)
    BY <2>1, <2>2, <2>3, BatchFacts, LenProperties DEF BatchOK
  <2>5. /\ bs.txState \in Seq(TxStates) /\ Len(bs.txState) \in Nat
        /\ bs.txState = <<>> <=> Len(bs.txState) = 0
    BY <2>4, BlockFacts
  <2>6. bs.txState # <<>> => bs.currentTx < Len(bs.txState)
    BY <2>4, <2>5 DEF BlockOK
  <2>7. ASSUME NEW j \in DOMAIN bs.txState, NEW ts, ts = bs.txState[j]
        PROVE  IF ts.subState = <<>> THEN ts.currentSubState = 0 ELSE ts.currentSubState < Len(ts.subState)
    <3>1. j \in 1..Len(bs.txState)
      BY <2>5, <2>7, LenProperties
    <3>2. TxOK(ts) /\ ts \in TxStates
      BY <2>4, <2>7, <3>1, BlockFacts DEF BlockOK
    <3>3. Len(ts.subState) \in Nat
      BY <3>2, TxFacts
    <3> QED
      BY <3>2, <3>3 DEF TxOK
  <2> QED
    BY <2>6, <2>7
<1> QED
  BY <1>1, InvHolds, PTL

-----------------------------------------------------------------------------
(* flush finds the sub-states that lead to the current one                 *)

\* f starts at c and goes from each value to the next one by G.
Iterates(f, n, c, G) == f[0] = c /\ \A i \in 1..n : f[i] = G[<<f[i - 1], i>>]

\* A function defined by recursion on its position exists.
LEMMA IterationExists ==
    ASSUME NEW n \in Nat, NEW D, NEW c \in D, NEW G \in [D \X (1..n) -> D]
    PROVE  \E f \in [0..n -> D] : Iterates(f, n, c, G)
<1> DEFINE U == {l \in 0..n : ~\E f \in [0..l -> D] : Iterates(f, l, c, G)}
<1>1. 0 \notin U
  <2> DEFINE f == [l \in 0..0 |-> c]
  <2>1. f \in [0..0 -> D] /\ f[0] = c /\ 1..0 = {}
    OBVIOUS
  <2>2. Iterates(f, 0, c, G)
    BY <2>1 DEF Iterates
  <2> QED
    BY <2>1, <2>2
<1>2. ASSUME NEW l \in 0..n, 0 < l, l - 1 \notin U
      PROVE  l \notin U
  <2>1. PICK f \in [0..l - 1 -> D] : Iterates(f, l - 1, c, G)
    BY <1>2
  <2>2. PICK x : x = G[<<f[l - 1], l>>]
    OBVIOUS
  <2>3. f[l - 1] \in D /\ l \in 1..n
    BY <1>2
  <2>4. x \in D
    BY <2>2, <2>3
  <2> DEFINE g == [i \in 0..l |-> IF i = l THEN x ELSE f[i]]
  <2>5. g \in [0..l -> D]
    BY <2>4
  <2>6. g[l] = x /\ \A i \in 0..l - 1 : g[i] = f[i]
    BY <1>2
  <2> HIDE DEF g
  <2>7. g[0] = c
    BY <1>2, <2>1, <2>6 DEF Iterates
  <2>8. ASSUME NEW i \in 1..l
        PROVE  g[i] = G[<<g[i - 1], i>>]
    <3>1. i - 1 \in 0..l - 1 /\ g[i - 1] = f[i - 1]
      BY <2>6, <2>8
    <3>2. CASE i = l
      BY <2>2, <2>6, <3>1, <3>2
    <3>3. CASE i # l
      <4>1. i \in 1..l - 1 /\ i \in 0..l - 1
        BY <2>8, <3>3
      <4> QED
        BY <2>1, <2>6, <3>1, <4>1 DEF Iterates
    <3> QED
      BY <3>2, <3>3
  <2>9. Iterates(g, l, c, G)
    BY <2>7, <2>8 DEF Iterates
  <2> QED
    BY <2>5, <2>9
<1>3. U \in SUBSET (0..n) /\ 0 \in Int /\ n \in Int
  OBVIOUS
<1>4. U = {}
  <2> HIDE DEF U
  <2> QED
    BY <1>1, <1>2, <1>3, UpFrom
<1> QED
  BY <1>4

\* A sub-state begins where the transaction or an earlier sub-state ends up.
LEMMA ComesFrom ==
    ASSUME NEW ts \in TxStates, TxOK(ts), NEW s, s = ts.subState, NEW i \in 1..Len(s),
           s[i].oldStateRoot # ts.oldStateRoot
    PROVE  \E p \in 1..i - 1 : s[p].newStateRoot = s[i].oldStateRoot
<1>1. Len(s) \in Nat
  BY TxFacts
<1> DEFINE J == {j \in 1..i : s[j].oldStateRoot = s[i].oldStateRoot}
<1>2. J \in SUBSET Nat /\ i \in J
  BY <1>1
<1>3. PICK j \in J : \A q \in J : j <= q
  BY <1>2, SmallestNumber
<1>4. j \in 1..i /\ j \in 1..Len(s) /\ s[j].oldStateRoot = s[i].oldStateRoot
  BY <1>1, <1>3
<1>5. SubOK(ts, j)
  BY <1>4 DEF TxOK
<1>6. \A q \in 1..j - 1 : s[q].oldStateRoot # s[j].oldStateRoot
  <2>1. SUFFICES ASSUME NEW q \in 1..j - 1, s[q].oldStateRoot = s[j].oldStateRoot
                 PROVE  FALSE
    OBVIOUS
  <2>2. q \in 1..i /\ ~(j <= q)
    BY <1>4, <2>1
  <2>3. q \in J
    BY <1>4, <2>1, <2>2
  <2> QED
    BY <1>3, <2>2, <2>3
<1>7. j > 1 /\ s[j - 1].newStateRoot = s[j].oldStateRoot
  BY <1>4, <1>5, <1>6 DEF SubOK
<1>8. j - 1 \in 1..i - 1
  BY <1>4, <1>7
<1> QED
  BY <1>4, <1>7, <1>8

\* Sub-state p leads to sub-state i, or the transaction begins with it.
Joins(ts, p, i) ==
    \/ p = Start /\ ts.subState[i + 1].oldStateRoot = ts.oldStateRoot
    \/ p \in 0..i - 1 /\ ts.subState[p + 1].newStateRoot = ts.subState[i + 1].oldStateRoot

LEMMA PreviousIs ==
    ASSUME NEW ts \in TxStates, TxOK(ts), NEW i \in 0..Len(ts.subState) - 1
    PROVE  Joins(ts, previous(ts, i), i)
<1>1. PICK s, n, ss : s = ts.subState /\ n = Len(s) /\ ss = s[i + 1]
  OBVIOUS
<1>2. n \in Nat /\ i + 1 \in 1..n /\ s # <<>>
  <2>1. n \in Nat /\ (s = <<>> => n = 0)
    BY <1>1, TxFacts
  <2> QED
    BY <1>1, <2>1
<1>3. SubOK(ts, i + 1)
  BY <1>1, <1>2 DEF TxOK
<1>4. ss.previousSubState = IF i = 0 THEN 0 ELSE i - 1
  BY <1>1, <1>2, <1>3 DEF SubOK
<1> DEFINE from == {j \in 0..i - 1 : s[j + 1].newStateRoot = ss.oldStateRoot}
<1>5. PICK p : p = previous(ts, i)
  OBVIOUS
<1>6. CASE i = 0
  <2>1. ss.oldStateRoot = ts.oldStateRoot
    BY <1>1, <1>2, <1>6 DEF TxOK
  <2>2. p = Start
    BY <1>1, <1>5, <1>6, <2>1 DEF previous
  <2> QED
    BY <1>1, <1>5, <2>1, <2>2 DEF Joins
<1>7. CASE i > 0 /\ s[(i - 1) + 1].newStateRoot = ss.oldStateRoot
  <2>1. ss.previousSubState = i - 1 /\ i # 0 /\ i - 1 \in 0..i - 1
    BY <1>4, <1>7
  <2>2. p = i - 1
    BY <1>1, <1>5, <1>7, <2>1 DEF previous
  <2> QED
    BY <1>1, <1>5, <1>7, <2>1, <2>2 DEF Joins
<1>8. CASE i > 0 /\ s[(i - 1) + 1].newStateRoot # ss.oldStateRoot
  <2>1. ss.previousSubState = i - 1 /\ i # 0
    BY <1>4, <1>8
  <2>2. /\ from # {} => p = Min(from)
        /\ from = {} => p = IF ss.oldStateRoot = ts.oldStateRoot THEN Start ELSE Broken
    BY <1>1, <1>5, <1>8, <2>1 DEF previous
  <2>3. CASE from # {}
    <3>1. from \in SUBSET Nat
      OBVIOUS
    <3>2. Min(from) \in from
      BY <2>3, <3>1, MinIs
    <3> QED
      BY <1>1, <1>5, <2>2, <2>3, <3>2 DEF Joins
  <2>4. CASE from = {}
    <3>1. ss.oldStateRoot = ts.oldStateRoot
      <4>1. SUFFICES ASSUME ss.oldStateRoot # ts.oldStateRoot
                     PROVE  FALSE
        OBVIOUS
      <4>2. PICK q \in 1..(i + 1) - 1 : s[q].newStateRoot = s[i + 1].oldStateRoot
        BY <1>1, <1>2, <4>1, ComesFrom
      <4>3. q - 1 \in 0..i - 1 /\ (q - 1) + 1 = q
        BY <4>2
      <4>4. q - 1 \in from
        BY <1>1, <4>2, <4>3
      <4> QED
        BY <2>4, <4>4
    <3> QED
      BY <1>1, <1>5, <2>2, <2>4, <3>1 DEF Joins
  <2> QED
    BY <2>3, <2>4
<1> QED
  BY <1>6, <1>7, <1>8

\* f[i] is i and what f says of the number before it.
Traces(f, m, P) ==
    f = [i \in 0..m |-> {i} \cup (IF P[i] < 0 THEN {P[i]} ELSE f[P[i]])]

LEMMA TraceExists ==
    ASSUME NEW n \in Nat, NEW P, \A i \in 0..n : P[i] = -1 \/ P[i] \in 0..i - 1
    PROVE  \E f : Traces(f, n, P)
<1> DEFINE U == {l \in 0..n : ~\E f : Traces(f, l, P)}
<1>1. 0 \notin U
  <2> DEFINE f == [l \in 0..0 |-> {0} \cup {P[0]}]
  <2>1. P[0] = -1
    OBVIOUS
  <2>2. P[0] < 0
    BY <2>1
  <2>3. f = [i \in 0..0 |-> {i} \cup (IF P[i] < 0 THEN {P[i]} ELSE f[P[i]])]
    BY <2>2
  <2> QED
    BY <2>3 DEF Traces
<1>2. ASSUME NEW l \in 0..n, 0 < l, l - 1 \notin U
      PROVE  l \notin U
  <2>1. PICK f : Traces(f, l - 1, P)
    BY <1>2
  <2>2. PICK x : x = {l} \cup (IF P[l] < 0 THEN {P[l]} ELSE f[P[l]])
    OBVIOUS
  <2> DEFINE g == [i \in 0..l |-> IF i = l THEN x ELSE f[i]]
  <2>3. ASSUME NEW i \in 0..l
        PROVE  g[i] = {i} \cup (IF P[i] < 0 THEN {P[i]} ELSE g[P[i]])
    <3>1. P[i] = -1 \/ P[i] \in 0..i - 1
      BY <1>2, <2>3
    <3>2. P[i] < 0 \/ (P[i] \in 0..l /\ P[i] # l)
      BY <3>1
    <3>3. P[i] < 0 \/ g[P[i]] = f[P[i]]
      BY <3>2
    <3>4. CASE i = l
      <4>1. g[i] = x
        BY <3>4
      <4> QED
        BY <2>2, <3>3, <3>4, <4>1
    <3>5. CASE i # l
      <4>1. i \in 0..l - 1 /\ g[i] = f[i]
        BY <2>3, <3>5
      <4>2. f[i] = {i} \cup (IF P[i] < 0 THEN {P[i]} ELSE f[P[i]])
        BY <2>1, <4>1 DEF Traces
      <4> QED
        BY <3>3, <4>1, <4>2
    <3> QED
      BY <3>4, <3>5
  <2>4. g = [i \in 0..l |-> g[i]]
    OBVIOUS
  <2> HIDE DEF g
  <2>5. Traces(g, l, P)
    BY <2>3, <2>4 DEF Traces
  <2> QED
    BY <2>5
<1>3. U \in SUBSET (0..n) /\ 0 \in Int /\ n \in Int
  OBVIOUS
<1>4. U = {}
  <2> HIDE DEF U
  <2> QED
    BY <1>1, <1>2, <1>3, UpFrom
<1>5. n \in 0..n /\ n \notin U
  BY <1>4
<1> QED
  BY <1>5

\* V goes from i back to the start: it has the number before each of its
\* numbers, and none in between.
Trail(V, i, P) ==
    /\ V \subseteq {-1} \cup (0..i) /\ i \in V /\ -1 \in V
    /\ \A j \in V : j >= 0 => P[j] \in V /\ \A k \in V : k <= P[j] \/ j <= k

LEMMA TraceIsTrail ==
    ASSUME NEW n \in Nat, NEW P, \A i \in 0..n : P[i] = -1 \/ P[i] \in 0..i - 1,
           NEW f, Traces(f, n, P), NEW i \in 0..n
    PROVE  Trail(f[i], i, P)
<1> DEFINE U == {l \in 0..n : ~Trail(f[l], l, P)}
<1>1. SUFFICES ASSUME U # {}
               PROVE  FALSE
  OBVIOUS
<1>2. U \in SUBSET Nat
  OBVIOUS
<1>3. PICK l \in U : \A q \in U : l <= q
  <2> HIDE DEF U
  <2> QED
    BY <1>1, <1>2, SmallestNumber
<1>4. l \in 0..n /\ ~Trail(f[l], l, P)
  BY <1>3
<1>5. PICK V, p : V = f[l] /\ p = P[l]
  OBVIOUS
<1>6. (p = -1 \/ p \in 0..l - 1) /\ V = {l} \cup (IF p < 0 THEN {p} ELSE f[p])
  BY <1>4, <1>5 DEF Traces
<1>7. CASE p = -1
  <2>1. V = {l, -1} /\ l >= 0
    BY <1>4, <1>6, <1>7
  <2>2. Trail(V, l, P)
    <3>1. V \subseteq {-1} \cup (0..l) /\ l \in V /\ -1 \in V
      BY <1>4, <2>1
    <3>2. ASSUME NEW j \in V, j >= 0
          PROVE  P[j] \in V /\ \A k \in V : k <= P[j] \/ j <= k
      <4>1. j = l
        BY <2>1, <3>2
      <4>2. P[j] = -1
        BY <1>5, <1>7, <4>1
      <4>3. \A k \in V : k <= -1 \/ l <= k
        BY <1>4, <2>1
      <4> QED
        BY <2>1, <4>1, <4>2, <4>3
    <3> QED
      BY <3>1, <3>2 DEF Trail
  <2> QED
    BY <1>4, <1>5, <2>2
<1>8. CASE p \in 0..l - 1
  <2>1. PICK W : W = f[p]
    OBVIOUS
  <2>2. ~(p < 0) /\ p \in 0..n /\ ~(l <= p) /\ l \in Nat /\ p \in Nat
    BY <1>4, <1>8
  <2>3. V = {l} \cup W
    BY <1>6, <2>1, <2>2
  <2>4. Trail(W, p, P)
    BY <1>3, <2>1, <2>2
  <2>5. W \subseteq {-1} \cup (0..p) /\ p \in W /\ -1 \in W
    BY <2>4 DEF Trail
  <2>6. \A j \in W : j \in Int /\ j <= p
    BY <2>2, <2>5
  <2>7. V \subseteq {-1} \cup (0..l) /\ l \in V /\ -1 \in V
    BY <2>2, <2>3, <2>5
  <2>8. ASSUME NEW j \in V, j >= 0
        PROVE  P[j] \in V /\ \A k \in V : k <= P[j] \/ j <= k
    <3>1. CASE j = l
      <4>1. P[j] = p
        BY <1>5, <3>1
      <4>2. \A k \in V : k <= p \/ l <= k
        BY <2>2, <2>3, <2>6
      <4> QED
        BY <2>3, <2>5, <3>1, <4>1, <4>2
    <3>2. CASE j \in W
      <4>1. P[j] \in W /\ \A k \in W : k <= P[j] \/ j <= k
        BY <2>4, <2>8, <3>2 DEF Trail
      <4>2. j <= l
        BY <2>2, <2>6, <3>2
      <4> QED
        BY <2>3, <4>1, <4>2
    <3> QED
      BY <2>3, <2>8, <3>1, <3>2
  <2>9. Trail(V, l, P)
    BY <2>7, <2>8 DEF Trail
  <2> QED
    BY <1>4, <1>5, <2>9
<1> QED
  BY <1>6, <1>7, <1>8

\* V holds the sub-states that lead from the old root of the transaction to
\* its last sub-state, each with the one it builds on next to it in V.
Leads(V, ts) ==
    \E P : /\ Trail(V, Len(ts.subState) - 1, P)
           /\ \A i \in 0..Len(ts.subState) - 1 : Joins(ts, P[i], i)

LEMMA ValidIs ==
    ASSUME NEW ts \in TxStates, TxOK(ts), ~Idle(ts)
    PROVE  Leads(validSubStates(ts), ts)
<1>1. PICK n, V : n = Len(ts.subState) - 1 /\ V = validSubStates(ts)
  OBVIOUS
<1>2. n \in Nat /\ ts.currentSubState = n
  BY <1>1, TxFacts DEF TxOK, Idle
<1> DEFINE P == [i \in 0..n |-> previous(ts, i)]
<1>3. \A i \in 0..n : Joins(ts, P[i], i)
  BY <1>1, PreviousIs
<1>4. \A i \in 0..n : P[i] = previous(ts, i)
  OBVIOUS
<1> HIDE DEF P
<1>5. \A i \in 0..n : P[i] = -1 \/ P[i] \in 0..i - 1
  BY <1>3 DEF Joins, Start
<1>6. PICK f : Traces(f, n, P) /\ V = f[n]
  <2>1. \E f : Traces(f, n, P)
    BY <1>2, <1>5, TraceExists
  <2>2. \A f : Traces(f, n, P) <=>
               f = [i \in 0..n |-> LET p == previous(ts, i)
                                   IN  {i} \cup (IF p < 0 THEN {p} ELSE f[p])]
    BY <1>4 DEF Traces
  <2>3. V = (CHOOSE f : f = [i \in 0..Len(ts.subState) - 1 |->
                                LET p == previous(ts, i)
                                IN  {i} \cup (IF p < 0 THEN {p} ELSE f[p])])[ts.currentSubState]
    BY <1>1 DEF validSubStates
  <2>4. PICK h : h = CHOOSE f : f = [i \in 0..n |-> LET p == previous(ts, i)
                                                    IN  {i} \cup (IF p < 0 THEN {p} ELSE f[p])]
    OBVIOUS
  <2>5. h = [i \in 0..n |-> LET p == previous(ts, i)
                            IN  {i} \cup (IF p < 0 THEN {p} ELSE h[p])]
    BY <2>1, <2>2, <2>4
  <2>6. Traces(h, n, P)
    BY <2>2, <2>5
  <2> QED
    BY <1>1, <1>2, <2>3, <2>4, <2>6
<1>7. Trail(V, n, P)
  <2>1. n \in 0..n
    BY <1>2
  <2> QED
    BY <1>2, <1>5, <1>6, <2>1, TraceIsTrail
<1> QED
  BY <1>1, <1>3, <1>7 DEF Leads

LEMMA AllConsistent ==
    ASSUME NEW ts \in TxStates, TxOK(ts)
    PROVE  txConsistent(ts)
<1>1. SUFFICES ASSUME ts.subState # <<>>
               PROVE  /\ ts.subState[ts.currentSubState + 1].newStateRoot = ts.newStateRoot
                      /\ Broken \notin validSubStates(ts)
  BY DEF txConsistent
<1>2. PICK n : n = Len(ts.subState)
  OBVIOUS
<1>3. n \in Nat /\ n # 0 /\ ts.currentSubState = n - 1 /\ ts.newStateRoot = ts.subState[n].newStateRoot
  BY <1>1, <1>2, TxFacts DEF TxOK, Idle
<1>4. ts.currentSubState + 1 = n
  BY <1>3
<1>5. PICK V, P : V = validSubStates(ts) /\ Trail(V, n - 1, P)
  BY <1>1, <1>2, ValidIs DEF Leads, Idle
<1>6. V \subseteq {-1} \cup (0..n - 1) /\ -2 \notin {-1} \cup (0..n - 1)
  BY <1>3, <1>5 DEF Trail
<1> QED
  BY <1>3, <1>4, <1>5, <1>6 DEF Broken

\* The transactions of the blocks up to each of them.
TxsSoFar(f, z) ==
    /\ f[0] = <<>>
    /\ \A i \in 1..Len(z) : f[i] = f[i - 1] \o z[i].txState
    /\ \A i \in 0..Len(z) : f[i] \in Seq(TxStates)

LEMMA TxsIs ==
    ASSUME NEW z \in Seq(BlockStates)
    PROVE  \E f : TxsSoFar(f, z) /\ Txs(z) = f[Len(z)]
<1>1. PICK n : n = Len(z)
  OBVIOUS
<1>2. n \in Nat /\ \A i \in 1..n : z[i].txState \in Seq(TxStates)
  BY <1>1, LenProperties, ElementOfSeq, BlockFacts
<1>3. PICK D, c : D = Seq(TxStates) /\ c = <<>>
  OBVIOUS
<1> DEFINE G == [q \in D \X (1..n) |-> q[1] \o z[q[2]].txState]
<1>4. c \in D
  BY <1>3, EmptySeq
<1>5. G \in [D \X (1..n) -> D]
  <2>1. \A q \in D \X (1..n) : q[1] \o z[q[2]].txState \in D
    BY <1>2, <1>3, ConcatProperties
  <2> QED
    BY <2>1
<1>6. \A x \in D, i \in 1..n : G[<<x, i>>] = x \o z[i].txState
  OBVIOUS
<1> HIDE DEF G
<1>7. PICK f \in [0..n -> D] : Iterates(f, n, c, G)
  BY <1>2, <1>4, <1>5, IterationExists
<1>8. f[0] = c /\ \A i \in 1..n : f[i] = f[i - 1] \o z[i].txState
  <2>1. ASSUME NEW i \in 1..n
        PROVE  f[i] = f[i - 1] \o z[i].txState
    <3>1. i - 1 \in 0..n
      BY <1>2
    <3>2. f[i - 1] \in D /\ f[i] = G[<<f[i - 1], i>>]
      BY <1>7, <3>1 DEF Iterates
    <3> QED
      BY <1>6, <3>2
  <2> QED
    BY <1>7, <2>1 DEF Iterates
<1>9. f = [i \in 0..n |-> IF i = 0 THEN c ELSE f[i - 1] \o z[i].txState]
  <2>1. \A i \in 0..n : i = 0 \/ i \in 1..n
    BY <1>2
  <2>2. \A i \in 0..n : f[i] = IF i = 0 THEN c ELSE f[i - 1] \o z[i].txState
    BY <1>8, <2>1
  <2> QED
    BY <2>2
<1>10. PICK h : h = CHOOSE u : u = [i \in 0..n |-> IF i = 0 THEN c ELSE u[i - 1] \o z[i].txState]
  OBVIOUS
<1>11. h = [i \in 0..n |-> IF i = 0 THEN c ELSE h[i - 1] \o z[i].txState]
  BY <1>9, <1>10
<1>12. h[0] = c /\ \A i \in 1..n : h[i] = h[i - 1] \o z[i].txState
  BY <1>2, <1>11
<1>13. \A i \in 0..n : h[i] \in D
  <2> DEFINE U == {i \in 0..n : h[i] \notin D}
  <2>1. 0 \notin U
    BY <1>4, <1>12
  <2>2. ASSUME NEW l \in 0..n, 0 < l, l - 1 \notin U
        PROVE  l \notin U
    <3>1. l \in 1..n /\ l - 1 \in 0..n
      BY <1>2, <2>2
    <3>2. h[l] = h[l - 1] \o z[l].txState /\ h[l - 1] \in D /\ z[l].txState \in D
      BY <1>2, <1>3, <1>12, <2>2, <3>1
    <3>3. h[l] \in D
      BY <1>3, <3>2, ConcatProperties
    <3> QED
      BY <3>3
  <2>3. U \in SUBSET (0..n) /\ 0 \in Int /\ n \in Int
    BY <1>2
  <2>4. U = {}
    <3> HIDE DEF U
    <3> QED
      BY <2>1, <2>2, <2>3, UpFrom
  <2> QED
    BY <2>4
<1>14. Txs(z) = h[n]
  BY <1>1, <1>3, <1>10 DEF Txs
<1> QED
  BY <1>1, <1>3, <1>12, <1>13, <1>14 DEF TxsSoFar

\* The blocks kept of those up to each block.
KeptSoFar(f, z) ==
    /\ f[0] = <<>>
    /\ \A i \in 1..Len(z) : f[i] = IF z[i].currentStateRoot = z[i].oldStateRoot THEN f[i - 1]
                                   ELSE Append(f[i - 1], z[i])
    /\ \A i \in 0..Len(z) : f[i] \in Seq(BlockStates)

LEMMA ChangedBlocksIs ==
    ASSUME NEW z \in Seq(BlockStates)
    PROVE  \E f : KeptSoFar(f, z) /\ changedBlocks(z) = f[Len(z)]
<1>1. PICK n : n = Len(z)
  OBVIOUS
<1>2. n \in Nat /\ \A i \in 1..n : z[i] \in BlockStates
  BY <1>1, LenProperties, ElementOfSeq
<1>3. PICK D, c : D = Seq(BlockStates) /\ c = <<>>
  OBVIOUS
<1> DEFINE Idles(i) == z[i].currentStateRoot = z[i].oldStateRoot
           G == [q \in D \X (1..n) |-> IF Idles(q[2]) THEN q[1] ELSE Append(q[1], z[q[2]])]
<1>4. c \in D
  BY <1>3, EmptySeq
<1>5. G \in [D \X (1..n) -> D]
  <2>1. \A q \in D \X (1..n) : Append(q[1], z[q[2]]) \in D
    BY <1>2, <1>3, AppendProperties
  <2> QED
    BY <2>1
<1>6. \A x \in D, i \in 1..n : G[<<x, i>>] = IF Idles(i) THEN x ELSE Append(x, z[i])
  OBVIOUS
<1> HIDE DEF G
<1>7. PICK f \in [0..n -> D] : Iterates(f, n, c, G)
  BY <1>2, <1>4, <1>5, IterationExists
<1>8. f[0] = c /\ \A i \in 1..n : f[i] = IF Idles(i) THEN f[i - 1] ELSE Append(f[i - 1], z[i])
  <2>1. ASSUME NEW i \in 1..n
        PROVE  f[i] = IF Idles(i) THEN f[i - 1] ELSE Append(f[i - 1], z[i])
    <3>1. i - 1 \in 0..n
      BY <1>2
    <3>2. f[i - 1] \in D /\ f[i] = G[<<f[i - 1], i>>]
      BY <1>7, <3>1 DEF Iterates
    <3> QED
      BY <1>6, <3>2
  <2> QED
    BY <1>7, <2>1 DEF Iterates
<1>9. f = [i \in 0..n |-> IF i = 0 THEN c ELSE IF Idles(i) THEN f[i - 1] ELSE Append(f[i - 1], z[i])]
  <2>1. \A i \in 0..n : i = 0 \/ i \in 1..n
    BY <1>2
  <2>2. \A i \in 0..n : f[i] = IF i = 0 THEN c ELSE IF Idles(i) THEN f[i - 1] ELSE Append(f[i - 1], z[i])
    BY <1>8, <2>1
  <2> QED
    BY <2>2
<1>10. PICK h : h = CHOOSE u : u = [i \in 0..n |-> IF i = 0 THEN c
                                                   ELSE IF Idles(i) THEN u[i - 1]
                                                   ELSE Append(u[i - 1], z[i])]
  OBVIOUS
<1>11. h = [i \in 0..n |-> IF i = 0 THEN c ELSE IF Idles(i) THEN h[i - 1] ELSE Append(h[i - 1], z[i])]
  BY <1>9, <1>10
<1>12. h[0] = c /\ \A i \in 1..n : h[i] = IF Idles(i) THEN h[i - 1] ELSE Append(h[i - 1], z[i])
  <2> HIDE DEF Idles
  <2>1. ASSUME NEW i \in 0..n
        PROVE  h[i] = IF i = 0 THEN c ELSE IF Idles(i) THEN h[i - 1] ELSE Append(h[i - 1], z[i])
    BY <1>11
  <2>2. 0 \in 0..n /\ \A i \in 1..n : i \in 0..n /\ i # 0
    BY <1>2
  <2> QED
    BY <2>1, <2>2
<1>13. \A i \in 0..n : h[i] \in D
  <2> DEFINE U == {i \in 0..n : h[i] \notin D}
  <2>1. 0 \notin U
    BY <1>4, <1>12
  <2>2. ASSUME NEW l \in 0..n, 0 < l, l - 1 \notin U
        PROVE  l \notin U
    <3>1. l \in 1..n /\ l - 1 \in 0..n
      BY <1>2, <2>2
    <3>2. /\ h[l] = IF Idles(l) THEN h[l - 1] ELSE Append(h[l - 1], z[l])
          /\ h[l - 1] \in D /\ z[l] \in BlockStates
      BY <1>2, <1>3, <1>12, <2>2, <3>1
    <3>3. h[l] \in D
      BY <1>3, <3>2, AppendProperties
    <3> QED
      BY <3>3
  <2>3. U \in SUBSET (0..n) /\ 0 \in Int /\ n \in Int
    BY <1>2
  <2>4. U = {}
    <3> HIDE DEF U
    <3> QED
      BY <2>1, <2>2, <2>3, UpFrom
  <2> QED
    BY <2>4
<1>14. changedBlocks(z) = h[n]
  BY <1>1, <1>3, <1>10 DEF changedBlocks
<1> QED
  BY <1>1, <1>3, <1>12, <1>13, <1>14 DEF KeptSoFar

\* Two sequences in a row.
Joined(t, s, u) ==
    /\ Len(t) = Len(s) + Len(u)
    /\ \A p \in 1..Len(s) : t[p] = s[p]
    /\ \A p \in 1..Len(u) : t[Len(s) + p] = u[p]

LEMMA ConcatIs ==
    ASSUME NEW S, NEW s \in Seq(S), NEW u \in Seq(S)
    PROVE  /\ s \o u \in Seq(S) /\ Joined(s \o u, s, u) /\ Len(s) \in Nat /\ Len(u) \in Nat
           /\ \A p \in 1..Len(s) + Len(u) :
                 p \in 1..Len(s) \/ \E q \in 1..Len(u) : p = Len(s) + q
<1>1. Len(s) \in Nat /\ Len(u) \in Nat
  BY LenProperties
<1>2. s \o u \in Seq(S) /\ Joined(s \o u, s, u)
  <2>1. /\ s \o u \in Seq(S) /\ Len(s \o u) = Len(s) + Len(u)
        /\ \A i \in 1..Len(s) + Len(u) : (s \o u)[i] = IF i <= Len(s) THEN s[i] ELSE u[i - Len(s)]
    BY ConcatProperties
  <2>2. \A p \in 1..Len(s) : p \in 1..Len(s) + Len(u) /\ p <= Len(s)
    BY <1>1
  <2>3. \A p \in 1..Len(u) : /\ Len(s) + p \in 1..Len(s) + Len(u) /\ ~(Len(s) + p <= Len(s))
                             /\ (Len(s) + p) - Len(s) = p
    BY <1>1
  <2> QED
    BY <2>1, <2>2, <2>3 DEF Joined
<1>3. ASSUME NEW p \in 1..Len(s) + Len(u)
      PROVE  p \in 1..Len(s) \/ \E q \in 1..Len(u) : p = Len(s) + q
  <2>1. p \in 1..Len(s) \/ (p - Len(s) \in 1..Len(u) /\ p = Len(s) + (p - Len(s)))
    BY <1>1
  <2> QED
    BY <2>1
<1> QED
  BY <1>1, <1>2, <1>3

TxsOK(txs) == txs \in Seq(TxStates) /\ \A j \in 1..Len(txs) : TxOK(txs[j])
BlocksOK(z) == z \in Seq(BlockStates) /\ \A i \in 1..Len(z) : BlockOK(z[i])

LEMMA JoinedTxsOK ==
    ASSUME NEW s, TxsOK(s), NEW u, TxsOK(u)
    PROVE  TxsOK(s \o u)
<1>1. PICK t : t = s \o u
  OBVIOUS
<1>2. s \in Seq(TxStates) /\ u \in Seq(TxStates)
  BY DEF TxsOK
<1>3. /\ t \in Seq(TxStates) /\ Joined(t, s, u)
      /\ \A p \in 1..Len(s) + Len(u) : p \in 1..Len(s) \/ \E q \in 1..Len(u) : p = Len(s) + q
  BY <1>1, <1>2, ConcatIs
<1>4. ASSUME NEW p \in 1..Len(t)
      PROVE  TxOK(t[p])
  <2>1. CASE p \in 1..Len(s)
    BY <1>3, <2>1 DEF TxsOK, Joined
  <2>2. CASE \E q \in 1..Len(u) : p = Len(s) + q
    BY <1>3, <2>2 DEF TxsOK, Joined
  <2> QED
    BY <1>3, <1>4, <2>1, <2>2 DEF Joined
<1> QED
  BY <1>1, <1>3, <1>4 DEF TxsOK

LEMMA TxsAreOK ==
    ASSUME NEW z, BlocksOK(z)
    PROVE  TxsOK(Txs(z))
<1>1. z \in Seq(BlockStates)
  BY DEF BlocksOK
<1>2. PICK f : TxsSoFar(f, z) /\ Txs(z) = f[Len(z)]
  BY <1>1, TxsIs
<1>3. PICK n : n = Len(z) /\ n \in Nat
  BY <1>1, LenProperties
<1> DEFINE U == {i \in 0..n : ~TxsOK(f[i])}
<1>4. 0 \notin U
  <2>1. PICK e : e = <<>> /\ f[0] = e
    BY <1>2 DEF TxsSoFar
  <2>2. e \in Seq(TxStates) /\ 1..Len(e) = {}
    BY <2>1, EmptySeq
  <2>3. TxsOK(e)
    BY <2>2 DEF TxsOK
  <2> QED
    BY <2>1, <2>3
<1>5. ASSUME NEW l \in 0..n, 0 < l, l - 1 \notin U
      PROVE  l \notin U
  <2>1. l \in 1..n /\ l - 1 \in 0..n
    BY <1>3, <1>5
  <2>2. f[l] = f[l - 1] \o z[l].txState
    BY <1>2, <1>3, <2>1 DEF TxsSoFar
  <2>3. TxsOK(f[l - 1])
    BY <1>5, <2>1
  <2>4. z[l] \in BlockStates /\ BlockOK(z[l])
    BY <1>1, <1>3, <2>1, ElementOfSeq DEF BlocksOK
  <2>5. TxsOK(z[l].txState)
    BY <2>4, BlockFacts DEF TxsOK, BlockOK
  <2>6. TxsOK(f[l])
    BY <2>2, <2>3, <2>5, JoinedTxsOK
  <2> QED
    BY <2>6
<1>6. U \in SUBSET (0..n) /\ 0 \in Int /\ n \in Int
  BY <1>3
<1>7. U = {}
  <2> HIDE DEF U
  <2> QED
    BY <1>4, <1>5, <1>6, UpFrom
<1>8. n \in 0..n /\ n \notin U
  BY <1>3, <1>7
<1> QED
  BY <1>2, <1>3, <1>8

LEMMA ChangedAreOK ==
    ASSUME NEW z, BlocksOK(z)
    PROVE  BlocksOK(changedBlocks(z))
<1>1. z \in Seq(BlockStates)
  BY DEF BlocksOK
<1>2. PICK f : KeptSoFar(f, z) /\ changedBlocks(z) = f[Len(z)]
  BY <1>1, ChangedBlocksIs
<1>3. PICK n : n = Len(z) /\ n \in Nat
  BY <1>1, LenProperties
<1> DEFINE U == {i \in 0..n : ~BlocksOK(f[i])}
<1>4. 0 \notin U
  <2>1. PICK e : e = <<>> /\ f[0] = e
    BY <1>2 DEF KeptSoFar
  <2>2. e \in Seq(BlockStates) /\ 1..Len(e) = {}
    BY <2>1, EmptySeq
  <2>3. BlocksOK(e)
    BY <2>2 DEF BlocksOK
  <2> QED
    BY <2>1, <2>3
<1>5. ASSUME NEW l \in 0..n, 0 < l, l - 1 \notin U
      PROVE  l \notin U
  <2>1. l \in 1..n /\ l - 1 \in 0..n
    BY <1>3, <1>5
  <2>2. PICK q, q2, bs : q = f[l - 1] /\ q2 = f[l] /\ bs = z[l]
    OBVIOUS
  <2>3. q2 = q \/ q2 = Append(q, bs)
    BY <1>2, <1>3, <2>1, <2>2 DEF KeptSoFar
  <2>4. BlocksOK(q)
    BY <1>5, <2>1, <2>2
  <2>5. bs \in BlockStates /\ BlockOK(bs)
    BY <1>1, <1>3, <2>1, <2>2, ElementOfSeq DEF BlocksOK
  <2>6. CASE q2 = Append(q, bs)
    <3>1. q \in Seq(BlockStates) /\ Len(q) \in Nat
      BY <2>4, LenProperties DEF BlocksOK
    <3>2. q2 \in Seq(BlockStates) /\ Then(q2, q, Len(q), bs)
      BY <2>5, <2>6, <3>1, AppendIs
    <3>3. \A p \in 1..Len(q) + 1 : p \in 1..Len(q) \/ p = Len(q) + 1
      BY <3>1
    <3> QED
      BY <2>2, <2>4, <2>5, <3>2, <3>3 DEF BlocksOK, Then
  <2> QED
    BY <2>2, <2>3, <2>4, <2>6
<1>6. U \in SUBSET (0..n) /\ 0 \in Int /\ n \in Int
  BY <1>3
<1>7. U = {}
  <2> HIDE DEF U
  <2> QED
    BY <1>4, <1>5, <1>6, UpFrom
<1>8. n \in 0..n /\ n \notin U
  BY <1>3, <1>7
<1> QED
  BY <1>2, <1>3, <1>8

LEMMA PurgedAreOK ==
    ASSUME NEW b, BatchOK(b), NEW r
    PROVE  BlocksOK(purgeBlocks(b, r))
<1>1. BlocksOK(b.blockState)
  BY BatchFacts DEF BatchOK, BlocksOK
<1>2. PICK z : z = purgeBlocks(b, r)
  OBVIOUS
<1>3. z = <<>> \/ z = changedBlocks(b.blockState) \/ z = b.blockState
  BY <1>2 DEF purgeBlocks
<1>4. CASE z = <<>>
  <2>1. z \in Seq(BlockStates) /\ 1..Len(z) = {}
    BY <1>4, EmptySeq
  <2> QED
    BY <1>2, <2>1 DEF BlocksOK
<1> QED
  BY <1>1, <1>2, <1>3, <1>4, ChangedAreOK

\* What flush does when no transaction is broken.
LEMMA FlushIs ==
    ASSUME NEW b, BatchOK(b), NEW r, NEW persistence, NEW db, NEW z, z = purgeBlocks(b, r)
    PROVE  flush(b, r, persistence, db) =
              [ok |-> TRUE,
               db |-> stored(db, UNION {loadBlock(z[i]) : i \in DOMAIN z},
                             flushedPrograms(Txs(z)), lastNewStateRoot(Txs(z)), persistence)]
<1>1. BlocksOK(z) /\ z \in Seq(BlockStates)
  BY PurgedAreOK DEF BlocksOK
<1>2. PICK txs : txs = Txs(z)
  OBVIOUS
<1>3. TxsOK(txs) /\ txs \in Seq(TxStates)
  BY <1>1, <1>2, TxsAreOK DEF TxsOK
<1>4. \A j \in 1..Len(txs) : txConsistent(txs[j])
  BY <1>3, AllConsistent, ElementOfSeq DEF TxsOK
<1>5. {j \in 1..Len(txs) : ~txConsistent(txs[j])} = {}
  BY <1>4
<1>6. \A i \in 1..Len(z) : \A j \in DOMAIN z[i].txState : txConsistent(z[i].txState[j])
  <2>1. SUFFICES ASSUME NEW i \in 1..Len(z), NEW j \in DOMAIN z[i].txState
                 PROVE  txConsistent(z[i].txState[j])
    OBVIOUS
  <2>2. PICK x : x = z[i]
    OBVIOUS
  <2>3. x \in BlockStates /\ BlockOK(x)
    BY <1>1, <2>1, <2>2, ElementOfSeq DEF BlocksOK
  <2>4. x.txState \in Seq(TxStates)
    BY <2>3, BlockFacts
  <2>5. j \in 1..Len(x.txState)
    BY <2>1, <2>2, <2>4, LenProperties
  <2>6. x.txState[j] \in TxStates /\ TxOK(x.txState[j])
    BY <2>3, <2>5, BlockFacts DEF BlockOK
  <2> QED
    BY <2>2, <2>6, AllConsistent
<1>7. {i \in 1..Len(z) : \E j \in DOMAIN z[i].txState : ~txConsistent(z[i].txState[j])} = {}
  BY <1>6
<1>8. SelectInSeq(txs, LAMBDA ts : ~txConsistent(ts)) = 0
  BY <1>5 DEF SelectInSeq
<1>9. SelectInSeq(z, LAMBDA bs : \E i \in DOMAIN bs.txState : ~txConsistent(bs.txState[i])) = 0
  BY <1>7 DEF SelectInSeq
<1> QED
  BY <1>2, <1>8, <1>9 DEF flush

\* For every tree, workload and number of batches, with and without the purge:
\* finishTx leaves no sub-state whose old root is neither that of the
\* transaction nor the new root of an earlier one, so flush never meets
\* "inconsistent state roots" or "could not find previous tx sub-state".
THEOREM FlushAlwaysSucceeds == Spec => []FlushNeverFails
<1>1. Init => FlushNeverFails
  BY DEF Init, NoFlush, FlushNeverFails
<1>2. Inv /\ FlushNeverFails /\ [Next]_vars => FlushNeverFails'
  <2>1. SUFFICES ASSUME Inv, FlushNeverFails, [Next]_vars
                 PROVE  FlushNeverFails'
    OBVIOUS
  <2>2. CASE Flush
    <3>1. PICK f : /\ f = IF batch.exists THEN flush(batch, exec.root, exec.workload.persistence, database)
                          ELSE [ok |-> TRUE, db |-> database]
                   /\ lastFlush' = [ok |-> f.ok, oldRoot |-> exec.oldRoot, newRoot |-> exec.root,
                                    durable |-> /\ lastFlush.durable
                                                /\ exec.workload.persistence = "database"]
      BY <2>2 DEF Flush
    <3>2. CASE ~batch.exists
      BY <3>1, <3>2 DEF FlushNeverFails
    <3>3. CASE batch.exists
      <4>1. BatchOK(batch)
        BY <2>1, <3>3, FoundFacts DEF Inv
      <4>2. PICK b, r, p, d : /\ b = batch /\ r = exec.root /\ p = exec.workload.persistence
                              /\ d = database
        OBVIOUS
      <4>3. f = flush(b, r, p, d) /\ BatchOK(b)
        BY <3>1, <3>3, <4>1, <4>2
      <4>4. f.ok = TRUE
        <5>1. PICK z : z = purgeBlocks(b, r)
          OBVIOUS
        <5>2. PICK w : w = stored(d, UNION {loadBlock(z[i]) : i \in DOMAIN z},
                                  flushedPrograms(Txs(z)), lastNewStateRoot(Txs(z)), p)
          OBVIOUS
        <5>3. f = [ok |-> TRUE, db |-> w]
          BY <4>3, <5>1, <5>2, FlushIs
        <5> QED
          BY <5>3
      <4> QED
        BY <3>1, <4>4 DEF FlushNeverFails
    <3> QED
      BY <3>2, <3>3
  <2>3. CASE UNCHANGED lastFlush
    BY <2>1, <2>3 DEF FlushNeverFails
  <2>4. Flush \/ UNCHANGED lastFlush
    BY <2>1 DEF Next, vars, StartBatch, StartBlock, ProcessTx, Set, SetTemporary, WriteProgram,
                Call, Return, Revert, FinishTx, FinishBlock, AbortBatch, CancelBatch
  <2> QED
    BY <2>2, <2>3, <2>4
<1> QED
  BY <1>1, <1>2, InvHolds, PTL DEF Spec

-----------------------------------------------------------------------------
(* What flush writes                                                       *)

\* The nodes q after sub-state i of the transaction has been loaded.
Load(q, ts, i) ==
    IF i \notin loadedSubStates(ts) THEN q
    ELSE LET more == q \cup dbWriteNodes(ts.subState[i])
         IN  IF stateManagerPurge THEN more \ dbDeleteNodes(ts.subState[i]) ELSE more

\* f holds the nodes after each sub-state.
Loads(f, nodes, ts, n) ==
    /\ f[0] = nodes /\ \A i \in 1..n : f[i] = Load(f[i - 1], ts, i)
    /\ loadTx(nodes, ts) = f[n]

LEMMA LoadTxIs ==
    ASSUME NEW ts, NEW n \in Nat, n = Len(ts.subState), NEW nodes
    PROVE  \E f : Loads(f, nodes, ts, n)
<1> DEFINE D == SUBSET (nodes \cup UNION {dbWriteNodes(ts.subState[i]) : i \in 1..n})
           G == [q \in D \X (1..n) |-> Load(q[1], ts, q[2])]
<1>1. nodes \in D
  OBVIOUS
<1>2. G \in [D \X (1..n) -> D]
  <2>1. ASSUME NEW x \in D, NEW i \in 1..n
        PROVE  Load(x, ts, i) \in D
    <3>1. dbWriteNodes(ts.subState[i]) \in D
      OBVIOUS
    <3>2. x \cup dbWriteNodes(ts.subState[i]) \in D
      BY <3>1
    <3> QED
      BY <3>2 DEF Load
  <2> QED
    BY <2>1
<1>3. \A x \in D, i \in 1..n : G[<<x, i>>] = Load(x, ts, i)
  OBVIOUS
<1> HIDE DEF G, D
<1>4. PICK f \in [0..n -> D] : Iterates(f, n, nodes, G)
  BY <1>1, <1>2, IterationExists
<1>5. ASSUME NEW i \in 0..n
      PROVE  f[i] = IF i = 0 THEN nodes ELSE Load(f[i - 1], ts, i)
  <2>1. i = 0 \/ (i \in 1..n /\ i - 1 \in 0..n)
    BY <1>5
  <2>2. ASSUME i \in 1..n, i - 1 \in 0..n
        PROVE  f[i] = Load(f[i - 1], ts, i)
    <3>1. f[i - 1] \in D /\ f[i] = G[<<f[i - 1], i>>]
      BY <1>4, <2>2 DEF Iterates
    <3> QED
      BY <1>3, <2>2, <3>1
  <2>3. i \in 1..n => i # 0
    OBVIOUS
  <2> QED
    BY <1>4, <2>1, <2>2, <2>3 DEF Iterates
<1>6. f = [i \in 0..n |-> IF i = 0 THEN nodes ELSE Load(f[i - 1], ts, i)]
  BY <1>5
<1>7. PICK h : h = CHOOSE u : u = [i \in 0..n |-> IF i = 0 THEN nodes ELSE Load(u[i - 1], ts, i)]
  OBVIOUS
<1>8. h = [i \in 0..n |-> IF i = 0 THEN nodes ELSE Load(h[i - 1], ts, i)]
  BY <1>6, <1>7
<1>9. h[0] = nodes /\ \A i \in 1..n : h[i] = Load(h[i - 1], ts, i)
  <2>1. ASSUME NEW i \in 0..n
        PROVE  h[i] = IF i = 0 THEN nodes ELSE Load(h[i - 1], ts, i)
    BY <1>8
  <2>2. 0 \in 0..n /\ \A i \in 1..n : i \in 0..n /\ i # 0
    OBVIOUS
  <2> QED
    BY <2>1, <2>2
<1>10. loadTx(nodes, ts) = h[n]
  BY <1>7 DEF loadTx, Load
<1> QED
  BY <1>9, <1>10 DEF Loads

\* Loading adds nothing but what the sub-states wrote.
LEMMA LoadTxAdds ==
    ASSUME NEW ts \in TxStates, NEW nodes
    PROVE  loadTx(nodes, ts) \subseteq
              nodes \cup UNION {dbWriteNodes(ts.subState[i]) : i \in 1..Len(ts.subState)}
<1>1. PICK n : n = Len(ts.subState) /\ n \in Nat
  BY TxFacts
<1> DEFINE B == nodes \cup UNION {dbWriteNodes(ts.subState[i]) : i \in 1..n}
<1>2. PICK f : /\ f[0] = nodes /\ \A i \in 1..n : f[i] = Load(f[i - 1], ts, i)
               /\ loadTx(nodes, ts) = f[n]
  BY <1>1, LoadTxIs DEF Loads
<1> DEFINE U == {i \in 0..n : ~(f[i] \subseteq B)}
<1>3. 0 \notin U
  BY <1>2
<1>4. ASSUME NEW l \in 0..n, 0 < l, l - 1 \notin U
      PROVE  l \notin U
  <2>1. l \in 1..n /\ l - 1 \in 0..n
    BY <1>1, <1>4
  <2>2. f[l] = Load(f[l - 1], ts, l) /\ f[l - 1] \subseteq B
    BY <1>2, <1>4, <2>1
  <2>3. dbWriteNodes(ts.subState[l]) \subseteq B
    BY <2>1
  <2> HIDE DEF B
  <2>4. f[l] \subseteq B
    BY <2>2, <2>3 DEF Load
  <2> QED
    BY <2>4
<1>5. U \in SUBSET (0..n) /\ 0 \in Int /\ n \in Int
  BY <1>1
<1>6. U = {}
  <2> HIDE DEF U
  <2> QED
    BY <1>3, <1>4, <1>5, UpFrom
<1>7. n \in 0..n /\ n \notin U
  BY <1>1, <1>6
<1> QED
  BY <1>1, <1>2, <1>7

\* The nodes of a block, transaction by transaction.
LEMMA LoadBlockIs ==
    ASSUME NEW bs \in BlockStates, NEW n \in Nat, n = Len(bs.txState)
    PROVE  \E f : /\ f[0] = {} /\ \A j \in 1..n : f[j] = loadTx(f[j - 1], bs.txState[j])
                  /\ loadBlock(bs) = f[n]
<1> DEFINE W(ts) == UNION {dbWriteNodes(ts.subState[i]) : i \in 1..Len(ts.subState)}
           B == UNION {W(bs.txState[j]) : j \in 1..n}
           D == SUBSET B
           G == [q \in D \X (1..n) |-> loadTx(q[1], bs.txState[q[2]])]
<1>1. {} \in D
  OBVIOUS
<1>2. G \in [D \X (1..n) -> D]
  <2>1. ASSUME NEW x \in D, NEW j \in 1..n
        PROVE  loadTx(x, bs.txState[j]) \in D
    <3>1. PICK ts : ts = bs.txState[j] /\ ts \in TxStates
      BY <2>1, BlockFacts
    <3>2. loadTx(x, ts) \subseteq x \cup W(ts)
      BY <3>1, LoadTxAdds
    <3>3. W(ts) \subseteq B
      BY <2>1, <3>1
    <3> QED
      BY <2>1, <3>1, <3>2, <3>3
  <2> HIDE DEF D
  <2> QED
    BY <2>1
<1>3. \A x \in D, j \in 1..n : G[<<x, j>>] = loadTx(x, bs.txState[j])
  OBVIOUS
<1> HIDE DEF G, D
<1>4. PICK f \in [0..n -> D] : Iterates(f, n, {}, G)
  BY <1>1, <1>2, IterationExists
<1>5. ASSUME NEW i \in 0..n
      PROVE  f[i] = IF i = 0 THEN {} ELSE loadTx(f[i - 1], bs.txState[i])
  <2>1. i = 0 \/ (i \in 1..n /\ i - 1 \in 0..n)
    BY <1>5
  <2>2. ASSUME i \in 1..n, i - 1 \in 0..n
        PROVE  f[i] = loadTx(f[i - 1], bs.txState[i])
    <3>1. f[i - 1] \in D /\ f[i] = G[<<f[i - 1], i>>]
      BY <1>4, <2>2 DEF Iterates
    <3> QED
      BY <1>3, <2>2, <3>1
  <2>3. i \in 1..n => i # 0
    OBVIOUS
  <2> QED
    BY <1>4, <2>1, <2>2, <2>3 DEF Iterates
<1>6. f = [i \in 0..n |-> IF i = 0 THEN {} ELSE loadTx(f[i - 1], bs.txState[i])]
  BY <1>5
<1>7. PICK h : h = CHOOSE u : u = [i \in 0..n |-> IF i = 0 THEN {} ELSE loadTx(u[i - 1], bs.txState[i])]
  OBVIOUS
<1>8. h = [i \in 0..n |-> IF i = 0 THEN {} ELSE loadTx(h[i - 1], bs.txState[i])]
  BY <1>6, <1>7
<1>9. h[0] = {} /\ \A i \in 1..n : h[i] = loadTx(h[i - 1], bs.txState[i])
  <2>1. ASSUME NEW i \in 0..n
        PROVE  h[i] = IF i = 0 THEN {} ELSE loadTx(h[i - 1], bs.txState[i])
    BY <1>8
  <2>2. 0 \in 0..n /\ \A i \in 1..n : i \in 0..n /\ i # 0
    OBVIOUS
  <2> QED
    BY <2>1, <2>2
<1>10. loadBlock(bs) = h[n]
  BY <1>7 DEF loadBlock
<1> QED
  BY <1>9, <1>10

\* The sub-states that flush loads lead from the old root of a transaction to
\* its new one: if X[0] has the old root, and X[i] has what the loaded sub-state
\* i makes of X[i - 1], then the last X has the new root.
LEMMA LoadedLead ==
    ASSUME stateManagerPurge, NEW ts \in TxStates, TxOK(ts), ~Idle(ts),
           NEW s, s = ts.subState, NEW n, n = Len(s), NEW X, ts.oldStateRoot \in X[0],
           \A i \in 1..n : i \notin loadedSubStates(ts) => X[i - 1] \subseteq X[i],
           \A i \in 1..n : i \in loadedSubStates(ts) /\ s[i].oldStateRoot \in X[i - 1]
                           => s[i].newStateRoot \in X[i]
    PROVE  ts.newStateRoot \in X[n]
<1>1. n \in Nat /\ n # 0 /\ s # <<>> /\ DOMAIN s = 1..n
  BY TxFacts, LenProperties DEF Idle
<1>2. PICK V, P : /\ V = validSubStates(ts) /\ Trail(V, n - 1, P)
                  /\ \A i \in 0..n - 1 : Joins(ts, P[i], i)
  BY ValidIs DEF Leads
<1>3. \A i \in 1..n : i \in loadedSubStates(ts) <=> i - 1 \in V /\ s[i].oldStateRoot # s[i].newStateRoot
  BY <1>1, <1>2 DEF loadedSubStates
<1>4. V \subseteq {-1} \cup (0..n - 1) /\ n - 1 \in V /\ -1 \in V
  BY <1>2 DEF Trail
<1>5. V \in SUBSET Int /\ \A v \in V : v >= -1
  BY <1>1, <1>4
<1> DEFINE At(v) == IF v = -1 THEN ts.oldStateRoot ELSE s[v + 1].newStateRoot
           Next2(v, i) == v \in V /\ v <= i - 1 /\ \A k \in V : k <= v \/ i <= k
           U == {i \in 0..n : ~\A v \in V : Next2(v, i) => At(v) \in X[i]}
<1>6. 0 \notin U
  <2>1. \A v \in V : v <= 0 - 1 => v = -1
    BY <1>5
  <2> QED
    BY <2>1
<1>7. ASSUME NEW i \in 0..n, 0 < i, i - 1 \notin U
      PROVE  i \notin U
  <2>1. i \in 1..n /\ i - 1 \in 0..n /\ i - 1 \in 0..n - 1
    BY <1>1, <1>7
  <2>2. \A v \in V : Next2(v, i - 1) => At(v) \in X[i - 1]
    BY <1>7, <2>1
  <2>3. SUFFICES ASSUME NEW v \in V, Next2(v, i)
                 PROVE  At(v) \in X[i]
    OBVIOUS
  <2>4. v \in Int /\ v <= i - 1 /\ \A k \in V : k <= v \/ i <= k
    BY <1>5, <2>3
  <2>5. CASE i - 1 \in V
    <3>1. v = i - 1 /\ v # -1 /\ v + 1 = i
      BY <2>1, <2>4, <2>5
    <3>2. At(v) = s[i].newStateRoot
      BY <3>1
    <3>3. PICK p : p = P[i - 1]
      OBVIOUS
    <3>4. p \in V /\ \A k \in V : k <= p \/ i - 1 <= k
      <4>1. i - 1 >= 0
        BY <2>1
      <4> QED
        BY <1>2, <2>5, <3>3, <4>1 DEF Trail
    <3>5. (i - 1) + 1 = i
      BY <2>1
    <3>6. /\ p = -1 \/ p \in 0..(i - 1) - 1
          /\ p = -1 => s[i].oldStateRoot = ts.oldStateRoot
          /\ p \in 0..(i - 1) - 1 => s[p + 1].newStateRoot = s[i].oldStateRoot
      <4>1. Joins(ts, p, i - 1)
        BY <1>2, <2>1, <3>3
      <4>2. ~(-1 \in 0..(i - 1) - 1)
        OBVIOUS
      <4> QED
        BY <3>5, <4>1, <4>2 DEF Joins, Start
    <3>7. Next2(p, i - 1) /\ At(p) = s[i].oldStateRoot
      <4>1. p <= (i - 1) - 1 /\ (p \in 0..(i - 1) - 1 => p # -1)
        BY <2>1, <3>6
      <4> QED
        BY <3>4, <3>6, <4>1
    <3>8. s[i].oldStateRoot \in X[i - 1]
      BY <2>2, <3>4, <3>7
    <3>9. CASE s[i].oldStateRoot = s[i].newStateRoot
      BY <1>3, <2>1, <3>2, <3>8, <3>9
    <3>10. CASE s[i].oldStateRoot # s[i].newStateRoot
      BY <1>3, <2>1, <2>5, <3>2, <3>8, <3>10
    <3> QED
      BY <3>9, <3>10
  <2>6. CASE i - 1 \notin V
    <3>1. v # i - 1 /\ v <= (i - 1) - 1
      BY <2>1, <2>3, <2>4, <2>6
    <3>2. \A k \in V : k <= v \/ i - 1 <= k
      BY <1>5, <2>1, <2>4
    <3>3. At(v) \in X[i - 1]
      BY <2>2, <3>1, <3>2
    <3>4. X[i - 1] \subseteq X[i]
      BY <1>3, <2>1, <2>6
    <3> QED
      BY <3>3, <3>4
  <2> QED
    BY <2>5, <2>6
<1>8. U \in SUBSET (0..n) /\ 0 \in Int /\ n \in Int
  BY <1>1
<1>9. U = {}
  <2> HIDE DEF U
  <2> QED
    BY <1>6, <1>7, <1>8, UpFrom
<1>10. n \in 0..n /\ n \notin U
  BY <1>1, <1>9
<1>11. Next2(n - 1, n)
  <2>1. n - 1 <= n - 1 /\ \A k \in V : k <= n - 1
    BY <1>1, <1>4
  <2> QED
    BY <1>4, <2>1
<1>12. At(n - 1) = ts.newStateRoot
  <2>1. n - 1 # -1 /\ (n - 1) + 1 = n
    BY <1>1
  <2> QED
    BY <1>1, <2>1 DEF TxOK
<1> QED
  BY <1>4, <1>10, <1>11, <1>12

\* A set takes nothing away from a tree that another node of it needs.
LEMMA SubStateLoads ==
    ASSUME NEW ss \in SubStates, ss.newStateRoot = set(ss.oldStateRoot, ss.key, ss.value).newRoot,
           NEW N, NEW q, NodesOf(ss.oldStateRoot) \subseteq N \cup q
    PROVE  NodesOf(ss.newStateRoot) \subseteq N \cup ((q \cup dbWriteNodes(ss)) \ dbDeleteNodes(ss))
<1>1. PICK r, k, v, s : r = ss.oldStateRoot /\ k = ss.key /\ v = ss.value /\ s = set(r, k, v)
  OBVIOUS
<1>2. r \in Trees /\ k \in Keys /\ v \in Values
  BY <1>1, SubFacts
<1>3. PICK c \in [Keys -> Values] : r = Tree(c)
  BY <1>2 DEF Trees, Contents
<1>4. NodesOf(s.newRoot) \subseteq (NodesOf(r) \cup s.writes) \ s.deletes
  BY <1>1, <1>2, <1>3, NothingIsLost
<1>5. dbWriteNodes(ss) = s.writes /\ dbDeleteNodes(ss) = s.deletes /\ ss.newStateRoot = s.newRoot
  BY <1>1 DEF dbWriteNodes, dbDeleteNodes
<1> QED
  BY <1>1, <1>4, <1>5

\* If the tree at the old root of a transaction is there, then so is the tree
\* at its new root once the transaction is loaded.
LEMMA TxLoads ==
    ASSUME stateManagerPurge, NEW ts \in TxStates, TxOK(ts), ~Idle(ts),
           NEW N, NEW q, NodesOf(ts.oldStateRoot) \subseteq N \cup q
    PROVE  NodesOf(ts.newStateRoot) \subseteq N \cup loadTx(q, ts)
<1>1. PICK s, n : s = ts.subState /\ n = Len(s) /\ n \in Nat
  BY TxFacts
<1>2. PICK f : Loads(f, q, ts, n)
  <2>1. n = Len(ts.subState)
    BY <1>1
  <2> QED
    BY <1>1, <2>1, LoadTxIs
<1> DEFINE X == [i \in 0..n |-> {r \in Roots : NodesOf(r) \subseteq N \cup f[i]}]
<1>3. \A i \in 0..n : X[i] = {r \in Roots : NodesOf(r) \subseteq N \cup f[i]}
  OBVIOUS
<1> HIDE DEF X
<1>4. 0 \in 0..n /\ n \in 0..n /\ \A i \in 1..n : i \in 0..n /\ i - 1 \in 0..n
  BY <1>1
<1>5. ts.oldStateRoot \in X[0]
  BY <1>2, <1>3, <1>4, TxFacts DEF Loads
<1>6. ASSUME NEW i \in 1..n, i \notin loadedSubStates(ts)
      PROVE  X[i - 1] \subseteq X[i]
  <2>1. f[i] = f[i - 1]
    BY <1>2, <1>6 DEF Load, Loads
  <2> QED
    BY <1>3, <1>4, <2>1
<1>7. ASSUME NEW i \in 1..n, i \in loadedSubStates(ts), s[i].oldStateRoot \in X[i - 1]
      PROVE  s[i].newStateRoot \in X[i]
  <2>1. PICK ss, p, p2 : ss = s[i] /\ p = f[i - 1] /\ p2 = f[i]
    OBVIOUS
  <2>2. p2 = (p \cup dbWriteNodes(ss)) \ dbDeleteNodes(ss)
    BY <1>1, <1>2, <1>7, <2>1 DEF Load, Loads
  <2>3. ss \in SubStates /\ ss.newStateRoot = set(ss.oldStateRoot, ss.key, ss.value).newRoot
    BY <1>1, <1>7, <2>1, TxFacts DEF TxOK, SubOK
  <2>4. NodesOf(ss.oldStateRoot) \subseteq N \cup p
    BY <1>3, <1>4, <1>7, <2>1
  <2>5. NodesOf(ss.newStateRoot) \subseteq N \cup p2
    BY <2>2, <2>3, <2>4, SubStateLoads
  <2>6. ss.newStateRoot \in Roots
    BY <2>3, SubFacts DEF Roots
  <2> QED
    BY <1>3, <1>4, <2>1, <2>5, <2>6
<1>8. ts.newStateRoot \in X[n]
  BY <1>1, <1>5, <1>6, <1>7, LoadedLead
<1> QED
  BY <1>2, <1>3, <1>4, <1>8 DEF Loads

\* A transaction with nothing to load ends where it began.
LEMMA NothingLoaded ==
    ASSUME stateManagerPurge, NEW ts \in TxStates, TxOK(ts), ~Idle(ts), loadedSubStates(ts) = {}
    PROVE  ts.newStateRoot = ts.oldStateRoot
<1>1. PICK s, n : s = ts.subState /\ n = Len(s) /\ n \in Nat
  BY TxFacts
<1> DEFINE X == [i \in 0..n |-> {ts.oldStateRoot}]
<1>2. \A i \in 0..n : X[i] = {ts.oldStateRoot}
  OBVIOUS
<1> HIDE DEF X
<1>3. 0 \in 0..n /\ n \in 0..n /\ \A i \in 1..n : i \in 0..n /\ i - 1 \in 0..n
  BY <1>1
<1>4. ts.oldStateRoot \in X[0] /\ \A i \in 1..n : X[i - 1] = X[i]
  BY <1>2, <1>3
<1>5. ts.newStateRoot \in X[n]
  BY <1>1, <1>4, LoadedLead
<1> QED
  BY <1>2, <1>3, <1>5

LEMMA IdleLoads ==
    ASSUME NEW ts \in TxStates, Idle(ts), NEW q
    PROVE  loadTx(q, ts) = q /\ loadedSubStates(ts) = {}
<1>1. PICK n : n = Len(ts.subState) /\ n \in Nat /\ n = 0
  BY TxFacts
<1>2. PICK f : Loads(f, q, ts, n)
  BY <1>1, LoadTxIs
<1>3. DOMAIN ts.subState = {}
  BY DEF Idle
<1> QED
  BY <1>1, <1>2, <1>3 DEF loadedSubStates, Loads

\* The same for a block, whose nodes are collected apart.
LEMMA BlockLoads ==
    ASSUME stateManagerPurge, NEW bs \in BlockStates, BlockOK(bs), NEW r, NEW r2, BlockLink(bs, r, r2)
    PROVE  NodesOf(r2) \subseteq NodesOf(r) \cup loadBlock(bs)
<1>1. PICK txs, n : txs = bs.txState /\ n = Len(txs) /\ n \in Nat
  BY BlockFacts
<1>2. PICK f : f[0] = {} /\ (\A j \in 1..n : f[j] = loadTx(f[j - 1], txs[j])) /\ loadBlock(bs) = f[n]
  BY <1>1, LoadBlockIs
<1>3. PICK g : TxsChain(g, txs, r) /\ g[n] = r2
  BY <1>1 DEF BlockLink
<1> DEFINE U == {j \in 0..n : ~(NodesOf(g[j]) \subseteq NodesOf(r) \cup f[j])}
<1>4. 0 \notin U
  BY <1>2, <1>3 DEF TxsChain
<1>5. ASSUME NEW l \in 0..n, 0 < l, l - 1 \notin U
      PROVE  l \notin U
  <2>1. l \in 1..n /\ l - 1 \in 0..n
    BY <1>1, <1>5
  <2>2. PICK ts, q, N : ts = txs[l] /\ q = f[l - 1] /\ N = NodesOf(r)
    OBVIOUS
  <2>3. ts \in TxStates /\ TxOK(ts)
    BY <1>1, <2>1, <2>2, BlockFacts DEF BlockOK
  <2>4. f[l] = loadTx(q, ts) /\ TxLink(ts, g[l - 1], g[l]) /\ NodesOf(g[l - 1]) \subseteq N \cup q
    BY <1>1, <1>2, <1>3, <1>5, <2>1, <2>2 DEF TxsChain
  <2>5. NodesOf(g[l]) \subseteq N \cup f[l]
    <3>1. CASE Idle(ts)
      BY <2>3, <2>4, <3>1, IdleLoads DEF TxLink
    <3>2. CASE ~Idle(ts)
      BY <2>3, <2>4, <3>2, TxLoads DEF TxLink
    <3> QED
      BY <3>1, <3>2
  <2> QED
    BY <2>2, <2>5
<1>6. U \in SUBSET (0..n) /\ 0 \in Int /\ n \in Int
  BY <1>1
<1>7. U = {}
  <2> HIDE DEF U
  <2> QED
    BY <1>4, <1>5, <1>6, UpFrom
<1>8. n \in 0..n /\ n \notin U
  BY <1>1, <1>7
<1> QED
  BY <1>2, <1>3, <1>8

\* The same for all blocks that flush keeps.
LEMMA BlocksLoad ==
    ASSUME stateManagerPurge, NEW z, BlocksOK(z), NEW a, NEW g, BlocksChain(g, z, a)
    PROVE  NodesOf(g[Len(z)]) \subseteq NodesOf(a) \cup UNION {loadBlock(z[i]) : i \in DOMAIN z}
<1>1. PICK n : n = Len(z) /\ n \in Nat /\ DOMAIN z = 1..n
  BY LenProperties DEF BlocksOK
<1> DEFINE B == UNION {loadBlock(z[i]) : i \in DOMAIN z}
<1>2. \A i \in 1..n : loadBlock(z[i]) \subseteq B
  BY <1>1
<1> HIDE DEF B
<1> DEFINE U == {i \in 0..n : ~(NodesOf(g[i]) \subseteq NodesOf(a) \cup B)}
<1>3. 0 \notin U
  BY DEF BlocksChain
<1>4. ASSUME NEW l \in 0..n, 0 < l, l - 1 \notin U
      PROVE  l \notin U
  <2>1. l \in 1..n /\ l - 1 \in 0..n
    BY <1>1, <1>4
  <2>2. PICK x : x = z[l] /\ x \in BlockStates /\ BlockOK(x)
    BY <1>1, <2>1, ElementOfSeq DEF BlocksOK
  <2>3. BlockLink(x, g[l - 1], g[l])
    BY <1>1, <2>1, <2>2 DEF BlocksChain
  <2>4. NodesOf(g[l]) \subseteq NodesOf(g[l - 1]) \cup loadBlock(x)
    BY <2>2, <2>3, BlockLoads
  <2>5. NodesOf(g[l]) \subseteq NodesOf(a) \cup B
    BY <1>2, <1>4, <2>1, <2>2, <2>4
  <2> QED
    BY <2>5
<1>5. U \in SUBSET (0..n) /\ 0 \in Int /\ n \in Int
  BY <1>1
<1>6. U = {}
  <2> HIDE DEF U
  <2> QED
    BY <1>3, <1>4, <1>5, UpFrom
<1>7. n \in 0..n /\ n \notin U
  BY <1>1, <1>6
<1> QED
  BY <1>1, <1>7 DEF B

\* The blocks that flush drops lead nowhere.
LEMMA ChangedChain ==
    ASSUME NEW z \in Seq(BlockStates), NEW a, NEW g, BlocksChain(g, z, a), NEW y, y = changedBlocks(z)
    PROVE  \E h : BlocksChain(h, y, a) /\ h[Len(y)] = g[Len(z)]
<1>1. PICK n : n = Len(z) /\ n \in Nat
  BY LenProperties
<1>2. PICK f : KeptSoFar(f, z) /\ y = f[n]
  BY <1>1, ChangedBlocksIs
<1> DEFINE U == {i \in 0..n : ~\E h : BlocksChain(h, f[i], a) /\ h[Len(f[i])] = g[i]}
<1>3. 0 \notin U
  <2>1. PICK q : q = <<>> /\ f[0] = q
    BY <1>2 DEF KeptSoFar
  <2>2. Len(q) = 0 /\ 1..0 = {}
    BY <2>1
  <2> DEFINE h == [i \in {0} |-> a]
  <2>3. h[0] = a
    OBVIOUS
  <2> HIDE DEF h
  <2>4. BlocksChain(h, q, a) /\ h[Len(q)] = g[0]
    BY <2>2, <2>3 DEF BlocksChain
  <2> QED
    BY <2>1, <2>4
<1>4. ASSUME NEW l \in 0..n, 0 < l, l - 1 \notin U
      PROVE  l \notin U
  <2>1. l \in 1..n /\ l - 1 \in 0..n
    BY <1>1, <1>4
  <2>2. PICK q, q2, x, r, r2 : q = f[l - 1] /\ q2 = f[l] /\ x = z[l] /\ r = g[l - 1] /\ r2 = g[l]
    OBVIOUS
  <2>3. /\ q \in Seq(BlockStates) /\ x \in BlockStates
        /\ q2 = IF x.currentStateRoot = x.oldStateRoot THEN q ELSE Append(q, x)
    BY <1>1, <1>2, <2>1, <2>2, ElementOfSeq DEF KeptSoFar
  <2>4. BlockLink(x, r, r2)
    BY <1>1, <2>1, <2>2 DEF BlocksChain
  <2>5. PICK h : BlocksChain(h, q, a) /\ h[Len(q)] = r
    BY <1>4, <2>1, <2>2
  <2>6. CASE x.currentStateRoot = x.oldStateRoot
    BY <2>2, <2>3, <2>4, <2>5, <2>6 DEF BlockLink
  <2>7. CASE x.currentStateRoot # x.oldStateRoot
    <3>1. PICK m : m = Len(q) /\ m \in Nat
      BY <2>3, LenProperties
    <3>2. Then(q2, q, m, x)
      BY <2>3, <2>7, <3>1, AppendIs
    <3>3. \E u : BlocksChain(u, q2, a) /\ u[Len(q2)] = r2
      <4>1. m <= Len(q) /\ Len(q) \in Nat /\ BlockLink(x, h[m], r2)
        BY <2>4, <2>5, <3>1
      <4>2. BlocksChain(h, q, a)
        BY <2>5
      <4> QED
        BY <3>1, <3>2, <4>1, <4>2, BlocksThen
    <3> QED
      BY <2>2, <3>3
  <2> QED
    BY <2>6, <2>7
<1>5. U \in SUBSET (0..n) /\ 0 \in Int /\ n \in Int
  BY <1>1
<1>6. U = {}
  <2> HIDE DEF U
  <2> QED
    BY <1>3, <1>4, <1>5, UpFrom
<1>7. n \in 0..n /\ n \notin U
  BY <1>1, <1>6
<1> QED
  BY <1>1, <1>2, <1>7

\* One chain of transactions after the other.
LEMMA TxsJoin ==
    ASSUME NEW s \in Seq(TxStates), NEW u \in Seq(TxStates), NEW a, NEW f, TxsChain(f, s, a),
           NEW g, TxsChain(g, u, f[Len(s)])
    PROVE  \E h : TxsChain(h, s \o u, a) /\ h[Len(s \o u)] = g[Len(u)]
<1>1. PICK t, n, m : t = s \o u /\ n = Len(s) /\ m = Len(u) /\ n \in Nat /\ m \in Nat
  BY ConcatIs
<1>2. /\ Len(t) = n + m /\ (\A p \in 1..n : t[p] = s[p]) /\ (\A p \in 1..m : t[n + p] = u[p])
      /\ \A p \in 1..n + m : p \in 1..n \/ \E q \in 1..m : p = n + q
  BY <1>1, ConcatIs DEF Joined
<1> DEFINE h == [p \in 0..n + m |-> IF p <= n THEN f[p] ELSE g[p - n]]
<1>3. \A p \in 0..n : h[p] = f[p]
  BY <1>1
<1>4. g[0] = f[n] /\ f[0] = a
  BY <1>1 DEF TxsChain
<1>5. \A q \in 0..m : h[n + q] = g[q]
  <2>1. ASSUME NEW q \in 0..m
        PROVE  h[n + q] = g[q]
    <3>1. n + q \in 0..n + m /\ (n + q) - n = q /\ (n + q <= n <=> q = 0) /\ n + 0 = n
      BY <1>1, <2>1
    <3> QED
      BY <1>4, <3>1
  <2> QED
    BY <2>1
<1> HIDE DEF h
<1>6. ASSUME NEW p \in 1..n + m
      PROVE  TxLink(t[p], h[p - 1], h[p])
  <2>1. CASE p \in 1..n
    <3>1. p \in 0..n /\ p - 1 \in 0..n
      BY <1>1, <2>1
    <3> QED
      BY <1>1, <1>2, <1>3, <2>1, <3>1 DEF TxsChain
  <2>2. ASSUME NEW q \in 1..m, p = n + q
        PROVE  TxLink(t[p], h[p - 1], h[p])
    <3>1. q \in 0..m /\ q - 1 \in 0..m /\ p - 1 = n + (q - 1)
      BY <1>1, <2>2
    <3>2. h[p] = g[q] /\ h[p - 1] = g[q - 1] /\ t[p] = u[q]
      BY <1>2, <1>5, <2>2, <3>1
    <3> QED
      BY <1>1, <2>2, <3>2 DEF TxsChain
  <2> QED
    BY <1>2, <1>6, <2>1, <2>2
<1>7. h[0] = a /\ h[n + m] = g[m]
  <2>1. 0 \in 0..n /\ m \in 0..m
    BY <1>1
  <2> QED
    BY <1>3, <1>4, <1>5, <2>1
<1>8. TxsChain(h, t, a)
  BY <1>2, <1>6, <1>7 DEF TxsChain
<1> QED
  BY <1>1, <1>2, <1>7, <1>8

LEMMA TxsOfChain ==
    ASSUME NEW z \in Seq(BlockStates), NEW a, NEW g, BlocksChain(g, z, a), NEW txs, txs = Txs(z)
    PROVE  \E h : TxsChain(h, txs, a) /\ h[Len(txs)] = g[Len(z)]
<1>1. PICK n : n = Len(z) /\ n \in Nat
  BY LenProperties
<1>2. PICK f : TxsSoFar(f, z) /\ txs = f[n]
  BY <1>1, TxsIs
<1> DEFINE U == {i \in 0..n : ~\E h : TxsChain(h, f[i], a) /\ h[Len(f[i])] = g[i]}
<1>3. 0 \notin U
  <2>1. PICK q : q = <<>> /\ f[0] = q
    BY <1>2 DEF TxsSoFar
  <2>2. Len(q) = 0 /\ 1..0 = {}
    BY <2>1
  <2> DEFINE h == [i \in {0} |-> a]
  <2>3. h[0] = a
    OBVIOUS
  <2> HIDE DEF h
  <2>4. TxsChain(h, q, a) /\ h[Len(q)] = g[0]
    BY <2>2, <2>3 DEF BlocksChain, TxsChain
  <2> QED
    BY <2>1, <2>4
<1>4. ASSUME NEW l \in 0..n, 0 < l, l - 1 \notin U
      PROVE  l \notin U
  <2>1. l \in 1..n /\ l - 1 \in 0..n
    BY <1>1, <1>4
  <2>2. PICK q, x, u : q = f[l - 1] /\ x = z[l] /\ u = x.txState
    OBVIOUS
  <2>3. q \in Seq(TxStates) /\ x \in BlockStates /\ f[l] = q \o u
    BY <1>1, <1>2, <2>1, <2>2, ElementOfSeq DEF TxsSoFar
  <2>4. u \in Seq(TxStates)
    BY <2>2, <2>3, BlockFacts
  <2>5. PICK h : TxsChain(h, q, a) /\ h[Len(q)] = g[l - 1]
    BY <1>4, <2>1, <2>2
  <2>6. BlockLink(x, g[l - 1], g[l])
    BY <1>1, <2>1, <2>2 DEF BlocksChain
  <2>7. PICK v : TxsChain(v, u, h[Len(q)]) /\ v[Len(u)] = g[l]
    BY <2>2, <2>5, <2>6 DEF BlockLink
  <2>8. \E w : TxsChain(w, q \o u, a) /\ w[Len(q \o u)] = v[Len(u)]
    BY <2>3, <2>4, <2>5, <2>7, TxsJoin
  <2> QED
    BY <2>3, <2>7, <2>8
<1>5. U \in SUBSET (0..n) /\ 0 \in Int /\ n \in Int
  BY <1>1
<1>6. U = {}
  <2> HIDE DEF U
  <2> QED
    BY <1>3, <1>4, <1>5, UpFrom
<1>7. n \in 0..n /\ n \notin U
  BY <1>1, <1>6
<1> QED
  BY <1>1, <1>2, <1>7

LEMMA MaxIs ==
    ASSUME NEW n \in Nat, NEW I \in SUBSET (1..n), I # {}
    PROVE  Max(I) \in I /\ \A i \in I : Max(I) >= i
<1> DEFINE J == {j \in Nat : n - j \in I}
<1>1. \A i \in I : n - i \in J
  <2>1. \A i \in I : n - i \in Nat /\ n - (n - i) = i
    OBVIOUS
  <2> QED
    BY <2>1
<1>2. J # {} /\ J \in SUBSET Nat
  BY <1>1
<1>3. PICK j \in J : \A q \in J : j <= q
  BY <1>2, SmallestNumber
<1>4. n - j \in I /\ \A i \in I : n - j >= i
  BY <1>1, <1>3
<1>5. \E x \in I : \A i \in I : x >= i
  BY <1>4
<1> QED
  BY <1>5 DEF Max

\* The last transaction that loads anything ends at the end of the chain.
LEMMA LastRootIs ==
    ASSUME stateManagerPurge, NEW txs, TxsOK(txs), NEW a, NEW h, TxsChain(h, txs, a)
    PROVE  /\ lastNewStateRoot(txs) = NoRoot => h[Len(txs)] = a
           /\ lastNewStateRoot(txs) # NoRoot => lastNewStateRoot(txs) = h[Len(txs)]
<1>1. PICK n : n = Len(txs) /\ n \in Nat /\ DOMAIN txs = 1..n
  BY LenProperties DEF TxsOK
<1>2. PICK I : I = {i \in DOMAIN txs : loadedSubStates(txs[i]) # {}}
  OBVIOUS
<1>3. I \in SUBSET (1..n)
  BY <1>1, <1>2
<1>4. PICK r : r = lastNewStateRoot(txs)
  OBVIOUS
<1>5. r = IF I = {} THEN NoRoot ELSE txs[Max(I)].newStateRoot
  BY <1>2, <1>4 DEF lastNewStateRoot
<1>6. \A j \in 1..n : txs[j] \in TxStates /\ TxOK(txs[j]) /\ TxLink(txs[j], h[j - 1], h[j])
  BY <1>1, ElementOfSeq DEF TxsOK, TxsChain
<1>7. ASSUME NEW j \in 1..n, j \notin I
      PROVE  h[j] = h[j - 1]
  <2>1. PICK ts : ts = txs[j]
    OBVIOUS
  <2>2. ts \in TxStates /\ TxOK(ts) /\ TxLink(ts, h[j - 1], h[j]) /\ loadedSubStates(ts) = {}
    BY <1>1, <1>2, <1>6, <1>7, <2>1
  <2> QED
    BY <2>2, NothingLoaded DEF TxLink
<1>8. ASSUME NEW m \in 0..n, \A j \in 1..n : j > m => j \notin I
      PROVE  h[n] = h[m]
  <2> DEFINE U == {j \in m..n : h[j] # h[m]}
  <2>1. m \notin U
    OBVIOUS
  <2>2. ASSUME NEW l \in m..n, m < l, l - 1 \notin U
        PROVE  l \notin U
    <3>1. l \in 1..n /\ l > m /\ l - 1 \in m..n
      BY <1>1, <1>8, <2>2
    <3>2. h[l] = h[l - 1] /\ h[l - 1] = h[m]
      BY <1>7, <1>8, <2>2, <3>1
    <3> QED
      BY <3>2
  <2>3. U \in SUBSET (m..n) /\ m \in Int /\ n \in Int
    BY <1>1, <1>8
  <2>4. U = {}
    <3> HIDE DEF U
    <3> QED
      BY <2>1, <2>2, <2>3, UpFrom
  <2>5. n \in m..n /\ n \notin U
    BY <1>1, <1>8, <2>4
  <2> QED
    BY <2>5
<1>9. CASE I = {}
  <2>1. 0 \in 0..n /\ h[0] = a
    BY <1>1 DEF TxsChain
  <2>2. h[n] = h[0]
    BY <1>8, <1>9, <2>1
  <2> QED
    BY <1>1, <1>4, <1>5, <1>9, <2>1, <2>2
<1>10. CASE I # {}
  <2>1. PICK m : m = Max(I) /\ m \in I /\ \A i \in I : m >= i
    BY <1>1, <1>3, <1>10, MaxIs
  <2>2. m \in 1..n /\ m \in 0..n
    BY <1>1, <1>3, <2>1
  <2>3. h[n] = h[m]
    <3>1. \A j \in 1..n : j > m => ~(m >= j)
      BY <2>2
    <3> QED
      BY <1>8, <2>1, <2>2, <3>1
  <2>4. PICK ts : ts = txs[m]
    OBVIOUS
  <2>5. ts \in TxStates /\ TxLink(ts, h[m - 1], h[m]) /\ loadedSubStates(ts) # {}
    BY <1>2, <1>6, <2>1, <2>2, <2>4
  <2>6. ~Idle(ts)
    BY <2>5, IdleLoads
  <2>7. r = h[m]
    BY <1>5, <1>10, <2>1, <2>4, <2>5, <2>6 DEF TxLink
  <2>8. r # NoRoot
    <3>1. TxOK(ts) /\ Len(ts.subState) \in Nat /\ Len(ts.subState) # 0
      BY <1>6, <2>2, <2>4, <2>5, <2>6, TxFacts
    <3>2. Len(ts.subState) \in 1..Len(ts.subState)
      BY <3>1
    <3>3. PICK ss : ss = ts.subState[Len(ts.subState)] /\ ss \in SubStates
      BY <2>5, <3>2, TxFacts
    <3>4. ts.newStateRoot = ss.newStateRoot
      BY <2>6, <3>1, <3>3 DEF TxOK, Idle
    <3>5. ts.newStateRoot \in Trees
      BY <3>3, <3>4, SubFacts
    <3>6. r = ts.newStateRoot
      BY <1>5, <1>10, <2>1, <2>4
    <3> QED
      BY <3>5, <3>6, NoRootIsNoTree
  <2> QED
    BY <1>1, <1>4, <2>3, <2>7, <2>8
<1> QED
  BY <1>9, <1>10

LEMMA GetIsContent ==
    ASSUME NEW c \in [Keys -> Values], NEW k \in Keys
    PROVE  get(Tree(c), k).value = c[k]
<1>1. PICK w : w = Walk(Tree(c), k)
  OBVIOUS
<1>2. PICK n \in 0..KeyBits : WalkIs(w, c, k, n)
  BY <1>1, WalkFacts
<1>3. Same(w, k) <=> c[k] # 0
  BY <1>2, SameIsPresent
<1>4. get(Tree(c), k).value = IF Same(w, k) THEN w.leaf.value ELSE 0
  BY <1>1 DEF get
<1>5. CASE c[k] # 0
  <2>1. w.leaf = LeafNode(removeKeyBits(k, n), c[k])
    BY <1>2, <1>5, SameIsPresent
  <2>2. w.leaf.value = c[k]
    BY <2>1, NodeKinds
  <2> QED
    BY <1>3, <1>4, <1>5, <2>2
<1>6. CASE c[k] = 0
  BY <1>3, <1>4, <1>6
<1> QED
  BY <1>5, <1>6

\* The programs that the leaves of a tree point to.
ProgramsOf(r) == {get(r, k).value : k \in Keys} \cap Programs

LEMMA ProgramsOfTree ==
    ASSUME NEW c \in [Keys -> Values]
    PROVE  ProgramsOf(Tree(c)) = {c[k] : k \in Keys} \cap Programs
<1>1. \A k \in Keys : get(Tree(c), k).value = c[k]
  BY GetIsContent
<1> QED
  BY <1>1 DEF ProgramsOf

LEMMA SetPrograms ==
    ASSUME NEW r \in Trees, NEW k \in Keys, NEW v \in Values
    PROVE  ProgramsOf(set(r, k, v).newRoot) \subseteq ProgramsOf(r) \cup ({v} \cap Programs)
<1>1. PICK c \in [Keys -> Values] : r = Tree(c)
  BY DEF Trees, Contents
<1>2. PICK d \in [Keys -> Values] : d = [c EXCEPT ![k] = v]
  <2>1. [c EXCEPT ![k] = v] \in [Keys -> Values]
    OBVIOUS
  <2> QED
    BY <2>1
<1>3. set(r, k, v).newRoot = Tree(d)
  BY <1>1, <1>2, SetKeepsCanonical
<1>4. \A j \in Keys : d[j] = v \/ d[j] = c[j]
  BY <1>2
<1>5. ProgramsOf(Tree(d)) = {d[j] : j \in Keys} \cap Programs
  BY <1>2, ProgramsOfTree
<1>6. ProgramsOf(r) = {c[j] : j \in Keys} \cap Programs
  BY <1>1, ProgramsOfTree
<1> QED
  BY <1>3, <1>4, <1>5, <1>6

LEMMA TxPrograms ==
    ASSUME NEW ts \in TxStates, TxOK(ts), ~Idle(ts)
    PROVE  ProgramsOf(ts.newStateRoot) \subseteq ProgramsOf(ts.oldStateRoot) \cup ts.dbWritePrograms
<1>1. PICK s, n : s = ts.subState /\ n = Len(s) /\ n \in Nat /\ n # 0
  BY TxFacts
<1>2. PICK B : B = ProgramsOf(ts.oldStateRoot) \cup ts.dbWritePrograms
  OBVIOUS
<1> DEFINE U == {i \in 1..n : ~(ProgramsOf(s[i].newStateRoot) \subseteq B)}
<1>3. ASSUME U # {}
      PROVE  FALSE
  <2>1. U \in SUBSET Nat
    OBVIOUS
  <2>2. PICK i \in U : \A j \in U : i <= j
    <3> HIDE DEF U
    <3> QED
      BY <1>3, <2>1, SmallestNumber
  <2>3. i \in 1..n /\ ~(ProgramsOf(s[i].newStateRoot) \subseteq B)
    BY <2>2
  <2>4. PICK ss : ss = s[i] /\ ss \in SubStates
    BY <1>1, <2>3, TxFacts
  <2>5. /\ ss.newStateRoot = set(ss.oldStateRoot, ss.key, ss.value).newRoot
        /\ ss.value \in Programs => ss.value \in ts.dbWritePrograms
    BY <1>1, <2>3, <2>4 DEF TxOK, SubOK
  <2>6. ProgramsOf(ss.oldStateRoot) \subseteq B
    <3>1. CASE ss.oldStateRoot = ts.oldStateRoot
      BY <1>2, <3>1
    <3>2. CASE ss.oldStateRoot # ts.oldStateRoot
      <4>1. PICK p \in 1..i - 1 : s[p].newStateRoot = s[i].oldStateRoot
        BY <1>1, <2>3, <2>4, <3>2, ComesFrom
      <4>2. p \in 1..n /\ ~(i <= p)
        BY <1>1, <2>3, <4>1
      <4>3. p \notin U
        BY <2>2, <4>2
      <4> QED
        BY <2>4, <4>1, <4>2, <4>3
    <3> QED
      BY <3>1, <3>2
  <2>7. ProgramsOf(ss.newStateRoot) \subseteq ProgramsOf(ss.oldStateRoot) \cup ({ss.value} \cap Programs)
    BY <2>4, <2>5, SetPrograms, SubFacts
  <2> QED
    BY <1>2, <2>3, <2>4, <2>5, <2>6, <2>7
<1>4. n \in 1..n /\ n \notin U
  BY <1>1, <1>3
<1>5. ts.newStateRoot = s[n].newStateRoot
  BY <1>1 DEF TxOK, Idle
<1> QED
  BY <1>2, <1>4, <1>5

LEMMA ChainPrograms ==
    ASSUME NEW txs, TxsOK(txs), NEW a, NEW h, TxsChain(h, txs, a)
    PROVE  ProgramsOf(h[Len(txs)]) \subseteq ProgramsOf(a) \cup flushedPrograms(txs)
<1>1. PICK n : n = Len(txs) /\ n \in Nat /\ DOMAIN txs = 1..n
  BY LenProperties DEF TxsOK
<1>2. PICK B : B = ProgramsOf(a) \cup flushedPrograms(txs)
  OBVIOUS
<1>3. \A j \in 1..n : ~Idle(txs[j]) => txs[j].dbWritePrograms \subseteq B
  BY <1>1, <1>2 DEF flushedPrograms, Idle
<1> DEFINE U == {j \in 0..n : ~(ProgramsOf(h[j]) \subseteq B)}
<1>4. 0 \notin U
  BY <1>2 DEF TxsChain
<1>5. ASSUME NEW l \in 0..n, 0 < l, l - 1 \notin U
      PROVE  l \notin U
  <2>1. l \in 1..n /\ l - 1 \in 0..n
    BY <1>1, <1>5
  <2>2. PICK ts : ts = txs[l]
    OBVIOUS
  <2>3. ts \in TxStates /\ TxOK(ts) /\ TxLink(ts, h[l - 1], h[l]) /\ ProgramsOf(h[l - 1]) \subseteq B
    BY <1>1, <1>5, <2>1, <2>2, ElementOfSeq DEF TxsOK, TxsChain
  <2>4. ProgramsOf(h[l]) \subseteq B
    <3>1. CASE Idle(ts)
      BY <2>3, <3>1 DEF TxLink
    <3>2. CASE ~Idle(ts)
      <4>1. ts.oldStateRoot = h[l - 1] /\ ts.newStateRoot = h[l]
        BY <2>3, <3>2 DEF TxLink
      <4>2. ProgramsOf(h[l]) \subseteq ProgramsOf(h[l - 1]) \cup ts.dbWritePrograms
        BY <2>3, <3>2, <4>1, TxPrograms
      <4> QED
        BY <1>3, <2>1, <2>2, <2>3, <3>2, <4>2
    <3> QED
      BY <3>1, <3>2
  <2> QED
    BY <2>4
<1>6. U \in SUBSET (0..n) /\ 0 \in Int /\ n \in Int
  BY <1>1
<1>7. U = {}
  <2> HIDE DEF U
  <2> QED
    BY <1>4, <1>5, <1>6, UpFrom
<1>8. n \in 0..n /\ n \notin U
  BY <1>1, <1>7
<1> QED
  BY <1>1, <1>2, <1>8

-----------------------------------------------------------------------------
(* What the database has after a flush                                     *)

\* What a flush of the batch b at the root r makes of the database d.
AfterFlush(b, r, p, d) == IF b.exists THEN flush(b, r, p, d).db ELSE d

\* A flush takes nothing away.
LEMMA FlushGrows ==
    ASSUME NEW b, IsBatch(b), NEW r, NEW p, NEW d, NEW d2, d2 = AfterFlush(b, r, p, d)
    PROVE  /\ d.cached \subseteq d2.cached /\ d.programs \subseteq d2.programs
           /\ d.persisted \subseteq d2.persisted
           /\ d.persisted \subseteq d.cached => d2.persisted \subseteq d2.cached
<1>1. CASE ~b.exists
  BY <1>1 DEF AfterFlush
<1>2. CASE b.exists
  <2>1. BatchOK(b)
    BY <1>2, FoundFacts
  <2>2. PICK z : z = purgeBlocks(b, r)
    OBVIOUS
  <2>3. PICK N, P, root : d2 = stored(d, N, P, root, p)
    <3>1. PICK N, P, root : /\ N = UNION {loadBlock(z[i]) : i \in DOMAIN z}
                            /\ P = flushedPrograms(Txs(z)) /\ root = lastNewStateRoot(Txs(z))
      OBVIOUS
    <3>2. flush(b, r, p, d) = [ok |-> TRUE, db |-> stored(d, N, P, root, p)]
      BY <2>1, <2>2, <3>1, FlushIs
    <3>3. d2 = flush(b, r, p, d).db
      BY <1>2 DEF AfterFlush
    <3> QED
      BY <3>2, <3>3
  <2> QED
    BY <2>3 DEF stored
<1> QED
  BY <1>1, <1>2

\* A batch that is flushed between blocks leads from its old root to the root of
\* the executor: flush writes every node of the new tree that the old one does
\* not have, every program, and the root.
LEMMA FlushIsWhole ==
    ASSUME stateManagerPurge, NEW b, IsBatch(b), NEW e \in Executors, Live(e, b), e.phase # "tx",
           NEW p, NEW d, NEW d2, d2 = AfterFlush(b, e.root, p, d), e.root # e.oldRoot
    PROVE  /\ NodesOf(e.root) \subseteq NodesOf(e.oldRoot) \cup d2.cached
           /\ p = "database" => NodesOf(e.root) \subseteq NodesOf(e.oldRoot) \cup d2.persisted
           /\ ProgramsOf(e.root) \subseteq ProgramsOf(e.oldRoot) \cup d2.programs
           /\ d2.stateRoot = e.root
<1>1. PICK y, a, r : y = BlocksOf(b) /\ a = e.oldRoot /\ r = e.root
  OBVIOUS
<1>2. PICK g : BlocksChain(g, y, a) /\ g[Len(y)] = r
  BY <1>1 DEF Live, Linked
<1>3. b.exists => b.oldStateRoot \in {NoRoot, a}
  BY <1>1 DEF Live, Linked
<1>4. b.exists
  <2>1. SUFFICES ASSUME ~b.exists
                 PROVE  FALSE
    OBVIOUS
  <2>2. y = <<>>
    BY <1>1, <2>1 DEF BlocksOf
  <2>3. g[0] = r
    BY <1>2, <2>2
  <2> QED
    BY <1>1, <1>2, <2>3 DEF BlocksChain
<1>5. BatchOK(b) /\ y = b.blockState
  BY <1>1, <1>4, FoundFacts
<1>6. b.oldStateRoot = a
  BY <1>1, <1>2, <1>3, <1>4, <1>5, NothingSet
<1>7. a # NoRoot
  BY <1>1, NoRootIsNoTree DEF Executors
<1>8. PICK z : z = purgeBlocks(b, r)
  OBVIOUS
<1>9. z = changedBlocks(y)
  BY <1>1, <1>5, <1>6, <1>7, <1>8 DEF purgeBlocks
<1>10. BlocksOK(z) /\ z \in Seq(BlockStates)
  BY <1>5, <1>8, PurgedAreOK DEF BlocksOK
<1>11. y \in Seq(BlockStates)
  BY <1>1, FoundFacts
<1>12. PICK h : BlocksChain(h, z, a) /\ h[Len(z)] = r
  BY <1>2, <1>9, <1>11, ChangedChain
<1>13. PICK N, txs : N = UNION {loadBlock(z[i]) : i \in DOMAIN z} /\ txs = Txs(z)
  OBVIOUS
<1>14. NodesOf(r) \subseteq NodesOf(a) \cup N
  BY <1>10, <1>12, <1>13, BlocksLoad
<1>15. TxsOK(txs)
  BY <1>10, <1>13, TxsAreOK
<1>16. PICK u : TxsChain(u, txs, a) /\ u[Len(txs)] = r
  BY <1>10, <1>12, <1>13, TxsOfChain
<1>17. ProgramsOf(r) \subseteq ProgramsOf(a) \cup flushedPrograms(txs)
  BY <1>15, <1>16, ChainPrograms
<1>18. lastNewStateRoot(txs) # NoRoot /\ lastNewStateRoot(txs) = r
  BY <1>1, <1>15, <1>16, LastRootIs
<1>19. d2 = stored(d, N, flushedPrograms(txs), lastNewStateRoot(txs), p)
  <2>1. flush(b, r, p, d) = [ok |-> TRUE, db |-> stored(d, N, flushedPrograms(txs), lastNewStateRoot(txs), p)]
    BY <1>5, <1>8, <1>13, FlushIs
  <2>2. d2 = flush(b, r, p, d).db
    BY <1>1, <1>4 DEF AfterFlush
  <2> QED
    BY <2>1, <2>2
<1>20. /\ N \subseteq d2.cached /\ (p = "database" => N \subseteq d2.persisted)
       /\ flushedPrograms(txs) \subseteq d2.programs /\ d2.stateRoot = r
  BY <1>18, <1>19 DEF stored, OrElse
<1> QED
  BY <1>1, <1>14, <1>17, <1>20

\* Every root that the executor may go back to has its nodes in W.
Reads(e, W) == \A i \in 1..Len(StackOf(e)) : NodesOf(StackOf(e)[i]) \subseteq W

\* What the executor can read: the database, and what the batch holds back.
Readable == exec.phase # "idle" => Reads(exec, Kept \cup Writes(batch))

LEMMA DrawnReads ==
    ASSUME NEW e, NEW e2, Drawn(StackOf(e2), StackOf(e)), NEW W, Reads(e, W)
    PROVE  Reads(e2, W)
  BY DEF Drawn, Reads

LEMMA AllReads ==
    ASSUME NEW e, NEW r, All(StackOf(e), r), NEW W, NodesOf(r) \subseteq W
    PROVE  Reads(e, W)
  BY DEF All, Reads

LEMMA SetReads ==
    ASSUME NEW e \in Executors, NEW e2 \in Executors, NEW k \in Keys, NEW v \in Values,
           e2.calls = e.calls, e2.root = set(e.root, k, v).newRoot, NEW W, Reads(e, W)
    PROVE  Reads(e2, W \cup set(e.root, k, v).writes)
<1>1. PICK T, T2, n, r, s : /\ T = StackOf(e) /\ T2 = StackOf(e2) /\ n = Len(e.calls)
                            /\ r = e.root /\ s = set(r, k, v)
  OBVIOUS
<1>2. /\ n \in Nat /\ Len(T) = n + 1 /\ Len(T2) = n + 1
      /\ \A i \in 1..n : T2[i] = T[i]
      /\ T[n + 1] = r /\ T2[n + 1] = s.newRoot
  BY <1>1, StackFacts
<1>3. n + 1 \in 1..n + 1 /\ \A i \in 1..n + 1 : i \in 1..n \/ i = n + 1
  BY <1>2
<1>4. \A i \in 1..n + 1 : NodesOf(T[i]) \subseteq W
  BY <1>1, <1>2 DEF Reads
<1>5. NodesOf(s.newRoot) \subseteq W \cup s.writes
  <2>1. r \in Trees
    BY <1>1 DEF Executors
  <2>2. PICK c \in [Keys -> Values] : r = Tree(c)
    BY <2>1 DEF Trees, Contents
  <2>3. NodesOf(s.newRoot) \subseteq (NodesOf(r) \cup s.writes) \ s.deletes
    BY <1>1, <2>2, NothingIsLost
  <2>4. NodesOf(r) \subseteq W
    BY <1>2, <1>3, <1>4
  <2> QED
    BY <2>3, <2>4
<1>6. \A i \in 1..n + 1 : NodesOf(T2[i]) \subseteq W \cup s.writes
  <2>1. ASSUME NEW i \in 1..n + 1
        PROVE  NodesOf(T2[i]) \subseteq W \cup s.writes
    <3>1. CASE i \in 1..n
      BY <1>2, <1>4, <3>1
    <3>2. CASE i = n + 1
      BY <1>2, <1>5, <3>2
    <3> QED
      BY <1>3, <3>1, <3>2
  <2> QED
    BY <2>1
<1> QED
  BY <1>1, <1>2, <1>6 DEF Reads

LEMMA MovesReads ==
    ASSUME Readable, exec.phase # "idle", UNCHANGED <<database, lastFlush>>, Moves(exec, exec', batch, batch')
    PROVE  Readable'
<1>1. PICK e, e2, W : e = exec /\ e2 = exec' /\ W = Kept \cup Writes(batch)
  OBVIOUS
<1>2. Reads(e, W) /\ Drawn(StackOf(e2), StackOf(e)) /\ W = (Kept \cup Writes(batch))'
  BY <1>1 DEF Readable, Moves, Kept
<1>3. Reads(e2, W)
  BY <1>2, DrawnReads
<1> QED
  BY <1>1, <1>2, <1>3 DEF Readable

\* Steps of the executor keep what it may go back to within its reach.
LEMMA StepReads ==
    ASSUME Inv, FlushedTreeIsWhole, Readable, [Next]_vars
    PROVE  Readable'
<1>1. CASE UNCHANGED vars
  BY <1>1 DEF vars, Readable, Kept
<1>2. ASSUME NEW w \in Workloads, StartBatch(w)
      PROVE  Readable'
  <2>1. PICK e2, r, W : e2 = exec' /\ r = lastFlush.newRoot /\ W = (Kept \cup Writes(batch))'
    OBVIOUS
  <2>2. e2.root = r /\ e2 \in Executors /\ Len(e2.calls) = 0
    BY <1>2, <2>1, StartBatchIsGood
  <2>3. All(StackOf(e2), r)
    BY <2>2, AloneOnStack
  <2>4. NodesOf(r) \subseteq W
    BY <1>2, <2>1 DEF FlushedTreeIsWhole, Kept, StartBatch
  <2>5. Reads(e2, W)
    BY <2>3, <2>4, AllReads
  <2> QED
    BY <2>1, <2>5 DEF Readable
<1>3. CASE StartBlock
  <2>1. exec.phase # "idle" /\ UNCHANGED <<database, lastFlush>>
    BY <1>3 DEF StartBlock, In
  <2> QED
    BY <1>3, <2>1, StartBlockIsGood, MovesReads
<1>4. CASE ProcessTx
  <2>1. exec.phase # "idle" /\ UNCHANGED <<database, lastFlush>>
    BY <1>4 DEF ProcessTx, In
  <2> QED
    BY <1>4, <2>1, ProcessTxIsGood, MovesReads
<1>5. ASSUME NEW k \in Keys, NEW v \in Values, Set(k, v)
      PROVE  Readable'
  <2>1. exec.phase # "idle" /\ UNCHANGED <<database, lastFlush>>
    BY <1>5 DEF Set, Working, In
  <2>2. /\ exec \in Executors /\ exec' \in Executors /\ exec'.calls = exec.calls
        /\ exec'.root = set(exec.root, k, v).newRoot
        /\ Writes(batch') = Writes(batch) \cup set(exec.root, k, v).writes
    BY <1>5, SetIsGood
  <2>3. PICK e, e2, C, N, N2 : /\ e = exec /\ e2 = exec' /\ C = Kept
                               /\ N = Writes(batch) /\ N2 = set(e.root, k, v).writes
    OBVIOUS
  <2>4. e \in Executors /\ e2 \in Executors /\ e2.calls = e.calls /\ e2.root = set(e.root, k, v).newRoot
    BY <2>2, <2>3
  <2>5. Reads(e, C \cup N)
    BY <2>1, <2>3 DEF Readable
  <2>6. Reads(e2, (C \cup N) \cup N2)
    BY <2>3, <2>4, <2>5, SetReads
  <2>7. (Kept \cup Writes(batch))' = (C \cup N) \cup N2
    BY <2>1, <2>2, <2>3 DEF Kept
  <2> QED
    BY <2>3, <2>6, <2>7 DEF Readable
<1>6. CASE SetTemporary
  <2>1. exec.phase # "idle" /\ UNCHANGED <<database, lastFlush>>
    BY <1>6 DEF SetTemporary, Working, In
  <2> QED
    BY <1>6, <2>1, SetTemporaryIsGood, MovesReads
<1>7. ASSUME NEW p \in Programs, WriteProgram(p)
      PROVE  Readable'
  <2>1. exec.phase # "idle" /\ UNCHANGED <<database, lastFlush>>
    BY <1>7 DEF WriteProgram, In
  <2> QED
    BY <1>7, <2>1, WriteProgramIsGood, MovesReads
<1>8. CASE Call
  <2>1. exec.phase # "idle" /\ UNCHANGED <<database, lastFlush>>
    BY <1>8 DEF Call, In
  <2> QED
    BY <1>8, <2>1, CallIsGood, MovesReads
<1>9. CASE Return \/ Revert
  <2>1. exec.phase # "idle" /\ UNCHANGED <<database, lastFlush>>
    BY <1>9 DEF Return, Revert, In
  <2> QED
    BY <1>9, <2>1, ReturnIsGood, MovesReads
<1>10. CASE FinishTx
  <2>1. exec.phase # "idle" /\ UNCHANGED <<database, lastFlush>>
    BY <1>10 DEF FinishTx, In
  <2> QED
    BY <1>10, <2>1, FinishTxIsGood, MovesReads
<1>11. CASE FinishBlock
  <2>1. exec.phase # "idle" /\ UNCHANGED <<database, lastFlush>>
    BY <1>11 DEF FinishBlock, In
  <2> QED
    BY <1>11, <2>1, FinishBlockIsGood, MovesReads
<1>12. CASE AbortBatch
  <2>1. PICK e2, r, W : e2 = exec' /\ r = lastFlush.newRoot /\ W = (Kept \cup Writes(batch))'
    OBVIOUS
  <2>2. All(StackOf(e2), r)
    BY <1>12, <2>1, AbortBatchIsGood
  <2>3. NodesOf(r) \subseteq W
    BY <1>12, <2>1 DEF FlushedTreeIsWhole, Kept, AbortBatch
  <2>4. Reads(e2, W)
    BY <2>2, <2>3, AllReads
  <2> QED
    BY <2>1, <2>4 DEF Readable
<1>13. CASE Flush \/ CancelBatch
  <2>1. exec'.phase = "idle"
    BY <1>13, FlushIsGood DEF Idlers
  <2> QED
    BY <2>1 DEF Readable
<1> QED
  BY <1>1, <1>2, <1>3, <1>4, <1>5, <1>6, <1>7, <1>8, <1>9, <1>10, <1>11, <1>12, <1>13 DEF Next

\* The programs of the flushed tree are in the database.
ProgramsThere == ProgramsOf(lastFlush.newRoot) \subseteq database.programs

\* Nothing reaches the SQL database without the caches.
Through(d) == d.persisted \subseteq d.cached

Stored == FlushedTreeIsWhole /\ FlushedRootIsStored /\ ProgramsThere /\ Through(database)

\* What is left of a flush l by the database d can be relied on.
KeptOf(l, d) == IF l.durable THEN d.persisted ELSE d.cached

LEMMA StepStores ==
    ASSUME stateManagerPurge, Inv, Stored, [Next]_vars
    PROVE  Stored'
<1>1. CASE Flush
  <2>1. PICK e, b, l, d, d2, l2, p : /\ e = exec /\ b = batch /\ l = lastFlush /\ d = database
                                     /\ d2 = database' /\ l2 = lastFlush' /\ p = e.workload.persistence
    OBVIOUS
  <2>2. /\ IsBatch(b) /\ Good(e, b, l) /\ e.phase # "idle" /\ (e.phase = "batch" \/ e.aborted)
        /\ l2.oldRoot = e.oldRoot /\ l2.newRoot = e.root
    BY <1>1, <2>1 DEF Flush, Inv, In
  <2>3. d2 = AfterFlush(b, e.root, p, d)
    <3>1. PICK f : f = IF b.exists THEN flush(b, e.root, p, d) ELSE [ok |-> TRUE, db |-> d]
      OBVIOUS
    <3>2. d2 = f.db
      BY <1>1, <2>1, <3>1 DEF Flush
    <3> QED
      BY <3>1, <3>2 DEF AfterFlush
  <2>4. e \in Executors /\ e.oldRoot = l.newRoot /\ (~e.aborted => Live(e, b))
        /\ (e.aborted => All(StackOf(e), e.oldRoot))
    BY <2>2, AtRun
  <2>5. /\ d.cached \subseteq d2.cached /\ d.programs \subseteq d2.programs
        /\ d.persisted \subseteq d2.persisted /\ Through(d) /\ Through(d2)
    BY <2>1, <2>2, <2>3, FlushGrows DEF Stored, Through
  <2>6. NodesOf(l.newRoot) \subseteq KeptOf(l, d) /\ ProgramsOf(l.newRoot) \subseteq d.programs
    BY <2>1 DEF Stored, FlushedTreeIsWhole, ProgramsThere, KeptOf, Kept
  <2>7. l2.durable => l.durable /\ p = "database"
    BY <1>1, <2>1 DEF Flush
  <2>8. KeptOf(l, d) \subseteq KeptOf(l2, d2)
    BY <2>5, <2>7 DEF KeptOf, Through
  <2>9. CASE e.root = e.oldRoot
    <3>1. NodesOf(e.root) \subseteq KeptOf(l2, d2) /\ ProgramsOf(e.root) \subseteq d2.programs
      BY <2>4, <2>5, <2>6, <2>8, <2>9
    <3> QED
      BY <2>1, <2>2, <2>5, <2>9, <3>1
         DEF Stored, FlushedTreeIsWhole, FlushedRootIsStored, ProgramsThere, KeptOf, Kept
  <2>10. CASE e.root # e.oldRoot
    <3>1. ~e.aborted
      <4>1. SUFFICES ASSUME All(StackOf(e), e.oldRoot)
                     PROVE  FALSE
        BY <2>4
      <4>2. PICK n : n = Len(e.calls) + 1
        OBVIOUS
      <4>3. n \in 1..Len(StackOf(e)) /\ StackOf(e)[n] = e.root
        BY <2>4, <4>2, StackFacts
      <4> QED
        BY <2>10, <4>1, <4>3 DEF All
    <3>2. e.phase # "tx" /\ Live(e, b)
      BY <2>2, <2>4, <3>1
    <3>3. /\ NodesOf(e.root) \subseteq NodesOf(e.oldRoot) \cup d2.cached
          /\ p = "database" => NodesOf(e.root) \subseteq NodesOf(e.oldRoot) \cup d2.persisted
          /\ ProgramsOf(e.root) \subseteq ProgramsOf(e.oldRoot) \cup d2.programs
          /\ d2.stateRoot = e.root
      BY <2>2, <2>3, <2>4, <2>10, <3>2, FlushIsWhole
    <3>4. NodesOf(e.root) \subseteq NodesOf(e.oldRoot) \cup KeptOf(l2, d2)
      BY <2>7, <3>3 DEF KeptOf
    <3>5. NodesOf(e.root) \subseteq KeptOf(l2, d2) /\ ProgramsOf(e.root) \subseteq d2.programs
      BY <2>4, <2>5, <2>6, <2>8, <3>3, <3>4
    <3> QED
      BY <2>1, <2>2, <2>5, <3>3, <3>5
         DEF Stored, FlushedTreeIsWhole, FlushedRootIsStored, ProgramsThere, KeptOf, Kept
  <2> QED
    BY <2>9, <2>10
<1>2. CASE UNCHANGED <<database, lastFlush>>
  BY <1>2 DEF Stored, FlushedTreeIsWhole, FlushedRootIsStored, ProgramsThere, Kept
<1>3. Flush \/ UNCHANGED <<database, lastFlush>>
  BY DEF Next, vars, StartBatch, StartBlock, ProcessTx, Set, SetTemporary, WriteProgram,
         Call, Return, Revert, FinishTx, FinishBlock, AbortBatch, CancelBatch
<1> QED
  BY <1>1, <1>2, <1>3

LEMMA InitStores ==
    ASSUME Init
    PROVE  Stored /\ Readable
<1>1. PICK content \in InitContents :
        /\ exec = [phase |-> "idle", batches |-> 0]
        /\ database = [cached |-> NodesOf(Tree(content)), persisted |-> NodesOf(Tree(content)),
                       programs |-> {content[k] : k \in Keys} \cap Programs,
                       stateRoot |-> Tree(content)]
        /\ lastFlush = [NoFlush EXCEPT !.oldRoot = Tree(content), !.newRoot = Tree(content)]
  BY DEF Init
<1>2. PICK r : r = Tree(content)
  OBVIOUS
<1>3. content \in [Keys -> Values]
  BY BatchExecutionAssumption
<1>4. ProgramsOf(r) = {content[k] : k \in Keys} \cap Programs
  BY <1>2, <1>3, ProgramsOfTree
<1>5. /\ exec.phase = "idle" /\ database.programs = ProgramsOf(r)
      /\ database.cached = NodesOf(r) /\ database.persisted = NodesOf(r)
      /\ lastFlush.newRoot = r /\ lastFlush.oldRoot = r
  BY <1>1, <1>2, <1>4 DEF NoFlush
<1> QED
  BY <1>5 DEF Stored, Readable, FlushedTreeIsWhole, FlushedRootIsStored, ProgramsThere,
              Kept, Through

LEMMA StoredHolds == stateManagerPurge => (Spec => [](Stored /\ Readable))
<1>1. SUFFICES ASSUME stateManagerPurge
               PROVE  Spec => [](Stored /\ Readable)
  OBVIOUS
<1>2. Init => Stored /\ Readable
  BY InitStores
<1>3. Inv /\ (Stored /\ Readable) /\ [Next]_vars => (Stored /\ Readable)'
  BY <1>1, StepStores, StepReads DEF Stored
<1> QED
  BY <1>2, <1>3, InvHolds, PTL DEF Spec

\* With the purge (its default), for every tree, workload and number of batches:
\* after every flush the database has every node of the new tree.  The blocks,
\* transactions and sub-states that flush drops lead nowhere, and a node that a
\* kept sub-state deletes is in no later tree unless it is written again.
THEOREM FlushedTreeIsAlwaysWhole == stateManagerPurge => (Spec => []FlushedTreeIsWhole)
<1>1. Stored /\ Readable => FlushedTreeIsWhole
  BY DEF Stored
<1> QED
  BY <1>1, StoredHolds, PTL

\* The last transaction that loads anything ends at the root of the executor, so
\* a batch that changes the state leaves its new root in the database.
THEOREM FlushedRootIsAlwaysStored == stateManagerPurge => (Spec => []FlushedRootIsStored)
<1>1. Stored /\ Readable => FlushedRootIsStored
  BY DEF Stored
<1> QED
  BY <1>1, StoredHolds, PTL

\* The executor can read every root that it is at or may go back to: the common
\* write list of the batch has what the database does not have, whatever calls
\* and transactions have been reverted.
THEOREM WorkingTreeIsAlwaysReadable == stateManagerPurge => (Spec => []WorkingTreeIsReadable)
<1>1. Inv /\ (Stored /\ Readable) => WorkingTreeIsReadable
  <2>1. SUFFICES ASSUME Inv, Readable, exec.phase # "idle"
                 PROVE  NodesOf(exec.root) \subseteq
                           Kept \cup (IF batch.exists THEN batch.dbWriteNodes ELSE {})
    BY DEF WorkingTreeIsReadable
  <2>2. PICK e, b, W : e = exec /\ b = batch /\ W = Kept \cup Writes(b)
    OBVIOUS
  <2>3. IsBatch(b) /\ e \in Executors /\ Reads(e, W)
    BY <2>1, <2>2, AtRun DEF Inv, Readable
  <2>4. PICK n : n = Len(e.calls) + 1
    OBVIOUS
  <2>5. n \in 1..Len(StackOf(e)) /\ StackOf(e)[n] = e.root
    BY <2>3, <2>4, StackFacts
  <2>6. NodesOf(e.root) \subseteq W
    BY <2>3, <2>5 DEF Reads
  <2>7. Writes(b) = IF b.exists THEN b.dbWriteNodes ELSE {}
    BY DEF Writes, Found, EmptyBatch
  <2> QED
    BY <2>2, <2>6, <2>7
<1> QED
  BY <1>1, InvHolds, StoredHolds, PTL

\* A program is written before the leaf that points to it, and flush keeps the
\* programs of every transaction that leads to the new root.
THEOREM FlushedProgramsAreAlwaysThere == stateManagerPurge => (Spec => []FlushedProgramsAreThere)
<1>1. Stored /\ Readable => FlushedProgramsAreThere
  BY DEF Stored, ProgramsThere, ProgramsOf, FlushedProgramsAreThere
<1> QED
  BY <1>1, StoredHolds, PTL
=============================================================================
