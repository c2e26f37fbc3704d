------------------------- MODULE ProverQueueProofs -------------------------
(***************************************************************************)
(* Proofs about ProverQueue, for every set of requests and any kinds of    *)
(* them, and about Aggregator, for any maximum of streams.  What holds of  *)
(* TornSpec holds in spite of the data race on the vector of pending       *)
(* requests; the order of the requests, and that none is lost, are proved  *)
(* of Spec.                                                                *)
(***************************************************************************)
EXTENDS Aggregator, SequenceTheorems, TLAPS

\* What push_back and erase(begin()) do to the elements of a vector.
LEMMA AppendRange ==
    ASSUME NEW S, NEW s \in Seq(S), NEW x \in S
    PROVE  /\ Append(s, x) \in Seq(S)
           /\ Range(Append(s, x)) = Range(s) \cup {x}
           /\ Range(s) \subseteq S
           /\ Append(s, x) # <<>>
<1>1. /\ Append(s, x) \in Seq(S)
      /\ Len(Append(s, x)) = Len(s) + 1
      /\ \A i \in 1..Len(s) : Append(s, x)[i] = s[i]
      /\ Append(s, x)[Len(s) + 1] = x
  OBVIOUS
<1>2. /\ DOMAIN s = 1..Len(s) /\ DOMAIN Append(s, x) = 1..(Len(s) + 1)
      /\ Len(s) \in Nat
  BY <1>1
<1>3. \A i \in 1..Len(s) : s[i] \in S
  OBVIOUS
<1>4. Append(s, x) # <<>>
  BY <1>1, <1>2, EmptySeq
<1> QED
  BY <1>1, <1>2, <1>3, <1>4 DEF Range

\* A vector without duplicates has none after a push_back of a new element.
LEMMA PushInjective ==
    ASSUME NEW S, NEW s \in Seq(S), NEW x \in S, IsInjective(s), x \notin Range(s)
    PROVE  IsInjective(Append(s, x))
<1>1. /\ DOMAIN s = 1..Len(s) /\ DOMAIN Append(s, x) = 1..(Len(s) + 1)
      /\ Len(s) \in Nat
      /\ \A i \in 1..Len(s) : Append(s, x)[i] = s[i]
      /\ Append(s, x)[Len(s) + 1] = x
  OBVIOUS
<1>2. \A i \in 1..Len(s) : s[i] # x
  BY <1>1 DEF Range
<1>3. \A i \in 1..(Len(s) + 1) : i \in 1..Len(s) \/ i = Len(s) + 1
  BY <1>1
<1> QED
  BY <1>1, <1>2, <1>3 DEF IsInjective

LEMMA TailRange ==
    ASSUME NEW S, NEW s \in Seq(S), s # <<>>
    PROVE  /\ Tail(s) \in Seq(S) /\ Head(s) \in S
           /\ Range(s) = Range(Tail(s)) \cup {Head(s)}
           /\ Head(s) = s[1] /\ Len(s) > 0
<1>1. /\ Tail(s) \in Seq(S) /\ Head(s) \in S
      /\ Len(Tail(s)) = Len(s) - 1
      /\ \A i \in 1..Len(Tail(s)) : Tail(s)[i] = s[i + 1]
      /\ Len(s) \in Nat /\ Len(s) > 0
  BY HeadTailProperties, EmptySeq
<1>2. DOMAIN s = 1..Len(s) /\ DOMAIN Tail(s) = 1..(Len(s) - 1)
  BY <1>1
<1>3. Head(s) = s[1]
  OBVIOUS
<1>4. \A i \in 1..Len(s) : i = 1 \/ i - 1 \in 1..(Len(s) - 1)
  BY <1>1
<1>5. ASSUME NEW x \in Range(s)
      PROVE  x \in Range(Tail(s)) \cup {Head(s)}
  <2> PICK i \in 1..Len(s) : x = s[i]
    BY <1>2 DEF Range
  <2>1. CASE i = 1
    BY <1>3, <2>1
  <2>2. CASE i - 1 \in 1..(Len(s) - 1)
    <3>1. Tail(s)[i - 1] = s[i]
      BY <1>1, <2>2
    <3> QED
      BY <1>2, <2>2, <3>1 DEF Range
  <2> QED
    BY <1>4, <2>1, <2>2
<1>6. ASSUME NEW x \in Range(Tail(s)) \cup {Head(s)}
      PROVE  x \in Range(s)
  <2>1. 1 \in DOMAIN s /\ \A i \in DOMAIN Tail(s) : i + 1 \in DOMAIN s /\ Tail(s)[i] = s[i + 1]
    BY <1>1, <1>2
  <2> QED
    BY <1>3, <2>1 DEF Range
<1> QED
  BY <1>1, <1>3, <1>5, <1>6

-----------------------------------------------------------------------------
\* The disjuncts of Next, with their parameters named.
LEMMA QueueCases ==
    ASSUME Next
    PROVE  \/ \E r \in Requests : Gen(r, Kind[r])
           \/ \E r \in Requests : Cancel(r)
           \/ \E r \in Requests : GetProof(r)
           \/ GetStatus \/ GetStatusCurrent \/ GetStatusPending
           \/ submitRequest \/ submitRequestPush \/ submitRequestPost \/ clientUnlock
           \/ proverLock \/ proverFirst \/ proverWait \/ proverCheck
           \/ proverErase \/ proverUnlock
           \/ proverProcess \/ proverRelock \/ proverComplete \/ notifyCompleted
           \/ cleanerLock \/ cleanerDelete \/ cleanerUnlock
<1>1. ASSUME NEW r \in Requests, NEW t, Gen(r, t)
      PROVE  Gen(r, Kind[r])
  BY <1>1 DEF Gen
<1> QED
  BY <1>1, QueueAssumption DEF Next, Call, Return, CallStep, Prover, Cleaner, GenBatchProof,
     GenStatelessBatchProof, GenAggregatedProof, GenFinalProof

\* The types hold initially.
LEMMA QueueTypeInit == Init => TypeOK
  BY QueueAssumption, EmptySeq DEF Init, TypeOK, RequestsOrNull

\* Every step, the racing one included, keeps the types.
LEMMA QueueTypeNext ==
    ASSUME TypeOK, ThreadInv, [Next \/ proverEraseTorn]_vars
    PROVE  TypeOK'
<1> USE QueueAssumption
<1>a. Range(submitted) \subseteq Requests
  BY DEF TypeOK, Range
<1>1. CASE \E r \in Requests : Gen(r, Kind[r])
  BY <1>1 DEF Gen, TypeOK, RequestsOrNull, queues, prover, history
<1>2. CASE \E r \in Requests : Cancel(r)
  BY <1>2 DEF Cancel, lock, TypeOK, RequestsOrNull, queues, prover, history
<1>3. CASE \E r \in Requests : GetProof(r)
  <2> PICK r \in Requests : GetProof(r)
    BY <1>3
  <2>1. GetProofResult(r) \in {"PENDING", "COMPLETED_OK", "COMPLETED_ERROR", "ERROR"}
    BY DEF GetProofResult
  <2> QED
    BY <2>1 DEF GetProof, lock, TypeOK, RequestsOrNull, queues, prover, requests
<1>4. CASE submitRequest \/ submitRequestPost
  BY <1>4 DEF submitRequest, submitRequestPost, lock, ThreadInv, TypeOK, RequestsOrNull,
     queues, prover, requests, history
<1>n. CASE GetStatus \/ GetStatusCurrent \/ GetStatusPending \/ clientUnlock
  <2>1. Range(pendingRequests) \subseteq Requests
    BY DEF TypeOK, Range
  <2> QED
    BY <1>n, <2>1 DEF GetStatus, GetStatusCurrent, GetStatusPending, clientUnlock, lock,
       unlock, TypeOK, RequestsOrNull, queues, prover, requests, history
<1>5. CASE submitRequestPush
  BY <1>5, AppendRange DEF submitRequestPush, ThreadInv, TypeOK, RequestsOrNull, prover, requests
<1>6. CASE proverLock \/ proverFirst \/ proverWait \/ proverUnlock \/ proverRelock
  BY <1>6 DEF proverLock, proverFirst, proverWait, proverUnlock, proverRelock, lock,
     unlock, TypeOK, RequestsOrNull, queues, requests, client, history
<1>7. CASE proverCheck
  BY <1>7, TailRange DEF proverCheck, unlock, TypeOK, RequestsOrNull, requests, client, history
<1>8. CASE proverErase
  BY <1>8, TailRange DEF proverErase, ThreadInv, TypeOK, RequestsOrNull, requests, client, history
<1>9. CASE proverEraseTorn
  <2>1. /\ Tail(pendingRequests) \in Seq(Requests)
        /\ Append(pendingRequests, clientRequest) \in Seq(Requests)
        /\ Append(submitted, clientRequest) \in Seq(Requests)
    BY <1>9, TailRange, AppendRange DEF proverEraseTorn, ThreadInv, TypeOK
  <2> QED
    BY <1>9, <2>1 DEF proverEraseTorn, TypeOK, RequestsOrNull, requests
<1>10. CASE proverProcess
  <2>1. pCurrentRequest \in Requests /\ type[pCurrentRequest] \in Types
    BY <1>10, <1>a DEF proverProcess, ThreadInv, Working, TypeOK
  <2>2. Outcomes(type[pCurrentRequest]) \subseteq {"success", "error"}
    BY <2>1 DEF Types, Outcomes, genBatchProof, genAggregatedProof, genFinalProof
  <2>3. result' \in [Requests -> {"unspecified", "success", "error"}]
    BY <1>10, <2>1, <2>2 DEF proverProcess, TypeOK
  <2> QED
    BY <1>10, <2>3 DEF proverProcess, TypeOK, RequestsOrNull, queues, client, history
<1>11. CASE proverComplete
  <2>1. pCurrentRequest \in Requests
    BY <1>11, <1>a DEF proverComplete, ThreadInv, Working
  <2> QED
    BY <1>11, <2>1, AppendRange DEF proverComplete, unlock, TypeOK, RequestsOrNull,
       requests, client
<1>12. CASE notifyCompleted
  BY <1>12 DEF notifyCompleted, ThreadInv, TypeOK, RequestsOrNull, queues, client, history
<1>13. CASE cleanerLock \/ cleanerUnlock
  BY <1>13 DEF cleanerLock, cleanerUnlock, lock, unlock, TypeOK, RequestsOrNull, queues,
     requests, prover, client, history
<1>14. CASE cleanerDelete
  BY <1>14, TailRange DEF cleanerDelete, TypeOK, RequestsOrNull, requests, prover, client, history
<1>15. CASE UNCHANGED vars
  BY <1>15 DEF vars, TypeOK, RequestsOrNull, queues, requests, prover, client, history
<1> QED
  BY QueueCases, <1>1, <1>2, <1>3, <1>4, <1>n, <1>5, <1>6, <1>7, <1>8, <1>9, <1>10, <1>11,
     <1>12, <1>13, <1>14, <1>15

\* Every step, the racing one included, keeps what the threads rely on.
LEMMA ThreadNext ==
    ASSUME TypeOK, ThreadInv, [Next \/ proverEraseTorn]_vars
    PROVE  ThreadInv'
<1> USE QueueAssumption
<1>a. Range(submitted) \subseteq Requests /\ Range(pendingRequests) \subseteq Requests
  BY DEF TypeOK, Range
<1>1. CASE \E r \in Requests : Gen(r, Kind[r])
  <2> PICK r \in Requests : Gen(r, Kind[r])
    BY <1>1
  <2>1. /\ type[r] = "none" /\ type' = [type EXCEPT ![r] = Kind[r]]
        /\ clientRequest' = r /\ clientPc' = "submit"
        /\ UNCHANGED <<queues, prover, history>>
    BY DEF Gen
  <2>2. Kind[r] # "none"
    BY DEF Types
  <2>3. r \notin Range(submitted)
    BY <2>1 DEF ThreadInv
  <2>4. \A q \in Range(submitted) : type'[q] # "none"
    BY <1>a, <2>1, <2>2 DEF ThreadInv, TypeOK
  <2> QED
    BY <2>1, <2>2, <2>3, <2>4 DEF ThreadInv, Working, TypeOK, queues, prover, history
<1>2. CASE \/ \E r \in Requests : Cancel(r)
           \/ \E r \in Requests : GetProof(r)
           \/ GetStatus \/ GetStatusCurrent \/ GetStatusPending
           \/ submitRequestPost \/ clientUnlock
  <2>1. /\ UNCHANGED <<pendingRequests, pCurrentRequest, type, proverPc, pProverRequest, submitted>>
        /\ clientPc' \notin {"submit", "push"}
    BY <1>2 DEF Cancel, GetProof, GetStatus, GetStatusCurrent, GetStatusPending,
     submitRequestPost, clientUnlock, queues,
       requests, prover, history
  <2> QED
    BY <2>1 DEF ThreadInv, Working
<1>3. CASE submitRequest
  BY <1>3 DEF submitRequest, ThreadInv, Working, requests, prover, history
<1>4. CASE submitRequestPush
  <2>a. /\ clientRequest \in Requests /\ type[clientRequest] # "none"
        /\ clientRequest \notin Range(submitted) /\ IsInjective(submitted)
    BY <1>4 DEF submitRequestPush, ThreadInv
  <2>b. IsInjective(submitted')
    <3>1. submitted \in Seq(Requests)
      BY DEF TypeOK
    <3>2. IsInjective(Append(submitted, clientRequest))
      BY <3>1, <2>a, PushInjective, Zenon
    <3>3. submitted' = Append(submitted, clientRequest)
      BY <1>4 DEF submitRequestPush
    <3> QED
      BY <3>2, <3>3, Zenon
  <2>1. /\ Range(pendingRequests') = Range(pendingRequests) \cup {clientRequest}
        /\ Range(submitted') = Range(submitted) \cup {clientRequest}
        /\ pendingRequests' # <<>>
    BY <1>4, <2>a, AppendRange DEF submitRequestPush, TypeOK
  <2>2. /\ clientPc' = "post"
        /\ UNCHANGED <<pCurrentRequest, type, proverPc, pProverRequest>>
    BY <1>4 DEF submitRequestPush, requests, prover
  <2> QED
    BY <2>a, <2>b, <2>1, <2>2 DEF ThreadInv, Working
<1>5. CASE proverLock \/ proverFirst \/ proverWait
  <2>1. /\ proverPc \notin {"erase", "release", "process", "relock", "complete"}
        /\ proverPc' \in {"first", "wait", "check"}
        /\ UNCHANGED <<pendingRequests, pCurrentRequest, type, clientPc, clientRequest, submitted>>
    BY <1>5 DEF proverLock, proverFirst, proverWait, queues, requests, client, history
  <2> QED
    BY <2>1 DEF ThreadInv, Working
<1>6. CASE proverCheck
  <2>1. /\ proverPc = "check"
        /\ \/ proverPc' = "top" /\ UNCHANGED pCurrentRequest
           \/ /\ proverPc' = "erase" /\ pendingRequests # <<>>
              /\ pCurrentRequest' = Head(pendingRequests)
        /\ UNCHANGED <<pendingRequests, type, clientPc, clientRequest, submitted>>
    BY <1>6 DEF proverCheck, requests, client, history
  <2>2. pendingRequests # <<>> => Head(pendingRequests) \in Range(pendingRequests)
    BY TailRange DEF TypeOK
  <2> QED
    BY <2>1, <2>2 DEF ThreadInv, Working
<1>7. CASE proverErase
  <2>1. /\ proverPc = "erase" /\ proverPc' = "release"
        /\ Range(pendingRequests') \subseteq Range(pendingRequests)
        /\ UNCHANGED <<pCurrentRequest, type, clientPc, clientRequest, submitted>>
    BY <1>7, TailRange DEF proverErase, ThreadInv, TypeOK, requests, client, history
  <2> QED
    BY <2>1 DEF ThreadInv, Working
<1>8. CASE proverEraseTorn
  <2>1. /\ clientRequest \in Requests /\ type[clientRequest] # "none"
        /\ Range(submitted') = Range(submitted) \cup {clientRequest}
        /\ Range(Append(pendingRequests, clientRequest)) = Range(pendingRequests) \cup {clientRequest}
        /\ Range(Tail(pendingRequests)) \subseteq Range(pendingRequests)
    BY <1>8, AppendRange, TailRange DEF proverEraseTorn, ThreadInv, TypeOK
  <2>b. IsInjective(submitted')
    <3>1. submitted \in Seq(Requests) /\ submitted' = Append(submitted, clientRequest)
      BY <1>8 DEF TypeOK, proverEraseTorn
    <3>2. clientRequest \notin Range(submitted) /\ IsInjective(submitted)
      BY <1>8 DEF proverEraseTorn, ThreadInv
    <3>3. IsInjective(Append(submitted, clientRequest))
      BY <3>1, <3>2, <2>1, PushInjective, Zenon
    <3> QED
      BY <3>1, <3>3, Zenon
  <2>2. Range(pendingRequests') \subseteq Range(pendingRequests) \cup {clientRequest}
    BY <1>8, <2>1 DEF proverEraseTorn
  <2>3. /\ proverPc = "erase" /\ proverPc' = "release" /\ clientPc' = "post"
        /\ UNCHANGED <<pCurrentRequest, type>>
    BY <1>8 DEF proverEraseTorn, requests
  <2> QED
    BY <2>b, <2>1, <2>2, <2>3 DEF ThreadInv, Working
<1>9. CASE proverUnlock \/ proverProcess \/ proverRelock
  <2>1. /\ Working /\ Working' /\ proverPc' \notin {"erase", "notify"}
        /\ UNCHANGED <<pendingRequests, pCurrentRequest, type, clientPc, clientRequest, submitted>>
    BY <1>9 DEF proverUnlock, proverProcess, proverRelock, Working, queues, requests, client, history
  <2> QED
    BY <2>1 DEF ThreadInv
<1>10. CASE proverComplete
  <2>1. /\ Working /\ proverPc' = "notify"
        /\ pProverRequest' = pCurrentRequest /\ pCurrentRequest' = NULL
        /\ UNCHANGED <<pendingRequests, type, clientPc, clientRequest, submitted>>
    BY <1>10 DEF proverComplete, Working, requests, client
  <2> QED
    BY <1>a, <2>1 DEF ThreadInv, Working
<1>11. CASE notifyCompleted
  <2>1. /\ proverPc = "notify" /\ proverPc' = "top"
        /\ UNCHANGED <<pendingRequests, pCurrentRequest, type, clientPc, clientRequest, submitted>>
    BY <1>11 DEF notifyCompleted, queues, client, history
  <2> QED
    BY <2>1 DEF ThreadInv, Working
<1>12. CASE cleanerLock \/ cleanerDelete \/ cleanerUnlock
  <2>1. UNCHANGED <<pendingRequests, pCurrentRequest, type, proverPc, pProverRequest,
                    clientPc, clientRequest, submitted>>
    BY <1>12 DEF cleanerLock, cleanerDelete, cleanerUnlock, queues, requests, prover, client, history
  <2> QED
    BY <2>1 DEF ThreadInv, Working
<1>13. CASE UNCHANGED vars
  BY <1>13 DEF vars, queues, requests, prover, client, history, ThreadInv, Working
<1> QED
  BY QueueCases, <1>1, <1>2, <1>3, <1>4, <1>5, <1>6, <1>7, <1>8, <1>9, <1>10, <1>11,
     <1>12, <1>13

\* What the threads rely on holds, also with the data race.
THEOREM ThreadsCorrect == TornSpec => [](TypeOK /\ ThreadInv)
<1>1. Init => ThreadInv
  BY DEF Init, ThreadInv, Working, Range, IsInjective
<1> QED
  BY <1>1, QueueTypeInit, QueueTypeNext, ThreadNext, PTL DEF TornSpec

\* The steps of Spec are steps of TornSpec.
LEMMA SpecIsTorn == Spec => TornSpec
<1>1. [Next]_vars => [Next \/ proverEraseTorn]_vars
  OBVIOUS
<1> QED
  BY <1>1, PTL DEF Spec, TornSpec

\* Every variable of the queue has its type.
THEOREM QueueTypeCorrect == Spec => []TypeOK
  BY ThreadsCorrect, SpecIsTorn, PTL

\* The prover thread never sleeps in sem_wait while a request is in the queue
\* and no sem_post is to come, although it looked at the queue before.
THEOREM Wakeup == TornSpec => []NoLostWakeup
<1>1. Init => NoLostWakeup
  BY DEF Init, NoLostWakeup
<1>2. ASSUME TypeOK, NoLostWakeup, [Next \/ proverEraseTorn]_vars
      PROVE  NoLostWakeup'
  <2>1. CASE submitRequestPush
    BY <1>2, <2>1 DEF submitRequestPush, NoLostWakeup
  <2>2. CASE submitRequestPost
    BY <1>2, <2>2 DEF submitRequestPost, NoLostWakeup, TypeOK
  <2>3. CASE proverFirst
    BY <1>2, <2>3 DEF proverFirst, NoLostWakeup, queues
  <2>4. CASE proverPc' # "wait"
    BY <2>4 DEF NoLostWakeup
  <2>5. CASE \/ \E r \in Requests : Gen(r, Kind[r]) \/ Cancel(r) \/ GetProof(r)
             \/ GetStatus \/ GetStatusCurrent \/ GetStatusPending
           \/ submitRequest \/ clientUnlock
    <3>1. /\ UNCHANGED <<proverPc, pendingRequests, pendingRequestSem>>
          /\ clientPc # "post"
      BY <2>5 DEF Gen, Cancel, GetProof, GetStatus, GetStatusCurrent, GetStatusPending,
     submitRequest, clientUnlock, queues, prover
    <3> QED
      BY <1>2, <3>1 DEF NoLostWakeup
  <2>6. CASE cleanerLock \/ cleanerDelete \/ cleanerUnlock
    BY <1>2, <2>6 DEF cleanerLock, cleanerDelete, cleanerUnlock, NoLostWakeup, queues, prover, client
  <2>7. CASE \/ proverLock \/ proverWait \/ proverCheck \/ proverErase \/ proverEraseTorn
             \/ proverUnlock \/ proverProcess \/ proverRelock \/ proverComplete \/ notifyCompleted
    <3>1. proverPc' # "wait"
      BY <2>7 DEF proverLock, proverWait, proverCheck, proverErase, proverEraseTorn,
         proverUnlock, proverProcess, proverRelock, proverComplete, notifyCompleted
    <3> QED
      BY <2>4, <3>1
  <2>8. CASE UNCHANGED vars
    BY <1>2, <2>8 DEF vars, queues, prover, client, NoLostWakeup
  <2> QED
    BY <1>2, QueueCases, <2>1, <2>2, <2>3, <2>5, <2>6, <2>7, <2>8
<1> QED
  BY <1>1, <1>2, ThreadsCorrect, PTL DEF TornSpec

-----------------------------------------------------------------------------
(* The answers of GetProof.                                                *)

\* Every step keeps what the answers given so far say about the requests.
LEMMA AnswerNext ==
    ASSUME TypeOK, ThreadInv, AnswerInv, [Next \/ proverEraseTorn]_vars
    PROVE  AnswerInv'
<1>1. CASE \E r \in Requests : GetProof(r)
  <2> PICK r \in Requests : GetProof(r)
    BY <1>1
  <2>1. /\ UNCHANGED <<submitted, bCompleted, requestsMap>>
        /\ \/ answer' = answer
           \/ r \in Range(submitted) /\ answer' = [answer EXCEPT ![r] = GetProofResult(r)]
    BY DEF GetProof, queues, requests
  <2>2. /\ GetProofResult(r) \in {"COMPLETED_OK", "COMPLETED_ERROR"} => r \in bCompleted
        /\ GetProofResult(r) = "ERROR" => r \notin requestsMap
    BY DEF GetProofResult
  <2> QED
    BY <2>1, <2>2 DEF AnswerInv, TypeOK
<1>2. CASE submitRequest
  <2>1. /\ clientRequest \notin Range(submitted)
        /\ requestsMap' = requestsMap \cup {clientRequest}
        /\ UNCHANGED <<submitted, bCompleted, answer>>
    BY <1>2 DEF submitRequest, ThreadInv, requests, history
  <2> QED
    BY <2>1 DEF AnswerInv
<1>3. CASE submitRequestPush \/ proverEraseTorn
  <2>1. clientRequest \in Requests /\ submitted' = Append(submitted, clientRequest)
    BY <1>3 DEF submitRequestPush, proverEraseTorn, ThreadInv
  <2>2. Range(submitted) \subseteq Range(submitted')
    BY <2>1, AppendRange DEF TypeOK
  <2>3. UNCHANGED <<bCompleted, requestsMap, answer>>
    BY <1>3 DEF submitRequestPush, proverEraseTorn, requests
  <2> QED
    BY <2>2, <2>3 DEF AnswerInv
<1>4. CASE notifyCompleted
  <2>1. /\ bCompleted \subseteq bCompleted'
        /\ UNCHANGED <<submitted, requestsMap, answer>>
    BY <1>4 DEF notifyCompleted, queues, history
  <2> QED
    BY <2>1 DEF AnswerInv
<1>5. CASE cleanerDelete
  <2>1. /\ requestsMap' \subseteq requestsMap
        /\ UNCHANGED <<submitted, bCompleted, answer>>
    BY <1>5 DEF cleanerDelete, requests, history
  <2> QED
    BY <2>1 DEF AnswerInv
<1>6. CASE UNCHANGED <<submitted, bCompleted, requestsMap, answer>>
  BY <1>6 DEF AnswerInv
<1>7. CASE \/ \E r \in Requests : Gen(r, Kind[r]) \/ Cancel(r)
           \/ GetStatus \/ GetStatusCurrent \/ GetStatusPending
           \/ submitRequestPost \/ clientUnlock
  BY <1>6, <1>7 DEF Gen, Cancel, GetStatus, GetStatusCurrent, GetStatusPending,
     submitRequestPost, clientUnlock, queues,
     requests, history
<1>8. CASE \/ proverLock \/ proverFirst \/ proverWait \/ proverCheck \/ proverErase
           \/ proverUnlock \/ proverProcess \/ proverRelock \/ proverComplete
  BY <1>6, <1>8 DEF proverLock, proverFirst, proverWait, proverCheck, proverErase,
     proverUnlock, proverProcess, proverRelock, proverComplete, queues, requests, history
<1>9. CASE cleanerLock \/ cleanerUnlock
  BY <1>6, <1>9 DEF cleanerLock, cleanerUnlock, queues, requests, history
<1>10. CASE UNCHANGED vars
  BY <1>6, <1>10 DEF vars, queues, requests, history
<1> QED
  BY QueueCases, <1>1, <1>2, <1>3, <1>4, <1>5, <1>7, <1>8, <1>9, <1>10

\* Also with the data race, GetProof never contradicts an earlier answer.
THEOREM AnswersCorrect == TornSpec => []AnswerInv
<1>1. Init => AnswerInv
  BY DEF Init, AnswerInv
<1> QED
  BY <1>1, AnswerNext, ThreadsCorrect, PTL DEF TornSpec

\* An answer only moves forward: from pending to completed, and from there to
\* the error that says that the request was deleted.
LEMMA AnswerStep ==
    ASSUME TypeOK, AnswerInv, [Next \/ proverEraseTorn]_vars, NEW r \in Requests
    PROVE  Progress(answer'[r]) >= Progress(answer[r])
<1> DEFINE Answers == {"none", "PENDING", "COMPLETED_OK", "COMPLETED_ERROR", "ERROR"}
<1>a. answer[r] \in Answers
  BY DEF TypeOK
<1>b. /\ Progress("none") = 0 /\ Progress("PENDING") = 1
      /\ Progress("COMPLETED_OK") = 2 /\ Progress("COMPLETED_ERROR") = 2
      /\ Progress("ERROR") = 3
  BY DEF Progress
<1>1. CASE \E q \in Requests : GetProof(q)
  <2> PICK q \in Requests : GetProof(q)
    BY <1>1
  <2>1. CASE answer'[r] = answer[r]
    BY <1>a, <1>b, <2>1
  <2>2. CASE answer'[r] = GetProofResult(r)
    <3>1. GetProofResult(r) \in {"PENDING", "COMPLETED_OK", "COMPLETED_ERROR", "ERROR"}
      BY DEF GetProofResult
    <3>2. GetProofResult(r) = "PENDING" => r \in requestsMap /\ r \notin bCompleted
      BY DEF GetProofResult
    <3>3. GetProofResult(r) # "ERROR" => r \in requestsMap
      BY DEF GetProofResult
    <3>4. /\ answer[r] = "ERROR" => GetProofResult(r) = "ERROR"
          /\ answer[r] \in {"COMPLETED_OK", "COMPLETED_ERROR"} => GetProofResult(r) # "PENDING"
      BY <3>2, <3>3 DEF AnswerInv
    <3> QED
      BY <1>a, <1>b, <2>2, <3>1, <3>4
  <2> QED
    BY <2>1, <2>2 DEF GetProof, TypeOK
<1>2. CASE answer' = answer
  BY <1>a, <1>b, <1>2
<1>3. (\E q \in Requests : GetProof(q)) \/ answer' = answer
  <2>1. CASE Next \/ proverEraseTorn
    BY <2>1, QueueCases DEF Gen, Cancel, GetStatus, GetStatusCurrent, GetStatusPending,
     submitRequest, submitRequestPush,
       submitRequestPost, clientUnlock, proverLock, proverFirst, proverWait, proverCheck,
       proverErase, proverEraseTorn, proverUnlock, proverProcess, proverRelock,
       proverComplete, notifyCompleted, cleanerLock, cleanerDelete, cleanerUnlock, history
  <2> QED
    BY <2>1 DEF vars, history
<1> QED
  BY <1>1, <1>2, <1>3

-----------------------------------------------------------------------------
(* The order of the requests, without the data race.                       *)

\* Every step keeps the submitted requests in the order finished, current,
\* pending.
LEMMA OrderNext ==
    ASSUME TypeOK, ThreadInv, OrderInv, [Next]_vars
    PROVE  OrderInv'
<1> DEFINE n == Len(finished)
           m == Len(pendingRequests)
<1>a. n \in Nat /\ m \in Nat /\ Len(submitted) \in Nat /\ Taken \in {0, 1}
  BY DEF TypeOK, Taken
<1>1. CASE submitRequestPush
  <2>1. /\ clientRequest \in Requests
        /\ pendingRequests' = Append(pendingRequests, clientRequest)
        /\ submitted' = Append(submitted, clientRequest)
        /\ UNCHANGED <<finished, pCurrentRequest, proverPc>>
    BY <1>1 DEF submitRequestPush, ThreadInv, prover
  <2>2. /\ Len(pendingRequests') = m + 1 /\ Len(submitted') = Len(submitted) + 1
        /\ \A i \in 1..m : pendingRequests'[i] = pendingRequests[i]
        /\ pendingRequests'[m + 1] = clientRequest
        /\ \A i \in 1..Len(submitted) : submitted'[i] = submitted[i]
        /\ submitted'[Len(submitted) + 1] = clientRequest
    BY <2>1 DEF TypeOK
  <2>3. Taken' = Taken /\ (Working' <=> Working)
    BY <2>1 DEF Taken, Working
  <2>4. Working => Taken = 1
    BY DEF Taken
  <2>5. \A i \in 1..n : finished'[i] = submitted'[i]
    BY <1>a, <2>1, <2>2 DEF OrderInv
  <2>6. Working' => pCurrentRequest' = submitted'[Len(finished') + 1]
    BY <1>a, <2>1, <2>2, <2>3, <2>4 DEF OrderInv
  <2>7. ASSUME NEW i \in 1..(m + 1)
        PROVE  pendingRequests'[i] = submitted'[n + Taken + i]
    <3>1. CASE i \in 1..m
      BY <1>a, <2>2, <3>1 DEF OrderInv
    <3>2. CASE i = m + 1
      BY <1>a, <2>2, <3>2 DEF OrderInv
    <3> QED
      BY <1>a, <3>1, <3>2
  <2>8. proverPc' = "erase" => pCurrentRequest' = pendingRequests'[1]
    <3>1. pendingRequests # <<>> => m > 0
      BY EmptySeq DEF TypeOK
    <3> QED
      BY <1>a, <2>1, <2>2, <3>1 DEF ThreadInv, OrderInv
  <2>9. Len(submitted') = Len(finished') + Taken' + Len(pendingRequests')
    BY <1>a, <2>1, <2>2, <2>3 DEF OrderInv
  <2>10. \A i \in 1..Len(pendingRequests') :
            pendingRequests'[i] = submitted'[Len(finished') + Taken' + i]
    BY <2>1, <2>2, <2>3, <2>7
  <2> QED
    BY <2>1, <2>5, <2>6, <2>8, <2>9, <2>10 DEF OrderInv
<1>2. CASE proverCheck
  <2>1. /\ proverPc = "check"
        /\ \/ proverPc' = "top"
           \/ /\ proverPc' = "erase" /\ pendingRequests # <<>>
              /\ pCurrentRequest' = Head(pendingRequests)
        /\ UNCHANGED <<pendingRequests, submitted, finished>>
    BY <1>2 DEF proverCheck, history
  <2>2. pendingRequests # <<>> => Head(pendingRequests) = pendingRequests[1]
    BY TailRange DEF TypeOK
  <2> QED
    BY <2>1, <2>2 DEF OrderInv, Taken, Working
<1>3. CASE proverErase
  <2>1. /\ proverPc = "erase" /\ proverPc' = "release"
        /\ pendingRequests # <<>> /\ pendingRequests' = Tail(pendingRequests)
        /\ UNCHANGED <<pCurrentRequest, submitted, finished>>
    BY <1>3 DEF proverErase, ThreadInv, history
  <2>2. /\ m > 0 /\ Len(pendingRequests') = m - 1
        /\ \A i \in 1..(m - 1) : pendingRequests'[i] = pendingRequests[i + 1]
    BY <1>a, <2>1, HeadTailProperties, EmptySeq DEF TypeOK
  <2>3. Taken = 0 /\ Taken' = 1 /\ Working' /\ proverPc' # "erase"
    BY <2>1 DEF Taken, Working
  <2>4. pCurrentRequest = submitted[n + 1]
    BY <1>a, <2>1, <2>2, <2>3 DEF OrderInv
  <2>5. ASSUME NEW i \in 1..(m - 1)
        PROVE  pendingRequests'[i] = submitted[n + 1 + i]
    <3>1. i + 1 \in 1..m /\ n + 0 + (i + 1) = n + 1 + i
      BY <1>a, <2>2
    <3> QED
      BY <2>2, <2>3, <3>1 DEF OrderInv
  <2>6. Len(submitted') = Len(finished') + Taken' + Len(pendingRequests')
    <3>1. Len(submitted) = n + 0 + m
      BY <2>3 DEF OrderInv
    <3>2. n + 0 + m = n + 1 + (m - 1)
      BY <1>a, SMT
    <3> QED
      BY <2>1, <2>2, <2>3, <3>1, <3>2
  <2>7. \A i \in 1..Len(pendingRequests') :
           pendingRequests'[i] = submitted'[Len(finished') + Taken' + i]
    BY <1>a, <2>1, <2>2, <2>3, <2>5
  <2> QED
    BY <1>a, <2>1, <2>3, <2>4, <2>6, <2>7 DEF OrderInv
<1>4. CASE proverComplete
  <2>1. /\ Working /\ proverPc' = "notify"
        /\ finished' = Append(finished, pCurrentRequest)
        /\ UNCHANGED <<pendingRequests, submitted>>
    BY <1>4 DEF proverComplete, Working
  <2>2. pCurrentRequest \in Requests
    BY <2>1 DEF ThreadInv, TypeOK, Range
  <2>3. /\ Len(finished') = n + 1
        /\ \A i \in 1..n : finished'[i] = finished[i]
        /\ finished'[n + 1] = pCurrentRequest
    BY <2>1, <2>2 DEF TypeOK
  <2>4. Taken = 1 /\ Taken' = 0 /\ ~Working' /\ proverPc' # "erase"
    BY <2>1 DEF Taken, Working
  <2> QED
    BY <1>a, <2>1, <2>3, <2>4 DEF OrderInv
<1>5. CASE /\ UNCHANGED <<pendingRequests, pCurrentRequest, submitted, finished>>
           /\ Working' <=> Working
           /\ proverPc' = "erase" => proverPc = "erase"
  BY <1>5 DEF OrderInv, Taken
<1>6. CASE \/ \E r \in Requests : Gen(r, Kind[r]) \/ Cancel(r) \/ GetProof(r)
           \/ GetStatus \/ GetStatusCurrent \/ GetStatusPending
           \/ submitRequest \/ submitRequestPost \/ clientUnlock
  BY <1>5, <1>6 DEF Gen, Cancel, GetProof, GetStatus, GetStatusCurrent, GetStatusPending,
     submitRequest, submitRequestPost,
     clientUnlock, queues, prover, history, Working
<1>7. CASE \/ proverLock \/ proverFirst \/ proverWait \/ proverUnlock \/ proverProcess
           \/ proverRelock \/ notifyCompleted
  BY <1>5, <1>7 DEF proverLock, proverFirst, proverWait, proverUnlock, proverProcess,
     proverRelock, notifyCompleted, queues, history, Working
<1>8. CASE cleanerLock \/ cleanerDelete \/ cleanerUnlock
  BY <1>5, <1>8 DEF cleanerLock, cleanerDelete, cleanerUnlock, queues, prover, history, Working
<1>9. CASE UNCHANGED vars
  BY <1>5, <1>9 DEF vars, queues, prover, history, Working
<1> QED
  BY QueueCases, <1>1, <1>2, <1>3, <1>4, <1>6, <1>7, <1>8, <1>9

\* The submitted requests are the finished ones, the current one and the
\* pending ones, in this order.
THEOREM OrderCorrect == Spec => []OrderInv
<1>1. Init => OrderInv
  BY EmptySeq DEF Init, OrderInv, Taken, Working
<1> QED
  BY <1>1, OrderNext, ThreadsCorrect, SpecIsTorn, PTL DEF Spec

\* Requests are computed in the order of their submission, each one once.
THEOREM InOrder == Spec => []FirstInFirstOut
<1>1. ASSUME TypeOK, ThreadInv, OrderInv
      PROVE  FirstInFirstOut
  <2>1. /\ Len(finished) \in Nat /\ Len(submitted) \in Nat
        /\ Len(finished) <= Len(submitted)
        /\ DOMAIN finished = 1..Len(finished) /\ DOMAIN submitted = 1..Len(submitted)
        /\ \A i \in 1..Len(finished) : finished[i] = submitted[i] /\ finished[i] \in Requests
    BY <1>1 DEF TypeOK, OrderInv, Taken
  <2>2. SubSeq(finished, 1, Len(finished)) = SubSeq(submitted, 1, Len(finished))
    <3> DEFINE k == Len(finished)
               s == SubSeq(finished, 1, k)
               t == SubSeq(submitted, 1, k)
    <3>1. s \in Seq(Requests) /\ Len(s) = k /\ \A i \in 1..k : s[i] = finished[i]
      BY <2>1, SubSeqProperties
    <3>2. t \in Seq(Requests) /\ Len(t) = k /\ \A i \in 1..k : t[i] = submitted[i]
      BY <2>1, SubSeqProperties
    <3> QED
      BY <2>1, <3>1, <3>2, SeqEqual
  <2>3. IsInjective(finished)
    BY <1>1, <2>1 DEF ThreadInv, IsInjective
  <2> QED
    BY <2>1, <2>2, <2>3 DEF FirstInFirstOut, IsPrefix
<1> QED
  BY <1>1, OrderCorrect, ThreadsCorrect, SpecIsTorn, PTL

\* While GetStatus looks, no step adds to the queue, and the prover thread only
\* takes from it.
LEMMA StatusNext ==
    ASSUME TypeOK, ThreadInv, StatusInv, [Next]_vars
    PROVE  StatusInv'
<1> USE DEF StatusInv
<1>1. CASE GetStatus
  BY <1>1 DEF GetStatus, queues
<1>2. CASE GetStatusCurrent
  BY <1>2 DEF GetStatusCurrent, queues, history
<1>3. CASE proverCheck
  <2>1. CASE pendingRequests = <<>>
    BY <1>3, <2>1 DEF proverCheck, client, history
  <2>2. CASE pendingRequests # <<>>
    <3>1. /\ pCurrentRequest' = Head(pendingRequests)
          /\ UNCHANGED <<pendingRequests, client, history>>
      BY <1>3, <2>2 DEF proverCheck
    <3>2. Head(pendingRequests) \in Range(pendingRequests)
      BY <2>2, TailRange DEF TypeOK
    <3> QED
      BY <3>1, <3>2 DEF client, history
  <2> QED
    BY <2>1, <2>2
<1>4. CASE proverErase
  <2>1. /\ pendingRequests' = Tail(pendingRequests)
        /\ UNCHANGED <<pCurrentRequest, clientPc, queuedAtCall>>
    BY <1>4 DEF proverErase, client, history
  <2>2. Range(Tail(pendingRequests)) \subseteq Range(pendingRequests)
    BY <1>4, TailRange DEF TypeOK, ThreadInv, proverErase
  <2> QED
    BY <2>1, <2>2
<1>5. CASE clientPc' \notin {"current", "pending"}
  BY <1>5
<1>6. CASE proverComplete
  BY <1>6 DEF proverComplete, client, history
<1>7. CASE UNCHANGED <<pendingRequests, pCurrentRequest, clientPc, queuedAtCall>>
  BY <1>7
<1>8. CASE \/ \E r \in Requests : Gen(r, Kind[r]) \/ Cancel(r) \/ GetProof(r)
           \/ GetStatusPending \/ submitRequest \/ submitRequestPush
           \/ submitRequestPost \/ clientUnlock
  BY <1>5, <1>8 DEF Gen, Cancel, GetProof, GetStatusPending, submitRequest,
     submitRequestPush, submitRequestPost, clientUnlock
<1>9. CASE \/ proverLock \/ proverFirst \/ proverWait \/ proverUnlock \/ proverProcess
           \/ proverRelock \/ notifyCompleted
           \/ cleanerLock \/ cleanerDelete \/ cleanerUnlock \/ UNCHANGED vars
  BY <1>7, <1>9 DEF proverLock, proverFirst, proverWait, proverUnlock, proverProcess,
     proverRelock, notifyCompleted, cleanerLock, cleanerDelete, cleanerUnlock, vars,
     queues, client, history
<1> QED
  BY QueueCases, <1>1, <1>2, <1>3, <1>4, <1>6, <1>8, <1>9

\* StatusInv holds in every reachable state of the threads without the race.
THEOREM StatusCorrect == Spec => []StatusInv
<1>1. Init => StatusInv
  BY DEF Init, StatusInv
<1> QED
  BY <1>1, StatusNext, ThreadsCorrect, SpecIsTorn, PTL DEF Spec

\* When STATUS_IDLE is answered every submitted request is completed, or it is
\* the one that the prover thread took from the queue between the two looks.
THEOREM IdleIsDone == Spec => []IdleMeansDone
<1>1. ASSUME TypeOK, ThreadInv, OrderInv, StatusInv, StatusIdle,
             NEW r \in Range(submitted) \ Range(finished)
      PROVE  r = pCurrentRequest /\ r \in queuedAtCall
  <2>1. Len(pendingRequests) = 0
    BY <1>1, EmptySeq DEF StatusIdle
  <2>2. PICK i \in 1..Len(submitted) : r = submitted[i]
    <3>1. DOMAIN submitted = 1..Len(submitted)
      BY <1>1 DEF TypeOK
    <3> QED
      BY <3>1, Zenon DEF Range
  <2>3. i \notin 1..Len(finished)
    BY <1>1, <2>2 DEF OrderInv, TypeOK, Range
  <2>4. Len(submitted) = Len(finished) + Taken
    BY <1>1, <2>1 DEF OrderInv, Taken, TypeOK
  <2>5. Working /\ i = Len(finished) + 1
    BY <1>1, <2>2, <2>3, <2>4 DEF Taken, TypeOK
  <2>6. r = pCurrentRequest
    BY <1>1, <2>2, <2>5 DEF OrderInv
  <2>7. r # NULL
    BY <1>1, QueueAssumption DEF TypeOK, Range
  <2> QED
    BY <1>1, <2>6, <2>7 DEF StatusInv, StatusIdle
<1>2. TypeOK /\ ThreadInv /\ OrderInv /\ StatusInv => IdleMeansDone
  BY <1>1, Zenon DEF IdleMeansDone
<1> QED
  BY <1>2, OrderCorrect, StatusCorrect, ThreadsCorrect, SpecIsTorn, PTL

\* Every step keeps the requests that GetProof knows in one of the queues.
LEMMA AccountedNext ==
    ASSUME TypeOK, ThreadInv, OrderInv, RequestAccounted, [Next]_vars
    PROVE  RequestAccounted'
<1> USE DEF RequestAccounted
<1>1. CASE submitRequest
  BY <1>1 DEF submitRequest
<1>2. CASE submitRequestPush
  <2>1. /\ Range(pendingRequests') = Range(pendingRequests) \cup {clientRequest}
        /\ UNCHANGED <<pCurrentRequest, completedRequests, requestsMap>>
    BY <1>2, AppendRange DEF submitRequestPush, ThreadInv, TypeOK
  <2> QED
    BY <2>1
<1>3. CASE proverCheck
  <2>1. proverPc = "check"
    BY <1>3 DEF proverCheck
  <2>2. pCurrentRequest \notin requestsMap
    BY <2>1, QueueAssumption DEF ThreadInv, Working, TypeOK
  <2> QED
    BY <1>3, <2>2 DEF proverCheck, client
<1>4. CASE proverErase
  <2>1. /\ pendingRequests # <<>> /\ pendingRequests' = Tail(pendingRequests)
        /\ pCurrentRequest = pendingRequests[1]
        /\ UNCHANGED <<pCurrentRequest, completedRequests, requestsMap, clientPc, clientRequest>>
    BY <1>4 DEF proverErase, ThreadInv, OrderInv, client
  <2>2. Range(pendingRequests) = Range(pendingRequests') \cup {pCurrentRequest}
    BY <2>1, TailRange DEF TypeOK
  <2> QED
    BY <2>1, <2>2
<1>5. CASE proverComplete
  <2>1. /\ Working
        /\ completedRequests' = Append(completedRequests, pCurrentRequest)
        /\ UNCHANGED <<pendingRequests, requestsMap, clientPc, clientRequest>>
    BY <1>5 DEF proverComplete, Working, client
  <2>2. pCurrentRequest \in Requests
    BY <2>1 DEF ThreadInv, TypeOK, Range
  <2>3. Range(completedRequests') = Range(completedRequests) \cup {pCurrentRequest}
    BY <2>1, <2>2, AppendRange DEF TypeOK
  <2> QED
    BY <2>1, <2>3
<1>6. CASE cleanerDelete
  <2>1. /\ completedRequests # <<>> /\ completedRequests' = Tail(completedRequests)
        /\ requestsMap' = requestsMap \ {Head(completedRequests)}
        /\ UNCHANGED <<pendingRequests, pCurrentRequest, clientPc, clientRequest>>
    BY <1>6 DEF cleanerDelete, client
  <2>2. Range(completedRequests) = Range(completedRequests') \cup {Head(completedRequests)}
    BY <2>1, TailRange DEF TypeOK
  <2> QED
    BY <2>1, <2>2
<1>7. CASE /\ UNCHANGED <<pendingRequests, pCurrentRequest, completedRequests, requestsMap>>
           /\ clientPc # "push" \/ UNCHANGED <<clientPc, clientRequest>>
  BY <1>7
<1>8. CASE \/ \E r \in Requests : Gen(r, Kind[r]) \/ Cancel(r) \/ GetProof(r)
           \/ GetStatus \/ GetStatusCurrent \/ GetStatusPending
           \/ submitRequestPost \/ clientUnlock
  BY <1>7, <1>8 DEF Gen, Cancel, GetProof, GetStatus, GetStatusCurrent, GetStatusPending,
     submitRequestPost, clientUnlock, queues
<1>9. CASE \/ proverLock \/ proverFirst \/ proverWait \/ proverUnlock \/ proverProcess
           \/ proverRelock \/ notifyCompleted \/ cleanerLock \/ cleanerUnlock
  BY <1>7, <1>9 DEF proverLock, proverFirst, proverWait, proverUnlock, proverProcess,
     proverRelock, notifyCompleted, cleanerLock, cleanerUnlock, queues, client
<1>10. CASE UNCHANGED vars
  BY <1>7, <1>10 DEF vars, queues, client
<1> QED
  BY QueueCases, <1>1, <1>2, <1>3, <1>4, <1>5, <1>6, <1>8, <1>9, <1>10

\* As long as erase and push_back do not run at the same time no request is
\* lost, although the prover thread erases without the mutex.
THEOREM Accounted == Spec => []RequestAccounted
<1>1. Init => RequestAccounted
  BY DEF Init, RequestAccounted
<1> QED
  BY <1>1, AccountedNext, OrderCorrect, ThreadsCorrect, SpecIsTorn, PTL DEF Spec

-----------------------------------------------------------------------------
(* Aggregator: the client thread that reads the stream, with the watchdog  *)
(* beside it, only ever takes steps of the queue (TornSpec, the queue with *)
(* its data race), so what is proved of that one holds there.              *)

\* A step of the process is a step of the queue or leaves the queue alone.
LEMMA StepOfQueue ==
    ASSUME [AggregatorNext]_allVars
    PROVE  [Next \/ proverEraseTorn]_vars
<1>1. CASE aggregatorClientThread
  <2>1. CASE dispatch \/ callStep \/ callReturn
    BY <2>1 DEF dispatch, callStep, callReturn, Next, Return
  <2>2. CASE \/ exitMaxStreams \/ openChannel \/ channelBroken \/ readMessage
             \/ dispatchInvalid \/ writeMessage
    BY <2>2 DEF exitMaxStreams, openChannel, channelBroken, readMessage,
       dispatchInvalid, writeMessage
  <2> QED
    BY <1>1, <2>1, <2>2 DEF aggregatorClientThread
<1>2. CASE OtherThreads
  BY <1>2 DEF OtherThreads, Next
<1>3. CASE watchdogThread \/ passTime \/ UNCHANGED allVars
  BY <1>3 DEF watchdogThread, passTime, allVars
<1> QED
  BY <1>1, <1>2, <1>3 DEF AggregatorNext

\* The process implements the queue with its data race: whatever streams are
\* opened, broken and opened again, and whenever the watchdog looks, the queue
\* sees nothing but the calls of one client, one after the other.
THEOREM AggregatorRunsQueue == AggregatorSpec => TornSpec
<1>1. AggregatorInit => Init
  BY DEF AggregatorInit
<1> QED
  BY <1>1, StepOfQueue, PTL DEF AggregatorSpec, TornSpec

\* Every step keeps StreamInv: start, restart and stop are called in turn.
LEMMA StreamNext ==
    ASSUME StreamInv, [AggregatorNext]_allVars
    PROVE  StreamInv'
<1>1. CASE AggregatorNext /\ dispatch
  <2>1. clientPc' # "idle"
    BY <1>1 DEF dispatch, Call, GenBatchProof, GenStatelessBatchProof, GenAggregatedProof,
       GenFinalProof, Gen, Cancel, GetProof, GetStatus
  <2> QED
    BY <1>1, <2>1 DEF dispatch, StreamInv, watchdog
<1>2. CASE AggregatorNext /\ callStep
  <2>1. clientPc # "idle" /\ clientPc' # "idle"
    BY <1>2 DEF callStep, CallStep, submitRequest, submitRequestPush, submitRequestPost,
       GetStatusCurrent, GetStatusPending
  <2> QED
    BY <1>2, <2>1 DEF callStep, StreamInv, stream, watchdog
<1>3. CASE AggregatorNext /\ callReturn
  BY <1>3 DEF callReturn, clientUnlock, restart, misuse, StreamInv, watchdog
<1>4. CASE /\ AggregatorNext
           /\ \/ exitMaxStreams \/ openChannel \/ channelBroken \/ readMessage
              \/ dispatchInvalid \/ writeMessage
  <2>1. UNCHANGED clientPc
    BY <1>4 DEF exitMaxStreams, openChannel, channelBroken, readMessage, dispatchInvalid,
       writeMessage, vars, client
  <2>2. CASE exitMaxStreams
    BY <2>1, <2>2 DEF exitMaxStreams, StreamInv, stream, watchdog
  <2>3. CASE openChannel
    BY <1>4, <2>1, <2>3 DEF openChannel, start, misuse, StreamInv, AggregatorNext
  <2>4. CASE channelBroken
    BY <1>4, <2>1, <2>4 DEF channelBroken, stop, misuse, StreamInv, AggregatorNext
  <2>5. CASE readMessage \/ dispatchInvalid \/ writeMessage
    BY <1>4, <2>1, <2>5 DEF readMessage, dispatchInvalid, writeMessage, restart, misuse,
       StreamInv, AggregatorNext
  <2> QED
    BY <1>4, <2>2, <2>3, <2>4, <2>5
<1>5. CASE OtherThreads
  <2>1. UNCHANGED clientPc \/ (clientPc = "push" /\ clientPc' = "post")
    BY <1>5 DEF OtherThreads, Prover, Cleaner, proverLock, proverFirst, proverWait,
       proverCheck, proverErase, proverUnlock, proverProcess, proverRelock, proverComplete,
       notifyCompleted, proverEraseTorn, cleanerLock, cleanerDelete, cleanerUnlock, client
  <2>2. UNCHANGED <<stream, watchdog, exited>>
    BY <1>5 DEF OtherThreads
  <2> QED
    BY <2>1, <2>2 DEF StreamInv, stream, watchdog
<1>6. CASE watchdogThread \/ passTime \/ UNCHANGED allVars
  BY <1>6 DEF watchdogThread, passTime, allVars, vars, client, stream, watchdog, StreamInv
<1> QED
  BY <1>1, <1>2, <1>3, <1>4, <1>5, <1>6 DEF AggregatorNext, aggregatorClientThread

\* While the process lives, the watchdog runs exactly while a stream is open
\* and a call is under way exactly while the thread is in it.
THEOREM StreamCorrect == AggregatorSpec => []StreamInv
<1>1. AggregatorInit => StreamInv
  BY DEF AggregatorInit, Init, StreamInv
<1> QED
  BY <1>1, StreamNext, PTL DEF AggregatorSpec

\* The process never ends because the watchdog is called out of turn.
THEOREM WatchdogInTurn == AggregatorSpec => []WatchdogNotMisused
<1>1. StreamInv => WatchdogNotMisused
  BY DEF StreamInv, WatchdogNotMisused
<1> QED
  BY <1>1, StreamCorrect, PTL

\* The answers of GetProof that the aggregator sees never go back, with the
\* data race on the vector of pending requests and over broken streams.
THEOREM AnswersNeverGoBack == AggregatorSpec => DeliveredAnswersNeverGoBack
<1>1. ASSUME TypeOK, AnswerInv, [AggregatorNext]_allVars
      PROVE  [\A r \in Requests : Progress(answer'[r]) >= Progress(answer[r])]_allVars
  <2>1. [Next \/ proverEraseTorn]_vars
    BY <1>1, StepOfQueue
  <2> QED
    BY <1>1, <2>1, AnswerStep
<1>2. AggregatorSpec => [](TypeOK /\ AnswerInv)
  BY AggregatorRunsQueue, ThreadsCorrect, AnswersCorrect, PTL
<1> QED
  BY <1>1, <1>2, PTL DEF AggregatorSpec, DeliveredAnswersNeverGoBack
============================================================================
