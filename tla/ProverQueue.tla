---------------------------- MODULE ProverQueue ----------------------------
(***************************************************************************)
(* The request queue of the prover (prover/prover.cpp) and the three       *)
(* threads that share it: proverThread, cleanerThread, and the thread of   *)
(* the aggregator client (service/aggregator), which serves one message of *)
(* the aggregator at a time.                                               *)
(*                                                                         *)
(* Prover::mutex is a default pthread mutex.  proverThread does not lock   *)
(* it again after sem_wait, so it works on the queue without it, and its   *)
(* unlock() then releases the mutex whoever holds it: the mutex is modelled*)
(* by its holder, and unlock() frees it unconditionally.  Every access to a*)
(* vector between two points where another thread may run is a step.       *)
(*                                                                         *)
(* A request is named by its uuid; its input and its proof are left out.   *)
(* Nothing is persisted, so a restart is an initial state.                 *)
(*                                                                         *)
(* An operator named mut... is a plausible fault of the definition after   *)
(* it; no specification uses it, mutation tests of the properties do.      *)
(***************************************************************************)
EXTENDS Naturals, Sequences, SequencesExt

CONSTANTS
    Requests,  \* uuids of the requests the aggregator will send
    Kind,      \* bound: the type of each of them
    Asked,     \* bound: requests it calls Cancel and GetProof for
    NULL       \* the null pointer

Types == {"genBatchProof", "genAggregatedProof", "genFinalProof"}

ASSUME QueueAssumption ==
    /\ NULL \notin Requests
    /\ Kind \in [Requests -> Types]
    /\ Asked \subseteq Requests

VARIABLES
    mutex,              \* holder of Prover::mutex, or "free"
    pendingRequests, pCurrentRequest, completedRequests, requestsMap,
    pendingRequestSem, lastComputedRequestId,
    \* fields of the requests
    type, result, bCompleted, bCancelling,
    \* the threads: where they are, and the request they work on
    proverPc, pProverRequest, cleanerPc, clientPc, clientRequest,
    \* history: requests in the order of submission and of completion, the
    \* last answer of GetProof about each of them, and those in the queue when
    \* the call of GetStatus under way took the lock
    submitted, finished, answer, queuedAtCall

queues   == <<pendingRequests, pCurrentRequest, completedRequests, requestsMap,
              lastComputedRequestId>>
requests == <<type, result, bCompleted, bCancelling>>
prover   == <<proverPc, pProverRequest>>
client   == <<clientPc, clientRequest>>
history  == <<submitted, finished, answer, queuedAtCall>>
vars == <<mutex, queues, pendingRequestSem, requests, prover, cleanerPc, client, history>>

-----------------------------------------------------------------------------
lock(thread) == mutex = "free" /\ mutex' = thread
unlock == mutex' = "free"

Init ==
    /\ mutex = "free"
    /\ pendingRequests = <<>> /\ pCurrentRequest = NULL
    /\ completedRequests = <<>> /\ requestsMap = {}
    /\ pendingRequestSem = 0 /\ lastComputedRequestId = NULL
    /\ type = [r \in Requests |-> "none"]
    /\ result = [r \in Requests |-> "unspecified"]
    /\ bCompleted = {} /\ bCancelling = {}
    /\ proverPc = "top" /\ pProverRequest = NULL
    /\ cleanerPc = "sleep"
    /\ clientPc = "idle" /\ clientRequest = NULL
    /\ submitted = <<>> /\ finished = <<>>
    /\ answer = [r \in Requests |-> "none"]
    /\ queuedAtCall = {}

-----------------------------------------------------------------------------
(* Messages of the aggregator.  Each call takes the lock, works, and       *)
(* releases it; an answer that is lost with the channel changes nothing.   *)

\* A Gen...Proof call creates a request and submits it.  Calls with invalid
\* input return an error before they touch the queue.
Gen(r, t) ==
    /\ clientPc = "idle"
    /\ type[r] = "none"
    /\ t = Kind[r]
    /\ type' = [type EXCEPT ![r] = t]
    /\ clientPc' = "submit"
    /\ clientRequest' = r
    /\ UNCHANGED <<mutex, queues, pendingRequestSem, result, bCompleted, bCancelling,
                   prover, cleanerPc, history>>

GenBatchProof(r) == Gen(r, "genBatchProof")
GenStatelessBatchProof(r) == Gen(r, "genBatchProof")
GenAggregatedProof(r) == Gen(r, "genAggregatedProof")
GenFinalProof(r) == Gen(r, "genFinalProof")

\* submitRequest, up to the push_back (or into the middle of it).
submitRequest ==
    /\ clientPc = "submit"
    /\ lock("client")
    /\ requestsMap' = requestsMap \cup {clientRequest}
    /\ clientPc' = "push"
    /\ UNCHANGED <<pendingRequests, pCurrentRequest, completedRequests,
                   lastComputedRequestId, pendingRequestSem, requests, prover,
                   cleanerPc, clientRequest, history>>

submitRequestPush ==
    /\ clientPc = "push"
    /\ pendingRequests' = Append(pendingRequests, clientRequest)
    /\ submitted' = Append(submitted, clientRequest)
    /\ clientPc' = "post"
    /\ UNCHANGED <<mutex, pCurrentRequest, completedRequests, requestsMap,
                   lastComputedRequestId, pendingRequestSem, requests, prover,
                   cleanerPc, clientRequest, finished, answer, queuedAtCall>>

mutNoPost ==
    /\ clientPc = "post"
    /\ clientPc' = "unlock"
    /\ UNCHANGED <<mutex, queues, pendingRequestSem, requests, prover, cleanerPc,
                   clientRequest, history>>

submitRequestPost ==
    /\ clientPc = "post"
    /\ pendingRequestSem' = pendingRequestSem + 1
    /\ clientPc' = "unlock"
    /\ UNCHANGED <<mutex, queues, requests, prover, cleanerPc, clientRequest, history>>

\* Cancel: unknown and completed requests are refused.
Cancel(r) ==
    /\ clientPc = "idle"
    /\ lock("client")
    /\ bCancelling' = IF r \in requestsMap /\ r \notin bCompleted
                      THEN bCancelling \cup {r} ELSE bCancelling
    /\ clientPc' = "unlock"
    /\ UNCHANGED <<queues, pendingRequestSem, type, result, bCompleted, prover,
                   cleanerPc, clientRequest, history>>

mutGetProofUnknownIsPending(r) ==
    IF r \notin requestsMap THEN "PENDING"
    ELSE IF r \notin bCompleted THEN "PENDING"
    ELSE IF result[r] = "success" THEN "COMPLETED_OK" ELSE "COMPLETED_ERROR"

\* What GetProof answers about a request.
GetProofResult(r) ==
    IF r \notin requestsMap THEN "ERROR"
    ELSE IF r \notin bCompleted THEN "PENDING"
    ELSE IF result[r] = "success" THEN "COMPLETED_OK" ELSE "COMPLETED_ERROR"

GetProof(r) ==
    /\ clientPc = "idle"
    /\ lock("client")
    /\ answer' = IF r \in Range(submitted)
                 THEN [answer EXCEPT ![r] = GetProofResult(r)] ELSE answer
    /\ clientPc' = "unlock"
    /\ UNCHANGED <<queues, pendingRequestSem, requests, prover, cleanerPc,
                   clientRequest, submitted, finished, queuedAtCall>>

\* GetStatus looks at pCurrentRequest and then at pendingRequests, two accesses
\* between which the prover thread may run.  (A third one, for the id of the
\* current request, does not change the status.)
GetStatus ==
    /\ clientPc = "idle"
    /\ lock("client")
    /\ queuedAtCall' = Range(pendingRequests)
    /\ clientPc' = "current"
    /\ UNCHANGED <<queues, pendingRequestSem, requests, prover, cleanerPc,
                   clientRequest, submitted, finished, answer>>

GetStatusCurrent ==
    /\ clientPc = "current"
    /\ clientPc' = IF pCurrentRequest = NULL THEN "pending" ELSE "unlock"
    /\ UNCHANGED <<mutex, queues, pendingRequestSem, requests, prover, cleanerPc,
                   clientRequest, history>>

\* The second look answers STATUS_IDLE in the states where this holds.
StatusIdle == clientPc = "pending" /\ pendingRequests = <<>>

GetStatusPending ==
    /\ clientPc = "pending"
    /\ clientPc' = "unlock"
    /\ UNCHANGED <<mutex, queues, pendingRequestSem, requests, prover, cleanerPc,
                   clientRequest, history>>

clientUnlock ==
    /\ clientPc = "unlock"
    /\ unlock
    /\ clientPc' = "idle"
    /\ queuedAtCall' = {}
    /\ UNCHANGED <<queues, pendingRequestSem, requests, prover, cleanerPc,
                   clientRequest, submitted, finished, answer>>

-----------------------------------------------------------------------------
(* proverThread.                                                           *)

proverLock ==
    /\ proverPc = "top"
    /\ lock("prover")
    /\ proverPc' = "first"
    /\ UNCHANGED <<queues, pendingRequestSem, requests, pProverRequest, cleanerPc,
                   client, history>>

\* First look at the queue, with the mutex.
proverFirst ==
    /\ proverPc = "first"
    /\ \/ /\ pendingRequests = <<>>
          /\ unlock
          /\ proverPc' = "wait"
       \/ /\ pendingRequests # <<>>
          /\ UNCHANGED mutex
          /\ proverPc' = "check"
    /\ UNCHANGED <<queues, pendingRequestSem, requests, pProverRequest, cleanerPc,
                   client, history>>

proverWait ==
    /\ proverPc = "wait"
    /\ pendingRequestSem > 0
    /\ pendingRequestSem' = pendingRequestSem - 1
    /\ proverPc' = "check"
    /\ UNCHANGED <<mutex, queues, requests, pProverRequest, cleanerPc, client, history>>

mutTakeLast ==
    /\ proverPc = "check"
    /\ \/ /\ pendingRequests = <<>>
          /\ unlock
          /\ proverPc' = "top"
          /\ UNCHANGED pCurrentRequest
       \/ /\ pendingRequests # <<>>
          /\ pCurrentRequest' = Last(pendingRequests)
          /\ proverPc' = "erase"
          /\ UNCHANGED mutex
    /\ UNCHANGED <<pendingRequests, completedRequests, requestsMap,
                   lastComputedRequestId, pendingRequestSem, requests, pProverRequest,
                   cleanerPc, client, history>>

\* Second look, with the mutex or, after sem_wait, without it.
proverCheck ==
    /\ proverPc = "check"
    /\ \/ /\ pendingRequests = <<>>
          /\ unlock
          /\ proverPc' = "top"
          /\ UNCHANGED pCurrentRequest
       \/ /\ pendingRequests # <<>>
          /\ pCurrentRequest' = Head(pendingRequests)
          /\ proverPc' = "erase"
          /\ UNCHANGED mutex
    /\ UNCHANGED <<pendingRequests, completedRequests, requestsMap,
                   lastComputedRequestId, pendingRequestSem, requests, pProverRequest,
                   cleanerPc, client, history>>

proverErase ==
    /\ proverPc = "erase"
    /\ pendingRequests' = Tail(pendingRequests)
    /\ proverPc' = "release"
    /\ UNCHANGED <<mutex, pCurrentRequest, completedRequests, requestsMap,
                   lastComputedRequestId, pendingRequestSem, requests, pProverRequest,
                   cleanerPc, client, history>>

\* erase(begin()) in the middle of a push_back(): both write the end of the
\* vector, so each of the two changes may be lost.
proverEraseTorn ==
    /\ proverPc = "erase"
    /\ clientPc = "push"
    /\ pendingRequests' \in {Tail(pendingRequests), pendingRequests,
                             Append(pendingRequests, clientRequest)}
    /\ submitted' = Append(submitted, clientRequest)
    /\ proverPc' = "release"
    /\ clientPc' = "post"
    /\ UNCHANGED <<mutex, pCurrentRequest, completedRequests, requestsMap,
                   lastComputedRequestId, pendingRequestSem, requests, pProverRequest,
                   cleanerPc, clientRequest, finished, answer, queuedAtCall>>

proverUnlock ==
    /\ proverPc = "release"
    /\ unlock
    /\ proverPc' = "process"
    /\ UNCHANGED <<queues, pendingRequestSem, requests, pProverRequest, cleanerPc,
                   client, history>>

\* How the three computations may end, unless they end the process.
genBatchProof == {"success", "error"}       \* the executor's result
genAggregatedProof == {"success", "error"}  \* the two inputs may not fit together
genFinalProof == {"success"}

Outcomes(t) ==
    CASE t = "genBatchProof"      -> genBatchProof
      [] t = "genAggregatedProof" -> genAggregatedProof
      [] t = "genFinalProof"      -> genFinalProof

mutProcessClearsCurrent ==
    /\ proverPc = "process"
    /\ \E res \in Outcomes(type[pCurrentRequest]) :
          result' = [result EXCEPT ![pCurrentRequest] = res]
    /\ proverPc' = "relock"
    /\ pCurrentRequest' = NULL
    /\ UNCHANGED <<mutex, pendingRequests, completedRequests, requestsMap,
                   lastComputedRequestId, pendingRequestSem, type, bCompleted,
                   bCancelling, pProverRequest, cleanerPc, client, history>>

\* The computation itself: nobody looks at bCancelling.
proverProcess ==
    /\ proverPc = "process"
    /\ \E res \in Outcomes(type[pCurrentRequest]) :
          result' = [result EXCEPT ![pCurrentRequest] = res]
    /\ proverPc' = "relock"
    /\ UNCHANGED <<mutex, queues, pendingRequestSem, type, bCompleted, bCancelling,
                   pProverRequest, cleanerPc, client, history>>

proverRelock ==
    /\ proverPc = "relock"
    /\ lock("prover")
    /\ proverPc' = "complete"
    /\ UNCHANGED <<queues, pendingRequestSem, requests, pProverRequest, cleanerPc,
                   client, history>>

mutCompleteNotMoved ==
    /\ proverPc = "complete"
    /\ unlock
    /\ pProverRequest' = pCurrentRequest
    /\ lastComputedRequestId' = pCurrentRequest
    /\ pCurrentRequest' = NULL
    /\ finished' = Append(finished, pCurrentRequest)
    /\ proverPc' = "notify"
    /\ UNCHANGED <<pendingRequests, completedRequests, requestsMap, pendingRequestSem,
                   requests, cleanerPc, client, submitted, answer, queuedAtCall>>

\* Move to the completed requests, and unlock.
proverComplete ==
    /\ proverPc = "complete"
    /\ unlock
    /\ pProverRequest' = pCurrentRequest
    /\ lastComputedRequestId' = pCurrentRequest
    /\ completedRequests' = Append(completedRequests, pCurrentRequest)
    /\ pCurrentRequest' = NULL
    /\ finished' = Append(finished, pCurrentRequest)
    /\ proverPc' = "notify"
    /\ UNCHANGED <<pendingRequests, requestsMap, pendingRequestSem, requests, cleanerPc,
                   client, submitted, answer, queuedAtCall>>

notifyCompleted ==
    /\ proverPc = "notify"
    /\ bCompleted' = bCompleted \cup {pProverRequest}
    /\ proverPc' = "top"
    /\ UNCHANGED <<mutex, queues, pendingRequestSem, type, result, bCancelling,
                   pProverRequest, cleanerPc, client, history>>

-----------------------------------------------------------------------------
(* cleanerThread.  The completed requests are in the order of their end    *)
(* times, so those older than requestsPersistence are the first ones.  The *)
(* persistence is far longer than the time from a completion to its        *)
(* notification: only notified requests are old.                           *)

cleanerLock ==
    /\ cleanerPc = "sleep"
    /\ lock("cleaner")
    /\ cleanerPc' = "clean"
    /\ UNCHANGED <<queues, pendingRequestSem, requests, prover, client, history>>

cleanerDelete ==
    /\ cleanerPc = "clean"
    /\ completedRequests # <<>>
    /\ Head(completedRequests) \in bCompleted
    /\ completedRequests' = Tail(completedRequests)
    /\ requestsMap' = requestsMap \ {Head(completedRequests)}
    /\ UNCHANGED <<mutex, pendingRequests, pCurrentRequest, lastComputedRequestId,
                   pendingRequestSem, requests, prover, cleanerPc, client, history>>

cleanerUnlock ==
    /\ cleanerPc = "clean"
    /\ unlock
    /\ cleanerPc' = "sleep"
    /\ UNCHANGED <<queues, pendingRequestSem, requests, prover, client, history>>

-----------------------------------------------------------------------------
Call ==
    \/ \E r \in Requests :
          \/ GenBatchProof(r) \/ GenStatelessBatchProof(r)
          \/ GenAggregatedProof(r) \/ GenFinalProof(r)
    \/ \E r \in Asked : Cancel(r) \/ GetProof(r)
    \/ GetStatus

\* The rest of a call, up to its unlock.
CallStep ==
    \/ submitRequest \/ submitRequestPush \/ submitRequestPost
    \/ GetStatusCurrent \/ GetStatusPending

Return == CallStep \/ clientUnlock

Prover ==
    \/ proverLock \/ proverFirst \/ proverWait \/ proverCheck
    \/ proverErase \/ proverUnlock
    \/ proverProcess \/ proverRelock \/ proverComplete \/ notifyCompleted

Cleaner == cleanerLock \/ cleanerDelete \/ cleanerUnlock

Next == Call \/ Return \/ Prover \/ Cleaner

Spec == Init /\ [][Next]_vars

\* The threads with the data race on the vector of pending requests.
TornSpec == Init /\ [][Next \/ proverEraseTorn]_vars

\* No thread is starved.  The aggregator need not send anything, but a call
\* that has started returns; a computation ends; and between two messages of
\* the aggregator, and while the cleaner sleeps, the mutex is free for long
\* enough for the others to take it (strong fairness).
FairSpec == Spec /\ SF_vars(Prover) /\ SF_vars(Return) /\ WF_vars(cleanerUnlock)

-----------------------------------------------------------------------------
(* Properties.                                                             *)

RequestsOrNull == Requests \cup {NULL}

\* Every variable has its type.
TypeOK ==
    /\ mutex \in {"free", "prover", "client", "cleaner"}
    /\ pendingRequests \in Seq(Requests)
    /\ pCurrentRequest \in RequestsOrNull
    /\ completedRequests \in Seq(Requests)
    /\ requestsMap \in SUBSET Requests
    /\ pendingRequestSem \in Nat
    /\ lastComputedRequestId \in RequestsOrNull
    /\ type \in [Requests -> Types \cup {"none"}]
    /\ result \in [Requests -> {"unspecified", "success", "error"}]
    /\ bCompleted \in SUBSET Requests
    /\ bCancelling \in SUBSET Requests
    /\ proverPc \in {"top", "first", "wait", "check", "erase", "release",
                     "process", "relock", "complete", "notify"}
    /\ pProverRequest \in RequestsOrNull
    /\ cleanerPc \in {"sleep", "clean"}
    /\ clientPc \in {"idle", "submit", "push", "post", "current", "pending", "unlock"}
    /\ clientRequest \in RequestsOrNull
    /\ submitted \in Seq(Requests)
    /\ finished \in Seq(Requests)
    /\ queuedAtCall \in SUBSET Requests
    /\ answer \in [Requests -> {"none", "PENDING", "COMPLETED_OK", "COMPLETED_ERROR", "ERROR"}]

\* No request is lost: one that GetProof still knows is waiting in the queue,
\* being computed, or completed ("Mutex to protect the requests queues").
RequestAccounted ==
    \A r \in requestsMap :
        \/ r \in Range(pendingRequests)
        \/ r = pCurrentRequest
        \/ r \in Range(completedRequests)
        \/ r = clientRequest /\ clientPc = "push"

\* Requests are computed once each, in the order of their submission ("first
\* in, first out"), although the prover thread takes them without the mutex.
FirstInFirstOut == IsPrefix(finished, submitted) /\ IsInjective(finished)

\* When GetStatus answers STATUS_IDLE every submitted request is completed, but
\* for one at most: the request that was still in the queue when the call took
\* the lock, and that the prover thread took out of it, without the mutex, after
\* the call had looked at pCurrentRequest.  There is no other moment, between
\* the queue, the current request and the completed ones, in which a request is
\* in none of them.
IdleMeansDone ==
    StatusIdle =>
        \A r \in Range(submitted) \ Range(finished) :
            r = pCurrentRequest /\ r \in queuedAtCall

\* The prover thread never sleeps while a request waits: a request whose
\* sem_post is done is in the queue of a thread that is awake or will be.
NoLostWakeup ==
    proverPc = "wait" /\ pendingRequests # <<>>
        => pendingRequestSem > 0 \/ clientPc = "post"

\* How far a request has come, as the aggregator that polls GetProof sees it.
Progress(a) ==
    CASE a = "none"    -> 0
      [] a = "PENDING" -> 1
      [] a \in {"COMPLETED_OK", "COMPLETED_ERROR"} -> 2
      [] a = "ERROR"   -> 3

\* Every submitted request is eventually reported as completed.
EventuallyCompleted ==
    \A r \in Requests : r \in requestsMap ~> r \in bCompleted

-----------------------------------------------------------------------------
(* The inductive invariants behind the safety properties (proved in        *)
(* ProverQueueProofs for every value of the constants).                    *)

\* The prover thread has taken a request out of the queue.
Working == proverPc \in {"release", "process", "relock", "complete"}

\* What the threads rely on, with the data race of erase and push_back too:
\* the prover thread only meets requests that were submitted, each request is
\* submitted once, and erase never runs on an empty queue.
ThreadInv ==
    /\ clientPc \in {"submit", "push"} => /\ clientRequest \in Requests
                                          /\ type[clientRequest] # "none"
                                          /\ clientRequest \notin Range(submitted)
    /\ IsInjective(submitted)
    /\ \A r \in Range(submitted) : type[r] # "none"
    /\ Range(pendingRequests) \subseteq Range(submitted)
    /\ IF Working \/ proverPc = "erase" THEN pCurrentRequest \in Range(submitted)
                                        ELSE pCurrentRequest = NULL
    /\ proverPc = "erase" => pendingRequests # <<>>
    /\ proverPc = "notify" => pProverRequest \in Requests

\* What the answers given so far say about the requests now.
AnswerInv ==
    \A r \in Requests :
        /\ answer[r] # "none" => r \in Range(submitted)
        /\ answer[r] \in {"COMPLETED_OK", "COMPLETED_ERROR"} => r \in bCompleted
        /\ answer[r] = "ERROR" => r \notin requestsMap

\* Without the data race: the submitted requests are the finished ones, the
\* current one and the pending ones, in this order.
Taken == IF Working THEN 1 ELSE 0

\* While GetStatus looks, the queue only shrinks, and the request that the
\* prover thread takes after its first look comes from the queue.
StatusInv ==
    /\ clientPc \in {"current", "pending"} => Range(pendingRequests) \subseteq queuedAtCall
    /\ clientPc = "pending" /\ pCurrentRequest # NULL => pCurrentRequest \in queuedAtCall

OrderInv ==
    /\ Len(submitted) = Len(finished) + Taken + Len(pendingRequests)
    /\ \A i \in 1..Len(finished) : finished[i] = submitted[i]
    /\ Working => pCurrentRequest = submitted[Len(finished) + 1]
    /\ \A i \in 1..Len(pendingRequests) :
          pendingRequests[i] = submitted[Len(finished) + Taken + i]
    /\ proverPc = "erase" => pCurrentRequest = pendingRequests[1]
=============================================================================
