----------------------------- MODULE Aggregator -----------------------------
(***************************************************************************)
(* The thread of the aggregator client (aggregatorClientThread, in         *)
(* service/aggregator/aggregator_client.cpp): the stream to the aggregator,*)
(* its reconnection, and the watchdog (utils/watchdog.cpp) that ends the   *)
(* process when the stream hangs.  The calls it dispatches are those of    *)
(* ProverQueue, on the queue the prover thread and the cleaner share.      *)
(*                                                                         *)
(* The clock is one bit: whether more than aggregatorClientWatchdogTimeout *)
(* has passed since the watchdog was last started or restarted.            *)
(***************************************************************************)
EXTENDS ProverQueue

CONSTANT aggregatorClientMaxStreams  \* 0 for no maximum

ASSUME StreamsAssumption == aggregatorClientMaxStreams \in Nat

VARIABLES
    streamPc,         \* where the thread is: connect, read, dispatch, call, write
    numberOfStreams,
    bStarted,         \* Watchdog::bStarted
    late,             \* TimeDiff(Watchdog::startTime) > Watchdog::timeout
    exited            \* why the process has ended, or "no"

stream   == <<streamPc, numberOfStreams>>
watchdog == <<bStarted, late>>
allVars  == <<vars, stream, watchdog, exited>>

AggregatorInit ==
    /\ Init
    /\ streamPc = "connect" /\ numberOfStreams = 0
    /\ bStarted = FALSE /\ late = FALSE
    /\ exited = "no"

-----------------------------------------------------------------------------
(* The watchdog.  A call out of turn ends the process.                     *)

misuse == exited' = "misuse" /\ UNCHANGED watchdog

start ==
    \/ bStarted /\ misuse
    \/ ~bStarted /\ bStarted' = TRUE /\ late' = FALSE /\ UNCHANGED exited

restart ==
    \/ ~bStarted /\ misuse
    \/ bStarted /\ late' = FALSE /\ UNCHANGED <<bStarted, exited>>

mutStopOnlyRestarts ==
    \/ ~bStarted /\ misuse
    \/ bStarted /\ late' = FALSE /\ UNCHANGED <<bStarted, exited>>

stop ==
    \/ ~bStarted /\ misuse
    \/ bStarted /\ bStarted' = FALSE /\ UNCHANGED <<late, exited>>

mutTimeoutPassedWhenStopped == ~bStarted /\ late

timeoutPassed == bStarted /\ late

\* The watchdog's own thread looks once a second.
watchdogThread ==
    /\ timeoutPassed
    /\ exited' = "watchdog"
    /\ UNCHANGED <<vars, stream, watchdog>>

passTime ==
    /\ bStarted /\ ~late
    /\ late' = TRUE
    /\ UNCHANGED <<vars, stream, bStarted, exited>>

-----------------------------------------------------------------------------
(* The stream.  The sleep of five seconds after a broken one is part of    *)
(* "connect".                                                              *)

maxStreamsReached ==
    /\ aggregatorClientMaxStreams > 0
    /\ numberOfStreams >= aggregatorClientMaxStreams

exitMaxStreams ==
    /\ streamPc = "connect"
    /\ maxStreamsReached
    /\ exited' = "streams"
    /\ UNCHANGED <<vars, stream, watchdog>>

openChannel ==
    /\ streamPc = "connect"
    /\ ~maxStreamsReached
    /\ numberOfStreams' = numberOfStreams + 1
    /\ start
    /\ streamPc' = "read"
    /\ UNCHANGED vars

\* Read() or Write() fails: the stream is given up.
channelBroken ==
    /\ streamPc \in {"read", "write"}
    /\ stop
    /\ streamPc' = "connect"
    /\ UNCHANGED <<vars, numberOfStreams>>

readMessage ==
    /\ streamPc = "read"
    /\ restart
    /\ streamPc' = "dispatch"
    /\ UNCHANGED <<vars, numberOfStreams>>

dispatch ==
    /\ streamPc = "dispatch"
    /\ Call
    /\ streamPc' = "call"
    /\ UNCHANGED <<numberOfStreams, watchdog, exited>>

\* A message of an unknown type, or a Gen...Proof with an invalid input, is
\* answered without a call on the queue.
dispatchInvalid ==
    /\ streamPc = "dispatch"
    /\ restart
    /\ streamPc' = "write"
    /\ UNCHANGED <<vars, numberOfStreams>>

callStep ==
    /\ streamPc = "call"
    /\ CallStep
    /\ UNCHANGED <<stream, watchdog, exited>>

\* The call returns; the watchdog is restarted before the Write().
callReturn ==
    /\ streamPc = "call"
    /\ clientUnlock
    /\ restart
    /\ streamPc' = "write"
    /\ UNCHANGED numberOfStreams

writeMessage ==
    /\ streamPc = "write"
    /\ restart
    /\ streamPc' = "read"
    /\ UNCHANGED <<vars, numberOfStreams>>

-----------------------------------------------------------------------------
aggregatorClientThread ==
    \/ exitMaxStreams \/ openChannel \/ channelBroken \/ readMessage
    \/ dispatch \/ dispatchInvalid \/ callStep \/ callReturn \/ writeMessage

\* proverEraseTorn completes a push_back of the call, in the same step.
OtherThreads ==
    /\ Prover \/ proverEraseTorn \/ Cleaner
    /\ UNCHANGED <<stream, watchdog, exited>>

AggregatorNext ==
    /\ exited = "no"
    /\ aggregatorClientThread \/ OtherThreads \/ watchdogThread \/ passTime

\* Time passes while the thread waits for the aggregator, and the watchdog's
\* thread runs.  The aggregator owes nothing: Read() and Write() may block
\* for ever, and so may a computation of the prover.
AggregatorSpec ==
    /\ AggregatorInit
    /\ [][AggregatorNext]_allVars
    /\ WF_allVars(exited = "no" /\ passTime)
    /\ WF_allVars(exited = "no" /\ watchdogThread)

-----------------------------------------------------------------------------
(* Properties.                                                             *)

\* On every path of the client's loops, through failing reads and writes and
\* reconnections, start, restart and stop are called in turn: the process
\* never ends by "called with bStarted=...".
WatchdogNotMisused == exited # "misuse"

Waiting == streamPc \in {"read", "write"}

\* A stream on which the aggregator neither sends nor receives does not hold
\* the client for ever: the call ends, or the watchdog ends the process.
HungChannelEnds == Waiting ~> ~Waiting \/ exited # "no"

\* The answers of GetProof that the aggregator sees never go back, whatever
\* streams break in between, as long as the process lives.
DeliveredAnswersNeverGoBack ==
    [][\A r \in Requests : Progress(answer'[r]) >= Progress(answer[r])]_allVars

-----------------------------------------------------------------------------
(* The inductive invariant behind WatchdogNotMisused (proved in            *)
(* AggregatorProofs).                                                      *)

\* While the process lives the watchdog runs exactly while a stream is open,
\* and a call on the queue is under way exactly when the stream thread is in
\* it: no broken stream leaves the mutex of the queue locked.
StreamInv ==
    /\ exited \in {"no", "watchdog", "streams"}
    /\ bStarted \in BOOLEAN
    /\ bStarted <=> streamPc # "connect"
    /\ streamPc = "call" <=> clientPc # "idle"
=============================================================================
