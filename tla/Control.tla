------------------------------- MODULE Control -------------------------------
(***************************************************************************)
(* agent.Control (agent/control.go): the handle through which any number of *)
(* goroutines steer one running Engine.  Every method body is one critical  *)
(* section of control.mu, hence one action here, except Steer, which        *)
(* enqueues in one section and interrupts the model turn in a second one.   *)
(*                                                                         *)
(* The engine goroutine is the sequence of calls Engine.RunMessages makes   *)
(* on the handle (agent/agent.go): take, acknowledge, beginTurn,            *)
(* updateTurnStarted, the model stream, the release of the turn, tool       *)
(* dispatch, continueOrSeal and finish.  What the model and the tools       *)
(* answer is a choice.  One early (streaming-overlap) tool call per turn is *)
(* kept, because Steer's decision to interrupt depends on it.               *)
(*                                                                         *)
(* Inputs are named by their sequence number (queuedInput.seq).             *)
(***************************************************************************)
EXTENDS Integers, Sequences, FiniteSetsExt, Functions

CONSTANTS
    Callers,        \* goroutines that hold the handle
    Sizes,          \* encoded sizes of the inputs they offer
    MaxQueue,       \* maxControlQueue
    MaxInputSize,   \* bytes of one input (1<<20)
    MaxQueueBytes,  \* bytes queued at once (4<<20)
    MaxTurns,       \* LoopInput.MaxIterations
    MaxRecoveries,  \* maxContextRecoveryAttempts - 1
    MaxInputs       \* bound on the inputs accepted, nextSeq

ASSUME ControlAssumption ==
    /\ Sizes \subseteq Nat \ {0}
    /\ MaxQueue \in Nat
    /\ MaxInputSize \in Nat
    /\ MaxQueueBytes \in Nat
    /\ MaxTurns \in Nat
    /\ MaxRecoveries \in Nat
    /\ MaxInputs \in Nat

VARIABLES
    accepting,   \* Control.accepting
    ctx,         \* Control.ctx: "none" before start, then "live" or "done"
    pending,     \* inputs of Send (and promoted follow-ups)
    steers,      \* inputs of Steer
    followups,   \* inputs of FollowUp
    inflight,    \* taken, not yet acknowledged
    bytes,       \* Control.bytes
    nextSeq,     \* Control.nextSeq
    kind,        \* kind[i]: the method that accepted input i
    size,        \* size[i]: queuedInput.size
    ack,         \* ack[i]: the state of queuedInput.ack
    turn,        \* Control.turn: installed or not, and its cancellation cause
    startedFlag, \* streamOverlapState.startedFlag of the current turn
    early,       \* the early tool call of the current turn
    attempt,     \* context-recovery attempt of the current turn
    turns,       \* model turns recorded as Steps
    result,      \* how the model stream ended
    caller,      \* per goroutine: between Steer's two critical sections or not
    pc,          \* the engine goroutine
    transcript,  \* inputs appended to the transcript, in order
    lostEffect   \* history: an early tool ran and its turn was discarded

queues == <<pending, steers, followups, inflight>>
admission == <<nextSeq, kind, size>>
engine == <<attempt, turns, result>>
overlap == <<startedFlag, early>>
vars == <<accepting, ctx, queues, bytes, admission, ack, turn, overlap, engine,
          caller, pc, transcript, lostEffect>>

Inputs == 1..MaxInputs
Kinds == {"none", "send", "steer", "followup"}
Acks == {"none", "open", "nil", "boundary", "closed"}
Causes == {"none", "steer", "canceled"}
PCs == {"idle", "top", "ready", "refused", "begin", "attempt", "stream", "join", "ended",
        "tools", "final", "sealed", "complete", "stop", "done"}
Earlies == {"none", "launched", "executed", "skipped"}

NoTurn == [active |-> FALSE, cause |-> "none"]

Init ==
    /\ accepting = FALSE
    /\ ctx = "none"
    /\ pending = << >> /\ steers = << >> /\ followups = << >> /\ inflight = << >>
    /\ bytes = 0
    /\ nextSeq = 0
    /\ kind = [i \in Inputs |-> "none"]
    /\ size = [i \in Inputs |-> 0]
    /\ ack = [i \in Inputs |-> "none"]
    /\ turn = NoTurn
    /\ startedFlag = FALSE
    /\ early = "none"
    /\ attempt = 0
    /\ turns = 0
    /\ result = "none"
    /\ caller = [c \in Callers |-> "idle"]
    /\ pc = "idle"
    /\ transcript = << >>
    /\ lostEffect = FALSE

-----------------------------------------------------------------------------
(* Operations on the handle's state. *)

QueueLen == Len(pending) + Len(steers) + Len(followups) + Len(inflight)

(* The bytes held by the inputs of the set S. *)
SizeOf(S) == MapThenSumSet(LAMBDA i : size[i], S)

(* interruptTurnLocked: the first cause of a context is the one that stays. *)
Interrupted(t) ==
    IF t.active /\ ~startedFlag /\ t.cause = "none"
    THEN [t EXCEPT !.cause = "steer"]
    ELSE t

(* control.turn.cancel(context.Canceled), or the parent context ending. *)
Cancelled(t) ==
    IF t.active /\ t.cause = "none" THEN [t EXCEPT !.cause = "canceled"] ELSE t

(* Mutant: corrections first, whatever their age. *)
mergeQueued_SteersFirst(first, second) == {first \o second}

(* mergeQueued: the two queues interleaved by sequence number. *)
mergeQueued(first, second) ==
    {m \in [1..(Len(first) + Len(second)) -> Range(first) \cup Range(second)] :
        /\ Range(m) = Range(first) \cup Range(second)
        /\ \A j, k \in DOMAIN m : j < k => m[j] < m[k]}

(* Answer every input of S with a, once, and close its channel. *)
Answer(S, a) == ack' = [i \in Inputs |-> IF i \in S THEN a ELSE ack[i]]

(* Mutant: what has been taken no longer counts. *)
WithinLimits_QueuedOnly(n) ==
    /\ QueueLen - Len(inflight) < MaxQueue
    /\ n <= MaxInputSize
    /\ bytes - SizeOf(Range(inflight)) + n <= MaxQueueBytes

(* enqueue's limits on the count, on one input and on the bytes held. *)
WithinLimits(n) ==
    /\ QueueLen < MaxQueue
    /\ n <= MaxInputSize
    /\ bytes + n <= MaxQueueBytes

(* Mutant: looks at Send's queue only. *)
HasInput_PendingOnly == pending # << >>

(* continueOrSeal: input that forces another model step. *)
HasInput == pending # << >> \/ steers # << >>

(* Mutant: follow-ups are forgotten. *)
Unsettled_NoFollowUps == UNION {Range(inflight), Range(steers), Range(pending)}

(* Everything finish still has to answer. *)
Unsettled == UNION {Range(inflight), Range(steers), Range(pending), Range(followups)}

-----------------------------------------------------------------------------
(* The callers. *)

(* enqueue: refused (no step) unless accepting under a live context and     *)
(* within the three limits; otherwise the next sequence number and an open  *)
(* acknowledgement.  The queue it is appended to is the caller's business.  *)
Enqueue(c, k, n) ==
    /\ caller[c] = "idle"
    /\ accepting /\ ctx = "live"
    /\ WithinLimits(n)
    /\ nextSeq < MaxInputs
    /\ nextSeq' = nextSeq + 1
    /\ kind' = [kind EXCEPT ![nextSeq'] = k]
    /\ size' = [size EXCEPT ![nextSeq'] = n]
    /\ ack' = [ack EXCEPT ![nextSeq'] = "open"]
    /\ bytes' = bytes + n
    /\ UNCHANGED <<accepting, ctx, inflight, turn, overlap, engine, pc, transcript, lostEffect>>

Send(c) ==
    \E n \in Sizes :
        /\ Enqueue(c, "send", n)
        /\ pending' = Append(pending, nextSeq')
        /\ UNCHANGED <<steers, followups, caller>>

FollowUp(c) ==
    \E n \in Sizes :
        /\ Enqueue(c, "followup", n)
        /\ followups' = Append(followups, nextSeq')
        /\ UNCHANGED <<pending, steers, caller>>

(* Steer, first critical section. *)
SteerEnqueue(c) ==
    \E n \in Sizes :
        /\ Enqueue(c, "steer", n)
        /\ steers' = Append(steers, nextSeq')
        /\ caller' = [caller EXCEPT ![c] = "interrupt"]
        /\ UNCHANGED <<pending, followups>>

(* Steer, second critical section: interruptTurnLocked on whatever turn is   *)
(* installed by now.                                                        *)
SteerInterrupt(c) ==
    /\ caller[c] = "interrupt"
    /\ turn' = Interrupted(turn)
    /\ caller' = [caller EXCEPT ![c] = "idle"]
    /\ UNCHANGED <<accepting, ctx, queues, bytes, admission, ack, overlap, engine, pc,
                   transcript, lostEffect>>

(* Cancel: closes the handle and cancels both contexts.  Before start there  *)
(* is no context to cancel and the call changes nothing.                    *)
Cancel(c) ==
    /\ caller[c] = "idle"
    /\ ctx = "live"
    /\ accepting' = FALSE
    /\ ctx' = "done"
    /\ turn' = Cancelled(turn)
    /\ UNCHANGED <<queues, bytes, admission, ack, overlap, engine, caller, pc,
                   transcript, lostEffect>>

-----------------------------------------------------------------------------
(* The execution's parent context expires: a deadline or the application.  *)
expire ==
    /\ ctx = "live"
    /\ ctx' = "done"
    /\ turn' = Cancelled(turn)
    /\ UNCHANGED <<accepting, queues, bytes, admission, ack, overlap, engine, caller, pc,
                   transcript, lostEffect>>

-----------------------------------------------------------------------------
(* The engine goroutine. *)

(* Engine steps that leave the callers and the admission counters alone. *)
EngineFrame == UNCHANGED <<admission, caller>>

Goto(from, to) == pc = from /\ pc' = to

start ==
    /\ Goto("idle", "top")
    /\ ctx = "none"
    /\ accepting' = TRUE
    /\ ctx' = "live"
    /\ EngineFrame
    /\ UNCHANGED <<queues, bytes, ack, turn, overlap, engine, transcript, lostEffect>>

iterationAllowed == turns < MaxTurns

(* The head of the loop: context alive and an iteration left, then take.    *)
take ==
    /\ Goto("top", "ready")
    /\ ctx = "live"
    /\ iterationAllowed
    /\ \E merged \in mergeQueued(steers, pending) :
        /\ inflight' = inflight \o merged
        /\ transcript' = transcript \o merged
    /\ steers' = << >>
    /\ pending' = << >>
    /\ EngineFrame
    /\ UNCHANGED <<accepting, ctx, followups, bytes, ack, turn, overlap, engine, lostEffect>>

(* The loop is left: the context ended, no iteration is left, or an error   *)
(* (budget, compaction, guardrail, observer, tool, step decider) or a panic  *)
(* stops it, the latter without releasing the turn.  So does a step decider  *)
(* that finishes the run early (stepDecisionOverride): it is a success for   *)
(* the caller of Run, but without continueOrSeal, so that for the handle it  *)
(* is an abort, which refuses whatever input still waits.                   *)
stopRun ==
    /\ pc \in {"top", "ready", "refused", "attempt", "tools", "final", "sealed"}
    /\ pc' = "stop"
    /\ EngineFrame
    /\ UNCHANGED <<accepting, ctx, queues, bytes, ack, turn, overlap, engine, transcript, lostEffect>>

(* Mutant: what has been answered stays in flight. *)
acknowledge_Keeps(ok) ==
    /\ Goto("ready", IF ok THEN "begin" ELSE "refused")
    /\ Answer(Range(inflight), IF ok THEN "nil" ELSE "boundary")
    /\ EngineFrame
    /\ UNCHANGED <<accepting, ctx, queues, bytes, turn, overlap, engine, transcript, lostEffect>>

(* The ready boundary was observed, with or without an error. *)
acknowledge(ok) ==
    /\ Goto("ready", IF ok THEN "begin" ELSE "refused")
    /\ Answer(Range(inflight), IF ok THEN "nil" ELSE "boundary")
    /\ bytes' = bytes - SizeOf(Range(inflight))
    /\ inflight' = << >>
    /\ EngineFrame
    /\ UNCHANGED <<accepting, ctx, pending, steers, followups, turn, overlap, engine, transcript, lostEffect>>

(* A child of the run's context, installed as Control.turn. *)
FreshTurn == [active |-> TRUE, cause |-> IF ctx = "live" THEN "none" ELSE "canceled"]

(* Mutant: does not look at the corrections that are already waiting. *)
InstalledTurn_Blind == FreshTurn

(* A correction queued since take interrupts the turn at once. *)
InstalledTurn ==
    IF steers # << >> /\ FreshTurn.cause = "none"
    THEN [FreshTurn EXCEPT !.cause = "steer"] ELSE FreshTurn

(* beginTurn, with a fresh overlap executor. *)
beginTurn ==
    /\ Goto("begin", "attempt")
    /\ startedFlag' = FALSE
    /\ early' = "none"
    /\ attempt' = 0
    /\ turn' = InstalledTurn
    /\ EngineFrame
    /\ UNCHANGED <<accepting, ctx, queues, bytes, ack, turns, result, transcript, lostEffect>>

(* updateTurnStarted: publish the attempt's predicate and look at the       *)
(* steers again.                                                            *)
updateTurnStarted ==
    /\ Goto("attempt", "stream")
    /\ turn' = IF steers # << >> THEN Interrupted(turn) ELSE turn
    /\ EngineFrame
    /\ UNCHANGED <<accepting, ctx, queues, bytes, ack, overlap, engine, transcript, lostEffect>>

(* Mutant: the attempts are not counted. *)
recoverContext_Forever ==
    /\ Goto("stream", "attempt")
    /\ ~startedFlag
    /\ attempt < MaxRecoveries
    /\ EngineFrame
    /\ UNCHANGED <<accepting, ctx, queues, bytes, ack, turn, overlap, engine, transcript, lostEffect>>

(* runTurnWithContextRecovery tries once more after a context overflow that  *)
(* produced nothing.                                                        *)
recoverContext ==
    /\ Goto("stream", "attempt")
    /\ ~startedFlag
    /\ attempt < MaxRecoveries
    /\ attempt' = attempt + 1
    /\ EngineFrame
    /\ UNCHANGED <<accepting, ctx, queues, bytes, ack, turn, overlap, turns, result, transcript, lostEffect>>

(* streamOverlapState.observe launches an eligible call.  The collecting    *)
(* goroutine looks at the turn's context before Recv, not after it.         *)
observe ==
    /\ pc = "stream"
    /\ early = "none"
    /\ startedFlag' = TRUE
    /\ early' = "launched"
    /\ EngineFrame
    /\ UNCHANGED <<accepting, ctx, queues, bytes, ack, turn, engine, pc, transcript, lostEffect>>

(* The executor's context: the run's, but under the turn's for the executor  *)
(* a context recovery builds.                                               *)
ExecutorLive == ctx = "live" /\ (attempt > 0 => turn.cause = "none")

(* streamOverlapState.execute, on its own goroutine: the bus refuses a call  *)
(* under a cancelled context and the steer interceptor skips one while a     *)
(* correction waits.  finish cancels the context some time after a failure.  *)
executeEarly ==
    /\ early = "launched"
    /\ \/ early' = "executed" /\ ExecutorLive /\ steers = << >>
       \/ early' = "skipped" /\ (~ExecutorLive \/ steers # << >> \/ result = "failed")
    /\ UNCHANGED <<accepting, ctx, queues, bytes, admission, ack, turn, startedFlag, engine,
                   caller, pc, transcript, lostEffect>>

(* collect returns: a complete response, or an error of any origin. *)
collect(r) ==
    /\ Goto("stream", "join")
    /\ result' = r
    /\ EngineFrame
    /\ UNCHANGED <<accepting, ctx, queues, bytes, ack, turn, overlap, attempt, turns, transcript, lostEffect>>

(* streamOverlapState.finish joins the early call. *)
finishOverlap ==
    /\ Goto("join", "ended")
    /\ early # "launched"
    /\ EngineFrame
    /\ UNCHANGED <<accepting, ctx, queues, bytes, ack, turn, overlap, engine, transcript, lostEffect>>

(* releaseModelTurn, then what RunMessages does with the turn: tools or a    *)
(* final answer after a complete response; after an error, another round if  *)
(* the cause of the turn context is errControlSteer (a Step is recorded when *)
(* the stream had opened), and the end of the run otherwise.                *)
releaseTurn ==
    /\ pc = "ended"
    /\ turn' = NoTurn
    /\ result' = "none"
    /\ \/ /\ result = "ok"
          /\ pc' \in {"tools", "final"}
          /\ turns' = turns + 1
          /\ UNCHANGED lostEffect
       \/ /\ result = "failed" /\ turn.cause = "steer"
          /\ pc' \in {"top", "stop"}
          /\ turns' \in {turns, turns + 1}
          /\ early # "none" => turns' = turns + 1
          /\ pc' = "stop" => turns' = turns + 1
          /\ lostEffect' = (lostEffect \/ early = "executed")
       \/ /\ result = "failed" /\ turn.cause # "steer"
          /\ pc' = "stop"
          /\ UNCHANGED <<turns, lostEffect>>
    /\ EngineFrame
    /\ UNCHANGED <<accepting, ctx, queues, bytes, ack, overlap, attempt, transcript>>

(* The turn asks for another one by itself: a non-terminal tool batch, a    *)
(* guardrail retry, a response recovery or a provider pause.                *)
nextTurn ==
    /\ pc \in {"tools", "final"}
    /\ pc' = "top"
    /\ EngineFrame
    /\ UNCHANGED <<accepting, ctx, queues, bytes, ack, turn, overlap, engine, transcript, lostEffect>>

(* continueOrSeal after a terminal tool or an accepted final answer. *)
continueOrSeal ==
    /\ pc \in {"tools", "final"}
    /\ \/ /\ HasInput
          /\ pc' = "top"
          /\ UNCHANGED <<pending, followups, accepting>>
       \/ /\ ~HasInput /\ followups # << >>
          /\ pending' = pending \o followups
          /\ followups' = << >>
          /\ pc' = "top"
          /\ UNCHANGED accepting
       \/ /\ ~HasInput /\ followups = << >>
          /\ accepting' = FALSE
          /\ pc' = "sealed"
          /\ UNCHANGED <<pending, followups>>
    /\ EngineFrame
    /\ UNCHANGED <<ctx, steers, inflight, bytes, ack, turn, overlap, engine, transcript, lostEffect>>

(* A sealed run returns its answer, or runs again to repair a structured    *)
(* output (validateAndRepairStructuredOutput).                              *)
afterSeal ==
    /\ pc = "sealed"
    /\ pc' \in {"complete", "top"}
    /\ EngineFrame
    /\ UNCHANGED <<accepting, ctx, queues, bytes, ack, turn, overlap, engine, transcript, lostEffect>>

(* finish, deferred by the run: everything still queued gets errControlClosed. *)
finish ==
    /\ pc \in {"complete", "stop"}
    /\ pc' = "done"
    /\ accepting' = FALSE
    /\ ctx' = "done"
    /\ turn' = NoTurn
    /\ Answer(Unsettled, "closed")
    /\ pending' = << >> /\ steers' = << >> /\ followups' = << >> /\ inflight' = << >>
    /\ bytes' = 0
    /\ EngineFrame
    /\ UNCHANGED <<overlap, engine, transcript, lostEffect>>

(* The handle is single-use: nothing happens after finish. *)
Terminated == pc = "done" /\ UNCHANGED vars

Engine ==
    \/ start \/ take \/ stopRun \/ beginTurn \/ updateTurnStarted \/ recoverContext
    \/ observe \/ finishOverlap \/ releaseTurn \/ nextTurn \/ continueOrSeal \/ afterSeal \/ finish
    \/ \E ok \in BOOLEAN : acknowledge(ok)
    \/ \E r \in {"ok", "failed"} : collect(r)

Call(c) == Send(c) \/ FollowUp(c) \/ SteerEnqueue(c) \/ SteerInterrupt(c) \/ Cancel(c)

Next == Engine \/ executeEarly \/ expire \/ (\E c \in Callers : Call(c)) \/ Terminated

Spec == Init /\ [][Next]_vars

(* The engine goroutine and the early tool's goroutine keep running (model   *)
(* streams and tools end: the engine bounds the former with timeouts), and a *)
(* goroutine inside Steer reaches its second critical section.  Nobody is    *)
(* obliged to call a method, and a run is not obliged to start.             *)
Fairness ==
    /\ WF_vars(Engine /\ pc # "idle")
    /\ WF_vars(executeEarly)
    /\ \A c \in Callers : WF_vars(SteerInterrupt(c))

FairSpec == Spec /\ Fairness

-----------------------------------------------------------------------------
(* Properties. *)

Queued == Unsettled

(* Types of the handle's fields and of the engine goroutine's state. *)
TypeOK ==
    /\ accepting \in BOOLEAN
    /\ ctx \in {"none", "live", "done"}
    /\ pending \in Seq(Inputs) /\ steers \in Seq(Inputs)
    /\ followups \in Seq(Inputs) /\ inflight \in Seq(Inputs)
    /\ nextSeq \in 0..MaxInputs
    /\ kind \in [Inputs -> Kinds]
    /\ size \in [Inputs -> Nat]
    /\ ack \in [Inputs -> Acks]
    /\ turn \in [active : BOOLEAN, cause : Causes]
    /\ startedFlag \in BOOLEAN
    /\ early \in Earlies
    /\ attempt \in 0..MaxRecoveries
    /\ turns \in 0..MaxTurns
    /\ result \in {"none", "ok", "failed"}
    /\ caller \in [Callers -> {"idle", "interrupt"}]
    /\ pc \in PCs
    /\ transcript \in Seq(Inputs)
    /\ lostEffect \in BOOLEAN

(* An acknowledgement channel is open exactly while its input sits in one of *)
(* the four queues of the handle, and no input sits in two places: take,     *)
(* continueOrSeal, acknowledge and finish neither drop an input nor answer   *)
(* it twice.                                                                *)
OpenIffQueued ==
    /\ Queued = {i \in Inputs : ack[i] = "open"}
    /\ IsInjective(pending) /\ IsInjective(steers)
    /\ IsInjective(followups) /\ IsInjective(inflight)
    /\ Range(pending) \cap (Range(steers) \cup Range(followups) \cup Range(inflight)) = {}
    /\ Range(steers) \cap (Range(followups) \cup Range(inflight)) = {}
    /\ Range(followups) \cap Range(inflight) = {}

(* Control.bytes is what the queued and in-flight inputs hold, so a refused  *)
(* or acknowledged input returns its share of the 4 MiB allowance, and both  *)
(* queue limits hold over everything the handle retains, in-flight inputs    *)
(* included.                                                                *)
QueueBounded ==
    bytes = SizeOf(Queued) /\ QueueLen <= MaxQueue /\ bytes <= MaxQueueBytes

(* Send and Steer keep admission order, a follow-up never overtakes older    *)
(* input, and follow-ups keep their own order: once an input has entered the *)
(* transcript, so has, before it, every older one that is not a follow-up,   *)
(* and every older follow-up if it is one itself.                           *)
AdmissionOrder ==
    \A n \in DOMAIN transcript : \A i \in 1..(transcript[n] - 1) :
        kind[i] # "followup" \/ kind[transcript[n]] = "followup" =>
            \E m \in 1..(n - 1) : transcript[m] = i

(* A run that ends naturally has consumed all the input it accepted: the     *)
(* terminal decision of continueOrSeal and enqueue use the same lock.  An    *)
(* end that a step decider imposes is no such decision (stopRun).           *)
CompletionConsumesInput ==
    pc = "complete" => \A i \in 1..nextSeq : ack[i] = "nil"

(* No correction is missed: while a model turn runs with no early tool       *)
(* started, a waiting correction whose Steer has returned has interrupted    *)
(* it, whether it was queued before beginTurn, between beginTurn and         *)
(* updateTurnStarted, or during the stream.                                 *)
NoMissedSteer ==
    /\ pc \in {"attempt", "stream"} /\ ~startedFlag
    /\ steers # << >>
    /\ \A c \in Callers : caller[c] = "idle"
    => turn.cause # "none"

(* A channel yields one result: an answer is never replaced. *)
AckOnce ==
    [][\A i \in Inputs : ack[i] \notin {"none", "open"} => ack'[i] = ack[i]]_vars

(* The handle as its callers see it: the status of every input, whether the  *)
(* handle is open and how far its execution is.                             *)
InputStatus ==
    [i \in Inputs |->
        CASE ack[i] = "none" -> "none"
          [] ack[i] = "open" -> IF i \in Range(inflight) THEN "taken" ELSE "queued"
          [] ack[i] = "nil" -> "delivered"
          [] OTHER -> "refused"]

Phase ==
    CASE pc = "idle" -> "new"
      [] pc = "complete" -> "complete"
      [] pc = "stop" -> "aborted"
      [] pc = "done" -> "ended"
      [] OTHER -> "running"

Delivery == INSTANCE InputDelivery WITH status <- InputStatus, open <- accepting, phase <- Phase

(* Control and the loop that drives it keep the promise of InputDelivery. *)
ImplementsInputDelivery == Delivery!Spec

(* Every accepted input is answered, however the run goes. *)
EveryInputAnswered == \A i \in Inputs : ack[i] = "open" ~> ack[i] # "open"

(* Every started run ends: interruptions, recoveries and repairs do not keep *)
(* it going, and it never waits for an early tool that nobody will finish.   *)
RunEnds == pc = "top" ~> pc = "done"

(* Steering keeps effect and result together: a turn whose early tool ran is *)
(* never discarded.                                                         *)
StartedToolsKeepResults == ~lostEffect

=============================================================================
