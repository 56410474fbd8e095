---------------------------- MODULE ProviderStream ----------------------------
(***************************************************************************)
(* One model turn against a provider: runTurn opens a stream (openModelStream, *)
(* agent/agent.go) and collects it, through the idle timeout                *)
(* (provider/timeout.go), the retrying stream (provider/retry_stream.go)    *)
(* and the fallback chain (provider/failover.go).                           *)
(*                                                                         *)
(* Three goroutines share the turn: the engine's; a worker that first opens *)
(* a stream and then runs one Recv at a time; and the one that closes a     *)
(* stream that opens after the connect timeout.  The engine may leave while *)
(* the worker is still inside the provider.  What the provider answers, the *)
(* retry policy, its observer and the callbacks decide is a choice; a raw   *)
(* stream conforms to ADR-030: one terminal event, then no other.  Both     *)
(* timeouts are enabled, as they are by default.                            *)
(***************************************************************************)
EXTENDS Integers, SequencesExt

CONSTANTS
    Drivers,     \* drivers in the fallback chain
    MaxRetries,  \* StreamRetryOptions.Max of each
    MaxAttempts, \* RetryPolicy.attempts of each: HTTP requests of one open
    MaxEvents,   \* maxProviderTurnEvents
    Causes       \* why the context of the turn may end: "steer" is a cause
                 \* of its own (errControlSteer), no context error

ASSUME StreamAssumption ==
    /\ Drivers \in Nat \ {0} /\ MaxRetries \in Nat \ {0} /\ MaxEvents \in Nat
    /\ MaxAttempts \in Nat \ {0}
    /\ Causes \subseteq {"canceled", "deadline", "steer"}

VARIABLES
    ctx,       \* the model context: "live" or the cause it ended with
    engine,    \* where runTurn is
    outcome,   \* how it ended
    worker,    \* the goroutine that opens or reads
    raw,       \* the raw streams opened, with their driver
    wrapper,   \* the retryingStream
    attempts,  \* calls of open so far, for each driver
    late,      \* calls of open that began after the context had ended
    turn       \* what collect has recorded

vars == <<ctx, engine, outcome, worker, raw, wrapper, attempts, late, turn>>

(* What Recv returns: an event kind, and the error returned with it or, for  *)
(* an error event, the error it carries.  "ctx" is a context error.          *)
Item(kind, err) == [kind |-> kind, err |-> err]
Nothing == Item("none", "none")

Init ==
    /\ ctx = "live" /\ engine = "opening" /\ outcome = "none"
    /\ worker = [task |-> "open", at |-> "enter", driver |-> 1, request |-> 0, item |-> Nothing]
    /\ raw = << >>
    /\ wrapper = [current |-> 0, retries |-> 0, emitted |-> FALSE,
                  terminal |-> FALSE, closed |-> FALSE]
    /\ attempts = [d \in 1..Drivers |-> 0] /\ late = 0
    /\ turn = [events |-> 0, sawTerminal |-> FALSE, terminal |-> "none", sources |-> {},
            reading |-> 0]

-----------------------------------------------------------------------------
(* The worker. *)

Live == ctx = "live"
Current == raw[wrapper.current]
engineState == <<ctx, engine, outcome, turn>>

Goto(p) == worker' = [worker EXCEPT !.at = p, !.request = 0]
Deliver(item) == worker' = [worker EXCEPT !.at = "done", !.request = 0, !.item = item]

(* A call of open begins, with its first HTTP request. *)
CallOpen ==
    /\ worker' = [worker EXCEPT !.at = "open", !.request = 1]
    /\ attempts' = [attempts EXCEPT ![worker.driver] = @ + 1]
    /\ late' = IF Live THEN late ELSE late + 1

(* streamRetryFailure: an error event carries the final error. *)
RetryFailure(err) ==
    IF worker.item.kind = "error" THEN Item("error", "other") ELSE Item("none", err)

(* openStreamWithRetry gives up: the fallback chain tries its next driver, a *)
(* Recv that was reopening reports the failure.                             *)
OpenFailed(err) ==
    IF worker.task = "read" THEN Deliver(RetryFailure(err))
    ELSE IF worker.driver < Drivers
    THEN worker' = [worker EXCEPT !.at = "enter", !.request = 0, !.driver = @ + 1]
    ELSE Deliver(Item("none", err))

(* fallbackDriver.Stream, before each driver. *)
enterDriver ==
    /\ worker.at = "enter"
    /\ IF Live THEN CallOpen ELSE Deliver(Item("none", "ctx")) /\ UNCHANGED <<attempts, late>>
    /\ wrapper' = [wrapper EXCEPT !.retries = 0]
    /\ UNCHANGED <<engineState, raw>>

(* Mutant: the retry budget is checked with one too many. *)
RetriesSpent_OffByOne == wrapper.retries > MaxRetries

RetriesSpent == wrapper.retries >= MaxRetries

(* open returns a stream.  A Recv that reopened looks at closed again before *)
(* it reads, but Close writes it without synchronisation, so the read may    *)
(* miss it; either way nothing closes the new stream.                       *)
openSucceeds ==
    /\ worker.at = "open"
    /\ raw' = Append(raw, [driver |-> worker.driver, open |-> TRUE, ended |-> FALSE])
    /\ wrapper' = [wrapper EXCEPT !.current = Len(raw) + 1]
    /\ \/ worker.task = "open" /\ Deliver(Item("stream", "none"))
       \/ worker.task = "read" /\ Goto("recv")
       \/ worker.task = "read" /\ wrapper.closed /\ Deliver(Item("none", "other"))
    /\ UNCHANGED <<engineState, attempts, late>>

(* DoWithRetry: after a transport error or a 429 or 5xx response the same     *)
(* request, under the same idempotency key, is sent again after a wait.      *)
requestFails ==
    /\ worker.at = "open" /\ worker.request < MaxAttempts
    /\ worker' = [worker EXCEPT !.at = "rest"]
    /\ UNCHANGED <<engineState, raw, wrapper, attempts, late>>

requestAgain ==
    /\ worker.at = "rest"
    /\ \/ worker' = [worker EXCEPT !.at = "open", !.request = @ + 1]
       \/ ~Live /\ OpenFailed("ctx")
    /\ UNCHANGED <<engineState, raw, wrapper, attempts, late>>

(* The last failure, or one that no repetition mends. *)
openFails ==
    /\ worker.at = "open"
    /\ \/ OpenFailed("ctx")
       \/ IF RetriesSpent THEN OpenFailed("other") ELSE Goto("approve")
    /\ UNCHANGED <<engineState, raw, wrapper, attempts, late>>

(* approveStreamRetryAndWait in openStreamWithRetry, up to its wait. *)
approveOpen ==
    /\ worker.at = "approve"
    /\ IF ~Live THEN OpenFailed("ctx") ELSE Goto("backoff") \/ OpenFailed("other")
    /\ UNCHANGED <<engineState, raw, wrapper, attempts, late>>

(* The wait ends; with the timer and the context both ready, either may win. *)
backoffEnds ==
    /\ worker.at = "backoff"
    /\ \/ CallOpen /\ wrapper' = [wrapper EXCEPT !.retries = @ + 1]
       \/ ~Live /\ OpenFailed("ctx") /\ UNCHANGED <<wrapper, attempts, late>>
    /\ UNCHANGED <<engineState, raw>>

(* What the current raw stream may answer. *)
RawItems ==
    {Item("none", e) : e \in {"other", "eof", "ctx"}}
        \cup IF Current.ended \/ ~Current.open THEN {}
             ELSE {Item(k, e) : k \in {"output", "done", "error"}, e \in {"none", "other"}}

(* Mutant: delivered output is forgotten. *)
Classify_Unemitted(item) ==
    IF wrapper.terminal THEN wrapper
    ELSE [wrapper EXCEPT !.terminal = item.kind = "done" \/ item = Item("error", "none")]

(* classifyReceived and classifyPartialFailure: the flags they leave... *)
Classify(item) ==
    IF wrapper.terminal THEN wrapper
    ELSE [wrapper EXCEPT
            !.emitted = @ \/ item.kind = "output",
            !.terminal = \/ item.kind = "done" \/ item = Item("error", "none")
                         \/ item.kind = "output" /\ item.err # "none"
                         \/ item.kind \in {"none", "error"} /\ wrapper.emitted]

(* ...and what they make of the item; output before a failure stays. *)
Classified(item) ==
    IF wrapper.terminal \/ (item.err = "none" /\ ~(item.kind = "error" /\ wrapper.emitted)) THEN item
    ELSE IF item.kind = "output" THEN Item("output", "partial")
    ELSE Item("none", "partial")

(* A failure before any output asks for a retry. *)
AsksRetry(item) ==
    /\ ~wrapper.terminal /\ ~wrapper.emitted
    /\ item.kind \in {"none", "error"} /\ item.err # "none"

(* retryingStream.Recv up to the decision to retry. *)
recv ==
    /\ worker.at = "recv"
    /\ \E item \in RawItems :
        /\ raw' = [raw EXCEPT ![wrapper.current].ended = @ \/ item.kind \in {"done", "error"}]
        /\ IF AsksRetry(item)
           THEN /\ worker' = [worker EXCEPT
                    !.item = IF item.err = "ctx" THEN item
                             ELSE IF RetriesSpent /\ item.err = "eof" THEN Item("none", "other")
                             ELSE item,
                    !.at = IF item.err = "ctx" \/ RetriesSpent THEN "done" ELSE "judge"]
                /\ UNCHANGED wrapper
           ELSE Deliver(Classified(item)) /\ wrapper' = Classify(item)
    /\ UNCHANGED <<engineState, attempts, late>>

(* approveStreamRetryAndWait in Recv: the context, the policy (a refused     *)
(* error event is terminal), the observer's veto.                           *)
judge ==
    /\ worker.at = "judge"
    /\ \/ ~Live /\ Deliver(Item("none", "ctx")) /\ UNCHANGED wrapper
       \/ /\ Live
          /\ Deliver(worker.item)
          /\ wrapper' = [wrapper EXCEPT !.terminal = worker.item.kind = "error"]
       \/ Live /\ Deliver(Item("none", "other")) /\ UNCHANGED wrapper
       \/ Live /\ Goto("pause") /\ UNCHANGED wrapper
    /\ UNCHANGED <<engineState, raw, attempts, late>>

(* Mutant: the failed stream stays open. *)
CloseCurrent_Never == UNCHANGED raw

CloseCurrent == raw' = [raw EXCEPT ![wrapper.current].open = FALSE]

(* The wait ends; the failed stream is closed before the next is opened. *)
reopen ==
    /\ worker.at = "pause"
    /\ CloseCurrent
    /\ wrapper' = [wrapper EXCEPT !.retries = @ + 1]
    /\ CallOpen
    /\ UNCHANGED engineState

pauseCancelled ==
    /\ worker.at = "pause" /\ ~Live
    /\ Deliver(Item("none", "ctx"))
    /\ UNCHANGED <<engineState, raw, wrapper, attempts, late>>

Worker ==
    \/ enterDriver \/ requestFails \/ requestAgain \/ openSucceeds \/ openFails
    \/ approveOpen \/ backoffEnds
    \/ recv \/ judge \/ reopen \/ pauseCancelled

-----------------------------------------------------------------------------
(* The engine. *)

streamState == <<raw, wrapper, worker, attempts, late>>
Leave(how) == engine' = "leaving" /\ outcome' = how

(* Close closes the current stream of the retrying stream.  Against a Recv   *)
(* that still runs it is unsynchronised: it may see any stream that was      *)
(* current since that Recv began.                                           *)
Close ==
    /\ wrapper' = [wrapper EXCEPT !.closed = TRUE]
    /\ \E c \in IF worker.at = "done" THEN {wrapper.current} ELSE turn.reading..wrapper.current :
            raw' = [raw EXCEPT ![c].open = FALSE]

(* openModelStream takes the result of the goroutine it started. *)
takeOpened ==
    /\ engine = "opening" /\ worker.at = "done"
    /\ IF worker.item.kind = "stream" THEN engine' = "top" /\ UNCHANGED outcome ELSE Leave("failed")
    /\ UNCHANGED <<ctx, turn, streamState>>

(* The connect timeout; its late closer is closeLate. *)
connectTimeout ==
    /\ engine = "opening" /\ Live
    /\ ctx' = "canceled"
    /\ Leave("connectTimeout")
    /\ UNCHANGED <<turn, streamState>>

(* The context ends first: nobody takes what open may still return. *)
openCancelled ==
    /\ engine = "opening" /\ ~Live
    /\ Leave("abandoned")
    /\ UNCHANGED <<ctx, turn, streamState>>

(* Mutant: the connect timeout starts no goroutine that waits for the stream. *)
CloseDue_Never == FALSE

CloseDue ==
    /\ outcome = "connectTimeout" /\ worker.at = "done" /\ worker.item.kind = "stream"
    /\ Current.open

closeLate ==
    /\ CloseDue
    /\ CloseCurrent
    /\ UNCHANGED <<engineState, worker, wrapper, attempts, late>>

(* Mutant: a terminal event does not protect the turn. *)
StopDraining_Always == ~Live

(* The head of collect's loop. *)
StopDraining == ~turn.sawTerminal /\ ~Live

nextRecv ==
    /\ engine = "top"
    /\ IF StopDraining THEN Leave("interrupted") /\ Close /\ UNCHANGED <<worker, turn>>
       ELSE /\ engine' = "waiting"
            /\ worker' = [task |-> "read", at |-> "recv", driver |-> worker.driver,
                         request |-> 0, item |-> Nothing]
            /\ turn' = [turn EXCEPT !.reading = wrapper.current]
            /\ UNCHANGED <<outcome, raw, wrapper>>
    /\ UNCHANGED <<ctx, attempts, late>>

(* applyNormalized at the end of the stream: one terminal event, the last,   *)
(* and no error event.                                                      *)
Normalized == IF turn.terminal = "done" THEN "complete" ELSE "failed"

WithinTurn == turn.events < MaxEvents

Recorded(kind) ==
    [turn EXCEPT
        !.events = IF WithinTurn THEN @ + 1 ELSE @,
        !.sawTerminal = @ \/ kind = "done",
        !.terminal = IF ~WithinTurn THEN @
                     ELSE IF @ # "none" THEN "broken"
                     ELSE IF kind = "output" THEN "none" ELSE kind,
        !.sources = IF kind = "error" THEN @ ELSE @ \cup {wrapper.current}]

(* collect takes what Recv returned.  io.EOF ends the stream, and so does a  *)
(* context error after the terminal event; an event past the limit, and a    *)
(* callback that fails, end the turn.                                       *)
takeEvent ==
    /\ engine = "waiting" /\ worker.at = "done"
    /\ LET item == worker.item
           ends == item.err = "eof" \/ (turn.sawTerminal /\ item.err = "ctx")
       IN  IF item.kind \in {"output", "done", "error"} /\ item.err # "partial"
           THEN /\ turn' = Recorded(item.kind)
                /\ \/ WithinTurn /\ engine' = "top" /\ UNCHANGED <<outcome, raw, wrapper>>
                   \/ Leave("failed") /\ Close
           ELSE /\ Leave(IF ends THEN Normalized ELSE "failed")
                /\ Close
                /\ UNCHANGED turn
    /\ UNCHANGED <<ctx, worker, attempts, late>>

(* The idle timeout returns context.Cause when the context ends first; only  *)
(* a cause that is a context error is tolerated after the terminal event.    *)
Tolerated == turn.sawTerminal /\ ctx \in {"canceled", "deadline"}

recvCancelled ==
    /\ engine = "waiting" /\ ~Live
    /\ Leave(IF Tolerated THEN Normalized ELSE "interrupted")
    /\ Close
    /\ UNCHANGED <<ctx, turn, worker, attempts, late>>

(* Mutant: the timer of the idle timeout is not armed. *)
idleTimeout_Unarmed == FALSE

idleTimeout ==
    /\ engine = "waiting"
    /\ Leave("idle")
    /\ Close
    /\ UNCHANGED <<ctx, turn, worker, attempts, late>>

(* runTurn's deferred cancelModel. *)
leave ==
    /\ engine = "leaving"
    /\ engine' = "done"
    /\ ctx' = IF Live THEN "canceled" ELSE ctx
    /\ UNCHANGED <<outcome, turn, streamState>>

(* The caller, a deadline or a steer ends the turn's context. *)
cancel ==
    /\ Live /\ engine # "done"
    /\ ctx' \in Causes
    /\ UNCHANGED <<engine, outcome, turn, streamState>>

Engine ==
    \/ takeOpened \/ connectTimeout \/ openCancelled
    \/ nextRecv \/ takeEvent \/ recvCancelled \/ idleTimeout \/ leave

Quiet ==
    /\ engine = "done" /\ worker.at = "done"
    /\ ~CloseDue
    /\ UNCHANGED vars

Next == Engine \/ Worker \/ closeLate \/ cancel \/ Quiet

Spec == Init /\ [][Next]_vars

(* The engine and the late closer are scheduled and timers fire; the         *)
(* provider need not answer.                                                *)
FairSpec == Spec /\ WF_vars(Engine) /\ WF_vars(closeLate)

-----------------------------------------------------------------------------
(* Properties. *)

Errors == {"none", "ctx", "other", "eof", "partial"}

(* Every variable has its type; no goroutine reads a stream that was never   *)
(* opened.                                                                  *)
TypeOK ==
    /\ ctx \in {"live", "canceled"} \cup Causes
    /\ engine \in {"opening", "top", "waiting", "leaving", "done"}
    /\ outcome \in {"none", "complete", "failed", "connectTimeout", "abandoned", "interrupted", "idle"}
    /\ outcome = "none" <=> engine \in {"opening", "top", "waiting"}
    /\ worker \in [task : {"open", "read"},
                   at : {"enter", "open", "rest", "approve", "backoff", "recv", "judge", "pause", "done"},
                   driver : 1..Drivers, request : 0..MaxAttempts,
                   item : [kind : {"none", "output", "done", "error", "stream"}, err : Errors]]
    /\ raw \in Seq([driver : 1..Drivers, open : BOOLEAN, ended : BOOLEAN])
    /\ wrapper \in [current : 0..Len(raw), retries : 0..MaxRetries, emitted : BOOLEAN,
                    terminal : BOOLEAN, closed : BOOLEAN]
    /\ worker.task = "read" => wrapper.current # 0
    /\ attempts \in [1..Drivers -> Nat] /\ late \in Nat
    /\ turn \in [events : 0..MaxEvents, sawTerminal : BOOLEAN,
                 terminal : {"none", "done", "error", "broken"},
                 sources : SUBSET (1..Len(raw)), reading : 0..Len(raw)]

(* OpenRetryingStream: once output was delivered the stream is never         *)
(* reopened, by the wrapper or by the fallback chain, even by a Recv the     *)
(* engine no longer waits for.                                              *)
NeverReplayed ==
    [][wrapper.emitted \/ turn.sources # {} => UNCHANGED attempts]_vars

(* A turn opens each driver at most once and MaxRetries times more, however  *)
(* failures of open and of Recv mix, and each open sends at most MaxAttempts *)
(* requests; once the turn is cancelled, the open it races with may still    *)
(* happen, and none after that.                                             *)
AttemptsBounded ==
    /\ late <= 1 /\ worker.request <= MaxAttempts
    /\ \A d \in 1..Drivers : attempts[d] <= MaxRetries + 1

(* A turn never holds two raw streams that are not closed.  When all is      *)
(* quiet one is left open only by a turn whose engine went away, for its     *)
(* context or for the idle timeout, while the worker was opening that very   *)
(* stream.                                                                  *)
StreamsReleased ==
    /\ Cardinality({i \in DOMAIN raw : raw[i].open}) <= 1
    /\ engine = "done" /\ worker.at = "done" /\ ~CloseDue =>
           \A i \in DOMAIN raw :
               raw[i].open => i > turn.reading /\ outcome \in {"abandoned", "interrupted", "idle"}

(* collect and idleTimeoutStream: a cancellation or a deadline after the     *)
(* terminal event does not discard the finished turn, in whichever of the    *)
(* two the engine notices it; only a cause that collect does not take for a  *)
(* context error, as the steer's, can.                                      *)
FinishedTurnKept ==
    outcome = "interrupted" /\ turn.terminal = "done" => ctx = "steer"

(* The comment on collect's loop: once the provider delivered its terminal   *)
(* event "a cancellation landing in the window before io.EOF must not        *)
(* discard" the turn, whatever its cause.                                   *)
EveryFinishedTurnKept == outcome = "interrupted" => turn.terminal # "done"

(* Whatever the provider does, the turn ends. *)
TurnEnds == <>(engine = "done")

(* A stream that opens after the connect timeout is closed. *)
LateStreamClosed ==
    (outcome = "connectTimeout" /\ raw # << >>) ~> (\A i \in DOMAIN raw : ~raw[i].open)

=============================================================================
