------------------------- MODULE ProviderStreamProofs -------------------------
(***************************************************************************)
(* Proofs about ProviderStream, for any number of drivers, retries,         *)
(* requests and events: opens are bounded, nothing is replayed after output, *)
(* streams are released and a finished turn is kept.                        *)
(***************************************************************************)
EXTENDS ProviderStream, FiniteSetTheorems, TLAPS

Opening == {"enter", "open", "rest", "approve", "backoff"}
Reading == {"recv", "judge", "pause"}

(* The wrapper has delivered output or is past its terminal event: no retry. *)
Sealed == wrapper.emitted \/ wrapper.terminal

(* The worker opens for the engine, or reads one event for it.              *)
WorkerPhase ==
    /\ worker.at \in Reading => worker.task = "read"
    /\ worker.at = "enter" => worker.task = "open"
    /\ engine = "opening" \/ outcome = "connectTimeout" => worker.task = "open"
    /\ engine = "waiting" => worker.task = "read"
    /\ engine = "top" => worker.at = "done" /\ wrapper.current # 0
    /\ worker.task = "open" =>
        /\ turn = [events |-> 0, sawTerminal |-> FALSE, terminal |-> "none", sources |-> {},
                   reading |-> 0]
        /\ outcome \in {"complete", "failed"} => worker.at = "done" /\ worker.item.kind # "stream"
    /\ worker.at # "done" => worker.item.kind # "stream"

(* What one driver has been asked for. *)
RetryBudget ==
    /\ \A d \in 1..Drivers :
        /\ d > worker.driver => attempts[d] = 0
        /\ attempts[d] <= MaxRetries + 1
    /\ worker.at = "enter" => attempts[worker.driver] = 0
    /\ worker.at # "enter" => attempts[worker.driver] <= wrapper.retries + 1
    /\ worker.at \in {"approve", "backoff", "judge", "pause"} => wrapper.retries < MaxRetries
    /\ worker.at = "rest" => worker.request < MaxAttempts

(* A call of open that begins late is the last. *)
LateBudget ==
    /\ late # 0 => ~Live /\ worker.at \notin {"backoff", "pause"}
    /\ late <= 1

(* Output seals the wrapper, and a sealed wrapper only reads.               *)
SealHolds ==
    /\ Sealed => worker.task = "read" /\ worker.at \in {"recv", "done"}
    /\ worker.item.kind \in {"output", "done"} => Sealed /\ worker.at = "done"
    /\ turn.sources # {} \/ turn.sawTerminal => Sealed
    /\ Sealed /\ worker.at = "recv" => turn.reading = wrapper.current

(* Where the streams of a turn are. *)
OpenStreams ==
    /\ \A i \in DOMAIN raw : raw[i].open => i = wrapper.current
    /\ worker.at \in Opening => \A i \in DOMAIN raw : ~raw[i].open
    /\ turn.reading <= wrapper.current
    /\ worker.task = "open" =>
        \/ raw = << >> /\ wrapper.current = 0 /\ worker.item.kind # "stream"
        \/ worker.at = "done" /\ worker.item.kind = "stream" /\ wrapper.current # 0
    /\ wrapper.current = Len(raw)
    /\ engine \in {"leaving", "done"} => \A i \in DOMAIN raw : raw[i].open => i > turn.reading
    /\ engine \in {"leaving", "done"} /\ outcome \in {"complete", "failed"} =>
        /\ \A i \in DOMAIN raw : ~raw[i].open
        /\ worker.at = "done" \/ (worker.at = "recv" /\ Sealed)

(* A terminal event that was recorded was seen. *)
TerminalSeen ==
    /\ turn.terminal = "done" => turn.sawTerminal
    /\ FinishedTurnKept

StreamInv ==
    TypeOK /\ WorkerPhase /\ RetryBudget /\ LateBudget /\ SealHolds /\ OpenStreams /\ TerminalSeen

-----------------------------------------------------------------------------
(* The parts of the state, as the provers need them. *)

Places == {"enter", "open", "rest", "approve", "backoff", "recv", "judge", "pause", "done"}
RawStreams == [driver : 1..Drivers, open : BOOLEAN, ended : BOOLEAN]
Items == [kind : {"none", "output", "done", "error", "stream"}, err : Errors]
WorkerStates == [task : {"open", "read"}, at : Places, driver : 1..Drivers,
                 request : 0..MaxAttempts, item : Items]

(* The worker is a record of these. *)
LEMMA WorkerType ==
    ASSUME TypeOK
    PROVE  worker \in WorkerStates
BY DEF TypeOK, WorkerStates, Places, Items

(* What is in these sets. *)
LEMMA Members ==
    /\ 0 \in 0..MaxAttempts /\ 1 \in 0..MaxAttempts
    /\ "enter" \in Places /\ "open" \in Places /\ "rest" \in Places /\ "recv" \in Places
    /\ "judge" \in Places /\ "done" \in Places
BY StreamAssumption DEF Places

(* The types of the parts. *)
LEMMA Parts ==
    ASSUME TypeOK
    PROVE  /\ worker.task \in {"open", "read"} /\ worker.at \in Places
           /\ worker.driver \in 1..Drivers /\ worker.request \in 0..MaxAttempts
           /\ worker.item \in Items
           /\ Len(raw) \in Nat /\ DOMAIN raw = 1..Len(raw)
           /\ \A i \in DOMAIN raw : raw[i] \in RawStreams
           /\ wrapper.current \in 0..Len(raw) /\ wrapper.retries \in 0..MaxRetries
           /\ wrapper.emitted \in BOOLEAN /\ wrapper.terminal \in BOOLEAN
           /\ attempts \in [1..Drivers -> Nat] /\ late \in Nat
           /\ turn.reading \in 0..Len(raw) /\ turn.sources \in SUBSET (1..Len(raw))
           /\ turn.sawTerminal \in BOOLEAN
           /\ Drivers \in Nat /\ MaxRetries \in Nat /\ MaxAttempts \in Nat \ {0}
<1>1. /\ worker.task \in {"open", "read"} /\ worker.at \in Places
      /\ worker.driver \in 1..Drivers /\ worker.request \in 0..MaxAttempts
      /\ worker.item \in Items
  BY WorkerType DEF WorkerStates
<1>2. /\ Len(raw) \in Nat /\ DOMAIN raw = 1..Len(raw)
      /\ \A i \in DOMAIN raw : raw[i] \in RawStreams
  <2>1. raw \in Seq(RawStreams)
    BY DEF TypeOK, RawStreams
  <2> QED BY <2>1
<1>3. /\ wrapper.current \in 0..Len(raw) /\ wrapper.retries \in 0..MaxRetries
      /\ wrapper.emitted \in BOOLEAN /\ wrapper.terminal \in BOOLEAN
  BY DEF TypeOK
<1>4. /\ turn.reading \in 0..Len(raw) /\ turn.sources \in SUBSET (1..Len(raw))
      /\ turn.sawTerminal \in BOOLEAN
  BY DEF TypeOK
<1> QED BY <1>1, <1>2, <1>3, <1>4, StreamAssumption DEF TypeOK

(* The initial states satisfy the invariant. *)
LEMMA InitStream == Init => StreamInv
<1> SUFFICES ASSUME Init PROVE StreamInv
  OBVIOUS
<1>1. TypeOK
  BY StreamAssumption DEF Init, TypeOK, Item, Nothing, Errors
<1>2. WorkerPhase
  BY DEF Init, WorkerPhase, Item, Nothing, Reading
<1>3. RetryBudget
  BY StreamAssumption DEF Init, RetryBudget
<1>4. LateBudget
  BY DEF Init, LateBudget
<1>5. SealHolds
  BY DEF Init, SealHolds, Sealed, Item, Nothing
<1>6. OpenStreams
  BY DEF Init, OpenStreams, Item, Nothing
<1>7. TerminalSeen
  BY DEF Init, TerminalSeen, FinishedTurnKept
<1> QED BY <1>1, <1>2, <1>3, <1>4, <1>5, <1>6, <1>7 DEF StreamInv

-----------------------------------------------------------------------------
(* The worker. *)

(* A step of the worker alone, before it has delivered anything: what is left *)
(* to show is how often it opens.                                           *)
LEMMA WorkerMoves ==
    ASSUME StreamInv, worker.at \notin {"recv", "done"},
           UNCHANGED <<engineState, raw>>,
           NEW k \in 0..MaxRetries, wrapper' = [wrapper EXCEPT !.retries = k],
           worker' \in WorkerStates, worker'.task = worker.task,
           worker'.item.kind \in {"none", "error"},
           worker'.at = "enter" => worker.task = "open",
           worker'.at \in Reading => worker.task = "read",
           worker'.at \in Opening => worker.at \in Opening,
           attempts' \in [1..Drivers -> Nat], late' \in Nat,
           RetryBudget', LateBudget'
    PROVE  StreamInv'
<1>1. /\ wrapper'.current = wrapper.current /\ wrapper'.emitted = wrapper.emitted
      /\ wrapper'.terminal = wrapper.terminal
      /\ wrapper' \in [current : 0..Len(raw), retries : 0..MaxRetries, emitted : BOOLEAN,
                       terminal : BOOLEAN, closed : BOOLEAN]
  BY DEF StreamInv, TypeOK
<1>2. UNCHANGED <<ctx, engine, outcome, raw, turn>>
  BY DEF engineState
<1>3. TypeOK'
  <2>1. worker' \in [task : {"open", "read"},
                   at : {"enter", "open", "rest", "approve", "backoff", "recv", "judge", "pause", "done"},
                   driver : 1..Drivers, request : 0..MaxAttempts,
                   item : [kind : {"none", "output", "done", "error", "stream"}, err : Errors]]
    BY DEF WorkerStates, Items, Places
  <2>2. worker.task = "read" => wrapper.current # 0
    BY DEF StreamInv, TypeOK
  <2>3. worker'.task = "read" => wrapper'.current # 0
    BY <1>1, <2>2
  <2>4. /\ ctx' \in {"live", "canceled"} \cup Causes
        /\ engine' \in {"opening", "top", "waiting", "leaving", "done"}
        /\ outcome' \in {"none", "complete", "failed", "connectTimeout", "abandoned", "interrupted", "idle"}
    BY <1>2 DEF StreamInv, TypeOK
  <2>5. outcome' = "none" <=> engine' \in {"opening", "top", "waiting"}
    BY <1>2 DEF StreamInv, TypeOK
  <2>6. raw' \in Seq([driver : 1..Drivers, open : BOOLEAN, ended : BOOLEAN])
    BY <1>2 DEF StreamInv, TypeOK
  <2>7. turn' \in [events : 0..MaxEvents, sawTerminal : BOOLEAN,
                   terminal : {"none", "done", "error", "broken"},
                   sources : SUBSET (1..Len(raw')), reading : 0..Len(raw')]
    <3>1. turn \in [events : 0..MaxEvents, sawTerminal : BOOLEAN,
                    terminal : {"none", "done", "error", "broken"},
                    sources : SUBSET (1..Len(raw)), reading : 0..Len(raw)]
      BY DEF StreamInv, TypeOK
    <3> QED BY <1>2, <3>1
  <2>8. wrapper' \in [current : 0..Len(raw'), retries : 0..MaxRetries, emitted : BOOLEAN,
                      terminal : BOOLEAN, closed : BOOLEAN]
    BY <1>1, <1>2
  <2> QED BY <2>1, <2>3, <2>4, <2>5, <2>6, <2>7, <2>8 DEF TypeOK
<1>4. ~Sealed /\ ~Sealed'
  BY <1>1 DEF StreamInv, SealHolds, Sealed
<1>5. WorkerPhase'
  BY <1>1, <1>2 DEF StreamInv, WorkerPhase
<1>6. SealHolds'
  BY <1>1, <1>2, <1>4 DEF StreamInv, SealHolds
<1>7. OpenStreams'
  BY <1>1, <1>2, <1>4 DEF StreamInv, OpenStreams, WorkerPhase
<1>8. TerminalSeen'
  BY <1>2 DEF StreamInv, TerminalSeen, FinishedTurnKept
<1> QED BY <1>3, <1>5, <1>6, <1>7, <1>8 DEF StreamInv

(* A wait or an open that ends without a stream. *)
LEMMA DeliverMoves ==
    ASSUME StreamInv, worker.at \notin {"recv", "done"},
           UNCHANGED <<engineState, raw, attempts, late>>,
           NEW k \in 0..MaxRetries, wrapper' = [wrapper EXCEPT !.retries = k],
           attempts[worker.driver] <= k + 1,
           NEW item \in Items, item.kind \in {"none", "error"}, Deliver(item)
    PROVE  StreamInv'
<1>1. /\ worker' \in WorkerStates /\ worker'.task = worker.task /\ worker'.item = item
      /\ worker'.at = "done" /\ worker'.driver = worker.driver
  <2>1. worker \in WorkerStates
    BY WorkerType DEF StreamInv
  <2> QED BY <2>1, Members DEF Deliver, WorkerStates
<1>2. wrapper'.retries = k /\ UNCHANGED ctx
  BY DEF StreamInv, TypeOK, engineState
<1>3. RetryBudget' /\ LateBudget'
  BY <1>1, <1>2 DEF StreamInv, RetryBudget, LateBudget, Live
<1> QED BY <1>1, <1>3, Parts, WorkerMoves DEF StreamInv, Reading, Opening

(* The worker goes on to a wait. *)
LEMMA GotoMoves ==
    ASSUME StreamInv, worker.at \notin {"recv", "done", "enter"},
           UNCHANGED <<engineState, raw, wrapper, attempts, late>>,
           NEW p \in {"approve", "backoff", "pause"}, Goto(p),
           p = "pause" <=> worker.at = "judge", wrapper.retries < MaxRetries,
           p # "approve" => Live, p # "pause" => worker.at \in Opening
    PROVE  StreamInv'
<1>1. /\ worker' \in WorkerStates /\ worker'.task = worker.task /\ worker'.item = worker.item
      /\ worker'.at = p /\ worker'.driver = worker.driver
  <2>1. worker \in WorkerStates
    BY WorkerType DEF StreamInv
  <2>2. p \in Places
    BY DEF Places
  <2> QED BY <2>1, <2>2, Members DEF Goto, WorkerStates
<1>2. wrapper.retries \in 0..MaxRetries /\ wrapper' = [wrapper EXCEPT !.retries = wrapper.retries]
  BY DEF StreamInv, TypeOK
<1>3. worker.item.kind \in {"none", "error"}
  BY Parts DEF StreamInv, SealHolds, WorkerPhase, Items
<1>4. RetryBudget' /\ LateBudget'
  BY <1>1 DEF StreamInv, RetryBudget, LateBudget, Live, engineState
<1>5. /\ worker.at = "judge" => worker.task = "read"
  BY DEF StreamInv, WorkerPhase, Reading
<1> QED BY <1>1, <1>2, <1>3, <1>4, <1>5, Parts, WorkerMoves DEF StreamInv, Reading, Opening

(* openStreamWithRetry gives up: the next driver has not been asked yet. *)
LEMMA OpenFailedMoves ==
    ASSUME StreamInv, worker.at \in {"open", "rest", "approve", "backoff"},
           UNCHANGED <<engineState, raw, wrapper, attempts, late>>,
           NEW err \in {"ctx", "other"}, OpenFailed(err)
    PROVE  StreamInv'
<1>1. /\ wrapper.retries \in 0..MaxRetries /\ wrapper' = [wrapper EXCEPT !.retries = wrapper.retries]
      /\ attempts[worker.driver] <= wrapper.retries + 1
  BY DEF StreamInv, TypeOK, RetryBudget
<1>2. RetryFailure(err) \in Items /\ RetryFailure(err).kind \in {"none", "error"}
  BY DEF RetryFailure, Items, Item, Errors
<1>3. Item("none", err) \in Items /\ Item("none", err).kind = "none"
  BY DEF Items, Item, Errors
<1>4. CASE worker.task = "read" /\ Deliver(RetryFailure(err))
  BY <1>1, <1>2, <1>4, DeliverMoves
<1>5. CASE Deliver(Item("none", err))
  BY <1>1, <1>3, <1>5, DeliverMoves
<1>6. CASE /\ worker.task # "read" /\ worker.driver < Drivers
           /\ worker' = [worker EXCEPT !.at = "enter", !.request = 0, !.driver = @ + 1]
  <2>1. /\ worker' \in WorkerStates /\ worker'.task = worker.task /\ worker'.item = worker.item
        /\ worker'.at = "enter" /\ worker'.driver = worker.driver + 1 /\ worker.task = "open"
    <3>1. worker \in WorkerStates
      BY WorkerType DEF StreamInv
    <3>2. worker.driver + 1 \in 1..Drivers
      BY <1>6, Parts DEF StreamInv
    <3>3. worker.task = "open"
      BY <1>6, Parts DEF StreamInv
    <3> QED BY <1>6, <3>1, <3>2, <3>3, Members DEF WorkerStates
  <2>2. worker.item.kind \in {"none", "error"}
    BY Parts DEF StreamInv, SealHolds, WorkerPhase, Items
  <2>3. RetryBudget'
    <3>1. attempts[worker.driver + 1] = 0
      <4>1. worker.driver + 1 \in 1..Drivers /\ worker.driver + 1 > worker.driver
        BY <1>6, Parts DEF StreamInv
      <4> QED BY <4>1 DEF StreamInv, RetryBudget
    <3> QED BY <2>1, <3>1, Parts DEF StreamInv, RetryBudget
  <2>4. LateBudget'
    BY <2>1 DEF StreamInv, LateBudget, Live, engineState
  <2> QED BY <1>1, <2>1, <2>2, <2>3, <2>4, Parts, WorkerMoves DEF StreamInv, Reading, Opening
<1> QED BY <1>4, <1>5, <1>6 DEF OpenFailed

(* A call of open: the driver was asked at most as often as it may be. *)
LEMMA CallOpenCounts ==
    ASSUME StreamInv, CallOpen, UNCHANGED ctx, worker.at \in {"enter", "backoff", "pause"},
           worker.at = "enter" => Live,
           wrapper'.retries = IF worker.at = "enter" THEN 0 ELSE wrapper.retries + 1
    PROVE  /\ worker' \in WorkerStates /\ worker'.task = worker.task /\ worker'.item = worker.item
           /\ worker'.at = "open" /\ worker'.driver = worker.driver
           /\ attempts' \in [1..Drivers -> Nat] /\ late' \in Nat
           /\ RetryBudget' /\ LateBudget'
<1>1. /\ worker' \in WorkerStates /\ worker'.task = worker.task /\ worker'.item = worker.item
      /\ worker'.at = "open" /\ worker'.driver = worker.driver
  <2>1. worker \in WorkerStates
    BY WorkerType DEF StreamInv
  <2> QED BY <2>1, Members DEF CallOpen, WorkerStates
<1>2. /\ attempts' = [attempts EXCEPT ![worker.driver] = @ + 1]
      /\ attempts \in [1..Drivers -> Nat] /\ worker.driver \in 1..Drivers
      /\ wrapper.retries \in 0..MaxRetries /\ MaxRetries \in Nat /\ Drivers \in Nat
  BY Parts DEF StreamInv, CallOpen
<1>3. attempts[worker.driver] + 1 <= wrapper'.retries + 1 /\ wrapper'.retries <= MaxRetries
  BY <1>2 DEF StreamInv, RetryBudget
<1>4. RetryBudget'
  BY <1>1, <1>2, <1>3 DEF StreamInv, RetryBudget
<1>5. LateBudget' /\ late' \in Nat
  BY <1>1, Parts DEF StreamInv, LateBudget, CallOpen, Live
<1> QED BY <1>1, <1>2, <1>4, <1>5

(* fallbackDriver.Stream, before each driver. *)
LEMMA EnterDriver == StreamInv /\ enterDriver => StreamInv'
<1> SUFFICES ASSUME StreamInv, enterDriver PROVE StreamInv'
  OBVIOUS
<1>1. /\ worker.at = "enter" /\ wrapper' = [wrapper EXCEPT !.retries = 0]
      /\ UNCHANGED <<engineState, raw>> /\ UNCHANGED ctx
      /\ 0 \in 0..MaxRetries /\ wrapper'.retries = 0
      /\ worker.task = "open" /\ attempts[worker.driver] = 0
  BY StreamAssumption DEF enterDriver, engineState, StreamInv, TypeOK, WorkerPhase, RetryBudget
<1>2. CASE Live /\ CallOpen
  <2>1. worker.item.kind \in {"none", "error"}
    BY <1>1, Parts DEF StreamInv, SealHolds, WorkerPhase, Items
  <2> QED BY <1>1, <1>2, <2>1, CallOpenCounts, WorkerMoves DEF Reading, Opening
<1>3. CASE Deliver(Item("none", "ctx")) /\ UNCHANGED <<attempts, late>>
  <2>1. Item("none", "ctx") \in Items /\ Item("none", "ctx").kind = "none"
    BY DEF Items, Item, Errors
  <2> QED BY <1>1, <1>3, <2>1, DeliverMoves
<1> QED BY <1>2, <1>3 DEF enterDriver

(* DoWithRetry: a request fails and is sent again, under one call of open.  *)
LEMMA RequestMoves ==
    ASSUME StreamInv, worker.at \in {"open", "rest"},
           UNCHANGED <<engineState, raw, wrapper, attempts, late>>,
           NEW p \in {"open", "rest"}, NEW n \in 0..MaxAttempts, p = "rest" => n < MaxAttempts,
           worker' = [worker EXCEPT !.at = p, !.request = n]
    PROVE  StreamInv'
<1>1. /\ worker' \in WorkerStates /\ worker'.task = worker.task /\ worker'.item = worker.item
      /\ worker'.at = p /\ worker'.driver = worker.driver /\ worker'.request = n
  <2>1. worker \in WorkerStates
    BY WorkerType DEF StreamInv
  <2>2. p \in Places
    BY DEF Places
  <2> QED BY <2>1, <2>2 DEF WorkerStates
<1>2. wrapper.retries \in 0..MaxRetries /\ wrapper' = [wrapper EXCEPT !.retries = wrapper.retries]
  BY DEF StreamInv, TypeOK
<1>3. worker.item.kind \in {"none", "error"}
  BY Parts DEF StreamInv, SealHolds, WorkerPhase, Items
<1>4. RetryBudget'
  BY <1>1 DEF StreamInv, RetryBudget
<1>5. LateBudget'
  BY <1>1 DEF StreamInv, LateBudget, Live, engineState
<1> QED BY <1>1, <1>2, <1>3, <1>4, <1>5, Parts, WorkerMoves DEF StreamInv, Reading, Opening

(* A request fails, or is made again. *)
LEMMA Requests == StreamInv /\ (requestFails \/ requestAgain) => StreamInv'
<1> SUFFICES ASSUME StreamInv, requestFails \/ requestAgain PROVE StreamInv'
  OBVIOUS
<1>1. CASE requestFails
  <2>1. worker.request \in 0..MaxAttempts /\ worker \in WorkerStates
    BY Parts, WorkerType DEF StreamInv
  <2>2. worker' = [worker EXCEPT !.at = "rest", !.request = worker.request]
    BY <1>1, <2>1 DEF requestFails, WorkerStates
  <2> QED BY <1>1, <2>1, <2>2, RequestMoves DEF requestFails
<1>2. CASE requestAgain /\ OpenFailed("ctx")
  BY <1>2, OpenFailedMoves DEF requestAgain
<1>3. CASE requestAgain /\ worker' = [worker EXCEPT !.at = "open", !.request = @ + 1]
  <2>1. worker.request + 1 \in 0..MaxAttempts
    BY <1>3, Parts DEF StreamInv, RetryBudget, requestAgain
  <2> QED BY <1>3, <2>1, RequestMoves DEF requestAgain
<1> QED BY <1>1, <1>2, <1>3 DEF requestAgain

(* The failures of open and the waits of openStreamWithRetry. *)
LEMMA OpenWaits == StreamInv /\ (openFails \/ approveOpen \/ backoffEnds) => StreamInv'
<1> SUFFICES ASSUME StreamInv, openFails \/ approveOpen \/ backoffEnds PROVE StreamInv'
  OBVIOUS
<1>1. CASE openFails
  <2>1. CASE OpenFailed("ctx") \/ OpenFailed("other")
    BY <1>1, <2>1, OpenFailedMoves DEF openFails
  <2>2. CASE ~RetriesSpent /\ Goto("approve")
    <3>1. wrapper.retries < MaxRetries
      BY <2>2, Parts DEF StreamInv, RetriesSpent
    <3> QED BY <1>1, <2>2, <3>1, GotoMoves DEF openFails, Opening
  <2> QED BY <1>1, <2>1, <2>2 DEF openFails
<1>2. CASE approveOpen
  <2>1. CASE OpenFailed("ctx") \/ OpenFailed("other")
    BY <1>2, <2>1, OpenFailedMoves DEF approveOpen
  <2>2. CASE Live /\ Goto("backoff")
    <3>1. wrapper.retries < MaxRetries
      BY <1>2 DEF StreamInv, RetryBudget, approveOpen
    <3> QED BY <1>2, <2>2, <3>1, GotoMoves DEF approveOpen, Opening
  <2> QED BY <1>2, <2>1, <2>2 DEF approveOpen
<1>3. CASE backoffEnds
  <2>1. CASE OpenFailed("ctx") /\ UNCHANGED <<wrapper, attempts, late>>
    BY <1>3, <2>1, OpenFailedMoves DEF backoffEnds
  <2>2. CASE CallOpen /\ wrapper' = [wrapper EXCEPT !.retries = @ + 1]
    <3>1. wrapper.retries + 1 \in 0..MaxRetries
      <4>1. worker.at = "backoff"
        BY <1>3 DEF backoffEnds
      <4>2. wrapper.retries < MaxRetries
        BY <4>1 DEF StreamInv, RetryBudget
      <4>3. wrapper.retries \in Nat /\ MaxRetries \in Nat
        BY Parts DEF StreamInv
      <4> QED BY <4>2, <4>3
    <3>2. /\ wrapper'.retries = wrapper.retries + 1 /\ UNCHANGED ctx
          /\ wrapper' = [wrapper EXCEPT !.retries = wrapper.retries + 1]
      <4>1. DOMAIN wrapper = {"current", "retries", "emitted", "terminal", "closed"}
        BY DEF StreamInv, TypeOK
      <4>2. wrapper' = [wrapper EXCEPT !.retries = @ + 1] /\ UNCHANGED ctx
        BY <1>3, <2>2 DEF backoffEnds, engineState
      <4> QED BY <4>1, <4>2
    <3>3. worker.item.kind \in {"none", "error"}
      BY <1>3, Parts DEF StreamInv, SealHolds, WorkerPhase, Items, backoffEnds
    <3> QED BY <1>3, <2>2, <3>1, <3>2, <3>3, CallOpenCounts, WorkerMoves DEF backoffEnds, Reading, Opening
  <2> QED BY <1>3, <2>1, <2>2 DEF backoffEnds
<1> QED BY <1>1, <1>2, <1>3

(* Close of one raw stream. *)
LEMMA Closing ==
    ASSUME TypeOK, NEW c \in 0..Len(raw), raw' = [raw EXCEPT ![c].open = FALSE]
    PROVE  /\ raw' \in Seq(RawStreams) /\ Len(raw') = Len(raw) /\ DOMAIN raw' = DOMAIN raw
           /\ \A i \in DOMAIN raw : raw'[i].open <=> raw[i].open /\ i # c
<1>1. /\ raw \in Seq(RawStreams) /\ Len(raw) \in Nat /\ DOMAIN raw = 1..Len(raw)
      /\ \A i \in DOMAIN raw : raw[i] \in RawStreams
  BY Parts DEF TypeOK, RawStreams
<1>2. \A i \in DOMAIN raw : raw'[i] = IF i = c THEN [raw[i] EXCEPT !.open = FALSE] ELSE raw[i]
  BY <1>1
<1>3. \A i \in DOMAIN raw : raw'[i] \in RawStreams /\ (raw'[i].open <=> raw[i].open /\ i # c)
  BY <1>1, <1>2 DEF RawStreams
<1>4. DOMAIN raw' = 1..Len(raw)
  BY <1>1
<1>5. raw' \in [1..Len(raw) -> RawStreams]
  BY <1>1, <1>3, <1>4
<1>6. raw' \in Seq(RawStreams) /\ Len(raw') = Len(raw)
  BY <1>1, <1>5
<1> QED BY <1>1, <1>3, <1>4, <1>6

(* approveStreamRetryAndWait in Recv: a refused error event is terminal.     *)
LEMMA Judges == StreamInv /\ judge => StreamInv'
<1> SUFFICES ASSUME StreamInv, judge PROVE StreamInv'
  OBVIOUS
<1>1. /\ worker.at = "judge" /\ worker.task = "read" /\ wrapper.current # 0
      /\ UNCHANGED <<engineState, raw, attempts, late>>
      /\ wrapper.retries \in 0..MaxRetries /\ wrapper.retries < MaxRetries
      /\ attempts[worker.driver] <= wrapper.retries + 1
      /\ wrapper = [wrapper EXCEPT !.retries = wrapper.retries]
  BY DEF judge, StreamInv, WorkerPhase, Reading, RetryBudget, TypeOK
<1>2. worker.item \in Items /\ worker.item.kind \in {"none", "error"}
  BY <1>1, Parts DEF StreamInv, SealHolds, WorkerPhase, Items
<1>3. /\ Item("none", "ctx") \in Items /\ Item("none", "ctx").kind = "none"
      /\ Item("none", "other") \in Items /\ Item("none", "other").kind = "none"
  BY DEF Items, Item, Errors
<1>4. CASE Deliver(Item("none", "ctx")) /\ UNCHANGED wrapper
  BY <1>1, <1>3, <1>4, DeliverMoves
<1>5. CASE Deliver(Item("none", "other")) /\ UNCHANGED wrapper
  BY <1>1, <1>3, <1>5, DeliverMoves
<1>6. CASE Live /\ Goto("pause") /\ UNCHANGED wrapper
  BY <1>1, <1>6, GotoMoves
<1>7. CASE Deliver(worker.item) /\ wrapper' = [wrapper EXCEPT !.terminal = worker.item.kind = "error"]
  <2>1. /\ worker' \in WorkerStates /\ worker'.task = "read" /\ worker'.item = worker.item
        /\ worker'.at = "done" /\ worker'.driver = worker.driver
    <3>1. worker \in WorkerStates
      BY WorkerType DEF StreamInv
    <3> QED BY <1>1, <1>2, <1>7, <3>1, Members DEF Deliver, WorkerStates
  <2>2. /\ wrapper'.current = wrapper.current /\ wrapper'.retries = wrapper.retries
        /\ wrapper'.emitted = wrapper.emitted
        /\ wrapper' \in [current : 0..Len(raw), retries : 0..MaxRetries, emitted : BOOLEAN,
                         terminal : BOOLEAN, closed : BOOLEAN]
    BY <1>7 DEF StreamInv, TypeOK
  <2>3. UNCHANGED <<ctx, engine, outcome, raw, turn, attempts, late>>
    BY <1>1 DEF engineState
  <2>4. TypeOK'
    <3>1. worker' \in [task : {"open", "read"},
                   at : {"enter", "open", "rest", "approve", "backoff", "recv", "judge", "pause", "done"},
                   driver : 1..Drivers, request : 0..MaxAttempts,
                   item : [kind : {"none", "output", "done", "error", "stream"}, err : Errors]]
      BY <2>1 DEF WorkerStates, Items, Places
    <3> QED BY <1>1, <2>2, <2>3, <3>1 DEF StreamInv, TypeOK
  <2>5. ~Sealed
    BY <1>1 DEF StreamInv, SealHolds
  <2>6. WorkerPhase' /\ SealHolds'
    BY <1>1, <1>2, <2>1, <2>2, <2>3, <2>5 DEF StreamInv, WorkerPhase, SealHolds, Reading
  <2>7. RetryBudget' /\ LateBudget'
    BY <1>1, <2>1, <2>2, <2>3 DEF StreamInv, RetryBudget, LateBudget, Live
  <2>8. OpenStreams' /\ TerminalSeen'
    BY <1>1, <2>1, <2>2, <2>3, <2>5 DEF StreamInv, OpenStreams, Opening, TerminalSeen, FinishedTurnKept
  <2> QED BY <2>4, <2>6, <2>7, <2>8 DEF StreamInv
<1> QED BY <1>4, <1>5, <1>6, <1>7 DEF judge

(* The pause before a reopening is cut short. *)
LEMMA PauseCancelled == StreamInv /\ pauseCancelled => StreamInv'
<1> SUFFICES ASSUME StreamInv, pauseCancelled PROVE StreamInv'
  OBVIOUS
<1>1. /\ worker.at = "pause" /\ UNCHANGED <<engineState, raw, attempts, late>>
      /\ wrapper.retries \in 0..MaxRetries /\ attempts[worker.driver] <= wrapper.retries + 1
      /\ wrapper' = [wrapper EXCEPT !.retries = wrapper.retries]
  BY DEF pauseCancelled, StreamInv, RetryBudget, TypeOK
<1>2. Item("none", "ctx") \in Items /\ Item("none", "ctx").kind = "none"
  BY DEF Items, Item, Errors
<1> QED BY <1>1, <1>2, DeliverMoves DEF pauseCancelled

(* The failed stream is closed before the next is opened. *)
LEMMA Reopens == StreamInv /\ reopen => StreamInv'
<1> SUFFICES ASSUME StreamInv, reopen PROVE StreamInv'
  OBVIOUS
<1>1. /\ worker.at = "pause" /\ worker.task = "read" /\ wrapper.current # 0 /\ ~Sealed
      /\ wrapper.retries < MaxRetries /\ wrapper.retries \in 0..MaxRetries
      /\ wrapper' = [wrapper EXCEPT !.retries = @ + 1] /\ CallOpen
      /\ UNCHANGED <<ctx, engine, outcome, turn>>
      /\ wrapper.current \in 0..Len(raw)
  BY DEF reopen, StreamInv, WorkerPhase, Reading, RetryBudget, TypeOK, SealHolds, engineState
<1>2. /\ wrapper'.current = wrapper.current /\ wrapper'.retries = wrapper.retries + 1
      /\ wrapper'.emitted = wrapper.emitted /\ wrapper'.terminal = wrapper.terminal
      /\ wrapper' \in [current : 0..Len(raw), retries : 0..MaxRetries, emitted : BOOLEAN,
                       terminal : BOOLEAN, closed : BOOLEAN]
  <2>1. wrapper.retries + 1 \in 0..MaxRetries
    BY <1>1, StreamAssumption
  <2> QED BY <1>1, <2>1 DEF StreamInv, TypeOK
<1>3. /\ worker' \in WorkerStates /\ worker'.task = worker.task /\ worker'.item = worker.item
      /\ worker'.at = "open" /\ worker'.driver = worker.driver
      /\ attempts' \in [1..Drivers -> Nat] /\ late' \in Nat
      /\ RetryBudget' /\ LateBudget'
  BY <1>1, <1>2, CallOpenCounts
<1>4. /\ raw' \in Seq(RawStreams) /\ Len(raw') = Len(raw) /\ DOMAIN raw' = DOMAIN raw
      /\ \A i \in DOMAIN raw : raw'[i].open <=> raw[i].open /\ i # wrapper.current
  BY <1>1, Closing DEF reopen, CloseCurrent, StreamInv
<1>5. \A i \in DOMAIN raw' : ~raw'[i].open
  BY <1>4 DEF StreamInv, OpenStreams
<1>6. TypeOK'
  <2>1. worker' \in [task : {"open", "read"},
                 at : {"enter", "open", "rest", "approve", "backoff", "recv", "judge", "pause", "done"},
                 driver : 1..Drivers, request : 0..MaxAttempts,
                 item : [kind : {"none", "output", "done", "error", "stream"}, err : Errors]]
    BY <1>3 DEF WorkerStates, Items, Places
  <2> QED BY <1>1, <1>2, <1>3, <1>4, <2>1 DEF StreamInv, TypeOK, RawStreams
<1>7. worker.item.kind \in {"none", "error"}
  BY <1>1, Parts DEF StreamInv, SealHolds, WorkerPhase, Items
<1>8. WorkerPhase' /\ SealHolds'
  BY <1>1, <1>2, <1>3, <1>7 DEF StreamInv, WorkerPhase, SealHolds, Sealed, Reading
<1>9. OpenStreams'
  BY <1>1, <1>2, <1>3, <1>4, <1>5 DEF StreamInv, OpenStreams
<1>10. TerminalSeen'
  BY <1>1 DEF StreamInv, TerminalSeen, FinishedTurnKept
<1> QED BY <1>3, <1>6, <1>8, <1>9, <1>10 DEF StreamInv

(* open returns a stream: the only one that is open. *)
LEMMA OpenSucceeds == StreamInv /\ openSucceeds => StreamInv'
<1> SUFFICES ASSUME StreamInv, openSucceeds PROVE StreamInv'
  OBVIOUS
<1> DEFINE new == [driver |-> worker.driver, open |-> TRUE, ended |-> FALSE]
<1>1. /\ worker.at = "open" /\ ~Sealed
      /\ raw' = Append(raw, new) /\ wrapper' = [wrapper EXCEPT !.current = Len(raw) + 1]
      /\ UNCHANGED <<ctx, engine, outcome, turn, attempts, late>>
  BY DEF openSucceeds, StreamInv, SealHolds, engineState
<1>2. /\ raw \in Seq(RawStreams) /\ new \in RawStreams /\ Len(raw) \in Nat
  BY Parts DEF StreamInv, TypeOK, RawStreams
<1>3. /\ raw' \in Seq(RawStreams) /\ Len(raw') = Len(raw) + 1 /\ DOMAIN raw' = 1..(Len(raw) + 1)
      /\ \A i \in DOMAIN raw' : raw'[i].open => i = Len(raw) + 1
  <2>1. /\ raw' \in Seq(RawStreams) /\ Len(raw') = Len(raw) + 1
        /\ \A i \in 1..Len(raw) : raw'[i] = raw[i]
    BY <1>1, <1>2
  <2>2. \A i \in 1..Len(raw) : ~raw[i].open
    BY <1>1, Parts DEF StreamInv, OpenStreams, Opening
  <2> QED BY <1>2, <2>1, <2>2
<1>4. /\ wrapper'.current = Len(raw) + 1 /\ wrapper'.retries = wrapper.retries
      /\ wrapper'.emitted = wrapper.emitted /\ wrapper'.terminal = wrapper.terminal
      /\ wrapper' \in [current : 0..(Len(raw) + 1), retries : 0..MaxRetries, emitted : BOOLEAN,
                       terminal : BOOLEAN, closed : BOOLEAN]
  <2>1. Len(raw) + 1 \in 0..(Len(raw) + 1) /\ wrapper.current \in 0..(Len(raw) + 1)
    BY <1>2, Parts DEF StreamInv
  <2> QED BY <1>1, <2>1 DEF StreamInv, TypeOK
<1>5. PICK p \in {"recv", "done"}, item \in Items :
         /\ worker' = [worker EXCEPT !.at = p, !.request = 0, !.item = item]
         /\ worker.task = "open" => p = "done" /\ item.kind = "stream"
         /\ worker.task = "read" => item.kind \in {"none", "error"}
  <2>1. worker \in WorkerStates /\ worker.item \in Items /\ worker.item.kind \in {"none", "error"}
    BY <1>1, WorkerType, Parts DEF StreamInv, SealHolds, WorkerPhase, Items
  <2>2. CASE worker.task = "open" /\ Deliver(Item("stream", "none"))
    BY <2>2 DEF Deliver, Item, Items, Errors
  <2>3. CASE worker.task = "read" /\ Goto("recv")
    <3>1. worker' = [worker EXCEPT !.at = "recv", !.request = 0, !.item = worker.item]
      BY <2>1, <2>3 DEF Goto, WorkerStates
    <3> QED BY <2>1, <2>3, <3>1
  <2>4. CASE worker.task = "read" /\ Deliver(Item("none", "other"))
    <3>1. Item("none", "other") \in Items /\ Item("none", "other").kind = "none"
      BY DEF Item, Items, Errors
    <3> QED BY <2>4, <3>1 DEF Deliver
  <2> QED BY <2>2, <2>3, <2>4 DEF openSucceeds
<1>6. /\ worker' \in WorkerStates /\ worker'.task = worker.task /\ worker'.item = item
      /\ worker'.at = p /\ worker'.driver = worker.driver
  <2>1. worker \in WorkerStates /\ p \in Places
    BY WorkerType DEF StreamInv, Places
  <2> QED BY <1>5, <2>1, Members DEF WorkerStates
<1>7. TypeOK'
  <2>1. worker' \in [task : {"open", "read"},
                 at : {"enter", "open", "rest", "approve", "backoff", "recv", "judge", "pause", "done"},
                 driver : 1..Drivers, request : 0..MaxAttempts,
                 item : [kind : {"none", "output", "done", "error", "stream"}, err : Errors]]
    BY <1>6 DEF WorkerStates, Items, Places
  <2>2. turn \in [events : 0..MaxEvents, sawTerminal : BOOLEAN,
                 terminal : {"none", "done", "error", "broken"},
                 sources : SUBSET (1..(Len(raw) + 1)), reading : 0..(Len(raw) + 1)]
    BY <1>2 DEF StreamInv, TypeOK
  <2>3. wrapper'.current # 0
    BY <1>2, <1>4
  <2> QED BY <1>1, <1>3, <1>4, <2>1, <2>2, <2>3 DEF StreamInv, TypeOK, RawStreams
<1>8. ~Sealed'
  BY <1>1, <1>4 DEF Sealed
<1>9. worker.task \in {"open", "read"}
  BY Parts DEF StreamInv
<1>10. WorkerPhase' /\ SealHolds'
  BY <1>1, <1>4, <1>5, <1>6, <1>8, <1>9 DEF StreamInv, WorkerPhase, SealHolds, Reading
<1>11. RetryBudget' /\ LateBudget'
  BY <1>1, <1>4, <1>6 DEF StreamInv, RetryBudget, LateBudget, Live
<1>12. OpenStreams'
  <2>1. turn.reading < Len(raw) + 1
    BY <1>2, Parts DEF StreamInv
  <2>2. ~(engine \in {"leaving", "done"} /\ outcome \in {"complete", "failed"})
    BY <1>1 DEF StreamInv, OpenStreams
  <2>3. \A i \in DOMAIN raw' : raw'[i].open => i = wrapper'.current /\ i > turn.reading
    BY <1>2, <1>3, <1>4, <2>1, Parts DEF StreamInv
  <2>4. turn.reading <= wrapper'.current /\ wrapper'.current = Len(raw')
    BY <1>2, <1>3, <1>4, <2>1, Parts DEF StreamInv
  <2> QED BY <1>1, <1>5, <1>6, <1>9, <2>2, <2>3, <2>4 DEF OpenStreams, Opening
<1>13. TerminalSeen'
  BY <1>1 DEF StreamInv, TerminalSeen, FinishedTurnKept
<1> QED BY <1>7, <1>10, <1>11, <1>12, <1>13 DEF StreamInv

(* Recv reads: what it makes of an event seals the wrapper or may be retried. *)
LEMMA RecvMoves ==
    ASSUME StreamInv, worker.at = "recv", UNCHANGED <<engineState, attempts, late>>,
           raw' \in Seq(RawStreams), Len(raw') = Len(raw),
           \A i \in DOMAIN raw : raw'[i].open = raw[i].open,
           wrapper' \in [current : 0..Len(raw), retries : 0..MaxRetries, emitted : BOOLEAN,
                         terminal : BOOLEAN, closed : BOOLEAN],
           wrapper'.current = wrapper.current, wrapper'.retries = wrapper.retries,
           Sealed => Sealed',
           worker' \in WorkerStates, worker'.task = worker.task, worker'.driver = worker.driver,
           worker'.at \in {"judge", "done"}, worker'.item.kind # "stream",
           worker'.at = "judge" => ~Sealed' /\ wrapper.retries < MaxRetries,
           worker'.item.kind \in {"output", "done"} => Sealed' /\ worker'.at = "done"
    PROVE  StreamInv'
<1>1. UNCHANGED <<ctx, engine, outcome, turn, attempts, late>> /\ worker.task = "read"
  BY DEF engineState, StreamInv, WorkerPhase, Reading
<1>2. DOMAIN raw' = DOMAIN raw
  BY Parts DEF StreamInv
<1>3. TypeOK'
  <2>1. worker' \in [task : {"open", "read"},
                 at : {"enter", "open", "rest", "approve", "backoff", "recv", "judge", "pause", "done"},
                 driver : 1..Drivers, request : 0..MaxAttempts,
                 item : [kind : {"none", "output", "done", "error", "stream"}, err : Errors]]
    BY DEF WorkerStates, Items, Places
  <2> QED BY <1>1, <2>1 DEF StreamInv, TypeOK, RawStreams
<1>4. WorkerPhase' /\ SealHolds'
  BY <1>1 DEF StreamInv, WorkerPhase, SealHolds, Reading
<1>5. RetryBudget' /\ LateBudget'
  BY <1>1 DEF StreamInv, RetryBudget, LateBudget, Live
<1>6. OpenStreams'
  BY <1>1, <1>2 DEF StreamInv, OpenStreams, Opening
<1>7. TerminalSeen'
  BY <1>1 DEF StreamInv, TerminalSeen, FinishedTurnKept
<1> QED BY <1>3, <1>4, <1>5, <1>6, <1>7 DEF StreamInv

(* retryingStream.Recv up to the decision to retry. *)
LEMMA Receives == StreamInv /\ recv => StreamInv'
<1> SUFFICES ASSUME StreamInv, recv PROVE StreamInv'
  OBVIOUS
<1>1. PICK item \in RawItems :
        /\ raw' = [raw EXCEPT ![wrapper.current].ended = @ \/ item.kind \in {"done", "error"}]
        /\ IF AsksRetry(item)
           THEN /\ worker' = [worker EXCEPT
                    !.item = IF item.err = "ctx" THEN item
                             ELSE IF RetriesSpent /\ item.err = "eof" THEN Item("none", "other")
                             ELSE item,
                    !.at = IF item.err = "ctx" \/ RetriesSpent THEN "done" ELSE "judge"]
                /\ UNCHANGED wrapper
           ELSE Deliver(Classified(item)) /\ wrapper' = Classify(item)
  BY DEF recv
<1>2. worker.at = "recv" /\ UNCHANGED <<engineState, attempts, late>>
  BY DEF recv
<1>3. item \in Items /\ item.kind # "stream"
  BY DEF RawItems, Item, Items, Errors
<1>4. /\ raw' \in Seq(RawStreams) /\ Len(raw') = Len(raw)
      /\ \A i \in DOMAIN raw : raw'[i].open = raw[i].open
  <2>1. /\ raw \in Seq(RawStreams) /\ Len(raw) \in Nat /\ DOMAIN raw = 1..Len(raw)
        /\ \A i \in DOMAIN raw : raw[i] \in RawStreams
    BY Parts DEF StreamInv, TypeOK, RawStreams
  <2>2. \A i \in DOMAIN raw : \E b \in BOOLEAN : raw'[i] = [raw[i] EXCEPT !.ended = b] \/ raw'[i] = raw[i]
    <3>1. \A i \in DOMAIN raw : raw[i].ended \in BOOLEAN
      BY <2>1 DEF RawStreams
    <3> QED BY <1>1, <2>1, <3>1
  <2>3. \A i \in DOMAIN raw : raw'[i] \in RawStreams /\ raw'[i].open = raw[i].open
    BY <2>1, <2>2 DEF RawStreams
  <2>4. raw' \in [1..Len(raw) -> RawStreams]
    BY <1>1, <2>1, <2>3
  <2> QED BY <2>1, <2>3, <2>4
<1>5. /\ worker \in WorkerStates
      /\ wrapper \in [current : 0..Len(raw), retries : 0..MaxRetries, emitted : BOOLEAN,
                      terminal : BOOLEAN, closed : BOOLEAN]
  BY WorkerType DEF StreamInv, TypeOK
<1>6. CASE AsksRetry(item)
  <2>1. PICK got \in Items, p \in {"judge", "done"} :
           /\ worker' = [worker EXCEPT !.item = got, !.at = p]
           /\ got.kind \in {"none", "error"} /\ (p = "judge" => ~RetriesSpent)
    <3>1. Item("none", "other") \in Items /\ Item("none", "other").kind = "none"
      BY DEF Item, Items, Errors
    <3> QED BY <1>1, <1>3, <1>6, <3>1 DEF AsksRetry
  <2>2. /\ worker' \in WorkerStates /\ worker'.task = worker.task /\ worker'.driver = worker.driver
        /\ worker'.item = got /\ worker'.at = p
    BY <1>5, <2>1, Members DEF WorkerStates
  <2>3. ~Sealed /\ UNCHANGED wrapper /\ ~Sealed'
    BY <1>1, <1>6 DEF AsksRetry, Sealed
  <2>4. ~RetriesSpent => wrapper.retries < MaxRetries
    BY Parts DEF StreamInv, RetriesSpent
  <2> QED BY <1>2, <1>4, <1>5, <2>1, <2>2, <2>3, <2>4, RecvMoves
<1>7. CASE ~AsksRetry(item)
  <2>1. Deliver(Classified(item)) /\ wrapper' = Classify(item)
    BY <1>1, <1>7
  <2>2. Classified(item) \in Items /\ Classified(item).kind # "stream"
    BY <1>3 DEF Classified, Item, Items, Errors
  <2>3. /\ wrapper' \in [current : 0..Len(raw), retries : 0..MaxRetries, emitted : BOOLEAN,
                         terminal : BOOLEAN, closed : BOOLEAN]
        /\ wrapper'.current = wrapper.current /\ wrapper'.retries = wrapper.retries
        /\ Sealed => Sealed'
        /\ item.kind \in {"output", "done"} => Sealed'
    BY <1>5, <2>1 DEF Classify, Sealed
  <2>4. Classified(item).kind \in {"output", "done"} => item.kind \in {"output", "done"}
    BY DEF Classified, Item
  <2>5. /\ worker' \in WorkerStates /\ worker'.task = worker.task /\ worker'.driver = worker.driver
        /\ worker'.item = Classified(item) /\ worker'.at = "done"
    BY <1>5, <2>1, <2>2, Members DEF Deliver, WorkerStates
  <2> QED BY <1>2, <1>4, <2>2, <2>3, <2>4, <2>5, RecvMoves
<1> QED BY <1>6, <1>7

-----------------------------------------------------------------------------
(* The engine. *)

(* A step of the engine that leaves the streams alone, before one is read.   *)
LEMMA OpeningEnds ==
    ASSUME StreamInv, engine = "opening", takeOpened \/ connectTimeout \/ openCancelled
    PROVE  StreamInv'
<1>1. UNCHANGED <<turn, raw, wrapper, worker, attempts, late>> /\ worker.task = "open"
  BY DEF takeOpened, connectTimeout, openCancelled, streamState, StreamInv, WorkerPhase
<1>2. CASE engine' = "top" /\ UNCHANGED <<ctx, outcome>> /\ worker.at = "done" /\ worker.item.kind = "stream"
  <2>1. TypeOK'
    BY <1>1, <1>2 DEF StreamInv, TypeOK
  <2>2. outcome = "none" /\ wrapper.current # 0
    BY <1>1, <1>2 DEF StreamInv, TypeOK, OpenStreams
  <2>3. WorkerPhase' /\ OpenStreams'
    BY <1>1, <1>2, <2>2 DEF StreamInv, WorkerPhase, OpenStreams
  <2> QED BY <1>1, <1>2, <2>1, <2>3
          DEF StreamInv, RetryBudget, LateBudget, SealHolds, Sealed, TerminalSeen, FinishedTurnKept, Live
<1>3. CASE Leave("failed") /\ UNCHANGED ctx /\ worker.at = "done" /\ worker.item.kind # "stream"
  <2>1. TypeOK'
    BY <1>1, <1>3 DEF StreamInv, TypeOK, Leave
  <2>2. raw = << >>
    BY <1>1, <1>3 DEF StreamInv, OpenStreams
  <2>3. WorkerPhase' /\ OpenStreams'
    BY <1>1, <1>3, <2>2 DEF StreamInv, WorkerPhase, OpenStreams, Leave
  <2> QED BY <1>1, <1>3, <2>1, <2>3
          DEF StreamInv, RetryBudget, LateBudget, SealHolds, Sealed, TerminalSeen, FinishedTurnKept, Live, Leave
<1>4. ASSUME NEW how \in {"connectTimeout", "abandoned"}, Leave(how),
             \/ Live /\ ctx' = "canceled"
             \/ ~Live /\ UNCHANGED ctx
      PROVE  StreamInv'
  <2>1. TypeOK'
    BY <1>1, <1>4 DEF StreamInv, TypeOK, Leave
  <2>2. turn.reading = 0 /\ \A i \in DOMAIN raw : i > 0
    BY <1>1, Parts DEF StreamInv, WorkerPhase
  <2>3. WorkerPhase' /\ OpenStreams'
    BY <1>1, <1>4, <2>2 DEF StreamInv, WorkerPhase, OpenStreams, Leave
  <2>4. LateBudget' /\ TerminalSeen'
    BY <1>1, <1>4 DEF StreamInv, LateBudget, TerminalSeen, FinishedTurnKept, Live, Leave
  <2> QED BY <1>1, <2>1, <2>3, <2>4 DEF StreamInv, RetryBudget, SealHolds, Sealed
<1> QED BY <1>2, <1>3, <1>4 DEF takeOpened, connectTimeout, openCancelled

(* Close, against a Recv that may still run: a stream it misses is one that  *)
(* this Recv opened.                                                        *)
LEMMA CloseFacts ==
    ASSUME StreamInv, Close
    PROVE  /\ raw' \in Seq(RawStreams) /\ Len(raw') = Len(raw) /\ DOMAIN raw' = DOMAIN raw
           /\ \A i \in DOMAIN raw : raw'[i].open => raw[i].open /\ i > turn.reading
           /\ worker.at = "done" \/ Sealed => \A i \in DOMAIN raw : ~raw'[i].open
           /\ wrapper' \in [current : 0..Len(raw), retries : 0..MaxRetries, emitted : BOOLEAN,
                            terminal : BOOLEAN, closed : BOOLEAN]
           /\ wrapper'.current = wrapper.current /\ wrapper'.retries = wrapper.retries
           /\ Sealed' = Sealed
<1>1. PICK c \in IF worker.at = "done" THEN {wrapper.current} ELSE turn.reading..wrapper.current :
         raw' = [raw EXCEPT ![c].open = FALSE]
  BY DEF Close
<1>2. /\ Len(raw) \in Nat /\ DOMAIN raw = 1..Len(raw)
      /\ wrapper.current \in 0..Len(raw) /\ turn.reading \in 0..Len(raw)
  BY Parts DEF StreamInv
<1>3. c \in 0..Len(raw) /\ c >= turn.reading
  BY <1>2 DEF StreamInv, OpenStreams
<1>4. /\ raw' \in Seq(RawStreams) /\ Len(raw') = Len(raw) /\ DOMAIN raw' = DOMAIN raw
      /\ \A i \in DOMAIN raw : raw'[i].open <=> raw[i].open /\ i # c
  BY <1>1, <1>3, Closing DEF StreamInv
<1>5. \A i \in DOMAIN raw : raw'[i].open => i > turn.reading
  BY <1>1, <1>2, <1>3, <1>4 DEF StreamInv, OpenStreams
<1>6. ASSUME worker.at = "done" \/ Sealed PROVE c = wrapper.current
  BY <1>1, <1>2, <1>6 DEF StreamInv, SealHolds
<1>7. /\ wrapper' \in [current : 0..Len(raw), retries : 0..MaxRetries, emitted : BOOLEAN,
                       terminal : BOOLEAN, closed : BOOLEAN]
      /\ wrapper'.current = wrapper.current /\ wrapper'.retries = wrapper.retries
      /\ Sealed' = Sealed
  BY DEF Close, StreamInv, TypeOK, Sealed
<1> QED BY <1>4, <1>5, <1>6, <1>7 DEF StreamInv, OpenStreams

(* The engine leaves and closes the stream. *)
LEMMA EngineLeaves ==
    ASSUME StreamInv, Close, UNCHANGED <<ctx, worker, attempts, late>>,
           engine \in {"top", "waiting"},
           NEW how \in {"complete", "failed", "interrupted", "idle"}, Leave(how),
           turn' \in [events : 0..MaxEvents, sawTerminal : BOOLEAN,
                      terminal : {"none", "done", "error", "broken"},
                      sources : SUBSET (1..Len(raw)), reading : 0..Len(raw)],
           turn'.reading = turn.reading, worker.task = "open" => UNCHANGED turn,
           turn'.sources # {} \/ turn'.sawTerminal => Sealed,
           turn'.terminal = "done" => turn'.sawTerminal,
           how \in {"complete", "failed"} => worker.task = "read" /\ (worker.at = "done" \/ Sealed),
           how = "interrupted" /\ turn'.terminal = "done" => ctx = "steer"
    PROVE  StreamInv'
<1>1. /\ raw' \in Seq(RawStreams) /\ Len(raw') = Len(raw) /\ DOMAIN raw' = DOMAIN raw
      /\ \A i \in DOMAIN raw : raw'[i].open => raw[i].open /\ i > turn.reading
      /\ worker.at = "done" \/ Sealed => \A i \in DOMAIN raw : ~raw'[i].open
      /\ wrapper' \in [current : 0..Len(raw), retries : 0..MaxRetries, emitted : BOOLEAN,
                       terminal : BOOLEAN, closed : BOOLEAN]
      /\ wrapper'.current = wrapper.current /\ wrapper'.retries = wrapper.retries
      /\ Sealed' = Sealed
  BY CloseFacts
<1>2. engine' = "leaving" /\ outcome' = how
  BY DEF Leave
<1>3. TypeOK'
  <2>1. raw' \in Seq([driver : 1..Drivers, open : BOOLEAN, ended : BOOLEAN])
    BY <1>1 DEF RawStreams
  <2>2. TypeOK
    BY DEF StreamInv
  <2> QED BY <1>1, <1>2, <2>1, <2>2 DEF TypeOK
<1>4. WorkerPhase'
  BY <1>1, <1>2 DEF StreamInv, WorkerPhase
<1>5. RetryBudget' /\ LateBudget'
  BY <1>1 DEF StreamInv, RetryBudget, LateBudget, Live
<1>6. SealHolds'
  BY <1>1 DEF StreamInv, SealHolds
<1>7. OpenStreams'
  <2>1. raw = << >> => raw' = << >>
    BY <1>1, Parts DEF StreamInv
  <2> QED BY <1>1, <1>2, <2>1 DEF StreamInv, OpenStreams, SealHolds
<1>8. TerminalSeen'
  BY <1>2 DEF StreamInv, TerminalSeen, FinishedTurnKept
<1> QED BY <1>3, <1>4, <1>5, <1>6, <1>7, <1>8 DEF StreamInv

(* The head of collect's loop. *)
LEMMA NextRecv == StreamInv /\ nextRecv => StreamInv'
<1> SUFFICES ASSUME StreamInv, nextRecv PROVE StreamInv'
  OBVIOUS
<1>1. engine = "top" /\ UNCHANGED <<ctx, attempts, late>> /\ outcome = "none"
  BY DEF nextRecv, StreamInv, TypeOK
<1>2. worker.at = "done" /\ wrapper.current # 0
  BY <1>1 DEF StreamInv, WorkerPhase
<1>3. CASE StopDraining /\ Leave("interrupted") /\ Close /\ UNCHANGED <<worker, turn>>
  <2>1. turn \in [events : 0..MaxEvents, sawTerminal : BOOLEAN,
                  terminal : {"none", "done", "error", "broken"},
                  sources : SUBSET (1..Len(raw)), reading : 0..Len(raw)]
    BY DEF StreamInv, TypeOK
  <2>2. turn.terminal # "done"
    BY <1>3 DEF StreamInv, TerminalSeen, StopDraining
  <2> QED BY <1>1, <1>3, <2>1, <2>2, EngineLeaves DEF StreamInv, SealHolds, TerminalSeen
<1>4. CASE /\ engine' = "waiting"
           /\ worker' = [task |-> "read", at |-> "recv", driver |-> worker.driver,
                         request |-> 0, item |-> Nothing]
           /\ turn' = [turn EXCEPT !.reading = wrapper.current]
           /\ UNCHANGED <<outcome, raw, wrapper>>
  <2>1. /\ worker' \in WorkerStates /\ worker'.task = "read" /\ worker'.at = "recv"
        /\ worker'.driver = worker.driver /\ worker'.item.kind = "none"
    <3>1. Nothing \in Items /\ Nothing.kind = "none"
      BY DEF Nothing, Item, Items, Errors
    <3> QED BY <1>4, <3>1, Members, Parts DEF StreamInv, WorkerStates
  <2>2. /\ turn' \in [events : 0..MaxEvents, sawTerminal : BOOLEAN,
                      terminal : {"none", "done", "error", "broken"},
                      sources : SUBSET (1..Len(raw)), reading : 0..Len(raw)]
        /\ turn'.reading = wrapper.current /\ turn'.sources = turn.sources
        /\ turn'.sawTerminal = turn.sawTerminal /\ turn'.terminal = turn.terminal
    <3>1. /\ turn \in [events : 0..MaxEvents, sawTerminal : BOOLEAN,
                       terminal : {"none", "done", "error", "broken"},
                       sources : SUBSET (1..Len(raw)), reading : 0..Len(raw)]
          /\ wrapper.current \in 0..Len(raw)
      BY Parts DEF StreamInv, TypeOK
    <3> QED BY <1>4, <3>1
  <2>3. TypeOK'
    <3>1. worker' \in [task : {"open", "read"},
                   at : {"enter", "open", "rest", "approve", "backoff", "recv", "judge", "pause", "done"},
                   driver : 1..Drivers, request : 0..MaxAttempts,
                   item : [kind : {"none", "output", "done", "error", "stream"}, err : Errors]]
      BY <2>1 DEF WorkerStates, Items, Places
    <3> QED BY <1>1, <1>2, <1>4, <2>2, <3>1 DEF StreamInv, TypeOK
  <2>4. WorkerPhase'
    BY <1>1, <1>4, <2>1 DEF StreamInv, WorkerPhase
  <2>5. RetryBudget' /\ LateBudget'
    BY <1>1, <1>2, <1>4, <2>1 DEF StreamInv, RetryBudget, LateBudget, Live
  <2>6. SealHolds'
    BY <1>4, <2>1, <2>2 DEF StreamInv, SealHolds, Sealed
  <2>7. OpenStreams'
    BY <1>2, <1>4, <2>1, <2>2, Parts DEF StreamInv, OpenStreams, Opening
  <2>8. TerminalSeen'
    BY <1>1, <1>4, <2>2 DEF StreamInv, TerminalSeen, FinishedTurnKept
  <2> QED BY <2>3, <2>4, <2>5, <2>6, <2>7, <2>8 DEF StreamInv
<1> QED BY <1>3, <1>4 DEF nextRecv

(* What collect records of an event comes from a sealed wrapper. *)
LEMMA RecordedTurn ==
    ASSUME StreamInv, engine = "waiting", worker.at = "done",
           NEW kind \in {"output", "done", "error"}, worker.item.kind = kind
    PROVE  /\ Recorded(kind) \in [events : 0..MaxEvents, sawTerminal : BOOLEAN,
                                  terminal : {"none", "done", "error", "broken"},
                                  sources : SUBSET (1..Len(raw)), reading : 0..Len(raw)]
           /\ Recorded(kind).reading = turn.reading
           /\ Recorded(kind).sources # {} \/ Recorded(kind).sawTerminal => Sealed
           /\ Recorded(kind).terminal = "done" => Recorded(kind).sawTerminal
<1>1. /\ turn \in [events : 0..MaxEvents, sawTerminal : BOOLEAN,
                   terminal : {"none", "done", "error", "broken"},
                   sources : SUBSET (1..Len(raw)), reading : 0..Len(raw)]
      /\ wrapper.current \in 1..Len(raw) /\ worker.task = "read"
  BY Parts DEF StreamInv, TypeOK, WorkerPhase
<1>2. /\ turn.events \in 0..MaxEvents /\ (WithinTurn => turn.events + 1 \in 0..MaxEvents)
  BY <1>1, StreamAssumption DEF WithinTurn
<1>3. PICK n \in 0..MaxEvents, b \in BOOLEAN, t \in {"none", "done", "error", "broken"},
           src \in SUBSET (1..Len(raw)) :
        /\ Recorded(kind) = [turn EXCEPT !.events = n, !.sawTerminal = b, !.terminal = t, !.sources = src]
        /\ b = (turn.sawTerminal \/ kind = "done")
        /\ t = "done" => turn.terminal = "done" \/ kind = "done"
        /\ src # {} => turn.sources # {} \/ kind # "error"
  <2> DEFINE n == IF WithinTurn THEN turn.events + 1 ELSE turn.events
             b == turn.sawTerminal \/ kind = "done"
             t == IF ~WithinTurn THEN turn.terminal
                  ELSE IF turn.terminal # "none" THEN "broken"
                  ELSE IF kind = "output" THEN "none" ELSE kind
             src == IF kind = "error" THEN turn.sources ELSE turn.sources \cup {wrapper.current}
  <2>1. Recorded(kind) = [turn EXCEPT !.events = n, !.sawTerminal = b, !.terminal = t, !.sources = src]
    BY <1>1 DEF Recorded
  <2>2. n \in 0..MaxEvents /\ b \in BOOLEAN
    BY <1>1, <1>2
  <2>3. t \in {"none", "done", "error", "broken"} /\ (t = "done" => turn.terminal = "done" \/ kind = "done")
    BY <1>1
  <2>4. src \in SUBSET (1..Len(raw)) /\ (src # {} => turn.sources # {} \/ kind # "error")
    BY <1>1
  <2> HIDE DEF n, b, t, src
  <2>5. b = (turn.sawTerminal \/ kind = "done")
    BY DEF b
  <2> QED BY <2>1, <2>2, <2>3, <2>4, <2>5
<1>4. /\ Recorded(kind).reading = turn.reading /\ Recorded(kind).sources = src
      /\ Recorded(kind).sawTerminal = b /\ Recorded(kind).terminal = t
      /\ Recorded(kind) \in [events : 0..MaxEvents, sawTerminal : BOOLEAN,
                             terminal : {"none", "done", "error", "broken"},
                             sources : SUBSET (1..Len(raw)), reading : 0..Len(raw)]
  BY <1>1, <1>3
<1>5. turn.terminal = "done" => turn.sawTerminal
  BY DEF StreamInv, TerminalSeen
<1>6. /\ kind # "error" => Sealed
      /\ turn.sources # {} \/ turn.sawTerminal => Sealed
  BY DEF StreamInv, SealHolds
<1> QED BY <1>3, <1>4, <1>5, <1>6

(* collect takes what Recv returned. *)
LEMMA TakeEvent == StreamInv /\ takeEvent => StreamInv'
<1> SUFFICES ASSUME StreamInv, takeEvent PROVE StreamInv'
  OBVIOUS
<1>1. /\ engine = "waiting" /\ worker.at = "done" /\ worker.task = "read"
      /\ UNCHANGED <<ctx, worker, attempts, late>>
  BY DEF takeEvent, StreamInv, WorkerPhase
<1>2. wrapper.current # 0 /\ outcome = "none"
  BY <1>1 DEF StreamInv, TypeOK
<1>3. CASE worker.item.kind \in {"output", "done", "error"} /\ worker.item.err # "partial"
  <2>1. PICK kind \in {"output", "done", "error"} : worker.item.kind = kind
    BY <1>3
  <2>2. /\ turn' \in [events : 0..MaxEvents, sawTerminal : BOOLEAN,
                      terminal : {"none", "done", "error", "broken"},
                      sources : SUBSET (1..Len(raw)), reading : 0..Len(raw)]
        /\ turn'.reading = turn.reading
        /\ turn'.sources # {} \/ turn'.sawTerminal => Sealed
        /\ turn'.terminal = "done" => turn'.sawTerminal
    <3>1. turn' = Recorded(kind)
      BY <1>3, <2>1 DEF takeEvent
    <3> QED BY <1>1, <2>1, <3>1, RecordedTurn
  <2>3. CASE Leave("failed") /\ Close
    BY <1>1, <2>2, <2>3, EngineLeaves
  <2>4. CASE engine' = "top" /\ UNCHANGED <<outcome, raw, wrapper>>
    <3>1. TypeOK'
      BY <1>1, <1>2, <2>2, <2>4 DEF StreamInv, TypeOK
    <3>2. WorkerPhase' /\ SealHolds'
      BY <1>1, <1>2, <2>2, <2>4 DEF StreamInv, WorkerPhase, SealHolds, Sealed, Reading
    <3>3. RetryBudget' /\ LateBudget'
      BY <1>1, <2>4 DEF StreamInv, RetryBudget, LateBudget, Live
    <3>4. OpenStreams'
      BY <1>1, <2>2, <2>4 DEF StreamInv, OpenStreams, Opening
    <3>5. TerminalSeen'
      BY <1>1, <1>2, <2>2, <2>4 DEF StreamInv, TerminalSeen, FinishedTurnKept
    <3> QED BY <3>1, <3>2, <3>3, <3>4, <3>5 DEF StreamInv
  <2> QED BY <1>3, <2>3, <2>4 DEF takeEvent
<1>4. CASE ~(worker.item.kind \in {"output", "done", "error"} /\ worker.item.err # "partial")
  <2>1. PICK how \in {"complete", "failed"} : Leave(how)
    BY <1>4 DEF takeEvent, Normalized
  <2>2. Close /\ UNCHANGED turn
    BY <1>4 DEF takeEvent
  <2>3. turn \in [events : 0..MaxEvents, sawTerminal : BOOLEAN,
                  terminal : {"none", "done", "error", "broken"},
                  sources : SUBSET (1..Len(raw)), reading : 0..Len(raw)]
    BY DEF StreamInv, TypeOK
  <2> QED BY <1>1, <2>1, <2>2, <2>3, EngineLeaves DEF StreamInv, SealHolds, TerminalSeen
<1> QED BY <1>3, <1>4

(* The engine stops waiting for a Recv. *)
LEMMA StopsWaiting == StreamInv /\ (recvCancelled \/ idleTimeout) => StreamInv'
<1> SUFFICES ASSUME StreamInv, recvCancelled \/ idleTimeout PROVE StreamInv'
  OBVIOUS
<1>1. /\ engine = "waiting" /\ worker.task = "read" /\ Close
      /\ UNCHANGED <<ctx, turn, worker, attempts, late>>
  BY DEF recvCancelled, idleTimeout, StreamInv, WorkerPhase
<1>2. turn \in [events : 0..MaxEvents, sawTerminal : BOOLEAN,
                terminal : {"none", "done", "error", "broken"},
                sources : SUBSET (1..Len(raw)), reading : 0..Len(raw)]
  BY DEF StreamInv, TypeOK
<1>3. PICK how \in {"complete", "failed", "interrupted", "idle"} :
        /\ Leave(how)
        /\ how \in {"complete", "failed"} => Tolerated
        /\ how = "interrupted" => ~Tolerated /\ ~Live
  BY DEF recvCancelled, idleTimeout, Normalized
<1>4. Tolerated => Sealed
  BY DEF Tolerated, StreamInv, SealHolds
<1>5. how = "interrupted" /\ turn.terminal = "done" => ctx = "steer"
  <2>1. ctx \in {"live", "canceled", "deadline", "steer"}
    BY StreamAssumption DEF StreamInv, TypeOK
  <2> QED BY <1>3, <2>1 DEF StreamInv, TerminalSeen, Tolerated, Live
<1> QED BY <1>1, <1>2, <1>3, <1>4, <1>5, EngineLeaves DEF StreamInv, SealHolds, TerminalSeen

(* The context of the turn ends. *)
LEMMA ContextEnds == StreamInv /\ (leave \/ cancel) => StreamInv'
<1> SUFFICES ASSUME StreamInv, leave \/ cancel PROVE StreamInv'
  OBVIOUS
<1>1. UNCHANGED <<outcome, turn, raw, wrapper, worker, attempts, late>>
  BY DEF leave, cancel, streamState
<1>2. /\ ctx' = ctx \/ Live
      /\ ctx' \in {"live", "canceled"} \cup Causes /\ (Live => late = 0)
      /\ ctx' = "live" => ctx = "live"
      /\ engine' = engine \/ (engine = "leaving" /\ engine' = "done")
  <2>1. ctx \in {"live", "canceled"} \cup Causes /\ (Live => late = 0)
    BY DEF StreamInv, TypeOK, LateBudget
  <2>2. CASE leave
    <3>1. engine = "leaving" /\ engine' = "done" /\ ctx' = IF ctx = "live" THEN "canceled" ELSE ctx
      BY <2>2 DEF leave, Live
    <3> QED BY <2>1, <3>1 DEF Live
  <2>3. CASE cancel
    <3>1. engine' = engine /\ ctx = "live" /\ ctx' \in Causes
      BY <2>3 DEF cancel, Live
    <3>2. "live" \notin Causes
      BY StreamAssumption
    <3> QED BY <2>1, <3>1, <3>2 DEF Live
  <2> QED BY <2>2, <2>3
<1>3. TypeOK' /\ WorkerPhase'
  BY <1>1, <1>2 DEF StreamInv, TypeOK, WorkerPhase
<1>4. RetryBudget' /\ LateBudget' /\ SealHolds'
  BY <1>1, <1>2 DEF StreamInv, RetryBudget, LateBudget, SealHolds, Sealed, Live
<1>5. OpenStreams'
  BY <1>1, <1>2 DEF StreamInv, OpenStreams, Sealed
<1>6. TerminalSeen'
  BY <1>1, <1>2 DEF StreamInv, TerminalSeen, FinishedTurnKept, Live
<1> QED BY <1>3, <1>4, <1>5, <1>6 DEF StreamInv

(* The goroutine that closes a stream that opens after the connect timeout.  *)
LEMMA CloseLate == StreamInv /\ closeLate => StreamInv'
<1> SUFFICES ASSUME StreamInv, closeLate PROVE StreamInv'
  OBVIOUS
<1>1. UNCHANGED <<ctx, engine, outcome, turn, worker, wrapper, attempts, late>>
  BY DEF closeLate, engineState
<1>2. /\ raw' \in Seq(RawStreams) /\ Len(raw') = Len(raw) /\ DOMAIN raw' = DOMAIN raw
      /\ \A i \in DOMAIN raw : raw'[i].open => raw[i].open
      /\ raw = << >> => raw' = << >>
  <2>1. /\ raw' = [raw EXCEPT ![wrapper.current].open = FALSE] /\ wrapper.current \in 0..Len(raw)
        /\ Len(raw) \in Nat /\ DOMAIN raw = 1..Len(raw) /\ TypeOK
    BY Parts DEF closeLate, CloseCurrent, StreamInv
  <2>2. /\ raw' \in Seq(RawStreams) /\ Len(raw') = Len(raw) /\ DOMAIN raw' = DOMAIN raw
        /\ \A i \in DOMAIN raw : raw'[i].open => raw[i].open
    BY <2>1, Closing
  <2> QED BY <2>1, <2>2
<1>3. TypeOK'
  BY <1>1, <1>2 DEF StreamInv, TypeOK, RawStreams
<1>4. WorkerPhase' /\ RetryBudget' /\ LateBudget' /\ SealHolds' /\ TerminalSeen'
  BY <1>1 DEF StreamInv, WorkerPhase, RetryBudget, LateBudget, SealHolds, Sealed, Live,
              TerminalSeen, FinishedTurnKept
<1>5. OpenStreams'
  BY <1>1, <1>2 DEF StreamInv, OpenStreams, Sealed
<1> QED BY <1>3, <1>4, <1>5 DEF StreamInv

(* A step that changes nothing. *)
LEMMA Stutters == StreamInv /\ UNCHANGED vars => StreamInv'
BY DEF vars, StreamInv, TypeOK, WorkerPhase, RetryBudget, LateBudget, SealHolds, Sealed, Live,
       OpenStreams, TerminalSeen, FinishedTurnKept

(* Every step keeps the invariant. *)
LEMMA NextStream == StreamInv /\ [Next]_vars => StreamInv'
<1> SUFFICES ASSUME StreamInv, [Next]_vars PROVE StreamInv'
  OBVIOUS
<1>1. CASE Worker
  BY <1>1, EnterDriver, Requests, OpenWaits, OpenSucceeds, Receives, Judges, Reopens, PauseCancelled
     DEF Worker
<1>2. CASE Engine
  <2>1. CASE takeOpened \/ connectTimeout \/ openCancelled
    <3>1. engine = "opening"
      BY <2>1 DEF takeOpened, connectTimeout, openCancelled
    <3> QED BY <2>1, <3>1, OpeningEnds
  <2> QED BY <1>2, <2>1, NextRecv, TakeEvent, StopsWaiting, ContextEnds DEF Engine
<1>3. CASE Quiet \/ UNCHANGED vars
  BY <1>3, Stutters DEF Quiet
<1> QED BY <1>1, <1>2, <1>3, CloseLate, ContextEnds DEF Next

(* The invariant holds of every execution. *)
THEOREM StreamInvariance == Spec => []StreamInv
BY InitStream, NextStream, PTL DEF Spec

-----------------------------------------------------------------------------
(* What follows. *)

(* Every variable has its type; no goroutine reads a stream that was never   *)
(* opened.                                                                  *)
THEOREM StreamTypes == Spec => []TypeOK
<1>1. StreamInv => TypeOK
  BY DEF StreamInv
<1> QED BY <1>1, StreamInvariance, PTL

(* fallbackDriver, OpenRetryingStream and DoWithRetry together: a driver is  *)
(* opened at most MaxRetries + 1 times, an open sends at most MaxAttempts    *)
(* requests, and at most one open begins after the context has ended.        *)
THEOREM OpensBounded == Spec => []AttemptsBounded
<1>1. StreamInv => AttemptsBounded
  BY Parts DEF StreamInv, RetryBudget, LateBudget, AttemptsBounded
<1> QED BY <1>1, StreamInvariance, PTL

(* OpenRetryingStream: once output was delivered, or is recorded by collect, *)
(* no step opens a stream again, at any layer of retry.                      *)
THEOREM OutputNeverReplayed == Spec => NeverReplayed
<1>1. ASSUME StreamInv, [Next]_vars, wrapper.emitted \/ turn.sources # {} PROVE UNCHANGED attempts
  <2>1. Sealed
    BY <1>1 DEF StreamInv, SealHolds, Sealed
  <2>2. worker.at \notin {"enter", "backoff", "pause"}
    BY <1>1, <2>1 DEF StreamInv, SealHolds
  <2>3. CASE Worker
    BY <2>2, <2>3 DEF Worker, enterDriver, requestFails, requestAgain, openSucceeds, openFails,
                      approveOpen, backoffEnds, recv, judge, reopen, pauseCancelled
  <2>4. CASE Engine
    BY <2>4 DEF Engine, takeOpened, connectTimeout, openCancelled, nextRecv, takeEvent,
                recvCancelled, idleTimeout, leave, streamState
  <2>5. CASE closeLate \/ cancel \/ Quiet \/ UNCHANGED vars
    BY <2>5 DEF closeLate, cancel, Quiet, vars, streamState
  <2> QED BY <1>1, <2>3, <2>4, <2>5 DEF Next
<1>2. StreamInv /\ [Next]_vars => [wrapper.emitted \/ turn.sources # {} => UNCHANGED attempts]_vars
  BY <1>1
<1> QED BY <1>2, StreamInvariance, PTL DEF Spec, NeverReplayed

(* Close, closeLate and reopen: at most one raw stream is open, and what is  *)
(* still open when all is quiet was opened behind an engine that had left.   *)
THEOREM StreamsClosed == Spec => []StreamsReleased
<1>1. ASSUME StreamInv PROVE Cardinality({i \in DOMAIN raw : raw[i].open}) <= 1
  <2> DEFINE S == {i \in DOMAIN raw : raw[i].open}
  <2>1. S \subseteq {wrapper.current}
    BY <1>1 DEF StreamInv, OpenStreams
  <2>2. IsFiniteSet({wrapper.current}) /\ Cardinality({wrapper.current}) = 1
    BY FS_Singleton
  <2> QED BY <2>1, <2>2, FS_Subset
<1>2. ASSUME StreamInv, engine = "done", worker.at = "done", ~CloseDue,
             NEW i \in DOMAIN raw, raw[i].open
      PROVE  i > turn.reading /\ outcome \in {"abandoned", "interrupted", "idle"}
  <2>1. i > turn.reading /\ i = wrapper.current
    BY <1>2 DEF StreamInv, OpenStreams
  <2>2. outcome \notin {"complete", "failed"}
    BY <1>2 DEF StreamInv, OpenStreams
  <2>3. ASSUME outcome = "connectTimeout" PROVE FALSE
    <3>1. worker.task = "open" /\ raw # << >>
      BY <1>2, <2>3 DEF StreamInv, WorkerPhase
    <3>2. worker.item.kind = "stream"
      BY <1>2, <3>1 DEF StreamInv, OpenStreams
    <3> QED BY <1>2, <2>1, <2>3, <3>2 DEF CloseDue, Current
  <2>4. outcome # "none"
    BY <1>2 DEF StreamInv, TypeOK
  <2>5. outcome \in {"none", "complete", "failed", "connectTimeout", "abandoned", "interrupted", "idle"}
    BY <1>2 DEF StreamInv, TypeOK
  <2> QED BY <2>1, <2>2, <2>3, <2>4, <2>5
<1>3. StreamInv => StreamsReleased
  BY <1>1, <1>2 DEF StreamsReleased
<1> QED BY <1>3, StreamInvariance, PTL

(* collect and idleTimeoutStream, whatever ends the context: a turn that has *)
(* seen its terminal event is discarded by no cancellation and no deadline,  *)
(* only by a cause that is no context error.                                *)
THEOREM FinishedTurnSurvives == Spec => []FinishedTurnKept
<1>1. StreamInv => FinishedTurnKept
  BY DEF StreamInv, TerminalSeen
<1> QED BY <1>1, StreamInvariance, PTL

=============================================================================
