# TLA+ models of venat

venat is a Go library that runs an LLM agent: a loop that calls a model, runs
the tools the model asks for, feeds the results back and stops at a final
answer, a budget or a failure. This directory models the parts of it whose
correctness depends on interleaving, failure and resumption, checks them with
TLC on small instances and proves the most important invariants with TLAPS.

Paths below are relative to the repository root. `PROJECT.json` holds the
machine-readable index: which definition models which lines, which run checks
which property, which mutation of the model each property detects, the hazards
of the code and the theorems.

## The system and its parts

| Part | State | Operations | Hard behaviour |
| --- | --- | --- | --- |
| live control (`agent/control.go`) | three queues, in-flight inputs, bytes, sequence numbers, acknowledgement channels, the cancel function of the current turn | `Send`, `Steer`, `FollowUp`, `Cancel` from any goroutine; `start`, `take`, `acknowledge`, `beginTurn`, `continueOrSeal`, `finish` from the loop | every method is a critical section except `Steer` (two); inputs race the end of the run |
| agent loop (`agent/agent.go`, `engine.go`) | transcript, Steps, usage, tool calls used, operation turn | prepare a turn, run it, dispatch tools, finalize, repair | budgets between side effects, interrupted and retried turns, panics |
| continuations (`agent/continuation.go`, `resume.go`) | what the boundary observer stored last | `observeBoundary`, `ValidateContinuation`, resume at four phases | a crash between any two steps; repeating a tool call under the same operation ID |
| pauses and corrections (`agent/pause_continuation.go`, `response_recovery.go`) | counters derived from Steps | continue a paused turn, ask for a correction | counters must survive retries and resumptions |
| token tracker (`agent/agent_tool.go`) | remaining capacity, active reservations, notify channel, batch share | `prepareBatch`, `reserve`, `settle` | children reserve and settle concurrently; lost wake-ups; refusing too early |
| stream overlap (`agent/stream_overlap.go`) | entries of early calls, barrier | `observe`, `execute`, `finish`, `take`, `preparePending` | a tool runs while the model still streams and the turn may be cut, cancelled or refused |
| tool bus (`tool/tool.go`, `interceptor.go`, `update.go`) | drivers, shared limiters; per call an update stream | `Execute`, `ExecuteBatch`, `executeParallel` | worker pool, permits shared between runs, cancellation, panics, what "not executed" means |
| output store (`tool/output_store.go`) | files in one directory, named by their content | `Process`, `save`, `search` | several processes, partial writes, crashes, matches across chunks |
| provider streams (`provider/retry_stream.go`, `failover.go`, `timeout.go`, `shared/retry.go`) | current stream, retries, emitted, closed | open, receive, retry, close | four layers of retry, replay after output, timeouts racing a late stream |
| receiving adapters (`provider/openai`, `provider/anthropic`, `provider/conformance.go`) | calls being assembled, what was emitted | frames to events, events to a response | calls in fragments, without index or ID, cut at any byte |
| sending adapters (the same files) | none | transcript to request | turns that another provider answered; results and calls must pair |
| working memory, context fitter, skill context (`agent/working_memory.go`, `context_window.go`, `skill_tools.go`, `engine.go`) | archived part of the transcript, active skills | summarize, fit, activate, restore, compact after an overflow | several rewriters of one transcript; what the model must still be shown |
| skill files, tool kit, codec, argument validation | values | conversion and I/O | none of it concurrent |

How they interact: the loop owns the transcript and calls `Control` at fixed
points of a turn; callers of `Control` only touch its queues and the cancel
function of the turn in progress. The loop asks the provider for a stream,
hands complete tool calls of the stream to the overlap state, dispatches the
rest through the tool bus, and hands a `Continuation` to the boundary observer
before and after every step with effects. A tool may itself be an agent; the
children of one dispatch share the parent's tokens through the tracker. Before
each request the loop lets working memory or the fitter rewrite the transcript,
and an adapter translates what is left for the provider; the turns in it may
come from another provider.

What makes each part correct:

* **control** - every accepted input is answered exactly once, in order of
  admission, within the limits; a run does not report completion over an input
  it accepted; a steer interrupts the turn it races or is seen by the next one;
  started tools keep their results.
* **loop** - budgets stop the run before effects, every boundary is a valid
  continuation, corrections and pauses are bounded, the run ends.
* **continuations** - tools run only after a continuation naming their calls
  was stored, an operation ID names one response for ever, what is stored only
  moves forward.
* **stream overlap** - a call is prepared and runs once, with its final
  arguments, and no tool runs after its turn.
* **provider streams** - nothing is repeated after output, requests are bounded,
  streams are closed, a turn ends; the response assembled is the one sent.
* **context** - each request has what the model needs and is one the provider
  accepts; nothing is hidden that no summary covers.
* **output store** - a reference serves the whole body or nothing.
* **token tracker** - tokens are conserved, every reservation is at least one
  token, no waiter is forgotten, a refusal is final.

## Modules

| Module | Models | Correspondence |
| --- | --- | --- |
| `InputDelivery` | the promise of `Control` to its callers | an input is absent, queued, taken or answered; the handle is open or not; a run completes only with nothing unanswered |
| `Control` | `agent/control.go` and the calls `Engine.RunMessages` makes on it | one action per critical section; the engine goroutine is a program counter; one early tool per turn, because `Steer` looks at it |
| `ControlProofs` | proofs about `Control` | |
| `TokenTracker` | `agentToolTokenTracker` and the goroutines of the children | one action per critical section; channels are numbered, closing the old one is a step of its own |
| `TokenTrackerProofs` | proofs about `TokenTracker` | |
| `AgentLoop` | `Engine.Run`, `Engine.Resume`, `RunMessages`, `observeBoundary`, `ValidateContinuation`, repair, pauses, corrections | `live` is the loop's local state, `saved` the last continuation the observer accepted; each handler of the loop is one action; `crash` loses `live`, `resume` restarts from `saved` |
| `AgentLoopProofs` | proofs about `AgentLoop` | |
| `ToolBus` | `Bus.ExecuteBatch`, `executeParallel`, `Execute`, the limiters, what interceptors and updates decide, and `dispatchPreparedTools` | one action per hand-over, permit, driver entry and return; workers are the calls they hold |
| `ToolBusProofs` | proofs about `ToolBus` | |
| `ProviderStream` | `OpenRetryingStream`, `Fallback`, `DoWithRetry`, `openModelStream`, `idleTimeoutStream`, `collect` | the engine and the goroutine that opens or reads are program counters; each raw stream has an owner and an open bit |
| `ProviderStreamProofs` | proofs about `ProviderStream` | |
| `EventStream` | the promise of `provider.Stream` (ADR-030) | events, one terminal event, the end; or an error |
| `ToolCallAssembly` | `normalizeEvents` of `provider/conformance.go` | operators over a record of builders |
| `Adapters` | the receiving half of the chat, Responses and Anthropic drivers | one action per frame; the wire is the sequence of fragments a provider may send in one of seven styles |
| `StreamOverlap` | `stream_overlap.go`, `collect` and `runToolStep` over `Adapters` | composes the two: the collecting goroutine hands each event to `observe`; refines `EventStream` |
| `StreamOverlapProofs` | proofs about `StreamOverlap`, `Adapters` and `ToolCallAssembly` | |
| `OutputStore` | `Process`, `save`, `search` | a file is a sequence of letters; one action per file operation |
| `OutputStoreProofs` | proofs about `OutputStore` | |
| `RequestWire` | `toChatMessages`, `toResponsesInput`, `toAnthropicRequest` with replay state and content | pure operators; a message is its kind, its identity and what of it can be lost |
| `WorkingContext` | `WorkingMemory`, `fitContext`, the skill runtime, compaction before a request and after an overflow | the transcript is the state; every property of a request is stated of `RequestWire`'s result for all three providers |
| `FiniteSums` | lemmas about sums over finite sets and about `Max`, for the proofs | |
| `MC*` | instances for TLC | |

`StreamOverlap` is the composition of `ToolCallAssembly`, `Adapters` and the
overlap; `WorkingContext` of the rewriters of the transcript and `RequestWire`;
`ToolBus` includes the loop's use of the bus. `Control` and `InputDelivery`, and
`StreamOverlap` and `EventStream`, are pairs of a detailed and an abstract
specification, checked as a PROPERTY with a refinement mapping.

Definitions named `X_Something` with a comment that begins "Mutant" are the
plausible mistakes the runs are validated against. No specification uses them.

### Abstractions

* `Control`: what the model, the tools, the guardrails and the observer answer
  is a choice. An input is its sequence number and its size. A context is live
  or done, with the first cause that cancelled it. A step decider that finishes
  the run early (`agent/agent.go:938-949`) returns a success without asking
  `continueOrSeal`; for the handle that is an abort (`stopRun`): input that
  still waits is refused. What is said of completion is said of the ends that
  `continueOrSeal` decides.
* `TokenTracker`: a child uses any number of tokens up to `MaxUsage`, more than
  its claim included (the code clamps). Both settlements of `Execute` (the
  explicit one and the deferred one) are one action, as the second has no
  effect once the reservation is settled (`sync.Once`). A settlement that
  credits twice is therefore outside the model.
* `AgentLoop`: a message is its role and, for a response that calls tools, the
  number of calls, the operation turn and which response it is; usage is a
  number of tokens. A summary of the history adds usage and keeps the messages
  (working memory marks them archived and leaves them in the transcript;
  `WorkingContext` models how). An answer says something or nothing, and a
  guardrail may replace it by either (`Answers`); a retry keeps the rejected
  answer or not (`KeepRejected`) and adds user messages. A retry's
  `ReplacementContext` and retry messages of another role are left out, and a
  stored answer that is resumed says something, as the stored continuation
  passed the same validation. Early tool execution is in `StreamOverlap`. Each
  steer interrupts at most two turns: the one in progress, and, because of
  `Steer`'s second critical section, possibly the next.

* `ToolBus`: what drivers, interceptors and hooks answer is a choice, and so is
  whether arguments validate. A registered bus is an assumption.
* `ProviderStream`: an event is output, terminal, an error or the end. Times are
  left out: a timer may fire whenever it is armed.
* `Adapters`: a call has an ID, a name and a number of argument fragments;
  the arguments are valid once all are there. Frames are well-formed or broken.
* `OutputStore`: letters instead of bytes, chunks cut anywhere instead of at
  32 KiB. A crash loses the goroutines of one process and keeps the files.
* `WorkingContext`: an estimate above the target is a choice, so every estimator
  and target is covered. A message has the properties a rewriter looks at.
  Which results are too long for the fitter is a choice as well.
* `RequestWire`: of a content only its kind and source matter; a call carries no
  name, and a withdrawn call is counted apart (see below).

## Runs

Each passing run also names, in `PROJECT.json`, one mutation of the model per
property that makes the property fail.

| Run | Instance | What it shows |
| --- | --- | --- |
| `control` | two callers, three inputs of sizes 2 and 3, queue of 2, 4 bytes, two turns | limits and bytes, order, completion, missed steers, refinement of `InputDelivery`; every accepted input is answered and a started run ends. Limits below what two callers can offer make refusals happen; two turns let a steer meet both the turn it races and the following one |
| `control_started_tools` | one caller, two inputs | a counterexample, see Findings |
| `token_tracker` | dispatches {c1, c2} and {c3} on one tracker of 2 tokens | conservation, shares, claims, wake-ups, final refusals, every call ends; fewer tokens than the children ask for, so that waiting happens |
| `agent_loop` | three iterations under budgets of 3 tokens, 2 tool calls and 3 steps, two responses of up to three calls, turns with and without usage, children that use a token, answers with and without text, retries that keep or drop the rejected answer, one each of pause, correction, repair, input and resumption | every continuation built is valid (the excuses of finding 3 apart), operation IDs, the tool budget over the whole execution, write-ahead of effects, what is stored only advances, every execution ends. A crash in a batch repeats it; a tool step with child usage leaves tokens for one more turn, which may ask for tools but not run them. 1.7 million states |
| `rejected_answer` | the default retry policy, no budgets, and nothing else that can fail | a counterexample, see Findings |
| `tool_bus` | every batch of up to three calls of a parallel, a sequential, an exclusive and an unknown tool; two dispatches that share one permit; two workers | what "not executed" proves, barriers, every call accounted for, permits, every batch ends. Three calls are a barrier between two others, or one more than workers |
| `provider_stream` | two drivers, two stream retries, two HTTP attempts, three events | no replay, bounded requests, streams closed, finished turns kept from any cause but a steer, the turn ends. The context ends with each of the three causes |
| `steered_turn` | one driver, three events, a steer | a counterexample, see Findings |
| `turn_stream` | three calls, the first without arguments, in seven styles of three adapters; room for two or three; three sets of safe tools | the response is the one sent, calls run once and as finally asked, those of a withdrawn response too, workers are joined, refinement of `EventStream`: an event behind the terminal one is no state of it |
| `operation_slots` | the same | a counterexample, see Findings |
| `output_store` | two processes, one with two goroutines, two bodies with self-overlapping matches, two faults | references serve the whole body, a search finds exactly the first matches |
| `context` | five recorded messages, two inputs at a boundary, two overflows, one resumption, an eager and an optional skill, both modes, with and without a cached example | skills visible, nothing forgotten, request ends kept, calls paired, recorded evidence kept but for the retry after an overflow. 1.2 million states |

Bounds: every counter has a named constant (`MaxInputs`, `MaxTurns`,
`MaxRecoveries`, `MaxResumes`, ...). The properties relate at most two inputs,
two turns or two responses to each other, and the instances have at least that
many plus one that is in the way. No symmetry is used. `agent_loop` resumes
once, and its token ceiling leaves no second batch of tools within one run: what
it says of operation IDs, budgets and write-ahead over several batches rests on
crashes and resumptions within a batch. That they survive any number of batches
and resumptions is proved (`OneCallPerOperation`, `AllowancesHeld`,
`EffectsWrittenAhead`, `StoredStateAdvances`).

Deadlock is checked except where a system really stops: a finished turn
(`turn_stream`, `operation_slots`) and a run that ended or used up the recorded
messages (`context`). Elsewhere a finished system takes a
stuttering step, so anything else that stops is an error.

### Fairness

* `Control`: the engine goroutine runs once started, an early tool that was
  launched ends, and a `Steer` between its critical sections continues. These
  are goroutines the Go scheduler runs; nothing is assumed of callers.
* `TokenTracker`: a dispatch that was built calls `prepareBatch`, and each child
  goroutine continues; a running child ends. Which waiter gets the lock first
  is not assumed.
* `AgentLoop`: the loop goroutine continues. The model and the tools answer or
  fail, which the request, connect and tool timeouts of the code provide.
* `ToolBus`: the dispatching goroutine and each call continue; a driver returns,
  as its timeout or its context makes it. Which waiter gets a permit is not
  assumed.
* `ProviderStream`: the engine and the goroutine that closes a late stream
  continue, and timers fire. Nothing is assumed of the provider.
* `StreamOverlap`: the collecting goroutine takes the events that have arrived
  and sees the end or the cut of the stream. Nothing is assumed of tools.

Crashes and resumptions are bounded by `MaxResumes`; nothing else is assumed of
them.

## Findings

1. **A late interruption discards a started tool** (`control_started_tools`,
   `agent/control.go:89`). `Steer` enqueues, releases the mutex, takes it again
   and interrupts whatever turn is then current. If the loop took the steer and
   began the next turn in between, that turn is interrupted although it already
   contains the correction. If a safe streaming tool of it is started after the
   cancellation was requested, it runs, and `recordInterruptedTurn` drops its
   call and result. `README.md:140` promises that started calls keep them.
2. **Two calls under one operation ID** (`operation_slots`,
   `agent/stream_overlap.go:110`). `observe` numbers a call by how many were
   announced before it, `runToolStep` (`agent/agent.go:595`) by its place in the
   response. A chat call without arguments is not announced, parallel blocks
   complete in any order, a deferred call keeps its early number: then two calls
   of the turn run under one ID. `docs/public-api.md:48` and ADR-031 line 34
   promise one ID per logical slot.
3. **A guardrail retry fails the run** (`rejected_answer`,
   `agent/agent.go:1155`). The default retry policy drops the rejected answer
   from the transcript and keeps its Step, so with a boundary observer the next
   ready boundary fails with "%d steps have only %d assistant turns"
   (`continuation.go:198`) or ties the Step to an older message.
   `docs/extensions.md:41` and `:47` promise the retry and "complete
   continuations at safe phases". `AllBoundariesValid` is the property without
   exceptions; `BoundariesValid` excuses the states in which the message of a
   Step is missing (`AnswerMissing`: this finding and the empty answer below)
   or a summary came late (`LateSummary`, below) and no others.
4. **A steer discards a finished turn** (`steered_turn`,
   `provider/timeout.go:60`). Behind the idle timeout, a cancellation shows as
   the cause of the context. `collect` tolerates a cancelled context or a
   deadline after the terminal event (`agent/agent.go:1723`), but the cause of
   an interruption is `errControlSteer`: the turn fails, and its calls are
   dropped, against the comment at `agent/agent.go:1698-1701`.
   `FinishedTurnKept` says that no other cause does this.

### Disagreements noted without a run

Met while modelling; each is visible in the model or by reading the lines.

* `agent/agent.go:1166`: `appendFinalAssistant` appends nothing when text and
  thinking are empty: an answer stopped by a content filter or for an unknown
  reason, which `markIncompleteResponse` does not take for incomplete. Its Step
  is recorded all the same, and the `validating_output` continuation, which must
  end with an answer, is refused (`continuation.go:184-187`): the run fails. A
  guardrail that replaces an answer by nothing while input waits fails the next
  ready boundary instead (`continuation.go:198`). `AllBoundariesValid` fails on
  this too, under `rejected_answer` with `Answers = {TRUE, FALSE}` and
  `KeepRejected = {TRUE}`.
* `agent/continuation.go:301`: the tokens of a step without calls must be exactly
  the larger of two numbers, the model and context usage so far and the previous
  step's tokens plus this turn's. When working memory summarises the history
  before the next turn, `snapshotContextUsage` (`agent/runtime_helpers.go:102`)
  adds the summary's usage to the latest step. If that step has no calls and the
  step before it holds tokens of child agents, its tokens exceed both, and
  `observeBoundary` fails the run; `docs/plans/active-plan.md:23` says such runs
  "produce valid continuations". `AllBoundariesValid` shows it when children and
  summaries use tokens, with three iterations and no budgets.
* `agent/agent.go:1393`: without a context manager, the retry after an overflow
  applies `fitContext` to the transcript and not only to the request: dropped
  groups are gone from the result and from checkpoints, against
  `agent/context_window.go:22`, `docs/extensions.md:62` and
  `docs/agent-execution.md:167`; the marker "full result retained in transcript"
  (`context_window.go:192`) is then not true. If a group with a Step was
  dropped, the next boundary fails (`continuation.go:199`). `EvidenceKept` names
  this retry as its only exception and fails without it.
* `agent/response_recovery.go:47`: when a response is cut by its length, or one
  of its calls has malformed arguments, its calls are withdrawn and the model
  reads "No tool calls from this response were executed" (`:50`), or "No tools
  from that response were executed" (`:127`), also when one of them ran while
  the response streamed. `RanIsFinal` says what is still true then: what ran is
  a call of that response with its final arguments. As an invariant,
  `step = "answered" => ran = {}` fails in the instance of `turn_stream`.
* `agent/agent.go:622`: `runToolStep` has appended the Step of the turn before
  `preDispatchBudgetBlock` counts Steps; the comment at line 1091 says it has
  not, so `MaxSteps = 2` refuses the tools of the second turn.
* `agent/agent.go:1636`: `prepared[index]` is used for `results[index]`, but the
  results of a group with a failure have no gaps (`tool/tool.go:763`), so after
  a failure a retrieval result may be spilled or a large result bypass the
  store. `docs/agent-execution.md:243` says retrieval results are not spilled
  again. The result of activating a skill also passes through the store.
* `agent/response_recovery.go:47`: a withdrawn turn loses its `ToolCalls` and
  keeps its `ProviderState`. Responses and Anthropic replay that state, so the
  next request has calls without results. `Replayed` in `RequestWire` counts
  them as `dropped`, and `CallsAnswered` leaves them out; without that
  exception `CallsPaired` fails after `runTurn`, `correct`, `admit`, `runTurn`.
* `provider/openai/responses.go:496`: any JSON array counts as replay state;
  Anthropic checks the types of blocks, and for that reason refuses the
  `server_tool_use` blocks of its own paused turns and falls back to text.
* `agent/agent.go:630`: a hook that failed for an early call does not stop the
  pending ones from running, against the comment at lines 1549-1552.
* `agent/working_memory.go:418`: inputs admitted by a boundary whose turn is
  interrupted, or whose process stops before the request, are old at the next
  boundary and may be summarised without having been sent unchanged once.
* In fit mode a resumed run keeps the skill section of the stored transcript, so
  a new version of a skill is not shown; with a cached prefix that is no system
  message, a new version of an eager skill fails `validateCachePrefixPreserved`.
* `tool/output_store.go`: a preview may exceed the threshold by one byte; files
  are not synced before the rename; a crash leaves a `.tmp-` file behind; a
  snippet is clipped at the edge of a chunk.

## Proofs

The proofs hold for every value of the constants that satisfies the named
assumption of the module (`ControlAssumption`, `TrackerAssumption`,
`LoopAssumption`, `BusAssumption`, `StreamAssumption`, `StoreAssumption`,
`OverlapAssumption` and `FragsAssumption`: counts are natural numbers, sets of
children are finite, the tools of a limiter agree on its capacity). No theorem
has a hypothesis of its own, and no fairness is used.

* **`ControlProofs`**. `TypeCorrect`, `OpenExactlyWhileQueued`,
  `CompletionConsumes`, `AnsweredOnce` and `Refinement`. "A receipt is open
  exactly while its input is queued or in flight" is not inductive alone: an
  input must also be in one place only and have a number not above `nextSeq`
  (`Numbered`); completion needs that a sealed or finished handle has empty
  queues and admits nothing (`Sealed`, `Closed`, `Settled`, `Verdicts`), and
  the type of the turn counter needs `RoomForStep`. `ControlInv` is the
  conjunction; the proof splits it into the part about inputs and the part
  about the loop and has one step per action. The refinement maps an input to
  where it is and reuses the invariant; every step of `Control` is a step of
  `InputDelivery` or leaves it unchanged.
  `QueuesStayBounded`: the byte count is a sum over the queued inputs, which
  each step changes by the inputs it adds or answers; a step that takes or
  promotes moves inputs and leaves their set. `SteersInterrupt` needs only that
  a turn is installed from `beginTurn` to its release (`TurnInstalled`).
  `OrderIsKept` needs that the transcript holds every accepted input that does
  not wait, and that every follow-up that left its queue is older than those
  still in it (`OrderInv`).
* **`TokenTrackerProofs`**. `TrackerTypes`, `ActiveIsExact`,
  `NoUnlimitedChild`, `RefusalIsFinal`, `WakeupsArrive`. The strengthening:
  every channel that was replaced is closed or owned by a child about to close
  it (`ChannelsOwned`), and a waiter on the current channel has a sibling with a
  reservation (`WaitersWatched`). Cardinalities go through
  `FiniteSetTheorems`. `AllowanceProven`: reserving moves tokens from what
  remains to what is held, settling splits a claim into what is charged and
  what returns; and while one dispatch is known its share is the ceiling of its
  part and caps each claim (`SharesKept`).
* **`AgentLoopProofs`**. `OneCallPerOperation` and `EffectsWrittenAhead`.
  `LoopInv` says that everything executed has an operation turn below the one
  stored, that `live` is never behind `saved` in operation turns, and that while
  tools are dispatched the stored continuation is the live one at
  `model_complete`: so a resumption repeats exactly the stored response, and a
  new response gets a new number. `LoopTypes` and `StoredStateAdvances` rest on
  `BookInv`: the live state is never behind the stored one in any counter, each
  place of the loop and each stored phase finds the message and the step it goes
  on from (a repeated turn is taken off and put back, so it counts no less), and
  each correction in the transcript has its step. `AllowancesHeld` adds
  `ToolInv`: the distinct operation IDs of all effects are at most the calls
  that the stored state counts, those of a stored response that waits for its
  tools apart, which are slots of that very response; so a crash in a batch and
  its repetition count once. `BoundariesProven` says that the loop never builds
  a continuation that its own `ValidateContinuation` refuses, unless a summary
  came late after child usage or the transcript lacks the message of a Step
  (finding 3). The history field `unsaid` counts such Steps; above zero it stays
  there until a resumption goes back to a stored state (`MissingStays`,
  `BooksMissing`), and while it is zero the books are in order, those of an
  empty answer that is still to be judged included (`Held`, `BooksSilent`). The
  invariant `Books` has three parts. `Account` ties the transcript, the Steps
  and the counters together: results follow their call, each Step has its
  assistant message counted from the end, each Step counts at least what models
  and summaries used, and the totals are those of the latest Step; `Exact` says
  that a Step without calls counts no more than that, unless a summary came
  late. `Standing` says what is open at each place of the loop (nothing, a
  response without its calls, a batch without its traces), and `Filed` what each
  stored phase lets a resumption rely on, for one that a repeated turn rebuilds
  exactly the continuation it starts from. TLC found `Books` true on the
  instance of `agent_loop` before it was proved. The lemmas about which message
  belongs to a Step (`SaidLast`, `OthersSay`) and about the usage up to a Step
  (`UsageGrows`, `UsageSame`) are about cardinalities and sums over intervals.
* **`ToolBusProofs`**. `NotExecutedProven` and `BarriersProven`. A call reported
  as not executed was never in a slot past its permit, which needs that `next`
  separates the calls handed out from the rest and that a group never reaches
  over a sequential call; `BusInv` is the conjunction, with one step per action.
  `LimitersProven` needs that only a registered tool gets as far as its limiter
  (`PermitsHeld`), and that the tools of one limiter agree on its capacity.
  `ResultsProven`: before a group starts, the results are those of all calls that
  precede it, in order (`Accounted`); a group appends its own, which `OrderJoins`
  shows to be the ordered results of both.
* **`ProviderStreamProofs`**. `StreamTypes`, `OpensBounded`,
  `OutputNeverReplayed`, `StreamsClosed` and `FinishedTurnSurvives`.
  `StreamInv` says what the worker may be doing for each place of the engine
  (`WorkerPhase`), that no driver behind the current one has been asked
  (`RetryBudget`), that an open which begins after the end of the context is the
  last (`LateBudget`), that a wrapper that delivered output only reads
  (`SealHolds`), and that the one open stream is the wrapper's current one
  (`OpenStreams`). `FinishedTurnSurvives` holds for any causes; that it leaves
  the steer out is finding 4.
* **`OutputStoreProofs`**. `ReferencesAreServed` and `PublicationsStay`. A
  reference counts as done once its file is there, and a temporary file is
  renamed only when it is whole (`SavedBefore`).
* **`StreamOverlapProofs`**. `CallsRunOnce`, `RunsAreFinal`, `TurnsAreJoined`
  and `StreamsAreWellFormed`, for any number of calls and fragments and every
  adapter. That an early call runs with its final arguments depends on
  everything the stream may still bring: `Keyed` says that each ID and index
  leads to a builder and that a builder without a conflict has one ID of its
  own; it follows that a call announced complete keeps its arguments, whatever
  event is added, or the response ends in a conflict and nothing is recorded
  (`EntriesSettled`). `OverlapInv` adds that what ran before the dispatch has an
  entry that was executed (`RanEarly`), also when the response is withdrawn and
  nothing of it is recorded (`RunsAreFinal` covers both), that a call is
  prepared once (`PreparedOnce`) and that what ran fits the room.
  `StreamsAreWellFormed` is the safety part of `ImplementsEventStream`: its
  `StreamInv` says what is pending while more is to come, when the last event is
  on its way and when it has been taken, and each step is mapped to a step of
  `EventStream` or a stutter.
* **`FiniteSums`**. Sums over finite sets in terms of adding, removing and
  splitting. The library's induction theorems take an operator and cannot be
  instantiated here; the induction is over the strict subsets of the set, with
  the induction hypothesis as membership in a set of subsets.

TLC finds every inductive invariant named here true on the instances of the
runs, those of `TokenTrackerProofs` (a quantifier over all channel numbers) and
`Keyed` and the `StreamInv` of `StreamOverlapProofs` (an unbounded choice of a
set) apart, which it cannot evaluate. The proof attempts changed the models too: two
definitions were a CASE with overlapping guards, which in TLA+ leaves the choice
open (the mapping of `Adapters` to `EventStream` and `budgetRemaining`), and are
now chains of IF.

Only model-checked:

* liveness, which is out of the prover's reach: `EveryInputAnswered`, both
  `RunEnds`, `EveryCallEnds`, `EveryBatchEnds`, `TurnEnds`, `LateStreamClosed`
  and the fairness of `EventStream`;
* `ResponseAssembled`, `SearchExact` and the five properties of `WorkingContext`:
  they are about what recursive operators compute (assembling fragments, finding
  matches, folding over a transcript), which would need an induction over
  sequences that the prover cannot instantiate.

`TypeCorrect`, `OpenExactlyWhileQueued`, `AnsweredOnce`, `TrackerTypes`,
`ActiveIsExact`, `LoopTypes`, `StreamTypes` and `PublicationsStay` are proved for
every instance and checked by no run: they are what the other proofs rest on, or
follow from it. `NoUnlimitedChild` is a part of `AllowanceHeld`.

## Not modelled

* The continuation codec, argument validation, skill files, the tool kit,
  examples and scripts: conversion and I/O with no control of their own.
* Of the adapters: request parameters, structured-output schemas, usage counts,
  citations, error bodies, the bytes of SSE lines and size limits.
* The guards of tool and stream interceptors (`next` called twice, late or from
  another goroutine; `tool/interceptor.go:100`, `provider/interceptor.go`), the
  limits and sequence numbers of tool updates, the provider resolver.
* Of the agent tool: nesting of runs, forwarding of updates, result envelopes
  and projections.
* Of the loop: deadlines, the order of hooks, the text heuristics that classify
  a response.
* The two token trackers of one turn (`agent/stream_overlap.go:70`) together.

## Plan

1. Done: the modules above with their runs; proofs of `Control`,
   `TokenTracker`, `AgentLoop`, `ToolBus`, `ProviderStream`, `StreamOverlap` and
   `OutputStore`.
2. `WorkingContext`: that a rewriter of the transcript removes no protected
   message, as lemmas about the rewriters.
3. `Interceptors`: the zero-or-one-call guard of tool and stream interceptors.
