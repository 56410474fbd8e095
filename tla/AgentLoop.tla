------------------------------ MODULE AgentLoop ------------------------------
(***************************************************************************)
(* Engine.Run, Engine.Resume and the loop they share (agent/engine.go,      *)
(* resume.go, agent.go): model turns, tool batches and final answers, the   *)
(* budgets that stop them, the Continuation that observeBoundary builds,    *)
(* validates (continuation.go) and hands to the boundary observer, and the  *)
(* resumption of a run that crashed or failed from the last one saved.      *)
(*                                                                         *)
(* What the model, the tools, the guardrails, the step decider and the      *)
(* observer answer is a choice.  A message is its role and, for a tool      *)
(* response, its number of calls, its operation turn and which response it  *)
(* is; usage is a number of tokens.  Streaming overlap is left to Control:  *)
(* SafeStreamingTools is empty here.                                        *)
(***************************************************************************)
EXTENDS Integers, SequencesExt

CONSTANTS
    Responses,        \* what a model may answer when it calls tools
    MaxCalls,         \* tool calls in one response
    TurnTokens,       \* usage one model turn may report
    ChildTokens,      \* usage child agents may add to a tool batch
    ContextTokens,    \* usage a history summary may add before or in a turn
    MaxIterations,    \* LoopInput.MaxIterations
    MaxTokens,        \* budgets; 0 is no limit
    MaxToolCalls,
    MaxSteps,
    MaxPauses,        \* maxPauseContinuations
    MaxCorrections,   \* maxResponseRecoveries
    MaxRepairs,       \* OutputPolicy.MaxRepairAttempts
    Answers,          \* whether an answer may say anything
    KeepRejected,     \* RetryPolicy.IncludeRejectedOutput, of each retry
    MaxInputs,        \* inputs offered through Control
    MaxResumes        \* resumptions of one execution

ASSUME LoopAssumption ==
    /\ MaxCalls \in Nat \ {0}
    /\ TurnTokens \subseteq Nat /\ ChildTokens \subseteq Nat /\ ContextTokens \subseteq Nat
    /\ MaxIterations \in Nat \ {0}
    /\ MaxTokens \in Nat /\ MaxToolCalls \in Nat /\ MaxSteps \in Nat
    /\ MaxPauses \in Nat /\ MaxCorrections \in Nat /\ MaxRepairs \in Nat
    /\ Answers \subseteq BOOLEAN /\ KeepRejected \subseteq BOOLEAN
    /\ MaxInputs \in Nat /\ MaxResumes \in Nat

VARIABLES
    live,      \* the loop's working state: the fields of a Continuation and,
               \* as history, the Steps its transcript has no message of
    saved,     \* the continuation the observer accepted last, with its phase
    pc,        \* where the loop is
    failure,   \* why it stopped, "none" while it runs
    queued,    \* the kinds of input queued in Control
    accepting, \* whether Control still accepts input
    interrupts, \* turns that steers accepted so far may still interrupt
    inputs,    \* inputs offered so far
    resumes,   \* resumptions so far
    executed   \* history: the tool effects, as <<operation turn, slot, response>>

control == <<queued, accepting, interrupts, inputs>>
vars == <<live, saved, pc, failure, control, resumes, executed>>

-----------------------------------------------------------------------------
(* Messages and steps. *)

None == "none"
Plain(role) == [role |-> role, calls |-> 0, op |-> -1, response |-> None]
ToolResponse(n, op, r) == [role |-> "assistant", calls |-> n, op |-> op, response |-> r]
Results(n) == [i \in 1..n |-> Plain("tool")]

(* A Step: the model's usage, the BudgetUsed and ContextUsage snapshots, the *)
(* number of tool traces, the decision and the observation that matters.    *)
NewStep(c, t, decision, observed) ==
    [model |-> t, tokens |-> c.usage, calls |-> c.toolCallsUsed, context |-> c.context,
     traces |-> 0, decision |-> decision, observed |-> observed]

Latest(c) == c.steps[Len(c.steps)]
WithLatest(c, s) == [c EXCEPT !.steps[Len(c.steps)] = s]
Decide(c, d) == WithLatest(c, [Latest(c) EXCEPT !.decision = d])

Assistants(ms) == {i \in DOMAIN ms : ms[i].role = "assistant"}

(* nextToolOperationTurn *)
nextToolOperationTurn(ms) == Max({0} \cup {ms[i].op + 1 : i \in Assistants(ms)})

-----------------------------------------------------------------------------
(* ValidateContinuation. *)

(* analyzeTranscript: tool results follow their call, one for each, and      *)
(* nothing else comes between.                                              *)
WellFormed(ms) ==
    \A i \in DOMAIN ms :
        ms[i].role = "tool" <=> \E a \in 1..(i - 1) : i <= a + ms[a].calls

Pending(ms) == \E a \in DOMAIN ms : a + ms[a].calls > Len(ms)

(* validateContinuationPhaseTranscript *)
PhaseTranscript(ms, phase) ==
    CASE phase = "ready" -> ~Pending(ms)
      [] phase = "model_complete" -> Pending(ms)
      [] phase = "tools_complete" -> ~Pending(ms) /\ ms # << >> /\ Last(ms).role = "tool"
      [] phase = "validating_output" ->
            ~Pending(ms) /\ ms # << >> /\ Last(ms).role = "assistant" /\ Last(ms).calls = 0

(* The assistant message of step k: those of the steps are the last ones of  *)
(* the transcript.                                                          *)
StepMessage(c, k) ==
    LET said == Assistants(c.messages)
    IN  c.messages[CHOOSE i \in said : Cardinality({j \in said : j > i}) = Len(c.steps) - k]

(* cumulativeUsage: what the model used up to step k. *)
ModelUsage(c, k) ==
    LET used == [j \in DOMAIN c.steps |-> c.steps[j].model]
    IN  MapThenSumSet(LAMBDA j : used[j], 1..k)

(* completedToolCalls: the calls up to step k, added to what the step before *)
(* was found to count; those of a stored response are not done yet.         *)
CompletedToolCalls(c, phase, k) ==
    IF k = 0 THEN 0
    ELSE (IF k = 1 THEN 0 ELSE c.steps[k - 1].calls)
         + (IF phase = "model_complete" /\ k = Len(c.steps) THEN 0 ELSE StepMessage(c, k).calls)

(* validateContinuationSteps, with validateContinuationStep and              *)
(* validateContinuationStepBudget for each of them.                         *)
StepsValid(c, phase) ==
    /\ c.opTurn >= Len(c.steps)
    /\ Cardinality(Assistants(c.messages)) >= Len(c.steps)
    /\ \A k \in DOMAIN c.steps :
            LET s == c.steps[k]
                m == StepMessage(c, k)
                open == phase = "model_complete" /\ k = Len(c.steps)
                least == IF k = 1 THEN ModelUsage(c, k) + s.context
                         ELSE Max({ModelUsage(c, k) + s.context, c.steps[k - 1].tokens + s.model})
            IN  /\ k > 1 => s.context >= c.steps[k - 1].context
                /\ k < Len(c.steps) => s.decision = "continue"
                /\ m.calls > 0 => m.op = c.opTurn - Len(c.steps) + k - 1
                /\ IF open THEN s.traces = 0 /\ s.decision = "continue" ELSE s.traces = m.calls
                /\ s.calls = CompletedToolCalls(c, phase, k)
                /\ IF open \/ m.calls = 0 THEN s.tokens = least ELSE s.tokens >= least

(* validateContinuationTotals *)
TotalsValid(c, phase) ==
    LET n == Len(c.steps)
    IN  /\ c.toolCallsUsed = CompletedToolCalls(c, phase, n)
        /\ c.usage = IF n = 0 THEN c.context ELSE Latest(c).tokens
        /\ n > 0 => c.context >= Latest(c).context
        /\ c.usage >= ModelUsage(c, n) + c.context
        /\ \A a \in Assistants(c.messages) : c.messages[a].op < c.opTurn

(* validateContinuationPhaseSteps *)
PhaseSteps(c, phase) ==
    CASE phase = "ready" -> c.steps # << >> => Latest(c).decision = "continue"
      [] phase = "model_complete" -> c.steps # << >>
      [] phase = "tools_complete" -> c.steps # << >> /\ Latest(c).traces > 0
      [] phase = "validating_output" -> c.steps # << >> /\ Latest(c).decision = "finish"

ValidateContinuation(c, phase) ==
    /\ WellFormed(c.messages)
    /\ PhaseTranscript(c.messages, phase)
    /\ StepsValid(c, phase)
    /\ TotalsValid(c, phase)
    /\ PhaseSteps(c, phase)

-----------------------------------------------------------------------------
(* Histories a run may start from: a prompt, or an earlier tool exchange. *)
Histories ==
    {<< Plain("user") >>} \cup
    {<< Plain("user"), ToolResponse(1, 0, r), Plain("tool"), Plain("assistant"), Plain("user") >>
        : r \in Responses}

Fresh(ms) ==
    [messages |-> ms, steps |-> << >>, usage |-> 0, context |-> 0, toolCallsUsed |-> 0,
     opTurn |-> nextToolOperationTurn(ms), repairs |-> 0, unsaid |-> 0]

NotSaved == [phase |-> None, state |-> Fresh(<< >>)]

Init ==
    /\ live \in {Fresh(ms) : ms \in Histories}
    /\ saved = NotSaved
    /\ pc = "top"
    /\ failure = None
    /\ queued = {}
    /\ accepting = TRUE
    /\ interrupts = 0
    /\ inputs = 0
    /\ resumes = 0
    /\ executed = {}

(* The run returns an error; the last boundary is what remains of it. *)
Stop(why) == pc' = "failed" /\ failure' = why
Fail(c, why) == live' = c /\ Stop(why)

(* observeBoundary: build, validate, hand to the observer.  An observer that *)
(* fails may or may not have stored what it was given.                      *)
observeBoundary(c, phase, next) ==
    /\ live' = c
    /\ IF ~ValidateContinuation(live', phase)
       THEN Stop("invalid") /\ UNCHANGED saved
       ELSE \/ /\ saved' = [phase |-> phase, state |-> c]
               /\ pc' = next
               /\ failure' = IF next = "failed" THEN "policy" ELSE None
            \/ /\ saved' \in {saved, [phase |-> phase, state |-> c]}
               /\ Stop("observer")

-----------------------------------------------------------------------------
(* Budgets. *)

(* budgetRemaining: the first exhausted dimension. *)
budgetRemaining(c) ==
    IF MaxTokens > 0 /\ c.usage >= MaxTokens THEN "max tokens"
    ELSE IF MaxToolCalls > 0 /\ c.toolCallsUsed >= MaxToolCalls THEN "max tool calls"
    ELSE IF MaxSteps > 0 /\ Len(c.steps) >= MaxSteps THEN "max steps"
    ELSE None

(* Mutant: a batch may run past the ceiling. *)
dispatchExceedsToolBudget_Never(c, batch) == FALSE

dispatchExceedsToolBudget(c, batch) ==
    MaxToolCalls > 0 /\ c.toolCallsUsed + batch > MaxToolCalls

(* preDispatchBudgetBlock, as runToolStep calls it: its Step is recorded. *)
preDispatchBudgetBlock(c, batch) ==
    IF budgetRemaining(c) # None THEN budgetRemaining(c)
    ELSE IF dispatchExceedsToolBudget(c, batch) THEN "max tool calls"
    ELSE None

(* A token ceiling cannot be enforced on a turn that reports no usage. *)
NoUsage(c) == MaxTokens > 0 /\ Latest(c).model = 0

-----------------------------------------------------------------------------
(* The head of the loop. *)

(* Mutant: the summary's usage is added to the total only. *)
Summarised_TotalOnly(c, k) == [c EXCEPT !.usage = @ + k, !.context = @ + k]

(* A summary's usage counts in both totals and in the latest Step's          *)
(* snapshots (snapshotContextUsage).                                        *)
Summarised(c, k) ==
    LET d == [c EXCEPT !.usage = @ + k, !.context = @ + k]
    IN  IF k = 0 \/ c.steps = << >> THEN d
        ELSE WithLatest(d, [Latest(d) EXCEPT !.tokens = d.usage, !.context = d.context])

(* take and resetPauseForInput.  Follow-ups wait for the end of the run. *)
Taken(c) ==
    IF queued \subseteq {"followUp"} THEN c
    ELSE LET d == [c EXCEPT !.messages = Append(@, Plain("user"))]
         IN  IF c.steps # << >> /\ Latest(c).observed = "pause"
             THEN WithLatest(d, [Latest(d) EXCEPT !.observed = None]) ELSE d

ConsecutivePauses(c) ==
    Cardinality({k \in DOMAIN c.steps : \A j \in k..Len(c.steps) : c.steps[j].observed = "pause"})

responseRecoveryCount(c) == Cardinality({k \in DOMAIN c.steps : c.steps[k].observed = "recovery"})

(* incompleteLoopError: the iterations ran out in a pause or a correction. *)
incompleteLoop(c) == c.steps # << >> /\ Latest(c).observed \in {"pause", "recovery"}

iterationAllowed == Len(live.steps) < MaxIterations

(* No iteration is left: the loop returns what it has. *)
leaveLoop ==
    /\ pc = "top"
    /\ ~iterationAllowed
    /\ IF incompleteLoop(live) THEN Fail(live, "incomplete")
       ELSE pc' = "finished" /\ UNCHANGED <<live, failure>>
    /\ UNCHANGED <<saved, control, resumes, executed>>

(* take, the budget check before every turn but the first, the preparation   *)
(* of the history, and the ready boundary.                                  *)
prepareTurn ==
    /\ pc = "top"
    /\ iterationAllowed
    /\ \/ /\ live.steps # << >> /\ budgetRemaining(live) # None
          /\ Fail(Taken(live), "budget")
          /\ UNCHANGED saved
       \/ /\ live.steps = << >> \/ budgetRemaining(live) = None
          /\ \E k \in ContextTokens : observeBoundary(Summarised(Taken(live), k), "ready", "model")
    /\ queued' = queued \cap {"followUp"}
    /\ UNCHANGED <<accepting, interrupts, inputs, resumes, executed>>

-----------------------------------------------------------------------------
(* One model turn.  An overflow may have summarised the history on the way.  *)

(* A turn that ran counts its usage and uses up its operation turn. *)
Turned(c, k, t) ==
    LET d == Summarised(c, k) IN [d EXCEPT !.usage = @ + t, !.opTurn = @ + 1]

Recorded(c, m, s) == [c EXCEPT !.messages = Append(@, m), !.steps = Append(@, s)]

(* Mutant: the tools run before the response that asked for them is stored. *)
beginToolStep_NoBoundary(c, m, t) ==
    /\ live' = Recorded(c, m, NewStep(c, t, "continue", None))
    /\ pc' = "dispatch"
    /\ UNCHANGED <<saved, failure>>

(* runToolStep up to the boundary: the response and its Step are recorded    *)
(* before any tool runs.                                                    *)
beginToolStep(c, m, t) ==
    observeBoundary(Recorded(c, m, NewStep(c, t, "continue", None)), "model_complete", "dispatch")

(* The latest message is left out of the transcript; its Step stays. *)
Withheld(c) == [c EXCEPT !.messages = Front(@), !.unsaid = @ + 1]

(* finalizeNoToolStep up to the boundary.  appendFinalAssistant leaves out   *)
(* an answer with neither text nor thinking.                                *)
beginFinalStep(c, said, t) ==
    LET d == Recorded(c, Plain("assistant"), NewStep(c, t, "finish", None))
    IN  IF said THEN observeBoundary(d, "validating_output", "validate")
        ELSE observeBoundary(Withheld(d), "validating_output", "silent")

turnCallsTools ==
    /\ pc = "model"
    /\ \E n \in 1..MaxCalls, r \in Responses, t \in TurnTokens, k \in ContextTokens :
        beginToolStep(Turned(live, k, t), ToolResponse(n, live.opTurn, r), t)
    /\ UNCHANGED <<control, resumes, executed>>

turnAnswers ==
    /\ pc = "model"
    /\ \E said \in Answers, t \in TurnTokens, k \in ContextTokens :
        beginFinalStep(Turned(live, k, t), said, t)
    /\ UNCHANGED <<control, resumes, executed>>

(* finishPausedTurn *)
turnPauses ==
    /\ pc = "model"
    /\ \E t \in TurnTokens, k \in ContextTokens :
        LET c == Turned(live, k, t)
            d == Recorded(c, Plain("assistant"), NewStep(c, t, "continue", "pause"))
        IN  IF NoUsage(d) \/ (ConsecutivePauses(d) > MaxPauses /\ "steer" \notin queued)
            THEN Fail(Decide(d, "fail"), "pause") /\ UNCHANGED saved
            ELSE observeBoundary(d, "ready", "top")
    /\ UNCHANGED <<control, resumes, executed>>

(* Mutant: the interruption stands after the turn it ended. *)
turnInterrupted_Again ==
    /\ pc = "model"
    /\ interrupts > 0
    /\ pc' = "top"
    /\ UNCHANGED <<live, saved, failure, control, resumes, executed>>

(* A steer interrupted the turn (handleControlledTurnFailure): nothing is    *)
(* recorded unless the stream had opened.                                   *)
turnInterrupted ==
    /\ pc = "model"
    /\ interrupts > 0
    /\ interrupts' = interrupts - 1
    /\ \/ \E k \in ContextTokens : live' = Summarised(live, k)
       \/ \E t \in TurnTokens, k \in ContextTokens :
            LET c == Turned(live, k, t)
            IN  live' = Recorded(c, Plain("assistant"), NewStep(c, t, "continue", None))
    /\ pc' = "top"
    /\ UNCHANGED <<saved, failure, queued, accepting, inputs, resumes, executed>>

(* The provider failed the turn (handleTurnFailure): a stream that had       *)
(* opened leaves a failed Step and, if it said anything, its message.       *)
turnFails ==
    /\ pc = "model"
    /\ \E t \in TurnTokens, k \in ContextTokens :
        LET c == Summarised(live, k)
            d == [c EXCEPT !.usage = @ + t]
            s == NewStep(d, t, "fail", None)
        IN  \/ Fail(c, "provider")
            \/ Fail(Recorded(d, Plain("assistant"), s), "provider")
            \/ t = 0 /\ Fail([d EXCEPT !.steps = Append(@, s), !.unsaid = @ + 1], "provider")
    /\ UNCHANGED <<saved, control, resumes, executed>>

-----------------------------------------------------------------------------
(* The rest of runToolStep. *)

Batch(c) == Last(c.messages).calls

(* The response whose tools have run. *)
Asked(c) == c.messages[Max(Assistants(c.messages))]

Slots(m) == {<<m.op, slot, m.response>> : slot \in 0..(m.calls - 1)}

(* appendToolResults, and the snapshot of what the batch used. *)
Executed(c, n, u) ==
    LET d == [c EXCEPT !.messages = @ \o Results(n), !.toolCallsUsed = @ + Batch(c),
                       !.usage = @ + u]
    IN  WithLatest(d, [Latest(d) EXCEPT !.tokens = d.usage, !.calls = d.toolCallsUsed])

(* The budget decides, then the batch runs.  Calls that are rejected or      *)
(* skipped have a result and no effect; an error that ends the batch leaves  *)
(* some without a result.                                                   *)
dispatchTools ==
    /\ pc = "dispatch"
    /\ LET block == preDispatchBudgetBlock(live, Batch(live))
       IN  IF NoUsage(live) THEN Fail(Decide(live, "fail"), "max tokens") /\ UNCHANGED executed
           ELSE IF block # None THEN Fail(Decide(live, "fail"), block) /\ UNCHANGED executed
           ELSE \E effects \in SUBSET Slots(Last(live.messages)), u \in ChildTokens :
                    /\ executed' = executed \cup effects
                    /\ \/ /\ live' = Executed(live, Batch(live), u)
                          /\ pc' = "executed"
                          /\ UNCHANGED failure
                       \/ \E n \in 0..Batch(live) : Fail(Executed(live, n, u), "tool")
    /\ UNCHANGED <<saved, control, resumes>>

(* continueOrSeal: input that waits keeps the run going, follow-ups become   *)
(* due, and with none waiting no more is accepted.                          *)
continueOrSeal(continues) ==
    /\ continues <=> queued # {}
    /\ queued' = IF queued = {"followUp"} THEN {"pending"} ELSE queued
    /\ accepting' = (accepting /\ continues)
    /\ UNCHANGED <<interrupts, inputs>>

(* What the step decider may make of a turn; without one it continues. *)
stepDecisionOverride == {"continue", "finish", "fail"}

(* finalizeToolStep: the traces and the decision, then the boundary.  A      *)
(* terminal tool ends the run unless input waits; otherwise the step decider *)
(* may end or fail it.                                                      *)
finalizeToolStep ==
    /\ pc = "executed"
    /\ \E d \in stepDecisionOverride :
        LET s == [Latest(live) EXCEPT !.traces = Asked(live).calls,
                                      !.context = live.context, !.decision = d]
            next == CASE d = "continue" -> "top" [] d = "finish" -> "finished" [] OTHER -> "failed"
        IN  /\ observeBoundary(WithLatest(live, s), "tools_complete", next)
            /\ \/ UNCHANGED control
               \/ continueOrSeal(TRUE)
               \/ d = "finish" /\ continueOrSeal(FALSE)
    /\ UNCHANGED <<resumes, executed>>

-----------------------------------------------------------------------------
(* The rest of finalizeNoToolStep. *)

Judging == pc \in {"validate", "silent"} /\ ~NoUsage(live)

(* The state with the answer under scrutiny, be it empty, as last message. *)
Judged ==
    IF pc = "validate" THEN live
    ELSE [live EXCEPT !.messages = Append(@, Plain("assistant")), !.unsaid = @ - 1]

(* What is left of the answer: a guardrail may have replaced it, and         *)
(* appendFinalAssistant leaves out what is empty now.                       *)
Finalized(said) == IF said THEN Judged ELSE Withheld(Judged)

(* appendRetryContext: the rejected answer stays when the policy says so and *)
(* it is not empty.                                                         *)
RetryContext(keep) ==
    [Finalized(keep /\ pc = "validate") EXCEPT !.messages = Append(@, Plain("user"))]

(* A guardrail asks for another answer. *)
guardrailRetry ==
    /\ Judging
    /\ iterationAllowed
    /\ \E keep \in KeepRejected : live' = Decide(RetryContext(keep), "continue")
    /\ pc' = "top"
    /\ UNCHANGED <<saved, failure, control, resumes, executed>>

(* The answer is incomplete: a correction, while any is left. *)
responseRecovery ==
    /\ Judging
    /\ IF responseRecoveryCount(live) >= MaxCorrections
       THEN Fail(Decide(live, "fail"), "repair")
       ELSE /\ \E said \in Answers :
                live' = WithLatest(
                    [Finalized(said) EXCEPT !.messages = Append(@, Plain("correction"))],
                    [Latest(live) EXCEPT !.decision = "continue", !.observed = "recovery"])
            /\ pc' = "top"
            /\ UNCHANGED failure
    /\ UNCHANGED <<saved, control, resumes, executed>>

(* The answer is accepted. *)
acceptAnswer ==
    /\ Judging
    /\ \E said \in Answers :
        \/ continueOrSeal(TRUE) /\ live' = Decide(Finalized(said), "continue") /\ pc' = "top"
        \/ continueOrSeal(FALSE) /\ live' = Finalized(said) /\ pc' = "finished"
    /\ UNCHANGED <<saved, failure, resumes, executed>>

(* It reports no usage under a token ceiling, or a guardrail blocks it. *)
rejectAnswer ==
    /\ pc \in {"validate", "silent"}
    /\ Fail(Decide(live, "fail"), IF NoUsage(live) THEN "max tokens" ELSE "guardrail")
    /\ UNCHANGED <<saved, control, resumes, executed>>

-----------------------------------------------------------------------------
(* Engine.Run after the loop: validateAndRepairStructuredOutput. *)

(* Mutant: a repair starts with the transcript only. *)
Repaired_Fresh(c) == [Fresh(Append(c.messages, Plain("user"))) EXCEPT !.repairs = c.repairs + 1]

(* The loop of a repair goes on where the last one ended. *)
Repaired(c) ==
    Decide([c EXCEPT !.messages = Append(@, Plain("user")), !.repairs = @ + 1], "continue")

finishRun ==
    /\ pc = "finished"
    /\ \/ pc' = "done" /\ UNCHANGED <<live, failure>>
       \/ live.repairs >= MaxRepairs /\ Fail(live, "repair")
       \/ /\ live.repairs < MaxRepairs
          /\ budgetRemaining(live) # None
          /\ Fail(live, "budget")
       \/ /\ live.repairs < MaxRepairs
          /\ budgetRemaining(live) = None
          /\ live' = Repaired(live)
          /\ pc' = "top"
          /\ UNCHANGED failure
    /\ UNCHANGED <<saved, control, resumes, executed>>

-----------------------------------------------------------------------------
(* The environment. *)

(* Send, Steer or FollowUp accepted an input.  A steer interrupts the turn   *)
(* that begins while it is queued, and the one its own second critical      *)
(* section finds running: at most two.                                      *)
offerInput ==
    /\ pc \notin {"done", "failed"}
    /\ accepting
    /\ inputs < MaxInputs
    /\ inputs' = inputs + 1
    /\ \E kind \in {"pending", "steer", "followUp"} :
        /\ queued' = queued \cup {kind}
        /\ interrupts' = IF kind = "steer" THEN interrupts + 2 ELSE interrupts
    /\ UNCHANGED <<live, saved, pc, failure, accepting, resumes, executed>>

(* The process dies, its context ends, or an extension fails or panics. *)
crash ==
    /\ pc \notin {"done", "failed"}
    /\ Fail(live, "crash")
    /\ UNCHANGED <<saved, control, resumes, executed>>

(* The state before the step that is run again. *)
Unstepped(c) == [c EXCEPT !.messages = Front(@), !.steps = Front(@)]

(* Mutant: the model is asked again, under the same operation turn. *)
resumeModelComplete_AsksAgain(c) ==
    /\ live' = [Unstepped(c) EXCEPT !.opTurn = @ - 1, !.usage = @ - Latest(c).model]
    /\ pc' = "model"
    /\ failure' = None
    /\ UNCHANGED saved

(* The stored response is recorded and observed again, under its own         *)
(* operation turn, and then dispatched.                                     *)
resumeModelComplete(c) == beginToolStep(Unstepped(c), Last(c.messages), Latest(c).model)

(* The stored answer is recorded, observed and judged again: the message     *)
(* that ends the transcript, which says something.                          *)
resumeValidatingOutput(c) == beginFinalStep(Unstepped(c), TRUE, Latest(c).model)

(* The stored decision stands. *)
resumeToolsComplete(c) ==
    /\ live' = c
    /\ pc' = CASE Latest(c).decision = "continue" -> "top"
               [] Latest(c).decision = "finish" -> "finished"
               [] OTHER -> "failed"
    /\ failure' = IF Latest(c).decision = "fail" THEN "policy" ELSE None
    /\ UNCHANGED saved

(* Engine.Resume on what the observer stored last, with a Control that       *)
(* starts anew.                                                             *)
resume ==
    /\ pc = "failed"
    /\ resumes < MaxResumes
    /\ resumes' = resumes + 1
    /\ queued' = {} /\ accepting' = TRUE /\ interrupts' = 0
    /\ \/ /\ saved.phase = "ready"
          /\ live' = saved.state /\ pc' = "top" /\ failure' = None /\ UNCHANGED saved
       \/ saved.phase = "model_complete" /\ resumeModelComplete(saved.state)
       \/ saved.phase = "tools_complete" /\ resumeToolsComplete(saved.state)
       \/ saved.phase = "validating_output" /\ resumeValidatingOutput(saved.state)
    /\ UNCHANGED <<inputs, executed>>

Loop ==
    \/ leaveLoop \/ prepareTurn
    \/ turnCallsTools \/ turnAnswers \/ turnPauses \/ turnInterrupted \/ turnFails
    \/ dispatchTools \/ finalizeToolStep
    \/ guardrailRetry \/ responseRecovery \/ acceptAnswer \/ rejectAnswer
    \/ finishRun

Stopped == pc \in {"done", "failed"} /\ UNCHANGED vars

Next == Loop \/ offerInput \/ crash \/ resume \/ Stopped

Spec == Init /\ [][Next]_vars

(* The loop runs on its own goroutine and its calls to the model, the tools  *)
(* and the extensions return: every wait in it ends with its context.       *)
FairSpec == Spec /\ WF_vars(Loop)

-----------------------------------------------------------------------------
(* Properties. *)

States ==
    [messages : Seq([role : {"user", "assistant", "tool", "correction"}, calls : 0..MaxCalls,
                     op : Int, response : Responses \cup {None}]),
     steps : Seq([model : Nat, tokens : Nat, calls : Nat, context : Nat, traces : 0..MaxCalls,
                  decision : {"continue", "finish", "fail"},
                  observed : {None, "pause", "recovery"}]),
     usage : Nat, context : Nat, toolCallsUsed : Nat, opTurn : Nat, repairs : 0..MaxRepairs,
     unsaid : Nat]

(* Every variable has its type, the loop never holds more steps than it was  *)
(* allowed iterations and never counts more repairs than the policy allows.  *)
TypeOK ==
    /\ live \in States /\ Len(live.steps) <= MaxIterations
    /\ saved.phase \in {None, "ready", "model_complete", "tools_complete", "validating_output"}
    /\ saved.state \in States
    /\ pc \in {"top", "model", "dispatch", "executed", "validate", "silent", "finished", "done",
              "failed"}
    /\ failure = None <=> pc # "failed"
    /\ queued \subseteq {"pending", "steer", "followUp"}
    /\ accepting \in BOOLEAN
    /\ interrupts \in Nat
    /\ inputs \in 0..MaxInputs
    /\ resumes \in 0..MaxResumes
    /\ executed \subseteq (Nat \X Nat \X Responses)

(* A summary was counted into a step after its turn, and the step before it  *)
(* held usage that no model turn and no summary accounts for.               *)
LateSummary(c) ==
    \E k \in 2..Len(c.steps) :
        /\ c.steps[k].context > c.steps[k - 1].context
        /\ c.steps[k - 1].tokens > ModelUsage(c, k - 1) + c.steps[k - 1].context

(* The transcript lacks the message of a Step: its answer said nothing, or   *)
(* a retry did not keep it.                                                 *)
AnswerMissing(c) == c.unsaid > 0

(* Every continuation that the loop builds passes ValidateContinuation, and  *)
(* its own bookkeeping fails no run, unless a summary came late after child  *)
(* usage or the message of a Step is missing (observeBoundary).             *)
BoundariesValid == failure = "invalid" => LateSummary(live) \/ AnswerMissing(live)

(* Without those exceptions: whatever the model answers and the guardrails   *)
(* decide, the observer "receives complete continuations at safe phases"     *)
(* (docs/extensions.md:47).                                                 *)
AllBoundariesValid == failure # "invalid"

(* A tool takes effect only after the observer has stored the response that  *)
(* asked for it under the same operation ID (runToolStep observes            *)
(* model_complete before it dispatches).                                    *)
WriteAhead ==
    [][executed' # executed =>
        /\ saved.phase = "model_complete"
        /\ executed' \ executed \subseteq Slots(Last(saved.state.messages))]_vars

(* Whatever crashed and was resumed, an operation ID names one tool call:    *)
(* two effects with the same ID are the same call of the same response, so   *)
(* a tool may use the ID to recognise a repetition.                         *)
OperationIdentity ==
    \A e, f \in executed : e[1] = f[1] /\ e[2] = f[2] => e[3] = f[3]

(* Crashes, resumptions and repairs in between give no allowance back:       *)
(* MaxToolCalls bounds the distinct tool calls of a whole execution, and     *)
(* maxResponseRecoveries the corrections in one transcript.                  *)
BudgetsHeld ==
    /\ MaxToolCalls > 0 => Cardinality({<<e[1], e[2]>> : e \in executed}) <= MaxToolCalls
    /\ Cardinality({i \in DOMAIN live.messages : live.messages[i].role = "correction"})
           <= MaxCorrections

(* What is stored only advances: no boundary, after any crash or repair,     *)
(* takes back steps, usage, tool calls, repairs or operation turns that an   *)
(* earlier one has recorded.                                                *)
CheckpointAdvances ==
    [][LET a == saved.state
           b == saved'.state
       IN  /\ Len(b.steps) >= Len(a.steps)
           /\ b.usage >= a.usage
           /\ b.context >= a.context
           /\ b.toolCallsUsed >= a.toolCallsUsed
           /\ b.repairs >= a.repairs
           /\ b.opTurn >= a.opTurn]_vars

(* An execution ends: it completes, or it fails for good once it is no       *)
(* longer resumed.                                                          *)
RunEnds == <>[](pc \in {"done", "failed"})

=============================================================================
