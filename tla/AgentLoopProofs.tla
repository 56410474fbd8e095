--------------------------- MODULE AgentLoopProofs ---------------------------
(***************************************************************************)
(* Proofs about AgentLoop, for every budget, bound and set of responses:    *)
(* tools take effect only after their response is stored, an operation ID   *)
(* names one tool call whatever crashes and is resumed, tool calls and        *)
(* corrections stay within their allowances, what is stored advances, and     *)
(* no boundary refuses what the loop itself has recorded.                   *)
(***************************************************************************)
EXTENDS AgentLoop, FiniteSums, FiniteSetTheorems, TLAPS

Msg ==
    [role : {"user", "assistant", "tool", "correction"}, calls : Nat, op : Int,
     response : Responses \cup {None}]

Fields ==
    {"messages", "steps", "usage", "context", "toolCallsUsed", "opTurn", "repairs", "unsaid"}

(* What the proofs need of a working state: its fields, its transcript and   *)
(* its operation turn.                                                      *)
IsState(c) == DOMAIN c = Fields /\ c.messages \in Seq(Msg) /\ c.opTurn \in Nat

(* The stored response m may be dispatched, now or after a resumption: its   *)
(* operation turn is the last one used, and every effect already under that  *)
(* turn is its own.                                                         *)
Dispatchable(c) ==
    /\ c.messages # << >>
    /\ Last(c.messages).op = c.opTurn - 1
    /\ \A e \in executed : e[1] = c.opTurn - 1 => e[3] = Last(c.messages).response

(* The inductive invariant: the loop is never behind what is stored, every   *)
(* effect is of an operation turn that is stored as used, and before a       *)
(* dispatch the live state is the stored one.                               *)
LoopInv ==
    /\ IsState(live)
    /\ IsState(saved.state)
    /\ live.opTurn >= saved.state.opTurn
    /\ \A e \in executed : e[1] \in Int /\ e[1] < saved.state.opTurn
    /\ OperationIdentity
    /\ saved.phase = "model_complete" => Dispatchable(saved.state)
    /\ saved.phase = "validating_output" => saved.state.messages # << >>
    /\ pc = "dispatch" => saved.phase = "model_complete" /\ saved.state = live
    /\ pc = "validate" => live.messages # << >>

-----------------------------------------------------------------------------
(* The helpers keep a state a state. *)

(* A message of each kind is a message. *)
LEMMA MessagesTyped ==
    /\ \A role \in {"user", "assistant", "tool", "correction"} : Plain(role) \in Msg
    /\ \A n \in Nat, op \in Nat, r \in Responses : ToolResponse(n, op, r) \in Msg
    /\ \A n \in Nat : Results(n) \in Seq(Msg)
<1>1. \A role \in {"user", "assistant", "tool", "correction"} : Plain(role) \in Msg
  BY DEF Plain, Msg
<1>2. \A n \in Nat, op \in Nat, r \in Responses : ToolResponse(n, op, r) \in Msg
  BY DEF ToolResponse, Msg
<1>3. \A n \in Nat : Results(n) \in Seq(Msg)
  BY <1>1 DEF Results
<1> QED BY <1>1, <1>2, <1>3

(* Changes of the latest Step leave transcript and operation turn alone. *)
LEMMA WithLatestKeeps ==
    ASSUME NEW c, NEW s, IsState(c)
    PROVE  /\ IsState(WithLatest(c, s))
           /\ WithLatest(c, s).messages = c.messages
           /\ WithLatest(c, s).opTurn = c.opTurn
           /\ WithLatest(c, s).toolCallsUsed = c.toolCallsUsed
           /\ WithLatest(c, s).unsaid = c.unsaid
  BY DEF WithLatest, IsState, Fields

(* So does a decision. *)
LEMMA DecideKeeps ==
    ASSUME NEW c, NEW d, IsState(c)
    PROVE  /\ IsState(Decide(c, d))
           /\ Decide(c, d).messages = c.messages
           /\ Decide(c, d).opTurn = c.opTurn
           /\ Decide(c, d).toolCallsUsed = c.toolCallsUsed
           /\ Decide(c, d).unsaid = c.unsaid
  BY WithLatestKeeps DEF Decide

(* So does the usage of a summary. *)
LEMMA SummarisedKeeps ==
    ASSUME NEW c, NEW k, IsState(c)
    PROVE  /\ IsState(Summarised(c, k))
           /\ Summarised(c, k).messages = c.messages
           /\ Summarised(c, k).opTurn = c.opTurn
           /\ Summarised(c, k).toolCallsUsed = c.toolCallsUsed
           /\ Summarised(c, k).unsaid = c.unsaid
<1> DEFINE d == [c EXCEPT !.usage = @ + k, !.context = @ + k]
<1>1. IsState(d) /\ d.messages = c.messages /\ d.opTurn = c.opTurn
      /\ d.toolCallsUsed = c.toolCallsUsed
      /\ d.unsaid = c.unsaid
  BY DEF IsState, Fields
<1>2. CASE k = 0 \/ c.steps = << >>
  BY <1>1, <1>2 DEF Summarised
<1>3. CASE ~(k = 0 \/ c.steps = << >>)
  <2>1. Summarised(c, k)
            = WithLatest(d, [Latest(d) EXCEPT !.tokens = d.usage, !.context = d.context])
    BY <1>3 DEF Summarised
  <2> HIDE DEF d
  <2> QED BY <1>1, <2>1, WithLatestKeeps
<1> QED BY <1>2, <1>3

(* Taking input only appends to the transcript. *)
LEMMA TakenKeeps ==
    ASSUME NEW c, IsState(c)
    PROVE  /\ IsState(Taken(c))
           /\ Taken(c).opTurn = c.opTurn
           /\ Taken(c).toolCallsUsed = c.toolCallsUsed
           /\ Taken(c).unsaid = c.unsaid
<1> DEFINE d == [c EXCEPT !.messages = Append(@, Plain("user"))]
<1>1. IsState(d) /\ d.opTurn = c.opTurn /\ d.toolCallsUsed = c.toolCallsUsed
      /\ d.unsaid = c.unsaid
  BY MessagesTyped DEF IsState, Fields
<1>2. Taken(c) = c \/ Taken(c) = d \/ \E s : Taken(c) = WithLatest(d, s)
  BY DEF Taken
<1> HIDE DEF d
<1> QED BY <1>1, <1>2, WithLatestKeeps

(* A turn that ran uses up one operation turn. *)
LEMMA TurnedKeeps ==
    ASSUME NEW c, NEW k, NEW t, IsState(c)
    PROVE  /\ IsState(Turned(c, k, t))
           /\ Turned(c, k, t).messages = c.messages
           /\ Turned(c, k, t).opTurn = c.opTurn + 1
           /\ Turned(c, k, t).toolCallsUsed = c.toolCallsUsed
           /\ Turned(c, k, t).unsaid = c.unsaid
<1> DEFINE d == Summarised(c, k)
<1>1. IsState(d) /\ d.messages = c.messages /\ d.opTurn = c.opTurn
      /\ d.toolCallsUsed = c.toolCallsUsed
      /\ d.unsaid = c.unsaid
  BY SummarisedKeeps
<1>2. Turned(c, k, t) = [d EXCEPT !.usage = @ + t, !.opTurn = @ + 1]
  BY DEF Turned
<1> HIDE DEF d
<1> QED BY <1>1, <1>2 DEF IsState, Fields

(* A recorded message is the last one. *)
LEMMA RecordedKeeps ==
    ASSUME NEW c, NEW m \in Msg, NEW s, IsState(c)
    PROVE  /\ IsState(Recorded(c, m, s))
           /\ Recorded(c, m, s).opTurn = c.opTurn
           /\ Recorded(c, m, s).toolCallsUsed = c.toolCallsUsed
           /\ Recorded(c, m, s).unsaid = c.unsaid
           /\ Recorded(c, m, s).messages # << >>
           /\ Last(Recorded(c, m, s).messages) = m
<1>1. IsState(Recorded(c, m, s)) /\ Recorded(c, m, s).opTurn = c.opTurn
      /\ Recorded(c, m, s).toolCallsUsed = c.toolCallsUsed
      /\ Recorded(c, m, s).unsaid = c.unsaid
  BY DEF Recorded, IsState, Fields
<1>2. Recorded(c, m, s).messages = Append(c.messages, m)
  BY DEF Recorded, IsState, Fields
<1>3. c.messages \in Seq(Msg) BY DEF IsState
<1>4. Append(c.messages, m) # << >> /\ Last(Append(c.messages, m)) = m
  BY <1>3 DEF Last
<1> QED BY <1>1, <1>2, <1>4

(* Taking the last message and Step off leaves a state. *)
LEMMA UnsteppedKeeps ==
    ASSUME NEW c, IsState(c), c.messages # << >>
    PROVE  /\ IsState(Unstepped(c))
           /\ Unstepped(c).opTurn = c.opTurn
           /\ Unstepped(c).toolCallsUsed = c.toolCallsUsed
           /\ Unstepped(c).unsaid = c.unsaid
           /\ Last(c.messages) \in Msg
<1>1. c.messages \in Seq(Msg) BY DEF IsState
<1>2. Front(c.messages) \in Seq(Msg) /\ Last(c.messages) \in Msg
  BY <1>1 DEF Front, Last
<1> QED BY <1>1, <1>2 DEF Unstepped, IsState, Fields

(* Leaving the last message out leaves a state. *)
LEMMA WithheldKeeps ==
    ASSUME NEW c, IsState(c), c.messages # << >>
    PROVE  /\ IsState(Withheld(c))
           /\ Withheld(c).opTurn = c.opTurn
           /\ Withheld(c).toolCallsUsed = c.toolCallsUsed
           /\ Withheld(c).unsaid = c.unsaid + 1
<1>1. c.messages \in Seq(Msg) BY DEF IsState
<1>2. Front(c.messages) \in Seq(Msg)
  BY <1>1 DEF Front
<1> QED BY <1>2 DEF Withheld, IsState, Fields

(* What is left of the answer under scrutiny leaves a state. *)
LEMMA FinalizedKeeps ==
    ASSUME IsState(live), pc = "validate" => live.messages # << >>, NEW said
    PROVE  /\ IsState(Finalized(said))
           /\ Finalized(said).opTurn = live.opTurn
           /\ Finalized(said).toolCallsUsed = live.toolCallsUsed
<1>1. /\ IsState(Judged) /\ Judged.opTurn = live.opTurn
      /\ Judged.toolCallsUsed = live.toolCallsUsed /\ Judged.messages # << >>
  <2>1. CASE pc = "validate"
    BY <2>1 DEF Judged
  <2>2. CASE pc # "validate"
    <3> DEFINE m == Plain("assistant")
    <3>1. m \in Msg
      BY MessagesTyped
    <3>2. Judged = [live EXCEPT !.messages = Append(@, m), !.unsaid = @ - 1]
      BY <2>2 DEF Judged
    <3> HIDE DEF m
    <3>3. Append(live.messages, m) \in Seq(Msg) /\ Append(live.messages, m) # << >>
      <4>1. live.messages \in Seq(Msg) BY DEF IsState
      <4> QED BY <3>1, <4>1
    <3> QED BY <3>2, <3>3 DEF IsState, Fields
  <2> QED BY <2>1, <2>2
<1>2. CASE said BY <1>1, <1>2 DEF Finalized
<1>3. CASE ~said
  BY <1>1, <1>3, WithheldKeeps DEF Finalized
<1> QED BY <1>2, <1>3

(* A message after it too. *)
LEMMA ContinuedKeeps ==
    ASSUME IsState(live), pc = "validate" => live.messages # << >>, NEW said,
           NEW role \in {"user", "correction"}, NEW d,
           d = [Finalized(said) EXCEPT !.messages = Append(@, Plain(role))]
    PROVE  /\ IsState(d) /\ d.opTurn = live.opTurn /\ d.toolCallsUsed = live.toolCallsUsed
           /\ d.unsaid = Finalized(said).unsaid
<1>1. /\ IsState(Finalized(said)) /\ Finalized(said).opTurn = live.opTurn
      /\ Finalized(said).toolCallsUsed = live.toolCallsUsed
  BY FinalizedKeeps
<1> QED BY <1>1, MessagesTyped DEF IsState, Fields

(* The batch appends its results. *)
LEMMA ExecutedKeeps ==
    ASSUME NEW c, NEW n \in Nat, NEW u, IsState(c)
    PROVE  /\ IsState(Executed(c, n, u))
           /\ Executed(c, n, u).opTurn = c.opTurn
           /\ Executed(c, n, u).toolCallsUsed = c.toolCallsUsed + Batch(c)
           /\ Executed(c, n, u).unsaid = c.unsaid
<1> DEFINE d == [c EXCEPT !.messages = @ \o Results(n), !.toolCallsUsed = @ + Batch(c),
                          !.usage = @ + u]
<1>1. c.messages \o Results(n) \in Seq(Msg)
  BY MessagesTyped DEF IsState
<1>2. IsState(d) /\ d.opTurn = c.opTurn /\ d.toolCallsUsed = c.toolCallsUsed + Batch(c)
      /\ d.unsaid = c.unsaid
  BY <1>1 DEF IsState, Fields
<1>3. \E s : Executed(c, n, u) = WithLatest(d, s)
  BY DEF Executed
<1> HIDE DEF d
<1> QED BY <1>2, <1>3, WithLatestKeeps

-----------------------------------------------------------------------------
(* What the steps do. *)

(* A step that stores nothing and runs no tool, and does not lead to a       *)
(* dispatch.                                                                *)
LEMMA QuietStep ==
    ASSUME LoopInv, IsState(live'), live'.opTurn >= live.opTurn,
           UNCHANGED <<saved, executed>>, pc' # "dispatch",
           pc' = "validate" => live'.messages # << >>
    PROVE  LoopInv'
  BY DEF LoopInv, IsState, OperationIdentity, Dispatchable

(* A step that changes neither the loop nor what is stored. *)
LEMMA IdleStep ==
    ASSUME LoopInv, UNCHANGED <<live, saved, pc, executed>>
    PROVE  LoopInv'
  BY DEF LoopInv, IsState, OperationIdentity, Dispatchable

(* A step that ends in a boundary. *)
LEMMA BoundaryStep ==
    ASSUME LoopInv, NEW c, NEW phase, NEW next,
           IsState(c), c.opTurn >= saved.state.opTurn,
           phase = "model_complete" => Dispatchable(c),
           next = "dispatch" => phase = "model_complete",
           next = "validate" => c.messages # << >>,
           observeBoundary(c, phase, next),
           executed' = executed
    PROVE  LoopInv'
<1>1. live' = c
  BY DEF observeBoundary, Fail, Stop
<1>2. CASE saved' = [phase |-> phase, state |-> c]
  <2>1. pc' \in {next, "failed"}
    BY DEF observeBoundary, Fail, Stop
  <2>2. saved'.phase = phase /\ saved'.state = c
    BY <1>2
  <2>3. \A e \in executed' : e[1] \in Int /\ e[1] < c.opTurn
    BY DEF LoopInv, IsState
  <2>4. OperationIdentity'
    BY DEF LoopInv, OperationIdentity
  <2>5. phase = "model_complete" => Dispatchable(c)'
    BY DEF Dispatchable
  <2>6. phase = "validating_output" => c.messages # << >>
    <3>1. CASE ValidateContinuation(c, phase)
      BY <3>1 DEF ValidateContinuation, PhaseTranscript
    <3>2. CASE ~ValidateContinuation(c, phase)
      <4>1. saved = [phase |-> phase, state |-> c]
        BY <1>1, <1>2, <3>2 DEF observeBoundary
      <4>2. saved.phase = phase /\ saved.state = c BY <4>1
      <4> QED BY <4>2 DEF LoopInv
    <3> QED BY <3>1, <3>2
  <2> QED BY <1>1, <2>1, <2>2, <2>3, <2>4, <2>5, <2>6 DEF LoopInv, IsState
<1>3. CASE saved' # [phase |-> phase, state |-> c]
  <2>1. saved' = saved /\ pc' = "failed"
    BY <1>3 DEF observeBoundary, Fail, Stop
  <2>2. OperationIdentity'
    BY DEF LoopInv, OperationIdentity
  <2>3. saved.phase = "model_complete" => Dispatchable(saved.state)'
    BY <2>1 DEF LoopInv, Dispatchable
  <2> QED BY <1>1, <2>1, <2>2, <2>3 DEF LoopInv, IsState
<1> QED BY <1>2, <1>3

(* Recording a response m of operation turn c.opTurn - 1, all of whose        *)
(* effects so far are its own, and observing it.                            *)
LEMMA ToolBoundary ==
    ASSUME LoopInv, NEW c, NEW m \in Msg, NEW t, IsState(c),
           c.opTurn >= saved.state.opTurn,
           m.op = c.opTurn - 1,
           \A e \in executed : e[1] = m.op => e[3] = m.response,
           beginToolStep(c, m, t), executed' = executed
    PROVE  LoopInv'
<1> DEFINE d == Recorded(c, m, NewStep(c, t, "continue", None))
<1>1. IsState(d) /\ d.opTurn = c.opTurn /\ d.messages # << >> /\ Last(d.messages) = m
  BY RecordedKeeps
<1>2. observeBoundary(d, "model_complete", "dispatch")
  BY DEF beginToolStep
<1> HIDE DEF d
<1>3. Dispatchable(d)
  BY <1>1 DEF Dispatchable
<1> QED BY <1>1, <1>2, <1>3, BoundaryStep

(* Recording an answer and observing it. *)
LEMMA FinalBoundary ==
    ASSUME LoopInv, NEW c, NEW said, NEW t, IsState(c), c.opTurn >= saved.state.opTurn,
           beginFinalStep(c, said, t), executed' = executed
    PROVE  LoopInv'
<1> DEFINE d == Recorded(c, Plain("assistant"), NewStep(c, t, "finish", None))
<1>1. IsState(d) /\ d.opTurn = c.opTurn /\ d.messages # << >>
  BY RecordedKeeps, MessagesTyped
<1>2. CASE said
  <2>1. observeBoundary(d, "validating_output", "validate")
    BY <1>2 DEF beginFinalStep
  <2> HIDE DEF d
  <2> QED BY <1>1, <2>1, BoundaryStep
<1>3. CASE ~said
  <2>1. observeBoundary(Withheld(d), "validating_output", "silent")
    BY <1>3 DEF beginFinalStep
  <2> HIDE DEF d
  <2>2. IsState(Withheld(d)) /\ Withheld(d).opTurn = c.opTurn
    BY <1>1, WithheldKeeps
  <2> QED BY <2>1, <2>2, BoundaryStep
<1> QED BY <1>2, <1>3

-----------------------------------------------------------------------------
(* The initial states. *)

(* The first operation turn of a history is a natural number, and 0 for an   *)
(* empty one.                                                               *)
LEMMA FirstOperationTurn ==
    /\ nextToolOperationTurn(<< >>) = 0
    /\ \A ms \in Histories : nextToolOperationTurn(ms) \in Nat
<1>1. nextToolOperationTurn(<< >>) = 0
  <2>1. Assistants(<< >>) = {}
    BY DEF Assistants
  <2>2. Max({0}) = 0
    BY DEF Max
  <2> QED BY <2>1, <2>2 DEF nextToolOperationTurn
<1>2. ASSUME NEW S \in SUBSET {0, 1}, 0 \in S PROVE Max(S) \in Nat
  <2>1. S = {0} \/ S = {0, 1} BY <1>2
  <2>2. Max({0}) = 0 BY DEF Max
  <2>3. Max({0, 1}) = 1 BY DEF Max
  <2> QED BY <2>1, <2>2, <2>3
<1>3. ASSUME NEW ms \in Histories PROVE nextToolOperationTurn(ms) \in Nat
  <2>1. \A i \in DOMAIN ms : ms[i].op \in {-1, 0}
    BY <1>3 DEF Histories, Plain, ToolResponse
  <2>2. {0} \cup {ms[i].op + 1 : i \in Assistants(ms)} \in SUBSET {0, 1}
    BY <2>1 DEF Assistants
  <2> QED BY <1>2, <2>2 DEF nextToolOperationTurn
<1> QED BY <1>1, <1>3

(* A fresh state is a state. *)
LEMMA FreshTyped ==
    ASSUME NEW ms \in Seq(Msg), nextToolOperationTurn(ms) \in Nat
    PROVE  IsState(Fresh(ms)) /\ Fresh(ms).opTurn = nextToolOperationTurn(ms)
  BY DEF Fresh, IsState, Fields

(* The invariant holds when a run starts. *)
LEMMA InitInv == Init => LoopInv
<1> SUFFICES ASSUME Init PROVE LoopInv OBVIOUS
<1>1. PICK ms \in Histories : live = Fresh(ms)
  BY DEF Init
<1>2. ms \in Seq(Msg)
  <2>1. CASE ms = << Plain("user") >>
    BY <2>1, MessagesTyped
  <2>2. CASE \E r \in Responses : ms = << Plain("user"), ToolResponse(1, 0, r), Plain("tool"),
                                          Plain("assistant"), Plain("user") >>
    <3>1. PICK r \in Responses : ms = << Plain("user"), ToolResponse(1, 0, r), Plain("tool"),
                                         Plain("assistant"), Plain("user") >>
      BY <2>2
    <3>2. /\ Plain("user") \in Msg /\ Plain("tool") \in Msg /\ Plain("assistant") \in Msg
          /\ ToolResponse(1, 0, r) \in Msg
      BY MessagesTyped
    <3> QED BY <3>1, <3>2
  <2> QED BY <1>1, <2>1, <2>2 DEF Histories
<1>3. IsState(live) /\ live.opTurn \in Nat
  BY <1>1, <1>2, FirstOperationTurn, FreshTyped DEF IsState
<1>4. IsState(saved.state) /\ saved.state.opTurn = 0 /\ saved.phase = None
  <2> DEFINE empty == << >>
  <2>1. empty \in Seq(Msg) OBVIOUS
  <2>2. saved.state = Fresh(empty) /\ saved.phase = None
    BY DEF Init, NotSaved
  <2>3. nextToolOperationTurn(empty) = 0
    BY FirstOperationTurn
  <2> HIDE DEF empty
  <2>4. IsState(Fresh(empty)) /\ Fresh(empty).opTurn = 0
    BY <2>1, <2>3, FreshTyped
  <2> QED BY <2>2, <2>4
<1>5. executed = {} /\ pc = "top"
  BY DEF Init
<1> QED BY <1>3, <1>4, <1>5 DEF LoopInv, OperationIdentity, None

-----------------------------------------------------------------------------
(* Every step keeps the invariant. *)
LEMMA NextInv == LoopInv /\ [Next]_vars => LoopInv'
<1> SUFFICES ASSUME LoopInv, [Next]_vars PROVE LoopInv' OBVIOUS
<1> USE LoopAssumption
<1>0. /\ IsState(live) /\ IsState(saved.state)
      /\ live.opTurn \in Nat /\ saved.state.opTurn \in Nat
      /\ live.opTurn >= saved.state.opTurn
      /\ \A e \in executed : e[1] \in Int /\ e[1] < saved.state.opTurn
  BY DEF LoopInv, IsState
<1>1. CASE leaveLoop
  BY <1>0, <1>1, QuietStep DEF leaveLoop, Fail, Stop
<1>2. CASE prepareTurn
  <2> DEFINE c == Taken(live)
  <2>1. IsState(c) /\ c.opTurn = live.opTurn
    BY <1>0, TakenKeeps
  <2>2. executed' = executed BY <1>2 DEF prepareTurn
  <2>3. CASE Fail(c, "budget") /\ UNCHANGED saved
    BY <1>0, <2>1, <2>2, <2>3, QuietStep DEF Fail, Stop
  <2>4. CASE \E k \in ContextTokens : observeBoundary(Summarised(c, k), "ready", "model")
    <3>1. PICK k \in ContextTokens : observeBoundary(Summarised(c, k), "ready", "model")
      BY <2>4
    <3> HIDE DEF c
    <3>2. IsState(Summarised(c, k)) /\ Summarised(c, k).opTurn = c.opTurn
      BY <2>1, SummarisedKeeps
    <3> QED BY <1>0, <2>1, <2>2, <3>1, <3>2, BoundaryStep
  <2> QED BY <1>2, <2>3, <2>4 DEF prepareTurn
<1>3. CASE turnCallsTools
  <2>1. PICK n \in 1..MaxCalls, r \in Responses, t \in TurnTokens, k \in ContextTokens :
            beginToolStep(Turned(live, k, t), ToolResponse(n, live.opTurn, r), t)
    BY <1>3 DEF turnCallsTools
  <2> DEFINE c == Turned(live, k, t)
             m == ToolResponse(n, live.opTurn, r)
  <2>2. IsState(c) /\ c.opTurn = live.opTurn + 1
    BY <1>0, TurnedKeeps
  <2>3. m \in Msg /\ m.op = live.opTurn
    <3>1. n \in Nat OBVIOUS
    <3> QED BY <1>0, <3>1, MessagesTyped DEF ToolResponse
  <2>4. executed' = executed BY <1>3 DEF turnCallsTools
  <2>5. beginToolStep(c, m, t) BY <2>1
  <2> HIDE DEF c, m
  <2>6. m.op = c.opTurn - 1 /\ c.opTurn >= saved.state.opTurn
    BY <1>0, <2>2, <2>3
  <2>7. \A e \in executed : e[1] = m.op => e[3] = m.response
    BY <1>0, <2>3
  <2> QED BY <2>2, <2>3, <2>4, <2>5, <2>6, <2>7, ToolBoundary
<1>4. CASE turnAnswers
  <2>1. PICK said \in Answers, t \in TurnTokens, k \in ContextTokens :
            beginFinalStep(Turned(live, k, t), said, t)
    BY <1>4 DEF turnAnswers
  <2> DEFINE c == Turned(live, k, t)
  <2>2. IsState(c) /\ c.opTurn = live.opTurn + 1
    BY <1>0, TurnedKeeps
  <2>3. executed' = executed BY <1>4 DEF turnAnswers
  <2>4. beginFinalStep(c, said, t) BY <2>1
  <2> HIDE DEF c
  <2> QED BY <1>0, <2>2, <2>3, <2>4, FinalBoundary
<1>5. CASE turnPauses
  <2>1. PICK t \in TurnTokens, k \in ContextTokens :
            LET c == Turned(live, k, t)
                d == Recorded(c, Plain("assistant"), NewStep(c, t, "continue", "pause"))
            IN  \/ Fail(Decide(d, "fail"), "pause") /\ UNCHANGED saved
                \/ observeBoundary(d, "ready", "top")
    BY <1>5 DEF turnPauses
  <2> DEFINE c == Turned(live, k, t)
             d == Recorded(c, Plain("assistant"), NewStep(c, t, "continue", "pause"))
  <2>2. IsState(c) /\ c.opTurn = live.opTurn + 1
    BY <1>0, TurnedKeeps
  <2>3. IsState(d) /\ d.opTurn = c.opTurn
    <3> HIDE DEF c
    <3> QED BY <2>2, RecordedKeeps, MessagesTyped
  <2>4. executed' = executed BY <1>5 DEF turnPauses
  <2>5. \/ Fail(Decide(d, "fail"), "pause") /\ UNCHANGED saved
        \/ observeBoundary(d, "ready", "top")
    BY <2>1
  <2> HIDE DEF c, d
  <2>6. CASE Fail(Decide(d, "fail"), "pause") /\ UNCHANGED saved
    BY <1>0, <2>2, <2>3, <2>4, <2>6, DecideKeeps, QuietStep DEF Fail, Stop
  <2>7. CASE observeBoundary(d, "ready", "top")
    BY <1>0, <2>2, <2>3, <2>4, <2>7, BoundaryStep
  <2> QED BY <2>5, <2>6, <2>7
<1>6. CASE turnInterrupted
  <2>1. IsState(live') /\ live'.opTurn >= live.opTurn
    <3>1. CASE \E k \in ContextTokens : live' = Summarised(live, k)
      BY <1>0, <3>1, SummarisedKeeps
    <3>2. CASE \E t \in TurnTokens, k \in ContextTokens :
                 live' = Recorded(Turned(live, k, t), Plain("assistant"),
                                  NewStep(Turned(live, k, t), t, "continue", None))
      <4>1. PICK t \in TurnTokens, k \in ContextTokens :
                 live' = Recorded(Turned(live, k, t), Plain("assistant"),
                                  NewStep(Turned(live, k, t), t, "continue", None))
        BY <3>2
      <4>2. IsState(Turned(live, k, t)) /\ Turned(live, k, t).opTurn = live.opTurn + 1
        BY <1>0, TurnedKeeps
      <4> DEFINE c == Turned(live, k, t)
                 s == NewStep(c, t, "continue", None)
      <4>3. IsState(c) /\ c.opTurn = live.opTurn + 1 /\ live' = Recorded(c, Plain("assistant"), s)
        BY <4>1, <4>2
      <4>4. Plain("assistant") \in Msg BY MessagesTyped
      <4> HIDE DEF c, s
      <4>5. IsState(live') /\ live'.opTurn = c.opTurn
        BY <4>3, <4>4, RecordedKeeps
      <4> QED BY <1>0, <4>3, <4>5
    <3> QED BY <1>6, <3>1, <3>2 DEF turnInterrupted
  <2>2. UNCHANGED <<saved, executed>> /\ pc' = "top"
    BY <1>6 DEF turnInterrupted
  <2> QED BY <2>1, <2>2, QuietStep
<1>7. CASE turnFails
  <2>1. PICK t \in TurnTokens, k \in ContextTokens :
            LET c == Summarised(live, k)
                d == [c EXCEPT !.usage = @ + t]
                s == NewStep(d, t, "fail", None)
            IN  \/ Fail(c, "provider")
                \/ Fail(Recorded(d, Plain("assistant"), s), "provider")
                \/ Fail([d EXCEPT !.steps = Append(@, s), !.unsaid = @ + 1], "provider")
    BY <1>7 DEF turnFails
  <2> DEFINE c == Summarised(live, k)
             d == [c EXCEPT !.usage = @ + t]
             s == NewStep(d, t, "fail", None)
             e == [d EXCEPT !.steps = Append(@, s), !.unsaid = @ + 1]
  <2>2. IsState(c) /\ c.opTurn = live.opTurn
    BY <1>0, SummarisedKeeps
  <2>3. IsState(d) /\ d.opTurn = live.opTurn
    <3> HIDE DEF c
    <3> QED BY <2>2 DEF IsState, Fields
  <2>4. IsState(e) /\ e.opTurn = live.opTurn
    <3> HIDE DEF d
    <3> QED BY <2>3 DEF IsState, Fields
  <2>5. IsState(Recorded(d, Plain("assistant"), s))
        /\ Recorded(d, Plain("assistant"), s).opTurn = live.opTurn
    <3> HIDE DEF d, s
    <3> QED BY <2>3, RecordedKeeps, MessagesTyped
  <2>6. pc' = "failed" /\ live' \in {c, Recorded(d, Plain("assistant"), s), e}
    BY <2>1 DEF Fail, Stop
  <2>7. UNCHANGED <<saved, executed>>
    BY <1>7 DEF turnFails
  <2> HIDE DEF c, d, s, e
  <2> QED BY <1>0, <2>2, <2>4, <2>5, <2>6, <2>7, QuietStep
<1>8. CASE dispatchTools
  <2> DEFINE m == Last(live.messages)
  <2>1. saved.phase = "model_complete" /\ saved.state = live /\ live.messages # << >>
        /\ m.op = live.opTurn - 1
    BY <1>8 DEF dispatchTools, LoopInv, Dispatchable
  <2>2. m \in Msg
    BY <1>0, <2>1, UnsteppedKeeps
  <2>3. UNCHANGED saved BY <1>8 DEF dispatchTools
  <2>4. CASE executed' = executed /\ pc' = "failed" /\ live' = Decide(live, "fail")
    BY <1>0, <2>3, <2>4, DecideKeeps, QuietStep
  <2>5. CASE \E effects \in SUBSET Slots(m), u \in ChildTokens :
                /\ executed' = executed \cup effects
                /\ \/ live' = Executed(live, Batch(live), u) /\ pc' = "executed"
                   \/ \E n \in 0..Batch(live) : Fail(Executed(live, n, u), "tool")
    <3>1. PICK effects \in SUBSET Slots(m), u \in ChildTokens :
                /\ executed' = executed \cup effects
                /\ \/ live' = Executed(live, Batch(live), u) /\ pc' = "executed"
                   \/ \E n \in 0..Batch(live) : Fail(Executed(live, n, u), "tool")
      BY <2>5
    <3>2. Batch(live) \in Nat
      BY <2>2 DEF Batch, Msg
    <3>3. pc' \in {"executed", "failed"} /\ \E n \in Nat : live' = Executed(live, n, u)
      BY <3>1, <3>2 DEF Fail, Stop
    <3>4. IsState(live') /\ live'.opTurn = live.opTurn
      BY <1>0, <3>3, ExecutedKeeps
    <3>5. \A e \in effects : e[1] = m.op /\ e[3] = m.response
      BY DEF Slots
    <3>6. m.op \in Int
      BY <2>2 DEF Msg
    <3>7. \A e \in executed' : e[1] \in Int /\ e[1] < saved.state.opTurn
      BY <1>0, <2>1, <3>1, <3>5, <3>6
    <3>8. \A e \in executed' : e[1] = m.op => e[3] = m.response
      BY <2>1, <3>1, <3>5 DEF LoopInv, Dispatchable
    <3>9. OperationIdentity'
      <4> SUFFICES ASSUME NEW e \in executed', NEW f \in executed', e[1] = f[1], e[2] = f[2]
                   PROVE  e[3] = f[3]
        BY DEF OperationIdentity
      <4>1. CASE e[1] = m.op
        <5>1. e[3] = m.response /\ f[3] = m.response
          BY <3>8, <4>1
        <5> QED BY <5>1
      <4>2. CASE e[1] # m.op
        <5>1. e \in executed /\ f \in executed
          BY <3>1, <3>5, <4>2
        <5>2. OperationIdentity BY DEF LoopInv
        <5> QED BY <5>1, <5>2 DEF OperationIdentity
      <4> QED BY <4>1, <4>2
    <3>10. Dispatchable(saved.state)'
      BY <2>1, <2>3, <3>8 DEF Dispatchable
    <3> QED BY <1>0, <2>1, <2>3, <3>3, <3>4, <3>7, <3>9, <3>10 DEF LoopInv, IsState
  <2> HIDE DEF m
  <2> QED BY <1>8, <2>4, <2>5 DEF dispatchTools, Fail, Stop, m
<1>9. CASE finalizeToolStep
  <2>1. \E s : \E next \in {"top", "finished", "failed"} :
            observeBoundary(WithLatest(live, s), "tools_complete", next)
    <3>1. PICK d \in stepDecisionOverride :
            observeBoundary(
                WithLatest(live, [Latest(live) EXCEPT
                                     !.traces = Asked(live).calls,
                                     !.context = live.context, !.decision = d]),
                "tools_complete",
                CASE d = "continue" -> "top" [] d = "finish" -> "finished" [] OTHER -> "failed")
      BY <1>9 DEF finalizeToolStep
    <3> DEFINE next == CASE d = "continue" -> "top" [] d = "finish" -> "finished"
                         [] OTHER -> "failed"
    <3>2. next \in {"top", "finished", "failed"}
      BY DEF stepDecisionOverride
    <3> HIDE DEF next
    <3> QED BY <3>1, <3>2 DEF next
  <2>2. executed' = executed BY <1>9 DEF finalizeToolStep
  <2>3. PICK s : \E next \in {"top", "finished", "failed"} :
            observeBoundary(WithLatest(live, s), "tools_complete", next)
    BY <2>1
  <2>4. PICK next \in {"top", "finished", "failed"} :
            observeBoundary(WithLatest(live, s), "tools_complete", next)
    BY <2>3
  <2>5. IsState(WithLatest(live, s)) /\ WithLatest(live, s).opTurn = live.opTurn
    BY <1>0, WithLatestKeeps
  <2> QED BY <1>0, <2>2, <2>4, <2>5, BoundaryStep
<1>10. CASE guardrailRetry
  <2>1. PICK keep \in KeepRejected : live' = Decide(RetryContext(keep), "continue")
    BY <1>10 DEF guardrailRetry
  <2> DEFINE d == RetryContext(keep)
  <2>2. IsState(d) /\ d.opTurn = live.opTurn
    BY <1>0, ContinuedKeeps DEF LoopInv, RetryContext
  <2>3. live' = Decide(d, "continue") BY <2>1
  <2> HIDE DEF d
  <2>4. IsState(live') /\ live'.opTurn = live.opTurn
    BY <2>2, <2>3, DecideKeeps
  <2> QED BY <1>0, <1>10, <2>4, QuietStep DEF guardrailRetry
<1>11. CASE responseRecovery
  <2> DEFINE D(said) == [Finalized(said) EXCEPT !.messages = Append(@, Plain("correction"))]
  <2>1. \A said : IsState(D(said)) /\ D(said).opTurn = live.opTurn
    BY <1>0, ContinuedKeeps DEF LoopInv
  <2>2. /\ pc' \in {"top", "failed"}
        /\ live' = Decide(live, "fail") \/ \E said, s : live' = WithLatest(D(said), s)
    BY <1>11 DEF responseRecovery, Fail, Stop
  <2> HIDE DEF D
  <2>3. IsState(live') /\ live'.opTurn = live.opTurn
    BY <1>0, <2>1, <2>2, WithLatestKeeps, DecideKeeps
  <2> QED BY <1>0, <1>11, <2>2, <2>3, QuietStep DEF responseRecovery
<1>12. CASE acceptAnswer
  <2>1. \E said : live' = Decide(Finalized(said), "continue") \/ live' = Finalized(said)
    BY <1>12 DEF acceptAnswer
  <2>2. \A said : IsState(Finalized(said)) /\ Finalized(said).opTurn = live.opTurn
    BY <1>0, FinalizedKeeps DEF LoopInv
  <2>3. IsState(live') /\ live'.opTurn = live.opTurn
    BY <2>1, <2>2, DecideKeeps
  <2>4. UNCHANGED <<saved, executed>> /\ pc' \in {"top", "finished"}
    BY <1>12 DEF acceptAnswer
  <2> QED BY <1>0, <2>3, <2>4, QuietStep
<1>13. CASE rejectAnswer
  <2>1. live' = Decide(live, "fail") /\ pc' = "failed" /\ UNCHANGED <<saved, executed>>
    BY <1>13 DEF rejectAnswer, Fail, Stop
  <2>2. IsState(live') /\ live'.opTurn = live.opTurn
    BY <1>0, <2>1, DecideKeeps
  <2> QED BY <1>0, <2>1, <2>2, QuietStep
<1>14. CASE finishRun
  <2>1. pc' \in {"done", "failed", "top"} /\ (live' = live \/ live' = Repaired(live))
    BY <1>14 DEF finishRun, Fail, Stop
  <2> DEFINE c == [live EXCEPT !.messages = Append(@, Plain("user")), !.repairs = @ + 1]
  <2>2. IsState(c) /\ c.opTurn = live.opTurn
    BY <1>0, MessagesTyped DEF IsState, Fields
  <2>3. Repaired(live) = Decide(c, "continue")
    BY DEF Repaired
  <2> HIDE DEF c
  <2>4. IsState(live') /\ live'.opTurn = live.opTurn
    BY <1>0, <2>1, <2>2, <2>3, DecideKeeps
  <2> QED BY <1>0, <1>14, <2>1, <2>4, QuietStep DEF finishRun
<1>15. CASE offerInput
  BY <1>15, IdleStep DEF offerInput
<1>16. CASE crash
  BY <1>0, <1>16, QuietStep DEF crash, Fail, Stop
<1>17. CASE resume
  <2>0. executed' = executed BY <1>17 DEF resume
  <2>1. CASE saved.phase = "ready" /\ live' = saved.state /\ pc' = "top" /\ UNCHANGED saved
    <3>1. OperationIdentity' BY <2>0 DEF LoopInv, OperationIdentity
    <3> QED BY <1>0, <2>0, <2>1, <3>1 DEF LoopInv, IsState
  <2>2. CASE saved.phase = "model_complete" /\ resumeModelComplete(saved.state)
    <3> DEFINE c == Unstepped(saved.state)
               m == Last(saved.state.messages)
    <3>1. Dispatchable(saved.state)
      BY <2>2 DEF LoopInv
    <3>2. IsState(c) /\ c.opTurn = saved.state.opTurn /\ m \in Msg
      BY <1>0, <3>1, UnsteppedKeeps DEF Dispatchable
    <3>3. m.op = c.opTurn - 1 /\ \A e \in executed : e[1] = m.op => e[3] = m.response
      BY <3>1, <3>2 DEF Dispatchable
    <3>4. beginToolStep(c, m, Latest(saved.state).model)
      BY <2>2 DEF resumeModelComplete
    <3> HIDE DEF c, m
    <3> QED BY <1>0, <2>0, <3>2, <3>3, <3>4, ToolBoundary
  <2>3. CASE saved.phase = "tools_complete" /\ resumeToolsComplete(saved.state)
    <3>1. OperationIdentity' BY <2>0 DEF LoopInv, OperationIdentity
    <3>2. live' = saved.state /\ saved' = saved /\ pc' \in {"top", "finished", "failed"}
      BY <2>3 DEF resumeToolsComplete
    <3> QED BY <1>0, <2>0, <2>3, <3>1, <3>2 DEF LoopInv, IsState
  <2>4. CASE saved.phase = "validating_output" /\ resumeValidatingOutput(saved.state)
    <3> DEFINE c == Unstepped(saved.state)
               t == Latest(saved.state).model
               said == TRUE
    <3>1. saved.state.messages # << >>
      BY <2>4 DEF LoopInv
    <3>2. IsState(c) /\ c.opTurn = saved.state.opTurn
      BY <1>0, <3>1, UnsteppedKeeps
    <3>3. beginFinalStep(c, said, t)
      BY <2>4 DEF resumeValidatingOutput
    <3> HIDE DEF c, t, said
    <3> QED BY <1>0, <2>0, <3>2, <3>3, FinalBoundary
  <2> QED BY <1>17, <2>1, <2>2, <2>3, <2>4 DEF resume
<1>18. CASE UNCHANGED vars
  BY <1>18, IdleStep DEF vars
<1> QED
  BY <1>1, <1>2, <1>3, <1>4, <1>5, <1>6, <1>7, <1>8, <1>9, <1>10, <1>11, <1>12, <1>13,
     <1>14, <1>15, <1>16, <1>17, <1>18 DEF Next, Loop, Stopped

-----------------------------------------------------------------------------

(* The invariant holds throughout every execution, crashes and resumptions   *)
(* included.                                                                *)
THEOREM LoopInvariance == Spec => []LoopInv
  BY InitInv, NextInv, PTL DEF Spec

(* An operation ID names one tool call: two effects under the same ID belong *)
(* to the same response, whatever crashed and was resumed (runToolStep,      *)
(* nextToolOperationTurn, resumeModelComplete).                             *)
THEOREM OneCallPerOperation == Spec => []OperationIdentity
<1>1. LoopInv => OperationIdentity BY DEF LoopInv
<1> QED BY <1>1, LoopInvariance, PTL

(* A tool takes effect only after the observer stored the response that asks *)
(* for it (runToolStep observes model_complete before it dispatches).       *)
THEOREM EffectsWrittenAhead == Spec => WriteAhead
<1> DEFINE A == executed' # executed =>
                    /\ saved.phase = "model_complete"
                    /\ executed' \ executed \subseteq Slots(Last(saved.state.messages))
<1>1. LoopInv /\ [Next]_vars => [A]_vars
  <2> SUFFICES ASSUME LoopInv, Next, executed' # executed PROVE A
    BY DEF vars
  <2>1. dispatchTools
    BY DEF Next, Loop, Stopped, vars, leaveLoop, prepareTurn, turnCallsTools, turnAnswers,
           turnPauses, turnInterrupted, turnFails, finalizeToolStep, guardrailRetry,
           responseRecovery, acceptAnswer, rejectAnswer, finishRun, offerInput, crash, resume
  <2>2. saved.phase = "model_complete" /\ saved.state = live
    BY <2>1 DEF dispatchTools, LoopInv
  <2>3. PICK effects \in SUBSET Slots(Last(live.messages)) : executed' = executed \cup effects
    BY <2>1 DEF dispatchTools
  <2> QED BY <2>2, <2>3
<1> HIDE DEF A
<1>2. [][A]_vars => WriteAhead BY DEF A, WriteAhead
<1> QED BY <1>1, <1>2, LoopInvariance, PTL DEF Spec

-----------------------------------------------------------------------------
(* What a working state records: types, counters and corrections. *)

Message ==
    [role : {"user", "assistant", "tool", "correction"}, calls : 0..MaxCalls, op : Int,
     response : Responses \cup {None}]

Entry ==
    [model : Nat, tokens : Nat, calls : Nat, context : Nat, traces : 0..MaxCalls,
     decision : {"continue", "finish", "fail"}, observed : {None, "pause", "recovery"}]

(* A response that calls tools. *)
ToolAsk == [role : {"assistant"}, calls : 1..MaxCalls, op : Nat, response : Responses]

(* State d counts at least what state c counts. *)
Ahead(d, c) ==
    /\ Len(d.steps) >= Len(c.steps)
    /\ d.usage >= c.usage
    /\ d.context >= c.context
    /\ d.toolCallsUsed >= c.toolCallsUsed
    /\ d.repairs >= c.repairs
    /\ d.opTurn >= c.opTurn

(* Each correction in the transcript has its Step, and these are bounded. *)
Corrections(c) == {i \in DOMAIN c.messages : c.messages[i].role = "correction"}
Recoveries(c) == {k \in DOMAIN c.steps : c.steps[k].observed = "recovery"}
Corrected(c) ==
    /\ Cardinality(Corrections(c)) <= Cardinality(Recoveries(c))
    /\ Cardinality(Recoveries(c)) <= MaxCorrections

(* The latest turn has its message and its Step, and no correction yet. *)
Uncorrected(c) == c.messages # << >> /\ c.steps # << >> /\ Latest(c).observed # "recovery"
Asking(c) == Uncorrected(c) /\ Last(c.messages) \in ToolAsk

(* What the loop relies on where it is, and resume on what is stored. *)
Place(p, c) ==
    /\ p = "model" => Len(c.steps) < MaxIterations
    /\ p = "dispatch" => Asking(c)
    /\ p = "executed" => c.steps # << >> /\ Assistants(c.messages) # {}
    /\ p = "validate" => Uncorrected(c)
    /\ p = "silent" => c.steps # << >> /\ Latest(c).observed # "recovery" /\ c.unsaid > 0
    /\ p = "finished" => c.steps # << >>

Kept(phase, c) ==
    /\ phase \in {None, "ready", "model_complete", "tools_complete", "validating_output"}
    /\ phase = "model_complete" => Asking(c)
    /\ phase = "validating_output" => Uncorrected(c)
    /\ phase = "tools_complete" => c.steps # << >>

Book(c) == c \in States /\ Len(c.steps) <= MaxIterations /\ Corrected(c)

(* The inductive invariant behind the types, the counters and the            *)
(* corrections: neither the live nor the stored state has more steps than    *)
(* iterations or a correction without its Step, the live one is never behind *)
(* the stored one, and each is what the loop or a resumption relies on next. *)
BookInv ==
    /\ Book(live)
    /\ Book(saved.state)
    /\ Ahead(live, saved.state)
    /\ Place(pc, live)
    /\ Kept(saved.phase, saved.state)
    /\ executed \subseteq (Nat \X Nat \X Responses)

(* From c the loop may come to d without running tools. *)
Grows(c, d) ==
    /\ d \in States
    /\ Ahead(d, c)
    /\ d.toolCallsUsed = c.toolCallsUsed
    /\ Corrected(c) => Corrected(d)

(* The fields of a state have their types. *)
LEMMA Fielded ==
    ASSUME NEW c \in States
    PROVE  /\ c.messages \in Seq(Message) /\ c.steps \in Seq(Entry)
           /\ c.usage \in Nat /\ c.context \in Nat /\ c.toolCallsUsed \in Nat
           /\ c.opTurn \in Nat /\ c.repairs \in 0..MaxRepairs /\ c.unsaid \in Nat
           /\ Len(c.steps) \in Nat /\ Len(c.messages) \in Nat
<1>1. c.messages \in Seq(Message) /\ c.steps \in Seq(Entry)
  BY DEF States, Message, Entry
<1>2. Len(c.steps) \in Nat /\ Len(c.messages) \in Nat
  BY <1>1
<1> QED BY <1>1, <1>2 DEF States

(* A typed state is one for the invariant of the operation turns too. *)
LEMMA StatesTyped == \A c \in States : IsState(c)
<1> SUFFICES ASSUME NEW c \in States PROVE IsState(c) OBVIOUS
<1>1. DOMAIN c = Fields BY DEF States, Fields
<1>2. c.messages \in Seq(Message) /\ c.opTurn \in Nat BY Fielded
<1>3. Message \subseteq Msg BY LoopAssumption DEF Message, Msg
<1>4. c.messages \in Seq(Msg) BY <1>2, <1>3
<1> QED BY <1>1, <1>2, <1>4 DEF IsState

(* The corrections and the recoveries of a state are finitely many. *)
LEMMA MarksFinite ==
    ASSUME NEW c \in States
    PROVE  IsFiniteSet(Corrections(c)) /\ IsFiniteSet(Recoveries(c))
<1>1. Corrections(c) \in SUBSET (1..Len(c.messages)) /\ Recoveries(c) \in SUBSET (1..Len(c.steps))
  BY Fielded DEF Corrections, Recoveries
<1>2. IsFiniteSet(1..Len(c.messages)) /\ IsFiniteSet(1..Len(c.steps))
  BY Fielded, FS_Interval
<1> QED BY <1>1, <1>2, FS_Subset

(* No less than is transitive. *)
LEMMA NoLess == \A x, y, z \in Int : y >= x /\ z >= y => z >= x
OBVIOUS

(* A state is ahead of itself, and ahead is transitive. *)
LEMMA AheadOrder ==
    /\ \A c \in States : Ahead(c, c)
    /\ \A c, d, e \in States : Ahead(d, c) /\ Ahead(e, d) => Ahead(e, c)
<1>1. \A c \in States : Ahead(c, c)
  BY Fielded DEF Ahead
<1>2. ASSUME NEW c \in States, NEW d \in States, NEW e \in States, Ahead(d, c), Ahead(e, d)
      PROVE  Ahead(e, c)
  <2>1. /\ Len(c.steps) \in Nat /\ Len(d.steps) \in Nat /\ Len(e.steps) \in Nat
        /\ c.usage \in Nat /\ d.usage \in Nat /\ e.usage \in Nat
        /\ c.context \in Nat /\ d.context \in Nat /\ e.context \in Nat
        /\ c.toolCallsUsed \in Nat /\ d.toolCallsUsed \in Nat /\ e.toolCallsUsed \in Nat
        /\ c.opTurn \in Nat /\ d.opTurn \in Nat /\ e.opTurn \in Nat
        /\ c.repairs \in Int /\ d.repairs \in Int /\ e.repairs \in Int
    BY Fielded
  <2>2. \A n \in Nat : n \in Int
    OBVIOUS
  <2>7. Ahead(d, c) /\ Ahead(e, d)
    BY <1>2
  <2>3. Len(e.steps) >= Len(c.steps)
    BY <2>1, <2>2, <2>7, NoLess, Zenon DEF Ahead
  <2>4. e.usage >= c.usage /\ e.context >= c.context
    BY <2>1, <2>2, <2>7, NoLess, Zenon DEF Ahead
  <2>5. e.toolCallsUsed >= c.toolCallsUsed /\ e.opTurn >= c.opTurn
    BY <2>1, <2>2, <2>7, NoLess, Zenon DEF Ahead
  <2>6. e.repairs >= c.repairs
    BY <2>1, <2>7, NoLess, Zenon DEF Ahead
  <2> QED BY <2>3, <2>4, <2>5, <2>6 DEF Ahead
<1> QED BY <1>1, <1>2

(* So is growing. *)
LEMMA GrowsOrder ==
    ASSUME NEW c \in States, NEW d, NEW e, Grows(c, d), Grows(d, e)
    PROVE  Grows(c, e)
<1>1. d \in States /\ e \in States BY DEF Grows
<1>2. Ahead(e, c) BY <1>1, AheadOrder DEF Grows
<1> QED BY <1>2 DEF Grows

(* A transcript with no new correction and Steps with the same recoveries    *)
(* keep the count.                                                          *)
LEMMA CorrectedKept ==
    ASSUME NEW c \in States, NEW d \in States, Corrections(d) \subseteq Corrections(c),
           Recoveries(d) = Recoveries(c), Corrected(c)
    PROVE  Corrected(d)
<1>1. Corrections(c) \in SUBSET (1..Len(c.messages)) /\ Recoveries(c) \in SUBSET (1..Len(c.steps))
  BY Fielded DEF Corrections, Recoveries
<1>2. IsFiniteSet(Corrections(c)) /\ IsFiniteSet(Recoveries(c))
  <2>1. IsFiniteSet(1..Len(c.messages)) /\ IsFiniteSet(1..Len(c.steps))
    BY Fielded, FS_Interval
  <2> QED BY <1>1, <2>1, FS_Subset
<1>3. IsFiniteSet(Corrections(d)) /\ Cardinality(Corrections(d)) <= Cardinality(Corrections(c))
  BY <1>2, FS_Subset
<1>4. /\ Cardinality(Corrections(d)) \in Nat /\ Cardinality(Corrections(c)) \in Nat
      /\ Cardinality(Recoveries(c)) \in Nat
  BY <1>2, <1>3, FS_CardinalityType
<1> QED BY <1>3, <1>4 DEF Corrected

-----------------------------------------------------------------------------
(* How the helpers let a state grow. *)

(* The latest Step may change in anything but a correction. *)
LEMMA LatestGrows ==
    ASSUME NEW c \in States, c.steps # << >>, NEW s \in Entry,
           s.observed = "recovery" <=> Latest(c).observed = "recovery"
    PROVE  /\ Grows(c, WithLatest(c, s))
           /\ WithLatest(c, s).messages = c.messages
           /\ Len(WithLatest(c, s).steps) = Len(c.steps)
           /\ WithLatest(c, s).steps # << >>
           /\ Latest(WithLatest(c, s)) = s
           /\ WithLatest(c, s).opTurn = c.opTurn
<1> DEFINE n == Len(c.steps)
           ss == [c.steps EXCEPT ![n] = s]
           d == WithLatest(c, s)
<1>1. c.steps \in Seq(Entry) /\ n \in Nat /\ n \in 1..n /\ DOMAIN c.steps = 1..n
  BY Fielded
<1>2. ss \in Seq(Entry) /\ Len(ss) = n /\ DOMAIN ss = 1..n /\ ss # << >>
  BY <1>1
<1>3. ss[n] = s /\ \A k \in 1..n : k # n => ss[k] = c.steps[k]
  BY <1>1
<1>4. d = [c EXCEPT !.steps = ss]
  BY DEF WithLatest
<1> HIDE DEF ss
<1>5. d \in States
  BY <1>2, <1>4 DEF States, Entry
<1>6. /\ d.messages = c.messages /\ d.steps = ss /\ d.usage = c.usage /\ d.context = c.context
      /\ d.toolCallsUsed = c.toolCallsUsed /\ d.opTurn = c.opTurn /\ d.repairs = c.repairs
  BY <1>4 DEF States
<1> HIDE DEF d
<1>7. Ahead(d, c)
  BY <1>1, <1>2, <1>6, Fielded DEF Ahead
<1>8. Recoveries(d) = Recoveries(c)
  BY <1>1, <1>2, <1>3, <1>6 DEF Recoveries, Latest
<1>9. Corrections(d) = Corrections(c)
  BY <1>6 DEF Corrections
<1>10. Corrected(c) => Corrected(d)
  BY <1>5, <1>8, <1>9, CorrectedKept
<1>11. Latest(d) = s
  BY <1>2, <1>3, <1>6 DEF Latest
<1>12. WithLatest(c, s) = d BY DEF d
<1> QED BY <1>2, <1>5, <1>6, <1>7, <1>10, <1>11, <1>12 DEF Grows

(* The latest Step is one. *)
LEMMA LatestTyped ==
    ASSUME NEW c \in States, c.steps # << >>
    PROVE  Latest(c) \in Entry
  BY Fielded DEF Latest

(* A decision changes the decision. *)
LEMMA DecideGrows ==
    ASSUME NEW c \in States, c.steps # << >>, NEW d \in {"continue", "finish", "fail"}
    PROVE  /\ Grows(c, Decide(c, d))
           /\ Decide(c, d).messages = c.messages
           /\ Len(Decide(c, d).steps) = Len(c.steps)
           /\ Decide(c, d).steps # << >>
           /\ Decide(c, d).opTurn = c.opTurn
<1> DEFINE s == [Latest(c) EXCEPT !.decision = d]
<1>1. s \in Entry /\ s.observed = Latest(c).observed
  BY LatestTyped DEF Entry
<1>2. Decide(c, d) = WithLatest(c, s) BY DEF Decide
<1> HIDE DEF s
<1> QED BY <1>1, <1>2, LatestGrows

(* A new message that is no correction. *)
LEMMA SaysGrows ==
    ASSUME NEW c \in States, NEW m \in Message, m.role # "correction"
    PROVE  /\ Grows(c, [c EXCEPT !.messages = Append(@, m)])
           /\ [c EXCEPT !.messages = Append(@, m)].steps = c.steps
           /\ [c EXCEPT !.messages = Append(@, m)].messages # << >>
<1> DEFINE d == [c EXCEPT !.messages = Append(@, m)]
           ms == Append(c.messages, m)
<1>1. /\ c.messages \in Seq(Message) /\ ms \in Seq(Message) /\ ms # << >>
      /\ DOMAIN ms = 1..(Len(c.messages) + 1) /\ ms[Len(c.messages) + 1] = m
      /\ \A i \in 1..Len(c.messages) : ms[i] = c.messages[i]
      /\ DOMAIN c.messages = 1..Len(c.messages) /\ Len(c.messages) \in Nat
  BY Fielded
<1> HIDE DEF ms
<1>2. d = [c EXCEPT !.messages = ms]
  BY DEF ms
<1>3. d \in States
  BY <1>1, <1>2 DEF States, Message
<1>4. /\ d.messages = ms /\ d.steps = c.steps /\ d.usage = c.usage /\ d.context = c.context
      /\ d.toolCallsUsed = c.toolCallsUsed /\ d.opTurn = c.opTurn /\ d.repairs = c.repairs
  BY <1>2 DEF States
<1> HIDE DEF d
<1>5. Ahead(d, c)
  BY <1>4, Fielded DEF Ahead
<1>6. Corrections(d) \subseteq Corrections(c)
  <2> SUFFICES ASSUME NEW i \in DOMAIN ms, ms[i].role = "correction"
               PROVE  i \in DOMAIN c.messages /\ c.messages[i].role = "correction"
    BY <1>4 DEF Corrections
  <2>1. i \in 1..Len(c.messages)
    BY <1>1
  <2> QED BY <1>1, <2>1
<1>7. Recoveries(d) = Recoveries(c)
  BY <1>4 DEF Recoveries
<1>8. Corrected(c) => Corrected(d)
  BY <1>3, <1>6, <1>7, CorrectedKept
<1>9. [c EXCEPT !.messages = Append(@, m)] = d BY DEF d
<1> QED BY <1>1, <1>3, <1>4, <1>5, <1>8, <1>9 DEF Grows

(* The messages the loop makes are messages. *)
LEMMA MessagesMade ==
    /\ \A role \in {"user", "assistant", "tool", "correction"} :
           Plain(role) \in Message /\ Plain(role).role = role
    /\ ToolAsk \subseteq Message
    /\ \A n \in Nat : Results(n) \in Seq(Message) /\ Len(Results(n)) = n
    /\ \A n \in Nat : \A i \in 1..n : Results(n)[i].role = "tool"
<1>0. 0 \in 0..MaxCalls /\ 1..MaxCalls \subseteq 0..MaxCalls
  BY LoopAssumption
<1>1. \A role \in {"user", "assistant", "tool", "correction"} :
          Plain(role) \in Message /\ Plain(role).role = role
  BY <1>0 DEF Plain, Message
<1>2. ToolAsk \subseteq Message
  BY <1>0 DEF ToolAsk, Message
<1>3. \A n \in Nat : Results(n) \in Seq(Message) /\ Len(Results(n)) = n
  BY <1>1 DEF Results
<1>4. \A n \in Nat : \A i \in 1..n : Results(n)[i].role = "tool"
  BY <1>1 DEF Results
<1> QED BY <1>1, <1>2, <1>3, <1>4

(* Usage and operation turns only grow. *)
LEMMA CountsGrow ==
    ASSUME NEW c \in States, NEW d \in States,
           d.messages = c.messages, d.steps = c.steps, d.usage >= c.usage,
           d.context >= c.context, d.opTurn >= c.opTurn,
           d.toolCallsUsed = c.toolCallsUsed, d.repairs = c.repairs
    PROVE  Grows(c, d)
<1>1. Ahead(d, c)
  BY Fielded DEF Ahead
<1>2. Corrections(d) = Corrections(c) /\ Recoveries(d) = Recoveries(c)
  BY DEF Corrections, Recoveries
<1>3. Corrected(c) => Corrected(d)
  BY <1>2 DEF Corrected
<1> QED BY <1>1, <1>3 DEF Grows

(* A summary. *)
LEMMA SummarisedGrows ==
    ASSUME NEW c \in States, NEW k \in Nat
    PROVE  /\ Grows(c, Summarised(c, k))
           /\ Summarised(c, k).messages = c.messages
           /\ Len(Summarised(c, k).steps) = Len(c.steps)
           /\ Summarised(c, k).opTurn = c.opTurn
<1> DEFINE d == [c EXCEPT !.usage = @ + k, !.context = @ + k]
<1>1. c.usage \in Nat /\ c.context \in Nat /\ c.opTurn \in Nat
  BY Fielded
<1>2. /\ d \in States /\ d.messages = c.messages /\ d.steps = c.steps
      /\ d.usage = c.usage + k /\ d.context = c.context + k /\ d.opTurn = c.opTurn
      /\ d.toolCallsUsed = c.toolCallsUsed /\ d.repairs = c.repairs
  <2> DEFINE u == c.usage + k
             x == c.context + k
  <2>1. u \in Nat /\ x \in Nat BY <1>1
  <2>2. d = [c EXCEPT !.usage = u, !.context = x] OBVIOUS
  <2> HIDE DEF u, x, d
  <2>3. d \in States BY <2>1, <2>2 DEF States
  <2>4. /\ d.messages = c.messages /\ d.steps = c.steps /\ d.usage = u /\ d.context = x
        /\ d.opTurn = c.opTurn /\ d.toolCallsUsed = c.toolCallsUsed /\ d.repairs = c.repairs
    BY <2>2 DEF States
  <2> QED BY <2>3, <2>4 DEF u, x
<1>21. Summarised(c, k) = IF k = 0 \/ c.steps = << >> THEN d
           ELSE WithLatest(d, [Latest(d) EXCEPT !.tokens = d.usage, !.context = d.context])
  BY DEF Summarised
<1> HIDE DEF d
<1>3. Grows(c, d)
  BY <1>1, <1>2, CountsGrow
<1>4. CASE k = 0 \/ c.steps = << >>
  BY <1>2, <1>3, <1>21, <1>4
<1>5. CASE ~(k = 0 \/ c.steps = << >>)
  <2> DEFINE s == [Latest(d) EXCEPT !.tokens = d.usage, !.context = d.context]
  <2>1. Summarised(c, k) = WithLatest(d, s)
    BY <1>5, <1>21
  <2>2. d \in States /\ d.steps # << >>
    BY <1>2, <1>5
  <2>3. s \in Entry /\ s.observed = Latest(d).observed
    BY <2>2, Fielded, LatestTyped DEF Entry
  <2> HIDE DEF s
  <2>4. /\ Grows(d, WithLatest(d, s)) /\ WithLatest(d, s).messages = d.messages
        /\ Len(WithLatest(d, s).steps) = Len(d.steps) /\ WithLatest(d, s).opTurn = d.opTurn
    BY <2>2, <2>3, LatestGrows
  <2>5. Grows(c, WithLatest(d, s))
    BY <1>3, <2>4, GrowsOrder
  <2> QED BY <1>2, <2>1, <2>4, <2>5
<1> QED BY <1>4, <1>5

(* Input taken. *)
LEMMA TakenGrows ==
    ASSUME NEW c \in States
    PROVE  Grows(c, Taken(c)) /\ Len(Taken(c).steps) = Len(c.steps) /\ Taken(c).opTurn = c.opTurn
<1> DEFINE d == [c EXCEPT !.messages = Append(@, Plain("user"))]
           s == [Latest(d) EXCEPT !.observed = None]
<1>1. Plain("user") \in Message /\ Plain("user").role # "correction"
  BY MessagesMade
<1>2. Grows(c, d) /\ d.steps = c.steps
  BY <1>1, SaysGrows
<1>3. d.opTurn = c.opTurn
  BY DEF States
<1>4. Grows(c, c)
  BY AheadOrder DEF Grows
<1>5. \/ Taken(c) \in {c, d}
      \/ c.steps # << >> /\ Latest(c).observed = "pause" /\ Taken(c) = WithLatest(d, s)
  BY DEF Taken
<1> HIDE DEF d
<1>6. CASE c.steps # << >> /\ Latest(c).observed = "pause" /\ Taken(c) = WithLatest(d, s)
  <2>1. d \in States /\ d.steps # << >> /\ Latest(d) = Latest(c)
    BY <1>2, <1>6 DEF Grows, Latest
  <2>2. s \in Entry /\ s.observed = None
    BY <2>1, LatestTyped DEF Entry
  <2>3. s.observed = "recovery" <=> Latest(d).observed = "recovery"
    BY <1>6, <2>1, <2>2 DEF None
  <2> HIDE DEF s
  <2>4. /\ Grows(d, WithLatest(d, s)) /\ Len(WithLatest(d, s).steps) = Len(d.steps)
        /\ WithLatest(d, s).opTurn = d.opTurn
    BY <2>1, <2>2, <2>3, LatestGrows
  <2>5. Grows(c, WithLatest(d, s))
    BY <1>2, <2>4, GrowsOrder
  <2> QED BY <1>2, <1>3, <1>6, <2>4, <2>5
<1> QED BY <1>2, <1>3, <1>4, <1>5, <1>6

(* A turn that ran. *)
LEMMA TurnedGrows ==
    ASSUME NEW c \in States, NEW k \in Nat, NEW t \in Nat
    PROVE  /\ Grows(c, Turned(c, k, t))
           /\ Turned(c, k, t).messages = c.messages
           /\ Len(Turned(c, k, t).steps) = Len(c.steps)
           /\ Turned(c, k, t).opTurn = c.opTurn + 1
<1> DEFINE d == Summarised(c, k)
           e == [d EXCEPT !.usage = @ + t, !.opTurn = @ + 1]
<1>1. /\ Grows(c, d) /\ d.messages = c.messages /\ Len(d.steps) = Len(c.steps)
      /\ d.opTurn = c.opTurn
  BY SummarisedGrows
<1>2. Turned(c, k, t) = e
  BY DEF Turned
<1> HIDE DEF d
<1>3. d \in States BY <1>1 DEF Grows
<1>4. d.usage \in Nat /\ d.opTurn \in Nat /\ d.context \in Nat
  BY <1>3, Fielded
<1>5. /\ e \in States /\ e.messages = d.messages /\ e.steps = d.steps
      /\ e.usage = d.usage + t /\ e.context = d.context /\ e.opTurn = d.opTurn + 1
      /\ e.toolCallsUsed = d.toolCallsUsed /\ e.repairs = d.repairs
  <2> DEFINE u == d.usage + t
             o == d.opTurn + 1
  <2>1. u \in Nat /\ o \in Nat BY <1>4
  <2>2. e = [d EXCEPT !.usage = u, !.opTurn = o] OBVIOUS
  <2> HIDE DEF u, o, e
  <2>3. e \in States BY <1>3, <2>1, <2>2 DEF States
  <2>4. /\ e.messages = d.messages /\ e.steps = d.steps /\ e.usage = u
        /\ e.context = d.context /\ e.opTurn = o /\ e.toolCallsUsed = d.toolCallsUsed
        /\ e.repairs = d.repairs
    BY <1>3, <2>2 DEF States
  <2> QED BY <2>3, <2>4 DEF u, o
<1> HIDE DEF e
<1>6. Grows(d, e)
  BY <1>3, <1>4, <1>5, CountsGrow
<1>7. Grows(c, e)
  BY <1>1, <1>6, GrowsOrder
<1> QED BY <1>1, <1>2, <1>5, <1>7

(* A Step made from a state. *)
LEMMA NewStepTyped ==
    ASSUME NEW c \in States, NEW t \in Nat, NEW d \in {"continue", "finish", "fail"},
           NEW o \in {None, "pause"}
    PROVE  NewStep(c, t, d, o) \in Entry /\ NewStep(c, t, d, o).observed # "recovery"
<1>1. 0 \in 0..MaxCalls
  BY LoopAssumption
<1> QED BY <1>1, Fielded DEF NewStep, Entry, None

(* A new Step that is no correction, with a message or without. *)
LEMMA StepGrows ==
    ASSUME NEW c \in States, NEW s \in Entry, s.observed # "recovery"
    PROVE  /\ Grows(c, [c EXCEPT !.steps = Append(@, s)])
           /\ Len([c EXCEPT !.steps = Append(@, s)].steps) = Len(c.steps) + 1
           /\ [c EXCEPT !.steps = Append(@, s)].steps # << >>
           /\ Latest([c EXCEPT !.steps = Append(@, s)]) = s
           /\ [c EXCEPT !.steps = Append(@, s)].messages = c.messages
<1> DEFINE d == [c EXCEPT !.steps = Append(@, s)]
           ss == Append(c.steps, s)
           n == Len(c.steps)
<1>0. c.steps \in Seq(Entry) /\ n \in Nat
  BY Fielded
<1>1. /\ n \in Nat /\ ss \in Seq(Entry) /\ ss # << >> /\ Len(ss) = n + 1
      /\ DOMAIN ss = 1..(n + 1) /\ ss[n + 1] = s /\ \A k \in 1..n : ss[k] = c.steps[k]
      /\ DOMAIN c.steps = 1..n
  BY <1>0
<1> HIDE DEF ss
<1>2. d = [c EXCEPT !.steps = ss]
  BY DEF ss
<1>3. d \in States
  BY <1>1, <1>2 DEF States, Entry
<1>4. /\ d.messages = c.messages /\ d.steps = ss /\ d.usage = c.usage /\ d.context = c.context
      /\ d.toolCallsUsed = c.toolCallsUsed /\ d.opTurn = c.opTurn /\ d.repairs = c.repairs
  BY <1>2 DEF States
<1> HIDE DEF d
<1>5. Ahead(d, c)
  BY <1>1, <1>4, Fielded DEF Ahead
<1>6. Recoveries(d) = Recoveries(c)
  <2>1. \A k \in 1..(n + 1) : k = n + 1 \/ k \in 1..n
    BY <1>1
  <2>2. 1..n \subseteq 1..(n + 1)
    BY <1>1
  <2> QED BY <1>1, <1>4, <2>1, <2>2 DEF Recoveries
<1>7. Corrections(d) = Corrections(c)
  BY <1>4 DEF Corrections
<1>8. Corrected(c) => Corrected(d)
  BY <1>3, <1>6, <1>7, CorrectedKept
<1>9. Latest(d) = s
  BY <1>1, <1>4 DEF Latest
<1>10. [c EXCEPT !.steps = Append(@, s)] = d BY DEF d
<1> QED BY <1>1, <1>3, <1>4, <1>5, <1>8, <1>9, <1>10 DEF Grows

(* A turn recorded: its message and its Step. *)
LEMMA RecordedGrows ==
    ASSUME NEW c \in States, NEW m \in Message, m.role # "correction",
           NEW s \in Entry, s.observed # "recovery"
    PROVE  /\ Grows(c, Recorded(c, m, s))
           /\ Len(Recorded(c, m, s).steps) = Len(c.steps) + 1
           /\ Uncorrected(Recorded(c, m, s))
           /\ Last(Recorded(c, m, s).messages) = m
           /\ Recorded(c, m, s).opTurn = c.opTurn
<1> DEFINE d == [c EXCEPT !.messages = Append(@, m)]
           e == [d EXCEPT !.steps = Append(@, s)]
<1>1. Grows(c, d) /\ d.steps = c.steps /\ d.messages # << >>
  BY SaysGrows
<1>2. d.messages = Append(c.messages, m) /\ d.opTurn = c.opTurn
  BY DEF States
<1>3. Recorded(c, m, s) = e /\ e.opTurn = c.opTurn
  BY DEF Recorded, States
<1> HIDE DEF d
<1>4. d \in States BY <1>1 DEF Grows
<1>5. /\ Grows(d, e) /\ Len(e.steps) = Len(d.steps) + 1 /\ e.steps # << >> /\ Latest(e) = s
      /\ e.messages = d.messages
  BY <1>4, StepGrows
<1> HIDE DEF e
<1>6. Grows(c, e)
  BY <1>1, <1>5, GrowsOrder
<1>7. Last(Append(c.messages, m)) = m
  BY Fielded DEF Last
<1> QED BY <1>1, <1>2, <1>3, <1>5, <1>6, <1>7 DEF Uncorrected

(* A batch of tools adds its results and what it used. *)
LEMMA ExecutedGrows ==
    ASSUME NEW c \in States, c.steps # << >>, c.messages # << >>, NEW n \in Nat, NEW u \in Nat
    PROVE  /\ Executed(c, n, u) \in States
           /\ Ahead(Executed(c, n, u), c)
           /\ Executed(c, n, u).toolCallsUsed = c.toolCallsUsed + Batch(c)
           /\ Len(Executed(c, n, u).steps) = Len(c.steps)
           /\ Executed(c, n, u).steps # << >>
           /\ Corrected(c) => Corrected(Executed(c, n, u))
           /\ Executed(c, n, u).messages = c.messages \o Results(n)
           /\ Executed(c, n, u).opTurn = c.opTurn
<1> DEFINE ms == c.messages \o Results(n)
           b == c.toolCallsUsed + Batch(c)
           w == c.usage + u
           d == [c EXCEPT !.messages = @ \o Results(n), !.toolCallsUsed = @ + Batch(c),
                          !.usage = @ + u]
           s == [Latest(d) EXCEPT !.tokens = d.usage, !.calls = d.toolCallsUsed]
<1>1. Batch(c) \in Nat
  <2>1. Last(c.messages) \in Message
    BY Fielded DEF Last
  <2> QED BY <2>1, LoopAssumption DEF Batch, Message
<1>2. b \in Nat /\ b >= c.toolCallsUsed /\ w \in Nat /\ w >= c.usage
  BY <1>1, Fielded
<1>3. /\ c.messages \in Seq(Message) /\ Results(n) \in Seq(Message) /\ Len(Results(n)) = n
      /\ Len(c.messages) \in Nat /\ DOMAIN c.messages = 1..Len(c.messages)
  <2>1. c.messages \in Seq(Message) BY Fielded
  <2>2. Results(n) \in Seq(Message) /\ Len(Results(n)) = n BY MessagesMade
  <2> QED BY <2>1, <2>2
<1>4. /\ ms \in Seq(Message) /\ DOMAIN ms = 1..(Len(c.messages) + n)
      /\ \A i \in DOMAIN ms : ms[i] = IF i <= Len(c.messages) THEN c.messages[i]
                                      ELSE Results(n)[i - Len(c.messages)]
  BY <1>3
<1>5. \A i \in DOMAIN ms : ms[i].role = "correction" =>
          i \in DOMAIN c.messages /\ c.messages[i].role = "correction"
  <2> SUFFICES ASSUME NEW i \in DOMAIN ms, ms[i].role = "correction"
               PROVE  i \in DOMAIN c.messages /\ c.messages[i].role = "correction"
    OBVIOUS
  <2>1. i \in 1..(Len(c.messages) + n) BY <1>4
  <2>2. i <= Len(c.messages)
    <3> SUFFICES ASSUME ~(i <= Len(c.messages)) PROVE FALSE
      OBVIOUS
    <3>1. i - Len(c.messages) \in 1..n BY <1>3, <2>1
    <3>2. Results(n)[i - Len(c.messages)].role = "tool" BY <3>1, MessagesMade
    <3> QED BY <1>4, <3>2
  <2> QED BY <1>3, <1>4, <2>1, <2>2
<1> HIDE DEF ms, b, w
<1>6. d = [c EXCEPT !.messages = ms, !.toolCallsUsed = b, !.usage = w]
  BY DEF States, ms, b, w
<1>7. d \in States
  BY <1>2, <1>4, <1>6 DEF States, Message
<1>8. /\ d.messages = ms /\ d.steps = c.steps /\ d.usage = w /\ d.context = c.context
      /\ d.toolCallsUsed = b /\ d.opTurn = c.opTurn /\ d.repairs = c.repairs
  BY <1>6 DEF States
<1>9. Executed(c, n, u) = WithLatest(d, s)
  BY DEF Executed
<1> HIDE DEF d
<1>10. Ahead(d, c)
  BY <1>2, <1>8, Fielded DEF Ahead
<1>11. Corrections(d) \subseteq Corrections(c) /\ Recoveries(d) = Recoveries(c)
  BY <1>5, <1>8 DEF Corrections, Recoveries
<1>12. Corrected(c) => Corrected(d)
  BY <1>7, <1>11, CorrectedKept
<1>13. s \in Entry /\ s.observed = Latest(d).observed
  BY <1>2, <1>7, <1>8, LatestTyped DEF Entry
<1> HIDE DEF s
<1>14. /\ Grows(d, WithLatest(d, s)) /\ WithLatest(d, s).messages = d.messages
       /\ Len(WithLatest(d, s).steps) = Len(d.steps) /\ WithLatest(d, s).steps # << >>
       /\ WithLatest(d, s).opTurn = d.opTurn
  BY <1>7, <1>8, <1>13, LatestGrows
<1>15. Ahead(WithLatest(d, s), c) /\ WithLatest(d, s) \in States
  BY <1>7, <1>10, <1>14, AheadOrder DEF Grows
<1> QED BY <1>8, <1>9, <1>12, <1>14, <1>15 DEF Grows, ms, b

(* Another transcript without a new correction. *)
LEMMA TranscriptGrows ==
    ASSUME NEW c \in States, NEW ms \in Seq(Message),
           \A i \in DOMAIN ms : ms[i].role = "correction" =>
               i \in DOMAIN c.messages /\ c.messages[i].role = "correction"
    PROVE  /\ Grows(c, [c EXCEPT !.messages = ms])
           /\ [c EXCEPT !.messages = ms].steps = c.steps
           /\ [c EXCEPT !.messages = ms].opTurn = c.opTurn
<1> DEFINE d == [c EXCEPT !.messages = ms]
<1>1. d \in States
  BY DEF States, Message
<1>2. /\ d.messages = ms /\ d.steps = c.steps /\ d.usage = c.usage /\ d.context = c.context
      /\ d.toolCallsUsed = c.toolCallsUsed /\ d.opTurn = c.opTurn /\ d.repairs = c.repairs
  BY DEF States
<1>3. Ahead(d, c)
  BY <1>2, Fielded DEF Ahead
<1>4. Corrections(d) \subseteq Corrections(c) /\ Recoveries(d) = Recoveries(c)
  BY <1>2 DEF Corrections, Recoveries
<1>5. Corrected(c) => Corrected(d)
  BY <1>1, <1>4, CorrectedKept
<1> QED BY <1>1, <1>2, <1>3, <1>5 DEF Grows

(* A transcript without its last message. *)
LEMMA FrontOf ==
    ASSUME NEW ms \in Seq(Message), ms # << >>
    PROVE  /\ Front(ms) \in Seq(Message) /\ Len(Front(ms)) = Len(ms) - 1
           /\ Len(ms) - 1 \in Nat
           /\ \A i \in 1..(Len(ms) - 1) : Front(ms)[i] = ms[i]
           /\ Last(ms) = ms[Len(ms)] /\ Last(ms) \in Message
<1>1. Len(ms) \in Nat /\ Len(ms) # 0 /\ \A i \in 1..Len(ms) : ms[i] \in Message
  OBVIOUS
<1>2. Len(ms) - 1 \in Nat /\ \A i \in 1..(Len(ms) - 1) : i \in 1..Len(ms)
  BY <1>1
<1>3. Front(ms) = [i \in 1..(Len(ms) - 1) |-> ms[i]]
  BY <1>1 DEF Front
<1>4. Front(ms) \in Seq(Message) /\ Len(Front(ms)) = Len(ms) - 1
  BY <1>1, <1>2, <1>3
<1>5. Last(ms) = ms[Len(ms)] /\ Last(ms) \in Message
  BY <1>1 DEF Last
<1> QED BY <1>2, <1>3, <1>4, <1>5

(* The history field counts nothing. *)
LEMMA UnsaidGrows ==
    ASSUME NEW c \in States, NEW n \in Nat, NEW d, d = [c EXCEPT !.unsaid = n]
    PROVE  /\ Grows(c, d) /\ d.steps = c.steps /\ d.messages = c.messages
           /\ d.opTurn = c.opTurn /\ d.unsaid = n
<1>1. d \in States
  BY DEF States
<1>2. /\ d.messages = c.messages /\ d.steps = c.steps /\ d.usage = c.usage
      /\ d.context = c.context /\ d.toolCallsUsed = c.toolCallsUsed /\ d.opTurn = c.opTurn
      /\ d.repairs = c.repairs /\ d.unsaid = n
  BY DEF States
<1>3. Grows(c, d)
  <2>1. d.usage >= c.usage /\ d.context >= c.context /\ d.opTurn >= c.opTurn
    BY <1>2, Fielded
  <2> QED BY <1>1, <1>2, <2>1, CountsGrow
<1> QED BY <1>2, <1>3

(* A message left out. *)
LEMMA WithheldGrows ==
    ASSUME NEW c \in States, c.messages # << >>
    PROVE  /\ Grows(c, Withheld(c)) /\ Withheld(c).steps = c.steps
           /\ Withheld(c).opTurn = c.opTurn /\ Withheld(c).unsaid = c.unsaid + 1
           /\ Withheld(c).messages = Front(c.messages)
<1> DEFINE ms == c.messages
           fs == Front(ms)
           d == [c EXCEPT !.messages = fs]
<1>1. ms \in Seq(Message) /\ ms # << >> /\ Len(ms) \in Nat
  BY Fielded
<1>2. /\ fs \in Seq(Message) /\ Len(fs) = Len(ms) - 1
      /\ \A i \in 1..(Len(ms) - 1) : fs[i] = ms[i]
  BY <1>1, FrontOf
<1>3. \A i \in DOMAIN fs : fs[i].role = "correction" =>
          i \in DOMAIN ms /\ ms[i].role = "correction"
  BY <1>1, <1>2
<1>4. d.messages = fs /\ d.unsaid = c.unsaid
  BY DEF States
<1>5. Withheld(c) = [d EXCEPT !.unsaid = c.unsaid + 1]
  BY DEF Withheld, States
<1> HIDE DEF fs
<1>6. Grows(c, d) /\ d.steps = c.steps /\ d.opTurn = c.opTurn
  BY <1>2, <1>3, TranscriptGrows
<1> HIDE DEF d
<1>7. d \in States /\ c.unsaid + 1 \in Nat
  BY <1>6, Fielded DEF Grows
<1>8. /\ Grows(d, Withheld(c)) /\ Withheld(c).steps = d.steps
      /\ Withheld(c).messages = d.messages /\ Withheld(c).opTurn = d.opTurn
      /\ Withheld(c).unsaid = c.unsaid + 1
  BY <1>5, <1>7, UnsaidGrows
<1>9. Grows(c, Withheld(c))
  BY <1>6, <1>8, GrowsOrder
<1> QED BY <1>4, <1>6, <1>8, <1>9 DEF fs

(* The answer under scrutiny has its Step and its message. *)
LEMMA JudgedGrows ==
    ASSUME live \in States, pc \in {"validate", "silent"}, Place(pc, live)
    PROVE  /\ Grows(live, Judged) /\ Judged.steps = live.steps /\ Judged.opTurn = live.opTurn
           /\ Judged.messages # << >> /\ live.steps # << >> /\ Latest(live).observed # "recovery"
           /\ Judged.unsaid = IF pc = "validate" THEN live.unsaid ELSE live.unsaid - 1
<1>1. CASE pc = "validate"
  <2>1. Judged = live /\ Uncorrected(live)
    BY <1>1 DEF Judged, Place
  <2>2. Grows(live, live)
    BY AheadOrder DEF Grows
  <2> QED BY <1>1, <2>1, <2>2 DEF Uncorrected
<1>2. CASE pc = "silent"
  <2> DEFINE m == Plain("assistant")
             d == [live EXCEPT !.messages = Append(@, m)]
             n == live.unsaid - 1
  <2>1. live.steps # << >> /\ Latest(live).observed # "recovery" /\ n \in Nat
    BY <1>2, Fielded DEF Place
  <2>2. m \in Message /\ m.role # "correction"
    BY MessagesMade
  <2>3. Judged = [d EXCEPT !.unsaid = n]
    <3>1. Judged = [live EXCEPT !.messages = Append(@, m), !.unsaid = @ - 1]
      BY <1>2 DEF Judged
    <3> HIDE DEF m
    <3> QED BY <3>1 DEF States
  <2>4. d.opTurn = live.opTurn
    BY DEF States
  <2>5. Grows(live, d) /\ d.steps = live.steps /\ d.messages # << >>
    BY <2>2, SaysGrows
  <2> HIDE DEF d, n
  <2>6. d \in States BY <2>5 DEF Grows
  <2>7. /\ Grows(d, Judged) /\ Judged.steps = d.steps /\ Judged.messages = d.messages
        /\ Judged.opTurn = d.opTurn /\ Judged.unsaid = n
    BY <2>1, <2>3, <2>6, UnsaidGrows
  <2>8. Grows(live, Judged)
    BY <2>5, <2>7, GrowsOrder
  <2> QED BY <1>2, <2>1, <2>4, <2>5, <2>7, <2>8 DEF n
<1> QED BY <1>1, <1>2

(* What is left of it too, but perhaps its message. *)
LEMMA FinalizedGrows ==
    ASSUME live \in States, pc \in {"validate", "silent"}, Place(pc, live), NEW said
    PROVE  /\ Grows(live, Finalized(said)) /\ Finalized(said).steps = live.steps
           /\ live.steps # << >> /\ Latest(live).observed # "recovery"
           /\ Finalized(said).unsaid = IF said THEN Judged.unsaid ELSE Judged.unsaid + 1
<1>1. /\ Grows(live, Judged) /\ Judged.steps = live.steps
      /\ Judged.messages # << >> /\ live.steps # << >> /\ Latest(live).observed # "recovery"
  BY JudgedGrows
<1>2. CASE said
  BY <1>1, <1>2 DEF Finalized
<1>3. CASE ~said
  <2>1. Judged \in States BY <1>1 DEF Grows
  <2>2. /\ Grows(Judged, Withheld(Judged)) /\ Withheld(Judged).steps = Judged.steps
        /\ Withheld(Judged).unsaid = Judged.unsaid + 1
    BY <1>1, <2>1, WithheldGrows
  <2>3. Grows(live, Withheld(Judged))
    BY <1>1, <2>2, GrowsOrder
  <2> QED BY <1>1, <1>3, <2>2, <2>3 DEF Finalized
<1> QED BY <1>2, <1>3

(* What a guardrail retry makes of the transcript. *)
LEMMA RetryGrows ==
    ASSUME live \in States, pc \in {"validate", "silent"}, Place(pc, live), NEW keep
    PROVE  Grows(live, RetryContext(keep)) /\ RetryContext(keep).steps = live.steps
<1> DEFINE c == Finalized(keep /\ pc = "validate")
           m == Plain("user")
           d == [c EXCEPT !.messages = Append(@, m)]
<1>1. Grows(live, c) /\ c.steps = live.steps
  BY FinalizedGrows
<1>2. m \in Message /\ m.role # "correction"
  BY MessagesMade
<1>3. RetryContext(keep) = d
  BY DEF RetryContext
<1> HIDE DEF c, m
<1>4. Grows(c, d) /\ d.steps = c.steps
  BY <1>1, <1>2, SaysGrows DEF Grows
<1> HIDE DEF d
<1>5. Grows(live, d)
  BY <1>1, <1>4, GrowsOrder
<1> QED BY <1>1, <1>3, <1>4, <1>5

(* A correction, while one is left: the message and its Step go together. *)
LEMMA CorrectionGrows ==
    ASSUME NEW c \in States, c.steps # << >>, Latest(c).observed # "recovery", Corrected(c),
           Cardinality(Recoveries(c)) < MaxCorrections, NEW d,
           d = WithLatest([c EXCEPT !.messages = Append(@, Plain("correction"))],
                          [Latest(c) EXCEPT !.decision = "continue", !.observed = "recovery"])
    PROVE  Grows(c, d) /\ Len(d.steps) = Len(c.steps) /\ Corrected(d)
<1> DEFINE m == Plain("correction")
           s == [Latest(c) EXCEPT !.decision = "continue", !.observed = "recovery"]
           l == Len(c.messages)
           n == Len(c.steps)
           ms == Append(c.messages, m)
           ss == [c.steps EXCEPT ![n] = s]
<1>1. /\ c.messages \in Seq(Message) /\ l \in Nat /\ DOMAIN c.messages = 1..l
      /\ c.steps \in Seq(Entry) /\ n \in Nat /\ n \in 1..n /\ DOMAIN c.steps = 1..n
  BY Fielded
<1>2. m \in Message /\ m.role = "correction"
  BY MessagesMade
<1>3. s \in Entry /\ s.observed = "recovery"
  BY <1>1, LatestTyped DEF Entry
<1>4. d = [c EXCEPT !.messages = ms, !.steps = ss]
  BY DEF WithLatest, States
<1> HIDE DEF m, s
<1>5. /\ ms \in Seq(Message) /\ DOMAIN ms = 1..(l + 1) /\ ms[l + 1] = m
      /\ \A i \in 1..l : ms[i] = c.messages[i]
  BY <1>1, <1>2
<1>6. /\ ss \in Seq(Entry) /\ DOMAIN ss = 1..n /\ Len(ss) = n /\ ss[n] = s
      /\ \A k \in 1..n : k # n => ss[k] = c.steps[k]
  BY <1>1, <1>3
<1> HIDE DEF ms, ss
<1>7. d \in States
  BY <1>4, <1>5, <1>6 DEF States, Message, Entry
<1>8. /\ d.messages = ms /\ d.steps = ss /\ d.usage = c.usage /\ d.context = c.context
      /\ d.toolCallsUsed = c.toolCallsUsed /\ d.opTurn = c.opTurn /\ d.repairs = c.repairs
  BY <1>4 DEF States
<1>9. Ahead(d, c)
  BY <1>1, <1>6, <1>8, Fielded DEF Ahead
<1>10. Corrections(d) = Corrections(c) \cup {l + 1} /\ l + 1 \notin Corrections(c)
  <2>1. \A i \in 1..(l + 1) : i = l + 1 \/ i \in 1..l
    BY <1>1
  <2>2. 1..l \subseteq 1..(l + 1) /\ l + 1 \notin 1..l /\ l + 1 \in 1..(l + 1)
    BY <1>1
  <2> QED BY <1>1, <1>2, <1>5, <1>8, <2>1, <2>2 DEF Corrections
<1>11. Recoveries(d) = Recoveries(c) \cup {n} /\ n \notin Recoveries(c)
  BY <1>1, <1>3, <1>6, <1>8, SMTT(30) DEF Recoveries, Latest
<1>12. IsFiniteSet(Corrections(c)) /\ IsFiniteSet(Recoveries(c))
  <2>1. Corrections(c) \in SUBSET (1..l) /\ Recoveries(c) \in SUBSET (1..n)
    BY <1>1 DEF Corrections, Recoveries
  <2>2. IsFiniteSet(1..l) /\ IsFiniteSet(1..n)
    <3>1. l \in Int /\ n \in Int /\ 1 \in Int BY <1>1
    <3> HIDE DEF l, n
    <3> QED BY <3>1, FS_Interval
  <2> QED BY <2>1, <2>2, FS_Subset
<1>13. /\ Cardinality(Corrections(d)) = Cardinality(Corrections(c)) + 1
       /\ Cardinality(Recoveries(d)) = Cardinality(Recoveries(c)) + 1
  BY <1>10, <1>11, <1>12, FS_AddElement
<1>14. Cardinality(Corrections(c)) \in Nat /\ Cardinality(Recoveries(c)) \in Nat
  BY <1>12, FS_CardinalityType
<1>15. Corrected(d)
  BY <1>13, <1>14, LoopAssumption DEF Corrected
<1> QED BY <1>6, <1>7, <1>8, <1>9, <1>15 DEF Grows

(* A repair of the structured output. *)
LEMMA RepairedGrows ==
    ASSUME NEW c \in States, c.steps # << >>, c.repairs < MaxRepairs
    PROVE  Grows(c, Repaired(c)) /\ Len(Repaired(c).steps) = Len(c.steps)
<1> DEFINE m == Plain("user")
           d == [c EXCEPT !.messages = Append(@, m)]
           r == c.repairs + 1
           e == [d EXCEPT !.repairs = r]
<1>1. Grows(c, d) /\ d.steps = c.steps
  BY MessagesMade, SaysGrows
<1>2. Repaired(c) = Decide(e, "continue")
  BY DEF Repaired, States
<1>3. d.repairs = c.repairs
  BY DEF States
<1> HIDE DEF d
<1>4. d \in States BY <1>1 DEF Grows
<1>5. r \in 0..MaxRepairs /\ r >= d.repairs
  BY <1>3, Fielded, LoopAssumption
<1> HIDE DEF r
<1>6. e \in States
  BY <1>4, <1>5 DEF States
<1>7. /\ e.messages = d.messages /\ e.steps = d.steps /\ e.usage = d.usage
      /\ e.context = d.context /\ e.toolCallsUsed = d.toolCallsUsed /\ e.opTurn = d.opTurn
      /\ e.repairs = r
  BY <1>4 DEF States
<1> HIDE DEF e
<1>8. Ahead(e, d)
  BY <1>4, <1>5, <1>7, Fielded DEF Ahead
<1>9. Corrected(d) => Corrected(e)
  BY <1>7 DEF Corrected, Corrections, Recoveries
<1>10. Grows(d, e)
  BY <1>6, <1>7, <1>8, <1>9 DEF Grows
<1>11. e.steps # << >> BY <1>1, <1>7
<1>12. Grows(e, Decide(e, "continue")) /\ Len(Decide(e, "continue").steps) = Len(e.steps)
  BY <1>6, <1>11, DecideGrows
<1>13. Grows(c, Decide(e, "continue"))
  <2>1. Grows(c, e) BY <1>1, <1>10, GrowsOrder
  <2> QED BY <2>1, <1>12, GrowsOrder
<1> QED BY <1>1, <1>2, <1>7, <1>12, <1>13

(* The state before the turn that a resumption runs again. *)
LEMMA UnsteppedLess ==
    ASSUME NEW c \in States, Uncorrected(c)
    PROVE  /\ Unstepped(c) \in States
           /\ Len(Unstepped(c).steps) = Len(c.steps) - 1
           /\ Unstepped(c).usage = c.usage /\ Unstepped(c).context = c.context
           /\ Unstepped(c).toolCallsUsed = c.toolCallsUsed
           /\ Unstepped(c).repairs = c.repairs /\ Unstepped(c).opTurn = c.opTurn
           /\ Corrected(c) => Corrected(Unstepped(c))
<1> DEFINE d == Unstepped(c)
           ms == Front(c.messages)
           ss == Front(c.steps)
           n == Len(c.steps)
<1>1. /\ c.messages \in Seq(Message) /\ c.messages # << >>
      /\ c.steps \in Seq(Entry) /\ c.steps # << >> /\ n \in Nat /\ DOMAIN c.steps = 1..n
      /\ DOMAIN c.messages = 1..Len(c.messages) /\ c.steps[n].observed # "recovery"
  BY Fielded DEF Uncorrected, Latest
<1>2. /\ ms \in Seq(Message) /\ DOMAIN ms = 1..(Len(c.messages) - 1)
      /\ \A i \in 1..(Len(c.messages) - 1) : ms[i] = c.messages[i]
      /\ Len(c.messages) - 1 \in Nat
  <2>1. ms \in Seq(Message) /\ Len(ms) = Len(c.messages) - 1
    BY <1>1, FrontOf
  <2> QED BY <1>1, <2>1, FrontOf
<1>3. /\ ss \in Seq(Entry) /\ DOMAIN ss = 1..(n - 1) /\ Len(ss) = n - 1
      /\ \A k \in 1..(n - 1) : ss[k] = c.steps[k]
  BY <1>1 DEF Front
<1>4. d = [c EXCEPT !.messages = ms, !.steps = ss]
  BY DEF Unstepped
<1> HIDE DEF ms, ss
<1>5. d \in States
  BY <1>2, <1>3, <1>4 DEF States, Message, Entry
<1>6. /\ d.messages = ms /\ d.steps = ss /\ d.usage = c.usage /\ d.context = c.context
      /\ d.toolCallsUsed = c.toolCallsUsed /\ d.opTurn = c.opTurn /\ d.repairs = c.repairs
  BY <1>4 DEF States
<1> HIDE DEF d
<1>7. Corrections(d) \subseteq Corrections(c)
  <2> SUFFICES ASSUME NEW i \in DOMAIN ms, ms[i].role = "correction"
               PROVE  i \in DOMAIN c.messages /\ c.messages[i].role = "correction"
    BY <1>6 DEF Corrections
  <2>1. i \in 1..(Len(c.messages) - 1) BY <1>2
  <2>2. i \in 1..Len(c.messages) BY <1>2, <2>1
  <2> QED BY <1>1, <1>2, <2>1, <2>2
<1>8. Recoveries(d) = Recoveries(c)
  <2>1. \A k \in 1..n : k = n \/ k \in 1..(n - 1) BY <1>1
  <2>2. 1..(n - 1) \subseteq 1..n BY <1>1
  <2> QED BY <1>1, <1>3, <1>6, <2>1, <2>2 DEF Recoveries
<1>9. Corrected(c) => Corrected(d)
  BY <1>5, <1>7, <1>8, CorrectedKept
<1>10. Unstepped(c) = d BY DEF d
<1> QED BY <1>3, <1>5, <1>6, <1>9, <1>10

-----------------------------------------------------------------------------
(* The books hold when a run starts. *)

(* A fresh state has an empty book. *)
LEMMA FreshBook ==
    ASSUME NEW ms \in Seq(Message), \A i \in DOMAIN ms : ms[i].role # "correction",
           nextToolOperationTurn(ms) \in Nat
    PROVE  Book(Fresh(ms))
<1> DEFINE c == Fresh(ms)
<1>1. c \in States
  <2>1. << >> \in Seq(Entry) /\ 0 \in Nat /\ 0 \in 0..MaxRepairs
    BY LoopAssumption
  <2> QED BY <2>1 DEF Fresh, States, Message, Entry
<1>2. c.messages = ms /\ c.steps = << >>
  BY DEF Fresh
<1>3. Corrections(c) = {} /\ Recoveries(c) = {}
  BY <1>2 DEF Corrections, Recoveries
<1>4. Cardinality({}) = 0 BY FS_EmptySet
<1>5. Len(c.steps) = 0 BY <1>2
<1> HIDE DEF c
<1>6. Book(c) BY <1>1, <1>3, <1>4, <1>5, LoopAssumption DEF Book, Corrected
<1> QED BY <1>6 DEF c

(* The books hold initially. *)
LEMMA InitBook == Init => BookInv
<1> SUFFICES ASSUME Init PROVE BookInv OBVIOUS
<1>1. PICK ms \in Histories : live = Fresh(ms)
  BY DEF Init
<1>2. ms \in Seq(Message) /\ \A i \in DOMAIN ms : ms[i].role # "correction"
  <2>1. CASE ms = << Plain("user") >>
    BY <2>1, MessagesMade
  <2>2. CASE \E r \in Responses : ms = << Plain("user"), ToolResponse(1, 0, r), Plain("tool"),
                                          Plain("assistant"), Plain("user") >>
    <3>1. PICK r \in Responses : ms = << Plain("user"), ToolResponse(1, 0, r), Plain("tool"),
                                         Plain("assistant"), Plain("user") >>
      BY <2>2
    <3>2. /\ Plain("user") \in Message /\ Plain("tool") \in Message
          /\ Plain("assistant") \in Message
          /\ Plain("user").role = "user" /\ Plain("tool").role = "tool"
          /\ Plain("assistant").role = "assistant"
      BY MessagesMade
    <3>3. ToolResponse(1, 0, r) \in Message /\ ToolResponse(1, 0, r).role = "assistant"
      BY LoopAssumption DEF ToolResponse, Message
    <3> QED BY <3>1, <3>2, <3>3
  <2> QED BY <1>1, <2>1, <2>2 DEF Histories
<1>3. Book(live)
  BY <1>1, <1>2, FirstOperationTurn, FreshBook
<1>4. Book(saved.state) /\ saved.state = Fresh(<< >>) /\ saved.phase = None
  <2> DEFINE empty == << >>
  <2>1. empty \in Seq(Message) /\ \A i \in DOMAIN empty : empty[i].role # "correction"
    OBVIOUS
  <2>2. saved.state = Fresh(empty) /\ saved.phase = None
    BY DEF Init, NotSaved
  <2>3. nextToolOperationTurn(empty) = 0
    BY FirstOperationTurn
  <2>4. saved.state = Fresh(<< >>)
    BY <2>2
  <2> HIDE DEF empty
  <2>5. Book(Fresh(empty))
    BY <2>1, <2>3, FreshBook
  <2> QED BY <2>2, <2>4, <2>5
<1>5. Ahead(live, saved.state)
  <2>1. /\ saved.state.steps = << >> /\ saved.state.usage = 0 /\ saved.state.context = 0
        /\ saved.state.toolCallsUsed = 0 /\ saved.state.repairs = 0 /\ saved.state.opTurn = 0
    BY <1>4, FirstOperationTurn DEF Fresh
  <2>2. live \in States BY <1>3 DEF Book
  <2>3. live.repairs \in Nat BY <2>2, Fielded, LoopAssumption
  <2> QED BY <2>1, <2>2, <2>3, Fielded DEF Ahead
<1>6. Place(pc, live) /\ Kept(saved.phase, saved.state)
  BY <1>4 DEF Init, Place, Kept, None
<1>7. executed = {} BY DEF Init
<1> QED BY <1>3, <1>4, <1>5, <1>6, <1>7 DEF BookInv

-----------------------------------------------------------------------------
(* Every step keeps the books, and takes back nothing of what is stored. *)

BookStep == BookInv' /\ Ahead(saved'.state, saved.state)

(* A step that stores nothing and runs no tool. *)
LEMMA BookStays ==
    ASSUME BookInv, Grows(live, live'), Len(live'.steps) <= MaxIterations, Place(pc', live'),
           UNCHANGED <<saved, executed>>
    PROVE  BookStep
<1>1. live \in States /\ live' \in States /\ saved.state \in States
  BY DEF BookInv, Book, Grows
<1>2. Book(live')
  BY DEF BookInv, Book, Grows
<1>3. Ahead(live', saved.state)
  BY <1>1, AheadOrder DEF BookInv, Grows
<1>4. Book(saved.state)' /\ Kept(saved.phase, saved.state)'
  BY DEF BookInv, Book, Corrected, Corrections, Recoveries, Kept, Asking, Uncorrected, Latest
<1>5. Book(live)'
  BY <1>2 DEF Book, Corrected, Corrections, Recoveries
<1>6. Place(pc, live)'
  BY DEF Place, Asking, Uncorrected, Latest, Assistants
<1>7. Ahead(live, saved.state)'
  BY <1>3 DEF Ahead
<1>8. Ahead(saved'.state, saved.state)
  BY <1>1, AheadOrder
<1> QED BY <1>4, <1>5, <1>6, <1>7, <1>8 DEF BookInv, BookStep

(* A step that ends in a boundary. *)
LEMMA BookBoundary ==
    ASSUME BookInv, NEW c, NEW phase, NEW next, Book(c), Ahead(c, saved.state),
           Place(next, c), ValidateContinuation(c, phase) => Kept(phase, c),
           observeBoundary(c, phase, next), executed' = executed
    PROVE  BookStep
<1>1. live' = c /\ pc' \in {next, "failed"}
  BY DEF observeBoundary, Stop
<1>2. Place(pc', live')
  BY <1>1 DEF Place
<1>3. c \in States /\ Ahead(c, c)
  BY AheadOrder DEF Book
<1>4. saved' = saved \/ saved' = [phase |-> phase, state |-> c]
  BY DEF observeBoundary, Stop
<1>5. Book(saved'.state) /\ Ahead(live', saved'.state) /\ Kept(saved'.phase, saved'.state)
  <2>1. CASE saved' = saved
    BY <1>1, <2>1 DEF BookInv
  <2>2. CASE saved' = [phase |-> phase, state |-> c]
    <3>1. saved'.phase = phase /\ saved'.state = c BY <2>2
    <3>2. ValidateContinuation(c, phase) \/ saved' = saved
      BY <1>1 DEF observeBoundary
    <3> QED BY <1>1, <1>3, <2>1, <3>1, <3>2
  <2> QED BY <1>4, <2>1, <2>2
<1>6. Book(live')
  BY <1>1
<1>7. Book(live)' /\ Book(saved.state)'
  BY <1>5, <1>6 DEF Book, Corrected, Corrections, Recoveries
<1>8. Place(pc, live)' /\ Kept(saved.phase, saved.state)'
  BY <1>2, <1>5 DEF Place, Kept, Asking, Uncorrected, Latest, Assistants
<1>9. Ahead(live, saved.state)'
  BY <1>5 DEF Ahead
<1>10. Ahead(saved'.state, saved.state)
  <2>1. CASE saved' = saved
    BY <2>1, AheadOrder DEF BookInv, Book
  <2>2. CASE saved' = [phase |-> phase, state |-> c]
    <3>1. saved'.state = c BY <2>2
    <3> QED BY <3>1
  <2> QED BY <1>4, <2>1, <2>2
<1> QED BY <1>7, <1>8, <1>9, <1>10 DEF BookInv, BookStep

(* A response is recorded on state c and observed. *)
LEMMA BookToolBoundary ==
    ASSUME BookInv, NEW c \in States, Corrected(c), Len(c.steps) < MaxIterations,
           NEW m \in ToolAsk, NEW t \in Nat,
           Ahead(Recorded(c, m, NewStep(c, t, "continue", None)), saved.state),
           beginToolStep(c, m, t), executed' = executed
    PROVE  BookStep
<1> DEFINE s == NewStep(c, t, "continue", None)
           d == Recorded(c, m, s)
<1>1. s \in Entry /\ s.observed # "recovery"
  BY NewStepTyped
<1>2. m \in Message /\ m.role = "assistant"
  BY MessagesMade DEF ToolAsk
<1>3. observeBoundary(d, "model_complete", "dispatch")
  BY DEF beginToolStep
<1>4. Ahead(d, saved.state)
  OBVIOUS
<1> HIDE DEF s
<1>5. Grows(c, d) /\ Len(d.steps) = Len(c.steps) + 1 /\ Uncorrected(d) /\ Last(d.messages) = m
  BY <1>1, <1>2, RecordedGrows
<1> HIDE DEF d
<1>6. Book(d)
  BY <1>5, Fielded, LoopAssumption DEF Book, Grows
<1>7. Asking(d)
  BY <1>5 DEF Asking
<1>8. Place("dispatch", d) /\ Kept("model_complete", d)
  BY <1>7 DEF Place, Kept
<1> QED BY <1>3, <1>4, <1>6, <1>8, BookBoundary

(* An answer is recorded on state c and observed. *)
LEMMA BookFinalBoundary ==
    ASSUME BookInv, NEW c \in States, Corrected(c), Len(c.steps) < MaxIterations,
           NEW said, NEW t \in Nat,
           Ahead(Recorded(c, Plain("assistant"), NewStep(c, t, "finish", None)), saved.state),
           beginFinalStep(c, said, t), executed' = executed
    PROVE  BookStep
<1> DEFINE m == Plain("assistant")
           s == NewStep(c, t, "finish", None)
           d == Recorded(c, m, s)
<1>1. s \in Entry /\ s.observed # "recovery"
  BY NewStepTyped
<1>2. m \in Message /\ m.role = "assistant"
  BY MessagesMade
<1>3. IF said THEN observeBoundary(d, "validating_output", "validate")
      ELSE observeBoundary(Withheld(d), "validating_output", "silent")
  BY DEF beginFinalStep
<1>4. Ahead(d, saved.state)
  OBVIOUS
<1> HIDE DEF s, m
<1>5. Grows(c, d) /\ Len(d.steps) = Len(c.steps) + 1 /\ Uncorrected(d)
  BY <1>1, <1>2, RecordedGrows
<1> HIDE DEF d
<1>6. Book(d)
  BY <1>5, Fielded, LoopAssumption DEF Book, Grows
<1>7. CASE said
  <2>1. Place("validate", d) /\ Kept("validating_output", d)
    BY <1>5 DEF Place, Kept
  <2> QED BY <1>3, <1>4, <1>6, <1>7, <2>1, BookBoundary
<1>8. CASE ~said
  <2> DEFINE e == Withheld(d)
  <2>1. d \in States /\ d.messages # << >> /\ d.steps # << >> /\ Latest(d).observed # "recovery"
    BY <1>5, <1>6 DEF Book, Uncorrected
  <2>2. Grows(d, e) /\ e.steps = d.steps /\ e.unsaid = d.unsaid + 1
    BY <2>1, WithheldGrows
  <2>3. observeBoundary(e, "validating_output", "silent")
    BY <1>3, <1>8
  <2> HIDE DEF e
  <2>4. Book(e) /\ Ahead(e, saved.state)
    <3>1. saved.state \in States BY DEF BookInv, Book
    <3> QED BY <1>4, <1>6, <2>1, <2>2, <3>1, AheadOrder DEF Book, Grows
  <2>5. e.steps # << >> /\ Latest(e).observed # "recovery" /\ e.unsaid > 0
    <3>1. Latest(e) = Latest(d) BY <2>2 DEF Latest
    <3>2. d.unsaid \in Nat BY <2>1, Fielded
    <3> QED BY <2>1, <2>2, <3>1, <3>2
  <2>6. Place("silent", e)
    BY <2>5 DEF Place
  <2>7. ValidateContinuation(e, "validating_output") => Kept("validating_output", e)
    BY <2>5 DEF Kept, Uncorrected, ValidateContinuation, PhaseTranscript
  <2> QED BY <2>3, <2>4, <2>6, <2>7, BookBoundary
<1> QED BY <1>7, <1>8

(* The response whose tools ran has a place in the transcript. *)
LEMMA AskedTyped ==
    ASSUME NEW c \in States, Assistants(c.messages) # {}
    PROVE  Asked(c) \in Message
<1> DEFINE S == Assistants(c.messages)
<1>1. c.messages \in Seq(Message) /\ Len(c.messages) \in Nat
      /\ DOMAIN c.messages = 1..Len(c.messages)
  BY Fielded
<1>2. S \in SUBSET (1..Len(c.messages)) /\ S \in SUBSET Int /\ IsFiniteSet(S)
  <2>1. S \in SUBSET (1..Len(c.messages)) BY <1>1 DEF Assistants
  <2>2. IsFiniteSet(1..Len(c.messages)) BY <1>1, FS_Interval
  <2> QED BY <1>1, <2>1, <2>2, FS_Subset
<1> HIDE DEF S
<1>3. Max(S) \in S
  BY <1>2, MaxIs DEF S
<1> QED BY <1>1, <1>2, <1>3 DEF Asked, S

(* Every step keeps the books and advances what is stored. *)
LEMMA BookNext == LoopInv /\ BookInv /\ [Next]_vars => BookStep
<1> SUFFICES ASSUME LoopInv, BookInv, [Next]_vars PROVE BookStep OBVIOUS
<1> USE LoopAssumption
<1>0. /\ live \in States /\ saved.state \in States
      /\ Corrected(live) /\ Corrected(saved.state)
      /\ Len(live.steps) <= MaxIterations /\ Len(saved.state.steps) <= MaxIterations
      /\ Ahead(live, saved.state)
      /\ Len(live.steps) \in Nat /\ Len(saved.state.steps) \in Nat
  BY Fielded DEF BookInv, Book
<1>00. Grows(live, live) /\ Grows(saved.state, saved.state)
  BY <1>0, AheadOrder DEF Grows
<1>01. live \in States /\ Place(pc, live)
  BY <1>0 DEF BookInv
<1>1. CASE leaveLoop
  <2>1. live' = live /\ UNCHANGED <<saved, executed>> /\ pc' \in {"failed", "finished"}
        /\ Len(live.steps) >= MaxIterations
    BY <1>0, <1>1 DEF leaveLoop, Fail, Stop, iterationAllowed
  <2>2. live.steps # << >>
    <3>1. Len(live.steps) # 0 BY <1>0, <2>1
    <3> QED BY <3>1
  <2>3. Place(pc', live') BY <2>1, <2>2 DEF Place
  <2> QED BY <1>0, <1>00, <2>1, <2>3, BookStays
<1>2. CASE prepareTurn
  <2> DEFINE c == Taken(live)
  <2>1. Grows(live, c) /\ Len(c.steps) = Len(live.steps)
    BY <1>0, TakenGrows
  <2>2. executed' = executed /\ Len(live.steps) < MaxIterations
    BY <1>2 DEF prepareTurn, iterationAllowed
  <2>3. CASE Fail(c, "budget") /\ UNCHANGED saved
    <3>1. live' = c /\ pc' = "failed" BY <2>3 DEF Fail, Stop
    <3> HIDE DEF c
    <3>2. Place(pc', live') BY <3>1 DEF Place
    <3> QED BY <1>0, <2>1, <2>2, <2>3, <3>1, <3>2, BookStays
  <2>4. CASE \E k \in ContextTokens : observeBoundary(Summarised(c, k), "ready", "model")
    <3>1. PICK k \in ContextTokens : observeBoundary(Summarised(c, k), "ready", "model")
      BY <2>4
    <3> DEFINE d == Summarised(c, k)
    <3>2. c \in States /\ k \in Nat BY <2>1, <3>1 DEF Grows
    <3> HIDE DEF c
    <3>3. Grows(c, d) /\ Len(d.steps) = Len(c.steps)
      BY <3>2, SummarisedGrows
    <3>4. Grows(live, d) BY <1>0, <2>1, <3>3, GrowsOrder
    <3>5. observeBoundary(d, "ready", "model") BY <3>1
    <3> HIDE DEF d
    <3>6. Book(d) /\ Ahead(d, saved.state)
      BY <1>0, <2>1, <3>3, <3>4, AheadOrder DEF Book, Grows
    <3>7. Place("model", d) /\ Kept("ready", d)
      BY <2>1, <2>2, <3>3 DEF Place, Kept
    <3> QED BY <2>2, <3>5, <3>6, <3>7, BookBoundary
  <2> QED BY <1>2, <2>3, <2>4 DEF prepareTurn
<1>3. CASE turnCallsTools
  <2>1. PICK n \in 1..MaxCalls, r \in Responses, t \in TurnTokens, k \in ContextTokens :
            beginToolStep(Turned(live, k, t), ToolResponse(n, live.opTurn, r), t)
    BY <1>3 DEF turnCallsTools
  <2> DEFINE c == Turned(live, k, t)
             m == ToolResponse(n, live.opTurn, r)
             s == NewStep(c, t, "continue", None)
             d == Recorded(c, m, s)
  <2>2. t \in Nat /\ k \in Nat BY <2>1
  <2>3. Grows(live, c) /\ Len(c.steps) = Len(live.steps)
    <3>1. live \in States BY <1>0
    <3> QED BY <2>2, <3>1, TurnedGrows
  <2>4. m \in ToolAsk
    BY <1>0, Fielded DEF ToolAsk, ToolResponse
  <2>5. beginToolStep(c, m, t) BY <2>1
  <2>6. pc = "model" /\ executed' = executed
    BY <1>3 DEF turnCallsTools
  <2>7. Len(live.steps) < MaxIterations
    BY <2>6 DEF BookInv, Place
  <2> HIDE DEF c, m
  <2>8. c \in States /\ Corrected(c)
    BY <1>0, <2>3 DEF Grows
  <2>9. s \in Entry /\ s.observed # "recovery"
    BY <2>2, <2>8, NewStepTyped
  <2>10. m \in Message /\ m.role # "correction"
    BY <2>4, MessagesMade DEF ToolAsk
  <2>11. Grows(live, d)
    <3> HIDE DEF s
    <3>1. Grows(c, d) BY <2>8, <2>9, <2>10, RecordedGrows
    <3> QED BY <1>0, <2>3, <3>1, GrowsOrder
  <2>12. Ahead(d, saved.state)
    BY <1>0, <2>11, AheadOrder DEF Grows
  <2> QED BY <2>2, <2>3, <2>4, <2>5, <2>6, <2>7, <2>8, <2>12, BookToolBoundary
<1>4. CASE turnAnswers
  <2>1. PICK said \in Answers, t \in TurnTokens, k \in ContextTokens :
            beginFinalStep(Turned(live, k, t), said, t)
    BY <1>4 DEF turnAnswers
  <2> DEFINE c == Turned(live, k, t)
             s == NewStep(c, t, "finish", None)
             d == Recorded(c, Plain("assistant"), s)
  <2>2. t \in Nat /\ k \in Nat BY <2>1
  <2>3. Grows(live, c) /\ Len(c.steps) = Len(live.steps)
    <3>1. live \in States BY <1>0
    <3> QED BY <2>2, <3>1, TurnedGrows
  <2>4. beginFinalStep(c, said, t) BY <2>1
  <2>5. pc = "model" /\ executed' = executed
    BY <1>4 DEF turnAnswers
  <2>6. Len(live.steps) < MaxIterations
    BY <2>5 DEF BookInv, Place
  <2> HIDE DEF c
  <2>7. c \in States /\ Corrected(c)
    BY <1>0, <2>3 DEF Grows
  <2>8. s \in Entry /\ s.observed # "recovery"
    BY <2>2, <2>7, NewStepTyped
  <2>9. Grows(live, d)
    <3> HIDE DEF s
    <3>1. Plain("assistant") \in Message /\ Plain("assistant").role # "correction"
      BY MessagesMade
    <3>2. Grows(c, d) BY <2>7, <2>8, <3>1, RecordedGrows
    <3> QED BY <1>0, <2>3, <3>2, GrowsOrder
  <2>10. Ahead(d, saved.state)
    BY <1>0, <2>9, AheadOrder DEF Grows
  <2> QED BY <2>2, <2>3, <2>4, <2>5, <2>6, <2>7, <2>10, BookFinalBoundary
<1>5. CASE turnPauses
  <2>1. PICK t \in TurnTokens, k \in ContextTokens :
            LET c == Turned(live, k, t)
                d == Recorded(c, Plain("assistant"), NewStep(c, t, "continue", "pause"))
            IN  \/ Fail(Decide(d, "fail"), "pause") /\ UNCHANGED saved
                \/ observeBoundary(d, "ready", "top")
    BY <1>5 DEF turnPauses
  <2> DEFINE c == Turned(live, k, t)
             s == NewStep(c, t, "continue", "pause")
             d == Recorded(c, Plain("assistant"), s)
  <2>2. t \in Nat /\ k \in Nat BY <2>1
  <2>3. Grows(live, c) /\ Len(c.steps) = Len(live.steps)
    <3>1. live \in States BY <1>0
    <3> QED BY <2>2, <3>1, TurnedGrows
  <2>4. pc = "model" /\ executed' = executed
    BY <1>5 DEF turnPauses
  <2>5. Len(live.steps) < MaxIterations
    BY <2>4 DEF BookInv, Place
  <2>6. \/ Fail(Decide(d, "fail"), "pause") /\ UNCHANGED saved
        \/ observeBoundary(d, "ready", "top")
    BY <2>1
  <2> HIDE DEF c
  <2>7. c \in States BY <2>3 DEF Grows
  <2>8. s \in Entry /\ s.observed # "recovery"
    BY <2>2, <2>7, NewStepTyped
  <2>9. Grows(live, d) /\ Len(d.steps) <= MaxIterations /\ d.steps # << >>
    <3> HIDE DEF s
    <3>1. Plain("assistant") \in Message /\ Plain("assistant").role # "correction"
      BY MessagesMade
    <3>2. Grows(c, d) /\ Len(d.steps) = Len(c.steps) + 1 /\ Uncorrected(d)
      BY <2>7, <2>8, <3>1, RecordedGrows
    <3> HIDE DEF d
    <3> QED BY <1>0, <2>3, <2>5, <3>2, GrowsOrder DEF Uncorrected
  <2> HIDE DEF d
  <2>10. CASE Fail(Decide(d, "fail"), "pause") /\ UNCHANGED saved
    <3>1. live' = Decide(d, "fail") /\ pc' = "failed" BY <2>10 DEF Fail, Stop
    <3>2. Grows(d, Decide(d, "fail")) /\ Len(Decide(d, "fail").steps) = Len(d.steps)
      BY <2>9, DecideGrows DEF Grows
    <3>3. Grows(live, live') /\ Len(live'.steps) <= MaxIterations
      BY <1>0, <2>9, <3>1, <3>2, GrowsOrder
    <3>4. Place(pc', live') BY <3>1 DEF Place
    <3> QED BY <2>4, <2>10, <3>3, <3>4, BookStays
  <2>11. CASE observeBoundary(d, "ready", "top")
    <3>1. Book(d) /\ Ahead(d, saved.state)
      BY <1>0, <2>9, AheadOrder DEF Book, Grows
    <3>2. Place("top", d) /\ Kept("ready", d) BY DEF Place, Kept
    <3> QED BY <2>4, <2>11, <3>1, <3>2, BookBoundary
  <2> QED BY <2>6, <2>10, <2>11
<1>6. CASE turnInterrupted
  <2>1. pc = "model" /\ pc' = "top" /\ UNCHANGED <<saved, executed>>
    BY <1>6 DEF turnInterrupted
  <2>2. Len(live.steps) < MaxIterations
    BY <2>1 DEF BookInv, Place
  <2>3. Place(pc', live') BY <2>1 DEF Place
  <2>4. CASE \E k \in ContextTokens : live' = Summarised(live, k)
    <3>0. PICK k \in ContextTokens : live' = Summarised(live, k)
      BY <2>4
    <3>1. Grows(live, live') /\ Len(live'.steps) = Len(live.steps)
      BY <1>0, <3>0, SummarisedGrows
    <3> QED BY <1>0, <2>1, <2>3, <3>1, BookStays
  <2>5. CASE \E t \in TurnTokens, k \in ContextTokens :
               live' = Recorded(Turned(live, k, t), Plain("assistant"),
                                NewStep(Turned(live, k, t), t, "continue", None))
    <3>1. PICK t \in TurnTokens, k \in ContextTokens :
               live' = Recorded(Turned(live, k, t), Plain("assistant"),
                                NewStep(Turned(live, k, t), t, "continue", None))
      BY <2>5
    <3> DEFINE c == Turned(live, k, t)
               s == NewStep(c, t, "continue", None)
    <3>2. t \in Nat /\ k \in Nat BY <3>1
    <3>3. Grows(live, c) /\ Len(c.steps) = Len(live.steps)
      BY <1>0, <3>2, TurnedGrows
    <3>4. live' = Recorded(c, Plain("assistant"), s) BY <3>1
    <3> HIDE DEF c
    <3>5. c \in States BY <3>3 DEF Grows
    <3>6. s \in Entry /\ s.observed # "recovery"
      BY <3>2, <3>5, NewStepTyped
    <3> HIDE DEF s
    <3>7. Plain("assistant") \in Message /\ Plain("assistant").role # "correction"
      BY MessagesMade
    <3>8. Grows(c, live') /\ Len(live'.steps) = Len(c.steps) + 1
      BY <3>4, <3>5, <3>6, <3>7, RecordedGrows
    <3>9. Grows(live, live') /\ Len(live'.steps) <= MaxIterations
      BY <1>0, <2>2, <3>3, <3>8, GrowsOrder
    <3> QED BY <2>1, <2>3, <3>9, BookStays
  <2> QED BY <1>6, <2>4, <2>5 DEF turnInterrupted
<1>7. CASE turnFails
  <2>1. PICK t \in TurnTokens, k \in ContextTokens :
            LET c == Summarised(live, k)
                d == [c EXCEPT !.usage = @ + t]
                s == NewStep(d, t, "fail", None)
            IN  \/ Fail(c, "provider")
                \/ Fail(Recorded(d, Plain("assistant"), s), "provider")
                \/ Fail([d EXCEPT !.steps = Append(@, s), !.unsaid = @ + 1], "provider")
    BY <1>7 DEF turnFails
  <2> DEFINE c == Summarised(live, k)
             d == [c EXCEPT !.usage = @ + t]
             s == NewStep(d, t, "fail", None)
             h == [d EXCEPT !.steps = Append(@, s)]
             f == [d EXCEPT !.steps = Append(@, s), !.unsaid = @ + 1]
             g == Recorded(d, Plain("assistant"), s)
  <2>2. t \in Nat /\ k \in Nat BY <2>1
  <2>3. Grows(live, c) /\ Len(c.steps) = Len(live.steps)
    BY <1>0, <2>2, SummarisedGrows
  <2>4. pc = "model" /\ UNCHANGED <<saved, executed>>
    BY <1>7 DEF turnFails
  <2>5. Len(live.steps) < MaxIterations
    BY <2>4 DEF BookInv, Place
  <2>6. pc' = "failed" /\ live' \in {c, g, f}
    BY <2>1 DEF Fail, Stop
  <2> HIDE DEF c
  <2>7. Grows(c, d) /\ d.steps = c.steps
    <3>1. c \in States BY <2>3 DEF Grows
    <3>2. c.usage \in Nat /\ c.context \in Nat /\ c.opTurn \in Nat
      BY <3>1, Fielded
    <3>3. /\ d \in States /\ d.messages = c.messages /\ d.steps = c.steps
          /\ d.usage = c.usage + t /\ d.context = c.context /\ d.opTurn = c.opTurn
          /\ d.toolCallsUsed = c.toolCallsUsed /\ d.repairs = c.repairs
      <4> DEFINE u == c.usage + t
      <4>1. u \in Nat BY <2>2, <3>2
      <4>2. d = [c EXCEPT !.usage = u] OBVIOUS
      <4> HIDE DEF u, d
      <4>3. d \in States BY <3>1, <4>1, <4>2 DEF States
      <4>4. /\ d.messages = c.messages /\ d.steps = c.steps /\ d.usage = u
            /\ d.context = c.context /\ d.opTurn = c.opTurn
            /\ d.toolCallsUsed = c.toolCallsUsed /\ d.repairs = c.repairs
        BY <3>1, <4>2 DEF States
      <4> QED BY <4>3, <4>4 DEF u
    <3> HIDE DEF d
    <3> QED BY <2>2, <3>1, <3>2, <3>3, CountsGrow
  <2> HIDE DEF d
  <2>8. d \in States BY <2>7 DEF Grows
  <2>9. s \in Entry /\ s.observed # "recovery"
    BY <2>2, <2>8, NewStepTyped
  <2>10. Plain("assistant") \in Message /\ Plain("assistant").role # "correction"
    BY MessagesMade
  <2> HIDE DEF s
  <2>11. Grows(d, f) /\ Len(f.steps) = Len(d.steps) + 1
    <3>1. Grows(d, h) /\ Len(h.steps) = Len(d.steps) + 1
      BY <2>8, <2>9, StepGrows
    <3>2. f = [h EXCEPT !.unsaid = d.unsaid + 1] /\ d.unsaid + 1 \in Nat
      <4>1. d.unsaid \in Nat BY <2>8 DEF States
      <4>2. f = [h EXCEPT !.unsaid = d.unsaid + 1] OBVIOUS
      <4> HIDE DEF f, h
      <4> QED BY <4>1, <4>2
    <3> HIDE DEF f, h
    <3>3. Grows(h, f) /\ f.steps = h.steps
      BY <3>1, <3>2, UnsaidGrows DEF Grows
    <3> QED BY <2>8, <3>1, <3>3, GrowsOrder
  <2>12. Grows(d, g) /\ Len(g.steps) = Len(d.steps) + 1
    BY <2>8, <2>9, <2>10, RecordedGrows
  <2> HIDE DEF f, g
  <2>13. Grows(live, d) BY <1>0, <2>3, <2>7, GrowsOrder
  <2>14. Grows(live, f) /\ Grows(live, g)
    BY <1>0, <2>11, <2>12, <2>13, GrowsOrder
  <2>15. Grows(live, live') /\ Len(live'.steps) <= MaxIterations
    BY <1>0, <2>3, <2>5, <2>6, <2>7, <2>11, <2>12, <2>14
  <2>16. Place(pc', live') BY <2>6 DEF Place
  <2> QED BY <2>4, <2>15, <2>16, BookStays
<1>8. CASE dispatchTools
  <2> DEFINE m == Last(live.messages)
  <2>1. UNCHANGED saved /\ pc = "dispatch"
    BY <1>8 DEF dispatchTools
  <2>2. Asking(live) /\ live.messages # << >> /\ live.steps # << >> /\ m \in ToolAsk
    BY <2>1 DEF BookInv, Place, Asking, Uncorrected
  <2>3. CASE executed' = executed /\ pc' = "failed" /\ live' = Decide(live, "fail")
    <3>1. Grows(live, live') /\ Len(live'.steps) = Len(live.steps)
      BY <1>0, <2>2, <2>3, DecideGrows
    <3>2. Place(pc', live') BY <2>3 DEF Place
    <3> QED BY <1>0, <2>1, <2>3, <3>1, <3>2, BookStays
  <2>4. CASE \E effects \in SUBSET Slots(m), u \in ChildTokens :
                /\ executed' = executed \cup effects
                /\ \/ live' = Executed(live, Batch(live), u) /\ pc' = "executed"
                   \/ \E n \in 0..Batch(live) : Fail(Executed(live, n, u), "tool")
    <3>1. PICK effects \in SUBSET Slots(m), u \in ChildTokens :
                /\ executed' = executed \cup effects
                /\ \/ live' = Executed(live, Batch(live), u) /\ pc' = "executed"
                   \/ \E n \in 0..Batch(live) : Fail(Executed(live, n, u), "tool")
      BY <2>4
    <3>2. Batch(live) \in Nat
      BY <2>2 DEF Batch, ToolAsk
    <3>3. pc' \in {"executed", "failed"} /\ \E n \in Nat : live' = Executed(live, n, u)
      BY <3>1, <3>2 DEF Fail, Stop
    <3>4. PICK n \in Nat : live' = Executed(live, n, u)
      BY <3>3
    <3>5. u \in Nat BY <3>1
    <3>6. /\ live' \in States /\ Ahead(live', live) /\ Len(live'.steps) = Len(live.steps)
          /\ live'.steps # << >> /\ Corrected(live') /\ live'.messages = live.messages \o Results(n)
      <4>1. live \in States /\ live.steps # << >> /\ live.messages # << >> /\ Corrected(live)
        BY <1>0, <2>2
      <4> DEFINE d == Executed(live, n, u)
      <4>2. d \in States /\ Ahead(d, live)
        BY <3>5, <4>1, ExecutedGrows
      <4>3. Len(d.steps) = Len(live.steps) /\ d.steps # << >>
        BY <3>5, <4>1, ExecutedGrows
      <4>4. Corrected(d)
        BY <3>5, <4>1, ExecutedGrows
      <4>5. d.messages = live.messages \o Results(n)
        BY <3>5, <4>1, ExecutedGrows
      <4>6. live' = d
        BY <3>4
      <4> HIDE DEF d
      <4> QED BY <4>2, <4>3, <4>4, <4>5, <4>6
    <3>7. Assistants(live'.messages) # {}
      <4>1. /\ live.messages \in Seq(Message) /\ Len(live.messages) \in Nat
            /\ Len(live.messages) # 0
        BY <1>0, <2>2, Fielded
      <4>2. Results(n) \in Seq(Message) /\ Len(Results(n)) = n
        BY <3>4, MessagesMade
      <4>3. /\ Len(live.messages) \in DOMAIN live'.messages
            /\ live'.messages[Len(live.messages)] = live.messages[Len(live.messages)]
        BY <3>4, <3>6, <4>1, <4>2
      <4>4. live.messages[Len(live.messages)].role = "assistant"
        BY <2>2 DEF Last, ToolAsk
      <4> QED BY <4>3, <4>4 DEF Assistants
    <3>8. Place(pc', live')
      BY <3>3, <3>6, <3>7 DEF Place
    <3>9. Ahead(live', saved.state)
      BY <1>0, <3>6, AheadOrder
    <3>10. executed' \subseteq (Nat \X Nat \X Responses)
      <4>1. Slots(m) \subseteq (Nat \X Nat \X Responses)
        <5>1. m.op \in Nat /\ m.calls \in Nat /\ m.response \in Responses
          BY <2>2 DEF ToolAsk
        <5>2. 0..(m.calls - 1) \subseteq Nat
          BY <5>1
        <5> HIDE DEF m
        <5> QED BY <5>1, <5>2 DEF Slots
      <4> QED BY <3>1, <4>1 DEF BookInv
    <3>11. Book(live') /\ Book(saved'.state) /\ Kept(saved'.phase, saved'.state)
      BY <1>0, <2>1, <3>6 DEF Book, BookInv
    <3>12. Book(live)' /\ Book(saved.state)'
      BY <3>11 DEF Book, Corrected, Corrections, Recoveries
    <3>13. Place(pc, live)' /\ Kept(saved.phase, saved.state)'
      BY <3>8, <3>11 DEF Place, Kept, Asking, Uncorrected, Latest, Assistants
    <3>14. Ahead(live, saved.state)'
      BY <2>1, <3>9 DEF Ahead
    <3>15. Ahead(saved'.state, saved.state)
      BY <1>0, <2>1, AheadOrder
    <3> QED BY <3>10, <3>12, <3>13, <3>14, <3>15 DEF BookInv, BookStep
  <2> HIDE DEF m
  <2> QED BY <1>8, <2>3, <2>4 DEF dispatchTools, Fail, Stop, m
<1>9. CASE finalizeToolStep
  <2>1. PICK d \in stepDecisionOverride :
            observeBoundary(
                WithLatest(live, [Latest(live) EXCEPT
                                     !.traces = Asked(live).calls,
                                     !.context = live.context, !.decision = d]),
                "tools_complete",
                CASE d = "continue" -> "top" [] d = "finish" -> "finished" [] OTHER -> "failed")
    BY <1>9 DEF finalizeToolStep
  <2> DEFINE next == CASE d = "continue" -> "top" [] d = "finish" -> "finished"
                       [] OTHER -> "failed"
             s == [Latest(live) EXCEPT !.traces = Asked(live).calls,
                                       !.context = live.context, !.decision = d]
             c == WithLatest(live, s)
  <2>2. next \in {"top", "finished", "failed"}
    BY DEF stepDecisionOverride
  <2>3. executed' = executed /\ pc = "executed" BY <1>9 DEF finalizeToolStep
  <2>4. live.steps # << >> /\ Assistants(live.messages) # {}
    BY <2>3 DEF BookInv, Place
  <2>5. s \in Entry /\ s.observed = Latest(live).observed
    <3>1. Latest(live) \in Entry BY <1>0, <2>4, LatestTyped
    <3>2. Asked(live).calls \in 0..MaxCalls BY <1>0, <2>4, AskedTyped DEF Message
    <3>3. live.context \in Nat BY <1>0, Fielded
    <3> QED BY <3>1, <3>2, <3>3 DEF Entry, stepDecisionOverride
  <2>6. observeBoundary(c, "tools_complete", next)
    BY <2>1
  <2> HIDE DEF s, next
  <2>7. Grows(live, c) /\ Len(c.steps) = Len(live.steps) /\ c.steps # << >>
    BY <1>0, <2>4, <2>5, LatestGrows
  <2> HIDE DEF c
  <2>8. Book(c) /\ Ahead(c, saved.state)
    BY <1>0, <2>7, AheadOrder DEF Book, Grows
  <2>9. Place(next, c) /\ Kept("tools_complete", c)
    BY <2>2, <2>7 DEF Place, Kept
  <2> QED BY <2>3, <2>6, <2>8, <2>9, BookBoundary
<1>10. CASE guardrailRetry
  <2>1. pc \in {"validate", "silent"} /\ pc' = "top" /\ UNCHANGED <<saved, executed>>
    BY <1>10 DEF guardrailRetry, Judging
  <2>2. PICK keep \in KeepRejected : live' = Decide(RetryContext(keep), "continue")
    BY <1>10 DEF guardrailRetry
  <2> DEFINE c == RetryContext(keep)
  <2>3. Grows(live, c) /\ c.steps = live.steps /\ live.steps # << >>
    BY <1>01, <2>1, RetryGrows, FinalizedGrows
  <2>4. live' = Decide(c, "continue") BY <2>2
  <2> HIDE DEF c
  <2>5. c \in States /\ c.steps # << >> BY <2>3 DEF Grows
  <2>6. Grows(c, live') /\ Len(live'.steps) = Len(c.steps)
    BY <2>4, <2>5, DecideGrows
  <2>7. Grows(live, live') BY <1>0, <2>3, <2>6, GrowsOrder
  <2>8. Place(pc', live') BY <2>1 DEF Place
  <2> QED BY <1>0, <2>1, <2>3, <2>6, <2>7, <2>8, BookStays
<1>11. CASE responseRecovery
  <2>1. pc \in {"validate", "silent"} /\ UNCHANGED <<saved, executed>> /\ pc' \in {"top", "failed"}
    BY <1>11 DEF responseRecovery, Judging, Fail, Stop
  <2>2. live.steps # << >> /\ Latest(live).observed # "recovery"
    BY <1>01, <2>1, FinalizedGrows
  <2>3. Place(pc', live') BY <2>1 DEF Place
  <2>4. CASE live' = Decide(live, "fail")
    <3>1. Grows(live, live') /\ Len(live'.steps) = Len(live.steps)
      BY <1>0, <2>2, <2>4, DecideGrows
    <3> QED BY <1>0, <2>1, <2>3, <3>1, BookStays
  <2>5. CASE /\ Cardinality(Recoveries(live)) < MaxCorrections
             /\ \E said \in Answers : live' = WithLatest(
                    [Finalized(said) EXCEPT !.messages = Append(@, Plain("correction"))],
                    [Latest(live) EXCEPT !.decision = "continue", !.observed = "recovery"])
    <3>1. PICK said \in Answers : live' = WithLatest(
                    [Finalized(said) EXCEPT !.messages = Append(@, Plain("correction"))],
                    [Latest(live) EXCEPT !.decision = "continue", !.observed = "recovery"])
      BY <2>5
    <3> DEFINE c == Finalized(said)
    <3>2. Grows(live, c) /\ c.steps = live.steps
      BY <1>01, <2>1, FinalizedGrows
    <3>3. live' = WithLatest([c EXCEPT !.messages = Append(@, Plain("correction"))],
                    [Latest(live) EXCEPT !.decision = "continue", !.observed = "recovery"])
      BY <3>1
    <3> HIDE DEF c
    <3>4. Latest(c) = Latest(live) /\ Recoveries(c) = Recoveries(live)
      BY <3>2 DEF Latest, Recoveries
    <3>5. c \in States /\ Corrected(c)
      BY <1>0, <3>2 DEF Grows
    <3>6. Grows(c, live') /\ Len(live'.steps) = Len(c.steps)
      BY <2>2, <2>5, <3>2, <3>3, <3>4, <3>5, CorrectionGrows
    <3>7. Grows(live, live') BY <1>0, <3>2, <3>6, GrowsOrder
    <3> QED BY <1>0, <2>1, <2>3, <3>2, <3>6, <3>7, BookStays
  <2>6. Cardinality(Recoveries(live)) \in Nat
    <3>1. Recoveries(live) \in SUBSET (1..Len(live.steps))
      BY <1>0, Fielded DEF Recoveries
    <3>2. IsFiniteSet(1..Len(live.steps))
      <4>1. Len(live.steps) \in Int /\ 1 \in Int BY <1>0, Fielded
      <4> QED BY <4>1, FS_Interval
    <3> QED BY <3>1, <3>2, FS_Subset, FS_CardinalityType
  <2>7. responseRecoveryCount(live) = Cardinality(Recoveries(live))
    BY DEF responseRecoveryCount, Recoveries
  <2>8. ~(responseRecoveryCount(live) >= MaxCorrections) =>
            Cardinality(Recoveries(live)) < MaxCorrections
    BY <2>6, <2>7
  <2> QED BY <1>11, <2>4, <2>5, <2>8 DEF responseRecovery, Fail
<1>12. CASE acceptAnswer
  <2>1. pc \in {"validate", "silent"} /\ UNCHANGED <<saved, executed>> /\ pc' \in {"top", "finished"}
    BY <1>12 DEF acceptAnswer, Judging
  <2>2. PICK said \in Answers :
            live' = Decide(Finalized(said), "continue") \/ live' = Finalized(said)
    BY <1>12 DEF acceptAnswer
  <2> DEFINE c == Finalized(said)
  <2>3. Grows(live, c) /\ c.steps = live.steps /\ live.steps # << >>
    BY <1>01, <2>1, FinalizedGrows
  <2>4. live' = Decide(c, "continue") \/ live' = c
    BY <2>2
  <2> HIDE DEF c
  <2>5. c \in States /\ Grows(c, c)
    BY <2>3, AheadOrder DEF Grows
  <2>6. Grows(c, live') /\ Len(live'.steps) = Len(c.steps)
    BY <2>3, <2>4, <2>5, DecideGrows
  <2>7. Grows(live, live') /\ Len(live'.steps) = Len(live.steps)
    BY <1>0, <2>3, <2>5, <2>6, GrowsOrder
  <2>8. live'.steps # << >>
    <3>1. live' \in States BY <2>7 DEF Grows
    <3>2. Len(live'.steps) # 0 BY <1>0, <2>3, <2>7, Fielded
    <3> QED BY <3>1, <3>2
  <2>9. Place(pc', live') BY <2>1, <2>8 DEF Place
  <2> QED BY <1>0, <2>1, <2>7, <2>9, BookStays
<1>13. CASE rejectAnswer
  <2>1. pc \in {"validate", "silent"} /\ UNCHANGED <<saved, executed>> /\ pc' = "failed"
        /\ live' = Decide(live, "fail")
    BY <1>13 DEF rejectAnswer, Fail, Stop
  <2>2. live.steps # << >>
    BY <1>01, <2>1, FinalizedGrows
  <2>3. Grows(live, live') /\ Len(live'.steps) = Len(live.steps)
    BY <1>0, <2>1, <2>2, DecideGrows
  <2>4. Place(pc', live') BY <2>1 DEF Place
  <2> QED BY <1>0, <2>1, <2>3, <2>4, BookStays
<1>14. CASE finishRun
  <2>1. /\ pc = "finished" /\ UNCHANGED <<saved, executed>> /\ pc' \in {"done", "failed", "top"}
        /\ live' = live \/ (live.repairs < MaxRepairs /\ live' = Repaired(live))
    BY <1>14 DEF finishRun, Fail, Stop
  <2>2. live.steps # << >>
    BY <2>1 DEF BookInv, Place
  <2>3. Grows(live, live') /\ Len(live'.steps) = Len(live.steps)
    BY <1>0, <1>00, <2>1, <2>2, RepairedGrows
  <2>4. Place(pc', live') BY <2>1 DEF Place
  <2> QED BY <1>0, <2>1, <2>3, <2>4, BookStays
<1>15. CASE offerInput
  <2>1. UNCHANGED <<live, saved, pc, executed>>
    BY <1>15 DEF offerInput
  <2>2. Place(pc', live') BY <2>1 DEF BookInv
  <2> QED BY <1>0, <1>00, <2>1, <2>2, BookStays
<1>16. CASE crash
  <2>1. live' = live /\ pc' = "failed" /\ UNCHANGED <<saved, executed>>
    BY <1>16 DEF crash, Fail, Stop
  <2>2. Place(pc', live') BY <2>1 DEF Place
  <2> QED BY <1>0, <1>00, <2>1, <2>2, BookStays
<1>17. CASE resume
  <2>0. executed' = executed BY <1>17 DEF resume
  <2> DEFINE a == saved.state
  <2>1. CASE live' = a /\ UNCHANGED saved /\ Place(pc', a)
    <3>1. Ahead(a, a) BY <1>0, AheadOrder
    <3>2. Book(live') /\ Book(saved'.state) /\ Ahead(live', saved'.state)
          /\ Place(pc', live') /\ Kept(saved'.phase, saved'.state)
      BY <2>1, <3>1 DEF BookInv
    <3>3. Book(live)' /\ Book(saved.state)'
      BY <3>2 DEF Book, Corrected, Corrections, Recoveries
    <3>4. Place(pc, live)' /\ Kept(saved.phase, saved.state)'
      BY <3>2 DEF Place, Kept, Asking, Uncorrected, Latest, Assistants
    <3>5. Ahead(live, saved.state)'
      BY <3>2 DEF Ahead
    <3>6. Ahead(saved'.state, saved.state)
      BY <1>0, <2>1, AheadOrder
    <3> QED BY <2>0, <3>3, <3>4, <3>5, <3>6 DEF BookInv, BookStep
  <2>2. CASE saved.phase = "model_complete" /\ resumeModelComplete(a)
    <3> DEFINE c == Unstepped(a)
               m == Last(a.messages)
               t == Latest(a).model
               s == NewStep(c, t, "continue", None)
    <3>1. Asking(a) BY <2>2 DEF BookInv, Kept
    <3>2. m \in ToolAsk /\ Uncorrected(a) BY <3>1 DEF Asking
    <3>3. t \in Nat
      BY <1>0, <3>2, LatestTyped DEF Uncorrected, Entry
    <3>4. /\ c \in States /\ Len(c.steps) = Len(a.steps) - 1 /\ c.usage = a.usage
          /\ c.context = a.context /\ c.toolCallsUsed = a.toolCallsUsed
          /\ c.repairs = a.repairs /\ c.opTurn = a.opTurn /\ Corrected(c)
      BY <1>0, <3>2, UnsteppedLess
    <3>5. beginToolStep(c, m, t) BY <2>2 DEF resumeModelComplete
    <3> HIDE DEF c, m, t, a
    <3>6. s \in Entry /\ s.observed # "recovery"
      BY <3>3, <3>4, NewStepTyped
    <3>7. m \in Message /\ m.role # "correction"
      BY <3>2, MessagesMade DEF ToolAsk
    <3>8. Ahead(Recorded(c, m, s), a)
      <4> HIDE DEF s
      <4> DEFINE d == Recorded(c, m, s)
      <4>1. Grows(c, d) /\ Len(d.steps) = Len(c.steps) + 1
        BY <3>4, <3>6, <3>7, RecordedGrows
      <4> HIDE DEF d
      <4>2. Len(d.steps) >= Len(a.steps)
        BY <1>0, <3>4, <4>1 DEF a
      <4>3. Ahead(d, a)
        BY <3>4, <4>1, <4>2 DEF Ahead, Grows
      <4> QED BY <4>3 DEF d
    <3>9. Len(c.steps) < MaxIterations
      BY <1>0, <3>4 DEF a
    <3> QED BY <2>0, <3>2, <3>3, <3>4, <3>5, <3>8, <3>9, BookToolBoundary DEF a
  <2>3. CASE saved.phase = "tools_complete" /\ resumeToolsComplete(a)
    <3>1. live' = a /\ UNCHANGED saved /\ pc' \in {"top", "finished", "failed"}
      BY <2>3 DEF resumeToolsComplete
    <3>2. a.steps # << >> BY <2>3 DEF BookInv, Kept
    <3>3. Place(pc', a) BY <3>1, <3>2 DEF Place
    <3> QED BY <2>1, <3>1, <3>3
  <2>4. CASE saved.phase = "validating_output" /\ resumeValidatingOutput(a)
    <3> DEFINE c == Unstepped(a)
               t == Latest(a).model
               s == NewStep(c, t, "finish", None)
    <3>1. Uncorrected(a) BY <2>4 DEF BookInv, Kept
    <3>2. t \in Nat
      BY <1>0, <3>1, LatestTyped DEF Uncorrected, Entry
    <3>3. /\ c \in States /\ Len(c.steps) = Len(a.steps) - 1 /\ c.usage = a.usage
          /\ c.context = a.context /\ c.toolCallsUsed = a.toolCallsUsed
          /\ c.repairs = a.repairs /\ c.opTurn = a.opTurn /\ Corrected(c)
      BY <1>0, <3>1, UnsteppedLess
    <3>4. beginFinalStep(c, TRUE, t) BY <2>4 DEF resumeValidatingOutput
    <3> HIDE DEF c, t, a
    <3>5. s \in Entry /\ s.observed # "recovery"
      BY <3>2, <3>3, NewStepTyped
    <3>6. Plain("assistant") \in Message /\ Plain("assistant").role # "correction"
      BY MessagesMade
    <3>7. Ahead(Recorded(c, Plain("assistant"), s), a)
      <4> HIDE DEF s
      <4> DEFINE d == Recorded(c, Plain("assistant"), s)
      <4>1. Grows(c, d) /\ Len(d.steps) = Len(c.steps) + 1
        BY <3>3, <3>5, <3>6, RecordedGrows
      <4> HIDE DEF d
      <4>2. Len(d.steps) >= Len(a.steps)
        BY <1>0, <3>3, <4>1 DEF a
      <4>3. Ahead(d, a)
        BY <3>3, <4>1, <4>2 DEF Ahead, Grows
      <4> QED BY <4>3 DEF d
    <3>8. Len(c.steps) < MaxIterations
      BY <1>0, <3>3 DEF a
    <3> QED BY <2>0, <3>2, <3>3, <3>4, <3>7, <3>8, BookFinalBoundary DEF a
  <2>5. CASE live' = a /\ pc' = "top" /\ UNCHANGED saved
    <3>1. Place(pc', a) BY <2>5 DEF Place
    <3> QED BY <2>1, <2>5, <3>1
  <2> QED BY <1>17, <2>2, <2>3, <2>4, <2>5 DEF resume
<1>18. CASE UNCHANGED vars
  <2>1. UNCHANGED <<live, saved, pc, executed>>
    BY <1>18 DEF vars
  <2>2. Place(pc', live') BY <2>1 DEF BookInv
  <2> QED BY <1>0, <1>00, <2>1, <2>2, BookStays
<1> QED
  BY <1>1, <1>2, <1>3, <1>4, <1>5, <1>6, <1>7, <1>8, <1>9, <1>10, <1>11, <1>12, <1>13,
     <1>14, <1>15, <1>16, <1>17, <1>18 DEF Next, Loop, Stopped


-----------------------------------------------------------------------------
(* The types and the stored counters. *)

(* The books are kept throughout every execution. *)
THEOREM BookInvariance == Spec => []BookInv
<1>1. LoopInv /\ BookInv /\ [Next]_vars => BookInv'
  BY BookNext DEF BookStep
<1> QED BY <1>1, InitBook, LoopInvariance, PTL DEF Spec

(* The variables beside the two working states. *)
Controls ==
    /\ pc \in {"top", "model", "dispatch", "executed", "validate", "silent", "finished", "done",
              "failed"}
    /\ failure = None <=> pc # "failed"
    /\ queued \subseteq {"pending", "steer", "followUp"}
    /\ accepting \in BOOLEAN
    /\ interrupts \in Nat
    /\ inputs \in 0..MaxInputs
    /\ resumes \in 0..MaxResumes

(* They have their types when a run starts. *)
LEMMA InitControls == Init => Controls
  BY LoopAssumption DEF Init, Controls, None

(* A boundary leads on or fails. *)
LEMMA ControlsBoundary ==
    ASSUME NEW c, NEW phase,
           NEW next \in {"top", "model", "dispatch", "validate", "silent", "finished", "failed"},
           observeBoundary(c, phase, next)
    PROVE  /\ pc' \in {"top", "model", "dispatch", "validate", "silent", "finished", "failed"}
           /\ failure' = None <=> pc' # "failed"
  BY DEF observeBoundary, Stop, None

(* Every step keeps these types. *)
LEMMA NextControls == BookInv /\ Controls /\ [Next]_vars => Controls'
<1> SUFFICES ASSUME BookInv, Controls, [Next]_vars PROVE Controls' OBVIOUS
<1> USE LoopAssumption
<1> DEFINE Flow == /\ pc' \in {"top", "model", "dispatch", "executed", "validate", "silent",
                               "finished", "done", "failed"}
                   /\ failure' = None <=> pc' # "failed"
           Inputs == /\ queued' \subseteq {"pending", "steer", "followUp"}
                     /\ accepting' \in BOOLEAN
                     /\ interrupts' \in Nat
                     /\ inputs' \in 0..MaxInputs
                     /\ resumes' \in 0..MaxResumes
<1>0. Flow /\ Inputs => Controls'
  BY DEF Controls
<1>1. CASE leaveLoop
  BY <1>0, <1>1 DEF leaveLoop, Fail, Stop, control, Controls, None
<1>2. CASE prepareTurn
  <2>1. Flow
    <3>1. CASE \E k \in ContextTokens :
                   observeBoundary(Summarised(Taken(live), k), "ready", "model")
      BY <3>1, ControlsBoundary
    <3>2. CASE Fail(Taken(live), "budget")
      BY <3>2 DEF Fail, Stop, None
    <3> QED BY <1>2, <3>1, <3>2 DEF prepareTurn
  <2>2. Inputs BY <1>2 DEF prepareTurn, Controls
  <2> QED BY <1>0, <2>1, <2>2
<1>3. CASE turnCallsTools
  <2>1. Flow
    <3>1. \E c : observeBoundary(c, "model_complete", "dispatch")
      BY <1>3 DEF turnCallsTools, beginToolStep
    <3> QED BY <3>1, ControlsBoundary
  <2>2. Inputs BY <1>3 DEF turnCallsTools, control, Controls
  <2> QED BY <1>0, <2>1, <2>2
<1>4. CASE turnAnswers
  <2>1. Flow
    <3>1. \E next \in {"validate", "silent"} : \E c : observeBoundary(c, "validating_output", next)
      BY <1>4 DEF turnAnswers, beginFinalStep
    <3> QED BY <3>1, ControlsBoundary
  <2>2. Inputs BY <1>4 DEF turnAnswers, control, Controls
  <2> QED BY <1>0, <2>1, <2>2
<1>5. CASE turnPauses
  <2>1. Flow
    <3>1. (\E c : observeBoundary(c, "ready", "top")) \/ (\E c : Fail(c, "pause"))
      BY <1>5 DEF turnPauses
    <3>2. CASE \E c : Fail(c, "pause") BY <3>2 DEF Fail, Stop, None
    <3> QED BY <3>1, <3>2, ControlsBoundary
  <2>2. Inputs BY <1>5 DEF turnPauses, control, Controls
  <2> QED BY <1>0, <2>1, <2>2
<1>6. CASE turnInterrupted
  BY <1>0, <1>6 DEF turnInterrupted, Controls
<1>7. CASE turnFails
  <2>1. Flow
    <3>1. \E c : Fail(c, "provider") BY <1>7 DEF turnFails
    <3> QED BY <3>1 DEF Fail, Stop, None
  <2>2. Inputs BY <1>7 DEF turnFails, control, Controls
  <2> QED BY <1>0, <2>1, <2>2
<1>8. CASE dispatchTools
  <2>1. Flow
    <3>1. \/ \E c : Fail(c, "max tokens")
          \/ \E c : Fail(c, "tool")
          \/ /\ preDispatchBudgetBlock(live, Batch(live)) # None
             /\ \E c : Fail(c, preDispatchBudgetBlock(live, Batch(live)))
          \/ pc = "dispatch" /\ pc' = "executed" /\ UNCHANGED failure
      BY <1>8 DEF dispatchTools
    <3>2. CASE \E c : Fail(c, "max tokens") BY <3>2 DEF Fail, Stop, None
    <3>3. CASE \E c : Fail(c, "tool") BY <3>3 DEF Fail, Stop, None
    <3>4. CASE /\ preDispatchBudgetBlock(live, Batch(live)) # None
               /\ \E c : Fail(c, preDispatchBudgetBlock(live, Batch(live)))
      BY <3>4 DEF Fail, Stop
    <3>5. CASE pc = "dispatch" /\ pc' = "executed" /\ UNCHANGED failure
      BY <3>5 DEF Controls
    <3> QED BY <3>1, <3>2, <3>3, <3>4, <3>5
  <2>2. Inputs BY <1>8 DEF dispatchTools, control, Controls
  <2> QED BY <1>0, <2>1, <2>2
<1>9. CASE finalizeToolStep
  <2>1. Flow
    <3>1. \E next \in {"top", "finished", "failed"} :
              \E c : observeBoundary(c, "tools_complete", next)
      <4>1. PICK d \in stepDecisionOverride :
                \E c : observeBoundary(c, "tools_complete",
                    CASE d = "continue" -> "top" [] d = "finish" -> "finished"
                      [] OTHER -> "failed")
        BY <1>9 DEF finalizeToolStep
      <4> DEFINE next == CASE d = "continue" -> "top" [] d = "finish" -> "finished"
                           [] OTHER -> "failed"
      <4>2. next \in {"top", "finished", "failed"} BY DEF stepDecisionOverride
      <4>3. \E c : observeBoundary(c, "tools_complete", next) BY <4>1
      <4> HIDE DEF next
      <4> QED BY <4>2, <4>3
    <3> QED BY <3>1, ControlsBoundary
  <2>2. Inputs
    BY <1>9 DEF finalizeToolStep, continueOrSeal, control, Controls
  <2> QED BY <1>0, <2>1, <2>2
<1>10. CASE guardrailRetry
  BY <1>0, <1>10 DEF guardrailRetry, Judging, control, Controls
<1>11. CASE responseRecovery
  BY <1>0, <1>11 DEF responseRecovery, Judging, Fail, Stop, control, Controls, None
<1>12. CASE acceptAnswer
  BY <1>0, <1>12 DEF acceptAnswer, Judging, continueOrSeal, Controls
<1>13. CASE rejectAnswer
  BY <1>0, <1>13 DEF rejectAnswer, Fail, Stop, control, Controls, None
<1>14. CASE finishRun
  BY <1>0, <1>14 DEF finishRun, Fail, Stop, control, Controls, None
<1>15. CASE offerInput
  BY <1>0, <1>15 DEF offerInput, Controls
<1>16. CASE crash
  BY <1>0, <1>16 DEF crash, Fail, Stop, control, Controls, None
<1>17. CASE resume
  <2>1. Inputs BY <1>17 DEF resume, Controls
  <2>2. CASE pc' = "top" /\ failure' = None
    BY <1>0, <2>1, <2>2
  <2>3. CASE \E c : observeBoundary(c, "model_complete", "dispatch")
    BY <1>0, <2>1, <2>3, ControlsBoundary
  <2>4. CASE \E c : observeBoundary(c, "validating_output", "validate")
    BY <1>0, <2>1, <2>4, ControlsBoundary
  <2>5. CASE saved.phase = "tools_complete" /\ resumeToolsComplete(saved.state)
    <3>1. Latest(saved.state).decision \in {"continue", "finish", "fail"}
      BY <2>5, LatestTyped DEF BookInv, Book, Kept, Entry
    <3>2. Flow
      BY <2>5, <3>1 DEF resumeToolsComplete, None
    <3> QED BY <1>0, <2>1, <3>2
  <2> QED
    BY <1>17, <2>2, <2>3, <2>4, <2>5
       DEF resume, resumeModelComplete, resumeValidatingOutput, beginToolStep, beginFinalStep
<1>18. CASE UNCHANGED vars
  BY <1>18 DEF vars, control, Controls
<1> QED
  BY <1>1, <1>2, <1>3, <1>4, <1>5, <1>6, <1>7, <1>8, <1>9, <1>10, <1>11, <1>12, <1>13,
     <1>14, <1>15, <1>16, <1>17, <1>18 DEF Next, Loop, Stopped

(* Every variable has its type, the loop never holds more steps than its     *)
(* iterations and never counts more repairs than the policy allows           *)
(* (runLoop's bound, validateAndRepairStructuredOutput's).                   *)
THEOREM LoopTypes == Spec => []TypeOK
<1>1. BookInv /\ Controls /\ [Next]_vars => Controls'
  BY NextControls
<1>2. BookInv /\ Controls => TypeOK
  BY DEF BookInv, Book, Kept, Controls, TypeOK
<1> QED BY <1>1, <1>2, InitControls, BookInvariance, PTL DEF Spec

(* What is stored only advances: no boundary, after any crash, resumption or *)
(* repair, takes back steps, usage, tool calls, repairs or operation turns   *)
(* (Engine.Resume starts from them, observeBoundary adds to them).           *)
THEOREM StoredStateAdvances == Spec => CheckpointAdvances
<1> DEFINE A == Ahead(saved'.state, saved.state)
<1>1. LoopInv /\ BookInv /\ [Next]_vars => [A]_vars
  BY BookNext DEF BookStep
<1>2. [][A]_vars => CheckpointAdvances
  BY DEF A, Ahead, CheckpointAdvances
<1> HIDE DEF A
<1> QED BY <1>1, <1>2, LoopInvariance, BookInvariance, PTL DEF Spec

-----------------------------------------------------------------------------
(* The tool-call allowance. *)

(* The operation IDs of a set of effects, and those of other turns than op. *)
Ids(effects) == {<<e[1], e[2]>> : e \in effects}
Others(effects, op) == {id \in Ids(effects) : id[1] # op}

(* What the effects may be while state c is stored: they are all counted in  *)
(* it, but those of a response that waits for its tools, which are its own   *)
(* slots.                                                                   *)
Own(c, effects) ==
    /\ Cardinality(Others(effects, c.opTurn - 1)) <= c.toolCallsUsed
    /\ \A id \in Ids(effects) :
           id[1] = c.opTurn - 1 => id[2] \in 0..(Last(c.messages).calls - 1)

Counted(phase, c, effects) ==
    /\ phase = "model_complete" => Own(c, effects)
    /\ phase # "model_complete" => Cardinality(Ids(effects)) <= c.toolCallsUsed

Working(p) == p \notin {"dispatch", "failed"}

(* The inductive invariant of the allowance. *)
ToolInv ==
    /\ IsFiniteSet(Ids(executed))
    /\ Counted(saved.phase, saved.state, executed)
    /\ Working(pc) => Cardinality(Ids(executed)) <= live.toolCallsUsed
    /\ MaxToolCalls > 0 => Cardinality(Ids(executed)) <= MaxToolCalls

(* No tool has run when a run starts. *)
LEMMA InitTools == Init => ToolInv
<1> SUFFICES ASSUME Init PROVE ToolInv OBVIOUS
<1>1. Ids(executed) = {} BY DEF Init, Ids
<1>2. IsFiniteSet({}) /\ Cardinality({}) = 0 BY FS_EmptySet
<1>3. live.toolCallsUsed = 0 /\ saved.state.toolCallsUsed = 0 /\ saved.phase = None
  BY DEF Init, NotSaved, Fresh
<1> QED BY <1>1, <1>2, <1>3, LoopAssumption DEF ToolInv, Counted, None

(* A step that runs no tool and stores nothing. *)
LEMMA ToolsStay ==
    ASSUME ToolInv, UNCHANGED <<saved, executed>>,
           Working(pc') => Working(pc) /\ live'.toolCallsUsed = live.toolCallsUsed
    PROVE  ToolInv'
<1>1. Counted(saved.phase, saved.state, executed)'
  BY DEF ToolInv, Counted, Own, Others, Ids
<1>2. IsFiniteSet(Ids(executed))'
  BY DEF ToolInv, Ids
<1>3. Ids(executed)' = Ids(executed)
  BY DEF Ids
<1>4. Working(pc)' => Cardinality(Ids(executed)) <= live'.toolCallsUsed
  BY DEF ToolInv, Working
<1> QED BY <1>1, <1>2, <1>3, <1>4 DEF ToolInv

(* A boundary: what was used is counted in the state that is stored. *)
LEMMA ToolsBoundary ==
    ASSUME ToolInv, NEW c, NEW phase, NEW next,
           observeBoundary(c, phase, next), executed' = executed,
           Counted(phase, c, executed),
           Working(next) => Cardinality(Ids(executed)) <= c.toolCallsUsed
    PROVE  ToolInv'
<1>1. live' = c /\ pc' \in {next, "failed"}
  BY DEF observeBoundary, Stop
<1>2. saved' = saved \/ saved' = [phase |-> phase, state |-> c]
  BY DEF observeBoundary, Stop
<1>3. Ids(executed)' = Ids(executed)
  BY DEF Ids
<1>4. Counted(saved'.phase, saved'.state, executed)
  <2>1. CASE saved' = saved BY <2>1 DEF ToolInv
  <2>2. CASE saved' = [phase |-> phase, state |-> c]
    <3>1. saved'.phase = phase /\ saved'.state = c BY <2>2
    <3> QED BY <3>1
  <2> QED BY <1>2, <2>1, <2>2
<1>5. Counted(saved.phase, saved.state, executed)'
  BY <1>3, <1>4 DEF Counted, Own, Others
<1>6. Working(pc)' => Cardinality(Ids(executed)) <= live'.toolCallsUsed
  BY <1>1 DEF Working
<1>7. IsFiniteSet(Ids(executed))'
  BY <1>3 DEF ToolInv
<1> QED BY <1>3, <1>5, <1>6, <1>7 DEF ToolInv

(* The slots of a batch of n calls are n operation IDs. *)
LEMMA BatchIds ==
    ASSUME NEW op, NEW n \in Nat
    PROVE  /\ IsFiniteSet({<<op, slot>> : slot \in 0..(n - 1)})
           /\ Cardinality({<<op, slot>> : slot \in 0..(n - 1)}) <= n
<1> DEFINE T == {<<op, slot>> : slot \in 0..(n - 1)}
           f == [slot \in 0..(n - 1) |-> <<op, slot>>]
<1>1. f \in Surjection(0..(n - 1), T)
  BY DEF Surjection
<1>2. IsFiniteSet(0..(n - 1)) /\ Cardinality(0..(n - 1)) = n
  BY FS_Interval
<1> HIDE DEF T, f
<1>3. IsFiniteSet(T) /\ Cardinality(T) <= n
  BY <1>1, <1>2, FS_Surjection
<1> QED BY <1>3 DEF T

(* A batch runs, for the first time or again: the effects are those counted   *)
(* before it and its own.                                                   *)
LEMMA BatchCounted ==
    ASSUME NEW X, NEW c, NEW m, NEW effects \in SUBSET Slots(m),
           IsFiniteSet(Ids(X)), m = Last(c.messages), m.op = c.opTurn - 1, m.calls \in Nat,
           c.toolCallsUsed \in Nat, Own(c, X)
    PROVE  /\ IsFiniteSet(Ids(X \cup effects))
           /\ Own(c, X \cup effects)
           /\ Cardinality(Ids(X \cup effects)) <= c.toolCallsUsed + m.calls
<1> DEFINE T == {<<m.op, slot>> : slot \in 0..(m.calls - 1)}
           O == Others(X, m.op)
           Y == X \cup effects
<1>1. IsFiniteSet(T) /\ Cardinality(T) <= m.calls
  BY BatchIds
<1>2. Ids(effects) \subseteq T
  <2> SUFFICES ASSUME NEW e \in effects PROVE <<e[1], e[2]>> \in T BY DEF Ids
  <2>1. PICK slot \in 0..(m.calls - 1) : e = <<m.op, slot, m.response>>
    BY DEF Slots
  <2> QED BY <2>1
<1>3. Ids(Y) = Ids(X) \cup Ids(effects)
  BY DEF Ids
<1>4. \A id \in Ids(X) : \E a, b : id = <<a, b>>
  BY DEF Ids
<1>5. \A id \in Ids(X) : id[1] = m.op => id \in T
  <2> SUFFICES ASSUME NEW id \in Ids(X), id[1] = m.op PROVE id \in T OBVIOUS
  <2>1. PICK a, b : id = <<a, b>> BY <1>4
  <2>2. id[2] \in 0..(m.calls - 1) BY DEF Own
  <2> QED BY <2>1, <2>2
<1>6. Ids(Y) \subseteq O \cup T
  BY <1>2, <1>3, <1>5 DEF Others
<1>7. O \subseteq Ids(X) /\ Cardinality(O) <= c.toolCallsUsed
  BY DEF Own, Others
<1>8. \A id \in T : id[1] = m.op /\ id[2] \in 0..(m.calls - 1)
  OBVIOUS
<1> HIDE DEF T, O, Y
<1>9. IsFiniteSet(O)
  BY <1>7, FS_Subset
<1>10. /\ IsFiniteSet(O \cup T)
       /\ Cardinality(O \cup T) = Cardinality(O) + Cardinality(T) - Cardinality(O \cap T)
       /\ IsFiniteSet(O \cap T)
  BY <1>1, <1>9, FS_Union, FS_Intersection
<1>11. /\ Cardinality(O) \in Nat /\ Cardinality(T) \in Nat /\ Cardinality(O \cap T) \in Nat
  BY <1>1, <1>9, <1>10, FS_CardinalityType
<1>12. IsFiniteSet(Ids(Y)) /\ Cardinality(Ids(Y)) <= Cardinality(O \cup T)
  BY <1>6, <1>10, FS_Subset
<1>13. Cardinality(Ids(Y)) \in Nat BY <1>12, FS_CardinalityType
<1>14. Cardinality(Ids(Y)) <= c.toolCallsUsed + m.calls
  BY <1>1, <1>7, <1>10, <1>11, <1>12, <1>13
<1>15. Others(Y, c.opTurn - 1) = O
  <2>1. O = Others(X, c.opTurn - 1) BY DEF O
  <2> QED BY <1>2, <1>3, <1>8, <2>1 DEF Others
<1>16. \A id \in Ids(Y) : id[1] = c.opTurn - 1 => id[2] \in 0..(Last(c.messages).calls - 1)
  BY <1>2, <1>3, <1>8 DEF Own
<1>17. Own(c, Y) BY <1>7, <1>15, <1>16 DEF Own
<1> QED BY <1>12, <1>14, <1>17 DEF Y

(* The batch that may be dispatched stays within the ceiling. *)
LEMMA BlockHolds ==
    ASSUME NEW c, c.toolCallsUsed \in Nat, NEW n \in Nat,
           preDispatchBudgetBlock(c, n) = None, MaxToolCalls > 0
    PROVE  c.toolCallsUsed + n <= MaxToolCalls
<1>1. budgetRemaining(c) = None
  BY DEF preDispatchBudgetBlock
<1>2. ~dispatchExceedsToolBudget(c, n)
  BY <1>1 DEF preDispatchBudgetBlock, None
<1>3. ~(c.toolCallsUsed + n > MaxToolCalls)
  BY <1>2 DEF dispatchExceedsToolBudget
<1> QED BY <1>3, LoopAssumption

(* Every step keeps the allowance. *)
LEMMA NextTools == LoopInv /\ BookInv /\ ToolInv /\ [Next]_vars => ToolInv'
<1> SUFFICES ASSUME LoopInv, BookInv, ToolInv, [Next]_vars PROVE ToolInv' OBVIOUS
<1> USE LoopAssumption
<1>0. /\ IsState(live) /\ IsState(saved.state)
      /\ live.toolCallsUsed \in Nat /\ saved.state.toolCallsUsed \in Nat
      /\ live.opTurn \in Nat /\ saved.state.opTurn \in Nat
      /\ live.opTurn >= saved.state.opTurn
      /\ \A e \in executed : e[1] \in Int /\ e[1] < saved.state.opTurn
  BY Fielded DEF LoopInv, IsState, BookInv, Book
<1>1. CASE leaveLoop
  BY <1>1, ToolsStay DEF leaveLoop, Fail, Stop, Working
<1>2. CASE prepareTurn
  <2> DEFINE c == Taken(live)
  <2>1. IsState(c) /\ c.toolCallsUsed = live.toolCallsUsed
    BY <1>0, TakenKeeps
  <2>2. executed' = executed /\ Cardinality(Ids(executed)) <= live.toolCallsUsed
    BY <1>2 DEF prepareTurn, ToolInv, Working
  <2>3. CASE Fail(c, "budget") /\ UNCHANGED saved
    BY <2>2, <2>3, ToolsStay DEF Fail, Stop, Working
  <2>4. CASE \E k \in ContextTokens : observeBoundary(Summarised(c, k), "ready", "model")
    <3>1. PICK k \in ContextTokens : observeBoundary(Summarised(c, k), "ready", "model")
      BY <2>4
    <3> DEFINE d == Summarised(c, k)
    <3> HIDE DEF c
    <3>2. d.toolCallsUsed = live.toolCallsUsed
      BY <2>1, SummarisedKeeps
    <3>3. observeBoundary(d, "ready", "model") BY <3>1
    <3> HIDE DEF d
    <3>4. Counted("ready", d, executed)
      BY <2>2, <3>2 DEF Counted
    <3> QED BY <2>2, <3>2, <3>3, <3>4, ToolsBoundary
  <2> QED BY <1>2, <2>3, <2>4 DEF prepareTurn
<1>3. CASE turnCallsTools
  <2>1. PICK n \in 1..MaxCalls, r \in Responses, t \in TurnTokens, k \in ContextTokens :
            beginToolStep(Turned(live, k, t), ToolResponse(n, live.opTurn, r), t)
    BY <1>3 DEF turnCallsTools
  <2> DEFINE c == Turned(live, k, t)
             m == ToolResponse(n, live.opTurn, r)
             d == Recorded(c, m, NewStep(c, t, "continue", None))
  <2>2. executed' = executed /\ Cardinality(Ids(executed)) <= live.toolCallsUsed
    BY <1>3 DEF turnCallsTools, ToolInv, Working
  <2>3. IsState(c) /\ c.opTurn = live.opTurn + 1 /\ c.toolCallsUsed = live.toolCallsUsed
    BY <1>0, TurnedKeeps
  <2>4. m \in Msg
    <3>1. n \in Nat OBVIOUS
    <3> QED BY <1>0, <3>1, MessagesTyped
  <2>5. observeBoundary(d, "model_complete", "dispatch")
    BY <2>1 DEF beginToolStep
  <2> HIDE DEF c, m
  <2>6. d.opTurn = live.opTurn + 1 /\ d.toolCallsUsed = live.toolCallsUsed
    BY <2>3, <2>4, RecordedKeeps
  <2> HIDE DEF d
  <2>7. \A id \in Ids(executed) : id[1] # live.opTurn
    BY <1>0 DEF Ids
  <2>8. Others(executed, live.opTurn) = Ids(executed)
    BY <2>7 DEF Others
  <2>9. d.opTurn - 1 = live.opTurn
    BY <1>0, <2>6
  <2>10. Own(d, executed)
    BY <2>2, <2>6, <2>7, <2>8, <2>9 DEF Own
  <2>11. Counted("model_complete", d, executed)
    BY <2>10 DEF Counted
  <2> QED BY <2>2, <2>5, <2>11, ToolsBoundary DEF Working
<1>4. CASE turnAnswers
  <2>1. PICK said \in Answers, t \in TurnTokens, k \in ContextTokens :
            beginFinalStep(Turned(live, k, t), said, t)
    BY <1>4 DEF turnAnswers
  <2> DEFINE c == Turned(live, k, t)
             d == Recorded(c, Plain("assistant"), NewStep(c, t, "finish", None))
  <2>2. executed' = executed /\ Cardinality(Ids(executed)) <= live.toolCallsUsed
    BY <1>4 DEF turnAnswers, ToolInv, Working
  <2>3. IsState(c) /\ c.toolCallsUsed = live.toolCallsUsed
    BY <1>0, TurnedKeeps
  <2>4. \/ observeBoundary(d, "validating_output", "validate")
        \/ observeBoundary(Withheld(d), "validating_output", "silent")
    BY <2>1 DEF beginFinalStep
  <2> HIDE DEF c
  <2>5. IsState(d) /\ d.messages # << >> /\ d.toolCallsUsed = live.toolCallsUsed
    BY <2>3, RecordedKeeps, MessagesTyped
  <2> HIDE DEF d
  <2>6. Withheld(d).toolCallsUsed = live.toolCallsUsed
    BY <2>5, WithheldKeeps
  <2>7. Counted("validating_output", d, executed)
        /\ Counted("validating_output", Withheld(d), executed)
    BY <2>2, <2>5, <2>6 DEF Counted
  <2> QED BY <2>2, <2>4, <2>5, <2>6, <2>7, ToolsBoundary
<1>5. CASE turnPauses
  <2>1. PICK t \in TurnTokens, k \in ContextTokens :
            LET c == Turned(live, k, t)
                d == Recorded(c, Plain("assistant"), NewStep(c, t, "continue", "pause"))
            IN  \/ Fail(Decide(d, "fail"), "pause") /\ UNCHANGED saved
                \/ observeBoundary(d, "ready", "top")
    BY <1>5 DEF turnPauses
  <2> DEFINE c == Turned(live, k, t)
             d == Recorded(c, Plain("assistant"), NewStep(c, t, "continue", "pause"))
  <2>2. executed' = executed /\ Cardinality(Ids(executed)) <= live.toolCallsUsed
    BY <1>5 DEF turnPauses, ToolInv, Working
  <2>3. IsState(c) /\ c.toolCallsUsed = live.toolCallsUsed
    BY <1>0, TurnedKeeps
  <2>4. (Fail(Decide(d, "fail"), "pause") /\ UNCHANGED saved) \/ observeBoundary(d, "ready", "top")
    BY <2>1
  <2> HIDE DEF c
  <2>5. d.toolCallsUsed = live.toolCallsUsed
    BY <2>3, RecordedKeeps, MessagesTyped
  <2> HIDE DEF d
  <2>6. CASE Fail(Decide(d, "fail"), "pause") /\ UNCHANGED saved
    BY <2>2, <2>6, ToolsStay DEF Fail, Stop, Working
  <2>7. CASE observeBoundary(d, "ready", "top")
    <3>1. Counted("ready", d, executed)
      BY <2>2, <2>5 DEF Counted
    <3> QED BY <2>2, <2>5, <2>7, <3>1, ToolsBoundary
  <2> QED BY <2>4, <2>6, <2>7
<1>6. CASE turnInterrupted
  <2>1. pc = "model" /\ pc' = "top" /\ UNCHANGED <<saved, executed>>
    BY <1>6 DEF turnInterrupted
  <2>2. CASE \E k \in ContextTokens : live' = Summarised(live, k)
    <3>1. live'.toolCallsUsed = live.toolCallsUsed
      BY <1>0, <2>2, SummarisedKeeps
    <3> QED BY <2>1, <3>1, ToolsStay DEF Working
  <2>3. CASE \E t \in TurnTokens, k \in ContextTokens :
                live' = Recorded(Turned(live, k, t), Plain("assistant"),
                                 NewStep(Turned(live, k, t), t, "continue", None))
    <3>1. PICK t \in TurnTokens, k \in ContextTokens :
                live' = Recorded(Turned(live, k, t), Plain("assistant"),
                                 NewStep(Turned(live, k, t), t, "continue", None))
      BY <2>3
    <3> DEFINE c == Turned(live, k, t)
               s == NewStep(c, t, "continue", None)
    <3>2. IsState(c) /\ c.toolCallsUsed = live.toolCallsUsed
      BY <1>0, TurnedKeeps
    <3>3. live' = Recorded(c, Plain("assistant"), s)
      BY <3>1
    <3> HIDE DEF c, s
    <3>4. live'.toolCallsUsed = live.toolCallsUsed
      BY <3>2, <3>3, RecordedKeeps, MessagesTyped
    <3> QED BY <2>1, <3>4, ToolsStay DEF Working
  <2> QED BY <1>6, <2>2, <2>3 DEF turnInterrupted
<1>7. CASE turnFails
  BY <1>7, ToolsStay DEF turnFails, Fail, Stop, Working
<1>8. CASE dispatchTools
  <2> DEFINE m == Last(live.messages)
  <2>1. /\ pc = "dispatch" /\ UNCHANGED saved
        /\ saved.phase = "model_complete" /\ saved.state = live
        /\ m.op = live.opTurn - 1
    BY <1>8 DEF dispatchTools, LoopInv, Dispatchable
  <2>2. Own(live, executed) /\ IsFiniteSet(Ids(executed))
    BY <2>1 DEF ToolInv, Counted
  <2>3. m.calls \in Nat /\ Batch(live) = m.calls
    BY <2>1 DEF BookInv, Place, Asking, ToolAsk, Batch
  <2>4. CASE executed' = executed /\ pc' = "failed"
    BY <2>1, <2>4, ToolsStay DEF Working
  <2>5. CASE /\ preDispatchBudgetBlock(live, Batch(live)) = None
             /\ \E effects \in SUBSET Slots(m), u \in ChildTokens :
                    /\ executed' = executed \cup effects
                    /\ \/ live' = Executed(live, Batch(live), u)
                       \/ pc' = "failed"
    <3>1. PICK effects \in SUBSET Slots(m), u \in ChildTokens :
                    /\ executed' = executed \cup effects
                    /\ \/ live' = Executed(live, Batch(live), u)
                       \/ pc' = "failed"
      BY <2>5
    <3> HIDE DEF m
    <3>2. /\ IsFiniteSet(Ids(executed')) /\ Own(live, executed')
          /\ Cardinality(Ids(executed')) <= live.toolCallsUsed + m.calls
      BY <1>0, <2>1, <2>2, <2>3, <3>1, BatchCounted DEF m
    <3>3. Cardinality(Ids(executed')) \in Nat
      BY <3>2, FS_CardinalityType
    <3>4. MaxToolCalls > 0 => live.toolCallsUsed + m.calls <= MaxToolCalls
      BY <1>0, <2>3, <2>5, BlockHolds
    <3>5. MaxToolCalls > 0 => Cardinality(Ids(executed')) <= MaxToolCalls
      BY <1>0, <2>3, <3>2, <3>3, <3>4
    <3>6. Working(pc') => Cardinality(Ids(executed')) <= live'.toolCallsUsed
      <4>1. CASE live' = Executed(live, Batch(live), u)
        <5>1. live'.toolCallsUsed = live.toolCallsUsed + m.calls
          BY <1>0, <2>3, <4>1, ExecutedKeeps
        <5> QED BY <3>2, <5>1
      <4>2. CASE pc' = "failed" BY <4>2 DEF Working
      <4> QED BY <3>1, <4>1, <4>2
    <3>7. Counted(saved'.phase, saved'.state, executed')
      BY <2>1, <3>2 DEF Counted
    <3>8. Counted(saved.phase, saved.state, executed)'
      BY <3>7 DEF Counted, Own, Others, Ids
    <3>9. Ids(executed)' = Ids(executed')
      BY DEF Ids
    <3>10. Working(pc)' => Cardinality(Ids(executed)') <= live'.toolCallsUsed
      BY <3>6, <3>9 DEF Working
    <3> QED BY <3>2, <3>5, <3>8, <3>9, <3>10 DEF ToolInv
  <2> QED BY <1>8, <2>4, <2>5 DEF dispatchTools, Fail, Stop
<1>9. CASE finalizeToolStep
  <2> DEFINE next(d) == CASE d = "continue" -> "top" [] d = "finish" -> "finished"
                          [] OTHER -> "failed"
  <2>1. PICK d \in stepDecisionOverride :
            \E s : observeBoundary(WithLatest(live, s), "tools_complete", next(d))
    BY <1>9 DEF finalizeToolStep
  <2>2. PICK s : observeBoundary(WithLatest(live, s), "tools_complete", next(d))
    BY <2>1
  <2>3. executed' = executed /\ Cardinality(Ids(executed)) <= live.toolCallsUsed
    BY <1>9 DEF finalizeToolStep, ToolInv, Working
  <2> DEFINE c == WithLatest(live, s)
  <2>4. c.toolCallsUsed = live.toolCallsUsed
    BY <1>0, WithLatestKeeps
  <2> HIDE DEF c
  <2>5. Counted("tools_complete", c, executed)
    BY <2>3, <2>4 DEF Counted
  <2> QED BY <2>2, <2>3, <2>4, <2>5, ToolsBoundary DEF c
<1>10. CASE guardrailRetry
  <2>1. Working(pc) /\ UNCHANGED <<saved, executed>>
    BY <1>10 DEF guardrailRetry, Judging, Working
  <2>2. PICK keep \in KeepRejected : live' = Decide(RetryContext(keep), "continue")
    BY <1>10 DEF guardrailRetry
  <2> DEFINE c == RetryContext(keep)
  <2>3. IsState(c) /\ c.toolCallsUsed = live.toolCallsUsed
    BY <1>0, ContinuedKeeps DEF LoopInv, RetryContext
  <2>4. live' = Decide(c, "continue") BY <2>2
  <2> HIDE DEF c
  <2>5. live'.toolCallsUsed = live.toolCallsUsed
    BY <2>3, <2>4, DecideKeeps
  <2> QED BY <2>1, <2>5, ToolsStay
<1>11. CASE responseRecovery
  <2> DEFINE D(said) == [Finalized(said) EXCEPT !.messages = Append(@, Plain("correction"))]
  <2>1. \A said : IsState(D(said)) /\ D(said).toolCallsUsed = live.toolCallsUsed
    BY <1>0, ContinuedKeeps DEF LoopInv
  <2>2. live' = Decide(live, "fail") \/ \E said, s : live' = WithLatest(D(said), s)
    BY <1>11 DEF responseRecovery, Fail, Stop
  <2> HIDE DEF D
  <2>3. live'.toolCallsUsed = live.toolCallsUsed
    BY <1>0, <2>1, <2>2, WithLatestKeeps, DecideKeeps
  <2>4. Working(pc) /\ UNCHANGED <<saved, executed>>
    BY <1>11 DEF responseRecovery, Judging, Working
  <2> QED BY <2>3, <2>4, ToolsStay
<1>12. CASE acceptAnswer
  <2>1. \E said : live' = Decide(Finalized(said), "continue") \/ live' = Finalized(said)
    BY <1>12 DEF acceptAnswer
  <2>2. \A said : IsState(Finalized(said)) /\ Finalized(said).toolCallsUsed = live.toolCallsUsed
    BY <1>0, FinalizedKeeps DEF LoopInv
  <2>3. live'.toolCallsUsed = live.toolCallsUsed
    BY <2>1, <2>2, DecideKeeps
  <2>4. Working(pc) /\ UNCHANGED <<saved, executed>>
    BY <1>12 DEF acceptAnswer, Judging, Working
  <2> QED BY <2>3, <2>4, ToolsStay
<1>13. CASE rejectAnswer
  BY <1>13, ToolsStay DEF rejectAnswer, Fail, Stop, Working
<1>14. CASE finishRun
  <2> DEFINE c == [live EXCEPT !.messages = Append(@, Plain("user")), !.repairs = @ + 1]
  <2>1. pc = "finished" /\ UNCHANGED <<saved, executed>>
        /\ (pc' = "failed" \/ live' = live \/ live' = Decide(c, "continue"))
    BY <1>14 DEF finishRun, Fail, Stop, Repaired
  <2>2. IsState(c) /\ c.toolCallsUsed = live.toolCallsUsed
    BY <1>0, MessagesTyped DEF IsState, Fields
  <2> HIDE DEF c
  <2>3. pc' = "failed" \/ live'.toolCallsUsed = live.toolCallsUsed
    BY <2>1, <2>2, DecideKeeps
  <2> QED BY <2>1, <2>3, ToolsStay DEF Working
<1>15. CASE offerInput
  BY <1>15, ToolsStay DEF offerInput, Working
<1>16. CASE crash
  BY <1>16, ToolsStay DEF crash, Fail, Stop, Working
<1>17. CASE resume
  <2> DEFINE a == saved.state
             c == Unstepped(a)
  <2>0. executed' = executed BY <1>17 DEF resume
  <2>1. CASE saved.phase # "model_complete" /\ live' = a /\ UNCHANGED saved
    <3>1. Cardinality(Ids(executed)) <= live'.toolCallsUsed
      BY <2>1 DEF ToolInv, Counted
    <3>2. Counted(saved.phase, saved.state, executed)'
      BY <2>0, <2>1 DEF ToolInv, Counted, Own, Others, Ids
    <3>3. Ids(executed)' = Ids(executed)
      BY <2>0 DEF Ids
    <3> QED BY <3>1, <3>2, <3>3 DEF ToolInv
  <2>2. CASE saved.phase = "model_complete" /\ resumeModelComplete(a)
    <3> DEFINE m == Last(a.messages)
               d == Recorded(c, m, NewStep(c, Latest(a).model, "continue", None))
    <3>1. a.messages # << >>
      BY <2>2 DEF LoopInv, Dispatchable
    <3>2. IsState(c) /\ c.opTurn = a.opTurn /\ c.toolCallsUsed = a.toolCallsUsed /\ m \in Msg
      BY <1>0, <3>1, UnsteppedKeeps
    <3>3. observeBoundary(d, "model_complete", "dispatch")
      BY <2>2 DEF resumeModelComplete, beginToolStep
    <3> HIDE DEF c, m
    <3>4. d.opTurn = a.opTurn /\ d.toolCallsUsed = a.toolCallsUsed /\ Last(d.messages) = m
      BY <3>2, RecordedKeeps
    <3> HIDE DEF d
    <3>5. Own(a, executed)
      BY <2>2 DEF ToolInv, Counted
    <3>6. Own(d, executed)
      BY <3>4, <3>5 DEF Own, m
    <3>7. Counted("model_complete", d, executed)
      BY <3>6 DEF Counted
    <3> QED BY <2>0, <3>3, <3>7, ToolsBoundary DEF Working
  <2>3. CASE saved.phase = "validating_output" /\ resumeValidatingOutput(a)
    <3> DEFINE d == Recorded(c, Plain("assistant"), NewStep(c, Latest(a).model, "finish", None))
    <3>1. a.messages # << >>
      BY <2>3 DEF LoopInv
    <3>2. IsState(c) /\ c.toolCallsUsed = a.toolCallsUsed
      BY <1>0, <3>1, UnsteppedKeeps
    <3>3. observeBoundary(d, "validating_output", "validate")
      BY <2>3 DEF resumeValidatingOutput, beginFinalStep
    <3> HIDE DEF c
    <3>4. d.toolCallsUsed = a.toolCallsUsed
      BY <3>2, RecordedKeeps, MessagesTyped
    <3> HIDE DEF d
    <3>5. Cardinality(Ids(executed)) <= d.toolCallsUsed
      BY <2>3, <3>4 DEF ToolInv, Counted
    <3>6. Counted("validating_output", d, executed)
      BY <3>5 DEF Counted
    <3> QED BY <2>0, <3>3, <3>5, <3>6, ToolsBoundary
  <2> QED BY <1>17, <2>1, <2>2, <2>3 DEF resume, resumeToolsComplete
<1>18. CASE UNCHANGED vars
  BY <1>18, ToolsStay DEF vars, Working
<1> QED
  BY <1>1, <1>2, <1>3, <1>4, <1>5, <1>6, <1>7, <1>8, <1>9, <1>10, <1>11, <1>12, <1>13,
     <1>14, <1>15, <1>16, <1>17, <1>18 DEF Next, Loop, Stopped

(* The allowance is kept throughout every execution. *)
THEOREM ToolInvariance == Spec => []ToolInv
  BY InitTools, NextTools, LoopInvariance, BookInvariance, PTL DEF Spec

(* Crashes, resumptions and repairs give no allowance back: MaxToolCalls      *)
(* bounds the distinct tool calls of a whole execution                       *)
(* (preDispatchBudgetBlock), and maxResponseRecoveries the corrections in    *)
(* one transcript (responseRecoveryCount).                                  *)
THEOREM AllowancesHeld == Spec => []BudgetsHeld
<1>1. ToolInv /\ BookInv => BudgetsHeld
  <2> SUFFICES ASSUME ToolInv, BookInv PROVE BudgetsHeld OBVIOUS
  <2>1. MaxToolCalls > 0 => Cardinality({<<e[1], e[2]>> : e \in executed}) <= MaxToolCalls
    BY DEF ToolInv, Ids
  <2>2. live \in States /\ Corrected(live)
    BY DEF BookInv, Book
  <2>3. Cardinality(Corrections(live)) \in Nat /\ Cardinality(Recoveries(live)) \in Nat
    BY <2>2, MarksFinite, FS_CardinalityType
  <2>4. Cardinality(Corrections(live)) <= MaxCorrections
    BY <2>2, <2>3, LoopAssumption DEF Corrected
  <2> QED BY <2>1, <2>4 DEF BudgetsHeld, Corrections
<1> QED BY <1>1, ToolInvariance, BookInvariance, PTL

-----------------------------------------------------------------------------
(* The books of a run: what every boundary is checked for, before it is one. *)

(* The members of S after i. *)
Followers(S, i) == {j \in S : j > i}

(* Each Step has its message: as many follow it as Steps do. *)
Placed(c) ==
    \A k \in 1..Len(c.steps) : \E i \in Assistants(c.messages) :
        Cardinality(Followers(Assistants(c.messages), i)) = Len(c.steps) - k

(* The calls counted before step k. *)
CallsBefore(c, k) == IF k = 1 THEN 0 ELSE c.steps[k - 1].calls

(* Step k counts at least what the model and the summaries used, at least    *)
(* what the Step before counts, and its calls have its operation turn.      *)
RowOf(c, k) ==
    /\ StepMessage(c, k).calls > 0 => StepMessage(c, k).op = c.opTurn - Len(c.steps) + k - 1
    /\ c.steps[k].tokens >= ModelUsage(c, k) + c.steps[k].context
    /\ k > 1 => /\ c.steps[k].tokens >= c.steps[k - 1].tokens + c.steps[k].model
                /\ c.steps[k].context >= c.steps[k - 1].context

(* The calls of step k are all executed. *)
ClosedRow(c, k) ==
    /\ c.steps[k].traces = StepMessage(c, k).calls
    /\ c.steps[k].calls = CallsBefore(c, k) + StepMessage(c, k).calls

(* The totals are those of the latest Step. *)
Totals(c) ==
    IF Len(c.steps) = 0 THEN c.usage = c.context /\ c.toolCallsUsed = 0
    ELSE /\ c.usage = Latest(c).tokens
         /\ c.context = Latest(c).context
         /\ c.toolCallsUsed = Latest(c).calls

Account(c) ==
    /\ WellFormed(c.messages)
    /\ Placed(c)
    /\ c.opTurn >= Len(c.steps)
    /\ \A a \in Assistants(c.messages) : c.messages[a].op < c.opTurn
    /\ \A k \in 1..Len(c.steps) : RowOf(c, k)
    /\ \A k \in 1..Len(c.steps) :
          k # Len(c.steps) => ClosedRow(c, k) /\ c.steps[k].decision = "continue"
    /\ Totals(c)

(* Step k counts no more than it must. *)
TightRow(c, k) ==
    \/ c.steps[k].tokens = ModelUsage(c, k) + c.steps[k].context
    \/ k > 1 /\ c.steps[k].tokens = c.steps[k - 1].tokens + c.steps[k].model

(* Steps without calls count no more than they must, unless a summary was    *)
(* counted late.                                                            *)
Exact(c) == \A k \in 1..Len(c.steps) : StepMessage(c, k).calls = 0 => TightRow(c, k)
Sound(c) == Account(c) /\ (Exact(c) \/ LateSummary(c))

(* Nothing is open. *)
Closed(c) == ~Pending(c.messages) /\ (c.steps # << >> => ClosedRow(c, Len(c.steps)))

(* The latest response waits for its tools. *)
Open(c) ==
    /\ c.steps # << >> /\ c.messages # << >>
    /\ Last(c.messages) = StepMessage(c, Len(c.steps))
    /\ Last(c.messages).calls > 0
    /\ Latest(c).calls = CallsBefore(c, Len(c.steps))

(* Its tools have run. *)
Ran(c) ==
    /\ c.steps # << >> /\ c.messages # << >>
    /\ ~Pending(c.messages)
    /\ Last(c.messages).role = "tool"
    /\ StepMessage(c, Len(c.steps)).calls > 0
    /\ Latest(c).calls = CallsBefore(c, Len(c.steps)) + StepMessage(c, Len(c.steps)).calls

Standing(p, c) ==
    /\ p \in {"top", "model"} => Closed(c) /\ (c.steps # << >> => Latest(c).decision = "continue")
    /\ p = "dispatch" => Open(c)
    /\ p = "executed" => Ran(c)
    /\ p \in {"validate", "silent", "finished"} => Closed(c) /\ c.steps # << >>

(* Taking the message m and the Step of c off and recording them again gives *)
(* c back.                                                                  *)
Repeats(c, m, d) == Recorded(Unstepped(c), m, NewStep(Unstepped(c), Latest(c).model, d, None)) = c

(* What a resumption relies on. *)
Filed(phase, c) ==
    /\ phase # None => Sound(c) /\ ValidateContinuation(c, phase)
    /\ phase = "ready" => Standing("top", c)
    /\ phase = "model_complete" => Open(c) /\ Repeats(c, Last(c.messages), "continue")
    /\ phase = "tools_complete" => Standing("finished", c)
    /\ phase = "validating_output" =>
          Standing("validate", c) /\ Repeats(c, Plain("assistant"), "finish")

(* The working state, with the answer under scrutiny in its place even if it *)
(* says nothing.                                                            *)
Held(p, c) ==
    IF p = "silent"
    THEN [c EXCEPT !.messages = Append(@, Plain("assistant")), !.unsaid = @ - 1]
    ELSE c

(* The inductive invariant of the books: as long as no Step lacks its        *)
(* message, the live ones are sound and stand where the loop is, and the     *)
(* stored ones are filed for a resumption.                                  *)
Books ==
    /\ pc \notin {"failed", "done"} /\ Held(pc, live).unsaid = 0 =>
          Sound(Held(pc, live)) /\ Standing(pc, Held(pc, live))
    /\ saved.state.unsaid = 0 => Filed(saved.phase, saved.state)
    /\ BoundariesValid

-----------------------------------------------------------------------------
(* Which message of the transcript a Step belongs to. *)

(* The messages of the assistant are finitely many positions. *)
LEMMA AssistantsFinite ==
    ASSUME NEW c \in States
    PROVE  /\ Assistants(c.messages) \in SUBSET (1..Len(c.messages))
           /\ IsFiniteSet(Assistants(c.messages))
           /\ \A i \in Int : IsFiniteSet(Followers(Assistants(c.messages), i))
           /\ \A i \in Int : Cardinality(Followers(Assistants(c.messages), i)) \in Nat
<1> DEFINE S == Assistants(c.messages)
<1>1. S \in SUBSET (1..Len(c.messages))
  BY Fielded DEF Assistants
<1>2. IsFiniteSet(1..Len(c.messages))
  BY Fielded, FS_Interval
<1>3. IsFiniteSet(S)
  BY <1>1, <1>2, FS_Subset
<1> HIDE DEF S
<1>4. \A i \in Int : Followers(S, i) \in SUBSET S
  BY DEF Followers
<1>5. \A i \in Int : IsFiniteSet(Followers(S, i))
  BY <1>3, <1>4, FS_Subset
<1>6. \A i \in Int : Cardinality(Followers(S, i)) \in Nat
  BY <1>5, FS_CardinalityType
<1> QED BY <1>1, <1>3, <1>5, <1>6 DEF S

(* No two positions have equally many followers. *)
LEMMA FollowersTell ==
    ASSUME NEW S \in SUBSET Int, IsFiniteSet(S), NEW i \in S, NEW j \in S,
           Cardinality(Followers(S, i)) = Cardinality(Followers(S, j))
    PROVE  i = j
<1>1. ASSUME NEW a \in S, NEW b \in S, a < b
      PROVE  Cardinality(Followers(S, a)) # Cardinality(Followers(S, b))
  <2>0. \A y \in S : y > b => y > a
    BY <1>1
  <2>1. Followers(S, a) \in SUBSET S /\ Followers(S, b) \in SUBSET Followers(S, a)
    BY <2>0 DEF Followers
  <2>2. IsFiniteSet(Followers(S, a))
    BY <2>1, FS_Subset
  <2>3. b \in Followers(S, a) /\ b \notin Followers(S, b)
    BY <1>1 DEF Followers
  <2> QED BY <2>1, <2>2, <2>3, FS_Subset
<1>2. i < j \/ j < i \/ i = j
  OBVIOUS
<1> QED BY <1>1, <1>2

(* The message of a Step is found by its followers. *)
LEMMA SaidIs ==
    ASSUME NEW c \in States, NEW k \in 1..Len(c.steps), NEW i \in Assistants(c.messages),
           Cardinality(Followers(Assistants(c.messages), i)) = Len(c.steps) - k
    PROVE  StepMessage(c, k) = c.messages[i]
<1> DEFINE S == Assistants(c.messages)
           p == CHOOSE x \in S : Cardinality({y \in S : y > x}) = Len(c.steps) - k
<1>1. S \in SUBSET Int /\ IsFiniteSet(S)
  BY AssistantsFinite
<1>2. p \in S /\ Cardinality(Followers(S, p)) = Len(c.steps) - k
  BY DEF Followers
<1> HIDE DEF S
<1>3. p = i
  <2> HIDE DEF p
  <2> QED BY <1>1, <1>2, FollowersTell DEF S
<1> QED BY <1>3 DEF StepMessage, S

(* What is said without the assistant moves no message of a Step. *)
LEMMA SaidSame ==
    ASSUME NEW c \in States, NEW d \in States, Placed(c), Len(d.steps) = Len(c.steps),
           Assistants(d.messages) = Assistants(c.messages),
           \A i \in Assistants(c.messages) : d.messages[i] = c.messages[i]
    PROVE  Placed(d) /\ \A k \in 1..Len(c.steps) : StepMessage(d, k) = StepMessage(c, k)
<1>1. Placed(d)
  BY DEF Placed
<1>2. ASSUME NEW k \in 1..Len(c.steps) PROVE StepMessage(d, k) = StepMessage(c, k)
  <2>1. PICK i \in Assistants(c.messages) :
          Cardinality(Followers(Assistants(c.messages), i)) = Len(c.steps) - k
    BY DEF Placed
  <2>2. StepMessage(c, k) = c.messages[i]
    BY <2>1, SaidIs
  <2>3. StepMessage(d, k) = d.messages[i]
    BY <2>1, SaidIs
  <2> QED BY <2>2, <2>3
<1> QED BY <1>1, <1>2

(* A new Step with its message. *)
LEMMA SaidMore ==
    ASSUME NEW c \in States, NEW d \in States, Placed(c), Len(d.steps) = Len(c.steps) + 1,
           NEW m \in Message, m.role = "assistant", d.messages = Append(c.messages, m)
    PROVE  /\ Placed(d)
           /\ \A k \in 1..Len(c.steps) : StepMessage(d, k) = StepMessage(c, k)
           /\ StepMessage(d, Len(c.steps) + 1) = m
<1> DEFINE S == Assistants(c.messages)
           T == Assistants(d.messages)
           l == Len(c.messages)
           n == Len(c.steps)
<1>0. /\ c.messages \in Seq(Message) /\ l \in Nat /\ n \in Nat
      /\ S \in SUBSET (1..l) /\ IsFiniteSet(S)
      /\ \A i \in Int : IsFiniteSet(Followers(S, i)) /\ Cardinality(Followers(S, i)) \in Nat
  BY AssistantsFinite, Fielded
<1>1. l \in Nat /\ n \in Nat /\ S \in SUBSET (1..l) /\ S \in SUBSET Int /\ IsFiniteSet(S)
      /\ \A i \in Int : IsFiniteSet(Followers(S, i)) /\ Cardinality(Followers(S, i)) \in Nat
  <2> HIDE DEF S, l, n
  <2> QED BY <1>0
<1>2. /\ DOMAIN d.messages = 1..(l + 1) /\ d.messages[l + 1] = m
      /\ \A i \in 1..l : d.messages[i] = c.messages[i]
      /\ DOMAIN c.messages = 1..l
  <2>1. c.messages \in Seq(Message) /\ d.messages = Append(c.messages, m)
    BY <1>0
  <2> QED BY <2>1
<1>3. T = S \cup {l + 1} /\ l + 1 \notin S
  <2>1. /\ \A i \in 1..(l + 1) : i = l + 1 \/ i \in 1..l
        /\ \A i \in 1..l : i \in 1..(l + 1)
        /\ l + 1 \notin 1..l /\ l + 1 \in 1..(l + 1)
    <3>1. l \in Nat
      BY <1>1
    <3> HIDE DEF l
    <3> QED BY <3>1
  <2>2. \A i : i \in T <=> i \in 1..(l + 1) /\ d.messages[i].role = "assistant"
    BY <1>2 DEF Assistants
  <2>3. \A i : i \in S <=> i \in 1..l /\ c.messages[i].role = "assistant"
    BY <1>2 DEF Assistants
  <2> HIDE DEF S, T, l
  <2> QED BY <1>2, <2>1, <2>2, <2>3
<1> HIDE DEF S, T, l, n
<1>4. ASSUME NEW i \in S
      PROVE  Cardinality(Followers(T, i)) = Cardinality(Followers(S, i)) + 1
  <2>1. i \in Int /\ i < l + 1
    BY <1>1
  <2>2. Followers(T, i) = Followers(S, i) \cup {l + 1} /\ l + 1 \notin Followers(S, i)
    BY <1>3, <2>1 DEF Followers
  <2> QED BY <1>1, <2>1, <2>2, FS_AddElement
<1>5. Followers(T, l + 1) = {}
  <2>1. \A i \in T : ~(i > l + 1)
    BY <1>1, <1>3
  <2> QED BY <2>1 DEF Followers
<1>6. Cardinality(Followers(T, l + 1)) = 0
  BY <1>5, FS_EmptySet
<1>7. ASSUME NEW k \in 1..n
      PROVE  \E i \in S : Cardinality(Followers(T, i)) = (n + 1) - k /\ StepMessage(c, k) = c.messages[i]
  <2>1. PICK i \in S : Cardinality(Followers(S, i)) = n - k
    BY DEF Placed, S, n
  <2>2. StepMessage(c, k) = c.messages[i]
    BY <2>1, SaidIs DEF S, n
  <2>3. i \in Int /\ n - k + 1 = (n + 1) - k
    BY <1>1
  <2> QED BY <1>4, <2>1, <2>2, <2>3
<1> DEFINE N == Len(d.steps)
<1>8. N = n + 1
  BY DEF n
<1> HIDE DEF N
<1>9. \A k \in 1..(n + 1) : k \in 1..n \/ k = n + 1
  BY <1>1
<1>10. \A k \in 1..(n + 1) : \E i \in T : Cardinality(Followers(T, i)) = (n + 1) - k
  <2> SUFFICES ASSUME NEW k \in 1..(n + 1)
               PROVE  \E i \in T : Cardinality(Followers(T, i)) = (n + 1) - k
    OBVIOUS
  <2>1. CASE k \in 1..n
    BY <1>3, <1>7, <2>1
  <2>2. CASE k = n + 1
    BY <1>1, <1>3, <1>6, <2>2
  <2> QED BY <1>9, <2>1, <2>2
<1>13. Placed(d)
  <2>1. \A k \in 1..N : \E i \in T : Cardinality(Followers(T, i)) = N - k
    BY <1>8, <1>10
  <2> QED BY <2>1 DEF Placed, T, N
<1>11. ASSUME NEW k \in 1..n PROVE StepMessage(d, k) = StepMessage(c, k)
  <2>1. PICK i \in S : Cardinality(Followers(T, i)) = (n + 1) - k /\ StepMessage(c, k) = c.messages[i]
    BY <1>7
  <2>2. k \in 1..(n + 1) /\ i \in T
    BY <1>1, <1>3
  <2>3. k \in 1..Len(d.steps) /\ Cardinality(Followers(Assistants(d.messages), i)) = Len(d.steps) - k
    <3>1. k \in 1..N /\ Cardinality(Followers(T, i)) = N - k
      BY <1>8, <2>1, <2>2
    <3> QED BY <3>1 DEF T, N
  <2>4. StepMessage(d, k) = d.messages[i]
    BY <2>2, <2>3, SaidIs DEF T
  <2> QED BY <1>1, <1>2, <2>1, <2>4
<1>12. StepMessage(d, n + 1) = m
  <2>1. n + 1 \in 1..(n + 1) /\ l + 1 \in T /\ (n + 1) - (n + 1) = 0
    BY <1>1, <1>3
  <2>2. StepMessage(d, n + 1) = d.messages[l + 1]
    BY <1>6, <1>8, <2>1, SaidIs DEF T, N
  <2> QED BY <1>2, <2>2
<1> QED BY <1>13, <1>11, <1>12 DEF n

(* The message of a Step is one of the assistant's messages, and there are   *)
(* at least as many of these as Steps.                                      *)
LEMMA SaidTyped ==
    ASSUME NEW c \in States, Placed(c)
    PROVE  /\ \A k \in 1..Len(c.steps) :
                 /\ StepMessage(c, k) \in Message
                 /\ \E i \in Assistants(c.messages) : StepMessage(c, k) = c.messages[i]
           /\ Cardinality(Assistants(c.messages)) \in Nat
           /\ Cardinality(Assistants(c.messages)) >= Len(c.steps)
<1> DEFINE S == Assistants(c.messages)
           n == Len(c.steps)
<1>1. /\ c.messages \in Seq(Message) /\ n \in Nat
      /\ S \in SUBSET (1..Len(c.messages)) /\ IsFiniteSet(S) /\ Cardinality(S) \in Nat
  BY AssistantsFinite, Fielded, FS_CardinalityType
<1>2. ASSUME NEW k \in 1..n
      PROVE  /\ StepMessage(c, k) \in Message
             /\ \E i \in S : StepMessage(c, k) = c.messages[i]
  <2>1. PICK i \in S : Cardinality(Followers(S, i)) = n - k
    BY DEF Placed
  <2>2. StepMessage(c, k) = c.messages[i]
    BY <2>1, SaidIs
  <2>3. c.messages[i] \in Message
    BY <1>1
  <2> QED BY <2>2, <2>3
<1>3. Cardinality(S) >= n
  <2>1. CASE n = 0
    BY <1>1, <2>1
  <2>2. CASE n # 0
    <3>1. PICK i \in S : Cardinality(Followers(S, i)) = n - 1
      BY <1>1, <2>2 DEF Placed
    <3> HIDE DEF S, n
    <3>2. i \notin Followers(S, i) /\ Followers(S, i) \in SUBSET S /\ Followers(S, i) \cup {i} \in SUBSET S
      BY <1>1 DEF Followers
    <3>3. IsFiniteSet(Followers(S, i))
      BY <1>1, <3>2, FS_Subset
    <3>4. Cardinality(Followers(S, i) \cup {i}) = n - 1 + 1
      BY <3>1, <3>2, <3>3, FS_AddElement
    <3>5. Cardinality(Followers(S, i) \cup {i}) <= Cardinality(S)
      BY <1>1, <3>2, FS_Subset
    <3> QED BY <1>1, <3>4, <3>5
  <2> QED BY <2>1, <2>2
<1> QED BY <1>1, <1>2, <1>3

(* The message of the latest Step is the assistant's last. *)
LEMMA SaidLast ==
    ASSUME NEW c \in States, Placed(c), c.steps # << >>
    PROVE  Asked(c) = StepMessage(c, Len(c.steps))
<1> DEFINE S == Assistants(c.messages)
           n == Len(c.steps)
<1>1. /\ n \in Nat /\ n \in 1..n
      /\ S \in SUBSET (1..Len(c.messages)) /\ IsFiniteSet(S) /\ S \in SUBSET Int
  <2>1. n \in Nat /\ c.steps \in Seq(Entry)
    BY Fielded
  <2>2. n # 0
    BY <2>1
  <2>3. S \in SUBSET (1..Len(c.messages)) /\ IsFiniteSet(S)
    BY AssistantsFinite
  <2> HIDE DEF S, n
  <2>4. n \in 1..n
    BY <2>1, <2>2
  <2>5. S \in SUBSET Int
    BY <2>3
  <2> QED BY <2>1, <2>3, <2>4, <2>5
<1>2. PICK i \in S : Cardinality(Followers(S, i)) = n - n
  BY <1>1 DEF Placed
<1>3. Max(S) \in S /\ \A j \in S : Max(S) >= j
  BY <1>1, MaxIs
<1>4. Followers(S, Max(S)) = {}
  <2> HIDE DEF S
  <2>1. \A j \in S : ~(j > Max(S))
    <3>1. Max(S) \in Int /\ \A j \in S : j \in Int
      BY <1>1, <1>3
    <3> QED BY <1>3, <3>1
  <2> QED BY <2>1 DEF Followers
<1>5. Cardinality(Followers(S, Max(S))) = n - n
  BY <1>1, <1>4, FS_EmptySet
<1>6. StepMessage(c, n) = c.messages[Max(S)]
  BY <1>1, <1>3, <1>5, SaidIs
<1> QED BY <1>6 DEF Asked

-----------------------------------------------------------------------------
(* Sums over the Steps. *)

(* The model's usage grows from Step to Step. *)
LEMMA UsageGrows ==
    ASSUME NEW c \in States
    PROVE  /\ ModelUsage(c, 0) = 0
           /\ \A k \in 0..Len(c.steps) : ModelUsage(c, k) \in Nat
           /\ \A k \in 1..Len(c.steps) :
                 ModelUsage(c, k) = ModelUsage(c, k - 1) + c.steps[k].model
<1> DEFINE used == [j \in DOMAIN c.steps |-> c.steps[j].model]
           n == Len(c.steps)
<1>1. n \in Nat /\ DOMAIN used = 1..n /\ \A j \in 1..n : used[j] = c.steps[j].model /\ used[j] \in Nat
  <2>1. c.steps \in Seq(Entry)
    BY Fielded
  <2>2. \A j \in 1..n : c.steps[j] \in Entry
    BY <2>1
  <2>3. n \in Nat /\ DOMAIN c.steps = 1..n
    BY <2>1
  <2>4. \A e \in Entry : e.model \in Nat
    BY DEF Entry
  <2> HIDE DEF n
  <2> QED BY <2>2, <2>3, <2>4
<1>2. \A k : ModelUsage(c, k) = SumOf(used, 1..k)
  BY DEF ModelUsage, SumOf
<1> HIDE DEF used, n
<1>3. ModelUsage(c, 0) = 0
  <2>1. 1..0 = {}
    OBVIOUS
  <2> QED BY <1>2, <2>1, SumEmpty
<1>4. \A k \in 0..n : IsFiniteSet(1..k) /\ \A j \in 1..k : j \in 1..n
  BY <1>1, FS_Interval
<1>5. ASSUME NEW k \in 0..n PROVE ModelUsage(c, k) \in Nat
  BY <1>1, <1>2, <1>4, SumNat
<1>6. ASSUME NEW k \in 1..n
      PROVE  ModelUsage(c, k) = ModelUsage(c, k - 1) + c.steps[k].model
  <2>1. k - 1 \in 0..n /\ 1..k = (1..(k - 1)) \cup {k} /\ k \notin 1..(k - 1) /\ k \in 0..n
    BY <1>1
  <2>2. \A y \in (1..(k - 1)) \cup {k} : used[y] \in Nat
    BY <1>1, <1>4, <2>1
  <2>3. SumOf(used, (1..(k - 1)) \cup {k}) = used[k] + SumOf(used, 1..(k - 1))
    BY <1>4, <2>1, <2>2, SumAdd
  <2>4. ModelUsage(c, k - 1) \in Nat
    BY <1>5, <2>1
  <2>5. ModelUsage(c, k) = used[k] + ModelUsage(c, k - 1)
    BY <1>2, <2>1, <2>3
  <2>6. used[k] \in Nat /\ used[k] = c.steps[k].model
    BY <1>1
  <2> QED BY <2>4, <2>5, <2>6
<1> QED BY <1>3, <1>5, <1>6 DEF n

(* It depends on the usage of the Steps it sums only. *)
LEMMA UsageSame ==
    ASSUME NEW c \in States, NEW d \in States, NEW k \in Nat,
           k <= Len(c.steps), k <= Len(d.steps),
           \A j \in 1..k : d.steps[j].model = c.steps[j].model
    PROVE  ModelUsage(d, k) = ModelUsage(c, k)
<1> DEFINE f == [j \in DOMAIN c.steps |-> c.steps[j].model]
           g == [j \in DOMAIN d.steps |-> d.steps[j].model]
<1>1. DOMAIN c.steps = 1..Len(c.steps) /\ DOMAIN d.steps = 1..Len(d.steps)
  BY Fielded
<1>2. \A j \in 1..k : j \in DOMAIN c.steps /\ j \in DOMAIN d.steps
  BY <1>1, Fielded
<1>3. \A j \in 1..k : f[j] = g[j]
  BY <1>2
<1>4. ModelUsage(c, k) = SumOf(f, 1..k) /\ ModelUsage(d, k) = SumOf(g, 1..k)
  BY DEF ModelUsage, SumOf
<1>5. IsFiniteSet(1..k)
  BY FS_Interval
<1> HIDE DEF f, g
<1> QED BY <1>3, <1>4, <1>5, SumAgree

-----------------------------------------------------------------------------
(* Transcripts. *)

(* A message calls a natural number of tools. *)
LEMMA CallsCounted == \A m \in Message : m.calls \in Nat
  BY LoopAssumption DEF Message

(* A message that is no tool result may follow a transcript with nothing     *)
(* open.                                                                    *)
LEMMA SayWellFormed ==
    ASSUME NEW ms \in Seq(Message), WellFormed(ms), ~Pending(ms),
           NEW m \in Message, m.role # "tool"
    PROVE  /\ WellFormed(Append(ms, m))
           /\ m.calls = 0 => ~Pending(Append(ms, m))
           /\ m.calls > 0 => Pending(Append(ms, m))
<1> DEFINE l == Len(ms)
           ns == Append(ms, m)
<1>1. /\ l \in Nat /\ DOMAIN ms = 1..l /\ DOMAIN ns = 1..(l + 1) /\ Len(ns) = l + 1
      /\ ns[l + 1] = m /\ \A i \in 1..l : ns[i] = ms[i]
  OBVIOUS
<1>2. m.calls \in Nat /\ \A i \in 1..l : ms[i].calls \in Nat
  BY CallsCounted
<1>3. \A a \in 1..l : a + ms[a].calls <= l
  BY <1>1, <1>2 DEF Pending
<1>4. \A i \in 1..l : ms[i].role = "tool" <=> \E a \in 1..(i - 1) : i <= a + ms[a].calls
  BY <1>1 DEF WellFormed
<1> HIDE DEF l, ns
<1>5. ASSUME NEW i \in 1..(l + 1)
      PROVE  ns[i].role = "tool" <=> \E a \in 1..(i - 1) : i <= a + ns[a].calls
  <2>1. \A a \in 1..(i - 1) : a \in 1..l /\ ns[a] = ms[a]
    BY <1>1
  <2>2. CASE i \in 1..l
    BY <1>1, <1>4, <2>1, <2>2
  <2>3. CASE i = l + 1
    <3>1. ASSUME NEW a \in 1..(i - 1) PROVE ~(i <= a + ns[a].calls)
      BY <1>1, <1>2, <1>3, <2>1, <2>3
    <3> QED BY <1>1, <2>3, <3>1
  <2> QED BY <1>1, <2>2, <2>3
<1>6. WellFormed(ns)
  BY <1>1, <1>5 DEF WellFormed
<1>7. ASSUME m.calls = 0, NEW a \in 1..(l + 1) PROVE ~(a + ns[a].calls > l + 1)
  <2>1. CASE a \in 1..l
    BY <1>1, <1>2, <1>3, <2>1
  <2>2. CASE a = l + 1
    BY <1>1, <1>7, <2>2
  <2> QED BY <1>1, <2>1, <2>2
<1>8. m.calls = 0 => ~Pending(ns)
  BY <1>1, <1>7 DEF Pending
<1>9. m.calls > 0 => Pending(ns)
  <2>1. l + 1 \in 1..(l + 1) /\ (m.calls > 0 => l + 1 + m.calls > l + 1)
    BY <1>1, <1>2
  <2> QED BY <1>1, <2>1 DEF Pending
<1> QED BY <1>6, <1>8, <1>9 DEF ns

(* The results of the last response close it. *)
LEMMA ResultsWellFormed ==
    ASSUME NEW ms \in Seq(Message), ms # << >>, WellFormed(ms), Last(ms).role # "tool",
           Last(ms).calls > 0
    PROVE  /\ WellFormed(ms \o Results(Last(ms).calls))
           /\ ~Pending(ms \o Results(Last(ms).calls))
           /\ Last(ms \o Results(Last(ms).calls)).role = "tool"
           /\ ms \o Results(Last(ms).calls) # << >>
<1> DEFINE l == Len(ms)
           n == Last(ms).calls
           ns == ms \o Results(n)
<1>1. l \in Nat /\ l # 0 /\ l - 1 \in Nat /\ DOMAIN ms = 1..l /\ Last(ms) = ms[l] /\ ms[l] \in Message
  BY FrontOf
<1>2. /\ n \in Nat /\ n > 0 /\ n = ms[l].calls /\ ms[l].role # "tool"
      /\ \A i \in 1..l : ms[i].calls \in Nat
  <2>1. \A i \in 1..l : ms[i].calls \in Nat
    BY CallsCounted
  <2>2. n \in Nat
    BY <1>1, CallsCounted
  <2> QED BY <1>1, <2>1, <2>2
<1>3. /\ Results(n) \in Seq(Message) /\ Len(Results(n)) = n
      /\ \A i \in 1..n : Results(n)[i] = Plain("tool")
  BY <1>2, MessagesMade DEF Results
<1>4. /\ ns \in Seq(Message) /\ Len(ns) = l + n /\ DOMAIN ns = 1..(l + n)
      /\ \A i \in 1..l : ns[i] = ms[i]
      /\ \A i \in 1..(l + n) : i > l => ns[i] = Plain("tool")
  <2> HIDE DEF n
  <2>1. Len(ns) = l + n /\ DOMAIN ns = 1..(l + n) /\ ns \in Seq(Message)
    BY <1>2, <1>3
  <2>2. \A i \in 1..l : ns[i] = ms[i]
    BY <1>2, <1>3
  <2>3. ASSUME NEW i \in 1..(l + n), i > l PROVE ns[i] = Plain("tool")
    <3>1. i - l \in 1..n /\ ns[i] = Results(n)[i - l]
      BY <1>1, <1>2, <1>3, <2>3
    <3> QED BY <1>3, <3>1
  <2> QED BY <2>1, <2>2, <2>3
<1>5. \A i \in 1..l : ms[i].role = "tool" <=> \E a \in 1..(i - 1) : i <= a + ms[a].calls
  BY <1>1 DEF WellFormed
<1>6. Plain("tool").role = "tool" /\ Plain("tool").calls = 0
  BY DEF Plain
<1>12. Last(ns) = ns[Len(ns)]
  BY DEF Last
<1> HIDE DEF l, n, ns
<1>7. \A a \in 1..(l - 1) : a + ms[a].calls < l
  <2>1. l \in 1..l /\ \A a \in 1..(l - 1) : a \in 1..l
    BY <1>1
  <2>2. \A a \in 1..(l - 1) : ~(l <= a + ms[a].calls)
    BY <1>2, <1>5, <2>1
  <2> QED BY <1>1, <1>2, <2>1, <2>2
<1>8. ASSUME NEW i \in 1..(l + n)
      PROVE  ns[i].role = "tool" <=> \E a \in 1..(i - 1) : i <= a + ns[a].calls
  <2>1. CASE i \in 1..l
    <3>1. \A a \in 1..(i - 1) : a \in 1..l /\ ns[a] = ms[a]
      BY <1>1, <1>4, <2>1
    <3> QED BY <1>4, <1>5, <2>1, <3>1
  <2>2. CASE i > l
    <3>1. ns[i].role = "tool"
      BY <1>4, <1>6, <2>2
    <3>2. l \in 1..(i - 1) /\ l \in 1..l /\ i <= l + n
      BY <1>1, <1>2, <2>2
    <3> QED BY <1>2, <1>4, <3>1, <3>2
  <2> QED BY <1>1, <1>2, <2>1, <2>2
<1>9. WellFormed(ns)
  BY <1>4, <1>8 DEF WellFormed
<1>10. ASSUME NEW a \in 1..(l + n) PROVE ~(a + ns[a].calls > l + n)
  <2>1. CASE a > l
    BY <1>1, <1>2, <1>4, <1>6, <2>1
  <2>2. CASE a = l
    <3>1. ns[a].calls = n
      BY <1>1, <1>2, <1>4, <2>2
    <3> QED BY <1>1, <1>2, <2>2, <3>1
  <2>3. CASE a < l
    <3>1. a \in 1..(l - 1) /\ a \in 1..l
      BY <1>1, <1>2, <2>3
    <3> QED BY <1>1, <1>2, <1>4, <1>7, <3>1
  <2> QED BY <1>1, <1>2, <2>1, <2>2, <2>3
<1>11. ~Pending(ns)
  BY <1>4, <1>10 DEF Pending
<1>13. Last(ns).role = "tool" /\ ns # << >>
  <2>1. l + n \in 1..(l + n) /\ l + n > l /\ l + n # 0
    BY <1>1, <1>2
  <2> QED BY <1>4, <1>6, <1>12, <2>1
<1> QED BY <1>9, <1>11, <1>13 DEF n, ns

(* What others than the assistant say leaves the assistant's messages. *)
LEMMA OthersSay ==
    ASSUME NEW ms \in Seq(Message), NEW ns \in Seq(Message), \A i \in 1..Len(ns) : ns[i].role # "assistant"
    PROVE  /\ Assistants(ms \o ns) = Assistants(ms)
           /\ \A i \in Assistants(ms) : (ms \o ns)[i] = ms[i]
<1> DEFINE l == Len(ms)
           n == Len(ns)
           os == ms \o ns
<1>1. /\ l \in Nat /\ n \in Nat /\ DOMAIN ms = 1..l /\ DOMAIN os = 1..(l + n)
      /\ \A i \in 1..l : os[i] = ms[i]
  OBVIOUS
<1>2. ASSUME NEW i \in 1..(l + n), i > l PROVE os[i].role # "assistant"
  <2>1. i - l \in 1..n /\ os[i] = ns[i - l]
    BY <1>1, <1>2
  <2> QED BY <2>1
<1> HIDE DEF l, n, os
<1>3. \A i \in 1..l : i \in 1..(l + n)
  BY <1>1
<1>4. \A i \in 1..(l + n) : i > l \/ i \in 1..l
  BY <1>1
<1>5. Assistants(os) = Assistants(ms)
  BY <1>1, <1>2, <1>3, <1>4 DEF Assistants
<1>6. \A i \in Assistants(ms) : os[i] = ms[i]
  BY <1>1 DEF Assistants
<1> QED BY <1>5, <1>6 DEF os

-----------------------------------------------------------------------------
(* Sound books pass ValidateContinuation. *)

(* The types of a Step. *)
LEMMA StepTyped ==
    ASSUME NEW c \in States, NEW k \in 1..Len(c.steps)
    PROVE  /\ c.steps[k] \in Entry
           /\ c.steps[k].model \in Nat /\ c.steps[k].tokens \in Nat /\ c.steps[k].calls \in Nat
           /\ c.steps[k].context \in Nat /\ c.steps[k].traces \in 0..MaxCalls
<1>1. c.steps[k] \in Entry
  BY Fielded
<1> QED BY <1>1 DEF Entry

(* The larger of two. *)
LEMMA MaxOfTwo ==
    ASSUME NEW a \in Int, NEW b \in Int
    PROVE  Max({a, b}) = IF a >= b THEN a ELSE b
<1>1. IsFiniteSet({a, b})
  <2>1. IsFiniteSet({a}) /\ IsFiniteSet({b}) /\ {a, b} = {a} \cup {b}
    BY FS_Singleton
  <2> QED BY <2>1, FS_Union
<1>2. Max({a, b}) \in {a, b} /\ \A y \in {a, b} : Max({a, b}) >= y
  BY <1>1, MaxIs
<1> HIDE DEF Max
<1> QED BY <1>2

(* What ValidateContinuation asks of the tokens of a Step. *)
Least(c, k) ==
    IF k = 1 THEN ModelUsage(c, k) + c.steps[k].context
    ELSE Max({ModelUsage(c, k) + c.steps[k].context, c.steps[k - 1].tokens + c.steps[k].model})

(* A Step that is booked counts at least that, and no more if it is tight. *)
LEMMA LeastReached ==
    ASSUME NEW c \in States, NEW k \in 1..Len(c.steps), RowOf(c, k)
    PROVE  /\ c.steps[k].tokens >= Least(c, k)
           /\ TightRow(c, k) => c.steps[k].tokens = Least(c, k)
<1>1. ModelUsage(c, k) \in Nat
  <2>1. k \in 0..Len(c.steps)
    BY Fielded
  <2> QED BY <2>1, UsageGrows
<1>2. c.steps[k].context \in Nat /\ c.steps[k].model \in Nat /\ c.steps[k].tokens \in Nat
  BY StepTyped
<1>3. CASE k = 1
  BY <1>1, <1>2, <1>3 DEF RowOf, TightRow, Least
<1>4. CASE k # 1
  <2> DEFINE a == ModelUsage(c, k) + c.steps[k].context
             b == c.steps[k - 1].tokens + c.steps[k].model
  <2>1. k - 1 \in 1..Len(c.steps) /\ k > 1
    BY <1>4, Fielded
  <2>2. c.steps[k - 1].tokens \in Nat
    BY <2>1, StepTyped
  <2>3. a \in Int /\ b \in Int
    BY <1>1, <1>2, <2>2
  <2>4. c.steps[k].tokens >= a /\ c.steps[k].tokens >= b
    BY <2>1 DEF RowOf
  <2>5. TightRow(c, k) => c.steps[k].tokens = a \/ c.steps[k].tokens = b
    BY DEF TightRow
  <2>6. Least(c, k) = Max({a, b})
    BY <1>4 DEF Least
  <2> HIDE DEF a, b
  <2>7. Least(c, k) = IF a >= b THEN a ELSE b
    BY <2>3, <2>6, MaxOfTwo
  <2> QED BY <1>2, <2>3, <2>4, <2>5, <2>7
<1> QED BY <1>3, <1>4

(* validateContinuationSteps: with what the phase asks of the latest Step. *)
LEMMA StepsPass ==
    ASSUME NEW c \in States, Account(c), Exact(c), NEW phase,
           c.steps # << >> =>
               LET n == Len(c.steps)
               IN  IF phase = "model_complete"
                   THEN /\ Latest(c).traces = 0 /\ Latest(c).decision = "continue"
                        /\ Latest(c).calls = CallsBefore(c, n) /\ TightRow(c, n)
                   ELSE ClosedRow(c, n)
    PROVE  StepsValid(c, phase) /\ TotalsValid(c, phase)
<1> DEFINE n == Len(c.steps)
<1>1. n \in Nat /\ DOMAIN c.steps = 1..n /\ (c.steps # << >> <=> n # 0) /\ (n # 0 => n \in 1..n)
      /\ Latest(c) = c.steps[n] /\ c.context \in Nat
  BY Fielded DEF Latest
<1>2. Cardinality(Assistants(c.messages)) >= n
  BY SaidTyped DEF Account
<1>3. ASSUME NEW k \in 1..n
      PROVE  c.steps[k].calls = CompletedToolCalls(c, phase, k)
  <2>1. k # 0 /\ c.steps[k].calls \in Nat
    BY StepTyped
  <2>2. StepMessage(c, k).calls \in Nat
    BY SaidTyped, CallsCounted DEF Account
  <2>3. CallsBefore(c, k) \in Nat
    <3>1. CASE k = 1
      BY <3>1 DEF CallsBefore
    <3>2. CASE k # 1
      <4>1. k - 1 \in 1..n
        BY <1>1, <3>2
      <4> QED BY <3>2, <4>1, StepTyped DEF CallsBefore
    <3> QED BY <3>1, <3>2
  <2>4. CompletedToolCalls(c, phase, k)
          = CallsBefore(c, k) + (IF phase = "model_complete" /\ k = n THEN 0 ELSE StepMessage(c, k).calls)
    BY <2>1 DEF CompletedToolCalls, CallsBefore
  <2>5. CASE phase = "model_complete" /\ k = n
    BY <1>1, <2>3, <2>4, <2>5
  <2>6. CASE ~(phase = "model_complete" /\ k = n)
    <3>1. ClosedRow(c, k)
      BY <1>1, <2>6 DEF Account
    <3> QED BY <2>4, <2>6, <3>1 DEF ClosedRow
  <2> QED BY <2>5, <2>6
<1>4. ASSUME NEW k \in 1..n
      PROVE  LET s == c.steps[k]
                 m == StepMessage(c, k)
                 open == phase = "model_complete" /\ k = n
             IN  /\ k > 1 => s.context >= c.steps[k - 1].context
                 /\ k < n => s.decision = "continue"
                 /\ m.calls > 0 => m.op = c.opTurn - n + k - 1
                 /\ IF open THEN s.traces = 0 /\ s.decision = "continue" ELSE s.traces = m.calls
                 /\ IF open \/ m.calls = 0 THEN s.tokens = Least(c, k) ELSE s.tokens >= Least(c, k)
  <2>1. RowOf(c, k) /\ (k # n => ClosedRow(c, k) /\ c.steps[k].decision = "continue")
    BY DEF Account
  <2>2. /\ k > 1 => c.steps[k].context >= c.steps[k - 1].context
        /\ StepMessage(c, k).calls > 0 => StepMessage(c, k).op = c.opTurn - n + k - 1
    BY <2>1 DEF RowOf
  <2>3. k < n => c.steps[k].decision = "continue"
    BY <1>1, <2>1
  <2>4. IF phase = "model_complete" /\ k = n
        THEN c.steps[k].traces = 0 /\ c.steps[k].decision = "continue"
        ELSE c.steps[k].traces = StepMessage(c, k).calls
    BY <1>1, <2>1 DEF ClosedRow
  <2>5. /\ c.steps[k].tokens >= Least(c, k)
        /\ TightRow(c, k) => c.steps[k].tokens = Least(c, k)
    BY <2>1, LeastReached
  <2>6. /\ StepMessage(c, k).calls = 0 => TightRow(c, k)
        /\ phase = "model_complete" /\ k = n => TightRow(c, k)
    BY <1>1 DEF Exact
  <2> HIDE DEF n
  <2> QED BY <2>2, <2>3, <2>4, <2>5, <2>6
<1>5. StepsValid(c, phase)
  <2>1. c.opTurn >= n
    BY DEF Account
  <2> QED BY <1>1, <1>2, <1>3, <1>4, <2>1 DEF StepsValid, Least
<1>6. c.toolCallsUsed = CompletedToolCalls(c, phase, n)
  <2>1. CASE n = 0
    BY <2>1 DEF CompletedToolCalls, Account, Totals
  <2>2. CASE n # 0
    BY <1>1, <1>3, <2>2 DEF Account, Totals
  <2> QED BY <2>1, <2>2
<1>7. /\ c.usage = IF n = 0 THEN c.context ELSE Latest(c).tokens
      /\ n > 0 => c.context >= Latest(c).context
      /\ c.usage >= ModelUsage(c, n) + c.context
  <2>1. CASE n = 0
    <3>1. c.usage = c.context /\ ModelUsage(c, n) = 0
      BY <2>1, UsageGrows DEF Account, Totals
    <3> QED BY <1>1, <2>1, <3>1
  <2>2. CASE n # 0
    <3>1. c.usage = Latest(c).tokens /\ c.context = Latest(c).context
      BY <2>2 DEF Account, Totals
    <3>2. Latest(c).tokens >= ModelUsage(c, n) + Latest(c).context
      BY <1>1, <2>2 DEF Account, RowOf
    <3> QED BY <1>1, <2>2, <3>1, <3>2
  <2> QED BY <2>1, <2>2
<1>8. TotalsValid(c, phase)
  BY <1>6, <1>7 DEF TotalsValid, Account
<1> QED BY <1>5, <1>8

(* A state with nothing open is valid in every phase but model_complete that *)
(* its latest Step and message allow.                                       *)
LEMMA ClosedValid ==
    ASSUME NEW c \in States, Account(c), Exact(c), Closed(c),
           NEW phase \in {"ready", "tools_complete", "validating_output"},
           PhaseTranscript(c.messages, phase), PhaseSteps(c, phase)
    PROVE  ValidateContinuation(c, phase)
<1>1. StepsValid(c, phase) /\ TotalsValid(c, phase)
  <2>1. phase # "model_complete" /\ (c.steps # << >> => ClosedRow(c, Len(c.steps)))
    BY DEF Closed
  <2> QED BY <2>1, StepsPass
<1> QED BY <1>1 DEF ValidateContinuation, Account

(* So is one whose latest response waits for its tools. *)
LEMMA OpenValid ==
    ASSUME NEW c \in States, Account(c), Exact(c), Open(c), Pending(c.messages),
           Latest(c).traces = 0, Latest(c).decision = "continue", TightRow(c, Len(c.steps))
    PROVE  ValidateContinuation(c, "model_complete")
<1>1. StepsValid(c, "model_complete") /\ TotalsValid(c, "model_complete")
  BY StepsPass DEF Open
<1>2. PhaseTranscript(c.messages, "model_complete") /\ PhaseSteps(c, "model_complete")
  BY DEF PhaseTranscript, PhaseSteps, Open
<1> QED BY <1>1, <1>2 DEF ValidateContinuation, Account

-----------------------------------------------------------------------------
(* What a change of the state leaves of the books. *)

(* Both states count the same in the Steps up to k. *)
SameRows(c, d, k) ==
    \A j \in 1..k :
        /\ d.steps[j].model = c.steps[j].model
        /\ d.steps[j].tokens = c.steps[j].tokens
        /\ d.steps[j].calls = c.steps[j].calls
        /\ d.steps[j].context = c.steps[j].context

(* A Step that counts the same, after Steps that do, is booked the same. *)
LEMMA RowKept ==
    ASSUME NEW c \in States, NEW d \in States, NEW k \in 1..Len(c.steps), k <= Len(d.steps),
           SameRows(c, d, k), StepMessage(d, k) = StepMessage(c, k),
           d.opTurn - Len(d.steps) = c.opTurn - Len(c.steps)
    PROVE  /\ RowOf(c, k) => RowOf(d, k)
           /\ TightRow(c, k) => TightRow(d, k)
           /\ CallsBefore(d, k) = CallsBefore(c, k)
           /\ ClosedRow(c, k) /\ d.steps[k].traces = c.steps[k].traces => ClosedRow(d, k)
<1>1. k \in Nat /\ k \in 1..k /\ (k > 1 => k - 1 \in 1..k) /\ k <= Len(c.steps) /\ (k # 1 => k > 1)
  BY Fielded
<1>2. ModelUsage(d, k) = ModelUsage(c, k)
  BY <1>1, UsageSame DEF SameRows
<1>3. /\ d.steps[k].model = c.steps[k].model
      /\ d.steps[k].tokens = c.steps[k].tokens
      /\ d.steps[k].calls = c.steps[k].calls
      /\ d.steps[k].context = c.steps[k].context
  BY <1>1 DEF SameRows
<1>4. k > 1 => /\ d.steps[k - 1].tokens = c.steps[k - 1].tokens
               /\ d.steps[k - 1].calls = c.steps[k - 1].calls
               /\ d.steps[k - 1].context = c.steps[k - 1].context
  BY <1>1 DEF SameRows
<1>5. RowOf(c, k) => RowOf(d, k)
  BY <1>2, <1>3, <1>4 DEF RowOf
<1>6. TightRow(c, k) => TightRow(d, k)
  BY <1>2, <1>3, <1>4 DEF TightRow
<1>7. CallsBefore(d, k) = CallsBefore(c, k)
  BY <1>1, <1>4 DEF CallsBefore
<1>8. ClosedRow(c, k) /\ d.steps[k].traces = c.steps[k].traces => ClosedRow(d, k)
  BY <1>3, <1>7 DEF ClosedRow
<1> QED BY <1>5, <1>6, <1>7, <1>8

(* A late summary stays one. *)
LEMMA LateKept ==
    ASSUME NEW c \in States, NEW d \in States, Len(d.steps) >= Len(c.steps),
           \A k \in 1..Len(c.steps) :
               /\ d.steps[k].model = c.steps[k].model
               /\ d.steps[k].context >= c.steps[k].context
               /\ k # Len(c.steps) => /\ d.steps[k].tokens = c.steps[k].tokens
                                      /\ d.steps[k].context = c.steps[k].context,
           LateSummary(c)
    PROVE  LateSummary(d)
<1>1. PICK k \in 2..Len(c.steps) :
        /\ c.steps[k].context > c.steps[k - 1].context
        /\ c.steps[k - 1].tokens > ModelUsage(c, k - 1) + c.steps[k - 1].context
  BY DEF LateSummary
<1>2. /\ k \in 1..Len(c.steps) /\ k - 1 \in 1..Len(c.steps) /\ k - 1 # Len(c.steps)
      /\ k \in 2..Len(d.steps) /\ k - 1 \in Nat /\ k - 1 <= Len(c.steps) /\ k - 1 <= Len(d.steps)
      /\ \A j \in 1..(k - 1) : j \in 1..Len(c.steps)
      /\ k \in 1..Len(d.steps)
  BY Fielded
<1>3. ModelUsage(d, k - 1) = ModelUsage(c, k - 1)
  BY <1>2, UsageSame
<1>4. /\ d.steps[k - 1].tokens = c.steps[k - 1].tokens
      /\ d.steps[k - 1].context = c.steps[k - 1].context
      /\ d.steps[k].context >= c.steps[k].context
  BY <1>2
<1>5. d.steps[k].context \in Nat /\ c.steps[k].context \in Nat /\ c.steps[k - 1].context \in Nat
  BY <1>2, StepTyped
<1>6. d.steps[k].context > d.steps[k - 1].context
  BY <1>1, <1>4, <1>5
<1> QED BY <1>1, <1>2, <1>3, <1>4, <1>6 DEF LateSummary

-----------------------------------------------------------------------------
(* Words of others, decisions and observations. *)

(* d counts what c does, and the assistant's messages are the same. *)
Kin(c, d) ==
    /\ Assistants(d.messages) = Assistants(c.messages)
    /\ \A i \in Assistants(c.messages) : d.messages[i] = c.messages[i]
    /\ Len(d.steps) = Len(c.steps)
    /\ SameRows(c, d, Len(c.steps))
    /\ \A k \in 1..Len(c.steps) : k # Len(c.steps) =>
          d.steps[k].traces = c.steps[k].traces /\ d.steps[k].decision = c.steps[k].decision
    /\ d.usage = c.usage /\ d.context = c.context
    /\ d.toolCallsUsed = c.toolCallsUsed /\ d.opTurn = c.opTurn

(* Books that are sound stay so. *)
LEMMA KinSound ==
    ASSUME NEW c \in States, NEW d \in States, Sound(c), Kin(c, d), WellFormed(d.messages)
    PROVE  /\ Sound(d)
           /\ \A k \in 1..Len(c.steps) :
                 /\ StepMessage(d, k) = StepMessage(c, k)
                 /\ CallsBefore(d, k) = CallsBefore(c, k)
<1> DEFINE n == Len(c.steps)
<1>1. n \in Nat /\ Len(d.steps) = n /\ \A k \in 1..n : \A j \in 1..k : j \in 1..n
  BY Fielded DEF Kin
<1>2. Placed(d) /\ \A k \in 1..n : StepMessage(d, k) = StepMessage(c, k)
  BY SaidSame DEF Kin, Sound, Account
<1>3. ASSUME NEW k \in 1..n
      PROVE  /\ RowOf(c, k) => RowOf(d, k)
             /\ TightRow(c, k) => TightRow(d, k)
             /\ CallsBefore(d, k) = CallsBefore(c, k)
             /\ ClosedRow(c, k) /\ d.steps[k].traces = c.steps[k].traces => ClosedRow(d, k)
  <2>1. SameRows(c, d, k) /\ k <= Len(d.steps) /\ d.opTurn - Len(d.steps) = c.opTurn - Len(c.steps)
    BY <1>1 DEF Kin, SameRows
  <2> QED BY <1>2, <2>1, RowKept
<1>4. Totals(d)
  <2>1. n # 0 => n \in 1..n
    BY <1>1
  <2>2. n # 0 => /\ d.steps[n].tokens = c.steps[n].tokens
                 /\ d.steps[n].context = c.steps[n].context
                 /\ d.steps[n].calls = c.steps[n].calls
    BY <2>1 DEF Kin, SameRows
  <2>3. Totals(c)
    BY DEF Sound, Account
  <2> QED BY <1>1, <2>2, <2>3 DEF Totals, Latest, Kin
<1>5. Account(d)
  <2>1. d.opTurn >= n
    BY DEF Sound, Account, Kin
  <2>2. \A a \in Assistants(d.messages) : d.messages[a].op < d.opTurn
    BY DEF Sound, Account, Kin
  <2>3. \A k \in 1..n : RowOf(d, k)
    BY <1>3 DEF Sound, Account
  <2>4. \A k \in 1..n : k # n => ClosedRow(d, k) /\ d.steps[k].decision = "continue"
    BY <1>3 DEF Sound, Account, Kin
  <2> QED BY <1>1, <1>2, <1>4, <2>1, <2>2, <2>3, <2>4 DEF Account
<1>6. Exact(c) => Exact(d)
  BY <1>1, <1>2, <1>3 DEF Exact
<1>7. LateSummary(c) => LateSummary(d)
  <2>1. \A k \in 1..n : d.steps[k].context >= c.steps[k].context
    BY StepTyped DEF Kin, SameRows
  <2> QED BY <1>1, <2>1, LateKept DEF Kin, SameRows
<1> QED BY <1>2, <1>3, <1>5, <1>6, <1>7 DEF Sound

(* Nothing opens when the latest Step keeps its traces. *)
LEMMA KinClosed ==
    ASSUME NEW c \in States, NEW d \in States, Sound(c), Kin(c, d), WellFormed(d.messages),
           Closed(c), ~Pending(d.messages),
           c.steps # << >> => Latest(d).traces = Latest(c).traces
    PROVE  Closed(d)
<1> DEFINE n == Len(c.steps)
<1>1. n \in Nat /\ Len(d.steps) = n /\ (d.steps # << >> => c.steps # << >>)
      /\ (c.steps # << >> => n \in 1..n)
  BY Fielded DEF Kin
<1>2. ASSUME c.steps # << >> PROVE ClosedRow(d, n)
  <2>1. n \in 1..n
    BY <1>1, <1>2
  <2>2. StepMessage(d, n) = StepMessage(c, n) /\ CallsBefore(d, n) = CallsBefore(c, n)
    BY <2>1, KinSound
  <2>3. d.steps[n].calls = c.steps[n].calls /\ d.steps[n].traces = c.steps[n].traces
    BY <1>1, <1>2, <2>1 DEF Kin, SameRows, Latest
  <2>4. ClosedRow(c, n)
    BY <1>2 DEF Closed
  <2> QED BY <2>2, <2>3, <2>4 DEF ClosedRow
<1> QED BY <1>1, <1>2 DEF Closed

-----------------------------------------------------------------------------
(* Summaries. *)

(* d is c with the usage x of a summary. *)
Raised(c, d, x) ==
    /\ d.messages = c.messages
    /\ Len(d.steps) = Len(c.steps)
    /\ d.usage = c.usage + x /\ d.context = c.context + x
    /\ d.toolCallsUsed = c.toolCallsUsed /\ d.opTurn = c.opTurn
    /\ \A k \in 1..Len(c.steps) :
          /\ d.steps[k].model = c.steps[k].model
          /\ d.steps[k].calls = c.steps[k].calls
          /\ d.steps[k].traces = c.steps[k].traces
          /\ d.steps[k].decision = c.steps[k].decision
          /\ d.steps[k].tokens = IF k = Len(c.steps) THEN c.steps[k].tokens + x ELSE c.steps[k].tokens
          /\ d.steps[k].context = IF k = Len(c.steps) THEN c.steps[k].context + x ELSE c.steps[k].context

(* A summary raises the totals and the latest Step. *)
LEMMA SummarisedRaises ==
    ASSUME NEW c \in States, Totals(c), NEW x \in Nat
    PROVE  Summarised(c, x) \in States /\ Raised(c, Summarised(c, x), x)
<1> DEFINE n == Len(c.steps)
           u == c.usage + x
           v == c.context + x
           d == [c EXCEPT !.usage = @ + x, !.context = @ + x]
<1>1. /\ c.steps \in Seq(Entry) /\ n \in Nat /\ DOMAIN c.steps = 1..n /\ (c.steps # << >> <=> n # 0)
      /\ \A k \in 1..n : c.steps[k] \in Entry
      /\ c.usage \in Nat /\ c.context \in Nat /\ u \in Nat /\ v \in Nat
  BY Fielded
<1>2. /\ d \in States /\ d.messages = c.messages /\ d.steps = c.steps /\ d.usage = u
      /\ d.context = v /\ d.toolCallsUsed = c.toolCallsUsed /\ d.opTurn = c.opTurn
  BY <1>1 DEF States
<1>3. Summarised(c, x) \in States
  BY SummarisedGrows DEF Grows
<1> HIDE DEF d
<1>4. CASE x = 0 \/ c.steps = << >>
  <2>1. Summarised(c, x) = d
    BY <1>4 DEF Summarised, d
  <2>2. \A k \in 1..n : x = 0 /\ c.steps[k].tokens + x = c.steps[k].tokens
                        /\ c.steps[k].context + x = c.steps[k].context
    <3>1. \A k \in 1..n : n # 0
      BY <1>1
    <3>2. \A k \in 1..n : x = 0
      BY <1>1, <1>4, <3>1
    <3> QED BY <3>2, StepTyped
  <2> QED BY <1>2, <1>3, <2>1, <2>2 DEF Raised
<1>5. CASE ~(x = 0 \/ c.steps = << >>)
  <2> DEFINE s == [Latest(d) EXCEPT !.tokens = d.usage, !.context = d.context]
             ss == [c.steps EXCEPT ![n] = s]
  <2>1. n \in 1..n /\ Latest(d) = c.steps[n] /\ Latest(d) \in Entry
    BY <1>1, <1>2, <1>5 DEF Latest
  <2>2. /\ s.model = c.steps[n].model /\ s.calls = c.steps[n].calls
        /\ s.traces = c.steps[n].traces /\ s.decision = c.steps[n].decision
        /\ s.tokens = u /\ s.context = v
    BY <1>2, <2>1 DEF Entry
  <2>3. Summarised(c, x) = WithLatest(d, s)
    BY <1>5 DEF Summarised, d
  <2> HIDE DEF s
  <2>4. WithLatest(d, s) = [d EXCEPT !.steps = ss]
    BY <1>2 DEF WithLatest
  <2>5. Len(ss) = n /\ ss[n] = s /\ \A k \in 1..n : k # n => ss[k] = c.steps[k]
    BY <1>1, <2>1
  <2> HIDE DEF ss
  <2>6. /\ WithLatest(d, s).messages = c.messages /\ WithLatest(d, s).steps = ss
        /\ WithLatest(d, s).usage = u /\ WithLatest(d, s).context = v
        /\ WithLatest(d, s).toolCallsUsed = c.toolCallsUsed /\ WithLatest(d, s).opTurn = c.opTurn
    BY <1>2, <2>4 DEF States
  <2>7. c.steps[n].tokens + x = u /\ c.steps[n].context + x = v
    BY <1>1, <2>1 DEF Totals, Latest
  <2> QED BY <1>3, <2>2, <2>3, <2>5, <2>6, <2>7 DEF Raised
<1> QED BY <1>4, <1>5

(* A summary that is counted late, after usage of children, shows; any other *)
(* leaves the latest Step exact.                                            *)
LEMMA RaisedSound ==
    ASSUME NEW c \in States, NEW d \in States, NEW x \in Nat, Sound(c), Raised(c, d, x)
    PROVE  Sound(d) /\ (Closed(c) => Closed(d))
<1> DEFINE n == Len(c.steps)
<1>1. /\ n \in Nat /\ Len(d.steps) = n /\ \A k \in 1..n : k # n => \A j \in 1..k : j \in 1..n /\ j # n
      /\ d.messages = c.messages
  BY Fielded DEF Raised
<1>2. Placed(d) /\ \A k \in 1..n : StepMessage(d, k) = StepMessage(c, k)
  BY <1>1, SaidSame DEF Sound, Account
<1>3. ASSUME NEW k \in 1..n, k # n
      PROVE  /\ RowOf(c, k) => RowOf(d, k)
             /\ TightRow(c, k) => TightRow(d, k)
             /\ ClosedRow(c, k) => ClosedRow(d, k)
  <2>1. SameRows(c, d, k) /\ k <= Len(d.steps) /\ d.opTurn - Len(d.steps) = c.opTurn - Len(c.steps)
    BY <1>1, <1>3 DEF Raised, SameRows
  <2>2. d.steps[k].traces = c.steps[k].traces
    BY DEF Raised
  <2> QED BY <1>2, <2>1, <2>2, RowKept
<1>4. Totals(d)
  <2>1. n # 0 => n \in 1..n
    BY <1>1
  <2>2. n # 0 => /\ d.steps[n].tokens = c.steps[n].tokens + x
                 /\ d.steps[n].context = c.steps[n].context + x
                 /\ d.steps[n].calls = c.steps[n].calls
    BY <2>1 DEF Raised
  <2>3. Totals(c)
    BY DEF Sound, Account
  <2> QED BY <1>1, <2>2, <2>3 DEF Totals, Latest, Raised
<1>5. ASSUME n # 0
      PROVE  /\ RowOf(d, n)
             /\ TightRow(c, n) => TightRow(d, n) \/ LateSummary(d)
             /\ ClosedRow(c, n) => ClosedRow(d, n)
  <2>1. n \in 1..n /\ n \in Nat /\ n - 1 \in Nat /\ (n > 1 => n - 1 \in 1..n /\ n - 1 # n) /\ n >= 1
    BY <1>1, <1>5
  <2>2. /\ d.steps[n].model = c.steps[n].model /\ d.steps[n].calls = c.steps[n].calls
        /\ d.steps[n].traces = c.steps[n].traces
        /\ d.steps[n].tokens = c.steps[n].tokens + x
        /\ d.steps[n].context = c.steps[n].context + x
    BY <2>1 DEF Raised
  <2>3. n > 1 => /\ d.steps[n - 1].tokens = c.steps[n - 1].tokens
                 /\ d.steps[n - 1].calls = c.steps[n - 1].calls
                 /\ d.steps[n - 1].context = c.steps[n - 1].context
    BY <2>1 DEF Raised
  <2>4. /\ c.steps[n].model \in Nat /\ c.steps[n].tokens \in Nat /\ c.steps[n].context \in Nat
        /\ n > 1 => c.steps[n - 1].tokens \in Nat /\ c.steps[n - 1].context \in Nat
    BY <2>1, StepTyped
  <2>5. /\ ModelUsage(c, n) \in Nat /\ ModelUsage(c, n - 1) \in Nat
        /\ ModelUsage(c, n) = ModelUsage(c, n - 1) + c.steps[n].model
    <3>1. n \in 0..n /\ n - 1 \in 0..n
      BY <2>1
    <3> QED BY <2>1, <3>1, UsageGrows
  <2>6. ModelUsage(d, n) = ModelUsage(c, n) /\ ModelUsage(d, n - 1) = ModelUsage(c, n - 1)
    <3>1. n <= n /\ n - 1 <= n /\ \A j \in 1..(n - 1) : j \in 1..n
      BY <2>1
    <3>2. \A j \in 1..n : d.steps[j].model = c.steps[j].model
      BY DEF Raised
    <3> QED BY <1>1, <2>1, <3>1, <3>2, UsageSame
  <2>7. RowOf(c, n)
    BY <2>1 DEF Sound, Account
  <2>8. StepMessage(d, n) = StepMessage(c, n) /\ d.opTurn = c.opTurn
    BY <1>2, <2>1 DEF Raised
  <2>9. RowOf(d, n)
    <3>1. /\ c.steps[n].tokens >= ModelUsage(c, n) + c.steps[n].context
          /\ n > 1 => /\ c.steps[n].tokens >= c.steps[n - 1].tokens + c.steps[n].model
                      /\ c.steps[n].context >= c.steps[n - 1].context
      BY <2>7 DEF RowOf
    <3>2. StepMessage(c, n).calls > 0 => StepMessage(c, n).op = c.opTurn - n + n - 1
      BY <2>7 DEF RowOf
    <3> HIDE DEF n
    <3>3. d.steps[n].tokens >= ModelUsage(d, n) + d.steps[n].context
      <4>1. \A t, k, u, y \in Nat : t >= u + k => t + y >= u + (k + y)
        OBVIOUS
      <4> QED BY <2>2, <2>4, <2>5, <2>6, <3>1, <4>1
    <3>4. n > 1 => /\ d.steps[n].tokens >= d.steps[n - 1].tokens + d.steps[n].model
                   /\ d.steps[n].context >= d.steps[n - 1].context
      <4>1. \A t, k, u, y \in Nat : (t >= u + k => t + y >= u + k) /\ (t >= u => t + y >= u)
        OBVIOUS
      <4> QED BY <2>2, <2>3, <2>4, <3>1, <4>1
    <3> QED BY <1>1, <2>8, <3>2, <3>3, <3>4 DEF RowOf
  <2>10. ASSUME TightRow(c, n) PROVE TightRow(d, n) \/ LateSummary(d)
    <3>1. CASE c.steps[n].tokens = ModelUsage(c, n) + c.steps[n].context
      BY <2>2, <2>4, <2>5, <2>6, <3>1 DEF TightRow
    <3>2. CASE c.steps[n].tokens # ModelUsage(c, n) + c.steps[n].context /\ x = 0
      <4>1. n > 1 /\ c.steps[n].tokens = c.steps[n - 1].tokens + c.steps[n].model
        BY <2>10, <3>2 DEF TightRow
      <4>2. d.steps[n].tokens = c.steps[n].tokens
        BY <2>2, <2>4, <3>2
      <4> QED BY <2>2, <2>3, <4>1, <4>2 DEF TightRow
    <3>3. CASE c.steps[n].tokens # ModelUsage(c, n) + c.steps[n].context /\ x # 0
      <4>1. n > 1 /\ c.steps[n].tokens = c.steps[n - 1].tokens + c.steps[n].model
        BY <2>10, <3>3 DEF TightRow
      <4>6. /\ c.steps[n].tokens >= ModelUsage(c, n) + c.steps[n].context
            /\ c.steps[n].context >= c.steps[n - 1].context
        BY <2>7, <4>1 DEF RowOf
      <4>7. \A t, u, v, w, m, y \in Nat :
                /\ t >= u + v /\ t # u + v /\ t = w + m /\ u = y + m
                => \A z \in Nat : v >= z => w > y + z
        OBVIOUS
      <4>2. c.steps[n].context >= c.steps[n - 1].context
        BY <4>6
      <4>3. c.steps[n - 1].tokens > ModelUsage(c, n - 1) + c.steps[n - 1].context
        <5> HIDE DEF n
        <5> QED BY <2>4, <2>5, <3>3, <4>1, <4>6, <4>7
      <4>4. d.steps[n].context > d.steps[n - 1].context
        BY <2>2, <2>3, <2>4, <3>3, <4>1, <4>2
      <4>5. n \in 2..Len(d.steps)
        BY <1>1, <2>1, <4>1
      <4> QED BY <2>3, <2>6, <4>1, <4>3, <4>4, <4>5 DEF LateSummary
    <3> QED BY <3>1, <3>2, <3>3
  <2>11. ASSUME ClosedRow(c, n) PROVE ClosedRow(d, n)
    <3>1. CallsBefore(d, n) = CallsBefore(c, n)
      <4>2. n \in Nat /\ n >= 1
        BY <2>1
      <4> HIDE DEF n
      <4>1. n # 1 => n > 1
        BY <4>2
      <4> QED BY <2>3, <4>1 DEF CallsBefore
    <3> QED BY <2>2, <2>8, <2>11, <3>1 DEF ClosedRow
  <2> QED BY <2>9, <2>10, <2>11
<1>6. Account(d)
  <2>1. d.opTurn >= n /\ WellFormed(d.messages)
    BY <1>1 DEF Sound, Account, Raised
  <2>2. \A a \in Assistants(d.messages) : d.messages[a].op < d.opTurn
    BY <1>1 DEF Sound, Account, Raised
  <2>3. \A k \in 1..n : RowOf(d, k)
    <3> SUFFICES ASSUME NEW k \in 1..n PROVE RowOf(d, k)
      OBVIOUS
    <3>1. RowOf(c, k) /\ n # 0
      BY <1>1 DEF Sound, Account
    <3> QED BY <1>3, <1>5, <3>1
  <2>4. \A k \in 1..n : k # n => ClosedRow(d, k) /\ d.steps[k].decision = "continue"
    BY <1>3 DEF Sound, Account, Raised
  <2> QED BY <1>1, <1>2, <1>4, <2>1, <2>2, <2>3, <2>4 DEF Account
<1>7. Exact(c) => Exact(d) \/ LateSummary(d)
  <2> SUFFICES ASSUME Exact(c), ~LateSummary(d), NEW k \in 1..n, StepMessage(d, k).calls = 0
               PROVE  TightRow(d, k)
    BY <1>1 DEF Exact
  <2>1. TightRow(c, k) /\ n # 0
    BY <1>1, <1>2 DEF Exact
  <2> QED BY <1>3, <1>5, <2>1
<1>8. LateSummary(c) => LateSummary(d)
  <2>1. \A k \in 1..n : d.steps[k].context >= c.steps[k].context
    BY StepTyped DEF Raised
  <2> QED BY <1>1, <2>1, LateKept DEF Raised
<1>9. Closed(c) => Closed(d)
  <2>1. c.steps # << >> => n # 0
    BY Fielded
  <2>2. d.steps # << >> => c.steps # << >>
    BY <1>1, Fielded
  <2> QED BY <1>1, <1>5, <2>1, <2>2 DEF Closed
<1> QED BY <1>6, <1>7, <1>8, <1>9 DEF Sound

-----------------------------------------------------------------------------
(* A turn recorded. *)

(* d is c with the message m and a Step of usage t. *)
Noted(c, d, m, t) ==
    /\ d.messages = Append(c.messages, m)
    /\ Len(d.steps) = Len(c.steps) + 1
    /\ \A k \in 1..Len(c.steps) : d.steps[k] = c.steps[k]
    /\ Latest(d).model = t /\ Latest(d).tokens = c.usage + t
    /\ Latest(d).calls = c.toolCallsUsed /\ Latest(d).context = c.context
    /\ Latest(d).traces = 0
    /\ d.usage = c.usage + t /\ d.context = c.context
    /\ d.toolCallsUsed = c.toolCallsUsed /\ d.opTurn = c.opTurn + 1

(* The next turn may begin. *)
Ready(c) == Sound(c) /\ Standing("top", c)

(* The new Step is tight: it counts what the run has used, and its turn.     *)
LEMMA NotedRow ==
    ASSUME NEW c \in States, NEW d \in States, NEW m, NEW t \in Nat, Account(c), Noted(c, d, m, t),
           StepMessage(d, Len(d.steps)) = m, m.calls > 0 => m.op = c.opTurn
    PROVE  /\ RowOf(d, Len(d.steps)) /\ TightRow(d, Len(d.steps))
           /\ Latest(d).calls = CallsBefore(d, Len(d.steps))
<1> DEFINE n == Len(c.steps)
           N == Len(d.steps)
<1>1. /\ n \in Nat /\ N = n + 1 /\ N \in 1..N /\ N - 1 = n /\ N \in Nat /\ (n # 0 => n \in 1..n /\ N > 1 /\ N # 1)
      /\ c.usage \in Nat /\ c.context \in Nat /\ c.opTurn \in Nat
  <2>1. c.usage \in Nat /\ c.context \in Nat /\ c.opTurn \in Nat /\ n \in Nat
    BY Fielded
  <2>2. N = n + 1
    BY DEF Noted
  <2> HIDE DEF n, N
  <2>3. N \in 1..N /\ N - 1 = n /\ N \in Nat
    BY <2>1, <2>2
  <2>4. n # 0 => n \in 1..n /\ N > 1 /\ N # 1
    BY <2>1, <2>2
  <2> QED BY <2>1, <2>2, <2>3, <2>4
<1>2. /\ d.steps[N].model = t /\ d.steps[N].tokens = c.usage + t
      /\ d.steps[N].calls = c.toolCallsUsed /\ d.steps[N].context = c.context
  BY DEF Noted, Latest
<1>3. ModelUsage(d, N) = ModelUsage(c, n) + t /\ ModelUsage(c, n) \in Nat
  <2>1. ModelUsage(d, N) = ModelUsage(d, N - 1) + t
    BY <1>1, <1>2, UsageGrows
  <2>2. n <= n /\ n <= N /\ n \in 0..n
    BY <1>1
  <2>3. ModelUsage(d, n) = ModelUsage(c, n)
    BY <1>1, <2>2, UsageSame DEF Noted
  <2>4. ModelUsage(c, n) \in Nat
    BY <2>2, UsageGrows
  <2> QED BY <1>1, <2>1, <2>3, <2>4
<1>4. d.opTurn - N + N - 1 = c.opTurn
  <2>1. d.opTurn = c.opTurn + 1
    BY DEF Noted
  <2> HIDE DEF N
  <2> QED BY <1>1, <2>1
<1>5. CASE n = 0
  <2>1. c.usage = c.context /\ c.toolCallsUsed = 0 /\ ModelUsage(c, n) = 0
    BY <1>5, UsageGrows DEF Account, Totals
  <2>2. d.steps[N].tokens = ModelUsage(d, N) + d.steps[N].context /\ N = 1 /\ ~(N > 1)
    BY <1>1, <1>2, <1>3, <1>5, <2>1
  <2>3. d.steps[N].tokens \in Nat
    BY <1>1, StepTyped
  <2>4. d.steps[N].tokens >= ModelUsage(d, N) + d.steps[N].context
    BY <2>2, <2>3
  <2>5. RowOf(d, N)
    BY <1>4, <2>2, <2>4 DEF RowOf
  <2>6. TightRow(d, N) /\ d.steps[N].calls = CallsBefore(d, N)
    BY <1>2, <2>1, <2>2 DEF TightRow, CallsBefore
  <2> QED BY <2>5, <2>6 DEF Latest
<1>6. CASE n # 0
  <2>1. /\ c.usage = c.steps[n].tokens /\ c.context = c.steps[n].context
        /\ c.toolCallsUsed = c.steps[n].calls
    BY <1>6 DEF Account, Totals, Latest
  <2>2. d.steps[N - 1] = c.steps[n]
    BY <1>1, <1>6 DEF Noted
  <2>3. c.steps[n].tokens >= ModelUsage(c, n) + c.steps[n].context
    BY <1>1, <1>6 DEF Account, RowOf
  <2>4. d.steps[N].tokens >= ModelUsage(d, N) + d.steps[N].context
    BY <1>1, <1>2, <1>3, <2>1, <2>3
  <2>5. /\ d.steps[N].tokens = d.steps[N - 1].tokens + d.steps[N].model
        /\ d.steps[N].tokens >= d.steps[N - 1].tokens + d.steps[N].model
        /\ d.steps[N].context >= d.steps[N - 1].context
        /\ N > 1 /\ N # 1
        /\ d.steps[N].calls = d.steps[N - 1].calls
    BY <1>1, <1>2, <1>6, <2>1, <2>2
  <2>6. RowOf(d, N)
    BY <1>4, <2>4, <2>5 DEF RowOf
  <2>7. TightRow(d, N) /\ d.steps[N].calls = CallsBefore(d, N)
    BY <2>5 DEF TightRow, CallsBefore
  <2> QED BY <2>6, <2>7 DEF Latest
<1> QED BY <1>5, <1>6

(* A turn noted on sound books leaves sound books: closed after an answer,   *)
(* open after a response that calls tools.                                  *)
LEMMA NotedSound ==
    ASSUME NEW c \in States, NEW d \in States, NEW m \in Message, NEW t \in Nat,
           Ready(c), Noted(c, d, m, t), m.role = "assistant",
           m.op <= c.opTurn, m.calls > 0 => m.op = c.opTurn
    PROVE  /\ Sound(d) /\ TightRow(d, Len(d.steps))
           /\ m.calls = 0 => Closed(d)
           /\ m.calls > 0 => Open(d) /\ Pending(d.messages)
           /\ d.steps # << >> /\ d.messages # << >> /\ Last(d.messages) = m
<1> DEFINE n == Len(c.steps)
           N == Len(d.steps)
<1>1. /\ n \in Nat /\ N = n + 1 /\ N \in Nat /\ N \in 1..N
      /\ \A k \in 1..n : k \in 1..N /\ k # N /\ k <= N /\ \A j \in 1..k : j \in 1..n
      /\ \A k \in 1..N : k = N \/ k \in 1..n
      /\ c.messages \in Seq(Message) /\ c.opTurn \in Nat /\ m.op \in Int /\ m.calls \in Nat
  <2>1. n \in Nat /\ N = n + 1 /\ N \in Nat
    BY Fielded DEF Noted
  <2>2. c.messages \in Seq(Message) /\ c.opTurn \in Nat /\ m.op \in Int /\ m.calls \in Nat
    BY Fielded, CallsCounted DEF Message
  <2> HIDE DEF n, N
  <2> QED BY <2>1, <2>2
<1>2. Account(c) /\ Closed(c)
  BY DEF Ready, Sound, Standing
<1>3. Placed(d) /\ (\A k \in 1..n : StepMessage(d, k) = StepMessage(c, k)) /\ StepMessage(d, N) = m
  BY <1>1, <1>2, SaidMore DEF Account, Noted
<1>4. RowOf(d, N) /\ TightRow(d, N) /\ Latest(d).calls = CallsBefore(d, N)
  BY <1>2, <1>3, NotedRow
<1>5. ASSUME NEW k \in 1..n
      PROVE  /\ RowOf(c, k) => RowOf(d, k)
             /\ TightRow(c, k) => TightRow(d, k)
             /\ ClosedRow(c, k) => ClosedRow(d, k)
  <2>1. SameRows(c, d, k) /\ d.steps[k].traces = c.steps[k].traces
    BY <1>1 DEF Noted, SameRows
  <2>2. d.opTurn - Len(d.steps) = c.opTurn - Len(c.steps)
    <3>1. d.opTurn = c.opTurn + 1 /\ Len(d.steps) = Len(c.steps) + 1
      BY DEF Noted
    <3>2. c.opTurn \in Nat /\ Len(c.steps) \in Nat
      BY Fielded
    <3>3. \A a, b \in Nat : (a + 1) - (b + 1) = a - b
      OBVIOUS
    <3> QED BY <3>1, <3>2, <3>3, Zenon
  <2> QED BY <1>1, <1>3, <2>1, <2>2, RowKept
<1>6. ~Pending(c.messages) /\ WellFormed(c.messages)
  BY <1>2 DEF Closed, Account
<1>7. /\ WellFormed(d.messages)
      /\ m.calls = 0 => ~Pending(d.messages)
      /\ m.calls > 0 => Pending(d.messages)
  <2>1. m.role # "tool" /\ d.messages = Append(c.messages, m)
    BY DEF Noted
  <2> QED BY <1>1, <1>6, <2>1, SayWellFormed
<1>8. d.messages # << >> /\ Last(d.messages) = m /\ d.steps # << >>
  <2>1. d.messages = Append(c.messages, m) /\ d.steps \in Seq(Entry)
    BY Fielded DEF Noted
  <2>2. Append(c.messages, m) # << >> /\ Last(Append(c.messages, m)) = m
    BY <1>1 DEF Last
  <2>3. d.steps # << >>
    BY <1>1, <2>1
  <2> QED BY <2>1, <2>2, <2>3
<1>9. Totals(d)
  BY <1>1 DEF Totals, Noted
<1>10. \A a \in Assistants(d.messages) : d.messages[a].op < d.opTurn
  <2> SUFFICES ASSUME NEW a \in DOMAIN d.messages, d.messages[a].role = "assistant"
               PROVE  d.messages[a].op < d.opTurn
    BY DEF Assistants
  <2>1. d.messages = Append(c.messages, m) /\ d.opTurn = c.opTurn + 1
    BY DEF Noted
  <2>2. CASE a = Len(c.messages) + 1
    <3>1. d.messages[a] = m
      BY <1>1, <2>1, <2>2
    <3> QED BY <1>1, <2>1, <3>1
  <2>3. CASE a # Len(c.messages) + 1
    <3>1. a \in DOMAIN c.messages /\ d.messages[a] = c.messages[a] /\ c.messages[a] \in Message
      BY <1>1, <2>1, <2>3
    <3>2. c.messages[a].op < c.opTurn
      BY <1>2, <3>1 DEF Account, Assistants
    <3>3. c.messages[a].op \in Int
      BY <3>1 DEF Message
    <3> QED BY <1>1, <2>1, <3>1, <3>2, <3>3
  <2> QED BY <2>2, <2>3
<1>11. \A k \in 1..n : ClosedRow(c, k) /\ c.steps[k].decision = "continue"
  <2>1. ASSUME n # 0 PROVE ClosedRow(c, n) /\ c.steps[n].decision = "continue"
    <3>1. c.steps # << >>
      BY <2>1
    <3> QED BY <3>1 DEF Ready, Standing, Closed, Latest
  <2>2. \A k \in 1..n : n # 0
    BY <1>1
  <2> QED BY <1>2, <2>1, <2>2 DEF Account
<1>12. Account(d)
  <2>1. d.opTurn >= N
    <3>1. c.opTurn >= n /\ d.opTurn = c.opTurn + 1
      BY <1>2 DEF Account, Noted
    <3> QED BY <1>1, <3>1
  <2>2. \A k \in 1..N : RowOf(d, k)
    BY <1>1, <1>2, <1>4, <1>5 DEF Account
  <2>3. \A k \in 1..N : k # N => ClosedRow(d, k) /\ d.steps[k].decision = "continue"
    <3>1. \A k \in 1..n : d.steps[k] = c.steps[k] /\ ClosedRow(d, k)
      BY <1>5, <1>11 DEF Noted
    <3>2. \A k \in 1..N : k # N => k \in 1..n
      BY <1>1
    <3> HIDE DEF n, N
    <3> QED BY <1>11, <3>1, <3>2
  <2> QED BY <1>3, <1>7, <1>9, <1>10, <2>1, <2>2, <2>3 DEF Account
<1>13. Exact(c) => Exact(d)
  BY <1>1, <1>3, <1>4, <1>5 DEF Exact
<1>14. LateSummary(c) => LateSummary(d)
  <2>1. \A k \in 1..n : c.steps[k].context >= c.steps[k].context
    BY StepTyped
  <2>2. N >= n
    BY <1>1
  <2> QED BY <2>1, <2>2, LateKept DEF Noted
<1>15. Sound(d)
  BY <1>12, <1>13, <1>14 DEF Sound, Ready
<1>16. m.calls = 0 => Closed(d)
  <2> SUFFICES ASSUME m.calls = 0 PROVE Closed(d)
    OBVIOUS
  <2>1. d.steps[N].traces = 0 /\ d.steps[N].calls = CallsBefore(d, N) /\ d.steps[N].calls \in Nat
    BY <1>1, <1>4, StepTyped DEF Noted, Latest
  <2>2. ClosedRow(d, N)
    BY <1>3, <2>1 DEF ClosedRow
  <2> QED BY <1>7, <2>2 DEF Closed
<1>17. m.calls > 0 => Open(d) /\ Pending(d.messages)
  BY <1>3, <1>4, <1>7, <1>8 DEF Open
<1> QED BY <1>4, <1>8, <1>15, <1>16, <1>17

(* Recorded notes the turn it records. *)
LEMMA RecordedNotes ==
    ASSUME NEW c \in States, NEW x \in Nat, NEW t \in Nat, NEW m \in Message,
           NEW s \in Entry, s.model = t, s.tokens = Turned(c, x, t).usage,
           s.calls = Turned(c, x, t).toolCallsUsed, s.context = Turned(c, x, t).context,
           s.traces = 0
    PROVE  Noted(Summarised(c, x), Recorded(Turned(c, x, t), m, s), m, t)
<1> DEFINE b == Summarised(c, x)
           u == b.usage + t
           o == b.opTurn + 1
           e == Turned(c, x, t)
           ms == Append(b.messages, m)
           ss == Append(b.steps, s)
           d == Recorded(e, m, s)
<1>1. b \in States
  BY SummarisedGrows DEF Grows
<1> HIDE DEF b
<1>2. e = [b EXCEPT !.usage = u, !.opTurn = o]
  BY DEF Turned, b
<1>3. /\ e.messages = b.messages /\ e.steps = b.steps /\ e.usage = u /\ e.context = b.context
      /\ e.toolCallsUsed = b.toolCallsUsed /\ e.opTurn = o
  BY <1>1, <1>2 DEF States
<1>4. e \in States
  BY TurnedGrows DEF Grows
<1> HIDE DEF e
<1>5. d = [e EXCEPT !.messages = ms, !.steps = ss]
  BY <1>3, <1>4 DEF Recorded, States
<1> HIDE DEF ms, ss
<1>6. /\ d.messages = ms /\ d.steps = ss /\ d.usage = u /\ d.context = b.context
      /\ d.toolCallsUsed = b.toolCallsUsed /\ d.opTurn = o
  BY <1>3, <1>4, <1>5 DEF States
<1>7. b.steps \in Seq(Entry)
  BY <1>1, Fielded
<1>8. Len(ss) = Len(b.steps) + 1 /\ (\A k \in 1..Len(b.steps) : ss[k] = b.steps[k]) /\ ss[Len(ss)] = s
  BY <1>7 DEF ss
<1>9. /\ s.model = t /\ s.tokens = u /\ s.calls = b.toolCallsUsed /\ s.context = b.context
  BY <1>3 DEF e
<1> HIDE DEF d, u, o
<1>10. Latest(d) = s
  BY <1>6, <1>8 DEF Latest
<1>11. Noted(b, d, m, t)
  BY <1>6, <1>8, <1>9, <1>10 DEF Noted, ms, u, o
<1> QED BY <1>11 DEF b, d, e

-----------------------------------------------------------------------------
(* A batch executed. *)

(* The open response is one of the assistant. *)
LEMMA OpenAsks ==
    ASSUME NEW c \in States, Account(c), Open(c)
    PROVE  /\ Last(c.messages).role = "assistant" /\ Last(c.messages) \in Message
           /\ Batch(c) = Last(c.messages).calls /\ Batch(c) \in Nat
<1>1. Len(c.steps) \in 1..Len(c.steps)
  BY Fielded DEF Open
<1>2. \E i \in Assistants(c.messages) : StepMessage(c, Len(c.steps)) = c.messages[i]
  BY <1>1, SaidTyped DEF Account
<1>3. Last(c.messages).role = "assistant"
  BY <1>2 DEF Open, Assistants
<1>4. Last(c.messages) \in Message
  BY Fielded, FrontOf DEF Open
<1> QED BY <1>3, <1>4, CallsCounted DEF Batch

(* d is c with all results of the open response and the usage u of children. *)
Fulfilled(c, d, u) ==
    /\ d.messages = c.messages \o Results(Last(c.messages).calls)
    /\ Len(d.steps) = Len(c.steps)
    /\ \A k \in 1..Len(c.steps) : k # Len(c.steps) => d.steps[k] = c.steps[k]
    /\ Latest(d).model = Latest(c).model /\ Latest(d).context = Latest(c).context
    /\ d.usage = c.usage + u /\ d.context = c.context /\ d.opTurn = c.opTurn
    /\ d.toolCallsUsed = c.toolCallsUsed + Last(c.messages).calls
    /\ Latest(d).tokens = d.usage /\ Latest(d).calls = d.toolCallsUsed

(* A batch that ran fulfils the open response. *)
LEMMA ExecutedFulfils ==
    ASSUME NEW c \in States, Account(c), Open(c), NEW u \in Nat
    PROVE  Executed(c, Batch(c), u) \in States /\ Fulfilled(c, Executed(c, Batch(c), u), u)
<1> DEFINE b == Batch(c)
           ms == c.messages \o Results(b)
           t == c.toolCallsUsed + b
           w == c.usage + u
           d == [c EXCEPT !.messages = @ \o Results(b), !.toolCallsUsed = @ + Batch(c),
                          !.usage = @ + u]
           s == [Latest(d) EXCEPT !.tokens = d.usage, !.calls = d.toolCallsUsed]
           n == Len(c.steps)
           ss == [c.steps EXCEPT ![n] = s]
           e == Executed(c, b, u)
<1>1. b \in Nat /\ b = Last(c.messages).calls
  BY OpenAsks
<1>2. /\ c.steps \in Seq(Entry) /\ n \in Nat /\ n \in 1..n /\ DOMAIN c.steps = 1..n
      /\ c.steps # << >> /\ c.messages # << >>
  BY Fielded DEF Open
<1>3. e \in States
  BY <1>1, <1>2, ExecutedGrows
<1>4. d = [c EXCEPT !.messages = ms, !.toolCallsUsed = t, !.usage = w]
  BY DEF States
<1>5. e = WithLatest(d, s)
  BY DEF Executed
<1> HIDE DEF b, ms, t, w, d
<1>6. /\ d.messages = ms /\ d.steps = c.steps /\ d.usage = w /\ d.context = c.context
      /\ d.toolCallsUsed = t /\ d.opTurn = c.opTurn
  BY <1>4 DEF States
<1>7. Latest(d) = c.steps[n] /\ Latest(c) = c.steps[n] /\ c.steps[n] \in Entry
  BY <1>2, <1>6 DEF Latest
<1>8. /\ s.model = c.steps[n].model /\ s.context = c.steps[n].context
      /\ s.tokens = w /\ s.calls = t
  BY <1>6, <1>7 DEF Entry
<1> HIDE DEF s
<1>9. Len(ss) = n /\ ss[n] = s /\ \A k \in 1..n : k # n => ss[k] = c.steps[k]
  BY <1>2
<1>10. e = [d EXCEPT !.steps = ss]
  BY <1>5, <1>6 DEF WithLatest
<1> HIDE DEF ss, e
<1>11. /\ e.messages = ms /\ e.steps = ss /\ e.usage = w /\ e.context = c.context
       /\ e.toolCallsUsed = t /\ e.opTurn = c.opTurn
  BY <1>4, <1>6, <1>10 DEF States
<1>12. Latest(e) = s
  BY <1>9, <1>11 DEF Latest
<1>13. Fulfilled(c, e, u)
  BY <1>1, <1>7, <1>8, <1>9, <1>11, <1>12 DEF Fulfilled, ms, t, w
<1> QED BY <1>3, <1>13 DEF e, b

(* The books stay sound and wait for the traces. *)
LEMMA FulfilledSound ==
    ASSUME NEW c \in States, NEW d \in States, NEW u \in Nat, Sound(c), Open(c), Fulfilled(c, d, u)
    PROVE  Sound(d) /\ Ran(d)
<1> DEFINE n == Len(c.steps)
           m == Last(c.messages)
<1>1. /\ n \in Nat /\ n \in 1..n /\ n # 0 /\ Len(d.steps) = n
      /\ \A k \in 1..n : k # n => \A j \in 1..k : j \in 1..n /\ j # n
      /\ c.messages \in Seq(Message) /\ c.messages # << >>
      /\ (n > 1 => n - 1 \in 1..n /\ n - 1 # n)
      /\ c.usage \in Nat /\ c.toolCallsUsed \in Nat
      /\ Latest(c) = c.steps[n] /\ Latest(d) = d.steps[n]
  BY Fielded DEF Open, Fulfilled, Latest
<1>2. /\ m.role = "assistant" /\ m \in Message /\ m.calls \in Nat /\ m.calls > 0
      /\ StepMessage(c, n) = m /\ Latest(c).calls = CallsBefore(c, n)
  BY OpenAsks, CallsCounted DEF Open, Sound
<1>3. /\ Results(m.calls) \in Seq(Message)
      /\ \A i \in 1..Len(Results(m.calls)) : Results(m.calls)[i].role # "assistant"
  BY <1>2, MessagesMade
<1>4. /\ Assistants(d.messages) = Assistants(c.messages)
      /\ \A i \in Assistants(c.messages) : d.messages[i] = c.messages[i]
  <2>1. d.messages = c.messages \o Results(m.calls)
    BY DEF Fulfilled
  <2> DEFINE ns == Results(m.calls)
  <2>2. /\ c.messages \in Seq(Message) /\ ns \in Seq(Message) /\ d.messages = c.messages \o ns
        /\ \A i \in 1..Len(ns) : ns[i].role # "assistant"
    BY <1>1, <1>3, <2>1
  <2> HIDE DEF m, n, ns
  <2>3. /\ Assistants(c.messages \o ns) = Assistants(c.messages)
        /\ \A i \in Assistants(c.messages) : (c.messages \o ns)[i] = c.messages[i]
    BY <2>2, OthersSay
  <2> QED BY <2>2, <2>3
<1>5. Placed(d) /\ \A k \in 1..n : StepMessage(d, k) = StepMessage(c, k)
  BY <1>1, <1>4, SaidSame DEF Sound, Account
<1>6. /\ WellFormed(d.messages) /\ ~Pending(d.messages) /\ d.messages # << >>
      /\ Last(d.messages).role = "tool"
  <2>1. WellFormed(c.messages) /\ m.role # "tool"
    BY <1>2 DEF Sound, Account
  <2> QED BY <1>1, <1>2, <2>1, ResultsWellFormed DEF Fulfilled
<1>7. ASSUME NEW k \in 1..n, k # n
      PROVE  /\ RowOf(c, k) => RowOf(d, k)
             /\ TightRow(c, k) => TightRow(d, k)
             /\ ClosedRow(c, k) => ClosedRow(d, k)
  <2>1. SameRows(c, d, k) /\ k <= Len(d.steps) /\ d.opTurn - Len(d.steps) = c.opTurn - Len(c.steps)
    BY <1>1, <1>7 DEF Fulfilled, SameRows
  <2>2. d.steps[k].traces = c.steps[k].traces
    BY <1>7 DEF Fulfilled
  <2> QED BY <1>5, <2>1, <2>2, RowKept
<1>8. /\ d.steps[n].model = c.steps[n].model /\ d.steps[n].context = c.steps[n].context
      /\ d.steps[n].tokens = c.steps[n].tokens + u
      /\ d.steps[n].calls = c.steps[n].calls + m.calls
      /\ n > 1 => d.steps[n - 1] = c.steps[n - 1]
  <2>1. c.usage = c.steps[n].tokens /\ c.toolCallsUsed = c.steps[n].calls
    BY <1>1 DEF Sound, Account, Totals
  <2> QED BY <1>1, <2>1 DEF Fulfilled
<1>9. RowOf(d, n)
  <2>1. RowOf(c, n)
    BY <1>1 DEF Sound, Account
  <2>2. ModelUsage(d, n) = ModelUsage(c, n) /\ ModelUsage(c, n) \in Nat
    <3>1. n <= n /\ n \in 0..n
      BY <1>1
    <3>2. \A j \in 1..n : d.steps[j].model = c.steps[j].model
      BY <1>1, <1>8 DEF Fulfilled
    <3> QED BY <1>1, <3>1, <3>2, UsageSame, UsageGrows
  <2>3. /\ c.steps[n].tokens \in Nat /\ c.steps[n].context \in Nat /\ c.steps[n].model \in Nat
        /\ n > 1 => c.steps[n - 1].tokens \in Nat
    BY <1>1, StepTyped
  <2>4. d.steps[n].tokens >= ModelUsage(d, n) + d.steps[n].context
    <3>1. c.steps[n].tokens >= ModelUsage(c, n) + c.steps[n].context
      BY <2>1 DEF RowOf
    <3> QED BY <1>8, <2>2, <2>3, <3>1
  <2>5. n > 1 => /\ d.steps[n].tokens >= d.steps[n - 1].tokens + d.steps[n].model
                 /\ d.steps[n].context >= d.steps[n - 1].context
    <3>1. n > 1 => /\ c.steps[n].tokens >= c.steps[n - 1].tokens + c.steps[n].model
                   /\ c.steps[n].context >= c.steps[n - 1].context
      BY <2>1 DEF RowOf
    <3>2. n > 1 => d.steps[n - 1].tokens = c.steps[n - 1].tokens
                   /\ d.steps[n - 1].context = c.steps[n - 1].context
      BY <1>8
    <3> HIDE DEF n
    <3> QED BY <1>8, <2>3, <3>1, <3>2
  <2>6. StepMessage(d, n) = StepMessage(c, n) /\ d.opTurn = c.opTurn
    BY <1>1, <1>5 DEF Fulfilled
  <2> QED BY <1>1, <2>1, <2>4, <2>5, <2>6 DEF RowOf
<1>10. Latest(d).calls = CallsBefore(d, n) + StepMessage(d, n).calls
  <2>1. CallsBefore(d, n) = CallsBefore(c, n)
    <3>1. n \in Nat /\ n >= 1
      BY <1>1
    <3> HIDE DEF n
    <3>2. n # 1 => n > 1
      BY <3>1
    <3> QED BY <1>8, <3>2 DEF CallsBefore
  <2> QED BY <1>1, <1>2, <1>5, <1>8, <2>1
<1>11. Totals(d)
  <2>1. c.context = Latest(c).context
    BY <1>1 DEF Sound, Account, Totals
  <2> QED BY <1>1, <2>1 DEF Totals, Fulfilled
<1>12. Account(d)
  <2>1. d.opTurn >= n
    BY DEF Sound, Account, Fulfilled
  <2>2. \A a \in Assistants(d.messages) : d.messages[a].op < d.opTurn
    BY <1>4 DEF Sound, Account, Fulfilled
  <2>3. \A k \in 1..n : RowOf(d, k)
    BY <1>7, <1>9 DEF Sound, Account
  <2>4. \A k \in 1..n : k # n => ClosedRow(d, k) /\ d.steps[k].decision = "continue"
    BY <1>7 DEF Sound, Account, Fulfilled
  <2> QED BY <1>1, <1>5, <1>6, <1>11, <2>1, <2>2, <2>3, <2>4 DEF Account
<1>13. Exact(c) => Exact(d)
  <2> SUFFICES ASSUME Exact(c), NEW k \in 1..n, StepMessage(d, k).calls = 0 PROVE TightRow(d, k)
    BY <1>1 DEF Exact
  <2>1. k # n
    BY <1>2, <1>5
  <2>2. TightRow(c, k)
    BY <1>5 DEF Exact
  <2> QED BY <1>7, <2>1, <2>2
<1>14. LateSummary(c) => LateSummary(d)
  <2>2. \A k \in 1..n : k # n => d.steps[k] = c.steps[k]
    BY DEF Fulfilled
  <2>1. ASSUME NEW k \in 1..n
        PROVE  d.steps[k].model = c.steps[k].model /\ d.steps[k].context >= c.steps[k].context
    <3>1. d.steps[k].model = c.steps[k].model /\ d.steps[k].context = c.steps[k].context
      <4>1. CASE k = n
        BY <1>8, <4>1
      <4>2. CASE k # n
        BY <2>2, <4>2
      <4> QED BY <4>1, <4>2
    <3>2. c.steps[k].context \in Nat
      BY StepTyped
    <3> HIDE DEF n
    <3> QED BY <3>1, <3>2
  <2>3. Len(d.steps) >= Len(c.steps)
    BY <1>1
  <2> QED BY <2>1, <2>2, <2>3, LateKept
<1>15. Sound(d)
  BY <1>12, <1>13, <1>14 DEF Sound
<1>16. Ran(d)
  <2>1. d.steps # << >> /\ StepMessage(d, n).calls > 0
    BY <1>1, <1>2, <1>5, Fielded
  <2> QED BY <1>1, <1>6, <1>10, <2>1 DEF Ran
<1> QED BY <1>15, <1>16

-----------------------------------------------------------------------------
(* Words, decisions and observations keep sound books. *)

(* The latest Step may change in anything it does not count. *)
LEMMA LatestKin ==
    ASSUME NEW c \in States, c.steps # << >>, NEW s \in Entry,
           s.model = Latest(c).model, s.tokens = Latest(c).tokens,
           s.calls = Latest(c).calls, s.context = Latest(c).context
    PROVE  /\ WithLatest(c, s) \in States
           /\ WithLatest(c, s).messages = c.messages
           /\ WithLatest(c, s).steps # << >>
           /\ Latest(WithLatest(c, s)) = s
           /\ Kin(c, WithLatest(c, s))
<1> DEFINE n == Len(c.steps)
           ss == [c.steps EXCEPT ![n] = s]
           d == WithLatest(c, s)
<1>1. c.steps \in Seq(Entry) /\ n \in Nat /\ n \in 1..n /\ DOMAIN c.steps = 1..n
  BY Fielded
<1>2. ss \in Seq(Entry) /\ Len(ss) = n /\ ss # << >>
  BY <1>1
<1>3. ss[n] = s /\ \A k \in 1..n : k # n => ss[k] = c.steps[k]
  BY <1>1
<1>4. d = [c EXCEPT !.steps = ss]
  BY DEF WithLatest
<1> HIDE DEF ss
<1>5. d \in States
  BY <1>2, <1>4 DEF States, Entry
<1>6. /\ d.messages = c.messages /\ d.steps = ss /\ d.usage = c.usage /\ d.context = c.context
      /\ d.toolCallsUsed = c.toolCallsUsed /\ d.opTurn = c.opTurn
  BY <1>4 DEF States
<1> HIDE DEF d
<1>7. Latest(d) = s
  BY <1>2, <1>3, <1>6 DEF Latest
<1>8. SameRows(c, d, n)
  BY <1>3, <1>6 DEF SameRows, Latest
<1>9. Kin(c, d)
  BY <1>2, <1>3, <1>6, <1>8 DEF Kin
<1>10. WithLatest(c, s) = d
  BY DEF d
<1> QED BY <1>2, <1>5, <1>6, <1>7, <1>9, <1>10

(* Sound books stay so under such a change. *)
LEMMA LatestSound ==
    ASSUME NEW c \in States, Sound(c), c.steps # << >>, NEW s \in Entry,
           s.model = Latest(c).model, s.tokens = Latest(c).tokens,
           s.calls = Latest(c).calls, s.context = Latest(c).context
    PROVE  /\ WithLatest(c, s) \in States /\ Sound(WithLatest(c, s))
           /\ WithLatest(c, s).messages = c.messages
           /\ WithLatest(c, s).steps # << >>
           /\ Latest(WithLatest(c, s)) = s
           /\ Closed(c) /\ s.traces = Latest(c).traces => Closed(WithLatest(c, s))
<1> DEFINE d == WithLatest(c, s)
<1>1. d \in States /\ d.messages = c.messages /\ d.steps # << >> /\ Latest(d) = s /\ Kin(c, d)
  BY LatestKin
<1> HIDE DEF d
<1>2. WellFormed(d.messages)
  BY <1>1 DEF Sound, Account
<1>3. Sound(d)
  BY <1>1, <1>2, KinSound
<1>4. ASSUME Closed(c), s.traces = Latest(c).traces PROVE Closed(d)
  <2>1. ~Pending(d.messages)
    BY <1>1, <1>4 DEF Closed
  <2> QED BY <1>1, <1>2, <1>4, <2>1, KinClosed
<1> QED BY <1>1, <1>3, <1>4 DEF d

(* So does a decision. *)
LEMMA DecideSound ==
    ASSUME NEW c \in States, Sound(c), Closed(c), c.steps # << >>,
           NEW v \in {"continue", "finish", "fail"}
    PROVE  /\ Decide(c, v) \in States /\ Sound(Decide(c, v)) /\ Closed(Decide(c, v))
           /\ Decide(c, v).steps # << >> /\ Latest(Decide(c, v)).decision = v
<1> DEFINE s == [Latest(c) EXCEPT !.decision = v]
<1>1. /\ s \in Entry /\ s.model = Latest(c).model /\ s.tokens = Latest(c).tokens
      /\ s.calls = Latest(c).calls /\ s.context = Latest(c).context
      /\ s.traces = Latest(c).traces /\ s.decision = v
  BY LatestTyped DEF Entry
<1>2. Decide(c, v) = WithLatest(c, s)
  BY DEF Decide
<1> HIDE DEF s
<1> QED BY <1>1, <1>2, LatestSound

(* A word of the user, or a correction. *)
LEMMA SaidSound ==
    ASSUME NEW c \in States, Sound(c), Closed(c), NEW role \in {"user", "correction"},
           NEW d, d = [c EXCEPT !.messages = Append(@, Plain(role))]
    PROVE  d \in States /\ d.steps = c.steps /\ d.unsaid = c.unsaid /\ Sound(d) /\ Closed(d)
<1> DEFINE m == Plain(role)
           ms == Append(c.messages, m)
<1>1. m \in Message /\ m.role = role /\ m.calls = 0 /\ m.role # "tool" /\ m.role # "assistant"
  BY MessagesMade DEF Plain
<1>2. d = [c EXCEPT !.messages = ms]
  OBVIOUS
<1> HIDE DEF m
<1>3. c.messages \in Seq(Message) /\ ms \in Seq(Message) /\ ms = c.messages \o << m >>
      /\ << m >> \in Seq(Message) /\ \A i \in 1..Len(<< m >>) : << m >>[i].role # "assistant"
  <2>1. c.messages \in Seq(Message)
    BY Fielded
  <2>2. ms \in Seq(Message) /\ ms = c.messages \o << m >>
    BY <1>1, <2>1
  <2>3. << m >> \in Seq(Message) /\ \A i \in 1..Len(<< m >>) : << m >>[i] = m
    BY <1>1
  <2> QED BY <1>1, <2>1, <2>2, <2>3
<1>4. WellFormed(ms) /\ ~Pending(ms)
  <2>1. WellFormed(c.messages) /\ ~Pending(c.messages)
    BY DEF Sound, Account, Closed
  <2>2. c.messages \in Seq(Message)
    BY <1>3
  <2>3. m \in Message /\ m.role # "tool" /\ m.calls = 0
    BY <1>1
  <2>4. WellFormed(Append(c.messages, m))
    BY <2>1, <2>2, <2>3, SayWellFormed
  <2>5. ~Pending(Append(c.messages, m))
    BY <2>1, <2>2, <2>3, SayWellFormed
  <2> QED BY <2>4, <2>5
<1>5. /\ Assistants(ms) = Assistants(c.messages)
      /\ \A i \in Assistants(c.messages) : ms[i] = c.messages[i]
  <2> DEFINE ns == << m >>
  <2>1. /\ c.messages \in Seq(Message) /\ ns \in Seq(Message) /\ ms = c.messages \o ns
        /\ \A i \in 1..Len(ns) : ns[i].role # "assistant"
    BY <1>3
  <2> HIDE DEF ms, ns
  <2>2. /\ Assistants(c.messages \o ns) = Assistants(c.messages)
        /\ \A i \in Assistants(c.messages) : (c.messages \o ns)[i] = c.messages[i]
    BY <2>1, OthersSay
  <2> QED BY <2>1, <2>2
<1> HIDE DEF ms
<1>6. d \in States
  BY <1>2, <1>3 DEF States, Message
<1>7. /\ d.messages = ms /\ d.steps = c.steps /\ d.usage = c.usage /\ d.context = c.context
      /\ d.toolCallsUsed = c.toolCallsUsed /\ d.opTurn = c.opTurn /\ d.unsaid = c.unsaid
  BY <1>2 DEF States
<1>8. Kin(c, d)
  BY <1>5, <1>7 DEF Kin, SameRows
<1>9. Latest(d) = Latest(c)
  BY <1>7 DEF Latest
<1> QED BY <1>4, <1>6, <1>7, <1>8, <1>9, KinSound, KinClosed

(* Input taken. *)
LEMMA TakenReady ==
    ASSUME NEW c \in States, Ready(c)
    PROVE  Taken(c) \in States /\ Ready(Taken(c))
<1> DEFINE d == [c EXCEPT !.messages = Append(@, Plain("user"))]
           s == [Latest(d) EXCEPT !.observed = None]
<1>1. Sound(c) /\ Closed(c) /\ (c.steps # << >> => Latest(c).decision = "continue")
  BY DEF Ready, Standing
<1>2. d \in States /\ d.steps = c.steps /\ Sound(d) /\ Closed(d)
  BY <1>1, SaidSound
<1>3. \/ Taken(c) \in {c, d}
      \/ c.steps # << >> /\ Taken(c) = WithLatest(d, s)
  BY DEF Taken
<1> HIDE DEF d
<1>4. Latest(d) = Latest(c)
  BY <1>2 DEF Latest
<1>5. Ready(d)
  BY <1>1, <1>2, <1>4 DEF Ready, Standing
<1>6. CASE Taken(c) \in {c, d}
  BY <1>2, <1>5, <1>6
<1>7. CASE c.steps # << >> /\ Taken(c) = WithLatest(d, s)
  <2>1. /\ s \in Entry /\ s.model = Latest(d).model /\ s.tokens = Latest(d).tokens
        /\ s.calls = Latest(d).calls /\ s.context = Latest(d).context
        /\ s.traces = Latest(d).traces /\ s.decision = Latest(d).decision
    BY <1>2, <1>7, LatestTyped DEF Entry
  <2> HIDE DEF s
  <2>2. /\ WithLatest(d, s) \in States /\ Sound(WithLatest(d, s)) /\ Closed(WithLatest(d, s))
        /\ Latest(WithLatest(d, s)) = s
    BY <1>2, <1>7, <2>1, LatestSound
  <2>3. s.decision = "continue"
    BY <1>1, <1>4, <1>7, <2>1
  <2> QED BY <1>7, <2>2, <2>3 DEF Ready, Standing
<1> QED BY <1>3, <1>6, <1>7

(* A summary. *)
LEMMA RaisedReady ==
    ASSUME NEW c \in States, Ready(c), NEW x \in Nat
    PROVE  Summarised(c, x) \in States /\ Ready(Summarised(c, x))
<1> DEFINE d == Summarised(c, x)
<1>1. Sound(c) /\ Closed(c) /\ Totals(c) /\ (c.steps # << >> => Latest(c).decision = "continue")
  BY DEF Ready, Standing, Sound, Account
<1>2. d \in States /\ Raised(c, d, x)
  BY <1>1, SummarisedRaises
<1> HIDE DEF d
<1>3. Sound(d) /\ Closed(d)
  BY <1>1, <1>2, RaisedSound
<1>4. d.steps # << >> => Latest(d).decision = "continue"
  <2> SUFFICES ASSUME d.steps # << >> PROVE Latest(d).decision = "continue"
    OBVIOUS
  <2>1. Len(d.steps) = Len(c.steps) /\ d.steps \in Seq(Entry) /\ c.steps \in Seq(Entry)
    BY <1>2, Fielded DEF Raised
  <2>2. c.steps # << >> /\ Len(c.steps) \in 1..Len(c.steps)
    BY <2>1
  <2> QED BY <1>1, <1>2, <2>1, <2>2 DEF Raised, Latest
<1> QED BY <1>2, <1>3, <1>4 DEF Ready, Standing, d

(* A transcript is its front and its last message. *)
LEMMA FrontLast ==
    ASSUME NEW ms \in Seq(Message), ms # << >>
    PROVE  Append(Front(ms), Last(ms)) = ms
<1> DEFINE fs == Front(ms)
           e == Last(ms)
<1>1. /\ fs \in Seq(Message) /\ Len(fs) = Len(ms) - 1 /\ Len(ms) - 1 \in Nat /\ Len(ms) \in Nat
      /\ \A i \in 1..(Len(ms) - 1) : fs[i] = ms[i]
      /\ e = ms[Len(ms)] /\ e \in Message
  BY FrontOf
<1> HIDE DEF fs, e
<1>2. Append(fs, e) \in Seq(Message) /\ Len(Append(fs, e)) = Len(ms)
  BY <1>1
<1>3. \A i \in 1..Len(ms) : Append(fs, e)[i] = ms[i]
  <2> SUFFICES ASSUME NEW i \in 1..Len(ms) PROVE Append(fs, e)[i] = ms[i]
    OBVIOUS
  <2>1. CASE i = Len(ms)
    BY <1>1, <2>1
  <2>2. CASE i # Len(ms)
    <3>1. i \in 1..(Len(ms) - 1)
      BY <1>1, <2>2
    <3> QED BY <1>1, <3>1
  <2> QED BY <2>1, <2>2
<1> QED BY <1>2, <1>3 DEF fs, e

(* An answer left out is held in its place. *)
LEMMA WithheldHeld ==
    ASSUME NEW d \in States, d.messages # << >>, Last(d.messages) = Plain("assistant")
    PROVE  Held("silent", Withheld(d)) = d /\ Withheld(d).unsaid = d.unsaid + 1
<1> DEFINE m == Plain("assistant")
           ms == Append(Front(d.messages), m)
           n == (d.unsaid + 1) - 1
<1>1. d.messages \in Seq(Message) /\ d.unsaid \in Nat
  BY Fielded
<1>2. ms = d.messages
  BY <1>1, FrontLast
<1>3. n = d.unsaid
  BY <1>1
<1>4. Withheld(d) = [d EXCEPT !.messages = Front(d.messages), !.unsaid = d.unsaid + 1]
  BY DEF Withheld
<1>5. Held("silent", Withheld(d)) = [d EXCEPT !.messages = ms, !.unsaid = n]
  <2>1. Held("silent", Withheld(d))
            = [Withheld(d) EXCEPT !.messages = Append(@, m), !.unsaid = @ - 1]
    BY DEF Held
  <2> HIDE DEF m
  <2> QED BY <1>4, <2>1 DEF States
<1> HIDE DEF m, ms, n
<1>6. [d EXCEPT !.messages = ms, !.unsaid = n] = d
  BY <1>2, <1>3 DEF States
<1>7. Withheld(d).unsaid = d.unsaid + 1
  BY <1>4 DEF States
<1> QED BY <1>5, <1>6, <1>7

(* A repair. *)
LEMMA RepairedReady ==
    ASSUME NEW c \in States, Sound(c), Closed(c), c.steps # << >>, c.repairs < MaxRepairs
    PROVE  Ready(Repaired(c))
<1> DEFINE d == [c EXCEPT !.messages = Append(@, Plain("user"))]
           r == c.repairs + 1
           e == [d EXCEPT !.repairs = r]
<1>1. d \in States /\ d.steps = c.steps /\ Sound(d) /\ Closed(d)
  BY SaidSound
<1>2. Repaired(c) = Decide(e, "continue")
  BY DEF Repaired, States
<1>3. r \in 0..MaxRepairs
  BY Fielded, LoopAssumption
<1> HIDE DEF d, r
<1>4. e \in States
  BY <1>1, <1>3 DEF States
<1>5. /\ e.messages = d.messages /\ e.steps = d.steps /\ e.usage = d.usage
      /\ e.context = d.context /\ e.toolCallsUsed = d.toolCallsUsed /\ e.opTurn = d.opTurn
  BY <1>1 DEF States
<1> HIDE DEF e
<1>6. Kin(d, e) /\ Latest(e) = Latest(d)
  BY <1>5 DEF Kin, SameRows, Latest
<1>7. WellFormed(e.messages) /\ ~Pending(e.messages)
  BY <1>1, <1>5 DEF Sound, Account, Closed
<1>8. Sound(e) /\ Closed(e) /\ e.steps # << >>
  BY <1>1, <1>4, <1>5, <1>6, <1>7, KinSound, KinClosed
<1>9. /\ Sound(Decide(e, "continue")) /\ Closed(Decide(e, "continue"))
      /\ Latest(Decide(e, "continue")).decision = "continue"
  BY <1>4, <1>8, DecideSound
<1> QED BY <1>2, <1>9 DEF Ready, Standing

(* The Step of a batch that ran, with its traces and the decision v. *)
Traced(c, v) ==
    [Latest(c) EXCEPT !.traces = Asked(c).calls, !.context = c.context, !.decision = v]

(* The traces of a batch that ran close its Step. *)
LEMMA TracedSound ==
    ASSUME NEW c \in States, Sound(c), Ran(c), NEW v \in {"continue", "finish", "fail"}, NEW d,
           d = WithLatest(c, Traced(c, v))
    PROVE  /\ d \in States /\ Sound(d) /\ Closed(d)
           /\ d.messages = c.messages /\ d.steps # << >>
           /\ Latest(d).decision = v /\ Latest(d).traces > 0
<1> DEFINE n == Len(c.steps)
           s == Traced(c, v)
           t == Asked(c).calls
<1>1. c.steps # << >> /\ n \in 1..n /\ c.steps \in Seq(Entry)
  BY Fielded DEF Ran
<1>2. Asked(c) = StepMessage(c, n) /\ StepMessage(c, n) \in Message
  BY <1>1, SaidLast, SaidTyped DEF Sound, Account
<1>3. t \in 0..MaxCalls /\ t > 0
  BY <1>2 DEF Message, Ran
<1>4. c.context = Latest(c).context /\ Latest(c) \in Entry
  <2>1. n # 0
    BY <1>1
  <2> QED BY <1>1, <2>1, LatestTyped DEF Sound, Account, Totals
<1> HIDE DEF t
<1>5. s = [Latest(c) EXCEPT !.traces = t, !.context = c.context, !.decision = v]
  BY DEF t, Traced
<1>13. d = WithLatest(c, s)
  OBVIOUS
<1> HIDE DEF s
<1>6. /\ s \in Entry /\ s.model = Latest(c).model /\ s.tokens = Latest(c).tokens
      /\ s.calls = Latest(c).calls /\ s.context = Latest(c).context
      /\ s.traces = t /\ s.decision = v
  BY <1>3, <1>4, <1>5 DEF Entry
<1>7. /\ d \in States /\ Sound(d) /\ d.messages = c.messages /\ d.steps # << >>
      /\ Latest(d) = s /\ Kin(c, d)
  BY <1>1, <1>6, <1>13, LatestSound, LatestKin
<1>8. WellFormed(d.messages)
  BY <1>7 DEF Sound, Account
<1>9. Len(d.steps) = n /\ StepMessage(d, n) = StepMessage(c, n) /\ CallsBefore(d, n) = CallsBefore(c, n)
  BY <1>1, <1>7, <1>8, KinSound DEF Kin
<1>10. Latest(c).calls = CallsBefore(c, n) + StepMessage(c, n).calls /\ ~Pending(c.messages)
  BY DEF Ran
<1>11. d.steps[n].traces = StepMessage(c, n).calls /\ d.steps[n].calls = Latest(c).calls
  BY <1>2, <1>6, <1>7, <1>9 DEF Latest, t
<1>12. Closed(d)
  BY <1>7, <1>9, <1>10, <1>11 DEF Closed, ClosedRow
<1> QED BY <1>3, <1>6, <1>7, <1>12

-----------------------------------------------------------------------------
(* What the steps do to the books. *)

(* Recording the last turn of a state again gives that state. *)
LEMMA RecordedRepeats ==
    ASSUME NEW c \in States, NEW m \in Message, NEW t \in Nat,
           NEW v \in {"continue", "finish"}
    PROVE  Repeats(Recorded(c, m, NewStep(c, t, v, None)), m, v)
<1> DEFINE s == NewStep(c, t, v, None)
           d == Recorded(c, m, s)
           ms == Append(c.messages, m)
           ss == Append(c.steps, s)
<1>1. s \in Entry /\ s.model = t
  BY NewStepTyped DEF NewStep
<1>2. c.messages \in Seq(Message) /\ c.steps \in Seq(Entry)
  BY Fielded
<1>3. d = [c EXCEPT !.messages = ms, !.steps = ss]
  BY DEF Recorded
<1>11. Recorded(c, m, s) = d
  OBVIOUS
<1>12. s = NewStep(c, t, v, None)
  OBVIOUS
<1> HIDE DEF s
<1>4. Front(ms) = c.messages
  <2>1. ms \in Seq(Message) /\ ms # << >> /\ Len(ms) = Len(c.messages) + 1 /\ Len(c.messages) \in Nat
        /\ \A i \in 1..Len(c.messages) : ms[i] = c.messages[i]
    BY <1>2
  <2>2. /\ Front(ms) \in Seq(Message) /\ Len(Front(ms)) = Len(ms) - 1
        /\ \A i \in 1..(Len(ms) - 1) : Front(ms)[i] = ms[i]
    BY <2>1, FrontOf
  <2> DEFINE fs == Front(ms)
  <2>3. fs \in Seq(Message) /\ Len(fs) = Len(c.messages)
        /\ \A i \in 1..Len(c.messages) : fs[i] = c.messages[i]
    BY <2>1, <2>2
  <2> HIDE DEF fs, ms
  <2>4. fs = c.messages
    BY <1>2, <2>3
  <2> QED BY <2>4 DEF fs
<1>5. Front(ss) = c.steps
  <2>1. ss \in Seq(Entry) /\ Len(ss) = Len(c.steps) + 1 /\ Len(c.steps) \in Nat
        /\ \A i \in 1..Len(c.steps) : ss[i] = c.steps[i]
    BY <1>1, <1>2
  <2>2. Front(ss) = [i \in 1..(Len(ss) - 1) |-> ss[i]]
    BY <2>1 DEF Front
  <2> DEFINE fs == Front(ss)
  <2>3. fs = [i \in 1..Len(c.steps) |-> c.steps[i]]
    BY <2>1, <2>2
  <2> HIDE DEF fs, ss
  <2>4. fs = c.steps
    BY <1>2, <2>3
  <2> QED BY <2>4 DEF fs
<1>6. ss[Len(ss)] = s /\ ss # << >>
  BY <1>1, <1>2
<1> HIDE DEF ms, ss
<1>7. d.messages = ms /\ d.steps = ss
  BY <1>3 DEF States
<1>8. Unstepped(d) = [d EXCEPT !.messages = c.messages, !.steps = c.steps]
  BY <1>4, <1>5, <1>7 DEF Unstepped
<1>9. Unstepped(d) = c
  BY <1>3, <1>8 DEF States
<1>10. Latest(d).model = t
  BY <1>1, <1>6, <1>7 DEF Latest
<1> HIDE DEF d
<1>13. NewStep(Unstepped(d), Latest(d).model, v, None) = s
  BY <1>9, <1>10, <1>12
<1>14. Repeats(d, m, v)
  BY <1>9, <1>11, <1>13 DEF Repeats
<1> QED BY <1>11, <1>12, <1>14

(* A step that stores nothing. *)
LEMMA BooksStay ==
    ASSUME Books, UNCHANGED saved, failure' # "invalid", pc' # "silent",
           pc' \notin {"failed", "done"} => Sound(live') /\ Standing(pc', live')
    PROVE  Books'
<1>1. (saved.state.unsaid = 0 => Filed(saved.phase, saved.state))'
  BY DEF Books
<1>2. BoundariesValid'
  BY DEF BoundariesValid
<1>3. Held(pc', live') = live'
  BY DEF Held
<1> QED BY <1>1, <1>2, <1>3 DEF Books

(* A step after which the transcript lacks the message of a Step. *)
LEMMA BooksMissing ==
    ASSUME Books, live'.unsaid > 0, Held(pc', live').unsaid # 0,
           saved' = saved \/ saved'.state = live'
    PROVE  Books'
<1>1. live'.unsaid # 0
  <2> DEFINE n == live'.unsaid
  <2>1. n > 0 => n # 0
    OBVIOUS
  <2> QED BY <2>1
<1>2. (saved.state.unsaid = 0 => Filed(saved.phase, saved.state))'
  <2>1. CASE saved' = saved
    BY <2>1 DEF Books
  <2>2. CASE saved'.state = live'
    BY <1>1, <2>2
  <2> QED BY <2>1, <2>2
<1>3. BoundariesValid'
  BY DEF BoundariesValid, AnswerMissing
<1> QED BY <1>2, <1>3 DEF Books

(* A boundary stores what it is given, or nothing. *)
LEMMA BoundaryStores ==
    ASSUME NEW c, NEW phase, NEW next, observeBoundary(c, phase, next)
    PROVE  live' = c /\ pc' \in {next, "failed"} /\ (saved' = saved \/ saved'.state = live')
<1>1. live' = c /\ pc' \in {next, "failed"}
  BY DEF observeBoundary, Stop
<1>2. saved' = saved \/ saved' = [phase |-> phase, state |-> c]
  BY DEF observeBoundary
<1> QED BY <1>1, <1>2

(* A step that ends in a boundary: a continuation that is exact passes, and  *)
(* the loop and a resumption may go on from one that passes.                *)
LEMMA BooksBoundary ==
    ASSUME Books, NEW c, NEW phase, NEW next, observeBoundary(c, phase, next), next # "silent",
           Sound(c), Exact(c) => ValidateContinuation(c, phase),
           ValidateContinuation(c, phase) => Filed(phase, c),
           next # "failed" => Standing(next, c)
    PROVE  Books'
<1>1. live' = c
  BY DEF observeBoundary
<1>2. CASE ~ValidateContinuation(c, phase)
  <2>1. pc' = "failed" /\ saved' = saved
    BY <1>1, <1>2 DEF observeBoundary, Stop
  <2>2. LateSummary(c)
    BY <1>2 DEF Sound
  <2>3. (saved.state.unsaid = 0 => Filed(saved.phase, saved.state))'
    BY <2>1 DEF Books
  <2>4. BoundariesValid'
    BY <1>1, <2>2 DEF BoundariesValid
  <2> QED BY <2>1, <2>3, <2>4 DEF Books
<1>3. CASE ValidateContinuation(c, phase)
  <2>1. saved' = saved \/ saved' = [phase |-> phase, state |-> c]
    BY <1>1, <1>3 DEF observeBoundary
  <2>2. /\ pc' \in {next, "failed"} /\ failure' # "invalid"
    BY <1>1, <1>3 DEF observeBoundary, Stop, None
  <2>3. Filed(phase, c)
    BY <1>3
  <2>4. (saved.state.unsaid = 0 => Filed(saved.phase, saved.state))'
    <3>1. CASE saved' = saved
      BY <3>1 DEF Books
    <3>2. CASE saved' = [phase |-> phase, state |-> c]
      <4>1. saved'.phase = phase /\ saved'.state = c
        BY <3>2
      <4> QED BY <2>3, <4>1
    <3> QED BY <2>1, <3>1, <3>2
  <2>5. BoundariesValid'
    BY <2>2 DEF BoundariesValid
  <2>6. /\ pc' \notin {"failed", "done"} => Sound(live') /\ Standing(pc', live')
        /\ Held(pc', live') = live'
    BY <1>1, <2>2 DEF Held
  <2> QED BY <2>4, <2>5, <2>6 DEF Books
<1> QED BY <1>2, <1>3

(* A boundary after an answer that says nothing. *)
LEMMA BooksSilent ==
    ASSUME Books, NEW d \in States, d.unsaid = 0, d.messages # << >>, d.steps # << >>,
           Last(d.messages) = Plain("assistant"), Sound(d), Closed(d),
           NEW phase, observeBoundary(Withheld(d), phase, "silent")
    PROVE  Books'
<1> DEFINE c == Withheld(d)
<1>1. Held("silent", c) = d /\ c.unsaid = 1
  BY WithheldHeld
<1>2. live' = c /\ pc' \in {"silent", "failed"} /\ (saved' = saved \/ saved'.state = live')
  BY BoundaryStores
<1> HIDE DEF c
<1>3. CASE pc' = "failed"
  <2>1. Held(pc', live') = live'
    BY <1>3 DEF Held
  <2> QED BY <1>1, <1>2, <2>1, BooksMissing
<1>4. CASE pc' = "silent"
  <2>1. Sound(Held(pc', live')) /\ Standing(pc', Held(pc', live'))
    BY <1>1, <1>2, <1>4 DEF Standing
  <2>2. (saved.state.unsaid = 0 => Filed(saved.phase, saved.state))'
    <3>1. CASE saved' = saved
      BY <3>1 DEF Books
    <3>2. CASE saved'.state = live'
      BY <1>1, <1>2, <3>2
    <3> QED BY <1>2, <3>1, <3>2
  <2>3. BoundariesValid'
    BY <1>1, <1>2 DEF BoundariesValid, AnswerMissing
  <2> QED BY <2>1, <2>2, <2>3 DEF Books
<1> QED BY <1>2, <1>3, <1>4

(* A turn on a state that is ready for one. *)
LEMMA TurnSound ==
    ASSUME NEW c \in States, Ready(c), NEW x \in Nat, NEW t \in Nat, NEW m \in Message,
           m.role = "assistant", m.op <= c.opTurn, m.calls > 0 => m.op = c.opTurn,
           NEW v \in {"continue", "finish"}, NEW o \in {None, "pause"}, NEW d,
           d = Recorded(Turned(c, x, t), m, NewStep(Turned(c, x, t), t, v, o))
    PROVE  /\ d \in States /\ Sound(d) /\ TightRow(d, Len(d.steps))
           /\ m.calls = 0 => Closed(d)
           /\ m.calls > 0 => Open(d) /\ Pending(d.messages)
           /\ d.steps # << >> /\ d.messages # << >> /\ Last(d.messages) = m
           /\ Latest(d).decision = v /\ Latest(d).traces = 0
<1> DEFINE e == Turned(c, x, t)
           s == NewStep(e, t, v, o)
           b == Summarised(c, x)
<1>1. e \in States
  BY TurnedGrows DEF Grows
<1>2. b \in States /\ Ready(b) /\ b.opTurn = c.opTurn
  BY RaisedReady, SummarisedGrows
<1> HIDE DEF b
<1>3. /\ s.model = t /\ s.tokens = e.usage /\ s.calls = e.toolCallsUsed /\ s.context = e.context
      /\ s.traces = 0 /\ s.decision = v /\ s.observed = o
  BY DEF NewStep
<1>4. s \in Entry /\ o # "recovery"
  BY <1>1, NewStepTyped DEF None
<1>5. d = Recorded(e, m, s)
  OBVIOUS
<1> HIDE DEF s
<1>7. Noted(b, d, m, t)
  BY <1>3, <1>4, <1>5, RecordedNotes DEF e, b
<1> HIDE DEF e
<1>8. d \in States /\ Latest(d) = s
  <2>1. d \in States
    <3>1. m.role # "correction" /\ s.observed # "recovery"
      BY <1>3, <1>4
    <3> QED BY <1>1, <1>4, <1>5, <3>1, RecordedGrows DEF Grows
  <2>2. d.steps = Append(e.steps, s) /\ e.steps \in Seq(Entry)
    BY <1>1, <1>5, Fielded DEF Recorded, States
  <2> QED BY <1>4, <2>1, <2>2 DEF Latest
<1>9. m.op <= b.opTurn /\ (m.calls > 0 => m.op = b.opTurn)
  BY <1>2
<1>10. /\ Sound(d) /\ TightRow(d, Len(d.steps))
       /\ m.calls = 0 => Closed(d)
       /\ m.calls > 0 => Open(d) /\ Pending(d.messages)
       /\ d.steps # << >> /\ d.messages # << >> /\ Last(d.messages) = m
  BY <1>2, <1>7, <1>8, <1>9, NotedSound
<1> QED BY <1>3, <1>8, <1>10

(* A continuation with nothing open is filed. *)
LEMMA ReadyFiled ==
    ASSUME NEW c \in States, Ready(c)
    PROVE  /\ Exact(c) => ValidateContinuation(c, "ready")
           /\ ValidateContinuation(c, "ready") => Filed("ready", c)
<1>1. Sound(c) /\ Closed(c) /\ Account(c) /\ (c.steps # << >> => Latest(c).decision = "continue")
  BY DEF Ready, Standing, Sound
<1>2. PhaseTranscript(c.messages, "ready") /\ PhaseSteps(c, "ready")
  BY <1>1 DEF PhaseTranscript, PhaseSteps, Closed
<1>3. Exact(c) => ValidateContinuation(c, "ready")
  BY <1>1, <1>2, ClosedValid
<1> QED BY <1>3 DEF Filed, Ready

-----------------------------------------------------------------------------
(* The books hold when a run starts. *)

(* A fresh state is ready, whatever history it starts from. *)
LEMMA FreshReady ==
    ASSUME NEW ms \in Histories, Fresh(ms) \in States
    PROVE  Ready(Fresh(ms))
<1> DEFINE c == Fresh(ms)
<1>1. /\ c.messages = ms /\ c.steps = << >> /\ c.usage = 0 /\ c.context = 0
      /\ c.toolCallsUsed = 0 /\ c.opTurn = nextToolOperationTurn(ms)
  BY DEF Fresh
<1>2. Len(c.steps) = 0 /\ ms \in Seq(Message) /\ c.opTurn \in Nat
  BY <1>1, Fielded
<1>3. WellFormed(ms) /\ ~Pending(ms)
  <2>1. CASE ms = << Plain("user") >>
    <3>1. DOMAIN ms = {1} /\ Len(ms) = 1 /\ ms[1].role = "user" /\ ms[1].calls = 0
      BY <2>1 DEF Plain
    <3> QED BY <3>1 DEF WellFormed, Pending
  <2>2. CASE \E r \in Responses : ms = << Plain("user"), ToolResponse(1, 0, r), Plain("tool"),
                                          Plain("assistant"), Plain("user") >>
    <3>1. PICK r \in Responses : ms = << Plain("user"), ToolResponse(1, 0, r), Plain("tool"),
                                         Plain("assistant"), Plain("user") >>
      BY <2>2
    <3>2. /\ DOMAIN ms = 1..5 /\ Len(ms) = 5
          /\ ms[1] = Plain("user") /\ ms[2] = ToolResponse(1, 0, r) /\ ms[3] = Plain("tool")
          /\ ms[4] = Plain("assistant") /\ ms[5] = Plain("user")
      BY <3>1
    <3>3. /\ ms[1].role = "user" /\ ms[2].role = "assistant" /\ ms[3].role = "tool"
          /\ ms[4].role = "assistant" /\ ms[5].role = "user"
          /\ ms[1].calls = 0 /\ ms[2].calls = 1 /\ ms[3].calls = 0
          /\ ms[4].calls = 0 /\ ms[5].calls = 0
      BY <3>2 DEF Plain, ToolResponse
    <3>4. \A i \in 1..5 : i \in {1, 2, 3, 4, 5}
      OBVIOUS
    <3>5. \A i \in 1..5 : ms[i].role = "tool" <=> i = 3
      BY <3>3, <3>4
    <3>6. \A i \in 1..5 : (\E a \in 1..(i - 1) : i <= a + ms[a].calls) <=> i = 3
      <4>1. \A a \in 1..5 : ms[a].calls = IF a = 2 THEN 1 ELSE 0
        BY <3>3, <3>4
      <4>2. \A i \in 1..5 : \A a \in 1..(i - 1) : a \in 1..5 /\ a < i
        OBVIOUS
      <4>3. 2 \in 1..(3 - 1) /\ 2 \in 1..5 /\ 3 <= 2 + 1
        OBVIOUS
      <4>4. ASSUME NEW i \in 1..5, NEW a \in 1..(i - 1), i <= a + ms[a].calls PROVE i = 3
        <5>1. a = 2 /\ ms[a].calls = 1
          BY <4>1, <4>2, <4>4
        <5> QED BY <4>2, <4>4, <5>1
      <4>5. \E a \in 1..(3 - 1) : 3 <= a + ms[a].calls
        BY <4>1, <4>3
      <4> QED BY <4>4, <4>5
    <3>7. WellFormed(ms)
      BY <3>2, <3>5, <3>6 DEF WellFormed
    <3>8. ~Pending(ms)
      <4>1. \A a \in 1..5 : ~(a + ms[a].calls > 5)
        BY <3>3, <3>4
      <4> QED BY <3>2, <4>1 DEF Pending
    <3> QED BY <3>7, <3>8
  <2> QED BY <2>1, <2>2 DEF Histories
<1>4. \A a \in Assistants(ms) : ms[a].op < nextToolOperationTurn(ms)
  <2> DEFINE S == {0} \cup {ms[i].op + 1 : i \in Assistants(ms)}
  <2>1. \A i \in DOMAIN ms : ms[i].op \in {-1, 0}
    BY DEF Histories, Plain, ToolResponse
  <2>2. S \in SUBSET {0, 1}
    BY <2>1 DEF Assistants
  <2>3. IsFiniteSet(S) /\ S # {} /\ S \in SUBSET Int
    <3>1. IsFiniteSet({0, 1})
      <4>1. IsFiniteSet({0}) /\ IsFiniteSet({1}) /\ {0, 1} = {0} \cup {1}
        BY FS_Singleton
      <4> QED BY <4>1, FS_Union
    <3>2. IsFiniteSet(S)
      BY <2>2, <3>1, FS_Subset
    <3> QED BY <2>2, <3>2
  <2>4. Max(S) \in S /\ \A y \in S : Max(S) >= y
    BY <2>3, MaxIs
  <2>5. \A a \in Assistants(ms) : ms[a].op + 1 \in S /\ ms[a].op \in Int
    BY <2>1 DEF Assistants
  <2>6. nextToolOperationTurn(ms) = Max(S)
    BY DEF nextToolOperationTurn
  <2> HIDE DEF S
  <2>7. Max(S) \in Int
    BY <2>3, <2>4
  <2> QED BY <2>4, <2>5, <2>6, <2>7
<1>5. Placed(c) /\ Totals(c) /\ Exact(c)
  BY <1>1, <1>2 DEF Placed, Totals, Exact
<1>6. Account(c)
  BY <1>1, <1>2, <1>3, <1>4, <1>5 DEF Account
<1>7. Sound(c) /\ Closed(c)
  BY <1>1, <1>3, <1>5, <1>6 DEF Sound, Closed
<1> HIDE DEF c
<1> QED BY <1>1, <1>7 DEF Ready, Standing, c

(* The books hold initially. *)
LEMMA InitBooks == Init => Books
<1> SUFFICES ASSUME Init PROVE Books OBVIOUS
<1>1. PICK ms \in Histories : live = Fresh(ms)
  BY DEF Init
<1>2. live \in States
  BY InitBook DEF BookInv, Book
<1>3. Ready(live)
  BY <1>1, <1>2, FreshReady
<1>4. pc = "top" /\ failure = None /\ saved.phase = None
  BY DEF Init, NotSaved
<1>5. Filed(saved.phase, saved.state)
  BY <1>4 DEF Filed, None
<1>6. BoundariesValid
  BY <1>4 DEF BoundariesValid, None
<1>7. Held(pc, live) = live
  BY <1>4 DEF Held
<1> QED BY <1>3, <1>4, <1>5, <1>6, <1>7 DEF Books, Ready

-----------------------------------------------------------------------------
(* Every step keeps the books. *)

(* A response that calls tools is recorded and filed. *)
LEMMA ResponseFiled ==
    ASSUME NEW d \in States, Sound(d), TightRow(d, Len(d.steps)), Open(d), Pending(d.messages),
           Latest(d).decision = "continue", Latest(d).traces = 0,
           Repeats(d, Last(d.messages), "continue")
    PROVE  /\ Exact(d) => ValidateContinuation(d, "model_complete")
           /\ ValidateContinuation(d, "model_complete") => Filed("model_complete", d)
<1>1. Exact(d) => ValidateContinuation(d, "model_complete")
  BY OpenValid DEF Sound
<1> QED BY <1>1 DEF Filed

(* So is an answer. *)
LEMMA AnswerFiled ==
    ASSUME NEW d \in States, Sound(d), Closed(d), d.steps # << >>, d.messages # << >>,
           Last(d.messages) = Plain("assistant"), Latest(d).decision = "finish",
           Repeats(d, Plain("assistant"), "finish")
    PROVE  /\ Exact(d) => ValidateContinuation(d, "validating_output")
           /\ ValidateContinuation(d, "validating_output") => Filed("validating_output", d)
<1>1. PhaseTranscript(d.messages, "validating_output") /\ PhaseSteps(d, "validating_output")
  BY DEF PhaseTranscript, PhaseSteps, Closed, Plain
<1>2. Exact(d) => ValidateContinuation(d, "validating_output")
  BY <1>1, ClosedValid DEF Sound
<1> QED BY <1>2 DEF Filed, Standing

(* So is a batch that ran. *)
LEMMA BatchFiled ==
    ASSUME NEW d \in States, Sound(d), Closed(d), d.steps # << >>, d.messages # << >>,
           Last(d.messages).role = "tool", Latest(d).traces > 0
    PROVE  /\ Exact(d) => ValidateContinuation(d, "tools_complete")
           /\ ValidateContinuation(d, "tools_complete") => Filed("tools_complete", d)
<1>1. PhaseTranscript(d.messages, "tools_complete") /\ PhaseSteps(d, "tools_complete")
  BY DEF PhaseTranscript, PhaseSteps, Closed
<1>2. Exact(d) => ValidateContinuation(d, "tools_complete")
  BY <1>1, ClosedValid DEF Sound
<1> QED BY <1>2 DEF Filed, Standing

(* The decision of a batch's Step leads where its state may stand. *)
LEMMA DecisionStands ==
    ASSUME NEW v \in {"continue", "finish", "fail"}, NEW d, Closed(d), d.steps # << >>,
           Latest(d).decision = v
    PROVE  LET next == CASE v = "continue" -> "top" [] v = "finish" -> "finished" [] OTHER -> "failed"
           IN  next # "failed" => Standing(next, d)
<1>1. CASE v = "continue"
  BY <1>1 DEF Standing
<1>2. CASE v = "finish"
  BY <1>2 DEF Standing
<1>3. CASE v = "fail"
  BY <1>3
<1> QED BY <1>1, <1>2, <1>3

(* Every step of the loop and every crash keeps the books that are held. *)
LEMMA HeldBooks ==
    ASSUME BookInv, Controls, Books, Held(pc, live).unsaid = 0, Loop \/ offerInput \/ crash
    PROVE  Books'
<1> USE LoopAssumption
<1>0. /\ live \in States /\ saved.state \in States
      /\ pc \notin {"failed", "done", "silent"} =>
            Sound(live) /\ Standing(pc, live) /\ live.unsaid = 0
      /\ Place(pc, live)
      /\ pc # "failed" => failure # "invalid"
  BY DEF BookInv, Book, Books, Controls, None, Held
<1>01. live \in States
  BY <1>0
<1>00. /\ pc \in {"top", "model"} => Ready(live)
       /\ pc \in {"validate", "finished"} => Sound(live) /\ Closed(live) /\ live.steps # << >>
  BY <1>0 DEF Ready, Standing
<1>000. \A c : Ready(c) => Sound(c) /\ Standing("top", c) /\ Standing("model", c)
  BY DEF Ready, Standing
<1>02. Judging =>
         /\ Judged \in States /\ Judged.steps = live.steps /\ live.steps # << >>
         /\ Judged.messages # << >> /\ Sound(Judged) /\ Closed(Judged)
         /\ IsState(live) /\ (pc = "validate" => live.messages # << >>)
         /\ \A said : Finalized(said).unsaid = IF said THEN 0 ELSE 1
  <2> SUFFICES ASSUME Judging
               PROVE  /\ Judged \in States /\ Judged.steps = live.steps /\ live.steps # << >>
                      /\ Judged.messages # << >> /\ Sound(Judged) /\ Closed(Judged)
                      /\ IsState(live) /\ (pc = "validate" => live.messages # << >>)
                      /\ \A said : Finalized(said).unsaid = IF said THEN 0 ELSE 1
    OBVIOUS
  <2>1. pc \in {"validate", "silent"} /\ Judged = Held(pc, live)
    BY DEF Judging, Judged, Held
  <2>2. /\ Grows(live, Judged) /\ Judged.steps = live.steps /\ live.steps # << >>
        /\ Judged.messages # << >>
    BY <1>0, <2>1, JudgedGrows
  <2>3. Sound(Judged) /\ Closed(Judged)
    BY <2>1 DEF Books, Standing
  <2>4. Judged.unsaid = 0
    BY <2>1
  <2>5. \A said : Finalized(said).unsaid = IF said THEN 0 ELSE 1
    BY <1>0, <2>1, <2>4, FinalizedGrows
  <2>6. pc = "validate" => live.messages # << >>
    BY <1>0 DEF Place, Uncorrected
  <2> QED BY <1>0, <2>2, <2>3, <2>5, <2>6, StatesTyped DEF Grows
<1>1. CASE leaveLoop
  <2>1. /\ UNCHANGED saved /\ live' = live /\ pc = "top" /\ Len(live.steps) >= MaxIterations
        /\ \/ pc' = "failed" /\ failure' = "incomplete"
           \/ pc' = "finished" /\ failure' = failure
    BY <1>1, <1>0, Fielded DEF leaveLoop, Fail, Stop, iterationAllowed
  <2>2. live.steps # << >>
    <3>1. Len(live.steps) # 0 BY <2>1
    <3> QED BY <3>1
  <2>3. Sound(live) /\ Standing("finished", live)
    BY <1>00, <2>1, <2>2 DEF Ready, Standing
  <2> QED BY <1>0, <2>1, <2>3, BooksStay
<1>2. CASE prepareTurn
  <2>1. pc = "top" BY <1>2 DEF prepareTurn
  <2>2. CASE Fail(Taken(live), "budget") /\ UNCHANGED saved
    BY <2>2, BooksStay DEF Fail, Stop
  <2>3. CASE \E k \in ContextTokens : observeBoundary(Summarised(Taken(live), k), "ready", "model")
    <3>1. PICK k \in ContextTokens : observeBoundary(Summarised(Taken(live), k), "ready", "model")
      BY <2>3
    <3> DEFINE c == Taken(live)
               d == Summarised(c, k)
    <3>2. c \in States /\ Ready(c) /\ k \in Nat
      BY <1>0, <1>00, <2>1, TakenReady
    <3>3. observeBoundary(d, "ready", "model") BY <3>1
    <3> HIDE DEF c
    <3>4. d \in States /\ Ready(d) BY <3>2, RaisedReady
    <3> HIDE DEF d
    <3>5. /\ Exact(d) => ValidateContinuation(d, "ready")
          /\ ValidateContinuation(d, "ready") => Filed("ready", d)
      BY <3>4, ReadyFiled
    <3>6. Sound(d) /\ Standing("model", d) BY <1>000, <3>4
    <3> QED BY <3>3, <3>5, <3>6, BooksBoundary
  <2> QED BY <1>2, <2>2, <2>3 DEF prepareTurn
<1>3. CASE turnCallsTools
  <2>1. PICK n \in 1..MaxCalls, r \in Responses, t \in TurnTokens, k \in ContextTokens :
            beginToolStep(Turned(live, k, t), ToolResponse(n, live.opTurn, r), t)
    BY <1>3 DEF turnCallsTools
  <2> DEFINE c == Turned(live, k, t)
             m == ToolResponse(n, live.opTurn, r)
             d == Recorded(c, m, NewStep(c, t, "continue", None))
  <2>2. t \in Nat /\ k \in Nat BY <2>1
  <2>3. Ready(live) BY <1>00, <1>3 DEF turnCallsTools
  <2>4. m \in ToolAsk /\ m.op = live.opTurn /\ m.calls > 0 /\ live.opTurn \in Nat
    BY <1>0, Fielded DEF ToolAsk, ToolResponse
  <2>5. observeBoundary(d, "model_complete", "dispatch")
    BY <2>1 DEF beginToolStep
  <2> HIDE DEF m
  <2>6. m \in Message /\ m.role = "assistant" /\ m.op <= live.opTurn
    BY <2>4, MessagesMade DEF ToolAsk
  <2>7. d = Recorded(c, m, NewStep(c, t, "continue", None))
    OBVIOUS
  <2> HIDE DEF d
  <2>8. /\ d \in States /\ Sound(d) /\ TightRow(d, Len(d.steps)) /\ Open(d) /\ Pending(d.messages)
        /\ Last(d.messages) = m /\ Latest(d).decision = "continue" /\ Latest(d).traces = 0
    <3>1. None \in {None, "pause"} /\ "continue" \in {"continue", "finish"}
      OBVIOUS
    <3>2. d = Recorded(Turned(live, k, t), m, NewStep(Turned(live, k, t), t, "continue", None))
      BY <2>7
    <3>3. m.calls > 0 /\ m.op = live.opTurn
      BY <2>4
    <3> HIDE DEF c
    <3>4. d \in States /\ Sound(d) /\ TightRow(d, Len(d.steps))
      BY <1>01, <2>2, <2>3, <2>6, <3>1, <3>2, <3>3, TurnSound
    <3>5. Open(d) /\ Pending(d.messages)
      BY <1>01, <2>2, <2>3, <2>6, <3>1, <3>2, <3>3, TurnSound
    <3>6. Last(d.messages) = m /\ Latest(d).decision = "continue" /\ Latest(d).traces = 0
      BY <1>01, <2>2, <2>3, <2>6, <3>1, <3>2, <3>3, TurnSound
    <3> QED BY <3>4, <3>5, <3>6
  <2>9. Repeats(d, m, "continue")
    <3>1. c \in States
      BY <1>01, <2>2, TurnedGrows DEF Grows
    <3> HIDE DEF c
    <3> QED BY <2>2, <2>6, <2>7, <3>1, RecordedRepeats
  <2>10. /\ Exact(d) => ValidateContinuation(d, "model_complete")
         /\ ValidateContinuation(d, "model_complete") => Filed("model_complete", d)
    <3>1. Repeats(d, Last(d.messages), "continue")
      BY <2>8, <2>9
    <3>2. /\ d \in States /\ Sound(d) /\ TightRow(d, Len(d.steps)) /\ Open(d) /\ Pending(d.messages)
          /\ Latest(d).decision = "continue" /\ Latest(d).traces = 0
      BY <2>8
    <3>3. Exact(d) => ValidateContinuation(d, "model_complete")
      BY <3>1, <3>2, ResponseFiled
    <3>4. ValidateContinuation(d, "model_complete") => Filed("model_complete", d)
      BY <3>1, <3>2, ResponseFiled
    <3> QED BY <3>3, <3>4
  <2>11. Standing("dispatch", d)
    BY <2>8 DEF Standing
  <2>12. Sound(d)
    BY <2>8
  <2> HIDE DEF c
  <2> QED BY <2>5, <2>10, <2>11, <2>12, BooksBoundary
<1>4. CASE turnAnswers
  <2>1. PICK said \in Answers, t \in TurnTokens, k \in ContextTokens :
            beginFinalStep(Turned(live, k, t), said, t)
    BY <1>4 DEF turnAnswers
  <2> DEFINE c == Turned(live, k, t)
             m == Plain("assistant")
             d == Recorded(c, m, NewStep(c, t, "finish", None))
  <2>2. t \in Nat /\ k \in Nat BY <2>1
  <2>3. Ready(live) BY <1>00, <1>4 DEF turnAnswers
  <2>4. m \in Message /\ m.role = "assistant" /\ m.calls = 0 /\ m.op <= live.opTurn
    BY <1>0, MessagesMade, Fielded DEF Plain
  <2>5. IF said THEN observeBoundary(d, "validating_output", "validate")
        ELSE observeBoundary(Withheld(d), "validating_output", "silent")
    BY <2>1 DEF beginFinalStep
  <2>6. m = Plain("assistant")
    OBVIOUS
  <2> HIDE DEF m
  <2>7. d = Recorded(c, m, NewStep(c, t, "finish", None))
    OBVIOUS
  <2> HIDE DEF d
  <2>8. /\ d \in States /\ Sound(d) /\ Closed(d) /\ d.steps # << >> /\ d.messages # << >>
        /\ Last(d.messages) = m /\ Latest(d).decision = "finish" /\ Repeats(d, m, "finish")
    <3>1. None \in {None, "pause"} /\ "finish" \in {"continue", "finish"}
      OBVIOUS
    <3>2. d = Recorded(Turned(live, k, t), m, NewStep(Turned(live, k, t), t, "finish", None))
      BY <2>7
    <3>3. c \in States
      BY <1>01, <2>2, TurnedGrows DEF Grows
    <3> HIDE DEF c
    <3>4. Repeats(d, m, "finish")
      BY <2>2, <2>4, <2>7, <3>3, RecordedRepeats
    <3>5. m.calls > 0 => m.op = live.opTurn
      BY <2>4
    <3>6. d \in States /\ Sound(d) /\ Closed(d)
      BY <1>01, <2>2, <2>3, <2>4, <3>1, <3>2, <3>5, TurnSound
    <3>7. d.steps # << >> /\ d.messages # << >>
      BY <1>01, <2>2, <2>3, <2>4, <3>1, <3>2, <3>5, TurnSound
    <3>8. Last(d.messages) = m /\ Latest(d).decision = "finish"
      BY <1>01, <2>2, <2>3, <2>4, <3>1, <3>2, <3>5, TurnSound
    <3> QED BY <3>4, <3>6, <3>7, <3>8
  <2>9. /\ Exact(d) => ValidateContinuation(d, "validating_output")
        /\ ValidateContinuation(d, "validating_output") => Filed("validating_output", d)
    BY <2>6, <2>8, AnswerFiled
  <2>10. Standing("validate", d)
    BY <2>8 DEF Standing
  <2>11. CASE said
    BY <2>5, <2>8, <2>9, <2>10, <2>11, BooksBoundary
  <2>12. CASE ~said
    <3>1. d.unsaid = 0
      <4>1. live.unsaid = 0 /\ IsState(live)
        BY <1>0, <1>4, StatesTyped DEF turnAnswers
      <4>2. IsState(c) /\ c.unsaid = 0
        BY <4>1, TurnedKeeps
      <4>3. m \in Msg
        BY <2>6, MessagesTyped
      <4> HIDE DEF c
      <4> QED BY <2>7, <4>2, <4>3, RecordedKeeps
    <3>2. observeBoundary(Withheld(d), "validating_output", "silent")
      BY <2>5, <2>12
    <3> QED BY <2>6, <2>8, <3>1, <3>2, BooksSilent
  <2> QED BY <2>11, <2>12
<1>5. CASE turnPauses
  <2>1. PICK t \in TurnTokens, k \in ContextTokens :
            LET c == Turned(live, k, t)
                d == Recorded(c, Plain("assistant"), NewStep(c, t, "continue", "pause"))
            IN  \/ Fail(Decide(d, "fail"), "pause") /\ UNCHANGED saved
                \/ observeBoundary(d, "ready", "top")
    BY <1>5 DEF turnPauses
  <2> DEFINE c == Turned(live, k, t)
             m == Plain("assistant")
             d == Recorded(c, m, NewStep(c, t, "continue", "pause"))
  <2>2. t \in Nat /\ k \in Nat BY <2>1
  <2>3. Ready(live) BY <1>00, <1>5 DEF turnPauses
  <2>4. m \in Message /\ m.role = "assistant" /\ m.calls = 0 /\ m.op <= live.opTurn
    BY <1>0, MessagesMade, Fielded DEF Plain
  <2>5. \/ Fail(Decide(d, "fail"), "pause") /\ UNCHANGED saved
        \/ observeBoundary(d, "ready", "top")
    BY <2>1
  <2> HIDE DEF m
  <2>6. d = Recorded(c, m, NewStep(c, t, "continue", "pause"))
    OBVIOUS
  <2> HIDE DEF d
  <2>7. d \in States /\ Sound(d) /\ Closed(d) /\ Latest(d).decision = "continue"
    <3>1. "pause" \in {None, "pause"} /\ "continue" \in {"continue", "finish"}
      OBVIOUS
    <3>2. d = Recorded(Turned(live, k, t), m, NewStep(Turned(live, k, t), t, "continue", "pause"))
      BY <2>6
    <3>3. m.calls > 0 => m.op = live.opTurn
      BY <2>4
    <3> HIDE DEF c
    <3>4. d \in States /\ Sound(d)
      BY <1>01, <2>2, <2>3, <2>4, <3>1, <3>2, <3>3, TurnSound
    <3>5. Closed(d) /\ Latest(d).decision = "continue"
      BY <1>01, <2>2, <2>3, <2>4, <3>1, <3>2, <3>3, TurnSound
    <3> QED BY <3>4, <3>5
  <2>8. Ready(d)
    BY <2>7 DEF Ready, Standing
  <2>9. CASE Fail(Decide(d, "fail"), "pause") /\ UNCHANGED saved
    BY <2>9, BooksStay DEF Fail, Stop
  <2>10. CASE observeBoundary(d, "ready", "top")
    <3>1. /\ Exact(d) => ValidateContinuation(d, "ready")
          /\ ValidateContinuation(d, "ready") => Filed("ready", d)
      BY <2>7, <2>8, ReadyFiled
    <3>2. Sound(d) /\ Standing("top", d) BY <1>000, <2>8
    <3> QED BY <2>10, <3>1, <3>2, BooksBoundary
  <2> QED BY <2>5, <2>9, <2>10
<1>6. CASE turnInterrupted
  <2>1. pc = "model" /\ pc' = "top" /\ saved' = saved /\ failure' = failure
    BY <1>6 DEF turnInterrupted
  <2>2. Ready(live) BY <1>00, <2>1
  <2>3. Ready(live')
    <3>1. CASE \E k \in ContextTokens : live' = Summarised(live, k)
      BY <1>0, <2>2, <3>1, RaisedReady
    <3>2. CASE \E t \in TurnTokens, k \in ContextTokens :
                   live' = Recorded(Turned(live, k, t), Plain("assistant"),
                                    NewStep(Turned(live, k, t), t, "continue", None))
      <4>1. PICK t \in TurnTokens, k \in ContextTokens :
                   live' = Recorded(Turned(live, k, t), Plain("assistant"),
                                    NewStep(Turned(live, k, t), t, "continue", None))
        BY <3>2
      <4> DEFINE m == Plain("assistant")
      <4>2. m \in Message /\ m.role = "assistant" /\ m.calls = 0 /\ m.op <= live.opTurn
        BY <1>0, MessagesMade, Fielded DEF Plain
      <4>3. t \in Nat /\ k \in Nat BY <4>1
      <4>4. live' = Recorded(Turned(live, k, t), m, NewStep(Turned(live, k, t), t, "continue", None))
        BY <4>1
      <4> HIDE DEF m
      <4>5. Sound(live') /\ Closed(live') /\ Latest(live').decision = "continue"
        <5>1. None \in {None, "pause"} /\ "continue" \in {"continue", "finish"}
          OBVIOUS
        <5>2. m.calls > 0 => m.op = live.opTurn
          BY <4>2
        <5>3. Sound(live') /\ Closed(live')
          BY <1>01, <2>2, <4>2, <4>3, <4>4, <5>1, <5>2, TurnSound
        <5>4. Latest(live').decision = "continue"
          BY <1>01, <2>2, <4>2, <4>3, <4>4, <5>1, <5>2, TurnSound
        <5> QED BY <5>3, <5>4
      <4> QED BY <4>5 DEF Ready, Standing
    <3> QED BY <1>6, <3>1, <3>2 DEF turnInterrupted
  <2> QED BY <1>0, <1>000, <2>1, <2>3, BooksStay
<1>7. CASE turnFails
  <2>1. \E c : Fail(c, "provider") BY <1>7 DEF turnFails
  <2>2. saved' = saved /\ pc' = "failed" /\ failure' = "provider"
    BY <1>7, <2>1 DEF turnFails, Fail, Stop
  <2> QED BY <2>2, BooksStay
<1>8. CASE dispatchTools
  <2>1. pc = "dispatch" /\ saved' = saved
    BY <1>8 DEF dispatchTools
  <2>2. Sound(live) /\ Open(live)
    BY <1>0, <2>1 DEF Standing
  <2>3. \/ \E c : Fail(c, "max tokens")
        \/ \E c : Fail(c, "tool")
        \/ \E c : Fail(c, preDispatchBudgetBlock(live, Batch(live)))
        \/ /\ pc' = "executed" /\ failure' = failure
           /\ \E u \in ChildTokens : live' = Executed(live, Batch(live), u)
    BY <1>8 DEF dispatchTools
  <2>4. preDispatchBudgetBlock(live, Batch(live)) # "invalid"
    BY DEF preDispatchBudgetBlock, budgetRemaining, None
  <2>5. CASE \E c : Fail(c, "max tokens")
    BY <2>1, <2>5, BooksStay DEF Fail, Stop
  <2>6. CASE \E c : Fail(c, "tool")
    BY <2>1, <2>6, BooksStay DEF Fail, Stop
  <2>7. CASE \E c : Fail(c, preDispatchBudgetBlock(live, Batch(live)))
    BY <2>1, <2>4, <2>7, BooksStay DEF Fail, Stop
  <2>8. CASE /\ pc' = "executed" /\ failure' = failure
             /\ \E u \in ChildTokens : live' = Executed(live, Batch(live), u)
    <3>1. PICK u \in ChildTokens : live' = Executed(live, Batch(live), u)
      BY <2>8
    <3>2. u \in Nat BY <3>1
    <3>3. live' \in States /\ Fulfilled(live, live', u)
      BY <1>0, <2>2, <3>1, <3>2, ExecutedFulfils DEF Sound
    <3>4. Sound(live') /\ Ran(live')
      BY <1>0, <2>2, <3>2, <3>3, FulfilledSound
    <3>5. Standing("executed", live')
      BY <3>4 DEF Standing
    <3> QED BY <1>0, <2>1, <2>8, <3>4, <3>5, BooksStay
  <2> QED BY <2>3, <2>5, <2>6, <2>7, <2>8
<1>9. CASE finalizeToolStep
  <2>1. pc = "executed" BY <1>9 DEF finalizeToolStep
  <2>2. Sound(live) /\ Ran(live)
    BY <1>0, <2>1 DEF Standing
  <2>3. PICK v \in stepDecisionOverride :
            observeBoundary(
                WithLatest(live, [Latest(live) EXCEPT !.traces = Asked(live).calls,
                                                      !.context = live.context, !.decision = v]),
                "tools_complete",
                CASE v = "continue" -> "top" [] v = "finish" -> "finished" [] OTHER -> "failed")
    BY <1>9 DEF finalizeToolStep
  <2> DEFINE d == WithLatest(live, Traced(live, v))
             next == CASE v = "continue" -> "top" [] v = "finish" -> "finished" [] OTHER -> "failed"
  <2>4. v \in {"continue", "finish", "fail"} BY DEF stepDecisionOverride
  <2>5. observeBoundary(d, "tools_complete", next) BY <2>3 DEF Traced
  <2>6. d = WithLatest(live, Traced(live, v))
    OBVIOUS
  <2> HIDE DEF d
  <2>7. /\ d \in States /\ Sound(d) /\ Closed(d) /\ d.messages = live.messages /\ d.steps # << >>
        /\ Latest(d).decision = v /\ Latest(d).traces > 0
    BY <1>01, <2>2, <2>4, <2>6, TracedSound
  <2>8. d.messages # << >> /\ Last(d.messages).role = "tool"
    BY <2>2, <2>7 DEF Ran
  <2>9. /\ Exact(d) => ValidateContinuation(d, "tools_complete")
        /\ ValidateContinuation(d, "tools_complete") => Filed("tools_complete", d)
    BY <2>7, <2>8, BatchFiled
  <2>10. Closed(d) /\ d.steps # << >> /\ Latest(d).decision = v
    BY <2>7
  <2>11. next # "failed" => Standing(next, d)
    BY <2>4, <2>10, DecisionStands
  <2>12. Sound(d)
    BY <2>7
  <2>13. next # "silent"
    BY <2>4
  <2> HIDE DEF next
  <2> QED BY <2>5, <2>9, <2>11, <2>12, <2>13, BooksBoundary
<1>10. CASE guardrailRetry
  <2>1. pc' = "top" /\ saved' = saved /\ failure' = failure /\ pc # "failed" /\ Judging
    BY <1>10 DEF guardrailRetry, Judging
  <2>2. PICK keep \in KeepRejected : live' = Decide(RetryContext(keep), "continue")
    BY <1>10 DEF guardrailRetry
  <2> DEFINE said == keep /\ pc = "validate"
             c == [Finalized(said) EXCEPT !.messages = Append(@, Plain("user"))]
  <2>3. live' = Decide(c, "continue")
    BY <2>2 DEF RetryContext
  <2>4. CASE said
    <3>1. c = [Judged EXCEPT !.messages = Append(@, Plain("user"))]
      BY <2>4 DEF Finalized
    <3> HIDE DEF c
    <3>2. c \in States /\ c.steps # << >> /\ Sound(c) /\ Closed(c)
      BY <1>02, <2>1, <3>1, SaidSound
    <3>3. Ready(live')
      BY <2>3, <3>2, DecideSound DEF Ready, Standing
    <3> QED BY <1>0, <1>000, <2>1, <3>3, BooksStay
  <2>5. CASE ~said
    <3>1. IsState(c) /\ c.unsaid = 1
      <4>1. IsState(live) /\ (pc = "validate" => live.messages # << >>)
        BY <1>02, <2>1
      <4>2. Finalized(said).unsaid = 1
        BY <1>02, <2>1, <2>5
      <4> HIDE DEF said
      <4> QED BY <4>1, <4>2, ContinuedKeeps
    <3> HIDE DEF c
    <3>2. live'.unsaid = 1
      BY <2>3, <3>1, DecideKeeps
    <3> QED BY <2>1, <3>2, BooksMissing DEF Held
  <2> QED BY <2>4, <2>5
<1>11. CASE responseRecovery
  <2> DEFINE D(said) == [Finalized(said) EXCEPT !.messages = Append(@, Plain("correction"))]
             s == [Latest(live) EXCEPT !.decision = "continue", !.observed = "recovery"]
  <2>1. /\ Judging /\ saved' = saved /\ pc # "failed"
        /\ \/ Fail(Decide(live, "fail"), "repair")
           \/ /\ \E said \in Answers : live' = WithLatest(D(said), s)
              /\ pc' = "top" /\ failure' = failure
    BY <1>11 DEF responseRecovery, Judging
  <2>2. CASE Fail(Decide(live, "fail"), "repair")
    BY <2>1, <2>2, BooksStay DEF Fail, Stop
  <2>3. CASE (\E said \in Answers : live' = WithLatest(D(said), s)) /\ pc' = "top" /\ failure' = failure
    <3>1. PICK said \in Answers : live' = WithLatest(D(said), s)
      BY <2>3
    <3> DEFINE d == D(said)
    <3>2. live' = WithLatest(d, s)
      BY <3>1
    <3>3. /\ s \in Entry /\ s.model = Latest(live).model /\ s.tokens = Latest(live).tokens
          /\ s.calls = Latest(live).calls /\ s.context = Latest(live).context
          /\ s.traces = Latest(live).traces /\ s.decision = "continue"
      BY <1>0, <1>02, <2>1, LatestTyped DEF Entry
    <3> HIDE DEF s
    <3>4. CASE said
      <4>1. d = [Judged EXCEPT !.messages = Append(@, Plain("correction"))]
        BY <3>4 DEF Finalized
      <4> HIDE DEF d
      <4>2. d \in States /\ d.steps = live.steps /\ Sound(d) /\ Closed(d)
        BY <1>02, <2>1, <4>1, SaidSound
      <4>3. Latest(d) = Latest(live) /\ d.steps # << >>
        BY <1>02, <2>1, <4>2 DEF Latest
      <4>4. Sound(WithLatest(d, s)) /\ Closed(WithLatest(d, s)) /\ Latest(WithLatest(d, s)) = s
        BY <3>3, <4>2, <4>3, LatestSound
      <4>5. Ready(live')
        BY <3>2, <3>3, <4>4 DEF Ready, Standing
      <4> QED BY <1>0, <1>000, <2>1, <2>3, <4>5, BooksStay
    <3>5. CASE ~said
      <4>1. IsState(d) /\ d.unsaid = 1
        <5>1. IsState(live) /\ (pc = "validate" => live.messages # << >>)
          BY <1>02, <2>1
        <5>2. Finalized(said).unsaid = 1
          BY <1>02, <2>1, <3>5
        <5> QED BY <5>1, <5>2, ContinuedKeeps
      <4> HIDE DEF d
      <4>2. live'.unsaid = 1
        BY <3>2, <4>1, WithLatestKeeps
      <4> QED BY <2>1, <2>3, <4>2, BooksMissing DEF Held
    <3> QED BY <3>4, <3>5
  <2> QED BY <2>1, <2>2, <2>3
<1>12. CASE acceptAnswer
  <2>1. /\ Judging /\ saved' = saved /\ failure' = failure /\ pc # "failed"
        /\ \E said \in Answers :
            \/ live' = Decide(Finalized(said), "continue") /\ pc' = "top"
            \/ live' = Finalized(said) /\ pc' = "finished"
    BY <1>12 DEF acceptAnswer, Judging
  <2>2. PICK said \in Answers : \/ live' = Decide(Finalized(said), "continue") /\ pc' = "top"
                                \/ live' = Finalized(said) /\ pc' = "finished"
    BY <2>1
  <2> DEFINE c == Finalized(said)
  <2>3. CASE said
    <3>1. c = Judged
      BY <2>3 DEF Finalized
    <3> HIDE DEF c
    <3>2. c \in States /\ Sound(c) /\ Closed(c) /\ c.steps # << >>
      BY <1>02, <2>1, <3>1
    <3>3. CASE live' = Decide(c, "continue") /\ pc' = "top"
      <4>1. Ready(live')
        BY <3>2, <3>3, DecideSound DEF Ready, Standing
      <4> QED BY <1>0, <1>000, <2>1, <3>3, <4>1, BooksStay
    <3>4. CASE live' = c /\ pc' = "finished"
      <4>1. Sound(live') /\ Standing("finished", live')
        BY <3>2, <3>4 DEF Standing
      <4> QED BY <1>0, <2>1, <3>4, <4>1, BooksStay
    <3> QED BY <2>2, <3>3, <3>4 DEF c
  <2>4. CASE ~said
    <3>1. IsState(c) /\ c.unsaid = 1
      BY <1>02, <2>1, <2>4, FinalizedKeeps
    <3> HIDE DEF c
    <3>2. live'.unsaid = 1 /\ pc' \in {"top", "finished"}
      BY <2>2, <3>1, DecideKeeps DEF c
    <3> QED BY <2>1, <3>2, BooksMissing DEF Held
  <2> QED BY <2>3, <2>4
<1>13. CASE rejectAnswer
  BY <1>13, BooksStay DEF rejectAnswer, Fail, Stop
<1>14. CASE finishRun
  <2>1. /\ pc = "finished" /\ saved' = saved
        /\ \/ pc' = "done" /\ failure' = failure
           \/ \E c : Fail(c, "repair")
           \/ \E c : Fail(c, "budget")
           \/ /\ live.repairs < MaxRepairs /\ live' = Repaired(live)
              /\ pc' = "top" /\ failure' = failure
    BY <1>14 DEF finishRun
  <2>2. CASE pc' = "done" /\ failure' = failure
    BY <1>0, <2>1, <2>2, BooksStay
  <2>3. CASE \E c : Fail(c, "repair")
    BY <2>1, <2>3, BooksStay DEF Fail, Stop
  <2>4. CASE \E c : Fail(c, "budget")
    BY <2>1, <2>4, BooksStay DEF Fail, Stop
  <2>5. CASE /\ live.repairs < MaxRepairs /\ live' = Repaired(live)
             /\ pc' = "top" /\ failure' = failure
    <3>1. Ready(live')
      BY <1>0, <1>00, <2>1, <2>5, RepairedReady
    <3> QED BY <1>0, <1>000, <2>1, <2>5, <3>1, BooksStay
  <2> QED BY <2>1, <2>2, <2>3, <2>4, <2>5
<1>15. CASE offerInput
  BY <1>15 DEF offerInput, Books, BoundariesValid, LateSummary, AnswerMissing
<1>16. CASE crash
  BY <1>16, BooksStay DEF crash, Fail, Stop
<1> QED
  BY <1>1, <1>2, <1>3, <1>4, <1>5, <1>6, <1>7, <1>8, <1>9, <1>10, <1>11, <1>12, <1>13,
     <1>14, <1>15, <1>16 DEF Loop

(* A resumption starts from books that were filed. *)
LEMMA ResumeBooks ==
    ASSUME LoopInv, BookInv, Books, resume
    PROVE  Books'
<1> DEFINE c == saved.state
<1>1. \/ saved.phase = "ready" /\ live' = c /\ pc' = "top" /\ failure' = None /\ UNCHANGED saved
      \/ saved.phase = "model_complete" /\ resumeModelComplete(c)
      \/ saved.phase = "tools_complete" /\ resumeToolsComplete(c)
      \/ saved.phase = "validating_output" /\ resumeValidatingOutput(c)
  BY DEF resume
<1>2. /\ c \in States /\ IsState(c) /\ c.unsaid \in Nat
      /\ saved.phase \in {"model_complete", "validating_output"} => c.messages # << >>
  BY Fielded DEF BookInv, Book, LoopInv, Dispatchable
<1>3. CASE c.unsaid > 0
  <2>1. live'.unsaid > 0 /\ pc' # "silent" /\ (saved' = saved \/ saved'.state = live')
    <3>1. CASE /\ pc' \in {"top", "finished", "failed"} /\ live' = c /\ UNCHANGED saved
      BY <1>3, <3>1
    <3>2. CASE saved.phase = "model_complete" /\ resumeModelComplete(c)
      <4> DEFINE m == Last(c.messages)
                 a == Unstepped(c)
                 d == Recorded(a, m, NewStep(a, Latest(c).model, "continue", None))
      <4>1. IsState(a) /\ a.unsaid = c.unsaid /\ m \in Msg
        BY <1>2, <3>2, UnsteppedKeeps
      <4>2. observeBoundary(d, "model_complete", "dispatch")
        BY <3>2 DEF resumeModelComplete, beginToolStep
      <4> HIDE DEF a, m
      <4>3. d.unsaid = c.unsaid
        BY <4>1, RecordedKeeps
      <4> HIDE DEF d
      <4> QED BY <1>3, <4>2, <4>3, BoundaryStores
    <3>3. CASE saved.phase = "validating_output" /\ resumeValidatingOutput(c)
      <4> DEFINE m == Plain("assistant")
                 a == Unstepped(c)
                 d == Recorded(a, m, NewStep(a, Latest(c).model, "finish", None))
      <4>1. IsState(a) /\ a.unsaid = c.unsaid /\ m \in Msg
        BY <1>2, <3>3, UnsteppedKeeps, MessagesTyped
      <4>2. observeBoundary(d, "validating_output", "validate")
        BY <3>3 DEF resumeValidatingOutput, beginFinalStep
      <4> HIDE DEF a, m
      <4>3. d.unsaid = c.unsaid
        BY <4>1, RecordedKeeps
      <4> HIDE DEF d
      <4> QED BY <1>3, <4>2, <4>3, BoundaryStores
    <3>4. CASE resumeToolsComplete(c)
      BY <3>1, <3>4 DEF resumeToolsComplete
    <3> HIDE DEF c
    <3> QED BY <1>1, <3>1, <3>2, <3>3, <3>4
  <2>2. Held(pc', live') = live' /\ live'.unsaid # 0
    <3> DEFINE n == live'.unsaid
    <3>1. n > 0 => n # 0
      OBVIOUS
    <3> QED BY <2>1, <3>1 DEF Held
  <2> QED BY <2>1, <2>2, BooksMissing
<1>4. CASE c.unsaid = 0
  <2>2. c \in States /\ Filed(saved.phase, c)
    BY <1>2, <1>4 DEF Books
  <2> HIDE DEF c
  <2>3. CASE saved.phase = "ready" /\ live' = c /\ pc' = "top" /\ failure' = None /\ UNCHANGED saved
    <3>1. Sound(c) /\ Standing("top", c)
      BY <2>2, <2>3 DEF Filed, None
    <3> QED BY <2>3, <3>1, BooksStay DEF None
  <2>4. CASE saved.phase = "model_complete" /\ resumeModelComplete(c)
    <3>1. /\ Sound(c) /\ ValidateContinuation(c, "model_complete") /\ Open(c)
          /\ Repeats(c, Last(c.messages), "continue") /\ Filed("model_complete", c)
      BY <2>2, <2>4 DEF Filed, None
    <3>2. observeBoundary(c, "model_complete", "dispatch")
      BY <2>4, <3>1 DEF resumeModelComplete, beginToolStep, Repeats
    <3>3. Standing("dispatch", c)
      BY <3>1 DEF Standing
    <3> QED BY <3>1, <3>2, <3>3, BooksBoundary
  <2>5. CASE saved.phase = "tools_complete" /\ resumeToolsComplete(c)
    <3>1. Sound(c) /\ Closed(c) /\ c.steps # << >>
      BY <2>2, <2>5 DEF Filed, Standing, None
    <3>2. Latest(c).decision \in {"continue", "finish", "fail"}
      BY <2>2, <3>1, LatestTyped DEF Entry
    <3>3. /\ live' = c /\ UNCHANGED saved /\ failure' # "invalid"
          /\ pc' = CASE Latest(c).decision = "continue" -> "top"
                     [] Latest(c).decision = "finish" -> "finished"
                     [] OTHER -> "failed"
      BY <2>5 DEF resumeToolsComplete, None
    <3>4. pc' # "failed" => Standing(pc', c)
      <4>1. /\ Latest(c).decision = "continue" => pc' = "top"
            /\ Latest(c).decision = "finish" => pc' = "finished"
            /\ Latest(c).decision = "fail" => pc' = "failed"
        BY <3>3
      <4> QED BY <3>1, <3>2, <4>1 DEF Standing
    <3> QED BY <3>1, <3>3, <3>4, BooksStay
  <2>6. CASE saved.phase = "validating_output" /\ resumeValidatingOutput(c)
    <3>1. /\ Sound(c) /\ ValidateContinuation(c, "validating_output") /\ Standing("validate", c)
          /\ Repeats(c, Plain("assistant"), "finish") /\ Filed("validating_output", c)
      BY <2>2, <2>6 DEF Filed, None
    <3>2. observeBoundary(c, "validating_output", "validate")
      BY <2>6, <3>1 DEF resumeValidatingOutput, beginFinalStep, Repeats
    <3> QED BY <3>1, <3>2, BooksBoundary
  <2> QED BY <1>1, <2>3, <2>4, <2>5, <2>6 DEF c
<1> QED
  <2> HIDE DEF c
  <2> QED BY <1>2, <1>3, <1>4

(* No later step but a resumption brings back a message that a Step lacks. *)
LEMMA MissingStays ==
    ASSUME LoopInv, BookInv, Held(pc, live).unsaid # 0, Loop \/ offerInput \/ crash
    PROVE  /\ live'.unsaid > 0 /\ Held(pc', live').unsaid # 0
           /\ saved' = saved \/ saved'.state = live'
<1>0. /\ live \in States /\ IsState(live) /\ live.unsaid \in Nat /\ Place(pc, live)
      /\ pc = "validate" => live.messages # << >>
  BY Fielded DEF BookInv, Book, LoopInv
<1>1. /\ pc = "silent" => live.unsaid > 1
      /\ live.unsaid > 0
  <2>1. CASE pc = "silent"
    <3>1. Held(pc, live).unsaid = live.unsaid - 1
      BY <1>0, <2>1 DEF Held, States
    <3> QED BY <1>0, <2>1, <3>1 DEF Place
  <2>2. CASE pc # "silent"
    BY <1>0, <2>2 DEF Held
  <2> QED BY <2>1, <2>2
<1>2. \A n \in Int : n > 0 => n # 0
  OBVIOUS
<1>3. ASSUME live'.unsaid \in Int, live'.unsaid > 0, pc' # "silent",
             saved' = saved \/ saved'.state = live'
      PROVE  /\ live'.unsaid > 0 /\ Held(pc', live').unsaid # 0
             /\ saved' = saved \/ saved'.state = live'
  BY <1>2, <1>3 DEF Held
<1>4. ASSUME live' = live, pc' = pc, saved' = saved
      PROVE  /\ live'.unsaid > 0 /\ Held(pc', live').unsaid # 0
             /\ saved' = saved \/ saved'.state = live'
  BY <1>1, <1>4
<1>5. CASE leaveLoop
  BY <1>0, <1>1, <1>3, <1>5 DEF leaveLoop, Fail, Stop
<1>6. CASE prepareTurn
  <2> DEFINE c == Taken(live)
  <2>1. IsState(c) /\ c.unsaid = live.unsaid
    BY <1>0, TakenKeeps
  <2>2. \/ Fail(c, "budget") /\ UNCHANGED saved
        \/ \E k \in ContextTokens : observeBoundary(Summarised(c, k), "ready", "model")
    BY <1>6 DEF prepareTurn
  <2> HIDE DEF c
  <2>3. CASE Fail(c, "budget") /\ UNCHANGED saved
    BY <1>0, <1>1, <1>3, <2>1, <2>3 DEF Fail, Stop
  <2>4. CASE \E k \in ContextTokens : observeBoundary(Summarised(c, k), "ready", "model")
    BY <1>0, <1>1, <1>3, <2>1, <2>4, SummarisedKeeps, BoundaryStores
  <2> QED BY <2>2, <2>3, <2>4
<1>7. CASE turnCallsTools
  <2>1. PICK n \in 1..MaxCalls, r \in Responses, t \in TurnTokens, k \in ContextTokens :
            beginToolStep(Turned(live, k, t), ToolResponse(n, live.opTurn, r), t)
    BY <1>7 DEF turnCallsTools
  <2> DEFINE c == Turned(live, k, t)
             m == ToolResponse(n, live.opTurn, r)
             d == Recorded(c, m, NewStep(c, t, "continue", None))
  <2>2. IsState(c) /\ c.unsaid = live.unsaid
    BY <1>0, TurnedKeeps
  <2>3. m \in Msg
    <3>1. n \in Nat /\ live.opTurn \in Nat
      BY <1>0 DEF IsState
    <3> QED BY <3>1, MessagesTyped
  <2>4. observeBoundary(d, "model_complete", "dispatch")
    BY <2>1 DEF beginToolStep
  <2> HIDE DEF c, m
  <2>5. d.unsaid = live.unsaid
    BY <2>2, <2>3, RecordedKeeps
  <2> HIDE DEF d
  <2> QED BY <1>0, <1>1, <1>3, <2>4, <2>5, BoundaryStores
<1>8. CASE turnAnswers
  <2>1. PICK said \in Answers, t \in TurnTokens, k \in ContextTokens :
            beginFinalStep(Turned(live, k, t), said, t)
    BY <1>8 DEF turnAnswers
  <2> DEFINE c == Turned(live, k, t)
             d == Recorded(c, Plain("assistant"), NewStep(c, t, "finish", None))
  <2>2. IsState(c) /\ c.unsaid = live.unsaid
    BY <1>0, TurnedKeeps
  <2>3. \/ observeBoundary(d, "validating_output", "validate")
        \/ observeBoundary(Withheld(d), "validating_output", "silent")
    BY <2>1 DEF beginFinalStep
  <2> HIDE DEF c
  <2>4. IsState(d) /\ d.unsaid = live.unsaid /\ d.messages # << >>
    BY <2>2, MessagesTyped, RecordedKeeps
  <2> HIDE DEF d
  <2>5. CASE observeBoundary(d, "validating_output", "validate")
    BY <1>0, <1>1, <1>3, <2>4, <2>5, BoundaryStores
  <2>6. CASE observeBoundary(Withheld(d), "validating_output", "silent")
    <3> DEFINE e == Withheld(d)
    <3>1. IsState(e) /\ e.unsaid = live.unsaid + 1
      BY <2>4, WithheldKeeps
    <3>2. live' = e /\ pc' \in {"silent", "failed"} /\ (saved' = saved \/ saved'.state = live')
      BY <2>6, BoundaryStores
    <3> HIDE DEF e
    <3>3. Held(pc', live').unsaid \in {live'.unsaid, live'.unsaid - 1}
      BY <3>1, <3>2 DEF Held, IsState, Fields
    <3> QED BY <1>0, <1>1, <3>1, <3>2, <3>3
  <2> QED BY <2>3, <2>5, <2>6
<1>9. CASE turnPauses
  <2>1. PICK t \in TurnTokens, k \in ContextTokens :
            LET c == Turned(live, k, t)
                d == Recorded(c, Plain("assistant"), NewStep(c, t, "continue", "pause"))
            IN  \/ Fail(Decide(d, "fail"), "pause") /\ UNCHANGED saved
                \/ observeBoundary(d, "ready", "top")
    BY <1>9 DEF turnPauses
  <2> DEFINE c == Turned(live, k, t)
             d == Recorded(c, Plain("assistant"), NewStep(c, t, "continue", "pause"))
  <2>2. IsState(c) /\ c.unsaid = live.unsaid
    BY <1>0, TurnedKeeps
  <2>3. \/ Fail(Decide(d, "fail"), "pause") /\ UNCHANGED saved
        \/ observeBoundary(d, "ready", "top")
    BY <2>1
  <2> HIDE DEF c
  <2>4. IsState(d) /\ d.unsaid = live.unsaid
    BY <2>2, MessagesTyped, RecordedKeeps
  <2> HIDE DEF d
  <2>5. CASE Fail(Decide(d, "fail"), "pause") /\ UNCHANGED saved
    BY <1>0, <1>1, <1>3, <2>4, <2>5, DecideKeeps DEF Fail, Stop
  <2>6. CASE observeBoundary(d, "ready", "top")
    BY <1>0, <1>1, <1>3, <2>4, <2>6, BoundaryStores
  <2> QED BY <2>3, <2>5, <2>6
<1>10. CASE turnInterrupted
  <2>1. pc' = "top" /\ saved' = saved
    BY <1>10 DEF turnInterrupted
  <2>2. CASE \E k \in ContextTokens : live' = Summarised(live, k)
    BY <1>0, <1>1, <1>3, <2>1, <2>2, SummarisedKeeps
  <2>3. CASE \E t \in TurnTokens, k \in ContextTokens :
                live' = Recorded(Turned(live, k, t), Plain("assistant"),
                                 NewStep(Turned(live, k, t), t, "continue", None))
    <3>1. PICK t \in TurnTokens, k \in ContextTokens :
                live' = Recorded(Turned(live, k, t), Plain("assistant"),
                                 NewStep(Turned(live, k, t), t, "continue", None))
      BY <2>3
    <3> DEFINE c == Turned(live, k, t)
               s == NewStep(c, t, "continue", None)
    <3>2. IsState(c) /\ c.unsaid = live.unsaid
      BY <1>0, TurnedKeeps
    <3>3. live' = Recorded(c, Plain("assistant"), s)
      BY <3>1
    <3> HIDE DEF c, s
    <3>4. live'.unsaid = live.unsaid
      BY <3>2, <3>3, MessagesTyped, RecordedKeeps
    <3> QED BY <1>0, <1>1, <1>3, <2>1, <3>4
  <2> QED BY <1>10, <2>2, <2>3 DEF turnInterrupted
<1>11. CASE turnFails
  <2>1. PICK t \in TurnTokens, k \in ContextTokens :
            LET c == Summarised(live, k)
                d == [c EXCEPT !.usage = @ + t]
                s == NewStep(d, t, "fail", None)
            IN  \/ Fail(c, "provider")
                \/ Fail(Recorded(d, Plain("assistant"), s), "provider")
                \/ Fail([d EXCEPT !.steps = Append(@, s), !.unsaid = @ + 1], "provider")
    BY <1>11 DEF turnFails
  <2> DEFINE c == Summarised(live, k)
             d == [c EXCEPT !.usage = @ + t]
             s == NewStep(d, t, "fail", None)
             e == [d EXCEPT !.steps = Append(@, s), !.unsaid = @ + 1]
  <2>2. IsState(c) /\ c.unsaid = live.unsaid
    BY <1>0, SummarisedKeeps
  <2>3. IsState(d) /\ d.unsaid = live.unsaid
    <3> HIDE DEF c
    <3> QED BY <2>2 DEF IsState, Fields
  <2>4. e.unsaid = live.unsaid + 1
    <3> HIDE DEF d, s
    <3> QED BY <2>3 DEF IsState, Fields
  <2>5. Recorded(d, Plain("assistant"), s).unsaid = live.unsaid
    <3> HIDE DEF d, s
    <3> QED BY <2>3, RecordedKeeps, MessagesTyped
  <2>6. pc' = "failed" /\ live' \in {c, Recorded(d, Plain("assistant"), s), e}
    BY <2>1 DEF Fail, Stop
  <2>7. saved' = saved
    BY <1>11 DEF turnFails
  <2> HIDE DEF c, d, s, e
  <2>8. live'.unsaid \in Int /\ live'.unsaid > 0
    BY <1>0, <1>1, <2>2, <2>4, <2>5, <2>6
  <2> QED BY <1>3, <2>6, <2>7, <2>8
<1>12. CASE dispatchTools
  <2>1. /\ pc' \in {"failed", "executed"} /\ saved' = saved /\ pc = "dispatch"
        /\ live' = Decide(live, "fail") \/ \E n \in {Batch(live)} \cup (0..Batch(live)) :
               \E u : live' = Executed(live, n, u)
    BY <1>12 DEF dispatchTools, Fail, Stop
  <2>2. Batch(live) \in Nat
    BY <1>0, <2>1 DEF Place, Asking, ToolAsk, Batch
  <2>3. live'.unsaid = live.unsaid
    BY <1>0, <2>1, <2>2, DecideKeeps, ExecutedKeeps
  <2> QED BY <1>0, <1>1, <1>3, <2>1, <2>3
<1>13. CASE finalizeToolStep
  <2>1. \E s : \E next \in {"top", "finished", "failed"} :
            observeBoundary(WithLatest(live, s), "tools_complete", next)
    <3>1. PICK d \in stepDecisionOverride :
            observeBoundary(
                WithLatest(live, [Latest(live) EXCEPT
                                     !.traces = Asked(live).calls,
                                     !.context = live.context, !.decision = d]),
                "tools_complete",
                CASE d = "continue" -> "top" [] d = "finish" -> "finished" [] OTHER -> "failed")
      BY <1>13 DEF finalizeToolStep
    <3> DEFINE next == CASE d = "continue" -> "top" [] d = "finish" -> "finished"
                         [] OTHER -> "failed"
    <3>2. next \in {"top", "finished", "failed"}
      BY DEF stepDecisionOverride
    <3> HIDE DEF next
    <3> QED BY <3>1, <3>2 DEF next
  <2>2. PICK s : \E next \in {"top", "finished", "failed"} :
            observeBoundary(WithLatest(live, s), "tools_complete", next)
    BY <2>1
  <2>3. PICK next \in {"top", "finished", "failed"} :
            observeBoundary(WithLatest(live, s), "tools_complete", next)
    BY <2>2
  <2>4. WithLatest(live, s).unsaid = live.unsaid
    BY <1>0, WithLatestKeeps
  <2> QED BY <1>0, <1>1, <1>3, <2>3, <2>4, BoundaryStores
<1>14. ASSUME pc \in {"validate", "silent"}
       PROVE  \A said : Finalized(said).unsaid \in Int /\ Finalized(said).unsaid > 0
                        /\ IsState(Finalized(said))
  <2>1. /\ Judged.unsaid = IF pc = "validate" THEN live.unsaid ELSE live.unsaid - 1
    BY <1>0, <1>14, JudgedGrows
  <2>2. Judged.unsaid \in Int /\ Judged.unsaid > 0
    BY <1>0, <1>1, <1>14, <2>1
  <2>3. \A said : Finalized(said).unsaid = IF said THEN Judged.unsaid ELSE Judged.unsaid + 1
    BY <1>0, <1>14, FinalizedGrows
  <2> QED BY <1>0, <2>2, <2>3, FinalizedKeeps
<1>15. CASE guardrailRetry
  <2>1. pc' = "top" /\ saved' = saved /\ pc \in {"validate", "silent"}
    BY <1>15 DEF guardrailRetry, Judging
  <2>2. PICK keep \in KeepRejected : live' = Decide(RetryContext(keep), "continue")
    BY <1>15 DEF guardrailRetry
  <2> DEFINE said == keep /\ pc = "validate"
             c == [Finalized(said) EXCEPT !.messages = Append(@, Plain("user"))]
  <2>3. IsState(c) /\ c.unsaid = Finalized(said).unsaid
    BY <1>0, ContinuedKeeps
  <2>4. live' = Decide(c, "continue")
    BY <2>2 DEF RetryContext
  <2> HIDE DEF c, said
  <2>5. live'.unsaid = Finalized(said).unsaid
    BY <2>3, <2>4, DecideKeeps
  <2> QED BY <1>3, <1>14, <2>1, <2>5
<1>16. CASE responseRecovery
  <2> DEFINE D(said) == [Finalized(said) EXCEPT !.messages = Append(@, Plain("correction"))]
  <2>1. /\ pc \in {"validate", "silent"} /\ pc' \in {"top", "failed"} /\ saved' = saved
        /\ live' = Decide(live, "fail") \/ \E said, s : live' = WithLatest(D(said), s)
    BY <1>16 DEF responseRecovery, Judging, Fail, Stop
  <2>2. \A said : IsState(D(said)) /\ D(said).unsaid = Finalized(said).unsaid
    BY <1>0, ContinuedKeeps
  <2> HIDE DEF D
  <2>3. live'.unsaid \in Int /\ live'.unsaid > 0
    <3>1. CASE live' = Decide(live, "fail")
      BY <1>0, <1>1, <3>1, DecideKeeps
    <3>2. CASE \E said, s : live' = WithLatest(D(said), s)
      BY <1>14, <2>1, <2>2, <3>2, WithLatestKeeps
    <3> QED BY <2>1, <3>1, <3>2
  <2> QED BY <1>3, <2>1, <2>3
<1>17. CASE acceptAnswer
  <2>1. /\ pc \in {"validate", "silent"} /\ pc' \in {"top", "finished"} /\ saved' = saved
        /\ \E said : live' = Decide(Finalized(said), "continue") \/ live' = Finalized(said)
    BY <1>17 DEF acceptAnswer, Judging
  <2>2. live'.unsaid \in Int /\ live'.unsaid > 0
    BY <1>14, <2>1, DecideKeeps
  <2> QED BY <1>3, <2>1, <2>2
<1>18. CASE rejectAnswer
  <2>1. pc' = "failed" /\ saved' = saved /\ live'.unsaid = live.unsaid
    BY <1>0, <1>18, DecideKeeps DEF rejectAnswer, Fail, Stop
  <2> QED BY <1>0, <1>1, <1>3, <2>1
<1>19. CASE finishRun
  <2>1. pc' \in {"done", "failed", "top"} /\ saved' = saved /\ (live' = live \/ live' = Repaired(live))
    BY <1>19 DEF finishRun, Fail, Stop
  <2> DEFINE c == [live EXCEPT !.messages = Append(@, Plain("user")), !.repairs = @ + 1]
  <2>2. IsState(c) /\ c.unsaid = live.unsaid
    BY <1>0, MessagesTyped DEF IsState, Fields
  <2>3. Repaired(live) = Decide(c, "continue")
    BY DEF Repaired
  <2> HIDE DEF c
  <2>4. live'.unsaid = live.unsaid
    BY <2>1, <2>2, <2>3, DecideKeeps
  <2> QED BY <1>0, <1>1, <1>3, <2>1, <2>4
<1>20. CASE offerInput
  BY <1>4, <1>20 DEF offerInput
<1>21. CASE crash
  BY <1>0, <1>1, <1>3, <1>21 DEF crash, Fail, Stop
<1> QED
  BY <1>5, <1>6, <1>7, <1>8, <1>9, <1>10, <1>11, <1>12, <1>13, <1>15, <1>16, <1>17, <1>18,
     <1>19, <1>20, <1>21 DEF Loop

(* Every step of the loop, every crash and every resumption keeps the books. *)
LEMMA NextBooks == LoopInv /\ BookInv /\ Controls /\ Books /\ [Next]_vars => Books'
<1> SUFFICES ASSUME LoopInv, BookInv, Controls, Books, [Next]_vars PROVE Books' OBVIOUS
<1>1. CASE resume
  BY <1>1, ResumeBooks
<1>2. CASE Loop \/ offerInput \/ crash
  BY <1>2, HeldBooks, MissingStays, BooksMissing
<1>3. CASE UNCHANGED vars
  BY <1>3 DEF vars, Books, BoundariesValid
<1> QED BY <1>1, <1>2, <1>3 DEF Next, Stopped

(* Whatever the model answers, the guardrails decide and the observer does,  *)
(* at any boundary and after any crash, resumption or repair: a continuation *)
(* that the loop builds fails ValidateContinuation only when a summary came  *)
(* late after child usage, or when the transcript lacks the message of a     *)
(* Step: of an answer that says nothing, or of one that a retry rejected and *)
(* did not keep (observeBoundary).                                          *)
THEOREM BoundariesProven == Spec => []BoundariesValid
<1>1. BookInv /\ Controls /\ [Next]_vars => Controls'
  BY NextControls
<1>2. LoopInv /\ BookInv /\ Controls /\ Books /\ [Next]_vars => Books'
  BY NextBooks
<1>3. Books => BoundariesValid
  BY DEF Books
<1> QED BY <1>1, <1>2, <1>3, InitControls, InitBooks, LoopInvariance, BookInvariance, PTL DEF Spec

=============================================================================
