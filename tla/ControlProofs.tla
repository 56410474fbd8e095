--------------------------- MODULE ControlProofs ---------------------------
(***************************************************************************)
(* Proofs about Control, for any number of callers, any limits and any      *)
(* number of inputs and turns.                                              *)
(***************************************************************************)
EXTENDS Control, FiniteSums, FiniteSetTheorems, TLAPS

-----------------------------------------------------------------------------
(* Sequences. *)

(* Appending adds one element to the range of a queue, and keeps it free of *)
(* duplicates when the element is new.                                      *)
LEMMA AppendFacts ==
    ASSUME NEW S, NEW s \in Seq(S), NEW e \in S
    PROVE  /\ Append(s, e) \in Seq(S)
           /\ Range(Append(s, e)) = Range(s) \cup {e}
           /\ IsInjective(s) /\ e \notin Range(s) => IsInjective(Append(s, e))
<1>1. Append(s, e) \in Seq(S)
  OBVIOUS
<1>2. /\ DOMAIN Append(s, e) = 1..(Len(s) + 1)
      /\ \A i \in 1..Len(s) : Append(s, e)[i] = s[i]
      /\ Append(s, e)[Len(s) + 1] = e
      /\ DOMAIN s = 1..Len(s)
      /\ Len(s) \in Nat
  OBVIOUS
<1>3. Range(Append(s, e)) = Range(s) \cup {e}
  BY <1>2 DEF Range
<1>4. IsInjective(s) /\ e \notin Range(s) => IsInjective(Append(s, e))
  BY <1>2 DEF IsInjective, Range
<1> QED
  BY <1>1, <1>3, <1>4

(* Concatenating two queues joins their ranges, and keeps them free of      *)
(* duplicates when they share nothing.                                      *)
LEMMA ConcatFacts ==
    ASSUME NEW S, NEW s \in Seq(S), NEW t \in Seq(S)
    PROVE  /\ s \o t \in Seq(S)
           /\ Range(s \o t) = Range(s) \cup Range(t)
           /\ IsInjective(s) /\ IsInjective(t) /\ Range(s) \cap Range(t) = {}
                => IsInjective(s \o t)
<1>1. s \o t \in Seq(S)
  OBVIOUS
<1>2. /\ DOMAIN (s \o t) = 1..(Len(s) + Len(t))
      /\ \A i \in 1..Len(s) : (s \o t)[i] = s[i]
      /\ \A i \in 1..Len(t) : (s \o t)[Len(s) + i] = t[i]
      /\ DOMAIN s = 1..Len(s) /\ DOMAIN t = 1..Len(t)
      /\ Len(s) \in Nat /\ Len(t) \in Nat
  OBVIOUS
<1>3. \A i \in DOMAIN (s \o t) :
        \/ i \in DOMAIN s /\ (s \o t)[i] = s[i]
        \/ \E k \in DOMAIN t : i = Len(s) + k /\ (s \o t)[i] = t[k]
  <2> SUFFICES ASSUME NEW i \in DOMAIN (s \o t), i \notin DOMAIN s
               PROVE  \E k \in DOMAIN t : i = Len(s) + k /\ (s \o t)[i] = t[k]
    BY <1>2
  <2>1. i - Len(s) \in 1..Len(t) /\ i = Len(s) + (i - Len(s))
    BY <1>2
  <2> QED
    BY <1>2, <2>1
<1>4. Range(s \o t) = Range(s) \cup Range(t)
  <2>1. Range(s \o t) \subseteq Range(s) \cup Range(t)
    <3> SUFFICES ASSUME NEW i \in DOMAIN (s \o t)
                 PROVE  (s \o t)[i] \in Range(s) \cup Range(t)
      BY DEF Range
    <3>1. CASE i \in DOMAIN s /\ (s \o t)[i] = s[i]
      BY <3>1 DEF Range
    <3>2. CASE \E k \in DOMAIN t : i = Len(s) + k /\ (s \o t)[i] = t[k]
      BY <3>2 DEF Range
    <3> QED
      BY <1>3, <3>1, <3>2
  <2>2. \A i \in DOMAIN s : i \in DOMAIN (s \o t) /\ (s \o t)[i] = s[i]
    BY <1>2
  <2>3. \A i \in DOMAIN t : Len(s) + i \in DOMAIN (s \o t) /\ (s \o t)[Len(s) + i] = t[i]
    BY <1>2
  <2>4. Range(s) \subseteq Range(s \o t)
    BY <2>2 DEF Range
  <2>5. Range(t) \subseteq Range(s \o t)
    <3> SUFFICES ASSUME NEW i \in DOMAIN t PROVE t[i] \in Range(s \o t)
      BY DEF Range
    <3> QED
      BY <2>3 DEF Range
  <2> QED
    BY <2>1, <2>4, <2>5
<1>5. IsInjective(s) /\ IsInjective(t) /\ Range(s) \cap Range(t) = {} => IsInjective(s \o t)
  <2> SUFFICES ASSUME IsInjective(s), IsInjective(t), Range(s) \cap Range(t) = {},
                      NEW i \in DOMAIN (s \o t), NEW j \in DOMAIN (s \o t),
                      (s \o t)[i] = (s \o t)[j]
               PROVE  i = j
    BY DEF IsInjective
  <2>0. \A k \in DOMAIN (s \o t) :
          (s \o t)[k] \in (IF k \in DOMAIN s THEN Range(s) ELSE Range(t))
    <3>1. \A k \in DOMAIN s : s[k] \in Range(s)
      BY DEF Range
    <3>2. \A k \in DOMAIN t : t[k] \in Range(t)
      BY DEF Range
    <3> QED
      BY <1>2, <1>3, <3>1, <3>2
  <2>1. CASE i \in DOMAIN s /\ j \in DOMAIN s
    BY <1>2, <2>1 DEF IsInjective
  <2>2. CASE i \in DOMAIN s /\ j \notin DOMAIN s
    BY <2>0, <2>2
  <2>3. CASE i \notin DOMAIN s /\ j \in DOMAIN s
    BY <2>0, <2>3
  <2>4. CASE i \notin DOMAIN s /\ j \notin DOMAIN s
    <3>1. PICK k \in DOMAIN t : i = Len(s) + k /\ (s \o t)[i] = t[k]
      BY <1>3, <2>4
    <3>2. PICK l \in DOMAIN t : j = Len(s) + l /\ (s \o t)[j] = t[l]
      BY <1>3, <2>4
    <3> QED
      BY <3>1, <3>2 DEF IsInjective
  <2> QED
    BY <2>1, <2>2, <2>3, <2>4
<1> QED
  BY <1>1, <1>4, <1>5

(* An empty queue holds nothing. *)
LEMMA EmptyFacts ==
    /\ Range(<< >>) = {}
    /\ IsInjective(<< >>)
    /\ \A S : << >> \in Seq(S)
BY DEF Range, IsInjective

(* take moves exactly what Send and Steer have queued, each input once. *)
LEMMA MergeFacts ==
    ASSUME NEW s \in Seq(Inputs), NEW t \in Seq(Inputs), NEW m \in mergeQueued(s, t)
    PROVE  m \in Seq(Inputs) /\ IsInjective(m) /\ Range(m) = Range(s) \cup Range(t)
<1>1. Range(s) \subseteq Inputs /\ Range(t) \subseteq Inputs
  BY DEF Range
<1>2. Len(s) + Len(t) \in Nat
  OBVIOUS
<1>3. m \in [1..(Len(s) + Len(t)) -> Inputs] /\ DOMAIN m = 1..(Len(s) + Len(t))
  BY <1>1 DEF mergeQueued
<1>4. m \in Seq(Inputs)
  BY <1>2, <1>3
<1>5. \A j, k \in DOMAIN m : m[j] = m[k] => j = k
  <2> SUFFICES ASSUME NEW j \in DOMAIN m, NEW k \in DOMAIN m, m[j] = m[k], j # k
               PROVE  FALSE
    OBVIOUS
  <2>1. j \in Nat /\ k \in Nat /\ m[j] \in Int
    BY <1>2, <1>3 DEF Inputs
  <2>2. j < k \/ k < j
    BY <2>1
  <2>3. m[j] < m[k] \/ m[k] < m[j]
    BY <2>2 DEF mergeQueued
  <2> QED
    BY <2>1, <2>3
<1> QED
  BY <1>4, <1>5 DEF mergeQueued, IsInjective

-----------------------------------------------------------------------------
(* The inductive invariant. *)

(* The inputs accepted so far are the ones that have a channel. *)
Numbered == \A i \in Inputs : ack[i] = "none" <=> i > nextSeq

(* An input is refused only by a run that is on its way out. *)
Verdicts ==
    \A i \in Inputs :
        /\ ack[i] = "boundary" => pc \in {"refused", "stop", "done"}
        /\ ack[i] = "closed" => pc = "done"

(* Nothing is in flight between the acknowledgement and the next take. *)
Settled ==
    pc \in {"begin", "attempt", "stream", "join", "ended", "tools", "final", "sealed", "complete"}
        => inflight = << >>

(* A sealed handle is closed and empty; so is a finished one. *)
Sealed ==
    pc \in {"sealed", "complete"} =>
        ~accepting /\ pending = << >> /\ steers = << >> /\ followups = << >>

(* A handle without a running execution is closed. *)
Closed == pc \in {"idle", "done"} => ~accepting

(* The head of the loop left room for the turn's Step. *)
RoomForStep ==
    pc \in {"ready", "begin", "attempt", "stream", "join", "ended"} => turns < MaxTurns

ControlInv ==
    /\ TypeOK /\ OpenIffQueued
    /\ Numbered /\ Verdicts /\ Settled /\ Sealed /\ Closed /\ RoomForStep

(* The initial state satisfies the inductive invariant. *)
LEMMA InitInv == Init => ControlInv
<1> SUFFICES ASSUME Init PROVE ControlInv
  OBVIOUS
<1>1. TypeOK
  <2>1. /\ kind \in [Inputs -> Kinds] /\ size \in [Inputs -> Nat] /\ ack \in [Inputs -> Acks]
        /\ caller \in [Callers -> {"idle", "interrupt"}]
    BY DEF Init, Kinds, Acks
  <2>2. turn \in [active : BOOLEAN, cause : Causes]
    BY DEF Init, NoTurn, Causes
  <2>3. nextSeq \in 0..MaxInputs /\ attempt \in 0..MaxRecoveries /\ turns \in 0..MaxTurns
    BY ControlAssumption DEF Init
  <2>4. accepting \in BOOLEAN /\ startedFlag \in BOOLEAN /\ lostEffect \in BOOLEAN
    BY DEF Init
  <2>5. /\ ctx \in {"none", "live", "done"} /\ early \in Earlies /\ pc \in PCs
        /\ result \in {"none", "ok", "failed"}
    BY DEF Init, Earlies, PCs
  <2> QED
    BY <2>1, <2>2, <2>3, <2>4, <2>5, EmptyFacts DEF Init, TypeOK
<1>2. OpenIffQueued
  <2>1. Queued = {}
    BY EmptyFacts DEF Init, Queued, Unsettled
  <2> QED
    BY <2>1, EmptyFacts DEF Init, OpenIffQueued
<1>3. Numbered
  BY DEF Init, Numbered, Inputs
<1> QED
  BY <1>1, <1>2, <1>3 DEF Init, ControlInv, Verdicts, Settled, Sealed, Closed, RoomForStep

(* The parts of the invariant about the inputs, and those about the loop. *)
InputType ==
    /\ pending \in Seq(Inputs) /\ steers \in Seq(Inputs)
    /\ followups \in Seq(Inputs) /\ inflight \in Seq(Inputs)
    /\ nextSeq \in 0..MaxInputs
    /\ kind \in [Inputs -> Kinds]
    /\ size \in [Inputs -> Nat]
    /\ ack \in [Inputs -> Acks]
    /\ transcript \in Seq(Inputs)

LoopType ==
    /\ accepting \in BOOLEAN
    /\ ctx \in {"none", "live", "done"}
    /\ turn \in [active : BOOLEAN, cause : Causes]
    /\ startedFlag \in BOOLEAN
    /\ early \in Earlies
    /\ attempt \in 0..MaxRecoveries
    /\ turns \in 0..MaxTurns
    /\ result \in {"none", "ok", "failed"}
    /\ caller \in [Callers -> {"idle", "interrupt"}]
    /\ pc \in PCs
    /\ lostEffect \in BOOLEAN

InputInv == InputType /\ OpenIffQueued /\ Numbered
LoopInv == LoopType /\ Verdicts /\ Settled /\ Sealed /\ Closed /\ RoomForStep

(* The invariant is its part about the inputs and its part about the loop. *)
LEMMA Parts == ControlInv <=> InputInv /\ LoopInv
BY DEF ControlInv, TypeOK, InputInv, InputType, LoopInv, LoopType

(* A step that touches no queue, channel or counter keeps the inputs' part. *)
LEMMA QuietStep ==
    ASSUME InputInv, UNCHANGED <<queues, admission, ack, transcript>>
    PROVE  InputInv'
BY DEF InputInv, InputType, OpenIffQueued, Numbered, Queued, Unsettled, queues, admission

(* Interrupting, cancelling or installing a turn yields a turn. *)
LEMMA TurnFacts ==
    ASSUME turn \in [active : BOOLEAN, cause : Causes]
    PROVE  /\ Interrupted(turn) \in [active : BOOLEAN, cause : Causes]
           /\ Cancelled(turn) \in [active : BOOLEAN, cause : Causes]
           /\ InstalledTurn \in [active : BOOLEAN, cause : Causes]
           /\ NoTurn \in [active : BOOLEAN, cause : Causes]
BY DEF Interrupted, Cancelled, InstalledTurn, FreshTurn, NoTurn, Causes

(* Every step keeps the loop's part of the invariant. *)
LEMMA LoopStep == ControlInv /\ [Next]_vars => LoopInv'
<1> SUFFICES ASSUME ControlInv, [Next]_vars PROVE LoopInv'
  OBVIOUS
<1> USE ControlAssumption
<1> USE DEF LoopInv, LoopType, Verdicts, Settled, Sealed, Closed, RoomForStep, PCs, Goto, EngineFrame,
            queues, admission, engine, overlap
<1>0. InputInv /\ LoopInv
  BY Parts
<1>1. CASE start
  BY <1>0, <1>1 DEF start
<1>2. CASE take
  BY <1>0, <1>2 DEF take, iterationAllowed
<1>3. CASE stopRun
  BY <1>0, <1>3 DEF stopRun
<1>4. CASE beginTurn
  <2>1. turn' \in [active : BOOLEAN, cause : Causes]
    BY <1>0, <1>4, TurnFacts DEF beginTurn
  <2>2. LoopType'
    <3>0. startedFlag' \in BOOLEAN
      BY <1>4 DEF beginTurn
    <3>1. early' \in Earlies /\ attempt' \in 0..MaxRecoveries /\ pc' \in PCs
      BY <1>4 DEF beginTurn, Earlies
    <3>2. UNCHANGED <<accepting, ctx, turns, result, caller, lostEffect>>
      BY <1>4 DEF beginTurn
    <3> QED
      BY <1>0, <2>1, <3>0, <3>1, <3>2
  <2> QED
    BY <1>0, <1>4, <2>2 DEF beginTurn
<1>5. CASE updateTurnStarted
  BY <1>0, <1>5, TurnFacts DEF updateTurnStarted
<1>6. CASE recoverContext
  BY <1>0, <1>6 DEF recoverContext
<1>7. CASE observe
  BY <1>0, <1>7 DEF observe, Earlies
<1>8. CASE finishOverlap
  BY <1>0, <1>8 DEF finishOverlap
<1>9. CASE releaseTurn
  <2>1. turn' \in [active : BOOLEAN, cause : Causes]
    BY <1>0, <1>9, TurnFacts DEF releaseTurn
  <2>2. lostEffect' \in BOOLEAN
    BY <1>0, <1>9 DEF releaseTurn
  <2>3. pc' \in {"tools", "final", "top", "stop"} /\ turns' \in 0..MaxTurns
    BY <1>0, <1>9 DEF releaseTurn
  <2> QED
    BY <1>0, <1>9, <2>1, <2>2, <2>3 DEF releaseTurn
<1>10. CASE nextTurn
  BY <1>0, <1>10 DEF nextTurn
<1>11. CASE continueOrSeal
  BY <1>0, <1>11 DEF continueOrSeal, HasInput
<1>12. CASE afterSeal
  BY <1>0, <1>12 DEF afterSeal
<1>13. CASE finish
  BY <1>0, <1>13, TurnFacts DEF finish
<1>14. CASE \E ok \in BOOLEAN : acknowledge(ok)
  BY <1>0, <1>14 DEF acknowledge, Answer
<1>15. CASE \E r \in {"ok", "failed"} : collect(r)
  BY <1>0, <1>15 DEF collect
<1>16. CASE executeEarly
  BY <1>0, <1>16 DEF executeEarly, Earlies
<1>17. CASE expire
  BY <1>0, <1>17, TurnFacts DEF expire
<1>18. ASSUME NEW c \in Callers, Send(c) \/ FollowUp(c)
       PROVE  LoopInv'
  <2>1. PICK k \in {"send", "followup"}, n \in Sizes : Enqueue(c, k, n)
    BY <1>18 DEF Send, FollowUp
  <2>2. UNCHANGED <<accepting, ctx, turn, startedFlag, early, attempt, turns, result, caller, pc,
                    inflight, lostEffect>>
    BY <1>18 DEF Send, FollowUp, Enqueue
  <2>3. pc \notin {"idle", "sealed", "complete", "done"}
    BY <1>0, <2>1 DEF Enqueue
  <2>4. Verdicts'
    BY <1>0, <2>1, <2>2 DEF Enqueue
  <2> QED
    BY <1>0, <2>2, <2>3, <2>4
<1>19. ASSUME NEW c \in Callers, SteerEnqueue(c)
       PROVE  LoopInv'
  BY <1>0, <1>19 DEF SteerEnqueue, Enqueue
<1>20. ASSUME NEW c \in Callers, SteerInterrupt(c)
       PROVE  LoopInv'
  BY <1>0, <1>20, TurnFacts DEF SteerInterrupt
<1>21. ASSUME NEW c \in Callers, Cancel(c)
       PROVE  LoopInv'
  <2>1. Cancelled(turn) \in [active : BOOLEAN, cause : Causes]
    BY <1>0, TurnFacts
  <2>2. /\ accepting' = FALSE /\ turn' = Cancelled(turn) /\ ctx' = "done"
        /\ UNCHANGED <<pc, pending, steers, followups, inflight, ack, startedFlag, early, attempt,
                       turns, result, caller, lostEffect>>
    BY <1>21 DEF Cancel
  <2>3. LoopType'
    BY <1>0, <2>1, <2>2
  <2>4. Verdicts'
    BY <1>0, <2>2
  <2>5. Settled' /\ Sealed'
    BY <1>0, <2>2
  <2>6. Closed' /\ RoomForStep'
    BY <1>0, <2>2
  <2> QED
    BY <2>3, <2>4, <2>5, <2>6
<1>22. CASE UNCHANGED vars
  BY <1>0, <1>22 DEF vars
<1> QED
  BY <1>1, <1>2, <1>3, <1>4, <1>5, <1>6, <1>7, <1>8, <1>9, <1>10, <1>11, <1>12, <1>13, <1>14,
     <1>15, <1>16, <1>17, <1>18, <1>19, <1>20, <1>21, <1>22
  DEF Next, Engine, Call, Terminated

(* Accepting an input gives the next number an open channel. *)
LEMMA EnqueueFacts ==
    ASSUME InputInv, NEW c \in Callers, NEW k \in {"send", "steer", "followup"}, NEW n \in Sizes,
           Enqueue(c, k, n)
    PROVE  /\ nextSeq' = nextSeq + 1 /\ nextSeq' \in Inputs /\ nextSeq' \in 0..MaxInputs
           /\ ack[nextSeq'] = "none"
           /\ nextSeq' \notin Queued
           /\ kind' \in [Inputs -> Kinds] /\ size' \in [Inputs -> Nat] /\ ack' \in [Inputs -> Acks]
           /\ {i \in Inputs : ack'[i] = "open"} = Queued \cup {nextSeq'}
           /\ Numbered'
           /\ UNCHANGED <<inflight, transcript>>
<1>1. nextSeq' = nextSeq + 1 /\ nextSeq' \in Inputs /\ nextSeq' \in 0..MaxInputs
  BY ControlAssumption DEF InputInv, InputType, Enqueue, Inputs
<1>2. ack[nextSeq'] = "none"
  BY <1>1 DEF InputInv, InputType, Numbered, Inputs
<1>3. nextSeq' \notin Queued
  BY <1>2 DEF InputInv, OpenIffQueued
<1>4. kind' \in [Inputs -> Kinds] /\ size' \in [Inputs -> Nat] /\ ack' \in [Inputs -> Acks]
  BY <1>1, ControlAssumption DEF InputInv, InputType, Enqueue, Kinds, Acks
<1>5. \A i \in Inputs : ack'[i] = IF i = nextSeq' THEN "open" ELSE ack[i]
  BY <1>1 DEF InputInv, InputType, Enqueue
<1>6. {i \in Inputs : ack'[i] = "open"} = Queued \cup {nextSeq'}
  BY <1>1, <1>5 DEF InputInv, OpenIffQueued
<1>7. Numbered'
  BY <1>1, <1>5 DEF InputInv, InputType, Numbered, Inputs
<1> QED
  BY <1>1, <1>2, <1>3, <1>4, <1>6, <1>7 DEF Enqueue

(* What is queued, spelled out over the four queues. *)
LEMMA QueuedIs == Queued = Range(inflight) \cup Range(steers) \cup Range(pending) \cup Range(followups)
BY DEF Queued, Unsettled

(* Answering a set of open channels closes these and no other. *)
LEMMA AnswerFacts ==
    ASSUME InputInv, NEW S, S \subseteq Queued, NEW a \in {"nil", "boundary", "closed"},
           Answer(S, a), UNCHANGED nextSeq
    PROVE  /\ ack' \in [Inputs -> Acks]
           /\ {i \in Inputs : ack'[i] = "open"} = Queued \ S
           /\ \A i \in Inputs : ack'[i] = IF i \in S THEN a ELSE ack[i]
           /\ Numbered'
<1>1. ack' \in [Inputs -> Acks] /\ \A i \in Inputs : ack'[i] = IF i \in S THEN a ELSE ack[i]
  BY DEF InputInv, InputType, Answer, Acks
<1>2. S \subseteq {i \in Inputs : ack[i] = "open"}
  BY DEF InputInv, OpenIffQueued
<1>3. {i \in Inputs : ack'[i] = "open"} = Queued \ S
  BY <1>1, <1>2 DEF InputInv, OpenIffQueued
<1>4. Numbered'
  BY <1>1, <1>2 DEF InputInv, Numbered
<1> QED
  BY <1>1, <1>3, <1>4

(* Every step keeps the inputs' part of the invariant. *)
LEMMA InputStep == ControlInv /\ [Next]_vars => InputInv'
<1> SUFFICES ASSUME ControlInv, [Next]_vars PROVE InputInv'
  OBVIOUS
<1>0. InputInv /\ LoopInv
  BY Parts
<1>Q. Queued' = Range(inflight') \cup Range(steers') \cup Range(pending') \cup Range(followups')
  BY DEF Queued, Unsettled
<1>1. ASSUME NEW c \in Callers, Send(c) PROVE InputInv'
  <2>1. PICK n \in Sizes : Enqueue(c, "send", n) /\ pending' = Append(pending, nextSeq')
                           /\ UNCHANGED <<steers, followups, caller>>
    BY <1>1 DEF Send
  <2>2. /\ nextSeq' \in Inputs /\ nextSeq' \in 0..MaxInputs /\ nextSeq' \notin Queued
        /\ kind' \in [Inputs -> Kinds] /\ size' \in [Inputs -> Nat] /\ ack' \in [Inputs -> Acks]
        /\ {i \in Inputs : ack'[i] = "open"} = Queued \cup {nextSeq'}
        /\ Numbered' /\ UNCHANGED <<inflight, transcript>>
    BY <1>0, <2>1, EnqueueFacts
  <2>3. /\ pending' \in Seq(Inputs) /\ Range(pending') = Range(pending) \cup {nextSeq'}
        /\ IsInjective(pending')
    BY <1>0, <2>1, <2>2, AppendFacts, QueuedIs DEF InputInv, InputType, OpenIffQueued
  <2>4. OpenIffQueued'
    BY <1>0, <1>Q, <2>1, <2>2, <2>3, QueuedIs DEF InputInv, OpenIffQueued
  <2> QED
    BY <1>0, <2>1, <2>2, <2>3, <2>4 DEF InputInv, InputType
<1>2. ASSUME NEW c \in Callers, FollowUp(c) PROVE InputInv'
  <2>1. PICK n \in Sizes : Enqueue(c, "followup", n) /\ followups' = Append(followups, nextSeq')
                           /\ UNCHANGED <<pending, steers, caller>>
    BY <1>2 DEF FollowUp
  <2>2. /\ nextSeq' \in Inputs /\ nextSeq' \in 0..MaxInputs /\ nextSeq' \notin Queued
        /\ kind' \in [Inputs -> Kinds] /\ size' \in [Inputs -> Nat] /\ ack' \in [Inputs -> Acks]
        /\ {i \in Inputs : ack'[i] = "open"} = Queued \cup {nextSeq'}
        /\ Numbered' /\ UNCHANGED <<inflight, transcript>>
    BY <1>0, <2>1, EnqueueFacts
  <2>3. /\ followups' \in Seq(Inputs) /\ Range(followups') = Range(followups) \cup {nextSeq'}
        /\ IsInjective(followups')
    BY <1>0, <2>1, <2>2, AppendFacts, QueuedIs DEF InputInv, InputType, OpenIffQueued
  <2>4. OpenIffQueued'
    BY <1>0, <1>Q, <2>1, <2>2, <2>3, QueuedIs DEF InputInv, OpenIffQueued
  <2> QED
    BY <1>0, <2>1, <2>2, <2>3, <2>4 DEF InputInv, InputType
<1>3. ASSUME NEW c \in Callers, SteerEnqueue(c) PROVE InputInv'
  <2>1. PICK n \in Sizes : Enqueue(c, "steer", n) /\ steers' = Append(steers, nextSeq')
                           /\ UNCHANGED <<pending, followups>>
    BY <1>3 DEF SteerEnqueue
  <2>2. /\ nextSeq' \in Inputs /\ nextSeq' \in 0..MaxInputs /\ nextSeq' \notin Queued
        /\ kind' \in [Inputs -> Kinds] /\ size' \in [Inputs -> Nat] /\ ack' \in [Inputs -> Acks]
        /\ {i \in Inputs : ack'[i] = "open"} = Queued \cup {nextSeq'}
        /\ Numbered' /\ UNCHANGED <<inflight, transcript>>
    BY <1>0, <2>1, EnqueueFacts
  <2>3. /\ steers' \in Seq(Inputs) /\ Range(steers') = Range(steers) \cup {nextSeq'}
        /\ IsInjective(steers')
    BY <1>0, <2>1, <2>2, AppendFacts, QueuedIs DEF InputInv, InputType, OpenIffQueued
  <2>4. OpenIffQueued'
    BY <1>0, <1>Q, <2>1, <2>2, <2>3, QueuedIs DEF InputInv, OpenIffQueued
  <2> QED
    BY <1>0, <2>1, <2>2, <2>3, <2>4 DEF InputInv, InputType
<1>4. CASE take
  <2>1. PICK merged \in mergeQueued(steers, pending) :
          inflight' = inflight \o merged /\ transcript' = transcript \o merged
    BY <1>4 DEF take
  <2>2. /\ merged \in Seq(Inputs) /\ IsInjective(merged)
        /\ Range(merged) = Range(steers) \cup Range(pending)
    BY <1>0, <2>1, MergeFacts DEF InputInv, InputType
  <2>3. steers' = << >> /\ pending' = << >> /\ UNCHANGED <<followups, ack, nextSeq, kind, size>>
    BY <1>4 DEF take, EngineFrame, admission
  <2>4. Range(inflight) \cap Range(merged) = {}
    BY <1>0, <2>2 DEF InputInv, OpenIffQueued
  <2>5. /\ inflight' \in Seq(Inputs) /\ transcript' \in Seq(Inputs) /\ IsInjective(inflight')
        /\ Range(inflight') = Range(inflight) \cup Range(merged)
    BY <1>0, <2>1, <2>2, <2>4, ConcatFacts DEF InputInv, InputType, OpenIffQueued
  <2>6. OpenIffQueued'
    BY <1>0, <1>Q, <2>2, <2>3, <2>5, QueuedIs, EmptyFacts DEF InputInv, OpenIffQueued
  <2>7. Numbered'
    BY <1>0, <2>3 DEF InputInv, Numbered
  <2> QED
    BY <1>0, <2>3, <2>5, <2>6, <2>7, EmptyFacts DEF InputInv, InputType
<1>5. ASSUME NEW ok \in BOOLEAN, acknowledge(ok) PROVE InputInv'
  <2>1. /\ Answer(Range(inflight), IF ok THEN "nil" ELSE "boundary") /\ inflight' = << >>
        /\ UNCHANGED <<pending, steers, followups, nextSeq, kind, size, transcript>>
    BY <1>5 DEF acknowledge, EngineFrame, admission
  <2>2. Range(inflight) \subseteq Queued
    BY QueuedIs
  <2>3. /\ ack' \in [Inputs -> Acks] /\ Numbered'
        /\ {i \in Inputs : ack'[i] = "open"} = Queued \ Range(inflight)
    BY <1>0, <2>1, <2>2, AnswerFacts
  <2>4. OpenIffQueued'
    BY <1>0, <1>Q, <2>1, <2>3, QueuedIs, EmptyFacts DEF InputInv, OpenIffQueued
  <2> QED
    BY <1>0, <2>1, <2>3, <2>4, EmptyFacts DEF InputInv, InputType
<1>6. CASE continueOrSeal
  <2>1. UNCHANGED <<steers, inflight, ack, nextSeq, kind, size, transcript>>
    BY <1>6 DEF continueOrSeal, EngineFrame, admission
  <2>2. CASE UNCHANGED <<pending, followups>>
    BY <1>0, <2>1, <2>2, QuietStep DEF queues, admission
  <2>3. CASE pending' = pending \o followups /\ followups' = << >>
    <3>1. /\ pending' \in Seq(Inputs) /\ IsInjective(pending')
          /\ Range(pending') = Range(pending) \cup Range(followups)
      BY <1>0, <2>3, ConcatFacts DEF InputInv, InputType, OpenIffQueued
    <3>2. OpenIffQueued'
      BY <1>0, <1>Q, <2>1, <2>3, <3>1, QueuedIs, EmptyFacts DEF InputInv, OpenIffQueued
    <3>3. Numbered'
      BY <1>0, <2>1 DEF InputInv, Numbered
    <3> QED
      BY <1>0, <2>1, <2>3, <3>1, <3>2, <3>3, EmptyFacts DEF InputInv, InputType
  <2> QED
    BY <1>6, <2>2, <2>3 DEF continueOrSeal
<1>7. CASE finish
  <2>1. /\ Answer(Queued, "closed")
        /\ pending' = << >> /\ steers' = << >> /\ followups' = << >> /\ inflight' = << >>
        /\ UNCHANGED <<nextSeq, kind, size, transcript>>
    BY <1>7 DEF finish, EngineFrame, admission, Queued
  <2>2. /\ ack' \in [Inputs -> Acks] /\ Numbered'
        /\ {i \in Inputs : ack'[i] = "open"} = {}
    BY <1>0, <2>1, AnswerFacts
  <2>3. OpenIffQueued'
    BY <1>Q, <2>1, <2>2, EmptyFacts DEF OpenIffQueued
  <2> QED
    BY <1>0, <2>1, <2>2, <2>3, EmptyFacts DEF InputInv, InputType
<1>8. CASE UNCHANGED <<queues, admission, ack, transcript>>
  BY <1>0, <1>8, QuietStep
<1>9. CASE \/ start \/ stopRun \/ beginTurn \/ updateTurnStarted \/ recoverContext \/ observe
           \/ finishOverlap \/ releaseTurn \/ nextTurn \/ afterSeal \/ executeEarly \/ expire
           \/ \E r \in {"ok", "failed"} : collect(r)
  <2>1. UNCHANGED <<queues, admission, ack, transcript>>
    BY <1>9 DEF start, stopRun, beginTurn, updateTurnStarted, recoverContext, observe, finishOverlap,
       releaseTurn, nextTurn, afterSeal, executeEarly, expire, collect, EngineFrame
  <2> QED
    BY <1>8, <2>1
<1>10. ASSUME NEW c \in Callers, SteerInterrupt(c) \/ Cancel(c) PROVE InputInv'
  BY <1>8, <1>10 DEF SteerInterrupt, Cancel
<1>11. CASE UNCHANGED vars
  BY <1>8, <1>11 DEF vars
<1> QED
  BY <1>1, <1>2, <1>3, <1>4, <1>5, <1>6, <1>7, <1>9, <1>10, <1>11
  DEF Next, Engine, Call, Terminated

(* Types, and the inductive invariant, in every reachable state. *)
THEOREM Invariance == Spec => []ControlInv
<1>1. ControlInv /\ [Next]_vars => ControlInv'
  BY LoopStep, InputStep, Parts DEF ControlInv, TypeOK, InputInv, InputType, LoopInv, LoopType
<1> QED
  BY InitInv, <1>1, PTL DEF Spec

(* Every field of the handle keeps its type. *)
THEOREM TypeCorrect == Spec => []TypeOK
BY Invariance, PTL DEF ControlInv

(* No input is dropped, duplicated or left without its channel. *)
THEOREM OpenExactlyWhileQueued == Spec => []OpenIffQueued
BY Invariance, PTL DEF ControlInv

(* A natural end has consumed every accepted input. *)
THEOREM CompletionConsumes == Spec => []CompletionConsumesInput
<1>1. ControlInv => CompletionConsumesInput
  <2> SUFFICES ASSUME ControlInv, pc = "complete", NEW i \in 1..nextSeq
               PROVE  ack[i] = "nil"
    BY DEF CompletionConsumesInput
  <2>1. i \in Inputs /\ ack[i] \in Acks
    BY ControlAssumption DEF ControlInv, TypeOK, Inputs
  <2>2. ack[i] # "none"
    BY <2>1 DEF ControlInv, TypeOK, Numbered, Inputs
  <2>3. ack[i] # "open"
    <3>1. Queued = {}
      BY QueuedIs, EmptyFacts DEF ControlInv, Settled, Sealed
    <3> QED
      BY <2>1, <3>1 DEF ControlInv, OpenIffQueued
  <2> QED
    BY <2>1, <2>2, <2>3 DEF ControlInv, Verdicts, Acks
<1> QED
  BY Invariance, <1>1, PTL

(* How a step may change the channels: it opens the next one, or answers a   *)
(* set of open ones, all alike.                                             *)
LEMMA AckStep ==
    ASSUME ControlInv, [Next]_vars
    PROVE  \A i \in Inputs : ack[i] \notin {"none", "open"} => ack'[i] = ack[i]
<1>0. InputInv
  BY Parts
<1>1. ASSUME NEW c \in Callers, NEW k \in {"send", "steer", "followup"}, NEW n \in Sizes,
             Enqueue(c, k, n)
      PROVE  \A i \in Inputs : ack[i] \notin {"none", "open"} => ack'[i] = ack[i]
  <2>1. nextSeq' \in Inputs /\ ack[nextSeq'] = "none"
    BY <1>0, <1>1, EnqueueFacts
  <2> QED
    BY <1>0, <1>1, <2>1 DEF Enqueue, InputInv, InputType
<1>2. ASSUME NEW S, S \subseteq Queued, NEW a, Answer(S, a)
      PROVE  \A i \in Inputs : ack[i] \notin {"none", "open"} => ack'[i] = ack[i]
  BY <1>0, <1>2 DEF Answer, InputInv, OpenIffQueued
<1>3. ASSUME NEW c \in Callers, Call(c)
      PROVE  \A i \in Inputs : ack[i] \notin {"none", "open"} => ack'[i] = ack[i]
  BY <1>1, <1>3 DEF Call, Send, FollowUp, SteerEnqueue, SteerInterrupt, Cancel
<1>4. ASSUME NEW ok \in BOOLEAN, acknowledge(ok)
      PROVE  \A i \in Inputs : ack[i] \notin {"none", "open"} => ack'[i] = ack[i]
  BY <1>2, <1>4, QueuedIs DEF acknowledge
<1>5. CASE finish
  BY <1>2, <1>5 DEF finish, Queued
<1>6. CASE UNCHANGED ack
  BY <1>6
<1> QED
  BY <1>3, <1>4, <1>5, <1>6
  DEF Next, Engine, Terminated, vars, start, take, stopRun, beginTurn, updateTurnStarted, recoverContext,
      observe, finishOverlap, releaseTurn, nextTurn, continueOrSeal, afterSeal, executeEarly, expire,
      collect

(* Exactly one result per channel. *)
THEOREM AnsweredOnce == Spec => AckOnce
<1>1. ControlInv /\ [Next]_vars =>
        [\A i \in Inputs : ack[i] \notin {"none", "open"} => ack'[i] = ack[i]]_vars
  BY AckStep
<1> QED
  BY Invariance, <1>1, PTL DEF Spec, AckOnce

-----------------------------------------------------------------------------
(* Control implements InputDelivery. *)

Status(i) ==
    CASE ack[i] = "none" -> "none"
      [] ack[i] = "open" -> IF i \in Range(inflight) THEN "taken" ELSE "queued"
      [] ack[i] = "nil" -> "delivered"
      [] OTHER -> "refused"

(* The refinement mapping, one input at a time. *)
LEMMA StatusIs ==
    /\ InputStatus = [i \in Inputs |-> Status(i)]
    /\ \A i \in Inputs : InputStatus[i] = Status(i)
BY DEF InputStatus, Status

(* An unstarted handle is an unstarted InputDelivery. *)
LEMMA InitDelivery == Init => Delivery!Init
BY DEF Init, Delivery!Init, Delivery!Inputs, Inputs, InputStatus, Phase

(* A step that leaves the channels and what is in flight alone moves no input. *)
LEMMA SameStatus ==
    ASSUME UNCHANGED <<ack, inflight>>
    PROVE  InputStatus' = InputStatus
BY DEF InputStatus

(* Every step of Control and its loop is a step of InputDelivery or a stutter. *)
LEMMA SimulationStep ==
    ASSUME ControlInv, [Next]_vars
    PROVE  [Delivery!Next]_(Delivery!vars)
<1> DEFINE Step == [Delivery!Next]_(Delivery!vars)
<1>0. InputInv /\ LoopInv
  BY Parts
<1>I. Delivery!Inputs = Inputs
  BY DEF Delivery!Inputs, Inputs
<1>S. UNCHANGED <<InputStatus, accepting, Phase>> => Step
  BY DEF Delivery!vars
<1>C. UNCHANGED <<InputStatus, Phase>> /\ accepting' = FALSE => Step
  <2> SUFFICES ASSUME UNCHANGED <<InputStatus, Phase>>, accepting' = FALSE PROVE Step
    OBVIOUS
  <2>1. CASE accepting
    BY <2>1 DEF Delivery!Next, Delivery!Close
  <2>2. CASE ~accepting
    BY <1>0, <1>S, <2>2 DEF LoopInv, LoopType
  <2> QED
    BY <2>1, <2>2
<1>A. UNCHANGED <<InputStatus, accepting>> /\ Phase = "running" /\ Phase' = "aborted" => Step
  BY DEF Delivery!Next, Delivery!Abort
<1>1. CASE start
  <2>1. UNCHANGED InputStatus
    BY <1>1, SameStatus DEF start, queues
  <2> QED
    BY <1>1, <2>1 DEF start, Goto, Phase, Delivery!Next, Delivery!Open
<1>2. ASSUME NEW c \in Callers, NEW k \in {"send", "steer", "followup"}, NEW n \in Sizes,
             Enqueue(c, k, n)
      PROVE  Step
  <2>1. /\ nextSeq' = nextSeq + 1 /\ nextSeq' \in Inputs /\ ack[nextSeq'] = "none"
        /\ nextSeq' \notin Queued /\ UNCHANGED inflight
    BY <1>0, <1>2, EnqueueFacts
  <2>2. accepting /\ UNCHANGED <<accepting, pc>>
    BY <1>2 DEF Enqueue
  <2>3. Phase # "ended" /\ UNCHANGED Phase
    BY <1>0, <2>2 DEF Phase, LoopInv, Closed
  <2>4. InputStatus[nextSeq'] = "none"
    BY <2>1, StatusIs DEF Status
  <2>5. \A j \in Inputs : j < nextSeq' => InputStatus[j] # "none"
    <3> SUFFICES ASSUME NEW j \in Inputs, j < nextSeq' PROVE InputStatus[j] # "none"
      OBVIOUS
    <3>1. ack[j] # "none"
      BY <1>0, <2>1 DEF InputInv, InputType, Numbered, Inputs
    <3> QED
      BY <3>1, StatusIs DEF Status
  <2>6. InputStatus' = [i \in Inputs |-> IF i \in {nextSeq'} THEN "queued" ELSE InputStatus[i]]
    <3>1. \A i \in Inputs : ack'[i] = IF i = nextSeq' THEN "open" ELSE ack[i]
      BY <1>0, <1>2, <2>1 DEF Enqueue, InputInv, InputType
    <3>2. nextSeq' \notin Range(inflight)
      BY <2>1, QueuedIs
    <3>3. \A i \in Inputs : Status(i)' = IF i \in {nextSeq'} THEN "queued" ELSE InputStatus[i]
      BY <2>1, <3>1, <3>2, StatusIs DEF Status
    <3>4. InputStatus' = [i \in Inputs |-> Status(i)']
      BY DEF InputStatus, Status
    <3> QED
      BY <3>3, <3>4
  <2>7. Delivery!Accept(nextSeq')
    BY <1>I, <2>2, <2>3, <2>4, <2>5, <2>6 DEF Delivery!Accept, Delivery!Move
  <2> QED
    BY <1>I, <2>1, <2>7 DEF Delivery!Next
<1>3. CASE take
  <2>1. PICK merged \in mergeQueued(steers, pending) : inflight' = inflight \o merged
    BY <1>3 DEF take
  <2> DEFINE M == Range(merged)
  <2>2. M = Range(steers) \cup Range(pending) /\ Range(inflight') = Range(inflight) \cup M
    BY <1>0, <2>1, MergeFacts, ConcatFacts DEF InputInv, InputType
  <2>3. M \subseteq Inputs /\ \A i \in M : ack[i] = "open" /\ i \notin Range(inflight)
    BY <1>0, <2>2, QueuedIs DEF InputInv, OpenIffQueued
  <2>4. UNCHANGED <<accepting, ack>> /\ Phase = "running" /\ Phase' = "running"
    BY <1>3 DEF take, Goto, Phase
  <2>5. \A i \in M : InputStatus[i] = "queued"
    BY <2>3, StatusIs DEF Status
  <2>6. InputStatus' = [i \in Inputs |-> IF i \in M THEN "taken" ELSE InputStatus[i]]
    <3>1. \A i \in Inputs : Status(i)' = IF i \in M THEN "taken" ELSE InputStatus[i]
      BY <2>2, <2>3, <2>4, StatusIs DEF Status
    <3>2. InputStatus' = [i \in Inputs |-> Status(i)']
      BY DEF InputStatus, Status
    <3> QED
      BY <3>1, <3>2
  <2>7. Delivery!Take(M)
    BY <1>I, <2>4, <2>5, <2>6 DEF Delivery!Take, Delivery!Move
  <2> QED
    BY <1>I, <2>3, <2>7 DEF Delivery!Next
<1>4. ASSUME NEW ok \in BOOLEAN, acknowledge(ok) PROVE Step
  <2> DEFINE a == IF ok THEN "nil" ELSE "boundary"
             st == IF ok THEN "delivered" ELSE "refused"
             T == {i \in Inputs : InputStatus[i] = "taken"}
  <2>1. /\ Answer(Range(inflight), a) /\ inflight' = << >> /\ UNCHANGED <<accepting, nextSeq>>
        /\ Phase = "running" /\ Phase' = "running"
    BY <1>4 DEF acknowledge, Goto, Phase, EngineFrame, admission
  <2>2. Range(inflight) \subseteq Queued /\ Queued = {i \in Inputs : ack[i] = "open"}
    BY <1>0, QueuedIs DEF InputInv, OpenIffQueued
  <2>3. \A i \in Inputs : i \in Range(inflight) <=> i \in T
    BY <2>2, StatusIs DEF Status
  <2>4. \A i \in Inputs : ack'[i] = IF i \in Range(inflight) THEN a ELSE ack[i]
    BY <1>0, <2>1, <2>2, AnswerFacts
  <2>5. InputStatus' = [i \in Inputs |-> IF i \in T THEN st ELSE InputStatus[i]]
    <3>1. \A i \in Inputs : Status(i)' = IF i \in T THEN st ELSE InputStatus[i]
      BY <2>1, <2>3, <2>4, StatusIs, EmptyFacts DEF Status
    <3>2. InputStatus' = [i \in Inputs |-> Status(i)']
      BY DEF InputStatus, Status
    <3> QED
      BY <3>1, <3>2
  <2>6. Delivery!Answer(st)
    BY <1>I, <2>1, <2>5 DEF Delivery!Answer, Delivery!Move
  <2> QED
    BY <2>6 DEF Delivery!Next
<1>5. CASE finish
  <2>1. /\ Answer(Queued, "closed") /\ inflight' = << >> /\ accepting' = FALSE
        /\ Phase \in {"complete", "aborted"} /\ Phase' = "ended" /\ UNCHANGED nextSeq
    BY <1>5 DEF finish, Phase, Queued, EngineFrame, admission
  <2>2. \A i \in Inputs : i \in Queued <=> i \in Delivery!Unanswered
    BY <1>0, <1>I, StatusIs DEF Delivery!Unanswered, Status, InputInv, OpenIffQueued
  <2>3. \A i \in Inputs : ack'[i] = IF i \in Queued THEN "closed" ELSE ack[i]
    BY <1>0, <2>1, AnswerFacts
  <2>4. InputStatus' = [i \in Inputs |-> IF i \in Delivery!Unanswered THEN "refused" ELSE InputStatus[i]]
    <3>1. \A i \in Inputs : Status(i)' = IF i \in Queued THEN "refused" ELSE InputStatus[i]
      BY <1>0, <2>1, <2>3, StatusIs, EmptyFacts DEF Status, InputInv, OpenIffQueued
    <3>2. InputStatus' = [i \in Inputs |-> Status(i)']
      BY DEF InputStatus, Status
    <3> QED
      BY <2>2, <3>1, <3>2
  <2> QED
    BY <1>I, <2>1, <2>4 DEF Delivery!End, Delivery!Move, Delivery!Next
<1>6. CASE continueOrSeal
  <2>1. UNCHANGED InputStatus /\ UNCHANGED Phase
    BY <1>6, SameStatus DEF continueOrSeal, Phase
  <2> QED
    BY <1>6, <1>S, <1>C, <2>1 DEF continueOrSeal
<1>7. CASE afterSeal
  <2>1. UNCHANGED <<InputStatus, accepting>> /\ Phase = "running"
    BY <1>7, SameStatus DEF afterSeal, queues, Phase
  <2>2. CASE pc' = "top"
    BY <1>S, <2>1, <2>2 DEF Phase
  <2>3. CASE pc' = "complete"
    <3>1. ~accepting /\ Queued = {}
      BY <1>0, <1>7, QueuedIs, EmptyFacts DEF afterSeal, LoopInv, Sealed, Settled
    <3>2. Delivery!Unanswered = {}
      BY <1>0, <1>I, <3>1, StatusIs DEF Delivery!Unanswered, Status, InputInv, OpenIffQueued
    <3> QED
      BY <2>1, <2>3, <3>1, <3>2 DEF Phase, Delivery!Next, Delivery!Complete
  <2> QED
    BY <1>7, <2>2, <2>3 DEF afterSeal
<1>8. CASE stopRun
  <2>1. UNCHANGED <<InputStatus, accepting>>
    BY <1>8, SameStatus DEF stopRun, queues
  <2> QED
    BY <1>8, <1>A, <2>1 DEF stopRun, Phase
<1>9. CASE releaseTurn
  <2>1. UNCHANGED <<InputStatus, accepting>> /\ Phase = "running"
    BY <1>9, SameStatus DEF releaseTurn, queues, Phase
  <2>2. Phase' \in {"running", "aborted"}
    BY <1>9 DEF releaseTurn, Phase
  <2> QED
    BY <1>S, <1>A, <2>1, <2>2
<1>10. ASSUME NEW c \in Callers, Cancel(c) PROVE Step
  <2>1. UNCHANGED <<InputStatus, Phase>>
    BY <1>10, SameStatus DEF Cancel, queues, Phase
  <2> QED
    BY <1>10, <1>C, <2>1 DEF Cancel
<1>11. CASE \/ beginTurn \/ updateTurnStarted \/ recoverContext \/ observe \/ finishOverlap
            \/ nextTurn \/ executeEarly \/ expire \/ UNCHANGED vars
            \/ (\E r \in {"ok", "failed"} : collect(r)) \/ (\E c \in Callers : SteerInterrupt(c))
  <2>1. UNCHANGED <<ack, inflight, accepting>>
    BY <1>11 DEF beginTurn, updateTurnStarted, recoverContext, observe, finishOverlap, nextTurn,
       executeEarly, expire, vars, collect, SteerInterrupt, queues
  <2>2. UNCHANGED Phase
    BY <1>11 DEF beginTurn, updateTurnStarted, recoverContext, observe, finishOverlap, nextTurn,
       executeEarly, expire, vars, collect, SteerInterrupt, Goto, Phase
  <2> QED
    BY <1>S, <2>1, <2>2, SameStatus
<1>12. ASSUME NEW c \in Callers, Send(c) \/ FollowUp(c) \/ SteerEnqueue(c) PROVE Step
  BY <1>2, <1>12 DEF Send, FollowUp, SteerEnqueue
<1> QED
  BY <1>1, <1>3, <1>4, <1>5, <1>6, <1>7, <1>8, <1>9, <1>10, <1>11, <1>12
  DEF Next, Engine, Call, Terminated

(* The handle, with its locks, its queues and the loop that drives it, keeps *)
(* the promise InputDelivery states to its callers.                         *)
THEOREM Refinement == Spec => ImplementsInputDelivery
<1>1. ControlInv /\ [Next]_vars => [Delivery!Next]_(Delivery!vars)
  BY SimulationStep
<1> QED
  BY InitDelivery, Invariance, <1>1, PTL DEF Spec, ImplementsInputDelivery, Delivery!Spec

-----------------------------------------------------------------------------
(* The queue limits. *)

(* What is queued is finite, its sizes are natural, and SizeOf sums them.    *)
LEMMA SizeFacts ==
    ASSUME InputInv
    PROVE  /\ IsFiniteSet(Queued) /\ \A i \in Queued : size[i] \in Nat
           /\ \A S : SizeOf(S) = SumOf(size, S) /\ SizeOf(S)' = SumOf(size', S)
<1>1. Queued \subseteq Inputs
  BY DEF InputInv, OpenIffQueued
<1>2. IsFiniteSet(Inputs)
  BY ControlAssumption, FS_Interval DEF Inputs
<1>3. IsFiniteSet(Queued)
  BY <1>1, <1>2, FS_Subset
<1>4. \A i \in Queued : size[i] \in Nat
  BY <1>1 DEF InputInv, InputType
<1>5. \A S : SizeOf(S) = SumOf(size, S) /\ SizeOf(S)' = SumOf(size', S)
  BY DEF SizeOf, SumOf, MapThenSumSet, MapThenFoldSet
<1> QED
  BY <1>3, <1>4, <1>5

(* An accepted input adds its size to what is queued. *)
LEMMA EnqueueSize ==
    ASSUME InputInv, InputInv', NEW c \in Callers, NEW k \in {"send", "steer", "followup"}, NEW n \in Sizes,
           Enqueue(c, k, n), Queued' = Queued \cup {nextSeq'},
           QueueBounded, QueueLen' = QueueLen + 1, QueueLen \in Nat
    PROVE  QueueBounded'
<1>1. /\ nextSeq' \notin Queued /\ nextSeq' \in Inputs
  BY EnqueueFacts
<1>2. n \in Nat /\ \A i \in Inputs : size'[i] = IF i = nextSeq' THEN n ELSE size[i]
  BY <1>1, ControlAssumption DEF Enqueue, InputInv, InputType
<1>3. Queued \subseteq Inputs
  BY DEF InputInv, OpenIffQueued
<1>4. SumOf(size', Queued) = SumOf(size, Queued)
  <2>1. \A i \in Queued : size'[i] = size[i]
    BY <1>1, <1>2, <1>3
  <2> QED
    BY <2>1, SizeFacts, SumAgree
<1>5. SumOf(size', Queued \cup {nextSeq'}) = n + SumOf(size', Queued)
  <2>1. \A i \in Queued \cup {nextSeq'} : size'[i] \in Nat
    BY <1>1, <1>3 DEF InputInv, InputType
  <2>2. IsFiniteSet(Queued)
    BY SizeFacts
  <2> QED
    BY <1>1, <1>2, <2>1, <2>2, SumAdd
<1>6. SumOf(size, Queued) \in Nat
  BY SizeFacts, SumNat
<1>7. bytes' = SumOf(size', Queued')
  BY <1>2, <1>4, <1>5, <1>6, SizeFacts DEF QueueBounded, Enqueue
<1>8. bytes' = SizeOf(Queued)'
  BY <1>7 DEF SizeOf, SumOf, MapThenSumSet, MapThenFoldSet
<1>9. QueueLen' <= MaxQueue /\ bytes' <= MaxQueueBytes
  BY ControlAssumption DEF Enqueue, WithinLimits
<1> QED
  BY <1>8, <1>9 DEF QueueBounded

(* A step that leaves queues, sizes and bytes alone keeps the limits. *)
LEMMA QuietBounds ==
    ASSUME QueueBounded, UNCHANGED <<queues, size, bytes>>
    PROVE  QueueBounded'
BY DEF QueueBounded, QueueLen, SizeOf, Queued, Unsettled, queues, MapThenSumSet, MapThenFoldSet

(* take moves as many inputs as it finds. *)
LEMMA MergeLength ==
    ASSUME NEW s \in Seq(Inputs), NEW t \in Seq(Inputs), NEW m \in mergeQueued(s, t)
    PROVE  Len(m) = Len(s) + Len(t)
<1>1. DOMAIN m = 1..(Len(s) + Len(t)) /\ Len(s) + Len(t) \in Nat
  BY DEF mergeQueued
<1>2. m \in Seq(Inputs)
  BY MergeFacts
<1>3. DOMAIN m = 1..Len(m) /\ Len(m) \in Nat
  BY <1>2
<1> QED
  BY <1>1, <1>3

(* Every step keeps the limits, and the bytes what the queues hold. *)
LEMMA BoundsStep == ControlInv /\ ControlInv' /\ QueueBounded /\ [Next]_vars => QueueBounded'
<1> SUFFICES ASSUME ControlInv, ControlInv', QueueBounded, [Next]_vars PROVE QueueBounded'
  OBVIOUS
<1>0. InputInv
  BY Parts
<1>P. InputInv'
  BY DEF ControlInv, TypeOK, InputInv, InputType
<1>Q. Queued' = Range(inflight') \cup Range(steers') \cup Range(pending') \cup Range(followups')
  BY DEF Queued, Unsettled
<1>L. /\ Len(pending) \in Nat /\ Len(steers) \in Nat /\ Len(followups) \in Nat /\ Len(inflight) \in Nat
      /\ Len(<< >>) = 0
  BY <1>0 DEF InputInv, InputType
<1>1. ASSUME NEW c \in Callers, Send(c) PROVE QueueBounded'
  <2>1. PICK n \in Sizes : Enqueue(c, "send", n) /\ pending' = Append(pending, nextSeq')
                           /\ UNCHANGED <<steers, followups>>
    BY <1>1 DEF Send
  <2>2. nextSeq' \in Inputs /\ UNCHANGED inflight
    BY <1>0, <2>1, EnqueueFacts
  <2>3. Range(pending') = Range(pending) \cup {nextSeq'} /\ Len(pending') = Len(pending) + 1
    BY <1>0, <2>1, <2>2, AppendFacts DEF InputInv, InputType
  <2>4. Queued' = Queued \cup {nextSeq'}
    BY <1>Q, <2>1, <2>2, <2>3, QueuedIs
  <2>5. QueueLen' = QueueLen + 1 /\ QueueLen \in Nat
    BY <1>L, <2>1, <2>2, <2>3 DEF QueueLen
  <2> QED
    BY <1>0, <1>P, <2>1, <2>4, <2>5, EnqueueSize
<1>2. ASSUME NEW c \in Callers, FollowUp(c) PROVE QueueBounded'
  <2>1. PICK n \in Sizes : Enqueue(c, "followup", n) /\ followups' = Append(followups, nextSeq')
                           /\ UNCHANGED <<pending, steers>>
    BY <1>2 DEF FollowUp
  <2>2. nextSeq' \in Inputs /\ UNCHANGED inflight
    BY <1>0, <2>1, EnqueueFacts
  <2>3. Range(followups') = Range(followups) \cup {nextSeq'} /\ Len(followups') = Len(followups) + 1
    BY <1>0, <2>1, <2>2, AppendFacts DEF InputInv, InputType
  <2>4. Queued' = Queued \cup {nextSeq'}
    BY <1>Q, <2>1, <2>2, <2>3, QueuedIs
  <2>5. QueueLen' = QueueLen + 1 /\ QueueLen \in Nat
    BY <1>L, <2>1, <2>2, <2>3 DEF QueueLen
  <2> QED
    BY <1>0, <1>P, <2>1, <2>4, <2>5, EnqueueSize
<1>3. ASSUME NEW c \in Callers, SteerEnqueue(c) PROVE QueueBounded'
  <2>1. PICK n \in Sizes : Enqueue(c, "steer", n) /\ steers' = Append(steers, nextSeq')
                           /\ UNCHANGED <<pending, followups>>
    BY <1>3 DEF SteerEnqueue
  <2>2. nextSeq' \in Inputs /\ UNCHANGED inflight
    BY <1>0, <2>1, EnqueueFacts
  <2>3. Range(steers') = Range(steers) \cup {nextSeq'} /\ Len(steers') = Len(steers) + 1
    BY <1>0, <2>1, <2>2, AppendFacts DEF InputInv, InputType
  <2>4. Queued' = Queued \cup {nextSeq'}
    BY <1>Q, <2>1, <2>2, <2>3, QueuedIs
  <2>5. QueueLen' = QueueLen + 1 /\ QueueLen \in Nat
    BY <1>L, <2>1, <2>2, <2>3 DEF QueueLen
  <2> QED
    BY <1>0, <1>P, <2>1, <2>4, <2>5, EnqueueSize
<1>K. ASSUME UNCHANGED <<size, bytes>>, Queued' = Queued, QueueLen' = QueueLen PROVE QueueBounded'
  BY <1>K DEF QueueBounded, SizeOf, MapThenSumSet, MapThenFoldSet
<1>4. CASE take
  <2>1. PICK merged \in mergeQueued(steers, pending) : inflight' = inflight \o merged
    BY <1>4 DEF take
  <2>2. /\ merged \in Seq(Inputs) /\ Len(merged) = Len(steers) + Len(pending)
        /\ Range(merged) = Range(steers) \cup Range(pending)
    BY <1>0, <2>1, MergeFacts, MergeLength DEF InputInv, InputType
  <2>3. steers' = << >> /\ pending' = << >> /\ UNCHANGED <<followups, size, bytes>>
    BY <1>4 DEF take, EngineFrame, admission
  <2>4. Range(inflight') = Range(inflight) \cup Range(merged) /\ Len(inflight') = Len(inflight) + Len(merged)
    BY <1>0, <2>1, <2>2, ConcatFacts DEF InputInv, InputType
  <2>5. Queued' = Queued
    BY <1>Q, <2>2, <2>3, <2>4, QueuedIs, EmptyFacts
  <2>6. QueueLen' = QueueLen
    BY <1>L, <2>2, <2>3, <2>4 DEF QueueLen
  <2> QED
    BY <1>K, <2>3, <2>5, <2>6
<1>5. ASSUME NEW ok \in BOOLEAN, acknowledge(ok) PROVE QueueBounded'
  <2>1. /\ inflight' = << >> /\ bytes' = bytes - SizeOf(Range(inflight))
        /\ UNCHANGED <<pending, steers, followups, size>>
    BY <1>5 DEF acknowledge, EngineFrame, admission
  <2>2. Queued' = Queued \ Range(inflight)
    BY <1>0, <1>Q, <2>1, QueuedIs, EmptyFacts DEF InputInv, OpenIffQueued
  <2>3. SumOf(size, Queued) = SumOf(size, Range(inflight)) + SumOf(size, Queued \ Range(inflight))
    BY <1>0, QueuedIs, SizeFacts, SumSplit
  <2>4. SumOf(size, Range(inflight)) \in Nat /\ SumOf(size, Queued \ Range(inflight)) \in Nat
    <3>1. \A S \in SUBSET Queued : SumOf(size, S) \in Nat
      <4> SUFFICES ASSUME NEW S \in SUBSET Queued PROVE SumOf(size, S) \in Nat
        OBVIOUS
      <4>1. IsFiniteSet(S) /\ \A i \in S : size[i] \in Nat
        BY <1>0, SizeFacts, FS_Subset
      <4> QED
        BY <4>1, SumNat
    <3> QED
      BY <3>1, QueuedIs
  <2>5. bytes = SumOf(size, Queued) /\ SizeOf(Range(inflight)) = SumOf(size, Range(inflight))
    BY <1>0, SizeFacts DEF QueueBounded
  <2>6. bytes' = SumOf(size', Queued') /\ bytes' <= bytes
    BY <2>1, <2>2, <2>3, <2>4, <2>5
  <2>7. bytes' = SizeOf(Queued)'
    BY <2>6 DEF SizeOf, SumOf, MapThenSumSet, MapThenFoldSet
  <2>8. QueueLen' <= QueueLen
    BY <1>L, <2>1 DEF QueueLen
  <2>9. QueueLen' <= MaxQueue /\ bytes' <= MaxQueueBytes
    <3>1. QueueLen \in Nat /\ QueueLen' \in Nat
      BY <1>L, <2>1 DEF QueueLen
    <3>2. bytes \in Nat /\ bytes' \in Nat
      BY <2>2, <2>3, <2>4, <2>5, <2>6, <2>1
    <3> QED
      BY <2>6, <2>8, <3>1, <3>2, ControlAssumption DEF QueueBounded
  <2> QED
    BY <2>7, <2>9 DEF QueueBounded
<1>6. CASE continueOrSeal
  <2>1. UNCHANGED <<steers, inflight, size, bytes>>
    BY <1>6 DEF continueOrSeal, EngineFrame, admission
  <2>2. CASE UNCHANGED <<pending, followups>>
    BY <2>1, <2>2, QuietBounds DEF queues
  <2>3. CASE pending' = pending \o followups /\ followups' = << >>
    <3>1. /\ Range(pending') = Range(pending) \cup Range(followups)
          /\ Len(pending') = Len(pending) + Len(followups)
      BY <1>0, <2>3, ConcatFacts DEF InputInv, InputType
    <3>2. Queued' = Queued
      BY <1>Q, <2>1, <2>3, <3>1, QueuedIs, EmptyFacts
    <3>3. QueueLen' = QueueLen
      BY <1>L, <2>1, <2>3, <3>1 DEF QueueLen
    <3> QED
      BY <1>K, <2>1, <3>2, <3>3
  <2> QED
    BY <1>6, <2>2, <2>3 DEF continueOrSeal
<1>7. CASE finish
  <2>1. /\ pending' = << >> /\ steers' = << >> /\ followups' = << >> /\ inflight' = << >> /\ bytes' = 0
    BY <1>7 DEF finish
  <2>2. Queued' = {} /\ QueueLen' = 0
    BY <1>Q, <1>L, <2>1, EmptyFacts DEF QueueLen
  <2>3. SizeOf(Queued)' = SumOf(size', {})
    BY <2>2 DEF SizeOf, SumOf, MapThenSumSet, MapThenFoldSet
  <2> QED
    BY <2>1, <2>2, <2>3, SumEmpty, ControlAssumption DEF QueueBounded
<1>8. CASE UNCHANGED <<queues, size, bytes>>
  BY <1>8, QuietBounds
<1>9. CASE \/ start \/ stopRun \/ beginTurn \/ updateTurnStarted \/ recoverContext \/ observe
           \/ finishOverlap \/ releaseTurn \/ nextTurn \/ afterSeal \/ executeEarly \/ expire
           \/ \E r \in {"ok", "failed"} : collect(r)
  <2>1. UNCHANGED <<queues, size, bytes>>
    BY <1>9 DEF start, stopRun, beginTurn, updateTurnStarted, recoverContext, observe, finishOverlap,
       releaseTurn, nextTurn, afterSeal, executeEarly, expire, collect, EngineFrame, admission
  <2> QED
    BY <1>8, <2>1
<1>10. ASSUME NEW c \in Callers, SteerInterrupt(c) \/ Cancel(c) PROVE QueueBounded'
  BY <1>8, <1>10 DEF SteerInterrupt, Cancel, admission
<1>11. CASE UNCHANGED vars
  BY <1>8, <1>11 DEF vars, admission
<1> QED
  BY <1>1, <1>2, <1>3, <1>4, <1>5, <1>6, <1>7, <1>9, <1>10, <1>11
  DEF Next, Engine, Call, Terminated

(* A handle nobody has used holds nothing. *)
LEMMA BoundsInit == Init => QueueBounded
<1> SUFFICES ASSUME Init PROVE QueueBounded
  OBVIOUS
<1>1. Queued = {} /\ QueueLen = 0
  BY EmptyFacts DEF Init, Queued, Unsettled, QueueLen
<1>2. SizeOf(Queued) = SumOf(size, {})
  BY <1>1 DEF SizeOf, SumOf, MapThenSumSet, MapThenFoldSet
<1> QED
  BY <1>1, <1>2, SumEmpty, ControlAssumption DEF Init, QueueBounded

(* The byte count is exact and both limits hold over everything retained,    *)
(* whatever is taken, promoted, acknowledged or refused.                    *)
THEOREM QueuesStayBounded == Spec => []QueueBounded
BY Invariance, BoundsInit, BoundsStep, PTL DEF Spec

-----------------------------------------------------------------------------
(* Corrections interrupt. *)

(* A turn is installed from beginTurn to releaseModelTurn. *)
TurnInstalled == pc \in {"attempt", "stream", "join", "ended"} => turn.active

SteerInv == NoMissedSteer /\ TurnInstalled

(* Installing, interrupting and cancelling a turn, and what they leave. *)
LEMMA TurnEffects ==
    ASSUME turn \in [active : BOOLEAN, cause : Causes]
    PROVE  /\ Interrupted(turn).active = turn.active /\ Cancelled(turn).active = turn.active
           /\ turn.cause # "none" => Interrupted(turn).cause # "none" /\ Cancelled(turn).cause # "none"
           /\ turn.active /\ ~startedFlag => Interrupted(turn).cause # "none"
           /\ InstalledTurn.active
           /\ steers # << >> => InstalledTurn.cause # "none"
BY DEF Interrupted, Cancelled, InstalledTurn, FreshTurn

(* Every step keeps the invariant, because each of the three places that can *)
(* notice a correction looks under the lock.                                *)
LEMMA SteerStep == ControlInv /\ SteerInv /\ [Next]_vars => SteerInv'
<1> SUFFICES ASSUME ControlInv, SteerInv, [Next]_vars PROVE SteerInv'
  OBVIOUS
<1> USE DEF SteerInv, NoMissedSteer, TurnInstalled, Goto, EngineFrame, queues, admission, engine, overlap
<1>0. LoopInv /\ turn \in [active : BOOLEAN, cause : Causes]
  BY Parts DEF LoopInv, LoopType
<1>1. CASE beginTurn
  BY <1>0, <1>1, TurnEffects DEF beginTurn
<1>2. CASE updateTurnStarted
  <2>1. turn.active
    BY <1>2 DEF updateTurnStarted
  <2>2. pc' = "stream" /\ UNCHANGED <<steers, caller, startedFlag>>
    BY <1>2 DEF updateTurnStarted
  <2>3. CASE steers # << >>
    <3>1. turn' = Interrupted(turn)
      BY <1>2, <2>3 DEF updateTurnStarted
    <3> QED
      BY <1>0, <2>1, <2>2, <3>1, TurnEffects
  <2>4. CASE steers = << >>
    <3>1. turn' = turn
      BY <1>2, <2>4 DEF updateTurnStarted
    <3> QED
      BY <2>1, <2>2, <2>4, <3>1
  <2> QED
    BY <2>3, <2>4
<1>3. CASE recoverContext
  BY <1>3 DEF recoverContext
<1>4. CASE observe
  BY <1>4 DEF observe
<1>5. CASE executeEarly
  BY <1>5 DEF executeEarly
<1>6. CASE start \/ take \/ stopRun \/ nextTurn \/ continueOrSeal \/ afterSeal \/ finish
  BY <1>6 DEF start, take, stopRun, nextTurn, continueOrSeal, afterSeal, finish
<1>7. CASE finishOverlap
  BY <1>7 DEF finishOverlap
<1>8. CASE releaseTurn
  BY <1>8 DEF releaseTurn
<1>9. CASE \E ok \in BOOLEAN : acknowledge(ok)
  BY <1>9 DEF acknowledge
<1>10. CASE \E r \in {"ok", "failed"} : collect(r)
  BY <1>10 DEF collect
<1>11. CASE expire
  <2>1. turn' = Cancelled(turn) /\ UNCHANGED <<pc, steers, startedFlag, caller>>
    BY <1>11 DEF expire
  <2> QED
    BY <1>0, <2>1, TurnEffects
<1>12. ASSUME NEW c \in Callers, Send(c) \/ FollowUp(c) PROVE SteerInv'
  BY <1>12 DEF Send, FollowUp, Enqueue
<1>13. ASSUME NEW c \in Callers, SteerEnqueue(c) PROVE SteerInv'
  <2>1. caller' = [caller EXCEPT ![c] = "interrupt"] /\ UNCHANGED <<pc, turn, startedFlag>>
    BY <1>13 DEF SteerEnqueue, Enqueue
  <2>2. caller'[c] = "interrupt"
    BY <1>0, <2>1 DEF LoopInv, LoopType
  <2> QED
    BY <1>0, <2>1, <2>2
<1>14. ASSUME NEW c \in Callers, SteerInterrupt(c) PROVE SteerInv'
  <2>1. turn' = Interrupted(turn) /\ UNCHANGED <<pc, steers, startedFlag>>
    BY <1>14 DEF SteerInterrupt
  <2> QED
    BY <1>0, <2>1, TurnEffects
<1>15. ASSUME NEW c \in Callers, Cancel(c) PROVE SteerInv'
  <2>1. turn' = Cancelled(turn) /\ UNCHANGED <<pc, steers, startedFlag, caller>>
    BY <1>15 DEF Cancel
  <2> QED
    BY <1>0, <2>1, TurnEffects
<1>16. CASE UNCHANGED vars
  BY <1>16 DEF vars
<1> QED
  BY <1>1, <1>2, <1>3, <1>4, <1>5, <1>6, <1>7, <1>8, <1>9, <1>10, <1>11, <1>12, <1>13, <1>14,
     <1>15, <1>16
  DEF Next, Engine, Call, Terminated

(* No correction is missed between enqueueing it and interrupting, at        *)
(* beginTurn, at updateTurnStarted or during a recovery.                    *)
THEOREM SteersInterrupt == Spec => []NoMissedSteer
<1>1. Init => SteerInv
  BY DEF Init, SteerInv, NoMissedSteer, TurnInstalled
<1>2. SteerInv => NoMissedSteer
  BY DEF SteerInv
<1> QED
  BY Invariance, SteerStep, <1>1, <1>2, PTL DEF Spec

-----------------------------------------------------------------------------
(* The order of the transcript. *)

Waiting == Range(pending) \cup Range(steers) \cup Range(followups)

(* What the transcript says about the inputs accepted so far: it holds them  *)
(* all except the ones that wait; only follow-ups wait as follow-ups; and    *)
(* every follow-up that has left that queue is older than those still in it. *)
OrderInv ==
    /\ AdmissionOrder
    /\ Range(transcript) \subseteq 1..nextSeq
    /\ pc # "done" => 1..nextSeq \subseteq Waiting \cup Range(transcript)
    /\ \A i \in Range(followups) : kind[i] = "followup"
    /\ \A i \in Range(followups) :
        \A j \in Range(pending) \cup Range(steers) \cup Range(transcript) :
            kind[j] = "followup" => j < i

(* What waits has been accepted. *)
LEMMA WaitingAccepted ==
    ASSUME InputInv
    PROVE  Queued \subseteq 1..nextSeq
BY DEF InputInv, InputType, OpenIffQueued, Numbered, Inputs

(* A step that touches no queue of waiting inputs and no transcript keeps    *)
(* the order.                                                               *)
LEMMA QuietOrder ==
    ASSUME OrderInv, UNCHANGED <<pending, steers, followups, transcript, nextSeq, kind>>,
           pc' = "done" \/ pc # "done"
    PROVE  OrderInv'
BY DEF OrderInv, AdmissionOrder, Waiting

(* Accepting an input disturbs nothing older. *)
LEMMA EnqueueOrder ==
    ASSUME ControlInv, OrderInv, NEW c \in Callers, NEW k \in {"send", "steer", "followup"}, NEW n \in Sizes,
           Enqueue(c, k, n), Waiting' = Waiting \cup {nextSeq'},
           Range(followups') = IF k = "followup" THEN Range(followups) \cup {nextSeq'} ELSE Range(followups),
           Range(pending') \cup Range(steers') =
             IF k = "followup" THEN Range(pending) \cup Range(steers)
             ELSE Range(pending) \cup Range(steers) \cup {nextSeq'}
    PROVE  OrderInv'
<1>0. InputInv /\ LoopInv
  BY Parts
<1>1. /\ nextSeq' = nextSeq + 1 /\ nextSeq' \in Inputs /\ nextSeq \in Nat
      /\ UNCHANGED transcript
  BY <1>0, EnqueueFacts DEF InputInv, InputType
<1>2. \A i \in Inputs : kind'[i] = IF i = nextSeq' THEN k ELSE kind[i]
  BY <1>0, <1>1 DEF Enqueue, InputInv, InputType
<1>3. \A i \in 1..nextSeq : i \in Inputs /\ i # nextSeq' /\ kind'[i] = kind[i] /\ i < nextSeq'
  BY <1>0, <1>1, <1>2, ControlAssumption DEF Inputs, InputInv, InputType
<1>4. Range(pending) \cup Range(steers) \cup Range(followups) \subseteq 1..nextSeq
  BY <1>0, WaitingAccepted, QueuedIs
<1>5. AdmissionOrder'
  <2> SUFFICES ASSUME NEW m \in DOMAIN transcript, NEW i \in 1..(transcript[m] - 1),
                      kind'[i] # "followup" \/ kind'[transcript[m]] = "followup"
               PROVE  \E q \in 1..(m - 1) : transcript[q] = i
    BY <1>1 DEF AdmissionOrder
  <2>1. transcript[m] \in 1..nextSeq
    BY DEF OrderInv, Range
  <2>2. i \in 1..nextSeq
    BY <1>1, <2>1
  <2>3. kind'[i] = kind[i] /\ kind'[transcript[m]] = kind[transcript[m]]
    BY <1>3, <2>1, <2>2
  <2> QED
    BY <2>3 DEF OrderInv, AdmissionOrder
<1>6. Range(transcript') \subseteq 1..nextSeq'
  BY <1>1, <1>3 DEF OrderInv
<1>7. pc' # "done" => 1..nextSeq' \subseteq Waiting' \cup Range(transcript')
  <2>1. pc' = pc /\ 1..nextSeq' = 1..nextSeq \cup {nextSeq'}
    BY <1>1 DEF Enqueue
  <2> QED
    BY <1>1, <2>1 DEF OrderInv
<1>8. \A i \in Range(followups') : kind'[i] = "followup"
  BY <1>1, <1>2, <1>3, <1>4 DEF OrderInv
<1>9. ASSUME NEW i \in Range(followups'),
             NEW j \in Range(pending') \cup Range(steers') \cup Range(transcript'),
             kind'[j] = "followup"
      PROVE  j < i
  <2>1. CASE k = "followup"
    <3>1. j \in Range(pending) \cup Range(steers) \cup Range(transcript) /\ j \in 1..nextSeq
      BY <1>1, <1>4, <1>9, <2>1 DEF OrderInv
    <3>2. i \in Range(followups) \/ i = nextSeq'
      BY <1>9, <2>1
    <3> QED
      BY <1>3, <1>9, <3>1, <3>2 DEF OrderInv
  <2>2. CASE k # "followup"
    <3>1. i \in Range(followups) /\ j # nextSeq'
      BY <1>1, <1>2, <1>9, <2>2
    <3>2. j \in Range(pending) \cup Range(steers) \cup Range(transcript) /\ j \in 1..nextSeq
      BY <1>1, <1>4, <1>9, <2>2, <3>1 DEF OrderInv
    <3> QED
      BY <1>3, <1>9, <3>1, <3>2 DEF OrderInv
  <2> QED
    BY <2>1, <2>2
<1> QED
  BY <1>5, <1>6, <1>7, <1>8, <1>9 DEF OrderInv

(* Every step keeps the order. *)
LEMMA OrderStep == ControlInv /\ OrderInv /\ [Next]_vars => OrderInv'
<1> SUFFICES ASSUME ControlInv, OrderInv, [Next]_vars PROVE OrderInv'
  OBVIOUS
<1>0. InputInv /\ LoopInv
  BY Parts
<1>W. /\ Queued \subseteq 1..nextSeq
      /\ Range(pending) \cup Range(steers) \cup Range(followups) \subseteq 1..nextSeq
  BY <1>0, WaitingAccepted, QueuedIs
<1>1. ASSUME NEW c \in Callers, Send(c) PROVE OrderInv'
  <2>1. PICK n \in Sizes : Enqueue(c, "send", n) /\ pending' = Append(pending, nextSeq')
                           /\ UNCHANGED <<steers, followups>>
    BY <1>1 DEF Send
  <2>2. Range(pending') = Range(pending) \cup {nextSeq'}
    BY <1>0, <2>1, EnqueueFacts, AppendFacts DEF InputInv, InputType
  <2> QED
    BY <2>1, <2>2, EnqueueOrder DEF Waiting
<1>2. ASSUME NEW c \in Callers, FollowUp(c) PROVE OrderInv'
  <2>1. PICK n \in Sizes : Enqueue(c, "followup", n) /\ followups' = Append(followups, nextSeq')
                           /\ UNCHANGED <<pending, steers>>
    BY <1>2 DEF FollowUp
  <2>2. Range(followups') = Range(followups) \cup {nextSeq'}
    BY <1>0, <2>1, EnqueueFacts, AppendFacts DEF InputInv, InputType
  <2> QED
    BY <2>1, <2>2, EnqueueOrder DEF Waiting
<1>3. ASSUME NEW c \in Callers, SteerEnqueue(c) PROVE OrderInv'
  <2>1. PICK n \in Sizes : Enqueue(c, "steer", n) /\ steers' = Append(steers, nextSeq')
                           /\ UNCHANGED <<pending, followups>>
    BY <1>3 DEF SteerEnqueue
  <2>2. Range(steers') = Range(steers) \cup {nextSeq'}
    BY <1>0, <2>1, EnqueueFacts, AppendFacts DEF InputInv, InputType
  <2> QED
    BY <2>1, <2>2, EnqueueOrder DEF Waiting
<1>4. CASE take
  <2>1. PICK m \in mergeQueued(steers, pending) : transcript' = transcript \o m
    BY <1>4 DEF take
  <2>2. /\ m \in Seq(Inputs) /\ Range(m) = Range(steers) \cup Range(pending)
        /\ \A j, k \in DOMAIN m : j < k => m[j] < m[k]
    BY <1>0, <2>1, MergeFacts DEF InputInv, InputType, mergeQueued
  <2>3. /\ steers' = << >> /\ pending' = << >> /\ UNCHANGED <<followups, nextSeq, kind>>
        /\ pc = "top" /\ pc' = "ready"
    BY <1>4 DEF take, EngineFrame, admission, Goto
  <2>4. transcript \in Seq(Inputs) /\ Range(transcript') = Range(transcript) \cup Range(m)
    BY <1>0, <2>1, <2>2, ConcatFacts DEF InputInv, InputType
  <2> DEFINE L == Len(transcript)
  <2>5. /\ L \in Nat /\ Len(m) \in Nat /\ DOMAIN transcript = 1..L /\ DOMAIN m = 1..Len(m)
        /\ DOMAIN transcript' = 1..(L + Len(m))
        /\ \A q \in 1..L : transcript'[q] = transcript[q]
        /\ \A q \in 1..Len(m) : transcript'[L + q] = m[q]
    BY <2>1, <2>2, <2>4
  <2>6. AdmissionOrder'
    <3> SUFFICES ASSUME NEW n \in 1..(L + Len(m)), NEW i \in 1..(transcript'[n] - 1),
                        kind[i] # "followup" \/ kind[transcript'[n]] = "followup"
                 PROVE  \E q \in 1..(n - 1) : transcript'[q] = i
      BY <2>3, <2>5 DEF AdmissionOrder
    <3>1. CASE n \in 1..L
      <4>1. transcript'[n] = transcript[n]
        BY <2>5, <3>1
      <4>2. PICK q \in 1..(n - 1) : transcript[q] = i
        BY <2>5, <3>1, <4>1 DEF OrderInv, AdmissionOrder
      <4>3. q \in 1..L
        BY <2>5, <3>1, <4>2
      <4> QED
        BY <2>5, <4>2, <4>3
    <3>2. CASE n \notin 1..L
      <4> DEFINE k == n - L
                 x == m[k]
      <4>1. k \in 1..Len(m) /\ transcript'[n] = x /\ x \in Inputs
        <5>1. k \in 1..Len(m) /\ n = L + k
          BY <2>5, <3>2
        <5> QED
          BY <2>2, <2>5, <5>1
      <4>2. x \in Range(steers) \cup Range(pending) /\ x \in 1..nextSeq /\ nextSeq \in Nat
        <5>1. x \in Range(m)
          BY <2>5, <4>1 DEF Range
        <5> QED
          BY <1>0, <1>W, <2>2, <5>1 DEF InputInv, InputType
      <4>3. i \in 1..nextSeq /\ i < x
        BY <4>1, <4>2
      <4>4. i \notin Range(followups)
        <5> SUFFICES ASSUME i \in Range(followups) PROVE FALSE
          OBVIOUS
        <5>1. kind[i] = "followup"
          BY DEF OrderInv
        <5>2. kind[x] = "followup"
          BY <4>1, <5>1
        <5>3. x < i
          BY <4>2, <5>2 DEF OrderInv
        <5> QED
          BY <4>2, <4>3, <5>3
      <4>5. i \in Range(transcript) \cup Range(m)
        BY <2>2, <2>3, <4>3, <4>4 DEF OrderInv, Waiting
      <4>6. CASE i \in Range(transcript)
        <5>1. PICK q \in 1..L : transcript[q] = i
          BY <2>5, <4>6 DEF Range
        <5>2. q \in 1..(n - 1)
          BY <2>5, <3>2, <5>1
        <5> QED
          BY <2>5, <5>1, <5>2
      <4>7. CASE i \in Range(m)
        <5>1. PICK q \in 1..Len(m) : m[q] = i
          BY <2>5, <4>7 DEF Range
        <5>2. q < k
          <6>1. k # q
            BY <4>1, <4>2, <4>3, <5>1
          <6>2. ~(k < q)
            <7>1. k \in DOMAIN m /\ q \in DOMAIN m
              BY <2>5, <4>1, <5>1
            <7>2. k < q => m[k] < m[q]
              BY <2>2, <7>1
            <7> QED
              BY <4>2, <4>3, <5>1, <7>2, SMTT(30)
          <6>3. k \in Int /\ q \in Int
            BY <2>5, <4>1, <5>1
          <6> QED
            BY <6>1, <6>2, <6>3
        <5>3. L + q \in 1..(n - 1)
          BY <2>5, <4>1, <5>1, <5>2
        <5> QED
          BY <2>5, <5>1, <5>3
      <4> QED
        BY <4>5, <4>6, <4>7
    <3> QED
      BY <3>1, <3>2
  <2>7. Range(transcript') \subseteq 1..nextSeq'
    BY <1>W, <2>2, <2>3, <2>4 DEF OrderInv
  <2>8. 1..nextSeq' \subseteq Waiting' \cup Range(transcript')
    BY <2>2, <2>3, <2>4 DEF OrderInv, Waiting
  <2>9. \A i \in Range(followups') : kind'[i] = "followup"
    BY <2>3 DEF OrderInv
  <2>10. \A i \in Range(followups') :
           \A j \in Range(pending') \cup Range(steers') \cup Range(transcript') :
             kind'[j] = "followup" => j < i
    BY <2>2, <2>3, <2>4, EmptyFacts DEF OrderInv
  <2> QED
    BY <2>6, <2>7, <2>8, <2>9, <2>10 DEF OrderInv
<1>5. CASE continueOrSeal
  <2>1. UNCHANGED <<steers, transcript, nextSeq, kind>> /\ pc # "done"
    BY <1>5 DEF continueOrSeal, EngineFrame, admission
  <2>2. CASE UNCHANGED <<pending, followups>>
    BY <2>1, <2>2, QuietOrder
  <2>3. CASE pending' = pending \o followups /\ followups' = << >>
    <3>1. Range(pending') = Range(pending) \cup Range(followups)
      BY <1>0, <2>3, ConcatFacts DEF InputInv, InputType
    <3> QED
      BY <2>1, <2>3, <3>1, EmptyFacts DEF OrderInv, AdmissionOrder, Waiting
  <2> QED
    BY <1>5, <2>2, <2>3 DEF continueOrSeal
<1>6. CASE finish
  <2>1. pc' = "done" /\ followups' = << >> /\ UNCHANGED <<transcript, nextSeq, kind>>
    BY <1>6 DEF finish, EngineFrame, admission
  <2> QED
    BY <2>1, EmptyFacts DEF OrderInv, AdmissionOrder
<1>7. CASE UNCHANGED <<pending, steers, followups, transcript, nextSeq, kind>> /\ (pc' = "done" \/ pc # "done")
  BY <1>7, QuietOrder
<1>8. CASE \/ start \/ stopRun \/ beginTurn \/ updateTurnStarted \/ recoverContext \/ observe
           \/ finishOverlap \/ releaseTurn \/ nextTurn \/ afterSeal \/ executeEarly \/ expire
           \/ (\E r \in {"ok", "failed"} : collect(r)) \/ (\E ok \in BOOLEAN : acknowledge(ok))
           \/ (\E c \in Callers : SteerInterrupt(c) \/ Cancel(c))
  <2>1. UNCHANGED <<pending, steers, followups, transcript, nextSeq, kind>>
    BY <1>8 DEF start, stopRun, beginTurn, updateTurnStarted, recoverContext, observe, finishOverlap,
       releaseTurn, nextTurn, afterSeal, executeEarly, expire, collect, acknowledge, SteerInterrupt, Cancel,
       EngineFrame, queues, admission
  <2>2. pc' = pc \/ pc # "done"
    BY <1>8 DEF start, stopRun, beginTurn, updateTurnStarted, recoverContext, observe, finishOverlap,
       releaseTurn, nextTurn, afterSeal, executeEarly, expire, collect, acknowledge, SteerInterrupt, Cancel,
       Goto
  <2> QED
    BY <1>7, <2>1, <2>2
<1>9. CASE UNCHANGED vars
  BY <1>7, <1>9 DEF vars, queues, admission
<1> QED
  BY <1>1, <1>2, <1>3, <1>4, <1>5, <1>6, <1>8, <1>9 DEF Next, Engine, Call, Terminated

(* The transcript never holds an input before an older one that should have  *)
(* come first, however the three queues, promotions and takes interleave.   *)
THEOREM OrderIsKept == Spec => []AdmissionOrder
<1>1. Init => OrderInv
  BY EmptyFacts DEF Init, OrderInv, AdmissionOrder, Waiting
<1>2. OrderInv => AdmissionOrder
  BY DEF OrderInv
<1> QED
  BY Invariance, OrderStep, <1>1, <1>2, PTL DEF Spec

=============================================================================
