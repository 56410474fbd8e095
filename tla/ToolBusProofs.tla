---------------------------- MODULE ToolBusProofs ----------------------------
(***************************************************************************)
(* Proofs about ToolBus, for any dispatches, batches and definitions: what  *)
(* ErrNotExecuted proves, that sequential calls are barriers, that the       *)
(* limiters hold exactly the slots of the calls that run, and that a batch   *)
(* ends with a result or an error for each call.                            *)
(***************************************************************************)
EXTENDS ToolBus, FiniteSetTheorems, TLAPS

Active == {"dispatch", "select", "wait"}

(* A driver was entered on the way to "running" and never before. *)
StartedSlots ==
    \A r \in Runs : \A i \in DOMAIN calls[r] :
        /\ i \in started[r] => slot[r][i] \in {"running", "ok", "error", "refused"}
        /\ slot[r][i] = "running" => i \in started[r]
        /\ i \in updated[r] => i \in started[r] /\ slot[r][i] # "refused"

(* Calls are handed out in order; what is under way belongs to the group.   *)
FrontierOf(r) ==
    \A i \in DOMAIN calls[r] :
        /\ pc[r] \in Active \cup {"next"} /\ i >= next[r] => slot[r][i] = "new"
        /\ slot[r][i] \in Busy => pc[r] \in Active /\ from[r] <= i /\ i <= to[r]

(* What precedes the group has succeeded, and a group is one inline call or  *)
(* parallel calls only.                                                     *)
ShapeOf(r) ==
    /\ pc[r] = "next" => \A i \in DOMAIN calls[r] : i < next[r] => slot[r][i] \in Succeeded
    /\ pc[r] \in Active =>
        /\ from[r] <= next[r] /\ next[r] <= to[r] + 1 /\ to[r] <= Len(calls[r])
        /\ \A i \in DOMAIN calls[r] : i < from[r] => slot[r][i] \in Succeeded
        /\ from[r] = to[r] \/ \A i \in DOMAIN calls[r] : from[r] <= i /\ i <= to[r] => ~Inline(r, i)
    /\ pc[r] = "wait" => next[r] = to[r] + 1
    /\ pc[r] = "select" => next[r] <= to[r]

Frontier == \A r \in Runs : FrontierOf(r)
GroupShape == \A r \in Runs : ShapeOf(r)

BusTypes ==
    /\ calls \in Loads
    /\ pc \in [Runs -> PCs]
    /\ from \in [Runs -> Nat \ {0}] /\ to \in [Runs -> Nat] /\ next \in [Runs -> Nat \ {0}]
    /\ DOMAIN slot = Runs
    /\ \A r \in Runs : slot[r] \in [DOMAIN calls[r] -> Slots]
    /\ DOMAIN started = Runs /\ DOMAIN updated = Runs

BusInv == BusTypes /\ StartedSlots /\ Frontier /\ GroupShape /\ BarriersHold

(* Positions in a batch are natural numbers. *)
LEMMA PositionsAreNat ==
    ASSUME BusTypes, NEW r \in Runs
    PROVE  /\ calls[r] \in Seq(STRING)
           /\ Len(calls[r]) \in Nat
           /\ DOMAIN calls[r] = 1..Len(calls[r])
           /\ DOMAIN calls[r] \subseteq Nat
<1>1. calls[r] \in Seq(STRING)
  BY BusAssumption DEF BusTypes
<1> QED BY <1>1

(* The initial states satisfy the invariant. *)
LEMMA InitBus == Init => BusInv
<1> SUFFICES ASSUME Init PROVE BusInv
  OBVIOUS
<1>1. BusTypes
  BY DEF Init, BusTypes, PCs, Slots
<1>2. \A r \in Runs : DOMAIN calls[r] \subseteq Nat
  BY <1>1, PositionsAreNat
<1>3. StartedSlots
  BY DEF Init, StartedSlots
<1>4. Frontier
  BY DEF Init, Frontier, FrontierOf, Busy
<1>5. GroupShape
  BY <1>1, PositionsAreNat DEF Init, GroupShape, ShapeOf, Active
<1>6. BarriersHold
  BY DEF Init, BarriersHold
<1> QED BY <1>1, <1>3, <1>4, <1>5, <1>6 DEF BusInv

-----------------------------------------------------------------------------
(* The calls. *)

(* A call under way that goes on, or ends, keeps frontier and group. *)
LEMMA CallMoves ==
    ASSUME BusInv, NEW r \in Runs, NEW i \in DOMAIN calls[r],
           NEW a \in Busy, NEW b \in Busy \cup Succeeded \cup Failed, Move(r, i, a, b),
           UNCHANGED <<calls, mode, pc, from, to, next>>
    PROVE  /\ \A s \in Runs : slot'[s] \in [DOMAIN calls[s] -> Slots]
           /\ DOMAIN slot' = Runs
           /\ \A s \in Runs : \A j \in DOMAIN calls[s] :
                <<s, j>> # <<r, i>> => slot'[s][j] = slot[s][j]
           /\ slot[r][i] = a /\ slot'[r][i] = b
           /\ Frontier' /\ GroupShape'
<1>1. /\ slot' = [slot EXCEPT ![r][i] = b] /\ slot[r][i] = a
      /\ b \in Slots /\ b # "new" /\ a # "new" /\ a \notin Succeeded
  BY DEF Move, Slots, Busy, Succeeded, Failed, Unexecuted
<1>2. /\ \A s \in Runs : slot'[s] \in [DOMAIN calls[s] -> Slots]
      /\ DOMAIN slot' = Runs
      /\ \A s \in Runs : \A j \in DOMAIN calls[s] :
           <<s, j>> # <<r, i>> => slot'[s][j] = slot[s][j]
      /\ slot'[r][i] = b
  BY <1>1 DEF BusInv, BusTypes
<1>3. Frontier'
  BY <1>1, <1>2 DEF BusInv, Frontier, FrontierOf
<1>4. GroupShape'
  <2>1. \A s \in Runs : \A j \in DOMAIN calls[s] : slot[s][j] \in Succeeded => slot'[s][j] \in Succeeded
    BY <1>1, <1>2
  <2> QED BY <2>1 DEF BusInv, GroupShape, ShapeOf, Inline
<1> QED BY <1>1, <1>2, <1>3, <1>4

(* Results stay results, so barriers hold if no further driver was entered. *)
LEMMA BarriersStay ==
    ASSUME BarriersHold, UNCHANGED <<calls, mode, started>>,
           \A r \in Runs : \A i \in DOMAIN calls[r] :
               slot[r][i] \in Succeeded => slot'[r][i] \in Succeeded
    PROVE  BarriersHold'
BY DEF BarriersHold, Inline

(* A step of a call that enters no driver. *)
LEMMA QuietCall ==
    ASSUME BusInv, NEW r \in Runs, NEW i \in DOMAIN calls[r],
           NEW a \in Busy, NEW b \in Busy \cup Succeeded \cup Failed, Move(r, i, a, b),
           UNCHANGED <<calls, mode, pc, from, to, next, started, updated>>,
           a # "running" => b \in {"permit", "ready", "rejected", "notExecuted"},
           a = "running" => b \in {"ok", "error", "refused"},
           b = "refused" => i \notin updated[r]
    PROVE  BusInv'
<1>1. /\ \A s \in Runs : slot'[s] \in [DOMAIN calls[s] -> Slots]
      /\ DOMAIN slot' = Runs
      /\ \A s \in Runs : \A j \in DOMAIN calls[s] :
           <<s, j>> # <<r, i>> => slot'[s][j] = slot[s][j]
      /\ slot[r][i] = a /\ slot'[r][i] = b
      /\ Frontier' /\ GroupShape'
  BY CallMoves
<1>2. BusTypes'
  BY <1>1 DEF BusInv, BusTypes
<1>3. StartedSlots'
  BY <1>1 DEF BusInv, StartedSlots, Busy
<1>4. BarriersHold'
  <2>1. a \notin Succeeded
    BY DEF Busy, Succeeded
  <2>2. \A s \in Runs : \A j \in DOMAIN calls[s] :
           slot[s][j] \in Succeeded => slot'[s][j] \in Succeeded
    BY <1>1, <2>1
  <2> QED BY <2>2, BarriersStay DEF BusInv
<1> QED BY <1>1, <1>2, <1>3, <1>4 DEF BusInv

(* Entering the driver: what is across a barrier has succeeded. *)
LEMMA EnterDriver ==
    ASSUME BusInv, NEW r \in Runs, NEW i \in DOMAIN calls[r], enterDriver(r, i)
    PROVE  BusInv'
<1>1. /\ Move(r, i, "ready", "running")
      /\ started' = [started EXCEPT ![r] = @ \cup {i}]
      /\ UNCHANGED <<calls, mode, pc, from, to, next, updated>>
  BY DEF enterDriver, CallFrame, batch, progress
<1>2. /\ \A s \in Runs : slot'[s] \in [DOMAIN calls[s] -> Slots]
      /\ DOMAIN slot' = Runs
      /\ \A s \in Runs : \A j \in DOMAIN calls[s] :
           <<s, j>> # <<r, i>> => slot'[s][j] = slot[s][j]
      /\ slot[r][i] = "ready" /\ slot'[r][i] = "running"
      /\ Frontier' /\ GroupShape'
  <2>1. "ready" \in Busy /\ "running" \in Busy \cup Succeeded \cup Failed
    BY DEF Busy
  <2> QED BY <1>1, <2>1, CallMoves
<1>3. BusTypes'
  BY <1>1, <1>2 DEF BusInv, BusTypes
<1>4. StartedSlots'
  BY <1>1, <1>2 DEF BusInv, StartedSlots, BusTypes
<1>5. BarriersHold'
  <2>1. /\ pc[r] \in Active /\ from[r] <= i /\ i <= to[r]
    BY <1>2 DEF BusInv, Frontier, FrontierOf, Busy
  <2>2. /\ \A j \in DOMAIN calls[r] : j < from[r] => slot[r][j] \in Succeeded
        /\ from[r] = to[r] \/ \A j \in DOMAIN calls[r] : from[r] <= j /\ j <= to[r] => ~Inline(r, j)
    BY <2>1 DEF BusInv, GroupShape, ShapeOf
  <2>3. DOMAIN calls[r] \subseteq Nat /\ from[r] \in Nat /\ to[r] \in Nat
    BY PositionsAreNat DEF BusInv, BusTypes
  <2>4. \A j \in DOMAIN calls[r] : j < i /\ (Inline(r, j) \/ Inline(r, i)) => slot[r][j] \in Succeeded
    BY <2>1, <2>2, <2>3
  <2>5. \A s \in Runs : \A j \in DOMAIN calls[s] :
           slot[s][j] \in Succeeded => slot'[s][j] \in Succeeded
    BY <1>2 DEF Succeeded
  <2>6. \A s \in Runs : \A j \in DOMAIN calls[s] : j \in started'[s] => j \in started[s] \/ <<s, j>> = <<r, i>>
    BY <1>1 DEF BusInv, BusTypes
  <2> QED BY <1>1, <2>4, <2>5, <2>6 DEF BusInv, BarriersHold, Inline
<1> QED BY <1>2, <1>3, <1>4, <1>5 DEF BusInv

(* An update of a running driver. *)
LEMMA Emits ==
    ASSUME BusInv, NEW r \in Runs, NEW i \in DOMAIN calls[r], emit(r, i)
    PROVE  BusInv'
<1>1. /\ slot[r][i] = "running"
      /\ updated' = [updated EXCEPT ![r] = @ \cup {i}]
      /\ UNCHANGED <<calls, mode, pc, from, to, next, slot, started>>
  BY DEF emit, CallFrame, batch, progress
<1>2. BusTypes' /\ StartedSlots'
  BY <1>1 DEF BusInv, BusTypes, StartedSlots
<1> QED BY <1>1, <1>2 DEF BusInv, Frontier, FrontierOf, GroupShape, ShapeOf, BarriersHold, Inline

(* A panic leaves no call of the batch under way. *)
LEMMA Panics ==
    ASSUME BusInv, NEW r \in Runs, NEW i \in DOMAIN calls[r], panic(r, i)
    PROVE  BusInv'
<1>1. /\ Inline(r, i) /\ pc[r] = "wait" /\ pc' = [pc EXCEPT ![r] = "panicked"]
      /\ slot[r][i] = "running" /\ slot' = [slot EXCEPT ![r][i] = "error"]
      /\ UNCHANGED <<calls, mode, from, to, next, started, updated>>
  BY DEF panic, Goto, Move, CallFrame, batch, progress
<1>2. DOMAIN calls[r] \subseteq Nat /\ from[r] \in Nat /\ to[r] \in Nat
  BY PositionsAreNat DEF BusInv, BusTypes
<1>3. from[r] = i /\ to[r] = i
  BY <1>1, <1>2 DEF BusInv, Frontier, FrontierOf, GroupShape, ShapeOf, Active, Busy
<1>4. /\ \A s \in Runs : slot'[s] \in [DOMAIN calls[s] -> Slots]
      /\ \A s \in Runs : \A j \in DOMAIN calls[s] :
           <<s, j>> # <<r, i>> => slot'[s][j] = slot[s][j]
      /\ slot'[r][i] = "error"
  BY <1>1 DEF BusInv, BusTypes, Slots, Failed
<1>5. BusTypes'
  BY <1>1, <1>4 DEF BusInv, BusTypes, PCs
<1>6. StartedSlots'
  BY <1>1, <1>4 DEF BusInv, StartedSlots
<1>7. Frontier'
  <2>1. \A j \in DOMAIN calls[r] : slot'[r][j] \notin Busy
    BY <1>1, <1>2, <1>3, <1>4 DEF BusInv, Frontier, FrontierOf, Busy
  <2> QED BY <1>1, <1>4, <2>1 DEF BusInv, BusTypes, Frontier, FrontierOf, Active
<1>8. GroupShape'
  BY <1>1, <1>4 DEF BusInv, BusTypes, GroupShape, ShapeOf, Active, Inline
<1>9. BarriersHold'
  <2>1. \A s \in Runs : \A j \in DOMAIN calls[s] :
           slot[s][j] \in Succeeded => slot'[s][j] \in Succeeded
    BY <1>1, <1>4 DEF Succeeded
  <2> QED BY <1>1, <2>1, BarriersStay DEF BusInv
<1> QED BY <1>5, <1>6, <1>7, <1>8, <1>9 DEF BusInv

(* Every step of a call keeps the invariant. *)
LEMMA CallStep ==
    ASSUME BusInv, NEW r \in Runs, NEW i \in DOMAIN calls[r], Call(r, i)
    PROVE  BusInv'
<1> USE DEF CallFrame, batch, progress
<1>0. /\ Busy = {"job", "permit", "ready", "running"} /\ Succeeded = {"ok", "rejected"}
      /\ Failed = {"error", "notExecuted", "refused"}
  BY DEF Busy, Succeeded, Failed, Unexecuted
<1>1. CASE execute(r, i)
  <2>1. PICK b \in {"notExecuted", "rejected", "permit"} : Move(r, i, "job", b)
    BY <1>1 DEF execute
  <2>2. UNCHANGED <<calls, mode, pc, from, to, next, started, updated>>
    BY <1>1 DEF execute
  <2> QED BY <1>0, <2>1, <2>2, QuietCall
<1>2. CASE acquire(r, i)
  BY <1>0, <1>2, QuietCall DEF acquire
<1>3. CASE abandon(r, i)
  BY <1>0, <1>3, QuietCall DEF abandon
<1>4. CASE intercept(r, i)
  <2>1. PICK b \in {"notExecuted", "rejected"} : Move(r, i, "ready", b)
    BY <1>4 DEF intercept
  <2>2. UNCHANGED <<calls, mode, pc, from, to, next, started, updated>>
    BY <1>4 DEF intercept
  <2> QED BY <1>0, <2>1, <2>2, QuietCall
<1>5. CASE enterDriver(r, i)
  BY <1>5, EnterDriver
<1>6. CASE return(r, i)
  <2>1. PICK answer \in {"ok", "error", "refused"} : Move(r, i, "running", Returned(r, i, answer))
    BY <1>6 DEF return
  <2>2. UNCHANGED <<calls, mode, pc, from, to, next, started, updated>>
    BY <1>6 DEF return
  <2>3. /\ Returned(r, i, answer) \in {"ok", "error", "refused"}
        /\ Returned(r, i, answer) = "refused" => i \notin updated[r]
    BY DEF Returned
  <2> QED BY <1>0, <2>1, <2>2, <2>3, QuietCall
<1>7. CASE panic(r, i)
  BY <1>7, Panics
<1> QED BY <1>1, <1>2, <1>3, <1>4, <1>5, <1>6, <1>7 DEF Call

-----------------------------------------------------------------------------
(* The goroutine of ExecuteBatch. *)

(* A step that only moves r on and hands out or skips calls that are new:    *)
(* what is proved once for all of them.                                     *)
LEMMA NewCallsMove ==
    ASSUME BusInv, NEW r \in Runs, NEW S \in SUBSET DOMAIN calls[r], NEW b \in {"job", "notExecuted"},
           \A i \in S : slot[r][i] = "new",
           slot' = [slot EXCEPT ![r] = [i \in DOMAIN @ |-> IF i \in S THEN b ELSE @[i]]],
           UNCHANGED <<calls, mode, started, updated>>
    PROVE  /\ DOMAIN slot' = Runs
           /\ \A s \in Runs : slot'[s] \in [DOMAIN calls[s] -> Slots]
           /\ \A s \in Runs : s # r => slot'[s] = slot[s]
           /\ \A i \in DOMAIN calls[r] : slot'[r][i] = IF i \in S THEN b ELSE slot[r][i]
           /\ StartedSlots' /\ BarriersHold'
<1>1. /\ DOMAIN slot' = Runs
      /\ \A s \in Runs : slot'[s] \in [DOMAIN calls[s] -> Slots]
      /\ \A s \in Runs : s # r => slot'[s] = slot[s]
      /\ \A i \in DOMAIN calls[r] : slot'[r][i] = IF i \in S THEN b ELSE slot[r][i]
  BY DEF BusInv, BusTypes, Slots, Busy, Failed, Unexecuted
<1>2. StartedSlots'
  BY <1>1 DEF BusInv, StartedSlots
<1>3. BarriersHold'
  <2>1. \A s \in Runs : \A j \in DOMAIN calls[s] :
           slot[s][j] \in Succeeded => slot'[s][j] \in Succeeded
    BY <1>1 DEF Succeeded
  <2> QED BY <2>1, BarriersStay DEF BusInv
<1> QED BY <1>1, <1>2, <1>3

(* A step of one dispatch concerns the frontier and the group of that one. *)
LEMMA OwnShape ==
    ASSUME BusInv, NEW r \in Runs, UNCHANGED <<calls, mode>>,
           \A s \in Runs : s # r =>
               /\ slot'[s] = slot[s] /\ pc'[s] = pc[s]
               /\ from'[s] = from[s] /\ to'[s] = to[s] /\ next'[s] = next[s],
           FrontierOf(r)', ShapeOf(r)'
    PROVE  Frontier' /\ GroupShape'
<1>1. ASSUME NEW s \in Runs, s # r PROVE FrontierOf(s)' /\ ShapeOf(s)'
  <2>1. FrontierOf(s) /\ ShapeOf(s)
    BY DEF BusInv, Frontier, GroupShape
  <2> QED BY <1>1, <2>1 DEF FrontierOf, ShapeOf, Inline
<1> QED BY <1>1 DEF Frontier, GroupShape

(* Handing out one call is an instance of it. *)
LEMMA HandIsMove ==
    ASSUME BusInv, NEW r \in Runs, NEW i \in DOMAIN calls[r], Hand(r, i)
    PROVE  slot' = [slot EXCEPT ![r] = [j \in DOMAIN @ |-> IF j \in {i} THEN "job" ELSE @[j]]]
BY DEF Hand, BusInv, BusTypes

(* The head of the loop of ExecuteBatch. *)
LEMMA NextGroup ==
    ASSUME BusInv, NEW r \in Runs, nextGroup(r)
    PROVE  BusInv'
<1>0. /\ UNCHANGED <<calls, mode, started, updated>> /\ pc[r] = "next"
      /\ Len(calls[r]) \in Nat /\ DOMAIN calls[r] = 1..Len(calls[r]) /\ next[r] \in Nat
  BY PositionsAreNat DEF nextGroup, batch, Goto, BusInv, BusTypes
<1>1. CASE next[r] > Len(calls[r]) /\ Goto(r, "next", "process") /\ UNCHANGED <<progress, slot>>
  <2>1. pc' = [pc EXCEPT ![r] = "process"] /\ UNCHANGED <<from, to, next, slot>>
    BY <1>1 DEF Goto, progress
  <2>2. BusTypes' /\ StartedSlots' /\ BarriersHold'
    BY <1>0, <2>1 DEF BusInv, BusTypes, PCs, StartedSlots, BarriersHold, Inline
  <2>3. Frontier' /\ GroupShape'
    BY <1>0, <2>1 DEF BusInv, BusTypes, Frontier, FrontierOf, GroupShape, ShapeOf, Active, Inline
  <2> QED BY <2>2, <2>3 DEF BusInv
<1>2. CASE /\ next[r] <= Len(calls[r]) /\ Inline(r, next[r]) /\ Goto(r, "next", "wait")
           /\ Hand(r, next[r])
           /\ from' = [from EXCEPT ![r] = next[r]] /\ to' = [to EXCEPT ![r] = next[r]]
           /\ next' = [next EXCEPT ![r] = @ + 1]
  <2>1. pc' = [pc EXCEPT ![r] = "wait"]
    BY <1>2 DEF Goto
  <2>2. next[r] \in DOMAIN calls[r]
    BY <1>0, <1>2 DEF BusInv, BusTypes
  <2>3. slot[r][next[r]] = "new"
    BY <1>0, <2>2 DEF BusInv, Frontier, FrontierOf
  <2>4. /\ DOMAIN slot' = Runs
        /\ \A s \in Runs : slot'[s] \in [DOMAIN calls[s] -> Slots]
        /\ \A s \in Runs : s # r => slot'[s] = slot[s]
        /\ \A i \in DOMAIN calls[r] : slot'[r][i] = IF i \in {next[r]} THEN "job" ELSE slot[r][i]
        /\ StartedSlots' /\ BarriersHold'
    <3>1. slot' = [slot EXCEPT ![r] = [j \in DOMAIN @ |-> IF j \in {next[r]} THEN "job" ELSE @[j]]]
      BY <1>2, <2>2, HandIsMove
    <3>2. {next[r]} \in SUBSET DOMAIN calls[r] /\ \A i \in {next[r]} : slot[r][i] = "new"
      BY <2>2, <2>3
    <3> QED BY <1>0, <3>1, <3>2, NewCallsMove
  <2>5. BusTypes'
    BY <1>0, <1>2, <2>1, <2>4 DEF BusInv, BusTypes, PCs
  <2>6. /\ from'[r] = next[r] /\ to'[r] = next[r] /\ next'[r] = next[r] + 1
        /\ \A s \in Runs : s # r =>
             from'[s] = from[s] /\ to'[s] = to[s] /\ next'[s] = next[s] /\ pc'[s] = pc[s]
        /\ pc'[r] = "wait"
    BY <1>2, <2>1 DEF BusInv, BusTypes
  <2>7. FrontierOf(r)'
    <3>1. ASSUME NEW i \in DOMAIN calls[r] PROVE
            /\ i >= next[r] + 1 => slot'[r][i] = "new"
            /\ slot'[r][i] \in Busy => i = next[r]
      BY <1>0, <2>4 DEF BusInv, Frontier, FrontierOf, Active, Busy
    <3> QED BY <1>0, <2>6, <3>1 DEF FrontierOf, Active
  <2>8. ShapeOf(r)'
    <3>1. ASSUME NEW i \in DOMAIN calls[r], i < next[r] PROVE slot'[r][i] \in Succeeded
      BY <1>0, <2>4, <3>1 DEF BusInv, GroupShape, ShapeOf
    <3> QED BY <1>0, <1>2, <2>6, <3>1 DEF ShapeOf, Active
  <2>9. Frontier' /\ GroupShape'
    BY <1>0, <2>4, <2>6, <2>7, <2>8, OwnShape
  <2> QED BY <2>4, <2>5, <2>9 DEF BusInv
<1>3. CASE /\ next[r] <= Len(calls[r]) /\ ~Inline(r, next[r]) /\ Goto(r, "next", "dispatch")
           /\ from' = [from EXCEPT ![r] = next[r]]
           /\ \E e \in next[r]..Len(calls[r]) :
                /\ InGroup(r, e)
                /\ e < Len(calls[r]) => Inline(r, e + 1)
                /\ to' = [to EXCEPT ![r] = e]
           /\ UNCHANGED <<next, slot>>
  <2>1. PICK e \in next[r]..Len(calls[r]) : InGroup(r, e) /\ to' = [to EXCEPT ![r] = e]
    BY <1>3
  <2>2. /\ from'[r] = next[r] /\ to'[r] = e /\ pc'[r] = "dispatch"
        /\ \A s \in Runs : s # r => from'[s] = from[s] /\ to'[s] = to[s] /\ pc'[s] = pc[s]
        /\ UNCHANGED <<next, slot>>
    BY <1>3, <2>1 DEF Goto, BusInv, BusTypes
  <2>3. BusTypes' /\ StartedSlots' /\ BarriersHold'
    <3>1. BusTypes'
      BY <1>0, <1>3, <2>1 DEF BusInv, BusTypes, PCs, Goto
    <3>2. StartedSlots'
      BY <1>0, <1>3 DEF BusInv, StartedSlots
    <3>3. BarriersHold'
      BY <1>0, <1>3 DEF BusInv, BarriersHold, Inline
    <3> QED BY <3>1, <3>2, <3>3
  <2>4. FrontierOf(r)'
    BY <1>0, <2>1, <2>2 DEF BusInv, BusTypes, Frontier, FrontierOf, Active, Busy
  <2>5. \A i \in DOMAIN calls[r] : next[r] <= i /\ i <= e => ~Inline(r, i)
    BY <1>0, <2>1 DEF InGroup
  <2>6. ShapeOf(r)'
    BY <1>0, <2>1, <2>2, <2>5 DEF BusInv, BusTypes, GroupShape, ShapeOf, Active, Inline
  <2>7. Frontier' /\ GroupShape'
    BY <1>0, <2>2, <2>4, <2>6, OwnShape
  <2> QED BY <2>3, <2>7 DEF BusInv
<1> QED BY <1>1, <1>2, <1>3 DEF nextGroup

(* Handing a call of the group to a worker. *)
LEMMA SendJob ==
    ASSUME BusInv, NEW r \in Runs, sendJob(r)
    PROVE  BusInv'
<1>0. /\ UNCHANGED <<calls, mode, started, updated, from, to>> /\ Hand(r, next[r])
      /\ pc[r] = "select" /\ pc' = [pc EXCEPT ![r] = "dispatch"]
      /\ next' = [next EXCEPT ![r] = @ + 1]
      /\ Len(calls[r]) \in Nat /\ DOMAIN calls[r] = 1..Len(calls[r])
      /\ next[r] \in Nat \ {0} /\ from[r] \in Nat \ {0} /\ to[r] \in Nat
  BY PositionsAreNat DEF sendJob, batch, Goto, BusInv, BusTypes
<1>1. next[r] \in DOMAIN calls[r] /\ next[r] <= to[r] /\ slot[r][next[r]] = "new"
  BY <1>0 DEF BusInv, Frontier, FrontierOf, GroupShape, ShapeOf, Active
<1>2. /\ DOMAIN slot' = Runs
      /\ \A s \in Runs : slot'[s] \in [DOMAIN calls[s] -> Slots]
      /\ \A s \in Runs : s # r => slot'[s] = slot[s]
      /\ \A i \in DOMAIN calls[r] : slot'[r][i] = IF i \in {next[r]} THEN "job" ELSE slot[r][i]
      /\ StartedSlots' /\ BarriersHold'
  <2>1. slot' = [slot EXCEPT ![r] = [j \in DOMAIN @ |-> IF j \in {next[r]} THEN "job" ELSE @[j]]]
    BY <1>0, <1>1, HandIsMove
  <2>2. {next[r]} \in SUBSET DOMAIN calls[r] /\ \A i \in {next[r]} : slot[r][i] = "new"
    BY <1>1
  <2> QED BY <1>0, <2>1, <2>2, NewCallsMove
<1>3. /\ next'[r] = next[r] + 1 /\ pc'[r] = "dispatch"
      /\ \A s \in Runs : s # r => next'[s] = next[s] /\ pc'[s] = pc[s]
  BY <1>0 DEF BusInv, BusTypes
<1>4. BusTypes'
  BY <1>0, <1>2 DEF BusInv, BusTypes, PCs
<1>a. FrontierOf(r) /\ ShapeOf(r)
  BY DEF BusInv, Frontier, GroupShape
<1>5. FrontierOf(r)'
  <2>1. ASSUME NEW i \in DOMAIN calls[r] PROVE
          /\ i >= next[r] + 1 => slot'[r][i] = "new"
          /\ slot'[r][i] \in Busy => from[r] <= i /\ i <= to[r]
    BY <1>0, <1>1, <1>2, <1>a DEF FrontierOf, ShapeOf, Active, Busy
  <2> QED BY <1>0, <1>3, <2>1 DEF FrontierOf, Active
<1>6. ShapeOf(r)'
  <2>1. ASSUME NEW i \in DOMAIN calls[r], i < from[r] PROVE slot'[r][i] \in Succeeded
    BY <1>0, <1>2, <1>a, <2>1 DEF ShapeOf, Active
  <2> QED BY <1>0, <1>1, <1>3, <1>a, <2>1 DEF ShapeOf, Active, Inline
<1>7. Frontier' /\ GroupShape'
  BY <1>0, <1>2, <1>3, <1>5, <1>6, OwnShape
<1> QED BY <1>2, <1>4, <1>7 DEF BusInv

(* The head of the dispatch loop of executeParallel. *)
LEMMA DispatchHead ==
    ASSUME BusInv, NEW r \in Runs, dispatch(r)
    PROVE  BusInv'
<1>0. /\ UNCHANGED <<calls, mode, from, to, next, slot, started, updated>>
      /\ next[r] \in Nat /\ to[r] \in Nat /\ pc[r] = "dispatch"
  BY DEF dispatch, batch, progress, Goto, BusInv, BusTypes
<1>1. PICK b \in {"wait", "select"} :
        /\ pc' = [pc EXCEPT ![r] = b]
        /\ b = "wait" => next[r] > to[r]
        /\ b = "select" => next[r] <= to[r]
  BY DEF dispatch, Goto
<1>2. BusTypes' /\ StartedSlots' /\ BarriersHold'
  BY <1>0, <1>1 DEF BusInv, BusTypes, PCs, StartedSlots, BarriersHold, Inline
<1>3. pc'[r] = b /\ \A s \in Runs : s # r => pc'[s] = pc[s]
  BY <1>1 DEF BusInv, BusTypes
<1>4. FrontierOf(r)' /\ ShapeOf(r)'
  <2>1. FrontierOf(r) /\ ShapeOf(r)
    BY DEF BusInv, Frontier, GroupShape
  <2> QED BY <1>0, <1>1, <1>3, <2>1 DEF FrontierOf, ShapeOf, Active, Inline
<1>5. Frontier' /\ GroupShape'
  BY <1>0, <1>3, <1>4, OwnShape
<1> QED BY <1>2, <1>5 DEF BusInv

(* Skipping what is left of the group. *)
LEMMA SkipJobs ==
    ASSUME BusInv, NEW r \in Runs, skipJobs(r)
    PROVE  BusInv'
<1> DEFINE S == {i \in DOMAIN calls[r] : i \in Skipped(r)}
<1>0. /\ UNCHANGED <<calls, mode, from, to, started, updated>>
      /\ pc[r] \in {"dispatch", "select"} /\ pc' = [pc EXCEPT ![r] = "wait"]
      /\ next[r] <= to[r] /\ next' = [next EXCEPT ![r] = to[r] + 1]
      /\ NotExecuted(r, Skipped(r))
      /\ Len(calls[r]) \in Nat /\ DOMAIN calls[r] = 1..Len(calls[r])
      /\ next[r] \in Nat \ {0} /\ from[r] \in Nat \ {0} /\ to[r] \in Nat
  BY PositionsAreNat DEF skipJobs, batch, Goto, BusInv, BusTypes
<1>1. FrontierOf(r) /\ ShapeOf(r)
  BY DEF BusInv, Frontier, GroupShape
<1>2. \A i \in S : slot[r][i] = "new"
  BY <1>0, <1>1 DEF Skipped, FrontierOf, Active
<1>3. slot' = [slot EXCEPT ![r] = [i \in DOMAIN @ |-> IF i \in S THEN "notExecuted" ELSE @[i]]]
  BY <1>0 DEF NotExecuted, BusInv, BusTypes
<1> S \in SUBSET DOMAIN calls[r]
  OBVIOUS
<1> HIDE DEF S
<1>4. /\ DOMAIN slot' = Runs
      /\ \A s \in Runs : slot'[s] \in [DOMAIN calls[s] -> Slots]
      /\ \A s \in Runs : s # r => slot'[s] = slot[s]
      /\ \A i \in DOMAIN calls[r] : slot'[r][i] = IF i \in S THEN "notExecuted" ELSE slot[r][i]
      /\ StartedSlots' /\ BarriersHold'
  BY <1>0, <1>2, <1>3, NewCallsMove
<1>5. /\ next'[r] = to[r] + 1 /\ pc'[r] = "wait"
      /\ \A s \in Runs : s # r => next'[s] = next[s] /\ pc'[s] = pc[s]
  BY <1>0 DEF BusInv, BusTypes
<1>6. BusTypes'
  BY <1>0, <1>4 DEF BusInv, BusTypes, PCs
<1>7. \A i \in DOMAIN calls[r] : i \in S <=> next[r] <= i /\ i <= to[r]
  BY <1>0 DEF S, Skipped
<1>8. FrontierOf(r)'
  BY <1>0, <1>1, <1>4, <1>5, <1>7 DEF FrontierOf, Active, Busy
<1>9. ShapeOf(r)'
  <2>1. \A i \in DOMAIN calls[r] : i < from[r] => slot'[r][i] = slot[r][i]
    BY <1>0, <1>1, <1>4, <1>7 DEF ShapeOf, Active
  <2> QED BY <1>0, <1>1, <1>5, <2>1 DEF ShapeOf, Active, Inline
<1>10. Frontier' /\ GroupShape'
  BY <1>0, <1>4, <1>5, <1>8, <1>9, OwnShape
<1> QED BY <1>4, <1>6, <1>10 DEF BusInv

(* The join: a group without failures has succeeded as a whole. *)
LEMMA JoinGroup ==
    ASSUME BusInv, NEW r \in Runs, joinGroup(r)
    PROVE  BusInv'
<1>0. /\ UNCHANGED <<calls, mode, from, to, next, started, updated>> /\ pc[r] = "wait"
      /\ \A i \in from[r]..to[r] : slot[r][i] \in Succeeded \cup Failed
      /\ Len(calls[r]) \in Nat /\ DOMAIN calls[r] = 1..Len(calls[r])
      /\ next[r] \in Nat \ {0} /\ from[r] \in Nat \ {0} /\ to[r] \in Nat
  BY PositionsAreNat DEF joinGroup, batch, progress, Goto, BusInv, BusTypes
<1>1. FrontierOf(r) /\ ShapeOf(r)
  BY DEF BusInv, Frontier, GroupShape
<1>2. CASE GroupFailed(r) /\ Goto(r, "wait", "process") /\ NotExecuted(r, After(r))
  <2>1. After(r) \in SUBSET DOMAIN calls[r] /\ \A i \in After(r) : slot[r][i] = "new"
    BY <1>0, <1>1 DEF After, FrontierOf, ShapeOf, Active
  <2>2. /\ DOMAIN slot' = Runs
        /\ \A s \in Runs : slot'[s] \in [DOMAIN calls[s] -> Slots]
        /\ \A s \in Runs : s # r => slot'[s] = slot[s]
        /\ \A i \in DOMAIN calls[r] : slot'[r][i] = IF i \in After(r) THEN "notExecuted" ELSE slot[r][i]
        /\ StartedSlots' /\ BarriersHold'
    <3>1. slot' = [slot EXCEPT ![r] = [i \in DOMAIN @ |-> IF i \in After(r) THEN "notExecuted" ELSE @[i]]]
      BY <1>2 DEF NotExecuted
    <3> QED BY <1>0, <2>1, <3>1, NewCallsMove
  <2>3. BusTypes'
    BY <1>0, <1>2, <2>2 DEF BusInv, BusTypes, PCs, Goto
  <2>4. pc'[r] = "process" /\ \A s \in Runs : s # r => pc'[s] = pc[s]
    BY <1>2 DEF Goto, BusInv, BusTypes
  <2>5. \A i \in DOMAIN calls[r] : slot'[r][i] \notin Busy
    <3> SUFFICES ASSUME NEW i \in DOMAIN calls[r], slot[r][i] \in Busy PROVE FALSE
      BY <2>2 DEF Busy
    <3>1. i \in from[r]..to[r]
      BY <1>0, <1>1 DEF FrontierOf
    <3> QED BY <1>0, <3>1 DEF Busy, Succeeded, Failed, Unexecuted
  <2>6. FrontierOf(r)' /\ ShapeOf(r)'
    BY <1>0, <2>4, <2>5 DEF FrontierOf, ShapeOf, Active
  <2>7. Frontier' /\ GroupShape'
    BY <1>0, <2>2, <2>4, <2>6, OwnShape
  <2> QED BY <2>2, <2>3, <2>7 DEF BusInv
<1>3. CASE ~GroupFailed(r) /\ Goto(r, "wait", "next") /\ UNCHANGED slot
  <2>1. pc'[r] = "next" /\ \A s \in Runs : s # r => pc'[s] = pc[s]
    BY <1>3 DEF Goto, BusInv, BusTypes
  <2>2. BusTypes' /\ StartedSlots' /\ BarriersHold'
    BY <1>0, <1>3 DEF BusInv, BusTypes, PCs, Goto, StartedSlots, BarriersHold, Inline
  <2>3. \A i \in from[r]..to[r] : slot[r][i] \in Succeeded
    BY <1>0, <1>3 DEF GroupFailed
  <2>4. \A i \in DOMAIN calls[r] : i < next[r] => slot[r][i] \in Succeeded
    BY <1>0, <1>1, <2>3 DEF ShapeOf, Active
  <2>5. \A i \in DOMAIN calls[r] : slot[r][i] \notin Busy
    <3> SUFFICES ASSUME NEW i \in DOMAIN calls[r], slot[r][i] \in Busy PROVE FALSE
      OBVIOUS
    <3>1. i \in from[r]..to[r]
      BY <1>0, <1>1 DEF FrontierOf
    <3> QED BY <2>3, <3>1 DEF Busy, Succeeded
  <2>6. FrontierOf(r)'
    BY <1>0, <1>1, <1>3, <2>1, <2>5 DEF FrontierOf, Active
  <2>7. ShapeOf(r)'
    BY <1>0, <1>3, <2>1, <2>4 DEF ShapeOf, Active
  <2>8. Frontier' /\ GroupShape'
    BY <1>0, <1>3, <2>1, <2>6, <2>7, OwnShape
  <2> QED BY <2>2, <2>8 DEF BusInv
<1> QED BY <1>2, <1>3 DEF joinGroup

(* Post-processing touches neither calls nor drivers. *)
LEMMA Process ==
    ASSUME BusInv, NEW r \in Runs, process(r)
    PROVE  BusInv'
<1>0. /\ UNCHANGED <<calls, mode, from, to, next, slot, started, updated>> /\ pc[r] = "process"
      /\ pc' = [pc EXCEPT ![r] = "done"]
  BY DEF process, batch, progress, Goto
<1>1. BusTypes' /\ StartedSlots' /\ BarriersHold'
  BY <1>0 DEF BusInv, BusTypes, PCs, StartedSlots, BarriersHold, Inline
<1>2. pc'[r] = "done" /\ \A s \in Runs : s # r => pc'[s] = pc[s]
  BY <1>0 DEF BusInv, BusTypes
<1>3. FrontierOf(r)' /\ ShapeOf(r)'
  <2>1. FrontierOf(r)
    BY DEF BusInv, Frontier
  <2> QED BY <1>0, <1>2, <2>1 DEF FrontierOf, ShapeOf, Active
<1>4. Frontier' /\ GroupShape'
  BY <1>0, <1>2, <1>3, OwnShape
<1> QED BY <1>1, <1>4 DEF BusInv

-----------------------------------------------------------------------------
(* The invariant, and the theorems that follow from it. *)

(* Every step keeps the invariant. *)
LEMMA NextBus == BusInv /\ [Next]_vars => BusInv'
<1> SUFFICES ASSUME BusInv, [Next]_vars PROVE BusInv'
  OBVIOUS
<1>1. ASSUME UNCHANGED <<calls, mode, pc, from, to, next, slot, started, updated>> PROVE BusInv'
  BY <1>1 DEF BusInv, BusTypes, StartedSlots, Frontier, FrontierOf, GroupShape, ShapeOf, BarriersHold, Inline
<1>2. ASSUME NEW r \in Runs, Dispatcher(r) PROVE BusInv'
  BY <1>2, NextGroup, DispatchHead, SendJob, SkipJobs, JoinGroup, Process DEF Dispatcher
<1>3. ASSUME NEW r \in Runs, cancel(r) PROVE BusInv'
  BY <1>1, <1>3 DEF cancel, batch, progress
<1>4. ASSUME NEW r \in Runs, NEW i \in DOMAIN calls[r], Call(r, i) \/ emit(r, i) PROVE BusInv'
  BY <1>4, CallStep, Emits
<1>5. CASE Terminated \/ UNCHANGED vars
  BY <1>1, <1>5 DEF Terminated, vars, batch, progress
<1> QED BY <1>2, <1>3, <1>4, <1>5 DEF Next

(* The inductive invariant holds throughout. *)
THEOREM BusInvariance == Spec => []BusInv
BY InitBus, NextBus, PTL DEF Spec

(* ErrNotExecuted is a proof: for any batches, tools and interleavings of    *)
(* cancellation with the workers, no call reported as not executed has had   *)
(* its driver entered.                                                      *)
THEOREM NotExecutedProven == Spec => []NotExecutedIsTrue
<1>1. BusInv => NotExecutedIsTrue
  BY DEF BusInv, StartedSlots, NotExecutedIsTrue
<1> QED BY BusInvariance, <1>1, PTL

(* Sequential calls are barriers in every batch, whatever fails or is        *)
(* cancelled around them.                                                   *)
THEOREM BarriersProven == Spec => []BarriersHold
<1>1. BusInv => BarriersHold
  BY DEF BusInv
<1> QED BY BusInvariance, <1>1, PTL

-----------------------------------------------------------------------------
(* The limiters. *)

Held == {"ready", "running"}

(* A permit is counted for exactly the calls between acquire and release, and *)
(* only a registered tool gets as far as its limiter.                        *)
PermitsHeld ==
    /\ permits \in [Groups -> Nat]
    /\ \A r \in Runs : \A i \in DOMAIN calls[r] :
         slot[r][i] \in Held \cup {"permit"} => calls[r][i] \in Registered
    /\ \A g \in Groups : IsFiniteSet(Holders(g)) /\ permits[g] = Cardinality(Holders(g))
                         /\ permits[g] <= Capacity(g)

(* Register: the tools of a limiter agree on its capacity. *)
LEMMA OneCapacity ==
    ASSUME NEW t \in Registered
    PROVE  /\ CapacityOf(t) \in Nat
           /\ LimiterKey(t) # NoGroup => LimiterKey(t) \in Groups /\ Capacity(LimiterKey(t)) = CapacityOf(t)
<1>1. CapacityOf(t) \in Nat
  BY BusAssumption DEF CapacityOf
<1>2. ASSUME LimiterKey(t) # NoGroup
      PROVE  LimiterKey(t) \in Groups /\ Capacity(LimiterKey(t)) = CapacityOf(t)
  <2> DEFINE s == CHOOSE s \in Registered : LimiterKey(s) = LimiterKey(t)
  <2>1. s \in Registered /\ LimiterKey(s) = LimiterKey(t)
    OBVIOUS
  <2>2. CapacityOf(s) = CapacityOf(t)
    BY <2>1, BusAssumption
  <2>3. Capacity(LimiterKey(t)) = CapacityOf(s)
    BY DEF Capacity
  <2> QED BY <1>2, <2>2, <2>3 DEF Groups
<1> QED BY <1>1, <1>2

(* Who holds a permit of a limiter. *)
LEMMA HolderPairs ==
    ASSUME NEW g
    PROVE  \A c : c \in Holders(g) <=>
             \E r \in Runs : \E i \in DOMAIN calls[r] :
                 c = <<r, i>> /\ slot[r][i] \in Held /\ LimiterKey(calls[r][i]) = g
BY DEF Holders, Held

(* A step in which no call gets a permit or gives one back. *)
LEMMA HoldersStay ==
    ASSUME PermitsHeld, UNCHANGED <<calls, permits>>,
           \A r \in Runs : \A i \in DOMAIN calls[r] :
               /\ slot'[r][i] \in Held <=> slot[r][i] \in Held
               /\ slot'[r][i] = "permit" => slot[r][i] = "permit" \/ calls[r][i] \in Registered
    PROVE  PermitsHeld'
<1>1. ASSUME NEW g \in Groups PROVE Holders(g)' = Holders(g)
  BY DEF Holders, Held
<1>2. ASSUME NEW r \in Runs, NEW i \in DOMAIN calls[r], slot'[r][i] \in Held \cup {"permit"}
      PROVE  calls[r][i] \in Registered
  BY <1>2 DEF PermitsHeld
<1> QED BY <1>1, <1>2 DEF PermitsHeld

(* One call moves from where it is to b; all the others stay. *)
LEMMA OthersStay ==
    ASSUME BusInv, NEW r \in Runs, NEW i \in DOMAIN calls[r], NEW a, NEW b, Move(r, i, a, b),
           UNCHANGED calls
    PROVE  /\ slot[r][i] = a /\ slot'[r][i] = b
           /\ \A s \in Runs : \A j \in DOMAIN calls[s] : <<s, j>> # <<r, i>> => slot'[s][j] = slot[s][j]
BY DEF Move, BusInv, BusTypes

(* limiter.acquire. *)
LEMMA Acquires ==
    ASSUME BusInv, PermitsHeld, NEW r \in Runs, NEW i \in DOMAIN calls[r], acquire(r, i)
    PROVE  PermitsHeld'
<1> DEFINE key == LimiterKey(calls[r][i])
<1>1. /\ UNCHANGED calls /\ Take(r, i) /\ Move(r, i, "permit", "ready")
      /\ key # NoGroup => permits[key] < CapacityOf(calls[r][i])
  BY DEF acquire, CallFrame, batch, Limited
<1>2. /\ slot[r][i] = "permit" /\ slot'[r][i] = "ready"
      /\ \A s \in Runs : \A j \in DOMAIN calls[s] : <<s, j>> # <<r, i>> => slot'[s][j] = slot[s][j]
  BY <1>1, OthersStay
<1>3. calls[r][i] \in Registered
  BY <1>2 DEF PermitsHeld
<1>4. ASSUME NEW s \in Runs, NEW j \in DOMAIN calls[s], slot'[s][j] \in Held \cup {"permit"}
      PROVE  calls[s][j] \in Registered
  BY <1>2, <1>3, <1>4 DEF PermitsHeld
<1>5. ASSUME NEW g \in Groups PROVE Holders(g)' = IF g = key THEN Holders(g) \cup {<<r, i>>} ELSE Holders(g)
  <2>1. ASSUME NEW c
        PROVE  c \in Holders(g)' <=> c \in Holders(g) \/ (g = key /\ c = <<r, i>>)
    <3>1. c \in Holders(g)' <=>
             \E s \in Runs : \E j \in DOMAIN calls[s] :
                 c = <<s, j>> /\ slot'[s][j] \in Held /\ LimiterKey(calls[s][j]) = g
      BY <1>1 DEF Holders, Held
    <3> QED BY <1>2, <3>1, HolderPairs DEF Held
  <2> QED BY <2>1
<1>6. ASSUME NEW g \in Groups PROVE <<r, i>> \notin Holders(g)
  BY <1>2, HolderPairs DEF Held
<1>7. CASE key = NoGroup
  <2>1. UNCHANGED permits /\ \A g \in Groups : Holders(g)' = Holders(g)
    BY <1>1, <1>5, <1>7 DEF Take, Limited, Groups
  <2> QED BY <1>1, <1>4, <2>1 DEF PermitsHeld
<1>8. CASE key # NoGroup
  <2>1. /\ key \in Groups /\ permits[key] + 1 <= Capacity(key) /\ permits \in [Groups -> Nat]
        /\ permits' = [permits EXCEPT ![key] = @ + 1]
    BY <1>1, <1>3, <1>8, OneCapacity DEF PermitsHeld, Take, Limited
  <2>2. ASSUME NEW g \in Groups
        PROVE  IsFiniteSet(Holders(g)') /\ permits'[g] = Cardinality(Holders(g)') /\ permits'[g] <= Capacity(g)
    BY <1>5, <1>6, <2>1, FS_AddElement DEF PermitsHeld
  <2> QED BY <1>1, <1>4, <2>1, <2>2 DEF PermitsHeld
<1> QED BY <1>7, <1>8

(* limiter.release, on every path out of Execute. *)
LEMMA Releases ==
    ASSUME BusInv, PermitsHeld, NEW r \in Runs, NEW i \in DOMAIN calls[r], Release(r, i),
           UNCHANGED calls, NEW a \in Held, NEW b \in Succeeded \cup Failed, Move(r, i, a, b)
    PROVE  PermitsHeld'
<1> DEFINE key == LimiterKey(calls[r][i])
<1>1. b \notin Held \cup {"permit"}
  BY DEF Held, Succeeded, Failed, Unexecuted
<1>2. /\ slot[r][i] = a /\ slot'[r][i] = b
      /\ \A s \in Runs : \A j \in DOMAIN calls[s] : <<s, j>> # <<r, i>> => slot'[s][j] = slot[s][j]
  BY OthersStay
<1>3. calls[r][i] \in Registered
  BY <1>2 DEF PermitsHeld
<1>4. ASSUME NEW s \in Runs, NEW j \in DOMAIN calls[s], slot'[s][j] \in Held \cup {"permit"}
      PROVE  calls[s][j] \in Registered
  BY <1>1, <1>2, <1>4 DEF PermitsHeld
<1>5. ASSUME NEW g \in Groups PROVE Holders(g)' = Holders(g) \ {<<r, i>>}
  <2>1. ASSUME NEW c PROVE c \in Holders(g)' <=> c \in Holders(g) /\ c # <<r, i>>
    <3>1. c \in Holders(g)' <=>
             \E s \in Runs : \E j \in DOMAIN calls[s] :
                 c = <<s, j>> /\ slot'[s][j] \in Held /\ LimiterKey(calls[s][j]) = g
      BY DEF Holders, Held
    <3> QED BY <1>1, <1>2, <3>1, HolderPairs
  <2> QED BY <2>1
<1>6. ASSUME NEW g \in Groups PROVE <<r, i>> \in Holders(g) <=> g = key
  BY <1>2, HolderPairs
<1>7. CASE key = NoGroup
  <2>1. UNCHANGED permits /\ \A g \in Groups : Holders(g)' = Holders(g)
    BY <1>5, <1>6, <1>7 DEF Release, Limited, Groups
  <2> QED BY <1>4, <2>1 DEF PermitsHeld
<1>8. CASE key # NoGroup
  <2>1. /\ key \in Groups /\ permits \in [Groups -> Nat] /\ permits' = [permits EXCEPT ![key] = @ - 1]
    BY <1>3, <1>8, OneCapacity DEF PermitsHeld, Release, Limited
  <2>2. ASSUME NEW g \in Groups
        PROVE  IsFiniteSet(Holders(g)') /\ permits'[g] = Cardinality(Holders(g)') /\ permits'[g] \in Nat
    <3>1. IsFiniteSet(Holders(g)) /\ permits[g] = Cardinality(Holders(g))
      BY DEF PermitsHeld
    <3>2. CASE g = key
      <4>1. /\ IsFiniteSet(Holders(g) \ {<<r, i>>})
            /\ Cardinality(Holders(g) \ {<<r, i>>}) = Cardinality(Holders(g)) - 1
        BY <1>6, <3>1, <3>2, FS_RemoveElement
      <4>2. Cardinality(Holders(g) \ {<<r, i>>}) \in Nat
        BY <4>1, FS_CardinalityType
      <4> QED BY <1>5, <2>1, <3>1, <3>2, <4>1, <4>2
    <3>3. CASE g # key
      <4>1. Holders(g)' = Holders(g)
        BY <1>5, <1>6, <3>3
      <4> QED BY <2>1, <3>1, <3>3, <4>1 DEF PermitsHeld
    <3> QED BY <3>2, <3>3
  <2>3. ASSUME NEW g \in Groups PROVE permits'[g] <= Capacity(g)
    <3>1. permits'[g] <= permits[g] /\ permits[g] <= Capacity(g) /\ permits[g] \in Nat
      BY <2>1 DEF PermitsHeld
    <3>2. Capacity(g) \in Nat
      BY OneCapacity DEF Groups
    <3> QED BY <2>2, <3>1, <3>2
  <2> QED BY <1>4, <2>1, <2>2, <2>3 DEF PermitsHeld
<1> QED BY <1>7, <1>8

(* Every step of a call keeps the count. *)
LEMMA CallPermits ==
    ASSUME BusInv, PermitsHeld, NEW r \in Runs, NEW i \in DOMAIN calls[r], Call(r, i) \/ emit(r, i)
    PROVE  PermitsHeld'
<1>0. UNCHANGED calls
  BY DEF Call, execute, acquire, abandon, intercept, enterDriver, emit, return, panic, CallFrame, batch
<1>1. CASE execute(r, i) \/ abandon(r, i) \/ enterDriver(r, i)
  <2>1. PICK a, b : /\ Move(r, i, a, b) /\ UNCHANGED permits
                    /\ a \in Held <=> b \in Held
                    /\ b = "permit" => calls[r][i] \in Registered
    BY <1>1 DEF execute, abandon, enterDriver, Held
  <2>2. /\ slot[r][i] = a /\ slot'[r][i] = b
        /\ \A s \in Runs : \A j \in DOMAIN calls[s] : <<s, j>> # <<r, i>> => slot'[s][j] = slot[s][j]
    BY <1>0, <2>1, OthersStay
  <2>3. ASSUME NEW s \in Runs, NEW j \in DOMAIN calls[s]
        PROVE  /\ slot'[s][j] \in Held <=> slot[s][j] \in Held
               /\ slot'[s][j] = "permit" => slot[s][j] = "permit" \/ calls[s][j] \in Registered
    BY <2>1, <2>2
  <2> QED BY <1>0, <2>1, <2>3, HoldersStay
<1>2. CASE acquire(r, i)
  BY <1>2, Acquires
<1>3. CASE intercept(r, i) \/ return(r, i) \/ panic(r, i)
  <2>1. PICK a \in Held, b \in Succeeded \cup Failed : Move(r, i, a, b)
    BY <1>3 DEF intercept, return, panic, Returned, Held, Succeeded, Failed, Unexecuted
  <2>2. Release(r, i)
    BY <1>3 DEF intercept, return, panic
  <2> QED BY <1>0, <2>1, <2>2, Releases
<1>4. CASE emit(r, i)
  <2>1. UNCHANGED <<slot, permits>>
    BY <1>4 DEF emit
  <2> QED BY <1>0, <2>1, HoldersStay
<1> QED BY <1>1, <1>2, <1>3, <1>4 DEF Call

(* The goroutine of ExecuteBatch only touches calls that are still new. *)
LEMMA DispatcherPermits ==
    ASSUME BusInv, PermitsHeld, NEW r \in Runs, Dispatcher(r)
    PROVE  PermitsHeld'
<1>0. /\ UNCHANGED <<calls, permits>>
      /\ Len(calls[r]) \in Nat /\ DOMAIN calls[r] = 1..Len(calls[r])
      /\ from[r] \in Nat /\ to[r] \in Nat /\ next[r] \in Nat
      /\ slot[r] \in [DOMAIN calls[r] -> Slots] /\ DOMAIN slot = Runs
  BY PositionsAreNat DEF BusInv, BusTypes, Dispatcher, nextGroup, dispatch, sendJob, skipJobs, joinGroup,
     process, batch
<1>1. FrontierOf(r) /\ ShapeOf(r)
  BY DEF BusInv, Frontier, GroupShape
<1>2. CASE UNCHANGED slot
  BY <1>0, <1>2, HoldersStay
<1>3. CASE Hand(r, next[r]) /\ pc[r] \in Active \cup {"next"}
  <2>1. ASSUME NEW i \in DOMAIN calls[r] PROVE slot'[r][i] = slot[r][i] \/ (slot[r][i] = "new" /\ slot'[r][i] = "job")
    BY <1>0, <1>1, <1>3 DEF Hand, FrontierOf
  <2>2. \A s \in Runs : s # r => slot'[s] = slot[s]
    BY <1>0, <1>3 DEF Hand
  <2>3. ASSUME NEW s \in Runs, NEW j \in DOMAIN calls[s]
        PROVE  /\ slot'[s][j] \in Held <=> slot[s][j] \in Held
               /\ slot'[s][j] = "permit" => slot[s][j] = "permit"
    BY <2>1, <2>2 DEF Held
  <2> QED BY <1>0, <2>3, HoldersStay
<1>4. ASSUME NEW S, NotExecuted(r, S), pc[r] \in Active, \A i \in S : i >= next[r]
      PROVE  PermitsHeld'
  <2>1. ASSUME NEW i \in DOMAIN calls[r]
        PROVE  slot'[r][i] = slot[r][i] \/ (slot[r][i] = "new" /\ slot'[r][i] = "notExecuted")
    BY <1>0, <1>1, <1>4 DEF NotExecuted, FrontierOf
  <2>2. \A s \in Runs : s # r => slot'[s] = slot[s]
    BY <1>0, <1>4 DEF NotExecuted
  <2>3. ASSUME NEW s \in Runs, NEW j \in DOMAIN calls[s]
        PROVE  /\ slot'[s][j] \in Held <=> slot[s][j] \in Held
               /\ slot'[s][j] = "permit" => slot[s][j] = "permit"
    BY <2>1, <2>2 DEF Held
  <2> QED BY <1>0, <2>3, HoldersStay
<1>5. CASE nextGroup(r)
  BY <1>2, <1>3, <1>5 DEF nextGroup, Goto
<1>6. CASE sendJob(r)
  BY <1>3, <1>6 DEF sendJob, Goto, Active
<1>7. CASE skipJobs(r)
  <2>1. NotExecuted(r, Skipped(r)) /\ pc[r] \in Active
    BY <1>7 DEF skipJobs, Goto, Active
  <2>2. \A i \in Skipped(r) : i >= next[r]
    BY <1>0 DEF Skipped
  <2> QED BY <1>4, <2>1, <2>2
<1>8. CASE joinGroup(r)
  <2>1. pc[r] = "wait" /\ (NotExecuted(r, After(r)) \/ UNCHANGED slot)
    BY <1>8 DEF joinGroup, Goto
  <2>2. \A i \in After(r) : i >= next[r]
    BY <1>0, <1>1, <2>1 DEF After, ShapeOf
  <2> QED BY <1>2, <1>4, <2>1, <2>2 DEF Active
<1>9. CASE dispatch(r) \/ process(r)
  BY <1>2, <1>9 DEF dispatch, process
<1> QED BY <1>5, <1>6, <1>7, <1>8, <1>9 DEF Dispatcher

(* The count holds of every execution. *)
LEMMA PermitsInvariance == Spec => [](BusInv /\ PermitsHeld)
<1>1. Init => PermitsHeld
  <2> SUFFICES ASSUME Init PROVE PermitsHeld
    OBVIOUS
  <2>1. \A r \in Runs : \A i \in DOMAIN calls[r] : slot[r][i] = "new"
    BY DEF Init
  <2>2. \A g \in Groups : Holders(g) = {}
    BY <2>1, HolderPairs DEF Held
  <2>3. \A g \in Groups : Capacity(g) \in Nat
    BY OneCapacity DEF Groups
  <2>4. permits \in [Groups -> Nat] /\ \A g \in Groups : permits[g] = 0
    BY DEF Init
  <2>5. \A g \in Groups : IsFiniteSet(Holders(g)) /\ Cardinality(Holders(g)) = 0
    BY <2>2, FS_EmptySet
  <2> QED BY <2>1, <2>3, <2>4, <2>5 DEF PermitsHeld, Held
<1>2. ASSUME BusInv, PermitsHeld, [Next]_vars PROVE PermitsHeld'
  <2>1. CASE UNCHANGED <<calls, slot, permits>>
    BY <1>2, <2>1, HoldersStay
  <2>2. ASSUME NEW r \in Runs, cancel(r) PROVE PermitsHeld'
    BY <2>1, <2>2 DEF cancel, batch
  <2>3. CASE Terminated \/ UNCHANGED vars
    BY <2>1, <2>3 DEF Terminated, vars, batch
  <2> QED BY <1>2, <2>2, <2>3, CallPermits, DispatcherPermits DEF Next
<1> QED BY <1>1, <1>2, BusInvariance, PTL DEF Spec

(* concurrencyLimiter: across all dispatches that share a limiter the permits *)
(* taken are those of the calls that hold one, and never more than it has.   *)
THEOREM LimitersProven == Spec => []LimitersExact
<1>1. PermitsHeld => LimitersExact
  BY DEF PermitsHeld, LimitersExact
<1> QED BY <1>1, PermitsInvariance, PTL

-----------------------------------------------------------------------------
(* The results. *)

(* The positions before n. *)
Before(r, n) == {i \in DOMAIN calls[r] : i < n}

(* The results gathered are those of all calls before the group, and in the  *)
(* end those of the calls that have one.                                    *)
AccountOf(r) ==
    /\ pc[r] = "next" => results[r] \in InOrder(Before(r, next[r]))
    /\ pc[r] \in Active => results[r] \in InOrder(Before(r, from[r]))
    /\ pc[r] \in {"process", "done"} =>
        /\ \A i \in DOMAIN calls[r] : slot[r][i] \in Succeeded \cup Failed
        /\ results[r] \in InOrder({i \in DOMAIN calls[r] : slot[r][i] \in Succeeded})

Accounted == DOMAIN results = Runs /\ \A r \in Runs : AccountOf(r)

(* What follows in order, appended, is in order. *)
LEMMA OrderJoins ==
    ASSUME NEW S \in SUBSET Nat, IsFiniteSet(S), NEW T \in SUBSET Nat, IsFiniteSet(T),
           \A i \in S : \A j \in T : i < j,
           NEW a \in InOrder(S), NEW b \in InOrder(T)
    PROVE  a \o b \in InOrder(S \cup T)
<1> DEFINE m == Cardinality(S)
           n == Cardinality(T)
<1>1. m \in Nat /\ n \in Nat
  BY FS_CardinalityType
<1>2. Cardinality(S \cup T) = m + n
  <2>1. S \cap T = {}
    OBVIOUS
  <2>2. Cardinality(S \cup T) = m + n - Cardinality(S \cap T)
    BY FS_Union
  <2>3. Cardinality(S \cap T) = 0
    BY <2>1, FS_EmptySet
  <2> HIDE DEF m, n
  <2> QED BY <1>1, <2>2, <2>3
<1>3. /\ a \in [1..m -> S] /\ \A j, k \in 1..m : j < k => a[j] < a[k]
      /\ b \in [1..n -> T] /\ \A j, k \in 1..n : j < k => b[j] < b[k]
  BY DEF InOrder
<1> HIDE DEF m, n
<1>4. a \in Seq(Nat) /\ b \in Seq(Nat) /\ Len(a) = m /\ Len(b) = n
  <2>1. a \in [1..m -> Nat] /\ b \in [1..n -> Nat]
    BY <1>3
  <2> QED BY <1>1, <2>1
<1>5. /\ DOMAIN (a \o b) = 1..(m + n) /\ a \o b \in Seq(Nat)
      /\ \A k \in 1..(m + n) : (a \o b)[k] = IF k <= m THEN a[k] ELSE b[k - m]
  <2> DEFINE ab == a \o b
  <2>1. ab \in Seq(Nat) /\ Len(ab) = m + n
    BY <1>4
  <2>2. ASSUME NEW k \in 1..(m + n) PROVE ab[k] = IF k <= m THEN a[k] ELSE b[k - m]
    <3>1. k \in 1..(Len(a) + Len(b)) /\ a \in Seq(Nat) /\ b \in Seq(Nat) /\ k \in Int
      BY <1>4
    <3>2. CASE k <= m
      <4>1. k <= Len(a)
        BY <1>4, <3>2
      <4>2. ab[k] = a[k]
        BY <3>1, <4>1
      <4> HIDE DEF ab
      <4> QED BY <3>2, <4>2
    <3>3. CASE ~(k <= m)
      <4>1. ~(k <= Len(a))
        BY <1>4, <3>3
      <4>2. ab[k] = b[k - Len(a)]
        BY <3>1, <4>1
      <4> HIDE DEF ab
      <4> QED BY <1>4, <3>3, <4>2
    <3> QED BY <3>2, <3>3
  <2> HIDE DEF ab
  <2>3. DOMAIN ab = 1..(m + n)
    BY <2>1
  <2>4. DOMAIN (a \o b) = 1..(m + n) /\ a \o b \in Seq(Nat)
    BY <2>1, <2>3 DEF ab
  <2>5. \A k \in 1..(m + n) : (a \o b)[k] = IF k <= m THEN a[k] ELSE b[k - m]
    BY <2>2 DEF ab
  <2> QED BY <2>4, <2>5
<1>6. \A k \in 1..(m + n) : IF k <= m THEN k \in 1..m ELSE k - m \in 1..n
  BY <1>1
<1>7. a \o b \in [1..(m + n) -> S \cup T]
  <2>1. \A k \in 1..(m + n) : (a \o b)[k] \in S \cup T
    BY <1>3, <1>5, <1>6
  <2>2. a \o b \in [1..(m + n) -> Nat]
    <3>1. Len(a \o b) = m + n
      BY <1>1, <1>4
    <3>2. \A f \in Seq(Nat) : f \in [1..Len(f) -> Nat]
      OBVIOUS
    <3> QED BY <1>5, <3>1, <3>2
  <2> QED BY <2>1, <2>2
<1>8. ASSUME NEW j \in 1..(m + n), NEW k \in 1..(m + n), j < k
      PROVE  (a \o b)[j] < (a \o b)[k]
  <2>1. CASE k <= m
    <3>1. j <= m /\ j \in 1..m /\ k \in 1..m
      BY <1>1, <1>8, <2>1
    <3> QED BY <1>3, <1>5, <1>8, <2>1, <3>1
  <2>2. CASE j <= m /\ ~(k <= m)
    <3>1. a[j] \in S /\ b[k - m] \in T
      BY <1>3, <1>6, <2>2
    <3> QED BY <1>5, <2>2, <3>1
  <2>3. CASE ~(j <= m)
    <3>1. ~(k <= m) /\ j - m \in 1..n /\ k - m \in 1..n /\ j - m < k - m
      BY <1>1, <1>6, <1>8, <2>3
    <3> QED BY <1>3, <1>5, <2>3, <3>1
  <2> QED BY <2>1, <2>2, <2>3
<1> QED BY <1>2, <1>7, <1>8 DEF InOrder

(* A step after which r gathers the results that it gathered before. *)
Gathers(r) ==
    \/ pc[r] \in Active /\ pc'[r] \in Active /\ from'[r] = from[r]
    \/ pc'[r] = "panicked"
    \/ /\ pc'[r] = pc[r] /\ next'[r] = next[r] /\ from'[r] = from[r]
       /\ \A i \in DOMAIN calls[r] : slot'[r][i] = slot[r][i]

(* A step that gathers no results and ends no batch. *)
LEMMA AccountStays ==
    ASSUME Accounted, UNCHANGED <<calls, results>>, \A r \in Runs : Gathers(r)
    PROVE  Accounted'
<1>1. ASSUME NEW r \in Runs PROVE AccountOf(r)'
  <2>1. AccountOf(r)
    BY DEF Accounted
  <2>2. CASE pc[r] \in Active /\ pc'[r] \in Active /\ from'[r] = from[r]
    BY <2>1, <2>2 DEF AccountOf, Before, Active
  <2>3. CASE pc'[r] = "panicked"
    BY <2>3 DEF AccountOf, Active
  <2>4. CASE /\ pc'[r] = pc[r] /\ next'[r] = next[r] /\ from'[r] = from[r]
             /\ \A i \in DOMAIN calls[r] : slot'[r][i] = slot[r][i]
    <3>1. {i \in DOMAIN calls[r] : slot'[r][i] \in Succeeded} = {i \in DOMAIN calls[r] : slot[r][i] \in Succeeded}
      BY <2>4
    <3> QED BY <2>1, <2>4, <3>1 DEF AccountOf, Before
  <2> QED BY <2>2, <2>3, <2>4 DEF Gathers
<1> QED BY <1>1 DEF Accounted

(* A step of one dispatch concerns the results of that one. *)
LEMMA OwnAccount ==
    ASSUME Accounted, NEW r \in Runs, UNCHANGED calls, DOMAIN results' = Runs,
           \A s \in Runs : s # r =>
               /\ slot'[s] = slot[s] /\ pc'[s] = pc[s] /\ results'[s] = results[s]
               /\ from'[s] = from[s] /\ next'[s] = next[s],
           AccountOf(r)'
    PROVE  Accounted'
<1>1. ASSUME NEW s \in Runs, s # r PROVE AccountOf(s)'
  <2>1. AccountOf(s)
    BY DEF Accounted
  <2> QED BY <1>1, <2>1 DEF AccountOf, Before
<1> QED BY <1>1 DEF Accounted

(* A group begins where the results end, and a batch that has no more ends. *)
LEMMA GroupAccount ==
    ASSUME BusInv, Accounted, NEW r \in Runs, nextGroup(r)
    PROVE  Accounted'
<1>1. /\ UNCHANGED <<calls, results>> /\ pc[r] = "next" /\ next[r] \in Nat
      /\ Len(calls[r]) \in Nat /\ DOMAIN calls[r] = 1..Len(calls[r])
      /\ DOMAIN pc = Runs /\ DOMAIN from = Runs /\ DOMAIN next = Runs /\ DOMAIN slot = Runs
  BY PositionsAreNat DEF nextGroup, batch, output, Goto, BusInv, BusTypes
<1>2. \A s \in Runs : s # r =>
        slot'[s] = slot[s] /\ pc'[s] = pc[s] /\ from'[s] = from[s] /\ next'[s] = next[s]
  BY <1>1 DEF nextGroup, Goto, Hand, progress
<1>3. results[r] \in InOrder(Before(r, next[r])) /\ DOMAIN results = Runs
  BY <1>1 DEF Accounted, AccountOf
<1>4. CASE next[r] > Len(calls[r]) /\ pc'[r] = "process" /\ UNCHANGED slot
  <2>1. \A i \in DOMAIN calls[r] : i < next[r] /\ slot[r][i] \in Succeeded
    BY <1>1, <1>4 DEF BusInv, GroupShape, ShapeOf
  <2>2. Before(r, next[r]) = {i \in DOMAIN calls[r] : slot[r][i] \in Succeeded}
    BY <2>1 DEF Before
  <2>3. AccountOf(r)'
    BY <1>1, <1>3, <1>4, <2>1, <2>2 DEF AccountOf, Active
  <2> QED BY <1>1, <1>2, <1>3, <2>3, OwnAccount
<1>5. CASE pc'[r] \in {"wait", "dispatch"} /\ from'[r] = next[r]
  <2>1. AccountOf(r)'
    BY <1>1, <1>3, <1>5 DEF AccountOf, Before, Active
  <2> QED BY <1>1, <1>2, <1>3, <2>1, OwnAccount
<1> QED BY <1>1, <1>4, <1>5 DEF nextGroup, Goto, progress

(* The join appends the results of the group. *)
LEMMA JoinAccount ==
    ASSUME BusInv, Accounted, NEW r \in Runs, joinGroup(r)
    PROVE  Accounted'
<1>1. /\ UNCHANGED <<calls, from, to, next>> /\ pc[r] = "wait"
      /\ \A i \in from[r]..to[r] : slot[r][i] \in Succeeded \cup Failed
      /\ Len(calls[r]) \in Nat /\ DOMAIN calls[r] = 1..Len(calls[r])
      /\ next[r] \in Nat \ {0} /\ from[r] \in Nat \ {0} /\ to[r] \in Nat
      /\ DOMAIN pc = Runs /\ DOMAIN slot = Runs /\ slot[r] \in [DOMAIN calls[r] -> Slots]
  BY PositionsAreNat DEF joinGroup, batch, progress, Goto, BusInv, BusTypes
<1>2. /\ from[r] <= next[r] /\ next[r] = to[r] + 1 /\ to[r] <= Len(calls[r])
      /\ \A i \in DOMAIN calls[r] : i < from[r] => slot[r][i] \in Succeeded
      /\ \A i \in DOMAIN calls[r] : i >= next[r] => slot[r][i] = "new"
  BY <1>1 DEF BusInv, Frontier, FrontierOf, GroupShape, ShapeOf, Active
<1>3. PICK s \in InOrder(HasResult(r)) : results' = [results EXCEPT ![r] = @ \o s]
  BY DEF joinGroup
<1>4. DOMAIN results = Runs /\ results[r] \in InOrder(Before(r, from[r]))
  BY <1>1 DEF Accounted, AccountOf, Active
<1>5. results'[r] \in InOrder(Before(r, from[r]) \cup HasResult(r))
  <2>1. IsFiniteSet(1..Len(calls[r]))
    BY <1>1, FS_Interval
  <2>2. Before(r, from[r]) \in SUBSET (1..Len(calls[r])) /\ HasResult(r) \in SUBSET (1..Len(calls[r]))
    BY <1>1, <1>2 DEF Before, HasResult
  <2>3. IsFiniteSet(Before(r, from[r])) /\ IsFiniteSet(HasResult(r))
    BY <2>1, <2>2, FS_Subset
  <2>4. \A i \in Before(r, from[r]) : \A j \in HasResult(r) : i < j
    BY <1>1 DEF Before, HasResult
  <2>5. Before(r, from[r]) \in SUBSET Nat /\ HasResult(r) \in SUBSET Nat
    BY <1>1, <2>2
  <2>6. results[r] \o s \in InOrder(Before(r, from[r]) \cup HasResult(r))
    BY <1>3, <1>4, <2>3, <2>4, <2>5, OrderJoins
  <2> QED BY <1>3, <1>4, <2>6
<1>6. \A t \in Runs : t # r =>
        slot'[t] = slot[t] /\ pc'[t] = pc[t] /\ results'[t] = results[t]
  BY <1>1, <1>3, <1>4 DEF joinGroup, Goto, NotExecuted
<1>7. CASE GroupFailed(r) /\ Goto(r, "wait", "process") /\ NotExecuted(r, After(r))
  <2>1. \A i \in DOMAIN calls[r] : slot'[r][i] = IF i \in After(r) THEN "notExecuted" ELSE slot[r][i]
    BY <1>1, <1>7 DEF NotExecuted
  <2>2. \A i \in DOMAIN calls[r] : i \in After(r) \/ i < from[r] \/ i \in from[r]..to[r]
    BY <1>1, <1>2 DEF After
  <2>3. \A i \in DOMAIN calls[r] : slot'[r][i] \in Succeeded \cup Failed
    BY <1>1, <1>2, <2>1, <2>2 DEF Failed, Unexecuted
  <2>4. {i \in DOMAIN calls[r] : slot'[r][i] \in Succeeded} = Before(r, from[r]) \cup HasResult(r)
    <3>1. \A i \in After(r) : ~(i < from[r]) /\ i \notin from[r]..to[r]
      BY <1>1, <1>2 DEF After
    <3>2. \A i \in from[r]..to[r] : i \in DOMAIN calls[r]
      BY <1>1, <1>2
    <3>3. \A i \in DOMAIN calls[r] :
            slot'[r][i] \in Succeeded <=> i < from[r] \/ (i \in from[r]..to[r] /\ slot[r][i] \in Succeeded)
      BY <1>2, <2>1, <2>2, <3>1 DEF Succeeded
    <3> QED BY <3>2, <3>3 DEF Before, HasResult
  <2>5. pc'[r] = "process"
    BY <1>1, <1>7 DEF Goto
  <2>6. AccountOf(r)'
    BY <1>1, <1>5, <2>3, <2>4, <2>5 DEF AccountOf, Active
  <2>7. DOMAIN results' = Runs
    BY <1>3, <1>4
  <2> QED BY <1>1, <1>6, <2>6, <2>7, OwnAccount
<1>8. CASE ~GroupFailed(r) /\ Goto(r, "wait", "next") /\ UNCHANGED slot
  <2>1. HasResult(r) = from[r]..to[r]
    BY <1>1, <1>8 DEF GroupFailed, HasResult
  <2>2. Before(r, from[r]) \cup HasResult(r) = Before(r, next[r])
    <3>1. \A i \in 1..Len(calls[r]) : i < next[r] <=> i < from[r] \/ i \in from[r]..to[r]
      BY <1>1, <1>2
    <3>2. \A i \in from[r]..to[r] : i \in 1..Len(calls[r])
      BY <1>1, <1>2
    <3> QED BY <1>1, <2>1, <3>1, <3>2 DEF Before
  <2>3. pc'[r] = "next"
    BY <1>1, <1>8 DEF Goto
  <2>4. AccountOf(r)'
    BY <1>1, <1>5, <2>2, <2>3 DEF AccountOf, Before, Active
  <2>5. DOMAIN results' = Runs
    BY <1>3, <1>4
  <2> QED BY <1>1, <1>6, <2>4, <2>5, OwnAccount
<1> QED BY <1>7, <1>8 DEF joinGroup

(* A call that moves belongs to a batch in progress. *)
LEMMA CallAccount ==
    ASSUME BusInv, Accounted, NEW r \in Runs, NEW i \in DOMAIN calls[r], Call(r, i) \/ emit(r, i)
    PROVE  Accounted'
<1>1. UNCHANGED <<calls, results, from, next>> /\ DOMAIN slot = Runs /\ DOMAIN pc = Runs
  BY DEF Call, emit, execute, acquire, abandon, intercept, enterDriver, return, panic, CallFrame,
         batch, output, progress, BusInv, BusTypes
<1>2. CASE emit(r, i)
  BY <1>1, <1>2, AccountStays DEF emit, Gathers
<1>3. CASE Call(r, i)
  <2>1. slot[r][i] \in Busy
    BY <1>3 DEF Call, execute, acquire, abandon, intercept, enterDriver, return, panic, Move, Busy
  <2>2. pc[r] \in Active
    BY <2>1 DEF BusInv, Frontier, FrontierOf
  <2>3. \A s \in Runs : s # r => slot'[s] = slot[s] /\ pc'[s] = pc[s]
    BY <1>1, <1>3 DEF Call, execute, acquire, abandon, intercept, enterDriver, return, panic, Move, Goto
  <2>4. pc'[r] = pc[r] \/ pc'[r] = "panicked"
    BY <1>1, <1>3 DEF Call, execute, acquire, abandon, intercept, enterDriver, return, panic, Goto
  <2>5. pc'[r] \in Active \/ pc'[r] = "panicked"
    BY <2>2, <2>4
  <2>6. \A s \in Runs : Gathers(s)
    BY <1>1, <2>2, <2>3, <2>5 DEF Gathers
  <2> QED BY <1>1, <2>6, AccountStays
<1> QED BY <1>2, <1>3

(* The results are accounted for throughout. *)
LEMMA AccountInvariance == Spec => [](BusInv /\ Accounted)
<1>1. Init => Accounted
  <2> SUFFICES ASSUME Init PROVE DOMAIN results = Runs /\ \A r \in Runs : AccountOf(r)
    BY DEF Accounted
  <2> SUFFICES ASSUME NEW r \in Runs PROVE AccountOf(r)
    BY DEF Init
  <2>1. BusTypes
    BY InitBus DEF BusInv
  <2>2. << >> \in InOrder({})
    BY FS_EmptySet DEF InOrder
  <2>3. Before(r, 1) = {}
    BY <2>1, PositionsAreNat DEF Before
  <2>4. calls[r] = << >> => DOMAIN calls[r] = {}
    OBVIOUS
  <2>5. /\ pc[r] = (IF calls[r] = << >> THEN "done" ELSE "next") /\ results[r] = << >>
        /\ next[r] = 1 /\ DOMAIN results = Runs
    BY DEF Init
  <2>6. CASE calls[r] = << >>
    <3>1. {i \in DOMAIN calls[r] : slot[r][i] \in Succeeded} = {}
      BY <2>4, <2>6
    <3> QED BY <2>2, <2>4, <2>5, <2>6, <3>1 DEF AccountOf, Active
  <2>7. CASE calls[r] # << >>
    BY <2>2, <2>3, <2>5, <2>7 DEF AccountOf, Active
  <2> QED BY <2>6, <2>7
<1>2. ASSUME BusInv, Accounted, [Next]_vars PROVE Accounted'
  <2>0. DOMAIN pc = Runs /\ DOMAIN slot = Runs /\ DOMAIN next = Runs
    BY <1>2 DEF BusInv, BusTypes
  <2>1. CASE UNCHANGED <<calls, pc, from, next, slot, results>>
    BY <1>2, <2>1, AccountStays DEF Gathers
  <2>2. ASSUME NEW r \in Runs, dispatch(r) \/ sendJob(r) \/ skipJobs(r) PROVE Accounted'
    <3>1. pc[r] \in Active /\ pc'[r] \in Active /\ UNCHANGED <<calls, results, from>>
      BY <2>0, <2>2 DEF dispatch, sendJob, skipJobs, Goto, Active, batch, output, progress
    <3>2. \A s \in Runs : s # r => slot'[s] = slot[s] /\ pc'[s] = pc[s] /\ next'[s] = next[s]
      BY <2>0, <2>2 DEF dispatch, sendJob, skipJobs, Goto, Hand, NotExecuted, progress
    <3>3. \A s \in Runs : Gathers(s)
      BY <3>1, <3>2 DEF Gathers
    <3> QED BY <1>2, <3>1, <3>3, AccountStays
  <2>3. ASSUME NEW r \in Runs, process(r) PROVE Accounted'
    <3>1. UNCHANGED <<calls, results, slot, from, next>> /\ pc[r] = "process" /\ pc' = [pc EXCEPT ![r] = "done"]
      BY <2>3 DEF process, Goto, batch, progress
    <3>2. AccountOf(r)'
      BY <1>2, <2>0, <3>1 DEF Accounted, AccountOf, Active
    <3> QED BY <1>2, <2>0, <3>1, <3>2, OwnAccount DEF Accounted
  <2>4. ASSUME NEW r \in Runs, cancel(r) PROVE Accounted'
    BY <2>1, <2>4 DEF cancel, batch, output, progress
  <2>5. CASE Terminated \/ UNCHANGED vars
    BY <2>1, <2>5 DEF Terminated, vars, batch, output, progress
  <2> QED BY <1>2, <2>2, <2>3, <2>4, <2>5, GroupAccount, JoinAccount, CallAccount DEF Next, Dispatcher
<1> QED BY <1>1, <1>2, BusInvariance, PTL DEF Spec

(* ExecuteBatch: whatever fails, is cancelled or is refused, a batch that has *)
(* ended has for each call either its result, in the order of the calls, or   *)
(* an error, and never both.                                                *)
THEOREM ResultsProven == Spec => []EveryCallAccounted
<1>1. Accounted => EveryCallAccounted
  BY DEF Accounted, AccountOf, EveryCallAccounted
<1> QED BY <1>1, AccountInvariance, PTL

=============================================================================
