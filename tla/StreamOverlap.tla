---------------------------- MODULE StreamOverlap ----------------------------
(***************************************************************************)
(* Tools that start while the model's response still streams                *)
(* (agent/stream_overlap.go), over the adapters: the collecting goroutine    *)
(* starts a worker for each complete call it may trust; when the stream has  *)
(* ended it joins the workers, and runToolStep (agent/agent.go) merges their *)
(* results with those of the calls it dispatches itself.                     *)
(***************************************************************************)
EXTENDS Adapters

CONSTANTS
    SafeSets,  \* the calls that may start early; without any, none is announced early
    Rooms      \* the calls the tool budget and the batch limit still admit

ASSUME OverlapAssumption == SafeSets \subseteq SUBSET Calls /\ Rooms \subseteq Nat

VARIABLES
    policy,   \* safe calls, room, whether ToolMode is parallel
    entries,  \* streamOverlapEntry of each call: its state and its operation
    barrier,
    live,     \* the context of the workers
    step,     \* where the engine is with the turn
    prepared, \* how often BeforeToolCall has seen each call
    ran       \* the calls whose driver was dispatched

overlapVars == <<policy, entries, barrier, live, step, prepared, ran>>
vars == <<streamVars, overlapVars>>

NoEntry == [state |-> "none", op |-> NoIndex, args |-> << >>]

Init ==
    /\ StreamInit
    /\ policy \in [safe : SafeSets, room : Rooms, parallel : BOOLEAN]
    /\ mode.complete <=> policy.safe # {}
    /\ entries = [c \in Calls |-> NoEntry] /\ barrier = FALSE /\ live = TRUE
    /\ step = "collecting"
    /\ prepared = [c \in Calls |-> 0] /\ ran = {}

Entered == {c \in Calls : entries[c].state # "none"}
Busy == {c \in Calls : entries[c].state \in {"started", "executing"}}
Entry(c) == entries[c].state # "none"

eligible(c) == c \in policy.safe

Unseen(e) == ~Entry(e.id)

Admitted(e) ==
    /\ Cardinality(Entered) < policy.room
    /\ Valid(e.args) /\ eligible(e.id)

OperationOf == Cardinality(Entered)

(* The hook passes the call, makes it a call that may not run early, or      *)
(* fails.  The first two are prepared for good.                             *)
Prepares(e) ==
    \E state \in {"started", "deferred", "hookFailed"} :
        /\ entries' = [entries EXCEPT ![e.id] = [state |-> state, op |-> OperationOf, args |-> e.args]]
        /\ prepared' = [prepared EXCEPT ![e.id] = @ + 1]
        /\ barrier' = (state # "started" \/ ~policy.parallel)

observe(e) ==
    IF barrier \/ e.kind # "call" \/ ~Unseen(e) THEN UNCHANGED <<entries, prepared, barrier>>
    ELSE IF Admitted(e) THEN Prepares(e)
    ELSE barrier' = TRUE /\ UNCHANGED <<entries, prepared>>

streamAndStep == <<streamVars, policy, step>>

(* collect hands each event to observe; with no overlap, observe does nothing *)
(* (SafeStreamingTools is empty, and CompleteToolCalls is false).            *)
collectEvent ==
    /\ \E e \in ToSet(conn.pending) : TakeEvent(e) /\ observe(e)
    /\ UNCHANGED <<policy, live, step, ran>>

Ran(c, op, args, early) == [call |-> c, op |-> op, args |-> args, early |-> early]

(* A worker reaches the driver, unless its context has ended.                *)
executeStarts(c) ==
    /\ entries[c].state = "started"
    /\ \/ /\ entries' = [entries EXCEPT ![c].state = "executing"]
          /\ ran' = ran \cup {Ran(c, entries[c].op, entries[c].args, TRUE)}
       \/ ~live /\ entries' = [entries EXCEPT ![c].state = "failed"] /\ UNCHANGED ran
    /\ UNCHANGED <<streamAndStep, barrier, live, prepared>>

executeEnds(c) ==
    /\ entries[c].state = "executing"
    /\ \E state \in {"returned", "failed"} : entries' = [entries EXCEPT ![c].state = state]
    /\ UNCHANGED <<streamAndStep, barrier, live, prepared, ran>>

(* collect has returned: an error of the stream, or of the normalisation.    *)
Collected == consumer = "eof" /\ Outcome(assembly) = "ok"

(* Mutant: a failed turn does not wait for its workers. *)
Joined_OnSuccess == ~live \/ Busy = {}

(* finish waits for every worker. *)
Joined == Busy = {}

finishCancels ==
    /\ step = "collecting" /\ consumer # "reading" /\ ~Collected /\ live
    /\ live' = FALSE
    /\ UNCHANGED <<streamAndStep, entries, barrier, prepared, ran>>

finish ==
    /\ step = "collecting" /\ consumer # "reading" /\ (Collected \/ ~live)
    /\ Joined
    /\ live' = FALSE
    /\ step' = IF ~Collected THEN "failed"
               ELSE IF ToolCalls(assembly, conn.stop) = << >> THEN "answered" ELSE "tools"
    /\ UNCHANGED <<streamVars, policy, entries, barrier, prepared, ran>>

-----------------------------------------------------------------------------
(* runToolStep. *)

TurnCalls == ToolCalls(assembly, conn.stop)

(* Mutant: a deferred call counts as one that ran early. *)
Early_Deferred(i) == TurnCalls[i].id \in Entered

Finished == {c \in Calls : entries[c].state \in {"returned", "failed", "hookFailed"}}

Early(i) == TurnCalls[i].id \in Finished

(* Mutant: the hook runs again for a call that was deferred. *)
NeedsHook_Deferred(c) == TRUE

NeedsHook(c) == entries[c].state # "deferred"

Hooked == {c \in {TurnCalls[i].id : i \in {j \in DOMAIN TurnCalls : ~Early(j)}} : NeedsHook(c)}

(* A budget, a boundary or the context stops the turn; results of early calls *)
(* are not recorded.                                                        *)
stepStops ==
    /\ step = "tools" /\ step' = "failed"
    /\ UNCHANGED <<streamVars, policy, entries, barrier, live, prepared, ran>>

(* take and preparePending: a hook that fails stops the step. *)
preparePending ==
    /\ step = "tools" /\ Len(TurnCalls) <= policy.room
    /\ step' \in {"dispatching"} \cup IF Hooked = {} THEN {} ELSE {"failed"}
    /\ prepared' = [c \in Calls |-> prepared[c] + IF c \in Hooked THEN 1 ELSE 0]
    /\ UNCHANGED <<streamVars, policy, entries, barrier, live, ran>>

(* The operation a call is dispatched under: its place in the response, or   *)
(* the one it was prepared with.                                            *)
DispatchOp(i) ==
    LET entry == entries[TurnCalls[i].id]
    IN  IF entry.state = "deferred" THEN entry.op ELSE i - 1

Remaining == {i \in DOMAIN TurnCalls : ~Early(i)}

(* dispatchPreparedTools, which may stop after any part of the batch.  The   *)
(* turn fails with the error of an early call as with one of its own.        *)
dispatch ==
    /\ step = "dispatching"
    /\ \E reached \in SUBSET Remaining :
          /\ ran' = ran \cup {Ran(TurnCalls[i].id, DispatchOp(i), TurnCalls[i].args, FALSE) : i \in reached}
          /\ step' = IF /\ reached = Remaining
                        /\ \A c \in Entered : entries[c].state \notin {"failed", "hookFailed"}
                     THEN "recorded" ELSE "failed"
    /\ UNCHANGED <<streamVars, policy, entries, barrier, live, prepared>>

-----------------------------------------------------------------------------
Next ==
    \/ step = "collecting" /\ (Recv \/ TakeEOF) /\ UNCHANGED overlapVars
    \/ collectEvent
    \/ \E c \in Calls : executeStarts(c) \/ executeEnds(c)
    \/ finishCancels \/ finish
    \/ stepStops \/ preparePending \/ dispatch

Spec == Init /\ [][Next]_vars
(* The collecting goroutine goes on with what has arrived; a driver returns. *)
FairSpec ==
    /\ Spec
    /\ WF_vars(collectEvent)
    /\ WF_vars((truncationShows \/ TakeEOF) /\ UNCHANGED overlapVars)

-----------------------------------------------------------------------------
(* A call is prepared once and its driver runs once, whether it ran early,   *)
(* was deferred or waited for the end of the stream: approval hooks and      *)
(* effects are never repeated within the turn.                              *)
OneExecution ==
    \A c \in Calls : prepared[c] <= 1 /\ Cardinality({r \in ran : r.call = c}) <= 1

(* Early or late, what runs is what the finished response asks for: a call   *)
(* that ran early ran with its final arguments, and once the results are     *)
(* recorded exactly the calls of the response have run.  Where the response  *)
(* leaves no call to record ("answered"), what ran early is still a call of  *)
(* the response with its final arguments, and is there only because the      *)
(* response was withdrawn after it (markIncompleteResponse).  That nothing   *)
(* ran, as agent/response_recovery.go:50 and :127 then tell the model, does  *)
(* not hold.                                                                *)
RanIsFinal ==
    LET asked == {[call |-> TurnCalls[i].id, args |-> TurnCalls[i].args] : i \in DOMAIN TurnCalls}
        held == {[call |-> assembly.builders[k].id, args |-> assembly.builders[k].args] :
                     k \in DOMAIN assembly.builders}
        done == {[call |-> r.call, args |-> r.args] : r \in ran}
    IN  /\ step \in {"tools", "dispatching", "recorded"} => done \subseteq asked
        /\ step = "recorded" => done = asked
        /\ step = "answered" => done \subseteq held
        /\ step = "answered" /\ ran # {} => Malformed(assembly) \/ conn.stop = "length"

(* When the turn is over no tool of it is still running, and no more ran     *)
(* than the budget admits.                                                  *)
TurnIsJoined ==
    /\ step # "collecting" => Busy = {}
    /\ Cardinality(ran) <= policy.room

(* An operation of the turn names one call (docs/public-api.md:48,           *)
(* "`Call.OperationID` identifies one logical tool slot").                   *)
OperationSlots ==
    \A r, q \in ran : r.op = q.op => r.call = q.call

(* The stream ends as docs/adr/ADR-030 promises: one terminal event, only if  *)
(* the response arrived whole, then the end; a cut response ends in an error, *)
(* and a reader that goes on reaches that end.                              *)
ImplementsEventStream == Stream!Spec

=============================================================================
