------------------------------- MODULE ToolBus -------------------------------
(***************************************************************************)
(* tool.Bus (tool/tool.go, interceptor.go, update.go): ExecuteBatch runs    *)
(* the calls of one model response, one after the other or in groups of     *)
(* parallel calls between sequential barriers.  A group is served by a pool *)
(* of workers; each call goes through Execute, which rejects what cannot    *)
(* run, waits for a permit of the tool's limiter, passes the interceptors   *)
(* and enters the driver.  Dispatches of several agent runs share the       *)
(* limiters (Bus.Clone).  dispatchPreparedTools (agent/agent.go) then       *)
(* post-processes what ExecuteBatch returned.                               *)
(*                                                                         *)
(* A call is its position in the batch.  What drivers, interceptors and     *)
(* hooks answer is a choice; so is whether arguments validate.  An          *)
(* interceptor that calls the driver passes its error on.                   *)
(***************************************************************************)
EXTENDS Integers, SequencesExt

CONSTANTS
    Runs,        \* dispatches in progress
    Loads,       \* the batches of the dispatches, one of tool names each; an empty one is no dispatch
    Definition,  \* Definition[t] of the registered tools t
    Artifacts,   \* the tools that read the output store
    Workers      \* DefaultBatchConcurrency

Registered == DOMAIN Definition
Concurrencies == {"parallel", "sequential", "exclusive"}
NoGroup == "none"

(* concurrencySpec: sequential and exclusive tools have one permit. *)
CapacityOf(t) ==
    IF Definition[t].concurrency = "parallel" THEN Definition[t].max ELSE 1

(* The limiter of a tool, by its group or else its own name. *)
LimiterKey(t) ==
    IF CapacityOf(t) = 0 THEN NoGroup
    ELSE IF Definition[t].group = NoGroup THEN t ELSE Definition[t].group

Groups == {LimiterKey(t) : t \in Registered} \ {NoGroup}

(* Register refuses a tool whose group has another capacity, and more than   *)
(* one permit for a sequential or exclusive tool.                           *)
ASSUME BusAssumption ==
    /\ Loads \subseteq [Runs -> Seq(STRING)]
    /\ Workers \in Nat \ {0}
    /\ NoGroup \notin Registered
    /\ \A t \in Registered :
        /\ t \in STRING
        /\ Definition[t].concurrency \in Concurrencies
        /\ Definition[t].max \in Nat
        /\ Definition[t].concurrency # "parallel" => Definition[t].max <= 1
        /\ Definition[t].group \in STRING
        /\ Definition[t].timeout \in BOOLEAN
    /\ \A s, t \in Registered :
        LimiterKey(s) = LimiterKey(t) => CapacityOf(s) = CapacityOf(t)

(* concurrencyLimiter.capacity *)
Capacity(g) == CapacityOf(CHOOSE t \in Registered : LimiterKey(t) = g)

VARIABLES
    calls,      \* calls[r]: the batch of dispatch r
    mode,       \* mode[r]: ModeSequential or ModeParallel
    cancelled,  \* cancelled[r]: the context of r is done
    pc,         \* pc[r]: the goroutine that runs ExecuteBatch
    from,       \* from[r]..to[r]: the group in progress
    to,
    next,       \* next[r]: the first call not handed out
    slot,       \* slot[r][i]: how far call i is, results[i] and errs[i] in the end
    permits,    \* permits[g]: permits taken from the limiter g
    started,    \* started[r]: the calls whose driver was entered
    updated,    \* updated[r]: the calls whose driver has emitted an update
    results,    \* results[r]: the calls whose results ExecuteBatch returns
    kept        \* kept[r]: the results dispatchPreparedTools hands to the loop

batch == <<calls, mode>>
progress == <<from, to, next>>
output == <<results, kept>>
vars == <<batch, cancelled, pc, progress, slot, permits, started, updated, output>>

PCs == {"next", "dispatch", "select", "wait", "process", "done", "panicked"}
Succeeded == {"ok", "rejected"}
(* ErrNotExecuted from the bus, and from the driver itself. *)
Unexecuted == {"notExecuted", "refused"}
Failed == {"error"} \cup Unexecuted
Busy == {"job", "permit", "ready", "running"}
Slots == {"new"} \cup Busy \cup Succeeded \cup Failed

Init ==
    /\ calls \in Loads
    /\ mode \in [Runs -> {"sequential", "parallel"}]
    /\ cancelled = [r \in Runs |-> FALSE]
    /\ pc = [r \in Runs |-> IF calls[r] = << >> THEN "done" ELSE "next"]
    /\ from = [r \in Runs |-> 1]
    /\ to = [r \in Runs |-> 0]
    /\ next = [r \in Runs |-> 1]
    /\ slot = [r \in Runs |-> [i \in DOMAIN calls[r] |-> "new"]]
    /\ permits = [g \in Groups |-> 0]
    /\ started = [r \in Runs |-> {}]
    /\ updated = [r \in Runs |-> {}]
    /\ results = [r \in Runs |-> << >>]
    /\ kept = [r \in Runs |-> << >>]

-----------------------------------------------------------------------------
(* ExecuteBatch. *)

Goto(r, a, b) == pc[r] = a /\ pc' = [pc EXCEPT ![r] = b]

(* isSequentialCall, or a batch that is sequential as a whole: the call runs *)
(* inline on the goroutine of ExecuteBatch.                                 *)
Inline(r, i) ==
    \/ mode[r] = "sequential"
    \/ calls[r][i] \in Registered /\ Definition[calls[r][i]].concurrency = "sequential"

(* Mutant: a sequential call joins the group that precedes it. *)
InGroup_Joins(r, e) ==
    \A i \in next[r]..(e - 1) : ~Inline(r, i)

(* The calls from next to e form one parallel group. *)
InGroup(r, e) == \A i \in next[r]..e : ~Inline(r, i)

Hand(r, i) == slot' = [slot EXCEPT ![r][i] = "job"]

(* The head of ExecuteBatch's loop: the end, an inline call or a group. *)
nextGroup(r) ==
    /\ \/ /\ next[r] > Len(calls[r])
          /\ Goto(r, "next", "process")
          /\ UNCHANGED <<progress, slot>>
       \/ /\ next[r] <= Len(calls[r])
          /\ Inline(r, next[r])
          /\ Goto(r, "next", "wait")
          /\ Hand(r, next[r])
          /\ from' = [from EXCEPT ![r] = next[r]]
          /\ to' = [to EXCEPT ![r] = next[r]]
          /\ next' = [next EXCEPT ![r] = @ + 1]
       \/ /\ next[r] <= Len(calls[r])
          /\ ~Inline(r, next[r])
          /\ Goto(r, "next", "dispatch")
          /\ from' = [from EXCEPT ![r] = next[r]]
          /\ \E e \in next[r]..Len(calls[r]) :
                /\ InGroup(r, e)
                /\ e < Len(calls[r]) => Inline(r, e + 1)
                /\ to' = [to EXCEPT ![r] = e]
          /\ UNCHANGED <<next, slot>>
    /\ UNCHANGED <<batch, cancelled, permits, started, updated, output>>

(* executeParallel, the head of the dispatch loop. *)
dispatch(r) ==
    /\ \/ next[r] > to[r] /\ Goto(r, "dispatch", "wait")
       \/ next[r] <= to[r] /\ ~cancelled[r] /\ Goto(r, "dispatch", "select")
    /\ UNCHANGED <<batch, cancelled, progress, slot, permits, started, updated, output>>

BusyCalls(r) == {i \in DOMAIN calls[r] : slot[r][i] \in Busy}

(* jobs <- index: an idle worker receives it. *)
sendJob(r) ==
    /\ Goto(r, "select", "dispatch")
    /\ Cardinality(BusyCalls(r)) < Workers
    /\ Hand(r, next[r])
    /\ next' = [next EXCEPT ![r] = @ + 1]
    /\ UNCHANGED <<batch, cancelled, from, to, permits, started, updated, output>>

(* Mutant: marks the whole group, what the workers have included. *)
Skipped_Group(r) == from[r]..to[r]

(* What is left of the group when the context ends. *)
Skipped(r) == next[r]..to[r]

NotExecuted(r, S) ==
    slot' = [slot EXCEPT ![r] = [i \in DOMAIN @ |-> IF i \in S THEN "notExecuted" ELSE @[i]]]

(* The context ended before or while the dispatcher waited for a worker. *)
skipJobs(r) ==
    /\ cancelled[r]
    /\ next[r] <= to[r]
    /\ Goto(r, "dispatch", "wait") \/ Goto(r, "select", "wait")
    /\ NotExecuted(r, Skipped(r))
    /\ next' = [next EXCEPT ![r] = to[r] + 1]
    /\ UNCHANGED <<batch, cancelled, from, to, permits, started, updated, output>>

(* The members of S in increasing order. *)
InOrder(S) ==
    {s \in [1..Cardinality(S) -> S] : \A j, k \in 1..Cardinality(S) : j < k => s[j] < s[k]}

HasResult(r) == {i \in from[r]..to[r] : slot[r][i] \in Succeeded}
GroupFailed(r) == \E i \in from[r]..to[r] : slot[r][i] \in Failed
After(r) == (to[r] + 1)..Len(calls[r])

(* Mutant: the calls after a failed group get no error. *)
joinGroup_Forgets(r) ==
    /\ \A i \in from[r]..to[r] : slot[r][i] \in Succeeded \cup Failed
    /\ \E s \in InOrder(HasResult(r)) : results' = [results EXCEPT ![r] = @ \o s]
    /\ Goto(r, "wait", IF GroupFailed(r) THEN "process" ELSE "next")
    /\ UNCHANGED <<batch, cancelled, progress, slot, permits, started, updated, kept>>

(* The group is complete.  Its results follow those of the groups before;    *)
(* if one call failed, the rest of the batch is not executed                *)
(* (batchStoppedError and the loop of the sequential mode).                 *)
joinGroup(r) ==
    /\ \A i \in from[r]..to[r] : slot[r][i] \in Succeeded \cup Failed
    /\ \E s \in InOrder(HasResult(r)) : results' = [results EXCEPT ![r] = @ \o s]
    /\ \/ GroupFailed(r) /\ Goto(r, "wait", "process") /\ NotExecuted(r, After(r))
       \/ ~GroupFailed(r) /\ Goto(r, "wait", "next") /\ UNCHANGED slot
    /\ UNCHANGED <<batch, cancelled, progress, permits, started, updated, kept>>

(* dispatchPreparedTools: AfterToolCall and the output store go through the  *)
(* results in order and stop at their first failure.  Whether a result is    *)
(* offered to the store is read off prepared[index], index counting results. *)
process(r) ==
    /\ Goto(r, "process", "done")
    /\ \E n \in 0..Len(results[r]) :
        kept' = [kept EXCEPT ![r] =
            [k \in 1..n |-> [call |-> results[r][k], offered |-> calls[r][k] \notin Artifacts]]]
    /\ UNCHANGED <<batch, cancelled, progress, slot, permits, started, updated, results>>

-----------------------------------------------------------------------------
(* Execute, on a worker or inline. *)

Move(r, i, a, b) == slot[r][i] = a /\ slot' = [slot EXCEPT ![r][i] = b]

Limited(r, i) == LimiterKey(calls[r][i]) # NoGroup

Take(r, i) ==
    permits' = IF Limited(r, i) THEN [permits EXCEPT ![LimiterKey(calls[r][i])] = @ + 1] ELSE permits

Release(r, i) ==
    permits' = IF Limited(r, i) THEN [permits EXCEPT ![LimiterKey(calls[r][i])] = @ - 1] ELSE permits

CallFrame == UNCHANGED <<batch, cancelled, progress, output>>

(* Context, name and arguments. *)
execute(r, i) ==
    /\ \/ cancelled[r] /\ Move(r, i, "job", "notExecuted")
       \/ ~cancelled[r] /\ Move(r, i, "job", "rejected")
       \/ ~cancelled[r] /\ calls[r][i] \in Registered /\ Move(r, i, "job", "permit")
    /\ UNCHANGED <<pc, permits, started, updated>>
    /\ CallFrame

(* limiter.acquire: a permit, or none needed. *)
acquire(r, i) ==
    /\ Move(r, i, "permit", "ready")
    /\ Limited(r, i) => permits[LimiterKey(calls[r][i])] < CapacityOf(calls[r][i])
    /\ Take(r, i)
    /\ UNCHANGED <<pc, started, updated>>
    /\ CallFrame

(* Mutant: the release is deferred before the permit is there. *)
abandon_Releases(r, i) ==
    /\ Move(r, i, "permit", "notExecuted")
    /\ Limited(r, i)
    /\ cancelled[r] \/ Definition[calls[r][i]].timeout
    /\ Release(r, i)
    /\ UNCHANGED <<pc, started, updated>>
    /\ CallFrame

(* The wait for a permit ends with the context or the tool's own deadline. *)
abandon(r, i) ==
    /\ Move(r, i, "permit", "notExecuted")
    /\ Limited(r, i)
    /\ cancelled[r] \/ Definition[calls[r][i]].timeout
    /\ UNCHANGED <<pc, permits, started, updated>>
    /\ CallFrame

(* An interceptor answers without calling the driver: a result of its own,   *)
(* or an error that wrapInterceptor joins with ErrNotExecuted.              *)
intercept(r, i) ==
    /\ Move(r, i, "ready", "rejected") \/ Move(r, i, "ready", "notExecuted")
    /\ Release(r, i)
    /\ UNCHANGED <<pc, started, updated>>
    /\ CallFrame

enterDriver(r, i) ==
    /\ Move(r, i, "ready", "running")
    /\ started' = [started EXCEPT ![r] = @ \cup {i}]
    /\ UNCHANGED <<pc, permits, updated>>
    /\ CallFrame

(* toolUpdateState.emit. *)
emit(r, i) ==
    /\ slot[r][i] = "running"
    /\ updated' = [updated EXCEPT ![r] = @ \cup {i}]
    /\ UNCHANGED <<pc, slot, permits, started>>
    /\ CallFrame

(* toolUpdateDriver.Execute: a driver that has emitted updates has executed, *)
(* whatever its error says.                                                 *)
Returned(r, i, answer) ==
    IF answer = "refused" /\ i \in updated[r] THEN "error" ELSE answer

(* Mutant: an error returns past the release. *)
return_KeepsPermit(r, i) ==
    /\ \E answer \in {"ok", "error", "refused"} :
        /\ Move(r, i, "running", Returned(r, i, answer))
        /\ IF answer = "error" THEN UNCHANGED permits ELSE Release(r, i)
    /\ UNCHANGED <<pc, started, updated>>
    /\ CallFrame

(* The driver returns, or panics where a worker or the interceptor chain     *)
(* recovers it as an error.                                                 *)
return(r, i) ==
    /\ \E answer \in {"ok", "error", "refused"} : Move(r, i, "running", Returned(r, i, answer))
    /\ Release(r, i)
    /\ UNCHANGED <<pc, started, updated>>
    /\ CallFrame

(* The driver of an inline call panics and no interceptor is there: the      *)
(* panic leaves ExecuteBatch and what it had gathered is lost.              *)
panic(r, i) ==
    /\ Inline(r, i)
    /\ Move(r, i, "running", "error")
    /\ Goto(r, "wait", "panicked")
    /\ Release(r, i)
    /\ UNCHANGED <<started, updated>>
    /\ CallFrame

-----------------------------------------------------------------------------
(* The specification. *)

Ended(r) == pc[r] \in {"done", "panicked"}

(* The context of a dispatch ends. *)
cancel(r) ==
    /\ ~cancelled[r] /\ ~Ended(r)
    /\ cancelled' = [cancelled EXCEPT ![r] = TRUE]
    /\ UNCHANGED <<batch, pc, progress, slot, permits, started, updated, output>>

Dispatcher(r) ==
    nextGroup(r) \/ dispatch(r) \/ sendJob(r) \/ skipJobs(r) \/ joinGroup(r) \/ process(r)

Call(r, i) ==
    \/ execute(r, i) \/ acquire(r, i) \/ abandon(r, i) \/ intercept(r, i)
    \/ enterDriver(r, i) \/ return(r, i) \/ panic(r, i)

Terminated == (\A r \in Runs : Ended(r)) /\ UNCHANGED vars

Next ==
    \/ \E r \in Runs : Dispatcher(r) \/ cancel(r)
    \/ \E r \in Runs : \E i \in DOMAIN calls[r] : Call(r, i) \/ emit(r, i)
    \/ Terminated

Spec == Init /\ [][Next]_vars

Positions == UNION {DOMAIN load[r] : load \in Loads, r \in Runs}

(* The goroutine of ExecuteBatch and those of its calls run on; drivers and  *)
(* interceptors return.                                                     *)
Fairness ==
    \A r \in Runs :
        /\ WF_vars(Dispatcher(r))
        /\ \A i \in Positions : WF_vars(i \in DOMAIN calls[r] /\ Call(r, i))

FairSpec == Spec /\ Fairness

-----------------------------------------------------------------------------
(* Properties. *)

TypeOK ==
    /\ calls \in Loads
    /\ mode \in [Runs -> {"sequential", "parallel"}]
    /\ cancelled \in [Runs -> BOOLEAN]
    /\ pc \in [Runs -> PCs]
    /\ from \in [Runs -> Nat] /\ to \in [Runs -> Nat] /\ next \in [Runs -> Nat]
    /\ DOMAIN slot = Runs
    /\ \A r \in Runs : slot[r] \in [DOMAIN calls[r] -> Slots]
    /\ permits \in [Groups -> Nat]
    /\ \A r \in Runs : started[r] \subseteq DOMAIN calls[r] /\ updated[r] \subseteq DOMAIN calls[r]
    /\ \A r \in Runs : Range(results[r]) \subseteq DOMAIN calls[r]

(* ErrNotExecuted "proves the driver never started" (CallExecutionError): no *)
(* call reported so by the bus entered its driver, and a driver's own claim  *)
(* stands only if it has shown no sign of execution.                        *)
NotExecutedIsTrue ==
    \A r \in Runs : \A i \in DOMAIN calls[r] :
        /\ slot[r][i] = "notExecuted" => i \notin started[r]
        /\ slot[r][i] = "refused" => i \notin updated[r]

Holders(g) ==
    {c \in UNION {{r} \X DOMAIN calls[r] : r \in Runs} :
        /\ slot[c[1]][c[2]] \in {"ready", "running"}
        /\ LimiterKey(calls[c[1]][c[2]]) = g}

(* Permits are returned on every path and only by who took one, and no more  *)
(* calls than the limiter allows are under way in all the dispatches that    *)
(* share it.                                                                *)
LimitersExact ==
    \A g \in Groups : permits[g] = Cardinality(Holders(g)) /\ Cardinality(Holders(g)) <= Capacity(g)

(* A sequential call is a barrier: nothing of the batch starts behind it     *)
(* before it and all that precedes it have produced results.                *)
BarriersHold ==
    \A r \in Runs : \A i, j \in DOMAIN calls[r] :
        /\ i < j
        /\ Inline(r, i) \/ Inline(r, j)
        /\ j \in started[r]
        => slot[r][i] \in Succeeded

(* Every call of a finished batch is either among the results, in the order  *)
(* of the calls, or has an error of its own; none is in both or in neither.  *)
EveryCallAccounted ==
    \A r \in Runs : pc[r] \in {"process", "done"} =>
        /\ \A i \in DOMAIN calls[r] : slot[r][i] \in Succeeded \cup Failed
        /\ results[r] \in InOrder({i \in DOMAIN calls[r] : slot[r][i] \in Succeeded})

(* Every dispatch ends although its workers wait for permits that other      *)
(* dispatches hold.                                                         *)
EveryBatchEnds == \A r \in Runs : <>Ended(r)

=============================================================================
