---------------------------- MODULE TokenTracker ----------------------------
(***************************************************************************)
(* agentToolTokenTracker (agent/agent_tool.go): how the child agents that   *)
(* one model turn calls as tools share what is left of the parent's token   *)
(* budget.  Each child runs on a goroutine of its own; it reserves a claim, *)
(* runs with the claim as its MaxTokens and settles.  A child that finds    *)
(* nothing left waits on the tracker's notification channel while others    *)
(* hold claims.  Every settlement replaces the channel under the lock and   *)
(* closes the old one after it, so channels are numbered here.              *)
(***************************************************************************)
EXTENDS Integers, FiniteSetsExt

CONSTANTS
    Dispatches,  \* the batches of child calls that reach this tracker
    Total,       \* parent tokens left when the tracker is built
    Requests,    \* the children's own MaxTokens; 0 is none
    MaxUsage     \* what one child may report at most, its claim or more

Children == UNION Dispatches

ASSUME TrackerAssumption ==
    /\ IsFiniteSet(Children)
    /\ \A d \in Dispatches : d # {} /\ IsFiniteSet(d)
    /\ Total \in Nat
    /\ Requests \subseteq Nat
    /\ MaxUsage \in Nat

VARIABLES
    remaining,   \* tracker.remaining
    active,      \* tracker.active
    notify,      \* tracker.notify: the number of the current channel
    closed,      \* the channels that have been closed
    batchSize,   \* tracker.batchSize
    batchShare,  \* tracker.batchShare
    prepared,    \* the dispatches that have called prepareBatch
    ctxDone,     \* the dispatch context has ended
    request,     \* per child: its own MaxTokens
    state,       \* per child: where its goroutine is
    claim,       \* per child: reservation.claim
    channel,     \* per child: the channel it waits on or is about to close
    usage        \* per child: the usage it settled with

tracker == <<remaining, active, notify, batchSize, batchShare>>
vars == <<tracker, closed, prepared, ctxDone, request, state, claim, channel, usage>>

States == {"new", "locking", "waiting", "running", "closing", "done", "exhausted", "cancelled"}
Ended == {"done", "exhausted", "cancelled"}

Init ==
    /\ remaining = Total
    /\ active = 0
    /\ notify = 0
    /\ closed = {}
    /\ batchSize = 0
    /\ batchShare = 0
    /\ prepared = {}
    /\ ctxDone = FALSE
    /\ request \in [Children -> Requests]
    /\ state = [c \in Children |-> "new"]
    /\ claim = [c \in Children |-> 0]
    /\ channel = [c \in Children |-> 0]
    /\ usage = [c \in Children |-> 0]

Goto(c, from, to) == state[c] = from /\ state' = [state EXCEPT ![c] = to]

-----------------------------------------------------------------------------

Share(size) == (remaining + size - 1) \div size

(* prepareBatch, called once by each dispatch before its calls execute: the  *)
(* largest batch so far fixes the share.                                    *)
prepareBatch(d) ==
    /\ d \notin prepared
    /\ prepared' = prepared \cup {d}
    /\ IF Cardinality(d) > batchSize
       THEN batchSize' = Cardinality(d) /\ batchShare' = Share(Cardinality(d))
       ELSE UNCHANGED <<batchSize, batchShare>>
    /\ UNCHANGED <<remaining, active, notify, closed, ctxDone, request, state, claim, channel, usage>>

(* One turn of reserve's loop begins with a look at the context. *)
enter(c) ==
    /\ \E d \in prepared : c \in d
    /\ IF ctxDone THEN Goto(c, "new", "cancelled") ELSE Goto(c, "new", "locking")
    /\ UNCHANGED <<tracker, closed, prepared, ctxDone, request, claim, channel, usage>>

(* What reserve grants: all that is left, at most the batch's share, at most *)
(* what the child asks for.                                                 *)
Claim(c) ==
    Min({remaining}
        \cup {n \in {batchShare} : n > 0}
        \cup {n \in {request[c]} : n > 0})

(* Mutant: claims that others hold and may return do not count. *)
Exhausted_NothingLeft == remaining <= 0

(* Mutant: waits even when nobody is left to return anything. *)
Exhausted_Never == FALSE

(* Nothing is left and nobody can give anything back. *)
Exhausted == remaining <= 0 /\ active = 0

(* reserve, the critical section. *)
reserve(c) ==
    /\ \/ /\ remaining > 0
          /\ Goto(c, "locking", "running")
          /\ claim' = [claim EXCEPT ![c] = Claim(c)]
          /\ remaining' = remaining - Claim(c)
          /\ active' = active + 1
          /\ UNCHANGED channel
       \/ /\ Exhausted
          /\ Goto(c, "locking", "exhausted")
          /\ UNCHANGED <<remaining, active, claim, channel>>
       \/ /\ remaining <= 0 /\ ~Exhausted
          /\ Goto(c, "locking", "waiting")
          /\ channel' = [channel EXCEPT ![c] = notify]
          /\ UNCHANGED <<remaining, active, claim>>
    /\ UNCHANGED <<notify, closed, batchSize, batchShare, prepared, ctxDone, request, usage>>

(* The select of a waiting child: its channel is closed, or the context ends. *)
wake(c) ==
    /\ \/ channel[c] \in closed /\ Goto(c, "waiting", "new")
       \/ ctxDone /\ Goto(c, "waiting", "cancelled")
    /\ UNCHANGED <<tracker, closed, prepared, ctxDone, request, claim, channel, usage>>

(* Mutant: charges what the child reports, even beyond its claim. *)
Spent_Unclamped(c, u) == u

Spent(c, u) == Min({claim[c], u})

(* The child run is over: settle once, with the usage it reports or, when it *)
(* never ran or panicked, with none.  The channel is replaced here.         *)
settle(c, u) ==
    /\ Goto(c, "running", "closing")
    /\ usage' = [usage EXCEPT ![c] = u]
    /\ remaining' = remaining + (claim[c] - Spent(c, u))
    /\ active' = active - 1
    /\ channel' = [channel EXCEPT ![c] = notify]
    /\ notify' = notify + 1
    /\ UNCHANGED <<closed, batchSize, batchShare, prepared, ctxDone, request, claim>>

(* Mutant: nobody is told. *)
closeNotify_Silent(c) ==
    /\ Goto(c, "closing", "done")
    /\ UNCHANGED <<tracker, closed, prepared, ctxDone, request, claim, channel, usage>>

(* settle closes the channel it replaced, outside the lock. *)
closeNotify(c) ==
    /\ Goto(c, "closing", "done")
    /\ closed' = closed \cup {channel[c]}
    /\ UNCHANGED <<tracker, prepared, ctxDone, request, claim, channel, usage>>

(* The dispatch context ends: a deadline, a cancellation, a failed sibling. *)
cancelDispatch ==
    /\ ~ctxDone
    /\ ctxDone' = TRUE
    /\ UNCHANGED <<tracker, closed, prepared, request, state, claim, channel, usage>>

Run(c) ==
    \/ enter(c) \/ reserve(c) \/ wake(c) \/ closeNotify(c)
    \/ \E u \in 0..MaxUsage : settle(c, u)

(* The batch has returned. *)
Terminated == (\A c \in Children : state[c] \in Ended) /\ UNCHANGED vars

Next ==
    \/ \E d \in Dispatches : prepareBatch(d)
    \/ \E c \in Children : Run(c)
    \/ cancelDispatch
    \/ Terminated

Spec == Init /\ [][Next]_vars

(* Dispatches are started and their goroutines are scheduled; child runs end *)
(* (their own budget, timeouts and iteration limit bound them).             *)
Fairness ==
    /\ \A d \in Dispatches : WF_vars(prepareBatch(d))
    /\ \A c \in Children : WF_vars(Run(c))

FairSpec == Spec /\ Fairness

-----------------------------------------------------------------------------
(* Properties. *)

Holding == {c \in Children : state[c] = "running"}
Settled == {c \in Children : state[c] \in {"closing", "done"}}

(* The tracker never goes below zero, and the counters keep their types. *)
TypeOK ==
    /\ remaining \in Nat
    /\ active \in Nat
    /\ notify \in Nat
    /\ closed \subseteq Nat
    /\ batchSize \in Nat /\ batchShare \in Nat
    /\ prepared \subseteq Dispatches
    /\ ctxDone \in BOOLEAN
    /\ request \in [Children -> Requests]
    /\ state \in [Children -> States]
    /\ claim \in [Children -> Nat]
    /\ channel \in [Children -> Nat]
    /\ usage \in [Children -> Nat]

(* Tokens are conserved over every interleaving of reserve and settle: what  *)
(* is left, what is held and what was really charged (a child is charged at  *)
(* most its claim) make up the parent's allowance.                          *)
TokensConserved ==
    Total = remaining + MapThenSumSet(LAMBDA c : claim[c], Holding)
                      + MapThenSumSet(LAMBDA c : IF usage[c] < claim[c] THEN usage[c] ELSE claim[c],
                                      Settled)

(* While one batch is known, no child of it holds more than its part of the  *)
(* allowance rounded up: the first ones leave something for the others.     *)
ShareIsCeiling ==
    \A d \in Dispatches : prepared = {d} =>
        \A c \in d : claim[c] * Cardinality(d) < Total + Cardinality(d)

(* A child never runs without a limit: Budget.MaxTokens = 0 means unlimited, *)
(* so a claim is positive, and it respects the child's own limit.           *)
ClaimsBounded ==
    \A c \in Holding : claim[c] > 0 /\ (request[c] > 0 => claim[c] <= request[c])

(* Tokens are neither lost nor made, nor handed out beyond a child's part or *)
(* as a claim that would mean no limit (agent_tool.go:641).                  *)
AllowanceHeld == TokensConserved /\ ShareIsCeiling /\ ClaimsBounded

(* tracker.active counts the claims that are out: reserve and settle pair    *)
(* up on every path of Execute.                                             *)
ActiveCounts == active = Cardinality(Holding)

(* No wake-up is lost between the unlock and the select: whoever waits does  *)
(* so on the current channel, while a claim is still out, or on a channel    *)
(* that is closed or about to be closed by the child that replaced it.      *)
NoLostWakeup ==
    \A c \in Children : state[c] = "waiting" =>
        \/ channel[c] \in closed
        \/ \E s \in Children : state[s] = "closing" /\ channel[s] = channel[c]
        \/ channel[c] = notify /\ Holding # {}

(* A child is refused for exhaustion only when the parent's allowance is     *)
(* gone for good: nothing is left, and no claim is out that could return.    *)
RefusedOnlyWhenSpent ==
    (\E c \in Children : state[c] = "exhausted") => remaining = 0 /\ Holding = {}

(* Every call of a child agent ends, whoever it had to wait for. *)
EveryCallEnds == \A c \in Children : <>(state[c] \in Ended)

=============================================================================
