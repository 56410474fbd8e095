--------------------------- MODULE InputDelivery ---------------------------
(***************************************************************************)
(* What agent.Control promises to the goroutines that call Send, Steer and  *)
(* FollowUp, with the queues, the locks and the engine loop left out.  An   *)
(* input is accepted at most once and while the handle is open, it is taken *)
(* into the execution's transcript, and its acknowledgement channel yields  *)
(* exactly one answer: delivered once the boundary observers accepted the   *)
(* transcript it entered, refused otherwise.  A run may end naturally only  *)
(* when nothing accepted is left unanswered; any other end, that imposed by  *)
(* a step decider included, refuses the rest.                               *)
(* Control.tla is shown to implement this module.                           *)
(***************************************************************************)
EXTENDS Naturals

CONSTANT MaxInputs    \* inputs accepted over the life of one handle

VARIABLES
    status,   \* status[i]: the i-th accepted input is none, queued, taken, delivered or refused
    open,     \* whether the handle accepts input
    phase     \* of the execution: new, running, complete, aborted or ended

vars == <<status, open, phase>>

Inputs == 1..MaxInputs

Unanswered == {i \in Inputs : status[i] \in {"queued", "taken"}}

Init ==
    /\ status = [i \in Inputs |-> "none"]
    /\ open = FALSE
    /\ phase = "new"

(* Move every input of S to status st. *)
Move(S, st) == status' = [i \in Inputs |-> IF i \in S THEN st ELSE status[i]]

Open ==
    /\ phase = "new"
    /\ phase' = "running"
    /\ open' = TRUE
    /\ UNCHANGED status

(* Inputs are numbered in the order in which they are accepted. *)
Accept(i) ==
    /\ open
    /\ phase # "ended"
    /\ status[i] = "none"
    /\ \A j \in Inputs : j < i => status[j] # "none"
    /\ Move({i}, "queued")
    /\ UNCHANGED <<open, phase>>

Take(S) ==
    /\ phase = "running"
    /\ \A i \in S : status[i] = "queued"
    /\ Move(S, "taken")
    /\ UNCHANGED <<open, phase>>

(* The boundary answers everything it has taken, all alike. *)
Answer(st) ==
    /\ phase = "running"
    /\ Move({i \in Inputs : status[i] = "taken"}, st)
    /\ UNCHANGED <<open, phase>>

Close ==
    /\ open
    /\ open' = FALSE
    /\ UNCHANGED <<status, phase>>

(* A natural end: closed, and every accepted input has had its answer. *)
Complete ==
    /\ phase = "running"
    /\ ~open
    /\ Unanswered = {}
    /\ phase' = "complete"
    /\ UNCHANGED <<status, open>>

Abort ==
    /\ phase = "running"
    /\ phase' = "aborted"
    /\ UNCHANGED <<status, open>>

End ==
    /\ phase \in {"complete", "aborted"}
    /\ phase' = "ended"
    /\ open' = FALSE
    /\ Move(Unanswered, "refused")

Next ==
    \/ Open
    \/ \E i \in Inputs : Accept(i)
    \/ \E S \in SUBSET Inputs : Take(S)
    \/ \E st \in {"delivered", "refused"} : Answer(st)
    \/ Close
    \/ Complete
    \/ Abort
    \/ End

Spec == Init /\ [][Next]_vars

=============================================================================
