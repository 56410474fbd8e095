----------------------------- MODULE EventStream -----------------------------
(***************************************************************************)
(* What provider.Stream promises (docs/adr/ADR-030): events, then exactly    *)
(* one terminal event, then the end of the stream; or an error before the    *)
(* terminal event.  A terminal event says that the response of the provider  *)
(* arrived whole, so a response that was cut can only end in an error.       *)
(***************************************************************************)
VARIABLES
    response,  \* the provider's: "open", "whole" or "broken"
    stream     \* what the reader has seen: "events", "terminal", "eof" or "error"

vars == <<response, stream>>

Init == response = "open" /\ stream = "events"

(* The last frame of the response arrives, or what arrives is no response.   *)
Arrive == response = "open" /\ response' \in {"whole", "broken"} /\ UNCHANGED stream

Terminate == response = "whole" /\ stream = "events" /\ stream' = "terminal" /\ UNCHANGED response

End == stream = "terminal" /\ stream' = "eof" /\ UNCHANGED response

(* A reader may learn of the break with the frame that breaks.               *)
Fail ==
    /\ stream = "events" /\ response # "whole"
    /\ response' = "broken" /\ stream' = "error"

Next == Arrive \/ Terminate \/ End \/ Fail

(* A reader that goes on reads to the end of what has arrived. *)
Spec ==
    /\ Init /\ [][Next]_vars
    /\ WF_vars(Terminate) /\ WF_vars(End) /\ WF_vars(Fail /\ response = "broken")

=============================================================================
