--------------------------- MODULE ToolCallAssembly ---------------------------
(***************************************************************************)
(* provider.NormalizeEvents (provider/conformance.go): the tool calls of a   *)
(* turn, put together from the events of its stream.  The code folds the     *)
(* list of events when the stream has ended; the fold is kept here as a      *)
(* value that each event updates.                                           *)
(*                                                                         *)
(* Call c has the ID c and the name c, so that a fragment, an ID or a name   *)
(* that lands on another call shows.  Its arguments are Frags[c] fragments   *)
(* of text, valid JSON only as a whole.                                     *)
(***************************************************************************)
EXTENDS Integers, SequencesExt

CONSTANT Frags  \* for each call of the response, the fragments of its arguments

ASSUME FragsAssumption == Frags \in Seq(Nat)

Calls == DOMAIN Frags

(* An ID, a name or an index that an event or a builder does not have. *)
None == 0
NoIndex == -1

Full(c) == [k \in 1..Frags[c] |-> [call |-> c, part |-> k]]
EmptyObject == << [call |-> None, part |-> 0] >>

(* json.Valid. *)
Valid(args) == args = EmptyObject \/ \E c \in Calls : Frags[c] > 0 /\ args = Full(c)

Event(kind, id, index, name, args) ==
    [kind |-> kind, id |-> id, index |-> index, name |-> name, args |-> args]
Plain(kind) == Event(kind, None, NoIndex, None, << >>)

(* A builder is named by its place in the order of arrival; idKeys and       *)
(* indexKeys are partial functions to that place.                           *)
NoBuilders == [i \in {} |-> None]
Start == [builders |-> << >>, idKeys |-> NoBuilders, indexKeys |-> NoBuilders,
          duplicate |-> FALSE, terminal |-> "none"]

Lookup(f, x) == IF x \in DOMAIN f THEN f[x] ELSE None
Bind(f, x, v) == [y \in DOMAIN f \cup {x} |-> IF y = x THEN v ELSE f[y]]

(* An ID and an index that name different builders, or a builder that has    *)
(* another of them already.                                                 *)
Conflict(a, id, index) ==
    LET byId == Lookup(a.idKeys, id)
        byIndex == Lookup(a.indexKeys, index)
    IN  /\ id # None /\ index # NoIndex
        /\ \/ byId # None /\ byIndex \notin {None, byId}
           \/ byId # None /\ a.builders[byId].index \notin {NoIndex, index}
           \/ byId = None /\ byIndex # None /\ a.builders[byIndex].id \notin {None, id}

(* Where ensureToolCallBuilder finds the builder, or makes it. *)
Place(a, id, index) ==
    LET byId == Lookup(a.idKeys, id)
        byIndex == Lookup(a.indexKeys, index)
    IN  IF byId # None THEN byId ELSE IF byIndex # None THEN byIndex ELSE Len(a.builders) + 1

ensureToolCallBuilder(a, id, index) ==
    LET at == Place(a, id, index)
        b == IF at > Len(a.builders)
             THEN [id |-> id, index |-> index, name |-> None, args |-> << >>,
                   full |-> FALSE, whole |-> FALSE, conflict |-> FALSE]
             ELSE a.builders[at]
        bad == Conflict(a, id, index)
        bound == IF bad THEN [b EXCEPT !.conflict = TRUE]
                 ELSE [b EXCEPT !.id = IF id # None THEN id ELSE @,
                                !.index = IF index # NoIndex THEN index ELSE @]
    IN  [a EXCEPT !.builders = IF at > Len(@) THEN Append(@, bound) ELSE [@ EXCEPT ![at] = bound],
                  !.idKeys = IF id # None /\ ~bad THEN Bind(@, id, at) ELSE @,
                  !.indexKeys = IF index # NoIndex /\ ~bad THEN Bind(@, index, at) ELSE @]

(* A complete call replaces what fragments have built; a second one for the  *)
(* same ID is an error.                                                     *)
applyToolCallEvent(a, e) ==
    LET at == Place(a, e.id, NoIndex)
        found == ensureToolCallBuilder(a, e.id, NoIndex)
        b == found.builders[at]
    IN  IF b.full THEN [found EXCEPT !.duplicate = TRUE]
        ELSE [found EXCEPT !.builders[at] =
                [b EXCEPT !.full = TRUE,
                          !.id = IF e.id # None THEN e.id ELSE @,
                          !.name = IF e.name # None THEN e.name ELSE @,
                          !.args = IF e.args # << >> THEN e.args ELSE @,
                          !.whole = e.args # << >>]]

applyToolCallDeltaEvent(a, e) ==
    LET at == Place(a, e.id, e.index)
        found == ensureToolCallBuilder(a, e.id, e.index)
        b == found.builders[at]
    IN  IF b.whole THEN found
        ELSE [found EXCEPT !.builders[at] =
                [b EXCEPT !.id = IF e.id # None THEN e.id ELSE @,
                          !.index = IF e.index # NoIndex THEN e.index ELSE @,
                          !.name = IF e.name # None THEN e.name ELSE @,
                          !.args = @ \o e.args]]

(* validateTerminalSequence: nothing follows the one terminal event. *)
Terminal(a, e) ==
    IF a.terminal # "none" THEN "broken"
    ELSE IF e.kind \in {"done", "error"} THEN e.kind ELSE "none"

Apply(a, e) ==
    LET b == CASE e.kind = "call" -> applyToolCallEvent(a, e)
               [] e.kind = "delta" -> applyToolCallDeltaEvent(a, e)
               [] OTHER -> a
    IN  [b EXCEPT !.terminal = Terminal(a, e)]

Called(b) == [id |-> b.id, name |-> b.name, args |-> b.args]

Unidentified(a) == \E i \in DOMAIN a.builders : a.builders[i].conflict \/ a.builders[i].id = None
Malformed(a) ==
    \E i \in DOMAIN a.builders : a.builders[i].args # << >> /\ ~Valid(a.builders[i].args)

(* NormalizeEvents and applyNormalized at the end of a stream, with          *)
(* markIncompleteResponse (agent/response_recovery.go): a response that was  *)
(* cut, or whose arguments are no JSON, keeps no call.                      *)
Outcome(a) == IF a.duplicate \/ a.terminal # "done" \/ Unidentified(a) THEN "failed" ELSE "ok"

ToolCalls(a, stop) ==
    IF Outcome(a) = "failed" \/ Malformed(a) \/ stop = "length" THEN << >>
    ELSE [i \in DOMAIN a.builders |-> Called(a.builders[i])]

=============================================================================
