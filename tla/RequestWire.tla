------------------------------ MODULE RequestWire ------------------------------
(***************************************************************************)
(* What a provider is sent for a transcript: toChatMessages                  *)
(* (provider/openai/stream.go), toResponsesInput (provider/openai/           *)
(* responses.go) and toAnthropicRequest (provider/anthropic/stream.go).      *)
(*                                                                         *)
(* A run may be answered by one provider and continued by another, so every  *)
(* conversion meets turns that carry another provider's replay state.        *)
(* Parameters, tools, names and the bytes of a content are left out.         *)
(***************************************************************************)
EXTENDS Integers, SequencesExt

Providers == {"chat", "responses", "anthropic"}

-----------------------------------------------------------------------------
(* Messages.  Those a run records have an identity, in order; the framework's *)
(* own (the prefix, the skill context, summaries) have none.  shows: skills   *)
(* whose instructions, of a version, the message carries.  covers: identities *)
(* a summary was made from.  state: ProviderState, the payload its provider   *)
(* wants back verbatim, and the tool calls in it.                            *)

NoState == [form |-> "none", of |-> "none", calls |-> 0]

Message(kind, id) ==
    [kind |-> kind, id |-> id, shows |-> {}, covers |-> {}, calls |-> 0,
     archived |-> FALSE, cached |-> FALSE, trimmed |-> FALSE, state |-> NoState]

SystemKinds == {"system", "skills"}
ResultKinds == {"result", "failure", "activation"}
AssistantKinds == {"answer", "calls", "cut"}

Role(m) ==
    CASE m.kind \in SystemKinds    -> "system"
      [] m.kind \in ResultKinds    -> "tool"
      [] m.kind \in AssistantKinds -> "assistant"
      [] OTHER                     -> "user"

ContextView(history) == SelectSeq(history, LAMBDA m : ~m.archived)

(* ProviderState of a finished turn: an array of output items, an object that *)
(* holds content blocks, nothing from the chat endpoint.                     *)
ProviderState(provider, calls) ==
    CASE provider = "chat"      -> NoState
      [] provider = "responses" -> [form |-> "array", of |-> "items", calls |-> calls]
      [] provider = "anthropic" -> [form |-> "object", of |-> "blocks", calls |-> calls]

-----------------------------------------------------------------------------
(* Content.  A part is inline (with its media type), a reference, or neither. *)

Part(kind, source) == [kind |-> kind, source |-> source]
Text == Part("text", "inline")
Media == {Part(kind, source) : kind \in {"image", "audio", "file"},
                               source \in {"inline", "uri", "neither"}}

(* Every role is given parts of every kind it may meet.                      *)
Roles == {"system", "user", "assistant", "tool"}

CanonicalContent(role) ==
    {Text} \cup CASE role = "system"    -> {}
                  [] role = "assistant" -> {Part("reasoning", "inline")}
                  [] OTHER              -> Media

contentPartURL(part) == part.source # "neither"
chatFilePart(part) == part.source # "neither"

(* OpenAI takes media from users only, and no reasoning as content.          *)
responsesContentBlock(part, role) ==
    \/ part.kind = "text"
    \/ role = "user" /\ part.kind = "image" /\ contentPartURL(part)
    \/ role = "user" /\ part.kind = "audio" /\ part.source = "inline"
    \/ role = "user" /\ part.kind = "file" /\ chatFilePart(part)

responsesMessageContent[role \in Roles] ==
    {p \in CanonicalContent(role) : responsesContentBlock(p, role)}

(* The chat endpoint has a field of its own for reasoning.                   *)
chatMessageContent[role \in Roles] ==
    responsesMessageContent[role]
        \cup {p \in CanonicalContent(role) : role = "assistant" /\ p.kind = "reasoning"}

anthropicSource(part) == part.source # "neither"

anthropicInputBlocks[role \in Roles] ==
    {p \in CanonicalContent(role) :
        p.kind = "text" \/ (p.kind \in {"image", "file"} /\ anthropicSource(p))}

-----------------------------------------------------------------------------
(* An item of a request.  ids: the messages it stands for.  dropped: calls it *)
(* carries that the transcript no longer holds.  marked: a cache breakpoint.  *)

Item(role, m, parts) ==
    [role |-> role, ids |-> {m.id}, shows |-> m.shows, parts |-> parts,
     calls |-> 0, dropped |-> 0, answers |-> 0, marked |-> m.cached]

(* Replayed for content and calls, whatever the transcript says of the turn; *)
(* only calls in the provider's own form are calls to it.                    *)
Replayed(m, form) ==
    LET calls == IF m.state.of = form THEN m.state.calls ELSE 0
    IN  [Item("assistant", m, {}) EXCEPT
            !.calls = calls, !.dropped = IF m.calls = 0 THEN calls ELSE 0, !.marked = FALSE]

toChatMessage(m) ==
    [Item(Role(m), m, chatMessageContent[Role(m)]) EXCEPT
        !.calls = m.calls, !.answers = IF Role(m) = "tool" THEN 1 ELSE 0]

toChatMessages(messages) ==
    LET view == ContextView(messages) IN [i \in DOMAIN view |-> toChatMessage(view[i])]

(* Responses: a call is an item of its own, and so is its output.            *)
decodeResponsesProviderState(state) == state.form = "array"

appendResponsesAssistantInput(m) ==
    IF decodeResponsesProviderState(m.state) THEN <<Replayed(m, "items")>>
    ELSE <<Item("assistant", m, responsesMessageContent["assistant"])>>
         \o [i \in 1..m.calls |-> [Item("call", m, {}) EXCEPT !.calls = 1, !.marked = FALSE]]

appendResponsesToolOutput(m) ==
    [Item("output", m, responsesMessageContent["tool"]) EXCEPT !.answers = 1]

toResponsesInput(messages) ==
    LET items(m) ==
            CASE Role(m) = "assistant" -> appendResponsesAssistantInput(m)
              [] Role(m) = "tool"      -> <<appendResponsesToolOutput(m)>>
              [] OTHER -> <<Item(Role(m), m, responsesMessageContent[Role(m)])>>
    IN  FoldLeft(LAMBDA wire, m : wire \o items(m), << >>, ContextView(messages))

(* Anthropic: another provider's array decodes too, but into block types this *)
(* driver never produced.                                                   *)
(* Mutant: whatever decodes is replayed.                                     *)
decodeAnthropicProviderState_Unchecked(state) == state.form \in {"array", "object"}

decodeAnthropicProviderState(state) ==
    state.form \in {"array", "object"} /\ state.of = "blocks"

assistantBlocks(m) ==
    IF decodeAnthropicProviderState(m.state) THEN Replayed(m, "blocks")
    ELSE [Item("assistant", m, CanonicalContent("assistant")) EXCEPT
             !.calls = m.calls, !.marked = m.cached /\ m.state = NoState]

toolResultBlock(m) ==
    [Item("user", m, anthropicInputBlocks["tool"]) EXCEPT !.answers = 1]

Merged(item, block) ==
    [item EXCEPT !.ids = @ \cup block.ids, !.shows = @ \cup block.shows,
                 !.parts = @ \cup block.parts, !.answers = @ + block.answers,
                 !.marked = @ \/ block.marked]

(* The system messages leave the dialog for a field of their own; the results *)
(* of a turn are one user message, closed by whatever follows them.          *)
toAnthropicRequest(messages) ==
    LET flush(r) == IF r.pending = << >> THEN r
                    ELSE [r EXCEPT !.items = Append(@, FoldLeft(Merged, r.pending[1], Tail(r.pending))),
                                   !.pending = << >>]
        add(r, m) ==
            CASE Role(m) = "system" -> [flush(r) EXCEPT !.system = Append(@, Item("system", m, {Text}))]
              [] Role(m) = "tool" -> [r EXCEPT !.pending = Append(@, toolResultBlock(m))]
              [] Role(m) = "assistant" -> [flush(r) EXCEPT !.items = Append(@, assistantBlocks(m))]
              [] OTHER -> [flush(r) EXCEPT !.items = Append(@, Item("user", m, anthropicInputBlocks["user"]))]
        done == flush(FoldLeft(add, [system |-> << >>, items |-> << >>, pending |-> << >>],
                               ContextView(messages)))
    IN  done.system \o done.items

Wire(provider, messages) ==
    CASE provider = "chat"      -> toChatMessages(messages)
      [] provider = "responses" -> toResponsesInput(messages)
      [] provider = "anthropic" -> toAnthropicRequest(messages)

-----------------------------------------------------------------------------
(* What the providers ask of a request: results right behind their calls, one *)
(* for each, and in Anthropic's dialog all of them in the next message.  Calls*)
(* the transcript no longer holds are not counted.                           *)
CallsAnswered(wire) ==
    LET owed[i \in 0..Len(wire)] ==
            IF i = 0 THEN 0
            ELSE IF wire[i].answers > 0
                 THEN IF wire[i].role = "user" /\ wire[i].answers # owed[i - 1] THEN -1
                      ELSE owed[i - 1] - wire[i].answers
            ELSE IF owed[i - 1] # 0 /\ wire[i].role # "call" THEN -1
            ELSE owed[i - 1] + wire[i].calls - wire[i].dropped
    IN  (\A i \in DOMAIN wire : owed[i] >= 0) /\ owed[Len(wire)] = 0

(* The part of a request up to its last breakpoint.                          *)
CachedPart(wire) ==
    LET marks == {i \in DOMAIN wire : wire[i].marked}
    IN  IF marks = {} THEN << >> ELSE SubSeq(wire, 1, Max(marks))

=============================================================================
