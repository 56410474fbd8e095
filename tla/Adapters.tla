------------------------------ MODULE Adapters ------------------------------
(***************************************************************************)
(* The three adapters that turn the frames of a provider's HTTP response     *)
(* into provider events: Chat Completions (provider/openai/stream.go),       *)
(* Responses (provider/openai/responses.go) and Anthropic Messages           *)
(* (provider/anthropic/stream.go), read by a consumer that assembles the     *)
(* tool calls of the turn from the events (ToolCallAssembly).                *)
(*                                                                         *)
(* The provider sends one frame at a time; the response may be cut at any    *)
(* frame, or in the middle of one, and may hold a frame that is no JSON or   *)
(* exceeds a limit.  The adapter reads a frame only when it has handed out   *)
(* the events of the one before.  Call c is the c-th of the response.        *)
(***************************************************************************)
EXTENDS ToolCallAssembly

CONSTANTS
    Modes,       \* the adapter, how the provider names its calls, CompleteToolCalls
    MaxContent   \* tokens of text in a response of style "text"

VARIABLES
    mode,       \* one of Modes
    wire,       \* what the provider has sent
    conn,       \* the state of the adapter's stream
    assembly,   \* what the events say of the tool calls
    said,       \* the text and the thinking of the events
    consumer    \* "reading", "eof" or "failed"

streamVars == <<mode, wire, conn, assembly, said, consumer>>

Adapter(a) == mode.adapter = a

(* A tool call or a block, as the adapter keeps it. *)
Blank == [id |-> None, name |-> None, args |-> << >>]

StreamInit ==
    /\ mode \in Modes
    /\ wire = [sent |-> [c \in Calls |-> 0], begun |-> {}, ids |-> {}, names |-> {},
               over |-> {}, content |-> << >>, phase |-> "open"]
    /\ conn = [slots |-> [i \in {} |-> Blank], byId |-> NoBuilders, last |-> NoIndex, emitted |-> {},
               inThink |-> FALSE, buffer |-> << >>, stop |-> "unknown",
               pending |-> << >>, finished |-> FALSE, truncated |-> FALSE]
    /\ assembly = Start /\ said = [text |-> << >>, thinking |-> << >>]
    /\ consumer = "reading"

-----------------------------------------------------------------------------
(* What a provider may send: its calls in order, each told its ID and its    *)
(* name once, with fragments of its arguments in between.                    *)

Whole(c) ==
    /\ c \in wire.ids \cap wire.names /\ wire.sent[c] = Frags[c]
    /\ Adapter("chat") \/ c \in wire.over
AllWhole == \A c \in wire.begun : Whole(c)

(* One call at a time, or several interleaved. *)
Serial == mode.style \notin {"indexed", "byId", "parallel"}
Begins(c) == c = Cardinality(wire.begun) + 1 /\ (Serial => AllWhole)
MaySend(c) == c \in wire.begun \/ Begins(c)

NextFragment(c) ==
    IF wire.sent[c] < Frags[c] THEN << [call |-> c, part |-> wire.sent[c] + 1] >> ELSE << >>

(* The wire after a frame of call c that carries id, name and args. *)
Sent(c, id, name, args) ==
    [wire EXCEPT !.begun = @ \cup {c}, !.sent[c] = @ + Len(args),
                 !.ids = IF id = None THEN @ ELSE @ \cup {c},
                 !.names = IF name = None THEN @ ELSE @ \cup {c}]

(* The adapter reads the next frame. *)
Reading ==
    /\ consumer = "reading" /\ wire.phase \in {"open", "stopping"}
    /\ conn.pending = << >> /\ ~conn.finished /\ ~conn.truncated
OpenResponse == Reading /\ wire.phase = "open"

Held(i) == IF i \in DOMAIN conn.slots THEN conn.slots[i] ELSE Blank

Merged(held, id, name, args) ==
    [id |-> IF id = None THEN held.id ELSE id,
     name |-> IF name = None THEN held.name ELSE name,
     args |-> held.args \o args]

CallEvent(i) == Event("call", conn.slots[i].id, NoIndex, conn.slots[i].name, conn.slots[i].args)

unread == <<mode, assembly, said, consumer>>

-----------------------------------------------------------------------------
(* Chat Completions. *)

(* An item of a chunk.  Some providers give every item an index, some only   *)
(* an ID, some neither once a call has begun.                               *)
ChatItems(c) ==
    LET first == c \notin wire.begun
        args == NextFragment(c)
        untold(told) == IF c \in told THEN {None} ELSE {None, c}
        ids == CASE mode.style = "indexed" -> IF first THEN {c} ELSE {None}
                 [] mode.style = "byId" -> {c}
                 [] OTHER -> untold(wire.ids)
        names == IF mode.style # "inOrder" THEN IF first THEN {c} ELSE {None} ELSE untold(wire.names)
        index == IF mode.style = "indexed" THEN c - 1 ELSE NoIndex
    IN  {Event("delta", id, index, name, args) : id \in ids, name \in names}

(* An item tells something; the first of a call without an index tells who.  *)
Tells(c, item) ==
    /\ item.args # << >> \/ (item.id # None /\ c \notin wire.ids) \/ (item.name # None /\ c \notin wire.names)
    /\ c \notin wire.begun => item.id # None \/ item.name # None

Fresh == Min((0..Cardinality(DOMAIN conn.slots)) \ DOMAIN conn.slots)

(* Mutant: a name always goes to the call that came last. *)
Continues_AnyName(item) ==
    /\ conn.last # NoIndex
    /\ item.id # None => Held(conn.last).id = None

(* An item that has no index and no known ID goes on with the last call,     *)
(* unless that call has already what the item brings.                       *)
Continues(item) ==
    /\ conn.last # NoIndex
    /\ item.id # None => Held(conn.last).id = None
    /\ item.name # None => Held(conn.last).name = None

resolveToolCallIndex(item) ==
    CASE item.index # NoIndex -> item.index
      [] item.index = NoIndex /\ item.id \in DOMAIN conn.byId -> conn.byId[item.id]
      [] OTHER -> IF Continues(item) THEN conn.last ELSE Fresh

(* consumeChunk and processChoiceDelta for an item of call c; the event has  *)
(* the index the adapter found.                                             *)
chatChunk(c, item) ==
    LET i == resolveToolCallIndex(item)
    IN  /\ wire' = Sent(c, item.id, item.name, item.args)
        /\ conn' = [conn EXCEPT
              !.slots = [j \in DOMAIN @ \cup {i} |->
                            IF j = i THEN Merged(Held(i), item.id, item.name, item.args) ELSE @[j]],
              !.byId = IF item.id = None THEN @ ELSE Bind(@, item.id, i),
              !.last = i,
              !.pending = << [item EXCEPT !.index = i] >>]

chatItem(c) ==
    /\ OpenResponse /\ Adapter("chat") /\ mode.style # "text" /\ MaySend(c)
    /\ \E item \in ChatItems(c) : Tells(c, item) /\ chatChunk(c, item)
    /\ UNCHANGED unread

Completable(held) == held.id # None /\ held.name # None /\ Valid(held.args)

Unemitted == {i \in DOMAIN conn.slots : i \notin conn.emitted /\ Completable(conn.slots[i])}

(* A choice with a finish_reason; emitCompleteToolCalls announces the calls  *)
(* in the order of their indexes.                                           *)
chatFinish(reason) ==
    LET complete == IF reason = "tool_calls" /\ mode.complete THEN Unemitted ELSE {}
    IN  /\ OpenResponse /\ Adapter("chat")
        /\ reason = "tool_calls" => wire.begun # {} /\ AllWhole
        /\ reason = "stop" => wire.begun = {}
        /\ wire' = [wire EXCEPT !.phase = "stopping"]
        /\ conn' = [conn EXCEPT
              !.stop = reason, !.emitted = @ \cup complete,
              !.pending = [k \in 1..Cardinality(complete) |-> CallEvent(SetToSortSeq(complete, <)[k])]]
        /\ UNCHANGED unread

(* thinkSplitter, with the tags <think> and </think> as tokens of text.      *)
ThinkOpen == << "<", "think>" >>
ThinkClose == << "<", "/", "think>" >>
Tokens == {"<", "/", "think>", "a"}

Said(kind, out) == IF out = << >> THEN << >> ELSE << [Plain(kind) EXCEPT !.args = out] >>

(* All but the longest end of s that begins target. *)
safeEmitLen(s, target) ==
    Len(s) - Max({0} \cup {k \in 1..Min({Len(target) - 1, Len(s)}) :
                              SubSeq(s, Len(s) - k + 1, Len(s)) = SubSeq(target, 1, k)})

thinkSplitter ==
    [inThink : BOOLEAN, buffer : Seq(Tokens), text : Seq(Tokens), thinking : Seq(Tokens)]

process[s \in thinkSplitter] ==
    LET tag == IF s.inThink THEN ThinkClose ELSE ThinkOpen
        found == {i \in 0..(Len(s.buffer) - Len(tag)) : SubSeq(s.buffer, i + 1, i + Len(tag)) = tag}
        upto == IF found = {} THEN safeEmitLen(s.buffer, tag) ELSE Min(found)
        out == SubSeq(s.buffer, 1, upto)
        rest == [s EXCEPT !.buffer = SubSeq(@, upto + 1, Len(@)),
                          !.text = IF s.inThink THEN @ ELSE @ \o out,
                          !.thinking = IF s.inThink THEN @ \o out ELSE @]
    IN  IF found = {} THEN rest
        ELSE process[[rest EXCEPT !.buffer = SubSeq(@, Len(tag) + 1, Len(@)), !.inThink = ~@]]

Split(inThink, content) ==
    process[[inThink |-> inThink, buffer |-> content, text |-> << >>, thinking |-> << >>]]

chatContent(delta) ==
    LET s == Split(conn.inThink, conn.buffer \o delta)
    IN  /\ OpenResponse /\ mode.style = "text" /\ Len(wire.content) + Len(delta) <= MaxContent
        /\ wire' = [wire EXCEPT !.content = @ \o delta]
        /\ conn' = [conn EXCEPT !.inThink = s.inThink, !.buffer = s.buffer,
                                !.pending = Said("thinking", s.thinking) \o Said("text", s.text)]
        /\ UNCHANGED unread

(* handleDoneMarker flushes what the splitter still holds. *)
chatDone ==
    /\ Reading /\ wire.phase = "stopping" /\ Adapter("chat")
    /\ wire' = [wire EXCEPT !.phase = "whole"]
    /\ conn' = [conn EXCEPT
          !.finished = TRUE, !.buffer = << >>,
          !.pending = Said(IF conn.inThink THEN "thinking" ELSE "text", conn.buffer)
                          \o << Plain("done") >>]
    /\ UNCHANGED unread

-----------------------------------------------------------------------------
(* Anthropic Messages.  A block is a call; the last frame of a cut response  *)
(* may be whole but not terminated, and is then used, except a terminal one. *)

CutHere(cut) == IF cut THEN "cut" ELSE wire.phase

(* recordContentBlockStart: startBlock keeps the input of a delta that came  *)
(* before the start.                                                        *)
blockStart(c, cut) ==
    /\ OpenResponse /\ Adapter("anthropic")
    /\ Begins(c) \/ (c \in wire.begun /\ c \notin wire.ids)
    /\ wire' = [Sent(c, c, c, << >>) EXCEPT !.phase = CutHere(cut)]
    /\ LET held == Held(c - 1)
           input == IF held.args = << >> THEN EmptyObject ELSE held.args
       IN  conn' = [conn EXCEPT
             !.slots = Bind(@, c - 1, [id |-> c, name |-> c, args |-> input]),
             !.pending = << Event("delta", c, c - 1, c, << >>) >>, !.truncated = cut]
    /\ UNCHANGED unread

(* recordContentBlockDelta: the {} a block starts with gives way to its       *)
(* fragments, the first of which may be blank.                              *)
blockDelta(c, fragment, cut) ==
    /\ OpenResponse /\ Adapter("anthropic") /\ c \notin wire.over
    /\ c \in wire.begun \/ (mode.style = "late" /\ Begins(c))
    /\ fragment = << >> => wire.sent[c] = 0
    /\ wire' = [Sent(c, None, None, fragment) EXCEPT !.phase = CutHere(cut)]
    /\ LET held == Held(c - 1)
           input == IF held.args = EmptyObject THEN << >> ELSE held.args
       IN  conn' = [conn EXCEPT
             !.slots = Bind(@, c - 1, [held EXCEPT !.args = input \o fragment]),
             !.pending = << Event("delta", held.id, c - 1, held.name, fragment) >>, !.truncated = cut]
    /\ UNCHANGED unread

(* emitCompleteToolCall. *)
blockStop(c, cut) ==
    /\ OpenResponse /\ Adapter("anthropic")
    /\ c \in wire.ids \ wire.over /\ wire.sent[c] = Frags[c]
    /\ wire' = [wire EXCEPT !.over = @ \cup {c}, !.phase = CutHere(cut)]
    /\ conn' = [conn EXCEPT
          !.emitted = IF mode.complete /\ c - 1 \in Unemitted THEN @ \cup {c - 1} ELSE @,
          !.pending = IF mode.complete /\ c - 1 \in Unemitted THEN << CallEvent(c - 1) >> ELSE << >>,
          !.truncated = cut]
    /\ UNCHANGED unread

messageDelta(reason, cut) ==
    /\ OpenResponse /\ Adapter("anthropic")
    /\ reason = "tool_calls" => wire.begun # {} /\ AllWhole
    /\ reason = "stop" => wire.begun = {}
    /\ wire' = [wire EXCEPT !.phase = IF cut THEN "cut" ELSE "stopping"]
    /\ conn' = [conn EXCEPT !.stop = reason, !.truncated = cut]
    /\ UNCHANGED unread

(* Mutant: a terminal frame that is not terminated is taken as it is. *)
Trusted_Always(cut) == TRUE

Trusted(cut) == ~cut

messageStop(cut) ==
    /\ Reading /\ wire.phase = "stopping" /\ Adapter("anthropic")
    /\ wire' = [wire EXCEPT !.phase = IF cut THEN "cut" ELSE "whole"]
    /\ conn' = [conn EXCEPT !.finished = TRUE,
                            !.pending = IF Trusted(cut) THEN << Plain("done") >> ELSE << >>]
    /\ consumer' = IF Trusted(cut) THEN consumer ELSE "failed"
    /\ UNCHANGED <<mode, assembly, said>>

(* The error kept back while the events of a cut frame were handed out.      *)
truncationShows ==
    /\ consumer = "reading" /\ conn.truncated /\ conn.pending = << >>
    /\ consumer' = "failed"
    /\ UNCHANGED <<mode, wire, conn, assembly, said>>

-----------------------------------------------------------------------------
(* OpenAI Responses. *)

outputItemAdded(c, known) ==
    /\ OpenResponse /\ Adapter("responses") /\ Begins(c)
    /\ LET told == IF known THEN c ELSE None
       IN  /\ wire' = Sent(c, told, told, << >>)
           /\ conn' = [conn EXCEPT !.slots = Bind(@, c - 1, Merged(Blank, told, told, << >>))]
    /\ UNCHANGED unread

argumentsDelta(c) ==
    LET held == Held(c - 1)
        fragment == NextFragment(c)
    IN  /\ OpenResponse /\ Adapter("responses") /\ MaySend(c) /\ fragment # << >>
        /\ wire' = Sent(c, None, None, fragment)
        /\ conn' = [conn EXCEPT
              !.slots = Bind(@, c - 1, Merged(held, None, None, fragment)),
              !.pending = << Event("delta", held.id, c - 1, held.name, fragment) >>]
        /\ UNCHANGED unread

(* The fragments went out under the index alone. *)
BindFirst(held) == held.args # << >> /\ None \in {held.id, held.name}

(* outputItemDone: the item repeats the whole call. *)
ItemEvents(c) ==
    LET held == Held(c - 1)
        rest == SubSeq(Full(c), Len(held.args) + 1, Frags[c])
    IN  IF mode.complete /\ Valid(Full(c))
        THEN (IF BindFirst(held) THEN << Event("delta", c, c - 1, c, << >>) >> ELSE << >>)
                \o << Event("call", c, NoIndex, c, Full(c)) >>
        ELSE IF held.args = << >> \/ BindFirst(held) \/ rest # << >>
        THEN << Event("delta", c, c - 1, c, rest) >>
        ELSE << >>

outputItemDone(c) ==
    /\ OpenResponse /\ Adapter("responses") /\ MaySend(c) /\ c \notin wire.over
    /\ wire' = [Sent(c, c, c, << >>) EXCEPT !.sent[c] = Frags[c], !.over = @ \cup {c}]
    /\ conn' = [conn EXCEPT !.slots = Bind(@, c - 1, Merged(Held(c - 1), c, c, << >>)),
                            !.pending = ItemEvents(c)]
    /\ UNCHANGED unread

(* response.completed, or response.incomplete with its reason. *)
responseEnds(reason) ==
    /\ OpenResponse /\ Adapter("responses")
    /\ reason = "tool_calls" => wire.begun # {} /\ AllWhole
    /\ reason = "stop" => wire.begun = {}
    /\ wire' = [wire EXCEPT !.phase = "whole"]
    /\ conn' = [conn EXCEPT !.stop = reason, !.finished = TRUE, !.pending = << Plain("done") >>]
    /\ UNCHANGED unread

-----------------------------------------------------------------------------
(* Every adapter. *)

(* An error of the provider is a terminal event. *)
errorFrame(cut) ==
    /\ Reading /\ (cut => Adapter("anthropic"))
    /\ wire' = [wire EXCEPT !.phase = IF cut THEN "cut" ELSE "whole"]
    /\ conn' = [conn EXCEPT !.finished = TRUE,
                            !.pending = IF Trusted(cut) THEN << Plain("error") >> ELSE << >>]
    /\ consumer' = IF Trusted(cut) THEN consumer ELSE "failed"
    /\ UNCHANGED <<mode, assembly, said>>

(* The connection ends before a terminal frame, or the frame is no JSON or   *)
(* is over a limit.                                                         *)
brokenFrame ==
    /\ Reading
    /\ wire' = [wire EXCEPT !.phase = "cut"]
    /\ consumer' = "failed"
    /\ UNCHANGED <<mode, conn, assembly, said>>

Recv ==
    \/ \E c \in Calls : chatItem(c) \/ outputItemDone(c) \/ argumentsDelta(c)
    \/ \E c \in Calls, known \in BOOLEAN : outputItemAdded(c, known)
    \/ \E c \in Calls, cut \in BOOLEAN :
          \/ blockStart(c, cut) \/ blockStop(c, cut)
          \/ \E fragment \in {<< >>, NextFragment(c)} : blockDelta(c, fragment, cut)
    \/ \E reason \in {"tool_calls", "stop", "length", "filter"} :
          \/ chatFinish(reason) \/ responseEnds(reason)
          \/ \E cut \in BOOLEAN : messageDelta(reason, cut)
    \/ \E delta \in [1..1 -> Tokens] \cup [1..2 -> Tokens] : chatContent(delta)
    \/ \E cut \in BOOLEAN : messageStop(cut) \/ errorFrame(cut)
    \/ chatDone \/ truncationShows \/ brokenFrame

(* The consumer takes the next event, or the end of the stream. *)
TakeEvent(e) ==
    /\ consumer = "reading" /\ conn.pending # << >> /\ e = Head(conn.pending)
    /\ conn' = [conn EXCEPT !.pending = Tail(@)]
    /\ assembly' = Apply(assembly, e)
    /\ said' = [said EXCEPT !.text = IF e.kind = "text" THEN @ \o e.args ELSE @,
                            !.thinking = IF e.kind = "thinking" THEN @ \o e.args ELSE @]
    /\ UNCHANGED <<mode, wire, consumer>>

TakeEOF ==
    /\ consumer = "reading" /\ conn.pending = << >> /\ conn.finished
    /\ consumer' = "eof"
    /\ UNCHANGED <<mode, wire, conn, assembly, said>>

-----------------------------------------------------------------------------
(* What is left once a stream has ended, but with an error of the provider. *)

Ended == consumer = "eof" /\ assembly.terminal # "error"

(* The arguments of a call without any may be "" or {}. *)
Sends(c, call) ==
    call.id = c /\ call.name = c /\ call.args \in {Full(c)} \cup IF Frags[c] = 0 THEN {EmptyObject} ELSE {}

(* A response that ended well yields exactly the calls and the text that the *)
(* provider sent, however it was framed: no fragment is lost or lands on     *)
(* another call, and a think tag is found wherever the chunks are cut.  A    *)
(* response cut by the output limit yields no call.                         *)
ResponseAssembled ==
    /\ Ended /\ conn.stop = "tool_calls" =>
          LET calls == ToolCalls(assembly, conn.stop)
          IN  /\ Len(calls) = Cardinality(wire.begun)
              /\ \A c \in wire.begun : \E i \in DOMAIN calls : Sends(c, calls[i])
    /\ Ended /\ conn.stop = "length" => ToolCalls(assembly, conn.stop) = << >>
    /\ Ended /\ mode.style = "text" =>
          LET s == Split(FALSE, wire.content)
          IN  /\ said.text = s.text \o (IF s.inThink THEN << >> ELSE s.buffer)
              /\ said.thinking = s.thinking \o (IF s.inThink THEN s.buffer ELSE << >>)

(* What the stream shows of the abstract one: an event after the terminal    *)
(* one puts it in a state that EventStream does not have.                   *)
Stream == INSTANCE EventStream WITH
    response <- IF wire.phase = "cut" THEN "broken"
                ELSE IF wire.phase = "whole" THEN "whole" ELSE "open",
    stream <- IF assembly.terminal = "broken" THEN "broken"
              ELSE IF consumer = "failed" THEN "error"
              ELSE IF consumer = "eof" THEN "eof"
              ELSE IF assembly.terminal # "none" THEN "terminal" ELSE "events"

=============================================================================
