---------------------------- MODULE WorkingContext ----------------------------
(***************************************************************************)
(* What the model is shown of a run's transcript: WorkingMemory              *)
(* (agent/working_memory.go), the default fitter (agent/context_window.go),  *)
(* the skill context that Engine keeps in both (agent/engine.go and          *)
(* agent/skill_tools.go), and the loop that compacts before a request and    *)
(* once more after the provider reports an overflow (agent/agent.go).        *)
(*                                                                         *)
(* Sizes are left out: an estimate over the target is a choice, so every     *)
(* estimator, every target and every content is covered.  The section and    *)
(* the catalog of skills, two system messages that move together, are one.   *)
(***************************************************************************)
EXTENDS RequestWire

CONSTANTS
    Skills,       \* skills the engine knows
    Eager,        \* the ones active from the start; the model may activate the rest
    RecentTurns,  \* WorkingMemoryConfig.RecentTurns
    Modes,        \* "memory": WorkingMemory; "fit": a target and no manager
    Examples,     \* does a cached example follow the instructions
    MaxMessages,  \* inputs, answers, calls and results of a run
    MaxInputs,    \* inputs taken at one boundary
    Origins,      \* the providers the turns of a run may come from
    MaxOverflows, \* requests the provider finds too long
    MaxResumes    \* times the run is taken up again from its last boundary

ASSUME ContextAssumption ==
    /\ Eager \subseteq Skills /\ RecentTurns \in Nat \ {0}
    /\ Modes \subseteq {"memory", "fit"} /\ Examples \subseteq BOOLEAN
    /\ Origins \subseteq Providers
    /\ {MaxMessages, MaxInputs, MaxOverflows, MaxResumes} \subseteq Nat

VARIABLES
    mode,
    origin,    \* the provider that answers; another may be asked after it
    current,   \* the transcript
    next,      \* the identity of the next message recorded in it
    runtime,   \* skillRuntime: the active skills, and the version of each skill
    at,        \* where the loop is
    fresh,     \* inputs taken at the last boundary
    request,   \* messages of the last model request
    retried,   \* has this turn been compacted after an overflow
    saved,     \* the last boundary: a transcript and its length
    overflows, resumes

vars == <<mode, origin, current, next, runtime, at, fresh, request, retried, saved, overflows, resumes>>

-----------------------------------------------------------------------------
(* ValidateCompleteTurns: the results of a call follow it, one for each.     *)
ValidateCompleteTurns(history) ==
    LET owed[i \in 0..Len(history)] ==
            IF i = 0 THEN 0
            ELSE IF history[i].kind \in ResultKinds THEN owed[i - 1] - 1
            ELSE IF owed[i - 1] = 0 THEN history[i].calls ELSE -1
    IN  /\ \A i \in DOMAIN history : owed[i] >= 0
        /\ owed[Len(history)] = 0

(* A group is named by its first message: calls with their results, or one   *)
(* message of another kind.                                                 *)
Starts(history) == {i \in DOMAIN history : history[i].kind \notin ResultKinds}
Members(history, g) ==
    {i \in g..Len(history) : \A j \in g + 1..i : history[j].kind \in ResultKinds}

CachePrefixBoundary(history) ==
    LET cached == {i \in DOMAIN history : history[i].cached}
    IN  IF cached = {} THEN 0 ELSE Max(Members(history, Max(cached)))

Keep(history, indices) ==
    FoldLeftDomain(LAMBDA kept, i : IF i \in indices THEN Append(kept, history[i]) ELSE kept,
                   << >>, history)

-----------------------------------------------------------------------------
(* Skills.                                                                  *)

Versions == {1, 2}

(* activationResults: the version each activated skill was last shown in.    *)
Activated(history) ==
    LET shown(s) == {i \in DOMAIN history : /\ history[i].kind = "activation"
                                            /\ \E v \in Versions : <<s, v>> \in history[i].shows}
    IN  {p \in UNION {history[i].shows : i \in DOMAIN history} :
            shown(p[1]) # {} /\ p \in history[Max(shown(p[1]))].shows}

Instructions(r, s) == <<s, r.version[s]>>

restoreActivations(version, history) ==
    [version |-> version,
     active |-> Eager \cup {s \in Skills : <<s, version[s]>> \in Activated(history)}]

skillsForCompaction(r, history) ==
    {s \in r.active : s \in Eager \/ Instructions(r, s) \notin Activated(history)}

(* The skill context replaces the earlier one, after the leading system      *)
(* messages.                                                                *)
injectSkillMessages(history, r, skills) ==
    LET bare   == SelectSeq(history, LAMBDA m : m.kind # "skills")
        others == {i \in DOMAIN bare : bare[i].kind # "system"}
        place  == IF others = {} THEN Len(bare) + 1 ELSE Min(others)
    IN  InsertAt(bare, place,
            [Message("skills", 0) EXCEPT !.shows = {Instructions(r, s) : s \in skills}])

SkillContext(history) == {history[i] : i \in {j \in DOMAIN history : history[j].kind = "skills"}}

validateSkillContextPreserved(before, after) == SkillContext(before) \subseteq SkillContext(after)

-----------------------------------------------------------------------------
(* WorkingMemory.                                                           *)

(* Mutant: the results that carry a skill's instructions are old dialog too. *)
Protected_SystemOnly(history, g) ==
    \E i \in Members(history, g) : history[i].kind \in SystemKinds

Protected(history, g) ==
    \E i \in Members(history, g) : history[i].kind \in SystemKinds \cup {"activation"}

(* Mutant: the inputs just taken have no claim beyond the configured turns.  *)
Turns_ConfiguredOnly(inputs) == RecentTurns

Turns(inputs) == Max({RecentTurns, inputs})

(* splitWorkingMemoryGroups: the indices of the messages to archive.         *)
Old(view, turns) ==
    LET prefix  == CachePrefixBoundary(view)
        past    == {g \in Starts(view) : g > prefix /\ ~Protected(view, g)}
        dialog  == {g \in past : view[g].kind # "summary"}
        recent  == {g \in dialog : Cardinality({h \in dialog : h > g}) < turns}
        users   == {g \in dialog : view[g].kind = "user"}
        newest  == {g \in users : \A u \in users : u <= g}
    IN  UNION {Members(view, g) : g \in past \ (recent \cup newest)}

(* Mutant: an earlier summary is not part of what the new one is made from.  *)
summarize_DialogOnly(old) ==
    [Message("summary", 0) EXCEPT !.covers = {m.id : m \in old} \ {0}]

summarize(old) ==
    [Message("summary", 0) EXCEPT
        !.covers = UNION ({m.covers : m \in old} \cup {{m.id} : m \in old}) \ {0}]

(* The summary goes before the first message that stays and is not prefix.   *)
archiveWorkingMemory(history, old, prefix, summary) ==
    LET visible == {i \in DOMAIN history : ~history[i].archived}
        rank(i) == Cardinality({v \in visible : v <= i})
        stay    == {i \in visible : rank(i) > prefix /\ rank(i) \notin old}
        marked  == [i \in DOMAIN history |->
                       [history[i] EXCEPT !.archived = (@ \/ (i \in visible /\ rank(i) \in old))]]
    IN  InsertAt(marked, IF stay = {} THEN Len(history) + 1 ELSE Min(stay), summary)

Failed == << >>   \* an error of a compaction; no history is empty

(* CompactTo: what it may return.  It fails when nothing is old, when the    *)
(* model gives no usable summary, or when the result is still too large.     *)
CompactTo(history, inputs) ==
    LET view == ContextView(history)
        old  == Old(view, Turns(inputs))
    IN  {history, Failed}
        \cup IF old = {} THEN {}
             ELSE {archiveWorkingMemory(history, old, CachePrefixBoundary(view),
                       summarize({view[i] : i \in old}))}

(* Engine.compactors: the skill context is brought up to date first.         *)
compactTo(history, r, inputs) ==
    LET prepared == injectSkillMessages(history, r, skillsForCompaction(r, history))
    IN  {IF c = Failed \/ ~validateSkillContextPreserved(prepared, c) THEN Failed ELSE c :
            c \in CompactTo(prepared, inputs)}

-----------------------------------------------------------------------------
(* The default fitter.                                                      *)

protectedContextMessage(m) ==
    m.kind \in SystemKinds \cup {"user", "summary", "failure", "activation"}

(* trimContextToolOutput: of the results past the prefix with plain text the *)
(* long ones keep their head and tail, the first ones first, until the rest  *)
(* fits.  Which are long is a choice, so any of them may be trimmed.  An     *)
(* error is plain text too.                                                 *)
trim(history) ==
    LET plain == {i \in CachePrefixBoundary(history) + 1..Len(history) :
                     history[i].kind \in {"result", "failure"}}
    IN  {[i \in DOMAIN history |-> [history[i] EXCEPT !.trimmed = (@ \/ i \in long)]] :
            long \in SUBSET plain}

(* fitContext drops the oldest groups it may until the rest fits, then trims,*)
(* then fails.                                                              *)
fitContext(history) ==
    LET prefix == CachePrefixBoundary(history)
        last == Max(Starts(history))
        disposable == {g \in Starts(history) :
            /\ g > prefix /\ g # last
            /\ \A i \in Members(history, g) : ~protectedContextMessage(history[i])}
        dropped(n) == {g \in disposable : Cardinality({d \in disposable : d <= g}) <= n}
        rest(n) == Keep(history, DOMAIN history \ UNION {Members(history, g) : g \in dropped(n)})
        least == rest(Cardinality(disposable))
    IN  {Failed} \cup {rest(n) : n \in 0..Cardinality(disposable)}
        \cup trim(least)

-----------------------------------------------------------------------------
(* The loop.                                                                *)

validateCachePrefixPreserved(before, after) ==
    LET end == CachePrefixBoundary(before)
    IN  Len(after) >= end /\ SubSeq(before, 1, end) = SubSeq(after, 1, end)

Valid(before, after) ==
    /\ after # Failed
    /\ ValidateCompleteTurns(after) /\ validateCachePrefixPreserved(before, after)

(* Mutant: without a manager the history itself is made to fit.              *)
maybeCompactHistory_Fits(history, inputs) ==
    IF mode = "memory" THEN compactTo(history, runtime, inputs) ELSE fitContext(history)

(* maybeCompactHistory; the default fitter leaves the transcript alone.      *)
maybeCompactHistory(history, inputs) ==
    IF mode = "memory" THEN compactTo(history, runtime, inputs) ELSE {history}

compactAfterContextOverflow(history) ==
    IF mode = "memory" THEN compactTo(history, runtime, fresh) ELSE fitContext(history)

validatePendingInput(history, pending) == IsSuffix(pending, history)

(* WorkingMemory.Build, or the default builder, and the skill context.       *)
Build(prefixed) ==
    LET system == [Message("system", 0) EXCEPT !.cached = ~prefixed /\ mode = "memory"]
        prefix == [Message("prefix", 0) EXCEPT !.cached = TRUE]
    IN  (IF prefixed THEN <<system, prefix>> ELSE <<system>>) \o <<Message("user", 1)>>

Init ==
    /\ mode \in Modes /\ origin \in Origins
    /\ runtime = [version |-> [s \in Skills |-> 1], active |-> Eager]
    /\ \E prefixed \in Examples : current = injectSkillMessages(Build(prefixed), runtime, Eager)
    /\ next = 2 /\ at = "top" /\ fresh = 0 /\ request = << >> /\ retried = FALSE
    /\ saved = [messages |-> current, next |-> 2] /\ overflows = 0 /\ resumes = 0

Ended == at' = "ended" /\ UNCHANGED <<current, next, saved>>

(* One boundary: inputs are taken, the history is compacted and checked, and *)
(* the boundary is saved.                                                   *)
admit(k) ==
    LET pending == [i \in 1..k |-> Message("user", next + i - 1)]
        history == current \o pending
    IN  /\ at = "top" \/ (at = "input" /\ k > 0)
        /\ next + k <= MaxMessages + 1
        /\ fresh' = k /\ retried' = FALSE
        /\ \E compacted \in maybeCompactHistory(history, k) :
              IF Valid(history, compacted) /\ validatePendingInput(compacted, pending)
              THEN /\ current' = compacted /\ next' = next + k /\ at' = "request"
                   /\ saved' = [messages |-> compacted, next |-> next + k]
              ELSE Ended
        /\ UNCHANGED <<mode, origin, runtime, request, overflows, resumes>>

(* runTurn sends the view of the transcript, fitted when there is no manager.*)
runTurn ==
    /\ at = "request"
    /\ \E sent \in IF mode = "memory" THEN {ContextView(current)} ELSE fitContext(ContextView(current)) :
          IF sent = Failed THEN at' = "ended" /\ UNCHANGED request
          ELSE at' = "sent" /\ request' = sent
    /\ UNCHANGED <<mode, origin, current, next, runtime, fresh, retried, saved, overflows, resumes>>

(* runTurnWithContextRecovery: one more attempt, with less, when nothing was *)
(* received of the answer.                                                  *)
overflow ==
    /\ at = "sent" /\ overflows < MaxOverflows /\ overflows' = overflows + 1
    /\ request' = << >>
    /\ IF retried THEN Ended /\ UNCHANGED retried
       ELSE \E compacted \in compactAfterContextOverflow(current) :
               IF Valid(current, compacted) /\ compacted # current
               THEN /\ current' = compacted /\ at' = "request" /\ retried' = TRUE
                    /\ UNCHANGED <<next, saved>>
               ELSE Ended /\ UNCHANGED retried
    /\ UNCHANGED <<mode, origin, runtime, fresh, resumes>>

(* What concerns one turn is forgotten when it ends.                         *)
TurnOver == fresh' = 0 /\ request' = << >> /\ retried' = FALSE

Record(m, where) ==
    /\ next <= MaxMessages
    /\ current' = Append(current, m) /\ next' = next + 1 /\ at' = where
    /\ TurnOver /\ UNCHANGED <<mode, origin, runtime, overflows, resumes>>

Turn(kind, calls) == [Message(kind, next) EXCEPT !.state = ProviderState(origin, calls)]

(* An answer ends the run, or inputs that came meanwhile carry it on; after a*)
(* pause the provider is asked again.                                       *)
answer ==
    /\ at = "sent" /\ \E where \in {"input", "ended", "top"} : Record(Turn("answer", 0), where)
    /\ UNCHANGED saved

(* markIncompleteResponse and responseRecovery: a turn that was cut short, or*)
(* whose arguments are invalid, loses its calls, keeps its replay state and  *)
(* is followed by an instruction.                                           *)
correct(n) ==
    /\ at = "sent" /\ next + 1 <= MaxMessages
    /\ current' = current \o <<Turn("answer", n), Message("user", next + 1)>>
    /\ next' = next + 2 /\ at' = "top" /\ TurnOver
    /\ UNCHANGED <<mode, origin, runtime, saved, overflows, resumes>>

(* Calls are saved before any of them runs.                                 *)
call(n) ==
    /\ at = "sent" /\ next + n <= MaxMessages
    /\ Record([Turn("calls", n) EXCEPT !.calls = n], "tools")
    /\ saved' = [messages |-> current', next |-> next']

(* recordInterruptedTurn: what a steered turn had said is kept as evidence   *)
(* and shown to nobody, once its stream was open.                           *)
interrupt ==
    /\ at = "sent" /\ UNCHANGED saved
    /\ \/ Record([Message("cut", next) EXCEPT !.archived = TRUE], "input")
       \/ /\ at' = "input" /\ TurnOver
          /\ UNCHANGED <<mode, origin, current, next, runtime, overflows, resumes>>

Owed == LET c == Max({i \in DOMAIN current : current[i].kind = "calls"})
        IN  current[c].calls - (Len(current) - c)

Answered(m) ==
    /\ at = "tools" /\ current' = Append(current, m) /\ next' = next + 1
    /\ at' = IF Owed = 1 THEN "top" ELSE "tools"
    /\ UNCHANGED <<mode, origin, fresh, request, retried, saved, overflows, resumes>>

result(kind) == Answered(Message(kind, next)) /\ UNCHANGED runtime

(* skillActivationDriver: only the first activation carries instructions.    *)
activate(s) ==
    /\ Answered([Message("activation", next) EXCEPT
                    !.shows = IF s \in runtime.active THEN {} ELSE {Instructions(runtime, s)}])
    /\ runtime' = [runtime EXCEPT !.active = @ \cup {s}]

(* The process stops and another engine resumes the run, with the same skills*)
(* or with another version of some.                                         *)
resume(changed) ==
    /\ resumes < MaxResumes /\ resumes' = resumes + 1
    /\ current' = saved.messages /\ next' = saved.next
    /\ runtime' = restoreActivations(
           [s \in Skills |-> IF s \in changed THEN 3 - runtime.version[s] ELSE runtime.version[s]],
           saved.messages)
    /\ at' = IF ValidateCompleteTurns(saved.messages) THEN "top" ELSE "tools"
    /\ TurnOver /\ UNCHANGED <<mode, origin, saved, overflows>>

Next ==
    \/ \E k \in 0..MaxInputs : admit(k)
    \/ runTurn \/ overflow \/ answer \/ interrupt
    \/ \E n \in 1..2 : call(n)
    \/ \E n \in 0..1 : correct(n)
    \/ \E kind \in {"result", "failure"} : result(kind)
    \/ \E s \in Skills : activate(s)
    \/ \E changed \in SUBSET Skills : resume(changed)

Spec == Init /\ [][Next]_vars

-----------------------------------------------------------------------------
(* What is said of a request is said of what any of the providers is sent.   *)

Shown(wire, s) ==
    \E i \in DOMAIN wire : \E p \in wire[i].shows :
        p[1] = s /\ (mode = "memory" => p[2] = runtime.version[s])

(* Whatever was summarised, dropped, retried or resumed in between, every    *)
(* request carries the instructions of every active skill; with a manager,   *)
(* in the version the engine has now.                                       *)
SkillsVisible ==
    at = "sent" => \A p \in Providers : \A s \in runtime.active : Shown(Wire(p, request), s)

Recorded(history) == SelectSeq(history, LAMBDA m : m.id # 0)

(* With a manager, the transcript holds every recorded message once and in   *)
(* order, and what the model is no longer shown is what the one summary it is*)
(* shown was made from, except for answers that were cut off.                *)
NothingForgotten ==
    mode = "memory" =>
        /\ [i \in DOMAIN Recorded(current) |-> Recorded(current)[i].id] = [i \in 1..next - 1 |-> i]
        /\ Cardinality({i \in DOMAIN current : current[i].kind = "summary" /\ ~current[i].archived}) <= 1
        /\ \A i \in DOMAIN current :
              (current[i].archived /\ current[i].kind \notin {"cut", "summary"}) =>
                  \E j \in DOMAIN current : /\ current[j].kind = "summary" /\ ~current[j].archived
                                            /\ current[i].id \in current[j].covers

(* The first request of the run, which every later one extends.              *)
FirstRequest ==
    injectSkillMessages(Build(\E i \in DOMAIN current : current[i].kind = "prefix"),
        [runtime EXCEPT !.version = [s \in Skills |-> 1]], Eager)

Sendable ==
    {part \in {Text} \cup Media : part.kind \in {"text", "image", "file"} /\ part.source # "neither"}

(* Every request begins with the cached part of the first one, marked where  *)
(* it was, and ends with the inputs taken at its boundary, whole and in      *)
(* order, also when the provider found an earlier request too long.          *)
RequestEndsKept ==
    at = "sent" => \A p \in Providers :
        LET wire   == Wire(p, request)
            inputs == SubSeq(wire, Len(wire) - fresh + 1, Len(wire))
        IN  /\ CachedPart(wire) = CachedPart(Wire(p, FirstRequest))
            /\ \A i \in 1..fresh :
                  /\ inputs[i].role = "user" /\ inputs[i].ids = {next - fresh + i - 1}
                  /\ Sendable \subseteq inputs[i].parts

(* Whichever provider is asked next, no result is sent without its call and, *)
(* but for the calls a correction withdrew, no call without its results.     *)
CallsPaired == at = "sent" => \A p \in Providers : CallsAnswered(Wire(p, request))

Evidence(m, history) == {i \in DOMAIN history : history[i].id = m.id}

Intact(m, history) == \E i \in Evidence(m, history) : history[i].trimmed => m.trimmed

(* context_window.go:22 - "fitContext bounds only the provider-facing view.  *)
(* The execution transcript and its step/effect evidence remain intact for   *)
(* checkpoints and recovery."  What is recorded stays in the transcript whole*)
(* over requests, compactions and corrections, and a resumption goes back    *)
(* only on what was recorded since its boundary.  The one exception is the   *)
(* retry after an overflow without a manager (agent.go:1412), which makes the*)
(* fitted view the transcript: it may drop what the fitter does not protect, *)
(* and shorten results.                                                     *)
EvidenceKept ==
    [][\A i \in DOMAIN current :
          LET m == current[i]
              fitted == mode = "fit" /\ overflows' = overflows + 1
          IN  \/ m.id = 0 \/ m.id >= next' \/ Intact(m, current')
              \/ fitted /\ ~protectedContextMessage(m)
              \/ fitted /\ m.kind = "failure" /\ Evidence(m, current') # {}]_vars

=============================================================================
