--------------------------- MODULE OutputStoreProofs ---------------------------
(***************************************************************************)
(* Proofs about OutputStore, for any processes, goroutines, bodies and       *)
(* faults: a reference that was returned is served by the whole body.        *)
(***************************************************************************)
EXTENDS OutputStore, TLAPS

Saving == {"save", "check", "write", "publish"}

(* What a goroutine that saves has left to do and has done. *)
Saves == [at : Saving, todo : Seq(Bodies) \ {<< >>}, done : SUBSET Bodies]

StoreTypes ==
    /\ DOMAIN work = Workers /\ DOMAIN temps = Workers
    /\ \A w \in Workers : work[w].at \in Saving => work[w] \in Saves

(* A reference is counted as done once its file is there, and a temporary     *)
(* file is renamed only when it is complete.                                 *)
SavedBefore ==
    \A w \in Workers :
        /\ work[w].at \in Saving => work[w].done \subseteq DOMAIN files
        /\ work[w].at = "publish" => temps[w] = Body(w)

StoreInv == StoreTypes /\ SavedBefore /\ ReferencesServe

(* The initial states satisfy the invariant. *)
LEMMA InitStore == Init => StoreInv
BY DEF Init, StoreInv, StoreTypes, SavedBefore, ReferencesServe, Idle, Saving

-----------------------------------------------------------------------------
(* A step of one worker keeps the invariant if what it leaves does. *)
LEMMA WorkerMoves ==
    ASSUME StoreInv, NEW w \in Workers, NEW s,
           work' = [work EXCEPT ![w] = s],
           DOMAIN temps' = Workers, \A v \in Workers \ {w} : temps'[v] = temps[v],
           DOMAIN files \subseteq DOMAIN files', ReferencesServe',
           s.at \in Saving => s \in Saves /\ s.done \subseteq DOMAIN files',
           s.at = "publish" => temps'[w] = Head(s.todo)
    PROVE  StoreInv'
<1>1. /\ DOMAIN work' = Workers /\ work'[w] = s
      /\ \A v \in Workers \ {w} : work'[v] = work[v]
  BY DEF StoreInv, StoreTypes
<1>2. StoreTypes'
  BY <1>1 DEF StoreInv, StoreTypes
<1>3. ASSUME NEW v \in Workers
      PROVE  /\ work'[v].at \in Saving => work'[v].done \subseteq DOMAIN files'
             /\ work'[v].at = "publish" => temps'[v] = Head(work'[v].todo)
  <2>1. CASE v = w
    BY <1>1, <2>1
  <2>2. CASE v # w
    BY <1>1, <2>2 DEF StoreInv, SavedBefore, Body
  <2> QED BY <2>1, <2>2
<1>4. SavedBefore'
  BY <1>3 DEF SavedBefore, Body
<1> QED BY <1>2, <1>4 DEF StoreInv

(* Nothing is published or returned. *)
LEMMA QuietMoves ==
    ASSUME StoreInv, NEW w \in Workers, NEW s,
           work' = [work EXCEPT ![w] = s], UNCHANGED <<files, given>>,
           DOMAIN temps' = Workers, \A v \in Workers \ {w} : temps'[v] = temps[v],
           s.at \in Saving => s \in Saves /\ s.done \subseteq DOMAIN files,
           s.at = "publish" => temps'[w] = Head(s.todo)
    PROVE  StoreInv'
<1>1. ReferencesServe'
  BY DEF StoreInv, ReferencesServe
<1> QED BY <1>1, WorkerMoves

(* The worker that saves, and what is left when a body has been saved. *)
LEMMA SaveState ==
    ASSUME StoreInv, NEW w \in Workers, work[w].at \in Saving
    PROVE  /\ work[w] \in Saves /\ work[w].todo \in Seq(Bodies) /\ work[w].todo # << >>
           /\ Body(w) \in Bodies /\ Body(w) = Head(work[w].todo)
           /\ Tail(work[w].todo) \in Seq(Bodies)
           /\ work[w].done \subseteq DOMAIN files /\ work[w].done \subseteq Bodies
<1>1. work[w] \in Saves /\ work[w].done \subseteq DOMAIN files
  BY DEF StoreInv, StoreTypes, SavedBefore
<1>2. work[w].todo \in Seq(Bodies) /\ work[w].todo # << >> /\ work[w].done \subseteq Bodies
  BY <1>1 DEF Saves
<1> QED BY <1>1, <1>2 DEF Body

(* The next step of the same save. *)
LEMMA Proceeds ==
    ASSUME StoreInv, NEW w \in Workers, work[w].at \in Saving, NEW step \in Saving,
           Goto(w, step), UNCHANGED <<files, given, temps>>,
           step = "publish" => temps[w] = Body(w)
    PROVE  StoreInv'
<1> DEFINE s == [work[w] EXCEPT !.at = step]
<1>1. s \in Saves /\ s.done = work[w].done /\ s.todo = work[w].todo /\ s.at = step
  BY SaveState DEF Saves
<1>2. work' = [work EXCEPT ![w] = s]
  BY DEF Goto
<1>3. s.done \subseteq DOMAIN files /\ Body(w) = Head(s.todo)
  BY <1>1, SaveState
<1> HIDE DEF s
<1> QED BY <1>1, <1>2, <1>3, QuietMoves DEF StoreInv, StoreTypes

(* The worker is idle again, with or without its reference. *)
LEMMA Rests ==
    ASSUME StoreInv, NEW w \in Workers, work' = [work EXCEPT ![w] = Idle],
           UNCHANGED <<files, given>>,
           DOMAIN temps' = Workers, \A v \in Workers \ {w} : temps'[v] = temps[v]
    PROVE  StoreInv'
BY QuietMoves DEF Idle, Saving

(* A record with new fields of the same kinds is a record of the same kind. *)
LEMMA RecordUpdate ==
    ASSUME NEW A, NEW T, NEW D, NEW r \in [at : A, todo : T, done : D],
           NEW a \in A, NEW t \in T, NEW d \in D
    PROVE  [r EXCEPT !.at = a, !.todo = t, !.done = d] \in [at : A, todo : T, done : D]
OBVIOUS

(* save returns: the file of the body is there. *)
LEMMA Returns ==
    ASSUME StoreInv, NEW w \in Workers, work[w].at \in Saving, Saved(w),
           DOMAIN temps' = Workers, \A v \in Workers \ {w} : temps'[v] = temps[v],
           DOMAIN files' = DOMAIN files \cup {Body(w)}, \A b \in DOMAIN files' : files'[b] = b
    PROVE  StoreInv'
<1> DEFINE next == [work[w] EXCEPT !.at = "save", !.todo = Tail(@), !.done = @ \cup {Body(w)}]
<1>1. /\ next.at = "save" /\ next.todo = Tail(work[w].todo) /\ next.done = work[w].done \cup {Body(w)}
      /\ next.todo # << >> => next \in Saves
  <2>1. DOMAIN work[w] = {"at", "todo", "done"}
    <3>1. work[w] \in Saves
      BY SaveState
    <3> QED BY <3>1 DEF Saves
  <2>2. next.at = "save" /\ next.todo = Tail(work[w].todo) /\ next.done = work[w].done \cup {Body(w)}
    BY <2>1, SMTT(30)
  <2>3. Tail(work[w].todo) \in Seq(Bodies) /\ work[w].done \cup {Body(w)} \in SUBSET Bodies
    BY SaveState
  <2>4. "save" \in Saving /\ work[w] \in Saves
    BY SaveState DEF Saving
  <2>5. Tail(work[w].todo) \in Seq(Bodies) \ {<< >>} => next \in Saves
    BY <2>3, <2>4, RecordUpdate DEF Saves
  <2> HIDE DEF next
  <2>6. next.todo # << >> => next \in Saves
    BY <2>2, <2>3, <2>5
  <2> QED BY <2>2, <2>6
<1>2. next.done \subseteq DOMAIN files'
  BY <1>1, SaveState
<1>3. CASE next.todo = << >>
  <2>1. work' = [work EXCEPT ![w] = Idle] /\ given' = given \cup next.done
    BY <1>3 DEF Saved
  <2>2. ReferencesServe'
    BY <1>2, <2>1 DEF StoreInv, ReferencesServe
  <2> QED BY <2>1, <2>2, WorkerMoves DEF Idle, Saving
<1>4. CASE next.todo # << >>
  <2>1. work' = [work EXCEPT ![w] = next] /\ UNCHANGED given
    BY <1>4 DEF Saved
  <2>2. ReferencesServe'
    BY <2>1 DEF StoreInv, ReferencesServe
  <2> HIDE DEF next
  <2> QED BY <1>1, <1>2, <1>4, <2>1, <2>2, WorkerMoves
<1> QED BY <1>3, <1>4

(* A step of a goroutine. *)
LEMMA GoroutineStep ==
    ASSUME StoreInv, NEW w \in Workers,
           \/ \E b, d \in Bodies : begin(w, << b >>) \/ begin(w, << b, d >>)
           \/ lock(w) \/ check(w) \/ closeFile(w) \/ giveUp(w) \/ publish(w) \/ renameFails(w)
           \/ \E n \in 1..Max({Len(b) : b \in Bodies}) : write(w, n)
    PROVE  StoreInv'
<1>0. DOMAIN temps = Workers /\ \A b \in DOMAIN files : files[b] = b
  BY DEF StoreInv, StoreTypes, ReferencesServe
<1>1. ASSUME NEW todo \in Seq(Bodies), todo # << >>, begin(w, todo) PROVE StoreInv'
  <2> DEFINE s == [at |-> "save", todo |-> todo, done |-> {}]
  <2>1. s \in Saves /\ s.done = {} /\ s.at = "save"
    BY <1>1 DEF Saves, Saving
  <2>2. work' = [work EXCEPT ![w] = s] /\ UNCHANGED <<files, given, temps>>
    BY <1>1 DEF begin
  <2> HIDE DEF s
  <2> QED BY <1>0, <2>1, <2>2, QuietMoves
<1>2. CASE lock(w)
  BY <1>2, Proceeds DEF lock, Saving
<1>3. CASE check(w)
  <2>1. work[w].at \in Saving /\ UNCHANGED <<files, temps>>
    BY <1>3 DEF check, Saving
  <2>2. CASE matchesExisting(Body(w)) /\ Saved(w)
    <3>1. DOMAIN files' = DOMAIN files \cup {Body(w)} /\ \A b \in DOMAIN files' : files'[b] = b
      BY <1>0, <2>1, <2>2 DEF matchesExisting
    <3> QED BY <1>0, <2>1, <2>2, <3>1, Returns
  <2>3. CASE Failed(w)
    BY <1>0, <2>1, <2>3, Rests DEF Failed
  <2>4. CASE Goto(w, "write") /\ UNCHANGED <<mutex, given>>
    BY <2>1, <2>4, Proceeds DEF Saving
  <2> QED BY <1>3, <2>2, <2>3, <2>4 DEF check
<1>4. CASE closeFile(w)
  BY <1>4, Proceeds DEF closeFile, Written, Saving
<1>5. CASE giveUp(w)
  BY <1>0, <1>5, Rests DEF giveUp, Failed
<1>6. CASE publish(w)
  <2>1. /\ work[w].at \in Saving /\ temps[w] = Body(w) /\ Saved(w)
        /\ temps' = [temps EXCEPT ![w] = NoFile]
        /\ files' = [b \in DOMAIN files \cup {Body(w)} |-> IF b = Body(w) THEN temps[w] ELSE files[b]]
    BY <1>6 DEF publish, StoreInv, SavedBefore, Saving
  <2>2. DOMAIN files' = DOMAIN files \cup {Body(w)} /\ \A b \in DOMAIN files' : files'[b] = b
    BY <1>0, <2>1
  <2> QED BY <1>0, <2>1, <2>2, Returns
<1>7. CASE renameFails(w)
  <2>1. /\ work[w].at \in Saving /\ UNCHANGED files
        /\ temps' = [temps EXCEPT ![w] = NoFile]
    BY <1>7 DEF renameFails, Saving
  <2>2. CASE matchesExisting(Body(w)) /\ Saved(w)
    <3>1. DOMAIN files' = DOMAIN files \cup {Body(w)} /\ \A b \in DOMAIN files' : files'[b] = b
      BY <1>0, <2>1, <2>2 DEF matchesExisting
    <3> QED BY <1>0, <2>1, <2>2, <3>1, Returns
  <2>3. CASE Failed(w)
    BY <1>0, <2>1, <2>3, Rests DEF Failed
  <2> QED BY <1>7, <2>2, <2>3 DEF renameFails
<1>8. ASSUME NEW n, write(w, n) PROVE StoreInv'
  <2>1. /\ work[w].at = "write" /\ UNCHANGED <<files, work, given>>
        /\ DOMAIN temps' = Workers /\ \A v \in Workers \ {w} : temps'[v] = temps[v]
    BY <1>0, <1>8 DEF write
  <2> QED BY <2>1 DEF StoreInv, StoreTypes, SavedBefore, ReferencesServe, Body
<1>9. ASSUME NEW b \in Bodies, NEW d \in Bodies, begin(w, << b >>) \/ begin(w, << b, d >>)
      PROVE  StoreInv'
  <2>1. /\ << b >> \in Seq(Bodies) /\ << b >> # << >>
        /\ << b, d >> \in Seq(Bodies) /\ << b, d >> # << >>
    OBVIOUS
  <2> QED BY <1>1, <1>9, <2>1
<1> QED BY <1>2, <1>3, <1>4, <1>5, <1>6, <1>7, <1>8, <1>9

(* A search reads files and changes none. *)
LEMMA SearchStep ==
    ASSUME StoreInv, NEW w \in Workers,
           \/ \E b \in Bodies, q \in Queries, c \in Contexts : search(w, b, q, c)
           \/ scan(w) \/ scanEnds(w) \/ answer(w)
    PROVE  StoreInv'
<1>0. DOMAIN temps = Workers /\ UNCHANGED <<files, given, temps>>
  BY DEF StoreInv, StoreTypes, search, scan, scanEnds, answer
<1>1. Idle.at \notin Saving
  BY DEF Idle, Saving
<1>2. PICK s : work' = [work EXCEPT ![w] = s] /\ s.at \notin Saving
  <2>1. CASE \E b \in Bodies, q \in Queries, c \in Contexts : search(w, b, q, c)
    BY <2>1 DEF search, Saving
  <2>2. CASE scan(w)
    <3>1. PICK n \in 1..(Len(work[w].file) - work[w].offset), fit \in 0..MaxMatches : scanChunk(w, n, fit)
      BY <2>2 DEF scan
    <3>2. work[w].at = "search"
      BY <2>2 DEF scan
    <3>3. PICK m, k, c, o : LET r == [work[w] EXCEPT !.matches = m]
                            IN  \/ work' = [work EXCEPT ![w] = [r EXCEPT !.carry = c, !.offset = o]]
                                \/ work' = [work EXCEPT ![w] = Idle]
                                \/ work' = [work EXCEPT ![w] = [r EXCEPT !.at = "full"]]
      BY <3>1 DEF scanChunk
    <3> DEFINE r == [work[w] EXCEPT !.matches = m]
    <3>4. r.at = "search"
      BY <3>2
    <3> HIDE DEF r
    <3>5. /\ [r EXCEPT !.carry = c, !.offset = o].at = "search"
          /\ [r EXCEPT !.at = "full"].at \in {"search", "full"}
      BY <3>4
    <3>6. \/ work' = [work EXCEPT ![w] = [r EXCEPT !.carry = c, !.offset = o]]
          \/ work' = [work EXCEPT ![w] = Idle]
          \/ work' = [work EXCEPT ![w] = [r EXCEPT !.at = "full"]]
      BY <3>3 DEF r
    <3>7. [r EXCEPT !.carry = c, !.offset = o].at \notin Saving /\ [r EXCEPT !.at = "full"].at \notin Saving
      BY <3>5 DEF Saving
    <3> QED BY <1>1, <3>6, <3>7
  <2>3. CASE scanEnds(w)
    <3>1. work[w].at = "search" /\ work' = [work EXCEPT ![w] = [work[w] EXCEPT !.at = "complete"]]
      BY <2>3 DEF scanEnds, Goto
    <3>2. [work[w] EXCEPT !.at = "complete"].at \in {"search", "complete"}
      BY <3>1
    <3> QED BY <3>1, <3>2 DEF Saving
  <2>4. CASE answer(w)
    <3>1. work' = [work EXCEPT ![w] = Idle]
      BY <2>4 DEF answer
    <3> QED BY <1>1, <3>1
  <2> QED BY <2>1, <2>2, <2>3, <2>4
<1> QED BY <1>0, <1>2, QuietMoves DEF Saving

(* A crash loses goroutines and temporary files, and no published one.       *)
LEMMA Crashes == ASSUME StoreInv, NEW p \in Processes, crash(p) PROVE StoreInv'
<1>1. /\ work' = [w \in Workers |-> IF w[1] = p THEN Idle ELSE work[w]]
      /\ temps' = [w \in Workers |-> IF w[1] = p THEN NoFile ELSE temps[w]]
      /\ UNCHANGED <<files, given>>
  BY DEF crash
<1>2. \A w \in Workers : \/ work'[w] = Idle
                         \/ work'[w] = work[w] /\ temps'[w] = temps[w]
  BY <1>1
<1>3. Idle.at \notin Saving
  BY DEF Idle, Saving
<1>4. StoreTypes'
  BY <1>1, <1>2, <1>3 DEF StoreInv, StoreTypes
<1>5. SavedBefore'
  BY <1>1, <1>2, <1>3 DEF StoreInv, SavedBefore, Body, Saving
<1>6. ReferencesServe'
  BY <1>1 DEF StoreInv, ReferencesServe
<1> QED BY <1>4, <1>5, <1>6 DEF StoreInv

(* Every step keeps the invariant. *)
LEMMA NextStore == StoreInv /\ [Next]_vars => StoreInv'
<1> SUFFICES ASSUME StoreInv, [Next]_vars PROVE StoreInv'
  OBVIOUS
<1>1. CASE UNCHANGED vars
  BY <1>1 DEF vars, StoreInv, StoreTypes, SavedBefore, ReferencesServe, Body
<1>2. ASSUME NEW w \in Workers,
             \/ \E b, d \in Bodies : begin(w, << b >>) \/ begin(w, << b, d >>)
             \/ lock(w) \/ check(w) \/ closeFile(w) \/ giveUp(w) \/ publish(w) \/ renameFails(w)
             \/ \E n \in 1..Max({Len(b) : b \in Bodies}) : write(w, n)
             \/ \E b \in Bodies, q \in Queries, c \in Contexts : search(w, b, q, c)
             \/ scan(w) \/ scanEnds(w) \/ answer(w)
      PROVE  StoreInv'
  BY <1>2, GoroutineStep, SearchStep
<1> QED BY <1>1, <1>2, Crashes DEF Next

(* The invariant holds of every execution. *)
THEOREM StoreInvariance == Spec => []StoreInv
BY InitStore, NextStore, PTL DEF Spec

-----------------------------------------------------------------------------
(* What follows. *)

(* OutputStore.save: whatever crashes or fails, and however processes and    *)
(* goroutines interleave, a returned reference names a published file and a   *)
(* published file holds the whole body it is named after.                    *)
THEOREM ReferencesAreServed == Spec => []ReferencesServe
<1>1. StoreInv => ReferencesServe
  BY DEF StoreInv
<1> QED BY <1>1, StoreInvariance, PTL

(* What is published stays: no step removes a file or changes its content,   *)
(* and a reference once returned is never withdrawn.                         *)
PublishedStays ==
    [][/\ given \subseteq given' /\ DOMAIN files \subseteq DOMAIN files'
       /\ \A b \in DOMAIN files : files'[b] = files[b]]_vars

(* Publishing again, sweeping and crashing all keep it (publish, sweep and    *)
(* the link that refuses to replace a file).                                *)
THEOREM PublicationsStay == Spec => PublishedStays
<1>1. ASSUME StoreInv, StoreInv', [Next]_vars
      PROVE  given \subseteq given' /\ DOMAIN files \subseteq DOMAIN files'
  <2>1. ASSUME NEW w \in Workers, Saved(w) PROVE given \subseteq given'
    BY <2>1 DEF Saved
  <2>2. ASSUME NEW w \in Workers, Failed(w) PROVE given \subseteq given'
    BY <2>2 DEF Failed
  <2>3. ASSUME NEW w \in Workers, check(w) \/ giveUp(w) \/ publish(w) \/ renameFails(w)
        PROVE  given \subseteq given' /\ DOMAIN files \subseteq DOMAIN files'
    BY <2>1, <2>2, <2>3 DEF check, giveUp, publish, renameFails
  <2>4. ASSUME NEW w \in Workers,
               \/ \E b, d \in Bodies : begin(w, << b >>) \/ begin(w, << b, d >>)
               \/ lock(w) \/ closeFile(w)
               \/ \E n \in 1..Max({Len(b) : b \in Bodies}) : write(w, n)
               \/ \E b \in Bodies, q \in Queries, c \in Contexts : search(w, b, q, c)
               \/ scan(w) \/ scanEnds(w) \/ answer(w)
        PROVE  UNCHANGED <<given, files>>
    BY <2>4 DEF begin, lock, closeFile, write, search, scan, scanEnds, answer
  <2>5. CASE (\E p \in Processes : crash(p)) \/ UNCHANGED vars
    BY <2>5 DEF crash, vars
  <2> QED BY <1>1, <2>3, <2>4, <2>5 DEF Next
<1>2. ASSUME StoreInv, StoreInv', [Next]_vars
      PROVE  [/\ given \subseteq given' /\ DOMAIN files \subseteq DOMAIN files'
              /\ \A b \in DOMAIN files : files'[b] = files[b]]_vars
  BY <1>1, <1>2 DEF StoreInv, ReferencesServe
<1> QED BY <1>2, StoreInvariance, PTL DEF Spec, PublishedStays

=============================================================================
