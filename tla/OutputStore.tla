----------------------------- MODULE OutputStore -----------------------------
(***************************************************************************)
(* tool.OutputStore (tool/output_store.go): large tool outputs kept in       *)
(* content-addressed files and searched by the model.  Several processes may *)
(* share one directory, each with several goroutines; any of them may crash  *)
(* between two steps, and the file system may refuse any step or write less  *)
(* than asked.                                                              *)
(*                                                                         *)
(* A body stands for its content and for its reference: SHA-256 tells any    *)
(* two of them apart.  The page cache outlives a process, so a crash loses   *)
(* no write that was made; a crash of the machine is not modelled.           *)
(***************************************************************************)
EXTENDS Integers, SequencesExt

CONSTANTS
    Workers,     \* goroutines, as <<process, number>>
    Searchers,   \* the ones that search as well
    Bodies,      \* outputs above the preview threshold, as sequences of bytes
    Queries,     \* what the model searches for
    Contexts,    \* bytes of context it asks for
    MaxMatches,  \* matches it asks for
    MaxFaults    \* crashes and refused file operations

ASSUME StoreAssumption ==
    /\ Searchers \subseteq Workers
    /\ Queries \subseteq Seq(UNION {ToSet(b) : b \in Bodies}) \ {<< >>}
    /\ MaxMatches \in Nat \ {0} /\ Contexts \subseteq Nat

VARIABLES
    files,   \* published artifacts: a partial function from references to contents
    temps,   \* the temporary file of each worker
    mutex,   \* the worker that holds OutputStore.mu of each process
    work,    \* where each worker is
    given,   \* references in results that Process has returned
    faults

vars == <<files, temps, mutex, work, given, faults>>

Processes == {w[1] : w \in Workers}
Nobody == <<0, 0>>
NoFile == << >>

Idle == [at |-> "idle"]

Init ==
    /\ files = [b \in {} |-> << >>] /\ temps = [w \in Workers |-> NoFile]
    /\ mutex = [p \in Processes |-> Nobody] /\ work = [w \in Workers |-> Idle]
    /\ given = {} /\ faults = 0

Goto(w, step) == work' = [work EXCEPT ![w].at = step]
Fault == faults < MaxFaults /\ faults' = faults + 1
Unlock(w) == mutex' = [mutex EXCEPT ![w[1]] = Nobody]

-----------------------------------------------------------------------------
(* Process: the bodies of one result, its text and its structured value, are *)
(* saved one after the other.                                               *)

begin(w, bodies) ==
    /\ work[w].at = "idle"
    /\ work' = [work EXCEPT ![w] = [at |-> "save", todo |-> bodies, done |-> {}]]
    /\ UNCHANGED <<files, temps, mutex, given, faults>>

Body(w) == Head(work[w].todo)

lock(w) ==
    /\ work[w].at = "save" /\ mutex[w[1]] = Nobody
    /\ mutex' = [mutex EXCEPT ![w[1]] = w] /\ Goto(w, "check")
    /\ UNCHANGED <<files, temps, given, faults>>

(* save returns the reference; Process returns its result after the last.    *)
Saved(w) ==
    LET next == [work[w] EXCEPT !.at = "save", !.todo = Tail(@), !.done = @ \cup {Body(w)}]
    IN  /\ Unlock(w)
        /\ IF next.todo = << >>
           THEN work' = [work EXCEPT ![w] = Idle] /\ given' = given \cup next.done
           ELSE work' = [work EXCEPT ![w] = next] /\ UNCHANGED given

(* save fails: Process returns the result it was given, with no reference.   *)
Failed(w) == Unlock(w) /\ work' = [work EXCEPT ![w] = Idle] /\ UNCHANGED given

(* matchesExisting: nothing is read when the name is free. *)
matchesExisting(b) == b \in DOMAIN files /\ files[b] = b

check(w) ==
    /\ work[w].at = "check"
    /\ \/ matchesExisting(Body(w)) /\ Saved(w)
       \/ Body(w) \in DOMAIN files /\ ~matchesExisting(Body(w)) /\ Failed(w)
       \/ Body(w) \notin DOMAIN files /\ Goto(w, "write") /\ UNCHANGED <<mutex, given>>
    /\ UNCHANGED <<files, temps, faults>>

(* The temporary file is created and written, in as many steps as the        *)
(* system takes.                                                            *)
write(w, n) ==
    /\ work[w].at = "write" /\ n \in Len(temps[w]) + 1 .. Len(Body(w))
    /\ temps' = [temps EXCEPT ![w] = SubSeq(Body(w), 1, n)]
    /\ UNCHANGED <<files, mutex, work, given, faults>>

(* Mutant: the count that Write returns is not compared. *)
Written_Unchecked(w) == temps[w] # NoFile

Written(w) == temps[w] = Body(w)

closeFile(w) ==
    /\ work[w].at = "write" /\ Written(w) /\ Goto(w, "publish")
    /\ UNCHANGED <<files, temps, mutex, given, faults>>

(* Creating, writing or closing fails, or the context has ended; the         *)
(* temporary file is removed.                                               *)
giveUp(w) ==
    /\ work[w].at \in {"check", "write", "publish"} /\ Fault
    /\ temps' = [temps EXCEPT ![w] = NoFile] /\ Failed(w)
    /\ UNCHANGED files

publish(w) ==
    /\ work[w].at = "publish"
    /\ files' = [b \in DOMAIN files \cup {Body(w)} |-> IF b = Body(w) THEN temps[w] ELSE files[b]]
    /\ temps' = [temps EXCEPT ![w] = NoFile]
    /\ Saved(w) /\ UNCHANGED faults

(* Rename fails; another process may have published the same body.           *)
renameFails(w) ==
    /\ work[w].at = "publish" /\ Fault
    /\ temps' = [temps EXCEPT ![w] = NoFile]
    /\ IF matchesExisting(Body(w)) THEN Saved(w) ELSE Failed(w)
    /\ UNCHANGED files

(* A process stops: its goroutines and their locks are gone, its temporary   *)
(* files stay and are never looked at again.                                *)
crash(p) ==
    /\ Fault
    /\ work' = [w \in Workers |-> IF w[1] = p THEN Idle ELSE work[w]]
    /\ temps' = [w \in Workers |-> IF w[1] = p THEN NoFile ELSE temps[w]]
    /\ mutex' = [mutex EXCEPT ![p] = Nobody]
    /\ UNCHANGED <<files, given>>

-----------------------------------------------------------------------------
(* tool_output_search: the file is read in chunks of any size, and the end   *)
(* of what was scanned is carried over to the next.                         *)

search(w, reference, query, context) ==
    /\ w \in Searchers /\ work[w].at = "idle" /\ reference \in given \cap DOMAIN files
    /\ work' = [work EXCEPT ![w] =
          [at |-> "search", reference |-> reference, file |-> files[reference],
           query |-> query, context |-> context, offset |-> 0, carry |-> << >>, matches |-> << >>]]
    /\ UNCHANGED <<files, temps, mutex, given, faults>>

(* Where query begins in data, counted from zero and in order. *)
Occurrences(data, query) ==
    SetToSortSeq({i \in 0..(Len(data) - Len(query)) : SubSeq(data, i + 1, i + Len(query)) = query}, <)

Truncated(s, n) == SubSeq(s, 1, Min({n, Len(s)}))

(* Mutant: only the context is carried over. *)
Overlap_ContextOnly(s) == s.context

Overlap(s) == Max({Len(s.query) - 1, s.context})

(* A match that ended in an earlier chunk has been reported.  Of the matches  *)
(* new in this chunk the response holds the first `fit'; when it has no room  *)
(* for the next, the search ends there, with an error if that is the first.   *)
scanChunk(w, n, fit) ==
    LET s == work[w]
        scan == s.carry \o SubSeq(s.file, s.offset + 1, s.offset + n)
        base == s.offset - Len(s.carry)
        found == Occurrences(scan, s.query)
        fresh == SelectSeq([k \in DOMAIN found |-> base + found[k]],
                           LAMBDA at : at + Len(s.query) > s.offset)
        keep == Min({Overlap(s), Len(scan)})
        wanted == Truncated(fresh, MaxMatches - Len(s.matches))
        reported == [s EXCEPT !.matches = @ \o Truncated(wanted, fit)]
    IN  \/ /\ fit = Len(wanted)
           /\ work' = [work EXCEPT ![w] = [reported EXCEPT
                 !.carry = SubSeq(scan, Len(scan) - keep + 1, Len(scan)), !.offset = @ + n]]
        \/ /\ fit < Len(wanted)
           /\ work' = [work EXCEPT ![w] =
                 IF reported.matches = << >> THEN Idle ELSE [reported EXCEPT !.at = "full"]]

scan(w) ==
    /\ work[w].at = "search"
    /\ \E n \in 1..(Len(work[w].file) - work[w].offset), fit \in 0..MaxMatches : scanChunk(w, n, fit)
    /\ UNCHANGED <<files, temps, mutex, given, faults>>

scanEnds(w) ==
    /\ work[w].at = "search" /\ work[w].offset = Len(work[w].file)
    /\ Goto(w, "complete")
    /\ UNCHANGED <<files, temps, mutex, given, faults>>

answer(w) ==
    /\ work[w].at \in {"full", "complete"} /\ work' = [work EXCEPT ![w] = Idle]
    /\ UNCHANGED <<files, temps, mutex, given, faults>>

Next ==
    \/ \E w \in Workers :
          \/ \E b, d \in Bodies : begin(w, << b >>) \/ begin(w, << b, d >>)
          \/ lock(w) \/ check(w) \/ closeFile(w) \/ giveUp(w) \/ publish(w) \/ renameFails(w)
          \/ \E n \in 1..Max({Len(b) : b \in Bodies}) : write(w, n)
          \/ \E b \in Bodies, q \in Queries, c \in Contexts : search(w, b, q, c)
          \/ scan(w) \/ scanEnds(w) \/ answer(w)
    \/ \E p \in Processes : crash(p)

Spec == Init /\ [][Next]_vars

-----------------------------------------------------------------------------
(* A reference that a result carries is served by a whole file, whatever      *)
(* crashed or failed since, and a published name never holds anything else    *)
(* (output_store.go:114, "never a reference to an uncertain file").          *)
ReferencesServe ==
    /\ given \subseteq DOMAIN files
    /\ \A b \in DOMAIN files : files[b] = b

(* A search reports the first matches of the file, each once and none        *)
(* missing, wherever the reads cut it; a response that fills up stops at one  *)
(* of them, never past one it left out.                                     *)
SearchExact ==
    \A w \in Workers : work[w].at \in {"full", "complete"} =>
        LET all == Truncated(Occurrences(work[w].reference, work[w].query), MaxMatches)
        IN  IF work[w].at = "complete" THEN work[w].matches = all
            ELSE work[w].matches # << >> /\ IsStrictPrefix(work[w].matches, all)

=============================================================================
