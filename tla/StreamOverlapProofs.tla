------------------------- MODULE StreamOverlapProofs -------------------------
(***************************************************************************)
(* Proofs about StreamOverlap, for every number of calls and fragments, set  *)
(* of safe calls, budget and adapter: a call is prepared once and runs once,  *)
(* what ran is what the finished response asks for, no tool outlives its     *)
(* turn, and the stream ends as EventStream says.                            *)
(***************************************************************************)
EXTENDS StreamOverlap, FiniteSetTheorems, TLAPS

BuilderFields == {"id", "index", "name", "args", "full", "whole", "conflict"}
AssemblyFields == {"builders", "idKeys", "indexKeys", "duplicate", "terminal"}

(* Builder k and the IDs that name it; a conflicting one has no say.         *)
Named(a, k) ==
    ~a.builders[k].conflict =>
        /\ a.builders[k].id # None =>
               /\ a.builders[k].id \in DOMAIN a.idKeys
               /\ a.idKeys[a.builders[k].id] = k
        /\ \A x \in DOMAIN a.idKeys : a.idKeys[x] = k => a.builders[k].id = x

(* What is known of the tool calls that NormalizeEvents builds: each key is   *)
(* of a builder, and a builder without a conflict has one ID of its own.     *)
Keyed(a) ==
    /\ DOMAIN a = AssemblyFields
    /\ \E S : a.builders \in Seq(S)
    /\ \A k \in DOMAIN a.builders : DOMAIN a.builders[k] = BuilderFields
    /\ \A x \in DOMAIN a.idKeys : x # None /\ a.idKeys[x] \in DOMAIN a.builders
    /\ \A x \in DOMAIN a.indexKeys : x # NoIndex /\ a.indexKeys[x] \in DOMAIN a.builders
    /\ \A k \in DOMAIN a.builders : Named(a, k)

(* The response cannot end well any more. *)
Spoiled(a) == a.duplicate \/ \E k \in DOMAIN a.builders : a.builders[k].conflict

(* Call c has its final arguments. *)
Settled(a, c, args) ==
    \/ Spoiled(a)
    \/ \E k \in DOMAIN a.builders :
           /\ a.builders[k].id = c /\ a.builders[k].args = args
           /\ a.builders[k].full /\ a.builders[k].whole

-----------------------------------------------------------------------------
(* The assembly of the calls. *)

(* Nothing is assembled at first. *)
LEMMA StartKeyed == Keyed(Start)
<1> DEFINE empty == << >>
<1>1. empty \in Seq({}) /\ DOMAIN empty = {}
  OBVIOUS
<1>2. DOMAIN NoBuilders = {}
  BY DEF NoBuilders
<1>3. DOMAIN Start = AssemblyFields /\ Start.builders = empty
      /\ Start.idKeys = NoBuilders /\ Start.indexKeys = NoBuilders
  BY DEF Start, AssemblyFields
<1> HIDE DEF empty
<1> QED BY <1>1, <1>2, <1>3 DEF Keyed

(* A sequence with one element replaced, or one more, and what it holds.     *)
Put(s, k, x) == IF k > Len(s) THEN Append(s, x) ELSE [s EXCEPT ![k] = x]
Changed(s, k, x) == [i \in DOMAIN s \cup {k} |-> IF i = k THEN x ELSE s[i]]

(* The two are the same. *)
LEMMA PutChanges ==
    ASSUME NEW S, NEW s \in Seq(S), NEW k \in 1..(Len(s) + 1), NEW x
    PROVE  Put(s, k, x) = Changed(s, k, x)
<1>1. Len(s) \in Nat /\ DOMAIN s = 1..Len(s)
  OBVIOUS
<1>2. CASE k > Len(s)
  <2> DEFINE t == Append(s, x)
  <2>1. k = Len(s) + 1 /\ Put(s, k, x) = t
    BY <1>1, <1>2 DEF Put
  <2>2. s \in Seq(S \cup {x})
    BY <1>1
  <2>3. /\ t \in Seq(S \cup {x}) /\ DOMAIN t = 1..(Len(s) + 1) /\ t[Len(s) + 1] = x
        /\ \A i \in 1..Len(s) : t[i] = s[i]
    BY <2>2
  <2>4. 1..(Len(s) + 1) = 1..Len(s) \cup {Len(s) + 1}
    BY <1>1
  <2> HIDE DEF t
  <2>5. t = [i \in 1..(Len(s) + 1) |-> t[i]]
    BY <2>3
  <2>6. t = Changed(s, k, x)
    BY <1>1, <2>1, <2>3, <2>4, <2>5 DEF Changed
  <2> QED BY <2>1, <2>6
<1>3. CASE ~(k > Len(s))
  <2>1. k \in 1..Len(s) /\ Put(s, k, x) = [s EXCEPT ![k] = x]
    BY <1>1, <1>3 DEF Put
  <2>2. s = [i \in 1..Len(s) |-> s[i]]
    OBVIOUS
  <2>3. [s EXCEPT ![k] = x] = [i \in 1..Len(s) |-> IF i = k THEN x ELSE s[i]]
    BY <1>1, <2>1, <2>2
  <2>4. 1..Len(s) = 1..Len(s) \cup {k}
    BY <2>1
  <2> QED BY <1>1, <2>1, <2>3, <2>4 DEF Changed
<1> QED BY <1>2, <1>3

(* It is still a sequence. *)
LEMMA PutType ==
    ASSUME NEW S, NEW s \in Seq(S), NEW k \in 1..(Len(s) + 1), NEW x
    PROVE  Changed(s, k, x) \in Seq(S \cup {x})
<1>1. Len(s) \in Nat /\ DOMAIN s = 1..Len(s) /\ \A i \in 1..Len(s) : s[i] \in S
  OBVIOUS
<1>2. PICK n \in Nat : DOMAIN s \cup {k} = 1..n
  <2>1. CASE k = Len(s) + 1
    <3>1. 1..(Len(s) + 1) = 1..Len(s) \cup {k}
      BY <1>1, <2>1
    <3> QED BY <1>1, <3>1
  <2>2. CASE k # Len(s) + 1
    <3>1. DOMAIN s \cup {k} = 1..Len(s)
      BY <1>1, <2>2
    <3> QED BY <1>1, <3>1
  <2> QED BY <2>1, <2>2
<1>3. Changed(s, k, x) \in [1..n -> S \cup {x}]
  BY <1>1, <1>2 DEF Changed
<1> QED BY <1>3

(* A place is taken or the next one. *)
LEMMA Placed ==
    ASSUME NEW a, Keyed(a), NEW id, NEW index
    PROVE  /\ Len(a.builders) \in Nat /\ DOMAIN a.builders = 1..Len(a.builders)
           /\ Place(a, id, index) \in 1..(Len(a.builders) + 1)
           /\ id \in DOMAIN a.idKeys => Place(a, id, index) = a.idKeys[id]
           /\ /\ Place(a, id, index) \in DOMAIN a.builders
              /\ id \notin DOMAIN a.idKeys
              => /\ index # NoIndex /\ index \in DOMAIN a.indexKeys
                 /\ Place(a, id, index) = a.indexKeys[index]
<1>1. PICK S : a.builders \in Seq(S)
  BY DEF Keyed
<1>2. Len(a.builders) \in Nat /\ DOMAIN a.builders = 1..Len(a.builders)
  BY <1>1
<1>3. /\ \A x \in DOMAIN a.idKeys : a.idKeys[x] \in 1..Len(a.builders)
      /\ \A x \in DOMAIN a.indexKeys : x # NoIndex /\ a.indexKeys[x] \in 1..Len(a.builders)
  BY <1>2 DEF Keyed
<1> QED BY <1>2, <1>3 DEF Place, Lookup, None

(* What a is once the builder at k has become r, with keys of their own.     *)
LEMMA RebuiltKeyed ==
    ASSUME NEW a, Keyed(a), NEW k \in 1..(Len(a.builders) + 1), NEW r, DOMAIN r = BuilderFields,
           NEW g, DOMAIN g = AssemblyFields, g.builders = Put(a.builders, k, r),
           \A x \in DOMAIN g.idKeys : x # None /\ g.idKeys[x] \in DOMAIN a.builders \cup {k},
           \A x \in DOMAIN g.indexKeys : x # NoIndex /\ g.indexKeys[x] \in DOMAIN a.builders \cup {k},
           Named(g, k), \A j \in DOMAIN a.builders : j # k /\ Named(a, j) => Named(g, j)
    PROVE  Keyed(g)
<1>1. PICK S : a.builders \in Seq(S)
  BY DEF Keyed
<1>2. g.builders = Changed(a.builders, k, r)
  BY <1>1, PutChanges
<1>3. g.builders \in Seq(S \cup {r})
  BY <1>1, <1>2, PutType
<1>4. /\ DOMAIN g.builders = DOMAIN a.builders \cup {k}
      /\ \A j \in DOMAIN g.builders : g.builders[j] = IF j = k THEN r ELSE a.builders[j]
  BY <1>2 DEF Changed
<1>5. \A j \in DOMAIN g.builders : DOMAIN g.builders[j] = BuilderFields
  BY <1>4 DEF Keyed
<1>6. \A j \in DOMAIN g.builders : Named(g, j)
  BY <1>4 DEF Keyed
<1> QED BY <1>3, <1>4, <1>5, <1>6 DEF Keyed

(* The builder that ensureToolCallBuilder finds or makes, and leaves. *)
Found(a, id, index) ==
    IF Place(a, id, index) > Len(a.builders)
    THEN [id |-> id, index |-> index, name |-> None, args |-> << >>,
          full |-> FALSE, whole |-> FALSE, conflict |-> FALSE]
    ELSE a.builders[Place(a, id, index)]
Left(a, id, index) ==
    IF Conflict(a, id, index) THEN [Found(a, id, index) EXCEPT !.conflict = TRUE]
    ELSE [Found(a, id, index) EXCEPT !.id = IF id # None THEN id ELSE @,
                                     !.index = IF index # NoIndex THEN index ELSE @]

(* What it changes. *)
LEMMA EnsureFields ==
    ASSUME NEW a, DOMAIN a = AssemblyFields, NEW id, NEW index,
           NEW f, f = ensureToolCallBuilder(a, id, index)
    PROVE  /\ DOMAIN f = AssemblyFields
           /\ f.builders = Put(a.builders, Place(a, id, index), Left(a, id, index))
           /\ f.idKeys = IF id # None /\ ~Conflict(a, id, index)
                         THEN Bind(a.idKeys, id, Place(a, id, index)) ELSE a.idKeys
           /\ f.indexKeys = IF index # NoIndex /\ ~Conflict(a, id, index)
                            THEN Bind(a.indexKeys, index, Place(a, id, index)) ELSE a.indexKeys
           /\ f.duplicate = a.duplicate /\ f.terminal = a.terminal
<1> DEFINE at == Place(a, id, index)
           bs == IF at > Len(a.builders) THEN Append(a.builders, Left(a, id, index))
                 ELSE [a.builders EXCEPT ![at] = Left(a, id, index)]
           ids == IF id # None /\ ~Conflict(a, id, index) THEN Bind(a.idKeys, id, at) ELSE a.idKeys
           ixs == IF index # NoIndex /\ ~Conflict(a, id, index) THEN Bind(a.indexKeys, index, at)
                  ELSE a.indexKeys
<1>1. f = [a EXCEPT !.builders = bs, !.idKeys = ids, !.indexKeys = ixs]
  BY DEF ensureToolCallBuilder, Left, Found
<1>2. bs = Put(a.builders, at, Left(a, id, index))
  BY DEF Put
<1> HIDE DEF bs, ids, ixs
<1>3. /\ DOMAIN f = AssemblyFields /\ f.builders = bs /\ f.idKeys = ids /\ f.indexKeys = ixs
      /\ f.duplicate = a.duplicate /\ f.terminal = a.terminal
  BY <1>1 DEF AssemblyFields
<1> QED BY <1>2, <1>3 DEF ids, ixs

(* The builder that it leaves.  Unless the event is in conflict with it, it   *)
(* has the event's ID.                                                      *)
LEMMA LeftBuilder ==
    ASSUME NEW a, Keyed(a), NEW id, NEW index
    PROVE  /\ DOMAIN Left(a, id, index) = BuilderFields
           /\ Left(a, id, index).args = Found(a, id, index).args
           /\ Left(a, id, index).full = Found(a, id, index).full
           /\ Left(a, id, index).whole = Found(a, id, index).whole
           /\ IF Conflict(a, id, index)
              THEN Left(a, id, index).conflict /\ Left(a, id, index).id = Found(a, id, index).id
              ELSE /\ Left(a, id, index).conflict = Found(a, id, index).conflict
                   /\ Left(a, id, index).id = IF id # None THEN id ELSE Found(a, id, index).id
<1> DEFINE b == Found(a, id, index)
<1>1. DOMAIN b = BuilderFields
  BY Placed DEF Found, Keyed, BuilderFields
<1> HIDE DEF b
<1>2. Left(a, id, index) = IF Conflict(a, id, index) THEN [b EXCEPT !.conflict = TRUE]
          ELSE [b EXCEPT !.id = IF id # None THEN id ELSE b.id,
                         !.index = IF index # NoIndex THEN index ELSE b.index]
  BY DEF Left, b
<1>3. CASE Conflict(a, id, index)
  BY <1>1, <1>2, <1>3 DEF BuilderFields, b
<1>4. CASE ~Conflict(a, id, index)
  BY <1>1, <1>2, <1>4 DEF BuilderFields, b
<1> QED BY <1>3, <1>4
(* It leaves the calls with keys of their own.                               *)
LEMMA EnsureKeyed ==
    ASSUME NEW a, Keyed(a), NEW id, NEW index
    PROVE  Keyed(ensureToolCallBuilder(a, id, index))
<1> DEFINE f == ensureToolCallBuilder(a, id, index)
           at == Place(a, id, index)
           r == Left(a, id, index)
           b == Found(a, id, index)
           bad == Conflict(a, id, index)
<1>1. /\ DOMAIN f = AssemblyFields /\ f.builders = Put(a.builders, at, r)
      /\ f.idKeys = IF id # None /\ ~bad THEN Bind(a.idKeys, id, at) ELSE a.idKeys
      /\ f.indexKeys = IF index # NoIndex /\ ~bad THEN Bind(a.indexKeys, index, at) ELSE a.indexKeys
  <2>1. DOMAIN a = AssemblyFields
    BY DEF Keyed
  <2> QED BY <2>1, EnsureFields
<1>2. /\ DOMAIN a.builders = 1..Len(a.builders) /\ Len(a.builders) \in Nat
      /\ at \in 1..(Len(a.builders) + 1)
      /\ id \in DOMAIN a.idKeys => at = a.idKeys[id]
      /\ at \in DOMAIN a.builders /\ id \notin DOMAIN a.idKeys
         => index # NoIndex /\ index \in DOMAIN a.indexKeys /\ at = a.indexKeys[index]
  BY Placed
<1>3. /\ DOMAIN r = BuilderFields
      /\ IF bad THEN r.conflict /\ r.id = b.id
         ELSE r.conflict = b.conflict /\ r.id = IF id # None THEN id ELSE b.id
  BY LeftBuilder
<1>4. IF at > Len(a.builders) THEN b.id = id /\ b.conflict = FALSE ELSE b = a.builders[at]
  BY DEF Found
<1>5. PICK S : a.builders \in Seq(S)
  BY DEF Keyed
<1>6. f.builders = Changed(a.builders, at, r)
  BY <1>1, <1>2, <1>5, PutChanges
<1>7. /\ f.builders[at] = r
      /\ \A j \in DOMAIN a.builders : j # at => f.builders[j] = a.builders[j]
  BY <1>6 DEF Changed
<1>8. /\ \A x \in DOMAIN a.idKeys : x # None /\ a.idKeys[x] \in DOMAIN a.builders
      /\ \A x \in DOMAIN a.indexKeys : x # NoIndex /\ a.indexKeys[x] \in DOMAIN a.builders
      /\ \A k \in DOMAIN a.builders : Named(a, k)
  BY DEF Keyed
<1>9. \A x \in DOMAIN f.idKeys : x # None /\ f.idKeys[x] \in DOMAIN a.builders \cup {at}
  BY <1>1, <1>8 DEF Bind
<1>10. \A x \in DOMAIN f.indexKeys : x # NoIndex /\ f.indexKeys[x] \in DOMAIN a.builders \cup {at}
  BY <1>1, <1>8 DEF Bind
<1>11. ASSUME ~bad, index # NoIndex, id # None, id \notin DOMAIN a.idKeys, at \in DOMAIN a.builders
       PROVE  b.id \in {None, id}
  <2>1. Lookup(a.idKeys, id) = None /\ Lookup(a.indexKeys, index) = at /\ at # None
    BY <1>2, <1>11 DEF Lookup, None
  <2>2. a.builders[at].id \in {None, id}
    BY <1>11, <2>1 DEF Conflict
  <2> QED BY <1>2, <1>4, <1>11, <2>2
<1> HIDE DEF f, at, r, b, bad
<1>12. Named(f, at)
  <2>1. CASE bad \/ b.conflict
    BY <1>3, <1>7, <2>1 DEF Named
  <2>2. CASE ~bad /\ ~b.conflict /\ at \in DOMAIN a.builders
    <3>1. /\ b.id # None => b.id \in DOMAIN a.idKeys /\ a.idKeys[b.id] = at
          /\ \A x \in DOMAIN a.idKeys : a.idKeys[x] = at => b.id = x
      BY <1>2, <1>4, <1>8, <2>2 DEF Named
    <3>2. CASE id = None
      BY <1>1, <1>3, <1>7, <3>1, <3>2, <2>2 DEF Named
    <3>3. CASE id # None
      <4>1. b.id \in {None, id}
        BY <1>2, <1>11, <2>2, <3>1, <3>3
      <4>2. f.idKeys = Bind(a.idKeys, id, at) /\ r.id = id
        BY <1>1, <1>3, <2>2, <3>3
      <4>3. id \in DOMAIN f.idKeys /\ f.idKeys[id] = at
        BY <4>2 DEF Bind
      <4>4. ASSUME NEW x \in DOMAIN f.idKeys, f.idKeys[x] = at, x # id PROVE FALSE
        <5>1. x \in DOMAIN a.idKeys /\ a.idKeys[x] = at
          BY <4>2, <4>4 DEF Bind
        <5> QED BY <1>8, <3>1, <4>1, <4>4, <5>1
      <4> QED BY <1>7, <4>2, <4>3, <4>4 DEF Named
    <3> QED BY <3>2, <3>3
  <2>3. CASE ~bad /\ ~b.conflict /\ at \notin DOMAIN a.builders
    <3>1. b.id = id /\ r.id = id /\ \A x \in DOMAIN a.idKeys : a.idKeys[x] # at
      BY <1>2, <1>3, <1>4, <1>8, <2>3
    <3>2. CASE id = None
      BY <1>1, <1>7, <3>1, <3>2 DEF Named
    <3>3. CASE id # None
      BY <1>1, <1>7, <2>3, <3>1, <3>3 DEF Named, Bind
    <3> QED BY <3>2, <3>3
  <2> QED BY <2>1, <2>2, <2>3
<1>13. ASSUME NEW j \in DOMAIN a.builders, j # at, Named(a, j) PROVE Named(f, j)
  <2>1. CASE id # None /\ ~bad
    <3>1. f.idKeys = Bind(a.idKeys, id, at) /\ (id \in DOMAIN a.idKeys => at = a.idKeys[id])
      BY <1>1, <1>2, <2>1
    <3> QED BY <1>7, <1>13, <3>1 DEF Named, Bind
  <2>2. CASE ~(id # None /\ ~bad)
    BY <1>1, <1>7, <1>13, <2>2 DEF Named
  <2> QED BY <2>1, <2>2
<1>14. Keyed(f)
  BY <1>1, <1>2, <1>3, <1>9, <1>10, <1>12, <1>13, RebuiltKeyed
<1> QED BY <1>14 DEF f
(* b is still the builder it was, or in conflict. *)
Kept(b, d) ==
    \/ d.conflict
    \/ ~b.conflict /\ d.args = b.args /\ d.full = b.full /\ d.whole = b.whole
       /\ (b.id # None => d.id = b.id)

(* The builder it answers is the event's, and every other stays as it was.   *)
LEMMA Ensured ==
    ASSUME NEW a, Keyed(a), NEW id, NEW index,
           NEW f, f = ensureToolCallBuilder(a, id, index), NEW at, at = Place(a, id, index)
    PROVE  /\ f.duplicate = a.duplicate
           /\ at \in DOMAIN f.builders /\ DOMAIN a.builders \subseteq DOMAIN f.builders
           /\ f.builders[at].conflict \/ id = None \/ f.builders[at].id = id
           /\ \A k \in DOMAIN a.builders : Kept(a.builders[k], f.builders[k])
<1> DEFINE r == Left(a, id, index)
           b == Found(a, id, index)
           bad == Conflict(a, id, index)
<1>1. /\ f.builders = Put(a.builders, at, r) /\ f.duplicate = a.duplicate
      /\ f.idKeys = IF id # None /\ ~bad THEN Bind(a.idKeys, id, at) ELSE a.idKeys
  <2>1. DOMAIN a = AssemblyFields
    BY DEF Keyed
  <2> QED BY <2>1, EnsureFields
<1>2. /\ DOMAIN a.builders = 1..Len(a.builders) /\ Len(a.builders) \in Nat
      /\ at \in 1..(Len(a.builders) + 1)
  BY Placed
<1>3. /\ r.args = b.args /\ r.full = b.full /\ r.whole = b.whole
      /\ IF bad THEN r.conflict /\ r.id = b.id
         ELSE r.conflict = b.conflict /\ r.id = IF id # None THEN id ELSE b.id
  BY LeftBuilder
<1>4. at \in DOMAIN a.builders => b = a.builders[at]
  BY <1>2 DEF Found
<1>5. PICK S : a.builders \in Seq(S)
  BY DEF Keyed
<1>6. f.builders = Changed(a.builders, at, r)
  BY <1>1, <1>2, <1>5, PutChanges
<1>7. /\ f.builders[at] = r /\ DOMAIN f.builders = DOMAIN a.builders \cup {at}
      /\ \A j \in DOMAIN a.builders : j # at => f.builders[j] = a.builders[j]
  BY <1>6 DEF Changed
<1>8. Keyed(f) /\ Named(f, at)
  <2>1. Keyed(f)
    BY EnsureKeyed
  <2> QED BY <1>7, <2>1 DEF Keyed
<1> HIDE DEF r, b, bad
<1>9. f.builders[at].conflict \/ id = None \/ f.builders[at].id = id
  BY <1>3, <1>7
<1>10. ASSUME NEW k \in DOMAIN a.builders PROVE Kept(a.builders[k], f.builders[k])
  <2>1. CASE k # at
    BY <1>7, <2>1 DEF Kept
  <2>2. CASE k = at /\ ~r.conflict
    <3>1. ~bad /\ ~b.conflict /\ b = a.builders[at]
      BY <1>3, <1>4, <1>10, <2>2
    <3>2. ASSUME b.id # None PROVE r.id = b.id
      <4>1. b.id \in DOMAIN a.idKeys /\ a.idKeys[b.id] = at
        BY <3>1, <3>2, <1>10, <2>2 DEF Keyed, Named
      <4>2. b.id \in DOMAIN f.idKeys /\ f.idKeys[b.id] = at
        BY <1>1, <4>1 DEF Bind
      <4> QED BY <1>7, <1>8, <2>2, <4>2 DEF Named
    <3> QED BY <1>3, <1>7, <2>2, <3>1, <3>2 DEF Kept
  <2>3. CASE k = at /\ r.conflict
    BY <1>7, <2>3 DEF Kept
  <2> QED BY <2>1, <2>2, <2>3
<1> QED BY <1>1, <1>7, <1>9, <1>10

(* The handlers may then rewrite the builder, but for its ID.                *)
LEMMA ReplaceKeyed ==
    ASSUME NEW f, Keyed(f), NEW at \in DOMAIN f.builders, NEW r, DOMAIN r = BuilderFields,
           r.conflict = f.builders[at].conflict, r.conflict \/ r.id = f.builders[at].id
    PROVE  /\ Keyed([f EXCEPT !.builders[at] = r])
           /\ [f EXCEPT !.builders[at] = r].builders = [f.builders EXCEPT ![at] = r]
           /\ [f EXCEPT !.builders[at] = r].duplicate = f.duplicate
<1> DEFINE g == [f EXCEPT !.builders[at] = r]
           bs == [f.builders EXCEPT ![at] = r]
<1>1. DOMAIN f = AssemblyFields
  BY DEF Keyed
<1>2. PICK S : f.builders \in Seq(S)
  BY DEF Keyed
<1>3. DOMAIN f.builders = 1..Len(f.builders) /\ Len(f.builders) \in Nat
  BY <1>2
<1>4. at \in 1..(Len(f.builders) + 1) /\ ~(at > Len(f.builders))
  BY <1>3
<1>5. bs = Put(f.builders, at, r)
  BY <1>4 DEF Put
<1>6. DOMAIN f.builders \cup {at} = DOMAIN f.builders
  OBVIOUS
<1>7. g = [f EXCEPT !.builders = bs]
  OBVIOUS
<1> HIDE DEF bs
<1>8. /\ DOMAIN g = AssemblyFields /\ g.builders = bs /\ g.idKeys = f.idKeys
      /\ g.indexKeys = f.indexKeys /\ g.duplicate = f.duplicate
  BY <1>1, <1>7 DEF AssemblyFields
<1> HIDE DEF g
<1>9. g.builders[at] = r /\ \A j \in DOMAIN f.builders : j # at => g.builders[j] = f.builders[j]
  BY <1>8 DEF bs
<1>10. Named(f, at)
  BY DEF Keyed
<1>11. Named(g, at)
  BY <1>8, <1>9, <1>10 DEF Named
<1>12. \A j \in DOMAIN f.builders : j # at /\ Named(f, j) => Named(g, j)
  BY <1>8, <1>9 DEF Named
<1>13. /\ \A x \in DOMAIN g.idKeys : x # None /\ g.idKeys[x] \in DOMAIN f.builders \cup {at}
       /\ \A x \in DOMAIN g.indexKeys : x # NoIndex /\ g.indexKeys[x] \in DOMAIN f.builders \cup {at}
  BY <1>6, <1>8 DEF Keyed
<1>14. g.builders = Put(f.builders, at, r)
  BY <1>5, <1>8
<1>15. Keyed(g)
  BY <1>4, <1>8, <1>11, <1>12, <1>13, <1>14, RebuiltKeyed
<1> QED BY <1>8, <1>15 DEF g, bs
(* The calls and their keys are as they were. *)
LEMMA SameKeyed ==
    ASSUME NEW f, Keyed(f), NEW g, DOMAIN g = AssemblyFields,
           g.builders = f.builders, g.idKeys = f.idKeys, g.indexKeys = f.indexKeys
    PROVE  Keyed(g)
BY DEF Keyed, Named

(* From a to g, calls keep their keys; what was settled or spoiled stays so. *)
Advanced(a, g) ==
    /\ Keyed(g)
    /\ Spoiled(a) => Spoiled(g)
    /\ \A c, args : c # None /\ Settled(a, c, args) => Settled(g, c, args)

(* When a builder that had no whole call is rewritten after ensure.          *)
LEMMA Rewritten ==
    ASSUME NEW a, Keyed(a), NEW id, NEW index,
           NEW f, f = ensureToolCallBuilder(a, id, index), NEW at, at = Place(a, id, index),
           NEW r, DOMAIN r = BuilderFields,
           r.conflict = f.builders[at].conflict, r.conflict \/ r.id = f.builders[at].id,
           ~(f.builders[at].full /\ f.builders[at].whole),
           NEW g, g = [f EXCEPT !.builders[at] = r]
    PROVE  Advanced(a, g)
<1>1. /\ Keyed(f) /\ f.duplicate = a.duplicate
      /\ at \in DOMAIN f.builders /\ DOMAIN a.builders \subseteq DOMAIN f.builders
      /\ \A k \in DOMAIN a.builders : Kept(a.builders[k], f.builders[k])
  BY EnsureKeyed, Ensured
<1>2. Keyed(g) /\ g.builders = [f.builders EXCEPT ![at] = r] /\ g.duplicate = f.duplicate
  BY <1>1, ReplaceKeyed
<1>3. /\ DOMAIN g.builders = DOMAIN f.builders /\ g.builders[at] = r
      /\ \A k \in DOMAIN f.builders : k # at => g.builders[k] = f.builders[k]
  BY <1>1, <1>2
<1>4. ASSUME Spoiled(a) PROVE Spoiled(g)
  <2>1. CASE a.duplicate
    BY <1>1, <1>2, <2>1 DEF Spoiled
  <2>2. CASE \E k \in DOMAIN a.builders : a.builders[k].conflict
    <3>1. PICK k \in DOMAIN a.builders : a.builders[k].conflict
      BY <2>2
    <3>2. f.builders[k].conflict
      BY <1>1, <3>1 DEF Kept
    <3> QED BY <1>1, <1>3, <3>2 DEF Spoiled
  <2> QED BY <1>4, <2>1, <2>2 DEF Spoiled
<1>5. ASSUME NEW c, NEW args, c # None, Settled(a, c, args) PROVE Settled(g, c, args)
  <2>1. CASE Spoiled(a)
    BY <1>4, <2>1 DEF Settled
  <2>2. CASE ~Spoiled(a)
    <3>1. PICK k \in DOMAIN a.builders :
              /\ a.builders[k].id = c /\ a.builders[k].args = args
              /\ a.builders[k].full /\ a.builders[k].whole
      BY <1>5, <2>2 DEF Settled
    <3>2. CASE f.builders[k].conflict
      BY <1>1, <1>3, <3>1, <3>2 DEF Settled, Spoiled
    <3>3. CASE ~f.builders[k].conflict
      <4>1. /\ f.builders[k].id = c /\ f.builders[k].args = args
            /\ f.builders[k].full /\ f.builders[k].whole
        BY <1>1, <1>5, <3>1, <3>3 DEF Kept
      <4>2. k # at /\ k \in DOMAIN f.builders
        BY <1>1, <4>1
      <4>3. g.builders[k] = f.builders[k] /\ k \in DOMAIN g.builders
        BY <1>3, <4>2
      <4> QED BY <4>1, <4>3 DEF Settled
    <3> QED BY <3>2, <3>3
  <2> QED BY <2>1, <2>2
<1> QED BY <1>1, <1>2, <1>3, <1>4, <1>5 DEF Advanced

(* ensureToolCallBuilder alone. *)
LEMMA EnsureAdvances ==
    ASSUME NEW a, Keyed(a), NEW id, NEW index
    PROVE  Advanced(a, ensureToolCallBuilder(a, id, index))
<1> DEFINE f == ensureToolCallBuilder(a, id, index)
<1>1. /\ Keyed(f) /\ f.duplicate = a.duplicate
      /\ DOMAIN a.builders \subseteq DOMAIN f.builders
      /\ \A k \in DOMAIN a.builders : Kept(a.builders[k], f.builders[k])
  BY EnsureKeyed, Ensured
<1> HIDE DEF f
<1>2. Spoiled(a) => Spoiled(f)
  BY <1>1 DEF Spoiled, Kept
<1>3. ASSUME NEW c, NEW args, c # None, Settled(a, c, args) PROVE Settled(f, c, args)
  <2>1. CASE Spoiled(a)
    BY <1>2, <2>1 DEF Settled
  <2>2. CASE ~Spoiled(a)
    <3>1. PICK k \in DOMAIN a.builders :
              /\ a.builders[k].id = c /\ a.builders[k].args = args
              /\ a.builders[k].full /\ a.builders[k].whole
      BY <1>3, <2>2 DEF Settled
    <3>2. Kept(a.builders[k], f.builders[k]) /\ k \in DOMAIN f.builders
      BY <1>1, <3>1
    <3> QED BY <1>3, <3>1, <3>2 DEF Kept, Settled, Spoiled
  <2> QED BY <2>1, <2>2
<1> QED BY <1>1, <1>2, <1>3 DEF Advanced, f
(* A complete call settles the call it names. *)
LEMMA CallApplied ==
    ASSUME NEW a, Keyed(a), NEW e
    PROVE  /\ Advanced(a, applyToolCallEvent(a, e))
           /\ e.id # None /\ e.args # << >> => Settled(applyToolCallEvent(a, e), e.id, e.args)
<1> DEFINE at == Place(a, e.id, NoIndex)
           f == ensureToolCallBuilder(a, e.id, NoIndex)
           b == f.builders[at]
           r == [b EXCEPT !.full = TRUE,
                          !.id = IF e.id # None THEN e.id ELSE b.id,
                          !.name = IF e.name # None THEN e.name ELSE b.name,
                          !.args = IF e.args # << >> THEN e.args ELSE b.args,
                          !.whole = e.args # << >>]
           g == applyToolCallEvent(a, e)
<1>1. g = IF b.full THEN [f EXCEPT !.duplicate = TRUE] ELSE [f EXCEPT !.builders[at] = r]
  BY DEF applyToolCallEvent
<1>2. /\ Keyed(f) /\ Advanced(a, f) /\ at \in DOMAIN f.builders
      /\ b.conflict \/ e.id = None \/ b.id = e.id
  BY EnsureKeyed, EnsureAdvances, Ensured
<1>3. DOMAIN b = BuilderFields
  BY <1>2 DEF Keyed
<1>4. /\ f = ensureToolCallBuilder(a, e.id, NoIndex) /\ at = Place(a, e.id, NoIndex)
      /\ b = f.builders[at]
  OBVIOUS
<1> HIDE DEF f, b, at, g
<1>5. /\ DOMAIN r = BuilderFields /\ r.conflict = b.conflict
      /\ r.id = IF e.id # None THEN e.id ELSE b.id
      /\ e.args # << >> => r.args = e.args /\ r.full /\ r.whole
  BY <1>3 DEF BuilderFields
<1>6. CASE b.full
  <2>1. g = [f EXCEPT !.duplicate = TRUE]
    BY <1>1, <1>6
  <2>2. DOMAIN f = AssemblyFields
    BY <1>2 DEF Keyed
  <2>3. /\ DOMAIN g = AssemblyFields /\ g.builders = f.builders /\ g.idKeys = f.idKeys
        /\ g.indexKeys = f.indexKeys /\ g.duplicate
    BY <2>1, <2>2 DEF AssemblyFields
  <2>4. Keyed(g)
    BY <1>2, <2>3, SameKeyed
  <2>5. Spoiled(g)
    BY <2>3 DEF Spoiled
  <2>6. \A c, args : Settled(g, c, args)
    BY <2>5 DEF Settled
  <2> QED BY <2>4, <2>5, <2>6 DEF Advanced, g
<1>7. CASE ~b.full
  <2>1. g = [f EXCEPT !.builders[at] = r]
    BY <1>1, <1>7
  <2>2. r.conflict \/ r.id = b.id
    BY <1>2, <1>5
  <2> HIDE DEF r
  <2>3. Advanced(a, g) /\ at \in DOMAIN g.builders /\ g.builders[at] = r
    <3>1. /\ r.conflict = f.builders[at].conflict
          /\ r.conflict \/ r.id = f.builders[at].id
          /\ ~(f.builders[at].full /\ f.builders[at].whole)
      BY <1>4, <1>5, <1>7, <2>2
    <3>2. Advanced(a, g)
      BY <1>4, <1>5, <2>1, <3>1, Rewritten
    <3>3. g.builders = [f.builders EXCEPT ![at] = r]
      BY <1>2, <1>5, <2>1, <3>1, ReplaceKeyed
    <3> QED BY <1>2, <3>2, <3>3
  <2>4. ASSUME e.id # None, e.args # << >> PROVE Settled(g, e.id, e.args)
    BY <1>5, <2>3, <2>4 DEF Settled
  <2> QED BY <2>3, <2>4 DEF g
<1> QED BY <1>6, <1>7 DEF g

(* A fragment changes no call that is whole. *)
LEMMA DeltaApplied ==
    ASSUME NEW a, Keyed(a), NEW e
    PROVE  Advanced(a, applyToolCallDeltaEvent(a, e))
<1> DEFINE at == Place(a, e.id, e.index)
           f == ensureToolCallBuilder(a, e.id, e.index)
           b == f.builders[at]
           r == [b EXCEPT !.id = IF e.id # None THEN e.id ELSE b.id,
                          !.index = IF e.index # NoIndex THEN e.index ELSE b.index,
                          !.name = IF e.name # None THEN e.name ELSE b.name,
                          !.args = b.args \o e.args]
           g == applyToolCallDeltaEvent(a, e)
<1>1. g = IF b.whole THEN f ELSE [f EXCEPT !.builders[at] = r]
  BY DEF applyToolCallDeltaEvent
<1>2. /\ Keyed(f) /\ Advanced(a, f) /\ at \in DOMAIN f.builders
      /\ b.conflict \/ e.id = None \/ b.id = e.id
  BY EnsureKeyed, EnsureAdvances, Ensured
<1>3. DOMAIN b = BuilderFields
  BY <1>2 DEF Keyed
<1>4. /\ f = ensureToolCallBuilder(a, e.id, e.index) /\ at = Place(a, e.id, e.index)
      /\ b = f.builders[at]
  OBVIOUS
<1> HIDE DEF f, b, at, g
<1>5. /\ DOMAIN r = BuilderFields /\ r.conflict = b.conflict
      /\ r.id = IF e.id # None THEN e.id ELSE b.id
  BY <1>3 DEF BuilderFields
<1>6. CASE b.whole
  BY <1>1, <1>2, <1>6 DEF g
<1>7. CASE ~b.whole
  <2>1. g = [f EXCEPT !.builders[at] = r]
    BY <1>1, <1>7
  <2>2. r.conflict \/ r.id = b.id
    BY <1>2, <1>5
  <2> HIDE DEF r
  <2>3. Advanced(a, g)
    BY <1>4, <1>5, <1>7, <2>1, <2>2, Rewritten
  <2> QED BY <2>3 DEF g
<1> QED BY <1>6, <1>7

(* Any event. *)
LEMMA ApplyAdvances ==
    ASSUME NEW a, Keyed(a), NEW e
    PROVE  /\ Advanced(a, Apply(a, e))
           /\ e.kind = "call" /\ e.id # None /\ e.args # << >> => Settled(Apply(a, e), e.id, e.args)
<1> DEFINE b == CASE e.kind = "call" -> applyToolCallEvent(a, e)
                  [] e.kind = "delta" -> applyToolCallDeltaEvent(a, e)
                  [] OTHER -> a
           g == Apply(a, e)
<1>1. Advanced(a, a)
  BY DEF Advanced
<1>2. /\ Advanced(a, b)
      /\ e.kind = "call" /\ e.id # None /\ e.args # << >> => Settled(b, e.id, e.args)
  <2>1. CASE e.kind = "call"
    BY <2>1, CallApplied
  <2>2. CASE e.kind = "delta"
    BY <2>2, DeltaApplied
  <2>3. CASE e.kind \notin {"call", "delta"}
    BY <1>1, <2>3
  <2> QED BY <2>1, <2>2, <2>3
<1>3. g = [b EXCEPT !.terminal = Terminal(a, e)]
  BY DEF Apply
<1> HIDE DEF b, g
<1>4. Keyed(b) /\ DOMAIN b = AssemblyFields
  BY <1>2 DEF Advanced, Keyed
<1>5. /\ DOMAIN g = AssemblyFields /\ g.builders = b.builders /\ g.idKeys = b.idKeys
      /\ g.indexKeys = b.indexKeys /\ g.duplicate = b.duplicate
  BY <1>3, <1>4 DEF AssemblyFields
<1>6. Keyed(g)
  BY <1>4, <1>5, SameKeyed
<1>7. Spoiled(g) <=> Spoiled(b)
  BY <1>5 DEF Spoiled
<1>8. \A c, args : Settled(b, c, args) => Settled(g, c, args)
  BY <1>5, <1>7 DEF Settled
<1>9. Advanced(a, g) /\ (e.kind = "call" /\ e.id # None /\ e.args # << >> => Settled(g, e.id, e.args))
  BY <1>2, <1>6, <1>7, <1>8 DEF Advanced
<1> QED BY <1>9 DEF g
-----------------------------------------------------------------------------
(* What the assembly says at the end. *)

(* There are finitely many calls, None is not one, and arguments that are     *)
(* valid JSON are not empty.                                                *)
LEMMA CallFacts ==
    /\ IsFiniteSet(Calls) /\ None \notin Calls
    /\ \A args : Valid(args) => args # << >>
<1>1. Calls = 1..Len(Frags) /\ Len(Frags) \in Nat /\ \A c \in Calls : Frags[c] \in Nat
  BY FragsAssumption DEF Calls
<1>2. IsFiniteSet(Calls)
  BY <1>1, FS_Interval, 1 \in Int, Len(Frags) \in Int
<1>3. ASSUME NEW c \in Calls, Frags[c] > 0 PROVE Full(c) # << >>
  <2>1. 1 \in DOMAIN Full(c)
    BY <1>1, <1>3 DEF Full
  <2> QED BY <2>1
<1>4. EmptyObject # << >>
  BY DEF EmptyObject
<1>5. None \notin Calls
  BY <1>1 DEF None
<1> QED BY <1>2, <1>3, <1>4, <1>5 DEF Valid

(* The calls of a response that has some have each an ID of their own, and    *)
(* what was settled is what they say.                                       *)
LEMMA TurnCallsNamed ==
    ASSUME Keyed(assembly), TurnCalls # << >>
    PROVE  /\ Len(TurnCalls) \in Nat /\ DOMAIN TurnCalls = 1..Len(TurnCalls)
           /\ \A i, j \in DOMAIN TurnCalls : TurnCalls[i].id = TurnCalls[j].id => i = j
           /\ \A c, args : Settled(assembly, c, args) =>
                  \E i \in DOMAIN TurnCalls : TurnCalls[i].id = c /\ TurnCalls[i].args = args
<1> DEFINE bs == assembly.builders
<1>1. /\ Outcome(assembly) # "failed"
      /\ TurnCalls = [i \in DOMAIN bs |-> Called(bs[i])]
  BY DEF TurnCalls, ToolCalls
<1>2. ~assembly.duplicate /\ \A i \in DOMAIN bs : ~bs[i].conflict /\ bs[i].id # None
  BY <1>1 DEF Outcome, Unidentified
<1>3. PICK S : bs \in Seq(S)
  BY DEF Keyed
<1>4. DOMAIN bs = 1..Len(bs) /\ Len(bs) \in Nat
  BY <1>3
<1>5. \A i \in DOMAIN TurnCalls : TurnCalls[i].id = bs[i].id /\ TurnCalls[i].args = bs[i].args
  BY <1>1 DEF Called
<1>6. DOMAIN TurnCalls = DOMAIN bs
  BY <1>1
<1>7. Len(TurnCalls) \in Nat /\ DOMAIN TurnCalls = 1..Len(TurnCalls)
  <2> DEFINE T == {Called(bs[i]) : i \in DOMAIN bs}
  <2>1. TurnCalls \in [1..Len(bs) -> T]
    BY <1>1, <1>4
  <2> HIDE DEF T
  <2>2. TurnCalls \in Seq(T)
    BY <1>4, <2>1
  <2> QED BY <2>2
<1>8. \A i, j \in DOMAIN bs : bs[i].id = bs[j].id => i = j
  BY <1>2 DEF Keyed, Named
<1>9. ASSUME NEW c, NEW args, Settled(assembly, c, args)
      PROVE  \E i \in DOMAIN bs : bs[i].id = c /\ bs[i].args = args
  BY <1>2, <1>9 DEF Settled, Spoiled
<1> HIDE DEF bs
<1> QED BY <1>5, <1>6, <1>7, <1>8, <1>9

(* An image is no larger than what it is the image of. *)
LEMMA ImageBounded ==
    ASSUME NEW S, IsFiniteSet(S), NEW g, S = DOMAIN g, g = [x \in S |-> g[x]]
    PROVE  /\ IsFiniteSet({g[x] : x \in S})
           /\ Cardinality({g[x] : x \in S}) <= Cardinality(S)
<1> DEFINE T == {g[x] : x \in S}
<1>1. g \in Surjection(S, T)
  BY DEF Surjection
<1> QED BY <1>1, FS_Surjection

(* Reading a frame leaves the assembly to the reader. *)
LEMMA RecvKeepsAssembly == Recv => assembly' = assembly
<1> SUFFICES ASSUME Recv PROVE assembly' = assembly
  OBVIOUS
<1>1. ASSUME NEW c \in Calls, chatItem(c) \/ outputItemDone(c) \/ argumentsDelta(c)
      PROVE  assembly' = assembly
  BY <1>1 DEF chatItem, outputItemDone, argumentsDelta, unread
<1>2. ASSUME NEW c \in Calls, NEW known \in BOOLEAN, outputItemAdded(c, known)
      PROVE  assembly' = assembly
  BY <1>2 DEF outputItemAdded, unread
<1>3. ASSUME NEW c \in Calls, NEW cut \in BOOLEAN, NEW fragment,
             blockStart(c, cut) \/ blockStop(c, cut) \/ blockDelta(c, fragment, cut)
      PROVE  assembly' = assembly
  BY <1>3 DEF blockStart, blockStop, blockDelta, unread
<1>4. ASSUME NEW reason, NEW cut \in BOOLEAN,
             chatFinish(reason) \/ responseEnds(reason) \/ messageDelta(reason, cut)
      PROVE  assembly' = assembly
  BY <1>4 DEF chatFinish, responseEnds, messageDelta, unread
<1>5. ASSUME NEW delta, chatContent(delta) PROVE assembly' = assembly
  BY <1>5 DEF chatContent, unread
<1>6. ASSUME NEW cut \in BOOLEAN, messageStop(cut) \/ errorFrame(cut) PROVE assembly' = assembly
  BY <1>6 DEF messageStop, errorFrame
<1>7. ASSUME chatDone \/ truncationShows \/ brokenFrame PROVE assembly' = assembly
  BY <1>7 DEF chatDone, truncationShows, brokenFrame, unread
<1> QED BY <1>1, <1>2, <1>3, <1>4, <1>5, <1>6, <1>7 DEF Recv
-----------------------------------------------------------------------------
(* The overlap. *)

EntryStates == {"none", "started", "deferred", "hookFailed", "executing", "returned", "failed"}

OverlapTypes ==
    /\ policy.safe \subseteq Calls /\ policy.room \in Nat
    /\ DOMAIN entries = Calls
    /\ \A c \in Calls : DOMAIN entries[c] = {"state", "op", "args"} /\ entries[c].state \in EntryStates
    /\ prepared \in [Calls -> Nat]
    /\ step \in {"collecting", "tools", "dispatching", "recorded", "answered", "failed"}

(* An entry is within the room, and has the arguments of a complete call.    *)
EntriesSettled ==
    /\ Cardinality(Entered) <= policy.room
    /\ \A c \in Entered : Settled(assembly, c, entries[c].args)

(* Until the rest of the turn is prepared, what is prepared has an entry.    *)
PreparedOnce ==
    \A c \in Calls :
        /\ prepared[c] <= 1
        /\ step \in {"collecting", "tools"} => prepared[c] = IF Entry(c) THEN 1 ELSE 0

EarlyRun(c) == Ran(c, entries[c].op, entries[c].args, TRUE)

(* Until the dispatch, what ran has an entry that was executed; what was      *)
(* executed ran.                                                            *)
RanEarly ==
    /\ step \in {"collecting", "tools", "dispatching", "answered"} =>
           \A r \in ran :
               /\ r.call \in Calls /\ entries[r.call].state \in {"executing", "returned", "failed"}
               /\ r = EarlyRun(r.call)
    /\ \A c \in Calls : entries[c].state \in {"executing", "returned"} => EarlyRun(c) \in ran

(* How far the turn has come. *)
Phases ==
    /\ step # "collecting" => consumer # "reading" /\ Busy = {}
    /\ step \in {"tools", "dispatching", "recorded"} => TurnCalls # << >>
    /\ step = "answered" => TurnCalls = << >> /\ Outcome(assembly) = "ok"
    /\ step = "dispatching" => Len(TurnCalls) <= policy.room

RanOnce == \A r, q \in ran : r.call = q.call => r = q

RanBounded == IsFiniteSet(ran) /\ Cardinality(ran) <= policy.room

Recorded == step = "recorded" => RanIsFinal

OverlapInv ==
    /\ Keyed(assembly) /\ OverlapTypes /\ EntriesSettled /\ PreparedOnce
    /\ RanEarly /\ Phases /\ RanOnce /\ RanBounded /\ Recorded

(* It holds at first. *)
LEMMA OverlapStarts == Init => OverlapInv
<1> SUFFICES ASSUME Init PROVE OverlapInv
  OBVIOUS
<1>1. Keyed(assembly)
  BY StartKeyed DEF Init, StreamInit
<1>2. OverlapTypes
  BY OverlapAssumption DEF Init, OverlapTypes, NoEntry, EntryStates
<1>3. \A c \in Calls : entries[c].state = "none"
  BY DEF Init, NoEntry
<1>4. Entered = {} /\ Busy = {}
  BY <1>3 DEF Entered, Busy
<1>5. EntriesSettled
  BY <1>2, <1>4, FS_EmptySet DEF EntriesSettled, OverlapTypes
<1>6. PreparedOnce
  BY <1>3 DEF Init, PreparedOnce, Entry
<1>7. RanEarly /\ RanOnce
  BY <1>3 DEF Init, RanEarly, RanOnce
<1>8. Phases /\ Recorded
  BY DEF Init, Phases, Recorded
<1>9. RanBounded
  BY <1>2, FS_EmptySet DEF Init, RanBounded, OverlapTypes
<1> QED BY <1>1, <1>2, <1>5, <1>6, <1>7, <1>8, <1>9 DEF OverlapInv

(* A frame, or the end of the stream. *)
LEMMA StreamStep ==
    ASSUME OverlapInv, step = "collecting", assembly' = assembly, UNCHANGED overlapVars
    PROVE  OverlapInv'
<1>1. /\ policy' = policy /\ entries' = entries /\ step' = step /\ prepared' = prepared
      /\ ran' = ran
  BY DEF overlapVars
<1>2. Entered' = Entered
  BY <1>1 DEF Entered
<1>3. Keyed(assembly)' /\ OverlapTypes' /\ PreparedOnce' /\ RanEarly' /\ RanOnce' /\ RanBounded'
  BY <1>1 DEF OverlapInv, OverlapTypes, PreparedOnce, RanEarly, RanOnce, RanBounded, Entry, EarlyRun
<1>4. EntriesSettled'
  BY <1>1, <1>2 DEF OverlapInv, EntriesSettled
<1>5. Phases' /\ Recorded'
  BY <1>1 DEF Phases, Recorded
<1> QED BY <1>3, <1>4, <1>5 DEF OverlapInv

(* Entries stay within the calls. *)
LEMMA EnteredFinite == IsFiniteSet(Entered) /\ Cardinality(Entered) \in Nat
<1>1. Entered \in SUBSET Calls
  BY DEF Entered
<1> QED BY <1>1, CallFacts, FS_Subset, FS_CardinalityType

(* An event of the stream. *)
LEMMA EventStep == OverlapInv /\ collectEvent => OverlapInv'
<1> SUFFICES ASSUME OverlapInv, collectEvent PROVE OverlapInv'
  OBVIOUS
<1>1. PICK e : TakeEvent(e) /\ observe(e)
  BY DEF collectEvent
<1>2. /\ policy' = policy /\ step' = step /\ ran' = ran /\ step = "collecting"
      /\ assembly' = Apply(assembly, e)
  BY <1>1 DEF collectEvent, TakeEvent, OverlapInv, Phases
<1>3. /\ Keyed(assembly')
      /\ \A c, args : c # None /\ Settled(assembly, c, args) => Settled(assembly', c, args)
      /\ e.kind = "call" /\ e.id # None /\ e.args # << >> => Settled(assembly', e.id, e.args)
  BY <1>2, ApplyAdvances DEF OverlapInv, Advanced
<1>4. Phases' /\ Recorded' /\ RanOnce' /\ RanBounded' /\ Keyed(assembly)'
  BY <1>2, <1>3 DEF Phases, Recorded, RanOnce, RanBounded, OverlapInv
<1>5. CASE UNCHANGED <<entries, prepared>>
  <2>1. Entered' = Entered
    BY <1>5 DEF Entered
  <2>2. OverlapTypes' /\ PreparedOnce' /\ RanEarly'
    BY <1>2, <1>5 DEF OverlapInv, OverlapTypes, PreparedOnce, RanEarly, Entry, EarlyRun
  <2>3. EntriesSettled'
    <3>1. \A c \in Entered : c # None
      BY CallFacts DEF Entered
    <3> QED BY <1>2, <1>3, <1>5, <2>1, <3>1 DEF OverlapInv, EntriesSettled
  <2> QED BY <1>4, <2>2, <2>3 DEF OverlapInv
<1>6. CASE e.kind = "call" /\ Unseen(e) /\ Admitted(e) /\ Prepares(e)
  <2> DEFINE d == e.id
  <2>1. /\ d \in Calls /\ entries[d].state = "none" /\ e.args # << >> /\ d # None
        /\ Cardinality(Entered) < policy.room
    BY <1>6, CallFacts
       DEF Unseen, Entry, Admitted, eligible, OverlapInv, OverlapTypes
  <2>2. PICK state \in {"started", "deferred", "hookFailed"} :
            /\ entries' = [entries EXCEPT ![d] = [state |-> state, op |-> OperationOf, args |-> e.args]]
            /\ prepared' = [prepared EXCEPT ![d] = @ + 1]
    BY <1>6 DEF Prepares
  <2>3. /\ DOMAIN entries' = Calls
        /\ DOMAIN entries'[d] = {"state", "op", "args"} /\ entries'[d].state = state
        /\ entries'[d].args = e.args
        /\ \A c \in Calls : c # d => entries'[c] = entries[c]
    BY <2>1, <2>2 DEF OverlapInv, OverlapTypes
  <2>4. OverlapTypes'
    <3>1. prepared' \in [Calls -> Nat]
      BY <2>1, <2>2 DEF OverlapInv, OverlapTypes
    <3> QED BY <1>2, <2>3, <3>1 DEF OverlapInv, OverlapTypes, EntryStates
  <2>5. Entered' = Entered \cup {d}
    BY <2>1, <2>3 DEF Entered
  <2>6. EntriesSettled'
    <3>1. Cardinality(Entered') <= Cardinality(Entered) + 1 /\ Cardinality(Entered') \in Nat
      BY <2>5, EnteredFinite, FS_AddElement
    <3>2. Cardinality(Entered') <= policy'.room
      BY <1>2, <2>1, <3>1, EnteredFinite DEF OverlapInv, OverlapTypes
    <3>3. ASSUME NEW c \in Entered' PROVE Settled(assembly', c, entries'[c].args)
      <4>1. CASE c = d
        BY <1>3, <1>6, <2>1, <2>3, <4>1
      <4>2. CASE c # d
        <5>1. c \in Entered /\ c \in Calls /\ entries'[c] = entries[c] /\ c # None
          BY <2>3, <2>5, <3>3, <4>2, CallFacts DEF Entered
        <5> QED BY <1>3, <5>1 DEF OverlapInv, EntriesSettled
      <4> QED BY <4>1, <4>2
    <3> QED BY <3>2, <3>3 DEF EntriesSettled
  <2>7. PreparedOnce'
    <3>1. prepared[d] = 0
      BY <1>2, <2>1 DEF OverlapInv, PreparedOnce, Entry
    <3>2. prepared'[d] = 1 /\ \A c \in Calls : c # d => prepared'[c] = prepared[c]
      BY <2>1, <2>2, <3>1 DEF OverlapInv, OverlapTypes
    <3> QED BY <1>2, <2>1, <2>3, <3>2 DEF OverlapInv, PreparedOnce, Entry
  <2>8. RanEarly'
    <3>1. ASSUME NEW r \in ran
          PROVE  /\ r.call \in Calls /\ entries'[r.call].state \in {"executing", "returned", "failed"}
                 /\ r = EarlyRun(r.call)'
      <4>1. /\ r.call \in Calls /\ entries[r.call].state \in {"executing", "returned", "failed"}
            /\ r = EarlyRun(r.call)
        BY <1>2 DEF OverlapInv, RanEarly
      <4>2. entries'[r.call] = entries[r.call]
        BY <2>1, <2>3, <4>1
      <4> QED BY <4>1, <4>2 DEF EarlyRun
    <3>2. ASSUME NEW c \in Calls, entries'[c].state \in {"executing", "returned"}
          PROVE  EarlyRun(c)' \in ran'
      <4>1. c # d /\ entries'[c] = entries[c]
        BY <2>3, <3>2
      <4> QED BY <1>2, <3>2, <4>1 DEF OverlapInv, RanEarly, EarlyRun
    <3> QED BY <1>2, <3>1, <3>2 DEF RanEarly
  <2> QED BY <1>4, <2>4, <2>6, <2>7, <2>8 DEF OverlapInv
<1> QED BY <1>1, <1>5, <1>6 DEF observe

(* A set indexed by a finite one is bounded as that one is. *)
LEMMA IndexedBounded ==
    ASSUME NEW S, IsFiniteSet(S), NEW n \in Nat, Cardinality(S) <= n,
           NEW g, DOMAIN g = S, g = [x \in S |-> g[x]],
           NEW R, \A r \in R : \E x \in S : r = g[x]
    PROVE  IsFiniteSet(R) /\ Cardinality(R) <= n
<1> DEFINE T == {g[x] : x \in S}
<1>1. IsFiniteSet(T) /\ Cardinality(T) <= Cardinality(S)
  BY ImageBounded
<1>2. R \in SUBSET T
  OBVIOUS
<1> HIDE DEF T
<1>3. IsFiniteSet(R) /\ Cardinality(R) <= Cardinality(T)
  BY <1>1, <1>2, FS_Subset
<1>4. Cardinality(R) \in Nat /\ Cardinality(T) \in Nat /\ Cardinality(S) \in Nat
  BY <1>1, <1>3, FS_CardinalityType
<1> QED BY <1>1, <1>3, <1>4

(* A worker starts its tool, or gives up. *)
LEMMA StartsStep == ASSUME NEW c \in Calls, OverlapInv, executeStarts(c) PROVE OverlapInv'
<1>1. /\ policy' = policy /\ step' = step /\ assembly' = assembly /\ prepared' = prepared
      /\ entries[c].state = "started"
  BY DEF executeStarts, streamAndStep, streamVars
<1>2. step = "collecting"
  BY <1>1 DEF OverlapInv, Phases, Busy
<1>3. PICK state \in {"executing", "failed"} :
          /\ entries' = [entries EXCEPT ![c].state = state]
          /\ ran' = IF state = "executing" THEN ran \cup {EarlyRun(c)} ELSE ran
  BY DEF executeStarts, EarlyRun
<1>4. /\ DOMAIN entries' = Calls /\ DOMAIN entries'[c] = {"state", "op", "args"}
      /\ entries'[c].state = state /\ entries'[c].args = entries[c].args
      /\ entries'[c].op = entries[c].op
      /\ \A d \in Calls : d # c => entries'[d] = entries[d]
  BY <1>3 DEF OverlapInv, OverlapTypes
<1>5. Entered' = Entered /\ \A d \in Calls : entries'[d].args = entries[d].args
                                           /\ EarlyRun(d)' = EarlyRun(d)
  BY <1>1, <1>4 DEF Entered, EarlyRun
<1>6. OverlapTypes'
  BY <1>1, <1>4 DEF OverlapInv, OverlapTypes, EntryStates
<1>7. EntriesSettled'
  BY <1>1, <1>5 DEF OverlapInv, EntriesSettled, Entered
<1>8. PreparedOnce'
  BY <1>1, <1>4 DEF OverlapInv, PreparedOnce, Entry
<1>9. \A r \in ran : /\ r.call \in Calls /\ r.call # c /\ r = EarlyRun(r.call)
                     /\ entries[r.call].state \in {"executing", "returned", "failed"}
  BY <1>1, <1>2 DEF OverlapInv, RanEarly
<1>10. EarlyRun(c).call = c
  BY DEF EarlyRun, Ran
<1>11. \A r \in ran' : /\ r.call \in Calls /\ r = EarlyRun(r.call)'
                       /\ entries'[r.call].state \in {"executing", "returned", "failed"}
  BY <1>3, <1>4, <1>5, <1>9, <1>10
<1>12. RanEarly'
  <2>1. ASSUME NEW d \in Calls, entries'[d].state \in {"executing", "returned"}
        PROVE  EarlyRun(d)' \in ran'
    <3>1. CASE d = c
      BY <1>3, <1>4, <1>5, <2>1, <3>1
    <3>2. CASE d # c
      BY <1>3, <1>4, <1>5, <2>1, <3>2 DEF OverlapInv, RanEarly
    <3> QED BY <3>1, <3>2
  <2> QED BY <1>11, <2>1 DEF RanEarly
<1>13. RanOnce'
  BY <1>3, <1>9, <1>10 DEF OverlapInv, RanOnce, RanOnce
<1>14. RanBounded'
  <2> DEFINE S == Entered
             g == [d \in S |-> EarlyRun(d)']
  <2>1. IsFiniteSet(S) /\ policy.room \in Nat /\ Cardinality(S) <= policy.room
    BY EnteredFinite DEF OverlapInv, OverlapTypes, EntriesSettled
  <2>2. \A r \in ran' : r.call \in S
    BY <1>5, <1>11 DEF Entered
  <2>3. ASSUME NEW r \in ran' PROVE \E d \in S : r = g[d]
    BY <1>11, <2>2
  <2>4. DOMAIN g = S /\ g = [d \in S |-> g[d]]
    OBVIOUS
  <2> HIDE DEF S, g
  <2>5. IsFiniteSet(ran') /\ Cardinality(ran') <= policy.room
    BY <2>1, <2>3, <2>4, IndexedBounded
  <2> QED BY <1>1, <2>5 DEF RanBounded
<1>15. Phases' /\ Recorded' /\ Keyed(assembly)'
  BY <1>1, <1>2 DEF Phases, Recorded, OverlapInv
<1> QED BY <1>6, <1>7, <1>8, <1>12, <1>13, <1>14, <1>15 DEF OverlapInv

(* A tool returns. *)
LEMMA EndsStep == ASSUME NEW c \in Calls, OverlapInv, executeEnds(c) PROVE OverlapInv'
<1>1. /\ policy' = policy /\ step' = step /\ assembly' = assembly /\ prepared' = prepared
      /\ ran' = ran /\ entries[c].state = "executing"
  BY DEF executeEnds, streamAndStep, streamVars
<1>2. step = "collecting"
  BY <1>1 DEF OverlapInv, Phases, Busy
<1>3. PICK state \in {"returned", "failed"} : entries' = [entries EXCEPT ![c].state = state]
  BY DEF executeEnds
<1>4. /\ DOMAIN entries' = Calls /\ DOMAIN entries'[c] = {"state", "op", "args"}
      /\ entries'[c].state = state /\ entries'[c].args = entries[c].args
      /\ entries'[c].op = entries[c].op
      /\ \A d \in Calls : d # c => entries'[d] = entries[d]
  BY <1>3 DEF OverlapInv, OverlapTypes
<1>5. Entered' = Entered /\ \A d \in Calls : entries'[d].args = entries[d].args
                                           /\ EarlyRun(d)' = EarlyRun(d)
  BY <1>1, <1>4 DEF Entered, EarlyRun
<1>6. OverlapTypes'
  BY <1>1, <1>4 DEF OverlapInv, OverlapTypes, EntryStates
<1>7. EntriesSettled'
  BY <1>1, <1>5 DEF OverlapInv, EntriesSettled, Entered
<1>8. PreparedOnce'
  BY <1>1, <1>4 DEF OverlapInv, PreparedOnce, Entry
<1>9. RanEarly'
  <2>1. \A r \in ran' : /\ r.call \in Calls /\ r = EarlyRun(r.call)'
                        /\ entries'[r.call].state \in {"executing", "returned", "failed"}
    BY <1>1, <1>2, <1>4, <1>5 DEF OverlapInv, RanEarly
  <2>2. ASSUME NEW d \in Calls, entries'[d].state \in {"executing", "returned"}
        PROVE  EarlyRun(d)' \in ran'
    <3>1. entries[d].state \in {"executing", "returned"}
      BY <1>1, <1>4, <2>2
    <3> QED BY <1>1, <1>5, <3>1 DEF OverlapInv, RanEarly
  <2> QED BY <2>1, <2>2 DEF RanEarly
<1>10. Phases' /\ Recorded' /\ Keyed(assembly)' /\ RanOnce' /\ RanBounded'
  BY <1>1, <1>2 DEF Phases, Recorded, OverlapInv, RanOnce, RanBounded
<1> QED BY <1>6, <1>7, <1>8, <1>9, <1>10 DEF OverlapInv

(* What stays when only the place of the engine in the turn changes.         *)
LEMMA StepOnly ==
    ASSUME OverlapInv, UNCHANGED <<streamVars, policy, entries, ran>>
    PROVE  /\ Keyed(assembly)' /\ EntriesSettled' /\ RanOnce' /\ RanBounded'
           /\ Entered' = Entered /\ Busy' = Busy /\ TurnCalls' = TurnCalls
           /\ \A c \in Calls : EarlyRun(c)' = EarlyRun(c)
<1>1. /\ policy' = policy /\ entries' = entries /\ ran' = ran
      /\ assembly' = assembly /\ conn' = conn
  BY DEF streamVars
<1>2. Entered' = Entered /\ Busy' = Busy /\ TurnCalls' = TurnCalls
  BY <1>1 DEF Entered, Busy, TurnCalls
<1> QED BY <1>1, <1>2 DEF OverlapInv, EntriesSettled, RanOnce, RanBounded, EarlyRun

(* The stream is over: its workers are joined. *)
LEMMA FinishStep == OverlapInv /\ (finishCancels \/ finish) => OverlapInv'
<1> SUFFICES ASSUME OverlapInv, finishCancels \/ finish PROVE OverlapInv'
  OBVIOUS
<1>1. /\ UNCHANGED <<streamVars, policy, entries, ran, prepared>> /\ step = "collecting"
      /\ consumer # "reading"
  BY DEF finishCancels, finish, streamAndStep
<1>2. /\ step' # "collecting" => Busy = {}
      /\ step' \in {"collecting", "tools", "answered", "failed"}
      /\ step' = "tools" => TurnCalls # << >>
      /\ step' = "answered" => TurnCalls = << >> /\ Outcome(assembly) = "ok"
  BY <1>1 DEF finishCancels, finish, Joined, Collected, streamAndStep, TurnCalls
<1>3. /\ Keyed(assembly)' /\ EntriesSettled' /\ RanOnce' /\ RanBounded'
      /\ Busy' = Busy /\ TurnCalls' = TurnCalls /\ \A c \in Calls : EarlyRun(c)' = EarlyRun(c)
  BY <1>1, StepOnly
<1>4. OverlapTypes'
  BY <1>1, <1>2 DEF OverlapInv, OverlapTypes
<1>5. PreparedOnce' /\ RanEarly'
  BY <1>1, <1>2, <1>3 DEF OverlapInv, PreparedOnce, RanEarly, Entry
<1>6. Phases' /\ Recorded'
  BY <1>1, <1>2, <1>3 DEF Phases, Recorded, streamVars
<1> QED BY <1>3, <1>4, <1>5, <1>6 DEF OverlapInv

(* A turn that has reached its tools stops before they are dispatched.       *)
LEMMA StopsStep == OverlapInv /\ stepStops => OverlapInv'
<1> SUFFICES ASSUME OverlapInv, stepStops PROVE OverlapInv'
  OBVIOUS
<1>1. /\ UNCHANGED <<streamVars, policy, entries, ran, prepared>>
      /\ step = "tools" /\ step' = "failed"
  BY DEF stepStops
<1>2. /\ Keyed(assembly)' /\ EntriesSettled' /\ RanOnce' /\ RanBounded'
      /\ Busy' = Busy /\ \A c \in Calls : EarlyRun(c)' = EarlyRun(c)
  BY <1>1, StepOnly
<1>3. OverlapTypes' /\ PreparedOnce' /\ RanEarly' /\ Phases' /\ Recorded'
  BY <1>1, <1>2
     DEF OverlapInv, OverlapTypes, PreparedOnce, RanEarly, Entry, Phases, Recorded, streamVars
<1> QED BY <1>2, <1>3 DEF OverlapInv

(* Whoever is left to the hook has no entry, once the workers are joined.    *)
LEMMA HookedAreNew ==
    ASSUME OverlapInv, step = "tools", NEW c \in Calls, c \in Hooked
    PROVE  entries[c].state = "none"
<1>1. entries[c].state \notin {"started", "executing"}
  BY DEF OverlapInv, Phases, Busy
<1>2. c \notin Finished /\ entries[c].state # "deferred"
  BY DEF Hooked, Early, NeedsHook
<1> QED BY <1>1, <1>2 DEF Finished, OverlapInv, OverlapTypes, EntryStates

(* The hook sees the calls it has not seen. *)
LEMMA PrepareStep == OverlapInv /\ preparePending => OverlapInv'
<1> SUFFICES ASSUME OverlapInv, preparePending PROVE OverlapInv'
  OBVIOUS
<1>1. /\ UNCHANGED <<streamVars, policy, entries, ran>>
      /\ step = "tools" /\ step' \in {"dispatching", "failed"} /\ Len(TurnCalls) <= policy.room
      /\ prepared' = [c \in Calls |-> prepared[c] + IF c \in Hooked THEN 1 ELSE 0]
  BY DEF preparePending
<1>2. /\ Keyed(assembly)' /\ EntriesSettled' /\ RanOnce' /\ RanBounded'
      /\ Busy' = Busy /\ TurnCalls' = TurnCalls /\ \A c \in Calls : EarlyRun(c)' = EarlyRun(c)
  BY <1>1, StepOnly
<1>3. \A c \in Calls : prepared[c] \in Nat
  BY DEF OverlapInv, OverlapTypes
<1>4. OverlapTypes'
  <2>1. prepared' \in [Calls -> Nat]
    BY <1>1, <1>3
  <2> QED BY <1>1, <2>1 DEF OverlapInv, OverlapTypes
<1>5. ASSUME NEW c \in Calls PROVE prepared'[c] <= 1
  <2>1. CASE c \in Hooked
    <3>1. prepared[c] = 0
      BY <1>1, <2>1, HookedAreNew DEF OverlapInv, PreparedOnce, Entry
    <3> QED BY <1>1, <2>1, <3>1
  <2>2. CASE c \notin Hooked
    BY <1>1, <1>3, <2>2 DEF OverlapInv, PreparedOnce
  <2> QED BY <2>1, <2>2
<1>6. PreparedOnce' /\ RanEarly' /\ Phases' /\ Recorded'
  BY <1>1, <1>2, <1>5 DEF OverlapInv, PreparedOnce, RanEarly, Phases, Recorded, streamVars
<1> QED BY <1>2, <1>4, <1>6 DEF OverlapInv

(* A call that ran early is one of the response's, with its arguments.        *)
LEMMA EarlyIsAsked ==
    ASSUME OverlapInv, step \in {"tools", "dispatching"}, NEW r \in ran
    PROVE  /\ r = EarlyRun(r.call)
           /\ \E i \in DOMAIN TurnCalls :
                  Early(i) /\ TurnCalls[i].id = r.call /\ TurnCalls[i].args = r.args
<1>1. /\ r.call \in Calls /\ r = EarlyRun(r.call)
      /\ entries[r.call].state \in {"executing", "returned", "failed"}
  BY DEF OverlapInv, RanEarly
<1>2. entries[r.call].state \in {"returned", "failed"}
  BY <1>1 DEF OverlapInv, Phases, Busy
<1>3. r.call \in Entered /\ r.call \in Finished /\ r.args = entries[r.call].args
  BY <1>1, <1>2 DEF Entered, Finished, EarlyRun, Ran
<1>4. Settled(assembly, r.call, r.args)
  BY <1>3 DEF OverlapInv, EntriesSettled
<1>5. PICK i \in DOMAIN TurnCalls : TurnCalls[i].id = r.call /\ TurnCalls[i].args = r.args
  BY <1>4, TurnCallsNamed DEF OverlapInv, Phases
<1> QED BY <1>1, <1>3, <1>5 DEF Early

(* A call of the response that ran early ran with its arguments.              *)
LEMMA FinishedAsAsked ==
    ASSUME OverlapInv, step = "dispatching", NEW i \in DOMAIN TurnCalls, Early(i)
    PROVE  EarlyRun(TurnCalls[i].id).args = TurnCalls[i].args
<1> DEFINE c == TurnCalls[i].id
<1>1. c \in Entered
  BY DEF Early, Finished, Entered
<1>2. Settled(assembly, c, entries[c].args)
  BY <1>1 DEF OverlapInv, EntriesSettled
<1>3. PICK j \in DOMAIN TurnCalls : TurnCalls[j].id = c /\ TurnCalls[j].args = entries[c].args
  BY <1>2, TurnCallsNamed DEF OverlapInv, Phases
<1>4. j = i
  BY <1>3, TurnCallsNamed DEF OverlapInv, Phases
<1> QED BY <1>3, <1>4 DEF EarlyRun, Ran

(* The rest of the calls is dispatched. *)
LEMMA DispatchStep == OverlapInv /\ dispatch => OverlapInv'
<1> SUFFICES ASSUME OverlapInv, dispatch PROVE OverlapInv'
  OBVIOUS
<1> DEFINE Late(i) == Ran(TurnCalls[i].id, DispatchOp(i), TurnCalls[i].args, FALSE)
           g == [i \in DOMAIN TurnCalls |-> IF Early(i) THEN EarlyRun(TurnCalls[i].id) ELSE Late(i)]
<1>1. PICK reached \in SUBSET Remaining :
          /\ ran' = ran \cup {Late(i) : i \in reached}
          /\ step' = IF /\ reached = Remaining
                        /\ \A c \in Entered : entries[c].state \notin {"failed", "hookFailed"}
                     THEN "recorded" ELSE "failed"
  BY DEF dispatch
<1>2. /\ UNCHANGED <<streamVars, policy, entries, prepared>>
      /\ step = "dispatching" /\ step' \in {"recorded", "failed"}
  BY <1>1 DEF dispatch
<1>3. /\ policy' = policy /\ entries' = entries /\ prepared' = prepared
      /\ assembly' = assembly /\ conn' = conn /\ consumer' = consumer
  BY <1>2 DEF streamVars
<1>4. /\ TurnCalls # << >> /\ Len(TurnCalls) <= policy.room /\ policy.room \in Nat
      /\ Busy = {} /\ consumer # "reading" /\ Keyed(assembly)
  BY <1>2 DEF OverlapInv, Phases, OverlapTypes
<1>5. /\ Len(TurnCalls) \in Nat /\ DOMAIN TurnCalls = 1..Len(TurnCalls)
      /\ \A i, j \in DOMAIN TurnCalls : TurnCalls[i].id = TurnCalls[j].id => i = j
  BY <1>4, TurnCallsNamed
<1>6. /\ Entered' = Entered /\ Busy' = Busy /\ TurnCalls' = TurnCalls
      /\ \A c \in Calls : EarlyRun(c)' = EarlyRun(c)
  BY <1>3 DEF Entered, Busy, TurnCalls, EarlyRun
<1>7. \A i \in DOMAIN TurnCalls : g[i].call = TurnCalls[i].id
  BY DEF EarlyRun, Ran
<1>8. \A i \in DOMAIN TurnCalls : g[i].args = TurnCalls[i].args
  <2>1. ASSUME NEW i \in DOMAIN TurnCalls, Early(i) PROVE g[i].args = TurnCalls[i].args
    BY <1>2, <2>1, FinishedAsAsked
  <2>2. ASSUME NEW i \in DOMAIN TurnCalls, ~Early(i) PROVE g[i].args = TurnCalls[i].args
    BY <2>2 DEF Ran
  <2> QED BY <2>1, <2>2
<1>9. ASSUME NEW r \in ran' PROVE \E i \in DOMAIN TurnCalls : r = g[i]
  <2>1. CASE r \in ran
    BY <1>2, <2>1, EarlyIsAsked
  <2>2. CASE r \notin ran
    BY <1>1, <1>9, <2>2 DEF Remaining
  <2> QED BY <2>1, <2>2
<1>10. \A i \in reached : Late(i) \in ran' /\ (i \in DOMAIN TurnCalls /\ ~Early(i) => Late(i) = g[i])
  BY <1>1
<1>11. DOMAIN g = DOMAIN TurnCalls /\ g = [i \in DOMAIN TurnCalls |-> g[i]]
  OBVIOUS
<1>12. \A i \in DOMAIN TurnCalls : Early(i) => g[i] = EarlyRun(TurnCalls[i].id)
  OBVIOUS
<1> HIDE DEF Late, g
<1>13. RanOnce'
  BY <1>5, <1>7, <1>9 DEF RanOnce
<1>14. RanBounded'
  <2> DEFINE S == DOMAIN TurnCalls
  <2>1. IsFiniteSet(S) /\ Cardinality(S) <= policy.room
    <3>1. /\ IsFiniteSet(1..Len(TurnCalls))
          /\ Cardinality(1..Len(TurnCalls)) = IF 1 > Len(TurnCalls) THEN 0 ELSE Len(TurnCalls) - 1 + 1
      BY <1>5, FS_Interval, 1 \in Int, Len(TurnCalls) \in Int
    <3> QED BY <1>4, <1>5, <3>1
  <2> HIDE DEF S
  <2>2. \A r \in ran' : \E i \in S : r = g[i]
    BY <1>9 DEF S
  <2>3. DOMAIN g = S /\ g = [i \in S |-> g[i]]
    BY <1>11 DEF S
  <2>4. IsFiniteSet(ran') /\ Cardinality(ran') <= policy.room
    BY <1>4, <2>1, <2>2, <2>3, IndexedBounded
  <2> QED BY <1>3, <2>4 DEF RanBounded
<1>15. Recorded'
  <2> SUFFICES ASSUME step' = "recorded" PROVE RanIsFinal'
    BY DEF Recorded
  <2> DEFINE asked == {[call |-> TurnCalls[i].id, args |-> TurnCalls[i].args] : i \in DOMAIN TurnCalls}
             done == {[call |-> r.call, args |-> r.args] : r \in ran'}
  <2>1. \A r \in ran' : [call |-> r.call, args |-> r.args] \in asked
    BY <1>7, <1>8, <1>9
  <2>2. ASSUME NEW i \in DOMAIN TurnCalls PROVE g[i] \in ran'
    <3>1. CASE Early(i)
      <4>1. /\ TurnCalls[i].id \in Calls
            /\ entries[TurnCalls[i].id].state \in {"returned", "failed", "hookFailed"}
            /\ TurnCalls[i].id \in Entered
        BY <3>1 DEF Early, Finished, Entered
      <4>2. entries[TurnCalls[i].id].state = "returned"
        BY <1>1, <4>1
      <4>3. EarlyRun(TurnCalls[i].id) \in ran
        BY <4>1, <4>2 DEF OverlapInv, RanEarly
      <4> QED BY <1>1, <1>12, <3>1, <4>3
    <3>2. CASE ~Early(i)
      <4>1. i \in reached
        BY <1>1, <3>2 DEF Remaining
      <4> QED BY <1>10, <3>2, <4>1
    <3> QED BY <3>1, <3>2
  <2>3. \A i \in DOMAIN TurnCalls : [call |-> TurnCalls[i].id, args |-> TurnCalls[i].args] \in done
    BY <1>7, <1>8, <2>2
  <2>4. done \subseteq asked /\ done = asked
    BY <2>1, <2>3
  <2> HIDE DEF asked, done
  <2>5. RanIsFinal'
    BY <1>6, <2>4 DEF RanIsFinal, asked, done
  <2> QED BY <2>5
<1>16. Keyed(assembly)' /\ OverlapTypes' /\ EntriesSettled' /\ PreparedOnce'
  BY <1>2, <1>3, <1>6 DEF OverlapInv, OverlapTypes, EntriesSettled, PreparedOnce
<1>17. RanEarly' /\ Phases'
  <2>1. ASSUME NEW c \in Calls, entries'[c].state \in {"executing", "returned"}
        PROVE  EarlyRun(c)' \in ran'
    BY <1>1, <1>3, <1>6, <2>1 DEF OverlapInv, RanEarly
  <2> QED BY <1>2, <1>3, <1>4, <1>6, <2>1 DEF RanEarly, Phases
<1> QED BY <1>13, <1>14, <1>15, <1>16, <1>17 DEF OverlapInv

(* Every step keeps the invariant. *)
LEMMA OverlapStep == OverlapInv /\ [Next]_vars => OverlapInv'
<1> SUFFICES ASSUME OverlapInv, [Next]_vars PROVE OverlapInv'
  OBVIOUS
<1>1. CASE step = "collecting" /\ (Recv \/ TakeEOF) /\ UNCHANGED overlapVars
  <2>1. assembly' = assembly
    BY <1>1, RecvKeepsAssembly DEF TakeEOF
  <2> QED BY <1>1, <2>1, StreamStep
<1>2. CASE collectEvent
  BY <1>2, EventStep
<1>3. ASSUME NEW c \in Calls, executeStarts(c) \/ executeEnds(c) PROVE OverlapInv'
  BY <1>3, StartsStep, EndsStep
<1>4. CASE finishCancels \/ finish
  BY <1>4, FinishStep
<1>5. CASE stepStops
  BY <1>5, StopsStep
<1>6. CASE preparePending
  BY <1>6, PrepareStep
<1>7. CASE dispatch
  BY <1>7, DispatchStep
<1>8. CASE UNCHANGED vars
  <2>1. /\ UNCHANGED <<streamVars, policy, entries, ran>> /\ step' = step /\ prepared' = prepared
        /\ assembly' = assembly /\ consumer' = consumer /\ policy' = policy
        /\ entries' = entries /\ ran' = ran
    BY <1>8 DEF vars, overlapVars, streamVars
  <2>2. /\ Keyed(assembly)' /\ EntriesSettled' /\ RanOnce' /\ RanBounded'
        /\ Busy' = Busy /\ TurnCalls' = TurnCalls /\ \A c \in Calls : EarlyRun(c)' = EarlyRun(c)
    BY <2>1, StepOnly
  <2>3. OverlapTypes' /\ PreparedOnce' /\ RanEarly' /\ Phases'
    BY <2>1, <2>2 DEF OverlapInv, OverlapTypes, PreparedOnce, RanEarly, Phases, Entry
  <2>4. Recorded'
    BY <2>1, <2>2 DEF OverlapInv, Recorded, RanIsFinal
  <2> QED BY <2>2, <2>3, <2>4 DEF OverlapInv
<1> QED BY <1>1, <1>2, <1>3, <1>4, <1>5, <1>6, <1>7, <1>8 DEF Next

(* The invariant of the turn.  Keyed and EntriesSettled carry the argument:   *)
(* whatever fragments the stream still brings, a call that started early      *)
(* keeps its arguments, or the turn fails before a result is recorded.        *)
THEOREM OverlapInvariance == Spec => []OverlapInv
BY OverlapStarts, OverlapStep, PTL DEF Spec

(* Approval hooks see a call once in its turn, and its tool runs once:        *)
(* whether it ran early, was deferred or waited (observe, execute,            *)
(* preparePending and dispatchPreparedTools).                               *)
THEOREM CallsRunOnce == Spec => []OneExecution
<1>1. ASSUME OverlapInv, NEW c \in Calls PROVE Cardinality({r \in ran : r.call = c}) <= 1
  <2> DEFINE T == {r \in ran : r.call = c}
  <2>1. CASE T = {}
    BY <2>1, FS_EmptySet
  <2>2. CASE T # {}
    <3>1. PICK r : r \in T
      BY <2>2
    <3>2. T = {r}
      BY <3>1, <1>1 DEF OverlapInv, RanOnce
    <3>3. Cardinality({r}) = 1
      BY FS_Singleton
    <3> QED BY <3>2, <3>3
  <2> QED BY <2>1, <2>2
<1>2. OverlapInv => OneExecution
  BY <1>1 DEF OneExecution, OverlapInv, PreparedOnce
<1> QED BY <1>2, OverlapInvariance, PTL

(* What ran of a response that leaves no call to record is a call of that     *)
(* response, and the response was withdrawn.                                *)
LEMMA WithdrawnAsHeld ==
    ASSUME OverlapInv, step = "answered", NEW r \in ran
    PROVE  /\ \E k \in DOMAIN assembly.builders :
                  assembly.builders[k].id = r.call /\ assembly.builders[k].args = r.args
           /\ Malformed(assembly) \/ conn.stop = "length"
<1> DEFINE bs == assembly.builders
<1>1. /\ r.call \in Calls /\ r = EarlyRun(r.call)
      /\ entries[r.call].state \in {"executing", "returned", "failed"}
  BY DEF OverlapInv, RanEarly
<1>2. r.call \in Entered /\ r.args = entries[r.call].args
  BY <1>1 DEF Entered, EarlyRun, Ran
<1>3. Settled(assembly, r.call, r.args)
  BY <1>2 DEF OverlapInv, EntriesSettled
<1>4. TurnCalls = << >> /\ Outcome(assembly) = "ok"
  BY DEF OverlapInv, Phases
<1>5. ~Spoiled(assembly)
  BY <1>4 DEF Spoiled, Outcome, Unidentified
<1>6. PICK k \in DOMAIN bs : bs[k].id = r.call /\ bs[k].args = r.args
  BY <1>3, <1>5 DEF Settled
<1> HIDE DEF bs
<1>7. ASSUME ~Malformed(assembly), conn.stop # "length" PROVE FALSE
  <2>1. TurnCalls = [i \in DOMAIN bs |-> Called(bs[i])]
    BY <1>4, <1>7 DEF TurnCalls, ToolCalls, bs
  <2>2. DOMAIN TurnCalls = DOMAIN bs
    BY <2>1
  <2> QED BY <1>4, <1>6, <2>2
<1> QED BY <1>6, <1>7 DEF bs

(* A call that ran early ran with the arguments of the finished response,     *)
(* and the recorded results are of exactly the response's calls               *)
(* (streamOverlapState.take and dispatchPreparedTools); what no result is     *)
(* recorded of ran in a response that was withdrawn.                         *)
THEOREM RunsAreFinal == Spec => []RanIsFinal
<1>1. ASSUME OverlapInv, step \in {"tools", "dispatching"} PROVE RanIsFinal
  BY <1>1, EarlyIsAsked DEF RanIsFinal
<1>2. ASSUME OverlapInv, step = "answered" PROVE RanIsFinal
  <2> DEFINE held == {[call |-> assembly.builders[k].id, args |-> assembly.builders[k].args] :
                          k \in DOMAIN assembly.builders}
  <2>1. ASSUME NEW r \in ran PROVE [call |-> r.call, args |-> r.args] \in held
    BY <1>2, <2>1, WithdrawnAsHeld
  <2>2. ran # {} => Malformed(assembly) \/ conn.stop = "length"
    BY <1>2, WithdrawnAsHeld
  <2> QED BY <1>2, <2>1, <2>2 DEF RanIsFinal
<1>3. OverlapInv => RanIsFinal
  BY <1>1, <1>2 DEF OverlapInv, Recorded, RanIsFinal
<1> QED BY <1>3, OverlapInvariance, PTL

(* No tool outlives its turn (finish joins the workers), and the calls that   *)
(* start early and those that wait share one budget.                         *)
THEOREM TurnsAreJoined == Spec => []TurnIsJoined
<1>1. OverlapInv => TurnIsJoined
  BY DEF OverlapInv, Phases, RanBounded, TurnIsJoined
<1> QED BY <1>1, OverlapInvariance, PTL
-----------------------------------------------------------------------------
(* The end of the stream. *)

ConnFields ==
    {"slots", "byId", "last", "emitted", "inThink", "buffer", "stop", "pending", "finished", "truncated"}
WireFields == {"sent", "begun", "ids", "names", "over", "content", "phase"}
Terminals == {"done", "error"}

(* Events none of which is terminal, and events that end in the terminal one. *)
Quiet(p) == \E S : p \in Seq(S) /\ \A k \in 1..Len(p) : p[k].kind \notin Terminals
Closing(p) ==
    \E S : /\ p \in Seq(S) /\ Len(p) > 0 /\ p[Len(p)].kind \in Terminals
           /\ \A k \in 1..(Len(p) - 1) : p[k].kind \notin Terminals

Fields ==
    /\ DOMAIN conn = ConnFields /\ DOMAIN wire = WireFields
    /\ IsFiniteSet(DOMAIN conn.slots)

(* More is to come, unless the connection was cut and the error is kept back. *)
Open ==
    /\ ~conn.finished /\ Quiet(conn.pending)
    /\ \/ wire.phase \in {"open", "stopping"} /\ ~conn.truncated
       \/ wire.phase = "cut" /\ conn.truncated

(* The last event is on its way, or has been taken. *)
Arrived == conn.finished /\ ~conn.truncated /\ wire.phase = "whole"
Closed == Arrived /\ Closing(conn.pending)
Drained == Arrived /\ conn.pending = << >>

StreamInv ==
    /\ Fields
    /\ consumer \in {"reading", "eof", "failed"}
    /\ consumer = "reading" =>
           \/ assembly.terminal = "none" /\ (Open \/ Closed)
           \/ assembly.terminal \in Terminals /\ Drained
    /\ consumer = "eof" => assembly.terminal \in Terminals /\ wire.phase = "whole"

(* Events of at most one element, or two, are quiet if their elements are.    *)
LEMMA QuietPieces ==
    /\ Quiet(<< >>)
    /\ \A e : e.kind \notin Terminals => Quiet(<< e >>)
    /\ \A e : e.kind \in Terminals => Closing(<< e >>)
    /\ \A p, q : Quiet(p) /\ Quiet(q) => Quiet(p \o q)
    /\ \A p, q : Quiet(p) /\ Closing(q) => Closing(p \o q)
<1> DEFINE empty == << >>
<1>1. Quiet(empty)
  <2>1. empty \in Seq({}) /\ Len(empty) = 0
    OBVIOUS
  <2> HIDE DEF empty
  <2> QED BY <2>1 DEF Quiet
<1>2. ASSUME NEW e
      PROVE  << e >> \in Seq({e}) /\ Len(<< e >>) = 1 /\ << e >>[1] = e
  OBVIOUS
<1>3. ASSUME NEW e, e.kind \notin Terminals PROVE Quiet(<< e >>)
  <2> DEFINE p == << e >>
  <2>1. p \in Seq({e}) /\ Len(p) = 1 /\ p[1] = e
    BY <1>2
  <2> HIDE DEF p
  <2>2. \A k \in 1..Len(p) : p[k].kind \notin Terminals
    BY <1>3, <2>1
  <2>3. Quiet(p)
    BY <2>1, <2>2 DEF Quiet
  <2> QED BY <2>3 DEF p
<1>4. ASSUME NEW e, e.kind \in Terminals PROVE Closing(<< e >>)
  <2> DEFINE p == << e >>
  <2>1. p \in Seq({e}) /\ Len(p) = 1 /\ p[1] = e
    BY <1>2
  <2> HIDE DEF p
  <2>2. Len(p) > 0 /\ p[Len(p)].kind \in Terminals /\ \A k \in 1..(Len(p) - 1) : p[k].kind \notin Terminals
    BY <1>4, <2>1
  <2>3. Closing(p)
    BY <2>1, <2>2 DEF Closing
  <2> QED BY <2>3 DEF p
<1>5. ASSUME NEW S, NEW T, NEW p \in Seq(S), NEW q \in Seq(T)
      PROVE  /\ p \o q \in Seq(S \cup T) /\ Len(p \o q) = Len(p) + Len(q)
             /\ Len(p) \in Nat /\ Len(q) \in Nat
             /\ \A k \in 1..Len(p) : (p \o q)[k] = p[k]
             /\ \A k \in 1..Len(q) : (p \o q)[Len(p) + k] = q[k]
  <2>1. p \in Seq(S \cup T) /\ q \in Seq(S \cup T)
    OBVIOUS
  <2> QED BY <2>1
<1>6. ASSUME NEW p, NEW q, Quiet(p), Quiet(q) PROVE Quiet(p \o q)
  <2>1. PICK S : p \in Seq(S) /\ \A k \in 1..Len(p) : p[k].kind \notin Terminals
    BY <1>6 DEF Quiet
  <2>2. PICK T : q \in Seq(T) /\ \A k \in 1..Len(q) : q[k].kind \notin Terminals
    BY <1>6 DEF Quiet
  <2> DEFINE w == p \o q
  <2>3. /\ w \in Seq(S \cup T) /\ Len(w) = Len(p) + Len(q) /\ Len(p) \in Nat /\ Len(q) \in Nat
        /\ \A k \in 1..Len(p) : w[k] = p[k]
        /\ \A k \in 1..Len(q) : w[Len(p) + k] = q[k]
    BY <1>5, <2>1, <2>2
  <2> HIDE DEF w
  <2>4. ASSUME NEW k \in 1..Len(w) PROVE w[k].kind \notin Terminals
    <3>1. CASE k <= Len(p)
      BY <2>1, <2>3, <3>1
    <3>2. CASE k > Len(p)
      <4>1. k - Len(p) \in 1..Len(q) /\ Len(p) + (k - Len(p)) = k
        BY <2>3, <3>2
      <4>2. w[k] = q[k - Len(p)]
        BY <2>3, <4>1
      <4> QED BY <2>2, <4>1, <4>2
    <3> QED BY <2>3, <3>1, <3>2
  <2>5. Quiet(w)
    BY <2>3, <2>4 DEF Quiet
  <2> QED BY <2>5 DEF w
<1>7. ASSUME NEW p, NEW q, Quiet(p), Closing(q) PROVE Closing(p \o q)
  <2>1. PICK S : p \in Seq(S) /\ \A k \in 1..Len(p) : p[k].kind \notin Terminals
    BY <1>7 DEF Quiet
  <2>2. PICK T : /\ q \in Seq(T) /\ Len(q) > 0 /\ q[Len(q)].kind \in Terminals
                 /\ \A k \in 1..(Len(q) - 1) : q[k].kind \notin Terminals
    BY <1>7 DEF Closing
  <2> DEFINE w == p \o q
  <2>3. /\ w \in Seq(S \cup T) /\ Len(w) = Len(p) + Len(q) /\ Len(p) \in Nat /\ Len(q) \in Nat
        /\ \A k \in 1..Len(p) : w[k] = p[k]
        /\ \A k \in 1..Len(q) : w[Len(p) + k] = q[k]
    BY <1>5, <2>1, <2>2
  <2> HIDE DEF w
  <2>4. Len(w) > 0 /\ w[Len(w)].kind \in Terminals
    BY <2>2, <2>3
  <2>5. ASSUME NEW k \in 1..(Len(w) - 1) PROVE w[k].kind \notin Terminals
    <3>1. CASE k <= Len(p)
      BY <2>1, <2>3, <3>1
    <3>2. CASE k > Len(p)
      <4>1. k - Len(p) \in 1..(Len(q) - 1) /\ Len(p) + (k - Len(p)) = k /\ k - Len(p) \in 1..Len(q)
        BY <2>3, <3>2
      <4>2. w[k] = q[k - Len(p)]
        BY <2>3, <4>1
      <4> QED BY <2>2, <4>1, <4>2
    <3> QED BY <2>3, <3>1, <3>2
  <2>6. Closing(w)
    BY <2>3, <2>4, <2>5 DEF Closing
  <2> QED BY <2>6 DEF w
<1> QED BY <1>1, <1>3, <1>4, <1>6, <1>7 DEF empty

(* Taking the first of such events. *)
LEMMA Taken ==
    ASSUME NEW p, p # << >>
    PROVE  /\ Quiet(p) => Head(p).kind \notin Terminals /\ Quiet(Tail(p))
           /\ Closing(p) => \/ Head(p).kind \notin Terminals /\ Closing(Tail(p))
                            \/ Head(p).kind \in Terminals /\ Tail(p) = << >>
<1>1. ASSUME NEW S, p \in Seq(S)
      PROVE  /\ Len(p) \in Nat /\ Len(p) > 0 /\ Head(p) = p[1]
             /\ Tail(p) \in Seq(S) /\ Len(Tail(p)) = Len(p) - 1
             /\ \A k \in 1..(Len(p) - 1) : Tail(p)[k] = p[k + 1]
  BY <1>1
<1> DEFINE t == Tail(p)
           h == Head(p)
<1>2. ASSUME Quiet(p) PROVE h.kind \notin Terminals /\ Quiet(t)
  <2>1. PICK S : p \in Seq(S) /\ \A k \in 1..Len(p) : p[k].kind \notin Terminals
    BY <1>2 DEF Quiet
  <2>2. /\ Len(p) \in Nat /\ Len(p) > 0 /\ h = p[1] /\ t \in Seq(S) /\ Len(t) = Len(p) - 1
        /\ \A k \in 1..(Len(p) - 1) : t[k] = p[k + 1]
    BY <1>1, <2>1
  <2> HIDE DEF t, h
  <2>3. \A k \in 1..Len(t) : k + 1 \in 1..Len(p) /\ t[k] = p[k + 1]
    BY <2>2
  <2> QED BY <2>1, <2>2, <2>3 DEF Quiet
<1>3. ASSUME Closing(p)
      PROVE  \/ h.kind \notin Terminals /\ Closing(t)
             \/ h.kind \in Terminals /\ t = << >>
  <2>1. PICK S : /\ p \in Seq(S) /\ Len(p) > 0 /\ p[Len(p)].kind \in Terminals
                 /\ \A k \in 1..(Len(p) - 1) : p[k].kind \notin Terminals
    BY <1>3 DEF Closing
  <2>2. /\ Len(p) \in Nat /\ Len(p) > 0 /\ h = p[1] /\ t \in Seq(S) /\ Len(t) = Len(p) - 1
        /\ \A k \in 1..(Len(p) - 1) : t[k] = p[k + 1]
    BY <1>1, <2>1
  <2> HIDE DEF t, h
  <2>3. CASE Len(p) = 1
    <3>1. t = << >>
      BY <2>2, <2>3
    <3> QED BY <2>1, <2>2, <2>3, <3>1
  <2>4. CASE Len(p) # 1
    <3>1. Len(t) > 0 /\ Len(p) - 1 \in 1..(Len(p) - 1) /\ Len(p) - 1 + 1 = Len(p) /\ 1 \in 1..(Len(p) - 1)
      BY <2>2, <2>4
    <3>2. t[Len(t)] = p[Len(p)] /\ h.kind \notin Terminals
      BY <2>1, <2>2, <3>1
    <3>3. \A k \in 1..(Len(t) - 1) : /\ k \in 1..(Len(p) - 1) /\ k + 1 \in 1..(Len(p) - 1)
                                     /\ t[k] = p[k + 1]
      BY <2>2
    <3> QED BY <2>1, <2>2, <3>1, <3>2, <3>3 DEF Closing
  <2> QED BY <2>3, <2>4
<1> QED BY <1>2, <1>3

(* What a frame does: the stream goes on, or ends, or breaks.                *)
GoesOn == consumer' = consumer /\ Fields' /\ Open'
EndsWell == consumer' = consumer /\ Fields' /\ Closed'
Breaks == consumer' = "failed" /\ Fields' /\ wire'.phase = "cut"

(* A frame of a call leaves the phase. *)
LEMMA SentFields ==
    ASSUME DOMAIN wire = WireFields, NEW c, NEW id, NEW name, NEW args
    PROVE  DOMAIN Sent(c, id, name, args) = WireFields /\ Sent(c, id, name, args).phase = wire.phase
<1> DEFINE sent == [wire.sent EXCEPT ![c] = @ + Len(args)]
           begun == wire.begun \cup {c}
           ids == IF id = None THEN wire.ids ELSE wire.ids \cup {c}
           names == IF name = None THEN wire.names ELSE wire.names \cup {c}
<1>1. Sent(c, id, name, args) = [wire EXCEPT !.begun = begun, !.sent = sent, !.ids = ids, !.names = names]
  BY DEF Sent
<1> HIDE DEF sent, begun, ids, names
<1> QED BY <1>1 DEF WireFields

(* A frame of the chat endpoint. *)
LEMMA ChatFrames ==
    ASSUME Fields, Reading, NEW c,
           \/ chatItem(c) \/ chatFinish(c) \/ chatContent(c) \/ chatDone
    PROVE  GoesOn \/ EndsWell
<1>0. /\ ~conn.finished /\ ~conn.truncated /\ wire.phase \in {"open", "stopping"}
      /\ DOMAIN conn = ConnFields /\ DOMAIN wire = WireFields /\ IsFiniteSet(DOMAIN conn.slots)
  BY DEF Reading, Fields
<1>1. CASE chatItem(c)
  <2>1. PICK item \in ChatItems(c) : chatChunk(c, item)
    BY <1>1 DEF chatItem
  <2> DEFINE i == resolveToolCallIndex(item)
             slots == [j \in DOMAIN conn.slots \cup {i} |->
                          IF j = i THEN Merged(Held(i), item.id, item.name, item.args)
                          ELSE conn.slots[j]]
             byId == IF item.id = None THEN conn.byId ELSE Bind(conn.byId, item.id, i)
             e == [item EXCEPT !.index = i]
  <2>2. /\ wire' = Sent(c, item.id, item.name, item.args)
        /\ conn' = [conn EXCEPT !.slots = slots, !.byId = byId, !.last = i, !.pending = << e >>]
    BY <2>1 DEF chatChunk
  <2>3. e.kind \notin Terminals
    <3>1. item.kind = "delta"
      BY DEF ChatItems, Event
    <3>2. e.kind = item.kind
      BY DEF ChatItems, Event
    <3> QED BY <3>1, <3>2 DEF Terminals
  <2>4. Quiet(<< e >>)
    BY <2>3, QuietPieces
  <2>5. IsFiniteSet(DOMAIN slots)
    <3>1. DOMAIN slots = DOMAIN conn.slots \cup {i}
      OBVIOUS
    <3> QED BY <1>0, <3>1, FS_AddElement
  <2>6. DOMAIN wire' = WireFields /\ wire'.phase = wire.phase
    BY <1>0, <2>2, SentFields
  <2> DEFINE p == << e >>
  <2> HIDE DEF slots, byId, e, i
  <2>7. conn' = [conn EXCEPT !.slots = slots, !.byId = byId, !.last = i, !.pending = p]
    BY <2>2
  <2> HIDE DEF p
  <2>8. /\ DOMAIN conn' = ConnFields /\ conn'.slots = slots /\ conn'.pending = p
        /\ conn'.finished = conn.finished /\ conn'.truncated = conn.truncated
    BY <1>0, <2>7 DEF ConnFields
  <2>9. consumer' = consumer
    BY <1>1 DEF chatItem, unread
  <2>10. Quiet(p)
    BY <2>4 DEF p
  <2> QED BY <1>0, <2>5, <2>6, <2>8, <2>9, <2>10 DEF GoesOn, Fields, Open
<1>2. CASE chatFinish(c)
  <2> DEFINE complete == IF c = "tool_calls" /\ mode.complete THEN Unemitted ELSE {}
             p == [k \in 1..Cardinality(complete) |-> CallEvent(SetToSortSeq(complete, <)[k])]
  <2>1. /\ conn' = [conn EXCEPT !.stop = c, !.emitted = conn.emitted \cup complete, !.pending = p]
        /\ wire' = [wire EXCEPT !.phase = "stopping"] /\ consumer' = consumer
    BY <1>2 DEF chatFinish, unread
  <2>2. IsFiniteSet(complete) /\ Cardinality(complete) \in Nat
    <3>1. complete \in SUBSET DOMAIN conn.slots
      BY DEF Unemitted
    <3> HIDE DEF complete
    <3> QED BY <1>0, <3>1, FS_Subset, FS_CardinalityType
  <2>3. Quiet(p)
    <3> DEFINE s == SetToSortSeq(complete, <)
               n == Cardinality(complete)
    <3>1. \A k \in 1..n : p[k] = CallEvent(s[k])
      OBVIOUS
    <3>2. p = [k \in 1..n |-> CallEvent(s[k])]
      OBVIOUS
    <3> HIDE DEF s, n, p
    <3> DEFINE T == {CallEvent(s[k]) : k \in 1..n}
    <3>3. p \in [1..n -> T]
      BY <3>2
    <3>4. n \in Nat
      BY <2>2 DEF n
    <3> HIDE DEF T
    <3>5. p \in Seq(T) /\ Len(p) = n
      BY <3>3, <3>4
    <3>6. ASSUME NEW k \in 1..n PROVE p[k].kind = "call"
      <4>1. \A i : CallEvent(i).kind = "call"
        BY DEF CallEvent, Event
      <4> QED BY <3>1, <4>1
    <3> QED BY <3>5, <3>6 DEF Quiet, Terminals
  <2> HIDE DEF p, complete
  <2>4. /\ DOMAIN conn' = ConnFields /\ conn'.slots = conn.slots /\ conn'.pending = p
        /\ conn'.finished = conn.finished /\ conn'.truncated = conn.truncated
        /\ DOMAIN wire' = WireFields /\ wire'.phase = "stopping"
    BY <1>0, <2>1 DEF ConnFields, WireFields
  <2> QED BY <1>0, <2>1, <2>3, <2>4 DEF GoesOn, Fields, Open
<1>3. CASE chatContent(c)
  <2> DEFINE s == Split(conn.inThink, conn.buffer \o c)
             p == Said("thinking", s.thinking) \o Said("text", s.text)
             content == wire.content \o c
  <2>1. /\ conn' = [conn EXCEPT !.inThink = s.inThink, !.buffer = s.buffer, !.pending = p]
        /\ wire' = [wire EXCEPT !.content = content] /\ consumer' = consumer
    BY <1>3 DEF chatContent, unread
  <2> HIDE DEF s, content
  <2>2. ASSUME NEW kind \in {"thinking", "text"}, NEW out PROVE Quiet(Said(kind, out))
    <3> DEFINE e == [Plain(kind) EXCEPT !.args = out]
    <3>1. e.kind = kind
      BY DEF Plain, Event
    <3>2. e.kind \notin Terminals
      BY <3>1 DEF Terminals
    <3> HIDE DEF e
    <3>3. Quiet(<< e >>)
      BY <3>2, QuietPieces
    <3> QED BY <3>3, QuietPieces DEF Said, e
  <2>3. Quiet(p)
    BY <2>2, QuietPieces
  <2> HIDE DEF p
  <2>4. /\ DOMAIN conn' = ConnFields /\ conn'.slots = conn.slots /\ conn'.pending = p
        /\ conn'.finished = conn.finished /\ conn'.truncated = conn.truncated
        /\ DOMAIN wire' = WireFields /\ wire'.phase = wire.phase
    BY <1>0, <2>1 DEF ConnFields, WireFields
  <2> QED BY <1>0, <2>1, <2>3, <2>4 DEF GoesOn, Fields, Open
<1>4. CASE chatDone
  <2> DEFINE kind == IF conn.inThink THEN "thinking" ELSE "text"
             p == Said(kind, conn.buffer) \o << Plain("done") >>
             empty == << >>
  <2>1. /\ conn' = [conn EXCEPT !.finished = TRUE, !.buffer = empty, !.pending = p]
        /\ wire' = [wire EXCEPT !.phase = "whole"] /\ consumer' = consumer
    BY <1>4 DEF chatDone, unread
  <2>2. Quiet(Said(kind, conn.buffer))
    <3> DEFINE e == [Plain(kind) EXCEPT !.args = conn.buffer]
    <3>1. e.kind = kind /\ kind \in {"thinking", "text"}
      BY DEF Plain, Event
    <3>2. e.kind \notin Terminals
      BY <3>1 DEF Terminals
    <3> HIDE DEF e, kind
    <3>3. Quiet(<< e >>)
      BY <3>2, QuietPieces
    <3> QED BY <3>3, QuietPieces DEF Said, e
  <2>3. Plain("done").kind \in Terminals
    BY DEF Plain, Event, Terminals
  <2>4. Closing(p)
    BY <2>2, <2>3, QuietPieces
  <2> HIDE DEF p, empty
  <2>5. /\ DOMAIN conn' = ConnFields /\ conn'.slots = conn.slots /\ conn'.pending = p
        /\ conn'.finished /\ conn'.truncated = conn.truncated
        /\ DOMAIN wire' = WireFields /\ wire'.phase = "whole"
    BY <1>0, <2>1 DEF ConnFields, WireFields
  <2> QED BY <1>0, <2>1, <2>4, <2>5 DEF EndsWell, Fields, Closed, Arrived
<1> QED BY <1>1, <1>2, <1>3, <1>4

(* A block more. *)
LEMMA BindFinite ==
    ASSUME NEW f, IsFiniteSet(DOMAIN f), NEW x, NEW v
    PROVE  IsFiniteSet(DOMAIN Bind(f, x, v))
<1>1. DOMAIN Bind(f, x, v) = DOMAIN f \cup {x}
  BY DEF Bind
<1> QED BY <1>1, FS_AddElement

(* A single event of the given kind. *)
LEMMA OneEvent ==
    ASSUME NEW id, NEW index, NEW name, NEW args
    PROVE  /\ Quiet(<< Event("delta", id, index, name, args) >>)
           /\ Quiet(<< Event("call", id, index, name, args) >>)
           /\ Closing(<< Plain("done") >>) /\ Closing(<< Plain("error") >>)
<1>1. /\ Event("delta", id, index, name, args).kind = "delta"
      /\ Event("call", id, index, name, args).kind = "call"
      /\ Plain("done").kind = "done" /\ Plain("error").kind = "error"
  BY DEF Event, Plain
<1> QED BY <1>1, QuietPieces DEF Terminals

(* A frame of Anthropic's, which may be cut. *)
LEMMA BlockFrames ==
    ASSUME Fields, Reading, NEW c, NEW fragment, NEW cut \in BOOLEAN,
           blockStart(c, cut) \/ blockStop(c, cut) \/ blockDelta(c, fragment, cut)
    PROVE  GoesOn
<1>0. /\ ~conn.finished /\ ~conn.truncated /\ wire.phase \in {"open", "stopping"}
      /\ DOMAIN conn = ConnFields /\ DOMAIN wire = WireFields /\ IsFiniteSet(DOMAIN conn.slots)
  BY DEF Reading, Fields
<1> DEFINE phase == CutHere(cut)
<1>1. ASSUME NEW sent, DOMAIN sent = WireFields, wire' = [sent EXCEPT !.phase = phase],
             DOMAIN conn' = ConnFields, IsFiniteSet(DOMAIN conn'.slots), Quiet(conn'.pending),
             conn'.finished = conn.finished, conn'.truncated = cut, consumer' = consumer
      PROVE  GoesOn
  <2>1. phase = IF cut THEN "cut" ELSE wire.phase
    BY DEF CutHere
  <2> HIDE DEF phase
  <2>2. DOMAIN wire' = WireFields /\ wire'.phase = phase
    BY <1>1 DEF WireFields
  <2> QED BY <1>0, <1>1, <2>1, <2>2 DEF GoesOn, Fields, Open
<1>2. CASE blockStart(c, cut)
  <2> DEFINE held == Held(c - 1)
             input == IF held.args = << >> THEN EmptyObject ELSE held.args
             slots == Bind(conn.slots, c - 1, [id |-> c, name |-> c, args |-> input])
             p == << Event("delta", c, c - 1, c, << >>) >>
             sent == Sent(c, c, c, << >>)
  <2>1. /\ wire' = [sent EXCEPT !.phase = phase] /\ consumer' = consumer
        /\ conn' = [conn EXCEPT !.slots = slots, !.pending = p, !.truncated = cut]
    BY <1>2 DEF blockStart, unread
  <2>2. Quiet(p) /\ IsFiniteSet(DOMAIN slots) /\ DOMAIN sent = WireFields
    BY <1>0, OneEvent, BindFinite, SentFields
  <2> HIDE DEF slots, p, sent, phase
  <2>3. /\ DOMAIN conn' = ConnFields /\ conn'.slots = slots /\ conn'.pending = p
        /\ conn'.finished = conn.finished /\ conn'.truncated = cut
    BY <1>0, <2>1 DEF ConnFields
  <2> QED BY <1>1, <2>1, <2>2, <2>3
<1>3. CASE blockDelta(c, fragment, cut)
  <2> DEFINE held == Held(c - 1)
             input == IF held.args = EmptyObject THEN << >> ELSE held.args
             slots == Bind(conn.slots, c - 1, [held EXCEPT !.args = input \o fragment])
             p == << Event("delta", held.id, c - 1, held.name, fragment) >>
             sent == Sent(c, None, None, fragment)
  <2>1. /\ wire' = [sent EXCEPT !.phase = phase] /\ consumer' = consumer
        /\ conn' = [conn EXCEPT !.slots = slots, !.pending = p, !.truncated = cut]
    BY <1>3 DEF blockDelta, unread
  <2>2. Quiet(p) /\ IsFiniteSet(DOMAIN slots) /\ DOMAIN sent = WireFields
    BY <1>0, OneEvent, BindFinite, SentFields
  <2> HIDE DEF slots, p, sent, phase
  <2>3. /\ DOMAIN conn' = ConnFields /\ conn'.slots = slots /\ conn'.pending = p
        /\ conn'.finished = conn.finished /\ conn'.truncated = cut
    BY <1>0, <2>1 DEF ConnFields
  <2> QED BY <1>1, <2>1, <2>2, <2>3
<1>4. CASE blockStop(c, cut)
  <2> DEFINE new == mode.complete /\ c - 1 \in Unemitted
             p == IF new THEN << CallEvent(c - 1) >> ELSE << >>
             emitted == IF new THEN conn.emitted \cup {c - 1} ELSE conn.emitted
             sent == [wire EXCEPT !.over = wire.over \cup {c}]
             over == wire.over \cup {c}
  <2>1. /\ wire' = [wire EXCEPT !.over = over, !.phase = phase] /\ consumer' = consumer
        /\ conn' = [conn EXCEPT !.emitted = emitted, !.pending = p, !.truncated = cut]
    BY <1>4 DEF blockStop, unread
  <2>2. Quiet(p)
    BY OneEvent, QuietPieces DEF CallEvent
  <2> HIDE DEF emitted, p, sent, phase, over
  <2>3. /\ DOMAIN conn' = ConnFields /\ conn'.slots = conn.slots /\ conn'.pending = p
        /\ conn'.finished = conn.finished /\ conn'.truncated = cut
    BY <1>0, <2>1 DEF ConnFields
  <2> DEFINE kept == [wire EXCEPT !.over = over]
  <2>4. wire' = [kept EXCEPT !.phase = phase] /\ DOMAIN kept = WireFields
    BY <1>0, <2>1
  <2>5. consumer' = consumer /\ IsFiniteSet(DOMAIN conn.slots)
    BY <1>0, <2>1
  <2> HIDE DEF kept
  <2> QED BY <1>1, <2>2, <2>3, <2>4, <2>5
<1> QED BY <1>2, <1>3, <1>4

(* The frames that end Anthropic's response. *)
LEMMA MessageFrames ==
    ASSUME Fields, Reading, NEW reason, NEW cut \in BOOLEAN,
           messageDelta(reason, cut) \/ messageStop(cut) \/ errorFrame(cut)
    PROVE  GoesOn \/ EndsWell \/ Breaks
<1>0. /\ ~conn.finished /\ ~conn.truncated /\ wire.phase \in {"open", "stopping"}
      /\ DOMAIN conn = ConnFields /\ DOMAIN wire = WireFields /\ IsFiniteSet(DOMAIN conn.slots)
      /\ conn.pending = << >>
  BY DEF Reading, Fields
<1>1. CASE messageDelta(reason, cut)
  <2>1. /\ conn' = [conn EXCEPT !.stop = reason, !.truncated = cut] /\ consumer' = consumer
        /\ wire' = [wire EXCEPT !.phase = IF cut THEN "cut" ELSE "stopping"]
    BY <1>1 DEF messageDelta, unread
  <2>2. /\ DOMAIN conn' = ConnFields /\ conn'.slots = conn.slots /\ conn'.pending = conn.pending
        /\ conn'.finished = conn.finished /\ conn'.truncated = cut
        /\ DOMAIN wire' = WireFields /\ wire'.phase = IF cut THEN "cut" ELSE "stopping"
    BY <1>0, <2>1 DEF ConnFields, WireFields
  <2>3. Quiet(conn'.pending)
    BY <1>0, <2>2, QuietPieces
  <2> QED BY <1>0, <2>1, <2>2, <2>3 DEF GoesOn, Fields, Open
<1>2. ASSUME NEW kind \in {"done", "error"}, NEW p, p = IF Trusted(cut) THEN << Plain(kind) >> ELSE << >>,
             wire' = [wire EXCEPT !.phase = IF cut THEN "cut" ELSE "whole"],
             conn' = [conn EXCEPT !.finished = TRUE, !.pending = p],
             consumer' = IF Trusted(cut) THEN consumer ELSE "failed"
      PROVE  EndsWell \/ Breaks
  <2>1. /\ DOMAIN conn' = ConnFields /\ conn'.slots = conn.slots /\ conn'.pending = p
        /\ conn'.finished /\ conn'.truncated = conn.truncated
        /\ DOMAIN wire' = WireFields /\ wire'.phase = IF cut THEN "cut" ELSE "whole"
    BY <1>0, <1>2 DEF ConnFields, WireFields
  <2>2. ~cut => Closing(p)
    BY <1>2, OneEvent DEF Trusted
  <2> QED BY <1>0, <1>2, <2>1, <2>2 DEF EndsWell, Breaks, Fields, Closed, Arrived, Trusted
<1>3. CASE messageStop(cut)
  BY <1>2, <1>3 DEF messageStop
<1>4. CASE errorFrame(cut)
  BY <1>2, <1>4 DEF errorFrame
<1> QED BY <1>1, <1>3, <1>4

(* A frame of the Responses endpoint. *)
LEMMA ItemFrames ==
    ASSUME Fields, Reading, NEW c, NEW known, NEW reason,
           \/ outputItemAdded(c, known) \/ argumentsDelta(c) \/ outputItemDone(c)
           \/ responseEnds(reason)
    PROVE  GoesOn \/ EndsWell
<1>0. /\ ~conn.finished /\ ~conn.truncated /\ wire.phase \in {"open", "stopping"}
      /\ DOMAIN conn = ConnFields /\ DOMAIN wire = WireFields /\ IsFiniteSet(DOMAIN conn.slots)
      /\ conn.pending = << >>
  BY DEF Reading, Fields
<1>1. ASSUME NEW slots, IsFiniteSet(DOMAIN slots), NEW p, Quiet(p),
             conn' = [conn EXCEPT !.slots = slots, !.pending = p],
             DOMAIN wire' = WireFields, wire'.phase = wire.phase, consumer' = consumer
      PROVE  GoesOn
  <2>1. /\ DOMAIN conn' = ConnFields /\ conn'.slots = slots /\ conn'.pending = p
        /\ conn'.finished = conn.finished /\ conn'.truncated = conn.truncated
    BY <1>0, <1>1 DEF ConnFields
  <2> QED BY <1>0, <1>1, <2>1 DEF GoesOn, Fields, Open
<1>2. CASE outputItemAdded(c, known)
  <2> DEFINE told == IF known THEN c ELSE None
             slots == Bind(conn.slots, c - 1, Merged(Blank, told, told, << >>))
             sent == Sent(c, told, told, << >>)
  <2>1. wire' = sent /\ consumer' = consumer /\ conn' = [conn EXCEPT !.slots = slots]
    BY <1>2 DEF outputItemAdded, unread
  <2>2. IsFiniteSet(DOMAIN slots) /\ DOMAIN sent = WireFields /\ sent.phase = wire.phase
    BY <1>0, BindFinite, SentFields
  <2> HIDE DEF slots, sent
  <2>3. /\ DOMAIN conn' = ConnFields /\ conn'.slots = slots /\ conn'.pending = conn.pending
        /\ conn'.finished = conn.finished /\ conn'.truncated = conn.truncated
    BY <1>0, <2>1 DEF ConnFields
  <2>4. Quiet(conn.pending)
    BY <1>0, QuietPieces
  <2> QED BY <1>0, <2>1, <2>2, <2>3, <2>4 DEF GoesOn, Fields, Open
<1>3. CASE argumentsDelta(c)
  <2> DEFINE held == Held(c - 1)
             fragment == NextFragment(c)
             slots == Bind(conn.slots, c - 1, Merged(held, None, None, fragment))
             p == << Event("delta", held.id, c - 1, held.name, fragment) >>
             sent == Sent(c, None, None, fragment)
  <2>1. wire' = sent /\ consumer' = consumer /\ conn' = [conn EXCEPT !.slots = slots, !.pending = p]
    BY <1>3 DEF argumentsDelta, unread
  <2>2. /\ IsFiniteSet(DOMAIN slots) /\ DOMAIN sent = WireFields /\ sent.phase = wire.phase
        /\ Quiet(p)
    BY <1>0, BindFinite, SentFields, OneEvent
  <2> HIDE DEF slots, sent, p
  <2> QED BY <1>1, <2>1, <2>2
<1>4. CASE outputItemDone(c)
  <2> DEFINE slots == Bind(conn.slots, c - 1, Merged(Held(c - 1), c, c, << >>))
             p == ItemEvents(c)
             sent == Sent(c, c, c, << >>)
             done == [sent.sent EXCEPT ![c] = Frags[c]]
             over == sent.over \cup {c}
  <2>1. /\ wire' = [sent EXCEPT !.sent = done, !.over = over] /\ consumer' = consumer
        /\ conn' = [conn EXCEPT !.slots = slots, !.pending = p]
    BY <1>4 DEF outputItemDone, unread
  <2>2. /\ IsFiniteSet(DOMAIN slots) /\ DOMAIN sent = WireFields /\ sent.phase = wire.phase
    BY <1>0, BindFinite, SentFields
  <2>3. Quiet(p)
    <3> DEFINE rest == SubSeq(Full(c), Len(Held(c - 1).args) + 1, Frags[c])
               d1 == << Event("delta", c, c - 1, c, << >>) >>
               d2 == << Event("delta", c, c - 1, c, rest) >>
               call == << Event("call", c, NoIndex, c, Full(c)) >>
               empty == << >>
    <3>1. Quiet(d1) /\ Quiet(d2) /\ Quiet(call) /\ Quiet(empty)
      BY OneEvent, QuietPieces
    <3>2. p \in {d1 \o call, empty \o call, d2, empty}
      BY DEF ItemEvents
    <3> HIDE DEF d1, d2, call, empty, p
    <3> QED BY <3>1, <3>2, QuietPieces
  <2> HIDE DEF slots, sent, p, done, over
  <2>4. DOMAIN wire' = WireFields /\ wire'.phase = wire.phase
    BY <2>1, <2>2 DEF WireFields
  <2> QED BY <1>1, <2>1, <2>2, <2>3, <2>4
<1>5. CASE responseEnds(reason)
  <2> DEFINE p == << Plain("done") >>
  <2>1. /\ conn' = [conn EXCEPT !.stop = reason, !.finished = TRUE, !.pending = p]
        /\ wire' = [wire EXCEPT !.phase = "whole"] /\ consumer' = consumer
    BY <1>5 DEF responseEnds, unread
  <2>2. Closing(p)
    BY OneEvent
  <2> HIDE DEF p
  <2>3. /\ DOMAIN conn' = ConnFields /\ conn'.slots = conn.slots /\ conn'.pending = p
        /\ conn'.finished /\ conn'.truncated = conn.truncated
        /\ DOMAIN wire' = WireFields /\ wire'.phase = "whole"
    BY <1>0, <2>1 DEF ConnFields, WireFields
  <2> QED BY <1>0, <2>1, <2>2, <2>3 DEF EndsWell, Fields, Closed, Arrived
<1> QED BY <1>2, <1>3, <1>4, <1>5

(* A frame. *)
LEMMA RecvStep ==
    ASSUME StreamInv, Recv
    PROVE  StreamInv' /\ [Stream!Next]_(Stream!vars)
<1>1. CASE truncationShows
  <2>1. /\ consumer = "reading" /\ conn.truncated /\ consumer' = "failed"
        /\ wire' = wire /\ conn' = conn /\ assembly' = assembly
    BY <1>1 DEF truncationShows
  <2>2. wire.phase = "cut" /\ assembly.terminal = "none"
    BY <2>1 DEF StreamInv, Open, Closed, Drained, Arrived
  <2>3. StreamInv'
    BY <2>1 DEF StreamInv, Fields
  <2>4. Stream!Fail
    BY <2>1, <2>2 DEF Stream!Fail
  <2> QED BY <2>3, <2>4 DEF Stream!Next
<1>2. CASE Reading /\ ~truncationShows
  <2>1. /\ consumer = "reading" /\ wire.phase \in {"open", "stopping"} /\ assembly.terminal = "none"
        /\ Fields
    BY <1>2 DEF Reading, StreamInv, Drained, Arrived
  <2>2. assembly' = assembly
    BY RecvKeepsAssembly
  <2>3. GoesOn \/ EndsWell \/ Breaks
    <3>1. ASSUME NEW c, NEW known, NEW fragment, NEW cut \in BOOLEAN,
                 \/ chatItem(c) \/ outputItemDone(c) \/ argumentsDelta(c)
                 \/ outputItemAdded(c, known)
                 \/ blockStart(c, cut) \/ blockStop(c, cut) \/ blockDelta(c, fragment, cut)
                 \/ chatFinish(c) \/ responseEnds(c) \/ messageDelta(c, cut)
                 \/ chatContent(c) \/ messageStop(cut) \/ errorFrame(cut) \/ chatDone
          PROVE  GoesOn \/ EndsWell \/ Breaks
      BY <1>2, <2>1, <3>1, ChatFrames, BlockFrames, MessageFrames, ItemFrames
    <3>2. ASSUME brokenFrame PROVE Breaks
      <4>1. wire' = [wire EXCEPT !.phase = "cut"] /\ conn' = conn /\ consumer' = "failed"
        BY <3>2 DEF brokenFrame
      <4>2. DOMAIN wire' = WireFields /\ wire'.phase = "cut"
        BY <2>1, <4>1 DEF Fields, WireFields
      <4> QED BY <2>1, <4>1, <4>2 DEF Breaks, Fields
    <3> QED BY <1>2, <3>1, <3>2 DEF Recv
  <2>4. CASE GoesOn
    <3>1. StreamInv'
      BY <2>1, <2>2, <2>4 DEF GoesOn, StreamInv
    <3>2. wire'.phase \in {"open", "stopping", "cut"}
      BY <2>4 DEF GoesOn, Open
    <3>3. Stream!Arrive \/ UNCHANGED Stream!vars
      BY <2>1, <2>2, <2>4, <3>2 DEF GoesOn, Stream!Arrive, Stream!vars
    <3> QED BY <3>1, <3>3 DEF Stream!Next
  <2>5. CASE EndsWell
    <3>1. StreamInv'
      BY <2>1, <2>2, <2>5 DEF EndsWell, StreamInv
    <3>2. wire'.phase = "whole"
      BY <2>5 DEF EndsWell, Closed, Arrived
    <3>3. Stream!Arrive
      BY <2>1, <2>2, <2>5, <3>2 DEF EndsWell, Stream!Arrive
    <3> QED BY <3>1, <3>3 DEF Stream!Next
  <2>6. CASE Breaks
    <3>1. StreamInv'
      BY <2>6 DEF Breaks, StreamInv
    <3>2. Stream!Fail
      BY <2>1, <2>2, <2>6 DEF Breaks, Stream!Fail
    <3> QED BY <3>1, <3>2 DEF Stream!Next
  <2> QED BY <2>3, <2>4, <2>5, <2>6
<1>3. Reading \/ truncationShows
  BY DEF Recv, chatItem, outputItemDone, argumentsDelta, outputItemAdded, blockStart, blockStop,
         blockDelta, chatFinish, responseEnds, messageDelta, chatContent, messageStop, errorFrame,
         chatDone, brokenFrame, OpenResponse
<1> QED BY <1>1, <1>2, <1>3

(* An event is taken. *)
LEMMA TakeStep ==
    ASSUME StreamInv, Keyed(assembly), NEW e, TakeEvent(e)
    PROVE  StreamInv' /\ [Stream!Next]_(Stream!vars)
<1>1. /\ consumer = "reading" /\ consumer' = consumer /\ wire' = wire
      /\ conn.pending # << >> /\ e = Head(conn.pending)
      /\ conn' = [conn EXCEPT !.pending = Tail(conn.pending)]
      /\ assembly' = Apply(assembly, e) /\ Fields
  BY DEF TakeEvent, StreamInv
<1>2. /\ DOMAIN conn' = ConnFields /\ conn'.slots = conn.slots
      /\ conn'.pending = Tail(conn.pending)
      /\ conn'.finished = conn.finished /\ conn'.truncated = conn.truncated
  BY <1>1 DEF Fields, ConnFields
<1>3. assembly'.terminal = Terminal(assembly, e)
  <2> DEFINE b == CASE e.kind = "call" -> applyToolCallEvent(assembly, e)
                    [] e.kind = "delta" -> applyToolCallDeltaEvent(assembly, e)
                    [] OTHER -> assembly
  <2>1. assembly' = [b EXCEPT !.terminal = Terminal(assembly, e)]
    BY <1>1 DEF Apply
  <2>2. Keyed(b)
    <3>1. CASE e.kind = "call"
      BY <3>1, CallApplied DEF Advanced
    <3>2. CASE e.kind = "delta"
      BY <3>2, DeltaApplied DEF Advanced
    <3>3. CASE e.kind \notin {"call", "delta"}
      BY <3>3
    <3> QED BY <3>1, <3>2, <3>3
  <2> HIDE DEF b
  <2> QED BY <2>1, <2>2 DEF Keyed, AssemblyFields
<1>4. assembly.terminal = "none" /\ (Open \/ Closed)
  BY <1>1 DEF StreamInv, Drained
<1>5. Fields' /\ consumer' = "reading"
  BY <1>1, <1>2 DEF Fields
<1>6. CASE e.kind \notin Terminals
  <2>1. assembly'.terminal = "none"
    BY <1>3, <1>4, <1>6 DEF Terminal, Terminals
  <2>2. Open' \/ Closed'
    <3>1. \/ Quiet(conn.pending) /\ Quiet(Tail(conn.pending))
          \/ Closing(conn.pending) /\ Closing(Tail(conn.pending)) /\ ~Open
      BY <1>1, <1>4, <1>6, Taken DEF Open, Closed
    <3> QED BY <1>1, <1>2, <1>4, <1>6, <3>1, Taken DEF Open, Closed, Arrived
  <2>3. StreamInv'
    BY <1>5, <2>1, <2>2 DEF StreamInv
  <2>4. UNCHANGED Stream!vars
    BY <1>1, <1>4, <2>1 DEF Stream!vars
  <2> QED BY <2>3, <2>4
<1>7. CASE e.kind \in Terminals
  <2>1. assembly'.terminal \in {"done", "error"}
    BY <1>3, <1>4, <1>7 DEF Terminal, Terminals
  <2>2. Closed /\ Tail(conn.pending) = << >>
    BY <1>1, <1>4, <1>7, Taken DEF Open, Closed
  <2>3. Drained'
    BY <1>1, <1>2, <2>2 DEF Closed, Drained, Arrived
  <2>4. StreamInv'
    BY <1>5, <2>1, <2>3 DEF StreamInv, Terminals
  <2>5. Stream!Terminate
    BY <1>1, <1>4, <2>1, <2>2 DEF Closed, Arrived, Stream!Terminate
  <2> QED BY <2>4, <2>5 DEF Stream!Next
<1> QED BY <1>6, <1>7

(* The stream of an adapter, whatever its provider sends and wherever the     *)
(* response is cut, takes only the steps of EventStream: one terminal event,  *)
(* only of a response that arrived whole, then the end; or an error before    *)
(* it (the Recv of each adapter and its reader, docs/adr/ADR-030).  That the  *)
(* end is reached needs fairness, and is checked by TLC alone.               *)
THEOREM StreamsAreWellFormed == Spec => Stream!Init /\ [][Stream!Next]_(Stream!vars)
<1>1. Init => StreamInv /\ Stream!Init
  <2> SUFFICES ASSUME Init PROVE StreamInv /\ Stream!Init
    OBVIOUS
  <2>1. /\ DOMAIN conn = ConnFields /\ DOMAIN wire = WireFields /\ conn.slots = [i \in {} |-> Blank]
        /\ ~conn.finished /\ ~conn.truncated /\ conn.pending = << >> /\ wire.phase = "open"
        /\ consumer = "reading" /\ assembly = Start
    BY DEF Init, StreamInit, ConnFields, WireFields
  <2>2. IsFiniteSet(DOMAIN conn.slots)
    <3>1. DOMAIN conn.slots = {}
      BY <2>1
    <3> QED BY <3>1, FS_EmptySet
  <2>3. assembly.terminal = "none"
    BY <2>1 DEF Start
  <2>4. Open
    BY <2>1, QuietPieces DEF Open
  <2> QED BY <2>1, <2>2, <2>3, <2>4 DEF StreamInv, Fields, Stream!Init
<1>2. OverlapInv /\ StreamInv /\ [Next]_vars => StreamInv' /\ [Stream!Next]_(Stream!vars)
  <2> SUFFICES ASSUME OverlapInv, StreamInv, [Next]_vars
               PROVE  StreamInv' /\ [Stream!Next]_(Stream!vars)
    OBVIOUS
  <2>1. CASE Recv
    BY <2>1, RecvStep
  <2>2. CASE TakeEOF
    <3>1. /\ consumer = "reading" /\ conn.pending = << >> /\ conn.finished /\ consumer' = "eof"
          /\ wire' = wire /\ conn' = conn /\ assembly' = assembly
      BY <2>2 DEF TakeEOF
    <3>2. assembly.terminal \in Terminals /\ wire.phase = "whole"
      <4>1. ~Closing(<< >>)
        BY DEF Closing
      <4> QED BY <3>1, <4>1 DEF StreamInv, Open, Closed, Drained, Arrived
    <3>3. StreamInv'
      BY <3>1, <3>2 DEF StreamInv, Fields
    <3>4. Stream!End
      BY <3>1, <3>2 DEF Stream!End, Terminals
    <3> QED BY <3>3, <3>4 DEF Stream!Next
  <2>3. CASE collectEvent
    <3>1. PICK e : TakeEvent(e)
      BY <2>3 DEF collectEvent
    <3> QED BY <3>1, TakeStep DEF OverlapInv
  <2>4. CASE UNCHANGED streamVars
    <3>1. wire' = wire /\ conn' = conn /\ assembly' = assembly /\ consumer' = consumer
      BY <2>4 DEF streamVars
    <3>2. StreamInv'
      BY <3>1 DEF StreamInv, Fields, Open, Closed, Drained, Arrived
    <3>3. UNCHANGED Stream!vars
      BY <3>1 DEF Stream!vars
    <3> QED BY <3>2, <3>3
  <2>5. Recv \/ TakeEOF \/ collectEvent \/ UNCHANGED streamVars
    BY DEF Next, vars, executeStarts, executeEnds, finishCancels, finish, stepStops, preparePending,
           dispatch, streamAndStep
  <2> QED BY <2>1, <2>2, <2>3, <2>4, <2>5
<1> QED BY <1>1, <1>2, OverlapInvariance, PTL DEF Spec
=============================================================================
