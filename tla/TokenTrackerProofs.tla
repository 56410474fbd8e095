------------------------- MODULE TokenTrackerProofs -------------------------
(***************************************************************************)
(* Proofs about TokenTracker, for any dispatches of any number of children, *)
(* any allowance and any usage.                                             *)
(***************************************************************************)
EXTENDS TokenTracker, FiniteSums, FiniteSetTheorems, TLAPS

-----------------------------------------------------------------------------
(* Operators. *)

(* Min picks the least element of a set that has one. *)
LEMMA MinIsLeast ==
    ASSUME NEW S, NEW x \in S, \A y \in S : x <= y
    PROVE  Min(S) \in S /\ \A y \in S : Min(S) <= y
BY DEF Min

(* A child is charged what it reports, and never more than its claim. *)
LEMMA SpentFacts ==
    ASSUME NEW c \in Children, claim[c] \in Nat, NEW u \in Nat
    PROVE  Spent(c, u) \in Nat /\ Spent(c, u) <= claim[c]
<1> DEFINE S == {claim[c], u}
<1>1. \E x \in S : \A y \in S : x <= y
  <2>1. CASE claim[c] <= u
    BY <2>1
  <2>2. CASE u <= claim[c]
    BY <2>2
  <2> QED
    BY <2>1, <2>2
<1>2. Min(S) \in S /\ \A y \in S : Min(S) <= y
  BY <1>1, MinIsLeast
<1> QED
  BY <1>2 DEF Spent

(* While anything is left a claim is positive, at most what is left and at  *)
(* most what the child asked for.                                           *)
LEMMA ClaimFacts ==
    ASSUME TypeOK, NEW c \in Children, remaining > 0
    PROVE  /\ Claim(c) \in Nat /\ 0 < Claim(c) /\ Claim(c) <= remaining
           /\ request[c] > 0 => Claim(c) <= request[c]
           /\ batchShare > 0 => Claim(c) <= batchShare
<1> DEFINE B == {n \in {batchShare} : n > 0}
           R == {n \in {request[c]} : n > 0}
           S == {remaining} \cup B \cup R
<1>1. remaining \in Nat /\ batchShare \in Nat /\ request[c] \in Nat
  BY TrackerAssumption DEF TypeOK
<1>2. S \subseteq Nat /\ \A n \in S : n > 0
  BY <1>1
<1>3. \E x \in S : \A y \in S : x <= y
  <2>1. \A y \in S : y = remaining \/ (y = batchShare /\ batchShare \in B) \/ (y = request[c] /\ request[c] \in R)
    OBVIOUS
  <2>2. \E x \in {remaining} \cup B : \A y \in {remaining} \cup B : x <= y
    <3>1. CASE batchShare \in B /\ batchShare <= remaining
      BY <1>1, <3>1
    <3>2. CASE ~(batchShare \in B /\ batchShare <= remaining)
      BY <1>1, <3>2
    <3> QED
      BY <3>1, <3>2
  <2>3. PICK x \in {remaining} \cup B : \A y \in {remaining} \cup B : x <= y
    BY <2>2
  <2>4. CASE request[c] \in R /\ request[c] <= x
    BY <1>1, <2>3, <2>4
  <2>5. CASE ~(request[c] \in R /\ request[c] <= x)
    BY <1>1, <2>3, <2>5
  <2> QED
    BY <2>4, <2>5
<1>4. Min(S) \in S /\ \A y \in S : Min(S) <= y
  <2> HIDE DEF S
  <2> QED
    BY <1>3, MinIsLeast
<1>5. Claim(c) = Min(S)
  BY DEF Claim
<1> QED
  BY <1>1, <1>2, <1>4, <1>5

-----------------------------------------------------------------------------
(* The inductive invariant. *)

(* The channels below the current one have been replaced: each is closed, or *)
(* the child that replaced it is about to close it.                         *)
ChannelsOwned ==
    /\ \A n \in closed : n < notify
    /\ \A s \in Children : state[s] = "closing" => channel[s] < notify
    /\ \A n \in Nat : n < notify =>
        n \in closed \/ \E s \in Children : state[s] = "closing" /\ channel[s] = n

(* A child waits on a channel that exists, and on the current one only while *)
(* somebody holds a claim.                                                  *)
WaitersWatched ==
    \A c \in Children : state[c] = "waiting" =>
        channel[c] <= notify /\ (channel[c] = notify => Holding # {})

TrackerInv ==
    /\ TypeOK /\ ActiveCounts /\ ClaimsBounded /\ RefusedOnlyWhenSpent
    /\ ChannelsOwned /\ WaitersWatched

(* The claims that are out are finitely many. *)
LEMMA HoldingFinite == IsFiniteSet(Holding) /\ Cardinality(Holding) \in Nat
<1>1. Holding \in SUBSET Children
  BY DEF Holding
<1>2. IsFiniteSet(Holding)
  BY <1>1, TrackerAssumption, FS_Subset
<1> QED
  BY <1>2, FS_CardinalityType

(* A fresh tracker satisfies the invariant. *)
LEMMA InitInv == Init => TrackerInv
<1> SUFFICES ASSUME Init PROVE TrackerInv
  OBVIOUS
<1>1. Holding = {}
  BY DEF Init, Holding
<1>2. TypeOK
  BY TrackerAssumption DEF Init, TypeOK, States
<1>3. ActiveCounts
  BY <1>1, FS_EmptySet DEF Init, ActiveCounts
<1>4. ChannelsOwned
  BY DEF Init, ChannelsOwned
<1> QED
  BY <1>1, <1>2, <1>3, <1>4 DEF Init, TrackerInv, ClaimsBounded, RefusedOnlyWhenSpent, WaitersWatched

(* Moving a child between states that hold no claim leaves Holding alone. *)
LEMMA SameHolding ==
    ASSUME TypeOK, NEW c \in Children, NEW from, NEW to, Goto(c, from, to),
           from # "running", to # "running"
    PROVE  Holding' = Holding
BY DEF Holding, Goto, TypeOK

(* The share of a batch is a natural number. *)
LEMMA ShareFacts ==
    ASSUME TypeOK, NEW d \in Dispatches
    PROVE  Cardinality(d) \in Nat /\ Cardinality(d) > 0 /\ Share(Cardinality(d)) \in Nat
<1>1. IsFiniteSet(d) /\ d # {}
  BY TrackerAssumption
<1>2. Cardinality(d) \in Nat /\ Cardinality(d) # 0
  BY <1>1, FS_CardinalityType, FS_EmptySet
<1>3. remaining \in Nat
  BY DEF TypeOK
<1>4. \A k \in Nat : k > 0 => (remaining + k - 1) \div k \in Nat
  BY <1>3
<1> QED
  BY <1>2, <1>4 DEF Share

(* Every step keeps the invariant. *)
LEMMA StepInv == TrackerInv /\ [Next]_vars => TrackerInv'
<1> SUFFICES ASSUME TrackerInv, [Next]_vars PROVE TrackerInv'
  OBVIOUS
<1> USE DEF TrackerInv
<1>1. ASSUME NEW d \in Dispatches, prepareBatch(d) PROVE TrackerInv'
  <2>1. UNCHANGED <<remaining, active, notify, closed, ctxDone, request, state, claim, channel, usage>>
    BY <1>1 DEF prepareBatch
  <2>2. TypeOK'
    BY <1>1, <2>1, ShareFacts DEF prepareBatch, TypeOK
  <2> QED
    BY <2>1, <2>2 DEF ActiveCounts, ClaimsBounded, RefusedOnlyWhenSpent, ChannelsOwned,
       WaitersWatched, Holding
<1>2. ASSUME NEW c \in Children, enter(c) PROVE TrackerInv'
  <2>1. /\ Goto(c, "new", "cancelled") \/ Goto(c, "new", "locking")
        /\ UNCHANGED <<tracker, closed, prepared, ctxDone, request, claim, channel, usage>>
    BY <1>2 DEF enter
  <2>2. Holding' = Holding
    BY <2>1, SameHolding
  <2>3. TypeOK'
    BY <2>1 DEF TypeOK, Goto, tracker, States
  <2>4. \A b \in Children : b # c => state'[b] = state[b]
    BY <2>1 DEF Goto, TypeOK
  <2>5. state[c] = "new" /\ state'[c] \in {"cancelled", "locking"}
    BY <2>1 DEF Goto, TypeOK
  <2>6. ChannelsOwned'
    BY <2>1, <2>4, <2>5 DEF ChannelsOwned, tracker
  <2>7. WaitersWatched'
    BY <2>1, <2>2, <2>4, <2>5 DEF WaitersWatched, tracker
  <2> QED
    BY <2>1, <2>2, <2>3, <2>4, <2>5, <2>6, <2>7
    DEF ActiveCounts, ClaimsBounded, RefusedOnlyWhenSpent, tracker
<1>3. ASSUME NEW c \in Children, reserve(c) PROVE TrackerInv'
  <2>0. UNCHANGED <<notify, closed, batchSize, batchShare, prepared, ctxDone, request, usage>>
    BY <1>3 DEF reserve
  <2>1. CASE remaining > 0 /\ Goto(c, "locking", "running")
             /\ claim' = [claim EXCEPT ![c] = Claim(c)] /\ remaining' = remaining - Claim(c)
             /\ active' = active + 1 /\ UNCHANGED channel
    <3>1. Holding' = Holding \cup {c} /\ c \notin Holding
      BY <2>1 DEF Holding, Goto, TypeOK
    <3>2. ActiveCounts'
      BY <2>1, <3>1, HoldingFinite, FS_AddElement DEF ActiveCounts
    <3>3. Claim(c) \in Nat /\ 0 < Claim(c) /\ Claim(c) <= remaining
          /\ (request[c] > 0 => Claim(c) <= request[c])
      BY <2>1, ClaimFacts
    <3>4. TypeOK'
      BY <2>0, <2>1, <3>3 DEF TypeOK, Goto, States
    <3>5. \A b \in Children : b # c => state'[b] = state[b] /\ claim'[b] = claim[b]
      BY <2>1 DEF Goto, TypeOK
    <3>6. state[c] = "locking" /\ state'[c] = "running" /\ claim'[c] = Claim(c)
      BY <2>1 DEF Goto, TypeOK
    <3>7. ClaimsBounded'
      <4> SUFFICES ASSUME NEW b \in Holding'
                   PROVE  claim'[b] > 0 /\ (request'[b] > 0 => claim'[b] <= request'[b])
        BY DEF ClaimsBounded
      <4>1. CASE b = c
        BY <2>0, <3>3, <3>6, <4>1
      <4>2. CASE b # c
        <5>1. b \in Holding /\ b \in Children
          BY <3>1, <4>2 DEF Holding
        <5> QED
          BY <2>0, <3>5, <4>2, <5>1 DEF ClaimsBounded
      <4> QED
        BY <4>1, <4>2
    <3>8. RefusedOnlyWhenSpent'
      BY <2>1, <3>5, <3>6 DEF RefusedOnlyWhenSpent
    <3>9. ChannelsOwned' /\ WaitersWatched'
      BY <2>0, <2>1, <3>1, <3>5, <3>6 DEF ChannelsOwned, WaitersWatched
    <3> QED
      BY <3>2, <3>4, <3>7, <3>8, <3>9
  <2>2. CASE Exhausted /\ Goto(c, "locking", "exhausted") /\ UNCHANGED <<remaining, active, claim, channel>>
    <3>1. Holding' = Holding
      BY <2>2, SameHolding
    <3>2. remaining = 0 /\ Holding = {}
      <4>1. remaining \in Nat /\ remaining <= 0 /\ active = 0
        BY <2>2 DEF Exhausted, TypeOK
      <4>2. Holding = {}
        BY <4>1, HoldingFinite, FS_EmptySet DEF ActiveCounts
      <4> QED
        BY <4>1, <4>2
    <3>3. TypeOK'
      BY <2>0, <2>2 DEF TypeOK, Goto, States
    <3>4. \A b \in Children : b # c => state'[b] = state[b]
      BY <2>2 DEF Goto, TypeOK
    <3>5. state[c] = "locking" /\ state'[c] = "exhausted"
      BY <2>2 DEF Goto, TypeOK
    <3> QED
      BY <2>0, <2>2, <3>1, <3>2, <3>3, <3>4, <3>5
      DEF ActiveCounts, ClaimsBounded, RefusedOnlyWhenSpent, ChannelsOwned, WaitersWatched
  <2>3. CASE remaining <= 0 /\ ~Exhausted /\ Goto(c, "locking", "waiting")
             /\ channel' = [channel EXCEPT ![c] = notify] /\ UNCHANGED <<remaining, active, claim>>
    <3>1. Holding' = Holding
      BY <2>3, SameHolding
    <3>2. Holding # {}
      BY <2>3, HoldingFinite, FS_EmptySet DEF Exhausted, ActiveCounts, TypeOK
    <3>3. TypeOK'
      BY <2>0, <2>3 DEF TypeOK, Goto, States
    <3>4. \A b \in Children : b # c => state'[b] = state[b] /\ channel'[b] = channel[b]
      BY <2>3 DEF Goto, TypeOK
    <3>5. state[c] = "locking" /\ state'[c] = "waiting" /\ channel'[c] = notify
      BY <2>3 DEF Goto, TypeOK
    <3>6. ChannelsOwned'
      BY <2>0, <3>4, <3>5 DEF ChannelsOwned
    <3>7. WaitersWatched'
      BY <2>0, <3>1, <3>2, <3>4, <3>5 DEF WaitersWatched, TypeOK
    <3> QED
      BY <2>0, <2>3, <3>1, <3>3, <3>4, <3>5, <3>6, <3>7
      DEF ActiveCounts, ClaimsBounded, RefusedOnlyWhenSpent
  <2> QED
    BY <1>3, <2>1, <2>2, <2>3 DEF reserve
<1>4. ASSUME NEW c \in Children, wake(c) PROVE TrackerInv'
  <2>1. /\ Goto(c, "waiting", "new") \/ Goto(c, "waiting", "cancelled")
        /\ UNCHANGED <<tracker, closed, prepared, ctxDone, request, claim, channel, usage>>
    BY <1>4 DEF wake
  <2>2. Holding' = Holding
    BY <2>1, SameHolding
  <2>3. TypeOK'
    BY <2>1 DEF TypeOK, Goto, tracker, States
  <2>4. \A b \in Children : b # c => state'[b] = state[b]
    BY <2>1 DEF Goto, TypeOK
  <2>5. state[c] = "waiting" /\ state'[c] \in {"cancelled", "new"}
    BY <2>1 DEF Goto, TypeOK
  <2>6. ChannelsOwned' /\ WaitersWatched'
    BY <2>1, <2>2, <2>4, <2>5 DEF ChannelsOwned, WaitersWatched, tracker
  <2> QED
    BY <2>1, <2>2, <2>3, <2>4, <2>5, <2>6
    DEF ActiveCounts, ClaimsBounded, RefusedOnlyWhenSpent, tracker
<1>5. ASSUME NEW c \in Children, NEW u \in 0..MaxUsage, settle(c, u) PROVE TrackerInv'
  <2>0. /\ Goto(c, "running", "closing")
        /\ usage' = [usage EXCEPT ![c] = u]
        /\ remaining' = remaining + (claim[c] - Spent(c, u))
        /\ active' = active - 1
        /\ channel' = [channel EXCEPT ![c] = notify]
        /\ notify' = notify + 1
        /\ UNCHANGED <<closed, batchSize, batchShare, prepared, ctxDone, request, claim>>
    BY <1>5 DEF settle
  <2>1. Holding' = Holding \ {c} /\ c \in Holding
    BY <2>0 DEF Holding, Goto, TypeOK
  <2>2. active' = Cardinality(Holding \ {c}) /\ active' \in Nat
    <3>1. /\ IsFiniteSet(Holding \ {c})
          /\ Cardinality(Holding \ {c}) = Cardinality(Holding) - 1
      BY <2>1, HoldingFinite, FS_RemoveElement
    <3> QED
      BY <2>0, <3>1, FS_CardinalityType DEF ActiveCounts
  <2>3. u \in Nat /\ Spent(c, u) \in Nat /\ Spent(c, u) <= claim[c] /\ claim[c] \in Nat
    BY TrackerAssumption, SpentFacts DEF TypeOK
  <2>4. TypeOK'
    BY <2>0, <2>2, <2>3 DEF TypeOK, Goto, States
  <2>5. \A b \in Children : b # c => state'[b] = state[b] /\ channel'[b] = channel[b]
    BY <2>0 DEF Goto, TypeOK
  <2>6. state[c] = "running" /\ state'[c] = "closing" /\ channel'[c] = notify /\ notify \in Nat
    BY <2>0 DEF Goto, TypeOK
  <2>7. RefusedOnlyWhenSpent'
    BY <2>1, <2>5, <2>6 DEF RefusedOnlyWhenSpent
  <2>8. ChannelsOwned'
    <3>1. \A n \in closed : n < notify + 1
      BY <2>6 DEF ChannelsOwned, TypeOK
    <3>2. ASSUME NEW n \in Nat, n < notify + 1
          PROVE  n \in closed \/ \E s \in Children : state'[s] = "closing" /\ channel'[s] = n
      <4>1. n < notify \/ n = notify
        BY <2>6, <3>2
      <4> QED
        BY <2>5, <2>6, <4>1 DEF ChannelsOwned
    <3>3. \A s \in Children : state'[s] = "closing" => channel'[s] < notify + 1
      <4> SUFFICES ASSUME NEW s \in Children, state'[s] = "closing" PROVE channel'[s] < notify + 1
        OBVIOUS
      <4>1. CASE s = c
        BY <2>6, <4>1
      <4>2. CASE s # c
        <5>1. channel'[s] = channel[s] /\ channel[s] < notify /\ channel[s] \in Nat
          BY <2>5, <4>2 DEF ChannelsOwned, TypeOK
        <5> QED
          BY <2>6, <5>1
      <4> QED
        BY <4>1, <4>2
    <3> QED
      BY <2>0, <3>1, <3>2, <3>3 DEF ChannelsOwned
  <2>9. WaitersWatched'
    <3> SUFFICES ASSUME NEW b \in Children, state'[b] = "waiting"
                 PROVE  channel'[b] <= notify' /\ channel'[b] # notify'
      BY DEF WaitersWatched
    <3>1. state[b] = "waiting" /\ channel'[b] = channel[b] /\ channel[b] \in Nat
      BY <2>5, <2>6 DEF TypeOK
    <3> QED
      BY <2>0, <2>6, <3>1 DEF WaitersWatched
  <2>10. ClaimsBounded'
    BY <2>0, <2>1 DEF ClaimsBounded
  <2> QED
    BY <2>0, <2>1, <2>2, <2>4, <2>7, <2>8, <2>9, <2>10 DEF ActiveCounts
<1>6. ASSUME NEW c \in Children, closeNotify(c) PROVE TrackerInv'
  <2>0. /\ Goto(c, "closing", "done")
        /\ closed' = closed \cup {channel[c]}
        /\ UNCHANGED <<tracker, prepared, ctxDone, request, claim, channel, usage>>
    BY <1>6 DEF closeNotify
  <2>1. Holding' = Holding
    BY <2>0, SameHolding
  <2>2. TypeOK'
    BY <2>0 DEF TypeOK, Goto, tracker, States
  <2>3. \A b \in Children : b # c => state'[b] = state[b]
    BY <2>0 DEF Goto, TypeOK
  <2>4. state[c] = "closing" /\ state'[c] = "done"
    BY <2>0 DEF Goto, TypeOK
  <2>5. WaitersWatched'
    BY <2>0, <2>1, <2>3, <2>4 DEF WaitersWatched, tracker
  <2>6. ChannelsOwned'
    BY <2>0, <2>3, <2>4 DEF ChannelsOwned, tracker
  <2> QED
    BY <2>0, <2>1, <2>2, <2>3, <2>4, <2>5, <2>6
    DEF ActiveCounts, ClaimsBounded, RefusedOnlyWhenSpent, tracker
<1>7. CASE cancelDispatch
  BY <1>7 DEF cancelDispatch, tracker, TypeOK, ActiveCounts, ClaimsBounded, RefusedOnlyWhenSpent,
     ChannelsOwned, WaitersWatched, Holding
<1>8. CASE UNCHANGED vars
  BY <1>8 DEF vars, tracker, TypeOK, ActiveCounts, ClaimsBounded, RefusedOnlyWhenSpent,
     ChannelsOwned, WaitersWatched, Holding
<1> QED
  BY <1>1, <1>2, <1>3, <1>4, <1>5, <1>6, <1>7, <1>8 DEF Next, Run, Terminated

(* The invariant holds in every reachable state. *)
THEOREM TrackerInvariance == Spec => []TrackerInv
BY InitInv, StepInv, PTL DEF Spec

(* No counter of the tracker leaves its range: remaining never underflows. *)
THEOREM TrackerTypes == Spec => []TypeOK
BY TrackerInvariance, PTL DEF TrackerInv

(* The count of claims out is exact on every path. *)
THEOREM ActiveIsExact == Spec => []ActiveCounts
BY TrackerInvariance, PTL DEF TrackerInv

(* No child ever runs without a token limit. *)
THEOREM NoUnlimitedChild == Spec => []ClaimsBounded
BY TrackerInvariance, PTL DEF TrackerInv

(* A refusal is final: what is refused could never have been granted later. *)
THEOREM RefusalIsFinal == Spec => []RefusedOnlyWhenSpent
BY TrackerInvariance, PTL DEF TrackerInv

(* Reading the channel under the lock and waiting on it after the unlock    *)
(* loses no wake-up.                                                        *)
THEOREM WakeupsArrive == Spec => []NoLostWakeup
<1>1. TrackerInv => NoLostWakeup
  <2> SUFFICES ASSUME TrackerInv, NEW c \in Children, state[c] = "waiting"
               PROVE  \/ channel[c] \in closed
                      \/ \E s \in Children : state[s] = "closing" /\ channel[s] = channel[c]
                      \/ channel[c] = notify /\ Holding # {}
    BY DEF NoLostWakeup
  <2>1. channel[c] \in Nat /\ notify \in Nat /\ channel[c] <= notify
    BY DEF TrackerInv, TypeOK, WaitersWatched
  <2>2. CASE channel[c] = notify
    BY <2>2 DEF TrackerInv, WaitersWatched
  <2>3. CASE channel[c] < notify
    BY <2>1, <2>3 DEF TrackerInv, ChannelsOwned
  <2> QED
    BY <2>1, <2>2, <2>3
<1> QED
  BY TrackerInvariance, <1>1, PTL

-----------------------------------------------------------------------------
(* Tokens are conserved. *)

(* What a settled child is charged, and the sum of the charges. *)
Charge(used, claimed) == IF used < claimed THEN used ELSE claimed
Charges(used, claimed, S) ==
    MapThenSumSet(LAMBDA c : IF used[c] < claimed[c] THEN used[c] ELSE claimed[c], S)

(* A sum of charges is the sum of a function. *)
LEMMA ChargesSum ==
    ASSUME NEW S, IsFiniteSet(S), NEW used, NEW claimed
    PROVE  Charges(used, claimed, S) = SumOf([c \in S |-> Charge(used[c], claimed[c])], S)
<1> DEFINE f == [c \in S |-> Charge(used[c], claimed[c])]
           h == CHOOSE g : g = [s \in SUBSET S |->
                  IF s = {} THEN 0
                  ELSE (IF used[Some(s)] < claimed[Some(s)] THEN used[Some(s)] ELSE claimed[Some(s)])
                       + g[s \ {Some(s)}]]
<1>1. Charges(used, claimed, S) = h[S]
  BY DEF Charges, MapThenSumSet, MapThenFoldSet, Some
<1>2. \A s \in SUBSET S : s # {} =>
        f[Some(s)] = IF used[Some(s)] < claimed[Some(s)] THEN used[Some(s)] ELSE claimed[Some(s)]
  BY SomeIn DEF Charge
<1>3. PICK g : Adds(g, f, SUBSET S)
  BY AddsExists
<1>4. \A g1 : Adds(g1, f, SUBSET S) <=> g1 = [s \in SUBSET S |->
        IF s = {} THEN 0
        ELSE (IF used[Some(s)] < claimed[Some(s)] THEN used[Some(s)] ELSE claimed[Some(s)])
             + g1[s \ {Some(s)}]]
  BY <1>2 DEF Adds
<1>5. Adds(h, f, SUBSET S)
  BY <1>3, <1>4
<1> HIDE DEF h, f
<1> QED
  BY <1>1, <1>5, SumIs DEF f

(* Charges depend on what the children of the set used and claimed only. *)
LEMMA ChargesAgree ==
    ASSUME NEW S, IsFiniteSet(S), NEW used, NEW claimed, NEW used2, NEW claimed2,
           \A c \in S : used2[c] = used[c] /\ claimed2[c] = claimed[c]
    PROVE  Charges(used2, claimed2, S) = Charges(used, claimed, S)
<1> DEFINE f == [c \in S |-> Charge(used[c], claimed[c])]
           h == [c \in S |-> Charge(used2[c], claimed2[c])]
<1>1. f = h
  OBVIOUS
<1>2. Charges(used, claimed, S) = SumOf(f, S)
  BY ChargesSum
<1>3. Charges(used2, claimed2, S) = SumOf(h, S)
  BY ChargesSum
<1> HIDE DEF f, h
<1> QED
  BY <1>1, <1>2, <1>3

(* The charge of one more child. *)
LEMMA ChargesAdd ==
    ASSUME NEW S, IsFiniteSet(S), NEW used, NEW claimed, NEW c, c \notin S,
           \A b \in S \cup {c} : used[b] \in Nat /\ claimed[b] \in Nat
    PROVE  Charges(used, claimed, S \cup {c}) = Charge(used[c], claimed[c]) + Charges(used, claimed, S)
<1> DEFINE T == S \cup {c}
           f == [b \in T |-> Charge(used[b], claimed[b])]
           h == [b \in S |-> Charge(used[b], claimed[b])]
<1>1. IsFiniteSet(T)
  BY FS_AddElement
<1>2. \A b \in T : f[b] \in Nat
  BY DEF Charge
<1>3. f[c] = Charge(used[c], claimed[c])
  OBVIOUS
<1>4. \A b \in S : f[b] = h[b]
  OBVIOUS
<1>5. Charges(used, claimed, T) = SumOf(f, T)
  BY <1>1, ChargesSum
<1>6. Charges(used, claimed, S) = SumOf(h, S)
  BY ChargesSum
<1> HIDE DEF f, h
<1>7. SumOf(f, T) = f[c] + SumOf(f, S)
  BY <1>2, SumAdd
<1>8. SumOf(f, S) = SumOf(h, S)
  BY <1>4, SumAgree
<1> QED
  BY <1>3, <1>5, <1>6, <1>7, <1>8

(* Charges are natural numbers. *)
LEMMA ChargesNat ==
    ASSUME NEW S, IsFiniteSet(S), NEW used, NEW claimed,
           \A c \in S : used[c] \in Nat /\ claimed[c] \in Nat
    PROVE  Charges(used, claimed, S) \in Nat
<1> DEFINE f == [c \in S |-> Charge(used[c], claimed[c])]
<1>1. \A c \in S : f[c] \in Nat
  BY DEF Charge
<1>2. Charges(used, claimed, S) = SumOf(f, S)
  BY ChargesSum
<1> HIDE DEF f
<1> QED
  BY <1>1, <1>2, SumNat

(* The children that hold and the children that settled. *)
Held == SumOf(claim, Holding)
Charged == Charges(usage, claim, Settled)

(* TokensConserved in terms of the two sums. *)
LEMMA Conserved ==
    /\ TokensConserved <=> Total = remaining + Held + Charged
    /\ TokensConserved' <=> Total = remaining' + Held' + Charged'
BY DEF TokensConserved, Held, Charged, SumOf, Charges, MapThenSumSet, MapThenFoldSet

(* The sets the sums range over are finite, and the sums natural. *)
LEMMA SumsNat ==
    ASSUME TypeOK
    PROVE  /\ IsFiniteSet(Holding) /\ IsFiniteSet(Settled)
           /\ Held \in Nat /\ Charged \in Nat
<1>1. IsFiniteSet(Holding) /\ IsFiniteSet(Settled)
  <2>1. Holding \subseteq Children /\ Settled \subseteq Children
    BY DEF Holding, Settled
  <2> QED
    BY <2>1, TrackerAssumption, FS_Subset
<1>2. /\ \A c \in Holding : claim[c] \in Nat
      /\ \A c \in Settled : claim[c] \in Nat /\ usage[c] \in Nat
  BY DEF TypeOK, Holding, Settled
<1>3. Held \in Nat
  BY <1>1, <1>2, SumNat DEF Held
<1>4. Charged \in Nat
  BY <1>1, <1>2, ChargesNat DEF Charged
<1> QED
  BY <1>1, <1>3, <1>4

(* A fresh tracker has handed out and charged nothing. *)
LEMMA ConservedInit == Init => TokensConserved
<1> SUFFICES ASSUME Init PROVE TokensConserved
  OBVIOUS
<1>1. Holding = {} /\ Settled = {}
  BY DEF Init, Holding, Settled
<1>2. Held = 0
  BY <1>1, SumEmpty DEF Held
<1>3. Charged = 0
  BY <1>1, ChargesSum, SumEmpty, FS_EmptySet DEF Charged
<1> QED
  BY <1>2, <1>3, TrackerAssumption, Conserved DEF Init

(* A step that moves no child into or out of a claim moves no tokens. *)
LEMMA NoTokensMoved ==
    ASSUME UNCHANGED <<remaining, claim, usage>>, Holding' = Holding, Settled' = Settled,
           TokensConserved
    PROVE  TokensConserved'
<1>1. Held' = Held /\ Charged' = Charged
  BY DEF Held, Charged
<1> QED
  BY <1>1, Conserved

(* A child that moves, but neither takes nor settles a claim, moves no      *)
(* tokens.                                                                  *)
LEMMA MoveConserves ==
    ASSUME TypeOK, TokensConserved, NEW c \in Children, NEW from, NEW to, Goto(c, from, to),
           \/ {from, to} \cap {"running", "closing", "done"} = {}
           \/ from = "closing" /\ to = "done",
           UNCHANGED <<remaining, claim, usage>>
    PROVE  TokensConserved'
<1>1. Holding' = Holding /\ Settled' = Settled
  BY DEF Goto, Holding, Settled, TypeOK
<1> QED
  BY <1>1, NoTokensMoved

(* Every step conserves the tokens. *)
LEMMA ConservedStep == TrackerInv /\ TokensConserved /\ [Next]_vars => TokensConserved'
<1> SUFFICES ASSUME TrackerInv, TokensConserved, [Next]_vars PROVE TokensConserved'
  OBVIOUS
<1>0. TypeOK /\ TypeOK'
  BY StepInv DEF TrackerInv
<1>1. ASSUME NEW d \in Dispatches, prepareBatch(d) PROVE TokensConserved'
  BY <1>1, NoTokensMoved DEF prepareBatch, Holding, Settled
<1>3. ASSUME NEW c \in Children, enter(c) PROVE TokensConserved'
  <2>1. UNCHANGED <<remaining, claim, usage>>
    BY <1>3 DEF enter, tracker
  <2>2. CASE Goto(c, "new", "cancelled")
    BY <1>0, <2>1, <2>2, MoveConserves
  <2>3. CASE Goto(c, "new", "locking")
    BY <1>0, <2>1, <2>3, MoveConserves
  <2> QED
    BY <1>3, <2>2, <2>3 DEF enter
<1>4. ASSUME NEW c \in Children, wake(c) PROVE TokensConserved'
  <2>1. UNCHANGED <<remaining, claim, usage>>
    BY <1>4 DEF wake, tracker
  <2>2. CASE Goto(c, "waiting", "new")
    BY <1>0, <2>1, <2>2, MoveConserves
  <2>3. CASE Goto(c, "waiting", "cancelled")
    BY <1>0, <2>1, <2>3, MoveConserves
  <2> QED
    BY <1>4, <2>2, <2>3 DEF wake
<1>5. ASSUME NEW c \in Children, closeNotify(c) PROVE TokensConserved'
  BY <1>0, <1>5, MoveConserves DEF closeNotify, tracker
<1>6. ASSUME NEW c \in Children, reserve(c) PROVE TokensConserved'
  <2>1. CASE remaining > 0 /\ Goto(c, "locking", "running")
             /\ claim' = [claim EXCEPT ![c] = Claim(c)] /\ remaining' = remaining - Claim(c)
             /\ UNCHANGED usage
    <3>1. /\ Holding' = Holding \cup {c} /\ c \notin Holding
          /\ Settled' = Settled /\ c \notin Settled
      BY <1>0, <2>1 DEF Holding, Settled, Goto, TypeOK
    <3>2. claim'[c] = Claim(c) /\ \A b \in Children : b # c => claim'[b] = claim[b]
      BY <1>0, <2>1 DEF TypeOK
    <3>3. Claim(c) \in Nat /\ Held \in Nat /\ Charged \in Nat /\ remaining \in Nat
      BY <1>0, <2>1, ClaimFacts, SumsNat DEF TypeOK
    <3>4. Held' = Claim(c) + Held
      <4>1. \A b \in Holding \cup {c} : claim'[b] \in Nat
        BY <1>0 DEF TypeOK, Holding
      <4>2. SumOf(claim', Holding \cup {c}) = claim'[c] + SumOf(claim', Holding)
        BY <1>0, <3>1, <4>1, SumsNat, SumAdd
      <4>3. \A b \in Holding : claim'[b] = claim[b]
        BY <3>1, <3>2 DEF Holding
      <4>4. SumOf(claim', Holding) = SumOf(claim, Holding)
        BY <1>0, <4>3, SumsNat, SumAgree
      <4> QED
        BY <3>1, <3>2, <4>2, <4>4 DEF Held
    <3>5. Charged' = Charged
      <4>1. \A b \in Settled : usage'[b] = usage[b] /\ claim'[b] = claim[b]
        BY <2>1, <3>1, <3>2 DEF Settled
      <4>2. Charges(usage', claim', Settled) = Charges(usage, claim, Settled)
        BY <1>0, <4>1, SumsNat, ChargesAgree
      <4> QED
        BY <3>1, <4>2 DEF Charged
    <3> QED
      BY <2>1, <3>3, <3>4, <3>5, Conserved
  <2>2. CASE Goto(c, "locking", "exhausted") /\ UNCHANGED <<remaining, claim, usage>>
    BY <1>0, <2>2, MoveConserves
  <2>3. CASE Goto(c, "locking", "waiting") /\ UNCHANGED <<remaining, claim, usage>>
    BY <1>0, <2>3, MoveConserves
  <2> QED
    BY <1>6, <2>1, <2>2, <2>3 DEF reserve
<1>7. ASSUME NEW c \in Children, NEW u \in 0..MaxUsage, settle(c, u) PROVE TokensConserved'
  <2>0. /\ Goto(c, "running", "closing")
        /\ usage' = [usage EXCEPT ![c] = u]
        /\ remaining' = remaining + (claim[c] - Spent(c, u))
        /\ UNCHANGED claim
    BY <1>7 DEF settle
  <2>1. /\ Holding' = Holding \ {c} /\ c \in Holding
        /\ Settled' = Settled \cup {c} /\ c \notin Settled
    BY <1>0, <2>0 DEF Holding, Settled, Goto, TypeOK
  <2>2. usage'[c] = u /\ \A b \in Children : b # c => usage'[b] = usage[b]
    BY <1>0, <2>0 DEF TypeOK
  <2>3. u \in Nat /\ claim[c] \in Nat /\ Charge(u, claim[c]) = Spent(c, u) /\ Spent(c, u) \in Nat
    <3>1. u \in Nat /\ claim[c] \in Nat
      BY <1>0, TrackerAssumption DEF TypeOK
    <3>2. {claim[c], u} # {} /\ \E x \in {claim[c], u} : \A y \in {claim[c], u} : x <= y
      <4>1. CASE claim[c] <= u
        BY <3>1, <4>1
      <4>2. CASE u <= claim[c]
        BY <3>1, <4>2
      <4> QED
        BY <3>1, <4>1, <4>2
    <3>3. Spent(c, u) \in {claim[c], u} /\ \A y \in {claim[c], u} : Spent(c, u) <= y
      BY <3>2, MinIsLeast DEF Spent
    <3> QED
      BY <3>1, <3>3 DEF Charge
  <2>4. Held = claim[c] + Held'
    <3>1. \A b \in Holding : claim[b] \in Nat
      BY <1>0 DEF TypeOK, Holding
    <3>2. SumOf(claim, Holding) = claim[c] + SumOf(claim, Holding \ {c})
      BY <1>0, <2>1, <3>1, SumsNat, SumRemove
    <3> QED
      BY <2>0, <2>1, <3>2 DEF Held
  <2>5. Charged' = Spent(c, u) + Charged
    <3>1. \A b \in Settled \cup {c} : usage'[b] \in Nat /\ claim'[b] \in Nat
      BY <1>0 DEF TypeOK, Settled
    <3>2. Charges(usage', claim', Settled \cup {c})
            = Charge(usage'[c], claim'[c]) + Charges(usage', claim', Settled)
      BY <1>0, <2>1, <3>1, SumsNat, ChargesAdd
    <3>3. \A b \in Settled : usage'[b] = usage[b] /\ claim'[b] = claim[b]
      BY <2>0, <2>1, <2>2 DEF Settled
    <3>4. Charges(usage', claim', Settled) = Charges(usage, claim, Settled)
      BY <1>0, <3>3, SumsNat, ChargesAgree
    <3> QED
      BY <2>0, <2>1, <2>2, <2>3, <3>2, <3>4 DEF Charged
  <2>6. remaining \in Nat /\ Held \in Nat /\ Charged \in Nat /\ Held' \in Nat
    <3>1. Held' \in Nat
      <4>1. IsFiniteSet(Holding \ {c}) /\ \A b \in Holding \ {c} : claim[b] \in Nat
        BY <1>0, SumsNat, FS_Subset DEF TypeOK, Holding
      <4>2. SumOf(claim, Holding \ {c}) \in Nat
        BY <4>1, SumNat
      <4> QED
        BY <2>0, <2>1, <4>2 DEF Held
    <3> QED
      BY <1>0, <3>1, SumsNat DEF TypeOK
  <2> QED
    BY <2>0, <2>3, <2>4, <2>5, <2>6, Conserved
<1>8. CASE cancelDispatch
  BY <1>8, NoTokensMoved DEF cancelDispatch, tracker, Holding, Settled
<1>9. CASE UNCHANGED vars
  BY <1>9, NoTokensMoved DEF vars, tracker, Holding, Settled
<1> QED
  BY <1>1, <1>3, <1>4, <1>5, <1>6, <1>7, <1>8, <1>9 DEF Next, Run, Terminated

-----------------------------------------------------------------------------
(* The share is a ceiling. *)

(* Before the first dispatch nothing has happened; while there is one, the   *)
(* share is its part of the whole allowance, and caps every claim.          *)
SharesKept ==
    /\ prepared = {} =>
        /\ remaining = Total /\ batchSize = 0
        /\ \A c \in Children : state[c] = "new" /\ claim[c] = 0
    /\ \A d \in Dispatches : prepared = {d} =>
        /\ batchShare = (Total + Cardinality(d) - 1) \div Cardinality(d)
        /\ \A c \in Children : claim[c] <= batchShare

(* A part of t rounded up, taken n times, exceeds t by less than n. *)
LEMMA CeilingShare ==
    ASSUME NEW t \in Nat, NEW n \in Nat, n > 0, NEW x \in Nat, x <= (t + n - 1) \div n
    PROVE  x * n < t + n
<1> DEFINE q == (t + n - 1) \div n
<1>1. q \in Nat
  OBVIOUS
<1>2. n * q <= t + n - 1
  OBVIOUS
<1>3. \A a, b \in Nat : a <= b => a * n <= n * b
  OBVIOUS
<1> HIDE DEF q
<1> QED
  BY <1>1, <1>2, <1>3 DEF q

(* A part of something, rounded up, is something. *)
LEMMA PositiveShare ==
    ASSUME NEW t \in Nat, t > 0, NEW n \in Nat, n > 0
    PROVE  (t + n - 1) \div n > 0
OBVIOUS

(* The shares start empty. *)
LEMMA SharesInit == Init => SharesKept
BY DEF Init, SharesKept

(* Every step keeps the shares. *)
LEMMA SharesStep == TrackerInv /\ TokensConserved /\ SharesKept /\ [Next]_vars => SharesKept'
<1> SUFFICES ASSUME TrackerInv, TokensConserved, SharesKept, [Next]_vars PROVE SharesKept'
  OBVIOUS
<1>0. TypeOK
  BY DEF TrackerInv
<1>1. ASSUME NEW d \in Dispatches, prepareBatch(d) PROVE SharesKept'
  <2>1. d \notin prepared /\ prepared' = prepared \cup {d} /\ UNCHANGED <<remaining, state, claim>>
    BY <1>1 DEF prepareBatch
  <2>2. CASE prepared = {}
    <3>1. Cardinality(d) \in Nat /\ Cardinality(d) > 0 /\ Share(Cardinality(d)) \in Nat
      BY <1>0, ShareFacts
    <3>2. batchShare' = (Total + Cardinality(d) - 1) \div Cardinality(d)
      BY <1>1, <2>2, <3>1 DEF prepareBatch, SharesKept, Share
    <3>3. batchShare' \in Nat
      BY <1>1, <2>2, <3>1 DEF prepareBatch, SharesKept
    <3>4. \A c \in Children : claim'[c] = 0
      BY <2>1, <2>2 DEF SharesKept
    <3>5. \A e \in Dispatches : prepared' = {e} => e = d
      BY <2>1
    <3>6. prepared' # {}
      BY <2>1
    <3> QED
      BY <3>2, <3>3, <3>4, <3>5, <3>6 DEF SharesKept
  <2>3. CASE prepared # {}
    BY <2>1, <2>3 DEF SharesKept
  <2> QED
    BY <2>2, <2>3
<1>2. ASSUME NEW c \in Children, enter(c) PROVE SharesKept'
  <2>1. prepared # {}
    BY <1>2 DEF enter
  <2> QED
    BY <1>2, <2>1 DEF enter, tracker, SharesKept
<1>3. ASSUME NEW c \in Children, reserve(c) PROVE SharesKept'
  <2>1. prepared # {} /\ UNCHANGED <<prepared, batchShare>>
    BY <1>3 DEF reserve, SharesKept, Goto
  <2>2. CASE UNCHANGED claim
    BY <2>1, <2>2 DEF SharesKept
  <2>3. CASE remaining > 0 /\ claim' = [claim EXCEPT ![c] = Claim(c)]
    <3>1. ASSUME NEW d \in Dispatches, prepared = {d} PROVE Claim(c) <= batchShare
      <4>1. Cardinality(d) \in Nat /\ Cardinality(d) > 0
        BY <1>0, ShareFacts
      <4>2. batchShare = (Total + Cardinality(d) - 1) \div Cardinality(d)
        BY <3>1 DEF SharesKept
      <4>3. Total > 0 /\ Total \in Nat
        <5>1. Total = remaining + Held + Charged
          BY Conserved
        <5> QED
          BY <1>0, <2>3, <5>1, SumsNat, TrackerAssumption DEF TypeOK
      <4>4. batchShare > 0
        BY <4>1, <4>2, <4>3, PositiveShare
      <4> QED
        BY <1>0, <2>3, <4>4, ClaimFacts
    <3>2. \A b \in Children : claim'[b] = IF b = c THEN Claim(c) ELSE claim[b]
      BY <1>0, <2>3 DEF TypeOK
    <3> QED
      BY <2>1, <3>1, <3>2 DEF SharesKept
  <2> QED
    BY <1>3, <2>2, <2>3 DEF reserve
<1>4. ASSUME NEW c \in Children, wake(c) PROVE SharesKept'
  <2>1. prepared # {}
    BY <1>4 DEF wake, Goto, SharesKept
  <2> QED
    BY <1>4, <2>1 DEF wake, tracker, SharesKept
<1>5. ASSUME NEW c \in Children, NEW u \in 0..MaxUsage, settle(c, u) PROVE SharesKept'
  <2>1. prepared # {}
    BY <1>5 DEF settle, Goto, SharesKept
  <2> QED
    BY <1>5, <2>1 DEF settle, SharesKept
<1>6. ASSUME NEW c \in Children, closeNotify(c) PROVE SharesKept'
  <2>1. prepared # {}
    BY <1>6 DEF closeNotify, Goto, SharesKept
  <2> QED
    BY <1>6, <2>1 DEF closeNotify, tracker, SharesKept
<1>7. CASE cancelDispatch
  BY <1>7 DEF cancelDispatch, tracker, SharesKept
<1>8. CASE UNCHANGED vars
  BY <1>8 DEF vars, tracker, SharesKept
<1> QED
  BY <1>1, <1>2, <1>3, <1>4, <1>5, <1>6, <1>7, <1>8 DEF Next, Run, Terminated

(* Tokens are neither lost nor made, nor handed out beyond a child's part or *)
(* without a limit, whatever the children ask for, use, wait for and fail at.*)
THEOREM AllowanceProven == Spec => []AllowanceHeld
<1> DEFINE I == TrackerInv /\ TokensConserved /\ SharesKept
<1>1. Init => I
  BY InitInv, ConservedInit, SharesInit
<1>2. I /\ [Next]_vars => I'
  BY StepInv, ConservedStep, SharesStep
<1>3. I => AllowanceHeld
  <2>1. ASSUME I, NEW d \in Dispatches, prepared = {d}, NEW c \in d
        PROVE  claim[c] * Cardinality(d) < Total + Cardinality(d)
    <3>1. c \in Children
      BY <2>1 DEF Children
    <3>2. Cardinality(d) \in Nat /\ Cardinality(d) > 0 /\ claim[c] \in Nat /\ Total \in Nat
      BY <2>1, <3>1, ShareFacts, TrackerAssumption DEF TrackerInv, TypeOK
    <3>3. claim[c] <= (Total + Cardinality(d) - 1) \div Cardinality(d)
      BY <2>1, <3>1 DEF SharesKept
    <3> QED
      BY <2>1, <3>2, <3>3, CeilingShare
  <2>2. I => ShareIsCeiling
    BY <2>1 DEF ShareIsCeiling
  <2>3. ASSUME I PROVE TokensConserved /\ ClaimsBounded
    BY <2>3 DEF TrackerInv
  <2> QED
    BY <2>2, <2>3 DEF AllowanceHeld
<1> QED
  BY <1>1, <1>2, <1>3, PTL DEF Spec

=============================================================================
