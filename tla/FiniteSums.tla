----------------------------- MODULE FiniteSums -----------------------------
(***************************************************************************)
(* Facts about MapThenSumSet, which the models use for token allowances and *)
(* queue sizes, and about Max.  A sum over a finite set is a recursive      *)
(* function on its subsets, so the facts are proved by well-founded         *)
(* induction on the strict subsets of the set, with the induction           *)
(* hypothesis stated as membership in a set of subsets.                     *)
(***************************************************************************)
EXTENDS Integers, FiniteSetsExt, FiniteSetTheorems, WellFoundedInduction, TLAPS

(* The sum of f over S, and the element a sum takes first. *)
SumOf(f, S) == MapThenSumSet(LAMBDA x : f[x], S)
Some(S) == CHOOSE x \in S : TRUE

(* The recursive equation of the sums of f over the sets in D. *)
Adds(g, f, D) ==
    g = [s \in D |-> IF s = {} THEN 0 ELSE f[Some(s)] + g[s \ {Some(s)}]]

(* A solution over the subsets of T. *)
Sol(f, T) == CHOOSE g : Adds(g, f, SUBSET T)

-----------------------------------------------------------------------------
(* Induction and recursion on finite sets. *)

(* The element a sum takes first is an element. *)
LEMMA SomeIn == ASSUME NEW S, S # {} PROVE Some(S) \in S
BY DEF Some

(* What holds of a set whenever it holds of its strict subsets holds of      *)
(* every finite set.                                                        *)
LEMMA SubsetInduction ==
    ASSUME NEW S, IsFiniteSet(S), NEW F,
           \A T \in SUBSET S : (\A U \in SUBSET T : U # T => U \in F) => T \in F
    PROVE  S \in F
<1> DEFINE Bad == {T \in SUBSET S : T \notin F}
<1>1. SUFFICES ASSUME S \notin F PROVE FALSE
  OBVIOUS
<1>2. IsWellFoundedOn(StrictSubsetOrdering(S), FiniteSubsetsOf(S))
  BY FS_StrictSubsetOrderingWellFounded
<1>3. Bad \subseteq FiniteSubsetsOf(S) /\ Bad # {}
  BY <1>1, FS_Subset DEF FiniteSubsetsOf
<1>4. \E T \in Bad : \A U \in Bad : ~(<<U, T>> \in StrictSubsetOrdering(S))
  <2> HIDE DEF Bad
  <2> QED
    BY <1>2, <1>3, WFMin
<1> QED
  BY <1>4 DEF StrictSubsetOrdering

(* Two solutions of the equation over the subsets of a set agree on it. *)
LEMMA AddsUnique ==
    ASSUME NEW S, IsFiniteSet(S), NEW f, NEW D, NEW E, SUBSET S \subseteq D, SUBSET S \subseteq E,
           NEW g, Adds(g, f, D), NEW h, Adds(h, f, E)
    PROVE  g[S] = h[S]
<1> DEFINE F == {T \in SUBSET S : g[T] = h[T]}
<1>1. ASSUME NEW T \in SUBSET S, \A U \in SUBSET T : U # T => U \in F
      PROVE  T \in F
  <2>1. /\ g[T] = IF T = {} THEN 0 ELSE f[Some(T)] + g[T \ {Some(T)}]
        /\ h[T] = IF T = {} THEN 0 ELSE f[Some(T)] + h[T \ {Some(T)}]
    BY DEF Adds
  <2>2. CASE T = {}
    BY <2>1, <2>2
  <2>3. CASE T # {}
    <3>1. T \ {Some(T)} \in SUBSET T /\ T \ {Some(T)} # T
      BY <2>3, SomeIn
    <3>2. g[T \ {Some(T)}] = h[T \ {Some(T)}]
      BY <1>1, <3>1
    <3> QED
      BY <2>1, <2>3, <3>2
  <2> QED
    BY <2>2, <2>3
<1> HIDE DEF F
<1>2. S \in F
  BY <1>1, SubsetInduction
<1> QED
  BY <1>2 DEF F

(* The equation has a solution over the subsets of a finite set. *)
LEMMA AddsExists ==
    ASSUME NEW S, IsFiniteSet(S), NEW f
    PROVE  \E g : Adds(g, f, SUBSET S)
<1> DEFINE F == {T \in SUBSET S : \E g : Adds(g, f, SUBSET T)}
<1>1. ASSUME NEW T \in SUBSET S, \A U \in SUBSET T : U # T => U \in F
      PROVE  T \in F
  <2> DEFINE V(s) == IF s = {} THEN 0 ELSE f[Some(s)] + Sol(f, s \ {Some(s)})[s \ {Some(s)}]
             k == [s \in SUBSET T |-> V(s)]
  <2>1. ASSUME NEW U \in SUBSET T, U # T PROVE Adds(Sol(f, U), f, SUBSET U)
    <3>1. \E g : Adds(g, f, SUBSET U)
      BY <1>1, <2>1
    <3> QED
      BY <3>1 DEF Sol
  <2>2. ASSUME NEW U \in SUBSET T, U # T PROVE k[U] = Sol(f, U)[U]
    <3>1. k[U] = V(U)
      OBVIOUS
    <3>2. Adds(Sol(f, U), f, SUBSET U)
      BY <2>1, <2>2
    <3>3. Sol(f, U)[U] = IF U = {} THEN 0 ELSE f[Some(U)] + Sol(f, U)[U \ {Some(U)}]
      BY <3>2 DEF Adds
    <3>4. CASE U = {}
      BY <3>1, <3>3, <3>4
    <3>5. CASE U # {}
      <4> DEFINE W == U \ {Some(U)}
      <4>1. W \in SUBSET T /\ W # T /\ IsFiniteSet(W) /\ SUBSET W \subseteq SUBSET U
        BY <2>2, <3>5, SomeIn, FS_Subset
      <4>2. Adds(Sol(f, W), f, SUBSET W)
        BY <2>1, <4>1
      <4>3. Sol(f, W)[W] = Sol(f, U)[W]
        <5> HIDE DEF W
        <5> QED
          BY <3>2, <4>1, <4>2, AddsUnique
      <4> QED
        BY <3>1, <3>3, <3>5, <4>3
    <3> QED
      BY <3>4, <3>5
  <2>3. Adds(k, f, SUBSET T)
    <3>1. ASSUME NEW s \in SUBSET T
          PROVE  V(s) = IF s = {} THEN 0 ELSE f[Some(s)] + k[s \ {Some(s)}]
      <4>1. CASE s = {}
        BY <4>1
      <4>2. CASE s # {}
        <5>1. s \ {Some(s)} \in SUBSET T /\ s \ {Some(s)} # T
          BY <4>2, SomeIn
        <5>2. k[s \ {Some(s)}] = Sol(f, s \ {Some(s)})[s \ {Some(s)}]
          BY <2>2, <5>1
        <5> HIDE DEF k
        <5> QED
          BY <4>2, <5>2
      <4> QED
        BY <4>1, <4>2
    <3>2. k = [s \in SUBSET T |-> IF s = {} THEN 0 ELSE f[Some(s)] + k[s \ {Some(s)}]]
      <4> DEFINE X(s) == IF s = {} THEN 0 ELSE f[Some(s)] + k[s \ {Some(s)}]
      <4>1. \A s \in SUBSET T : V(s) = X(s)
        BY <3>1
      <4> HIDE DEF V, X
      <4>2. k = [s \in SUBSET T |-> X(s)]
        BY <4>1
      <4> QED
        BY <4>2 DEF X
    <3> QED
      BY <3>2 DEF Adds
  <2> QED
    BY <2>3
<1> HIDE DEF F
<1>2. S \in F
  BY <1>1, SubsetInduction
<1> QED
  BY <1>2 DEF F

-----------------------------------------------------------------------------
(* Sums. *)

(* A sum is the value of the solution at the whole set. *)
LEMMA SumIs ==
    ASSUME NEW S, IsFiniteSet(S), NEW f, NEW D, SUBSET S \subseteq D, NEW g, Adds(g, f, D)
    PROVE  SumOf(f, S) = g[S]
<1> DEFINE h == CHOOSE g1 : Adds(g1, f, SUBSET S)
<1>1. SumOf(f, S) = h[S]
  BY DEF SumOf, MapThenSumSet, MapThenFoldSet, Adds, Some
<1>2. Adds(h, f, SUBSET S)
  BY AddsExists
<1> HIDE DEF h
<1> QED
  BY <1>1, <1>2, AddsUnique

(* The sum over nothing is zero. *)
LEMMA SumEmpty == ASSUME NEW f PROVE SumOf(f, {}) = 0
<1>1. PICK g : Adds(g, f, SUBSET {})
  BY AddsExists, FS_EmptySet
<1>2. g[{}] = 0
  BY <1>1 DEF Adds
<1> QED
  BY <1>1, <1>2, SumIs, FS_EmptySet

(* A sum is its first term and the sum over the rest. *)
LEMMA SumFirst ==
    ASSUME NEW S, IsFiniteSet(S), S # {}, NEW f
    PROVE  SumOf(f, S) = f[Some(S)] + SumOf(f, S \ {Some(S)})
<1> DEFINE R == S \ {Some(S)}
<1>1. PICK g : Adds(g, f, SUBSET S)
  BY AddsExists
<1>2. g[S] = f[Some(S)] + g[R]
  BY <1>1 DEF Adds
<1>3. IsFiniteSet(R) /\ SUBSET R \subseteq SUBSET S
  BY FS_Subset
<1>4. SumOf(f, S) = g[S]
  BY <1>1, SumIs
<1>5. SumOf(f, R) = g[R]
  <2> HIDE DEF R
  <2> QED
    BY <1>1, <1>3, SumIs
<1> QED
  BY <1>2, <1>4, <1>5

(* Natural terms have a natural sum. *)
LEMMA SumNat ==
    ASSUME NEW S, IsFiniteSet(S), NEW f, \A x \in S : f[x] \in Nat
    PROVE  SumOf(f, S) \in Nat
<1> DEFINE F == {T \in SUBSET S : SumOf(f, T) \in Nat}
<1>1. ASSUME NEW T \in SUBSET S, \A U \in SUBSET T : U # T => U \in F
      PROVE  T \in F
  <2>1. CASE T = {}
    BY <2>1, SumEmpty
  <2>2. CASE T # {}
    <3>1. Some(T) \in T /\ IsFiniteSet(T)
      BY <2>2, SomeIn, FS_Subset
    <3>2. SumOf(f, T \ {Some(T)}) \in Nat
      BY <1>1, <3>1
    <3>3. SumOf(f, T) = f[Some(T)] + SumOf(f, T \ {Some(T)})
      BY <2>2, <3>1, SumFirst
    <3> QED
      BY <3>1, <3>2, <3>3
  <2> QED
    BY <2>1, <2>2
<1> HIDE DEF F
<1>2. S \in F
  BY <1>1, SubsetInduction
<1> QED
  BY <1>2 DEF F

(* A sum depends on its terms only. *)
LEMMA SumAgree ==
    ASSUME NEW S, IsFiniteSet(S), NEW f, NEW h, \A x \in S : f[x] = h[x]
    PROVE  SumOf(f, S) = SumOf(h, S)
<1> DEFINE F == {T \in SUBSET S : SumOf(f, T) = SumOf(h, T)}
<1>1. ASSUME NEW T \in SUBSET S, \A U \in SUBSET T : U # T => U \in F
      PROVE  T \in F
  <2>1. CASE T = {}
    BY <2>1, SumEmpty
  <2>2. CASE T # {}
    <3>1. Some(T) \in T /\ IsFiniteSet(T)
      BY <2>2, SomeIn, FS_Subset
    <3>2. SumOf(f, T \ {Some(T)}) = SumOf(h, T \ {Some(T)})
      BY <1>1, <3>1
    <3>3. /\ SumOf(f, T) = f[Some(T)] + SumOf(f, T \ {Some(T)})
          /\ SumOf(h, T) = h[Some(T)] + SumOf(h, T \ {Some(T)})
      BY <2>2, <3>1, SumFirst
    <3> QED
      BY <3>1, <3>2, <3>3
  <2> QED
    BY <2>1, <2>2
<1> HIDE DEF F
<1>2. S \in F
  BY <1>1, SubsetInduction
<1> QED
  BY <1>2 DEF F

(* Any term can be taken out of a sum, whichever one the sum takes first. *)
LEMMA SumRemove ==
    ASSUME NEW S, IsFiniteSet(S), NEW f, \A y \in S : f[y] \in Nat
    PROVE  \A x \in S : SumOf(f, S) = f[x] + SumOf(f, S \ {x})
<1> DEFINE F == {T \in SUBSET S : \A x \in T : SumOf(f, T) = f[x] + SumOf(f, T \ {x})}
<1>1. ASSUME NEW T \in SUBSET S, \A U \in SUBSET T : U # T => U \in F
      PROVE  T \in F
  <2> SUFFICES ASSUME NEW x \in T PROVE SumOf(f, T) = f[x] + SumOf(f, T \ {x})
    OBVIOUS
  <2> DEFINE a == Some(T)
             R == T \ {a}
  <2>1. a \in T /\ IsFiniteSet(T)
    BY SomeIn, FS_Subset
  <2>2. SumOf(f, T) = f[a] + SumOf(f, R)
    BY <2>1, SumFirst
  <2>3. CASE a = x
    BY <2>2, <2>3
  <2>4. CASE a # x
    <3>1. SumOf(f, R) = f[x] + SumOf(f, R \ {x})
      <4>1. R \in SUBSET T /\ R # T /\ x \in R
        BY <2>1, <2>4
      <4> QED
        BY <1>1, <4>1
    <3> DEFINE Q == T \ {x}
    <3>2. Q # {} /\ IsFiniteSet(Q) /\ IsFiniteSet(Q \ {a}) /\ IsFiniteSet(R)
      BY <2>1, <2>4, FS_Subset
    <3>3. SumOf(f, Q) = f[a] + SumOf(f, Q \ {a})
      <4>1. Q \in SUBSET T /\ Q # T /\ a \in Q
        BY <2>1, <2>4
      <4> QED
        BY <1>1, <4>1
    <3>4. Q \ {a} = R \ {x}
      OBVIOUS
    <3>5. f[a] \in Nat /\ f[x] \in Nat /\ SumOf(f, Q \ {a}) \in Nat
      BY <2>1, <3>2, SumNat
    <3> QED
      BY <2>2, <3>1, <3>3, <3>4, <3>5
  <2> QED
    BY <2>3, <2>4
<1> HIDE DEF F
<1>2. S \in F
  BY <1>1, SubsetInduction
<1> QED
  BY <1>2 DEF F

(* A term added to a sum. *)
LEMMA SumAdd ==
    ASSUME NEW S, IsFiniteSet(S), NEW f, NEW x, x \notin S, \A y \in S \cup {x} : f[y] \in Nat
    PROVE  SumOf(f, S \cup {x}) = f[x] + SumOf(f, S)
<1> DEFINE T == S \cup {x}
<1>1. IsFiniteSet(T) /\ x \in T /\ T \ {x} = S
  BY FS_AddElement
<1> HIDE DEF T
<1>2. \A y \in T : f[y] \in Nat
  BY DEF T
<1>3. SumOf(f, T) = f[x] + SumOf(f, T \ {x})
  BY <1>1, <1>2, SumRemove
<1> QED
  BY <1>1, <1>3 DEF T

(* A sum splits over any part of its set. *)
LEMMA SumSplit ==
    ASSUME NEW S, IsFiniteSet(S), NEW f, \A y \in S : f[y] \in Nat, NEW T, T \subseteq S
    PROVE  SumOf(f, S) = SumOf(f, T) + SumOf(f, S \ T)
<1> DEFINE F == {R \in SUBSET T : SumOf(f, S) = SumOf(f, R) + SumOf(f, S \ R)}
<1>1. ASSUME NEW R \in SUBSET T, \A U \in SUBSET R : U # R => U \in F
      PROVE  R \in F
  <2>1. CASE R = {}
    <3>1. S \ R = S /\ SumOf(f, S) \in Nat
      BY <2>1, SumNat
    <3> QED
      BY <2>1, <3>1, SumEmpty
  <2>2. CASE R # {}
    <3> DEFINE a == Some(R)
               Q == R \ {a}
               X == S \ Q
    <3>1. /\ a \in R /\ Q \in SUBSET R /\ Q # R
          /\ IsFiniteSet(R) /\ IsFiniteSet(Q) /\ IsFiniteSet(X) /\ a \in X
          /\ X \ {a} = S \ R /\ IsFiniteSet(S \ R)
      BY <2>2, SomeIn, FS_Subset
    <3>2. SumOf(f, S) = SumOf(f, Q) + SumOf(f, X)
      BY <1>1, <3>1
    <3>3. SumOf(f, R) = f[a] + SumOf(f, Q)
      BY <2>2, <3>1, SumFirst
    <3>4. SumOf(f, X) = f[a] + SumOf(f, S \ R)
      <4>1. \A y \in X : f[y] \in Nat
        OBVIOUS
      <4> HIDE DEF X, a
      <4> QED
        BY <3>1, <4>1, SumRemove
    <3>5. f[a] \in Nat /\ SumOf(f, Q) \in Nat /\ SumOf(f, S \ R) \in Nat
      BY <3>1, SumNat
    <3> HIDE DEF a, Q, X
    <3> QED
      BY <3>2, <3>3, <3>4, <3>5
  <2> QED
    BY <2>1, <2>2
<1> HIDE DEF F
<1>2. IsFiniteSet(T)
  BY FS_Subset
<1>3. T \in F
  BY <1>1, <1>2, SubsetInduction
<1> QED
  BY <1>3 DEF F

-----------------------------------------------------------------------------
(* A finite set of integers has a maximum. *)
LEMMA MaxIs ==
    ASSUME NEW S, IsFiniteSet(S), S \in SUBSET Int, S # {}
    PROVE  Max(S) \in S /\ \A y \in S : Max(S) >= y
<1> DEFINE F == {T \in SUBSET S : T = {} \/ (\E x \in T : \A y \in T : x >= y)}
<1>1. ASSUME NEW T \in SUBSET S, \A U \in SUBSET T : U # T => U \in F
      PROVE  T \in F
  <2>1. CASE T = {}
    BY <2>1
  <2>2. CASE T # {}
    <3> DEFINE e == Some(T)
               U == T \ {e}
    <3>1. e \in T /\ U \in SUBSET T /\ U # T
      BY <2>2, SomeIn
    <3>2. U \in F
      BY <1>1, <3>1
    <3>3. CASE U = {}
      <4>1. \A y \in T : y = e BY <3>3
      <4>2. e \in Int BY <3>1
      <4> HIDE DEF e, U
      <4> QED BY <3>1, <4>1, <4>2
    <3>4. CASE U # {}
      <4>1. PICK x \in U : \A y \in U : x >= y
        BY <3>2, <3>4
      <4>2. x \in Int /\ e \in Int /\ x \in T /\ e \in T
        BY <3>1, <4>1
      <4>3. \A y \in T : y = e \/ (y \in Int /\ x >= y)
        BY <4>1
      <4> HIDE DEF e, U, F
      <4>4. \E z \in T : \A y \in T : z >= y
        <5>1. CASE x >= e
          BY <4>2, <4>3, <5>1
        <5>2. CASE ~(x >= e)
          <6>1. \A y \in T : e >= y
            BY <4>2, <4>3, <5>2
          <6> QED BY <4>2, <6>1
        <5> QED BY <5>1, <5>2
      <4> QED BY <4>4 DEF F
    <3> QED BY <3>3, <3>4
  <2> QED BY <2>1, <2>2
<1>2. S \in F
  <2> HIDE DEF F
  <2> QED BY <1>1, SubsetInduction
<1>3. \E x \in S : \A y \in S : x >= y
  BY <1>2
<1> QED BY <1>3 DEF Max

=============================================================================
