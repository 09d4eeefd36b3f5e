------------------------------ MODULE Induction -----------------------------
(***************************************************************************)
(* Induction over the natural numbers for a set in place of a predicate:   *)
(* what the proofs use where the model recurses.                           *)
(***************************************************************************)
EXTENDS FiniteSetTheorems, TLAPS

\* A set with 0 that is closed under successor holds every natural number.
LEMMA SetInduction ==
  ASSUME NEW T, 0 \in T, \A n \in Nat : n \in T => n + 1 \in T
  PROVE  Nat \subseteq T
  <1> DEFINE Intervals == { 0 .. n : n \in Nat \ T }
             R == StrictSubsetOrdering(Nat)
  <1> SUFFICES ASSUME NEW n \in Nat, n \notin T PROVE FALSE
    OBVIOUS
  <1>1. ASSUME NEW k \in Nat PROVE 0 .. k \in FiniteSubsetsOf(Nat)
    <2>1. IsFiniteSet(0 .. k)
      BY FS_Interval
    <2> QED BY <2>1 DEF FiniteSubsetsOf
  <1>2. Intervals \subseteq FiniteSubsetsOf(Nat) /\ Intervals # {}
    BY <1>1
  <1>3. IsWellFoundedOn(R, FiniteSubsetsOf(Nat))
    BY FS_StrictSubsetOrderingWellFounded
  <1>4. PICK s \in Intervals : \A t \in Intervals : <<t, s>> \notin R
    <2> HIDE DEF Intervals, R
    <2> QED BY <1>2, <1>3, WFMin
  <1>5. PICK m \in Nat \ T : s = 0 .. m
    OBVIOUS
  <1>6. m - 1 \in Nat \ T
    BY <1>5
  <1>7. 0 .. m - 1 \subseteq s /\ 0 .. m - 1 # s /\ s \in SUBSET Nat
    <2>1. m \in s /\ m \notin 0 .. m - 1
      BY <1>5
    <2> QED BY <1>5, <1>6, <2>1
  <1>8. <<0 .. m - 1, s>> \in R
    BY <1>7 DEF StrictSubsetOrdering
  <1> QED
    BY <1>4, <1>6, <1>8

\* What comes of a start by up to n steps.
Repeats(r, S, start, step, n) ==
  /\ r \in [0 .. n -> S] /\ r[0] = start
  /\ \A i \in 1 .. n : r[i] = step[r[i - 1]]

\* A step can be repeated.
LEMMA Repetition ==
  ASSUME NEW S, NEW start \in S, NEW step \in [S -> S], NEW n \in Nat
  PROVE  \E r : Repeats(r, S, start, step, n)
  <1> DEFINE T == { k \in Nat : \E r : Repeats(r, S, start, step, k) }
  <1>1. 0 \in T
    <2>1. Repeats([i \in 0 .. 0 |-> start], S, start, step, 0)
      BY DEF Repeats
    <2> QED BY <2>1
  <1>2. ASSUME NEW k \in Nat, k \in T PROVE k + 1 \in T
    <2>1. PICK r : Repeats(r, S, start, step, k)
      BY <1>2
    <2> DEFINE q == [i \in 0 .. k + 1 |-> IF i = k + 1 THEN step[r[k]] ELSE r[i]]
    <2>2. q \in [0 .. k + 1 -> S] /\ q[0] = start
      BY <2>1 DEF Repeats
    <2>3. ASSUME NEW i \in 1 .. k + 1 PROVE q[i] = step[q[i - 1]]
      BY <2>1 DEF Repeats
    <2>4. Repeats(q, S, start, step, k + 1)
      BY <2>2, <2>3 DEF Repeats
    <2>5. \E p : Repeats(p, S, start, step, k + 1)
      <3> HIDE DEF q
      <3> QED BY <2>4
    <2> QED BY <2>5
  <1>3. n \in T
    <2> HIDE DEF T
    <2> QED BY <1>1, <1>2, SetInduction
  <1> QED
    BY <1>3
=============================================================================
