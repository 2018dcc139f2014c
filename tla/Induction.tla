------------------------------ MODULE Induction ------------------------------
(***************************************************************************)
(* Induction over numbers, with sets for the predicates: what the proofs   *)
(* about texts and lists of arguments rest on.                             *)
(***************************************************************************)
EXTENDS FiniteSetTheorems, TLAPS

(***************************************************************************)
(* A nonempty set of naturals has a least element: the least of its        *)
(* initial segments that meet it, by strict inclusion, ends in it.         *)
(***************************************************************************)
LEMMA LeastNatural ==
    ASSUME NEW T, T \subseteq Nat, T # {}
    PROVE  \E n \in T : \A m \in T : n <= m
<1> DEFINE Below(n) == {m \in T : m <= n}
           Segments == {Below(n) : n \in T}
           Order == StrictSubsetOrdering(T)
<1>1. ASSUME NEW n \in T
      PROVE  Below(n) \in FiniteSubsetsOf(T)
  <2>1. /\ Below(n) \in SUBSET Nat
        /\ \A m \in Below(n) : m <= n
        /\ n \in Nat
    OBVIOUS
  <2>2. Below(n) \in SUBSET T
    OBVIOUS
  <2> HIDE DEF Below
  <2>3. IsFiniteSet(Below(n))
    BY <2>1, FS_BoundedSetOfNaturals
  <2> QED
    BY <2>2, <2>3 DEF FiniteSubsetsOf
<1>2. PICK S \in Segments : \A R \in Segments : <<R, S>> \notin Order
  <2>1. IsWellFoundedOn(Order, FiniteSubsetsOf(T))
    BY FS_StrictSubsetOrderingWellFounded
  <2>2. Segments \subseteq FiniteSubsetsOf(T) /\ Segments # {}
    BY <1>1
  <2> HIDE DEF Segments, Order
  <2> QED
    BY <2>1, <2>2, WFMin
<1>3. PICK n \in T : S = Below(n)
  OBVIOUS
<1>4. ASSUME NEW m \in T, ~(n <= m)
      PROVE  FALSE
  <2>1. m \in Nat /\ n \in Nat /\ m < n
    BY <1>4
  <2>2. n \notin Below(m) /\ n \in Below(n)
    BY <2>1
  <2>3. ASSUME NEW k \in Below(m)
        PROVE  k \in Below(n)
    <3>1. k \in T /\ k \in Nat /\ k <= m
      OBVIOUS
    <3> QED
      BY <2>1, <3>1
  <2>4. Below(m) \subseteq T /\ Below(n) \subseteq T
    OBVIOUS
  <2> HIDE DEF Below
  <2>5. <<Below(m), Below(n)>> \in Order
    BY <2>2, <2>3, <2>4 DEF StrictSubsetOrdering
  <2> QED
    BY <1>2, <1>3, <2>5
<1> QED
  BY <1>4

(***************************************************************************)
(* Upwards: what holds at a, and at each number after one where it holds,  *)
(* holds from a to b.                                                      *)
(***************************************************************************)
LEMMA Upwards ==
    ASSUME NEW S, NEW a \in Nat, NEW b \in Nat, a \in S,
           \A n \in a .. b - 1 : n \in S => n + 1 \in S
    PROVE  \A n \in a .. b : n \in S
<1> DEFINE T == {n \in a .. b : n \notin S}
<1>1. SUFFICES ASSUME T # {}
               PROVE  FALSE
  OBVIOUS
<1>2. T \subseteq Nat
  OBVIOUS
<1>3. PICK n \in T : \A m \in T : n <= m
  BY <1>1, <1>2, LeastNatural
<1>4. /\ n \in a .. b /\ n \notin S /\ n # a
      /\ n - 1 \in a .. b - 1 /\ ~(n <= n - 1)
  BY <1>3
<1>5. n - 1 \in S
  BY <1>3, <1>4
<1> QED
  BY <1>4, <1>5

(***************************************************************************)
(* Downwards: what holds at a number when it holds at all after it, up to  *)
(* b, holds from a to b.                                                   *)
(***************************************************************************)
LEMMA Downwards ==
    ASSUME NEW S, NEW a \in Nat, NEW b \in Nat,
           \A p \in a .. b : (\A q \in p + 1 .. b : q \in S) => p \in S
    PROVE  \A p \in a .. b : p \in S
<1> DEFINE T == {n \in 0 .. b : b - n \in a .. b /\ b - n \notin S}
<1>1. SUFFICES ASSUME T # {}
               PROVE  FALSE
  <2>1. \A p \in a .. b : b - p \in 0 .. b /\ b - (b - p) = p
    OBVIOUS
  <2> QED
    BY <2>1
<1>2. T \subseteq Nat
  OBVIOUS
<1>3. PICK n \in T : \A m \in T : n <= m
  BY <1>1, <1>2, LeastNatural
<1>4. ASSUME NEW q \in b - n + 1 .. b
      PROVE  q \in S
  <2>1. b - q \in 0 .. b /\ b - (b - q) = q /\ q \in a .. b /\ ~(n <= b - q)
    BY <1>3, <1>4
  <2> QED
    BY <1>3, <2>1
<1>5. b - n \in a .. b /\ b - n \notin S
  BY <1>3
<1> QED
  BY <1>4, <1>5
=============================================================================
