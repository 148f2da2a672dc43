------------------------------ MODULE SetInduction ------------------------------
(***************************************************************************)
(* Induction over the naturals for the provers at hand: about a set of     *)
(* numbers instead of a predicate, so that it can be instantiated without  *)
(* higher-order reasoning.  It follows from the library's theorem that     *)
(* strict inclusion of finite sets is well-founded.                        *)
(***************************************************************************)
EXTENDS Integers, FiniteSetTheorems, TLAPS

(* Every non-empty set of naturals has a least element: among the sets     *)
(* 0 .. k with k in S one is minimal.                                      *)
LEMMA LeastElement ==
    ASSUME NEW S \in SUBSET Nat, S # {}
    PROVE  \E m \in S : \A k \in S : m <= k
<1> DEFINE I == {0 .. k : k \in S}
<1>1. I # {} /\ I \subseteq SUBSET Nat
  <2>1. \A k \in S : 0 .. k \in I /\ 0 .. k \in SUBSET Nat
    OBVIOUS
  <2>2. \A x \in I : \E k \in S : x = 0 .. k
    OBVIOUS
  <2> HIDE DEF I
  <2> QED BY <2>1, <2>2
<1>2. \A k \in S : IsFiniteSet(0 .. k)
  BY FS_Interval
<1>3. I \subseteq FiniteSubsetsOf(Nat)
  BY <1>1, <1>2, Zenon DEF FiniteSubsetsOf
<1>4. IsWellFoundedOn(StrictSubsetOrdering(Nat), FiniteSubsetsOf(Nat))
  BY FS_StrictSubsetOrderingWellFounded
<1>5. PICK x \in I : \A y \in I : ~(<<y, x>> \in StrictSubsetOrdering(Nat))
  <2> HIDE DEF I
  <2> QED BY <1>1, <1>3, <1>4, WFMin, Zenon
<1>6. PICK m \in S : x = 0 .. m
  BY <1>5
<1>7. ASSUME NEW k \in S, ~(m <= k) PROVE FALSE
  <2>1. k < m /\ k \in Nat /\ m \in Nat
    BY <1>7
  <2>2. 0 .. k \subseteq 0 .. m /\ 0 .. k # 0 .. m
    BY <2>1
  <2>3. 0 .. k \in SUBSET Nat /\ 0 .. m \in SUBSET Nat
    OBVIOUS
  <2>4. <<0 .. k, 0 .. m>> \in StrictSubsetOrdering(Nat)
    BY <2>2, <2>3 DEF StrictSubsetOrdering
  <2> QED BY <1>5, <1>6, <2>4
<1> QED BY <1>7

(* A set of numbers with 0 in it that is closed under successor below n    *)
(* holds all of 0 .. n.                                                    *)
LEMMA UpTo ==
    ASSUME NEW n \in Nat, NEW S, 0 \in S,
           \A k \in 0 .. n - 1 : k \in S => k + 1 \in S
    PROVE  \A k \in 0 .. n : k \in S
<1> DEFINE bad == {k \in 0 .. n : k \notin S}
<1> SUFFICES ASSUME bad # {} PROVE FALSE
  OBVIOUS
<1>1. PICK m \in bad : \A k \in bad : m <= k
  <2>1. bad \in SUBSET Nat
    OBVIOUS
  <2> HIDE DEF bad
  <2> QED BY <2>1, LeastElement
<1>2. m # 0 /\ m - 1 \in 0 .. n - 1
  BY <1>1
<1>3. m - 1 \in S
  BY <1>1, <1>2
<1> QED BY <1>1, <1>2, <1>3

(* The initial run of a set of positions: how far a loop gets that stops   *)
(* at the first position not in ok.                                        *)
LEMMA InitialRun ==
    ASSUME NEW L \in Nat, NEW ok \in SUBSET (1 .. L)
    PROVE  \E s \in 0 .. L :
               /\ {n \in ok : 1 .. n \subseteq ok} = 1 .. s
               /\ Cardinality({n \in ok : 1 .. n \subseteq ok}) = s
               /\ s < L => s + 1 \notin ok
<1> DEFINE out == {n \in 1 .. L + 1 : n \notin ok}
           run == {n \in ok : 1 .. n \subseteq ok}
<1>1. PICK m \in out : \A k \in out : m <= k
  <2>1. out \in SUBSET Nat /\ L + 1 \in out
    OBVIOUS
  <2> HIDE DEF out
  <2> QED BY <2>1, LeastElement
<1>2. m - 1 \in 0 .. L /\ (m - 1 < L => m \notin ok)
  BY <1>1
<1>3. 1 .. m - 1 \subseteq ok
  BY <1>1
<1>4. run = 1 .. m - 1
  <2>1. \A n \in run : n \in 1 .. m - 1
    BY <1>1
  <2>2. \A n \in 1 .. m - 1 : n \in run
    BY <1>2, <1>3
  <2> HIDE DEF run
  <2> QED BY <2>1, <2>2
<1>5. Cardinality(1 .. m - 1) = m - 1
  BY <1>2, FS_Interval
<1>6. (m - 1) + 1 = m
  BY <1>2
<1> HIDE DEF run
<1>7. \E s \in 0 .. L : run = 1 .. s /\ Cardinality(run) = s /\ (s < L => s + 1 \notin ok)
  BY <1>2, <1>4, <1>5, <1>6
<1> QED BY <1>7 DEF run

================================================================================
