---------------------------- MODULE LeastProofs -----------------------------
(***************************************************************************)
(* Induction over the natural numbers, as facts about sets of them: the    *)
(* proofs about strokes and about queues of events argue from the first    *)
(* place where something fails.                                            *)
(***************************************************************************)
EXTENDS Integers, WellFoundedInduction, TLAPS

\* Any set of natural numbers has a least element.
LEMMA LeastElement ==
  ASSUME NEW T, T \subseteq Nat, T # {}
  PROVE  \E m \in T : \A k \in T : m <= k
<1> DEFINE Less == {w \in Nat \X Nat : w[1] < w[2]}
<1>1. IsWellFoundedOn(Less, Nat)
  BY NatLessThanWellFounded, Zenon DEF OpToRel
<1>2. \A k, m \in Nat : k < m => <<k, m>> \in Less
  OBVIOUS
<1> HIDE DEF Less
<1>3. PICK m \in T : \A k \in T : ~(<<k, m>> \in Less)
  BY <1>1, WFMin, Zenon
<1>4. ASSUME NEW k \in T
      PROVE  m <= k
  <2>1. k \in Nat /\ m \in Nat
    OBVIOUS
  <2>2. ~(k < m)
    BY <1>2, <1>3, <2>1, Zenon
  <2> QED BY <2>1, <2>2
<1> QED BY <1>4

\* What holds at first and is kept by every step holds all the way.
LEMMA StepByStep ==
  ASSUME NEW n \in Nat, NEW I, 0 \in I,
         \A i \in 0 .. n - 1 : i \in I => i + 1 \in I
  PROVE  0 .. n \subseteq I
<1> SUFFICES ASSUME NEW x \in 0 .. n, x \notin I
             PROVE  FALSE
  OBVIOUS
<1> DEFINE T == 0 .. n \ I
<1>1. T \subseteq Nat /\ T # {}
  OBVIOUS
<1> HIDE DEF T
<1>2. PICK m \in T : \A k \in T : m <= k
  BY <1>1, LeastElement
<1>3. m \in 0 .. n /\ m \notin I /\ m # 0
  BY DEF T
<1>4. m - 1 \in 0 .. n - 1 /\ (m - 1) + 1 = m
  BY <1>3
<1>5. m - 1 \notin I
  BY <1>3, <1>4
<1>6. m - 1 \in T
  BY <1>4, <1>5 DEF T
<1> QED BY <1>2, <1>3, <1>6

\* Between a place in I and one outside it there are two neighbours of which
\* one is in I and the other is not.
LEMMA Crossing ==
  ASSUME NEW n \in Nat, NEW I, NEW x \in 0 .. n, x \in I, NEW y \in 0 .. n, y \notin I
  PROVE  \E i \in 0 .. n - 1 : i \in I <=> i + 1 \notin I
<1> SUFFICES ASSUME \A i \in 0 .. n - 1 : i \in I <=> i + 1 \in I
             PROVE  FALSE
  OBVIOUS
<1>1. CASE 0 \in I
  <2>1. 0 .. n \subseteq I
    BY <1>1, StepByStep
  <2> QED BY <2>1
<1>2. CASE 0 \notin I
  <2> DEFINE J == 0 .. n \ I
  <2>1. 0 \in J /\ \A i \in 0 .. n - 1 : i \in J => i + 1 \in J
    BY <1>2
  <2> HIDE DEF J
  <2>2. 0 .. n \subseteq J
    BY <2>1, StepByStep
  <2> QED BY <2>2 DEF J
<1> QED BY <1>1, <1>2
=============================================================================
