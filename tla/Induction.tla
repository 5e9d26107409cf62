----------------------------- MODULE Induction -----------------------------
(***************************************************************************)
(* Induction over the natural numbers in a form that first-order provers   *)
(* can use: about sets instead of predicates.  To prove P(n) for all n,    *)
(* cite NatSetInduction with {n \in Nat : P(n)}.                           *)
(***************************************************************************)
EXTENDS Integers, WellFoundedInduction, TLAPS

\* A set of natural numbers that is not empty has a least element.
LEMMA NatLeast ==
  ASSUME NEW T, T \subseteq Nat, T # {}
  PROVE  \E m \in T : \A n \in T : m <= n
<1>1. IsWellFoundedOn(OpToRel(<, Nat), Nat)  BY NatLessThanWellFounded, Zenon
<1>2. \E x \in T : \A y \in T : ~(<<y, x>> \in OpToRel(<, Nat))  BY <1>1, WFMin, Zenon
<1>3. \A x, y \in Nat : x < y => <<x, y>> \in OpToRel(<, Nat)  BY Zenon DEF OpToRel
<1>4. \E x \in T : \A y \in T : ~(y < x)  BY <1>2, <1>3, Zenon
<1> HIDE <1>1, <1>2, <1>3
<1> QED  BY <1>4, SMT

\* A set that has 0, and n + 1 with every n, has all natural numbers.
LEMMA NatSetInduction ==
  ASSUME NEW S, 0 \in S, \A n \in Nat : n \in S => n + 1 \in S
  PROVE  \A n \in Nat : n \in S
<1> DEFINE T == {n \in Nat : n \notin S}
<1>1. SUFFICES ASSUME T # {} PROVE FALSE  OBVIOUS
<1>2. PICK m \in T : \A n \in T : m <= n
  <2> T \subseteq Nat  OBVIOUS
  <2> HIDE DEF T
  <2> QED  BY <1>1, NatLeast
<1>3. m - 1 \in Nat /\ m - 1 \notin T  BY <1>2, SMT
<1> QED  BY <1>2, <1>3

=============================================================================
