---------------------------- MODULE LeastNumber ----------------------------
(* A fact about natural numbers that the proofs share. *)
EXTENDS Integers, WellFoundedInduction, TLAPS

(* A nonempty set of natural numbers has a least element: the positions    *)
(* at which the loops of RSSI_list.c and Common.toMac stop exist.          *)
LEMMA LeastNatural ==
    ASSUME NEW T, T \subseteq Nat, T # {}
    PROVE  \E x \in T : \A y \in T : x <= y
<1> DEFINE Less == {p \in Nat \X Nat : p[1] < p[2]}
<1>1. IsWellFoundedOn(Less, Nat)
  BY NatLessThanWellFounded DEF OpToRel
<1>2. PICK x \in T : \A y \in T : ~(<<y, x>> \in Less)
  <2> HIDE DEF Less
  <2> QED BY <1>1, WFMin
<1>3. ASSUME NEW y \in T
      PROVE  x <= y
  <2>1. x \in Nat /\ y \in Nat
    OBVIOUS
  <2>2. ~(<<y, x>> \in Less)
    BY <1>2
  <2>3. y < x => <<y, x>> \in Less
    BY <2>1
  <2> HIDE DEF Less
  <2> QED BY <2>1, <2>2, <2>3
<1> QED BY <1>3
=============================================================================
