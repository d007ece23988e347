--------------------------- MODULE BitmapsProofs ---------------------------
(***************************************************************************)
(* What the bitmap finders of src/src/utils.h return.                      *)
(***************************************************************************)
EXTENDS Bitmaps, TLAPS, WellFoundedInduction

\* Every non-empty set of slots has a lowest one.
LEMMA HasMinimum ==
  ASSUME NEW S, S \subseteq Nat, S # {}
  PROVE  \E i \in S : \A j \in S : i <= j
<1> DEFINE Less == OpToRel(<, Nat)
<1>1. IsWellFoundedOn(Less, Nat)
  BY NatLessThanWellFounded
<1>2. PICK i \in S : \A j \in S : ~ (<<j, i>> \in Less)
  <2> HIDE DEF Less
  <2> QED
    BY <1>1, WFMin
<1>3. \A j \in S : j < i => <<j, i>> \in Less
  BY DEF OpToRel
<1>4. \A j \in S : ~ (j < i)
  BY <1>2, <1>3
<1> HIDE DEF Less
<1> QED
  BY <1>4

LEMMA LowestOfSet ==
  ASSUME NEW S, S \subseteq Nat
  PROVE  /\ S = {} => LowestOf(S) = NoSlot
         /\ S # {} => /\ LowestOf(S) \in S
                      /\ \A j \in S : LowestOf(S) <= j
BY HasMinimum DEF LowestOf

\* find_first_empty_bit returns the lowest clear bit, or NoSlot when every
\* bit is set.
THEOREM FirstEmptyBit ==
  ASSUME NEW n \in Nat, NEW bitmap \in [0 .. n - 1 -> {0, 1}],
         NEW i, i = find_first_empty_bit(bitmap)
  PROVE  \/ /\ i = NoSlot
            /\ \A j \in 0 .. n - 1 : bitmap[j] = 1
         \/ /\ i \in 0 .. n - 1
            /\ bitmap[i] = 0
            /\ \A j \in 0 .. i - 1 : bitmap[j] = 1
<1> DEFINE S == {j \in DOMAIN bitmap : bitmap[j] = 0}
<1>1. S \subseteq Nat /\ DOMAIN bitmap = 0 .. n - 1 /\ i = LowestOf(S)
  BY DEF find_first_empty_bit
<1>2. CASE S = {}
  BY <1>1, <1>2, LowestOfSet
<1>3. CASE S # {}
  <2>1. i \in S /\ \A j \in S : i <= j
    BY <1>1, <1>3, LowestOfSet
  <2>2. i \in 0 .. n - 1 /\ bitmap[i] = 0
    BY <1>1, <2>1
  <2>3. \A j \in 0 .. i - 1 : j \in 0 .. n - 1 /\ j \notin S
    BY <1>1, <2>1, <2>2
  <2>4. \A j \in 0 .. i - 1 : bitmap[j] = 1
    BY <1>1, <2>3
  <2> QED
    BY <2>2, <2>4
<1> QED
  BY <1>2, <1>3
=============================================================================
