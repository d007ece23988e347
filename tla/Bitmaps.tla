------------------------------ MODULE Bitmaps ------------------------------
(***************************************************************************)
(* The bitmaps of src/src/utils.h: arrays of int, one per slot, that hand  *)
(* out connection descriptors and reactor entries.  A bitmap is a function *)
(* from slots to {0, 1}; a finder returns the lowest slot that qualifies,  *)
(* or NoSlot (the C -1) when none does.                                    *)
(***************************************************************************)
EXTENDS Integers

NoSlot == -1

LowestOf(S) == IF S = {} THEN NoSlot
               ELSE CHOOSE i \in S : \A j \in S : i <= j

\* Mutant: the loop runs to i <= n.
find_first_empty_bit_Past(bitmap) ==
  LET past == {i + 1 : i \in DOMAIN bitmap} \ DOMAIN bitmap
  IN LowestOf({i \in DOMAIN bitmap : bitmap[i] = 0} \cup past)

\* find_first_empty_bit, and the slot find_first_empty_bit_and_set takes
\* when nobody else writes the bitmap during the call.
find_first_empty_bit(bitmap) ==
  LowestOf({i \in DOMAIN bitmap : bitmap[i] = 0})

=============================================================================
