--------------------------- MODULE MCStashCheckout ---------------------------
(* StashCheckout for TLC. *)
EXTENDS StashCheckout

\* No operation tells the branches apart, nor the edits.
Symmetry == Permutations(Branches) \cup Permutations(Edits) \cup Permutations(Slots)
=============================================================================
