----------------------------- MODULE MCViewSlot -----------------------------
(* Instances of ViewSlot for TLC. *)
EXTENDS ViewSlotInvariant, TLC

CONSTANTS fixed, free, f1, f2

FileSymmetry == Permutations({f1, f2})
=============================================================================
