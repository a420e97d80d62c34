----------------------------- MODULE MCUseItem -----------------------------
(* Instances of UseItem for TLC. *)
EXTENDS UseItem, TLC

\* Handlers differ only by their name.
RequestSymmetry == Permutations(Requests)
=============================================================================
