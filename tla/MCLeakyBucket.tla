--------------------------- MODULE MCLeakyBucket ---------------------------
(* Instances of LeakyBucket for TLC. *)
EXTENDS LeakyBucket, TLC

\* Replicas differ only by their name.
ReplicaSymmetry == Permutations(Replicas)
=============================================================================
