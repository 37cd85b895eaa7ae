----------------------------- MODULE MCNodeAdmin -----------------------------
(* A small instance of NodeAdmin for TLC. *)
EXTENDS NodeAdmin, TLC

\* Fairness speaks of each connection and each worker, of keys only that they are equal.
Symmetry == Permutations(Key)
=============================================================================
