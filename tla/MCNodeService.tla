---------------------------- MODULE MCNodeService ----------------------------
(* Small instances of NodeService for TLC. *)
EXTENDS NodeService, TLC

\* Jobs are not symmetric: the fairness and ChangesEnd speak of each of them.
Symmetry == Permutations(Name) \union Permutations(Config)
=============================================================================
