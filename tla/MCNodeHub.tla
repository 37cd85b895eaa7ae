----------------------------- MODULE MCNodeHub -----------------------------
(* Instances of NodeHub for TLC.  Nothing is symmetric: liveness is checked. *)
EXTENDS NodeHub
=============================================================================
