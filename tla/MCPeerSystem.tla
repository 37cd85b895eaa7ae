---------------------------- MODULE MCPeerSystem ----------------------------
(* Small instances of PeerSystem for TLC. *)
EXTENDS PeerSystem, TLC

Symmetry == Permutations(Worker) \union Permutations(Peer) \union Permutations(Node)
              \union Permutations(Request)
=============================================================================
