--------------------------- MODULE MCPeerLifecycle ---------------------------
(* Small instances of PeerLifecycle for TLC. *)
EXTENDS PeerLifecycle, TLC

Symmetry == Permutations(Worker) \union Permutations(Peer) \union Permutations(Node)
              \union Permutations(Config)
=============================================================================
