----------------------------- MODULE MCBotWizard -----------------------------
(* Small instances of BotWizard for TLC. *)
EXTENDS BotWizard, Functions, TLC

CONSTANTS a, b

\* Two choices for an address and for the BGP extensions, one for every other field.
OneField == [i \in 2..8 |-> IF i \in {4, 8} THEN {a, Blank} ELSE {a}]

\* Every list of different peers.
AllLists ==
  {l \in UNION {[1..n -> Peer] : n \in {1, 2}} : IsInjective(l)}

Symmetry == Permutations(Task) \union Permutations(Peer) \union Permutations(Token)
              \union Permutations(Query)
=============================================================================
