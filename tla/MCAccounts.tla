----------------------------- MODULE MCAccounts -----------------------------
(* A small instance of Accounts for TLC. *)
EXTENDS Accounts, TLC

\* Asn is not symmetric: one of them is LocalAsn.
Symmetry ==
  Permutations(User) \union Permutations(Telegram) \union Permutations(Token)
    \union Permutations(Request)
=============================================================================
