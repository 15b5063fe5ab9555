----------------------------- MODULE MCAccounts -----------------------------
(***************************************************************************)
(* Finite instances of Accounts.                                           *)
(***************************************************************************)
EXTENDS Accounts, TLC

CONSTANTS u1, u2, b1, b2

\* Browsers are alike, and so are addresses; used without liveness only.
Alike == Permutations({u1, u2}) \cup Permutations({b1, b2})
=============================================================================
