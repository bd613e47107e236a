----------------------------- MODULE MCAccounts -----------------------------
(* Two requests at a time, and four in all, on a server with one account.  *)
EXTENDS Accounts, TLC

CONSTANTS p1, p2

Symmetry == Permutations({p1, p2})
=============================================================================
