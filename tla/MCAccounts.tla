----------------------------- MODULE MCAccounts -----------------------------
(***************************************************************************)
(* Accounts on small instances.                                            *)
(***************************************************************************)
EXTENDS Accounts, TLC

CONSTANTS u1, u2, r1, r2, r3, r4, support

AccountSymmetry == Permutations(Users) \cup Permutations(Requests)
=============================================================================
