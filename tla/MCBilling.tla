----------------------------- MODULE MCBilling -----------------------------
(***************************************************************************)
(* Billing on small instances.                                             *)
(***************************************************************************)
EXTENDS Billing, TLC

CONSTANTS u1, r1, r2, r3, r4, r5, free, pro_monthly, pro_yearly

\* One account and its requests: nothing in Billing relates two accounts.
MCMaxSites == [p \in {free, pro_monthly, pro_yearly} |-> IF p = free THEN 1 ELSE 3]

OneSender == [r \in Requests |-> u1]

\* Requests of one account are interchangeable.
RequestSymmetry == Permutations(Requests)
=============================================================================
