---------------------------- MODULE MCProjects ------------------------------
(***************************************************************************)
(* Projects on small instances.                                            *)
(***************************************************************************)
EXTENDS Projects, TLC

CONSTANTS u1, p1, p2, r1, r2, r3, r4, free, pro_monthly

\* One account: nothing in Projects relates two accounts but the HealthScorer, and
\* it treats every project alone.
MCOwner == [p \in Projects |-> u1]
MCSender == [r \in Requests |-> u1]

\* The plans grant 1 and 3 sites; with 1 and 2 two projects are enough to overrun.
MCMaxSites == [p \in Plans |-> IF p = free THEN 1 ELSE 2]

ProjectSymmetry == Permutations(Projects) \cup Permutations(Requests)
=============================================================================
