---------------------------- MODULE MCPublisher -----------------------------
(***************************************************************************)
(* Publisher on small instances.                                           *)
(***************************************************************************)
EXTENDS Publisher, TLC

CONSTANTS project, t1, t2, r1, r2, r3, r4

\* One project: a task is judged by its own project only.
MCProjectOf == [t \in Tasks |-> project]

TaskSymmetry == Permutations(Tasks) \cup Permutations(Requests)
=============================================================================
