---------------------------- MODULE MCStaffConsole ----------------------------
(***************************************************************************)
(* StaffConsole on small instances: pages of one row, so that the pager    *)
(* turns; two names and three roles; a system plan or role and another,    *)
(* whose codes may be exchanged.                                           *)
(***************************************************************************)
EXTENDS StaffConsole, TLC

CONSTANTS k1, k2, f0, f1, f2

CodesAlike == Permutations(Codes)
=============================================================================
