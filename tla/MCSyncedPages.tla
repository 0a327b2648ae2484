---------------------------- MODULE MCSyncedPages ----------------------------
(***************************************************************************)
(* SyncedPages on a small instance: two projects, one on two networks.     *)
(***************************************************************************)
EXTENDS SyncedPages, TLC

MCNetworksOf == (1 :> {"instagram", "linkedin"}) @@ (2 :> {"facebook"})
=============================================================================
