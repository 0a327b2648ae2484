---------------------------- MODULE MCConnectWizard ----------------------------
(***************************************************************************)
(* ConnectWizard on small instances: two networks that need a login each   *)
(* and one that needs none.                                                *)
(***************************************************************************)
EXTENDS ConnectWizard

CONSTANTS meta, twitter, linkedin
=============================================================================
