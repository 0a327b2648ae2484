--------------------------- MODULE MCClientSession ---------------------------
(***************************************************************************)
(* ClientSession on small instances.                                       *)
(***************************************************************************)
EXTENDS ClientSession, TLC

CONSTANTS t1, t2, r1, r2

\* Both requests are the first tab's, so that they and its timer share a refresh; the
\* second tab refreshes by its timer.
MCTab == [r \in Requests |-> t1]
=============================================================================
