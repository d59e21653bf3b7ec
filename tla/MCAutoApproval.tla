---------------------------- MODULE MCAutoApproval ----------------------------
(* A small instance of AutoApproval for TLC.                               *)
EXTENDS AutoApproval

CONSTANTS g1, g2, g3
=============================================================================
