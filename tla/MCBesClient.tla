----------------------------- MODULE MCBesClient -----------------------------
(* A small instance of BesClient for TLC.                                  *)
EXTENDS BesClient

CONSTANTS approve, details
=============================================================================
