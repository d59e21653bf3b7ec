------------------------------ MODULE MCSession ------------------------------
(* One browser with two pages, and two users; browsers share nothing.      *)
EXTENDS Session, TLC

CONSTANTS b1, p1, p2, u1, u2

MCBrowserOf == (p1 :> b1) @@ (p2 :> b1)
=============================================================================
