--------------------------- MODULE MCApprovalSystem ---------------------------
(* A small instance of ApprovalSystem for TLC: an approval, a clearance,   *)
(* one approver and one page.                                              *)
EXTENDS ApprovalSystem, TLC

CONSTANTS p1, t1, t2, o1, c0

MCHandlers == (t1 :> "onSubscribeToProduct") @@ (t2 :> "start_process")
MCFlaws == [t \in Tasks |-> {}]
MCOwners == [t \in Tasks |-> o1]
MCPages == [p \in Pages |-> o1]
MCKinds == (t1 :> "approval") @@ (t2 :> "clearance")
=============================================================================
