-------------------------- MODULE MCApprovalProcess --------------------------
(* Small instances of ApprovalProcess for TLC.                             *)
EXTENDS ApprovalProcess, TLC

CONSTANTS g1, g2, g3, g4, g5, g6, o1

(* One call of each sort that ends differently: an approval and a          *)
(* notification of one approver, whose row the caller of a clearance (with *)
(* no approver configured) needs, too; approved by the executor; a         *)
(* notification without a service; a service whose parameter for automatic *)
(* approval has no value.  The notification's texts break its statement;   *)
(* that the description of the call approved by the executor cannot be     *)
(* read does not matter, nor a flaw in a parameter that is not there.      *)
OneOfEach ==
  (g1 :> "onRegisterCustomer") @@ (g2 :> "start_process")
    @@ (g3 :> "onSubscriptionCreation") @@ (g4 :> "onModifySubscription")
    @@ (g5 :> "onSubscriptionTermination") @@ (g6 :> "onUpgradeSubscription")
SomeApprovers == [g \in Triggers |-> IF g = g2 THEN NoOrg ELSE o1]
Callers == [g \in Triggers |-> o1]
SomeFlaws ==
  [g \in Triggers |-> CASE g = g3 -> {"task_text"}
                        [] g = g4 -> {"unreadable"}
                        [] g = g5 -> {"null_value"}
                        [] g = g6 -> {"null_value"}
                        [] OTHER -> {}]

(* The two triggers that come without a process.                           *)
NoProcess ==
  (g1 :> "billingPerformed") @@ (g2 :> "onCancelAction")
    @@ (g3 :> "onSubscribeToProduct")
NoFlaws == [g \in Triggers |-> {}]
=============================================================================
