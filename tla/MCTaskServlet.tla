---------------------------- MODULE MCTaskServlet ----------------------------
(* Small instances of TaskServlet for TLC.                                 *)
EXTENDS TaskServlet, TLC

CONSTANTS p1, p2, t1, t2, t3, o1, o2, c0, c1

PageSymmetry == Permutations(Pages)

OneOrg == [p \in Pages |-> o1]
OneOwner == [t \in Tasks |-> o1]

Approvals == [t \in Tasks |-> "approval"]
Clearances == [t \in Tasks |-> "clearance"]

(* A clearance and a notification of the pages' organization, and another  *)
(* organization's task.                                                    *)
TwoOwners == (t1 :> o1) @@ (t2 :> o1) @@ (t3 :> o2)
TwoKinds == (t1 :> "clearance") @@ (t2 :> "notification") @@ (t3 :> "notification")
=============================================================================
