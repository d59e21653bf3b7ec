--------------------------- MODULE ApprovalStatus ---------------------------
(***************************************************************************)
(* The vocabulary of the task table: the rows' statuses, the three kinds   *)
(* of task the notification chains insert, and which statuses each         *)
(* tick box of the task list (show_...) and of the delete dialog           *)
(* (delete_...) selects.                                                   *)
(***************************************************************************)

(* Task.ApprovalStatus.  TIMEOUT and FAILED exist in the enum and in the   *)
(* status table; no code sets them.                                        *)
ApprovalStatus ==
  {"WAITING_FOR_APPROVAL", "TIMEOUT", "FAILED", "APPROVED", "REJECTED",
   "NOTIFICATION", "WAITING_FOR_CLEARANCE", "CLEARANCE_GRANTED"}

(* A row that is not in the table: not inserted yet, or deleted.           *)
NoRow == {"NONE", "DELETED"}

(* What a task is for: the chain ApprovalRequest.xml, ClearanceRequest.xml *)
(* or NotificationRequest.xml inserted it.                                 *)
Kinds == {"approval", "clearance", "notification"}

(* The status_tkey constant in the insert statement of each chain.         *)
FirstStatus(kind) ==
  CASE kind = "approval"     -> "WAITING_FOR_APPROVAL"
    [] kind = "clearance"    -> "WAITING_FOR_CLEARANCE"
    [] kind = "notification" -> "NOTIFICATION"

(* The statuses a task of the kind is meant to go through.                 *)
StatusesOf(kind) ==
  CASE kind = "approval"     -> {"WAITING_FOR_APPROVAL", "APPROVED", "REJECTED"}
    [] kind = "clearance"    -> {"WAITING_FOR_CLEARANCE", "CLEARANCE_GRANTED"}
    [] kind = "notification" -> {"NOTIFICATION"}

(* Slip: finished tasks are taken to be all approval tasks.                *)
DeleteBoxOfApprovals ==
  [notifications     |-> {"NOTIFICATION"},
   finished_tasks    |-> {"WAITING_FOR_APPROVAL", "APPROVED", "REJECTED"},
   granted_clearances |-> {"CLEARANCE_GRANTED"}]

(* The tick boxes of the delete dialog, each with the statuses it selects; *)
(* an unticked box is bound to status 0, which no row has.                 *)
DeleteBox ==
  [notifications     |-> {"NOTIFICATION"},
   finished_tasks    |-> {"APPROVED", "REJECTED"},
   granted_clearances |-> {"CLEARANCE_GRANTED"}]

Deletable(ticked) == UNION {DeleteBox[b] : b \in ticked}

(* The tick boxes of the filter dialog of the task list.                   *)
ShowBox ==
  [notifications      |-> {"NOTIFICATION"},
   finished_tasks     |-> {"APPROVED", "REJECTED"},
   open_tasks         |-> {"WAITING_FOR_APPROVAL"},
   granted_clearances |-> {"CLEARANCE_GRANTED"},
   open_clearances    |-> {"WAITING_FOR_CLEARANCE"}]

Shown(ticked) == UNION {ShowBox[b] : b \in ticked}

(* The buttons showTask enables for a row of the status it read.           *)
ButtonsFor(s) ==
  CASE s = "WAITING_FOR_APPROVAL"  -> {"approve", "reject"}
    [] s = "WAITING_FOR_CLEARANCE" -> {"grant_clearance"}
    [] OTHER                       -> {}

(* What the approve and the reject request write into the row, and what    *)
(* the platform makes of the suspended process.                            *)
StatusOf(decision)  == IF decision = "approve" THEN "APPROVED" ELSE "REJECTED"
OutcomeOf(decision) == IF decision = "approve" THEN "approved" ELSE "rejected"
=============================================================================
