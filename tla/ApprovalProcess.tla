--------------------------- MODULE ApprovalProcess ---------------------------
(***************************************************************************)
(* The platform's side of the system: a trigger of the OSCM platform calls *)
(* a handler of ApprovalNotificationService, which collects the data of    *)
(* the trigger in an ApprovalTask and either queues its approval or runs   *)
(* a chain of activities (ApprovalRequest.xml, NotificationRequest.xml):   *)
(* send a mail, look for the approver's row, insert it if there is none,   *)
(* insert the task.  A service controller that waits for a clearance posts *)
(* cmd=start_process to the servlet, which first sees to the row of the    *)
(* organization that posts, as for every request, and then runs the chain  *)
(* ClearanceRequest.xml, of the same activities.  Calls run in threads of  *)
(* their own; the chains of two calls, and the servlet's doService, share  *)
(* the tables.  To whom a mail goes is fixed in the chain, or a setting of *)
(* the whole application; it does not depend on the approver and is left   *)
(* out.                                                                    *)
(***************************************************************************)
EXTENDS ApprovalStatus, Naturals

CONSTANTS Triggers,      \* the calls of the platform and of service controllers
          Orgs,          \* organizations that approve
          NoOrg,         \* the approver's organization is not configured
          HandlerOf,     \* [Triggers -> Handlers]: the operation called
          Suspends,      \* triggers whose definition suspends the process
          AutoApproved,  \* triggers of services with AUTO_APPROVE_TRIGGER=true
          ApproverOf,    \* [Triggers -> Orgs \cup {NoOrg}]
          CallerOf,      \* [Triggers -> Orgs]: who posts cmd=start_process
          FlawsOf,       \* [Triggers -> SUBSET Flaws]: what is wrong with its data
          PlainTemplate, \* the mail template in the settings needs no service data
          MaxCrashes     \* bound on the restarts of the application server

NoProcessHandlers == {"billingPerformed", "onCancelAction"}
ServiceHandlers ==
  {"onActivateProduct", "onAddRevokeUser", "onDeactivateProduct", "onModifySubscription",
   "onSubscribeToProduct", "onSubscriptionCreation", "onUnsubscribeFromProduct",
   "onUpgradeSubscription"}
ProcessHandlers ==
  {"onAddSupplier", "onRegisterCustomer", "onRegisterUserInOwnOrganization",
   "onRemoveSupplier", "onSaveCustomerPaymentConfiguration",
   "onSaveDefaultPaymentConfiguration", "onSaveServiceDefaultPaymentConfiguration",
   "onSaveServicePaymentConfiguration", "onSubscriptionModification",
   "onSubscriptionTermination"}
NotificationHandlers == NoProcessHandlers \cup ServiceHandlers \cup ProcessHandlers

(* The command of the servlet that starts a chain, for a clearance.        *)
ServletCommands == {"start_process"}
Handlers == NotificationHandlers \cup ServletCommands

(* What data may make a step throw, with nothing else going wrong: the     *)
(* service's AUTO_APPROVE_TRIGGER is there without a value; the            *)
(* description of the task cannot be read back, or holds a price that is   *)
(* no number; a text typed by a user, or the template of the settings,     *)
(* holds a placeholder the mail cannot replace; such a text does not fit   *)
(* into the insert statement.                                              *)
Flaws == {"null_value", "unreadable", "mail_text", "task_text"}

ASSUME ConstantsAssumption ==
  /\ HandlerOf \in [Triggers -> Handlers]
  /\ ApproverOf \in [Triggers -> Orgs \cup {NoOrg}]
  /\ CallerOf \in [Triggers -> Orgs]
  /\ FlawsOf \in [Triggers -> SUBSET Flaws]
  /\ NoOrg \notin Orgs
  /\ PlainTemplate \in BOOLEAN
  /\ MaxCrashes \in Nat
  /\ Suspends \in SUBSET Triggers
  /\ AutoApproved \in SUBSET Triggers
  /\ \A g \in AutoApproved : HandlerOf[g] \in ServiceHandlers
  /\ \A g \in Suspends : HandlerOf[g] \in ServiceHandlers \cup ProcessHandlers

VARIABLES
  stage,      \* [Triggers -> Stages]: how far the call of the trigger is
  reply,      \* [Triggers -> {"none", "ok", "fault"}]: what the platform got
  mailed,     \* triggers whose chain has sent its mail
  row,        \* [Triggers -> ApprovalStatus \cup {"NONE"}]: the inserted task
  owner,      \* [Triggers -> Orgs \cup {NoOrg}]: the approver of that task
  approvers,  \* organizations with a row in the table approver
  queued,     \* triggers handed to the executor of automatic approvals
  crashes,    \* restarts so far
  disturbed,  \* history: calls in which a setting, remote call, mail or SQL failed
  overtaken   \* history: calls that found no row and were not the first to insert it

vars == <<stage, reply, mailed, row, owner, approvers, queued, crashes, disturbed, overtaken>>

Stages == {"absent", "check", "admit", "fetch", "start", "mail", "find", "create",
           "insert", "done"}

TypeOK ==
  /\ stage \in [Triggers -> Stages]
  /\ reply \in [Triggers -> {"none", "ok", "fault"}]
  /\ mailed \in SUBSET Triggers
  /\ row \in [Triggers -> {"NONE", "WAITING_FOR_APPROVAL", "NOTIFICATION",
                          "WAITING_FOR_CLEARANCE"}]
  /\ owner \in [Triggers -> Orgs \cup {NoOrg}]
  /\ approvers \in SUBSET Orgs
  /\ queued \in SUBSET Triggers
  /\ crashes \in 0..MaxCrashes
  /\ disturbed \in SUBSET Triggers
  /\ overtaken \in SUBSET Triggers
  /\ \A g \in Triggers : stage[g] = "done" <=> reply[g] # "none"

Init ==
  /\ stage = [g \in Triggers |-> "absent"]
  /\ reply = [g \in Triggers |-> "none"]
  /\ mailed = {}
  /\ row = [g \in Triggers |-> "NONE"]
  /\ owner = [g \in Triggers |-> NoOrg]
  /\ approvers = {}
  /\ queued = {}
  /\ crashes = 0
  /\ disturbed = {}
  /\ overtaken = {}

-----------------------------------------------------------------------------
Goto(g, s) == stage' = [stage EXCEPT ![g] = s] /\ UNCHANGED reply

(* The call returns to the platform, or to the controller.                 *)
Return(g) ==
  /\ stage' = [stage EXCEPT ![g] = "done"]
  /\ reply' = [reply EXCEPT ![g] = "ok"]

(* Slips: the exception ends the thread of the handler; every handler only *)
(* logs it.                                                                *)
ThrowUnanswered(g) ==
  /\ stage' = [stage EXCEPT ![g] = "done"]
  /\ UNCHANGED reply

ThrowLogged(g) == Return(g)

(* Something in the call throws: it is logged and thrown on to the         *)
(* platform, except by onAddSupplier, which only logs it; the servlet      *)
(* answers the controller with an error.                                   *)
Throw(g) ==
  /\ stage' = [stage EXCEPT ![g] = "done"]
  /\ reply' = [reply EXCEPT ![g] = IF HandlerOf[g] = "onAddSupplier" THEN "ok" ELSE "fault"]

(* The platform or the controller calls.                                   *)
Notify(g) ==
  /\ stage[g] = "absent"
  /\ Goto(g, CASE HandlerOf[g] \in ServletCommands -> "check"
               [] HandlerOf[g] \in NoProcessHandlers -> "start"
               [] OTHER -> "fetch")
  /\ UNCHANGED <<mailed, row, owner, approvers, queued, crashes, disturbed, overtaken>>

(* Slip: the negation in doService is lost.                                *)
DoesCallerExistNegated(g) ==
  /\ stage[g] = "check"
  /\ Goto(g, IF CallerOf[g] \in approvers THEN "admit" ELSE "start")
  /\ UNCHANGED <<mailed, row, owner, approvers, queued, crashes, disturbed, overtaken>>

(* The servlet's doService: is the organization that posts in the table?   *)
DoesCallerExist(g) ==
  /\ stage[g] = "check"
  /\ Goto(g, IF CallerOf[g] \in approvers THEN "start" ELSE "admit")
  /\ UNCHANGED <<mailed, row, owner, approvers, queued, crashes, disturbed, overtaken>>

(* The calls that are about to insert the row of an organization, and will *)
(* find it there.                                                          *)
Inserting(o) ==
  {h \in Triggers : \/ stage[h] = "admit" /\ CallerOf[h] = o
                    \/ stage[h] = "create" /\ ApproverOf[h] = o}
InsertApprover(o) ==
  /\ approvers' = approvers \cup {o}
  /\ overtaken' = overtaken \cup Inserting(o)

(* As InsertApprover, of a call itself.                                    *)
InsertApproverBy(g, o) ==
  /\ approvers' = approvers \cup {o}
  /\ overtaken' = overtaken \cup (Inserting(o) \ {g})

(* And if it is not, it is inserted; the column orgid is UNIQUE.           *)
CreateCaller(g) ==
  /\ stage[g] = "admit"
  /\ IF CallerOf[g] \in approvers
     THEN Throw(g) /\ UNCHANGED <<approvers, overtaken>>
     ELSE InsertApproverBy(g, CallerOf[g]) /\ Goto(g, "start")
  /\ UNCHANGED <<mailed, row, owner, queued, crashes, disturbed>>

(* getOrganization, getSubscription: web service calls back to the         *)
(* platform while it waits for the handler.                                *)
FetchData(g) ==
  /\ stage[g] = "fetch"
  /\ Goto(g, "start")
  /\ UNCHANGED <<mailed, row, owner, approvers, queued, crashes, disturbed, overtaken>>

(* What startApprovalProcess or start_process makes of the data before the *)
(* chain: asking AUTO_APPROVE_TRIGGER for its value, a trigger without a   *)
(* process for its name, and the description for the data of the chain.    *)
(* Of a trigger that is approved automatically only the first is asked.    *)
StartFails(g) ==
  \/ HandlerOf[g] \in ServiceHandlers /\ "null_value" \in FlawsOf[g]
  \/ /\ g \notin AutoApproved \cap Suspends
     /\ HandlerOf[g] \in NoProcessHandlers \/ "unreadable" \in FlawsOf[g]

(* startApprovalProcess.  A trigger without a process falls through to the *)
(* last branch.                                                            *)
StartApprovalProcess(g) ==
  /\ stage[g] = "start" /\ HandlerOf[g] \in NotificationHandlers
  /\ \/ StartFails(g) /\ Throw(g) /\ UNCHANGED queued
     \/ /\ ~StartFails(g) /\ g \in AutoApproved \cap Suspends
        /\ queued' = queued \cup {g}
        /\ Return(g)
     \/ /\ ~StartFails(g) /\ g \notin AutoApproved \cap Suspends
        /\ Goto(g, "mail")
        /\ UNCHANGED queued
  /\ UNCHANGED <<mailed, row, owner, approvers, crashes, disturbed, overtaken>>

(* start_process: the content posted is the description of the task.       *)
StartProcess(g) ==
  /\ stage[g] = "start" /\ HandlerOf[g] \in ServletCommands
  /\ IF StartFails(g) THEN Throw(g) ELSE Goto(g, "mail")
  /\ UNCHANGED <<mailed, row, owner, approvers, queued, crashes, disturbed, overtaken>>

(* The body of the mail names data of the service in the chains for        *)
(* approvals and notifications.  Only the writer in ApprovalRequest.xml    *)
(* replaces it by a template of the settings; the one in                   *)
(* NotificationRequest.xml reads no settings.  The one in                  *)
(* ClearanceRequest.xml sends the body it is given.                        *)
MailComplete(g) ==
  /\ "mail_text" \notin FlawsOf[g]
  /\ \/ HandlerOf[g] \in ServiceHandlers \cup ServletCommands
     \/ g \in Suspends /\ PlainTemplate

NotifyApprover(g) ==
  /\ stage[g] = "mail"
  /\ IF MailComplete(g) THEN /\ mailed' = mailed \cup {g}
                             /\ Goto(g, "find")
                        ELSE Throw(g) /\ UNCHANGED mailed
  /\ UNCHANGED <<row, owner, approvers, queued, crashes, disturbed, overtaken>>

(* Slip: the activities of the Gateway are swapped.                        *)
GetApproverTKeySwapped(g) ==
  /\ stage[g] = "find"
  /\ IF ApproverOf[g] = NoOrg THEN Throw(g)
     ELSE Goto(g, IF ApproverOf[g] \in approvers THEN "create" ELSE "insert")
  /\ UNCHANGED <<mailed, row, owner, approvers, queued, crashes, disturbed, overtaken>>

(* GetApproverTKey and the Gateway behind it.  The statement names         *)
(* approver.org.id, which is missing when the settings have no approver.   *)
GetApproverTKey(g) ==
  /\ stage[g] = "find"
  /\ IF ApproverOf[g] = NoOrg THEN Throw(g)
     ELSE Goto(g, IF ApproverOf[g] \in approvers THEN "insert" ELSE "create")
  /\ UNCHANGED <<mailed, row, owner, approvers, queued, crashes, disturbed, overtaken>>

(* CreateApprover: the column orgid is UNIQUE.                             *)
CreateApprover(g) ==
  /\ stage[g] = "create"
  /\ IF ApproverOf[g] \in approvers
     THEN Throw(g) /\ UNCHANGED <<approvers, overtaken>>
     ELSE InsertApproverBy(g, ApproverOf[g]) /\ Goto(g, "insert")
  /\ UNCHANGED <<mailed, row, owner, queued, crashes, disturbed>>

(* The chain a call runs, and the status its insert statement writes.      *)
ChainKind(g) == IF HandlerOf[g] \in ServletCommands THEN "clearance"
                ELSE IF g \in Suspends THEN "approval" ELSE "notification"
ChainStatus(g) == FirstStatus(ChainKind(g))

CreateApprovalTask(g) ==
  /\ stage[g] = "insert" /\ "task_text" \notin FlawsOf[g]
  /\ row' = [row EXCEPT ![g] = ChainStatus(g)]
  /\ owner' = [owner EXCEPT ![g] = ApproverOf[g]]
  /\ Return(g)
  /\ UNCHANGED <<mailed, approvers, queued, crashes, disturbed, overtaken>>

(* The statement is put together from texts typed by users, as they are.   *)
TaskTextBreaks(g) ==
  /\ stage[g] = "insert" /\ "task_text" \in FlawsOf[g]
  /\ Throw(g)
  /\ UNCHANGED <<mailed, row, owner, approvers, queued, crashes, disturbed, overtaken>>

(* A remote call, a setting, the mail transport or a statement fails.      *)
Fail(g) ==
  /\ stage[g] \notin {"absent", "done"}
  /\ Throw(g)
  /\ disturbed' = disturbed \cup {g}
  /\ UNCHANGED <<mailed, row, owner, approvers, queued, crashes, overtaken>>

(* A statement or the transport does its work, and fails to say so.        *)
FailAfterEffect(g) ==
  /\ \/ /\ stage[g] = "mail" /\ MailComplete(g)
        /\ mailed' = mailed \cup {g}
        /\ UNCHANGED <<row, owner, approvers, overtaken>>
     \/ /\ stage[g] = "admit"
        /\ InsertApproverBy(g, CallerOf[g])
        /\ UNCHANGED <<mailed, row, owner>>
     \/ /\ stage[g] = "create"
        /\ InsertApproverBy(g, ApproverOf[g])
        /\ UNCHANGED <<mailed, row, owner>>
     \/ /\ stage[g] = "insert" /\ "task_text" \notin FlawsOf[g]
        /\ row' = [row EXCEPT ![g] = ChainStatus(g)]
        /\ owner' = [owner EXCEPT ![g] = ApproverOf[g]]
        /\ UNCHANGED <<mailed, approvers, overtaken>>
  /\ Throw(g)
  /\ disturbed' = disturbed \cup {g}
  /\ UNCHANGED <<queued, crashes>>

(* The task page of an approver creates the row of its own organization    *)
(* (TaskServlet.doService, DataAccessService.createApprover).              *)
ServletCreatesApprover(o) ==
  /\ o \notin approvers
  /\ InsertApprover(o)
  /\ UNCHANGED <<stage, reply, mailed, row, owner, queued, crashes, disturbed>>

(* The application server restarts: the calls under way break off, the     *)
(* executor's queue, which is in memory, is gone.                          *)
Crash ==
  /\ crashes < MaxCrashes
  /\ crashes' = crashes + 1
  /\ LET cut == {g \in Triggers : stage[g] \notin {"absent", "done"}}
     IN  /\ stage' = [g \in Triggers |-> IF g \in cut THEN "done" ELSE stage[g]]
         /\ reply' = [g \in Triggers |-> IF g \in cut THEN "fault" ELSE reply[g]]
         /\ disturbed' = disturbed \cup cut
  /\ queued' = {}
  /\ UNCHANGED <<mailed, row, owner, approvers, overtaken>>

Handler(g) ==
  \/ DoesCallerExist(g) \/ CreateCaller(g) \/ FetchData(g) \/ StartApprovalProcess(g)
  \/ StartProcess(g) \/ NotifyApprover(g) \/ GetApproverTKey(g) \/ CreateApprover(g)
  \/ CreateApprovalTask(g) \/ TaskTextBreaks(g)
  \/ Fail(g) \/ FailAfterEffect(g)

Next ==
  \/ \E g \in Triggers : Notify(g) \/ Handler(g)
  \/ \E o \in Orgs : ServletCreatesApprover(o)
  \/ Crash

Spec == Init /\ [][Next]_vars

-----------------------------------------------------------------------------
(* What the platform is told has been done: a call it got an answer to     *)
(* without a fault has left the task of its chain in the list, or, until   *)
(* the server restarts, the approval with the executor.  Only              *)
(* onAddSupplier acknowledges what it has dropped.                         *)
AcknowledgedIsPending ==
  \A g \in Triggers : reply[g] = "ok" /\ HandlerOf[g] # "onAddSupplier" =>
    IF g \in AutoApproved \cap Suspends THEN g \in queued \/ crashes > 0
                                      ELSE row[g] = ChainStatus(g)

(* The mail and the task of a chain: a task comes after the mail about it, *)
(* belongs to the approver configured for the trigger and refers to a row  *)
(* of his that is there; and a mail about a task that never came is never  *)
(* passed over, the call has failed (onAddSupplier aside).                 *)
MailThenTask ==
  \A g \in Triggers :
    /\ row[g] # "NONE" =>
         g \in mailed /\ owner[g] = ApproverOf[g] /\ owner[g] \in approvers
    /\ g \in mailed /\ row[g] = "NONE" /\ reply[g] = "ok" => HandlerOf[g] = "onAddSupplier"

(* A call that nothing disturbed fails for a reason of its own, and leaves *)
(* no task: before the mail, its data or its kind of trigger (see          *)
(* StartFails, MailComplete); after it, that no approver is configured or  *)
(* a text that does not fit into the statement.  The only reason that lies *)
(* with others is that one of them inserted, between the call's own check  *)
(* and its own insert, the row of the caller (before the mail) or of the   *)
(* approver (after it).                                                    *)
FaultExplained ==
  \A g \in Triggers \ disturbed : reply[g] = "fault" =>
    /\ row[g] = "NONE"
    /\ \/ g \notin mailed /\ (StartFails(g) \/ ~MailComplete(g))
       \/ g \in mailed /\ (ApproverOf[g] = NoOrg \/ "task_text" \in FlawsOf[g])
       \/ g \in overtaken /\ (g \in mailed \/ HandlerOf[g] \in ServletCommands)

(* The order of the chain, which is what the properties rest on; a call    *)
(* about to insert a row that is there has been overtaken.                 *)
ChainOrder ==
  \A g \in Triggers :
    /\ stage[g] # "done" => row[g] = "NONE"
    /\ stage[g] \in {"check", "admit"} => HandlerOf[g] \in ServletCommands
    /\ stage[g] \in {"absent", "check", "admit", "fetch", "start", "mail"} => g \notin mailed
    /\ stage[g] \in {"find", "create", "insert"} => g \in mailed
    /\ stage[g] \in {"mail", "find", "create", "insert"} \/ g \in mailed =>
         g \notin AutoApproved \cap Suspends
    /\ stage[g] \in {"create", "insert"} => ApproverOf[g] # NoOrg
    /\ stage[g] = "insert" => ApproverOf[g] \in approvers
    /\ stage[g] = "admit" /\ CallerOf[g] \in approvers => g \in overtaken
    /\ stage[g] = "create" /\ ApproverOf[g] \in approvers => g \in overtaken

IInv ==
  /\ TypeOK
  /\ ChainOrder
  /\ AcknowledgedIsPending
  /\ MailThenTask
  /\ FaultExplained

(* ApprovalTask.java: "This constructor is used for triggers like          *)
(* billingPerformed and onCancelAction."  Then an undisturbed call of      *)
(* theirs does not end in a fault.                                         *)
NoProcessTriggersServed ==
  \A g \in Triggers \ disturbed :
    HandlerOf[g] \in NoProcessHandlers => reply[g] # "fault"
=============================================================================
