---------------------------- MODULE ApprovalSystem ----------------------------
(***************************************************************************)
(* The whole application: the calls of the platform and of the service     *)
(* controllers (ApprovalProcess, here Chain) and the approvers' pages      *)
(* (TaskServlet, which this module extends) run in one server against the  *)
(* same two tables.  A trigger and the task its chain inserts have the     *)
(* same name.  The two meet where the tables and the platform do: a        *)
(* chain's insert is what the servlet finds in the table, the servlet's    *)
(* insert of an approver is what a chain runs into, the platform suspends  *)
(* a process when the handler has answered and gives it up when the        *)
(* handler has failed, and one restart cuts off both sides.                *)
(***************************************************************************)
EXTENDS TaskServlet

CONSTANTS NoOrg, HandlerOf, Suspends, AutoApproved, CallerOf, FlawsOf, PlainTemplate

VARIABLES stage, reply, mailed, row, owner, queued, disturbed, overtaken

chainVars == <<stage, reply, mailed, row, owner, queued, disturbed, overtaken>>
systemVars == <<vars, chainVars>>

Chain == INSTANCE ApprovalProcess WITH Triggers <- Tasks, ApproverOf <- OwnerOf

(* The calls are as ApprovalProcess takes them to be, and a call inserts a *)
(* task of the kind of its chain.                                          *)
ASSUME SystemAssumption ==
  /\ HandlerOf \in [Tasks -> Chain!Handlers]
  /\ NoOrg \notin Orgs
  /\ CallerOf \in [Tasks -> Orgs]
  /\ FlawsOf \in [Tasks -> SUBSET Chain!Flaws]
  /\ PlainTemplate \in BOOLEAN
  /\ Suspends \in SUBSET Tasks
  /\ AutoApproved \in SUBSET Tasks
  /\ \A t \in AutoApproved : HandlerOf[t] \in Chain!ServiceHandlers
  /\ \A t \in Suspends : HandlerOf[t] \in Chain!ServiceHandlers \cup Chain!ProcessHandlers
  /\ \A t \in Tasks : KindOf[t] = Chain!ChainKind(t)

SystemInit == Init /\ Chain!Init

-----------------------------------------------------------------------------
(* A step of a call that writes no task.  The pages see no more of it than *)
(* a new approver.                                                         *)
CallStep(t) ==
  /\ \/ Chain!Notify(t) \/ Chain!DoesCallerExist(t) \/ Chain!CreateCaller(t)
     \/ Chain!FetchData(t) \/ Chain!StartApprovalProcess(t) \/ Chain!StartProcess(t)
     \/ Chain!NotifyApprover(t) \/ Chain!GetApproverTKey(t) \/ Chain!CreateApprover(t)
     \/ Chain!TaskTextBreaks(t) \/ Chain!Fail(t)
     \/ stage[t] # "insert" /\ Chain!FailAfterEffect(t)
  /\ UNCHANGED <<status, comment, process, page, request, history>>

(* The insert into the table task, its answer lost or not.  The platform   *)
(* is still calling, the controller waiting.                               *)
InsertTask(t) ==
  /\ Chain!CreateApprovalTask(t) \/ (stage[t] = "insert" /\ Chain!FailAfterEffect(t))
  /\ status' = [status EXCEPT ![t] = row'[t]]
  /\ process' = [process EXCEPT ![t] = FirstProcess(KindOf[t])]
  /\ UNCHANGED <<comment, page, request, history>>

(* The platform has the answer of the handler that inserted the task.      *)
PlatformHears(t) ==
  /\ process[t] = "calling"
  /\ reply[t] # "none"
  /\ process' = [process EXCEPT ![t] =
                   IF reply[t] = "ok" THEN "suspended" ELSE "aborted"]
  /\ UNCHANGED <<db, page, request, crashes, history, chainVars>>

(* A step of a page or of its request; an approver it inserts is what a    *)
(* call may run into.                                                      *)
PageStep(p) ==
  /\ User(p) \/ Servlet(p)
  /\ IF approvers' = approvers THEN UNCHANGED chainVars
                               ELSE Chain!ServletCreatesApprover(OrgOf[p])

CancelStep(t) == RequestCancelled(t) /\ UNCHANGED chainVars

Restart == Crash /\ Chain!Crash

SystemNext ==
  \/ \E t \in Tasks : CallStep(t) \/ InsertTask(t) \/ PlatformHears(t) \/ CancelStep(t)
  \/ \E p \in Pages : PageStep(p)
  \/ Restart

SystemSpec == SystemInit /\ [][SystemNext]_systemVars

-----------------------------------------------------------------------------
(* What the chains do to the pages is no more than TaskServlet takes them  *)
(* to do: a task is inserted once, in the status of its kind, and only     *)
(* when its approver is in the table; an approver appears in one statement *)
(* and only if it was not there.                                           *)
IsTaskServlet == Spec

(* The platform waits for a decision it has asked the application for.     *)
Awaited(t) ==
  /\ t \in Suspends \ AutoApproved
  /\ reply[t] = "ok" /\ HandlerOf[t] # "onAddSupplier"
  /\ process[t] \notin {"approved", "rejected", "cancelled"}

(* No request is left hanging: a process the platform has suspended is in  *)
(* the list of the approver configured for it, whose row is there, with    *)
(* the mail about it sent (to whom is not modelled), unless a decision on  *)
(* it is under way or has failed.  It takes the chain (task before         *)
(* answer), the servlet (no delete of an open task) and the platform       *)
(* together.                                                               *)
NobodyForgotten ==
  \A t \in Tasks :
    Awaited(t) /\ t \notin failed \cup misaimed /\ ~UnderWay(t) =>
      /\ status[t] = "WAITING_FOR_APPROVAL"
      /\ t \in mailed
      /\ OwnerOf[t] \in approvers

(* An approver is told that a decision was made only of a process whose    *)
(* handler the platform has a good answer of.  A task left behind by a     *)
(* call that failed after its insert, or decided before the call has       *)
(* answered, ends in an error (ApprovalTask.startApprovalProcess runs the  *)
(* chain inside the call of the platform).                                 *)
DecidedWasAcknowledged ==
  \A t \in Tasks :
    accepted[t] \cap {"approve", "reject"} # {} => reply[t] = "ok" /\ t \in Suspends

(* The row the chain has inserted is the row the servlet finds, and the    *)
(* platform has gone on only after a good answer.                          *)
SidesAgree ==
  \A t \in Tasks :
    /\ row[t] = "NONE" <=> status[t] = "NONE"
    /\ process[t] \in {"suspended", "cancelled", "approved", "rejected"} =>
         reply[t] = "ok" /\ KindOf[t] = "approval"
    /\ process[t] = "calling" => KindOf[t] = "approval"

(* What the chains guarantee, by ApprovalProcess, and the agreement above. *)
ChainInv ==
  /\ Chain!TypeOK
  /\ Chain!ChainOrder
  /\ Chain!AcknowledgedIsPending
  /\ Chain!MailThenTask
  /\ Chain!FaultExplained

SystemInv == ChainInv /\ SidesAgree
=============================================================================
