----------------------------- MODULE TaskServlet -----------------------------
(***************************************************************************)
(* The approver's side of the system: the browser page (index.jsp), the    *)
(* servlet that answers it (TaskServlet), the tables task and approver     *)
(* (DataAccessService), and the two parties a decision is passed on to:    *)
(* the OSCM platform, which keeps the suspended process of an approval     *)
(* task, and the service controller, which waits for a clearance.          *)
(*                                                                         *)
(* A page sends its requests synchronously (XMLHttpRequest with async =    *)
(* false), so it has at most one request; requests of different pages are  *)
(* handled by different servlet threads and interleave between any two     *)
(* SQL statements, WS calls or HTTP calls.  Every SQL statement runs in    *)
(* its own connection with auto-commit: it is one atomic step.  Nothing    *)
(* locks a row across two of them.                                         *)
(***************************************************************************)
EXTENDS ApprovalStatus, Naturals, FiniteSets

CONSTANTS Pages,       \* open browser pages, each logged in as an approver
          Tasks,       \* rows of the task table, present and future
          Orgs,        \* approver organizations
          Comments,    \* contents of the comment field
          NoComment,   \* the empty comment a chain inserts
          NoTask,      \* selectedTask = ''
          OrgOf,       \* [Pages -> Orgs]: the organization of the page's user
          OwnerOf,     \* [Tasks -> Orgs]: the organization of approver_tkey
          KindOf,      \* [Tasks -> Kinds]: the chain that inserts the row
          MaxCrashes   \* bound on the restarts of the application server

ASSUME ConstantsAssumption ==
  /\ OrgOf \in [Pages -> Orgs]
  /\ OwnerOf \in [Tasks -> Orgs]
  /\ KindOf \in [Tasks -> Kinds]
  /\ NoTask \notin Tasks
  /\ NoComment \in Comments
  /\ MaxCrashes \in Nat

VARIABLES
  \* the database
  status,      \* [Tasks -> ApprovalStatus \cup NoRow]: column status_tkey
  comment,     \* [Tasks -> Comments]: column comment
  approvers,   \* SUBSET Orgs: column orgid of the table approver (UNIQUE)
  \* the platform and the controller
  process,     \* [Tasks -> Processes]: what the task's process is doing there
  \* the pages
  listed,      \* [Pages -> SUBSET Tasks]: the rows of the table on the page
  selected,    \* [Pages -> Tasks \cup {NoTask}]: the script's selectedTask
  shown,       \* [Pages -> Tasks \cup {NoTask}]: the task the buttons belong to
  buttons,     \* [Pages -> SUBSET Buttons]: the enabled decision buttons
  \* the requests, one per page
  pc,          \* [Pages -> Stages]: how far the servlet is with the request
  cmd,         \* [Pages -> Commands]: its parameter cmd
  target,      \* [Pages -> Tasks \cup {NoTask}]: its tkey
  text,        \* [Pages -> Comments]: the comment the servlet has at hand
  crashes,     \* restarts so far
  \* history
  accepted,    \* [Tasks -> SUBSET Buttons]: decisions answered with success
  failed,      \* tasks a decision request for which ended in an error
  misaimed     \* tasks decided with buttons enabled for another task

db       == <<status, comment, approvers>>
page     == <<listed, selected, shown, buttons>>
request  == <<pc, cmd, target, text>>
history  == <<accepted, failed, misaimed>>
vars     == <<db, process, page, request, crashes, history>>

Buttons   == {"approve", "reject", "grant_clearance"}
Commands  == Buttons \cup {"none", "tasklist", "open", "save", "delete"}
Stages    == {"idle", "received", "create", "execute", "read", "notify", "write"}
Undecided == {"calling", "aborted", "suspended", "cancelled"}
Processes == {"absent", "running", "waiting", "finished", "approved", "rejected"}
               \cup Undecided

(* What happens at the platform or the controller when the row appears: an *)
(* approval task is inserted while the platform still waits for the        *)
(* handler, and has not suspended the process yet.                         *)
FirstProcess(kind) ==
  CASE kind = "approval"     -> "calling"
    [] kind = "clearance"    -> "waiting"
    [] kind = "notification" -> "running"

(* The types; and the commands on a task, alone among the requests under   *)
(* way, name one: the page refuses to send them while selectedTask = ''.   *)
TypeOK ==
  /\ status \in [Tasks -> ApprovalStatus \cup NoRow]
  /\ comment \in [Tasks -> Comments]
  /\ approvers \in SUBSET Orgs
  /\ process \in [Tasks -> Processes]
  /\ listed \in [Pages -> SUBSET Tasks]
  /\ selected \in [Pages -> Tasks \cup {NoTask}]
  /\ shown \in [Pages -> Tasks \cup {NoTask}]
  /\ buttons \in [Pages -> SUBSET Buttons]
  /\ pc \in [Pages -> Stages]
  /\ cmd \in [Pages -> Commands]
  /\ target \in [Pages -> Tasks \cup {NoTask}]
  /\ text \in [Pages -> Comments]
  /\ \A p \in Pages : target[p] \in Tasks <=> cmd[p] \in Buttons \cup {"open", "save"}
  /\ crashes \in 0..MaxCrashes
  /\ accepted \in [Tasks -> SUBSET Buttons]
  /\ failed \in SUBSET Tasks
  /\ misaimed \in SUBSET Tasks

(* A page right after login, before its first loadTaskList is answered.    *)
Init ==
  /\ status = [t \in Tasks |-> "NONE"]
  /\ comment = [t \in Tasks |-> NoComment]
  /\ approvers = {}
  /\ process = [t \in Tasks |-> "absent"]
  /\ listed = [p \in Pages |-> {}]
  /\ selected = [p \in Pages |-> NoTask]
  /\ shown = [p \in Pages |-> NoTask]
  /\ buttons = [p \in Pages |-> {}]
  /\ pc = [p \in Pages |-> "idle"]
  /\ cmd = [p \in Pages |-> "none"]
  /\ target = [p \in Pages |-> NoTask]
  /\ text = [p \in Pages |-> NoComment]
  /\ crashes = 0
  /\ accepted = [t \in Tasks |-> {}]
  /\ failed = {}
  /\ misaimed = {}

InTable(t) == status[t] \notin NoRow

-----------------------------------------------------------------------------
(* Requests and answers.                                                   *)

(* A request leaves the page and reaches the servlet.                      *)
Send(p, c, t, x) ==
  /\ pc' = [pc EXCEPT ![p] = "received"]
  /\ cmd' = [cmd EXCEPT ![p] = c]
  /\ target' = [target EXCEPT ![p] = t]
  /\ text' = [text EXCEPT ![p] = x]

(* The request has been answered and the page waits for the user.          *)
Finish(p) ==
  /\ pc' = [pc EXCEPT ![p] = "idle"]
  /\ cmd' = [cmd EXCEPT ![p] = "none"]
  /\ target' = [target EXCEPT ![p] = NoTask]
  /\ text' = [text EXCEPT ![p] = NoComment]

Goto(p, stage) ==
  /\ pc' = [pc EXCEPT ![p] = stage]
  /\ UNCHANGED <<cmd, target, text>>

(* loadTaskList: disable the buttons, clear the view and the table, send.  *)
LoadTaskList(p) ==
  /\ buttons' = [buttons EXCEPT ![p] = {}]
  /\ shown' = [shown EXCEPT ![p] = NoTask]
  /\ selected' = [selected EXCEPT ![p] = NoTask]
  /\ listed' = [listed EXCEPT ![p] = {}]
  /\ Send(p, "tasklist", NoTask, NoComment)

-----------------------------------------------------------------------------
(* The user at the page.                                                   *)

ClickRefresh(p) ==
  /\ pc[p] = "idle"
  /\ LoadTaskList(p)
  /\ UNCHANGED <<db, process, crashes, history>>

(* showTask, up to its httpGet: selectedTask changes before the answer     *)
(* comes, the buttons stay as they are.                                    *)
ClickRow(p, t) ==
  /\ pc[p] = "idle"
  /\ t \in listed[p]
  /\ selected' = [selected EXCEPT ![p] = t]
  /\ Send(p, "open", t, NoComment)
  /\ UNCHANGED <<db, process, listed, shown, buttons, crashes, history>>

(* Slip: saveTask without its check of selectedTask.                       *)
ClickSaveUnchecked(p, x) ==
  /\ pc[p] = "idle"
  /\ Send(p, "save", selected[p], x)
  /\ UNCHANGED <<db, process, page, crashes, history>>

ClickSave(p, x) ==
  /\ pc[p] = "idle"
  /\ selected[p] # NoTask
  /\ Send(p, "save", selected[p], x)
  /\ UNCHANGED <<db, process, page, crashes, history>>

(* approveTask, rejectTask, grantClearance: the buttons are those of the   *)
(* task last shown, the request is for the task last selected.             *)
ClickDecision(p, b, x) ==
  /\ pc[p] = "idle"
  /\ b \in buttons[p]
  /\ selected[p] # NoTask
  /\ Send(p, b, selected[p], x)
  /\ misaimed' = IF shown[p] = selected[p] THEN misaimed
                                           ELSE misaimed \cup {selected[p]}
  /\ UNCHANGED <<db, process, page, crashes, accepted, failed>>

ClickDelete(p) ==
  /\ pc[p] = "idle"
  /\ Send(p, "delete", NoTask, NoComment)
  /\ UNCHANGED <<db, process, page, crashes, history>>

-----------------------------------------------------------------------------
(* The servlet.                                                            *)

(* Slip: the answer of doesApproverExistsInDB the wrong way round.         *)
DoesApproverExistNegated(p) ==
  /\ pc[p] = "received"
  /\ Goto(p, IF OrgOf[p] \in approvers THEN "create" ELSE "execute")
  /\ UNCHANGED <<db, process, page, crashes, history>>

(* doService asks for the approver row before it looks at the command ...  *)
DoesApproverExist(p) ==
  /\ pc[p] = "received"
  /\ Goto(p, IF OrgOf[p] \in approvers THEN "execute" ELSE "create")
  /\ UNCHANGED <<db, process, page, crashes, history>>

(* ... and inserts it in a second statement.  When the row has come into   *)
(* being in between, the UNIQUE constraint lets only AnswerError happen.   *)
CreateApprover(p) ==
  /\ pc[p] = "create"
  /\ OrgOf[p] \notin approvers
  /\ approvers' = approvers \cup {OrgOf[p]}
  /\ Goto(p, "execute")
  /\ UNCHANGED <<status, comment, process, page, crashes, history>>

(* Slip: the query forgets the approver.                                   *)
GetTaskListOfAll(p, ticked) ==
  /\ pc[p] = "execute" /\ cmd[p] = "tasklist"
  /\ listed' = [listed EXCEPT ![p] = {t \in Tasks : status[t] \in Shown(ticked)}]
  /\ Finish(p)
  /\ UNCHANGED <<db, process, selected, shown, buttons, crashes, history>>

GetTaskList(p, ticked) ==
  /\ pc[p] = "execute" /\ cmd[p] = "tasklist"
  /\ listed' = [listed EXCEPT ![p] =
                  {t \in Tasks : /\ OwnerOf[t] = OrgOf[p]
                                 /\ status[t] \in Shown(ticked)}]
  /\ Finish(p)
  /\ UNCHANGED <<db, process, selected, shown, buttons, crashes, history>>

(* Slip: showTask without disableButtons.                                  *)
OpenTaskKeepingButtons(p) ==
  /\ pc[p] = "execute" /\ cmd[p] = "open"
  /\ shown' = [shown EXCEPT ![p] = target[p]]
  /\ buttons' = [buttons EXCEPT ![p] = @ \cup ButtonsFor(status[target[p]])]
  /\ Finish(p)
  /\ UNCHANGED <<db, process, listed, selected, crashes, history>>

(* The rest of showTask.  The row may be gone: the script then fails on    *)
(* the null description, after disableButtons.                             *)
OpenTask(p) ==
  /\ pc[p] = "execute" /\ cmd[p] = "open"
  /\ shown' = [shown EXCEPT ![p] = target[p]]
  /\ buttons' = [buttons EXCEPT ![p] = ButtonsFor(status[target[p]])]
  /\ Finish(p)
  /\ UNCHANGED <<db, process, listed, selected, crashes, history>>

(* An update of a row that has been deleted changes nothing and succeeds.  *)
SaveTask(p) ==
  /\ pc[p] = "execute" /\ cmd[p] = "save"
  /\ comment' = [comment EXCEPT ![target[p]] =
                   IF InTable(target[p]) THEN text[p] ELSE @]
  /\ Finish(p)
  /\ UNCHANGED <<status, approvers, process, page, crashes, history>>

DeleteApprovedTasks(p, ticked) ==
  /\ pc[p] = "execute" /\ cmd[p] = "delete"
  /\ status' = [t \in Tasks |->
                  IF OwnerOf[t] = OrgOf[p] /\ status[t] \in Deletable(ticked)
                  THEN "DELETED" ELSE status[t]]
  /\ comment' = [t \in Tasks |->
                  IF status'[t] = "DELETED" THEN NoComment ELSE comment[t]]
  /\ LoadTaskList(p)
  /\ UNCHANGED <<approvers, process, crashes, history>>

(* approve and reject, first statement: no look at the present status.     *)
UpdateTaskStatus(p) ==
  /\ pc[p] = "execute" /\ cmd[p] \in {"approve", "reject"}
  /\ IF InTable(target[p])
     THEN /\ status' = [status EXCEPT ![target[p]] = StatusOf(cmd[p])]
          /\ comment' = [comment EXCEPT ![target[p]] = text[p]]
     ELSE UNCHANGED <<status, comment>>
  /\ Goto(p, "read")
  /\ UNCHANGED <<approvers, process, page, crashes, history>>

(* Slip: the chain ClearanceGranted.xml starts with UpdateTaskStatus.      *)
GetTaskThenWrite(p) ==
  /\ \/ pc[p] = "read"
     \/ pc[p] = "execute" /\ cmd[p] = "grant_clearance"
  /\ InTable(target[p])
  /\ pc' = [pc EXCEPT ![p] = IF cmd[p] = "grant_clearance" THEN "write" ELSE "notify"]
  /\ text' = [text EXCEPT ![p] = comment[target[p]]]
  /\ UNCHANGED <<db, process, page, cmd, target, crashes, history>>

(* notifyCTMGTrigger (and grant_clearance at once) reads the row again; a  *)
(* row that is gone has no organization and no description: AnswerError.   *)
GetTask(p) ==
  /\ \/ pc[p] = "read"
     \/ pc[p] = "execute" /\ cmd[p] = "grant_clearance"
  /\ InTable(target[p])
  /\ pc' = [pc EXCEPT ![p] = "notify"]
  /\ text' = [text EXCEPT ![p] = comment[target[p]]]
  /\ UNCHANGED <<db, process, page, cmd, target, crashes, history>>

(* approveAction / rejectAction: the platform refuses the call (AnswerError)*)
(* unless the process is suspended.  The reply may get lost on the way.     *)
PlatformApplies(p) ==
  /\ pc[p] = "notify" /\ cmd[p] \in {"approve", "reject"}
  /\ process[target[p]] = "suspended"
  /\ process' = [process EXCEPT ![target[p]] = OutcomeOf(cmd[p])]

(* Slip: the task for the web service logs an exception and returns RC_OK. *)
NotifyCTMGTriggerSwallowing(p) ==
  /\ pc[p] = "notify" /\ cmd[p] \in {"approve", "reject"}
  /\ process' = [process EXCEPT ![target[p]] =
                    IF @ = "suspended" THEN OutcomeOf(cmd[p]) ELSE @]
  /\ accepted' = [accepted EXCEPT ![target[p]] = @ \cup {cmd[p]}]
  /\ LoadTaskList(p)
  /\ UNCHANGED <<db, crashes, failed, misaimed>>

NotifyCTMGTrigger(p) ==
  /\ PlatformApplies(p)
  /\ accepted' = [accepted EXCEPT ![target[p]] = @ \cup {cmd[p]}]
  /\ LoadTaskList(p)
  /\ UNCHANGED <<db, crashes, failed, misaimed>>

NotifyReplyLost(p) ==
  /\ PlatformApplies(p)
  /\ failed' = failed \cup {target[p]}
  /\ Finish(p)
  /\ UNCHANGED <<db, page, crashes, accepted, misaimed>>

(* ClearanceGranted.xml: ContinueManualStep tells the controller ...       *)
ControllerContinues(t) ==
  process' = [process EXCEPT ![t] = IF @ = "waiting" THEN "finished" ELSE @]

ContinueManualStep(p) ==
  /\ pc[p] = "notify" /\ cmd[p] = "grant_clearance"
  /\ ControllerContinues(target[p])
  /\ Goto(p, "write")
  /\ UNCHANGED <<db, page, crashes, history>>

ContinueReplyLost(p) ==
  /\ pc[p] = "notify" /\ cmd[p] = "grant_clearance"
  /\ ControllerContinues(target[p])
  /\ failed' = failed \cup {target[p]}
  /\ Finish(p)
  /\ UNCHANGED <<db, page, crashes, accepted, misaimed>>

(* ... and UpdateTaskStatus writes the status, and the comment as it was   *)
(* when the row was read.                                                  *)
UpdateClearance(p) ==
  /\ pc[p] = "write"
  /\ IF InTable(target[p])
     THEN /\ status' = [status EXCEPT ![target[p]] = "CLEARANCE_GRANTED"]
          /\ comment' = [comment EXCEPT ![target[p]] = text[p]]
     ELSE UNCHANGED <<status, comment>>
  /\ accepted' = [accepted EXCEPT ![target[p]] = @ \cup {"grant_clearance"}]
  /\ LoadTaskList(p)
  /\ UNCHANGED <<approvers, process, crashes, failed, misaimed>>

(* Any statement or call may throw: a SQL error, a violated constraint, a  *)
(* missing row or setting, a refused or unreachable platform.  The servlet *)
(* answers with an error and undoes nothing.  The page keeps its buttons;  *)
(* after a failed open, those of the task shown before.                    *)
AnswerError(p) ==
  /\ pc[p] # "idle"
  /\ failed' = IF cmd[p] \in Buttons THEN failed \cup {target[p]} ELSE failed
  /\ Finish(p)
  /\ UNCHANGED <<db, process, page, crashes, accepted, misaimed>>

(* The application server restarts: every request under way is cut off.    *)
Crash ==
  /\ crashes < MaxCrashes
  /\ crashes' = crashes + 1
  /\ failed' = failed \cup {target[p] : p \in {q \in Pages : cmd[q] \in Buttons}}
  /\ pc' = [p \in Pages |-> "idle"]
  /\ cmd' = [p \in Pages |-> "none"]
  /\ target' = [p \in Pages |-> NoTask]
  /\ text' = [p \in Pages |-> NoComment]
  /\ UNCHANGED <<db, process, page, accepted, misaimed>>

-----------------------------------------------------------------------------
(* The other side: a chain inserts a row for its approver, or the servlet  *)
(* one for the caller of start_process; and a chain inserts the task (see  *)
(* the module ApprovalProcess).                                            *)
ChainCreatesApprover(o) ==
  /\ o \notin approvers
  /\ approvers' = approvers \cup {o}
  /\ UNCHANGED <<status, comment, process, page, request, crashes, history>>

TaskArrives(t) ==
  /\ status[t] = "NONE"
  /\ OwnerOf[t] \in approvers
  /\ status' = [status EXCEPT ![t] = FirstStatus(KindOf[t])]
  /\ process' = [process EXCEPT ![t] = FirstProcess(KindOf[t])]
  /\ UNCHANGED <<comment, approvers, page, request, crashes, history>>

(* The handler that inserted the row returns to the platform, which then   *)
(* suspends the process, or ends in a fault after all, and the platform    *)
(* gives the process up.                                                   *)
HandlerReturns(t) ==
  /\ process[t] = "calling"
  /\ \E outcome \in {"suspended", "aborted"} :
       process' = [process EXCEPT ![t] = outcome]
  /\ UNCHANGED <<db, page, request, crashes, history>>

(* The requesting user withdraws a suspended request at the platform, of   *)
(* which no task is told (onCancelAction).                                 *)
RequestCancelled(t) ==
  /\ process[t] = "suspended"
  /\ process' = [process EXCEPT ![t] = "cancelled"]
  /\ UNCHANGED <<db, page, request, crashes, history>>

-----------------------------------------------------------------------------
User(p) ==
  \/ ClickRefresh(p)
  \/ \E t \in Tasks : ClickRow(p, t)
  \/ \E x \in Comments : ClickSave(p, x)
  \/ \E b \in Buttons, x \in Comments : ClickDecision(p, b, x)
  \/ ClickDelete(p)

Servlet(p) ==
  \/ DoesApproverExist(p)
  \/ CreateApprover(p)
  \/ \E ticked \in SUBSET DOMAIN ShowBox : GetTaskList(p, ticked)
  \/ OpenTask(p)
  \/ SaveTask(p)
  \/ \E ticked \in SUBSET DOMAIN DeleteBox : DeleteApprovedTasks(p, ticked)
  \/ UpdateTaskStatus(p)
  \/ GetTask(p)
  \/ NotifyCTMGTrigger(p)
  \/ NotifyReplyLost(p)
  \/ ContinueManualStep(p)
  \/ ContinueReplyLost(p)
  \/ UpdateClearance(p)
  \/ AnswerError(p)

Next ==
  \/ \E p \in Pages : User(p) \/ Servlet(p)
  \/ \E t \in Tasks : TaskArrives(t) \/ HandlerReturns(t) \/ RequestCancelled(t)
  \/ \E o \in Orgs : ChainCreatesApprover(o)
  \/ Crash

Spec == Init /\ [][Next]_vars

-----------------------------------------------------------------------------
(* Safety.                                                                 *)

(* A decision request on t is under way.                                   *)
UnderWay(t) == \E p \in Pages : target[p] = t /\ cmd[p] \in Buttons

(* A decision that was reported to the approver as made holds at the other *)
(* side: "The request was approved." is only shown of a process the        *)
(* platform has approved, and so for rejections and clearances.  Hence no  *)
(* two approvers are both told success for opposite decisions, however     *)
(* their requests interleave (TaskServlet.executePost, notifyCTMGTrigger). *)
ReportedDecisionsHold ==
  \A t \in Tasks :
    /\ "approve" \in accepted[t] => process[t] = "approved"
    /\ "reject" \in accepted[t] => process[t] = "rejected"
    /\ "grant_clearance" \in accepted[t] /\ KindOf[t] = "clearance"
         => process[t] = "finished"

(* A task only takes the statuses of its kind: no notification gets        *)
(* approved, no approval gets a clearance.  The servlet checks nothing of  *)
(* the kind: what keeps the commands apart is the page, which enables the  *)
(* buttons by the status it read (index.jsp, showTask).  The exception are *)
(* tasks decided with the buttons of another task.                         *)
KindRespected ==
  \A t \in Tasks \ misaimed : status[t] \in StatusesOf(KindOf[t]) \cup NoRow

(* The row of an approval task and the platform's process agree, unless a  *)
(* decision request is still under way, or one ended in an error: the      *)
(* status is written before the platform is called and never set back.     *)
(* In particular no row is deleted while its process is left suspended.    *)
DecisionsReachPlatform ==
  \A t \in Tasks :
    KindOf[t] = "approval" /\ t \notin failed \cup misaimed /\ ~UnderWay(t) =>
      /\ status[t] = "WAITING_FOR_APPROVAL" => process[t] \in Undecided
      /\ status[t] = "APPROVED" => process[t] = "approved"
      /\ status[t] = "REJECTED" => process[t] = "rejected"
      /\ status[t] = "DELETED"  => process[t] \in {"approved", "rejected"}

(* Nothing says CLEARANCE_GRANTED of a clearance the controller has not    *)
(* been told of, nor is such a row deleted (ClearanceGranted.xml).         *)
GrantedMeansContinued ==
  \A t \in Tasks :
    KindOf[t] = "clearance" /\ status[t] = "CLEARANCE_GRANTED" => process[t] = "finished"

(* A row changes its status, or vanishes, only by a request of a page of   *)
(* the organization that owns it: executePost takes the tkey as it comes,  *)
(* so it is the task list that must not offer the tasks of others.         *)
OwnerActs(t) ==
  status[t] # "NONE" /\ status'[t] # status[t] =>
    \E p \in Pages : OrgOf[p] = OwnerOf[t] /\ pc[p] # "idle" /\ pc'[p] # pc[p]

OwnersDecide == [][\A t \in Tasks : OwnerActs(t)]_vars

(* No command is executed for an organization without its approver row,    *)
(* and no task is there without that of its owner, whichever of the first  *)
(* requests and chains of an organization inserts it, and whichever fails  *)
(* on the UNIQUE constraint: the statements select the key of that row in  *)
(* a subquery, and would quietly find and delete nothing                   *)
(* (TaskServlet.java:54-56, DataAccessService.java:125, 149).              *)
ApproverRowsExist ==
  /\ \A p \in Pages : pc[p] \in {"execute", "read", "notify", "write"} => OrgOf[p] \in approvers
  /\ \A t \in Tasks : status[t] # "NONE" => OwnerOf[t] \in approvers

-----------------------------------------------------------------------------
(* The promise the servlet implements.                                     *)

(* What the process of a task means for its decision.                      *)
OutcomeAt(state) ==
  CASE state = "absent"                   -> "none"
    [] state \in {"calling", "suspended", "waiting", "running"} -> "open"
    [] state \in {"cancelled", "aborted"} -> "void"
    [] state = "finished"                 -> "continued"
    [] OTHER                              -> state

(* A clearance granted of a task that is none tells the controller nothing *)
(* and is reported all the same (buttons of another task); it is no        *)
(* decision on the task.                                                   *)
Told(t) == {d \in accepted[t] : d = "grant_clearance" => KindOf[t] = "clearance"}

Promise == INSTANCE Decision
             WITH outcome  <- [t \in Tasks |-> OutcomeAt(process[t])],
                  reported <- [t \in Tasks |-> Told(t)]

(* The servlet, its pages and the tables implement the module Decision: in *)
(* no interleaving of requests, errors and restarts is a task decided      *)
(* twice, a decision reversed, or one reported that was not made.          *)
ImplementsDecision == Promise!Spec

-----------------------------------------------------------------------------
(* The inductive invariant behind the safety properties.                   *)

(* The request p has written its decision d on t and not told the platform.*)
Written(p, t, d) == target[p] = t /\ cmd[p] = d /\ pc[p] \in {"read", "notify"}

(* Each stage belongs to the commands that pass through it.                *)
StagesMatchCommands ==
  \A p \in Pages :
    /\ pc[p] = "idle" <=> cmd[p] = "none"
    /\ pc[p] = "read" => cmd[p] \in {"approve", "reject"}
    /\ pc[p] = "notify" => cmd[p] \in Buttons
    /\ pc[p] = "write" => cmd[p] = "grant_clearance"

(* A task that has not arrived has no process, and no page knows it.       *)
KnownTasksArrived ==
  /\ \A t \in Tasks : status[t] = "NONE" => process[t] = "absent"
  /\ \A p \in Pages : \A t \in Tasks :
    t \in listed[p] \/ t = selected[p] \/ t = shown[p] \/ t = target[p] => status[t] # "NONE"

(* An enabled button fits the task it was enabled for, a decision request  *)
(* its target, unless it was sent with the buttons of another task.        *)
ButtonsFitKind ==
  \A p \in Pages : \A t \in Tasks :
    /\ shown[p] = t => \A b \in buttons[p] :
         KindOf[t] = IF b = "grant_clearance" THEN "clearance" ELSE "approval"
    /\ target[p] = t /\ t \notin misaimed /\ cmd[p] \in Buttons =>
         KindOf[t] = IF cmd[p] = "grant_clearance" THEN "clearance" ELSE "approval"

WaitingFitsKind ==
  \A t \in Tasks :
    /\ status[t] = "WAITING_FOR_APPROVAL" => KindOf[t] = "approval"
    /\ status[t] = "WAITING_FOR_CLEARANCE" => KindOf[t] = "clearance"

(* While a row waits for approval no decision on it has been written.      *)
WaitingIsUndecided ==
  \A t \in Tasks : status[t] = "WAITING_FOR_APPROVAL" =>
    /\ process[t] \in Undecided
    /\ \A p \in Pages, d \in {"approve", "reject"} : ~Written(p, t, d)

(* Behind a status there is the outcome, or the request about to make it.  *)
DecisionsHaveOwners ==
  \A t \in Tasks : KindOf[t] = "approval" /\ t \notin failed \cup misaimed =>
    /\ status[t] = "APPROVED" =>
         process[t] = "approved" \/ \E p \in Pages : Written(p, t, "approve")
    /\ status[t] = "REJECTED" =>
         process[t] = "rejected" \/ \E p \in Pages : Written(p, t, "reject")
    /\ status[t] = "DELETED" =>
         \/ process[t] \in {"approved", "rejected"}
         \/ \E p \in Pages, d \in {"approve", "reject"} : Written(p, t, d)

(* The controller has continued before a clearance is written.             *)
ClearancesContinue ==
  \A t \in Tasks : KindOf[t] = "clearance" =>
    /\ status[t] # "NONE" => process[t] \in {"waiting", "finished"}
    /\ \A p \in Pages : pc[p] = "write" /\ target[p] = t => process[t] = "finished"

(* The inductive invariant: the parts above with the properties they carry.*)
IInv ==
  /\ StagesMatchCommands
  /\ KnownTasksArrived
  /\ ButtonsFitKind
  /\ WaitingFitsKind
  /\ WaitingIsUndecided
  /\ DecisionsHaveOwners
  /\ ClearancesContinue
  /\ KindRespected
  /\ ReportedDecisionsHold
  /\ GrantedMeansContinued

(* A page knows only tasks of its own organization.                        *)
OwnTasksOnly ==
  \A p \in Pages : \A t \in Tasks :
    t \in listed[p] \/ t = selected[p] \/ t = target[p] => OwnerOf[t] = OrgOf[p]

-----------------------------------------------------------------------------
(* What the texts of the page say, which the code does not keep.           *)

(* messages.properties: APPROVAL_STATUS_APPROVED=The request is approved,  *)
(* once no decision is under way any more.                                 *)
ApprovedMeansApproved ==
  \A t \in Tasks : status[t] = "APPROVED" /\ ~UnderWay(t) => process[t] = "approved"

(* messages.properties: success.save_task=The task comment has been saved. *)
(* Then a comment changes only by a request that brings a new one, in the  *)
(* first statement of save, approve or reject, or goes with its row.       *)
SavedCommentStays ==
  [][\A t \in Tasks : comment'[t] # comment[t] /\ status'[t] # "DELETED" =>
       \E p \in Pages : target[p] = t /\ pc[p] = "execute"]_vars
=============================================================================
