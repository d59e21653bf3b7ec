------------------------- MODULE ApprovalSystemProofs -------------------------
(***************************************************************************)
(* Proofs about ApprovalSystem: the chains keep their invariant next to    *)
(* the pages, the pages meet only what TaskServlet allows for, and from    *)
(* the two follow the properties of the whole.                             *)
(***************************************************************************)
EXTENDS ApprovalSystem, TaskServletProofs

(* The assumptions of ApprovalProcess follow from those of the system.     *)
LEMMA ChainConstants == Chain!ConstantsAssumption
  BY ConstantsAssumption, SystemAssumption
  DEF Chain!ConstantsAssumption, Chain!Handlers, Chain!NotificationHandlers,
      Chain!NoProcessHandlers, Chain!ServiceHandlers, Chain!ProcessHandlers, Chain!Flaws

(* The chains keep their invariant: one step for every action of theirs.   *)
LEMMA ChainStep == ChainInv /\ [Chain!Next]_(Chain!vars) => ChainInv'
<1> SUFFICES ASSUME ChainInv, [Chain!Next]_(Chain!vars) PROVE ChainInv'
  OBVIOUS
<1> USE ChainConstants
    DEF ChainInv, Chain!TypeOK, Chain!ChainOrder, Chain!AcknowledgedIsPending,
        Chain!MailThenTask, Chain!FaultExplained, Chain!ConstantsAssumption,
        Chain!ChainStatus, Chain!Goto, Chain!Return, Chain!Throw, Chain!Stages,
        Chain!InsertApprover, Chain!InsertApproverBy, Chain!Inserting
<1>1. ASSUME NEW g \in Tasks, Chain!Notify(g) PROVE ChainInv'
  BY <1>1 DEF Chain!Notify, Chain!Handlers, Chain!NotificationHandlers,
     Chain!NoProcessHandlers, Chain!ServiceHandlers, Chain!ProcessHandlers,
     Chain!ServletCommands
<1>2. ASSUME NEW g \in Tasks, Chain!FetchData(g) PROVE ChainInv'
  BY <1>2 DEF Chain!FetchData
<1>3. ASSUME NEW g \in Tasks, Chain!StartApprovalProcess(g) PROVE ChainInv'
  BY <1>3 DEF Chain!StartApprovalProcess
<1>4. ASSUME NEW g \in Tasks, Chain!StartProcess(g) PROVE ChainInv'
  BY <1>4 DEF Chain!StartProcess, Chain!ServletCommands, Chain!ServiceHandlers
<1>5. ASSUME NEW g \in Tasks, Chain!NotifyApprover(g) PROVE ChainInv'
  BY <1>5 DEF Chain!NotifyApprover
<1>6. ASSUME NEW g \in Tasks, Chain!GetApproverTKey(g) PROVE ChainInv'
  BY <1>6 DEF Chain!GetApproverTKey
<1>7. ASSUME NEW g \in Tasks, Chain!CreateApprover(g) PROVE ChainInv'
  BY <1>7 DEF Chain!CreateApprover
<1>8. ASSUME NEW g \in Tasks, Chain!CreateApprovalTask(g) PROVE ChainInv'
  BY <1>8 DEF Chain!CreateApprovalTask, Chain!ChainKind, FirstStatus, Chain!FirstStatus
<1>9. ASSUME NEW g \in Tasks, Chain!Fail(g) PROVE ChainInv'
  BY <1>9 DEF Chain!Fail
<1>10. ASSUME NEW g \in Tasks, Chain!FailAfterEffect(g) PROVE ChainInv'
  BY <1>10 DEF Chain!FailAfterEffect, Chain!ChainKind, FirstStatus, Chain!FirstStatus
<1>11. ASSUME NEW o \in Orgs, Chain!ServletCreatesApprover(o) PROVE ChainInv'
  BY <1>11 DEF Chain!ServletCreatesApprover
<1>12. CASE Chain!Crash
  BY <1>12 DEF Chain!Crash
<1>13. CASE UNCHANGED Chain!vars
  BY <1>13 DEF Chain!vars
<1>14. ASSUME NEW g \in Tasks, Chain!DoesCallerExist(g) PROVE ChainInv'
  BY <1>14 DEF Chain!DoesCallerExist
<1>15. ASSUME NEW g \in Tasks, Chain!CreateCaller(g) PROVE ChainInv'
  BY <1>15 DEF Chain!CreateCaller
<1>16. ASSUME NEW g \in Tasks, Chain!TaskTextBreaks(g) PROVE ChainInv'
  BY <1>16 DEF Chain!TaskTextBreaks
<1> QED
  BY <1>1, <1>2, <1>3, <1>4, <1>5, <1>6, <1>7, <1>8, <1>9, <1>10, <1>11, <1>12, <1>13,
  <1>14, <1>15, <1>16 DEF Chain!Next, Chain!Handler

(* Every step of the system is a step of the chains, or none of them.      *)
LEMMA SystemStepsChain ==
  TypeOK /\ [SystemNext]_systemVars => [Chain!Next]_(Chain!vars)
<1> SUFFICES ASSUME TypeOK, [SystemNext]_systemVars
             PROVE  Chain!Next \/ UNCHANGED Chain!vars
  OBVIOUS
<1> USE DEF Chain!vars, chainVars, db, page, request, history
<1>1. ASSUME NEW t \in Tasks, CallStep(t) PROVE Chain!Next
  BY <1>1 DEF CallStep, Chain!Next, Chain!Handler
<1>2. ASSUME NEW t \in Tasks, InsertTask(t) PROVE Chain!Next
  BY <1>2 DEF InsertTask, Chain!Next, Chain!Handler
<1>3. ASSUME NEW t \in Tasks, PlatformHears(t) PROVE UNCHANGED Chain!vars
  BY <1>3 DEF PlatformHears
<1>4. ASSUME NEW t \in Tasks, CancelStep(t) PROVE UNCHANGED Chain!vars
  BY <1>4 DEF CancelStep, RequestCancelled
<1>5. ASSUME NEW p \in Pages, PageStep(p), approvers' # approvers PROVE Chain!Next
  <2>1. OrgOf[p] \in Orgs
    BY ConstantsAssumption
  <2>2. QED
    BY <1>5, <2>1 DEF PageStep, Chain!Next
<1>6. ASSUME NEW p \in Pages, PageStep(p), approvers' = approvers
      PROVE  UNCHANGED Chain!vars
  <2>1. UNCHANGED crashes
    BY <1>6 DEF PageStep, User, Servlet, ClickRefresh, ClickRow, ClickSave, ClickDecision,
       ClickDelete, DoesApproverExist, CreateApprover, GetTaskList, OpenTask, SaveTask,
       DeleteApprovedTasks, UpdateTaskStatus, GetTask, NotifyCTMGTrigger, NotifyReplyLost,
       ContinueManualStep, ContinueReplyLost, UpdateClearance, AnswerError
  <2>2. QED
    BY <1>6, <2>1 DEF PageStep
<1>7. CASE Restart
  BY <1>7 DEF Restart, Chain!Next
<1>8. CASE UNCHANGED systemVars
  BY <1>8 DEF systemVars, vars
<1>9. QED
  BY <1>1, <1>2, <1>3, <1>4, <1>5, <1>6, <1>7, <1>8 DEF SystemNext

(* Every step of the system is a step of TaskServlet, or none of it.       *)
LEMMA SystemStepsServlet ==
  ChainInv /\ SidesAgree /\ [SystemNext]_systemVars => [Next]_vars
<1> SUFFICES ASSUME ChainInv, SidesAgree, [SystemNext]_systemVars
             PROVE  Next \/ UNCHANGED vars
  OBVIOUS
<1> USE DEF vars, chainVars, db, page, request, history
<1>1. ASSUME NEW t \in Tasks, CallStep(t) PROVE Next \/ UNCHANGED vars
  <2>1. OwnerOf[t] \in Orgs /\ CallerOf[t] \in Orgs
    BY ConstantsAssumption, SystemAssumption
  <2>2. /\ UNCHANGED crashes
        /\ \/ approvers' = approvers
           \/ \E o \in {OwnerOf[t], CallerOf[t]} : approvers' = approvers \cup {o}
    BY <1>1 DEF CallStep, Chain!Notify, Chain!DoesCallerExist, Chain!CreateCaller,
       Chain!FetchData, Chain!StartApprovalProcess, Chain!StartProcess,
       Chain!NotifyApprover, Chain!GetApproverTKey, Chain!CreateApprover,
       Chain!TaskTextBreaks, Chain!Fail, Chain!FailAfterEffect, Chain!InsertApproverBy
  <2>3. CASE approvers' = approvers
    BY <1>1, <2>2, <2>3 DEF CallStep
  <2>4. CASE approvers' # approvers
    <3>1. PICK o \in {OwnerOf[t], CallerOf[t]} : approvers' = approvers \cup {o}
      BY <2>2, <2>4
    <3>2. ChainCreatesApprover(o)
      BY <1>1, <2>2, <2>4, <3>1 DEF CallStep, ChainCreatesApprover
    <3>3. QED
      BY <2>1, <3>2 DEF Next
  <2>5. QED
    BY <2>3, <2>4
<1>2. ASSUME NEW t \in Tasks, InsertTask(t) PROVE Next
  <2>1. /\ stage[t] = "insert"
        /\ row' = [row EXCEPT ![t] = Chain!ChainStatus(t)]
        /\ UNCHANGED <<approvers, crashes>>
    BY <1>2 DEF InsertTask, Chain!CreateApprovalTask, Chain!FailAfterEffect
  <2>2. row[t] = "NONE" /\ OwnerOf[t] \in approvers
    BY <2>1 DEF ChainInv, Chain!ChainOrder
  <2>3. row'[t] = FirstStatus(KindOf[t])
    BY <2>1, SystemAssumption
    DEF ChainInv, Chain!TypeOK, Chain!ChainStatus, Chain!FirstStatus, FirstStatus
  <2>4. TaskArrives(t)
    BY <1>2, <2>1, <2>2, <2>3 DEF InsertTask, TaskArrives, SidesAgree
  <2>5. QED
    BY <2>4 DEF Next
<1>3. ASSUME NEW t \in Tasks, PlatformHears(t) PROVE Next
  <2>1. HandlerReturns(t)
    BY <1>3 DEF PlatformHears, HandlerReturns
  <2>2. QED
    BY <2>1 DEF Next
<1>4. ASSUME NEW t \in Tasks, CancelStep(t) PROVE Next
  BY <1>4 DEF CancelStep, Next
<1>5. ASSUME NEW p \in Pages, PageStep(p) PROVE Next
  BY <1>5 DEF PageStep, Next
<1>6. CASE Restart
  BY <1>6 DEF Restart, Next
<1>7. CASE UNCHANGED systemVars
  BY <1>7 DEF systemVars
<1>8. QED
  BY <1>1, <1>2, <1>3, <1>4, <1>5, <1>6, <1>7 DEF SystemNext

(* An answer once given stays, and so does a row.                          *)
LEMMA AnswersStay ==
  ASSUME ChainInv, [Chain!Next]_(Chain!vars), NEW t \in Tasks
  PROVE  /\ reply[t] # "none" => reply'[t] = reply[t]
         /\ row[t] # "NONE" => row'[t] = row[t]
<1> USE DEF ChainInv, Chain!TypeOK, Chain!ChainOrder, Chain!Goto, Chain!Return, Chain!Throw
<1>1. ASSUME NEW g \in Tasks, Chain!Notify(g) \/ Chain!Handler(g)
      PROVE  /\ reply[t] # "none" => reply'[t] = reply[t]
             /\ row[t] # "NONE" => row'[t] = row[t]
  BY <1>1 DEF Chain!Handler, Chain!Notify, Chain!DoesCallerExist, Chain!CreateCaller,
     Chain!FetchData, Chain!StartApprovalProcess, Chain!StartProcess,
     Chain!NotifyApprover, Chain!GetApproverTKey, Chain!CreateApprover,
     Chain!CreateApprovalTask, Chain!TaskTextBreaks, Chain!Fail, Chain!FailAfterEffect
<1>2. QED
  BY <1>1 DEF Chain!Next, Chain!ServletCreatesApprover, Chain!Crash, Chain!vars

(* The two sides keep agreeing on the rows and on the platform.            *)
LEMMA SidesStep ==
  TypeOK /\ IInv /\ ChainInv /\ SidesAgree /\ [SystemNext]_systemVars => SidesAgree'
<1> SUFFICES ASSUME TypeOK, IInv, ChainInv, SidesAgree, [SystemNext]_systemVars,
                    NEW t \in Tasks
             PROVE  /\ (row[t] = "NONE" <=> status[t] = "NONE")'
                    /\ (process[t] \in {"suspended", "cancelled", "approved", "rejected"}
                          => reply[t] = "ok" /\ KindOf[t] = "approval")'
                    /\ (process[t] = "calling" => KindOf[t] = "approval")'
  BY DEF SidesAgree
<1>a. [Chain!Next]_(Chain!vars)
  BY SystemStepsChain
<1>b. /\ reply[t] # "none" => reply'[t] = reply[t]
      /\ row[t] # "NONE" => row'[t] = row[t]
  BY <1>a, AnswersStay
<1> USE DEF SidesAgree, chainVars, db, page, request, history, TypeOK
<1>1. ASSUME NEW u \in Tasks, CallStep(u) PROVE SidesAgree'
  <2>1. UNCHANGED row
    BY <1>1 DEF CallStep, Chain!Notify, Chain!DoesCallerExist, Chain!CreateCaller,
       Chain!FetchData, Chain!StartApprovalProcess, Chain!StartProcess,
       Chain!NotifyApprover, Chain!GetApproverTKey, Chain!CreateApprover,
       Chain!TaskTextBreaks, Chain!Fail, Chain!FailAfterEffect
  <2>2. QED
    BY <1>1, <1>a, <2>1, AnswersStay DEF CallStep
<1>2. ASSUME NEW u \in Tasks, InsertTask(u) PROVE SidesAgree'
  <2>1. /\ row' = [row EXCEPT ![u] = Chain!ChainStatus(u)]
        /\ row'[u] # "NONE"
    BY <1>2, ChainConstants DEF InsertTask, Chain!CreateApprovalTask,
       Chain!FailAfterEffect, ChainInv, Chain!TypeOK, Chain!ChainStatus, Chain!ChainKind,
       Chain!FirstStatus
  <2>2. FirstProcess(KindOf[u]) \in {"calling", "waiting", "running"}
        /\ (FirstProcess(KindOf[u]) = "calling" => KindOf[u] = "approval")
    BY ConstantsAssumption DEF FirstProcess, Kinds
  <2>3. QED
    BY <1>2, <1>a, <2>1, <2>2, AnswersStay DEF InsertTask
<1>3. ASSUME NEW u \in Tasks, PlatformHears(u) PROVE SidesAgree'
  BY <1>3 DEF PlatformHears
<1>4. ASSUME NEW u \in Tasks, CancelStep(u) PROVE SidesAgree'
  BY <1>4 DEF CancelStep, RequestCancelled
<1>5. ASSUME NEW p \in Pages, PageStep(p) PROVE SidesAgree'
  <2>1. \/ UNCHANGED process
        \/ \E u \in Tasks : \/ process[u] = "suspended" /\ \E o \in {"approved", "rejected"} :
                                 process' = [process EXCEPT ![u] = o]
                            \/ process' = [process EXCEPT ![u] = "finished"]
    <3>1. CASE \/ User(p) \/ DoesApproverExist(p) \/ CreateApprover(p)
               \/ \E ticked \in SUBSET DOMAIN ShowBox : GetTaskList(p, ticked)
               \/ OpenTask(p) \/ SaveTask(p)
               \/ \E ticked \in SUBSET DOMAIN DeleteBox : DeleteApprovedTasks(p, ticked)
               \/ UpdateTaskStatus(p) \/ GetTask(p) \/ UpdateClearance(p) \/ AnswerError(p)
      BY <3>1 DEF User, ClickRefresh, ClickRow, ClickSave, ClickDecision, ClickDelete,
         DoesApproverExist, CreateApprover, GetTaskList, OpenTask, SaveTask,
         DeleteApprovedTasks, UpdateTaskStatus, GetTask, UpdateClearance, AnswerError
    <3>2. CASE NotifyCTMGTrigger(p) \/ NotifyReplyLost(p)
      BY <3>2 DEF NotifyCTMGTrigger, NotifyReplyLost, PlatformApplies, OutcomeOf, Buttons
    <3>3. CASE ContinueManualStep(p) \/ ContinueReplyLost(p)
      BY <3>3 DEF ContinueManualStep, ContinueReplyLost, ControllerContinues, Buttons
    <3>4. QED
      BY <1>5, <3>1, <3>2, <3>3 DEF PageStep, Servlet
  <2>2. \A u \in Tasks : status'[u] = "NONE" <=> status[u] = "NONE"
    <3>1. CASE \/ User(p) \/ DoesApproverExist(p) \/ CreateApprover(p)
               \/ \E ticked \in SUBSET DOMAIN ShowBox : GetTaskList(p, ticked)
               \/ OpenTask(p) \/ SaveTask(p) \/ GetTask(p) \/ AnswerError(p)
               \/ NotifyCTMGTrigger(p) \/ NotifyReplyLost(p)
               \/ ContinueManualStep(p) \/ ContinueReplyLost(p)
      BY <3>1 DEF User, ClickRefresh, ClickRow, ClickSave, ClickDecision, ClickDelete,
         DoesApproverExist, CreateApprover, GetTaskList, OpenTask, SaveTask, GetTask,
         AnswerError, NotifyCTMGTrigger, NotifyReplyLost, ContinueManualStep,
         ContinueReplyLost
    <3>2. CASE \E ticked \in SUBSET DOMAIN DeleteBox : DeleteApprovedTasks(p, ticked)
      BY <3>2, SMTT(30) DEF DeleteApprovedTasks, Deletable, DeleteBox
    <3>3. CASE UpdateTaskStatus(p)
      BY <3>3 DEF UpdateTaskStatus, InTable, NoRow, StatusOf
    <3>4. CASE UpdateClearance(p)
      BY <3>4 DEF UpdateClearance, InTable, NoRow
    <3>5. QED
      BY <1>5, <3>1, <3>2, <3>3, <3>4 DEF PageStep, Servlet
  <2>3. UNCHANGED <<reply, row>>
    BY <1>5 DEF PageStep, Chain!ServletCreatesApprover
  <2>4. QED
    BY <2>1, <2>2, <2>3
<1>6. CASE Restart
  BY <1>6, <1>a, AnswersStay DEF Restart, Crash, Chain!Crash
<1>7. CASE UNCHANGED systemVars
  BY <1>7 DEF systemVars, vars
<1>8. QED
  BY <1>1, <1>2, <1>3, <1>4, <1>5, <1>6, <1>7 DEF SystemNext

(* Nobody has called, and no page has asked.                               *)
LEMMA SystemInitially == SystemInit => Init /\ ChainInv /\ SidesAgree
  BY ChainConstants
  DEF SystemInit, Init, Chain!Init, ChainInv, Chain!TypeOK, Chain!Stages, Chain!ChainOrder,
      Chain!AcknowledgedIsPending, Chain!MailThenTask, Chain!FaultExplained, SidesAgree,
      Chain!ConstantsAssumption

LEMMA SystemInductive ==
  TypeOK /\ IInv /\ SystemInv /\ [SystemNext]_systemVars =>
    (TypeOK /\ IInv /\ SystemInv)' /\ [Next]_vars
<1> SUFFICES ASSUME TypeOK, IInv, SystemInv, [SystemNext]_systemVars
             PROVE  (TypeOK /\ IInv /\ SystemInv)' /\ [Next]_vars
  OBVIOUS
<1>1. ChainInv /\ SidesAgree
  BY DEF SystemInv
<1>2. [Next]_vars
  BY <1>1, SystemStepsServlet
<1>3. TypeOK' /\ IInv'
  BY <1>2, TypeStep, IInvStep DEF IInv
<1>4. ChainInv' /\ SidesAgree'
  BY <1>1, SystemStepsChain, ChainStep, SidesStep
<1>5. QED
  BY <1>2, <1>3, <1>4 DEF SystemInv

(* The pages and the servlet meet nothing in the system that TaskServlet   *)
(* leaves out: whatever holds of it holds of the system.                   *)
THEOREM SystemRunsServlet == SystemSpec => IsTaskServlet
<1>1. SystemInit => Init /\ TypeOK /\ IInv /\ SystemInv
  BY SystemInitially, TypeInit, IInvInit DEF SystemInv
<1>2. QED
  BY <1>1, SystemInductive, PTL DEF SystemSpec, IsTaskServlet, Spec

(* The invariants of both sides and their agreement hold in the system.    *)
THEOREM SystemInvariant == SystemSpec => [](TypeOK /\ IInv /\ SystemInv)
<1>1. SystemInit => Init /\ TypeOK /\ IInv /\ SystemInv
  BY SystemInitially, TypeInit, IInvInit DEF SystemInv
<1>2. QED
  BY <1>1, SystemInductive, PTL DEF SystemSpec

(* What is acknowledged is pending, a task comes after its mail and with   *)
(* its approver's row, and a fault of an undisturbed call has its reason   *)
(* in its own data or in a row another call or a page has just inserted,   *)
(* with the task pages themselves as the ones that insert (TaskServlet,    *)
(* doService).                                                             *)
THEOREM ChainsKeepTheirPromises ==
  SystemSpec => [](Chain!AcknowledgedIsPending /\ Chain!MailThenTask /\ Chain!FaultExplained)
<1>1. SystemInv => Chain!AcknowledgedIsPending /\ Chain!MailThenTask /\ Chain!FaultExplained
  BY DEF SystemInv, ChainInv
<1>2. QED
  BY <1>1, SystemInvariant, PTL

(* What is proved of TaskServlet, with the chains in place of what it      *)
(* assumes of them: decisions reported hold and are never reversed, kinds  *)
(* and owners are respected, rows and processes agree.                     *)
THEOREM ServletKeepsItsPromises ==
  SystemSpec => /\ [](ReportedDecisionsHold /\ DecisionsReachPlatform)
                /\ []GrantedMeansContinued
                /\ OwnersDecide /\ ImplementsDecision
  BY SystemRunsServlet, ReportedDecisions, DecisionsReach, GrantedContinued, OwnersAlone,
     ServletImplementsDecision, PTL DEF IsTaskServlet

(* No task takes a status of another kind, unless it was decided with the  *)
(* buttons of another task: the chain inserts it with the status of its    *)
(* kind, the page offers the buttons of that status.                       *)
THEOREM SystemKindsRespected == SystemSpec => []KindRespected
  BY SystemRunsServlet, KindsRespected, PTL DEF IsTaskServlet

(* A process the platform has suspended is in the list of its approver,    *)
(* whose row is there, and its mail is out, unless a decision is under way *)
(* or has failed: the chain left it there, and the servlet takes no open   *)
(* task away.                                                              *)
THEOREM NoneForgotten == SystemSpec => []NobodyForgotten
<1>1. TypeOK /\ IInv /\ SystemInv /\ DecisionsReachPlatform => NobodyForgotten
  <2> SUFFICES ASSUME TypeOK, IInv, SystemInv, DecisionsReachPlatform, NEW t \in Tasks,
                      Awaited(t), t \notin failed \cup misaimed, ~UnderWay(t)
               PROVE  /\ status[t] = "WAITING_FOR_APPROVAL"
                      /\ t \in mailed
                      /\ OwnerOf[t] \in approvers
    BY DEF NobodyForgotten
  <2>1. KindOf[t] = "approval"
    BY SystemAssumption DEF Awaited, Chain!ChainKind, Chain!ServletCommands,
       Chain!ServiceHandlers, Chain!ProcessHandlers
  <2>2. row[t] = "WAITING_FOR_APPROVAL"
    <3>1. row[t] = Chain!ChainStatus(t)
      BY DEF Awaited, SystemInv, ChainInv, Chain!AcknowledgedIsPending
    <3>2. Chain!ChainStatus(t) = Chain!FirstStatus("approval")
      BY <2>1, SystemAssumption DEF Chain!ChainStatus
    <3>3. Chain!FirstStatus("approval") = "WAITING_FOR_APPROVAL"
      BY DEF Chain!FirstStatus
    <3>4. QED
      BY <3>1, <3>2, <3>3
  <2>3. t \in mailed /\ OwnerOf[t] \in approvers
    BY <2>2 DEF SystemInv, ChainInv, Chain!MailThenTask
  <2>4. status[t] # "NONE"
    BY <2>2 DEF SystemInv, SidesAgree
  <2>5. status[t] \in {"WAITING_FOR_APPROVAL", "APPROVED", "REJECTED", "DELETED"}
    BY <2>1, <2>4 DEF IInv, KindRespected, StatusesOf, NoRow
  <2>6. status[t] \notin {"APPROVED", "REJECTED", "DELETED"}
    BY <2>1 DEF DecisionsReachPlatform, Awaited
  <2>7. QED
    BY <2>3, <2>5, <2>6
<1>2. Spec => []DecisionsReachPlatform
  BY DecisionsReach
<1>3. QED
  BY <1>1, <1>2, SystemInvariant, SystemRunsServlet, PTL DEF IsTaskServlet

(* Success is reported of a decision only when the platform has a good     *)
(* answer of the handler that asked for it.                                *)
THEOREM DecidedAcknowledged == SystemSpec => []DecidedWasAcknowledged
<1>1. IInv /\ SystemInv => DecidedWasAcknowledged
  <2> SUFFICES ASSUME IInv, SystemInv, NEW t \in Tasks,
                      accepted[t] \cap {"approve", "reject"} # {}
               PROVE  reply[t] = "ok" /\ t \in Suspends
    BY DEF DecidedWasAcknowledged
  <2>1. process[t] \in {"approved", "rejected"}
    BY DEF IInv, ReportedDecisionsHold
  <2>2. reply[t] = "ok" /\ KindOf[t] = "approval"
    BY <2>1 DEF SystemInv, SidesAgree
  <2>3. QED
    BY <2>2, SystemAssumption DEF Chain!ChainKind
<1>2. QED
  BY <1>1, SystemInvariant, PTL
=============================================================================
