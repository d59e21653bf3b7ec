-------------------------- MODULE TaskServletProofs --------------------------
(***************************************************************************)
(* The safety properties of TaskServlet hold for every number of pages,    *)
(* tasks, organizations, comments and restarts: TypeOK, and the inductive  *)
(* invariant IInv, part by part.  Each lemma shows that a step preserves   *)
(* one part, from the parts it rests on; the theorems put them together.   *)
(***************************************************************************)
EXTENDS TaskServlet, TLAPS

(* The stages of a request are those of its command. *)
LEMMA StagesStep ==
  TypeOK /\ StagesMatchCommands /\ [Next]_vars
  => StagesMatchCommands'
<1> SUFFICES ASSUME TypeOK, StagesMatchCommands, [Next]_vars
             PROVE StagesMatchCommands'
  OBVIOUS
<1> USE DEF db, page, request, history, TypeOK, Buttons, Commands, Stages,
        StagesMatchCommands
<1>1. ASSUME NEW p \in Pages, ClickRefresh(p) PROVE StagesMatchCommands'
  BY <1>1 DEF ClickRefresh, LoadTaskList, Send
<1>2. ASSUME NEW p \in Pages, NEW t \in Tasks, ClickRow(p, t)
      PROVE  StagesMatchCommands'
  BY <1>2 DEF ClickRow, Send
<1>3. ASSUME NEW p \in Pages, NEW x \in Comments, ClickSave(p, x)
      PROVE  StagesMatchCommands'
  BY <1>3 DEF ClickSave, Send
<1>4. ASSUME NEW p \in Pages, NEW b \in Buttons, NEW x \in Comments,
             ClickDecision(p, b, x)
      PROVE  StagesMatchCommands'
  BY <1>4 DEF ClickDecision, Send
<1>5. ASSUME NEW p \in Pages, ClickDelete(p) PROVE StagesMatchCommands'
  BY <1>5 DEF ClickDelete, Send
<1>6. ASSUME NEW p \in Pages, DoesApproverExist(p) PROVE StagesMatchCommands'
  BY <1>6 DEF DoesApproverExist, Goto
<1>7. ASSUME NEW p \in Pages, CreateApprover(p) PROVE StagesMatchCommands'
  BY <1>7 DEF CreateApprover, Goto
<1>8. ASSUME NEW p \in Pages, NEW ticked \in SUBSET DOMAIN ShowBox,
             GetTaskList(p, ticked)
      PROVE  StagesMatchCommands'
  BY <1>8 DEF GetTaskList, Finish
<1>9. ASSUME NEW p \in Pages, OpenTask(p) PROVE StagesMatchCommands'
  BY <1>9 DEF OpenTask, Finish
<1>10. ASSUME NEW p \in Pages, SaveTask(p) PROVE StagesMatchCommands'
  BY <1>10 DEF SaveTask, Finish, InTable
<1>11. ASSUME NEW p \in Pages, NEW ticked \in SUBSET DOMAIN DeleteBox,
              DeleteApprovedTasks(p, ticked)
      PROVE  StagesMatchCommands'
  BY <1>11 DEF DeleteApprovedTasks, LoadTaskList, Send
<1>12. ASSUME NEW p \in Pages, UpdateTaskStatus(p) PROVE StagesMatchCommands'
  BY <1>12 DEF UpdateTaskStatus, Goto, InTable, StatusOf
<1>13. ASSUME NEW p \in Pages, GetTask(p) PROVE StagesMatchCommands'
  BY <1>13 DEF GetTask, InTable
<1>14. ASSUME NEW p \in Pages, NotifyCTMGTrigger(p) PROVE StagesMatchCommands'
  BY <1>14 DEF NotifyCTMGTrigger, PlatformApplies, OutcomeOf, LoadTaskList,
     Send
<1>15. ASSUME NEW p \in Pages, NotifyReplyLost(p) PROVE StagesMatchCommands'
  BY <1>15 DEF NotifyReplyLost, PlatformApplies, OutcomeOf, Finish
<1>16. ASSUME NEW p \in Pages, ContinueManualStep(p) PROVE StagesMatchCommands'
  BY <1>16 DEF ContinueManualStep, ControllerContinues, Goto
<1>17. ASSUME NEW p \in Pages, ContinueReplyLost(p) PROVE StagesMatchCommands'
  BY <1>17 DEF ContinueReplyLost, ControllerContinues, Finish
<1>18. ASSUME NEW p \in Pages, UpdateClearance(p) PROVE StagesMatchCommands'
  BY <1>18 DEF UpdateClearance, LoadTaskList, Send, InTable
<1>19. ASSUME NEW p \in Pages, AnswerError(p) PROVE StagesMatchCommands'
  BY <1>19 DEF AnswerError, Finish
<1>20. ASSUME NEW t \in Tasks, TaskArrives(t) PROVE StagesMatchCommands'
  BY <1>20 DEF TaskArrives, FirstStatus, FirstProcess
<1>21. ASSUME NEW t \in Tasks, RequestCancelled(t) PROVE StagesMatchCommands'
  BY <1>21 DEF RequestCancelled
<1>22. ASSUME NEW t \in Tasks, HandlerReturns(t) PROVE StagesMatchCommands'
  BY <1>22 DEF HandlerReturns
<1>23. ASSUME NEW o \in Orgs, ChainCreatesApprover(o)
       PROVE StagesMatchCommands'
  BY <1>23 DEF ChainCreatesApprover
<1>24. ASSUME Crash PROVE StagesMatchCommands'
  BY <1>24 DEF Crash
<1>25. CASE UNCHANGED vars
  BY <1>25 DEF vars
<1> HIDE DEF db, page, request, history, TypeOK, Buttons, Commands, Stages,
        StagesMatchCommands
<1>26. QED
  BY <1>1, <1>2, <1>3, <1>4, <1>5, <1>6, <1>7, <1>8,
     <1>9, <1>10, <1>11, <1>12, <1>13, <1>14, <1>15, <1>16,
     <1>17, <1>18, <1>19, <1>20, <1>21, <1>22, <1>23, <1>24, <1>25
  DEF Next, User, Servlet

(* The types. *)
LEMMA TypeStep == TypeOK /\ StagesMatchCommands /\ [Next]_vars => TypeOK'
<1> SUFFICES ASSUME TypeOK, StagesMatchCommands, [Next]_vars PROVE TypeOK'
  OBVIOUS
<1> USE ConstantsAssumption DEF db, page, request, history, TypeOK, Buttons,
        Commands, Stages
<1>1. ASSUME NEW p \in Pages, ClickRefresh(p) PROVE TypeOK'
  BY <1>1 DEF ClickRefresh, LoadTaskList, Send
<1>2. ASSUME NEW p \in Pages, NEW t \in Tasks, ClickRow(p, t) PROVE TypeOK'
  BY <1>2 DEF ClickRow, Send
<1>3. ASSUME NEW p \in Pages, NEW x \in Comments, ClickSave(p, x) PROVE TypeOK'
  BY <1>3 DEF ClickSave, Send
<1>4. ASSUME NEW p \in Pages, NEW b \in Buttons, NEW x \in Comments,
             ClickDecision(p, b, x)
      PROVE  TypeOK'
  BY <1>4 DEF ClickDecision, Send
<1>5. ASSUME NEW p \in Pages, ClickDelete(p) PROVE TypeOK'
  BY <1>5 DEF ClickDelete, Send
<1>6. ASSUME NEW p \in Pages, DoesApproverExist(p) PROVE TypeOK'
  BY <1>6 DEF DoesApproverExist, Goto
<1>7. ASSUME NEW p \in Pages, CreateApprover(p) PROVE TypeOK'
  BY <1>7 DEF CreateApprover, Goto
<1>8. ASSUME NEW p \in Pages, NEW ticked \in SUBSET DOMAIN ShowBox,
             GetTaskList(p, ticked)
      PROVE  TypeOK'
  BY <1>8 DEF GetTaskList, Finish
<1>9. ASSUME NEW p \in Pages, OpenTask(p) PROVE TypeOK'
  BY <1>9 DEF OpenTask, Finish, ButtonsFor
<1>10. ASSUME NEW p \in Pages, SaveTask(p) PROVE TypeOK'
  BY <1>10 DEF SaveTask, Finish, InTable
<1>11. ASSUME NEW p \in Pages, NEW ticked \in SUBSET DOMAIN DeleteBox,
              DeleteApprovedTasks(p, ticked)
      PROVE  TypeOK'
  BY <1>11 DEF DeleteApprovedTasks, LoadTaskList, Send, NoRow
<1>12. ASSUME NEW p \in Pages, UpdateTaskStatus(p) PROVE TypeOK'
  BY <1>12 DEF UpdateTaskStatus, Goto, InTable, StatusOf, ApprovalStatus
<1>13. ASSUME NEW p \in Pages, GetTask(p) PROVE TypeOK'
  BY <1>13 DEF GetTask, InTable, StagesMatchCommands
<1>14. ASSUME NEW p \in Pages, NotifyCTMGTrigger(p) PROVE TypeOK'
  BY <1>14 DEF NotifyCTMGTrigger, PlatformApplies, OutcomeOf, LoadTaskList,
     Send, Processes, Undecided
<1>15. ASSUME NEW p \in Pages, NotifyReplyLost(p) PROVE TypeOK'
  BY <1>15 DEF NotifyReplyLost, PlatformApplies, OutcomeOf, Finish, Processes, Undecided
<1>16. ASSUME NEW p \in Pages, ContinueManualStep(p) PROVE TypeOK'
  BY <1>16 DEF ContinueManualStep, ControllerContinues, Goto, Processes, Undecided
<1>17. ASSUME NEW p \in Pages, ContinueReplyLost(p) PROVE TypeOK'
  BY <1>17 DEF ContinueReplyLost, ControllerContinues, Finish, Processes, Undecided
<1>18. ASSUME NEW p \in Pages, UpdateClearance(p) PROVE TypeOK'
  BY <1>18 DEF UpdateClearance, LoadTaskList, Send, InTable, ApprovalStatus,
     StagesMatchCommands
<1>19. ASSUME NEW p \in Pages, AnswerError(p) PROVE TypeOK'
  BY <1>19 DEF AnswerError, Finish
<1>20. ASSUME NEW t \in Tasks, TaskArrives(t) PROVE TypeOK'
  <2>1. FirstStatus(KindOf[t]) \in ApprovalStatus
    BY ConstantsAssumption DEF FirstStatus, Kinds, ApprovalStatus
  <2>2. FirstProcess(KindOf[t]) \in Processes
    BY ConstantsAssumption DEF FirstProcess, Kinds, Processes, Undecided
  <2>3. QED
    BY <1>20, <2>1, <2>2 DEF TaskArrives
<1>21. ASSUME NEW t \in Tasks, RequestCancelled(t) PROVE TypeOK'
  BY <1>21 DEF RequestCancelled, Processes, Undecided
<1>22. ASSUME NEW t \in Tasks, HandlerReturns(t) PROVE TypeOK'
  BY <1>22 DEF HandlerReturns, Processes, Undecided
<1>23. ASSUME NEW o \in Orgs, ChainCreatesApprover(o)
       PROVE TypeOK'
  BY <1>23 DEF ChainCreatesApprover
<1>24. ASSUME Crash PROVE TypeOK'
  BY <1>24 DEF Crash
<1>25. CASE UNCHANGED vars
  BY <1>25 DEF vars
<1> HIDE DEF db, page, request, history, TypeOK, Buttons, Commands, Stages
<1>26. QED
  BY <1>1, <1>2, <1>3, <1>4, <1>5, <1>6, <1>7, <1>8,
     <1>9, <1>10, <1>11, <1>12, <1>13, <1>14, <1>15, <1>16,
     <1>17, <1>18, <1>19, <1>20, <1>21, <1>22, <1>23, <1>24, <1>25
  DEF Next, User, Servlet

LEMMA TypeInit == Init => TypeOK /\ StagesMatchCommands
  BY ConstantsAssumption DEF Init, TypeOK, StagesMatchCommands, ApprovalStatus, NoRow,
     Processes, Undecided, Buttons, Commands, Stages

(* TypeOK holds in every state: for any number of pages, tasks and         *)
(* restarts, a command on a task always names one.                         *)
THEOREM TypeCorrect == Spec => []TypeOK
<1>1. TypeOK /\ StagesMatchCommands /\ [Next]_vars => (TypeOK /\ StagesMatchCommands)'
  BY TypeStep, StagesStep
<1>2. QED
  BY TypeInit, <1>1, PTL DEF Spec

(* The delete dialog reaches no row that waits for a decision, and no row  *)
(* that is not there (DataAccessService.deleteApprovedTasks).              *)
LEMMA DeletableStatuses ==
  ASSUME NEW ticked \in SUBSET DOMAIN DeleteBox
  PROVE  Deletable(ticked) \subseteq
           {"NOTIFICATION", "APPROVED", "REJECTED", "CLEARANCE_GRANTED"}
  BY DEF Deletable, DeleteBox

(* A chain inserts a row with the first status of its kind, and only an    *)
(* approval has a process that waits.                                         *)
LEMMA FirstStatusFits ==
  ASSUME NEW kind \in Kinds
  PROVE  /\ FirstStatus(kind) \in StatusesOf(kind)
         /\ FirstStatus(kind) = "WAITING_FOR_APPROVAL" => FirstProcess(kind) = "calling"
<1>1. CASE kind = "approval"
  BY <1>1 DEF FirstStatus, StatusesOf, FirstProcess
<1>2. CASE kind = "clearance"
  BY <1>2 DEF FirstStatus, StatusesOf
<1>3. CASE kind = "notification"
  BY <1>3 DEF FirstStatus, StatusesOf
<1>4. QED
  BY <1>1, <1>2, <1>3 DEF Kinds

(* The task list shows rows of the table only.                             *)
LEMMA ShownStatuses ==
  ASSUME NEW ticked \in SUBSET DOMAIN ShowBox
  PROVE  "NONE" \notin Shown(ticked)
  BY DEF Shown, ShowBox

(* A page knows only tasks that have arrived. *)
LEMMA KnownStep ==
  TypeOK /\ StagesMatchCommands /\ KnownTasksArrived /\ [Next]_vars
  => KnownTasksArrived'
<1> SUFFICES ASSUME TypeOK, StagesMatchCommands, KnownTasksArrived, [Next]_vars
             PROVE KnownTasksArrived'
  OBVIOUS
<1> USE ConstantsAssumption DEF db, page, request, history, TypeOK, Buttons,
        Commands, Stages, KnownTasksArrived
<1>1. ASSUME NEW p \in Pages, ClickRefresh(p) PROVE KnownTasksArrived'
  BY <1>1 DEF ClickRefresh, LoadTaskList, Send
<1>2. ASSUME NEW p \in Pages, NEW t \in Tasks, ClickRow(p, t)
      PROVE  KnownTasksArrived'
  BY <1>2 DEF ClickRow, Send
<1>3. ASSUME NEW p \in Pages, NEW x \in Comments, ClickSave(p, x)
      PROVE  KnownTasksArrived'
  BY <1>3 DEF ClickSave, Send
<1>4. ASSUME NEW p \in Pages, NEW b \in Buttons, NEW x \in Comments,
             ClickDecision(p, b, x)
      PROVE  KnownTasksArrived'
  BY <1>4 DEF ClickDecision, Send
<1>5. ASSUME NEW p \in Pages, ClickDelete(p) PROVE KnownTasksArrived'
  BY <1>5 DEF ClickDelete, Send
<1>6. ASSUME NEW p \in Pages, DoesApproverExist(p) PROVE KnownTasksArrived'
  BY <1>6 DEF DoesApproverExist, Goto
<1>7. ASSUME NEW p \in Pages, CreateApprover(p) PROVE KnownTasksArrived'
  BY <1>7 DEF CreateApprover, Goto
<1>8. ASSUME NEW p \in Pages, NEW ticked \in SUBSET DOMAIN ShowBox,
             GetTaskList(p, ticked)
      PROVE  KnownTasksArrived'
  BY <1>8, ShownStatuses DEF GetTaskList, Finish
<1>9. ASSUME NEW p \in Pages, OpenTask(p) PROVE KnownTasksArrived'
  BY <1>9 DEF OpenTask, Finish
<1>10. ASSUME NEW p \in Pages, SaveTask(p) PROVE KnownTasksArrived'
  BY <1>10 DEF SaveTask, Finish, InTable
<1>11. ASSUME NEW p \in Pages, NEW ticked \in SUBSET DOMAIN DeleteBox,
              DeleteApprovedTasks(p, ticked)
      PROVE  KnownTasksArrived'
  BY <1>11, DeletableStatuses DEF DeleteApprovedTasks, LoadTaskList, Send
<1>12. ASSUME NEW p \in Pages, UpdateTaskStatus(p) PROVE KnownTasksArrived'
  BY <1>12 DEF UpdateTaskStatus, Goto, InTable, StatusOf, NoRow
<1>13. ASSUME NEW p \in Pages, GetTask(p) PROVE KnownTasksArrived'
  BY <1>13 DEF GetTask, InTable
<1>14. ASSUME NEW p \in Pages, NotifyCTMGTrigger(p) PROVE KnownTasksArrived'
  BY <1>14 DEF NotifyCTMGTrigger, PlatformApplies, OutcomeOf, LoadTaskList,
     Send
<1>15. ASSUME NEW p \in Pages, NotifyReplyLost(p) PROVE KnownTasksArrived'
  BY <1>15 DEF NotifyReplyLost, PlatformApplies, OutcomeOf, Finish
<1>16. ASSUME NEW p \in Pages, ContinueManualStep(p) PROVE KnownTasksArrived'
  BY <1>16 DEF ContinueManualStep, ControllerContinues, Goto
<1>17. ASSUME NEW p \in Pages, ContinueReplyLost(p) PROVE KnownTasksArrived'
  BY <1>17 DEF ContinueReplyLost, ControllerContinues, Finish
<1>18. ASSUME NEW p \in Pages, UpdateClearance(p) PROVE KnownTasksArrived'
  BY <1>18 DEF UpdateClearance, LoadTaskList, Send, InTable, NoRow,
     StagesMatchCommands
<1>19. ASSUME NEW p \in Pages, AnswerError(p) PROVE KnownTasksArrived'
  BY <1>19 DEF AnswerError, Finish
<1>20. ASSUME NEW t \in Tasks, TaskArrives(t) PROVE KnownTasksArrived'
  BY <1>20 DEF TaskArrives, FirstStatus, FirstProcess, Kinds
<1>21. ASSUME NEW t \in Tasks, RequestCancelled(t) PROVE KnownTasksArrived'
  BY <1>21 DEF RequestCancelled
<1>22. ASSUME NEW t \in Tasks, HandlerReturns(t) PROVE KnownTasksArrived'
  BY <1>22 DEF HandlerReturns
<1>23. ASSUME NEW o \in Orgs, ChainCreatesApprover(o)
       PROVE KnownTasksArrived'
  BY <1>23 DEF ChainCreatesApprover
<1>24. ASSUME Crash PROVE KnownTasksArrived'
  BY <1>24 DEF Crash
<1>25. CASE UNCHANGED vars
  BY <1>25 DEF vars
<1> HIDE DEF db, page, request, history, TypeOK, Buttons, Commands, Stages,
        KnownTasksArrived
<1>26. QED
  BY <1>1, <1>2, <1>3, <1>4, <1>5, <1>6, <1>7, <1>8,
     <1>9, <1>10, <1>11, <1>12, <1>13, <1>14, <1>15, <1>16,
     <1>17, <1>18, <1>19, <1>20, <1>21, <1>22, <1>23, <1>24, <1>25
  DEF Next, User, Servlet

(* Only the chain of its kind makes a row wait. *)
LEMMA WaitingFitsStep ==
  TypeOK /\ StagesMatchCommands /\ WaitingFitsKind /\ [Next]_vars
  => WaitingFitsKind'
<1> SUFFICES ASSUME TypeOK, StagesMatchCommands, WaitingFitsKind, [Next]_vars
             PROVE WaitingFitsKind'
  OBVIOUS
<1> USE DEF db, page, request, history, TypeOK, Buttons, Commands, Stages,
        WaitingFitsKind
<1>1. ASSUME NEW p \in Pages, ClickRefresh(p) PROVE WaitingFitsKind'
  BY <1>1 DEF ClickRefresh, LoadTaskList, Send
<1>2. ASSUME NEW p \in Pages, NEW t \in Tasks, ClickRow(p, t)
      PROVE  WaitingFitsKind'
  BY <1>2 DEF ClickRow, Send
<1>3. ASSUME NEW p \in Pages, NEW x \in Comments, ClickSave(p, x)
      PROVE  WaitingFitsKind'
  BY <1>3 DEF ClickSave, Send
<1>4. ASSUME NEW p \in Pages, NEW b \in Buttons, NEW x \in Comments,
             ClickDecision(p, b, x)
      PROVE  WaitingFitsKind'
  BY <1>4 DEF ClickDecision, Send
<1>5. ASSUME NEW p \in Pages, ClickDelete(p) PROVE WaitingFitsKind'
  BY <1>5 DEF ClickDelete, Send
<1>6. ASSUME NEW p \in Pages, DoesApproverExist(p) PROVE WaitingFitsKind'
  BY <1>6 DEF DoesApproverExist, Goto
<1>7. ASSUME NEW p \in Pages, CreateApprover(p) PROVE WaitingFitsKind'
  BY <1>7 DEF CreateApprover, Goto
<1>8. ASSUME NEW p \in Pages, NEW ticked \in SUBSET DOMAIN ShowBox,
             GetTaskList(p, ticked)
      PROVE  WaitingFitsKind'
  BY <1>8 DEF GetTaskList, Finish
<1>9. ASSUME NEW p \in Pages, OpenTask(p) PROVE WaitingFitsKind'
  BY <1>9 DEF OpenTask, Finish
<1>10. ASSUME NEW p \in Pages, SaveTask(p) PROVE WaitingFitsKind'
  BY <1>10 DEF SaveTask, Finish, InTable
<1>11. ASSUME NEW p \in Pages, NEW ticked \in SUBSET DOMAIN DeleteBox,
              DeleteApprovedTasks(p, ticked)
      PROVE  WaitingFitsKind'
  BY <1>11 DEF DeleteApprovedTasks, LoadTaskList, Send
<1>12. ASSUME NEW p \in Pages, UpdateTaskStatus(p) PROVE WaitingFitsKind'
  BY <1>12 DEF UpdateTaskStatus, Goto, InTable, StatusOf
<1>13. ASSUME NEW p \in Pages, GetTask(p) PROVE WaitingFitsKind'
  BY <1>13 DEF GetTask, InTable
<1>14. ASSUME NEW p \in Pages, NotifyCTMGTrigger(p) PROVE WaitingFitsKind'
  BY <1>14 DEF NotifyCTMGTrigger, PlatformApplies, OutcomeOf, LoadTaskList,
     Send
<1>15. ASSUME NEW p \in Pages, NotifyReplyLost(p) PROVE WaitingFitsKind'
  BY <1>15 DEF NotifyReplyLost, PlatformApplies, OutcomeOf, Finish
<1>16. ASSUME NEW p \in Pages, ContinueManualStep(p) PROVE WaitingFitsKind'
  BY <1>16 DEF ContinueManualStep, ControllerContinues, Goto
<1>17. ASSUME NEW p \in Pages, ContinueReplyLost(p) PROVE WaitingFitsKind'
  BY <1>17 DEF ContinueReplyLost, ControllerContinues, Finish
<1>18. ASSUME NEW p \in Pages, UpdateClearance(p) PROVE WaitingFitsKind'
  BY <1>18 DEF UpdateClearance, LoadTaskList, Send, InTable,
     StagesMatchCommands
<1>19. ASSUME NEW p \in Pages, AnswerError(p) PROVE WaitingFitsKind'
  BY <1>19 DEF AnswerError, Finish
<1>20. ASSUME NEW t \in Tasks, TaskArrives(t) PROVE WaitingFitsKind'
  BY <1>20, ConstantsAssumption DEF TaskArrives, FirstStatus, FirstProcess,
     Kinds
<1>21. ASSUME NEW t \in Tasks, RequestCancelled(t) PROVE WaitingFitsKind'
  BY <1>21 DEF RequestCancelled
<1>22. ASSUME NEW t \in Tasks, HandlerReturns(t) PROVE WaitingFitsKind'
  BY <1>22 DEF HandlerReturns
<1>23. ASSUME NEW o \in Orgs, ChainCreatesApprover(o)
       PROVE WaitingFitsKind'
  BY <1>23 DEF ChainCreatesApprover
<1>24. ASSUME Crash PROVE WaitingFitsKind'
  BY <1>24 DEF Crash
<1>25. CASE UNCHANGED vars
  BY <1>25 DEF vars
<1> HIDE DEF db, page, request, history, TypeOK, Buttons, Commands, Stages,
        WaitingFitsKind
<1>26. QED
  BY <1>1, <1>2, <1>3, <1>4, <1>5, <1>6, <1>7, <1>8,
     <1>9, <1>10, <1>11, <1>12, <1>13, <1>14, <1>15, <1>16,
     <1>17, <1>18, <1>19, <1>20, <1>21, <1>22, <1>23, <1>24, <1>25
  DEF Next, User, Servlet

(* Buttons and decision requests fit the kind of their task. *)
LEMMA ButtonsFitStep ==
  TypeOK /\ StagesMatchCommands /\ WaitingFitsKind /\ ButtonsFitKind
  /\ [Next]_vars
  => ButtonsFitKind'
<1> SUFFICES ASSUME TypeOK, StagesMatchCommands, WaitingFitsKind,
                    ButtonsFitKind, [Next]_vars
             PROVE ButtonsFitKind'
  OBVIOUS
<1> USE DEF db, page, request, history, TypeOK, Buttons, Commands, Stages,
        ButtonsFitKind
<1>1. ASSUME NEW p \in Pages, ClickRefresh(p) PROVE ButtonsFitKind'
  BY <1>1 DEF ClickRefresh, LoadTaskList, Send
<1>2. ASSUME NEW p \in Pages, NEW t \in Tasks, ClickRow(p, t)
      PROVE  ButtonsFitKind'
  BY <1>2 DEF ClickRow, Send
<1>3. ASSUME NEW p \in Pages, NEW x \in Comments, ClickSave(p, x)
      PROVE  ButtonsFitKind'
  BY <1>3 DEF ClickSave, Send
<1>4. ASSUME NEW p \in Pages, NEW b \in Buttons, NEW x \in Comments,
             ClickDecision(p, b, x)
      PROVE  ButtonsFitKind'
  BY <1>4 DEF ClickDecision, Send
<1>5. ASSUME NEW p \in Pages, ClickDelete(p) PROVE ButtonsFitKind'
  BY <1>5 DEF ClickDelete, Send
<1>6. ASSUME NEW p \in Pages, DoesApproverExist(p) PROVE ButtonsFitKind'
  BY <1>6 DEF DoesApproverExist, Goto
<1>7. ASSUME NEW p \in Pages, CreateApprover(p) PROVE ButtonsFitKind'
  BY <1>7 DEF CreateApprover, Goto
<1>8. ASSUME NEW p \in Pages, NEW ticked \in SUBSET DOMAIN ShowBox,
             GetTaskList(p, ticked)
      PROVE  ButtonsFitKind'
  BY <1>8 DEF GetTaskList, Finish
<1>9. ASSUME NEW p \in Pages, OpenTask(p) PROVE ButtonsFitKind'
  BY <1>9 DEF OpenTask, Finish, WaitingFitsKind, ButtonsFor
<1>10. ASSUME NEW p \in Pages, SaveTask(p) PROVE ButtonsFitKind'
  BY <1>10 DEF SaveTask, Finish, InTable
<1>11. ASSUME NEW p \in Pages, NEW ticked \in SUBSET DOMAIN DeleteBox,
              DeleteApprovedTasks(p, ticked)
      PROVE  ButtonsFitKind'
  BY <1>11 DEF DeleteApprovedTasks, LoadTaskList, Send
<1>12. ASSUME NEW p \in Pages, UpdateTaskStatus(p) PROVE ButtonsFitKind'
  BY <1>12 DEF UpdateTaskStatus, Goto, InTable, StatusOf
<1>13. ASSUME NEW p \in Pages, GetTask(p) PROVE ButtonsFitKind'
  BY <1>13 DEF GetTask, InTable
<1>14. ASSUME NEW p \in Pages, NotifyCTMGTrigger(p) PROVE ButtonsFitKind'
  BY <1>14 DEF NotifyCTMGTrigger, PlatformApplies, OutcomeOf, LoadTaskList,
     Send
<1>15. ASSUME NEW p \in Pages, NotifyReplyLost(p) PROVE ButtonsFitKind'
  BY <1>15 DEF NotifyReplyLost, PlatformApplies, OutcomeOf, Finish
<1>16. ASSUME NEW p \in Pages, ContinueManualStep(p) PROVE ButtonsFitKind'
  BY <1>16 DEF ContinueManualStep, ControllerContinues, Goto
<1>17. ASSUME NEW p \in Pages, ContinueReplyLost(p) PROVE ButtonsFitKind'
  BY <1>17 DEF ContinueReplyLost, ControllerContinues, Finish
<1>18. ASSUME NEW p \in Pages, UpdateClearance(p) PROVE ButtonsFitKind'
  BY <1>18 DEF UpdateClearance, LoadTaskList, Send, InTable
<1>19. ASSUME NEW p \in Pages, AnswerError(p) PROVE ButtonsFitKind'
  BY <1>19 DEF AnswerError, Finish
<1>20. ASSUME NEW t \in Tasks, TaskArrives(t) PROVE ButtonsFitKind'
  BY <1>20 DEF TaskArrives, FirstStatus, FirstProcess
<1>21. ASSUME NEW t \in Tasks, RequestCancelled(t) PROVE ButtonsFitKind'
  BY <1>21 DEF RequestCancelled
<1>22. ASSUME NEW t \in Tasks, HandlerReturns(t) PROVE ButtonsFitKind'
  BY <1>22 DEF HandlerReturns
<1>23. ASSUME NEW o \in Orgs, ChainCreatesApprover(o)
       PROVE ButtonsFitKind'
  BY <1>23 DEF ChainCreatesApprover
<1>24. ASSUME Crash PROVE ButtonsFitKind'
  BY <1>24 DEF Crash
<1>25. CASE UNCHANGED vars
  BY <1>25 DEF vars
<1> HIDE DEF db, page, request, history, TypeOK, Buttons, Commands, Stages,
        ButtonsFitKind
<1>26. QED
  BY <1>1, <1>2, <1>3, <1>4, <1>5, <1>6, <1>7, <1>8,
     <1>9, <1>10, <1>11, <1>12, <1>13, <1>14, <1>15, <1>16,
     <1>17, <1>18, <1>19, <1>20, <1>21, <1>22, <1>23, <1>24, <1>25
  DEF Next, User, Servlet

(* A task keeps to the statuses of its kind. *)
LEMMA KindStep ==
  TypeOK /\ StagesMatchCommands /\ ButtonsFitKind /\ KindRespected
  /\ [Next]_vars
  => KindRespected'
<1> SUFFICES ASSUME TypeOK, StagesMatchCommands, ButtonsFitKind,
                    KindRespected, [Next]_vars
             PROVE KindRespected'
  OBVIOUS
<1> USE DEF db, page, request, history, TypeOK, Buttons, Commands, Stages,
        KindRespected
<1>1. ASSUME NEW p \in Pages, ClickRefresh(p) PROVE KindRespected'
  BY <1>1 DEF ClickRefresh, LoadTaskList, Send
<1>2. ASSUME NEW p \in Pages, NEW t \in Tasks, ClickRow(p, t)
      PROVE  KindRespected'
  BY <1>2 DEF ClickRow, Send
<1>3. ASSUME NEW p \in Pages, NEW x \in Comments, ClickSave(p, x)
      PROVE  KindRespected'
  BY <1>3 DEF ClickSave, Send
<1>4. ASSUME NEW p \in Pages, NEW b \in Buttons, NEW x \in Comments,
             ClickDecision(p, b, x)
      PROVE  KindRespected'
  BY <1>4 DEF ClickDecision, Send
<1>5. ASSUME NEW p \in Pages, ClickDelete(p) PROVE KindRespected'
  BY <1>5 DEF ClickDelete, Send
<1>6. ASSUME NEW p \in Pages, DoesApproverExist(p) PROVE KindRespected'
  BY <1>6 DEF DoesApproverExist, Goto
<1>7. ASSUME NEW p \in Pages, CreateApprover(p) PROVE KindRespected'
  BY <1>7 DEF CreateApprover, Goto
<1>8. ASSUME NEW p \in Pages, NEW ticked \in SUBSET DOMAIN ShowBox,
             GetTaskList(p, ticked)
      PROVE  KindRespected'
  BY <1>8 DEF GetTaskList, Finish
<1>9. ASSUME NEW p \in Pages, OpenTask(p) PROVE KindRespected'
  BY <1>9 DEF OpenTask, Finish
<1>10. ASSUME NEW p \in Pages, SaveTask(p) PROVE KindRespected'
  BY <1>10 DEF SaveTask, Finish, InTable
<1>11. ASSUME NEW p \in Pages, NEW ticked \in SUBSET DOMAIN DeleteBox,
              DeleteApprovedTasks(p, ticked)
      PROVE  KindRespected'
  BY <1>11 DEF DeleteApprovedTasks, LoadTaskList, Send, NoRow
<1>12. ASSUME NEW p \in Pages, UpdateTaskStatus(p) PROVE KindRespected'
  BY <1>12, ConstantsAssumption, SMTT(30) DEF UpdateTaskStatus, Goto, InTable,
     StatusOf, Kinds, ButtonsFitKind, StatusesOf, NoRow
<1>13. ASSUME NEW p \in Pages, GetTask(p) PROVE KindRespected'
  BY <1>13 DEF GetTask, InTable
<1>14. ASSUME NEW p \in Pages, NotifyCTMGTrigger(p) PROVE KindRespected'
  BY <1>14 DEF NotifyCTMGTrigger, PlatformApplies, OutcomeOf, LoadTaskList,
     Send
<1>15. ASSUME NEW p \in Pages, NotifyReplyLost(p) PROVE KindRespected'
  BY <1>15 DEF NotifyReplyLost, PlatformApplies, OutcomeOf, Finish
<1>16. ASSUME NEW p \in Pages, ContinueManualStep(p) PROVE KindRespected'
  BY <1>16 DEF ContinueManualStep, ControllerContinues, Goto
<1>17. ASSUME NEW p \in Pages, ContinueReplyLost(p) PROVE KindRespected'
  BY <1>17 DEF ContinueReplyLost, ControllerContinues, Finish
<1>18. ASSUME NEW p \in Pages, UpdateClearance(p) PROVE KindRespected'
  <2>1. target[p] \in Tasks /\ cmd[p] = "grant_clearance"
    BY <1>18 DEF UpdateClearance, StagesMatchCommands
  <2>2. target[p] \notin misaimed => KindOf[target[p]] = "clearance"
    BY <2>1 DEF ButtonsFitKind
  <2>3. StatusesOf("clearance") = {"WAITING_FOR_CLEARANCE", "CLEARANCE_GRANTED"}
    BY DEF StatusesOf
  <2>4. QED
    BY <1>18, <2>1, <2>2, <2>3 DEF UpdateClearance
<1>19. ASSUME NEW p \in Pages, AnswerError(p) PROVE KindRespected'
  BY <1>19 DEF AnswerError, Finish
<1>20. ASSUME NEW t \in Tasks, TaskArrives(t) PROVE KindRespected'
  <2>1. FirstStatus(KindOf[t]) \in StatusesOf(KindOf[t])
    BY FirstStatusFits, ConstantsAssumption
  <2>2. QED
    BY <1>20, <2>1 DEF TaskArrives
<1>21. ASSUME NEW t \in Tasks, RequestCancelled(t) PROVE KindRespected'
  BY <1>21 DEF RequestCancelled
<1>22. ASSUME NEW t \in Tasks, HandlerReturns(t) PROVE KindRespected'
  BY <1>22 DEF HandlerReturns
<1>23. ASSUME NEW o \in Orgs, ChainCreatesApprover(o)
       PROVE KindRespected'
  BY <1>23 DEF ChainCreatesApprover
<1>24. ASSUME Crash PROVE KindRespected'
  BY <1>24 DEF Crash
<1>25. CASE UNCHANGED vars
  BY <1>25 DEF vars
<1> HIDE DEF db, page, request, history, TypeOK, Buttons, Commands, Stages,
        KindRespected
<1>26. QED
  BY <1>1, <1>2, <1>3, <1>4, <1>5, <1>6, <1>7, <1>8,
     <1>9, <1>10, <1>11, <1>12, <1>13, <1>14, <1>15, <1>16,
     <1>17, <1>18, <1>19, <1>20, <1>21, <1>22, <1>23, <1>24, <1>25
  DEF Next, User, Servlet

(* While a row waits for approval no decision on it has been written. *)
LEMMA WaitingUndecidedStep ==
  TypeOK /\ StagesMatchCommands /\ KnownTasksArrived /\ WaitingFitsKind
  /\ WaitingIsUndecided /\ [Next]_vars
  => WaitingIsUndecided'
<1> SUFFICES ASSUME TypeOK, StagesMatchCommands, KnownTasksArrived,
                    WaitingFitsKind, WaitingIsUndecided, [Next]_vars
             PROVE WaitingIsUndecided'
  OBVIOUS
<1> USE DEF db, page, request, history, TypeOK, Buttons, Commands, Stages,
        WaitingIsUndecided, Undecided, Written
<1>1. ASSUME NEW p \in Pages, ClickRefresh(p) PROVE WaitingIsUndecided'
  BY <1>1 DEF ClickRefresh, LoadTaskList, Send
<1>2. ASSUME NEW p \in Pages, NEW t \in Tasks, ClickRow(p, t)
      PROVE  WaitingIsUndecided'
  BY <1>2 DEF ClickRow, Send
<1>3. ASSUME NEW p \in Pages, NEW x \in Comments, ClickSave(p, x)
      PROVE  WaitingIsUndecided'
  BY <1>3 DEF ClickSave, Send
<1>4. ASSUME NEW p \in Pages, NEW b \in Buttons, NEW x \in Comments,
             ClickDecision(p, b, x)
      PROVE  WaitingIsUndecided'
  BY <1>4 DEF ClickDecision, Send
<1>5. ASSUME NEW p \in Pages, ClickDelete(p) PROVE WaitingIsUndecided'
  BY <1>5 DEF ClickDelete, Send
<1>6. ASSUME NEW p \in Pages, DoesApproverExist(p) PROVE WaitingIsUndecided'
  BY <1>6 DEF DoesApproverExist, Goto
<1>7. ASSUME NEW p \in Pages, CreateApprover(p) PROVE WaitingIsUndecided'
  BY <1>7 DEF CreateApprover, Goto
<1>8. ASSUME NEW p \in Pages, NEW ticked \in SUBSET DOMAIN ShowBox,
             GetTaskList(p, ticked)
      PROVE  WaitingIsUndecided'
  BY <1>8 DEF GetTaskList, Finish
<1>9. ASSUME NEW p \in Pages, OpenTask(p) PROVE WaitingIsUndecided'
  BY <1>9 DEF OpenTask, Finish
<1>10. ASSUME NEW p \in Pages, SaveTask(p) PROVE WaitingIsUndecided'
  BY <1>10 DEF SaveTask, Finish, InTable
<1>11. ASSUME NEW p \in Pages, NEW ticked \in SUBSET DOMAIN DeleteBox,
              DeleteApprovedTasks(p, ticked)
      PROVE  WaitingIsUndecided'
  BY <1>11 DEF DeleteApprovedTasks, LoadTaskList, Send
<1>12. ASSUME NEW p \in Pages, UpdateTaskStatus(p) PROVE WaitingIsUndecided'
  BY <1>12 DEF UpdateTaskStatus, Goto, InTable, StatusOf, NoRow
<1>13. ASSUME NEW p \in Pages, GetTask(p) PROVE WaitingIsUndecided'
  BY <1>13 DEF GetTask, InTable
<1>14. ASSUME NEW p \in Pages, NotifyCTMGTrigger(p) PROVE WaitingIsUndecided'
  BY <1>14 DEF NotifyCTMGTrigger, PlatformApplies, OutcomeOf, LoadTaskList,
     Send
<1>15. ASSUME NEW p \in Pages, NotifyReplyLost(p) PROVE WaitingIsUndecided'
  BY <1>15 DEF NotifyReplyLost, PlatformApplies, OutcomeOf, Finish
<1>16. ASSUME NEW p \in Pages, ContinueManualStep(p) PROVE WaitingIsUndecided'
  BY <1>16 DEF ContinueManualStep, ControllerContinues, Goto
<1>17. ASSUME NEW p \in Pages, ContinueReplyLost(p) PROVE WaitingIsUndecided'
  BY <1>17 DEF ContinueReplyLost, ControllerContinues, Finish
<1>18. ASSUME NEW p \in Pages, UpdateClearance(p) PROVE WaitingIsUndecided'
  BY <1>18 DEF UpdateClearance, LoadTaskList, Send, InTable,
     StagesMatchCommands
<1>19. ASSUME NEW p \in Pages, AnswerError(p) PROVE WaitingIsUndecided'
  BY <1>19 DEF AnswerError, Finish
<1>20. ASSUME NEW t \in Tasks, TaskArrives(t) PROVE WaitingIsUndecided'
  <2>1. FirstStatus(KindOf[t]) = "WAITING_FOR_APPROVAL" => FirstProcess(KindOf[t]) = "calling"
    BY FirstStatusFits, ConstantsAssumption
  <2>2. \A p \in Pages : target[p] # t
    BY <1>20 DEF TaskArrives, KnownTasksArrived
  <2>3. QED
    BY <1>20, <2>1, <2>2 DEF TaskArrives
<1>21. ASSUME NEW t \in Tasks, RequestCancelled(t) PROVE WaitingIsUndecided'
  BY <1>21 DEF RequestCancelled
<1>22. ASSUME NEW t \in Tasks, HandlerReturns(t) PROVE WaitingIsUndecided'
  BY <1>22 DEF HandlerReturns
<1>23. ASSUME NEW o \in Orgs, ChainCreatesApprover(o)
       PROVE WaitingIsUndecided'
  BY <1>23 DEF ChainCreatesApprover
<1>24. ASSUME Crash PROVE WaitingIsUndecided'
  BY <1>24 DEF Crash
<1>25. CASE UNCHANGED vars
  BY <1>25 DEF vars
<1> HIDE DEF db, page, request, history, TypeOK, Buttons, Commands, Stages,
        WaitingIsUndecided, Undecided, Written
<1>26. QED
  BY <1>1, <1>2, <1>3, <1>4, <1>5, <1>6, <1>7, <1>8,
     <1>9, <1>10, <1>11, <1>12, <1>13, <1>14, <1>15, <1>16,
     <1>17, <1>18, <1>19, <1>20, <1>21, <1>22, <1>23, <1>24, <1>25
  DEF Next, User, Servlet

(* Behind a decided row there is its outcome or the request that makes it. *)
LEMMA OwnersStep ==
  TypeOK /\ StagesMatchCommands /\ KnownTasksArrived /\ ButtonsFitKind
  /\ KindRespected /\ WaitingIsUndecided /\ DecisionsHaveOwners /\ [Next]_vars
  => DecisionsHaveOwners'
<1> SUFFICES ASSUME TypeOK, StagesMatchCommands, KnownTasksArrived,
                    ButtonsFitKind, KindRespected, WaitingIsUndecided,
                    DecisionsHaveOwners, [Next]_vars
             PROVE DecisionsHaveOwners'
  OBVIOUS
<1> USE DEF db, page, request, history, TypeOK, Buttons, Commands, Stages,
        DecisionsHaveOwners, Written
<1>1. ASSUME NEW p \in Pages, ClickRefresh(p) PROVE DecisionsHaveOwners'
  BY <1>1 DEF ClickRefresh, LoadTaskList, Send
<1>2. ASSUME NEW p \in Pages, NEW t \in Tasks, ClickRow(p, t)
      PROVE  DecisionsHaveOwners'
  BY <1>2 DEF ClickRow, Send
<1>3. ASSUME NEW p \in Pages, NEW x \in Comments, ClickSave(p, x)
      PROVE  DecisionsHaveOwners'
  BY <1>3 DEF ClickSave, Send
<1>4. ASSUME NEW p \in Pages, NEW b \in Buttons, NEW x \in Comments,
             ClickDecision(p, b, x)
      PROVE  DecisionsHaveOwners'
  BY <1>4 DEF ClickDecision, Send
<1>5. ASSUME NEW p \in Pages, ClickDelete(p) PROVE DecisionsHaveOwners'
  BY <1>5 DEF ClickDelete, Send
<1>6. ASSUME NEW p \in Pages, DoesApproverExist(p) PROVE DecisionsHaveOwners'
  BY <1>6 DEF DoesApproverExist, Goto
<1>7. ASSUME NEW p \in Pages, CreateApprover(p) PROVE DecisionsHaveOwners'
  BY <1>7 DEF CreateApprover, Goto
<1>8. ASSUME NEW p \in Pages, NEW ticked \in SUBSET DOMAIN ShowBox,
             GetTaskList(p, ticked)
      PROVE  DecisionsHaveOwners'
  BY <1>8 DEF GetTaskList, Finish
<1>9. ASSUME NEW p \in Pages, OpenTask(p) PROVE DecisionsHaveOwners'
  BY <1>9 DEF OpenTask, Finish
<1>10. ASSUME NEW p \in Pages, SaveTask(p) PROVE DecisionsHaveOwners'
  BY <1>10 DEF SaveTask, Finish, InTable
<1>11. ASSUME NEW p \in Pages, NEW ticked \in SUBSET DOMAIN DeleteBox,
              DeleteApprovedTasks(p, ticked)
      PROVE  DecisionsHaveOwners'
  BY <1>11, DeletableStatuses, SMTT(30) DEF DeleteApprovedTasks, LoadTaskList, Send,
     KindRespected, StatusesOf, NoRow
<1>12. ASSUME NEW p \in Pages, UpdateTaskStatus(p) PROVE DecisionsHaveOwners'
  BY <1>12 DEF UpdateTaskStatus, Goto, InTable, StatusOf
<1>13. ASSUME NEW p \in Pages, GetTask(p) PROVE DecisionsHaveOwners'
  BY <1>13 DEF GetTask, InTable
<1>14. ASSUME NEW p \in Pages, NotifyCTMGTrigger(p) PROVE DecisionsHaveOwners'
  BY <1>14 DEF NotifyCTMGTrigger, PlatformApplies, OutcomeOf, LoadTaskList,
     Send
<1>15. ASSUME NEW p \in Pages, NotifyReplyLost(p) PROVE DecisionsHaveOwners'
  BY <1>15 DEF NotifyReplyLost, PlatformApplies, OutcomeOf, Finish
<1>16. ASSUME NEW p \in Pages, ContinueManualStep(p) PROVE DecisionsHaveOwners'
  BY <1>16 DEF ContinueManualStep, ControllerContinues, Goto
<1>17. ASSUME NEW p \in Pages, ContinueReplyLost(p) PROVE DecisionsHaveOwners'
  BY <1>17 DEF ContinueReplyLost, ControllerContinues, Finish
<1>18. ASSUME NEW p \in Pages, UpdateClearance(p) PROVE DecisionsHaveOwners'
  BY <1>18 DEF UpdateClearance, LoadTaskList, Send, InTable
<1>19. ASSUME NEW p \in Pages, AnswerError(p) PROVE DecisionsHaveOwners'
  BY <1>19 DEF AnswerError, Finish
<1>20. ASSUME NEW t \in Tasks, TaskArrives(t) PROVE DecisionsHaveOwners'
  BY <1>20 DEF TaskArrives, FirstStatus, FirstProcess
<1>21. ASSUME NEW t \in Tasks, RequestCancelled(t) PROVE DecisionsHaveOwners'
  BY <1>21 DEF RequestCancelled
<1>22. ASSUME NEW t \in Tasks, HandlerReturns(t) PROVE DecisionsHaveOwners'
  BY <1>22 DEF HandlerReturns
<1>23. ASSUME NEW o \in Orgs, ChainCreatesApprover(o)
       PROVE DecisionsHaveOwners'
  BY <1>23 DEF ChainCreatesApprover
<1>24. ASSUME Crash PROVE DecisionsHaveOwners'
  BY <1>24 DEF Crash
<1>25. CASE UNCHANGED vars
  BY <1>25 DEF vars
<1> HIDE DEF db, page, request, history, TypeOK, Buttons, Commands, Stages,
        DecisionsHaveOwners, Written
<1>26. QED
  BY <1>1, <1>2, <1>3, <1>4, <1>5, <1>6, <1>7, <1>8,
     <1>9, <1>10, <1>11, <1>12, <1>13, <1>14, <1>15, <1>16,
     <1>17, <1>18, <1>19, <1>20, <1>21, <1>22, <1>23, <1>24, <1>25
  DEF Next, User, Servlet

(* The controller has continued before a clearance is written. *)
LEMMA ContinueStep ==
  TypeOK /\ StagesMatchCommands /\ KnownTasksArrived
  /\ ClearancesContinue /\ [Next]_vars
  => ClearancesContinue'
<1> SUFFICES ASSUME TypeOK, StagesMatchCommands, KnownTasksArrived,
                    ClearancesContinue, [Next]_vars
             PROVE ClearancesContinue'
  OBVIOUS
<1> USE DEF db, page, request, history, TypeOK, Buttons, Commands, Stages,
        ClearancesContinue
<1>1. ASSUME NEW p \in Pages, ClickRefresh(p) PROVE ClearancesContinue'
  BY <1>1 DEF ClickRefresh, LoadTaskList, Send
<1>2. ASSUME NEW p \in Pages, NEW t \in Tasks, ClickRow(p, t)
      PROVE  ClearancesContinue'
  BY <1>2 DEF ClickRow, Send
<1>3. ASSUME NEW p \in Pages, NEW x \in Comments, ClickSave(p, x)
      PROVE  ClearancesContinue'
  BY <1>3 DEF ClickSave, Send
<1>4. ASSUME NEW p \in Pages, NEW b \in Buttons, NEW x \in Comments,
             ClickDecision(p, b, x)
      PROVE  ClearancesContinue'
  BY <1>4 DEF ClickDecision, Send
<1>5. ASSUME NEW p \in Pages, ClickDelete(p) PROVE ClearancesContinue'
  BY <1>5 DEF ClickDelete, Send
<1>6. ASSUME NEW p \in Pages, DoesApproverExist(p) PROVE ClearancesContinue'
  BY <1>6 DEF DoesApproverExist, Goto
<1>7. ASSUME NEW p \in Pages, CreateApprover(p) PROVE ClearancesContinue'
  BY <1>7 DEF CreateApprover, Goto
<1>8. ASSUME NEW p \in Pages, NEW ticked \in SUBSET DOMAIN ShowBox,
             GetTaskList(p, ticked)
      PROVE  ClearancesContinue'
  BY <1>8 DEF GetTaskList, Finish
<1>9. ASSUME NEW p \in Pages, OpenTask(p) PROVE ClearancesContinue'
  BY <1>9 DEF OpenTask, Finish
<1>10. ASSUME NEW p \in Pages, SaveTask(p) PROVE ClearancesContinue'
  BY <1>10 DEF SaveTask, Finish, InTable
<1>11. ASSUME NEW p \in Pages, NEW ticked \in SUBSET DOMAIN DeleteBox,
              DeleteApprovedTasks(p, ticked)
      PROVE  ClearancesContinue'
  BY <1>11, DeletableStatuses, SMTT(30) DEF DeleteApprovedTasks, LoadTaskList, Send
<1>12. ASSUME NEW p \in Pages, UpdateTaskStatus(p) PROVE ClearancesContinue'
  BY <1>12 DEF UpdateTaskStatus, Goto, InTable, StatusOf, NoRow,
     StagesMatchCommands
<1>13. ASSUME NEW p \in Pages, GetTask(p) PROVE ClearancesContinue'
  BY <1>13 DEF GetTask, InTable
<1>14. ASSUME NEW p \in Pages, NotifyCTMGTrigger(p) PROVE ClearancesContinue'
  BY <1>14 DEF NotifyCTMGTrigger, PlatformApplies, OutcomeOf, LoadTaskList,
     Send
<1>15. ASSUME NEW p \in Pages, NotifyReplyLost(p) PROVE ClearancesContinue'
  BY <1>15 DEF NotifyReplyLost, PlatformApplies, OutcomeOf, Finish
<1>16. ASSUME NEW p \in Pages, ContinueManualStep(p) PROVE ClearancesContinue'
  BY <1>16 DEF ContinueManualStep, ControllerContinues, Goto, KnownTasksArrived
<1>17. ASSUME NEW p \in Pages, ContinueReplyLost(p) PROVE ClearancesContinue'
  BY <1>17 DEF ContinueReplyLost, ControllerContinues, Finish
<1>18. ASSUME NEW p \in Pages, UpdateClearance(p) PROVE ClearancesContinue'
  BY <1>18 DEF UpdateClearance, LoadTaskList, Send, InTable
<1>19. ASSUME NEW p \in Pages, AnswerError(p) PROVE ClearancesContinue'
  BY <1>19 DEF AnswerError, Finish
<1>20. ASSUME NEW t \in Tasks, TaskArrives(t) PROVE ClearancesContinue'
  BY <1>20, ConstantsAssumption DEF TaskArrives, FirstStatus, FirstProcess,
     Kinds, KnownTasksArrived, StagesMatchCommands
<1>21. ASSUME NEW t \in Tasks, RequestCancelled(t) PROVE ClearancesContinue'
  BY <1>21 DEF RequestCancelled
<1>22. ASSUME NEW t \in Tasks, HandlerReturns(t) PROVE ClearancesContinue'
  BY <1>22 DEF HandlerReturns
<1>23. ASSUME NEW o \in Orgs, ChainCreatesApprover(o)
       PROVE ClearancesContinue'
  BY <1>23 DEF ChainCreatesApprover
<1>24. ASSUME Crash PROVE ClearancesContinue'
  BY <1>24 DEF Crash
<1>25. CASE UNCHANGED vars
  BY <1>25 DEF vars
<1> HIDE DEF db, page, request, history, TypeOK, Buttons, Commands, Stages,
        ClearancesContinue
<1>26. QED
  BY <1>1, <1>2, <1>3, <1>4, <1>5, <1>6, <1>7, <1>8,
     <1>9, <1>10, <1>11, <1>12, <1>13, <1>14, <1>15, <1>16,
     <1>17, <1>18, <1>19, <1>20, <1>21, <1>22, <1>23, <1>24, <1>25
  DEF Next, User, Servlet

(* A granted clearance has reached the controller. *)
LEMMA GrantedStep ==
  TypeOK /\ StagesMatchCommands /\ ClearancesContinue
  /\ GrantedMeansContinued /\ [Next]_vars
  => GrantedMeansContinued'
<1> SUFFICES ASSUME TypeOK, StagesMatchCommands, ClearancesContinue,
                    GrantedMeansContinued, [Next]_vars
             PROVE GrantedMeansContinued'
  OBVIOUS
<1> USE DEF db, page, request, history, TypeOK, Buttons, Commands, Stages,
        GrantedMeansContinued
<1>1. ASSUME NEW p \in Pages, ClickRefresh(p) PROVE GrantedMeansContinued'
  BY <1>1 DEF ClickRefresh, LoadTaskList, Send
<1>2. ASSUME NEW p \in Pages, NEW t \in Tasks, ClickRow(p, t)
      PROVE  GrantedMeansContinued'
  BY <1>2 DEF ClickRow, Send
<1>3. ASSUME NEW p \in Pages, NEW x \in Comments, ClickSave(p, x)
      PROVE  GrantedMeansContinued'
  BY <1>3 DEF ClickSave, Send
<1>4. ASSUME NEW p \in Pages, NEW b \in Buttons, NEW x \in Comments,
             ClickDecision(p, b, x)
      PROVE  GrantedMeansContinued'
  BY <1>4 DEF ClickDecision, Send
<1>5. ASSUME NEW p \in Pages, ClickDelete(p) PROVE GrantedMeansContinued'
  BY <1>5 DEF ClickDelete, Send
<1>6. ASSUME NEW p \in Pages, DoesApproverExist(p) PROVE GrantedMeansContinued'
  BY <1>6 DEF DoesApproverExist, Goto
<1>7. ASSUME NEW p \in Pages, CreateApprover(p) PROVE GrantedMeansContinued'
  BY <1>7 DEF CreateApprover, Goto
<1>8. ASSUME NEW p \in Pages, NEW ticked \in SUBSET DOMAIN ShowBox,
             GetTaskList(p, ticked)
      PROVE  GrantedMeansContinued'
  BY <1>8 DEF GetTaskList, Finish
<1>9. ASSUME NEW p \in Pages, OpenTask(p) PROVE GrantedMeansContinued'
  BY <1>9 DEF OpenTask, Finish
<1>10. ASSUME NEW p \in Pages, SaveTask(p) PROVE GrantedMeansContinued'
  BY <1>10 DEF SaveTask, Finish, InTable
<1>11. ASSUME NEW p \in Pages, NEW ticked \in SUBSET DOMAIN DeleteBox,
              DeleteApprovedTasks(p, ticked)
      PROVE  GrantedMeansContinued'
  BY <1>11 DEF DeleteApprovedTasks, LoadTaskList, Send
<1>12. ASSUME NEW p \in Pages, UpdateTaskStatus(p) PROVE GrantedMeansContinued'
  BY <1>12 DEF UpdateTaskStatus, Goto, InTable, StatusOf
<1>13. ASSUME NEW p \in Pages, GetTask(p) PROVE GrantedMeansContinued'
  BY <1>13 DEF GetTask, InTable
<1>14. ASSUME NEW p \in Pages, NotifyCTMGTrigger(p)
      PROVE  GrantedMeansContinued'
  BY <1>14 DEF NotifyCTMGTrigger, PlatformApplies, OutcomeOf, LoadTaskList,
     Send
<1>15. ASSUME NEW p \in Pages, NotifyReplyLost(p) PROVE GrantedMeansContinued'
  BY <1>15 DEF NotifyReplyLost, PlatformApplies, OutcomeOf, Finish
<1>16. ASSUME NEW p \in Pages, ContinueManualStep(p)
      PROVE  GrantedMeansContinued'
  BY <1>16 DEF ContinueManualStep, ControllerContinues, Goto
<1>17. ASSUME NEW p \in Pages, ContinueReplyLost(p)
      PROVE  GrantedMeansContinued'
  BY <1>17 DEF ContinueReplyLost, ControllerContinues, Finish
<1>18. ASSUME NEW p \in Pages, UpdateClearance(p) PROVE GrantedMeansContinued'
  BY <1>18 DEF UpdateClearance, LoadTaskList, Send, InTable, ClearancesContinue
<1>19. ASSUME NEW p \in Pages, AnswerError(p) PROVE GrantedMeansContinued'
  BY <1>19 DEF AnswerError, Finish
<1>20. ASSUME NEW t \in Tasks, TaskArrives(t) PROVE GrantedMeansContinued'
  BY <1>20 DEF TaskArrives, FirstStatus, FirstProcess
<1>21. ASSUME NEW t \in Tasks, RequestCancelled(t) PROVE GrantedMeansContinued'
  BY <1>21 DEF RequestCancelled
<1>22. ASSUME NEW t \in Tasks, HandlerReturns(t) PROVE GrantedMeansContinued'
  BY <1>22 DEF HandlerReturns
<1>23. ASSUME NEW o \in Orgs, ChainCreatesApprover(o)
       PROVE GrantedMeansContinued'
  BY <1>23 DEF ChainCreatesApprover
<1>24. ASSUME Crash PROVE GrantedMeansContinued'
  BY <1>24 DEF Crash
<1>25. CASE UNCHANGED vars
  BY <1>25 DEF vars
<1> HIDE DEF db, page, request, history, TypeOK, Buttons, Commands, Stages,
        GrantedMeansContinued
<1>26. QED
  BY <1>1, <1>2, <1>3, <1>4, <1>5, <1>6, <1>7, <1>8,
     <1>9, <1>10, <1>11, <1>12, <1>13, <1>14, <1>15, <1>16,
     <1>17, <1>18, <1>19, <1>20, <1>21, <1>22, <1>23, <1>24, <1>25
  DEF Next, User, Servlet

(* A decision reported as made holds. *)
LEMMA ReportedStep ==
  TypeOK /\ StagesMatchCommands /\ KnownTasksArrived
  /\ ClearancesContinue /\ ReportedDecisionsHold /\ [Next]_vars
  => ReportedDecisionsHold'
<1> SUFFICES ASSUME TypeOK, StagesMatchCommands, KnownTasksArrived,
                    ClearancesContinue, ReportedDecisionsHold, [Next]_vars
             PROVE ReportedDecisionsHold'
  OBVIOUS
<1> USE DEF db, page, request, history, TypeOK, Buttons, Commands, Stages,
        ReportedDecisionsHold
<1>1. ASSUME NEW p \in Pages, ClickRefresh(p) PROVE ReportedDecisionsHold'
  BY <1>1 DEF ClickRefresh, LoadTaskList, Send
<1>2. ASSUME NEW p \in Pages, NEW t \in Tasks, ClickRow(p, t)
      PROVE  ReportedDecisionsHold'
  BY <1>2 DEF ClickRow, Send
<1>3. ASSUME NEW p \in Pages, NEW x \in Comments, ClickSave(p, x)
      PROVE  ReportedDecisionsHold'
  BY <1>3 DEF ClickSave, Send
<1>4. ASSUME NEW p \in Pages, NEW b \in Buttons, NEW x \in Comments,
             ClickDecision(p, b, x)
      PROVE  ReportedDecisionsHold'
  BY <1>4 DEF ClickDecision, Send
<1>5. ASSUME NEW p \in Pages, ClickDelete(p) PROVE ReportedDecisionsHold'
  BY <1>5 DEF ClickDelete, Send
<1>6. ASSUME NEW p \in Pages, DoesApproverExist(p) PROVE ReportedDecisionsHold'
  BY <1>6 DEF DoesApproverExist, Goto
<1>7. ASSUME NEW p \in Pages, CreateApprover(p) PROVE ReportedDecisionsHold'
  BY <1>7 DEF CreateApprover, Goto
<1>8. ASSUME NEW p \in Pages, NEW ticked \in SUBSET DOMAIN ShowBox,
             GetTaskList(p, ticked)
      PROVE  ReportedDecisionsHold'
  BY <1>8 DEF GetTaskList, Finish
<1>9. ASSUME NEW p \in Pages, OpenTask(p) PROVE ReportedDecisionsHold'
  BY <1>9 DEF OpenTask, Finish
<1>10. ASSUME NEW p \in Pages, SaveTask(p) PROVE ReportedDecisionsHold'
  BY <1>10 DEF SaveTask, Finish, InTable
<1>11. ASSUME NEW p \in Pages, NEW ticked \in SUBSET DOMAIN DeleteBox,
              DeleteApprovedTasks(p, ticked)
      PROVE  ReportedDecisionsHold'
  BY <1>11 DEF DeleteApprovedTasks, LoadTaskList, Send
<1>12. ASSUME NEW p \in Pages, UpdateTaskStatus(p) PROVE ReportedDecisionsHold'
  BY <1>12 DEF UpdateTaskStatus, Goto, InTable, StatusOf
<1>13. ASSUME NEW p \in Pages, GetTask(p) PROVE ReportedDecisionsHold'
  BY <1>13 DEF GetTask, InTable
<1>14. ASSUME NEW p \in Pages, NotifyCTMGTrigger(p)
      PROVE  ReportedDecisionsHold'
  BY <1>14 DEF NotifyCTMGTrigger, PlatformApplies, OutcomeOf, LoadTaskList,
     Send
<1>15. ASSUME NEW p \in Pages, NotifyReplyLost(p) PROVE ReportedDecisionsHold'
  BY <1>15 DEF NotifyReplyLost, PlatformApplies, OutcomeOf, Finish
<1>16. ASSUME NEW p \in Pages, ContinueManualStep(p)
      PROVE  ReportedDecisionsHold'
  BY <1>16 DEF ContinueManualStep, ControllerContinues, Goto
<1>17. ASSUME NEW p \in Pages, ContinueReplyLost(p)
      PROVE  ReportedDecisionsHold'
  BY <1>17 DEF ContinueReplyLost, ControllerContinues, Finish
<1>18. ASSUME NEW p \in Pages, UpdateClearance(p) PROVE ReportedDecisionsHold'
  BY <1>18 DEF UpdateClearance, LoadTaskList, Send, InTable,
     ClearancesContinue, StagesMatchCommands
<1>19. ASSUME NEW p \in Pages, AnswerError(p) PROVE ReportedDecisionsHold'
  BY <1>19 DEF AnswerError, Finish
<1>20. ASSUME NEW t \in Tasks, TaskArrives(t) PROVE ReportedDecisionsHold'
  BY <1>20 DEF TaskArrives, FirstStatus, FirstProcess, KnownTasksArrived
<1>21. ASSUME NEW t \in Tasks, RequestCancelled(t) PROVE ReportedDecisionsHold'
  BY <1>21 DEF RequestCancelled
<1>22. ASSUME NEW t \in Tasks, HandlerReturns(t) PROVE ReportedDecisionsHold'
  BY <1>22 DEF HandlerReturns
<1>23. ASSUME NEW o \in Orgs, ChainCreatesApprover(o)
       PROVE ReportedDecisionsHold'
  BY <1>23 DEF ChainCreatesApprover
<1>24. ASSUME Crash PROVE ReportedDecisionsHold'
  BY <1>24 DEF Crash
<1>25. CASE UNCHANGED vars
  BY <1>25 DEF vars
<1> HIDE DEF db, page, request, history, TypeOK, Buttons, Commands, Stages,
        ReportedDecisionsHold
<1>26. QED
  BY <1>1, <1>2, <1>3, <1>4, <1>5, <1>6, <1>7, <1>8,
     <1>9, <1>10, <1>11, <1>12, <1>13, <1>14, <1>15, <1>16,
     <1>17, <1>18, <1>19, <1>20, <1>21, <1>22, <1>23, <1>24, <1>25
  DEF Next, User, Servlet

(* A page knows only tasks of its own organization. *)
LEMMA OwnTasksStep == TypeOK /\ OwnTasksOnly /\ [Next]_vars => OwnTasksOnly'
<1> SUFFICES ASSUME TypeOK, OwnTasksOnly, [Next]_vars PROVE OwnTasksOnly'
  OBVIOUS
<1> USE ConstantsAssumption DEF db, page, request, history, TypeOK, Buttons,
        Commands, Stages, OwnTasksOnly
<1>1. ASSUME NEW p \in Pages, ClickRefresh(p) PROVE OwnTasksOnly'
  BY <1>1 DEF ClickRefresh, LoadTaskList, Send
<1>2. ASSUME NEW p \in Pages, NEW t \in Tasks, ClickRow(p, t)
      PROVE  OwnTasksOnly'
  BY <1>2 DEF ClickRow, Send
<1>3. ASSUME NEW p \in Pages, NEW x \in Comments, ClickSave(p, x)
      PROVE  OwnTasksOnly'
  BY <1>3 DEF ClickSave, Send
<1>4. ASSUME NEW p \in Pages, NEW b \in Buttons, NEW x \in Comments,
             ClickDecision(p, b, x)
      PROVE  OwnTasksOnly'
  BY <1>4 DEF ClickDecision, Send
<1>5. ASSUME NEW p \in Pages, ClickDelete(p) PROVE OwnTasksOnly'
  BY <1>5 DEF ClickDelete, Send
<1>6. ASSUME NEW p \in Pages, DoesApproverExist(p) PROVE OwnTasksOnly'
  BY <1>6 DEF DoesApproverExist, Goto
<1>7. ASSUME NEW p \in Pages, CreateApprover(p) PROVE OwnTasksOnly'
  BY <1>7 DEF CreateApprover, Goto
<1>8. ASSUME NEW p \in Pages, NEW ticked \in SUBSET DOMAIN ShowBox,
             GetTaskList(p, ticked)
      PROVE  OwnTasksOnly'
  BY <1>8 DEF GetTaskList, Finish
<1>9. ASSUME NEW p \in Pages, OpenTask(p) PROVE OwnTasksOnly'
  BY <1>9 DEF OpenTask, Finish
<1>10. ASSUME NEW p \in Pages, SaveTask(p) PROVE OwnTasksOnly'
  BY <1>10 DEF SaveTask, Finish, InTable
<1>11. ASSUME NEW p \in Pages, NEW ticked \in SUBSET DOMAIN DeleteBox,
              DeleteApprovedTasks(p, ticked)
      PROVE  OwnTasksOnly'
  BY <1>11 DEF DeleteApprovedTasks, LoadTaskList, Send
<1>12. ASSUME NEW p \in Pages, UpdateTaskStatus(p) PROVE OwnTasksOnly'
  BY <1>12 DEF UpdateTaskStatus, Goto, InTable, StatusOf
<1>13. ASSUME NEW p \in Pages, GetTask(p) PROVE OwnTasksOnly'
  BY <1>13 DEF GetTask, InTable
<1>14. ASSUME NEW p \in Pages, NotifyCTMGTrigger(p) PROVE OwnTasksOnly'
  BY <1>14 DEF NotifyCTMGTrigger, PlatformApplies, OutcomeOf, LoadTaskList,
     Send
<1>15. ASSUME NEW p \in Pages, NotifyReplyLost(p) PROVE OwnTasksOnly'
  BY <1>15 DEF NotifyReplyLost, PlatformApplies, OutcomeOf, Finish
<1>16. ASSUME NEW p \in Pages, ContinueManualStep(p) PROVE OwnTasksOnly'
  BY <1>16 DEF ContinueManualStep, ControllerContinues, Goto
<1>17. ASSUME NEW p \in Pages, ContinueReplyLost(p) PROVE OwnTasksOnly'
  BY <1>17 DEF ContinueReplyLost, ControllerContinues, Finish
<1>18. ASSUME NEW p \in Pages, UpdateClearance(p) PROVE OwnTasksOnly'
  BY <1>18 DEF UpdateClearance, LoadTaskList, Send, InTable
<1>19. ASSUME NEW p \in Pages, AnswerError(p) PROVE OwnTasksOnly'
  BY <1>19 DEF AnswerError, Finish
<1>20. ASSUME NEW t \in Tasks, TaskArrives(t) PROVE OwnTasksOnly'
  BY <1>20 DEF TaskArrives, FirstStatus, FirstProcess
<1>21. ASSUME NEW t \in Tasks, RequestCancelled(t) PROVE OwnTasksOnly'
  BY <1>21 DEF RequestCancelled
<1>22. ASSUME NEW t \in Tasks, HandlerReturns(t) PROVE OwnTasksOnly'
  BY <1>22 DEF HandlerReturns
<1>23. ASSUME NEW o \in Orgs, ChainCreatesApprover(o)
       PROVE OwnTasksOnly'
  BY <1>23 DEF ChainCreatesApprover
<1>24. ASSUME Crash PROVE OwnTasksOnly'
  BY <1>24 DEF Crash
<1>25. CASE UNCHANGED vars
  BY <1>25 DEF vars
<1> HIDE DEF db, page, request, history, TypeOK, Buttons, Commands, Stages,
        OwnTasksOnly
<1>26. QED
  BY <1>1, <1>2, <1>3, <1>4, <1>5, <1>6, <1>7, <1>8,
     <1>9, <1>10, <1>11, <1>12, <1>13, <1>14, <1>15, <1>16,
     <1>17, <1>18, <1>19, <1>20, <1>21, <1>22, <1>23, <1>24, <1>25
  DEF Next, User, Servlet

(* The approver rows a request or a task relies on stay. *)
LEMMA ApproverRowsStep ==
  TypeOK /\ StagesMatchCommands /\ KnownTasksArrived /\ ApproverRowsExist /\ [Next]_vars
  => ApproverRowsExist'
<1> SUFFICES ASSUME TypeOK, StagesMatchCommands, KnownTasksArrived, ApproverRowsExist, [Next]_vars
             PROVE  ApproverRowsExist'
  OBVIOUS
<1> USE ConstantsAssumption DEF StagesMatchCommands, KnownTasksArrived, db, page, request, history, TypeOK, Buttons,
        Commands, Stages, ApproverRowsExist
<1>1. ASSUME NEW p \in Pages, ClickRefresh(p) PROVE ApproverRowsExist'
  BY <1>1 DEF ClickRefresh, LoadTaskList, Send
<1>2. ASSUME NEW p \in Pages, NEW t \in Tasks, ClickRow(p, t)
      PROVE  ApproverRowsExist'
  BY <1>2 DEF ClickRow, Send
<1>3. ASSUME NEW p \in Pages, NEW x \in Comments, ClickSave(p, x)
      PROVE  ApproverRowsExist'
  BY <1>3 DEF ClickSave, Send
<1>4. ASSUME NEW p \in Pages, NEW b \in Buttons, NEW x \in Comments,
             ClickDecision(p, b, x)
      PROVE  ApproverRowsExist'
  BY <1>4 DEF ClickDecision, Send
<1>5. ASSUME NEW p \in Pages, ClickDelete(p) PROVE ApproverRowsExist'
  BY <1>5 DEF ClickDelete, Send
<1>6. ASSUME NEW p \in Pages, DoesApproverExist(p) PROVE ApproverRowsExist'
  BY <1>6 DEF DoesApproverExist, Goto
<1>7. ASSUME NEW p \in Pages, CreateApprover(p) PROVE ApproverRowsExist'
  BY <1>7 DEF CreateApprover, Goto
<1>8. ASSUME NEW p \in Pages, NEW ticked \in SUBSET DOMAIN ShowBox,
             GetTaskList(p, ticked)
      PROVE  ApproverRowsExist'
  BY <1>8 DEF GetTaskList, Finish
<1>9. ASSUME NEW p \in Pages, OpenTask(p) PROVE ApproverRowsExist'
  BY <1>9 DEF OpenTask, Finish
<1>10. ASSUME NEW p \in Pages, SaveTask(p) PROVE ApproverRowsExist'
  BY <1>10 DEF SaveTask, Finish, InTable
<1>11. ASSUME NEW p \in Pages, NEW ticked \in SUBSET DOMAIN DeleteBox,
              DeleteApprovedTasks(p, ticked)
      PROVE  ApproverRowsExist'
  BY <1>11, DeletableStatuses DEF DeleteApprovedTasks, LoadTaskList, Send
<1>12. ASSUME NEW p \in Pages, UpdateTaskStatus(p) PROVE ApproverRowsExist'
  BY <1>12 DEF UpdateTaskStatus, Goto, InTable, StatusOf
<1>13. ASSUME NEW p \in Pages, GetTask(p) PROVE ApproverRowsExist'
  BY <1>13 DEF GetTask, InTable
<1>14. ASSUME NEW p \in Pages, NotifyCTMGTrigger(p) PROVE ApproverRowsExist'
  BY <1>14 DEF NotifyCTMGTrigger, PlatformApplies, OutcomeOf, LoadTaskList,
     Send
<1>15. ASSUME NEW p \in Pages, NotifyReplyLost(p) PROVE ApproverRowsExist'
  BY <1>15 DEF NotifyReplyLost, PlatformApplies, OutcomeOf, Finish
<1>16. ASSUME NEW p \in Pages, ContinueManualStep(p) PROVE ApproverRowsExist'
  BY <1>16 DEF ContinueManualStep, ControllerContinues, Goto
<1>17. ASSUME NEW p \in Pages, ContinueReplyLost(p) PROVE ApproverRowsExist'
  BY <1>17 DEF ContinueReplyLost, ControllerContinues, Finish
<1>18. ASSUME NEW p \in Pages, UpdateClearance(p) PROVE ApproverRowsExist'
  BY <1>18 DEF UpdateClearance, LoadTaskList, Send, InTable
<1>19. ASSUME NEW p \in Pages, AnswerError(p) PROVE ApproverRowsExist'
  BY <1>19 DEF AnswerError, Finish
<1>20. ASSUME NEW t \in Tasks, TaskArrives(t) PROVE ApproverRowsExist'
  BY <1>20 DEF TaskArrives, FirstStatus, FirstProcess
<1>21. ASSUME NEW t \in Tasks, RequestCancelled(t) PROVE ApproverRowsExist'
  BY <1>21 DEF RequestCancelled
<1>22. ASSUME NEW t \in Tasks, HandlerReturns(t) PROVE ApproverRowsExist'
  BY <1>22 DEF HandlerReturns
<1>23. ASSUME NEW o \in Orgs, ChainCreatesApprover(o)
       PROVE ApproverRowsExist'
  BY <1>23 DEF ChainCreatesApprover
<1>24. ASSUME Crash PROVE ApproverRowsExist'
  BY <1>24 DEF Crash
<1>25. CASE UNCHANGED vars
  BY <1>25 DEF vars
<1> HIDE DEF StagesMatchCommands, KnownTasksArrived, db, page, request, history, TypeOK, Buttons, Commands, Stages,
        ApproverRowsExist
<1>26. QED
  BY <1>1, <1>2, <1>3, <1>4, <1>5, <1>6, <1>7, <1>8,
     <1>9, <1>10, <1>11, <1>12, <1>13, <1>14, <1>15, <1>16,
     <1>17, <1>18, <1>19, <1>20, <1>21, <1>22, <1>23, <1>24, <1>25
  DEF Next, User, Servlet

(* Only a request of its owner changes the status of a row. *)
LEMMA OwnersActStep ==
  TypeOK /\ StagesMatchCommands /\ OwnTasksOnly /\ [Next]_vars
  => \A t \in Tasks : OwnerActs(t)
<1> SUFFICES ASSUME TypeOK, StagesMatchCommands, OwnTasksOnly, [Next]_vars
             PROVE \A t \in Tasks : OwnerActs(t)
  OBVIOUS
<1> USE DEF db, page, request, history, TypeOK, Buttons, Commands, Stages,
        OwnerActs
<1>1. ASSUME NEW p \in Pages, ClickRefresh(p)
      PROVE \A t \in Tasks : OwnerActs(t)
  BY <1>1 DEF ClickRefresh, LoadTaskList, Send
<1>2. ASSUME NEW p \in Pages, NEW u \in Tasks, ClickRow(p, u)
      PROVE \A t \in Tasks : OwnerActs(t)
  BY <1>2 DEF ClickRow, Send
<1>3. ASSUME NEW p \in Pages, NEW x \in Comments, ClickSave(p, x)
      PROVE \A t \in Tasks : OwnerActs(t)
  BY <1>3 DEF ClickSave, Send
<1>4. ASSUME NEW p \in Pages, NEW b \in Buttons, NEW x \in Comments,
             ClickDecision(p, b, x)
      PROVE  \A t \in Tasks : OwnerActs(t)
  BY <1>4 DEF ClickDecision, Send
<1>5. ASSUME NEW p \in Pages, ClickDelete(p)
      PROVE \A t \in Tasks : OwnerActs(t)
  BY <1>5 DEF ClickDelete, Send
<1>6. ASSUME NEW p \in Pages, DoesApproverExist(p)
      PROVE \A t \in Tasks : OwnerActs(t)
  BY <1>6 DEF DoesApproverExist, Goto
<1>7. ASSUME NEW p \in Pages, CreateApprover(p)
      PROVE \A t \in Tasks : OwnerActs(t)
  BY <1>7 DEF CreateApprover, Goto
<1>8. ASSUME NEW p \in Pages, NEW ticked \in SUBSET DOMAIN ShowBox,
             GetTaskList(p, ticked)
      PROVE  \A t \in Tasks : OwnerActs(t)
  BY <1>8 DEF GetTaskList, Finish
<1>9. ASSUME NEW p \in Pages, OpenTask(p) PROVE \A t \in Tasks : OwnerActs(t)
  BY <1>9 DEF OpenTask, Finish
<1>10. ASSUME NEW p \in Pages, SaveTask(p) PROVE \A t \in Tasks : OwnerActs(t)
  BY <1>10 DEF SaveTask, Finish, InTable
<1>11. ASSUME NEW p \in Pages, NEW ticked \in SUBSET DOMAIN DeleteBox,
              DeleteApprovedTasks(p, ticked)
      PROVE  \A t \in Tasks : OwnerActs(t)
  BY <1>11 DEF DeleteApprovedTasks, LoadTaskList, Send
<1>12. ASSUME NEW p \in Pages, UpdateTaskStatus(p)
       PROVE \A t \in Tasks : OwnerActs(t)
  BY <1>12 DEF UpdateTaskStatus, Goto, InTable, StatusOf, OwnTasksOnly
<1>13. ASSUME NEW p \in Pages, GetTask(p) PROVE \A t \in Tasks : OwnerActs(t)
  BY <1>13 DEF GetTask, InTable
<1>14. ASSUME NEW p \in Pages, NotifyCTMGTrigger(p)
       PROVE \A t \in Tasks : OwnerActs(t)
  BY <1>14 DEF NotifyCTMGTrigger, PlatformApplies, OutcomeOf, LoadTaskList,
     Send
<1>15. ASSUME NEW p \in Pages, NotifyReplyLost(p)
       PROVE \A t \in Tasks : OwnerActs(t)
  BY <1>15 DEF NotifyReplyLost, PlatformApplies, OutcomeOf, Finish
<1>16. ASSUME NEW p \in Pages, ContinueManualStep(p)
       PROVE \A t \in Tasks : OwnerActs(t)
  BY <1>16 DEF ContinueManualStep, ControllerContinues, Goto
<1>17. ASSUME NEW p \in Pages, ContinueReplyLost(p)
       PROVE \A t \in Tasks : OwnerActs(t)
  BY <1>17 DEF ContinueReplyLost, ControllerContinues, Finish
<1>18. ASSUME NEW p \in Pages, UpdateClearance(p)
       PROVE \A t \in Tasks : OwnerActs(t)
  BY <1>18, SMTT(30) DEF UpdateClearance, LoadTaskList, Send, InTable, OwnTasksOnly,
     StagesMatchCommands
<1>19. ASSUME NEW p \in Pages, AnswerError(p)
       PROVE \A t \in Tasks : OwnerActs(t)
  BY <1>19 DEF AnswerError, Finish
<1>20. ASSUME NEW u \in Tasks, TaskArrives(u)
       PROVE \A t \in Tasks : OwnerActs(t)
  BY <1>20 DEF TaskArrives, FirstStatus, FirstProcess
<1>21. ASSUME NEW u \in Tasks, RequestCancelled(u)
       PROVE \A t \in Tasks : OwnerActs(t)
  BY <1>21 DEF RequestCancelled
<1>22. ASSUME NEW u \in Tasks, HandlerReturns(u)
       PROVE \A t \in Tasks : OwnerActs(t)
  BY <1>22 DEF HandlerReturns
<1>23. ASSUME NEW o \in Orgs, ChainCreatesApprover(o)
       PROVE \A t \in Tasks : OwnerActs(t)
  BY <1>23 DEF ChainCreatesApprover
<1>24. ASSUME Crash PROVE \A t \in Tasks : OwnerActs(t)
  BY <1>24 DEF Crash
<1>25. CASE UNCHANGED vars
  BY <1>25 DEF vars
<1> HIDE DEF db, page, request, history, TypeOK, Buttons, Commands, Stages,
        OwnerActs
<1>26. QED
  BY <1>1, <1>2, <1>3, <1>4, <1>5, <1>6, <1>7, <1>8,
     <1>9, <1>10, <1>11, <1>12, <1>13, <1>14, <1>15, <1>16,
     <1>17, <1>18, <1>19, <1>20, <1>21, <1>22, <1>23, <1>24, <1>25
  DEF Next, User, Servlet

(* All parts of the inductive invariant together.                          *)
LEMMA IInvStep == TypeOK /\ IInv /\ [Next]_vars => IInv'
  BY StagesStep, KnownStep, WaitingFitsStep, ButtonsFitStep, KindStep,
     WaitingUndecidedStep, OwnersStep, ContinueStep, GrantedStep, ReportedStep
  DEF IInv

LEMMA IInvInit == Init => IInv
<1> SUFFICES ASSUME Init PROVE IInv
  OBVIOUS
<1>1. StagesMatchCommands /\ KnownTasksArrived /\ ButtonsFitKind /\ WaitingFitsKind
  BY ConstantsAssumption
  DEF Init, StagesMatchCommands, KnownTasksArrived, ButtonsFitKind, WaitingFitsKind, Buttons
<1>2. WaitingIsUndecided /\ DecisionsHaveOwners /\ ClearancesContinue
  BY DEF Init, WaitingIsUndecided, DecisionsHaveOwners, ClearancesContinue
<1>3. KindRespected /\ ReportedDecisionsHold /\ GrantedMeansContinued
  BY DEF Init, KindRespected, ReportedDecisionsHold, GrantedMeansContinued,
     NoRow
<1>4. QED
  BY <1>1, <1>2, <1>3 DEF IInv

(* The inductive invariant holds in every state.                           *)
THEOREM InductiveInvariant == Spec => []IInv
<1>1. TypeOK /\ IInv /\ [Next]_vars => IInv'
  BY IInvStep
<1>2. QED
  BY <1>1, IInvInit, TypeCorrect, PTL DEF Spec

(* What was reported to an approver as approved, rejected or granted is so *)
(* at the platform or the controller, for any number of approvers, tasks   *)
(* and restarts (TaskServlet.notifyCTMGTrigger, ClearanceGranted.xml).     *)
THEOREM ReportedDecisions == Spec => []ReportedDecisionsHold
<1>1. IInv => ReportedDecisionsHold
  BY DEF IInv
<1>2. QED
  BY <1>1, InductiveInvariant, PTL

(* Unless decided with the buttons of another task, a task keeps to the    *)
(* statuses of its kind (index.jsp, showTask).                             *)
THEOREM KindsRespected == Spec => []KindRespected
<1>1. IInv => KindRespected
  BY DEF IInv
<1>2. QED
  BY <1>1, InductiveInvariant, PTL

(* A clearance is recorded only after the controller has continued.        *)
THEOREM GrantedContinued == Spec => []GrantedMeansContinued
<1>1. IInv => GrantedMeansContinued
  BY DEF IInv
<1>2. QED
  BY <1>1, InductiveInvariant, PTL

(* The table and the platform agree on every approval task that no failed  *)
(* or running request concerns: a decided row whose process is not decided *)
(* accordingly has a request between updateTaskStatus and the platform's   *)
(* answer, or one that ended in an error there.                            *)
THEOREM DecisionsReach == Spec => []DecisionsReachPlatform
<1>1. IInv => DecisionsReachPlatform
  BY DEF IInv, DecisionsReachPlatform, DecisionsHaveOwners, WaitingIsUndecided,
         UnderWay, Written, Buttons
<1>2. QED
  BY <1>1, InductiveInvariant, PTL

(* Requests are executed, and tasks exist, only for organizations that     *)
(* have their approver row (TaskServlet.doService).                        *)
THEOREM ApproversKnown == Spec => []ApproverRowsExist
<1>1. Init => ApproverRowsExist
  BY DEF Init, ApproverRowsExist
<1>2. IInv => StagesMatchCommands /\ KnownTasksArrived
  BY DEF IInv
<1>3. QED
  BY <1>1, <1>2, ApproverRowsStep, TypeCorrect, InductiveInvariant, PTL DEF Spec

(* A row that has arrived changes its status, or goes, only by a request   *)
(* of a page of the organization that owns it.                             *)
THEOREM OwnersAlone == Spec => OwnersDecide
<1>1. Init => OwnTasksOnly
  BY ConstantsAssumption DEF Init, OwnTasksOnly
<1>2. TypeOK /\ OwnTasksOnly /\ [Next]_vars => OwnTasksOnly'
  BY OwnTasksStep
<1>3. IInv => StagesMatchCommands
  BY DEF IInv
<1>4. TypeOK /\ StagesMatchCommands /\ OwnTasksOnly /\ [Next]_vars
        => [\A t \in Tasks : OwnerActs(t)]_vars
  BY OwnersActStep
<1>5. QED
  BY <1>1, <1>2, <1>3, <1>4, TypeCorrect, InductiveInvariant, PTL
     DEF Spec, OwnersDecide
-----------------------------------------------------------------------------
(* TaskServlet implements Decision: every step of a page, of the servlet   *)
(* or of the platform is one step of the promise, or leaves it as it is.   *)

LEMMA DecisionInit == Init => Promise!Init
  BY DEF Init, Promise!Init, OutcomeAt, Told

(* The promise is about the processes and the reports only.                *)
LEMMA Quiet ==
  ASSUME UNCHANGED <<process, accepted>>
  PROVE  UNCHANGED Promise!vars
  BY DEF Promise!vars, Told

(* The outcomes as seen by the promise, when one process changes.          *)
LEMMA OneOutcome ==
  ASSUME TypeOK, NEW t \in Tasks, NEW state \in Processes,
         process' = [process EXCEPT ![t] = state]
  PROVE  [u \in Tasks |-> OutcomeAt(process'[u])]
           = [[u \in Tasks |-> OutcomeAt(process[u])] EXCEPT ![t] = OutcomeAt(state)]
  BY DEF TypeOK

(* The reports as seen by the promise, when one decision is reported.      *)
LEMMA OneReport ==
  ASSUME TypeOK, NEW t \in Tasks, NEW d \in Buttons,
         accepted' = [accepted EXCEPT ![t] = @ \cup {d}],
         d = "grant_clearance" => KindOf[t] = "clearance"
  PROVE  [u \in Tasks |-> Told(u)'] = [[u \in Tasks |-> Told(u)] EXCEPT ![t] = @ \cup {d}]
<1>1. \A u \in Tasks : Told(u)' = IF u = t THEN Told(u) \cup {d} ELSE Told(u)
  BY DEF Told, TypeOK
<1>2. QED
  BY <1>1

(* A decision the platform applies is one decision on an open task.        *)
LEMMA AppliedDecides ==
  ASSUME TypeOK, NEW p \in Pages, PlatformApplies(p)
  PROVE  /\ target[p] \in Tasks
         /\ cmd[p] \in {"approve", "reject"}
         /\ OutcomeAt(process[target[p]]) = "open"
         /\ [u \in Tasks |-> OutcomeAt(process'[u])]
              = [[u \in Tasks |-> OutcomeAt(process[u])]
                   EXCEPT ![target[p]] = Promise!Made(cmd[p])]
<1>1. target[p] \in Tasks /\ cmd[p] \in {"approve", "reject"}
  BY DEF PlatformApplies, TypeOK, Buttons
<1>2. OutcomeAt(process[target[p]]) = "open"
  BY DEF PlatformApplies, OutcomeAt
<1>3. OutcomeOf(cmd[p]) \in Processes
  BY <1>1 DEF OutcomeOf, Processes
<1>4. OutcomeAt(OutcomeOf(cmd[p])) = Promise!Made(cmd[p])
  BY <1>1 DEF OutcomeOf, OutcomeAt, Promise!Made
<1>5. QED
  BY <1>1, <1>2, <1>3, <1>4, OneOutcome DEF PlatformApplies

(* A request that stays untold leaves the reports as they are.             *)
LEMMA NoReport ==
  ASSUME UNCHANGED accepted
  PROVE  \A t \in Tasks : \A f :
           f = [u \in Tasks |-> Told(u)] =>
             [u \in Tasks |-> Told(u)'] = [f EXCEPT ![t] = @ \cup {}]
  BY DEF Told

LEMMA DecisionStep == TypeOK /\ IInv /\ [Next]_vars => [Promise!Next]_(Promise!vars)
<1> SUFFICES ASSUME TypeOK, IInv, [Next]_vars
             PROVE  Promise!Next \/ UNCHANGED Promise!vars
  OBVIOUS
<1>1. ASSUME NEW p \in Pages, User(p) PROVE UNCHANGED Promise!vars
  BY <1>1, Quiet DEF User, ClickRefresh, ClickRow, ClickSave, ClickDecision,
     ClickDelete, history
<1>2. ASSUME NEW p \in Pages,
             \/ DoesApproverExist(p) \/ CreateApprover(p)
             \/ \E ticked \in SUBSET DOMAIN ShowBox : GetTaskList(p, ticked)
             \/ OpenTask(p) \/ SaveTask(p)
             \/ \E ticked \in SUBSET DOMAIN DeleteBox : DeleteApprovedTasks(p, ticked)
             \/ UpdateTaskStatus(p) \/ GetTask(p) \/ AnswerError(p)
      PROVE  UNCHANGED Promise!vars
  BY <1>2, Quiet DEF DoesApproverExist, CreateApprover, GetTaskList, OpenTask,
     SaveTask, DeleteApprovedTasks, UpdateTaskStatus, GetTask, AnswerError, history
<1>3. ASSUME NEW p \in Pages, NotifyCTMGTrigger(p) PROVE Promise!Next
  <2>1. PlatformApplies(p)
    BY <1>3 DEF NotifyCTMGTrigger
  <2>2. [u \in Tasks |-> Told(u)'] =
          [[u \in Tasks |-> Told(u)] EXCEPT ![target[p]] = @ \cup {cmd[p]}]
    BY <1>3, <2>1, OneReport, AppliedDecides DEF NotifyCTMGTrigger, Buttons
  <2>3. Promise!Decide(target[p], cmd[p])
    BY <2>1, <2>2, AppliedDecides DEF Promise!Decide
  <2>4. target[p] \in Tasks /\ cmd[p] \in Promise!Decisions
    BY <2>1, AppliedDecides DEF Promise!Decisions
  <2>5. QED
    BY <2>3, <2>4 DEF Promise!Next
<1>4. ASSUME NEW p \in Pages, NotifyReplyLost(p) PROVE Promise!Next
  <2>1. PlatformApplies(p) /\ UNCHANGED accepted
    BY <1>4 DEF NotifyReplyLost
  <2>2. [u \in Tasks |-> Told(u)'] =
          [[u \in Tasks |-> Told(u)] EXCEPT ![target[p]] = @ \cup {}]
    BY <2>1, NoReport, AppliedDecides
  <2>3. Promise!Decide(target[p], cmd[p])
    BY <2>1, <2>2, AppliedDecides DEF Promise!Decide
  <2>4. target[p] \in Tasks /\ cmd[p] \in Promise!Decisions
    BY <2>1, AppliedDecides DEF Promise!Decisions
  <2>5. QED
    BY <2>3, <2>4 DEF Promise!Next
<1>5. ASSUME NEW p \in Pages, pc[p] = "notify" /\ cmd[p] = "grant_clearance",
             ControllerContinues(target[p]), UNCHANGED accepted
      PROVE  Promise!Next \/ UNCHANGED Promise!vars
  <2>1. target[p] \in Tasks
    BY <1>5 DEF TypeOK, Buttons
  <2>2. CASE process[target[p]] = "waiting"
    <3>1. process' = [process EXCEPT ![target[p]] = "finished"]
      BY <1>5, <2>2, <2>1 DEF ControllerContinues, TypeOK
    <3>2. OutcomeAt(process[target[p]]) = "open" /\ OutcomeAt("finished") = "continued"
      BY <2>2 DEF OutcomeAt
    <3>3. [u \in Tasks |-> OutcomeAt(process'[u])] =
            [[u \in Tasks |-> OutcomeAt(process[u])]
               EXCEPT ![target[p]] = Promise!Made("grant_clearance")]
      BY <2>1, <3>1, <3>2, OneOutcome DEF Processes, Promise!Made
    <3>4. [u \in Tasks |-> Told(u)'] =
            [[u \in Tasks |-> Told(u)] EXCEPT ![target[p]] = @ \cup {}]
      BY <1>5, <2>1, NoReport
    <3>5. Promise!Decide(target[p], "grant_clearance")
      BY <2>1, <3>2, <3>3, <3>4 DEF Promise!Decide
    <3>6. QED
      BY <2>1, <3>5 DEF Promise!Next, Promise!Decisions
  <2>3. CASE process[target[p]] # "waiting"
    <3>1. process' = process
      BY <1>5, <2>1, <2>3 DEF ControllerContinues, TypeOK
    <3>2. QED
      BY <1>5, <3>1, Quiet
  <2>4. QED
    BY <2>2, <2>3
<1>6. ASSUME NEW p \in Pages, UpdateClearance(p)
      PROVE  Promise!Next \/ UNCHANGED Promise!vars
  <2>1. target[p] \in Tasks /\ cmd[p] = "grant_clearance" /\ pc[p] = "write"
    BY <1>6 DEF UpdateClearance, IInv, StagesMatchCommands, TypeOK, Buttons
  <2>2. accepted' = [accepted EXCEPT ![target[p]] = @ \cup {"grant_clearance"}]
        /\ UNCHANGED process
    BY <1>6 DEF UpdateClearance
  <2>3. CASE KindOf[target[p]] = "clearance"
    <3>1. OutcomeAt(process[target[p]]) = Promise!Made("grant_clearance")
      BY <2>1, <2>3 DEF IInv, ClearancesContinue, OutcomeAt, Promise!Made
    <3>2. [u \in Tasks |-> Told(u)'] =
            [[u \in Tasks |-> Told(u)] EXCEPT ![target[p]] = @ \cup {"grant_clearance"}]
      BY <2>1, <2>2, <2>3, OneReport DEF Buttons
    <3>3. Promise!Report(target[p], "grant_clearance")
      BY <2>1, <2>2, <3>1, <3>2 DEF Promise!Report
    <3>4. QED
      BY <2>1, <3>3 DEF Promise!Next, Promise!Decisions
  <2>4. CASE KindOf[target[p]] # "clearance"
    <3>1. \A u \in Tasks : Told(u)' = Told(u)
      BY <2>1, <2>2, <2>4 DEF Told, TypeOK
    <3>2. QED
      BY <2>2, <3>1 DEF Promise!vars
  <2>5. QED
    BY <2>3, <2>4
<1>7. ASSUME NEW t \in Tasks, TaskArrives(t) PROVE Promise!Next
  <2>1. process[t] = "absent" /\ UNCHANGED accepted
    BY <1>7 DEF TaskArrives, IInv, KnownTasksArrived, history
  <2>2. FirstProcess(KindOf[t]) \in {"calling", "waiting", "running"}
    BY ConstantsAssumption DEF FirstProcess, Kinds
  <2>3. [u \in Tasks |-> OutcomeAt(process'[u])] =
          [[u \in Tasks |-> OutcomeAt(process[u])] EXCEPT ![t] = "open"]
    BY <1>7, <2>2, OneOutcome DEF TaskArrives, OutcomeAt, Processes, Undecided
  <2>4. Promise!Open(t)
    BY <2>1, <2>3 DEF Promise!Open, OutcomeAt, Told
  <2>5. QED
    BY <2>4 DEF Promise!Next
<1>8. ASSUME NEW t \in Tasks, HandlerReturns(t)
      PROVE  Promise!Next \/ UNCHANGED Promise!vars
  <2>1. UNCHANGED accepted /\ process[t] = "calling"
    BY <1>8 DEF HandlerReturns, history
  <2>2. CASE process' = [process EXCEPT ![t] = "suspended"]
    <3>1. \A u \in Tasks : OutcomeAt(process'[u]) = OutcomeAt(process[u])
      BY <2>1, <2>2 DEF OutcomeAt, TypeOK
    <3>2. QED
      BY <2>1, <3>1 DEF Promise!vars, Told
  <2>3. CASE process' = [process EXCEPT ![t] = "aborted"]
    <3>1. [u \in Tasks |-> OutcomeAt(process'[u])] =
            [[u \in Tasks |-> OutcomeAt(process[u])] EXCEPT ![t] = "void"]
      BY <2>3, OneOutcome DEF OutcomeAt, Processes, Undecided
    <3>2. Promise!Void(t)
      BY <2>1, <3>1 DEF Promise!Void, OutcomeAt, Told
    <3>3. QED
      BY <3>2 DEF Promise!Next
  <2>4. QED
    BY <1>8, <2>2, <2>3 DEF HandlerReturns
<1>9. ASSUME NEW t \in Tasks, RequestCancelled(t) PROVE Promise!Next
  <2>1. UNCHANGED accepted /\ process[t] = "suspended"
        /\ process' = [process EXCEPT ![t] = "cancelled"]
    BY <1>9 DEF RequestCancelled, history
  <2>2. [u \in Tasks |-> OutcomeAt(process'[u])] =
          [[u \in Tasks |-> OutcomeAt(process[u])] EXCEPT ![t] = "void"]
    BY <2>1, OneOutcome DEF OutcomeAt, Processes, Undecided
  <2>3. Promise!Void(t)
    BY <2>1, <2>2 DEF Promise!Void, OutcomeAt, Told
  <2>4. QED
    BY <2>3 DEF Promise!Next
<1>10. ASSUME Crash PROVE UNCHANGED Promise!vars
  BY <1>10, Quiet DEF Crash
<1>11. CASE UNCHANGED vars
  BY <1>11, Quiet DEF vars, history
<1>12. ASSUME NEW p \in Pages, ContinueManualStep(p) \/ ContinueReplyLost(p)
       PROVE  Promise!Next \/ UNCHANGED Promise!vars
  BY <1>5, <1>12 DEF ContinueManualStep, ContinueReplyLost, history
<1>13. ASSUME NEW o \in Orgs, ChainCreatesApprover(o) PROVE UNCHANGED Promise!vars
  BY <1>13, Quiet DEF ChainCreatesApprover, history
<1>14. QED
  BY <1>1, <1>2, <1>3, <1>4, <1>6, <1>7, <1>8, <1>9, <1>10, <1>11, <1>12,
     <1>13 DEF Next, Servlet

(* The servlet keeps the promise of the module Decision: no task is        *)
(* decided twice, no decision reversed, none reported that was not made,   *)
(* for any number of approvers, tasks and restarts.                        *)
THEOREM ServletImplementsDecision == Spec => ImplementsDecision
<1>1. QED
  BY DecisionInit, DecisionStep, TypeCorrect, InductiveInvariant, PTL
     DEF Spec, ImplementsDecision, Promise!Spec

(* Every step of the promise leaves a settled outcome alone.               *)
LEMMA PromiseFinal ==
  ASSUME Promise!Next \/ UNCHANGED Promise!vars,
         NEW t \in Tasks, OutcomeAt(process[t]) \notin {"none", "open"}
  PROVE  OutcomeAt(process'[t]) = OutcomeAt(process[t])
<1> DEFINE now == [u \in Tasks |-> OutcomeAt(process[u])]
           next == [u \in Tasks |-> OutcomeAt(process'[u])]
<1>1. now[t] = OutcomeAt(process[t]) /\ next[t] = OutcomeAt(process'[t])
  OBVIOUS
<1>2. DOMAIN now = Tasks /\ now[t] # "none" /\ now[t] # "open"
  OBVIOUS
<1>3. ASSUME NEW u \in Tasks, Promise!Open(u) PROVE next[t] = now[t]
  <2>1. now[u] = "none" /\ next = [now EXCEPT ![u] = "open"]
    BY <1>3 DEF Promise!Open
  <2> HIDE DEF now, next
  <2>2. u # t
    BY <1>2, <2>1
  <2> QED BY <1>2, <2>1, <2>2
<1>4. ASSUME NEW u \in Tasks, Promise!Void(u) PROVE next[t] = now[t]
  <2>1. now[u] = "open" /\ next = [now EXCEPT ![u] = "void"]
    BY <1>4 DEF Promise!Void
  <2> HIDE DEF now, next
  <2>2. u # t
    BY <1>2, <2>1
  <2> QED BY <1>2, <2>1, <2>2
<1>5. ASSUME NEW u \in Tasks, NEW d \in Promise!Decisions, Promise!Decide(u, d)
      PROVE  next[t] = now[t]
  <2>1. now[u] = "open" /\ next = [now EXCEPT ![u] = Promise!Made(d)]
    BY <1>5 DEF Promise!Decide
  <2> HIDE DEF now, next
  <2>2. u # t
    BY <1>2, <2>1
  <2> QED BY <1>2, <2>1, <2>2
<1>6. ASSUME NEW u \in Tasks, NEW d \in Promise!Decisions, Promise!Report(u, d)
      PROVE  next = now
  BY <1>6 DEF Promise!Report
<1>7. ASSUME UNCHANGED Promise!vars PROVE next = now
  BY <1>7 DEF Promise!vars
<1> HIDE DEF now, next
<1>8. next[t] = now[t]
  <2>1. ASSUME Promise!Next PROVE next[t] = now[t]
    <3>1. PICK u \in Tasks :
            \/ Promise!Open(u) \/ Promise!Void(u)
            \/ \E d \in Promise!Decisions : Promise!Decide(u, d) \/ Promise!Report(u, d)
      BY <2>1 DEF Promise!Next
    <3> QED BY <1>3, <1>4, <1>5, <1>6, <3>1
  <2> QED BY <1>7, <2>1
<1> QED BY <1>1, <1>8

(* What the platform or the controller has made of a task is not undone:   *)
(* of two approvers one decides, and nobody after that, be it with another *)
(* button, on another page, or on a request that was withdrawn             *)
(* (TaskServlet.notifyCTMGTrigger, ClearanceGranted.xml).                  *)
THEOREM DecisionsFinal == Spec => Promise!Final
<1>1. [Promise!Next]_(Promise!vars) => [Promise!KeepsSettled]_(Promise!vars)
  BY PromiseFinal DEF Promise!KeepsSettled
<1> QED BY <1>1, ServletImplementsDecision, PTL DEF ImplementsDecision, Promise!Spec, Promise!Final

(* An approver is told of a decision only if it is the one that was made.  *)
THEOREM ReportsFinal == Spec => []Promise!ReportsHold
<1>1. TypeOK /\ ReportedDecisionsHold => Promise!ReportsHold
  <2> SUFFICES ASSUME TypeOK, ReportedDecisionsHold, NEW t \in Tasks, NEW d \in Told(t)
               PROVE  d \in Promise!Decisions /\ OutcomeAt(process[t]) = Promise!Made(d)
    BY DEF Promise!ReportsHold
  <2>1. d \in accepted[t] /\ d \in Buttons /\ (d = "grant_clearance" => KindOf[t] = "clearance")
    BY DEF Told, TypeOK
  <2>2. CASE d = "approve"
    BY <2>1, <2>2 DEF ReportedDecisionsHold, OutcomeAt, Promise!Decisions, Promise!Made
  <2>3. CASE d = "reject"
    BY <2>1, <2>3 DEF ReportedDecisionsHold, OutcomeAt, Promise!Decisions, Promise!Made
  <2>4. CASE d = "grant_clearance"
    BY <2>1, <2>4 DEF ReportedDecisionsHold, OutcomeAt, Promise!Decisions, Promise!Made
  <2> QED BY <2>1, <2>2, <2>3, <2>4 DEF Buttons
<1> QED BY <1>1, TypeCorrect, ReportedDecisions, PTL
=============================================================================
