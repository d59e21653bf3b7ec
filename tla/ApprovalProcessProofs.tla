------------------------ MODULE ApprovalProcessProofs ------------------------
(* Proofs about ApprovalProcess: for any triggers, handlers, approvers,    *)
(* data and settings.  One lemma for each part of the invariant, each with *)
(* one step for every action of the module.                                *)
EXTENDS ApprovalProcess, TLAPS

USE DEF Goto, Return, Throw, InsertApprover, InsertApproverBy, Inserting

(* The types.                                                              *)
LEMMA TypeStep == IInv /\ [Next]_vars => TypeOK'
<1> SUFFICES ASSUME IInv, [Next]_vars PROVE TypeOK'
  OBVIOUS
<1> USE ConstantsAssumption DEF IInv
<1>1. ASSUME NEW g \in Triggers, Notify(g) PROVE TypeOK'
  BY <1>1 DEF TypeOK, Stages, Notify
<1>2. ASSUME NEW g \in Triggers, DoesCallerExist(g) PROVE TypeOK'
  BY <1>2 DEF TypeOK, Stages, DoesCallerExist
<1>3. ASSUME NEW g \in Triggers, CreateCaller(g) PROVE TypeOK'
  BY <1>3 DEF TypeOK, Stages, CreateCaller
<1>4. ASSUME NEW g \in Triggers, FetchData(g) PROVE TypeOK'
  BY <1>4 DEF TypeOK, Stages, FetchData
<1>5. ASSUME NEW g \in Triggers, StartApprovalProcess(g) PROVE TypeOK'
  BY <1>5 DEF TypeOK, Stages, StartApprovalProcess
<1>6. ASSUME NEW g \in Triggers, StartProcess(g) PROVE TypeOK'
  BY <1>6 DEF TypeOK, Stages, StartProcess
<1>7. ASSUME NEW g \in Triggers, NotifyApprover(g) PROVE TypeOK'
  BY <1>7 DEF TypeOK, Stages, NotifyApprover
<1>8. ASSUME NEW g \in Triggers, GetApproverTKey(g) PROVE TypeOK'
  BY <1>8 DEF TypeOK, Stages, GetApproverTKey
<1>9. ASSUME NEW g \in Triggers, CreateApprover(g) PROVE TypeOK'
  BY <1>9 DEF TypeOK, Stages, ChainOrder, CreateApprover
<1>10. ASSUME NEW g \in Triggers, CreateApprovalTask(g) PROVE TypeOK'
  BY <1>10 DEF TypeOK, Stages, ChainStatus, ChainKind, FirstStatus,
     CreateApprovalTask
<1>11. ASSUME NEW g \in Triggers, TaskTextBreaks(g) PROVE TypeOK'
  BY <1>11 DEF TypeOK, Stages, TaskTextBreaks
<1>12. ASSUME NEW g \in Triggers, Fail(g) PROVE TypeOK'
  BY <1>12 DEF TypeOK, Stages, Fail
<1>13. ASSUME NEW g \in Triggers, FailAfterEffect(g) PROVE TypeOK'
  BY <1>13 DEF TypeOK, Stages, ChainOrder, ChainStatus, ChainKind, FirstStatus,
     FailAfterEffect
<1>14. ASSUME NEW o \in Orgs, ServletCreatesApprover(o) PROVE TypeOK'
  BY <1>14 DEF TypeOK, Stages, ServletCreatesApprover
<1>15. CASE Crash
  BY <1>15 DEF TypeOK, Stages, Crash
<1>16. CASE UNCHANGED vars
  BY <1>16 DEF TypeOK, Stages, vars
<1> QED
  BY <1>1, <1>2, <1>3, <1>4, <1>5, <1>6, <1>7, <1>8, <1>9, <1>10, <1>11, <1>12,
  <1>13, <1>14, <1>15, <1>16 DEF Next, Handler

(* The chain goes mail, approver, task.                                    *)
LEMMA ChainStep == IInv /\ [Next]_vars => ChainOrder'
<1> SUFFICES ASSUME IInv, [Next]_vars PROVE ChainOrder'
  OBVIOUS
<1> USE ConstantsAssumption DEF IInv
<1>1. ASSUME NEW g \in Triggers, Notify(g) PROVE ChainOrder'
  BY <1>1 DEF TypeOK, ChainOrder, Handlers, NotificationHandlers, NoProcessHandlers,
     ServiceHandlers, ProcessHandlers, ServletCommands, Notify
<1>2. ASSUME NEW g \in Triggers, DoesCallerExist(g) PROVE ChainOrder'
  BY <1>2 DEF TypeOK, ChainOrder, DoesCallerExist
<1>3. ASSUME NEW g \in Triggers, CreateCaller(g) PROVE ChainOrder'
  BY <1>3 DEF TypeOK, ChainOrder, CreateCaller
<1>4. ASSUME NEW g \in Triggers, FetchData(g) PROVE ChainOrder'
  BY <1>4 DEF TypeOK, ChainOrder, FetchData
<1>5. ASSUME NEW g \in Triggers, StartApprovalProcess(g) PROVE ChainOrder'
  BY <1>5 DEF TypeOK, ChainOrder, StartApprovalProcess
<1>6. ASSUME NEW g \in Triggers, StartProcess(g) PROVE ChainOrder'
  BY <1>6 DEF TypeOK, ChainOrder, ServletCommands, ServiceHandlers, StartProcess
<1>7. ASSUME NEW g \in Triggers, NotifyApprover(g) PROVE ChainOrder'
  BY <1>7 DEF TypeOK, ChainOrder, NotifyApprover
<1>8. ASSUME NEW g \in Triggers, GetApproverTKey(g) PROVE ChainOrder'
  BY <1>8 DEF TypeOK, ChainOrder, GetApproverTKey
<1>9. ASSUME NEW g \in Triggers, CreateApprover(g) PROVE ChainOrder'
  BY <1>9 DEF TypeOK, ChainOrder, CreateApprover
<1>10. ASSUME NEW g \in Triggers, CreateApprovalTask(g) PROVE ChainOrder'
  BY <1>10 DEF TypeOK, ChainOrder, CreateApprovalTask
<1>11. ASSUME NEW g \in Triggers, TaskTextBreaks(g) PROVE ChainOrder'
  BY <1>11 DEF TypeOK, ChainOrder, TaskTextBreaks
<1>12. ASSUME NEW g \in Triggers, Fail(g) PROVE ChainOrder'
  BY <1>12 DEF TypeOK, ChainOrder, Fail
<1>13. ASSUME NEW g \in Triggers, FailAfterEffect(g) PROVE ChainOrder'
  BY <1>13 DEF TypeOK, ChainOrder, FailAfterEffect
<1>14. ASSUME NEW o \in Orgs, ServletCreatesApprover(o) PROVE ChainOrder'
  BY <1>14 DEF TypeOK, ChainOrder, ServletCreatesApprover
<1>15. CASE Crash
  BY <1>15 DEF TypeOK, ChainOrder, Crash
<1>16. CASE UNCHANGED vars
  BY <1>16 DEF TypeOK, ChainOrder, vars
<1> QED
  BY <1>1, <1>2, <1>3, <1>4, <1>5, <1>6, <1>7, <1>8, <1>9, <1>10, <1>11, <1>12,
  <1>13, <1>14, <1>15, <1>16 DEF Next, Handler

(* An answer without a fault stands for a task or a queued approval.       *)
LEMMA AcknowledgedStep == IInv /\ [Next]_vars => AcknowledgedIsPending'
<1> SUFFICES ASSUME IInv, [Next]_vars PROVE AcknowledgedIsPending'
  OBVIOUS
<1> USE ConstantsAssumption DEF IInv
<1>1. ASSUME NEW g \in Triggers, Notify(g) PROVE AcknowledgedIsPending'
  BY <1>1 DEF TypeOK, ChainOrder, AcknowledgedIsPending, ChainStatus, Notify
<1>2. ASSUME NEW g \in Triggers, DoesCallerExist(g) PROVE AcknowledgedIsPending'
  BY <1>2 DEF TypeOK, ChainOrder, AcknowledgedIsPending, ChainStatus,
     DoesCallerExist
<1>3. ASSUME NEW g \in Triggers, CreateCaller(g) PROVE AcknowledgedIsPending'
  BY <1>3 DEF TypeOK, ChainOrder, AcknowledgedIsPending, ChainStatus, CreateCaller
<1>4. ASSUME NEW g \in Triggers, FetchData(g) PROVE AcknowledgedIsPending'
  BY <1>4 DEF TypeOK, ChainOrder, AcknowledgedIsPending, ChainStatus, FetchData
<1>5. ASSUME NEW g \in Triggers, StartApprovalProcess(g)
      PROVE AcknowledgedIsPending'
  BY <1>5 DEF TypeOK, ChainOrder, AcknowledgedIsPending, ChainStatus,
     StartApprovalProcess
<1>6. ASSUME NEW g \in Triggers, StartProcess(g) PROVE AcknowledgedIsPending'
  BY <1>6 DEF TypeOK, ChainOrder, AcknowledgedIsPending, ChainStatus, StartProcess
<1>7. ASSUME NEW g \in Triggers, NotifyApprover(g) PROVE AcknowledgedIsPending'
  BY <1>7 DEF TypeOK, ChainOrder, AcknowledgedIsPending, ChainStatus, NotifyApprover
<1>8. ASSUME NEW g \in Triggers, GetApproverTKey(g) PROVE AcknowledgedIsPending'
  BY <1>8 DEF TypeOK, ChainOrder, AcknowledgedIsPending, ChainStatus,
     GetApproverTKey
<1>9. ASSUME NEW g \in Triggers, CreateApprover(g) PROVE AcknowledgedIsPending'
  BY <1>9 DEF TypeOK, ChainOrder, AcknowledgedIsPending, ChainStatus, CreateApprover
<1>10. ASSUME NEW g \in Triggers, CreateApprovalTask(g) PROVE AcknowledgedIsPending'
  BY <1>10 DEF TypeOK, ChainOrder, AcknowledgedIsPending, ChainStatus,
     CreateApprovalTask
<1>11. ASSUME NEW g \in Triggers, TaskTextBreaks(g) PROVE AcknowledgedIsPending'
  BY <1>11 DEF TypeOK, ChainOrder, AcknowledgedIsPending, ChainStatus,
     TaskTextBreaks
<1>12. ASSUME NEW g \in Triggers, Fail(g) PROVE AcknowledgedIsPending'
  BY <1>12 DEF TypeOK, ChainOrder, AcknowledgedIsPending, ChainStatus, Fail
<1>13. ASSUME NEW g \in Triggers, FailAfterEffect(g) PROVE AcknowledgedIsPending'
  BY <1>13 DEF TypeOK, ChainOrder, AcknowledgedIsPending, ChainStatus,
     FailAfterEffect
<1>14. ASSUME NEW o \in Orgs, ServletCreatesApprover(o) PROVE AcknowledgedIsPending'
  BY <1>14 DEF TypeOK, ChainOrder, AcknowledgedIsPending, ChainStatus,
     ServletCreatesApprover
<1>15. CASE Crash
  BY <1>15 DEF TypeOK, ChainOrder, AcknowledgedIsPending, ChainStatus, Crash
<1>16. CASE UNCHANGED vars
  BY <1>16 DEF TypeOK, ChainOrder, AcknowledgedIsPending, ChainStatus, vars
<1> QED
  BY <1>1, <1>2, <1>3, <1>4, <1>5, <1>6, <1>7, <1>8, <1>9, <1>10, <1>11, <1>12,
  <1>13, <1>14, <1>15, <1>16 DEF Next, Handler

(* A task comes after its mail and its approver, a mail before its task or *)
(* a fault.                                                                *)
LEMMA MailStep == IInv /\ [Next]_vars => MailThenTask'
<1> SUFFICES ASSUME IInv, [Next]_vars PROVE MailThenTask'
  OBVIOUS
<1> USE ConstantsAssumption DEF IInv
<1>1. ASSUME NEW g \in Triggers, Notify(g) PROVE MailThenTask'
  BY <1>1 DEF TypeOK, ChainOrder, MailThenTask, Notify
<1>2. ASSUME NEW g \in Triggers, DoesCallerExist(g) PROVE MailThenTask'
  BY <1>2 DEF TypeOK, ChainOrder, MailThenTask, DoesCallerExist
<1>3. ASSUME NEW g \in Triggers, CreateCaller(g) PROVE MailThenTask'
  BY <1>3 DEF TypeOK, ChainOrder, MailThenTask, CreateCaller
<1>4. ASSUME NEW g \in Triggers, FetchData(g) PROVE MailThenTask'
  BY <1>4 DEF TypeOK, ChainOrder, MailThenTask, FetchData
<1>5. ASSUME NEW g \in Triggers, StartApprovalProcess(g) PROVE MailThenTask'
  BY <1>5 DEF TypeOK, ChainOrder, MailThenTask, StartApprovalProcess
<1>6. ASSUME NEW g \in Triggers, StartProcess(g) PROVE MailThenTask'
  BY <1>6 DEF TypeOK, ChainOrder, MailThenTask, StartProcess
<1>7. ASSUME NEW g \in Triggers, NotifyApprover(g) PROVE MailThenTask'
  BY <1>7 DEF TypeOK, ChainOrder, MailThenTask, NotifyApprover
<1>8. ASSUME NEW g \in Triggers, GetApproverTKey(g) PROVE MailThenTask'
  BY <1>8 DEF TypeOK, ChainOrder, MailThenTask, GetApproverTKey
<1>9. ASSUME NEW g \in Triggers, CreateApprover(g) PROVE MailThenTask'
  BY <1>9 DEF TypeOK, ChainOrder, MailThenTask, CreateApprover
<1>10. ASSUME NEW g \in Triggers, CreateApprovalTask(g) PROVE MailThenTask'
  BY <1>10 DEF TypeOK, ChainOrder, MailThenTask, ChainStatus, ChainKind,
     FirstStatus, CreateApprovalTask
<1>11. ASSUME NEW g \in Triggers, TaskTextBreaks(g) PROVE MailThenTask'
  BY <1>11 DEF TypeOK, ChainOrder, MailThenTask, TaskTextBreaks
<1>12. ASSUME NEW g \in Triggers, Fail(g) PROVE MailThenTask'
  BY <1>12 DEF TypeOK, ChainOrder, MailThenTask, Fail
<1>13. ASSUME NEW g \in Triggers, FailAfterEffect(g) PROVE MailThenTask'
  BY <1>13 DEF TypeOK, ChainOrder, MailThenTask, ChainStatus, ChainKind,
     FirstStatus, FailAfterEffect
<1>14. ASSUME NEW o \in Orgs, ServletCreatesApprover(o) PROVE MailThenTask'
  BY <1>14 DEF TypeOK, ChainOrder, MailThenTask, ServletCreatesApprover
<1>15. CASE Crash
  BY <1>15 DEF TypeOK, ChainOrder, MailThenTask, Crash
<1>16. CASE UNCHANGED vars
  BY <1>16 DEF TypeOK, ChainOrder, MailThenTask, vars
<1> QED
  BY <1>1, <1>2, <1>3, <1>4, <1>5, <1>6, <1>7, <1>8, <1>9, <1>10, <1>11, <1>12,
  <1>13, <1>14, <1>15, <1>16 DEF Next, Handler

(* The faults of undisturbed calls.                                        *)
LEMMA FaultStep == IInv /\ [Next]_vars => FaultExplained'
<1> SUFFICES ASSUME IInv, [Next]_vars PROVE FaultExplained'
  OBVIOUS
<1> USE ConstantsAssumption DEF IInv
<1>1. ASSUME NEW g \in Triggers, Notify(g) PROVE FaultExplained'
  BY <1>1 DEF TypeOK, ChainOrder, FaultExplained, Notify
<1>2. ASSUME NEW g \in Triggers, DoesCallerExist(g) PROVE FaultExplained'
  BY <1>2 DEF TypeOK, ChainOrder, FaultExplained, DoesCallerExist
<1>3. ASSUME NEW g \in Triggers, CreateCaller(g) PROVE FaultExplained'
  BY <1>3 DEF TypeOK, ChainOrder, FaultExplained, CreateCaller
<1>4. ASSUME NEW g \in Triggers, FetchData(g) PROVE FaultExplained'
  BY <1>4 DEF TypeOK, ChainOrder, FaultExplained, FetchData
<1>5. ASSUME NEW g \in Triggers, StartApprovalProcess(g) PROVE FaultExplained'
  BY <1>5 DEF TypeOK, ChainOrder, FaultExplained, StartApprovalProcess
<1>6. ASSUME NEW g \in Triggers, StartProcess(g) PROVE FaultExplained'
  BY <1>6 DEF TypeOK, ChainOrder, FaultExplained, StartProcess
<1>7. ASSUME NEW g \in Triggers, NotifyApprover(g) PROVE FaultExplained'
  BY <1>7 DEF TypeOK, ChainOrder, FaultExplained, NotifyApprover
<1>8. ASSUME NEW g \in Triggers, GetApproverTKey(g) PROVE FaultExplained'
  BY <1>8 DEF TypeOK, ChainOrder, FaultExplained, GetApproverTKey
<1>9. ASSUME NEW g \in Triggers, CreateApprover(g) PROVE FaultExplained'
  BY <1>9 DEF TypeOK, ChainOrder, FaultExplained, CreateApprover
<1>10. ASSUME NEW g \in Triggers, CreateApprovalTask(g) PROVE FaultExplained'
  BY <1>10 DEF TypeOK, ChainOrder, FaultExplained, CreateApprovalTask
<1>11. ASSUME NEW g \in Triggers, TaskTextBreaks(g) PROVE FaultExplained'
  BY <1>11 DEF TypeOK, ChainOrder, FaultExplained, TaskTextBreaks
<1>12. ASSUME NEW g \in Triggers, Fail(g) PROVE FaultExplained'
  BY <1>12 DEF TypeOK, ChainOrder, FaultExplained, Fail
<1>13. ASSUME NEW g \in Triggers, FailAfterEffect(g) PROVE FaultExplained'
  BY <1>13 DEF TypeOK, ChainOrder, FaultExplained, FailAfterEffect
<1>14. ASSUME NEW o \in Orgs, ServletCreatesApprover(o) PROVE FaultExplained'
  BY <1>14 DEF TypeOK, ChainOrder, FaultExplained, ServletCreatesApprover
<1>15. CASE Crash
  BY <1>15 DEF TypeOK, ChainOrder, FaultExplained, Crash
<1>16. CASE UNCHANGED vars
  BY <1>16 DEF TypeOK, ChainOrder, FaultExplained, vars
<1> QED
  BY <1>1, <1>2, <1>3, <1>4, <1>5, <1>6, <1>7, <1>8, <1>9, <1>10, <1>11, <1>12,
  <1>13, <1>14, <1>15, <1>16 DEF Next, Handler

(* The initial state: nobody has called.                                   *)
LEMMA IInvInit == Init => IInv
  BY ConstantsAssumption
  DEF Init, IInv, TypeOK, Stages, ChainOrder, AcknowledgedIsPending, MailThenTask,
      FaultExplained

LEMMA IInvStep == IInv /\ [Next]_vars => IInv'
  BY TypeStep, ChainStep, AcknowledgedStep, MailStep, FaultStep DEF IInv

(* The inductive invariant holds, and with it the types.                   *)
THEOREM InductiveInvariant == Spec => []IInv
<1> QED BY IInvInit, IInvStep, PTL DEF Spec

(* Every variable keeps its type, and a call is over just when it has been *)
(* answered.                                                               *)
THEOREM TypeCorrect == Spec => []TypeOK
<1>1. IInv => TypeOK
  BY DEF IInv
<1> QED BY <1>1, InductiveInvariant, PTL

(* Every handler but onAddSupplier acknowledges only what it has put into  *)
(* the task list or handed to the executor (ApprovalNotificationService).  *)
THEOREM Acknowledged == Spec => []AcknowledgedIsPending
<1>1. IInv => AcknowledgedIsPending
  BY DEF IInv
<1> QED BY <1>1, InductiveInvariant, PTL

(* A task comes after the mail about it and belongs to the configured      *)
(* approver, whose row is there; a mail whose task never came goes with a  *)
(* fault (ApprovalRequest.xml, NotificationRequest.xml,                    *)
(* ClearanceRequest.xml).                                                  *)
THEOREM MailsAndTasks == Spec => []MailThenTask
<1>1. IInv => MailThenTask
  BY DEF IInv
<1> QED BY <1>1, InductiveInvariant, PTL

(* A call that nothing disturbed fails because of its own data, kind or    *)
(* configuration, or because another call inserted an approver row between *)
(* its check and its insert (TaskServlet.doService, ApprovalTask.java,     *)
(* ApprovalRequest.xml).                                                   *)
THEOREM Faults == Spec => []FaultExplained
<1>1. IInv => FaultExplained
  BY DEF IInv
<1> QED BY <1>1, InductiveInvariant, PTL
=============================================================================
