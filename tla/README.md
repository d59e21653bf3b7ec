# A TLA+ verification of the OSCM approval tool

The approval tool stands between the OSCM platform and the people who approve
what happens there. The platform calls it when a *trigger* fires (someone
subscribes to a service, say) and may keep the triggering *process* suspended
until somebody decides. The tool sends a mail, puts a *task* of an approver into
its database, shows the task list in a browser, and passes the approver's
decision on to the platform or, for a *clearance*, to the service controller.

Paths are relative to the repository; `A` stands for
`approval-impl/src/main/java/org/oscm/app/approval`, `R` for
`approval-impl/src/main/resources`, `C` for
`connector/src/main/java/org/oscm/app/connector`.

## The parts of the system

| Part | State | Operations | What makes it correct | Model |
|---|---|---|---|---|
| Task page, `webapp/index.jsp` | `selectedTask`, enabled buttons, table rows, the dialog shown | open, save, approve, reject, grant, delete, reload | a button acts on the task it was enabled for; success is said of what was done | `TaskServlet`, `Session` |
| Task servlet, `A/servlet` | none (one thread per request) | `tasklist`, `open`, `details`, `save`, `approve`, `reject`, `grant_clearance`, `delete`, `start_process` | what is reported as done is done; rows and processes agree | `TaskServlet`, `start_process` in `ApprovalProcess` |
| Data access, `A/database` | tables `task`, `approver` | one SQL statement per method, auto-commit | rows keep to the statuses of their kind and to their owner | `ApprovalStatus`, `TaskServlet` |
| Trigger handlers, `A/triggers` | none (one thread per call) | 20 operations of the platform's notification interface | an acknowledged call has left its task or its approval | `ApprovalProcess` |
| Activity chains, `R/*.xml`, `C` | the two tables, the mail | mail, find approver, insert approver, insert task; tell the controller, update the row | mail and task belong together; a task has its approver | `ApprovalProcess`, `TaskServlet` |
| Placeholders, `C/framework/Activity` | a local string | `replacePlaceholder` | every placeholder is expanded, and the loop ends | `Placeholder` |
| Automatic approval, `A/triggers/AutoApprovalThread` | the executor's queue | up to 5 calls of `approveAction` | nobody is forgotten before all attempts | `AutoApproval` |
| Web service client, `A/remote` | the result `rc`, shared by two threads | run a call in a thread, wait for its result | a result has been earned; a call ends | `BesClient` |
| Login, `A/auth`, `LoginServlet`, `ServiceBase` | session attribute `user` | log in, filter, redirect | a command runs for the user logged in | `Session` |
| Messages, `A/i18n` | the bundle shared by all threads | `setLocale`, `get` | one language per mail | `Messages` |
| Price texts, `A/util/PriceText` | none | `from` | | its exception in `ApprovalProcess` |
| Settings, `org/oscm/app/dataaccess` | read only | load settings | | constants of `ApprovalProcess` |
| `JsonResult`, `CTMGTriggerNotification`, beans, vendored scripts | | | | not modelled |

How they interact: the platform calls a handler and waits for it; the handler
calls the platform back for data, sends the mail and writes the tables. Pages
and chains share the tables only. A decision goes page, servlet, table,
platform, in this order. No statement is in a transaction with another one, and
nothing locks a row.

What is hard here: requests of different approvers interleave between any two
statements; the row is decided *before* the platform is asked, and never set
back; a call may take effect and its answer be lost; the mail goes out before
the task exists, and the task is in the list before the handler has answered;
the approver's row is inserted after a separate check; queued automatic
approvals live in memory; two fields (`rc`, the bundle) are shared between
threads without any synchronization; a session may end behind the filter.
`PROJECT.json` lists the hazards with their lines.

## The modules

* `ApprovalStatus` - the statuses, the kinds of task, what the tick boxes of the
  list and of the delete dialog select, which buttons a status enables.
* `TaskServlet` (`MCTaskServlet`, `TaskServletProofs`) - the approver's side.
* `Decision` - the abstract promise about a task, which `TaskServlet` implements
  (proved in `TaskServletProofs`).
* `ApprovalProcess` (`MCApprovalProcess`, `ApprovalProcessProofs`) - the
  platform's side: handlers and chains.
* `ApprovalSystem` (`MCApprovalSystem`, `ApprovalSystemProofs`) - both sides
  composed over one pair of tables.
* `AutoApproval` (`MCAutoApproval`, `AutoApprovalProofs`) - the executor.
* `BesClient` (`MCBesClient`, `BesClientProofs`) - one remote call, two threads.
* `Session` (`MCSession`, `SessionProofs`) - logins, the filter, the answers.
* `Messages` (`MCMessages`, `MessagesProofs`) - the shared bundle.
* `Placeholder` (`MCPlaceholder`, `PlaceholderProofs`) - the loop that completes
  mails and statements.

### TaskServlet

Variables by where they live: `status`, `comment`, `approvers` are the tables;
`process` is what the platform (or the controller) has made of each task;
`listed`, `selected`, `shown`, `buttons` are the page's table, `selectedTask`,
and the decision buttons with the task they were enabled for; `pc`, `cmd`,
`target`, `text` are the request of a page, how far the servlet is with it and
the comment it has at hand. `accepted`, `failed`, `misaimed` are history for the
properties: decisions answered with success, tasks with a decision request that
ended in an error, tasks decided with another task's buttons.

A page sends requests synchronously, so it has one at a time. A request takes
one step per SQL statement or remote call: `DoesApproverExist` and
`CreateApprover` (every request, `TaskServlet.doService`); then the command:
`GetTaskList`, `OpenTask`, `SaveTask`, `DeleteApprovedTasks`; or
`UpdateTaskStatus`, `GetTask`, `NotifyCTMGTrigger` for approve and reject; or
`GetTask`, `ContinueManualStep`, `UpdateClearance` for a clearance
(`ClearanceGranted.xml`). `AnswerError` ends a request at any stage: any
statement or call may throw, the servlet answers 500 and undoes nothing.
`NotifyReplyLost` and `ContinueReplyLost` are calls that take effect and fail.
`Crash` cuts off all requests; pages stay open. Where code follows a success
answer by `loadTaskList`, that is part of the action. Opening a row is
`ClickRow` (`selectedTask` set, request sent) and `OpenTask` (answer taken):
if the answer is an error, the script stops before it disables the old buttons.

The chains are two steps here, `ChainCreatesApprover` and `TaskArrives`, which
needs the approver's row. The task is in the list while the platform still waits
for the handler that inserted it: its process is `calling` until
`HandlerReturns`, with success (then it is suspended and can be decided) or
without (then the platform gives it up). The requesting user may withdraw a
suspended process, `RequestCancelled`, of which no task learns.

Abstractions: an error answer to a request for the list puts rows without a
key into the table; they lead nowhere and are left out. `cmd=details` fills the
details dialog of the page and changes no state of page or server. Column
`created`, names and descriptions are left out.

### Decision

A task's `outcome` opens once, is decided once, or is void; `reported` is what
approvers were told. `TaskServlet` maps `process` to `outcome` and `accepted` to
`reported` (`Promise`, at the end of the module): a call of the platform that
takes effect is `Decide`, with or without the author being told in the same
step, and the success answer of a clearance, which comes a statement after the
controller has continued, is `Report`. Everything else is a stutter, the row's
status included: the row is not part of what the tool can promise.

### ApprovalProcess

`stage` and `reply` are the progress of each call of the platform and its
answer; `mailed`, `row`, `owner`, `approvers`, `queued` what it has left behind.
Two variables are history: `disturbed` are the calls in which something outside
failed, `overtaken` those that looked for the row of an organization, found none,
and were not the first to insert it. The 20 operations fall into three groups:
without a process (`billingPerformed`, `onCancelAction`), with a service, with a
process only. `onAddSupplier` differs in that it swallows exceptions.

A clearance is asked for with the servlet's command `start_process`, which runs
`ClearanceRequest.xml` on the data posted; nothing in the repository posts it, the
service controllers do. It is a request like any other, so `doService` first sees
to the row of the organization that posts, `CallerOf` (`DoesCallerExist`,
`CreateCaller`), and may lose the race for it; only then `StartProcess` begins.
Its mail has a text of its own and needs no service data.

The stages follow the XML: mail, find, create, insert. `MailComplete` says
whether the mail can be put together: the built-in mails of the other two chains
name `service.name`, and only the `EmailWriter` of the approval chain reads the
settings, where a template that needs no service data may be (`PlainTemplate`).
To whom the mail goes is left out: the chains name a fixed address
(`ClearanceRequest.xml:27`, `NotificationRequest.xml:28`, `ApprovalRequest.xml:25`),
the last together with one setting of the whole application
(`EmailWriter.java:117-119`), and none of them depends on the approver. So what
the module says of mails is when they are sent, never to whom.

What a call fails for with nothing else going wrong is in the constants: no
process, no configured approver (`NoOrg`), and `FlawsOf`, the flaws of its data:
`AUTO_APPROVE_TRIGGER` without a value (`ApprovalTask.java:161`), a description
that cannot be read back or a price in it that is no number (`PriceText`), a text
with a placeholder the mail cannot replace, a text that breaks the insert
statement (`TaskTextBreaks`). Text for which the mail's loop never ends is the
subject of `Placeholder` and not a flaw here. `StartFails` says which of them bite
before the chain, and in which branch. `Fail` throws before an activity's effect,
`FailAfterEffect` after it. The task page creates approver rows too
(`ServletCreatesApprover`).

### ApprovalSystem

`TaskServlet` extended by an instance `Chain` of `ApprovalProcess`, in which a
trigger and the task it leads to have the same name and `approvers` and
`crashes` are shared. `CallStep` is a step of a call that writes no task,
`InsertTask` writes `row` and `status` at once, `PlatformHears` hands the
handler's reply to the process, `PageStep` is a page or a request, and
`Chain!ServletCreatesApprover` where it inserts an approver, and one `Restart`
cuts off both sides. What each component assumed of the other is gone:
`TaskArrives`, `HandlerReturns`, `ChainCreatesApprover` and
`ServletCreatesApprover` are no actions of this module but what the other side
really does.

### AutoApproval

`queue` is the executor's queue with the running thread first, `i` its loop
counter, `call` whether the running call has hung; `process` is the platform's,
which is suspended only once the handler has returned; `tries` and `lost` are
history. An attempt succeeds, succeeds with a lost reply, fails, or never comes
back (`AttemptHangs`), for the reasons that `BesClient` shows.

### BesClient

`caller` and `thread` are the two threads of a call, `rc` the field between
them, `served` and `struck` (history) what the platform did and which threads an
`Error` has ended. A read of `rc` that still returns null changes nothing, so
the loop is the one action `GetResult`. `Commands` are the calls whose `execute`
returns `RC_OK`; others return the platform's answer, which may be null.

### Session

`user` is the session attribute of each browser, `login` a login the platform
is being asked about; `pc`, `cmd`, `approver`, `message` are a page's request,
the local variable of `handleServiceCall` and the dialog the page shows;
`accepted`, `done`, `raced` are history. `SessionEnds` and a login in another
tab may come between any two steps. The filter and the servlet each look at the
session. Answers are told apart the way the scripts do: an empty text is a
success, JSON is data or an error, the login form makes `parseJSON` throw.

### Messages

`installed` is the sequence of bundles the static field has held. A thread may
read any of them that is not older than one it has already seen (`oldest`), for
the field is not volatile; `own` is the bundle it has set itself. A trigger's
call sets the locale and then takes texts; opening a task takes the texts of the
price first and then sets the locale, for the task's requesting user; listing
tasks takes texts only. A null locale is caught and changes nothing.

### Placeholder

A string is a sequence of tokens. `Replace` is one round of the loop: the first
`$(`, the text up to the next `)`, its value, and the rest, all of which is
scanned again. `Needed` are the keys a template leads to by way of the data,
`WellFormed` says that the template and their values are put together of whole
placeholders. `Expansion` is the reference for a completed text: a recursive
function which expands each value by itself and never scans across a seam; its
domain, `Texts`, are the strings put together from needed keys. `Rounds` is the
reference for how long it takes: a round for each placeholder, and those of its
value.

## Runs

| Run | Instance | Question |
|---|---|---|
| `approvals` | 2 pages of one organization, 1 approval task, 2 comments, 1 restart | can two approvers be told success for different outcomes; do row and process agree; does a request ever run without its organization's approver row; is `Decision` implemented |
| `clearances` | 2 pages of one organization with a clearance and a notification, a task of another organization | is a clearance ever granted in the table only; do the buttons keep the kinds apart; does anyone change another's task; is `Decision` implemented |
| `chains` | 6 calls, one per sort of ending, one approver, a template without service data, 1 restart | do mail and task belong together, what is acknowledged, is there a fault with no reason of its own and no lost race for the row of the approver or of the caller |
| `system` | an approval and a clearance, 1 approver, 1 page, 1 restart | is a suspended process ever without a task someone can decide; is one decided that the platform never suspended; do the buttons keep the kinds apart; do the chains do what `TaskServlet` takes them to do |
| `executor` | 3 triggers, 5 attempts, 1 restart | attempts, order, places in the queue, progress |
| `calls` | a command and a query | does a call return what was not served, not return, or wait for nothing |
| `logins` | 1 browser, 2 pages, 2 users | who does a command run for; what does an ended session look like |
| `texts` | 4 threads, 3 bundles, 2 texts each | where does a text in another language come from |
| `mails` | 10 templates, 12 sorts of values of 2 keys | the completed text, the failures, the rounds and the end of the loop |
| `approved_text` | 1 approval task | violated: "The request is approved" |
| `saved_comment` | 2 pages, 1 clearance, 2 comments | violated: "The task comment has been saved." |
| `no_process` | the 2 operations without a process | violated: the constructor made for them |

Bounds. A race needs two requests on one row: two pages and one task have all
of them (a third page repeats one of the two roles); the pages are symmetric
where they belong to one organization. Two comments tell a lost one from a kept
one. Confusion of kinds happens
between two tasks of one page: `system` has an approval and a clearance,
`clearances` a clearance and a notification. The other organization's task in
`clearances` is there to be left alone. `MaxCrashes` bounds restarts; a request
cut off twice is cut off once. The chains meet only in `approvers`, so two of
one approver already race; `chains` has an approval, a notification and the caller
of a clearance after the same row. Its other calls end in ways of their own, or
carry a flaw that does not matter to them; those without a process are called in
`no_process`. No run calls `onAddSupplier`, which differs in its answer only and
which `AcknowledgedIsPending`, `MailThenTask` and `NobodyForgotten` have to
exclude; the proofs cover it. Three triggers have
a first, a next and a last one in the queue; `MAX_ATTEMPTS` is the code's. In
`system` the races between pages are those of `approvals`; what is new is
between a chain and a page, and one page has them. The calls of
`BesClient` share nothing, nor do browsers, so one of each sort is all there is
to see. Four threads with `MaxTexts` = 2 have a text before and one after each
replacement of the bundle. Two keys make the shortest circle that is not a loop;
`MaxLength` = 18 cuts off strings that grow for ever and is longer than any
expansion the run's acyclic data have.
All properties of these runs but the liveness properties `QueueMoves`,
`CallsEnd` and `Ends` are proved without these bounds.

The three violated properties are what the repository's texts say and the code
does not do:

* `ApprovedMeansApproved`: `executePost` writes `APPROVED` first
  (`A/servlet/TaskServlet.java:100`) and leaves it when the platform refuses;
  the list then shows `messages.properties:69`.
* `SavedCommentStays`: `R/ClearanceGranted.xml:32` writes back the comment read
  earlier, over one saved since (`messages.properties:35`).
* `NoProcessTriggersServed`: `A/triggers/ApprovalTask.java:183` dereferences
  the process that the constructor of line 71 leaves null.

`CHECK_DEADLOCK FALSE` is set where a finite job is done and the model stops:
each trigger of `ApprovalProcess` and `AutoApproval` and each call of `BesClient`
comes once, each thread of `Messages` has one job, `Placeholder` is one call.

Fairness. The users, the platform and the network owe nothing. Three modules
state weak fairness of a thread the code has started and nothing else stops:

* `AutoApproval`: the pool's thread, whose steps are a remote call that returns
  or throws and a sleep that ends. A call that hangs is not one of them, and
  `QueueMoves` excludes it.
* `BesClient`: the thread of the call, except while the platform has it waiting;
  and the caller's loop, which reads the new value in the end. The language does
  not promise that for a plain field, but the loop calls `Thread.yield`, a
  native method over which the compiler keeps no field in a register.
* `Placeholder`: the loop runs on.

## What the properties say, and their limits

* `ReportedDecisionsHold`: success is shown only of what the platform has done;
  since a process is decided once, two approvers are never told opposite
  successes although no status is checked. It does not say the *row* shows the
  outcome: a later, refused decision overwrites it.
* `ImplementsDecision`: the same as a refinement, with the order of events: no
  decision of a process the platform has not yet suspended, none after one, no
  report before.
* `DecisionsReachPlatform`: row and process agree unless a decision request is
  under way or one has failed. The exceptions are needed: after an error the two
  may differ for good, as `approved_text` shows.
* `KindRespected` excludes tasks decided with the buttons of another task, which
  really happens after a failed request to open a row.
* `AcknowledgedIsPending` excludes `onAddSupplier`, and queued approvals after a
  restart.
* `MailThenTask`: no task without a mail before it, no success without a task
  where a mail went out. It allows a mail without a task, which really happens, as
  long as the platform is told of a fault. It does not say that anybody in
  particular was told, since the addresses do not depend on the approver.
* `FaultExplained`: an undisturbed call fails before its mail for want of a
  process, for its data or for want of service data for the mail; after it, for
  want of a configured approver or for a text that breaks the statement; or
  because it was overtaken at the row of the approver, or, before the mail and
  for `start_process` only, at the row of its caller.
* `NobodyForgotten`: a suspended process has an open task, whose approver is in
  the table, and the mail about it is out. It excludes `onAddSupplier` and a
  decision under way or failed.
* `GrantedMeansContinued` is about the order of controller and row. A clearance
  left open after a lost answer can be granted again; the controller then hears
  of it twice, which this property allows.
* `DecidedWasAcknowledged`: a task left behind by a call that failed after its
  insert can be clicked, but no success is shown for it.
* `ForgottenAfterAllAttempts`, `InTurn`: the counter of attempts is the thread's
  own, whatever happens to the triggers before it. Giving up after the last
  attempt is what the code does, and all attempts may be spent before the platform
  has suspended the process: the property describes this and does not forbid it.
* `QueueAdvances`: a waiting trigger never falls back in the queue, and each
  attempt that returns brings it nearer to its end, by a place or by an attempt
  of the one in front. It is what `QueueMoves` rests on, and does not need its
  fairness.
* `ApproverRowsExist`: of two first requests of an organization one fails on the
  UNIQUE constraint, but neither goes on without the row. That matters because
  the statements select its key in a subquery, and would find no task at all.
* `OwnersDecide` is about pages that keep their user: `OrgOf` fixes the user's
  organization for each page of `TaskServlet`. What a login in another tab does
  to an old page is in `Session`.
* `WaitingHasReason` is the safety half of `CallsEnd`: whoever spins on `rc` has
  a thread at work, a value to read, or is left there by one of two causes.
* `CallsEnd` names the two cases in which the code itself waits for ever: an
  `Error` in the thread, and a query that is answered with null. A command,
  which returns `RC_OK`, has only the first. That the caller sees a new `rc` at
  all is assumed (see Fairness), not checked.
* `NullUserExplained`: the servlet does not check for a null user and need not,
  but for the moment between the filter's look and its own. `Authenticated` says
  a command runs for someone accepted in that session, not for the one who
  opened the page: after a login in another tab an old page acts for the new user.
* `ForeignTextExplained`: `setLocale` protects a mail from the languages of the
  users before, not from those of calls and requests that set theirs meanwhile;
  a user without a locale is promised nothing.
* `DoneIsExpanded` and `FailureExplained` are about texts whose placeholders are
  whole; `Ends` is about all of them. Circular data never ends, and user data
  may be circular: a name that contains its own key does it. `NoneCircular` is
  what the loop owes in this case: it never stops half way with a result.
  `DoneIsExpanded` needs no condition on circles, for where the loop is done there
  are none.
* `RoundsFall` is what `Ends` rests on for whole texts with all keys there and no
  circle: each round leaves one fewer to make, of a number (`RoundsLeftCounted`).
  `Ends` itself needs that the loop runs on, and is about broken texts as well.

## Proofs

Each `...Proofs` module extends its component and proves its invariants for all
values of the constants, from the named assumption `ConstantsAssumption` (in
`BesClient` `CommandsAssumption`, in `ApprovalSystem` `SystemAssumption` as
well): functions have their domains and ranges, `NoTask` is no task, `NoOrg` no
organization, bounds are natural numbers, at least one attempt, finitely many
keys in the data of a trigger.

`TaskServletProofs`. The properties are not inductive. `IInv` adds: stages fit
commands; pages know only tasks that have arrived; enabled buttons and the
requests they send fit the kind of their task; a row waiting for approval has a
process nobody has decided and no request that has written a decision
(`WaitingIsUndecided`); a decided row has its outcome or the request about to
make it (`DecisionsHaveOwners`); a controller has continued before a clearance
is written (`ClearancesContinue`). One lemma per part shows that a step keeps
it, with one proof step per action. `OwnersDecide` is an action property and
follows from `OwnTasksOnly`, that pages know only their own organization's tasks.

`ApproverRowsExist` is inductive with the stages and the tasks' arrival.

The refinement is in the same module. With `IInv`, every step of `TaskServlet`
is a step of `Decision` or changes neither `process` nor `accepted`; the lemmas
`OneOutcome`, `OneReport` and `AppliedDecides` say how a changed entry reads
under the mapping. What the promise is worth is proved of it too:
`DecisionsFinal` (a settled outcome never changes) from the steps of `Decision`
alone, `ReportsFinal` (what is reported is what was made) from
`ReportedDecisions`.

`ApprovalProcessProofs`. `IInv` adds `ChainOrder`: each stage of a chain has what
the stages before it leave, and a call about to insert a row that is there already
is among the `overtaken`, whoever inserted it. `FaultExplained` rests on the
latter: it is why a failing insert has another call or a page behind it.

`ApprovalSystemProofs` is compositional. `ChainInv`, kept by every step of
`ApprovalProcess` (its proof is repeated for the instance in `ChainStep`), and
`SidesAgree`, which ties `row` and `reply` to `status` and `process`, show that
each step of the system is a step of `TaskServlet`, or nothing to it
(`SystemStepsServlet`). So the system implements `TaskServlet`, with the real
chains in place of what it assumes of them (`SystemRunsServlet`), and what is
proved of it carries over (`ServletKeepsItsPromises`, `SystemKindsRespected`). For
the chains the system is composed of their own actions, so `SystemStepsChain` is
only the lemma through which their invariants hold here
(`ChainsKeepTheirPromises`). `NobodyForgotten` and `DecidedWasAcknowledged`
follow from both sides' invariants together.

`AutoApprovalProofs`. `IInv` says that the first trigger of the queue has had
`i - 1` attempts and the others none, and that a trigger called for is queued,
lost or out of attempts. `LeaveKeeps` and `RetryKeeps` are the two ways an
attempt ends; `AppendIndices` and `TailIndices` are the facts on sequences.
`NobodyPutBack` uses that no trigger is queued twice: its place can be told from
the trigger, and moves by one when the first one leaves (`AttemptMoves`).

`BesClientProofs`. `IInv`: a thread writes `rc` once, as its last step, and a
result only after the platform has served the call; so it does not matter when
the caller's reads become fresh. A thread that ends with nothing stored was
struck by an Error or had a query's answer without data to store, which gives
`WaitingHasReason`.

`SessionProofs`. `IInv` adds that a session's user was accepted in it, and that
behind the filter there is a user unless the session has ended since.

`MessagesProofs`. `IInv` adds that a thread's own bundle is where it was
installed, and never newer than the oldest it may still read.

`PlaceholderProofs` is about every set of keys, all data and all templates, strings
of any length. `Cut` says what a round of the loop sees of a whole text: what
comes before the first `$(` holds no `$`, behind it comes one key, then `)`, then
a whole text again. `Round` concludes that a round puts in the value of one
needed key and leaves a whole text. `IInv` keeps, for a `WellFormed` template,
that the text is whole, uses only needed keys, and still leads to every needed
key that is missing: so a key that is missing is met in the end, and no other
failure is. The set of needed keys is a closure, the intersection of all closed
sets (`UsedFromContains`, `UsedFromClosed`, `UsedFromUnfold`), which needs no
induction. What a
text expands to is given by three rules (`Closed`: the empty text; a character
before a text; a placeholder before a text, with what its value expands to), and
`ExpandsTo` is the least relation that obeys them. Again no induction is needed:
whatever is to hold of all expansions is shown by a closed relation that has it
(`Least`). So a text has at most one expansion (`Unique`), expansions are put
together (`Together`) and taken apart (`Apart`) where texts are, and the keys
needed by a text that expands are there, expand, and do not lead back to
themselves (`NeededSound`). The invariant `Kept` says that what is left in the
loop expands to nothing but what the template does: a round takes the expansion
apart at the text put in and puts it together again with the placeholder
(`RoundKeeps`). When the loop is done the text holds no `$` and expands to
itself, hence so does the template. `NoneCircular` follows from `NeededSound`.
For `DoneIsExpanded` the recursion of `Expansion` must be shown to have a
solution: what each of the `Texts` expands to is one (`ExpansionUnfolds`), and any
solution agrees with the rules (`ExpansionIsLeast`).

For `RoundsFall` the rounds are counted by the same three rules (`Takes`), with
the same lemmas about them (`CountUnique`, `CountTogether`). That a text which can
be completed has a number of rounds is shown for its keys first
(`CompletableExpands`): of the needed keys that had no expansion, take one that
leads to as few keys as possible; those its value uses lead to fewer, so they
have expansions, and it has one too. Here the keys have to be finitely many. A
round then takes one placeholder away and puts its value's rounds in their place
(`RoundTakesOne`).

Only model-checked:

* liveness (`QueueMoves`, `CallsEnd`, `Ends`), which is beyond the proof system;
  the safety halves `QueueAdvances`, `WaitingHasReason` and `RoundsFall` are proved;
* the three violations.

## Not modelled

* `JsonResult` passes each call to Jackson's generator, which keeps the document
  well-formed; it has no control of its own.
* `CTMGTriggerNotification` is an activity no chain is wired to.
* The JSON beans, `JSONMapper`, `SpringBeanSupport`, interfaces and exceptions:
  data, names and a library call.
* The vendored `jquery-1.10.2.js`: third-party code, of which the page uses
  selectors, dialogs and `parseJSON`; what the page relies on is that `parseJSON`
  throws on what is no JSON. It is the repository's only file of plain
  JavaScript; the page's own script is in `index.jsp`.
* Which of several prices `PriceText` names, and how: formatting. That it throws is
  the flaw `unreadable` of `ApprovalProcess`.
* The recipients of the mails (see `ApprovalProcess`).
* `AutoApprovalThread` leaves its loop when its sleep is interrupted (lines 53-56);
  nothing in the repository interrupts a thread of the pool.
* The layout of pages and mails, SQL text, the rendering of the details.
