----------------------------- MODULE AutoApproval -----------------------------
(***************************************************************************)
(* Automatic approval: a handler hands an AutoApprovalThread to the        *)
(* executor of ApprovalTask, a pool of one thread with an unbounded queue  *)
(* in memory, and returns; the thread calls approveAction until the        *)
(* platform accepts it, at most MAX_ATTEMPTS times.  The platform suspends *)
(* the process only when the handler has returned, so an early attempt is  *)
(* refused.                                                                *)
(***************************************************************************)
EXTENDS Naturals, Sequences

CONSTANTS Triggers,      \* suspending triggers of services to approve at once
          MAX_ATTEMPTS,  \* 5 in the code
          MaxCrashes     \* bound on the restarts of the application server

ASSUME ConstantsAssumption ==
  /\ MAX_ATTEMPTS \in Nat \ {0}
  /\ MaxCrashes \in Nat

VARIABLES
  process,  \* [Triggers -> Processes]: the process at the platform
  queue,    \* Seq(Triggers): submitted threads; the first one is running
  i,        \* the loop counter of the running thread
  tries,    \* [Triggers -> Nat], history: attempts that ended
  lost,     \* history: triggers whose thread was lost in a restart
  call,     \* whether the call of the running thread comes back
  crashes   \* restarts so far

vars == <<process, queue, i, tries, lost, call, crashes>>

(* calling: the platform waits for the handler; aborted: it gave up.       *)
Processes == {"absent", "calling", "suspended", "approved", "cancelled", "aborted"}

Waiting(g) == \E n \in DOMAIN queue : queue[n] = g

TypeOK ==
  /\ process \in [Triggers -> Processes]
  /\ queue \in Seq(Triggers)
  /\ i \in 1..MAX_ATTEMPTS
  /\ tries \in [Triggers -> 0..MAX_ATTEMPTS]
  /\ lost \in SUBSET Triggers
  /\ call \in {"live", "hung"}
  /\ crashes \in 0..MaxCrashes

Init ==
  /\ process = [g \in Triggers |-> "absent"]
  /\ queue = <<>>
  /\ i = 1
  /\ tries = [g \in Triggers |-> 0]
  /\ lost = {}
  /\ call = "live"
  /\ crashes = 0

-----------------------------------------------------------------------------
(* The handler gets as far as executor.submit ...                          *)
Submit(g) ==
  /\ process[g] = "absent"
  /\ process' = [process EXCEPT ![g] = "calling"]
  /\ queue' = Append(queue, g)
  /\ UNCHANGED <<i, tries, lost, call, crashes>>

(* ... and returns, so that the platform suspends the process.             *)
HandlerReturns(g) ==
  /\ process[g] = "calling"
  /\ process' = [process EXCEPT ![g] = "suspended"]
  /\ UNCHANGED <<queue, i, tries, lost, call, crashes>>

(* The requesting user withdraws the request.                              *)
RequestCancelled(g) ==
  /\ process[g] = "suspended"
  /\ process' = [process EXCEPT ![g] = "cancelled"]
  /\ UNCHANGED <<queue, i, tries, lost, call, crashes>>

-----------------------------------------------------------------------------
(* Slip: the counter belongs to the pool, not to the thread.               *)
LeaveWithoutReset ==
  /\ queue' = Tail(queue)
  /\ UNCHANGED i

(* run() leaves its loop: the pool takes the next thread, whose own loop   *)
(* begins.                                                                 *)
Leave ==
  /\ queue' = Tail(queue)
  /\ i' = 1

Count == tries' = [tries EXCEPT ![Head(queue)] = @ + 1]

(* Slips: one attempt too many, one too few.                               *)
NextAttemptTooMany == IF i <= MAX_ATTEMPTS THEN i' = i + 1 /\ UNCHANGED queue ELSE Leave

NextAttemptTooFew == IF i + 1 < MAX_ATTEMPTS THEN i' = i + 1 /\ UNCHANGED queue ELSE Leave

(* catch: sleep, and try again unless it was the last attempt.  An         *)
(* interrupted sleep would leave the loop; nothing interrupts this thread. *)
NextAttempt == IF i < MAX_ATTEMPTS THEN i' = i + 1 /\ UNCHANGED queue ELSE Leave

(* A thread is running, and not stuck in an earlier call.                  *)
Attempting == queue # <<>> /\ call = "live"

(* approveAction: the platform resumes the suspended process.              *)
PlatformApproves ==
  /\ process[Head(queue)] = "suspended"
  /\ process' = [process EXCEPT ![Head(queue)] = "approved"]

Approve ==
  /\ Attempting
  /\ PlatformApproves
  /\ Count
  /\ Leave
  /\ UNCHANGED <<lost, call, crashes>>

ApproveReplyLost ==
  /\ Attempting
  /\ PlatformApproves
  /\ Count
  /\ NextAttempt
  /\ UNCHANGED <<lost, call, crashes>>

(* Slip: the loop waits for the platform to accept, however long.          *)
AttemptFailsForever ==
  /\ Attempting
  /\ i' = IF i < MAX_ATTEMPTS THEN i + 1 ELSE i
  /\ UNCHANGED <<process, queue, tries, lost, call, crashes>>

(* Slip: a failed attempt is repeated by submitting the thread once more.  *)
AttemptFailsToTheEnd ==
  /\ Attempting
  /\ Count
  /\ IF i < MAX_ATTEMPTS
     THEN i' = i + 1 /\ queue' = Append(Tail(queue), Head(queue))
     ELSE Leave
  /\ UNCHANGED <<process, lost, call, crashes>>

(* The call is refused, or does not reach the platform.                    *)
AttemptFails ==
  /\ Attempting
  /\ Count
  /\ NextAttempt
  /\ UNCHANGED <<process, lost, call, crashes>>

(* The call does not come back: the platform never answers, or an Error    *)
(* ends the thread that makes it (see the module BesClient).  It may still *)
(* be served.                                                              *)
AttemptHangs ==
  /\ Attempting
  /\ call' = "hung"
  /\ UNCHANGED <<process, queue, i, tries, lost, crashes>>

HungCallServed ==
  /\ call = "hung"
  /\ PlatformApproves
  /\ UNCHANGED <<queue, i, tries, lost, call, crashes>>

(* The application server restarts.                                        *)
Crash ==
  /\ crashes < MaxCrashes
  /\ crashes' = crashes + 1
  /\ lost' = lost \cup {g \in Triggers : Waiting(g)}
  /\ process' = [g \in Triggers |-> IF process[g] = "calling" THEN "aborted" ELSE process[g]]
  /\ queue' = <<>>
  /\ i' = 1
  /\ call' = "live"
  /\ UNCHANGED tries

Executor == Approve \/ ApproveReplyLost \/ AttemptFails

Next ==
  \/ \E g \in Triggers : Submit(g) \/ HandlerReturns(g) \/ RequestCancelled(g)
  \/ Executor \/ AttemptHangs \/ HungCallServed
  \/ Crash

(* The pool's thread runs: a call that does not hang returns or throws, a  *)
(* sleep ends.                                                             *)
Spec == Init /\ [][Next]_vars /\ WF_vars(Executor)

-----------------------------------------------------------------------------
(* A process is left suspended by all but the platform only after every    *)
(* attempt has been made for it, or in a restart.  The attempts one thread *)
(* uses up, or those of another trigger, take nothing from the next ones.  *)
ForgottenAfterAllAttempts ==
  \A g \in Triggers :
    process[g] = "suspended" /\ ~Waiting(g) /\ g \notin lost => tries[g] = MAX_ATTEMPTS

(* A trigger is queued at most once, and nothing is attempted for it       *)
(* before the triggers submitted earlier have been settled: the counter is *)
(* that of the first one.                                                  *)
InTurn ==
  /\ \A m, n \in DOMAIN queue : queue[m] = queue[n] => m = n
  /\ \A n \in DOMAIN queue : tries[queue[n]] = IF n = 1 THEN i - 1 ELSE 0

(* What keeps both up: a trigger not submitted yet has no thread, and one  *)
(* whose handler has not returned is not forgotten either.                 *)
IInv ==
  /\ TypeOK
  /\ \A g \in Triggers : process[g] = "absent" => tries[g] = 0 /\ ~Waiting(g)
  /\ \A g \in Triggers :
       /\ process[g] \in {"calling", "suspended"}
       /\ ~Waiting(g)
       /\ g \notin lost
       => tries[g] = MAX_ATTEMPTS
  /\ queue = <<>> => i = 1 /\ call = "live"
  /\ InTurn

(* Nobody is put back: from step to step a waiting thread keeps its place  *)
(* in the queue or gets a better one, whatever is submitted behind it, and *)
(* every attempt brings it nearer to its end, by a place or by one of the  *)
(* attempts of the thread in front.  This is the measure of QueueMoves     *)
(* (ApprovalTask.executor, AutoApprovalThread.run).                        *)
QueueAdvances ==
  [][\A m \in DOMAIN queue, n \in DOMAIN queue' : queue'[n] = queue[m] =>
       n < m \/ (n = m /\ IF Executor THEN i' > i ELSE i' = i)]_vars

(* Every submitted trigger is settled in the end, whatever becomes of the  *)
(* ones before it: a trigger the platform never accepts holds up the queue *)
(* for MAX_ATTEMPTS attempts only.  What holds it up for good is a call    *)
(* that hangs, for the pool has no other thread.                           *)
QueueMoves == \A g \in Triggers : Waiting(g) ~> ~Waiting(g) \/ call = "hung"
=============================================================================
