-------------------------- MODULE AutoApprovalProofs --------------------------
(* Proofs about AutoApproval: for every set of triggers and every number   *)
(* of attempts.                                                            *)
EXTENDS AutoApproval, TLAPS

USE DEF Waiting

(* Appending at the end and taking off the front, index by index.          *)
LEMMA AppendIndices ==
  ASSUME NEW g \in Triggers, queue \in Seq(Triggers)
  PROVE  /\ Append(queue, g) \in Seq(Triggers)
         /\ DOMAIN Append(queue, g) = 1..(Len(queue) + 1)
         /\ DOMAIN queue = 1..Len(queue) /\ Len(queue) \in Nat
         /\ \A n \in 1..Len(queue) : Append(queue, g)[n] = queue[n]
         /\ Append(queue, g)[Len(queue) + 1] = g
  OBVIOUS

LEMMA TailIndices ==
  ASSUME queue \in Seq(Triggers), queue # <<>>
  PROVE  /\ Tail(queue) \in Seq(Triggers)
         /\ Head(queue) = queue[1] /\ Head(queue) \in Triggers
         /\ 1 \in DOMAIN queue
         /\ DOMAIN queue = 1..Len(queue) /\ Len(queue) \in Nat \ {0}
         /\ DOMAIN Tail(queue) = 1..(Len(queue) - 1)
         /\ \A n \in DOMAIN Tail(queue) : n + 1 \in DOMAIN queue /\ Tail(queue)[n] = queue[n + 1]
         /\ \A n \in DOMAIN queue : n = 1 \/ n - 1 \in DOMAIN Tail(queue)
  OBVIOUS

LEMMA IInvInit == Init => IInv
  BY ConstantsAssumption DEF Init, IInv, TypeOK, InTurn, Processes

(* A step that takes the first thread off the queue, with an attempt ended.*)
LEMMA LeaveKeeps ==
  ASSUME IInv, queue # <<>>, Count, Leave, call = "live", UNCHANGED <<lost, call, crashes>>,
         process' \in [Triggers -> Processes],
         \A g \in Triggers : process'[g] # process[g] =>
            g = Head(queue) /\ process'[g] = "approved",
         process'[Head(queue)] = "approved" \/ i = MAX_ATTEMPTS,
         process[Head(queue)] # "absent"
  PROVE  IInv'
<1> DEFINE h == Head(queue)
<1>1. /\ queue \in Seq(Triggers)
      /\ tries \in [Triggers -> 0..MAX_ATTEMPTS]
      /\ i \in 1..MAX_ATTEMPTS
  BY DEF IInv, TypeOK
<1>2. h \in Triggers /\ h = queue[1] /\ 1 \in DOMAIN queue
  BY <1>1, TailIndices
<1>3. tries[h] = i - 1
  BY <1>1, <1>2 DEF IInv, InTurn
<1>4. tries' = [tries EXCEPT ![h] = i]
  BY <1>1, <1>2, <1>3, ConstantsAssumption DEF Count
<1>5. queue' = Tail(queue) /\ i' = 1
  BY DEF Leave
<1>6. \A n \in DOMAIN queue' : n + 1 \in DOMAIN queue /\ queue'[n] = queue[n + 1] /\ n \in Nat \ {0}
  BY <1>1, <1>5, TailIndices
<1>7. \A n \in DOMAIN queue' : queue'[n] # h
  BY <1>1, <1>2, <1>6 DEF IInv, InTurn
<1>8. \A g \in Triggers : Waiting(g)' <=> Waiting(g) /\ g # h
  <2> TAKE g \in Triggers
  <2>1. ASSUME Waiting(g), g # h PROVE Waiting(g)'
    <3>1. PICK n \in DOMAIN queue : queue[n] = g
      BY <2>1
    <3>2. n - 1 \in DOMAIN queue' /\ queue'[n - 1] = queue[n]
      BY <1>1, <1>2, <1>5, <2>1, <3>1, TailIndices
    <3> QED BY <3>1, <3>2
  <2> QED BY <1>6, <1>7, <2>1
<1>9. TypeOK'
  BY <1>1, <1>2, <1>4, <1>5, TailIndices, ConstantsAssumption DEF IInv, TypeOK
<1>10. \A g \in Triggers : process'[g] = "absent" => tries'[g] = 0 /\ ~Waiting(g)'
  BY <1>1, <1>2, <1>4, <1>8 DEF IInv
<1>11. \A g \in Triggers :
         /\ process'[g] \in {"calling", "suspended"}
         /\ ~Waiting(g)'
         /\ g \notin lost'
         => tries'[g] = MAX_ATTEMPTS
  BY <1>1, <1>2, <1>4, <1>8 DEF IInv
<1>12. queue' = <<>> => i' = 1 /\ call' = "live"
  BY <1>5
<1>13. InTurn'
  <2>1. \A m, n \in DOMAIN queue' : queue'[m] = queue'[n] => m = n
    BY <1>1, <1>6 DEF IInv, InTurn
  <2>2. \A n \in DOMAIN queue' : tries'[queue'[n]] = 0
    <3> TAKE n \in DOMAIN queue'
    <3>1. n + 1 \in DOMAIN queue /\ queue'[n] = queue[n + 1] /\ n + 1 # 1
      BY <1>6
    <3>2. tries[queue[n + 1]] = 0
      BY <3>1 DEF IInv, InTurn
    <3>3. queue[n + 1] \in Triggers /\ queue[n + 1] # h
      BY <1>1, <1>7, <3>1
    <3> QED BY <1>1, <1>4, <3>1, <3>2, <3>3
  <2> QED BY <1>5, <2>1, <2>2 DEF InTurn
<1> QED BY <1>9, <1>10, <1>11, <1>12, <1>13 DEF IInv

(* An attempt that is not the last one leaves the queue as it is.          *)
LEMMA RetryKeeps ==
  ASSUME IInv, queue # <<>>, Count, i < MAX_ATTEMPTS, i' = i + 1,
         UNCHANGED <<queue, lost, call, crashes>>,
         process' \in [Triggers -> Processes],
         \A g \in Triggers : process'[g] # process[g] =>
            g = Head(queue) /\ process'[g] = "approved"
  PROVE  IInv'
<1> DEFINE h == Head(queue)
<1>1. /\ queue \in Seq(Triggers)
      /\ tries \in [Triggers -> 0..MAX_ATTEMPTS]
      /\ i \in 1..MAX_ATTEMPTS
  BY DEF IInv, TypeOK
<1>2. h \in Triggers /\ h = queue[1] /\ 1 \in DOMAIN queue /\ Waiting(h)
  BY <1>1, TailIndices
<1>3. tries[h] = i - 1
  BY <1>1, <1>2 DEF IInv, InTurn
<1>4. tries' = [tries EXCEPT ![h] = i]
  BY <1>1, <1>2, <1>3, ConstantsAssumption DEF Count
<1>5. \A g \in Triggers : Waiting(g)' <=> Waiting(g)
  OBVIOUS
<1>6. TypeOK'
  BY <1>1, <1>2, <1>4, ConstantsAssumption DEF IInv, TypeOK
<1>7. \A g \in Triggers : process'[g] = "absent" => tries'[g] = 0 /\ ~Waiting(g)'
  BY <1>1, <1>2, <1>4 DEF IInv
<1>8. \A g \in Triggers :
        /\ process'[g] \in {"calling", "suspended"}
        /\ ~Waiting(g)'
        /\ g \notin lost'
        => tries'[g] = MAX_ATTEMPTS
  BY <1>1, <1>2, <1>4 DEF IInv
<1>9. InTurn'
  <2>1. \A n \in DOMAIN queue : queue[n] \in Triggers /\ (n # 1 => queue[n] # h)
    BY <1>1, <1>2 DEF IInv, InTurn
  <2>2. \A n \in DOMAIN queue : tries'[queue[n]] = IF n = 1 THEN i ELSE 0
    BY <1>1, <1>2, <1>4, <2>1 DEF IInv, InTurn
  <2>3. i' - 1 = i
    BY <1>1, ConstantsAssumption
  <2> QED BY <2>2, <2>3 DEF IInv, InTurn
<1> QED BY <1>6, <1>7, <1>8, <1>9 DEF IInv

(* Every step of the module keeps the invariant.                           *)
LEMMA IInvStep == IInv /\ [Next]_vars => IInv'
<1> SUFFICES ASSUME IInv, [Next]_vars PROVE IInv'
  OBVIOUS
<1>1. /\ queue \in Seq(Triggers)
      /\ process \in [Triggers -> Processes]
      /\ tries \in [Triggers -> 0..MAX_ATTEMPTS]
      /\ i \in 1..MAX_ATTEMPTS
  BY DEF IInv, TypeOK
<1>2. ASSUME NEW g \in Triggers, Submit(g) PROVE IInv'
  <2>1. /\ process[g] = "absent" /\ tries[g] = 0 /\ ~Waiting(g)
        /\ process' = [process EXCEPT ![g] = "calling"]
        /\ queue' = Append(queue, g)
        /\ UNCHANGED <<i, tries, lost, call, crashes>>
    BY <1>2 DEF Submit, IInv
  <2>2. \A k \in Triggers : Waiting(k)' <=> Waiting(k) \/ k = g
    <3> TAKE k \in Triggers
    <3>1. /\ DOMAIN queue' = 1..(Len(queue) + 1)
          /\ DOMAIN queue = 1..Len(queue) /\ Len(queue) \in Nat
          /\ \A n \in 1..Len(queue) : queue'[n] = queue[n]
          /\ queue'[Len(queue) + 1] = g
      BY <1>1, <2>1, AppendIndices
    <3>2. 1..(Len(queue) + 1) = 1..Len(queue) \cup {Len(queue) + 1}
      BY <3>1
    <3> QED BY <3>1, <3>2
  <2>3. TypeOK'
    BY <1>1, <2>1, AppendIndices DEF IInv, TypeOK, Processes
  <2>4. InTurn'
    <3>1. \A m, n \in DOMAIN queue' : queue'[m] = queue'[n] => m = n
      BY <1>1, <2>1, AppendIndices DEF IInv, InTurn
    <3>2. ASSUME NEW n \in DOMAIN queue' PROVE tries'[queue'[n]] = IF n = 1 THEN i' - 1 ELSE 0
      <4>1. CASE n \in DOMAIN queue
        BY <1>1, <2>1, <4>1, AppendIndices DEF IInv, InTurn
      <4>2. CASE n = Len(queue) + 1 /\ n # 1
        BY <1>1, <2>1, <4>2, AppendIndices DEF IInv, InTurn
      <4>3. CASE n = Len(queue) + 1 /\ n = 1
        <5>1. queue = <<>>
          BY <1>1, <4>3
        <5>2. i = 1
          BY <5>1 DEF IInv
        <5> QED BY <1>1, <2>1, <4>3, <5>2, AppendIndices
      <4> QED BY <1>1, <2>1, <4>1, <4>2, <4>3, AppendIndices
    <3> QED BY <3>1, <3>2 DEF InTurn
  <2>5. queue' # <<>>
    BY <1>1, <2>1, AppendIndices
  <2> QED BY <1>1, <2>1, <2>2, <2>3, <2>4, <2>5 DEF IInv
<1>3. ASSUME NEW g \in Triggers, HandlerReturns(g) \/ RequestCancelled(g)
      PROVE IInv'
  <2>1. \E state \in {"suspended", "cancelled"} :
          process[g] # "absent" /\ process' = [process EXCEPT ![g] = state]
    BY <1>3 DEF HandlerReturns, RequestCancelled
  <2>2. /\ UNCHANGED <<queue, i, tries, lost, call, crashes>>
        /\ process[g] \in {"calling", "suspended"}
    BY <1>3 DEF HandlerReturns, RequestCancelled
  <2>3. /\ process' \in [Triggers -> Processes]
        /\ \A k \in Triggers : process'[k] # process[k] =>
             process'[k] # "absent" /\ process[k] \in {"calling", "suspended"}
    BY <1>1, <2>1, <2>2 DEF Processes
  <2>4. TypeOK' /\ InTurn'
    BY <2>2, <2>3 DEF IInv, TypeOK, InTurn
  <2> QED BY <2>2, <2>3, <2>4 DEF IInv
<1>4. ASSUME queue # <<>>
      PROVE process[Head(queue)] # "absent" /\ Head(queue) \in Triggers
  BY <1>1, <1>4, TailIndices DEF IInv
<1>5. CASE Approve
  BY <1>1, <1>4, <1>5, LeaveKeeps DEF Approve, Attempting, PlatformApproves, Processes
<1>6. CASE ApproveReplyLost
  <2>1. CASE i < MAX_ATTEMPTS
    BY <1>1, <1>4, <1>6, <2>1, RetryKeeps
       DEF ApproveReplyLost, Attempting, PlatformApproves, NextAttempt, Processes
  <2>2. CASE ~(i < MAX_ATTEMPTS)
    BY <1>1, <1>4, <1>6, <2>2, LeaveKeeps
       DEF ApproveReplyLost, Attempting, PlatformApproves, NextAttempt, Processes
  <2> QED BY <2>1, <2>2
<1>7. CASE AttemptFails
  <2>1. CASE i < MAX_ATTEMPTS
    BY <1>1, <1>4, <1>7, <2>1, RetryKeeps DEF AttemptFails, Attempting, NextAttempt
  <2>2. CASE ~(i < MAX_ATTEMPTS)
    <3>1. i = MAX_ATTEMPTS
      BY <1>1, <2>2, ConstantsAssumption
    <3> QED BY <1>1, <1>4, <1>7, <2>2, <3>1, LeaveKeeps
               DEF AttemptFails, Attempting, NextAttempt
  <2> QED BY <2>1, <2>2
<1>8. CASE AttemptHangs
  <2>1. call' = "hung" /\ queue # <<>> /\ UNCHANGED <<process, queue, i, tries, lost, crashes>>
    BY <1>8 DEF AttemptHangs, Attempting
  <2> QED BY <2>1 DEF IInv, TypeOK, InTurn
<1>9. CASE HungCallServed
  <2>1. /\ queue # <<>>
        /\ process' = [process EXCEPT ![Head(queue)] = "approved"]
        /\ UNCHANGED <<queue, i, tries, lost, call, crashes>>
    BY <1>9 DEF HungCallServed, PlatformApproves, IInv
  <2>2. process' \in [Triggers -> Processes]
    BY <1>1, <2>1 DEF Processes
  <2>3. \A g \in Triggers : process'[g] # process[g] => process'[g] = "approved"
    BY <1>1, <2>1
  <2> QED BY <1>1, <1>4, <2>1, <2>2, <2>3 DEF IInv, TypeOK, InTurn
<1>10. CASE Crash
  <2>1. queue' = <<>> /\ i' = 1 /\ tries' = tries /\ call' = "live"
    BY <1>10 DEF Crash
  <2>2. \A g \in Triggers : ~Waiting(g)'
    BY <2>1
  <2>3. TypeOK'
    BY <1>1, <1>10, ConstantsAssumption DEF Crash, IInv, TypeOK, Processes
  <2>4. InTurn'
    BY <2>1 DEF InTurn
  <2> QED BY <1>1, <1>10, <2>1, <2>2, <2>3, <2>4 DEF Crash, IInv
<1>11. CASE UNCHANGED vars
  BY <1>11 DEF vars, IInv, TypeOK, InTurn
<1> QED BY <1>2, <1>3, <1>5, <1>6, <1>7, <1>8, <1>9, <1>10, <1>11
    DEF Next, Executor

(* The inductive invariant holds, and with it the types.                   *)
THEOREM InductiveInvariant == Spec => []IInv
<1> QED BY IInvInit, IInvStep, PTL DEF Spec

(* The types: no thread makes more than MAX_ATTEMPTS attempts, and the     *)
(* counter never leaves 1..MAX_ATTEMPTS (AutoApprovalThread.run).          *)
THEOREM TypeCorrect == Spec => []TypeOK
<1>1. IInv => TypeOK
  BY DEF IInv
<1> QED BY <1>1, InductiveInvariant, PTL

(* A suspended process has been forgotten only after MAX_ATTEMPTS attempts *)
(* made for it alone, or in a restart (AutoApprovalThread.run).            *)
THEOREM Forgotten == Spec => []ForgottenAfterAllAttempts
<1>1. IInv => ForgottenAfterAllAttempts
  BY DEF IInv, ForgottenAfterAllAttempts
<1> QED BY <1>1, InductiveInvariant, PTL

(* The pool serves the triggers one after the other, each with attempts of *)
(* its own (ApprovalTask.executor, AutoApprovalThread.run).                *)
THEOREM ServedInTurn == Spec => []InTurn
<1>1. IInv => InTurn
  BY DEF IInv
<1> QED BY <1>1, InductiveInvariant, PTL

(* A place in the queue is found again by the thread in it: where a thread *)
(* stays, it stays with the one in front, and the counter with it.         *)
LEMMA SamePlaces ==
  ASSUME IInv, queue' = queue, NEW m \in DOMAIN queue, NEW n \in DOMAIN queue',
         queue'[n] = queue[m]
  PROVE  n = m
  BY DEF IInv, InTurn

(* An attempt ends, and with it the counter or the place moves.            *)
LEMMA AttemptMoves ==
  ASSUME IInv, queue # <<>>, Leave \/ (i' = i + 1 /\ UNCHANGED queue),
         NEW m \in DOMAIN queue, NEW n \in DOMAIN queue', queue'[n] = queue[m]
  PROVE  n < m \/ (n = m /\ i' > i)
<1>1. queue \in Seq(Triggers) /\ i \in Nat /\ m \in Nat
  BY ConstantsAssumption DEF IInv, TypeOK
<1>2. CASE Leave
  <2>1. n + 1 \in DOMAIN queue /\ queue'[n] = queue[n + 1] /\ n \in Nat
    BY <1>1, <1>2, TailIndices DEF Leave
  <2>2. n + 1 = m
    BY <2>1 DEF IInv, InTurn
  <2> QED BY <1>1, <2>1, <2>2
<1>3. CASE i' = i + 1 /\ UNCHANGED queue
  BY <1>1, <1>3, SamePlaces
<1> QED BY <1>2, <1>3

(* The places of the queue: no step puts a waiting thread back, and each   *)
(* attempt brings it nearer to its end (ApprovalTask.executor).            *)
THEOREM NobodyPutBack == Spec => QueueAdvances
<1> DEFINE Nearer == \A m \in DOMAIN queue, n \in DOMAIN queue' : queue'[n] = queue[m] =>
                       n < m \/ (n = m /\ IF Executor THEN i' > i ELSE i' = i)
<1>1. IInv /\ [Next]_vars => [Nearer]_vars
  <2> SUFFICES ASSUME IInv, Next, NEW m \in DOMAIN queue, NEW n \in DOMAIN queue',
                      queue'[n] = queue[m]
               PROVE  n < m \/ (n = m /\ IF Executor THEN i' > i ELSE i' = i)
    OBVIOUS
  <2>1. /\ queue \in Seq(Triggers) /\ i \in Nat
        /\ tries \in [Triggers -> 0..MAX_ATTEMPTS]
    BY ConstantsAssumption DEF IInv, TypeOK
  <2>2. CASE Executor
    <3>1. queue # <<>> /\ (Leave \/ (i' = i + 1 /\ UNCHANGED queue))
      BY <2>2 DEF Executor, Approve, ApproveReplyLost, AttemptFails, Attempting, NextAttempt
    <3> QED BY <2>2, <3>1, AttemptMoves
  <2>3. CASE ~Executor
    <3>1. ASSUME NEW g \in Triggers, Submit(g) PROVE n = m /\ i' = i
      <4>1. queue' = Append(queue, g) /\ i' = i /\ ~Waiting(g)
        BY <3>1 DEF Submit, IInv
      <4>2. n \in 1..(Len(queue) + 1) /\ m \in 1..Len(queue) /\ Len(queue) \in Nat
        BY <2>1, <3>1, <4>1, AppendIndices
      <4>3. n # Len(queue) + 1
        BY <2>1, <3>1, <4>1, AppendIndices
      <4>4. n \in DOMAIN queue /\ queue[n] = queue[m]
        BY <2>1, <3>1, <4>1, <4>2, <4>3, AppendIndices
      <4> QED BY <4>1, <4>4 DEF IInv, InTurn
    <3>2. ASSUME NEW g \in Triggers, HandlerReturns(g) \/ RequestCancelled(g)
          PROVE  n = m /\ i' = i
      BY <3>2, SamePlaces DEF HandlerReturns, RequestCancelled
    <3>3. ASSUME AttemptHangs \/ HungCallServed PROVE n = m /\ i' = i
      BY <3>3, SamePlaces DEF AttemptHangs, HungCallServed
    <3>4. CASE Crash
      <4>1. DOMAIN queue' = {}
        BY <3>4 DEF Crash
      <4> QED BY <4>1
    <3> QED BY <2>3, <3>1, <3>2, <3>3, <3>4 DEF Next
  <2> QED BY <2>2, <2>3
<1> QED BY <1>1, InductiveInvariant, PTL DEF Spec, QueueAdvances
=============================================================================
