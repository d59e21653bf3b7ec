---------------------------- MODULE BesClientProofs ----------------------------
(***************************************************************************)
(* A call that returns has been served by the platform, and one that does  *)
(* not return has a reason, for any number of calls under way at the same  *)
(* time.                                                                   *)
(***************************************************************************)
EXTENDS BesClient, TLAPS

LEMMA IInvStep == IInv /\ [Next]_vars => IInv'
<1> SUFFICES ASSUME IInv, [Next]_vars PROVE IInv'
  OBVIOUS
<1> USE DEF IInv, TypeOK, ReturnedIsServed, Callers, Threads, Results
<1>1. ASSUME NEW c \in Calls, LoadFails(c) PROVE IInv'
  BY <1>1 DEF LoadFails
<1>2. ASSUME NEW c \in Calls, StartTask(c) PROVE IInv'
  BY <1>2 DEF StartTask, Advance
<1>3. ASSUME NEW c \in Calls, GetResult(c) PROVE IInv'
  BY <1>3 DEF GetResult
<1>4. ASSUME NEW c \in Calls, Bind(c) PROVE IInv'
  BY <1>4 DEF Bind, Advance
<1>5. ASSUME NEW c \in Calls, PlatformServes(c) PROVE IInv'
  BY <1>5 DEF PlatformServes, Advance
<1>6. ASSUME NEW c \in Calls, StoreResult(c) PROVE IInv'
  BY <1>6 DEF StoreResult, Advance
<1>7. ASSUME NEW c \in Calls, StoreException(c) PROVE IInv'
  BY <1>7 DEF StoreException, Advance
<1>8. ASSUME NEW c \in Calls, Die(c) PROVE IInv'
  BY <1>8 DEF Die, Advance
<1>9. CASE UNCHANGED vars
  BY <1>9 DEF vars
<1>10. QED
  BY <1>1, <1>2, <1>3, <1>4, <1>5, <1>6, <1>7, <1>8, <1>9 DEF Next, Run

(* The inductive invariant holds in every state.                           *)
THEOREM InductiveInvariant == Spec => []IInv
<1>1. Init => IInv
  BY DEF Init, IInv, TypeOK, ReturnedIsServed, Callers, Threads, Results
<1>2. QED
  BY <1>1, IInvStep, PTL DEF Spec

(* runWebServiceAsOrganizationAdmin returns only what the platform has     *)
(* answered, and only once it has served the call.                         *)
THEOREM Returned == Spec => []ReturnedIsServed
<1>1. IInv => ReturnedIsServed
  BY DEF IInv
<1>2. QED
  BY <1>1, InductiveInvariant, PTL

(* The types: no caller returns an exception or null as its result.        *)
THEOREM TypeCorrect == Spec => []TypeOK
<1>1. IInv => TypeOK
  BY DEF IInv
<1>2. QED
  BY <1>1, InductiveInvariant, PTL

(* Who spins on rc waits for a thread at work, has a value to read, or was *)
(* left there by an Error or an answer without data (BesClient.java:43).   *)
THEOREM WaitingExplained == Spec => []WaitingHasReason
<1>1. IInv => WaitingHasReason
  <2> SUFFICES ASSUME IInv, NEW c \in Calls, caller[c] = "waiting",
                      thread[c] \notin {"binding", "calling", "answered"}, rc[c] = "null"
               PROVE  Silent(c)
    BY DEF WaitingHasReason
  <2>1. thread[c] = "ended"
    BY DEF IInv, TypeOK, Threads
  <2> QED BY <2>1 DEF IInv, Silent
<1>2. QED
  BY <1>1, InductiveInvariant, PTL
=============================================================================
