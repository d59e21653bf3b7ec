------------------------------- MODULE Decision -------------------------------
(***************************************************************************)
(* What the approval tool promises about a task, whoever decides and       *)
(* however the decision travels: while its process waits at the platform   *)
(* or at the service controller it is decided at most once, no decision is *)
(* taken back, and an approver is only told of a decision that was made.   *)
(***************************************************************************)
CONSTANT Tasks

VARIABLES outcome,   \* [Tasks -> Outcomes]: what has become of the process
          reported   \* [Tasks -> SUBSET Decisions]: what approvers were told

vars == <<outcome, reported>>

Decisions == {"approve", "reject", "grant_clearance"}

(* The outcome a decision leads to.                                        *)
Made(d) ==
  CASE d = "approve"         -> "approved"
    [] d = "reject"          -> "rejected"
    [] d = "grant_clearance" -> "continued"

Init ==
  /\ outcome = [t \in Tasks |-> "none"]
  /\ reported = [t \in Tasks |-> {}]

(* A process comes to wait for a decision.                                 *)
Open(t) ==
  /\ outcome[t] = "none"
  /\ outcome' = [outcome EXCEPT ![t] = "open"]
  /\ UNCHANGED reported

(* A decision takes effect; its author is told at once, later, or never.   *)
Decide(t, d) ==
  /\ outcome[t] = "open"
  /\ outcome' = [outcome EXCEPT ![t] = Made(d)]
  /\ \E told \in {{}, {d}} : reported' = [reported EXCEPT ![t] = @ \cup told]

Report(t, d) ==
  /\ outcome[t] = Made(d)
  /\ reported' = [reported EXCEPT ![t] = @ \cup {d}]
  /\ UNCHANGED outcome

(* The request is withdrawn, or the platform gives the process up.         *)
Void(t) ==
  /\ outcome[t] = "open"
  /\ outcome' = [outcome EXCEPT ![t] = "void"]
  /\ UNCHANGED reported

Next ==
  \E t \in Tasks :
    \/ Open(t) \/ Void(t)
    \/ \E d \in Decisions : Decide(t, d) \/ Report(t, d)

Spec == Init /\ [][Next]_vars

-----------------------------------------------------------------------------
(* What follows from the promise, whoever keeps it.                        *)

(* What has been decided, or can be decided no more, stays so.             *)
KeepsSettled ==
  \A t \in Tasks : outcome[t] \notin {"none", "open"} => outcome'[t] = outcome[t]

Final == [][KeepsSettled]_vars

(* What has been reported is what holds: hence never two decisions.        *)
ReportsHold == \A t \in Tasks : \A d \in reported[t] : d \in Decisions /\ outcome[t] = Made(d)
=============================================================================
