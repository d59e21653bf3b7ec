------------------------------- MODULE BesClient -------------------------------
(***************************************************************************)
(* Calls of the platform's web services: BesClient loads the settings,     *)
(* starts a WebServiceTask, a thread that binds the service and calls it,  *)
(* and spins until the thread has left a result in its field rc.  The      *)
(* field is neither volatile nor guarded by a lock: the caller may go on   *)
(* reading null after the thread has written, and it only leaves the loop  *)
(* when it reads something else.  A thread that ends without having        *)
(* written, or writes null, keeps its caller in the loop.                  *)
(***************************************************************************)
CONSTANTS Calls,     \* calls of runWebServiceAsOrganizationAdmin
          Commands   \* those whose execute returns RC_OK, not an answer's data

ASSUME CommandsAssumption == Commands \subseteq Calls

VARIABLES caller,    \* [Calls -> Callers]: what the calling thread is doing
          thread,    \* [Calls -> Threads]: how far the WebServiceTask is
          rc,        \* [Calls -> Results]: its field rc
          served,    \* calls the platform has done its work for
          struck     \* history: calls whose thread an Error has ended

vars == <<caller, thread, rc, served, struck>>

Callers == {"before", "waiting", "returned", "thrown"}
Threads == {"new", "binding", "calling", "answered", "ended"}
Results == {"null", "OK", "data", "exception"}

TypeOK ==
  /\ caller \in [Calls -> Callers]
  /\ thread \in [Calls -> Threads]
  /\ rc \in [Calls -> Results]
  /\ served \in SUBSET Calls
  /\ struck \in SUBSET Calls
  /\ \A c \in Calls : caller[c] = "returned" => rc[c] \in {"OK", "data"}

Init ==
  /\ caller = [c \in Calls |-> "before"]
  /\ thread = [c \in Calls |-> "new"]
  /\ rc = [c \in Calls |-> "null"]
  /\ served = {}
  /\ struck = {}

Advance(c, stage) == thread' = [thread EXCEPT ![c] = stage]

Ended(c) == caller[c] \in {"returned", "thrown"}

(* The thread is over and there is nothing to read: the platform answered  *)
(* without data, or an Error struck.  A command always has RC_OK to store. *)
Silent(c) ==
  /\ thread[c] = "ended"
  /\ rc[c] = "null"
  /\ c \in struck \/ c \notin Commands

-----------------------------------------------------------------------------
(* The calling thread.                                                     *)

(* A setting cannot be read: the task is not started.                      *)
LoadFails(c) ==
  /\ caller[c] = "before"
  /\ caller' = [caller EXCEPT ![c] = "thrown"]
  /\ UNCHANGED <<thread, rc, served, struck>>

StartTask(c) ==
  /\ caller[c] = "before"
  /\ caller' = [caller EXCEPT ![c] = "waiting"]
  /\ Advance(c, "binding")
  /\ UNCHANGED <<rc, served, struck>>

(* Slip: if instead of while.                                              *)
GetResultOnce(c) ==
  /\ caller[c] = "waiting"
  /\ caller' = [caller EXCEPT ![c] = IF rc[c] = "exception" THEN "thrown" ELSE "returned"]
  /\ UNCHANGED <<thread, rc, served, struck>>

(* The round of the loop that reads what the thread has written.  All      *)
(* rounds before, those with a stale null among them, change nothing.      *)
GetResult(c) ==
  /\ caller[c] = "waiting"
  /\ rc[c] # "null"
  /\ caller' = [caller EXCEPT ![c] = IF rc[c] = "exception" THEN "thrown" ELSE "returned"]
  /\ UNCHANGED <<thread, rc, served, struck>>

-----------------------------------------------------------------------------
(* The thread: run().                                                      *)

(* getWebserviceIntern reads the WSDL and builds the port.                 *)
Bind(c) ==
  /\ thread[c] = "binding"
  /\ Advance(c, "calling")
  /\ UNCHANGED <<caller, rc, served, struck>>

(* The platform does what it is asked.  It may never get to it.            *)
PlatformServes(c) ==
  /\ thread[c] = "calling"
  /\ served' = served \cup {c}
  /\ Advance(c, "answered")
  /\ UNCHANGED <<caller, rc, struck>>

(* rc = execute(service).  An answer without data is null.                 *)
StoreResult(c) ==
  /\ thread[c] = "answered"
  /\ \E result \in IF c \in Commands THEN {"OK"} ELSE {"data", "null"} :
       rc' = [rc EXCEPT ![c] = result]
  /\ Advance(c, "ended")
  /\ UNCHANGED <<caller, served, struck>>

(* Slips: the exception is logged and RC_OK returned all the same; it is   *)
(* logged and nothing is stored.                                           *)
StoreOkForException(c) ==
  /\ thread[c] \in {"binding", "calling", "answered"}
  /\ rc' = [rc EXCEPT ![c] = "OK"]
  /\ Advance(c, "ended")
  /\ UNCHANGED <<caller, served, struck>>

StoreNothing(c) ==
  /\ thread[c] \in {"binding", "calling", "answered"}
  /\ Advance(c, "ended")
  /\ UNCHANGED <<caller, rc, served, struck>>

(* catch (Exception e): the service cannot be bound, refuses the call, or  *)
(* its answer is lost.                                                     *)
StoreException(c) ==
  /\ thread[c] \in {"binding", "calling", "answered"}
  /\ rc' = [rc EXCEPT ![c] = "exception"]
  /\ Advance(c, "ended")
  /\ UNCHANGED <<caller, served, struck>>

(* An Error is no Exception: it ends the thread and nothing is stored.     *)
Die(c) ==
  /\ thread[c] \in {"binding", "calling", "answered"}
  /\ Advance(c, "ended")
  /\ struck' = struck \cup {c}
  /\ UNCHANGED <<caller, rc, served>>

-----------------------------------------------------------------------------
Run(c) == Bind(c) \/ StoreResult(c) \/ StoreException(c) \/ Die(c)

Next ==
  \E c \in Calls :
    LoadFails(c) \/ StartTask(c) \/ GetResult(c) \/ Run(c) \/ PlatformServes(c)

(* The caller reads a fresh value in the end: Thread.yield, a native       *)
(* method, keeps the compiler from reading the field only once.  The       *)
(* thread is scheduled; while it waits for the platform nothing is owed.   *)
Fairness ==
  \A c \in Calls :
    /\ WF_vars(GetResult(c))
    /\ WF_vars(thread[c] # "calling" /\ Run(c))

Spec == Init /\ [][Next]_vars /\ Fairness

-----------------------------------------------------------------------------
(* Who gets a result has been served: runWebServiceAsOrganizationAdmin     *)
(* returns no value the call has not earned, although the two threads      *)
(* share rc without synchronization (BesClient.java:43-50).                *)
ReturnedIsServed == \A c \in Calls : caller[c] = "returned" => c \in served

(* A caller in the loop has something to wait for: its thread is at work,  *)
(* or what it has written is there to read.  Otherwise it is in the loop   *)
(* for good, which happens only after an Error or a query answered without *)
(* data: every other way out of run() stores a value first (BesClient.java *)
(* :43-50, WebServiceTask.run).                                            *)
WaitingHasReason ==
  \A c \in Calls : caller[c] = "waiting" =>
    thread[c] \in {"binding", "calling", "answered"} \/ rc[c] # "null" \/ Silent(c)

(* Unless the platform keeps it waiting, a call ends.  The code itself     *)
(* spins for ever only when an Error has ended the thread, or a query was  *)
(* answered without data; a command, which has RC_OK to store, gets its    *)
(* caller out of the loop however it ends (WebServiceTask.run).            *)
Answered(c) == <>[](thread[c] # "calling")

CallsEnd ==
  \A c \in Calls : Answered(c) => (caller[c] = "waiting" ~> Ended(c) \/ Silent(c))

(* What ReturnedIsServed rests on: a thread writes rc once, as its last    *)
(* step, and stores a result only if the platform has answered; and what   *)
(* WaitingHasReason rests on: a caller waits for a thread it has started,  *)
(* and only an Error, or a query, lets a thread end with nothing stored.   *)
IInv ==
  /\ TypeOK
  /\ ReturnedIsServed
  /\ \A c \in Calls :
       /\ caller[c] = "before" => thread[c] = "new"
       /\ caller[c] = "waiting" => thread[c] # "new"
       /\ thread[c] = "ended" /\ rc[c] = "null" => c \in struck \/ c \notin Commands
       /\ rc[c] # "null" => thread[c] = "ended"
       /\ rc[c] \in {"OK", "data"} \/ thread[c] = "answered" => c \in served
=============================================================================
