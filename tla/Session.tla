------------------------------- MODULE Session -------------------------------
(***************************************************************************)
(* Logging in (LoginServlet), and what it is worth to a request: the       *)
(* filter in front of page and servlet (AuthenticationFilter), the         *)
(* servlet's own look at the session (ServiceBase), and the page's reading *)
(* of the answer (index.jsp).  A session belongs to a browser, so several  *)
(* pages share it; it ends by itself after some idle time, or with the     *)
(* server, between any two steps.  What a command does once it has its     *)
(* user is the module TaskServlet.                                         *)
(***************************************************************************)
CONSTANTS Browsers,   \* each with one session cookie
          Pages,      \* index.jsp in a tab
          BrowserOf,  \* [Pages -> Browsers]
          Users,      \* users the platform may know
          Nobody,     \* a null user
          NoSession   \* the server has no session for the browser

ASSUME ConstantsAssumption ==
  /\ BrowserOf \in [Pages -> Browsers]
  /\ Nobody \notin Users /\ NoSession \notin Users /\ Nobody # NoSession

VARIABLES
  user,      \* [Browsers -> Users \cup {Nobody, NoSession}]: the session's user
  login,     \* [Browsers -> Users \cup {Nobody}]: a login the platform is asked about
  pc,        \* [Pages -> Stages]: how far the page's request is
  cmd,       \* [Pages -> {"none", "tasklist", "command"}]
  approver,  \* [Pages -> Users \cup {Nobody}]: the local of handleServiceCall
  message,   \* [Pages -> {"none", "success", "error"}]: the dialog the page shows
  accepted,  \* history: [Browsers -> SUBSET Users] accepted in the session
  done,      \* history: [Pages -> Users \cup {Nobody}]: who the last command was run for
  raced      \* history: pages whose session ended behind the filter

vars == <<user, login, pc, cmd, approver, message, accepted, done, raced>>

Stages == {"closed", "idle", "sent", "passed", "serving", "redirected"}

TypeOK ==
  /\ user \in [Browsers -> Users \cup {Nobody, NoSession}]
  /\ login \in [Browsers -> Users \cup {Nobody}]
  /\ pc \in [Pages -> Stages]
  /\ cmd \in [Pages -> {"none", "tasklist", "command"}]
  /\ approver \in [Pages -> Users \cup {Nobody}]
  /\ message \in [Pages -> {"none", "success", "error"}]
  /\ accepted \in [Browsers -> SUBSET Users]
  /\ done \in [Pages -> Users \cup {Nobody}]
  /\ raced \in SUBSET Pages

Init ==
  /\ user = [b \in Browsers |-> NoSession]
  /\ login = [b \in Browsers |-> Nobody]
  /\ pc = [p \in Pages |-> "closed"]
  /\ cmd = [p \in Pages |-> "none"]
  /\ approver = [p \in Pages |-> Nobody]
  /\ message = [p \in Pages |-> "none"]
  /\ accepted = [b \in Browsers |-> {}]
  /\ done = [p \in Pages |-> Nobody]
  /\ raced = {}

UserOf(p) == user[BrowserOf[p]]

-----------------------------------------------------------------------------
(* The session.                                                            *)

(* getSession() makes one if there is none; loginform.jsp does so too.     *)
GetSession(b) ==
  user' = [user EXCEPT ![b] = IF @ = NoSession THEN Nobody ELSE @]

(* Slip: the attribute is set before the platform has been asked.          *)
PostLoginEarly(b, u) ==
  /\ login[b] = Nobody
  /\ login' = [login EXCEPT ![b] = u]
  /\ user' = [user EXCEPT ![b] = u]
  /\ UNCHANGED <<pc, cmd, approver, message, accepted, done, raced>>

(* doPost: a user name and a password go to the platform ...               *)
PostLogin(b, u) ==
  /\ login[b] = Nobody
  /\ login' = [login EXCEPT ![b] = u]
  /\ UNCHANGED <<user, pc, cmd, approver, message, accepted, done, raced>>

(* ... which knows them: from now on the pages of the browser are his,     *)
(* those that were another's, too ...                                      *)
LoginAccepted(b) ==
  /\ login[b] # Nobody
  /\ user' = [user EXCEPT ![b] = login[b]]
  /\ accepted' = [accepted EXCEPT ![b] = @ \cup {login[b]}]
  /\ login' = [login EXCEPT ![b] = Nobody]
  /\ UNCHANGED <<pc, cmd, approver, message, done, raced>>

(* ... or does not, or cannot be reached: the form again.  The session     *)
(* keeps the user it had.                                                  *)
LoginRefused(b) ==
  /\ login[b] # Nobody
  /\ GetSession(b)
  /\ login' = [login EXCEPT ![b] = Nobody]
  /\ UNCHANGED <<pc, cmd, approver, message, accepted, done, raced>>

(* doGet: the form.                                                        *)
ShowLoginForm(b) ==
  /\ GetSession(b)
  /\ UNCHANGED <<login, pc, cmd, approver, message, accepted, done, raced>>

(* The container ends a session that has been idle for too long, as it     *)
(* reckons; no servlet ends one.                                           *)
SessionEnds(b) ==
  /\ user' = [user EXCEPT ![b] = NoSession]
  /\ accepted' = [accepted EXCEPT ![b] = {}]
  /\ raced' = raced \cup {p \in Pages : BrowserOf[p] = b /\ pc[p] = "passed"}
  /\ UNCHANGED <<login, pc, cmd, approver, message, done>>

-----------------------------------------------------------------------------
(* The page and its requests.                                              *)

Send(p, c) ==
  /\ pc' = [pc EXCEPT ![p] = "sent"]
  /\ cmd' = [cmd EXCEPT ![p] = c]
  /\ message' = [message EXCEPT ![p] = "none"]
  /\ done' = [done EXCEPT ![p] = Nobody]

(* The answer: the page reads an empty text as success, JSON as an error   *)
(* or as its data; on the text of the login form parseJSON throws.         *)
Answer(p, m) ==
  /\ pc' = [pc EXCEPT ![p] = "idle"]
  /\ cmd' = [cmd EXCEPT ![p] = "none"]
  /\ approver' = [approver EXCEPT ![p] = Nobody]
  /\ message' = [message EXCEPT ![p] = m]

(* The browser asks for index.jsp.  The filter lets it through for a user, *)
(* and the page sends for the task list; or the browser gets the form.     *)
OpenPage(p) ==
  /\ pc[p] \in {"closed", "idle"}
  /\ IF UserOf(p) \in Users
     THEN Send(p, "tasklist") /\ UNCHANGED user
     ELSE /\ GetSession(BrowserOf[p])
          /\ pc' = [pc EXCEPT ![p] = "closed"]
          /\ message' = [message EXCEPT ![p] = "none"]
          /\ done' = [done EXCEPT ![p] = Nobody]
          /\ UNCHANGED cmd
  /\ UNCHANGED <<login, approver, accepted, raced>>

(* The user refreshes the list; saves, approves, rejects, grants, deletes. *)
Click(p) ==
  /\ pc[p] = "idle"
  /\ \E c \in {"tasklist", "command"} : Send(p, c)
  /\ UNCHANGED <<user, login, approver, accepted, raced>>

(* Slips: any session will do; the filter just drops the request.          *)
DoFilterSessionOnly(p) ==
  /\ pc[p] = "sent"
  /\ pc' = [pc EXCEPT ![p] = IF UserOf(p) # NoSession THEN "passed" ELSE "redirected"]
  /\ raced' = raced \ {p}
  /\ UNCHANGED <<user, login, cmd, approver, message, accepted, done>>

DoFilterDropping(p) ==
  /\ pc[p] = "sent"
  /\ IF UserOf(p) \in Users
     THEN pc' = [pc EXCEPT ![p] = "passed"] /\ UNCHANGED <<cmd, approver, message>>
     ELSE Answer(p, IF cmd[p] = "command" THEN "success" ELSE "none")
  /\ raced' = raced \ {p}
  /\ UNCHANGED <<user, login, accepted, done>>

(* doFilter: is there a session, and has it a user?                        *)
DoFilter(p) ==
  /\ pc[p] = "sent"
  /\ pc' = [pc EXCEPT ![p] = IF UserOf(p) \in Users THEN "passed" ELSE "redirected"]
  /\ raced' = raced \ {p}
  /\ UNCHANGED <<user, login, cmd, approver, message, accepted, done>>

(* XMLHttpRequest follows the redirect and brings the form: no message.    *)
FollowRedirect(p) ==
  /\ pc[p] = "redirected"
  /\ GetSession(BrowserOf[p])
  /\ Answer(p, "none")
  /\ UNCHANGED <<login, accepted, done, raced>>

(* Slip: what there is of a session is taken for the user.                 *)
HandleServiceCallUnchecked(p) ==
  /\ pc[p] = "passed"
  /\ GetSession(BrowserOf[p])
  /\ approver' = [approver EXCEPT ![p] = UserOf(p)]
  /\ pc' = [pc EXCEPT ![p] = "serving"]
  /\ UNCHANGED <<login, cmd, message, accepted, done, raced>>

(* handleServiceCall looks for the user once more, and keeps what it finds *)
(* for the whole command.                                                  *)
HandleServiceCall(p) ==
  /\ pc[p] = "passed"
  /\ GetSession(BrowserOf[p])
  /\ approver' = [approver EXCEPT ![p] = IF UserOf(p) \in Users THEN UserOf(p) ELSE Nobody]
  /\ pc' = [pc EXCEPT ![p] = "serving"]
  /\ UNCHANGED <<login, cmd, message, accepted, done, raced>>

(* doService gets through, which it cannot with a null user ...            *)
DoService(p) ==
  /\ pc[p] = "serving"
  /\ approver[p] # Nobody
  /\ done' = [done EXCEPT ![p] = approver[p]]
  /\ Answer(p, IF cmd[p] = "command" THEN "success" ELSE "none")
  /\ UNCHANGED <<user, login, accepted, raced>>

(* ... or throws: the answer is a JSON object with the error.  The script  *)
(* that loads the list takes it for a list.                                *)
ServiceFails(p) ==
  /\ pc[p] = "serving"
  /\ Answer(p, IF cmd[p] = "command" THEN "error" ELSE "none")
  /\ UNCHANGED <<user, login, accepted, done, raced>>

Next ==
  \/ \E b \in Browsers : \/ \E u \in Users : PostLogin(b, u)
                         \/ LoginAccepted(b) \/ LoginRefused(b) \/ ShowLoginForm(b)
                         \/ SessionEnds(b)
  \/ \E p \in Pages : \/ OpenPage(p) \/ Click(p) \/ DoFilter(p) \/ FollowRedirect(p)
                      \/ HandleServiceCall(p) \/ DoService(p) \/ ServiceFails(p)

Spec == Init /\ [][Next]_vars

-----------------------------------------------------------------------------
(* The page reports success only for a command that was carried out, for a *)
(* user: neither the way by the login form nor a session that ended while  *)
(* the request was under way comes out as an empty answer (index.jsp,      *)
(* response == '', and AuthenticationFilter.java).                         *)
SuccessMeansDone == \A p \in Pages : message[p] = "success" => done[p] \in Users

(* The servlet meets a null user only if the session ended in the moment   *)
(* between the filter's look at it and its own (ServiceBase.java,          *)
(* handleServiceCall; TaskServlet.java, doService, which does not ask).    *)
NullUserExplained ==
  \A p \in Pages : pc[p] = "serving" /\ approver[p] = Nobody => p \in raced

(* A request is taken for a user the platform has accepted in that very    *)
(* session: after it has ended, no earlier login counts (LoginServlet.java,*)
(* doPost; ServiceBase.java).                                              *)
Authenticated ==
  [][\A p \in Pages : approver'[p] \notin {approver[p], Nobody}
                        => approver'[p] \in accepted[BrowserOf[p]]]_vars

(* The user of a session is one the platform has accepted in it.           *)
SessionUserAccepted == \A b \in Browsers : user[b] \in Users => user[b] \in accepted[b]

(* What lies behind the filter has had a user, unless the session ended.   *)
PassedHasUser ==
  \A p \in Pages : pc[p] = "passed" => UserOf(p) \in Users \/ p \in raced

IInv == /\ TypeOK
        /\ SessionUserAccepted
        /\ PassedHasUser
        /\ NullUserExplained
        /\ SuccessMeansDone
=============================================================================
