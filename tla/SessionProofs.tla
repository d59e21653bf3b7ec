---------------------------- MODULE SessionProofs ----------------------------
(***************************************************************************)
(* For any number of browsers, pages and users: the page reports success   *)
(* only for what was done, for a user the platform accepted in the         *)
(* session.                                                                *)
(***************************************************************************)
EXTENDS Session, TLAPS

LEMMA Initially == Init => IInv
BY ConstantsAssumption DEF Init, IInv, TypeOK, SessionUserAccepted, PassedHasUser,
     NullUserExplained, SuccessMeansDone, Stages, UserOf

(* Making a session takes no user away and gives none.                     *)
LEMMA GetSessionKeeps ==
  ASSUME IInv, NEW b \in Browsers, GetSession(b)
  PROVE  /\ user' \in [Browsers -> Users \cup {Nobody, NoSession}]
         /\ \A c \in Browsers : /\ user[c] \in Users => user'[c] = user[c]
                                /\ user'[c] \in Users => user[c] = user'[c]
BY ConstantsAssumption DEF GetSession, IInv, TypeOK

(* Every action preserves the invariant.                                   *)
LEMMA SessionStep ==
  ASSUME IInv, NEW b \in Browsers,
         \/ \E u \in Users : PostLogin(b, u)
         \/ LoginAccepted(b) \/ LoginRefused(b) \/ ShowLoginForm(b) \/ SessionEnds(b)
  PROVE  IInv'
<1> USE ConstantsAssumption DEF IInv
<1>1. ASSUME NEW u \in Users, PostLogin(b, u) PROVE IInv'
  BY <1>1 DEF PostLogin, TypeOK, SessionUserAccepted, PassedHasUser,
              NullUserExplained, SuccessMeansDone, UserOf
<1>2. ASSUME LoginAccepted(b) PROVE IInv'
  <2>1. TypeOK'
    BY <1>2 DEF LoginAccepted, TypeOK
  <2>2. SessionUserAccepted'
    BY <1>2 DEF LoginAccepted, TypeOK, SessionUserAccepted
  <2>3. PassedHasUser'
    BY <1>2 DEF LoginAccepted, TypeOK, PassedHasUser, UserOf
  <2>4. NullUserExplained' /\ SuccessMeansDone'
    BY <1>2 DEF LoginAccepted, TypeOK, NullUserExplained, SuccessMeansDone
  <2> QED BY <2>1, <2>2, <2>3, <2>4
<1>3. ASSUME LoginRefused(b) PROVE IInv'
  <2>1. TypeOK'
    BY <1>3, GetSessionKeeps DEF LoginRefused, TypeOK
  <2>2. SessionUserAccepted'
    BY <1>3, GetSessionKeeps DEF LoginRefused, TypeOK, SessionUserAccepted
  <2>3. PassedHasUser'
    BY <1>3, GetSessionKeeps DEF LoginRefused, TypeOK, PassedHasUser, UserOf
  <2>4. NullUserExplained' /\ SuccessMeansDone'
    BY <1>3 DEF LoginRefused, TypeOK, NullUserExplained, SuccessMeansDone
  <2> QED BY <2>1, <2>2, <2>3, <2>4
<1>4. ASSUME ShowLoginForm(b) PROVE IInv'
  <2>1. TypeOK'
    BY <1>4, GetSessionKeeps DEF ShowLoginForm, TypeOK
  <2>2. SessionUserAccepted'
    BY <1>4, GetSessionKeeps DEF ShowLoginForm, TypeOK, SessionUserAccepted
  <2>3. PassedHasUser'
    BY <1>4, GetSessionKeeps DEF ShowLoginForm, TypeOK, PassedHasUser, UserOf
  <2>4. NullUserExplained' /\ SuccessMeansDone'
    BY <1>4 DEF ShowLoginForm, TypeOK, NullUserExplained, SuccessMeansDone
  <2> QED BY <2>1, <2>2, <2>3, <2>4
<1>5. ASSUME SessionEnds(b) PROVE IInv'
  <2>1. TypeOK'
    BY <1>5 DEF SessionEnds, TypeOK
  <2>2. SessionUserAccepted'
    BY <1>5 DEF SessionEnds, TypeOK, SessionUserAccepted
  <2>3. PassedHasUser'
    BY <1>5 DEF SessionEnds, TypeOK, PassedHasUser, UserOf
  <2>4. NullUserExplained' /\ SuccessMeansDone'
    BY <1>5 DEF SessionEnds, TypeOK, NullUserExplained, SuccessMeansDone
  <2> QED BY <2>1, <2>2, <2>3, <2>4
<1> QED BY <1>1, <1>2, <1>3, <1>4, <1>5

LEMMA PageStep ==
  ASSUME IInv, NEW p \in Pages,
         \/ OpenPage(p) \/ Click(p) \/ DoFilter(p) \/ FollowRedirect(p)
         \/ HandleServiceCall(p) \/ DoService(p) \/ ServiceFails(p)
  PROVE  IInv'
<1> USE ConstantsAssumption DEF IInv
<1>0. BrowserOf[p] \in Browsers
  OBVIOUS
<1>1. ASSUME OpenPage(p) PROVE IInv'
  <2>1. CASE UserOf(p) \in Users
    <3>1. Send(p, "tasklist") /\ UNCHANGED <<user, login, approver, accepted, raced>>
      BY <1>1, <2>1 DEF OpenPage
    <3> QED BY <3>1 DEF Send, TypeOK, SessionUserAccepted, PassedHasUser,
                 NullUserExplained, SuccessMeansDone, UserOf, Stages
  <2>2. CASE UserOf(p) \notin Users
    <3>1. /\ GetSession(BrowserOf[p])
          /\ pc' = [pc EXCEPT ![p] = "closed"]
          /\ message' = [message EXCEPT ![p] = "none"]
          /\ done' = [done EXCEPT ![p] = Nobody]
          /\ UNCHANGED <<cmd, login, approver, accepted, raced>>
      BY <1>1, <2>2 DEF OpenPage
    <3>2. TypeOK'
      BY <1>0, <3>1, GetSessionKeeps DEF TypeOK, Stages
    <3>3. SessionUserAccepted' /\ PassedHasUser'
      BY <1>0, <3>1, GetSessionKeeps DEF TypeOK, SessionUserAccepted, PassedHasUser, UserOf
    <3>4. NullUserExplained' /\ SuccessMeansDone'
      BY <3>1 DEF TypeOK, NullUserExplained, SuccessMeansDone
    <3> QED BY <3>2, <3>3, <3>4
  <2> QED BY <2>1, <2>2
<1>2. ASSUME Click(p) PROVE IInv'
  <2>1. PICK c \in {"tasklist", "command"} : Send(p, c)
    BY <1>2 DEF Click
  <2>2. UNCHANGED <<user, login, approver, accepted, raced>>
    BY <1>2 DEF Click
  <2> QED BY <2>1, <2>2 DEF Send, TypeOK, SessionUserAccepted, PassedHasUser,
               NullUserExplained, SuccessMeansDone, UserOf, Stages
<1>3. ASSUME DoFilter(p) PROVE IInv'
  <2>1. TypeOK' /\ SessionUserAccepted'
    BY <1>3 DEF DoFilter, TypeOK, SessionUserAccepted, Stages
  <2>2. PassedHasUser'
    BY <1>3 DEF DoFilter, TypeOK, PassedHasUser, UserOf
  <2>3. NullUserExplained' /\ SuccessMeansDone'
    BY <1>3 DEF DoFilter, TypeOK, NullUserExplained, SuccessMeansDone
  <2> QED BY <2>1, <2>2, <2>3
<1>4. ASSUME FollowRedirect(p) PROVE IInv'
  <2>1. TypeOK'
    BY <1>0, <1>4, GetSessionKeeps DEF FollowRedirect, Answer, TypeOK, Stages
  <2>2. SessionUserAccepted' /\ PassedHasUser'
    BY <1>0, <1>4, GetSessionKeeps
       DEF FollowRedirect, Answer, TypeOK, SessionUserAccepted, PassedHasUser, UserOf
  <2>3. NullUserExplained' /\ SuccessMeansDone'
    BY <1>4 DEF FollowRedirect, Answer, TypeOK, NullUserExplained, SuccessMeansDone
  <2> QED BY <2>1, <2>2, <2>3
<1>5. ASSUME HandleServiceCall(p) PROVE IInv'
  <2>1. TypeOK'
    BY <1>0, <1>5, GetSessionKeeps DEF HandleServiceCall, TypeOK, Stages
  <2>2. SessionUserAccepted' /\ PassedHasUser'
    BY <1>0, <1>5, GetSessionKeeps
       DEF HandleServiceCall, TypeOK, SessionUserAccepted, PassedHasUser, UserOf
  <2>3. NullUserExplained'
    BY <1>5 DEF HandleServiceCall, TypeOK, NullUserExplained, PassedHasUser
  <2>4. SuccessMeansDone'
    BY <1>5 DEF HandleServiceCall, TypeOK, SuccessMeansDone
  <2> QED BY <2>1, <2>2, <2>3, <2>4
<1>6. ASSUME DoService(p) PROVE IInv'
  <2>1. TypeOK'
    BY <1>6 DEF DoService, Answer, TypeOK, Stages
  <2>2. SessionUserAccepted' /\ PassedHasUser' /\ NullUserExplained'
    BY <1>6 DEF DoService, Answer, TypeOK, SessionUserAccepted, PassedHasUser, UserOf,
                NullUserExplained
  <2>3. SuccessMeansDone'
    BY <1>6 DEF DoService, Answer, TypeOK, SuccessMeansDone
  <2> QED BY <2>1, <2>2, <2>3
<1>7. ASSUME ServiceFails(p) PROVE IInv'
  <2>1. TypeOK'
    BY <1>7 DEF ServiceFails, Answer, TypeOK, Stages
  <2>2. SessionUserAccepted' /\ PassedHasUser' /\ NullUserExplained'
    BY <1>7 DEF ServiceFails, Answer, TypeOK, SessionUserAccepted, PassedHasUser, UserOf,
                NullUserExplained
  <2>3. SuccessMeansDone'
    BY <1>7 DEF ServiceFails, Answer, TypeOK, SuccessMeansDone
  <2> QED BY <2>1, <2>2, <2>3
<1> QED BY <1>1, <1>2, <1>3, <1>4, <1>5, <1>6, <1>7

LEMMA Inductive == IInv /\ [Next]_vars => IInv'
<1> SUFFICES ASSUME IInv, [Next]_vars PROVE IInv'
  OBVIOUS
<1>1. CASE Next
  BY <1>1, SessionStep, PageStep DEF Next
<1>2. CASE UNCHANGED vars
  BY <1>2 DEF vars, IInv, TypeOK, SessionUserAccepted, PassedHasUser,
              NullUserExplained, SuccessMeansDone, UserOf
<1> QED BY <1>1, <1>2

(* The invariant in every reachable state.                                 *)
THEOREM InductiveInvariant == Spec => []IInv
BY Initially, Inductive, PTL DEF Spec

(* The types.                                                              *)
THEOREM TypeCorrect == Spec => []TypeOK
<1>1. IInv => TypeOK
  BY DEF IInv
<1> QED BY <1>1, InductiveInvariant, PTL

(* The page reports success only for a command that was carried out.       *)
THEOREM SuccessIsDone == Spec => []SuccessMeansDone
<1>1. IInv => SuccessMeansDone
  BY DEF IInv
<1> QED BY <1>1, InductiveInvariant, PTL

(* A null user reaches the servlet only if the session ended right behind  *)
(* the filter.                                                             *)
THEOREM NullUsersExplained == Spec => []NullUserExplained
<1>1. IInv => NullUserExplained
  BY DEF IInv
<1> QED BY <1>1, InductiveInvariant, PTL

(* A request is taken for a user the platform has accepted in the session  *)
(* the request comes in.                                                   *)
THEOREM RequestsAuthenticated == Spec => Authenticated
<1> DEFINE A == \A p \in Pages : approver'[p] \notin {approver[p], Nobody}
                                   => approver'[p] \in accepted[BrowserOf[p]]
<1>1. IInv /\ [Next]_vars => [A]_vars
  <2> SUFFICES ASSUME IInv, Next PROVE A
    OBVIOUS
  <2> SUFFICES ASSUME NEW p \in Pages, approver'[p] \notin {approver[p], Nobody}
               PROVE  approver'[p] \in accepted[BrowserOf[p]]
    OBVIOUS
  <2>1. ASSUME NEW q \in Pages, HandleServiceCall(q)
        PROVE  approver'[p] \in accepted[BrowserOf[p]]
    <3>1. p = q /\ UserOf(p) \in Users /\ approver'[p] = UserOf(p)
      BY <2>1 DEF HandleServiceCall, IInv, TypeOK
    <3> QED BY <3>1, ConstantsAssumption DEF IInv, SessionUserAccepted, UserOf
  <2>2. ASSUME NEW q \in Pages, FollowRedirect(q) \/ DoService(q) \/ ServiceFails(q)
        PROVE  FALSE
    BY <2>2 DEF FollowRedirect, DoService, ServiceFails, Answer, IInv, TypeOK
  <2>3. ASSUME NEW q \in Pages, OpenPage(q) \/ Click(q) \/ DoFilter(q)
        PROVE  FALSE
    BY <2>3 DEF OpenPage, Click, DoFilter
  <2>4. ASSUME NEW b \in Browsers,
               \/ \E u \in Users : PostLogin(b, u)
               \/ LoginAccepted(b) \/ LoginRefused(b) \/ ShowLoginForm(b) \/ SessionEnds(b)
        PROVE  FALSE
    BY <2>4 DEF PostLogin, LoginAccepted, LoginRefused, ShowLoginForm, SessionEnds
  <2> QED BY <2>1, <2>2, <2>3, <2>4 DEF Next
<1> QED BY <1>1, InductiveInvariant, PTL DEF Spec, Authenticated
=============================================================================
