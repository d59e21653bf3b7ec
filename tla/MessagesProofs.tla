---------------------------- MODULE MessagesProofs ----------------------------
(***************************************************************************)
(* For any number of threads, languages and texts: the types of Messages,  *)
(* and that a mail in another language is explained by a later setLocale.  *)
(***************************************************************************)
EXTENDS Messages, SequenceTheorems, TLAPS

(* A thread that sets the locale: the bundle is the newest, and its own.   *)
LEMMA SetLocaleKeeps ==
  ASSUME IInv, NEW th \in Threads, SetLocale(th)
  PROVE  /\ installed' \in Seq(Bundles)
         /\ Len(installed') >= Len(installed)
         /\ \A i \in 1..Len(installed) : installed'[i] = installed[i]
         /\ oldest' \in [Threads -> Nat]
         /\ own' \in [Threads -> Nat]
         /\ \A u \in Threads : /\ oldest'[u] \in 1..Len(installed')
                               /\ own'[u] \in 0..oldest'[u]
                               /\ own'[u] # own[u] => u = th
                               /\ own'[u] # 0 => installed'[own'[u]] = LocaleOf[u]
<1> USE ConstantsAssumption DEF IInv, TypeOK, OwnIsOwn
<1>1. CASE LocaleOf[th] = NoLocale
  <2>1. UNCHANGED <<installed, oldest, own>>
    BY <1>1 DEF SetLocale
  <2> QED BY <2>1
<1>2. CASE LocaleOf[th] # NoLocale
  <2>1. /\ installed' = Append(installed, LocaleOf[th])
        /\ oldest' = [oldest EXCEPT ![th] = Len(installed) + 1]
        /\ own' = [own EXCEPT ![th] = Len(installed) + 1]
    BY <1>2 DEF SetLocale
  <2>2. LocaleOf[th] \in Bundles
    BY <1>2
  <2>3. /\ installed' \in Seq(Bundles)
        /\ Len(installed') = Len(installed) + 1
        /\ \A i \in 1..Len(installed) : installed'[i] = installed[i]
        /\ installed'[Len(installed) + 1] = LocaleOf[th]
        /\ Len(installed) \in Nat
    BY <2>1, <2>2
  <2> HIDE <2>1
  <2>4. /\ oldest' = [oldest EXCEPT ![th] = Len(installed) + 1]
        /\ own' = [own EXCEPT ![th] = Len(installed) + 1]
    BY <2>1
  <2>5. ASSUME NEW u \in Threads
        PROVE  /\ oldest'[u] \in 1..Len(installed')
               /\ own'[u] \in 0..oldest'[u]
               /\ own'[u] # own[u] => u = th
               /\ own'[u] # 0 => installed'[own'[u]] = LocaleOf[u]
    <3>1. CASE u = th
      BY <2>3, <2>4, <3>1
    <3>2. CASE u # th
      <4>1. oldest'[u] = oldest[u] /\ own'[u] = own[u]
        BY <2>4, <3>2
      <4>2. /\ oldest[u] \in 1..Len(installed)
            /\ own[u] \in 0..oldest[u]
            /\ own[u] # 0 => installed[own[u]] = LocaleOf[u]
        OBVIOUS
      <4>3. own[u] # 0 => own[u] \in 1..Len(installed)
        BY <4>2, <2>3
      <4> HIDE DEF IInv, TypeOK, OwnIsOwn
      <4> QED BY <2>3, <3>2, <4>1, <4>2, <4>3
    <3> QED BY <3>1, <3>2
  <2> QED BY <2>3, <2>4, <2>5
<1> QED BY <1>1, <1>2

(* The invariant holds initially and every action preserves it.            *)
LEMMA Initially == Init => IInv
BY ConstantsAssumption DEF Init, IInv, TypeOK, OwnIsOwn, TextsAfterLocale,
     ForeignTextExplained, Jobs

LEMMA ReadUserDetailsKeeps ==
  ASSUME IInv, NEW th \in Threads, ReadUserDetails(th)
  PROVE  IInv'
<1>1. SetLocale(th) /\ UNCHANGED texts
  BY DEF ReadUserDetails
<1>2. TypeOK' /\ OwnIsOwn' /\ TextsAfterLocale'
  BY <1>1, SetLocaleKeeps, SMTT(30)
     DEF IInv, TypeOK, OwnIsOwn, TextsAfterLocale, ReadUserDetails
<1>3. ForeignTextExplained'
  <2> SUFFICES ASSUME NEW u \in Threads, JobOf[u] = "trigger", own'[u] # 0,
                      NEW k \in DOMAIN texts'[u]
               PROVE  \/ texts'[u][k] = LocaleOf[u]
                      \/ \E i \in (own'[u] + 1)..Len(installed') :
                            installed'[i] = texts'[u][k]
    BY DEF ForeignTextExplained
  <2>1. u # th
    <3>1. texts' = texts
      BY <1>1
    <3>2. step[th] = "start"
      BY DEF ReadUserDetails
    <3>3. Len(texts[th]) = 0 /\ texts[th] \in Seq(Bundles)
      BY <3>2 DEF IInv, TypeOK, TextsAfterLocale
    <3>4. DOMAIN texts'[th] = {}
      BY <3>1, <3>3
    <3> QED BY <3>4
  <2>2. own'[u] = own[u] /\ texts'[u] = texts[u]
    BY <1>1, <2>1, SetLocaleKeeps
  <2>3. \/ texts[u][k] = LocaleOf[u]
        \/ \E i \in (own[u] + 1)..Len(installed) : installed[i] = texts[u][k]
    BY <2>2 DEF IInv, ForeignTextExplained
  <2>4. /\ Len(installed') >= Len(installed)
        /\ \A i \in 1..Len(installed) : installed'[i] = installed[i]
        /\ Len(installed) \in Nat /\ Len(installed') \in Nat /\ own[u] \in Nat
    BY <1>1, SetLocaleKeeps, SMTT(30) DEF IInv, TypeOK
  <2> QED BY <2>2, <2>3, <2>4
<1> QED BY <1>2, <1>3 DEF IInv

LEMMA GetTaskKeeps ==
  ASSUME IInv, NEW th \in Threads, GetTask(th)
  PROVE  IInv'
<1>1. SetLocale(th) /\ UNCHANGED texts /\ JobOf[th] = "open"
  BY DEF GetTask
<1>2. TypeOK' /\ OwnIsOwn' /\ TextsAfterLocale'
  BY <1>1, SetLocaleKeeps
     DEF IInv, TypeOK, OwnIsOwn, TextsAfterLocale, GetTask
<1>3. ForeignTextExplained'
  <2> SUFFICES ASSUME NEW u \in Threads, JobOf[u] = "trigger", own'[u] # 0,
                      NEW k \in DOMAIN texts'[u]
               PROVE  \/ texts'[u][k] = LocaleOf[u]
                      \/ \E i \in (own'[u] + 1)..Len(installed') :
                            installed'[i] = texts'[u][k]
    BY DEF ForeignTextExplained
  <2>1. own'[u] = own[u] /\ texts'[u] = texts[u]
    BY <1>1, SetLocaleKeeps
  <2>2. \/ texts[u][k] = LocaleOf[u]
        \/ \E i \in (own[u] + 1)..Len(installed) : installed[i] = texts[u][k]
    BY <2>1 DEF IInv, ForeignTextExplained
  <2>3. /\ Len(installed') >= Len(installed)
        /\ \A i \in 1..Len(installed) : installed'[i] = installed[i]
        /\ Len(installed) \in Nat /\ Len(installed') \in Nat /\ own[u] \in Nat
    BY <1>1, SetLocaleKeeps, SMTT(30) DEF IInv, TypeOK
  <2> QED BY <2>1, <2>2, <2>3
<1> QED BY <1>2, <1>3 DEF IInv

(* A text is of a bundle no older than the thread's own.                   *)
LEMMA GetKeeps ==
  ASSUME IInv, NEW th \in Threads, Get(th)
  PROVE  IInv'
<1> USE DEF IInv, TypeOK
<1>1. PICK i \in oldest[th]..Len(installed) :
        /\ texts' = [texts EXCEPT ![th] = Append(@, installed[i])]
        /\ oldest' = [oldest EXCEPT ![th] = i]
  BY DEF Get
<1>2. UNCHANGED <<installed, own, step>> /\ step[th] = "texts"
  BY DEF Get
<1>3. installed[i] \in Bundles /\ i \in 1..Len(installed) /\ own[th] \in 0..i
  BY <1>1
<1>4. Append(texts[th], installed[i]) \in Seq(Bundles)
  BY <1>3
<1>5. TypeOK'
  BY <1>1, <1>2, <1>3, <1>4
<1>6. OwnIsOwn' /\ TextsAfterLocale'
  BY <1>1, <1>2 DEF OwnIsOwn, TextsAfterLocale
<1>7. ForeignTextExplained'
  <2> SUFFICES ASSUME NEW u \in Threads, JobOf[u] = "trigger", own[u] # 0,
                      NEW k \in DOMAIN texts'[u]
               PROVE  \/ texts'[u][k] = LocaleOf[u]
                      \/ \E j \in (own[u] + 1)..Len(installed) :
                            installed[j] = texts'[u][k]
    BY <1>2 DEF ForeignTextExplained
  <2>1. CASE u # th \/ k \in DOMAIN texts[u]
    <3>1. texts'[u][k] = texts[u][k] /\ k \in DOMAIN texts[u]
      BY <1>1, <1>3, <2>1
    <3> QED BY <3>1 DEF ForeignTextExplained
  <2>2. CASE u = th /\ k \notin DOMAIN texts[u]
    <3>1. texts'[u][k] = installed[i]
      BY <1>1, <1>3, <2>2
    <3>2. CASE i = own[u]
      BY <3>1, <3>2 DEF OwnIsOwn
    <3>3. CASE i # own[u]
      BY <1>3, <2>2, <3>1, <3>3
    <3> QED BY <3>2, <3>3
  <2> QED BY <2>1, <2>2
<1> QED BY <1>5, <1>6, <1>7

LEMMA Inductive == IInv /\ [Next]_vars => IInv'
<1> SUFFICES ASSUME IInv, [Next]_vars PROVE IInv'
  OBVIOUS
<1>1. ASSUME NEW th \in Threads, ReadUserDetails(th) PROVE IInv'
  BY <1>1, ReadUserDetailsKeeps
<1>2. ASSUME NEW th \in Threads, NoUserDetails(th) PROVE IInv'
  BY <1>2 DEF NoUserDetails, IInv, TypeOK, OwnIsOwn, TextsAfterLocale,
              ForeignTextExplained
<1>3. ASSUME NEW th \in Threads, GetTask(th) PROVE IInv'
  BY <1>3, GetTaskKeeps
<1>4. ASSUME NEW th \in Threads, Get(th) PROVE IInv'
  BY <1>4, GetKeeps
<1>5. ASSUME NEW th \in Threads, Finish(th) PROVE IInv'
  BY <1>5 DEF Finish, IInv, TypeOK, OwnIsOwn, TextsAfterLocale,
              ForeignTextExplained
<1>6. CASE UNCHANGED vars
  BY <1>6 DEF vars, IInv, TypeOK, OwnIsOwn, TextsAfterLocale, ForeignTextExplained
<1> QED BY <1>1, <1>2, <1>3, <1>4, <1>5, <1>6 DEF Next

(* The invariant in every reachable state.                                 *)
THEOREM InductiveInvariant == Spec => []IInv
BY Initially, Inductive, PTL DEF Spec

(* No text in a mail is of a language set before its user's own: setLocale *)
(* and get of Messages.java as the constructor of ApprovalTask and         *)
(* startApprovalProcess use them.                                          *)
THEOREM TextsExplained == Spec => []ForeignTextExplained
<1>1. IInv => ForeignTextExplained
  BY DEF IInv
<1> QED BY <1>1, InductiveInvariant, PTL

(* The types: a null locale is never installed.                            *)
THEOREM TypeCorrect == Spec => []TypeOK
<1>1. IInv => TypeOK
  BY DEF IInv
<1> QED BY <1>1, InductiveInvariant, PTL
=============================================================================
