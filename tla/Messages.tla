------------------------------- MODULE Messages -------------------------------
(***************************************************************************)
(* The texts of the application (Messages.java): one bundle for all        *)
(* threads of the server, in a static field that setLocale replaces and    *)
(* get reads, with no synchronization.  A call of the platform sets it to  *)
(* the locale of the requesting user and then takes texts for the mail and *)
(* the price; a request that opens a task takes the texts of the price     *)
(* first and then sets it; one that lists tasks takes a text for every row *)
(* and sets nothing.                                                       *)
(*                                                                         *)
(* The field is neither volatile nor guarded by a lock: a read may return  *)
(* any bundle installed so far, except those the same thread has already   *)
(* seen replaced (a thread's reads of one field are in order; between two  *)
(* of them lie calls no compiler moves a read across).                     *)
(***************************************************************************)
EXTENDS Naturals, Sequences

CONSTANTS Threads,   \* calls and requests, each in a thread
          Bundles,   \* the property files: messages.properties, _de, _en, _ja
          Default,   \* the bundle of the server's own locale
          NoLocale,  \* the user has no locale
          LocaleOf,  \* [Threads -> Bundles \cup {NoLocale}]: what getBundle finds
          JobOf,     \* [Threads -> Jobs]
          MaxTexts   \* bound on the texts a thread takes

Jobs == {"trigger", "open", "list"}

ASSUME ConstantsAssumption ==
  /\ Default \in Bundles
  /\ NoLocale \notin Bundles
  /\ LocaleOf \in [Threads -> Bundles \cup {NoLocale}]
  /\ JobOf \in [Threads -> Jobs]
  /\ MaxTexts \in Nat

VARIABLES
  installed,  \* every bundle RESOURCE_BUNDLE has held, in order
  oldest,     \* [Threads -> Nat]: the oldest of them the thread may still read
  own,        \* [Threads -> Nat]: the one it has set itself, 0 if none
  step,       \* [Threads -> {"start", "texts", "done"}]
  texts       \* [Threads -> Seq(Bundles)]: the bundle of each text it has taken

vars == <<installed, oldest, own, step, texts>>

(* The types; and a thread does not see a bundle older than its own.       *)
TypeOK ==
  /\ installed \in Seq(Bundles)
  /\ Len(installed) > 0
  /\ oldest \in [Threads -> Nat]
  /\ own \in [Threads -> Nat]
  /\ step \in [Threads -> {"start", "texts", "done"}]
  /\ texts \in [Threads -> Seq(Bundles)]
  /\ \A th \in Threads : /\ oldest[th] \in 1..Len(installed)
                         /\ own[th] \in 0..oldest[th]

Init ==
  /\ installed = <<Default>>
  /\ oldest = [th \in Threads |-> 1]
  /\ own = [th \in Threads |-> 0]
  /\ step = [th \in Threads |-> IF JobOf[th] = "trigger" THEN "start" ELSE "texts"]
  /\ texts = [th \in Threads |-> <<>>]

(* Slip: a null locale is not caught.                                      *)
SetLocaleUnchecked(th) ==
  /\ installed' = Append(installed, LocaleOf[th])
  /\ oldest' = [oldest EXCEPT ![th] = Len(installed) + 1]
  /\ own' = [own EXCEPT ![th] = Len(installed) + 1]

(* setLocale; a locale that is null leaves the bundle of whoever was last. *)
SetLocale(th) ==
  IF LocaleOf[th] = NoLocale THEN UNCHANGED <<installed, oldest, own>>
  ELSE /\ installed' = Append(installed, LocaleOf[th])
       /\ oldest' = [oldest EXCEPT ![th] = Len(installed) + 1]
       /\ own' = [own EXCEPT ![th] = Len(installed) + 1]

(* Slip: a text is taken before the locale is set.                         *)
ReadUserDetailsLate(th) ==
  /\ JobOf[th] = "trigger" /\ step[th] = "start"
  /\ SetLocale(th)
  /\ \E i \in oldest[th]..Len(installed) : texts' = [texts EXCEPT ![th] = <<installed[i]>>]
  /\ step' = [step EXCEPT ![th] = "texts"]

(* ApprovalTask, its constructor: getUserDetails, then setLocale ...       *)
ReadUserDetails(th) ==
  /\ JobOf[th] = "trigger" /\ step[th] = "start"
  /\ SetLocale(th)
  /\ step' = [step EXCEPT ![th] = "texts"]
  /\ UNCHANGED texts

(* ... which is skipped when the details cannot be had, or there is no     *)
(* process that names a user.                                              *)
NoUserDetails(th) ==
  /\ JobOf[th] = "trigger" /\ step[th] = "start"
  /\ step' = [step EXCEPT ![th] = "texts"]
  /\ UNCHANGED <<installed, oldest, own, texts>>

(* DataAccessService.getTask: after the texts of the price, and the locale *)
(* is the requesting user's, not the approver's.                           *)
GetTask(th) ==
  /\ JobOf[th] = "open" /\ step[th] = "texts"
  /\ SetLocale(th)
  /\ step' = [step EXCEPT ![th] = "done"]
  /\ UNCHANGED texts

(* get.                                                                    *)
Get(th) ==
  /\ step[th] = "texts"
  /\ Len(texts[th]) < MaxTexts
  /\ \E i \in oldest[th]..Len(installed) :
       /\ texts' = [texts EXCEPT ![th] = Append(@, installed[i])]
       /\ oldest' = [oldest EXCEPT ![th] = i]
  /\ UNCHANGED <<installed, own, step>>

(* The call or request is over; a container may use the thread again.      *)
Finish(th) ==
  /\ JobOf[th] # "open" /\ step[th] = "texts"
  /\ step' = [step EXCEPT ![th] = "done"]
  /\ UNCHANGED <<installed, oldest, own, texts>>

Next == \E th \in Threads :
  \/ ReadUserDetails(th) \/ NoUserDetails(th) \/ GetTask(th) \/ Get(th) \/ Finish(th)

Spec == Init /\ [][Next]_vars

-----------------------------------------------------------------------------
(* A mail is in the language of the user who asked, as far as his details  *)
(* could be had, unless another call or request has replaced the bundle    *)
(* since: a text in another language is of a bundle installed after his.   *)
(* No earlier user's language survives setLocale (ApprovalTask.java, the   *)
(* constructor and startApprovalProcess).                                  *)
ForeignTextExplained ==
  \A th \in Threads :
    JobOf[th] = "trigger" /\ own[th] # 0 => \A k \in DOMAIN texts[th] :
      \/ texts[th][k] = LocaleOf[th]
      \/ \E i \in (own[th] + 1)..Len(installed) : installed[i] = texts[th][k]

(* What a thread has set is where it says it has.                          *)
OwnIsOwn == \A th \in Threads : own[th] # 0 => installed[own[th]] = LocaleOf[th]

(* A thread takes its texts after it has set the locale.                   *)
TextsAfterLocale ==
  \A th \in Threads : /\ step[th] = "start" => Len(texts[th]) = 0
                      /\ JobOf[th] # "trigger" => step[th] # "start"

IInv == TypeOK /\ OwnIsOwn /\ TextsAfterLocale /\ ForeignTextExplained
=============================================================================
