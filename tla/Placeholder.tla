------------------------------ MODULE Placeholder ------------------------------
(***************************************************************************)
(* Activity.replacePlaceholder, which completes the subject, body, sender  *)
(* and recipients of a mail and, as the same loop, the SQL statements of   *)
(* the chains, from the data of the trigger.  The first "$(" is replaced   *)
(* together with the text up to the first ")" after it; the value put in   *)
(* is scanned again with the rest, so that text typed by a user (a name,   *)
(* a description) may itself hold placeholders, or parts of one.           *)
(*                                                                         *)
(* A string is a sequence of tokens: "$", "(" and ")" are characters of    *)
(* their own, a name stands for the characters of a key.                   *)
(***************************************************************************)
EXTENDS Naturals, Sequences, FiniteSets, SequencesExt

CONSTANTS Names,      \* the keys
          Other,      \* text that is no key
          Missing,    \* the data has no such key
          NullValue,  \* the key is there, with null
          Values,     \* strings the data may hold, with Missing and NullValue
          Templates,  \* strings to complete
          MaxLength   \* bound on the string: one that grows for ever is cut off

Tokens == Names \cup {Other, "$", "(", ")", "null"}

(* No key holds a character of a placeholder; a trigger has so many data.  *)
ASSUME ConstantsAssumption ==
  /\ IsFiniteSet(Names)
  /\ Names \cap {"$", "(", ")"} = {}
  /\ Values \subseteq Seq(Tokens) \cup {Missing, NullValue}
  /\ Templates \subseteq Seq(Tokens)
  /\ MaxLength \in Nat

VARIABLES value,         \* the local of the loop
          result,        \* "working", or how the call ends
          template,      \* the argument
          transmitData   \* [Names -> Values]

vars == <<value, result, template, transmitData>>

TypeOK ==
  /\ value \in Seq(Tokens)
  /\ result \in {"working", "done", "config_error", "out_of_bounds"}
  /\ template \in Templates
  /\ transmitData \in [Names -> Values]

Init ==
  /\ template \in Templates
  /\ transmitData \in [Names -> Values]
  /\ value = template
  /\ result = "working"

-----------------------------------------------------------------------------
Begins(s) == {i \in 1..Len(s) - 1 : s[i] = "$" /\ s[i + 1] = "("}
BeginIndex(s) == Min(Begins(s))

(* Slip: the "$" stays.                                                    *)
FirstOffByOne(s) == SubSeq(s, 1, BeginIndex(s))

(* What comes before the first "$(", and after it.                         *)
First(s) == SubSeq(s, 1, BeginIndex(s) - 1)
Rest(s) == SubSeq(s, BeginIndex(s) + 2, Len(s))
EndIndex(rest) == SelectInSeq(rest, LAMBDA token : token = ")")
Key(rest) == SubSeq(rest, 1, EndIndex(rest) - 1)

(* Slip: get(key) # null is asked instead of containsKey(key).             *)
ContainsKeyNotNull(key) ==
  \E n \in Names : key = <<n>> /\ transmitData[n] \notin {Missing, NullValue}

ContainsKey(key) == \E n \in Names : key = <<n>> /\ transmitData[n] # Missing

(* Slip: a null is put in as it is.                                        *)
TextUnchecked(key) ==
  LET v == transmitData[key[1]] IN IF v = NullValue THEN <<NullValue>> ELSE v

(* A null is concatenated as the text "null".                              *)
Text(key) == LET v == transmitData[key[1]] IN IF v = NullValue THEN <<"null">> ELSE v

(* Slip: the rest begins at the ")", not behind it.                        *)
ReplaceOffByOne ==
  LET rest == Rest(value) IN
  /\ result = "working" /\ Begins(value) # {} /\ Len(value) <= MaxLength
  /\ EndIndex(rest) # 0 /\ ContainsKey(Key(rest))
  /\ value' = First(value) \o Text(Key(rest)) \o SubSeq(rest, EndIndex(rest), Len(rest))
  /\ UNCHANGED <<result, template, transmitData>>

(* One round of the loop.                                                  *)
Replace ==
  LET rest == Rest(value) IN
  /\ result = "working" /\ Begins(value) # {} /\ Len(value) <= MaxLength
  /\ EndIndex(rest) # 0 /\ ContainsKey(Key(rest))
  /\ value' = First(value) \o Text(Key(rest))
                \o SubSeq(rest, EndIndex(rest) + 1, Len(rest))
  /\ UNCHANGED <<result, template, transmitData>>

(* Slip: a key that is missing is passed over.                             *)
KeyMissingIgnored ==
  LET rest == Rest(value) IN
  /\ result = "working" /\ Begins(value) # {}
  /\ EndIndex(rest) # 0 /\ ~ContainsKey(Key(rest))
  /\ UNCHANGED vars

KeyMissing ==
  LET rest == Rest(value) IN
  /\ result = "working" /\ Begins(value) # {}
  /\ EndIndex(rest) # 0 /\ ~ContainsKey(Key(rest))
  /\ result' = "config_error"
  /\ UNCHANGED <<value, template, transmitData>>

(* substring(0, -1): StringIndexOutOfBoundsException.                      *)
NoEnd ==
  /\ result = "working" /\ Begins(value) # {}
  /\ EndIndex(Rest(value)) = 0
  /\ result' = "out_of_bounds"
  /\ UNCHANGED <<value, template, transmitData>>

(* Slip: the loop gives up on a text that has become too long.             *)
ReturnAtLimit ==
  /\ result = "working" /\ (Begins(value) = {} \/ Len(value) > MaxLength)
  /\ result' = "done"
  /\ UNCHANGED <<value, template, transmitData>>

Return ==
  /\ result = "working" /\ Begins(value) = {}
  /\ result' = "done"
  /\ UNCHANGED <<value, template, transmitData>>

Next == Replace \/ KeyMissing \/ NoEnd \/ Return

(* The loop runs on in its thread.                                         *)
Spec == Init /\ [][Next]_vars /\ WF_vars(Next)

-----------------------------------------------------------------------------
(* The names a string mentions; those its placeholders stand for; and the  *)
(* same of a value in the data.                                            *)
Mentions(s) == Names \cap Range(s)
Uses(s) == {n \in Names : \E i \in Begins(s) : i + 2 <= Len(s) /\ s[i + 2] = n}

IsText(v) == v \notin {Missing, NullValue}
MentionedBy(n) == IF IsText(transmitData[n]) THEN Mentions(transmitData[n]) ELSE {}
UsedBy(n) == IF IsText(transmitData[n]) THEN Uses(transmitData[n]) ELSE {}

(* What is reached from some names by way of the data: what is in every    *)
(* set that holds them and all that its members lead to.                   *)
Reach(ns) ==
  {n \in Names : \A S \in SUBSET Names :
     ns \subseteq S /\ (\A m \in S : MentionedBy(m) \subseteq S) => n \in S}
UsedFrom(ns) ==
  {n \in Names : \A S \in SUBSET Names :
     ns \subseteq S /\ (\A m \in S : UsedBy(m) \subseteq S) => n \in S}

(* No value leads back to itself.                                          *)
Acyclic(s) == \A n \in Reach(Mentions(s)) : n \notin Reach(MentionedBy(n))

(* A placeholder; and a string whose every "$" begins one.                 *)
Ref(n) == <<"$", "(", n, ")">>
Whole(s) == \A i \in 1..Len(s) : s[i] = "$" =>
  /\ i + 3 <= Len(s)
  /\ s[i + 1] = "(" /\ s[i + 2] \in Names /\ s[i + 3] = ")"

(* The keys a text needs, itself or by way of a value; and a text which is *)
(* put together of whole placeholders only.                                *)
Needed == UsedFrom(Uses(template))
WellFormed ==
  /\ Whole(template)
  /\ \A n \in Needed : IsText(transmitData[n]) => Whole(transmitData[n])

(* Such a text is completed just if all the keys it needs are there, and   *)
(* fails for no other reason: the order in which the loop meets them, what *)
(* a value brings in and a null, which is a text, make no difference       *)
(* (Activity.java, replacePlaceholder).                                    *)
FailureExplained ==
  WellFormed =>
    /\ result # "out_of_bounds"
    /\ result = "config_error" => \E n \in Needed : transmitData[n] = Missing
    /\ result = "done" => \A n \in Needed : transmitData[n] # Missing

(* The reference for a completed text: every placeholder stands for the    *)
(* expansion of its value, and what is around it stays.  The texts are     *)
(* those put together from the keys the template needs.                    *)
Texts == {s \in Seq(Tokens) : Whole(s) /\ Uses(s) \subseteq Needed}
Expansion[s \in Texts] ==
  IF s = <<>> THEN <<>>
  ELSE IF s[1] = "$" THEN Expansion[Text(<<s[3]>>)] \o Expansion[SubSeq(s, 5, Len(s))]
  ELSE <<s[1]>> \o Expansion[Tail(s)]

(* Such a text comes out, if it does, with every placeholder expanded,     *)
(* whatever order the loop meets them in: what a value brings in never     *)
(* runs into the text around it (Activity.java, replacePlaceholder).       *)
DoneIsExpanded == result = "done" /\ WellFormed => value = Expansion[template]

(* And it comes out only if no key it needs leads back to itself: where    *)
(* one does, the loop never gives up with a text that is half completed    *)
(* (Activity.java, replacePlaceholder).                                    *)
NoneCircular ==
  result = "done" /\ WellFormed => \A n \in Needed : n \notin UsedFrom(UsedBy(n))

(* What keeps it up: the string stays whole, brings in no key the template *)
(* does not need, and loses none that is missing.                          *)
IInv ==
  /\ TypeOK
  /\ FailureExplained
  /\ result = "done" => Begins(value) = {}
  /\ WellFormed =>
       /\ Whole(value)
       /\ Uses(value) \subseteq Needed
       /\ \A n \in Needed : transmitData[n] = Missing => n \in UsedFrom(Uses(value))

(* A text that can be completed, and the rounds it takes: one for each     *)
(* placeholder it holds, and those of its value.                           *)
Completable ==
  /\ WellFormed
  /\ \A n \in Needed : transmitData[n] # Missing /\ n \notin UsedFrom(UsedBy(n))
Rounds[s \in Texts] ==
  IF s = <<>> THEN 0
  ELSE IF s[1] = "$" THEN 1 + Rounds[Text(<<s[3]>>)] + Rounds[SubSeq(s, 5, Len(s))]
  ELSE Rounds[Tail(s)]

(* Every round leaves one round fewer to make, however much longer it      *)
(* makes the text (Activity.java, replacePlaceholder).                     *)
OneRoundFewer ==
  Completable /\ value' # value => value' \in Texts /\ Rounds[value] = Rounds[value'] + 1
RoundsFall == [][OneRoundFewer]_vars

(* The call ends unless some value leads back to itself, even if the       *)
(* values and the text around them make placeholders only when they meet.  *)
Ends == Acyclic(template) ~> result # "working"
=============================================================================
