--------------------------- MODULE PlaceholderProofs ---------------------------
(***************************************************************************)
(* Proofs about Placeholder: the loop of replacePlaceholder for all keys,  *)
(* values and templates.  What the loop does to a string of whole          *)
(* placeholders is one lemma (Round); what it does to the keys needed      *)
(* rests on it.                                                            *)
(***************************************************************************)
EXTENDS Placeholder, SequenceTheorems, FiniteSetTheorems, WellFoundedInduction, TLAPS

-----------------------------------------------------------------------------
(* The helpers of the loop.                                                *)

LEMMA Minimum ==
  ASSUME NEW S \in SUBSET Nat, S # {}
  PROVE  Min(S) \in S /\ \A y \in S : Min(S) <= y
<1> DEFINE less == {ss \in Nat \X Nat : ss[1] < ss[2]}
<1>1. IsWellFoundedOn(less, Nat)
  BY NatLessThanWellFounded, Zenon DEF OpToRel
<1>2. \E x \in S : \A y \in S : ~(<<y, x>> \in less)
  <2> HIDE DEF less
  <2>1. QED
    BY <1>1, WFMin
<1>3. \E x \in S : \A y \in S : x <= y
  <2>1. PICK x \in S : \A y \in S : <<y, x>> \notin less
    BY <1>2
  <2>2. ASSUME NEW y \in S, y < x PROVE <<y, x>> \in less
    <3>1. <<y, x>> \in Nat \X Nat /\ <<y, x>>[1] = y /\ <<y, x>>[2] = x
      OBVIOUS
    <3>2. <<y, x>>[1] < <<y, x>>[2]
      BY <2>2, <3>1
    <3>3. QED
      BY <3>1, <3>2, Zenon
  <2>3. ASSUME NEW y \in S PROVE x <= y
    <3> HIDE DEF less
    <3>1. ~(y < x)
      BY <2>1, <2>2
    <3>2. x \in Nat /\ y \in Nat
      OBVIOUS
    <3>3. QED
      BY <3>1, <3>2
  <2>4. QED
    BY <2>3
<1>4. QED
  BY <1>3, Zenon DEF Min

(* The first "$(", and what stands before and after it.                    *)
LEMMA BeginFirst ==
  ASSUME NEW s \in Seq(Tokens), Begins(s) # {}
  PROVE  /\ BeginIndex(s) \in 1..Len(s) - 1
         /\ s[BeginIndex(s)] = "$" /\ s[BeginIndex(s) + 1] = "("
         /\ \A i \in Begins(s) : BeginIndex(s) <= i
<1>1. Begins(s) \in SUBSET Nat
  BY DEF Begins
<1>2. BeginIndex(s) \in Begins(s) /\ \A i \in Begins(s) : BeginIndex(s) <= i
  BY <1>1, Minimum DEF BeginIndex
<1>3. QED
  BY <1>2 DEF Begins

LEMMA FirstAndRest ==
  ASSUME NEW s \in Seq(Tokens), Begins(s) # {}
  PROVE  /\ First(s) \in Seq(Tokens) /\ Len(First(s)) = BeginIndex(s) - 1
         /\ \A i \in 1..BeginIndex(s) - 1 : First(s)[i] = s[i]
         /\ Rest(s) \in Seq(Tokens) /\ Len(Rest(s)) = Len(s) - BeginIndex(s) - 1
         /\ \A i \in 1..Len(s) - BeginIndex(s) - 1 : Rest(s)[i] = s[BeginIndex(s) + 1 + i]
<1>1. BeginIndex(s) \in 1..Len(s) - 1 /\ Len(s) \in Nat
  BY BeginFirst
<1>2. \A i \in 1..Len(s) : s[i] \in Tokens
  BY ElementOfSeq
<1>3. /\ First(s) \in Seq(Tokens) /\ Len(First(s)) = BeginIndex(s) - 1
      /\ \A i \in 1..BeginIndex(s) - 1 : First(s)[i] = s[i]
  <2>1. \A i \in 1..BeginIndex(s) - 1 : s[i] \in Tokens
    BY <1>1, <1>2
  <2>2. QED
    BY <1>1, <2>1, SubSeqProperties DEF First
<1>4. /\ Rest(s) \in Seq(Tokens) /\ Len(Rest(s)) = Len(s) - BeginIndex(s) - 1
      /\ \A i \in 1..Len(s) - BeginIndex(s) - 1 : Rest(s)[i] = s[BeginIndex(s) + 1 + i]
  <2>1. \A i \in BeginIndex(s) + 2..Len(s) : s[i] \in Tokens
    BY <1>1, <1>2
  <2>2. QED
    BY <1>1, <2>1, SubSeqProperties DEF Rest
<1>5. QED
  BY <1>3, <1>4

(* The first ")", if there is one, and the string behind it.               *)
LEMMA EndFirst ==
  ASSUME NEW rest \in Seq(Tokens)
  PROVE  /\ EndIndex(rest) \in 0..Len(rest)
         /\ EndIndex(rest) # 0 => rest[EndIndex(rest)] = ")"
         /\ \A i \in 1..Len(rest) :
              rest[i] = ")" => EndIndex(rest) # 0 /\ EndIndex(rest) <= i
<1> DEFINE ends == {i \in 1..Len(rest) : rest[i] = ")"}
<1>1. ends \in SUBSET Nat
  OBVIOUS
<1>2. EndIndex(rest) = IF ends # {} THEN Min(ends) ELSE 0
  BY DEF EndIndex, SelectInSeq
<1>3. ends # {} => Min(ends) \in ends /\ \A i \in ends : Min(ends) <= i
  BY <1>1, Minimum
<1>4. Len(rest) \in Nat
  BY LenProperties
<1>5. CASE ends = {}
  BY <1>2, <1>4, <1>5
<1>6. CASE ends # {}
  <2>1. /\ EndIndex(rest) \in 1..Len(rest) /\ rest[EndIndex(rest)] = ")"
        /\ \A i \in ends : EndIndex(rest) <= i
    <3> HIDE DEF ends
    <3>1. EndIndex(rest) \in ends /\ \A i \in ends : EndIndex(rest) <= i
      BY <1>2, <1>3, <1>6
    <3>2. QED
      BY <3>1 DEF ends
  <2>2. QED
    BY <2>1, <1>4
<1>7. QED
  BY <1>5, <1>6

LEMMA Behind ==
  ASSUME NEW rest \in Seq(Tokens), EndIndex(rest) # 0
  PROVE  LET tail == SubSeq(rest, EndIndex(rest) + 1, Len(rest))
         IN  /\ tail \in Seq(Tokens) /\ Len(tail) = Len(rest) - EndIndex(rest)
             /\ \A i \in 1..Len(rest) - EndIndex(rest) : tail[i] = rest[EndIndex(rest) + i]
<1>1. EndIndex(rest) \in 1..Len(rest) /\ Len(rest) \in Nat
  BY EndFirst
<1> DEFINE m == EndIndex(rest) + 1
           n == Len(rest)
<1>2. m \in Int /\ n \in Int /\ m <= n + 1 /\ m - 1 = EndIndex(rest)
  BY <1>1
<1>3. \A i \in m..n : rest[i] \in Tokens
  BY <1>1, ElementOfSeq
<1>4. /\ SubSeq(rest, m, n) \in Seq(Tokens)
      /\ Len(SubSeq(rest, m, n)) = IF m <= n THEN n - m + 1 ELSE 0
      /\ \A i \in 1..n - m + 1 : SubSeq(rest, m, n)[i] = rest[m + i - 1]
  <2> HIDE DEF m, n
  <2>1. QED
    BY <1>2, <1>3, SubSeqProperties
<1>5. QED
  BY <1>1, <1>4

(* The text put in for a key that is there.                                *)
LEMMA TextIsString ==
  ASSUME TypeOK, NEW key, ContainsKey(key)
  PROVE  Text(key) \in Seq(Tokens)
<1>1. PICK n \in Names : key = <<n>> /\ transmitData[n] # Missing
  BY DEF ContainsKey
<1>2. transmitData[n] \in Seq(Tokens) \cup {NullValue}
  BY <1>1, ConstantsAssumption DEF TypeOK
<1>3. <<"null">> \in Seq(Tokens)
  BY DEF Tokens
<1>4. QED
  BY <1>1, <1>2, <1>3 DEF Text

-----------------------------------------------------------------------------
(* Strings of whole placeholders.                                          *)

LEMMA ConcatWhole ==
  ASSUME NEW s \in Seq(Tokens), NEW t \in Seq(Tokens), Whole(s), Whole(t)
  PROVE  Whole(s \o t) /\ Uses(s \o t) = Uses(s) \cup Uses(t)
<1>1. /\ Len(s) \in Nat /\ Len(t) \in Nat
      /\ s \o t \in Seq(Tokens) /\ Len(s \o t) = Len(s) + Len(t)
      /\ \A i \in 1..Len(s) + Len(t) :
           (s \o t)[i] = IF i <= Len(s) THEN s[i] ELSE t[i - Len(s)]
  BY ConcatProperties, LenProperties
<1>2. /\ \A i \in 1..Len(s) : (s \o t)[i] = s[i]
      /\ \A j \in 1..Len(t) : (s \o t)[Len(s) + j] = t[j]
  BY <1>1
<1>3. Whole(s \o t)
  <2> SUFFICES ASSUME NEW i \in 1..Len(s) + Len(t), (s \o t)[i] = "$"
               PROVE  /\ i + 3 <= Len(s) + Len(t)
                      /\ (s \o t)[i + 1] = "(" /\ (s \o t)[i + 2] \in Names
                      /\ (s \o t)[i + 3] = ")"
    BY <1>1 DEF Whole
  <2>1. CASE i <= Len(s)
    <3>1. i + 3 <= Len(s) /\ s[i + 1] = "(" /\ s[i + 2] \in Names /\ s[i + 3] = ")"
      BY <1>1, <1>2, <2>1 DEF Whole
    <3>2. QED
      BY <1>1, <1>2, <3>1
  <2>2. CASE i > Len(s)
    <3> DEFINE j == i - Len(s)
    <3>1. j \in 1..Len(t) /\ i = Len(s) + j
      BY <1>1, <2>2
    <3>2. j + 3 <= Len(t) /\ t[j + 1] = "(" /\ t[j + 2] \in Names /\ t[j + 3] = ")"
      <4>1. t[j] = "$"
        BY <1>1, <2>2
      <4>2. QED
        BY <3>1, <4>1 DEF Whole
    <3>3. /\ (s \o t)[i + 1] = t[j + 1] /\ (s \o t)[i + 2] = t[j + 2]
          /\ (s \o t)[i + 3] = t[j + 3]
      BY <1>1, <3>1, <3>2, SMTT(30)
    <3>4. QED
      BY <1>1, <3>1, <3>2, <3>3, SMTT(30)
  <2>3. QED
    BY <1>1, <2>1, <2>2, SMTT(30)
<1>4. ASSUME NEW n \in Uses(s) PROVE n \in Uses(s \o t)
  <2>1. PICK i \in Begins(s) : i + 2 <= Len(s) /\ s[i + 2] = n
    BY <1>4 DEF Uses
  <2>2. i \in Begins(s \o t) /\ i + 2 <= Len(s \o t) /\ (s \o t)[i + 2] = n
    BY <1>1, <1>2, <2>1 DEF Begins
  <2>3. QED
    BY <1>4, <2>2 DEF Uses
<1>5. ASSUME NEW n \in Uses(t) PROVE n \in Uses(s \o t)
  <2>1. PICK j \in Begins(t) : j + 2 <= Len(t) /\ t[j + 2] = n
    BY <1>5 DEF Uses
  <2>2. /\ j \in 1..Len(t) - 1 /\ t[j] = "$" /\ t[j + 1] = "("
    BY <2>1 DEF Begins
  <2>3. /\ (s \o t)[Len(s) + j] = "$" /\ (s \o t)[Len(s) + j + 1] = "("
        /\ (s \o t)[Len(s) + j + 2] = n
    BY <1>1, <2>1, <2>2
  <2>4. Len(s) + j \in Begins(s \o t) /\ Len(s) + j + 2 <= Len(s \o t)
    BY <1>1, <2>1, <2>2, <2>3 DEF Begins
  <2>5. QED
    BY <1>5, <2>3, <2>4 DEF Uses
<1>6. ASSUME NEW n \in Uses(s \o t) PROVE n \in Uses(s) \cup Uses(t)
  <2>1. PICK i \in Begins(s \o t) : i + 2 <= Len(s \o t) /\ (s \o t)[i + 2] = n
    BY <1>6 DEF Uses
  <2>2. /\ i \in 1..Len(s) + Len(t) - 1
        /\ (s \o t)[i] = "$" /\ (s \o t)[i + 1] = "("
    BY <1>1, <2>1 DEF Begins
  <2>3. CASE i <= Len(s)
    <3>1. s[i] = "$" /\ i + 3 <= Len(s)
      BY <1>2, <2>2, <2>3 DEF Whole
    <3>2. s[i + 1] = "(" /\ s[i + 2] = n
      BY <1>1, <1>2, <2>1, <2>2, <2>3, <3>1
    <3>3. i \in Begins(s)
      BY <1>1, <2>2, <3>1, <3>2 DEF Begins
    <3>4. QED
      BY <1>1, <1>6, <2>2, <3>1, <3>2, <3>3 DEF Uses
  <2>4. CASE i > Len(s)
    <3>1. /\ t[i - Len(s)] = "$" /\ t[i - Len(s) + 1] = "(" /\ t[i - Len(s) + 2] = n
          /\ i - Len(s) + 2 <= Len(t)
      BY <1>1, <2>1, <2>2, <2>4
    <3>2. i - Len(s) \in Begins(t)
      BY <1>1, <2>2, <2>4, <3>1 DEF Begins
    <3>3. QED
      BY <1>6, <3>1, <3>2 DEF Uses
  <2>5. QED
    BY <1>1, <2>2, <2>3, <2>4
<1>7. QED
  BY <1>3, <1>4, <1>5, <1>6

LEMMA RefIsWhole ==
  ASSUME NEW n \in Names
  PROVE  Ref(n) \in Seq(Tokens) /\ Whole(Ref(n)) /\ Uses(Ref(n)) = {n}
<1>1. Ref(n) \in Seq(Tokens) /\ Len(Ref(n)) = 4
  BY DEF Ref, Tokens
<1>2. Ref(n)[1] = "$" /\ Ref(n)[2] = "(" /\ Ref(n)[3] = n /\ Ref(n)[4] = ")"
  BY DEF Ref
<1>3. n # "$"
  BY ConstantsAssumption
<1>4. Whole(Ref(n))
  BY <1>1, <1>2, <1>3 DEF Whole
<1>5. Begins(Ref(n)) = {1}
  BY <1>1, <1>2, <1>3 DEF Begins
<1>6. QED
  BY <1>1, <1>2, <1>4, <1>5 DEF Uses

(* A string without "$" uses nothing.                                      *)
LEMMA PlainIsWhole ==
  ASSUME NEW s \in Seq(Tokens), \A i \in 1..Len(s) : s[i] # "$"
  PROVE  Whole(s) /\ Begins(s) = {} /\ Uses(s) = {}
<1>1. Len(s) \in Nat
  BY LenProperties
<1>2. QED
  BY <1>1 DEF Whole, Begins, Uses

(* The loop cuts a string of whole placeholders at its first one: before   *)
(* it stands no "$", behind it whole placeholders again.                   *)
LEMMA Cut ==
  ASSUME NEW s \in Seq(Tokens), Whole(s), Begins(s) # {}
  PROVE  LET rest == Rest(s)
             tail == SubSeq(rest, EndIndex(rest) + 1, Len(rest))
         IN  \E n \in Names :
               /\ EndIndex(rest) = 2 /\ Key(rest) = <<n>>
               /\ tail \in Seq(Tokens) /\ Whole(tail)
               /\ \A i \in 1..Len(First(s)) : First(s)[i] # "$"
               /\ s = First(s) \o (Ref(n) \o tail)
<1> DEFINE b == BeginIndex(s)
           rest == Rest(s)
           tail == SubSeq(rest, EndIndex(rest) + 1, Len(rest))
           n == s[b + 2]
<1>1. /\ Len(s) \in Nat /\ b \in 1..Len(s) - 1 /\ s[b] = "$"
      /\ \A i \in Begins(s) : b <= i
  BY BeginFirst, LenProperties
<1>2. b + 3 <= Len(s) /\ s[b + 1] = "(" /\ n \in Names /\ s[b + 3] = ")"
  BY <1>1 DEF Whole
<1>3. /\ First(s) \in Seq(Tokens) /\ Len(First(s)) = b - 1
      /\ \A i \in 1..b - 1 : First(s)[i] = s[i]
      /\ rest \in Seq(Tokens) /\ Len(rest) = Len(s) - b - 1
      /\ \A i \in 1..Len(s) - b - 1 : rest[i] = s[b + 1 + i]
  BY FirstAndRest
<1> HIDE DEF b, rest
<1>4. Len(rest) >= 2 /\ rest[1] = n /\ rest[2] = ")" /\ rest[1] # ")"
  <2>1. rest[1] = s[b + 1 + 1] /\ rest[2] = s[b + 1 + 2]
    BY <1>1, <1>2, <1>3
  <2>2. QED
    BY <1>1, <1>2, <1>3, <2>1, ConstantsAssumption
<1>5. EndIndex(rest) = 2
  <2>1. 1 \in 1..Len(rest) /\ 2 \in 1..Len(rest)
    BY <1>1, <1>3, <1>4
  <2>2. EndIndex(rest) \in 0..Len(rest) /\ EndIndex(rest) # 0 /\ EndIndex(rest) <= 2
    BY <1>3, <1>4, <2>1, EndFirst
  <2>3. EndIndex(rest) # 1
    BY <1>3, <1>4, <2>2, EndFirst
  <2>4. QED
    BY <2>2, <2>3
<1>6. Key(rest) = <<n>>
  <2>1. SubSeq(rest, 1, 1) \in Seq(Tokens) /\ Len(SubSeq(rest, 1, 1)) = 1
        /\ SubSeq(rest, 1, 1)[1] = rest[1]
    <3>1. \A i \in 1..1 : rest[i] \in Tokens
      BY <1>3, <1>4, ElementOfSeq
    <3>2. QED
      BY <3>1, SubSeqProperties
  <2>2. <<n>> \in Seq(Tokens) /\ Len(<<n>>) = 1 /\ <<n>>[1] = n
    BY <1>2 DEF Tokens
  <2>3. SubSeq(rest, 1, 1) = <<n>>
    <3>1. \A i \in 1..1 : SubSeq(rest, 1, 1)[i] = <<n>>[i]
      BY <1>4, <2>1, <2>2
    <3> HIDE DEF n
    <3>2. QED
      BY <2>1, <2>2, <3>1, SeqEqual
  <2>4. QED
    BY <1>5, <2>3 DEF Key
<1>7. /\ tail \in Seq(Tokens) /\ Len(tail) = Len(s) - b - 3
      /\ \A i \in 1..Len(s) - b - 3 : tail[i] = s[b + 3 + i]
  <2>1. /\ tail \in Seq(Tokens) /\ Len(tail) = Len(rest) - 2
        /\ \A i \in 1..Len(rest) - 2 : tail[i] = rest[2 + i]
    BY <1>3, <1>5, Behind
  <2>2. ASSUME NEW i \in 1..Len(s) - b - 3 PROVE tail[i] = s[b + 3 + i]
    <3> HIDE DEF tail
    <3>0. i \in 1..Len(rest) - 2
      BY <1>1, <1>3
    <3>1. tail[i] = rest[2 + i]
      BY <2>1, <3>0
    <3>2. 2 + i \in 1..Len(s) - b - 1 /\ b + 1 + (2 + i) = b + 3 + i
      BY <1>1
    <3>3. rest[2 + i] = s[b + 1 + (2 + i)]
      BY <1>3, <3>2
    <3>4. QED
      BY <3>1, <3>2, <3>3
  <2>3. Len(tail) = Len(s) - b - 3
    BY <1>1, <1>3, <2>1
  <2>4. QED
    BY <2>1, <2>2, <2>3
<1> HIDE DEF tail
<1>8. Whole(tail)
  <2> SUFFICES ASSUME NEW i \in 1..Len(tail), tail[i] = "$"
               PROVE  /\ i + 3 <= Len(tail)
                      /\ tail[i + 1] = "(" /\ tail[i + 2] \in Names /\ tail[i + 3] = ")"
    BY DEF Whole
  <2> DEFINE j == b + 3 + i
  <2>1. j \in 1..Len(s) /\ s[j] = "$"
    BY <1>1, <1>2, <1>7
  <2>2. j + 3 <= Len(s) /\ s[j + 1] = "(" /\ s[j + 2] \in Names /\ s[j + 3] = ")"
    BY <2>1 DEF Whole
  <2>3. /\ i + 3 <= Len(tail)
        /\ tail[i + 1] = s[j + 1] /\ tail[i + 2] = s[j + 2] /\ tail[i + 3] = s[j + 3]
    <3>1. i + 3 <= Len(s) - b - 3
      BY <1>1, <2>2
    <3>2. /\ i + 1 \in 1..Len(s) - b - 3 /\ i + 2 \in 1..Len(s) - b - 3
          /\ i + 3 \in 1..Len(s) - b - 3
      BY <1>1, <3>1
    <3>3. b + 3 + (i + 1) = j + 1 /\ b + 3 + (i + 2) = j + 2 /\ b + 3 + (i + 3) = j + 3
      BY <1>1
    <3> HIDE DEF j
    <3>4. QED
      BY <1>7, <3>1, <3>2, <3>3
  <2>4. QED
    BY <2>2, <2>3
<1>9. \A i \in 1..Len(First(s)) : First(s)[i] # "$"
  <2> SUFFICES ASSUME NEW i \in 1..b - 1, s[i] = "$" PROVE FALSE
    BY <1>3
  <2>1. i \in 1..Len(s)
    BY <1>1
  <2>2. i + 3 <= Len(s) /\ s[i + 1] = "("
    BY <2>1 DEF Whole
  <2>3. i \in Begins(s)
    BY <1>1, <2>1, <2>2 DEF Begins
  <2>4. QED
    BY <1>1, <2>1, <2>3
<1>10. s = First(s) \o (Ref(n) \o tail)
  <2>1. Ref(n) \in Seq(Tokens) /\ Len(Ref(n)) = 4
        /\ Ref(n)[1] = "$" /\ Ref(n)[2] = "(" /\ Ref(n)[3] = n /\ Ref(n)[4] = ")"
    BY <1>2, RefIsWhole DEF Ref
  <2> DEFINE u == Ref(n) \o tail
             t == First(s) \o u
  <2>2. /\ u \in Seq(Tokens) /\ Len(u) = Len(s) - b + 1
        /\ \A i \in 1..Len(s) - b + 1 : u[i] = IF i <= 4 THEN Ref(n)[i] ELSE tail[i - 4]
    <3>1. /\ u \in Seq(Tokens) /\ Len(u) = Len(Ref(n)) + Len(tail)
          /\ \A i \in 1..Len(Ref(n)) + Len(tail) :
               u[i] = IF i <= Len(Ref(n)) THEN Ref(n)[i] ELSE tail[i - Len(Ref(n))]
      BY <1>7, <2>1, ConcatProperties, ZenonT(30)
    <3>2. QED
      BY <1>1, <1>7, <2>1, <3>1, SMTT(30)
  <2> HIDE DEF u
  <2>3. /\ t \in Seq(Tokens) /\ Len(t) = Len(s)
        /\ \A i \in 1..Len(s) : t[i] = IF i <= b - 1 THEN First(s)[i] ELSE u[i - b + 1]
    <3>1. /\ t \in Seq(Tokens) /\ Len(t) = Len(First(s)) + Len(u)
          /\ \A i \in 1..Len(First(s)) + Len(u) :
               t[i] = IF i <= Len(First(s)) THEN First(s)[i] ELSE u[i - Len(First(s))]
      BY <1>3, <2>2, ConcatProperties
    <3>2. QED
      BY <1>1, <1>3, <2>2, <3>1
  <2> HIDE DEF t
  <2>4. ASSUME NEW i \in 1..Len(s) PROVE t[i] = s[i]
    <3>1. CASE i <= b - 1
      BY <1>1, <1>3, <2>3, <3>1
    <3>2. CASE i \in {b, b + 1, b + 2, b + 3}
      <4> DEFINE k == i - b + 1
      <4>1. t[i] = u[k] /\ u[k] = Ref(n)[k]
        <5>1. k \in 1..Len(s) - b + 1 /\ k <= 4 /\ ~(i <= b - 1)
          BY <1>1, <1>2, <3>2
        <5>2. t[i] = u[k]
          BY <2>3, <5>1
        <5> HIDE DEF k
        <5>3. QED
          BY <2>2, <5>1, <5>2
      <4>2. Ref(n)[i - b + 1] = s[i]
        <5>1. b - b + 1 = 1 /\ b + 1 - b + 1 = 2 /\ b + 2 - b + 1 = 3 /\ b + 3 - b + 1 = 4
          BY <1>1
        <5>2. QED
          BY <1>1, <1>2, <2>1, <3>2, <5>1, SMTT(30)
      <4>3. QED
        BY <4>1, <4>2
    <3>3. CASE i > b + 3
      <4> DEFINE k == i - b - 3
      <4>1. /\ k \in 1..Len(s) - b - 3 /\ b + 3 + k = i
            /\ i - b + 1 \in 1..Len(s) - b + 1 /\ i - b + 1 - 4 = k /\ ~(i - b + 1 <= 4)
            /\ ~(i <= b - 1)
        BY <1>1, <3>3
      <4> DEFINE l == i - b + 1
      <4>2. t[i] = u[l] /\ u[l] = tail[l - 4]
        <5>1. l \in 1..Len(s) - b + 1 /\ ~(l <= 4) /\ t[i] = u[l]
          BY <2>3, <4>1
        <5>2. u[l] = tail[l - 4]
          <6> HIDE DEF l
          <6>1. QED
            BY <2>2, <5>1
        <5>3. QED
          BY <5>1, <5>2, Zenon
      <4>3. tail[k] = s[b + 3 + k]
        <5> HIDE DEF k
        <5>1. QED
          BY <1>7, <4>1
      <4>4. l - 4 = k
        BY <1>1
      <4>5. QED
        BY <4>1, <4>2, <4>3, <4>4
    <3>4. QED
      BY <1>1, <3>1, <3>2, <3>3
  <2>5. t = s
    BY <2>3, <2>4, SeqEqual
  <2>6. QED
    BY <2>5 DEF t, u
<1>11. QED
  BY <1>2, <1>5, <1>6, <1>7, <1>8, <1>9, <1>10 DEF rest, tail

-----------------------------------------------------------------------------
(* The loop.                                                               *)

(* What is put in for a placeholder whose value is whole.                  *)
LEMMA TextIsWhole ==
  ASSUME TypeOK, NEW n \in Names, transmitData[n] # Missing,
         IsText(transmitData[n]) => Whole(transmitData[n])
  PROVE  /\ Text(<<n>>) \in Seq(Tokens)
         /\ Whole(Text(<<n>>)) /\ Uses(Text(<<n>>)) = UsedBy(n)
<1>1. Text(<<n>>) \in Seq(Tokens)
  BY TextIsString DEF ContainsKey
<1>2. CASE transmitData[n] = NullValue
  <2>1. Text(<<n>>) = <<"null">> /\ UsedBy(n) = {}
    BY <1>2 DEF Text, UsedBy, IsText
  <2>2. \A i \in 1..Len(<<"null">>) : <<"null">>[i] # "$"
    OBVIOUS
  <2>3. QED
    BY <1>1, <2>1, <2>2, PlainIsWhole
<1>3. CASE transmitData[n] # NullValue
  BY <1>1, <1>3 DEF Text, UsedBy, IsText
<1>4. QED
  BY <1>2, <1>3

(* One round on a string of whole placeholders: the first one goes, its    *)
(* text comes, and what stands around it stays.                            *)
LEMMA Round ==
  ASSUME TypeOK, Replace, Whole(value),
         \A n \in Uses(value) : IsText(transmitData[n]) => Whole(transmitData[n])
  PROVE  \E n \in Names, tail \in Seq(Tokens) :
           /\ transmitData[n] # Missing
           /\ Whole(tail) /\ First(value) \in Seq(Tokens)
           /\ \A i \in 1..Len(First(value)) : First(value)[i] # "$"
           /\ Text(<<n>>) \in Seq(Tokens) /\ Whole(Text(<<n>>))
           /\ value = First(value) \o (Ref(n) \o tail)
           /\ value' = First(value) \o (Text(<<n>>) \o tail)
           /\ Uses(value) = {n} \cup Uses(tail)
           /\ Whole(value') /\ Uses(value') = UsedBy(n) \cup Uses(tail)
<1> DEFINE rest == Rest(value)
           tail == SubSeq(rest, EndIndex(rest) + 1, Len(rest))
           first == First(value)
<1>1. value \in Seq(Tokens) /\ Begins(value) # {} /\ ContainsKey(Key(rest))
      /\ value' = first \o Text(Key(rest)) \o tail
  BY DEF TypeOK, Replace
<1>2. PICK n \in Names :
        /\ Key(rest) = <<n>> /\ tail \in Seq(Tokens) /\ Whole(tail)
        /\ \A i \in 1..Len(first) : first[i] # "$"
        /\ value = first \o (Ref(n) \o tail)
  BY <1>1, Cut
<1> HIDE DEF rest, tail
<1>3. transmitData[n] # Missing
  BY <1>1, <1>2 DEF ContainsKey
<1>4. first \in Seq(Tokens) /\ Whole(first) /\ Uses(first) = {}
  BY <1>1, <1>2, FirstAndRest, PlainIsWhole
<1> HIDE DEF first
<1>5. /\ Ref(n) \o tail \in Seq(Tokens) /\ Whole(Ref(n) \o tail)
      /\ Uses(Ref(n) \o tail) = {n} \cup Uses(tail)
  BY <1>2, RefIsWhole, ConcatWhole, ConcatProperties
<1>6. Uses(value) = {n} \cup Uses(tail)
  <2>1. Uses(first \o (Ref(n) \o tail)) = Uses(first) \cup Uses(Ref(n) \o tail)
    BY <1>4, <1>5, ConcatWhole
  <2>2. QED
    BY <1>2, <1>4, <1>5, <2>1
<1>7. /\ Text(<<n>>) \in Seq(Tokens)
      /\ Whole(Text(<<n>>)) /\ Uses(Text(<<n>>)) = UsedBy(n)
  BY <1>3, <1>6, TextIsWhole
<1>8. value' = first \o (Text(<<n>>) \o tail)
  <2>1. (first \o Text(<<n>>)) \o tail = first \o (Text(<<n>>) \o tail)
    BY <1>2, <1>4, <1>7, ConcatAssociative
  <2>2. QED
    BY <1>1, <1>2, <2>1
<1>9. /\ Text(<<n>>) \o tail \in Seq(Tokens) /\ Whole(Text(<<n>>) \o tail)
      /\ Uses(Text(<<n>>) \o tail) = UsedBy(n) \cup Uses(tail)
  BY <1>2, <1>7, ConcatWhole, ConcatProperties
<1>10. Whole(value') /\ Uses(value') = UsedBy(n) \cup Uses(tail)
  <2> DEFINE u == Text(<<n>>) \o tail
  <2>1. Whole(first \o u) /\ Uses(first \o u) = Uses(first) \cup Uses(u)
    BY <1>4, <1>9, ConcatWhole
  <2>2. QED
    BY <1>4, <1>8, <1>9, <2>1
<1>11. QED
  BY <1>2, <1>3, <1>4, <1>6, <1>7, <1>8, <1>10 DEF first

(* The closure of what a text uses, unfolded at one placeholder.           *)
LEMMA UsedFromContains ==
  ASSUME NEW ns \in SUBSET Names
  PROVE  ns \subseteq UsedFrom(ns)
BY DEF UsedFrom

LEMMA UsedFromClosed ==
  ASSUME NEW ns \in SUBSET Names, NEW m \in UsedFrom(ns)
  PROVE  UsedBy(m) \subseteq UsedFrom(ns)
<1>1. UsedBy(m) \subseteq Names
  BY DEF UsedBy, Uses
<1>2. ASSUME NEW k \in UsedBy(m), NEW S \in SUBSET Names,
             ns \subseteq S, \A j \in S : UsedBy(j) \subseteq S
      PROVE  k \in S
  BY <1>2 DEF UsedFrom
<1>3. QED
  BY <1>1, <1>2 DEF UsedFrom

LEMMA UsedFromUnfold ==
  ASSUME NEW ns \in SUBSET Names, NEW n \in Names, NEW m \in Names, m # n,
         m \in UsedFrom({n} \cup ns)
  PROVE  m \in UsedFrom(UsedBy(n) \cup ns)
<1> SUFFICES ASSUME NEW S \in SUBSET Names, UsedBy(n) \cup ns \subseteq S,
                    \A j \in S : UsedBy(j) \subseteq S
             PROVE  m \in S
  BY DEF UsedFrom
<1>1. S \cup {n} \in SUBSET Names /\ {n} \cup ns \subseteq S \cup {n}
      /\ \A j \in S \cup {n} : UsedBy(j) \subseteq S \cup {n}
  OBVIOUS
<1>2. m \in S \cup {n}
  BY <1>1 DEF UsedFrom
<1>3. QED
  BY <1>2

LEMMA UsedFromNothing == UsedFrom({}) = {}
<1>1. {} \in SUBSET Names /\ {} \subseteq {} /\ \A m \in {} : UsedBy(m) \subseteq {}
  OBVIOUS
<1>2. QED
  BY <1>1 DEF UsedFrom

(* The text and the data do not change, and what depends on them only.     *)
LEMMA DataStays ==
  ASSUME UNCHANGED <<template, transmitData>>
  PROVE  /\ WellFormed' <=> WellFormed
         /\ Needed' = Needed
         /\ UsedFrom(Uses(value))' = UsedFrom(Uses(value'))
         /\ \A n \in Names : UsedBy(n)' = UsedBy(n)
  BY DEF WellFormed, Needed, UsedFrom, UsedBy, Uses, Whole, Begins, IsText

LEMMA TypeStep == TypeOK /\ [Next]_vars => TypeOK'
<1> SUFFICES ASSUME TypeOK, [Next]_vars PROVE TypeOK'
  OBVIOUS
<1>1. ASSUME Replace PROVE TypeOK'
  <2> DEFINE rest == Rest(value)
             tail == SubSeq(rest, EndIndex(rest) + 1, Len(rest))
  <2>1. First(value) \in Seq(Tokens) /\ rest \in Seq(Tokens) /\ EndIndex(rest) # 0
        /\ ContainsKey(Key(rest))
    BY <1>1, FirstAndRest DEF Replace, TypeOK
  <2> HIDE DEF rest
  <2>2. tail \in Seq(Tokens) /\ Text(Key(rest)) \in Seq(Tokens)
    BY <2>1, Behind, TextIsString
  <2> HIDE DEF tail
  <2>3. First(value) \o Text(Key(rest)) \o tail \in Seq(Tokens)
    BY <2>1, <2>2, ConcatProperties
  <2>4. value' \in Seq(Tokens)
    BY <1>1, <2>3 DEF Replace, rest, tail
  <2>5. QED
    BY <1>1, <2>4 DEF Replace, TypeOK
<1>2. CASE KeyMissing \/ NoEnd \/ Return \/ UNCHANGED vars
  BY <1>2 DEF KeyMissing, NoEnd, Return, vars, TypeOK
<1>3. QED
  BY <1>1, <1>2 DEF Next

LEMMA Initially == Init => IInv
<1> SUFFICES ASSUME Init PROVE IInv
  OBVIOUS
<1>1. TypeOK
  BY ConstantsAssumption DEF Init, TypeOK
<1>2. value = template /\ result = "working"
  BY DEF Init
<1>3. Uses(value) \in SUBSET Names
  BY DEF Uses
<1>4. WellFormed => Uses(value) \subseteq Needed /\ Needed = UsedFrom(Uses(value))
  BY <1>2, <1>3, UsedFromContains DEF Needed
<1>5. QED
  BY <1>1, <1>2, <1>4 DEF IInv, FailureExplained, WellFormed

(* The part of IInv that is about strings of whole placeholders.           *)
LEMMA ReplaceKeeps ==
  ASSUME IInv, Replace, WellFormed
  PROVE  /\ Whole(value') /\ Uses(value') \subseteq Needed
         /\ \A m \in Needed : transmitData[m] = Missing => m \in UsedFrom(Uses(value'))
<1>1. /\ TypeOK /\ Whole(value) /\ Uses(value) \subseteq Needed
      /\ \A m \in Needed : transmitData[m] = Missing => m \in UsedFrom(Uses(value))
      /\ \A m \in Uses(value) : IsText(transmitData[m]) => Whole(transmitData[m])
  BY DEF IInv, WellFormed
<1>2. PICK n \in Names, tail \in Seq(Tokens) :
        /\ transmitData[n] # Missing
        /\ Uses(value) = {n} \cup Uses(tail)
        /\ Whole(value') /\ Uses(value') = UsedBy(n) \cup Uses(tail)
  BY <1>1, Round
<1>3. UsedBy(n) \subseteq Needed
  <2>1. n \in Needed /\ Uses(template) \in SUBSET Names
    BY <1>1, <1>2 DEF Uses
  <2>2. QED
    BY <2>1, UsedFromClosed DEF Needed
<1>4. ASSUME NEW m \in Needed, transmitData[m] = Missing PROVE m \in UsedFrom(Uses(value'))
  <2>1. m \in Names /\ m # n /\ m \in UsedFrom({n} \cup Uses(tail))
    BY <1>1, <1>2, <1>4 DEF Needed, UsedFrom
  <2>2. Uses(tail) \in SUBSET Names
    BY DEF Uses
  <2>3. m \in UsedFrom(UsedBy(n) \cup Uses(tail))
    BY <2>1, <2>2, UsedFromUnfold
  <2>4. QED
    BY <1>2, <2>3
<1>5. QED
  BY <1>1, <1>2, <1>3, <1>4

LEMMA Inductive == IInv /\ [Next]_vars => IInv'
<1> SUFFICES ASSUME IInv, [Next]_vars PROVE IInv'
  OBVIOUS
<1>1. TypeOK /\ TypeOK'
  BY TypeStep DEF IInv
<1>2. UNCHANGED <<template, transmitData>>
  BY DEF Next, Replace, KeyMissing, NoEnd, Return, vars
<1>3. (WellFormed' <=> WellFormed) /\ Needed' = Needed
  BY <1>2, DataStays
<1>4. CASE Replace
  <2>1. result = "working" /\ UNCHANGED result
    BY <1>4 DEF Replace
  <2>2. WellFormed' =>
          /\ Whole(value)' /\ Uses(value)' \subseteq Needed'
          /\ \A m \in Needed' : transmitData'[m] = Missing => m \in UsedFrom(Uses(value))'
    <3>1. /\ Whole(value)' <=> Whole(value')
          /\ Uses(value)' = Uses(value')
          /\ UsedFrom(Uses(value))' = UsedFrom(Uses(value'))
      BY <1>2, DataStays DEF Whole, Uses, Begins
    <3>2. QED
      BY <1>2, <1>3, <1>4, <3>1, ReplaceKeeps
  <2>3. QED
    BY <1>1, <2>1, <2>2 DEF IInv, FailureExplained
<1>5. CASE UNCHANGED value
  <2>1. /\ Whole(value)' <=> Whole(value)
        /\ Uses(value)' = Uses(value) /\ (Begins(value) = {})' = (Begins(value) = {})
        /\ UsedFrom(Uses(value))' = UsedFrom(Uses(value))
    BY <1>2, <1>5, DataStays DEF Whole, Uses, Begins
  <2>2. WellFormed' =>
          /\ Whole(value)' /\ Uses(value)' \subseteq Needed'
          /\ \A m \in Needed' : transmitData'[m] = Missing => m \in UsedFrom(Uses(value))'
    BY <1>2, <1>3, <2>1 DEF IInv
  <2>3. CASE KeyMissing
    <3>1. ASSUME WellFormed PROVE \E n \in Needed : transmitData[n] = Missing
      <4>1. /\ value \in Seq(Tokens) /\ Whole(value) /\ Begins(value) # {}
            /\ Uses(value) \subseteq Needed
        BY <2>3, <3>1 DEF IInv, TypeOK, KeyMissing
      <4>2. PICK n \in Names, tail \in Seq(Tokens) :
              /\ Key(Rest(value)) = <<n>> /\ Whole(tail)
              /\ \A i \in 1..Len(First(value)) : First(value)[i] # "$"
              /\ value = First(value) \o (Ref(n) \o tail)
        BY <4>1, Cut
      <4>3. transmitData[n] = Missing
        BY <2>3, <4>2 DEF KeyMissing, ContainsKey
      <4>4. n \in Uses(value)
        <5>1. First(value) \in Seq(Tokens) /\ Whole(First(value))
          BY <4>1, <4>2, FirstAndRest, PlainIsWhole
        <5>2. /\ Ref(n) \o tail \in Seq(Tokens) /\ Whole(Ref(n) \o tail)
              /\ Uses(Ref(n) \o tail) = {n} \cup Uses(tail)
          BY <4>2, RefIsWhole, ConcatWhole, ConcatProperties
        <5>3. Uses(First(value) \o (Ref(n) \o tail))
                = Uses(First(value)) \cup Uses(Ref(n) \o tail)
          BY <5>1, <5>2, ConcatWhole
        <5>4. QED
          BY <4>2, <5>2, <5>3
      <4>5. QED
        BY <4>1, <4>3, <4>4
    <3>2. result' = "config_error"
      BY <2>3 DEF KeyMissing
    <3>3. QED
      BY <1>1, <1>2, <1>3, <2>2, <3>1, <3>2 DEF IInv, FailureExplained
  <2>4. CASE NoEnd
    <3>1. ASSUME WellFormed PROVE FALSE
      <4>1. value \in Seq(Tokens) /\ Whole(value) /\ Begins(value) # {}
        BY <2>4, <3>1 DEF IInv, TypeOK, NoEnd
      <4>2. EndIndex(Rest(value)) = 2
        BY <4>1, Cut
      <4>3. QED
        BY <2>4, <4>2 DEF NoEnd
    <3>2. result' = "out_of_bounds"
      BY <2>4 DEF NoEnd
    <3>3. QED
      BY <1>1, <1>3, <3>1, <3>2 DEF IInv, FailureExplained
  <2>5. CASE Return
    <3>1. Begins(value) = {} /\ result' = "done"
      BY <2>5 DEF Return
    <3>2. ASSUME WellFormed PROVE \A n \in Needed : transmitData[n] # Missing
      <4>1. Uses(value) = {}
        BY <3>1 DEF Uses
      <4>2. QED
        BY <3>2, <4>1, UsedFromNothing DEF IInv
    <3>3. QED
      BY <1>1, <1>2, <1>3, <2>1, <2>2, <3>1, <3>2 DEF IInv, FailureExplained
  <2>6. CASE UNCHANGED vars
    BY <1>1, <1>2, <1>3, <2>1, <2>2, <2>6 DEF IInv, FailureExplained, vars
  <2>7. CASE Replace
    BY <1>4, <2>7
  <2>8. QED
    BY <2>3, <2>4, <2>5, <2>6, <2>7 DEF Next
<1>6. QED
  BY <1>4, <1>5 DEF Next, KeyMissing, NoEnd, Return, vars

(* The inductive invariant, for all keys, values and templates.            *)
THEOREM InductiveInvariant == Spec => []IInv
  BY Initially, Inductive, PTL DEF Spec

(* The types: in particular, what is put in for a key is always a string,  *)
(* a null included.                                                        *)
THEOREM TypeCorrect == Spec => []TypeOK
<1>1. IInv => TypeOK
  BY DEF IInv
<1>2. QED
  BY <1>1, InductiveInvariant, PTL

(* A text of whole placeholders is completed just if every key it needs is *)
(* there, by way of values as well, and fails for no other reason.         *)
THEOREM FailuresExplained == Spec => []FailureExplained
<1>1. IInv => FailureExplained
  BY DEF IInv
<1>2. QED
  BY <1>1, InductiveInvariant, PTL

-----------------------------------------------------------------------------
(* What a completed text is.  E[s] are strings which s may expand to; E is *)
(* closed if it has the empty string, a character that is no "$" before    *)
(* what it has, and before it the expansion of the value of a placeholder. *)
Closed(E) ==
  /\ <<>> \in E[<<>>]
  /\ \A s, r \in Seq(Tokens), c \in Tokens \ {"$"} :
       r \in E[s] => <<c>> \o r \in E[<<c>> \o s]
  /\ \A s, r, v \in Seq(Tokens), n \in Names :
       transmitData[n] # Missing /\ v \in E[Text(<<n>>)] /\ r \in E[s]
         => v \o r \in E[Ref(n) \o s]

(* What every closed E has: the least one.                                 *)
ExpandsTo(s, r) ==
  /\ s \in Seq(Tokens) /\ r \in Seq(Tokens)
  /\ \A E \in [Seq(Tokens) -> SUBSET Seq(Tokens)] : Closed(E) => r \in E[s]

(* A proof about all that expands needs a closed E that has the property.  *)
LEMMA Least ==
  ASSUME NEW E \in [Seq(Tokens) -> SUBSET Seq(Tokens)], Closed(E),
         NEW s, NEW r, ExpandsTo(s, r)
  PROVE  s \in Seq(Tokens) /\ r \in Seq(Tokens) /\ r \in E[s]
BY DEF ExpandsTo

(* A string with a character, or a placeholder, put before it.             *)
LEMMA CharacterAhead ==
  ASSUME NEW c \in Tokens \ {"$"}, NEW t \in Seq(Tokens)
  PROVE  /\ <<c>> \o t \in Seq(Tokens) /\ <<c>> \o t # <<>>
         /\ (<<c>> \o t)[1] = c /\ Tail(<<c>> \o t) = t
         /\ Len(<<c>> \o t) = Len(t) + 1
         /\ Whole(t) => Whole(<<c>> \o t) /\ Uses(<<c>> \o t) = Uses(t)
<1>1. <<c>> \in Seq(Tokens) /\ Len(<<c>>) = 1 /\ <<c>>[1] = c
  OBVIOUS
<1> DEFINE x == <<c>>
           s == x \o t
<1> HIDE DEF x
<1>2. /\ s \in Seq(Tokens) /\ Len(s) = Len(t) + 1 /\ Len(t) \in Nat
      /\ \A i \in 1..Len(t) + 1 : s[i] = IF i <= 1 THEN x[i] ELSE t[i - 1]
  <2>1. x \in Seq(Tokens) /\ Len(x) = 1
    BY <1>1 DEF x
  <2>2. /\ s \in Seq(Tokens) /\ Len(s) = Len(x) + Len(t)
        /\ \A i \in 1..Len(x) + Len(t) : s[i] = IF i <= Len(x) THEN x[i] ELSE t[i - Len(x)]
    BY <2>1, ConcatProperties, ZenonT(30)
  <2> HIDE DEF s
  <2>3. Len(t) \in Nat
    BY LenProperties
  <2>4. QED
    BY <2>1, <2>2, <2>3
<1>3. s[1] = c
  <2> HIDE DEF s
  <2>1. 1 \in 1..Len(t) + 1
    BY <1>2
  <2>2. QED
    BY <1>1, <1>2, <2>1 DEF x
<1>4. s # <<>>
  <2> HIDE DEF s
  <2>1. QED
    BY <1>2
<1>5. Tail(s) = t
  <2> HIDE DEF s
  <2>1. /\ Tail(s) \in Seq(Tokens) /\ Len(Tail(s)) = Len(s) - 1
        /\ \A i \in 1..Len(Tail(s)) : Tail(s)[i] = s[i + 1]
    BY <1>2, <1>4, HeadTailProperties
  <2>2. \A i \in 1..Len(t) : i + 1 \in 1..Len(t) + 1 /\ ~(i + 1 <= 1) /\ i + 1 - 1 = i
    BY <1>2
  <2>3. \A i \in 1..Len(t) : s[i + 1] = t[i]
    BY <1>2, <2>2
  <2>4. Len(Tail(s)) = Len(t) /\ \A i \in 1..Len(t) : Tail(s)[i] = t[i]
    BY <1>2, <2>1, <2>3
  <2>5. QED
    BY <2>1, <2>4, SeqEqual
<1>6. Whole(t) => Whole(s) /\ Uses(s) = Uses(t)
  <2>1. \A i \in 1..Len(x) : x[i] # "$"
    BY <1>1 DEF x
  <2>2. x \in Seq(Tokens)
    BY <1>1 DEF x
  <2>3. QED
    BY <2>1, <2>2, PlainIsWhole, ConcatWhole
<1>7. QED
  BY <1>2, <1>3, <1>4, <1>5, <1>6 DEF x

LEMMA RefAhead ==
  ASSUME NEW n \in Names, NEW t \in Seq(Tokens)
  PROVE  /\ Ref(n) \o t \in Seq(Tokens) /\ Ref(n) \o t # <<>>
         /\ (Ref(n) \o t)[1] = "$" /\ (Ref(n) \o t)[3] = n
         /\ SubSeq(Ref(n) \o t, 5, Len(Ref(n) \o t)) = t
         /\ Len(Ref(n) \o t) = Len(t) + 4
         /\ Whole(t) => Whole(Ref(n) \o t) /\ Uses(Ref(n) \o t) = {n} \cup Uses(t)
<1> DEFINE x == Ref(n)
           s == x \o t
<1>1. x \in Seq(Tokens) /\ Len(x) = 4 /\ x[1] = "$" /\ x[3] = n
  BY RefIsWhole DEF Ref
<1> HIDE DEF x
<1>2. /\ s \in Seq(Tokens) /\ Len(s) = Len(t) + 4 /\ Len(t) \in Nat
      /\ \A i \in 1..Len(t) + 4 : s[i] = IF i <= 4 THEN x[i] ELSE t[i - 4]
  <2>1. /\ s \in Seq(Tokens) /\ Len(s) = Len(x) + Len(t)
        /\ \A i \in 1..Len(x) + Len(t) : s[i] = IF i <= Len(x) THEN x[i] ELSE t[i - Len(x)]
    BY <1>1, ConcatProperties, ZenonT(30)
  <2> HIDE DEF s
  <2>2. Len(t) \in Nat
    BY LenProperties
  <2>3. QED
    BY <1>1, <2>1, <2>2
<1>3. s[1] = "$" /\ s[3] = n
  <2> HIDE DEF s
  <2>1. 1 \in 1..Len(t) + 4 /\ 3 \in 1..Len(t) + 4
    BY <1>2
  <2>2. QED
    BY <1>1, <1>2, <2>1
<1>4. s # <<>>
  <2> HIDE DEF s
  <2>1. QED
    BY <1>2
<1>5. SubSeq(s, 5, Len(s)) = t
  <2> HIDE DEF s
  <2> DEFINE m == 5
             u == SubSeq(s, m, Len(s))
  <2>1. m \in Int /\ m <= Len(s) + 1 /\ m - 1 = 4 /\ Len(s) \in Int
    BY <1>2
  <2>2. \A i \in m..Len(s) : s[i] \in Tokens
    BY <1>2, ElementOfSeq
  <2>3. /\ u \in Seq(Tokens)
        /\ Len(u) = IF m <= Len(s) THEN Len(s) - m + 1 ELSE 0
        /\ \A i \in 1..Len(s) - m + 1 : u[i] = s[m + i - 1]
    <3> HIDE DEF m
    <3>1. QED
      BY <2>1, <2>2, SubSeqProperties
  <2> HIDE DEF u
  <2>4. Len(u) = Len(t)
    BY <1>2, <2>3
  <2>5. ASSUME NEW i \in 1..Len(t) PROVE u[i] = t[i]
    <3>1. /\ i \in 1..Len(s) - m + 1 /\ m + i - 1 = i + 4 /\ i + 4 \in 1..Len(t) + 4
          /\ ~(i + 4 <= 4) /\ i + 4 - 4 = i
      BY <1>2
    <3>2. u[i] = s[i + 4]
      <4>1. u[i] = s[m + i - 1]
        BY <2>3, <3>1
      <4>2. QED
        BY <3>1, <4>1
    <3>3. s[i + 4] = t[i]
      <4> DEFINE j == i + 4
      <4>1. j \in 1..Len(t) + 4 /\ ~(j <= 4) /\ j - 4 = i
        BY <3>1
      <4> HIDE DEF j
      <4>2. s[j] = t[j - 4]
        BY <1>2, <4>1
      <4>3. QED
        BY <4>1, <4>2 DEF j
    <3>4. QED
      BY <3>2, <3>3
  <2>6. u = t
    BY <2>3, <2>4, <2>5, SeqEqual
  <2>7. QED
    BY <2>6 DEF u, m
<1>6. Whole(t) => Whole(s) /\ Uses(s) = {n} \cup Uses(t)
  BY <1>1, RefIsWhole, ConcatWhole DEF x
<1>7. QED
  BY <1>2, <1>3, <1>4, <1>5, <1>6 DEF x

(* Every string of whole placeholders is built so.                         *)
LEMMA HeadCases ==
  ASSUME NEW s \in Seq(Tokens), Whole(s), s # <<>>
  PROVE  \E t \in Seq(Tokens) :
           /\ Whole(t)
           /\ \/ \E c \in Tokens \ {"$"} : s = <<c>> \o t
              \/ \E n \in Names : s = Ref(n) \o t
<1>1. Len(s) \in Nat /\ Len(s) >= 1
  BY EmptySeq, LenProperties
<1>2. CASE s[1] # "$"
  <2> DEFINE t == Tail(s)
             c == s[1]
  <2>1. /\ t \in Seq(Tokens) /\ Len(t) = Len(s) - 1
        /\ \A i \in 1..Len(t) : t[i] = s[i + 1]
    BY HeadTailProperties
  <2>2. c \in Tokens \ {"$"}
    BY <1>1, <1>2, ElementOfSeq
  <2>3. Whole(t)
    <3> HIDE DEF t
    <3> SUFFICES ASSUME NEW i \in 1..Len(t), t[i] = "$"
                 PROVE  /\ i + 3 <= Len(t)
                        /\ t[i + 1] = "(" /\ t[i + 2] \in Names /\ t[i + 3] = ")"
      BY DEF Whole
    <3> DEFINE j == i + 1
    <3>1. j \in 1..Len(s) /\ s[j] = "$"
      BY <1>1, <2>1
    <3>2. j + 3 <= Len(s) /\ s[j + 1] = "(" /\ s[j + 2] \in Names /\ s[j + 3] = ")"
      BY <3>1 DEF Whole
    <3>3. /\ i + 1 \in 1..Len(t) /\ i + 2 \in 1..Len(t) /\ i + 3 \in 1..Len(t)
          /\ (i + 1) + 1 = j + 1 /\ (i + 2) + 1 = j + 2 /\ (i + 3) + 1 = j + 3
          /\ i + 3 <= Len(t)
      BY <1>1, <2>1, <3>2
    <3> HIDE DEF j
    <3>4. t[i + 1] = s[j + 1] /\ t[i + 2] = s[j + 2] /\ t[i + 3] = s[j + 3]
      BY <2>1, <3>3
    <3>5. QED
      BY <3>2, <3>3, <3>4
  <2>4. s = <<c>> \o t
    <3>1. \A i \in 1..Len(s) : (<<c>> \o t)[i] = s[i]
      <4> SUFFICES ASSUME NEW i \in 1..Len(s) PROVE (<<c>> \o t)[i] = s[i]
        OBVIOUS
      <4> DEFINE u == <<c>> \o t
      <4>1. u \in Seq(Tokens) /\ u # <<>> /\ u[1] = c /\ Tail(u) = t
            /\ Len(u) = Len(t) + 1
        BY <2>1, <2>2, CharacterAhead
      <4> HIDE DEF u
      <4>2. CASE i = 1
        BY <4>1, <4>2 DEF u
      <4>3. CASE i # 1
        <5> DEFINE k == i - 1
        <5>1. k \in 1..Len(t) /\ k + 1 = i
          BY <1>1, <2>1, <4>3
        <5>2. \A l \in 1..Len(Tail(u)) : Tail(u)[l] = u[l + 1]
          BY <4>1, HeadTailProperties
        <5> HIDE DEF k, t
        <5>3. t[k] = u[k + 1] /\ t[k] = s[k + 1]
          BY <2>1, <4>1, <5>1, <5>2
        <5>4. QED
          BY <5>1, <5>3 DEF u
      <4>4. QED
        BY <4>2, <4>3
    <3>2. <<c>> \o t \in Seq(Tokens) /\ Len(<<c>> \o t) = Len(s)
      <4>1. Len(<<c>> \o t) = Len(t) + 1 /\ <<c>> \o t \in Seq(Tokens)
        BY <2>1, <2>2, CharacterAhead
      <4>2. QED
        BY <1>1, <2>1, <4>1
    <3> HIDE DEF t, c
    <3>3. QED
      BY <3>1, <3>2, SeqEqual
  <2> HIDE DEF t, c
  <2>5. QED
    BY <2>1, <2>2, <2>3, <2>4
<1>3. CASE s[1] = "$"
  <2>1. 1 \in Begins(s)
    BY <1>1, <1>3 DEF Whole, Begins
  <2>2. BeginIndex(s) = 1
    BY <1>1, <2>1, BeginFirst
  <2>3. PICK n \in Names, t \in Seq(Tokens) : Whole(t) /\ s = First(s) \o (Ref(n) \o t)
    BY <2>1, Cut
  <2>4. First(s) = <<>>
    <3>1. First(s) \in Seq(Tokens) /\ Len(First(s)) = 0
      BY <2>1, <2>2, FirstAndRest
    <3>2. QED
      BY <3>1, EmptySeq
  <2>5. s = Ref(n) \o t
    <3>1. Ref(n) \o t \in Seq(Tokens)
      BY RefAhead
    <3> DEFINE u == Ref(n) \o t
    <3> HIDE DEF u
    <3>2. <<>> \o u = u
      BY <3>1, ConcatEmptySeq DEF u
    <3>3. QED
      BY <2>3, <2>4, <3>2 DEF u
  <2>6. QED
    BY <2>3, <2>5
<1>4. QED
  BY <1>2, <1>3

(* What expands follows the three rules itself.                            *)
LEMMA Rules ==
  ASSUME TypeOK
  PROVE  /\ ExpandsTo(<<>>, <<>>)
         /\ \A s, r \in Seq(Tokens), c \in Tokens \ {"$"} :
              ExpandsTo(s, r) => ExpandsTo(<<c>> \o s, <<c>> \o r)
         /\ \A s, r, v \in Seq(Tokens), n \in Names :
              transmitData[n] # Missing /\ ExpandsTo(Text(<<n>>), v) /\ ExpandsTo(s, r)
                => ExpandsTo(Ref(n) \o s, v \o r)
<1>1. ExpandsTo(<<>>, <<>>)
  BY EmptySeq DEF ExpandsTo, Closed
<1>2. ASSUME NEW s \in Seq(Tokens), NEW r \in Seq(Tokens), NEW c \in Tokens \ {"$"},
             ExpandsTo(s, r)
      PROVE  ExpandsTo(<<c>> \o s, <<c>> \o r)
  <2>1. <<c>> \o s \in Seq(Tokens) /\ <<c>> \o r \in Seq(Tokens)
    BY CharacterAhead
  <2>2. ASSUME NEW E \in [Seq(Tokens) -> SUBSET Seq(Tokens)], Closed(E)
        PROVE  <<c>> \o r \in E[<<c>> \o s]
    BY <1>2, <2>2, Least DEF Closed
  <2>3. QED
    BY <2>1, <2>2 DEF ExpandsTo
<1>3. ASSUME NEW s \in Seq(Tokens), NEW r \in Seq(Tokens), NEW v \in Seq(Tokens),
             NEW n \in Names, transmitData[n] # Missing,
             ExpandsTo(Text(<<n>>), v), ExpandsTo(s, r)
      PROVE  ExpandsTo(Ref(n) \o s, v \o r)
  <2>1. Ref(n) \o s \in Seq(Tokens) /\ v \o r \in Seq(Tokens)
    BY RefAhead, ConcatProperties
  <2>2. ASSUME NEW E \in [Seq(Tokens) -> SUBSET Seq(Tokens)], Closed(E)
        PROVE  v \o r \in E[Ref(n) \o s]
    <3>1. v \in E[Text(<<n>>)] /\ r \in E[s]
      BY <1>3, <2>2, Least
    <3>2. QED
      BY <1>3, <2>2, <3>1 DEF Closed
  <2>3. QED
    BY <2>1, <2>2 DEF ExpandsTo
<1>4. QED
  BY <1>1, <1>2, <1>3

(* And by no other way: the last rule is found in what expands.            *)
ByRule(s, r) ==
  \/ s = <<>> /\ r = <<>>
  \/ \E t, q \in Seq(Tokens), c \in Tokens \ {"$"} :
       s = <<c>> \o t /\ r = <<c>> \o q /\ ExpandsTo(t, q)
  \/ \E t, q, v \in Seq(Tokens), n \in Names :
       /\ transmitData[n] # Missing /\ ExpandsTo(Text(<<n>>), v)
       /\ s = Ref(n) \o t /\ r = v \o q /\ ExpandsTo(t, q)

LEMMA Inversion ==
  ASSUME TypeOK, NEW s, NEW r, ExpandsTo(s, r)
  PROVE  Whole(s) /\ ByRule(s, r)
<1> DEFINE E == [a \in Seq(Tokens) |->
                  {b \in Seq(Tokens) : ExpandsTo(a, b) /\ Whole(a) /\ ByRule(a, b)}]
<1>1. <<>> \in E[<<>>]
  <2>1. <<>> \in Seq(Tokens) /\ Whole(<<>>)
    BY DEF Whole
  <2>2. QED
    BY <2>1, Rules DEF ByRule
<1>2. ASSUME NEW t \in Seq(Tokens), NEW q \in Seq(Tokens), NEW c \in Tokens \ {"$"},
             q \in E[t]
      PROVE  <<c>> \o q \in E[<<c>> \o t]
  <2>1. ExpandsTo(t, q) /\ Whole(t)
    BY <1>2
  <2>2. /\ <<c>> \o t \in Seq(Tokens) /\ <<c>> \o q \in Seq(Tokens)
        /\ Whole(<<c>> \o t)
    BY <2>1, CharacterAhead
  <2>3. ExpandsTo(<<c>> \o t, <<c>> \o q)
    BY <2>1, Rules
  <2>4. ByRule(<<c>> \o t, <<c>> \o q)
    BY <2>1, Zenon DEF ByRule
  <2>5. QED
    BY <2>2, <2>3, <2>4, Zenon
<1>3. ASSUME NEW t \in Seq(Tokens), NEW q \in Seq(Tokens), NEW v \in Seq(Tokens),
             NEW n \in Names, transmitData[n] # Missing,
             v \in E[Text(<<n>>)], q \in E[t]
      PROVE  v \o q \in E[Ref(n) \o t]
  <2>1. ExpandsTo(t, q) /\ Whole(t)
    BY <1>3
  <2>2. ExpandsTo(Text(<<n>>), v)
    <3>1. Text(<<n>>) \in Seq(Tokens)
      BY <1>3, TextIsString DEF ContainsKey
    <3>2. QED
      BY <1>3, <3>1
  <2>3. Ref(n) \o t \in Seq(Tokens) /\ v \o q \in Seq(Tokens) /\ Whole(Ref(n) \o t)
    BY <2>1, RefAhead, ConcatProperties
  <2>4. ExpandsTo(Ref(n) \o t, v \o q)
    BY <1>3, <2>1, <2>2, Rules
  <2>5. ByRule(Ref(n) \o t, v \o q)
    BY <1>3, <2>1, <2>2, Zenon DEF ByRule
  <2>6. QED
    BY <2>3, <2>4, <2>5, Zenon
<1>4. E \in [Seq(Tokens) -> SUBSET Seq(Tokens)]
  OBVIOUS
<1>5. Closed(E)
  <2> HIDE DEF E
  <2>1. QED
    BY <1>1, <1>2, <1>3 DEF Closed
<1>6. s \in Seq(Tokens) /\ r \in Seq(Tokens) /\ r \in E[s]
  <2> HIDE DEF E
  <2>1. QED
    BY <1>4, <1>5, Least
<1>7. QED
  BY <1>6

(* A text has one expansion.                                               *)
LEMMA Unique ==
  ASSUME TypeOK, NEW s, NEW r, ExpandsTo(s, r), NEW r2, ExpandsTo(s, r2)
  PROVE  r2 = r
<1> DEFINE E == [a \in Seq(Tokens) |->
                  {b \in Seq(Tokens) : \A b2 \in Seq(Tokens) : ExpandsTo(a, b2) => b2 = b}]
<1>1. <<>> \in E[<<>>]
  <2>1. ASSUME NEW b2 \in Seq(Tokens), ExpandsTo(<<>>, b2) PROVE b2 = <<>>
    <3>1. ByRule(<<>>, b2)
      BY <2>1, Inversion
    <3>2. QED
      BY <3>1, CharacterAhead, RefAhead DEF ByRule
  <2>2. <<>> \in Seq(Tokens)
    BY EmptySeq
  <2>3. QED
    BY <2>1, <2>2
<1>2. ASSUME NEW t \in Seq(Tokens), NEW q \in Seq(Tokens), NEW c \in Tokens \ {"$"},
             q \in E[t]
      PROVE  <<c>> \o q \in E[<<c>> \o t]
  <2> DEFINE a == <<c>> \o t
  <2>1. a \in Seq(Tokens) /\ a # <<>> /\ a[1] = c /\ Tail(a) = t /\ <<c>> \o q \in Seq(Tokens)
    BY CharacterAhead
  <2> HIDE DEF a
  <2>2. ASSUME NEW b2 \in Seq(Tokens), ExpandsTo(a, b2) PROVE b2 = <<c>> \o q
    <3>1. ByRule(a, b2)
      BY <2>2, Inversion
    <3>2. PICK t2 \in Seq(Tokens), q2 \in Seq(Tokens), d \in Tokens \ {"$"} :
            a = <<d>> \o t2 /\ b2 = <<d>> \o q2 /\ ExpandsTo(t2, q2)
      <4>1. ASSUME NEW t2 \in Seq(Tokens), NEW n \in Names, a = Ref(n) \o t2 PROVE FALSE
        BY <2>1, <4>1, RefAhead
      <4>2. QED
        BY <2>1, <3>1, <4>1 DEF ByRule
    <3>3. d = c /\ t2 = t
      BY <2>1, <3>2, CharacterAhead
    <3>4. q2 = q
      BY <1>2, <3>2, <3>3
    <3>5. QED
      BY <3>2, <3>3, <3>4
  <2>3. QED
    BY <2>1, <2>2 DEF a
<1>3. ASSUME NEW t \in Seq(Tokens), NEW q \in Seq(Tokens), NEW v \in Seq(Tokens),
             NEW n \in Names, transmitData[n] # Missing,
             v \in E[Text(<<n>>)], q \in E[t]
      PROVE  v \o q \in E[Ref(n) \o t]
  <2> DEFINE a == Ref(n) \o t
  <2>0. Text(<<n>>) \in Seq(Tokens)
    BY <1>3, TextIsString DEF ContainsKey
  <2>1. /\ a \in Seq(Tokens) /\ a # <<>> /\ a[1] = "$" /\ a[3] = n
        /\ SubSeq(a, 5, Len(a)) = t /\ v \o q \in Seq(Tokens)
    BY RefAhead, ConcatProperties
  <2> HIDE DEF a
  <2>2. ASSUME NEW b2 \in Seq(Tokens), ExpandsTo(a, b2) PROVE b2 = v \o q
    <3>1. ByRule(a, b2)
      BY <2>2, Inversion
    <3>2. PICK t2 \in Seq(Tokens), q2 \in Seq(Tokens), v2 \in Seq(Tokens), m \in Names :
            /\ ExpandsTo(Text(<<m>>), v2)
            /\ a = Ref(m) \o t2 /\ b2 = v2 \o q2 /\ ExpandsTo(t2, q2)
      <4>1. ASSUME NEW t2 \in Seq(Tokens), NEW d \in Tokens \ {"$"}, a = <<d>> \o t2 PROVE FALSE
        BY <2>1, <4>1, CharacterAhead
      <4>2. QED
        BY <2>1, <3>1, <4>1 DEF ByRule
    <3>3. m = n /\ t2 = t
      BY <2>1, <3>2, RefAhead
    <3>4. q2 = q /\ v2 = v
      BY <1>3, <2>0, <3>2, <3>3
    <3>5. QED
      BY <3>2, <3>4
  <2>3. QED
    BY <2>1, <2>2 DEF a
<1>4. E \in [Seq(Tokens) -> SUBSET Seq(Tokens)]
  OBVIOUS
<1>5. Closed(E)
  <2> HIDE DEF E
  <2>1. QED
    BY <1>1, <1>2, <1>3 DEF Closed
<1>6. s \in Seq(Tokens) /\ r \in Seq(Tokens) /\ r \in E[s]
  <2> HIDE DEF E
  <2>1. QED
    BY <1>4, <1>5, Least
<1>7. r2 \in Seq(Tokens)
  BY DEF ExpandsTo
<1>8. QED
  BY <1>6, <1>7

LEMMA Associative ==
  ASSUME NEW x \in Seq(Tokens), NEW y \in Seq(Tokens), NEW z \in Seq(Tokens)
  PROVE  x \o (y \o z) = (x \o y) \o z
BY ConcatAssociative, SMTT(30)

LEMMA BothEmpty ==
  ASSUME NEW x \in Seq(Tokens), NEW y \in Seq(Tokens), x \o y = <<>>
  PROVE  x = <<>> /\ y = <<>>
<1>1. Len(x \o y) = Len(x) + Len(y) /\ Len(x) \in Nat /\ Len(y) \in Nat
  BY ConcatProperties, LenProperties
<1>2. Len(x \o y) = 0
  OBVIOUS
<1>3. Len(x) = 0 /\ Len(y) = 0
  BY <1>1, <1>2
<1>4. QED
  BY <1>3, EmptySeq

LEMMA Ahead ==
  ASSUME NEW y \in Seq(Tokens), NEW z \in Seq(Tokens)
  PROVE  /\ y \o z \in Seq(Tokens)
         /\ \A c \in Tokens \ {"$"} : <<c>> \o (y \o z) = (<<c>> \o y) \o z
         /\ \A n \in Names : Ref(n) \o (y \o z) = (Ref(n) \o y) \o z
<1>1. ASSUME NEW c \in Tokens \ {"$"} PROVE <<c>> \o (y \o z) = (<<c>> \o y) \o z
  <2> DEFINE x == <<c>>
  <2>1. x \in Seq(Tokens)
    OBVIOUS
  <2> HIDE DEF x
  <2>2. x \o (y \o z) = (x \o y) \o z
    BY <2>1, Associative, SMTT(30)
  <2>3. QED
    BY <2>2 DEF x
<1>2. ASSUME NEW n \in Names PROVE Ref(n) \o (y \o z) = (Ref(n) \o y) \o z
  <2>1. Ref(n) \in Seq(Tokens)
    BY RefIsWhole
  <2>2. QED
    BY <2>1, Associative, SMTT(30)
<1>3. QED
  BY <1>1, <1>2, ConcatProperties

(* One text behind the other expands to the one expansion behind the other.*)
LEMMA Together ==
  ASSUME TypeOK, NEW s, NEW r, ExpandsTo(s, r), NEW t, NEW v, ExpandsTo(t, v)
  PROVE  ExpandsTo(s \o t, r \o v)
<1> DEFINE E == [a \in Seq(Tokens) |->
                  {b \in Seq(Tokens) : ExpandsTo(a, b) /\ ExpandsTo(a \o t, b \o v)}]
<1>0. t \in Seq(Tokens) /\ v \in Seq(Tokens)
  BY DEF ExpandsTo
<1>1. <<>> \in E[<<>>]
  <2>1. <<>> \in Seq(Tokens) /\ <<>> \o t = t /\ <<>> \o v = v
    BY <1>0, EmptySeq, ConcatEmptySeq
  <2>2. QED
    BY <2>1, Rules
<1>2. ASSUME NEW a \in Seq(Tokens), NEW b \in Seq(Tokens), NEW c \in Tokens \ {"$"},
             b \in E[a]
      PROVE  <<c>> \o b \in E[<<c>> \o a]
  <2>1. ExpandsTo(<<c>> \o (a \o t), <<c>> \o (b \o v))
    <3>1. ExpandsTo(a \o t, b \o v)
      BY <1>2
    <3>2. QED
      BY <3>1, Rules DEF ExpandsTo
  <2>2. /\ <<c>> \o (a \o t) = (<<c>> \o a) \o t
        /\ <<c>> \o (b \o v) = (<<c>> \o b) \o v
    <3> HIDE DEF E
    <3>1. QED
      BY <1>0, Ahead, ZenonT(30)
  <2>3. <<c>> \o a \in Seq(Tokens) /\ <<c>> \o b \in Seq(Tokens)
    BY CharacterAhead
  <2>4. ExpandsTo(<<c>> \o a, <<c>> \o b)
    BY <1>2, Rules
  <2>5. ExpandsTo((<<c>> \o a) \o t, (<<c>> \o b) \o v)
    BY <2>1, <2>2
  <2>6. QED
    BY <2>3, <2>4, <2>5, Zenon
<1>3. ASSUME NEW a \in Seq(Tokens), NEW b \in Seq(Tokens), NEW w \in Seq(Tokens),
             NEW n \in Names, transmitData[n] # Missing,
             w \in E[Text(<<n>>)], b \in E[a]
      PROVE  w \o b \in E[Ref(n) \o a]
  <2>1. /\ ExpandsTo(a, b) /\ ExpandsTo(a \o t, b \o v)
        /\ a \o t \in Seq(Tokens) /\ b \o v \in Seq(Tokens)
    BY <1>3 DEF ExpandsTo
  <2>2. ExpandsTo(Text(<<n>>), w)
    <3>1. Text(<<n>>) \in Seq(Tokens)
      BY <1>3, TextIsString DEF ContainsKey
    <3>2. QED
      BY <1>3, <3>1
  <2>3. ExpandsTo(Ref(n) \o (a \o t), w \o (b \o v)) /\ ExpandsTo(Ref(n) \o a, w \o b)
    BY <1>3, <2>1, <2>2, Rules
  <2>4. /\ Ref(n) \o (a \o t) = (Ref(n) \o a) \o t
        /\ w \o (b \o v) = (w \o b) \o v
    <3> HIDE DEF E
    <3>1. w \o (b \o v) = (w \o b) \o v
      BY <1>0, Associative, SMTT(30)
    <3>2. Ref(n) \o (a \o t) = (Ref(n) \o a) \o t
      BY <1>0, Ahead, ZenonT(30)
    <3>3. QED
      BY <3>1, <3>2
  <2>5. ExpandsTo((Ref(n) \o a) \o t, (w \o b) \o v)
    BY <2>3, <2>4
  <2>6. Ref(n) \o a \in Seq(Tokens) /\ w \o b \in Seq(Tokens)
    BY RefAhead, ConcatProperties
  <2>7. QED
    BY <2>3, <2>5, <2>6, Zenon
<1>4. E \in [Seq(Tokens) -> SUBSET Seq(Tokens)]
  OBVIOUS
<1>5. Closed(E)
  <2> HIDE DEF E
  <2>1. QED
    BY <1>1, <1>2, <1>3 DEF Closed
<1>6. s \in Seq(Tokens) /\ r \in Seq(Tokens) /\ r \in E[s]
  <2> HIDE DEF E
  <2>1. QED
    BY <1>4, <1>5, Least
<1>7. QED
  BY <1>6

(* What a text in two parts expands to are the expansions of the parts.    *)
Parts(a, b, r) ==
  \E ra, rb \in Seq(Tokens) : r = ra \o rb /\ ExpandsTo(a, ra) /\ ExpandsTo(b, rb)

LEMMA EmptyPart ==
  ASSUME TypeOK, NEW b, NEW r, ExpandsTo(b, r)
  PROVE  <<>> \o b = b /\ Parts(<<>>, b, r)
<1>1. b \in Seq(Tokens) /\ r \in Seq(Tokens) /\ <<>> \in Seq(Tokens)
  BY EmptySeq DEF ExpandsTo
<1>2. <<>> \o b = b /\ r = <<>> \o r
  BY <1>1, ConcatEmptySeq
<1>3. ExpandsTo(<<>>, <<>>)
  BY Rules
<1>4. QED
  BY <1>1, <1>2, <1>3, Zenon DEF Parts

LEMMA PartsAhead ==
  ASSUME TypeOK, NEW a \in Seq(Tokens), NEW b \in Seq(Tokens), NEW q \in Seq(Tokens),
         Parts(a, b, q)
  PROVE  /\ \A c \in Tokens \ {"$"} : Parts(<<c>> \o a, b, <<c>> \o q)
         /\ \A n \in Names, v \in Seq(Tokens) :
              transmitData[n] # Missing /\ ExpandsTo(Text(<<n>>), v)
                => Parts(Ref(n) \o a, b, v \o q)
<1>1. PICK ra \in Seq(Tokens), rb \in Seq(Tokens) :
        q = ra \o rb /\ ExpandsTo(a, ra) /\ ExpandsTo(b, rb)
  BY DEF Parts
<1>2. ASSUME NEW c \in Tokens \ {"$"} PROVE Parts(<<c>> \o a, b, <<c>> \o q)
  <2>1. ExpandsTo(<<c>> \o a, <<c>> \o ra)
    BY <1>1, Rules
  <2>2. <<c>> \o q = (<<c>> \o ra) \o rb
    BY <1>1, Ahead, ZenonT(30)
  <2>3. <<c>> \o ra \in Seq(Tokens)
    BY CharacterAhead
  <2>4. QED
    BY <1>1, <2>1, <2>2, <2>3, Zenon DEF Parts
<1>3. ASSUME NEW n \in Names, NEW v \in Seq(Tokens), transmitData[n] # Missing,
             ExpandsTo(Text(<<n>>), v)
      PROVE  Parts(Ref(n) \o a, b, v \o q)
  <2>1. ExpandsTo(Ref(n) \o a, v \o ra)
    BY <1>1, <1>3, Rules
  <2>2. v \o q = (v \o ra) \o rb
    BY <1>1, Associative, SMTT(30)
  <2>3. v \o ra \in Seq(Tokens)
    BY <1>1, ConcatProperties
  <2>4. QED
    BY <1>1, <2>1, <2>2, <2>3, Zenon DEF Parts
<1>4. QED
  BY <1>2, <1>3

LEMMA Apart ==
  ASSUME TypeOK, NEW a \in Seq(Tokens), NEW b \in Seq(Tokens), Whole(a),
         NEW r, ExpandsTo(a \o b, r)
  PROVE  Parts(a, b, r)
<1> DEFINE E == [s \in Seq(Tokens) |->
                  {q \in Seq(Tokens) : ExpandsTo(s, q)
                     /\ \A x, y \in Seq(Tokens) : Whole(x) /\ s = x \o y => Parts(x, y, q)}]
<1>1. <<>> \in E[<<>>]
  <2>1. ASSUME NEW x \in Seq(Tokens), NEW y \in Seq(Tokens), <<>> = x \o y
        PROVE  Parts(x, y, <<>>)
    <3>1. x = <<>> /\ y = <<>>
      BY <2>1, BothEmpty
    <3>2. QED
      BY <3>1, Rules, EmptyPart
  <2>2. <<>> \in Seq(Tokens) /\ ExpandsTo(<<>>, <<>>)
    BY EmptySeq, Rules
  <2>3. QED
    BY <2>1, <2>2
<1>2. ASSUME NEW t \in Seq(Tokens), NEW q \in Seq(Tokens), NEW c \in Tokens \ {"$"},
             q \in E[t]
      PROVE  <<c>> \o q \in E[<<c>> \o t]
  <2> DEFINE s == <<c>> \o t
             p == <<c>> \o q
  <2>1. /\ s \in Seq(Tokens) /\ s # <<>> /\ s[1] = c /\ Tail(s) = t
        /\ p \in Seq(Tokens) /\ ExpandsTo(s, p)
    <3>1. ExpandsTo(t, q)
      BY <1>2
    <3>2. QED
      BY <3>1, CharacterAhead, Rules
  <2>2. ASSUME NEW x \in Seq(Tokens), NEW y \in Seq(Tokens), Whole(x), s = x \o y
        PROVE  Parts(x, y, p)
    <3>1. CASE x = <<>>
      <4> HIDE DEF s, p
      <4>1. y = s
        BY <2>2, <3>1, ConcatEmptySeq
      <4>2. QED
        BY <2>1, <3>1, <4>1, EmptyPart
    <3>2. ASSUME NEW z \in Seq(Tokens), Whole(z), NEW d \in Tokens \ {"$"}, x = <<d>> \o z
          PROVE  Parts(x, y, p)
      <4>1. z \o y \in Seq(Tokens) /\ s = <<d>> \o (z \o y)
        <5>1. z \o y \in Seq(Tokens) /\ <<d>> \o (z \o y) = (<<d>> \o z) \o y
          <6> HIDE DEF E, s, p
          <6>1. QED
            BY Ahead, ZenonT(30)
        <5> HIDE DEF s
        <5>2. QED
          BY <2>2, <3>2, <5>1, Zenon
      <4> HIDE DEF s
      <4>2. d = c /\ t = z \o y
        BY <2>1, <4>1, CharacterAhead
      <4>3. Parts(z, y, q)
        BY <1>2, <3>2, <4>2
      <4>4. QED
        BY <3>2, <4>2, <4>3, PartsAhead
    <3>3. ASSUME NEW z \in Seq(Tokens), NEW n \in Names, x = Ref(n) \o z
          PROVE  FALSE
      <4>1. z \o y \in Seq(Tokens) /\ s = Ref(n) \o (z \o y)
        <5>1. z \o y \in Seq(Tokens) /\ Ref(n) \o (z \o y) = (Ref(n) \o z) \o y
          <6> HIDE DEF E, s, p
          <6>1. QED
            BY Ahead, ZenonT(30)
        <5> HIDE DEF s
        <5>2. QED
          BY <2>2, <3>3, <5>1, Zenon
      <4> HIDE DEF s
      <4>2. QED
        BY <2>1, <4>1, RefAhead
    <3> HIDE DEF s, p
    <3>4. CASE x # <<>>
      <4>1. PICK z \in Seq(Tokens) :
              /\ Whole(z)
              /\ \/ \E d \in Tokens \ {"$"} : x = <<d>> \o z
                 \/ \E n \in Names : x = Ref(n) \o z
        BY <2>2, <3>4, HeadCases
      <4>2. QED
        BY <3>2, <3>3, <4>1, Zenon
    <3>5. QED
      BY <3>1, <3>4
  <2>3. QED
    BY <2>1, <2>2
<1>3. ASSUME NEW t \in Seq(Tokens), NEW q \in Seq(Tokens), NEW v \in Seq(Tokens),
             NEW n \in Names, transmitData[n] # Missing,
             v \in E[Text(<<n>>)], q \in E[t]
      PROVE  v \o q \in E[Ref(n) \o t]
  <2> DEFINE s == Ref(n) \o t
             p == v \o q
  <2>0. ExpandsTo(Text(<<n>>), v) /\ ExpandsTo(t, q)
    <3>1. Text(<<n>>) \in Seq(Tokens)
      BY <1>3, TextIsString DEF ContainsKey
    <3>2. QED
      BY <1>3, <3>1
  <2>1. /\ s \in Seq(Tokens) /\ s # <<>> /\ s[1] = "$" /\ s[3] = n
        /\ SubSeq(s, 5, Len(s)) = t
        /\ p \in Seq(Tokens) /\ ExpandsTo(s, p)
    BY <1>3, <2>0, RefAhead, Rules, ConcatProperties
  <2>2. ASSUME NEW x \in Seq(Tokens), NEW y \in Seq(Tokens), Whole(x), s = x \o y
        PROVE  Parts(x, y, p)
    <3>1. CASE x = <<>>
      <4> HIDE DEF s, p
      <4>1. y = s
        BY <2>2, <3>1, ConcatEmptySeq
      <4>2. QED
        BY <2>1, <3>1, <4>1, EmptyPart
    <3>2. ASSUME NEW z \in Seq(Tokens), Whole(z), NEW m \in Names, x = Ref(m) \o z
          PROVE  Parts(x, y, p)
      <4>1. z \o y \in Seq(Tokens) /\ s = Ref(m) \o (z \o y)
        <5>1. z \o y \in Seq(Tokens) /\ Ref(m) \o (z \o y) = (Ref(m) \o z) \o y
          <6> HIDE DEF E, s, p
          <6>1. QED
            BY Ahead, ZenonT(30)
        <5> HIDE DEF s
        <5>2. QED
          BY <2>2, <3>2, <5>1, Zenon
      <4> HIDE DEF s
      <4>2. m = n /\ t = z \o y
        BY <2>1, <4>1, RefAhead
      <4>3. Parts(z, y, q)
        BY <1>3, <3>2, <4>2
      <4>4. QED
        BY <1>3, <2>0, <3>2, <4>2, <4>3, PartsAhead
    <3>3. ASSUME NEW z \in Seq(Tokens), NEW d \in Tokens \ {"$"}, x = <<d>> \o z
          PROVE  FALSE
      <4>1. z \o y \in Seq(Tokens) /\ s = <<d>> \o (z \o y)
        <5>1. z \o y \in Seq(Tokens) /\ <<d>> \o (z \o y) = (<<d>> \o z) \o y
          <6> HIDE DEF E, s, p
          <6>1. QED
            BY Ahead, ZenonT(30)
        <5> HIDE DEF s
        <5>2. QED
          BY <2>2, <3>3, <5>1, Zenon
      <4> HIDE DEF s
      <4>2. QED
        BY <2>1, <4>1, CharacterAhead
    <3> HIDE DEF s, p
    <3>4. CASE x # <<>>
      <4>1. PICK z \in Seq(Tokens) :
              /\ Whole(z)
              /\ \/ \E d \in Tokens \ {"$"} : x = <<d>> \o z
                 \/ \E m \in Names : x = Ref(m) \o z
        BY <2>2, <3>4, HeadCases
      <4>2. QED
        BY <3>2, <3>3, <4>1, Zenon
    <3>5. QED
      BY <3>1, <3>4
  <2>3. QED
    BY <2>1, <2>2
<1>4. E \in [Seq(Tokens) -> SUBSET Seq(Tokens)]
  OBVIOUS
<1>5. Closed(E)
  <2> HIDE DEF E
  <2>1. QED
    BY <1>1, <1>2, <1>3 DEF Closed
<1>6. a \o b \in Seq(Tokens) /\ r \in E[a \o b]
  <2> HIDE DEF E
  <2>1. QED
    BY <1>4, <1>5, Least
<1>7. QED
  BY <1>6

(* A text whose keys have expansions has one; a text without "$" stays.    *)
LEMMA Covered ==
  ASSUME TypeOK, NEW s \in Seq(Tokens), Whole(s),
         \A n \in Uses(s) :
           transmitData[n] # Missing /\ \E v \in Seq(Tokens) : ExpandsTo(Text(<<n>>), v)
  PROVE  \E r \in Seq(Tokens) : ExpandsTo(s, r)
<1> DEFINE Bad(t) ==
      /\ Whole(t)
      /\ \A n \in Uses(t) :
           transmitData[n] # Missing /\ \E v \in Seq(Tokens) : ExpandsTo(Text(<<n>>), v)
      /\ ~\E r \in Seq(Tokens) : ExpandsTo(t, r)
    L == {k \in Nat : \E t \in Seq(Tokens) : Len(t) = k /\ Bad(t)}
<1> SUFFICES ASSUME Bad(s) PROVE FALSE
  OBVIOUS
<1> HIDE DEF Bad
<1>1. L \in SUBSET Nat /\ Len(s) \in L
  BY LenProperties
<1>2. Min(L) \in L /\ \A k \in L : Min(L) <= k
  <2> HIDE DEF L
  <2>1. QED
    BY <1>1, Minimum
<1>3. PICK t \in Seq(Tokens) : Len(t) = Min(L) /\ Bad(t)
  BY <1>2
<1>4. ASSUME NEW u \in Seq(Tokens), Len(u) < Len(t), Bad(u) PROVE FALSE
  <2>1. Len(u) \in L
    BY <1>4, LenProperties
  <2> HIDE DEF L
  <2>2. Len(t) <= Len(u) /\ Len(t) \in Nat /\ Len(u) \in Nat
    BY <1>2, <1>3, <2>1, LenProperties
  <2>3. QED
    BY <1>4, <2>2
<1> HIDE DEF L
<1>5. t # <<>>
  BY <1>3, EmptySeq, Rules DEF Bad
<1>6. ASSUME NEW u \in Seq(Tokens), Whole(u), NEW c \in Tokens \ {"$"}, t = <<c>> \o u
      PROVE  FALSE
  <2>1. Uses(t) = Uses(u) /\ Len(t) = Len(u) + 1 /\ Len(u) \in Nat
    BY <1>6, CharacterAhead, LenProperties
  <2>2. Len(u) < Len(t)
    BY <2>1
  <2>3. PICK r \in Seq(Tokens) : ExpandsTo(u, r)
    BY <1>3, <1>4, <1>6, <2>1, <2>2 DEF Bad
  <2>4. ExpandsTo(t, <<c>> \o r) /\ <<c>> \o r \in Seq(Tokens)
    BY <1>6, <2>3, Rules, CharacterAhead
  <2>5. QED
    BY <1>3, <2>4 DEF Bad
<1>7. ASSUME NEW u \in Seq(Tokens), Whole(u), NEW n \in Names, t = Ref(n) \o u
      PROVE  FALSE
  <2>1. Uses(t) = {n} \cup Uses(u) /\ Len(t) = Len(u) + 4 /\ Len(u) \in Nat
    BY <1>7, RefAhead, LenProperties
  <2>2. Len(u) < Len(t)
    BY <2>1
  <2>3. PICK r \in Seq(Tokens) : ExpandsTo(u, r)
    BY <1>3, <1>4, <1>7, <2>1, <2>2 DEF Bad
  <2>4. PICK v \in Seq(Tokens) : transmitData[n] # Missing /\ ExpandsTo(Text(<<n>>), v)
    BY <1>3, <2>1 DEF Bad
  <2>5. ExpandsTo(t, v \o r) /\ v \o r \in Seq(Tokens)
    BY <1>7, <2>3, <2>4, Rules, ConcatProperties
  <2>6. QED
    BY <1>3, <2>5 DEF Bad
<1>8. QED
  BY <1>3, <1>5, <1>6, <1>7, HeadCases DEF Bad

LEMMA PlainExpands ==
  ASSUME TypeOK, NEW s \in Seq(Tokens), \A i \in 1..Len(s) : s[i] # "$"
  PROVE  ExpandsTo(s, s)
<1> DEFINE E == [a \in Seq(Tokens) |->
                  {b \in Seq(Tokens) : ExpandsTo(a, b) /\ (Uses(a) = {} => b = a)}]
<1>1. PICK r \in Seq(Tokens) : ExpandsTo(s, r)
  BY PlainIsWhole, Covered
<1>2. <<>> \in E[<<>>]
  BY EmptySeq, Rules
<1>3. ASSUME NEW t \in Seq(Tokens), NEW q \in Seq(Tokens), NEW c \in Tokens \ {"$"},
             q \in E[t]
      PROVE  <<c>> \o q \in E[<<c>> \o t]
  <2>1. ExpandsTo(t, q) /\ (Uses(t) = {} => q = t)
    BY <1>3
  <2>2. /\ <<c>> \o t \in Seq(Tokens) /\ <<c>> \o q \in Seq(Tokens)
        /\ Uses(<<c>> \o t) = Uses(t)
    BY <2>1, Inversion, CharacterAhead
  <2>3. ExpandsTo(<<c>> \o t, <<c>> \o q)
    BY <2>1, Rules
  <2>4. Uses(<<c>> \o t) = {} => <<c>> \o q = <<c>> \o t
    BY <2>1, <2>2
  <2>5. QED
    BY <2>2, <2>3, <2>4, Zenon
<1>4. ASSUME NEW t \in Seq(Tokens), NEW q \in Seq(Tokens), NEW v \in Seq(Tokens),
             NEW n \in Names, transmitData[n] # Missing,
             v \in E[Text(<<n>>)], q \in E[t]
      PROVE  v \o q \in E[Ref(n) \o t]
  <2>1. ExpandsTo(Text(<<n>>), v) /\ ExpandsTo(t, q)
    <3>1. Text(<<n>>) \in Seq(Tokens)
      BY <1>4, TextIsString DEF ContainsKey
    <3>2. QED
      BY <1>4, <3>1
  <2>2. /\ Ref(n) \o t \in Seq(Tokens) /\ v \o q \in Seq(Tokens)
        /\ Uses(Ref(n) \o t) # {}
    <3>1. Whole(t)
      BY <2>1, Inversion
    <3>2. Ref(n) \o t \in Seq(Tokens) /\ Uses(Ref(n) \o t) = {n} \cup Uses(t)
      BY <3>1, RefAhead
    <3>3. v \o q \in Seq(Tokens)
      BY ConcatProperties
    <3>4. QED
      BY <3>2, <3>3
  <2>3. ExpandsTo(Ref(n) \o t, v \o q)
    BY <1>4, <2>1, Rules
  <2>4. QED
    BY <2>2, <2>3, Zenon
<1>5. E \in [Seq(Tokens) -> SUBSET Seq(Tokens)]
  OBVIOUS
<1>6. Closed(E)
  <2> HIDE DEF E
  <2>1. QED
    BY <1>2, <1>3, <1>4 DEF Closed
<1>7. r \in E[s]
  <2> HIDE DEF E
  <2>1. QED
    BY <1>1, <1>5, <1>6, Least
<1>8. QED
  BY <1>1, <1>7, PlainIsWhole

-----------------------------------------------------------------------------
(* The keys a text needs, if it expands.                                   *)

LEMMA UsedFromUnion ==
  ASSUME NEW A \in SUBSET Names, NEW B \in SUBSET Names, NEW m \in UsedFrom(A \cup B)
  PROVE  m \in UsedFrom(A) \cup UsedFrom(B)
<1> DEFINE S == UsedFrom(A) \cup UsedFrom(B)
<1>1. S \in SUBSET Names
  BY DEF UsedFrom
<1>2. A \cup B \subseteq S /\ \A j \in S : UsedBy(j) \subseteq S
  BY UsedFromContains, UsedFromClosed
<1> HIDE DEF S
<1>3. m \in S
  BY <1>1, <1>2 DEF UsedFrom
<1>4. QED
  BY <1>3 DEF S

(* Each of them is there, has an expansion, and does not lead to itself.   *)
Sound(n) ==
  /\ transmitData[n] # Missing
  /\ \E v \in Seq(Tokens) : ExpandsTo(Text(<<n>>), v)
  /\ n \notin UsedFrom(UsedBy(n))

LEMMA NeededSound ==
  ASSUME TypeOK, NEW s, NEW r, ExpandsTo(s, r), NEW n \in UsedFrom(Uses(s))
  PROVE  Sound(n)
<1> DEFINE E == [a \in Seq(Tokens) |->
                  {b \in Seq(Tokens) : ExpandsTo(a, b) /\ \A m \in UsedFrom(Uses(a)) : Sound(m)}]
<1>1. <<>> \in E[<<>>]
  <2>1. Uses(<<>>) = {}
    BY DEF Uses, Begins
  <2>2. <<>> \in Seq(Tokens) /\ ExpandsTo(<<>>, <<>>) /\ UsedFrom(Uses(<<>>)) = {}
    BY <2>1, EmptySeq, Rules, UsedFromNothing
  <2>3. QED
    BY <2>2
<1>2. ASSUME NEW t \in Seq(Tokens), NEW q \in Seq(Tokens), NEW c \in Tokens \ {"$"},
             q \in E[t]
      PROVE  <<c>> \o q \in E[<<c>> \o t]
  <2>1. ExpandsTo(t, q) /\ \A m \in UsedFrom(Uses(t)) : Sound(m)
    BY <1>2
  <2>2. /\ <<c>> \o t \in Seq(Tokens) /\ <<c>> \o q \in Seq(Tokens)
        /\ Uses(<<c>> \o t) = Uses(t)
    BY <2>1, Inversion, CharacterAhead
  <2>3. ExpandsTo(<<c>> \o t, <<c>> \o q)
    BY <2>1, Rules
  <2>4. \A m \in UsedFrom(Uses(<<c>> \o t)) : Sound(m)
    BY <2>1, <2>2
  <2>5. QED
    BY <2>2, <2>3, <2>4, Zenon
<1>3. ASSUME NEW t \in Seq(Tokens), NEW q \in Seq(Tokens), NEW v \in Seq(Tokens),
             NEW k \in Names, transmitData[k] # Missing,
             v \in E[Text(<<k>>)], q \in E[t]
      PROVE  v \o q \in E[Ref(k) \o t]
  <2>1. /\ ExpandsTo(Text(<<k>>), v) /\ ExpandsTo(t, q)
        /\ \A m \in UsedFrom(Uses(Text(<<k>>))) : Sound(m)
        /\ \A m \in UsedFrom(Uses(t)) : Sound(m)
    <3>1. Text(<<k>>) \in Seq(Tokens)
      BY <1>3, TextIsString DEF ContainsKey
    <3>2. QED
      BY <1>3, <3>1
  <2>2. Whole(Text(<<k>>)) /\ Whole(t)
    BY <2>1, Inversion
  <2>3. Uses(Text(<<k>>)) = UsedBy(k)
    <3>1. IsText(transmitData[k]) => Whole(transmitData[k])
      BY <2>2 DEF Text, IsText
    <3>2. QED
      BY <1>3, <3>1, TextIsWhole
  <2>4. Ref(k) \o t \in Seq(Tokens) /\ Uses(Ref(k) \o t) = {k} \cup Uses(t)
    BY <2>2, RefAhead
  <2>5. v \o q \in Seq(Tokens) /\ ExpandsTo(Ref(k) \o t, v \o q)
    BY <1>3, <2>1, Rules, ConcatProperties
  <2>6. ASSUME NEW m \in UsedFrom({k} \cup Uses(t)) PROVE Sound(m)
    <3>1. m \in Names /\ Uses(t) \in SUBSET Names /\ UsedBy(k) \in SUBSET Names
      BY DEF UsedFrom, Uses, UsedBy
    <3>2. CASE m = k
      <4>1. k \in UsedFrom(UsedBy(k)) => k \notin UsedFrom(UsedBy(k))
        BY <2>1, <2>3 DEF Sound
      <4>2. QED
        BY <1>3, <2>1, <3>2, <4>1 DEF Sound
    <3>3. CASE m # k
      <4>1. m \in UsedFrom(UsedBy(k) \cup Uses(t))
        BY <3>1, <3>3, UsedFromUnfold
      <4>2. m \in UsedFrom(UsedBy(k)) \cup UsedFrom(Uses(t))
        BY <3>1, <4>1, UsedFromUnion
      <4>3. QED
        BY <2>1, <2>3, <4>2
    <3>4. QED
      BY <3>2, <3>3
  <2>7. QED
    BY <2>4, <2>5, <2>6
<1>4. E \in [Seq(Tokens) -> SUBSET Seq(Tokens)]
  OBVIOUS
<1>5. Closed(E)
  <2> HIDE DEF E
  <2>1. QED
    BY <1>1, <1>2, <1>3 DEF Closed
<1>6. s \in Seq(Tokens) /\ r \in E[s]
  <2> HIDE DEF E
  <2>1. QED
    BY <1>4, <1>5, Least
<1>7. QED
  BY <1>6

-----------------------------------------------------------------------------
(* The reference.  Where the template expands, the recursion of Expansion  *)
(* has a solution, and every solution is what the template expands to.     *)

Unfolded(e, s) ==
  IF s = <<>> THEN <<>>
  ELSE IF s[1] = "$" THEN e[Text(<<s[3]>>)] \o e[SubSeq(s, 5, Len(s))]
  ELSE <<s[1]>> \o e[Tail(s)]

(* The strings into which the recursion takes a text.                      *)
LEMMA TextsDescend ==
  ASSUME TypeOK, WellFormed, \A n \in Needed : transmitData[n] # Missing
  PROVE  /\ template \in Texts /\ Texts \subseteq Seq(Tokens)
         /\ \A t \in Seq(Tokens), c \in Tokens \ {"$"} :
              Whole(t) /\ <<c>> \o t \in Texts => t \in Texts
         /\ \A t \in Seq(Tokens), n \in Names :
              Whole(t) /\ Ref(n) \o t \in Texts
                => t \in Texts /\ n \in Needed /\ Text(<<n>>) \in Texts
<1>1. template \in Texts
  <2>1. template \in Seq(Tokens) /\ Whole(template)
    BY ConstantsAssumption DEF TypeOK, WellFormed
  <2>2. Uses(template) \subseteq Needed
    <3>1. Uses(template) \in SUBSET Names
      BY DEF Uses
    <3>2. QED
      BY <3>1, UsedFromContains DEF Needed
  <2>3. QED
    BY <2>1, <2>2 DEF Texts
<1>2. ASSUME NEW t \in Seq(Tokens), NEW c \in Tokens \ {"$"}, Whole(t), <<c>> \o t \in Texts
      PROVE  t \in Texts
  <2>1. Uses(<<c>> \o t) = Uses(t) /\ Uses(<<c>> \o t) \subseteq Needed
    BY <1>2, CharacterAhead DEF Texts
  <2>2. QED
    BY <1>2, <2>1 DEF Texts
<1>3. ASSUME NEW t \in Seq(Tokens), NEW n \in Names, Whole(t), Ref(n) \o t \in Texts
      PROVE  t \in Texts /\ n \in Needed /\ Text(<<n>>) \in Texts
  <2>1. Uses(Ref(n) \o t) = {n} \cup Uses(t) /\ Uses(Ref(n) \o t) \subseteq Needed
    BY <1>3, RefAhead DEF Texts
  <2>2. t \in Texts /\ n \in Needed
    BY <1>3, <2>1 DEF Texts
  <2>3. /\ Text(<<n>>) \in Seq(Tokens)
        /\ Whole(Text(<<n>>)) /\ Uses(Text(<<n>>)) = UsedBy(n)
    BY <2>2, TextIsWhole DEF WellFormed
  <2>4. UsedBy(n) \subseteq Needed
    <3>1. Uses(template) \in SUBSET Names
      BY DEF Uses
    <3>2. QED
      BY <2>2, <3>1, UsedFromClosed DEF Needed
  <2>5. QED
    BY <2>2, <2>3, <2>4 DEF Texts
<1>4. QED
  BY <1>1, <1>2, <1>3 DEF Texts

LEMMA ExpansionUnfolds ==
  ASSUME TypeOK, WellFormed, \A n \in Needed : Sound(n)
  PROVE  \A s \in Texts : Expansion[s] = Unfolded(Expansion, s)
<1> DEFINE f == [s \in Texts |-> CHOOSE r \in Seq(Tokens) : ExpandsTo(s, r)]
<1>1. \A n \in Needed : transmitData[n] # Missing
  BY DEF Sound
<1>2. ASSUME NEW s \in Texts PROVE ExpandsTo(s, f[s])
  <2>1. s \in Seq(Tokens) /\ Whole(s) /\ \A n \in Uses(s) : Sound(n)
    BY DEF Texts
  <2>2. \E r \in Seq(Tokens) : ExpandsTo(s, r)
    BY <2>1, Covered DEF Sound
  <2>3. QED
    BY <2>2
<1> HIDE DEF f
<1>3. ASSUME NEW s \in Texts PROVE f[s] = Unfolded(f, s)
  <2>1. s \in Seq(Tokens) /\ Whole(s) /\ ExpandsTo(s, f[s])
    BY <1>2 DEF Texts
  <2>2. CASE s = <<>>
    BY <2>1, <2>2, Rules, Unique DEF Unfolded
  <2>3. ASSUME NEW t \in Seq(Tokens), Whole(t), NEW c \in Tokens \ {"$"}, s = <<c>> \o t
        PROVE  f[s] = Unfolded(f, s)
    <3>1. t \in Texts
      BY <1>1, <2>3, TextsDescend
    <3>2. ExpandsTo(t, f[t])
      BY <1>2, <3>1
    <3>3. ExpandsTo(s, <<c>> \o f[t])
      <4>1. f[t] \in Seq(Tokens)
        BY <3>2 DEF ExpandsTo
      <4>2. QED
        BY <2>3, <3>2, <4>1, Rules
    <3>4. f[s] = <<c>> \o f[t]
      BY <2>1, <3>3, Unique
    <3>5. s # <<>> /\ s[1] = c /\ s[1] # "$" /\ Tail(s) = t
      BY <2>3, CharacterAhead
    <3>6. QED
      BY <3>4, <3>5, Zenon DEF Unfolded
  <2>4. ASSUME NEW t \in Seq(Tokens), Whole(t), NEW n \in Names, s = Ref(n) \o t
        PROVE  f[s] = Unfolded(f, s)
    <3>1. t \in Texts /\ Text(<<n>>) \in Texts /\ transmitData[n] # Missing
      BY <1>1, <2>4, TextsDescend
    <3>2. ExpandsTo(t, f[t]) /\ ExpandsTo(Text(<<n>>), f[Text(<<n>>)])
      BY <1>2, <3>1
    <3>3. ExpandsTo(s, f[Text(<<n>>)] \o f[t])
      <4>1. f[t] \in Seq(Tokens) /\ f[Text(<<n>>)] \in Seq(Tokens)
        BY <3>2 DEF ExpandsTo
      <4>2. QED
        BY <2>4, <3>1, <3>2, <4>1, Rules
    <3>4. f[s] = f[Text(<<n>>)] \o f[t]
      BY <2>1, <3>3, Unique
    <3>5. s # <<>> /\ s[1] = "$" /\ s[3] = n /\ SubSeq(s, 5, Len(s)) = t
      BY <2>4, RefAhead
    <3>6. QED
      BY <3>4, <3>5, Zenon DEF Unfolded
  <2>5. QED
    BY <2>1, <2>2, <2>3, <2>4, HeadCases
<1>4. f = [s \in Texts |-> Unfolded(f, s)]
  <2>1. f = [s \in Texts |-> f[s]]
    BY DEF f
  <2>2. QED
    BY <1>3, <2>1
<1>5. Expansion = [s \in Texts |-> Unfolded(Expansion, s)]
  BY <1>4, Zenon DEF Expansion, Unfolded
<1>6. QED
  BY <1>5, Zenon

LEMMA ExpansionIsLeast ==
  ASSUME TypeOK, WellFormed, NEW r, ExpandsTo(template, r)
  PROVE  Expansion[template] = r
<1>1. \A n \in Needed : Sound(n)
  BY NeededSound DEF Needed
<1>2. \A n \in Needed : transmitData[n] # Missing
  BY <1>1 DEF Sound
<1>3. \A s \in Texts : Expansion[s] = Unfolded(Expansion, s)
  BY <1>1, ExpansionUnfolds
<1> DEFINE E == [a \in Seq(Tokens) |->
                  {b \in Seq(Tokens) : Whole(a) /\ (a \in Texts => Expansion[a] = b)}]
<1>4. <<>> \in E[<<>>]
  <2>1. <<>> \in Seq(Tokens) /\ Whole(<<>>)
    BY EmptySeq DEF Whole
  <2>2. <<>> \in Texts => Expansion[<<>>] = <<>>
    BY <1>3 DEF Unfolded
  <2>3. QED
    BY <2>1, <2>2
<1>5. ASSUME NEW t \in Seq(Tokens), NEW q \in Seq(Tokens), NEW c \in Tokens \ {"$"},
             q \in E[t]
      PROVE  <<c>> \o q \in E[<<c>> \o t]
  <2>1. Whole(t) /\ (t \in Texts => Expansion[t] = q)
    BY <1>5
  <2> DEFINE s == <<c>> \o t
  <2>2. /\ s \in Seq(Tokens) /\ <<c>> \o q \in Seq(Tokens) /\ Whole(s)
        /\ s # <<>> /\ s[1] = c /\ Tail(s) = t
    BY <2>1, CharacterAhead
  <2>3. s \in Texts => t \in Texts
    BY <1>2, <2>1, TextsDescend
  <2> HIDE DEF s
  <2>4. s \in Texts => Expansion[s] = <<c>> \o q
    <3>1. s[1] # "$"
      BY <2>2
    <3>2. Unfolded(Expansion, s) = <<c>> \o Expansion[t]
      BY <2>2, <3>1, Zenon DEF Unfolded
    <3>3. QED
      BY <1>3, <2>1, <2>3, <3>2, Zenon
  <2>5. <<c>> \o q \in E[s]
    BY <2>2, <2>4, Zenon
  <2>6. QED
    BY <2>5 DEF s
<1>6. ASSUME NEW t \in Seq(Tokens), NEW q \in Seq(Tokens), NEW v \in Seq(Tokens),
             NEW n \in Names, transmitData[n] # Missing,
             v \in E[Text(<<n>>)], q \in E[t]
      PROVE  v \o q \in E[Ref(n) \o t]
  <2>1. /\ Whole(t) /\ (t \in Texts => Expansion[t] = q)
        /\ Text(<<n>>) \in Texts => Expansion[Text(<<n>>)] = v
    <3>1. Text(<<n>>) \in Seq(Tokens)
      BY <1>6, TextIsString DEF ContainsKey
    <3>2. QED
      BY <1>6, <3>1
  <2> DEFINE s == Ref(n) \o t
  <2>2. /\ s \in Seq(Tokens) /\ Whole(s)
        /\ s # <<>> /\ s[1] = "$" /\ s[3] = n /\ SubSeq(s, 5, Len(s)) = t
    BY <2>1, RefAhead
  <2>3. s \in Texts => t \in Texts /\ Text(<<n>>) \in Texts
    BY <1>2, <2>1, TextsDescend
  <2> HIDE DEF s
  <2>4. s \in Texts => Expansion[s] = v \o q
    <3>1. Unfolded(Expansion, s) = Expansion[Text(<<n>>)] \o Expansion[t]
      BY <2>2, Zenon DEF Unfolded
    <3>2. QED
      BY <1>3, <2>1, <2>3, <3>1, Zenon
  <2>5. v \o q \in Seq(Tokens)
    BY ConcatProperties
  <2>6. v \o q \in E[s]
    BY <2>2, <2>4, <2>5, Zenon
  <2>7. QED
    BY <2>6 DEF s
<1>7. E \in [Seq(Tokens) -> SUBSET Seq(Tokens)]
  OBVIOUS
<1>8. Closed(E)
  <2> HIDE DEF E
  <2>1. QED
    BY <1>4, <1>5, <1>6 DEF Closed
<1>9. template \in Seq(Tokens) /\ r \in E[template]
  <2> HIDE DEF E
  <2>1. QED
    BY <1>7, <1>8, Least
<1>10. QED
  BY <1>2, <1>9, TextsDescend

-----------------------------------------------------------------------------
(* The loop and the expansion: a round loses no expansion, so that what is *)
(* left when it ends, a text without "$", is the template's.               *)
Kept ==
  WellFormed => \A r \in Seq(Tokens) : ExpandsTo(value, r) => ExpandsTo(template, r)

LEMMA RoundKeeps ==
  ASSUME IInv, Kept, Replace, WellFormed, NEW r \in Seq(Tokens), ExpandsTo(value', r)
  PROVE  ExpandsTo(template, r)
<1>1. /\ TypeOK /\ Whole(value) /\ Uses(value) \subseteq Needed
      /\ \A n \in Uses(value) : IsText(transmitData[n]) => Whole(transmitData[n])
  BY DEF IInv, WellFormed
<1>2. PICK n \in Names, tail \in Seq(Tokens) :
        /\ transmitData[n] # Missing
        /\ First(value) \in Seq(Tokens)
        /\ \A i \in 1..Len(First(value)) : First(value)[i] # "$"
        /\ Text(<<n>>) \in Seq(Tokens) /\ Whole(Text(<<n>>))
        /\ value = First(value) \o (Ref(n) \o tail)
        /\ value' = First(value) \o (Text(<<n>>) \o tail)
  BY <1>1, Round
<1> DEFINE first == First(value)
           text == Text(<<n>>)
<1>3. first \in Seq(Tokens) /\ Whole(first)
  BY <1>2, PlainIsWhole
<1> HIDE DEF first
<1>4. text \o tail \in Seq(Tokens)
  BY <1>2, ConcatProperties
<1>5. PICK r1 \in Seq(Tokens), r2 \in Seq(Tokens) :
        r = r1 \o r2 /\ ExpandsTo(first, r1) /\ ExpandsTo(text \o tail, r2)
  <2>1. ExpandsTo(first \o (text \o tail), r)
    BY <1>2 DEF first
  <2> HIDE DEF text
  <2>2. Parts(first, text \o tail, r)
    BY <1>1, <1>3, <1>4, <2>1, Apart
  <2>3. QED
    BY <2>2 DEF Parts
<1>6. PICK r3 \in Seq(Tokens), r4 \in Seq(Tokens) :
        r2 = r3 \o r4 /\ ExpandsTo(text, r3) /\ ExpandsTo(tail, r4)
  <2>1. Parts(text, tail, r2)
    BY <1>1, <1>2, <1>5, Apart
  <2>2. QED
    BY <2>1 DEF Parts
<1>7. ExpandsTo(Ref(n) \o tail, r2)
  BY <1>1, <1>2, <1>6, Rules
<1>8. ExpandsTo(first \o (Ref(n) \o tail), r1 \o r2)
  BY <1>1, <1>5, <1>7, Together
<1>9. ExpandsTo(value, r)
  BY <1>2, <1>5, <1>8 DEF first
<1>10. QED
  BY <1>9 DEF Kept

LEMMA KeptStep == IInv /\ Kept /\ [Next]_vars => Kept'
<1> SUFFICES ASSUME IInv, Kept, [Next]_vars, WellFormed',
                    NEW r \in Seq(Tokens), ExpandsTo(value, r)'
             PROVE  ExpandsTo(template, r)'
  BY DEF Kept
<1>1. UNCHANGED <<template, transmitData>>
  BY DEF Next, Replace, KeyMissing, NoEnd, Return, vars
<1>2. WellFormed
  BY <1>1, DataStays
<1>3. /\ ExpandsTo(value, r)' <=> ExpandsTo(value', r)
      /\ ExpandsTo(template, r)' <=> ExpandsTo(template, r)
  BY <1>1 DEF ExpandsTo, Closed, Text, Ref
<1>4. CASE Replace
  BY <1>2, <1>3, <1>4, RoundKeeps
<1>5. CASE UNCHANGED value
  BY <1>2, <1>3, <1>5 DEF Kept
<1>6. QED
  BY <1>4, <1>5 DEF Next, KeyMissing, NoEnd, Return, vars

(* The expansion of the template is kept through the loop.                 *)
LEMMA ExpansionKept == Spec => []Kept
<1>1. Init => Kept
  BY DEF Init, Kept
<1>2. QED
  BY <1>1, KeptStep, InductiveInvariant, PTL DEF Spec

LEMMA DoneExpands ==
  ASSUME IInv, Kept, result = "done", WellFormed
  PROVE  ExpandsTo(template, value)
<1>1. value \in Seq(Tokens) /\ Whole(value) /\ Begins(value) = {}
  BY DEF IInv, TypeOK
<1>2. \A i \in 1..Len(value) : value[i] # "$"
  <2> SUFFICES ASSUME NEW i \in 1..Len(value), value[i] = "$" PROVE FALSE
    OBVIOUS
  <2>1. Len(value) \in Nat /\ i + 3 <= Len(value) /\ value[i + 1] = "("
    BY <1>1 DEF Whole
  <2>2. i \in Begins(value)
    BY <2>1 DEF Begins
  <2>3. QED
    BY <1>1, <2>2
<1>3. ExpandsTo(value, value)
  BY <1>1, <1>2, PlainExpands DEF IInv
<1>4. QED
  BY <1>1, <1>3 DEF Kept

(* A completed text is the expansion of the template, whatever order the   *)
(* loop met the placeholders in and however their values were nested: what *)
(* a value brings in never runs into the text around it.                   *)
THEOREM CompletedIsExpanded == Spec => []DoneIsExpanded
<1>1. IInv /\ Kept => DoneIsExpanded
  BY DoneExpands, ExpansionIsLeast DEF IInv, DoneIsExpanded
<1>2. QED
  BY <1>1, ExpansionKept, InductiveInvariant, PTL

(* A text one of whose keys leads back to itself is never completed.       *)
THEOREM CircularNeverCompleted == Spec => []NoneCircular
<1>1. IInv /\ Kept => NoneCircular
  BY DoneExpands, NeededSound DEF IInv, NoneCircular, Needed, Sound
<1>2. QED
  BY <1>1, ExpansionKept, InductiveInvariant, PTL

-----------------------------------------------------------------------------
(* The rounds a text takes, by the same rules: none for the empty text, a  *)
(* character adds none, a placeholder adds one and those of its value.     *)
CountClosed(E) ==
  /\ 0 \in E[<<>>]
  /\ \A s \in Seq(Tokens), k \in Nat, c \in Tokens \ {"$"} :
       k \in E[s] => k \in E[<<c>> \o s]
  /\ \A s \in Seq(Tokens), j, k \in Nat, n \in Names :
       transmitData[n] # Missing /\ j \in E[Text(<<n>>)] /\ k \in E[s]
         => 1 + j + k \in E[Ref(n) \o s]

Takes(s, k) ==
  /\ s \in Seq(Tokens) /\ k \in Nat
  /\ \A E \in [Seq(Tokens) -> SUBSET Nat] : CountClosed(E) => k \in E[s]

LEMMA LeastCount ==
  ASSUME NEW E \in [Seq(Tokens) -> SUBSET Nat], CountClosed(E), NEW s, NEW k, Takes(s, k)
  PROVE  s \in Seq(Tokens) /\ k \in Nat /\ k \in E[s]
BY DEF Takes

LEMMA CountRules ==
  ASSUME TypeOK
  PROVE  /\ Takes(<<>>, 0)
         /\ \A s \in Seq(Tokens), k \in Nat, c \in Tokens \ {"$"} :
              Takes(s, k) => Takes(<<c>> \o s, k)
         /\ \A s \in Seq(Tokens), j, k \in Nat, n \in Names :
              transmitData[n] # Missing /\ Takes(Text(<<n>>), j) /\ Takes(s, k)
                => Takes(Ref(n) \o s, 1 + j + k)
<1>1. Takes(<<>>, 0)
  BY EmptySeq DEF Takes, CountClosed
<1>2. ASSUME NEW s \in Seq(Tokens), NEW k \in Nat, NEW c \in Tokens \ {"$"}, Takes(s, k)
      PROVE  Takes(<<c>> \o s, k)
  <2>1. <<c>> \o s \in Seq(Tokens)
    BY CharacterAhead
  <2>2. ASSUME NEW E \in [Seq(Tokens) -> SUBSET Nat], CountClosed(E)
        PROVE  k \in E[<<c>> \o s]
    BY <1>2, <2>2, LeastCount DEF CountClosed
  <2>3. QED
    BY <2>1, <2>2 DEF Takes
<1>3. ASSUME NEW s \in Seq(Tokens), NEW j \in Nat, NEW k \in Nat, NEW n \in Names,
             transmitData[n] # Missing, Takes(Text(<<n>>), j), Takes(s, k)
      PROVE  Takes(Ref(n) \o s, 1 + j + k)
  <2>1. Ref(n) \o s \in Seq(Tokens)
    BY RefAhead
  <2>2. ASSUME NEW E \in [Seq(Tokens) -> SUBSET Nat], CountClosed(E)
        PROVE  1 + j + k \in E[Ref(n) \o s]
    <3>1. j \in E[Text(<<n>>)] /\ k \in E[s]
      BY <1>3, <2>2, LeastCount
    <3>2. QED
      BY <1>3, <2>2, <3>1 DEF CountClosed
  <2>3. 1 + j + k \in Nat
    OBVIOUS
  <2>4. QED
    BY <2>1, <2>2, <2>3 DEF Takes
<1>4. QED
  BY <1>1, <1>2, <1>3

LEMMA CountTogether ==
  ASSUME TypeOK, NEW s, NEW k, Takes(s, k), NEW t, NEW l, Takes(t, l)
  PROVE  Takes(s \o t, k + l)
<1> DEFINE E == [a \in Seq(Tokens) |->
                  {i \in Nat : Takes(a, i) /\ Takes(a \o t, i + l)}]
<1>0. t \in Seq(Tokens) /\ l \in Nat
  BY DEF Takes
<1>1. 0 \in E[<<>>]
  <2>1. <<>> \in Seq(Tokens) /\ <<>> \o t = t /\ 0 + l = l
    BY <1>0, EmptySeq, ConcatEmptySeq
  <2>2. QED
    BY <2>1, CountRules
<1>2. ASSUME NEW a \in Seq(Tokens), NEW i \in Nat, NEW c \in Tokens \ {"$"}, i \in E[a]
      PROVE  i \in E[<<c>> \o a]
  <2>1. Takes(a, i) /\ Takes(a \o t, i + l) /\ a \o t \in Seq(Tokens) /\ i + l \in Nat
    BY <1>2 DEF Takes
  <2>2. Takes(<<c>> \o (a \o t), i + l) /\ Takes(<<c>> \o a, i)
    BY <2>1, CountRules
  <2>3. <<c>> \o (a \o t) = (<<c>> \o a) \o t
    <3> HIDE DEF E
    <3>1. QED
      BY <1>0, Ahead, ZenonT(30)
  <2>4. <<c>> \o a \in Seq(Tokens)
    BY CharacterAhead
  <2>5. Takes((<<c>> \o a) \o t, i + l)
    BY <2>2, <2>3, Zenon
  <2>6. QED
    BY <2>2, <2>4, <2>5, Zenon
<1>3. ASSUME NEW a \in Seq(Tokens), NEW j \in Nat, NEW i \in Nat, NEW n \in Names,
             transmitData[n] # Missing, j \in E[Text(<<n>>)], i \in E[a]
      PROVE  1 + j + i \in E[Ref(n) \o a]
  <2>1. /\ Takes(a, i) /\ Takes(a \o t, i + l)
        /\ a \o t \in Seq(Tokens) /\ i + l \in Nat /\ 1 + j + i \in Nat
    BY <1>3 DEF Takes
  <2>2. Takes(Text(<<n>>), j)
    <3>1. Text(<<n>>) \in Seq(Tokens)
      BY <1>3, TextIsString DEF ContainsKey
    <3>2. QED
      BY <1>3, <3>1
  <2>3. Takes(Ref(n) \o (a \o t), 1 + j + (i + l)) /\ Takes(Ref(n) \o a, 1 + j + i)
    BY <1>3, <2>1, <2>2, CountRules
  <2>4. Ref(n) \o (a \o t) = (Ref(n) \o a) \o t
    <3> HIDE DEF E
    <3>1. QED
      BY <1>0, Ahead, ZenonT(30)
  <2>5. 1 + j + (i + l) = 1 + j + i + l
    BY <1>0
  <2>6. Takes((Ref(n) \o a) \o t, 1 + j + i + l)
    BY <2>3, <2>4, <2>5, Zenon
  <2>7. Ref(n) \o a \in Seq(Tokens)
    BY RefAhead
  <2>8. QED
    BY <2>1, <2>3, <2>6, <2>7, Zenon
<1>4. E \in [Seq(Tokens) -> SUBSET Nat]
  OBVIOUS
<1>5. CountClosed(E)
  <2> HIDE DEF E
  <2>1. QED
    BY <1>1, <1>2, <1>3 DEF CountClosed
<1>6. s \in Seq(Tokens) /\ k \in E[s]
  <2> HIDE DEF E
  <2>1. QED
    BY <1>4, <1>5, LeastCount
<1>7. QED
  BY <1>6

(* What expands does so in some number of rounds, a text without "$" in    *)
(* none.                                                                   *)
LEMMA ExpandsInRounds ==
  ASSUME TypeOK, NEW s, NEW r, ExpandsTo(s, r)
  PROVE  \E k \in Nat : Takes(s, k) /\ (Uses(s) = {} => k = 0)
<1> DEFINE E == [a \in Seq(Tokens) |->
                  {b \in Seq(Tokens) :
                     Whole(a) /\ \E k \in Nat : Takes(a, k) /\ (Uses(a) = {} => k = 0)}]
<1>1. <<>> \in E[<<>>]
  <2>1. <<>> \in Seq(Tokens) /\ Whole(<<>>)
    BY EmptySeq DEF Whole
  <2>2. QED
    BY <2>1, CountRules
<1>2. ASSUME NEW t \in Seq(Tokens), NEW q \in Seq(Tokens), NEW c \in Tokens \ {"$"},
             q \in E[t]
      PROVE  <<c>> \o q \in E[<<c>> \o t]
  <2>1. Whole(t)
    BY <1>2
  <2>2. PICK k \in Nat : Takes(t, k) /\ (Uses(t) = {} => k = 0)
    BY <1>2
  <2>3. /\ <<c>> \o t \in Seq(Tokens) /\ <<c>> \o q \in Seq(Tokens)
        /\ Whole(<<c>> \o t) /\ Uses(<<c>> \o t) = Uses(t)
    BY <2>1, CharacterAhead
  <2>4. Takes(<<c>> \o t, k) /\ (Uses(<<c>> \o t) = {} => k = 0)
    BY <2>2, <2>3, CountRules
  <2>5. QED
    BY <2>3, <2>4, Zenon
<1>3. ASSUME NEW t \in Seq(Tokens), NEW q \in Seq(Tokens), NEW v \in Seq(Tokens),
             NEW n \in Names, transmitData[n] # Missing,
             v \in E[Text(<<n>>)], q \in E[t]
      PROVE  v \o q \in E[Ref(n) \o t]
  <2>1. Whole(t)
    BY <1>3
  <2>2. PICK k \in Nat : Takes(t, k)
    BY <1>3
  <2>3. PICK j \in Nat : Takes(Text(<<n>>), j)
    <3>1. Text(<<n>>) \in Seq(Tokens)
      BY <1>3, TextIsString DEF ContainsKey
    <3>2. QED
      BY <1>3, <3>1
  <2>4. Takes(Ref(n) \o t, 1 + j + k) /\ 1 + j + k \in Nat
    BY <1>3, <2>2, <2>3, CountRules
  <2>5. /\ Ref(n) \o t \in Seq(Tokens) /\ Whole(Ref(n) \o t)
        /\ Uses(Ref(n) \o t) = {n} \cup Uses(t)
    BY <2>1, RefAhead
  <2>6. Uses(Ref(n) \o t) # {}
    BY <2>5
  <2>7. v \o q \in Seq(Tokens)
    BY ConcatProperties
  <2>8. QED
    BY <2>4, <2>5, <2>6, <2>7, Zenon
<1>4. E \in [Seq(Tokens) -> SUBSET Seq(Tokens)]
  OBVIOUS
<1>5. Closed(E)
  <2> HIDE DEF E
  <2>1. QED
    BY <1>1, <1>2, <1>3 DEF Closed
<1>6. s \in Seq(Tokens) /\ r \in E[s]
  <2> HIDE DEF E
  <2>1. QED
    BY <1>4, <1>5, Least
<1>7. QED
  BY <1>6

(* Where no key leads to itself, all keys needed have an expansion: among  *)
(* those which had none, take one that leads to as few keys as possible.   *)
LEMMA CompletableExpands ==
  ASSUME TypeOK, Completable, NEW n0 \in Needed
  PROVE  \E v \in Seq(Tokens) : ExpandsTo(Text(<<n0>>), v)
<1> DEFINE Expands(n) == \E v \in Seq(Tokens) : ExpandsTo(Text(<<n>>), v)
           Below(n) == UsedFrom(UsedBy(n))
           Sizes == {Cardinality(Below(n)) : n \in {m \in Needed : ~Expands(m)}}
<1> SUFFICES ASSUME ~Expands(n0) PROVE FALSE
  OBVIOUS
<1>1. \A n \in Names : Below(n) \in SUBSET Names /\ UsedBy(n) \in SUBSET Names
  BY DEF UsedFrom, UsedBy, Uses
<1>2. \A n \in Names : IsFiniteSet(Below(n)) /\ Cardinality(Below(n)) \in Nat
  <2> HIDE DEF Below
  <2>1. QED
    BY <1>1, ConstantsAssumption, FS_Subset, FS_CardinalityType
<1>3. Needed \subseteq Names
  BY DEF Needed, UsedFrom
<1>4. Sizes \in SUBSET Nat /\ Sizes # {}
  <2> HIDE DEF Below, Expands
  <2>1. QED
    BY <1>2, <1>3
<1> HIDE DEF Sizes
<1>5. Min(Sizes) \in Sizes /\ \A k \in Sizes : Min(Sizes) <= k
  BY <1>4, Minimum
<1> HIDE DEF Expands
<1>6. PICK n \in Needed : ~Expands(n) /\ Cardinality(Below(n)) = Min(Sizes)
  BY <1>5 DEF Sizes
<1>7. UsedBy(n) \subseteq Needed
  <2>1. Uses(template) \in SUBSET Names
    BY DEF Uses
  <2>2. QED
    BY <2>1, UsedFromClosed DEF Needed
<1>8. PICK m \in UsedBy(n) : ~Expands(m)
  <2> SUFFICES ASSUME \A m \in UsedBy(n) : Expands(m) PROVE FALSE
    OBVIOUS
  <2>1. transmitData[n] # Missing /\ (IsText(transmitData[n]) => Whole(transmitData[n]))
    BY DEF Completable, WellFormed
  <2>2. /\ Text(<<n>>) \in Seq(Tokens)
        /\ Whole(Text(<<n>>)) /\ Uses(Text(<<n>>)) = UsedBy(n)
    BY <1>3, <2>1, TextIsWhole
  <2>3. \A m \in Uses(Text(<<n>>)) :
          transmitData[m] # Missing /\ \E v \in Seq(Tokens) : ExpandsTo(Text(<<m>>), v)
    BY <1>7, <2>2 DEF Completable, Expands
  <2>4. \E r \in Seq(Tokens) : ExpandsTo(Text(<<n>>), r)
    BY <2>2, <2>3, Covered
  <2>5. QED
    BY <1>6, <2>4 DEF Expands
<1>9. m \in Needed /\ m \in Names /\ n \in Names
  BY <1>3, <1>7, <1>8
<1>10. m \in Below(n) /\ m \notin Below(m)
  <2>1. m \in Below(n)
    BY <1>1, <1>8, <1>9, UsedFromContains
  <2>2. m \notin Below(m)
    BY <1>9 DEF Completable
  <2>3. QED
    BY <2>1, <2>2
<1>11. Below(m) \subseteq Below(n)
  <2>1. UsedBy(m) \subseteq Below(n)
    BY <1>1, <1>9, <1>10, UsedFromClosed
  <2>2. \A j \in Below(n) : UsedBy(j) \subseteq Below(n)
    BY <1>1, <1>9, UsedFromClosed
  <2>3. ASSUME NEW S \in SUBSET Names, UsedBy(m) \subseteq S,
               \A j \in S : UsedBy(j) \subseteq S, NEW k \in Below(m)
        PROVE  k \in S
    BY <2>3 DEF UsedFrom
  <2>4. QED
    <3> HIDE DEF Below
    <3>1. QED
      BY <1>1, <1>9, <2>1, <2>2, <2>3
<1>12. Cardinality(Below(m)) < Cardinality(Below(n))
  <2> HIDE DEF Below
  <2>1. /\ Cardinality(Below(m)) <= Cardinality(Below(n))
        /\ Cardinality(Below(n)) = Cardinality(Below(m)) => Below(n) = Below(m)
    BY <1>2, <1>9, <1>11, FS_Subset
  <2>2. Cardinality(Below(m)) # Cardinality(Below(n))
    BY <1>10, <2>1
  <2>3. QED
    BY <1>2, <1>9, <2>1, <2>2
<1>13. Cardinality(Below(m)) \in Sizes
  BY <1>8, <1>9 DEF Sizes
<1>14. QED
  <2> HIDE DEF Below
  <2>1. Cardinality(Below(n)) <= Cardinality(Below(m))
    BY <1>5, <1>6, <1>13
  <2>2. QED
    BY <1>2, <1>9, <1>12, <2>1

(* The number of rounds of a text is one.                                  *)
CountByRule(s, k) ==
  \/ s = <<>> /\ k = 0
  \/ \E t \in Seq(Tokens), c \in Tokens \ {"$"} : s = <<c>> \o t /\ Takes(t, k)
  \/ \E t \in Seq(Tokens), i, j \in Nat, n \in Names :
       Takes(Text(<<n>>), j) /\ s = Ref(n) \o t /\ Takes(t, i) /\ k = 1 + j + i

LEMMA CountInversion ==
  ASSUME TypeOK, NEW s, NEW k, Takes(s, k)
  PROVE  CountByRule(s, k)
<1> DEFINE E == [a \in Seq(Tokens) |-> {i \in Nat : Takes(a, i) /\ CountByRule(a, i)}]
<1>1. 0 \in E[<<>>]
  BY EmptySeq, CountRules DEF CountByRule
<1>2. ASSUME NEW t \in Seq(Tokens), NEW i \in Nat, NEW c \in Tokens \ {"$"}, i \in E[t]
      PROVE  i \in E[<<c>> \o t]
  <2>1. Takes(t, i)
    BY <1>2
  <2>2. <<c>> \o t \in Seq(Tokens) /\ Takes(<<c>> \o t, i)
    BY <2>1, CharacterAhead, CountRules
  <2>3. CountByRule(<<c>> \o t, i)
    BY <2>1, Zenon DEF CountByRule
  <2>4. QED
    BY <2>2, <2>3, Zenon
<1>3. ASSUME NEW t \in Seq(Tokens), NEW j \in Nat, NEW i \in Nat, NEW n \in Names,
             transmitData[n] # Missing, j \in E[Text(<<n>>)], i \in E[t]
      PROVE  1 + j + i \in E[Ref(n) \o t]
  <2>1. Takes(t, i) /\ Takes(Text(<<n>>), j)
    <3>1. Text(<<n>>) \in Seq(Tokens)
      BY <1>3, TextIsString DEF ContainsKey
    <3>2. QED
      BY <1>3, <3>1
  <2>2. /\ Ref(n) \o t \in Seq(Tokens) /\ 1 + j + i \in Nat
        /\ Takes(Ref(n) \o t, 1 + j + i)
    BY <1>3, <2>1, RefAhead, CountRules
  <2>3. CountByRule(Ref(n) \o t, 1 + j + i)
    BY <2>1, Zenon DEF CountByRule
  <2>4. QED
    BY <2>2, <2>3, Zenon
<1>4. E \in [Seq(Tokens) -> SUBSET Nat]
  OBVIOUS
<1>5. CountClosed(E)
  <2> HIDE DEF E
  <2>1. QED
    BY <1>1, <1>2, <1>3 DEF CountClosed
<1>6. s \in Seq(Tokens) /\ k \in E[s]
  <2> HIDE DEF E
  <2>1. QED
    BY <1>4, <1>5, LeastCount
<1>7. QED
  BY <1>6

LEMMA CountUnique ==
  ASSUME TypeOK, NEW s, NEW k, Takes(s, k), NEW l, Takes(s, l)
  PROVE  l = k
<1> DEFINE E == [a \in Seq(Tokens) |-> {i \in Nat : \A j \in Nat : Takes(a, j) => j = i}]
<1>1. 0 \in E[<<>>]
  <2>1. ASSUME NEW j \in Nat, Takes(<<>>, j) PROVE j = 0
    <3>1. CountByRule(<<>>, j)
      BY <2>1, CountInversion
    <3>2. QED
      BY <3>1, CharacterAhead, RefAhead DEF CountByRule
  <2>2. QED
    BY <2>1, EmptySeq
<1>2. ASSUME NEW t \in Seq(Tokens), NEW i \in Nat, NEW c \in Tokens \ {"$"}, i \in E[t]
      PROVE  i \in E[<<c>> \o t]
  <2> DEFINE a == <<c>> \o t
  <2>1. a \in Seq(Tokens) /\ a # <<>> /\ a[1] = c /\ Tail(a) = t
    BY CharacterAhead
  <2> HIDE DEF a
  <2>2. ASSUME NEW j \in Nat, Takes(a, j) PROVE j = i
    <3>1. CountByRule(a, j)
      BY <2>2, CountInversion
    <3>2. ASSUME NEW u \in Seq(Tokens), NEW n \in Names, a = Ref(n) \o u PROVE FALSE
      BY <2>1, <3>2, RefAhead
    <3>3. PICK u \in Seq(Tokens), d \in Tokens \ {"$"} : a = <<d>> \o u /\ Takes(u, j)
      BY <2>1, <3>1, <3>2 DEF CountByRule
    <3>4. u = t
      BY <2>1, <3>3, CharacterAhead
    <3>5. QED
      BY <1>2, <3>3, <3>4
  <2>3. QED
    BY <2>1, <2>2 DEF a
<1>3. ASSUME NEW t \in Seq(Tokens), NEW j \in Nat, NEW i \in Nat, NEW n \in Names,
             transmitData[n] # Missing, j \in E[Text(<<n>>)], i \in E[t]
      PROVE  1 + j + i \in E[Ref(n) \o t]
  <2> DEFINE a == Ref(n) \o t
  <2>0. Text(<<n>>) \in Seq(Tokens)
    BY <1>3, TextIsString DEF ContainsKey
  <2>1. /\ a \in Seq(Tokens) /\ a # <<>> /\ a[1] = "$" /\ a[3] = n
        /\ SubSeq(a, 5, Len(a)) = t
    BY RefAhead
  <2> HIDE DEF a
  <2>2. ASSUME NEW l2 \in Nat, Takes(a, l2) PROVE l2 = 1 + j + i
    <3>1. CountByRule(a, l2)
      BY <2>2, CountInversion
    <3>2. ASSUME NEW u \in Seq(Tokens), NEW d \in Tokens \ {"$"}, a = <<d>> \o u PROVE FALSE
      BY <2>1, <3>2, CharacterAhead
    <3>3. PICK u \in Seq(Tokens), i2 \in Nat, j2 \in Nat, m \in Names :
            /\ Takes(Text(<<m>>), j2)
            /\ a = Ref(m) \o u /\ Takes(u, i2) /\ l2 = 1 + j2 + i2
      BY <2>1, <3>1, <3>2 DEF CountByRule
    <3>4. m = n /\ u = t
      BY <2>1, <3>3, RefAhead
    <3>5. i2 = i /\ j2 = j
      BY <1>3, <2>0, <3>3, <3>4
    <3>6. QED
      BY <3>3, <3>5
  <2>3. 1 + j + i \in Nat
    OBVIOUS
  <2>4. QED
    BY <2>1, <2>2, <2>3 DEF a
<1>4. E \in [Seq(Tokens) -> SUBSET Nat]
  OBVIOUS
<1>5. CountClosed(E)
  <2> HIDE DEF E
  <2>1. QED
    BY <1>1, <1>2, <1>3 DEF CountClosed
<1>6. s \in Seq(Tokens) /\ k \in E[s] /\ l \in Nat
  <2> HIDE DEF E
  <2>1. QED
    BY <1>4, <1>5, LeastCount DEF Takes
<1>7. QED
  BY <1>6

(* Rounds counts them.                                                     *)
RoundsOf(e, s) ==
  IF s = <<>> THEN 0
  ELSE IF s[1] = "$" THEN 1 + e[Text(<<s[3]>>)] + e[SubSeq(s, 5, Len(s))]
  ELSE e[Tail(s)]

LEMMA TextsTakeRounds ==
  ASSUME TypeOK, Completable, NEW s \in Texts
  PROVE  \E k \in Nat : Takes(s, k) /\ (Uses(s) = {} => k = 0)
<1>1. s \in Seq(Tokens) /\ Whole(s) /\ Uses(s) \subseteq Needed
  BY DEF Texts
<1>2. \A n \in Uses(s) :
        transmitData[n] # Missing /\ \E v \in Seq(Tokens) : ExpandsTo(Text(<<n>>), v)
  BY <1>1, CompletableExpands DEF Completable
<1>3. QED
  BY <1>1, <1>2, Covered, ExpandsInRounds

LEMMA RoundsUnfold ==
  ASSUME TypeOK, Completable
  PROVE  \A s \in Texts : Rounds[s] = RoundsOf(Rounds, s)
<1> DEFINE f == [s \in Texts |-> CHOOSE k \in Nat : Takes(s, k)]
<1>1. WellFormed /\ \A n \in Needed : transmitData[n] # Missing
  BY DEF Completable
<1>2. ASSUME NEW s \in Texts PROVE f[s] \in Nat /\ Takes(s, f[s])
  <2>1. \E k \in Nat : Takes(s, k)
    BY TextsTakeRounds
  <2>2. QED
    BY <2>1
<1> HIDE DEF f
<1>3. ASSUME NEW s \in Texts PROVE f[s] = RoundsOf(f, s)
  <2>1. s \in Seq(Tokens) /\ Whole(s) /\ Takes(s, f[s])
    BY <1>2 DEF Texts
  <2>2. CASE s = <<>>
    BY <2>1, <2>2, CountRules, CountUnique DEF RoundsOf
  <2>3. ASSUME NEW t \in Seq(Tokens), Whole(t), NEW c \in Tokens \ {"$"}, s = <<c>> \o t
        PROVE  f[s] = RoundsOf(f, s)
    <3>1. t \in Texts
      BY <1>1, <2>3, TextsDescend
    <3>2. Takes(s, f[t])
      BY <1>2, <2>3, <3>1, CountRules
    <3>3. f[s] = f[t]
      BY <2>1, <3>2, CountUnique
    <3>4. s # <<>> /\ s[1] # "$" /\ Tail(s) = t
      BY <2>3, CharacterAhead
    <3>5. QED
      BY <3>3, <3>4, Zenon DEF RoundsOf
  <2>4. ASSUME NEW t \in Seq(Tokens), Whole(t), NEW n \in Names, s = Ref(n) \o t
        PROVE  f[s] = RoundsOf(f, s)
    <3>1. t \in Texts /\ Text(<<n>>) \in Texts /\ transmitData[n] # Missing
      BY <1>1, <2>4, TextsDescend
    <3>2. Takes(s, 1 + f[Text(<<n>>)] + f[t])
      <4>1. /\ f[t] \in Nat /\ Takes(t, f[t])
            /\ f[Text(<<n>>)] \in Nat /\ Takes(Text(<<n>>), f[Text(<<n>>)])
        BY <1>2, <3>1
      <4>2. QED
        BY <2>4, <3>1, <4>1, CountRules
    <3>3. f[s] = 1 + f[Text(<<n>>)] + f[t]
      BY <2>1, <3>2, CountUnique
    <3>4. s # <<>> /\ s[1] = "$" /\ s[3] = n /\ SubSeq(s, 5, Len(s)) = t
      BY <2>4, RefAhead
    <3>5. QED
      BY <3>3, <3>4, Zenon DEF RoundsOf
  <2>5. QED
    BY <2>1, <2>2, <2>3, <2>4, HeadCases
<1>4. f = [s \in Texts |-> RoundsOf(f, s)]
  <2>1. f = [s \in Texts |-> f[s]]
    BY DEF f
  <2>2. QED
    BY <1>3, <2>1
<1>5. Rounds = [s \in Texts |-> RoundsOf(Rounds, s)]
  BY <1>4, Zenon DEF Rounds, RoundsOf
<1>6. QED
  BY <1>5, Zenon

LEMMA RoundsCount ==
  ASSUME TypeOK, Completable, NEW s \in Texts, NEW k, Takes(s, k)
  PROVE  Rounds[s] = k
<1>1. WellFormed /\ \A n \in Needed : transmitData[n] # Missing
  BY DEF Completable
<1>2. \A a \in Texts : Rounds[a] = RoundsOf(Rounds, a)
  BY RoundsUnfold
<1> DEFINE E == [a \in Seq(Tokens) |->
                  {i \in Nat : Whole(a) /\ (a \in Texts => Rounds[a] = i)}]
<1>3. 0 \in E[<<>>]
  <2>1. <<>> \in Seq(Tokens) /\ Whole(<<>>)
    BY EmptySeq DEF Whole
  <2>2. <<>> \in Texts => Rounds[<<>>] = 0
    BY <1>2 DEF RoundsOf
  <2>3. QED
    BY <2>1, <2>2
<1>4. ASSUME NEW t \in Seq(Tokens), NEW i \in Nat, NEW c \in Tokens \ {"$"}, i \in E[t]
      PROVE  i \in E[<<c>> \o t]
  <2>1. Whole(t) /\ (t \in Texts => Rounds[t] = i)
    BY <1>4
  <2> DEFINE a == <<c>> \o t
  <2>2. /\ a \in Seq(Tokens) /\ Whole(a)
        /\ a # <<>> /\ a[1] # "$" /\ Tail(a) = t
    BY <2>1, CharacterAhead
  <2>3. a \in Texts => t \in Texts
    BY <1>1, <2>1, TextsDescend
  <2> HIDE DEF a
  <2>4. a \in Texts => Rounds[a] = i
    <3>1. RoundsOf(Rounds, a) = Rounds[t]
      BY <2>2, Zenon DEF RoundsOf
    <3>2. QED
      BY <1>2, <2>1, <2>3, <3>1, Zenon
  <2>5. i \in E[a]
    BY <2>2, <2>4, Zenon
  <2>6. QED
    BY <2>5 DEF a
<1>5. ASSUME NEW t \in Seq(Tokens), NEW j \in Nat, NEW i \in Nat, NEW n \in Names,
             transmitData[n] # Missing, j \in E[Text(<<n>>)], i \in E[t]
      PROVE  1 + j + i \in E[Ref(n) \o t]
  <2>1. /\ Whole(t) /\ (t \in Texts => Rounds[t] = i)
        /\ Text(<<n>>) \in Texts => Rounds[Text(<<n>>)] = j
    <3>1. Text(<<n>>) \in Seq(Tokens)
      BY <1>5, TextIsString DEF ContainsKey
    <3>2. QED
      BY <1>5, <3>1
  <2> DEFINE a == Ref(n) \o t
  <2>2. /\ a \in Seq(Tokens) /\ Whole(a)
        /\ a # <<>> /\ a[1] = "$" /\ a[3] = n /\ SubSeq(a, 5, Len(a)) = t
    BY <2>1, RefAhead
  <2>3. a \in Texts => t \in Texts /\ Text(<<n>>) \in Texts
    BY <1>1, <2>1, TextsDescend
  <2> HIDE DEF a
  <2>4. a \in Texts => Rounds[a] = 1 + j + i
    <3>1. RoundsOf(Rounds, a) = 1 + Rounds[Text(<<n>>)] + Rounds[t]
      BY <2>2, Zenon DEF RoundsOf
    <3>2. QED
      BY <1>2, <2>1, <2>3, <3>1, Zenon
  <2>5. 1 + j + i \in Nat
    OBVIOUS
  <2>6. 1 + j + i \in E[a]
    BY <2>2, <2>4, <2>5, Zenon
  <2>7. QED
    BY <2>6 DEF a
<1>6. E \in [Seq(Tokens) -> SUBSET Nat]
  OBVIOUS
<1>7. CountClosed(E)
  <2> HIDE DEF E
  <2>1. QED
    BY <1>3, <1>4, <1>5 DEF CountClosed
<1>8. s \in Seq(Tokens) /\ k \in E[s]
  <2> HIDE DEF E
  <2>1. QED
    BY <1>6, <1>7, LeastCount
<1>9. QED
  BY <1>8

(* A round takes one placeholder away, and puts its value in.              *)
LEMMA RoundTakesOne ==
  ASSUME IInv, Completable, Replace
  PROVE  value' \in Texts /\ Rounds[value] = Rounds[value'] + 1
<1>1. /\ TypeOK /\ WellFormed /\ Whole(value) /\ Uses(value) \subseteq Needed
      /\ \A n \in Uses(value) : IsText(transmitData[n]) => Whole(transmitData[n])
      /\ \A n \in Needed : transmitData[n] # Missing
  BY DEF IInv, Completable, WellFormed
<1>2. PICK n \in Names, tail \in Seq(Tokens) :
        /\ transmitData[n] # Missing
        /\ Whole(tail) /\ First(value) \in Seq(Tokens)
        /\ \A i \in 1..Len(First(value)) : First(value)[i] # "$"
        /\ Text(<<n>>) \in Seq(Tokens) /\ Whole(Text(<<n>>))
        /\ value = First(value) \o (Ref(n) \o tail)
        /\ value' = First(value) \o (Text(<<n>>) \o tail)
        /\ Uses(value) = {n} \cup Uses(tail)
  BY <1>1, Round
<1>3. value' \in Texts
  <2>1. Whole(value') /\ Uses(value') \subseteq Needed
    BY <1>1, ReplaceKeeps
  <2>2. value' \in Seq(Tokens)
    <3>1. TypeOK'
      BY <1>1, TypeStep DEF Next
    <3>2. QED
      BY <3>1 DEF TypeOK
  <2>3. QED
    BY <2>1, <2>2 DEF Texts
<1>4. value \in Texts /\ tail \in Texts /\ Text(<<n>>) \in Texts
  <2>1. value \in Texts /\ tail \in Texts /\ n \in Needed
    BY <1>1, <1>2 DEF Texts, TypeOK
  <2>2. Uses(Text(<<n>>)) = UsedBy(n)
    BY <1>1, <1>2, TextIsWhole
  <2>3. UsedBy(n) \subseteq Needed
    <3>1. Uses(template) \in SUBSET Names
      BY DEF Uses
    <3>2. QED
      BY <2>1, <3>1, UsedFromClosed DEF Needed
  <2>4. QED
    BY <1>2, <2>1, <2>2, <2>3 DEF Texts
<1> DEFINE first == First(value)
           text == Text(<<n>>)
<1>5. first \in Texts /\ Uses(first) = {}
  BY <1>2, PlainIsWhole DEF Texts
<1> HIDE DEF first, text
<1>6. Takes(first, 0)
  BY <1>1, <1>5, TextsTakeRounds
<1>7. PICK k \in Nat : Takes(tail, k)
  BY <1>1, <1>4, TextsTakeRounds
<1>8. PICK j \in Nat : Takes(text, j)
  BY <1>1, <1>4, TextsTakeRounds DEF text
<1>9. Takes(value, 1 + j + k)
  <2>1. Takes(Ref(n) \o tail, 1 + j + k)
    BY <1>1, <1>2, <1>7, <1>8, CountRules DEF text
  <2>2. Takes(first \o (Ref(n) \o tail), 0 + (1 + j + k))
    BY <1>1, <1>6, <2>1, CountTogether
  <2>3. 0 + (1 + j + k) = 1 + j + k
    OBVIOUS
  <2>4. QED
    BY <1>2, <2>2, <2>3 DEF first
<1>10. Takes(value', j + k)
  <2>1. Takes(text \o tail, j + k)
    BY <1>1, <1>7, <1>8, CountTogether
  <2>2. Takes(first \o (text \o tail), 0 + (j + k))
    BY <1>1, <1>6, <2>1, CountTogether
  <2>3. 0 + (j + k) = j + k
    OBVIOUS
  <2>4. QED
    BY <1>2, <2>2, <2>3 DEF first, text
<1>11. Rounds[value] = 1 + j + k /\ Rounds[value'] = j + k
  BY <1>1, <1>3, <1>4, <1>9, <1>10, RoundsCount
<1>12. QED
  BY <1>3, <1>11

(* The rounds left to make are one fewer after each, whatever the values   *)
(* put in: so a loop that can be completed goes on only so long.           *)
THEOREM RoundsGoDown == Spec => RoundsFall
<1>1. IInv /\ [Next]_vars => [OneRoundFewer]_vars
  <2> SUFFICES ASSUME IInv, Next, Completable, value' # value
               PROVE  value' \in Texts /\ Rounds[value] = Rounds[value'] + 1
    BY DEF OneRoundFewer, vars
  <2>1. Replace
    BY DEF Next, KeyMissing, NoEnd, Return
  <2>2. QED
    BY <2>1, RoundTakesOne
<1>2. QED
  BY <1>1, InductiveInvariant, PTL DEF Spec, RoundsFall

(* And there is a number of them.                                          *)
RoundsLeft == Completable => Rounds[value] \in Nat

THEOREM RoundsLeftCounted == Spec => []RoundsLeft
<1>1. IInv => RoundsLeft
  <2> SUFFICES ASSUME IInv, Completable PROVE Rounds[value] \in Nat
    BY DEF RoundsLeft
  <2>1. TypeOK /\ value \in Texts
    BY DEF IInv, TypeOK, Texts, Completable
  <2>2. PICK k \in Nat : Takes(value, k)
    BY <2>1, TextsTakeRounds
  <2>3. QED
    BY <2>1, <2>2, RoundsCount
<1>2. QED
  BY <1>1, InductiveInvariant, PTL
=============================================================================
