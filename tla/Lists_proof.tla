---------------------------- MODULE Lists_proof ----------------------------
(***************************************************************************)
(* What the list operations return: the elements they keep, and that they  *)
(* put no value in a list twice.                                           *)
(***************************************************************************)
EXTENDS Lists, SequenceTheorems, WellFoundedInduction, TLAPS

(* A scan ends at the first position of the set.                           *)
LEMMA MinExists ==
  ASSUME NEW I \in SUBSET Nat, I # {}
  PROVE  \E i \in I : \A j \in I : i <= j
<1>1. \E i \in I : \A j \in I : ~(<<j, i>> \in OpToRel(<, Nat))
  BY NatLessThanWellFounded, WFMin
<1>2. ASSUME NEW i \in Nat, NEW j \in Nat, ~(<<j, i>> \in OpToRel(<, Nat))
      PROVE  i <= j
  BY <1>2 DEF OpToRel
<1> QED BY <1>1, <1>2

(* FirstOf gives a position of the set, 0 exactly when there is none.      *)
LEMMA FirstOfProperties ==
  ASSUME NEW n \in Nat, NEW I \in SUBSET (1..n)
  PROVE  /\ FirstOf(I) \in 0..n
         /\ FirstOf(I) # 0 => FirstOf(I) \in I
         /\ FirstOf(I) = 0 => I = {}
<1>1. CASE I = {}
  BY <1>1 DEF FirstOf
<1>2. CASE I # {}
  <2>1. \E i \in I : \A j \in I : i <= j
    BY <1>2, MinExists
  <2>2. FirstOf(I) \in I
    BY <1>2, <2>1 DEF FirstOf
  <2>3. FirstOf(I) \in 1..n
    BY <2>2
  <2> QED BY <1>2, <2>2, <2>3
<1> QED BY <1>1, <1>2

(* The longest prefix of passing positions exists.                         *)
LEMMA LongestPrefixProperties ==
  ASSUME NEW n \in Nat, NEW I
  PROVE  /\ LongestPrefix(n, I) \in 0..n
         /\ \A i \in 1..LongestPrefix(n, I) : i \in I
         /\ LongestPrefix(n, I) < n => LongestPrefix(n, I) + 1 \notin I
<1> DEFINE Failing == {i \in 1..n : i \notin I}
           Is(k) == 1..k \subseteq I /\ (k < n => k + 1 \notin I)
<1>1. \E k \in 0..n : Is(k)
  <2>1. CASE Failing = {}
    <3>1. Is(n)
      BY <2>1
    <3> QED BY <3>1
  <2>2. CASE Failing # {}
    <3> Failing \in SUBSET Nat
      OBVIOUS
    <3> HIDE DEF Failing
    <3>1. PICK i \in Failing : \A j \in Failing : i <= j
      BY <2>2, MinExists
    <3> USE DEF Failing
    <3>2. i - 1 \in 0..n /\ Is(i - 1)
      BY <3>1
    <3> QED BY <3>2
  <2> QED BY <2>1, <2>2
<1>2. LongestPrefix(n, I) \in 0..n /\ Is(LongestPrefix(n, I))
  BY <1>1 DEF LongestPrefix
<1> QED BY <1>2

-----------------------------------------------------------------------------
(* Append adds one element.                                                *)
LEMMA AppendElements ==
  ASSUME NEW S, NEW s \in Seq(S), NEW x \in S
  PROVE  /\ Append(s, x) \in Seq(S)
         /\ Elements(Append(s, x)) = Elements(s) \cup {x}
         /\ NoRepeat(s) /\ x \notin Elements(s) => NoRepeat(Append(s, x))
<1>1. Len(s) \in Nat /\ Len(Append(s, x)) = Len(s) + 1
  BY AppendProperties, LenProperties
<1>2. \A i \in 1..Len(s) : Append(s, x)[i] = s[i]
  BY AppendProperties
<1>3. Append(s, x)[Len(s) + 1] = x
  BY AppendProperties
<1>4. Elements(Append(s, x)) = Elements(s) \cup {x}
  <2>1. \A y \in Elements(s) \cup {x} : y \in Elements(Append(s, x))
    BY <1>1, <1>2, <1>3 DEF Elements
  <2>2. \A y \in Elements(Append(s, x)) : y \in Elements(s) \cup {x}
    BY <1>1, <1>2, <1>3 DEF Elements
  <2> QED BY <2>1, <2>2
<1>5. NoRepeat(s) /\ x \notin Elements(s) => NoRepeat(Append(s, x))
  BY <1>1, <1>2, <1>3 DEF NoRepeat, Elements
<1> QED BY <1>4, <1>5, AppendProperties

(* A concatenation has the elements of both lists.                         *)
LEMMA ConcatElements ==
  ASSUME NEW S, NEW s \in Seq(S), NEW t \in Seq(S)
  PROVE  /\ s \o t \in Seq(S)
         /\ Elements(s \o t) = Elements(s) \cup Elements(t)
         /\ NoRepeat(s) /\ NoRepeat(t) /\ Elements(s) \cap Elements(t) = {}
              => NoRepeat(s \o t)
<1>1. Len(s) \in Nat /\ Len(t) \in Nat /\ Len(s \o t) = Len(s) + Len(t)
  BY ConcatProperties, LenProperties
<1>2. \A i \in 1..Len(s \o t) :
        (s \o t)[i] = IF i <= Len(s) THEN s[i] ELSE t[i - Len(s)]
  BY <1>1, ConcatProperties
<1>3. Elements(s \o t) = Elements(s) \cup Elements(t)
  <2>1. ASSUME NEW i \in 1..Len(s) PROVE s[i] \in Elements(s \o t)
    BY <1>1, <1>2 DEF Elements
  <2>2. ASSUME NEW i \in 1..Len(t) PROVE t[i] \in Elements(s \o t)
    <3>1. (s \o t)[i + Len(s)] = t[i] /\ i + Len(s) \in 1..Len(s \o t)
      BY <1>1, <1>2
    <3> QED BY <3>1 DEF Elements
  <2>3. ASSUME NEW i \in 1..Len(s \o t) PROVE (s \o t)[i] \in Elements(s) \cup Elements(t)
    BY <1>1, <1>2 DEF Elements
  <2> QED BY <2>1, <2>2, <2>3 DEF Elements
<1>4. ASSUME NoRepeat(s), NoRepeat(t), Elements(s) \cap Elements(t) = {},
             NEW i \in 1..Len(s \o t), NEW j \in 1..Len(s \o t),
             (s \o t)[i] = (s \o t)[j]
      PROVE  i = j
  <2>1. \A k \in 1..Len(s) : s[k] \in Elements(s)
    BY DEF Elements
  <2>2. \A k \in 1..Len(t) : t[k] \in Elements(t)
    BY DEF Elements
  <2>3. CASE i <= Len(s) /\ j <= Len(s)
    BY <1>1, <1>2, <1>4, <2>3 DEF NoRepeat
  <2>4. CASE i > Len(s) /\ j > Len(s)
    BY <1>1, <1>2, <1>4, <2>4 DEF NoRepeat
  <2>5. CASE i <= Len(s) /\ j > Len(s)
    BY <1>1, <1>2, <1>4, <2>1, <2>2, <2>5
  <2>6. CASE i > Len(s) /\ j <= Len(s)
    BY <1>1, <1>2, <1>4, <2>1, <2>2, <2>6
  <2> QED BY <1>1, <2>3, <2>4, <2>5, <2>6
<1> QED BY <1>3, <1>4, ConcatProperties DEF NoRepeat

(* Taking the head off.                                                    *)
LEMMA HeadTailElements ==
  ASSUME NEW S, NEW s \in Seq(S), s # <<>>
  PROVE  /\ Head(s) \in S /\ Tail(s) \in Seq(S)
         /\ Head(s) \in Elements(s)
         /\ Elements(s) = Elements(Tail(s)) \cup {Head(s)}
         /\ NoRepeat(s) => NoRepeat(Tail(s)) /\ Head(s) \notin Elements(Tail(s))
<1>1. Len(s) \in Nat \ {0} /\ Len(Tail(s)) = Len(s) - 1 /\ Head(s) = s[1]
  BY EmptySeq, HeadTailProperties, LenProperties
<1>2. \A i \in 1..(Len(s) - 1) : Tail(s)[i] = s[i + 1]
  BY <1>1, HeadTailProperties
<1>3. Elements(s) = Elements(Tail(s)) \cup {Head(s)}
  <2>1. ASSUME NEW i \in 1..Len(s) PROVE s[i] \in Elements(Tail(s)) \cup {Head(s)}
    <3>1. CASE i = 1
      BY <1>1, <3>1
    <3>2. CASE i # 1
      <4>1. i - 1 \in 1..Len(Tail(s)) /\ Tail(s)[i - 1] = s[i]
        BY <1>1, <1>2, <3>2
      <4> QED BY <4>1 DEF Elements
    <3> QED BY <3>1, <3>2
  <2>2. ASSUME NEW i \in 1..Len(Tail(s)) PROVE Tail(s)[i] \in Elements(s)
    BY <1>1, <1>2 DEF Elements
  <2>3. Head(s) \in Elements(s)
    BY <1>1 DEF Elements
  <2> QED BY <2>1, <2>2, <2>3 DEF Elements
<1>4. NoRepeat(s) => NoRepeat(Tail(s)) /\ Head(s) \notin Elements(Tail(s))
  BY <1>1, <1>2 DEF NoRepeat, Elements
<1> QED BY <1>3, <1>4, HeadTailProperties DEF Elements

(* Taking any item off.                                                    *)
LEMMA DetachProperties ==
  ASSUME NEW S, NEW s \in Seq(S), NEW i \in 1..Len(s)
  PROVE  /\ Detach(s, i) \in Seq(S)
         /\ Len(Detach(s, i)) = Len(s) - 1
         /\ \A j \in 1..(Len(s) - 1) : Detach(s, i)[j] = IF j < i THEN s[j] ELSE s[j + 1]
<1>1. Len(s) \in Nat /\ \A j \in 1..Len(s) : s[j] \in S
  BY LenProperties, ElementOfSeq
<1>2. /\ SubSeq(s, 1, i - 1) \in Seq(S)
      /\ Len(SubSeq(s, 1, i - 1)) = i - 1
      /\ \A j \in 1..(i - 1) : SubSeq(s, 1, i - 1)[j] = s[j]
  BY <1>1, SubSeqProperties
<1>3. /\ SubSeq(s, i + 1, Len(s)) \in Seq(S)
      /\ Len(SubSeq(s, i + 1, Len(s))) = Len(s) - i
      /\ \A j \in 1..(Len(s) - i) : SubSeq(s, i + 1, Len(s))[j] = s[i + j]
  BY <1>1, SubSeqProperties
<1> DEFINE a == SubSeq(s, 1, i - 1)
           b == SubSeq(s, i + 1, Len(s))
<1> HIDE DEF a, b
<1>4. /\ a \o b \in Seq(S)
      /\ Len(a \o b) = Len(a) + Len(b)
      /\ \A j \in 1..Len(a) + Len(b) :
           (a \o b)[j] = IF j <= Len(a) THEN a[j] ELSE b[j - Len(a)]
  BY <1>2, <1>3, ConcatProperties DEF a, b
<1>5. Detach(s, i) = a \o b
  BY DEF Detach, a, b
<1>6. /\ Len(a) = i - 1 /\ Len(b) = Len(s) - i
      /\ \A j \in 1..(i - 1) : a[j] = s[j]
      /\ \A j \in 1..(Len(s) - i) : b[j] = s[i + j]
  BY <1>2, <1>3 DEF a, b
<1> DEFINE d == a \o b
<1> HIDE DEF d
<1>7. /\ d \in Seq(S) /\ Len(d) = Len(s) - 1 /\ Detach(s, i) = d
      /\ \A j \in 1..(Len(s) - 1) : d[j] = IF j <= Len(a) THEN a[j] ELSE b[j - Len(a)]
  BY <1>1, <1>4, <1>5, <1>6 DEF d
<1>8. ASSUME NEW j \in 1..(Len(s) - 1)
      PROVE  d[j] = IF j < i THEN s[j] ELSE s[j + 1]
  <2>1. CASE j < i
    BY <1>1, <1>6, <1>7, <2>1
  <2>2. CASE j >= i
    <3>1. j - Len(a) \in 1..(Len(s) - i) /\ b[j - Len(a)] = s[i + (j - Len(a))]
      BY <1>1, <1>6, <2>2
    <3>2. i + (j - Len(a)) = j + 1
      BY <1>1, <1>6
    <3> QED BY <1>1, <1>6, <1>7, <2>2, <3>1, <3>2
  <2> QED BY <1>1, <2>1, <2>2
<1> QED BY <1>7, <1>8

(* Detach takes off one element of a list without repetition.              *)
LEMMA DetachElements ==
  ASSUME NEW S, NEW s \in Seq(S), NEW i \in 1..Len(s)
  PROVE  /\ Elements(Detach(s, i)) \subseteq Elements(s)
         /\ Elements(s) = Elements(Detach(s, i)) \cup {s[i]}
         /\ NoRepeat(s) => NoRepeat(Detach(s, i)) /\ s[i] \notin Elements(Detach(s, i))
<1> DEFINE t == Detach(s, i)
<1>1. /\ Len(s) \in Nat /\ Len(t) = Len(s) - 1
      /\ \A j \in 1..Len(t) : t[j] = IF j < i THEN s[j] ELSE s[j + 1]
  BY DetachProperties, LenProperties
<1> HIDE DEF t
<1>2. ASSUME NEW j \in 1..Len(s), j # i PROVE s[j] \in Elements(t)
  <2>1. CASE j < i
    BY <1>1, <2>1 DEF Elements
  <2>2. CASE j > i
    <3>1. j - 1 \in 1..Len(t) /\ t[j - 1] = s[j]
      BY <1>1, <2>2
    <3> QED BY <3>1 DEF Elements
  <2> QED BY <1>2, <2>1, <2>2
<1>3. ASSUME NEW j \in 1..Len(t) PROVE t[j] \in Elements(s)
  BY <1>1 DEF Elements
<1>4. s[i] \in Elements(s)
  BY DEF Elements
<1>5. NoRepeat(s) => NoRepeat(t) /\ s[i] \notin Elements(t)
  BY <1>1 DEF NoRepeat, Elements
<1> QED BY <1>2, <1>3, <1>4, <1>5 DEF t, Elements

(* Putting an item after position k.                                       *)
LEMMA InsertProperties ==
  ASSUME NEW S, NEW s \in Seq(S), NEW k \in 0..Len(s), NEW x \in S
  PROVE  /\ InsertAfter(s, k, x) \in Seq(S)
         /\ Len(InsertAfter(s, k, x)) = Len(s) + 1
         /\ \A j \in 1..(Len(s) + 1) :
              InsertAfter(s, k, x)[j] = IF j <= k THEN s[j]
                                        ELSE IF j = k + 1 THEN x ELSE s[j - 1]
<1>1. Len(s) \in Nat /\ \A j \in 1..Len(s) : s[j] \in S
  BY LenProperties, ElementOfSeq
<1> DEFINE a == SubSeq(s, 1, k)
           b == SubSeq(s, k + 1, Len(s))
<1>2. a \in Seq(S) /\ Len(a) = k /\ \A j \in 1..k : a[j] = s[j]
  BY <1>1, SubSeqProperties
<1>3. b \in Seq(S) /\ Len(b) = Len(s) - k /\ \A j \in 1..(Len(s) - k) : b[j] = s[k + j]
  BY <1>1, SubSeqProperties
<1>4. <<x>> \in Seq(S) /\ Len(<<x>>) = 1 /\ <<x>>[1] = x
  OBVIOUS
<1>5. InsertAfter(s, k, x) = (a \o <<x>>) \o b
  BY DEF InsertAfter
<1> HIDE DEF a, b
<1> DEFINE c == a \o <<x>>
<1>6. /\ a \o <<x>> \in Seq(S) /\ Len(a \o <<x>>) = k + 1
      /\ \A j \in 1..(k + 1) : (a \o <<x>>)[j] = IF j <= k THEN s[j] ELSE x
  BY <1>2, <1>4, ConcatProperties
<1> HIDE DEF c
<1>7. /\ c \o b \in Seq(S)
      /\ Len(c \o b) = Len(c) + Len(b)
      /\ \A j \in 1..Len(c) + Len(b) :
           (c \o b)[j] = IF j <= Len(c) THEN c[j] ELSE b[j - Len(c)]
  BY <1>3, <1>6, ConcatProperties DEF c
<1>8. /\ Len(c) = k + 1
      /\ \A j \in 1..(k + 1) : c[j] = IF j <= k THEN s[j] ELSE x
  BY <1>6 DEF c
<1>9. InsertAfter(s, k, x) = c \o b
  BY <1>5 DEF c
<1>10. Len(b) = Len(s) - k /\ \A j \in 1..(Len(s) - k) : b[j] = s[k + j]
  BY <1>3
<1> DEFINE d == c \o b
<1> HIDE DEF d
<1>11. /\ d \in Seq(S) /\ Len(d) = Len(s) + 1 /\ InsertAfter(s, k, x) = d
       /\ \A j \in 1..(Len(s) + 1) : d[j] = IF j <= Len(c) THEN c[j] ELSE b[j - Len(c)]
  BY <1>1, <1>7, <1>8, <1>9, <1>10 DEF d
<1>12. ASSUME NEW j \in 1..(Len(s) + 1)
       PROVE  d[j] = IF j <= k THEN s[j] ELSE IF j = k + 1 THEN x ELSE s[j - 1]
  <2>1. CASE j <= k + 1
    BY <1>1, <1>8, <1>11, <2>1
  <2>2. CASE j > k + 1
    <3>1. j - Len(c) \in 1..(Len(s) - k) /\ b[j - Len(c)] = s[k + (j - Len(c))]
      BY <1>1, <1>8, <1>10, <2>2
    <3>2. k + (j - Len(c)) = j - 1
      BY <1>1, <1>8
    <3> QED BY <1>1, <1>8, <1>10, <1>11, <2>2, <3>1, <3>2
  <2> QED BY <1>1, <2>1, <2>2
<1> QED BY <1>11, <1>12
=============================================================================
