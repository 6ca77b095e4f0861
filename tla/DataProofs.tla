----------------------------- MODULE DataProofs -----------------------------
(* Facts about numbers and sequences that the other proofs share.  Natural  *)
(* numbers are well ordered, and inductions over data have it from that: a  *)
(* counterexample would have a least one.                                   *)
EXTENDS Integers, Sequences, SequencesExt, SequenceTheorems, WellFoundedInduction, TLAPS

(* A set of naturals that is not empty has a least member.                 *)
LEMMA LeastMember ==
    ASSUME NEW S \in SUBSET Nat, S # {}
    PROVE  \E n \in S : \A m \in S : n <= m
<1> DEFINE R == OpToRel(<, Nat)
<1>1. IsWellFoundedOn(R, Nat)
  BY NatLessThanWellFounded
<1>2. \A x, y \in Nat : <<x, y>> \in R <=> x < y
  BY DEF OpToRel
<1> HIDE DEF R
<1>3. PICK x \in S : \A y \in S : ~(<<y, x>> \in R)
  BY <1>1, WFMin
<1>4. \A y \in S : ~(y < x)
  BY <1>2, <1>3, Zenon
<1>5. \A y \in S : x <= y
  BY <1>4
<1>6. QED BY <1>5

(* Induction: what holds of 0, and of n + 1 if it holds of n, holds of all *)
(* naturals.  The predicate is the set of the naturals it holds of.        *)
LEMMA NatSetInduction ==
    ASSUME NEW S, 0 \in S, \A n \in Nat : n \in S => n + 1 \in S
    PROVE  Nat \subseteq S
<1> SUFFICES ASSUME Nat \ S # {} PROVE FALSE
  OBVIOUS
<1>1. PICK n \in Nat \ S : \A m \in Nat \ S : n <= m
  BY LeastMember
<1>2. n - 1 \in Nat /\ n - 1 \in S
  BY <1>1
<1>3. QED BY <1>1, <1>2

(* A set of naturals with a bound has a greatest member.                   *)
LEMMA GreatestMember ==
    ASSUME NEW n \in Nat, NEW S \in SUBSET (1..n), S # {}
    PROVE  \E i \in S : \A j \in S : j <= i
<1> DEFINE T == {n - i : i \in S}
<1>1. T \subseteq Nat /\ T # {}
  <2>1. \A i \in S : n - i \in Nat OBVIOUS
  <2>2. QED BY <2>1
<1>2. PICK m \in T : \A k \in T : m <= k BY <1>1, LeastMember
<1>3. PICK i \in S : m = n - i BY <1>2
<1>4. \A j \in S : n - i <= n - j BY <1>2, <1>3
<1>5. \A j \in S : j <= i BY <1>4
<1>6. QED BY <1>3, <1>5

\* g goes from base on by steps, n of them
Recurses(g, base, step, n) == g[0] = base /\ \A i \in 1..n : g[i] = step[i][g[i - 1]]

(* A definition by recursion up to n has a function that it defines.       *)
LEMMA Recursion ==
    ASSUME NEW X, NEW base \in X, NEW n \in Nat, NEW step \in [1..n -> [X -> X]]
    PROVE  \E g \in [0..n -> X] : Recurses(g, base, step, n)
<1> DEFINE Fits(g, m) == /\ g \in [0..m -> X] /\ g[0] = base
                         /\ \A i \in 1..m : g[i] = step[i][g[i - 1]]
           S == {m \in Nat : m <= n => \E g : Fits(g, m)}
<1> HIDE DEF Fits
<1>1. 0 \in S
  <2>1. Fits([i \in 0..0 |-> base], 0) BY DEF Fits
  <2>2. QED BY <2>1
<1>2. ASSUME NEW m \in Nat, m \in S PROVE m + 1 \in S
  <2> SUFFICES ASSUME m + 1 <= n PROVE \E g : Fits(g, m + 1)
    OBVIOUS
  <2>0. PICK g : Fits(g, m) BY <1>2
  <2>1. /\ g \in [0..m -> X] /\ g[0] = base
        /\ \A i \in 1..m : g[i] = step[i][g[i - 1]]
    BY <2>0 DEF Fits
  <2> DEFINE k == m + 1
             h == [i \in 0..k |-> IF i = k THEN step[k][g[m]] ELSE g[i]]
  <2>2. k \in 1..n /\ m \in 0..m /\ k - 1 = m /\ k \notin 0..m /\ 0 \in 0..m OBVIOUS
  <2>3. /\ \A i \in 0..k : i # k => i \in 0..m
        /\ \A i \in 1..k : i # k => i \in 1..m /\ i - 1 \in 0..m
        /\ \A i \in 0..m : i \in 0..k /\ i # k
        /\ k \in 0..k
    OBVIOUS
  <2> HIDE DEF k
  <2>4. step[k][g[m]] \in X BY <2>1, <2>2
  <2>5. h \in [0..k -> X] BY <2>1, <2>3, <2>4
  <2>6. h[k] = step[k][g[m]] /\ \A i \in 0..m : h[i] = g[i] BY <2>3
  <2> HIDE DEF h
  <2>7. h[0] = base BY <2>1, <2>2, <2>6
  <2>8. ASSUME NEW i \in 1..k PROVE h[i] = step[i][h[i - 1]]
    <3>1. CASE i = k
      <4>1. i - 1 = m BY <2>2, <3>1
      <4>2. QED BY <2>2, <2>6, <3>1, <4>1
    <3>2. CASE i # k
      <4>1. i \in 1..m /\ i - 1 \in 0..m /\ i \in 0..m BY <2>3, <3>2
      <4>2. QED BY <2>1, <2>6, <4>1
    <3>3. QED BY <3>1, <3>2
  <2>9. Fits(h, k) BY <2>5, <2>7, <2>8 DEF Fits
  <2>10. QED BY <2>9 DEF k
<1>3. PICK g : Fits(g, n)
  <2> HIDE DEF S
  <2>1. Nat \subseteq S BY <1>1, <1>2, NatSetInduction
  <2>2. n \in S BY <2>1
  <2>3. QED BY <2>2 DEF S
<1>4. QED BY <1>3 DEF Fits, Recurses

-----------------------------------------------------------------------------
(* A stack: pushing and popping.                                           *)
LEMMA Pushed ==
    ASSUME NEW S, NEW s \in Seq(S), NEW e \in S, NEW long, long = Append(s, e)
    PROVE  /\ long \in Seq(S)
           /\ Len(s) \in Nat /\ Len(long) = Len(s) + 1 /\ Len(long) \in 1..Len(long)
           /\ \A i \in 1..Len(s) : long[i] = s[i]
           /\ \A i \in 1..Len(long) : i \in 1..Len(s) \/ i = Len(long)
           /\ long[Len(long)] = e
           /\ long # <<>>
<1>1. Len(s) \in Nat
  BY LenProperties
<1>2. QED BY <1>1, AppendProperties

(* The first n members of a sequence.                                      *)
LEMMA Prefix ==
    ASSUME NEW S, NEW s \in Seq(S), NEW n \in 0..Len(s), NEW short, short = SubSeq(s, 1, n)
    PROVE  short \in Seq(S) /\ Len(short) = n /\ \A i \in 1..n : short[i] = s[i]
<1>1. Len(s) \in Nat
  BY LenProperties
<1>2. \A i \in 1..Len(s) : s[i] \in S
  BY ElementOfSeq
<1>3. n \in Int /\ 1 \in Int /\ \A i \in 1..n : s[i] \in S
  BY <1>1, <1>2
<1>4. /\ short \in Seq(S)
      /\ Len(short) = IF 1 <= n THEN n - 1 + 1 ELSE 0
      /\ \A i \in 1..(n - 1 + 1) : short[i] = s[1 + i - 1]
  BY <1>3, SubSeqProperties
<1>5. QED BY <1>1, <1>4

(* What is behind the n-th moves up.                                       *)
LEMMA RemoveAtProperties ==
    ASSUME NEW S, NEW s \in Seq(S), NEW n \in 1..Len(s)
    PROVE  /\ RemoveAt(s, n) \in Seq(S) /\ Len(RemoveAt(s, n)) = Len(s) - 1
           /\ \A i \in 1..(n - 1) : RemoveAt(s, n)[i] = s[i]
           /\ \A i \in n..(Len(s) - 1) : RemoveAt(s, n)[i] = s[i + 1]
<1> DEFINE len == Len(s)
           m == n - 1
           k == n + 1
           front == SubSeq(s, 1, m)
           back == SubSeq(s, k, len)
           short == RemoveAt(s, n)
<1>1. len \in Nat /\ \A i \in 1..len : s[i] \in S
  BY LenProperties, ElementOfSeq
<1>2. m \in 0..len /\ k \in Int /\ k = m + 2 /\ n = m + 1 /\ m < len
  BY <1>1
<1>3. short = front \o back
  BY DEF RemoveAt
<1> HIDE DEF m, k, short
<1>4. front \in Seq(S) /\ Len(front) = m /\ \A i \in 1..m : front[i] = s[i]
  BY <1>1, <1>2, Prefix DEF len
<1>5. \A i \in k..len : s[i] \in S
  BY <1>1, <1>2
<1> HIDE DEF len
<1>6. /\ back \in Seq(S) /\ Len(back) = IF k <= len THEN len - k + 1 ELSE 0
      /\ \A i \in 1..(len - k + 1) : back[i] = s[k + i - 1]
  BY <1>1, <1>2, <1>5, SubSeqProperties
<1>7. Len(back) = len - n
  BY <1>1, <1>2, <1>6
<1> HIDE DEF front, back
<1>8. front \in Seq(S) /\ back \in Seq(S)
  BY <1>4, <1>6
<1>9. /\ front \o back \in Seq(S) /\ Len(front \o back) = Len(front) + Len(back)
      /\ \A i \in 1..(Len(front) + Len(back)) :
            (front \o back)[i] = IF i <= Len(front) THEN front[i] ELSE back[i - Len(front)]
  BY ONLY <1>8, ConcatProperties
<1>10. short \in Seq(S) /\ Len(short) = Len(front) + Len(back)
  BY ONLY <1>3, <1>9
<1>11. Len(short) = len - 1
  BY ONLY <1>1, <1>2, <1>4, <1>7, <1>10
<1>12. \A i \in 1..Len(short) : short[i] = IF i <= m THEN front[i] ELSE back[i - m]
  BY ONLY <1>3, <1>4, <1>9, <1>10
<1>13. \A i \in 1..m : short[i] = s[i]
  BY ONLY <1>1, <1>2, <1>4, <1>11, <1>12
<1>14. ASSUME NEW i \in n..(len - 1) PROVE short[i] = s[i + 1]
  <2>1. i \in 1..Len(short) /\ ~(i <= m) /\ i - m \in 1..(len - k + 1)
    BY ONLY <1>1, <1>2, <1>11, i \in n..(len - 1)
  <2>2. short[i] = back[i - m]
    BY <1>12, <2>1
  <2>3. back[i - m] = s[k + (i - m) - 1]
    BY <1>6, <2>1
  <2>4. k + (i - m) - 1 = i + 1
    BY <1>2, <2>1
  <2>5. QED BY <2>2, <2>3, <2>4
<1>15. QED BY <1>10, <1>11, <1>13, <1>14 DEF len, m, short

(* What is before an entry stays before it.                                *)
LEMMA RemoveAtKeepsOrder ==
    ASSUME NEW S, NEW s \in Seq(S), NEW n \in 1..Len(s), NEW i \in 1..Len(RemoveAt(s, n))
    PROVE  \E k \in 1..Len(s) :
              /\ RemoveAt(s, n)[i] = s[k]
              /\ \A j \in 1..k : j = n \/ \E m \in 1..i : RemoveAt(s, n)[m] = s[j]
<1> DEFINE len == Len(s)
           short == RemoveAt(s, n)
<1>1. /\ Len(short) = len - 1
      /\ \A j \in 1..(n - 1) : short[j] = s[j]
      /\ \A j \in n..(len - 1) : short[j] = s[j + 1]
  BY RemoveAtProperties
<1>2. len \in Nat /\ n \in 1..len
  BY LenProperties
<1>3. i \in 1..(len - 1)
  BY <1>1
<1> HIDE DEF len, short
<1>4. CASE i < n
  <2>1. i \in 1..len /\ short[i] = s[i]
    BY ONLY <1>1, <1>2, <1>3, <1>4
  <2>2. \A j \in 1..i : j \in 1..i /\ short[j] = s[j]
    BY ONLY <1>1, <1>2, <1>3, <1>4
  <2>3. QED BY <2>1, <2>2 DEF len, short
<1>5. CASE ~(i < n)
  <2>1. i + 1 \in 1..len /\ short[i] = s[i + 1]
    BY ONLY <1>1, <1>2, <1>3, <1>5
  <2>2. ASSUME NEW j \in 1..(i + 1), j # n PROVE \E m \in 1..i : short[m] = s[j]
    <3>1. CASE j < n
      <4>1. j \in 1..(n - 1) /\ j \in 1..i
        BY ONLY <1>2, <1>3, <1>5, <3>1, j \in 1..(i + 1)
      <4>2. QED BY <1>1, <4>1
    <3>2. CASE ~(j < n)
      <4> DEFINE m == j - 1
      <4>1. m \in n..(len - 1) /\ m \in 1..i /\ j = m + 1
        BY ONLY <1>2, <1>3, <1>5, <2>2, <3>2, j \in 1..(i + 1)
      <4> HIDE DEF m
      <4>2. QED BY <1>1, <4>1
    <3>3. QED BY <3>1, <3>2
  <2>3. QED BY <2>1, <2>2 DEF len, short
<1>6. QED BY <1>4, <1>5

(* Two sequences that begin alike.                                         *)
LEMMA SamePrefix ==
    ASSUME NEW S, NEW s \in Seq(S), NEW t \in Seq(S), NEW n \in 0..Len(s), n \in 0..Len(t),
           \A i \in 1..n : s[i] = t[i]
    PROVE  SubSeq(s, 1, n) = SubSeq(t, 1, n)
<1> DEFINE a == SubSeq(s, 1, n)
           b == SubSeq(t, 1, n)
<1>1. a \in Seq(S) /\ Len(a) = n /\ \A i \in 1..n : a[i] = s[i]
  BY Prefix
<1>2. b \in Seq(S) /\ Len(b) = n /\ \A i \in 1..n : b[i] = t[i]
  BY Prefix
<1> HIDE DEF a, b
<1>3. Len(a) = Len(b) /\ \A i \in 1..Len(a) : a[i] = b[i]
  BY <1>1, <1>2
<1>4. a = b
  BY ONLY <1>1, <1>2, <1>3, SeqEqual
<1>5. QED BY <1>4 DEF a, b

(* The first of a queue goes to the end of what is before the queue.       *)
LEMMA HeadToTail ==
    ASSUME NEW S, NEW s \in Seq(S), NEW q \in Seq(S), q # <<>>
    PROVE  /\ Head(q) \in S /\ Tail(q) \in Seq(S)
           /\ Append(s, Head(q)) \o Tail(q) = s \o q
<1> DEFINE h == Head(q)
           r == Tail(q)
<1>1. h \in S /\ r \in Seq(S)
  BY HeadTailProperties
<1>2. q = <<h>> \o r
  <2>1. Len(q) \in Nat /\ Len(q) # 0
    BY LenProperties, EmptySeq
  <2>2. 1 \in 1..Len(q) /\ Len(q) \in 1..Len(q)
    BY <2>1
  <2>3. SubSeq(q, 1, Len(q)) = <<q[1]>> \o SubSeq(q, 1 + 1, Len(q))
    BY <2>2, SubSeqRecursiveFirst
  <2>4. SubSeq(q, 1, Len(q)) = q
    BY SubSeqFull
  <2>5. r = SubSeq(q, 2, Len(q))
    BY TailIsSubSeq
  <2>6. h = q[1]
    OBVIOUS
  <2>7. QED BY <2>3, <2>4, <2>5, <2>6
<1> HIDE DEF h, r
<1>3. <<h>> \in Seq(S)
  BY <1>1
<1>4. Append(s, h) = s \o <<h>>
  BY <1>1, AppendIsConcat
<1>5. (s \o <<h>>) \o r = s \o (<<h>> \o r)
  BY <1>1, <1>3, ConcatAssociative
<1>6. Append(s, h) \o r = s \o q
  BY <1>2, <1>4, <1>5
<1>7. QED BY <1>1, <1>6 DEF h, r

(* What is appended to the queue is appended to the whole.                 *)
LEMMA AppendBehind ==
    ASSUME NEW S, NEW s \in Seq(S), NEW q \in Seq(S), NEW e \in S
    PROVE  s \o Append(q, e) = Append(s \o q, e)
<1>1. <<e>> \in Seq(S) /\ s \o q \in Seq(S)
  BY ConcatProperties
<1>2. Append(q, e) = q \o <<e>> /\ Append(s \o q, e) = (s \o q) \o <<e>>
  BY <1>1, AppendIsConcat
<1>3. (s \o q) \o <<e>> = s \o (q \o <<e>>)
  BY <1>1, ConcatAssociative
<1>4. QED BY <1>2, <1>3

(* What is behind the m-th member, up to the n-th.                         *)
LEMMA Section ==
    ASSUME NEW S, NEW s \in Seq(S), NEW m \in Nat, NEW n \in m..Len(s), NEW part,
           part = SubSeq(s, m + 1, n)
    PROVE  part \in Seq(S) /\ Len(part) = n - m /\ \A i \in 1..(n - m) : part[i] = s[m + i]
<1> DEFINE k == m + 1
<1>1. Len(s) \in Nat /\ \A i \in 1..Len(s) : s[i] \in S
  BY LenProperties, ElementOfSeq
<1>2. k \in Int /\ n \in Int /\ \A i \in k..n : s[i] \in S
  BY <1>1
<1>3. part = SubSeq(s, k, n)
  OBVIOUS
<1>4. /\ n - k + 1 = n - m /\ \A i \in 1..(n - m) : k + i - 1 = m + i
      /\ (IF k <= n THEN n - k + 1 ELSE 0) = n - m
  BY <1>1
<1> HIDE DEF k
<1>5. /\ part \in Seq(S) /\ Len(part) = IF k <= n THEN n - k + 1 ELSE 0
      /\ \A i \in 1..(n - k + 1) : part[i] = s[k + i - 1]
  BY <1>2, <1>3, SubSeqProperties
<1>6. QED BY <1>4, <1>5

(* A section is the same from either end.                                  *)
LEMMA MiddlePart ==
    ASSUME NEW S, NEW s \in Seq(S), NEW m \in Nat, NEW n \in Nat, m + n <= Len(s)
    PROVE  SubSeq(SubSeq(s, 1, m + n), m + 1, m + n) = SubSeq(SubSeq(s, m + 1, Len(s)), 1, n)
<1> DEFINE l == m + n
           front == SubSeq(s, 1, l)
           back == SubSeq(s, m + 1, Len(s))
           a == SubSeq(front, m + 1, l)
           b == SubSeq(back, 1, n)
<1>1. Len(s) \in Nat /\ l \in 0..Len(s) /\ l \in m..l /\ l - m = n /\ Len(s) \in m..Len(s)
      /\ n \in 0..(Len(s) - m)
  BY LenProperties
<1> HIDE DEF l
<1>2. front \in Seq(S) /\ Len(front) = l /\ \A i \in 1..l : front[i] = s[i]
  BY <1>1, Prefix
<1>3. back \in Seq(S) /\ Len(back) = Len(s) - m /\ \A i \in 1..(Len(s) - m) : back[i] = s[m + i]
  BY <1>1, Section
<1> HIDE DEF front, back
<1>4. a \in Seq(S) /\ Len(a) = n /\ \A i \in 1..n : a[i] = front[m + i]
  <2>1. l \in m..Len(front)
    BY <1>1, <1>2
  <2>2. a \in Seq(S) /\ Len(a) = l - m /\ \A i \in 1..(l - m) : a[i] = front[m + i]
    BY <1>2, <2>1, Section
  <2>3. QED BY <1>1, <2>2
<1>5. b \in Seq(S) /\ Len(b) = n /\ \A i \in 1..n : b[i] = back[i]
  BY <1>1, <1>3, Prefix
<1> HIDE DEF a, b
<1>6. \A i \in 1..n : a[i] = b[i]
  <2>1. \A i \in 1..n : m + i \in 1..l /\ i \in 1..(Len(s) - m)
    BY <1>1 DEF l
  <2>2. QED BY <1>2, <1>3, <1>4, <1>5, <2>1
<1>7. a = b
  BY <1>4, <1>5, <1>6, SeqEqual
<1>8. QED BY <1>7 DEF a, b, l, front, back
-----------------------------------------------------------------------------
(* Loops and walks, as recursive functions.                                *)

\* g is the loop of n passes from base on
Loops(g, n, base, step) == g = [i \in 0..n |-> IF i = 0 THEN base ELSE step[g[i - 1]]]

(* A loop of n passes, each of which takes a state of X[i - 1] to one of   *)
(* X[i].                                                                   *)
LEMMA LoopExists ==
    ASSUME NEW n \in Nat, NEW X, NEW base \in X[0], NEW step,
           \A i \in 1..n : \A x \in X[i - 1] : step[x] \in X[i]
    PROVE  \E g : Loops(g, n, base, step) /\ \A i \in 0..n : g[i] \in X[i]
<1> DEFINE Fits(g, m) == /\ g = [i \in 0..m |-> IF i = 0 THEN base ELSE step[g[i - 1]]]
                         /\ \A i \in 0..m : g[i] \in X[i]
           S == {m \in Nat : m <= n => \E g : Fits(g, m)}
<1> HIDE DEF Fits
<1>1. 0 \in S
  <2> DEFINE g == [i \in 0..0 |-> base]
  <2>1. g = [i \in 0..0 |-> IF i = 0 THEN base ELSE step[g[i - 1]]]
    <3>1. \A i \in 0..0 : i = 0 OBVIOUS
    <3>2. QED BY <3>1
  <2>2. \A i \in 0..0 : g[i] \in X[i] BY \A i \in 0..0 : i = 0
  <2>3. Fits(g, 0) BY <2>1, <2>2 DEF Fits
  <2>4. QED BY <2>3
<1>2. ASSUME NEW m \in Nat, m \in S PROVE m + 1 \in S
  <2> SUFFICES ASSUME m + 1 <= n PROVE \E g : Fits(g, m + 1)
    OBVIOUS
  <2>0. PICK g : Fits(g, m) BY <1>2
  <2>1. /\ g = [i \in 0..m |-> IF i = 0 THEN base ELSE step[g[i - 1]]]
        /\ \A i \in 0..m : g[i] \in X[i]
    BY <2>0 DEF Fits
  <2> DEFINE k == m + 1
             h == [i \in 0..k |-> IF i = k THEN step[g[m]] ELSE g[i]]
  <2>2. k \in 1..n /\ m \in 0..m /\ k - 1 = m /\ k # 0 /\ k \in 0..k OBVIOUS
  <2>3. /\ \A i \in 0..k : i # k => i \in 0..m
        /\ \A i \in 0..m : i \in 0..k /\ i # k /\ (i # 0 => i - 1 \in 0..m)
    OBVIOUS
  <2> HIDE DEF k
  <2>4. step[g[m]] \in X[k] BY <2>1, <2>2
  <2>5. h[k] = step[g[m]] /\ \A i \in 0..m : h[i] = g[i] BY <2>2, <2>3
  <2>6. ASSUME NEW i \in 0..k PROVE h[i] = IF i = 0 THEN base ELSE step[h[i - 1]]
    <3>1. CASE i = k BY <2>2, <2>5, <3>1
    <3>2. CASE i # k
      <4>1. i \in 0..m /\ h[i] = g[i] BY <2>3, <2>5, <3>2
      <4>2. g[i] = IF i = 0 THEN base ELSE step[g[i - 1]] BY <2>1, <4>1
      <4>3. i # 0 => h[i - 1] = g[i - 1] BY <2>3, <2>5, <4>1
      <4>4. QED BY <4>1, <4>2, <4>3
    <3>3. QED BY <3>1, <3>2
  <2>7. h = [i \in 0..k |-> h[i]] OBVIOUS
  <2>8. \A i \in 0..k : h[i] \in X[i] BY <2>1, <2>3, <2>4, <2>5
  <2> HIDE DEF h
  <2>9. h = [i \in 0..k |-> IF i = 0 THEN base ELSE step[h[i - 1]]] BY <2>6, <2>7
  <2>10. Fits(h, k) BY <2>8, <2>9 DEF Fits
  <2>11. QED BY <2>10 DEF k
<1>3. PICK g : Fits(g, n)
  <2> HIDE DEF S
  <2>1. Nat \subseteq S BY <1>1, <1>2, NatSetInduction
  <2>2. n \in S BY <2>1
  <2>3. QED BY <2>2 DEF S
<1>4. QED BY <1>3 DEF Fits, Loops

(* What each pass keeps holds after all.                                   *)
LEMMA LoopKeeps ==
    ASSUME NEW n \in Nat, NEW X, NEW g, g[0] \in X[0],
           \A i \in 1..n : g[i - 1] \in X[i - 1] => g[i] \in X[i]
    PROVE  g[n] \in X[n]
<1> DEFINE S == {m \in Nat : m <= n => g[m] \in X[m]}
<1>1. 0 \in S OBVIOUS
<1>2. ASSUME NEW m \in Nat, m \in S PROVE m + 1 \in S
  <2> DEFINE k == m + 1
  <2>1. k \in Nat /\ (k <= n => k \in 1..n /\ k - 1 = m /\ m <= n) OBVIOUS
  <2> HIDE DEF k
  <2>2. k <= n => g[k] \in X[k] BY <1>2, <2>1
  <2>3. k \in S BY <2>1, <2>2
  <2>4. QED BY <2>3 DEF k
<1> HIDE DEF S
<1>3. n \in S BY <1>1, <1>2, NatSetInduction
<1>4. QED BY <1>3 DEF S

\* a walk by next goes down in rank until it ends; what it comes to from each place
Steps(S, X, rank, Ends, next, out, step) ==
    /\ rank \in [S -> Nat]
    /\ \A n \in S : n \in Ends => out[n] \in X
    /\ \A n \in S : n \notin Ends => /\ next[n] \in S /\ rank[next[n]] < rank[n]
                                    /\ \A x \in X : step[n][x] \in X
IsWalk(f, S, X, Ends, next, out, step) ==
    /\ f \in [S -> X]
    /\ \A n \in S : f[n] = IF n \in Ends THEN out[n] ELSE step[n][f[next[n]]]

(* There is such a function.                                               *)
LEMMA WalkExists ==
    ASSUME NEW S, NEW X, NEW rank, NEW Ends, NEW next, NEW out, NEW step,
           Steps(S, X, rank, Ends, next, out, step)
    PROVE  \E f : IsWalk(f, S, X, Ends, next, out, step)
<1> rank \in [S -> Nat] BY DEF Steps
<1> \A n \in S : n \in Ends => out[n] \in X BY DEF Steps
<1> \A n \in S : n \notin Ends => /\ next[n] \in S /\ rank[next[n]] < rank[n]
                                 /\ \A x \in X : step[n][x] \in X
  BY DEF Steps
<1> DEFINE Low(m) == {n \in S : rank[n] < m}
           Fits(f, m) == /\ f \in [Low(m) -> X]
                         /\ \A n \in Low(m) :
                              f[n] = IF n \in Ends THEN out[n] ELSE step[n][f[next[n]]]
           T == {m \in Nat : \E f : Fits(f, m)}
<1>1. 0 \in T
  <2>1. Low(0) = {} OBVIOUS
  <2> DEFINE e == [n \in {} |-> n]
  <2>2. Fits(e, 0) BY <2>1
  <2> HIDE DEF Fits, e
  <2>3. QED BY <2>2
<1>2. ASSUME NEW m \in Nat, m \in T PROVE m + 1 \in T
  <2>1. PICK f : Fits(f, m) BY <1>2
  <2> DEFINE h == [n \in Low(m + 1) |-> IF n \in Ends THEN out[n] ELSE step[n][f[next[n]]]]
  <2>2. \A n \in Low(m + 1) : n \notin Ends => next[n] \in Low(m) /\ next[n] \in Low(m + 1)
    OBVIOUS
  <2>3. \A n \in Low(m) : n \in Low(m + 1) /\ h[n] = f[n]
    BY <2>1
  <2>4. h \in [Low(m + 1) -> X]
    BY <2>1, <2>2
  <2>5. ASSUME NEW n \in Low(m + 1)
        PROVE  h[n] = IF n \in Ends THEN out[n] ELSE step[n][h[next[n]]]
    BY <2>2, <2>3
  <2> HIDE DEF h
  <2>6. Fits(h, m + 1) BY <2>4, <2>5
  <2> HIDE DEF Fits
  <2>7. QED BY <2>6
<1>3. Nat \subseteq T
  <2> HIDE DEF T
  <2>1. QED BY <1>1, <1>2, NatSetInduction
<1> DEFINE F == [m \in Nat |-> CHOOSE f : Fits(f, m)]
<1>4. \A m \in Nat : Fits(F[m], m)
  <2> HIDE DEF Fits
  <2>1. QED BY <1>3
<1> HIDE DEF F, T
\* they agree where both are defined
<1>5. \A m \in Nat, l \in Nat : \A n \in Low(m) \cap Low(l) : F[m][n] = F[l][n]
  <2> DEFINE U == {r \in Nat : \A m \in Nat, l \in Nat : \A n \in Low(m) \cap Low(l) :
                                  rank[n] < r => F[m][n] = F[l][n]}
  <2>1. 0 \in U OBVIOUS
  <2>2. ASSUME NEW r \in Nat, r \in U PROVE r + 1 \in U
    <3> SUFFICES ASSUME NEW m \in Nat, NEW l \in Nat, NEW n \in Low(m) \cap Low(l),
                        rank[n] < r + 1
                 PROVE  F[m][n] = F[l][n]
      OBVIOUS
    <3>1. /\ F[m][n] = IF n \in Ends THEN out[n] ELSE step[n][F[m][next[n]]]
          /\ F[l][n] = IF n \in Ends THEN out[n] ELSE step[n][F[l][next[n]]]
      BY <1>4
    <3>2. n \notin Ends => /\ next[n] \in Low(m) \cap Low(l) /\ rank[next[n]] < r
      OBVIOUS
    <3>3. n \notin Ends => F[m][next[n]] = F[l][next[n]]
      BY <2>2, <3>2
    <3>4. QED BY <3>1, <3>3
  <2> HIDE DEF U
  <2>3. Nat \subseteq U BY <2>1, <2>2, NatSetInduction
  <2>4. \A n \in S : rank[n] + 1 \in U BY <2>3
  <2>5. QED BY <2>4 DEF U
<1> DEFINE f == [n \in S |-> F[rank[n] + 1][n]]
<1>6. \A n \in S : n \in Low(rank[n] + 1) /\ rank[n] + 1 \in Nat OBVIOUS
<1>7. f \in [S -> X]
  BY <1>4, <1>6
<1>8. ASSUME NEW n \in S PROVE f[n] = IF n \in Ends THEN out[n] ELSE step[n][f[next[n]]]
  <2> DEFINE m == rank[n] + 1
  <2>1. m \in Nat /\ n \in Low(m) BY <1>6
  <2>2. F[m][n] = IF n \in Ends THEN out[n] ELSE step[n][F[m][next[n]]]
    BY <1>4, <2>1
  <2>3. n \notin Ends => F[m][next[n]] = f[next[n]]
    <3> SUFFICES ASSUME n \notin Ends PROVE F[m][next[n]] = f[next[n]] OBVIOUS
    <3>1. next[n] \in S /\ next[n] \in Low(m) BY <2>1
    <3>2. next[n] \in Low(rank[next[n]] + 1) /\ rank[next[n]] + 1 \in Nat BY <3>1, <1>6
    <3>3. F[m][next[n]] = F[rank[next[n]] + 1][next[n]] BY <1>5, <2>1, <3>1, <3>2
    <3>4. QED BY <3>1, <3>3
  <2>4. f[n] = F[m][n] OBVIOUS
  <2>5. QED BY <2>2, <2>3, <2>4
<1> HIDE DEF f
<1>9. QED BY ONLY <1>7, <1>8 DEF IsWalk

\* long is s with e in the n-th place
InsertedAt(long, s, n, e) ==
    /\ Len(long) = Len(s) + 1 /\ long[n] = e
    /\ \A i \in 1..(n - 1) : long[i] = s[i]
    /\ \A i \in (n + 1)..(Len(s) + 1) : long[i] = s[i - 1]

(* A new entry moves up those from the n-th on.                            *)
LEMMA InsertAtProperties ==
    ASSUME NEW S, NEW s \in Seq(S), NEW n \in 1..(Len(s) + 1), NEW e \in S
    PROVE  InsertAt(s, n, e) \in Seq(S) /\ InsertedAt(InsertAt(s, n, e), s, n, e)
<1> DEFINE long == InsertAt(s, n, e)
           len == Len(s)
           m == n - 1
           front == SubSeq(s, 1, m)
           back == SubSeq(s, n, len)
           mid == front \o <<e>>
<1>1. len \in Nat /\ m \in 0..len /\ n = m + 1 /\ len \in m..len
  BY LenProperties
<1>2. long = mid \o back
  BY DEF InsertAt
<1> HIDE DEF long
<1>3. back = SubSeq(s, m + 1, len) BY <1>1
<1> HIDE DEF m
<1>4. front \in Seq(S) /\ Len(front) = m /\ \A i \in 1..m : front[i] = s[i]
  BY <1>1, Prefix
<1>5. back \in Seq(S) /\ Len(back) = len - m /\ \A i \in 1..(len - m) : back[i] = s[m + i]
  BY <1>1, <1>3, Section
<1> HIDE DEF front, back
<1>6. <<e>> \in Seq(S) /\ Len(<<e>>) = 1 /\ <<e>>[1] = e OBVIOUS
<1>7. /\ mid \in Seq(S) /\ Len(mid) = m + 1
      /\ \A i \in 1..(m + 1) : mid[i] = IF i <= m THEN front[i] ELSE <<e>>[i - m]
  BY <1>4, <1>6, ConcatProperties
<1>8. mid[n] = e
  <2>1. n \in 1..(m + 1) /\ ~(n <= m) /\ n - m = 1 BY <1>1
  <2> HIDE DEF mid
  <2>2. QED BY <1>6, <1>7, <2>1
<1>9. \A i \in 1..m : mid[i] = s[i]
  <2>1. \A i \in 1..m : i \in 1..(m + 1) /\ i <= m BY <1>1
  <2> HIDE DEF mid
  <2>2. QED BY <1>4, <1>7, <2>1
<1> HIDE DEF mid, len
<1>10. /\ long \in Seq(S) /\ Len(long) = (m + 1) + (len - m)
       /\ \A i \in 1..((m + 1) + (len - m)) :
             long[i] = IF i <= m + 1 THEN mid[i] ELSE back[i - (m + 1)]
  BY <1>2, <1>5, <1>7, ConcatProperties
<1>11. (m + 1) + (len - m) = len + 1 BY <1>1
<1>12. \A i \in 1..(len + 1) : long[i] = IF i <= m + 1 THEN mid[i] ELSE back[i - (m + 1)]
  BY <1>10, <1>11
<1>13. long[n] = e BY <1>1, <1>8, <1>12
<1>14. \A i \in 1..(n - 1) : long[i] = s[i] BY <1>1, <1>9, <1>12
<1>15. ASSUME NEW i \in (n + 1)..(len + 1) PROVE long[i] = s[i - 1]
  <2> DEFINE j == i - (m + 1)
  <2>1. i \in 1..(len + 1) /\ ~(i <= m + 1) /\ j \in 1..(len - m) /\ m + j = i - 1
    BY <1>1
  <2>2. long[i] = back[j] BY <1>12, <2>1
  <2> HIDE DEF j
  <2>3. QED BY <1>5, <2>1, <2>2
<1>16. Len(long) = Len(s) + 1 BY ONLY <1>10, <1>11 DEF len
<1>17. \A i \in (n + 1)..(Len(s) + 1) : long[i] = s[i - 1] BY ONLY <1>15 DEF len
<1>18. InsertedAt(long, s, n, e) BY ONLY <1>13, <1>14, <1>16, <1>17 DEF InsertedAt
<1>19. QED BY ONLY <1>10, <1>18 DEF long
=============================================================================
