--------------------------- MODULE RecoveryProofs ---------------------------
(***************************************************************************)
(* What the log and the checkpoint guarantee, for any keys, any number of  *)
(* transactions and statements, and any sequence of crashes, stops and     *)
(* checkpoints: recovery yields the rows of exactly the transactions whose *)
(* commits are durable, in their order, and does not fail.                 *)
(***************************************************************************)
EXTENDS Recovery, FiniteSetTheorems, DataProofs

AllAvoided ==
    {"commit-under-a-reused-id", "long-torn-record", "write-error", "crash-before-reset",
     "neighbouring-dead-keys", "begin-during-checkpoint", "shutdown-during-commit"}
       \subseteq Avoided

-----------------------------------------------------------------------------
(* Writes on top of writes.                                                *)

\* g goes through the n transactions of all, starting from rows
Goes(g, rows, all, n) ==
    n \in Nat /\ g[0] = rows /\ \A i \in 1..n : g[i] = Over(g[i - 1], all[i])

(* Overlaid is the end of the one way to go through the transactions.      *)
LEMMA OverlaidIs ==
    ASSUME NEW rows, NEW all, NEW n, Len(all) = n, NEW g, Goes(g, rows, all, n)
    PROVE  Overlaid(rows, all) = g[n]
<1> DEFINE Upto == CHOOSE u : u = [i \in 0..n |-> IF i = 0 THEN rows ELSE Over(u[i - 1], all[i])]
<1>1. Overlaid(rows, all) = Upto[n] BY DEF Overlaid
<1>2. n \in Nat /\ g[0] = rows /\ \A i \in 1..n : g[i] = Over(g[i - 1], all[i]) BY DEF Goes
<1> HIDE DEF Upto
<1>3. \E u : u = [i \in 0..n |-> IF i = 0 THEN rows ELSE Over(u[i - 1], all[i])]
  <2> DEFINE u == [i \in 0..n |-> g[i]]
  <2>1. ASSUME NEW i \in 0..n PROVE u[i] = IF i = 0 THEN rows ELSE Over(u[i - 1], all[i])
    <3>1. CASE i = 0 BY <1>2, <3>1
    <3>2. CASE i # 0
      <4>1. i \in 1..n /\ i - 1 \in 0..n BY <1>2, <3>2
      <4>2. QED BY <1>2, <3>2, <4>1
    <3>3. QED BY <3>1, <3>2
  <2>2. u = [i \in 0..n |-> u[i]] OBVIOUS
  <2> HIDE DEF u
  <2>3. u = [i \in 0..n |-> IF i = 0 THEN rows ELSE Over(u[i - 1], all[i])] BY <2>1, <2>2
  <2>4. QED BY <2>3
<1>4. Upto = [i \in 0..n |-> IF i = 0 THEN rows ELSE Over(Upto[i - 1], all[i])]
  BY <1>3 DEF Upto
<1>5. \A i \in 0..n : Upto[i] = IF i = 0 THEN rows ELSE Over(Upto[i - 1], all[i])
  BY ONLY <1>4
<1> DEFINE T == {i \in Nat : i <= n => Upto[i] = g[i]}
<1>6. 0 \in T BY <1>2, <1>5
<1>7. ASSUME NEW i \in Nat, i \in T PROVE i + 1 \in T
  <2> SUFFICES ASSUME i + 1 <= n PROVE Upto[i + 1] = g[i + 1]
    OBVIOUS
  <2> DEFINE k == i + 1
  <2>1. k \in 1..n /\ k \in 0..n /\ k # 0 /\ k - 1 = i /\ Upto[i] = g[i] BY <1>2, <1>7
  <2> HIDE DEF k
  <2>2. Upto[k] = Over(Upto[k - 1], all[k]) /\ g[k] = Over(g[k - 1], all[k]) BY <1>2, <1>5, <2>1
  <2>3. QED BY <2>1, <2>2 DEF k
<1> HIDE DEF T
<1>8. Nat \subseteq T BY <1>6, <1>7, NatSetInduction
<1>9. Upto[n] = g[n] BY <1>2, <1>8 DEF T
<1>10. QED BY <1>1, <1>9

(* There is such a way.                                                    *)
LEMMA OverlayExists ==
    ASSUME NEW rows \in Rows, NEW all \in Seq(Writes)
    PROVE  \E g \in [0..Len(all) -> Rows] : Goes(g, rows, all, Len(all))
<1> DEFINE n == Len(all)
           step == [i \in 1..n |-> [r \in Rows |-> Over(r, all[i])]]
<1>1. n \in Nat /\ \A i \in 1..n : all[i] \in Writes BY LenProperties, ElementOfSeq
<1> HIDE DEF n
<1>2. ASSUME NEW r \in Rows, NEW w \in Writes PROVE Over(r, w) \in Rows
  <2>1. PICK K \in SUBSET Key : w \in [K -> 0..MaxTxn] BY DEF Writes
  <2>2. QED BY <2>1 DEF Over, Rows
<1>3. \A i \in 1..n, r \in Rows : step[i][r] = Over(r, all[i]) /\ step[i][r] \in Rows
  BY <1>1, <1>2
<1>4. step \in [1..n -> [Rows -> Rows]] BY <1>1, <1>2
<1> HIDE DEF step
<1>5. PICK g \in [0..n -> Rows] : Recurses(g, rows, step, n)
  BY <1>1, <1>4, Recursion
<1>6. \A i \in 1..n : i - 1 \in 0..n BY <1>1
<1>7. g[0] = rows /\ \A i \in 1..n : g[i] = Over(g[i - 1], all[i])
  BY <1>3, <1>5, <1>6 DEF Recurses
<1>8. QED BY <1>1, <1>5, <1>7 DEF n, Goes

(* Transactions may be put on top one by one, or some first.               *)
LEMMA OverlaidProperties ==
    ASSUME NEW rows \in Rows, NEW all \in Seq(Writes)
    PROVE  /\ Overlaid(rows, all) \in Rows
           /\ Overlaid(rows, <<>>) = rows
           /\ \A w \in Writes : Overlaid(rows, Append(all, w)) = Over(Overlaid(rows, all), w)
           /\ \A m \in 0..Len(all) :
                 Overlaid(Overlaid(rows, SubSeq(all, 1, m)), SubSeq(all, m + 1, Len(all))) = Overlaid(rows, all)
<1> DEFINE n == Len(all)
<1>1. n \in Nat BY LenProperties
<1>2. PICK g \in [0..n -> Rows] : Goes(g, rows, all, n)
  BY OverlayExists
<1>3. Overlaid(rows, all) = g[n] BY <1>2, OverlaidIs
<1> HIDE DEF n
<1>4. Overlaid(rows, all) \in Rows BY <1>1, <1>2, <1>3
<1>5. Overlaid(rows, <<>>) = rows
  <2>1. Len(<<>>) = 0 OBVIOUS
  <2>2. Goes(g, rows, <<>>, 0) BY <1>2 DEF Goes
  <2>3. g[0] = rows BY <1>2 DEF Goes
  <2>4. QED BY <2>1, <2>2, <2>3, OverlaidIs
<1>6. ASSUME NEW w \in Writes PROVE Overlaid(rows, Append(all, w)) = Over(Overlaid(rows, all), w)
  <2> DEFINE long == Append(all, w)
  <2>1. /\ long \in Seq(Writes) /\ Len(long) = n + 1 /\ long[n + 1] = w
        /\ \A i \in 1..n : long[i] = all[i]
    BY <1>1, Pushed DEF n
  <2> DEFINE k == n + 1
  <2> HIDE DEF long, n, k
  <2>2. PICK h \in [0..Len(long) -> Rows] : Goes(h, rows, long, Len(long))
    BY <2>1, OverlayExists
  <2>3. Overlaid(rows, long) = h[k]
    <3>1. Len(long) = k BY <1>1, <2>1 DEF k
    <3>2. QED BY <2>2, <3>1, OverlaidIs
  <2>4. \A i \in 1..n : i \in 1..Len(long) BY <1>1, <2>1
  <2>5. Goes(h, rows, all, n) BY <1>1, <2>1, <2>2, <2>4 DEF Goes
  <2>6. Overlaid(rows, all) = h[n] BY <2>5, OverlaidIs DEF n
  <2>7. k \in 1..Len(long) /\ k - 1 = n /\ long[k] = w BY <1>1, <2>1 DEF k
  <2>8. h[k] = Over(h[n], w) BY <2>2, <2>7 DEF Goes
  <2>9. QED BY <2>3, <2>6, <2>8 DEF long
<1>7. ASSUME NEW m \in 0..n
      PROVE  Overlaid(Overlaid(rows, SubSeq(all, 1, m)), SubSeq(all, m + 1, n)) = Overlaid(rows, all)
  <2> DEFINE front == SubSeq(all, 1, m)
             back == SubSeq(all, m + 1, n)
             h == [i \in 0..(n - m) |-> g[m + i]]
  <2>1. Len(front) = m /\ \A i \in 1..m : front[i] = all[i] BY Prefix DEF n
  <2>2. Len(back) = n - m /\ \A i \in 1..(n - m) : back[i] = all[m + i]
    <3>1. m + 1 \in Int /\ n \in Int /\ \A i \in (m + 1)..n : i \in 1..n BY <1>1
    <3>2. \A i \in (m + 1)..n : all[i] \in Writes BY <3>1, ElementOfSeq DEF n
    <3>3. /\ Len(back) = IF m + 1 <= n THEN n - (m + 1) + 1 ELSE 0
          /\ \A i \in 1..(n - (m + 1) + 1) : back[i] = all[(m + 1) + i - 1]
      BY <3>1, <3>2, SubSeqProperties
    <3>4. n - (m + 1) + 1 = n - m /\ \A i \in 1..(n - m) : (m + 1) + i - 1 = m + i BY <1>1
    <3>5. Len(back) = n - m BY <1>1, <3>3
    <3>6. QED BY <3>3, <3>4, <3>5
  <2> HIDE DEF front, back
  <2>3. Overlaid(rows, front) = g[m]
    <3>1. \A i \in 1..m : i \in 1..n BY <1>1
    <3>2. Goes(g, rows, front, m) BY <1>1, <1>2, <2>1, <3>1 DEF Goes
    <3>3. QED BY <2>1, <3>2, OverlaidIs
  <2>4. Overlaid(g[m], back) = h[n - m]
    <3>1. n - m \in Nat /\ 0 \in 0..(n - m) BY <1>1
    <3>2. h[0] = g[m] BY <3>1
    <3>3. ASSUME NEW i \in 1..(n - m) PROVE h[i] = Over(h[i - 1], back[i])
      <4>1. /\ i \in 0..(n - m) /\ i - 1 \in 0..(n - m) /\ m + i \in 1..n
            /\ m + (i - 1) = m + i - 1
        BY <1>1
      <4>2. h[i] = g[m + i] /\ h[i - 1] = g[m + i - 1] BY <4>1
      <4>3. QED BY <1>2, <2>2, <4>1, <4>2 DEF Goes
    <3> HIDE DEF h
    <3>4. Goes(h, g[m], back, n - m) BY <3>1, <3>2, <3>3 DEF Goes
    <3>5. QED BY <2>2, <3>4, OverlaidIs
  <2>5. h[n - m] = g[n]
    <3>1. n - m \in 0..(n - m) /\ m + (n - m) = n BY <1>1
    <3>2. QED BY <3>1
  <2>6. QED BY <1>3, <2>3, <2>4, <2>5 DEF front, back
<1>8. QED BY <1>4, <1>5, <1>6, <1>7 DEF n

-----------------------------------------------------------------------------
(* A log by itself.  What recovery makes of the first n records depends on *)
(* the set E of the transactions that count.                               *)

\* those with a commit record among the first n
Coms(L, n) == {L[i].txid : i \in {j \in 1..n : L[j].ty = "commit"}}

\* record i is a write of key k
On(L, i, k) == L[i].ty \in Data /\ L[i].key = k

Hits(L, E, k, n) == {i \in 1..n : On(L, i, k) /\ L[i].txid \in E}

\* the row of k after the first n records, on top of the checkpoint C
Val(C, L, E, k, n) ==
    IF Hits(L, E, k, n) = {} THEN C[k]
    ELSE L[CHOOSE i \in Hits(L, E, k, n) : \A j \in Hits(L, E, k, n) : j <= i].row

\* how many commits there are behind the first s records, up to the n-th
Cnt(L, s, n) == Cardinality({i \in (s + 1)..n : L[i].ty = "commit"})

Agree(L, M, n) == \A i \in 1..n : L[i] = M[i]

(* The last write of a key decides.                                        *)
LEMMA ValIs ==
    ASSUME NEW C, NEW L, NEW E, NEW k, NEW n \in Nat
    PROVE  /\ Hits(L, E, k, n) = {} => Val(C, L, E, k, n) = C[k]
           /\ \A i \in Hits(L, E, k, n) :
                 (\A j \in Hits(L, E, k, n) : j <= i) => Val(C, L, E, k, n) = L[i].row
           /\ Hits(L, E, k, n) # {} =>
                 \E i \in Hits(L, E, k, n) : \A j \in Hits(L, E, k, n) : j <= i
<1> DEFINE H == Hits(L, E, k, n)
<1>1. H \subseteq 1..n BY DEF Hits
<1>2. Val(C, L, E, k, n) = IF H = {} THEN C[k] ELSE L[CHOOSE i \in H : \A j \in H : j <= i].row
  BY DEF Val
<1> HIDE DEF H
<1>3. ASSUME NEW i \in H, \A j \in H : j <= i
      PROVE  (CHOOSE x \in H : \A j \in H : j <= x) = i
  <2> DEFINE m == CHOOSE x \in H : \A j \in H : j <= x
  <2>1. m \in H /\ \A j \in H : j <= m BY <1>3
  <2> HIDE DEF m
  <2>2. m <= i /\ i <= m /\ m \in Int /\ i \in Int BY <1>1, <1>3, <2>1
  <2>3. m = i BY <2>2
  <2>4. QED BY <2>3 DEF m
<1>4. \A i \in H : (\A j \in H : j <= i) => Val(C, L, E, k, n) = L[i].row BY <1>2, <1>3
<1>5. H # {} => \E i \in H : \A j \in H : j <= i BY <1>1, GreatestMember
<1>6. QED BY <1>2, <1>4, <1>5 DEF H

(* The same writes, the same row.                                          *)
LEMMA HitsDecide ==
    ASSUME NEW C, NEW L, NEW M, NEW E, NEW F, NEW k, NEW n \in Nat, NEW m \in Nat,
           Hits(L, E, k, n) = Hits(M, F, k, m), \A i \in Hits(L, E, k, n) : L[i].row = M[i].row
    PROVE  Val(C, L, E, k, n) = Val(C, M, F, k, m)
<1>1. CASE Hits(L, E, k, n) = {}
  <2>1. Val(C, L, E, k, n) = C[k] BY <1>1, ValIs
  <2>2. Hits(M, F, k, m) = {} BY <1>1
  <2>3. Val(C, M, F, k, m) = C[k] BY <2>2, ValIs
  <2>4. QED BY <2>1, <2>3
<1>2. CASE Hits(L, E, k, n) # {}
  <2>1. PICK i \in Hits(L, E, k, n) : \A j \in Hits(L, E, k, n) : j <= i BY <1>2, ValIs
  <2>2. Val(C, L, E, k, n) = L[i].row BY <2>1, ValIs
  <2>3. i \in Hits(M, F, k, m) /\ \A j \in Hits(M, F, k, m) : j <= i BY <2>1
  <2>4. Val(C, M, F, k, m) = M[i].row BY <2>3, ValIs
  <2>5. QED BY <2>1, <2>2, <2>4
<1>3. QED BY <1>1, <1>2

(* One more record.                                                        *)
LEMMA ValNext ==
    ASSUME NEW C, NEW L, NEW E, NEW k, NEW n \in Nat, NEW m, m = n + 1
    PROVE  /\ On(L, m, k) /\ L[m].txid \in E => Val(C, L, E, k, m) = L[m].row
           /\ ~On(L, m, k) \/ L[m].txid \notin E => Val(C, L, E, k, m) = Val(C, L, E, k, n)
<1>1. m \in Nat /\ \A i : i \in 1..m <=> i \in 1..n \/ i = m OBVIOUS
<1>2. CASE On(L, m, k) /\ L[m].txid \in E
  <2>1. m \in Hits(L, E, k, m) BY <1>1, <1>2 DEF Hits
  <2>2. \A j \in Hits(L, E, k, m) : j <= m BY <1>1 DEF Hits
  <2>3. QED BY <1>1, <1>2, <2>1, <2>2, ValIs
<1>3. CASE ~(On(L, m, k) /\ L[m].txid \in E)
  <2>1. Hits(L, E, k, m) = Hits(L, E, k, n) BY <1>1, <1>3 DEF Hits
  <2>2. Val(C, L, E, k, m) = Val(C, L, E, k, n) BY <1>1, <2>1, HitsDecide
  <2>3. QED BY <1>3, <2>2
<1>4. QED BY <1>2, <1>3

(* Two logs, and two sets of transactions, that agree as far as k goes.    *)
LEMMA SameVal ==
    ASSUME NEW C, NEW L, NEW M, NEW E, NEW F, NEW k, NEW n \in Nat, Agree(L, M, n),
           \A i \in 1..n : On(L, i, k) => (L[i].txid \in E <=> L[i].txid \in F)
    PROVE  Val(C, L, E, k, n) = Val(C, M, F, k, n)
<1>1. Hits(L, E, k, n) = Hits(M, F, k, n) BY DEF Hits, On, Agree
<1>2. \A i \in Hits(L, E, k, n) : L[i].row = M[i].row BY DEF Hits, Agree
<1>3. QED BY <1>1, <1>2, HitsDecide

(* The commits among the first records of two logs that agree.             *)
LEMMA SameComs ==
    ASSUME NEW L, NEW M, NEW n \in Nat, Agree(L, M, n), NEW m \in 0..n
    PROVE  Coms(L, m) = Coms(M, m) /\ Agree(L, M, m) /\ \A s \in Nat : Cnt(L, s, m) = Cnt(M, s, m)
<1>1. \A i \in 1..m : i \in 1..n OBVIOUS
<1>2. Agree(L, M, m) BY <1>1 DEF Agree
<1>3. Coms(L, m) = Coms(M, m)
  <2>1. {j \in 1..m : L[j].ty = "commit"} = {j \in 1..m : M[j].ty = "commit"} BY <1>2 DEF Agree
  <2>2. QED BY <1>2, <2>1 DEF Coms, Agree
<1>4. ASSUME NEW s \in Nat PROVE Cnt(L, s, m) = Cnt(M, s, m)
  <2>1. \A i \in (s + 1)..m : i \in 1..m OBVIOUS
  <2>2. {i \in (s + 1)..m : L[i].ty = "commit"} = {i \in (s + 1)..m : M[i].ty = "commit"}
    BY <1>2, <2>1 DEF Agree
  <2>3. QED BY <2>2 DEF Cnt
<1>5. QED BY <1>2, <1>3, <1>4

(* One more record, and commits.                                           *)
LEMMA ComsNext ==
    ASSUME NEW L, NEW n \in Nat, NEW m, m = n + 1
    PROVE  /\ L[m].ty = "commit" => Coms(L, m) = Coms(L, n) \cup {L[m].txid}
           /\ L[m].ty # "commit" => Coms(L, m) = Coms(L, n)
           /\ \A i \in 0..n : Coms(L, i) \subseteq Coms(L, n)
<1>1. \A i : i \in 1..m <=> i \in 1..n \/ i = m OBVIOUS
<1>2. L[m].ty = "commit" => Coms(L, m) = Coms(L, n) \cup {L[m].txid} BY <1>1 DEF Coms
<1>3. L[m].ty # "commit" => Coms(L, m) = Coms(L, n) BY <1>1 DEF Coms
<1>4. ASSUME NEW i \in 0..n PROVE Coms(L, i) \subseteq Coms(L, n)
  <2>1. \A j \in 1..i : j \in 1..n OBVIOUS
  <2>2. QED BY <2>1 DEF Coms
<1>5. QED BY <1>2, <1>3, <1>4

(* Counting commits.                                                       *)
LEMMA CntProperties ==
    ASSUME NEW L, NEW s \in Nat, NEW m \in Nat, NEW n \in Nat, s <= m, m <= n
    PROVE  /\ Cnt(L, s, n) \in Nat /\ Cnt(L, s, m) \in Nat /\ Cnt(L, m, n) \in Nat
           /\ Cnt(L, s, n) = Cnt(L, s, m) + Cnt(L, m, n)
           /\ Cnt(L, n, n) = 0
           /\ Cnt(L, n, n + 1) = IF L[n + 1].ty = "commit" THEN 1 ELSE 0
<1> DEFINE S(i, j) == {x \in (i + 1)..j : L[x].ty = "commit"}
<1>1. \A i, j \in Nat : IsFiniteSet(S(i, j)) /\ Cardinality(S(i, j)) \in Nat
  <2>1. ASSUME NEW i \in Nat, NEW j \in Nat PROVE IsFiniteSet(S(i, j)) /\ Cardinality(S(i, j)) \in Nat
    <3>1. IsFiniteSet((i + 1)..j) BY FS_Interval
    <3>2. S(i, j) \subseteq (i + 1)..j OBVIOUS
    <3>3. QED BY <3>1, <3>2, FS_Subset, FS_CardinalityType
  <2>2. QED BY <2>1
<1>2. \A i, j : Cnt(L, i, j) = Cardinality(S(i, j)) BY DEF Cnt
<1>3. Cnt(L, s, n) = Cnt(L, s, m) + Cnt(L, m, n)
  <2>1. S(s, n) = S(s, m) \cup S(m, n) /\ S(s, m) \cap S(m, n) = {} OBVIOUS
  <2>2. IsFiniteSet(S(s, m)) /\ IsFiniteSet(S(m, n)) BY <1>1
  <2> HIDE DEF S
  <2>3. Cardinality(S(s, m) \cup S(m, n)) =
           Cardinality(S(s, m)) + Cardinality(S(m, n)) - Cardinality(S(s, m) \cap S(m, n))
    BY <2>2, FS_Union
  <2>4. Cardinality(S(s, m) \cap S(m, n)) = 0 BY <2>1, FS_EmptySet
  <2>5. Cardinality(S(s, m)) \in Nat /\ Cardinality(S(m, n)) \in Nat BY <1>1
  <2>6. Cnt(L, s, n) = Cardinality(S(s, m) \cup S(m, n)) BY <1>2, <2>1
  <2>7. Cnt(L, s, m) = Cardinality(S(s, m)) /\ Cnt(L, m, n) = Cardinality(S(m, n)) BY <1>2
  <2>8. QED BY <2>3, <2>4, <2>5, <2>6, <2>7
<1>4. Cnt(L, n, n) = 0
  <2>1. S(n, n) = {} OBVIOUS
  <2>2. QED BY <1>2, <2>1, FS_EmptySet
<1>5. Cnt(L, n, n + 1) = IF L[n + 1].ty = "commit" THEN 1 ELSE 0
  <2> DEFINE k == n + 1
  <2>1. k..k = {k} BY DEF k
  <2>2. CASE L[k].ty = "commit"
    <3>1. S(n, k) = {k} BY <2>1, <2>2
    <3>2. Cardinality({k}) = 1 BY FS_Singleton
    <3>3. QED BY <1>2, <2>2, <3>1, <3>2
  <2>3. CASE L[k].ty # "commit"
    <3>1. S(n, k) = {} BY <2>1, <2>3
    <3>2. QED BY <1>2, <2>3, <3>1, FS_EmptySet
  <2>4. QED BY <2>2, <2>3
<1>6. QED BY <1>1, <1>2, <1>3, <1>4, <1>5

(* One more record, and their number.                                      *)
LEMMA CntNext ==
    ASSUME NEW L, NEW n \in Nat, NEW m, m = n + 1, NEW s \in 0..n
    PROVE  /\ Cnt(L, s, n) \in Nat
           /\ L[m].ty = "commit" => Cnt(L, s, m) = Cnt(L, s, n) + 1
           /\ L[m].ty # "commit" => Cnt(L, s, m) = Cnt(L, s, n)
<1>1. s \in Nat /\ m \in Nat /\ s <= n /\ n <= m /\ n <= n OBVIOUS
<1>2. Cnt(L, s, m) = Cnt(L, s, n) + Cnt(L, n, m) /\ Cnt(L, s, n) \in Nat
  BY ONLY n \in Nat, <1>1, CntProperties
<1>3. Cnt(L, n, n + 1) = IF L[n + 1].ty = "commit" THEN 1 ELSE 0
  BY ONLY n \in Nat, <1>1, CntProperties
<1>4. QED BY <1>2, <1>3

-----------------------------------------------------------------------------
(* What the invariant says of the first n records of a log L.              *)

\* a write has a key, and a delete no row
WellFormed(L, n) ==
    \A i \in 1..n : L[i].ty \in Data =>
       L[i].key \in Key /\ (L[i].row = NoRow <=> L[i].ty = "delete")

\* a transaction that commits ends once
Once(L, n) ==
    \A i, j \in 1..n :
       L[i].ty = "commit" /\ L[j].ty \in {"commit", "abort"} /\ L[i].txid = L[j].txid => i = j

\* one that commits has done so before another writes the same key
Ordered(L, n) ==
    \A i, j \in 1..n :
       i < j /\ L[j].ty \in Data /\ On(L, i, L[j].key) /\ L[i].txid # L[j].txid
         /\ L[i].txid \in Coms(L, n) => L[i].txid \in Coms(L, j)

\* a write by one of T is an insert when the key has no row, in the eyes of its writer
Fits(C, L, T, n) ==
    \A j \in 1..n : L[j].ty \in Data /\ L[j].txid \in T =>
       (L[j].ty = "insert" <=> Val(C, L, Coms(L, j) \cup {L[j].txid}, L[j].key, j - 1) = NoRow)

\* behind the first s records, the transactions d are committed on top of the rows a
Sums(C, L, s, a, d, n) ==
    /\ Len(d) = Cnt(L, s, n)
    /\ \A i \in s..n, k \in Key :
          Val(C, L, Coms(L, i), k, i) = Overlaid(a, SubSeq(d, 1, Cnt(L, s, i)))[k]

\* the log tells what transaction t has written, w, and that no other wrote there since
Tells(L, n, t, w) ==
    /\ \A i \in 1..n : L[i].txid = t => L[i].ty # "abort"
    /\ \A i \in 1..n : L[i].ty \in Data /\ L[i].txid = t =>
          L[i].key \in DOMAIN w /\ \A j \in i..n : On(L, j, L[i].key) => L[j].txid = t
    /\ \A k \in DOMAIN w : \E i \in 1..n :
          /\ On(L, i, k) /\ L[i].txid = t /\ L[i].row = w[k]
          /\ \A j \in i..n : On(L, j, k) => j = i

(* What the first records tell is the same in logs that agree on them.     *)
LEMMA SameLog ==
    ASSUME NEW C, NEW L, NEW M, NEW T, NEW s \in Nat, NEW a, NEW d, NEW n \in Nat, Agree(L, M, n)
    PROVE  /\ WellFormed(L, n) => WellFormed(M, n)
           /\ Once(L, n) => Once(M, n)
           /\ Ordered(L, n) => Ordered(M, n)
           /\ Fits(C, L, T, n) => Fits(C, M, T, n)
           /\ Sums(C, L, s, a, d, n) => Sums(C, M, s, a, d, n)
<1>1. \A i \in 1..n : L[i] = M[i] BY DEF Agree
<1>2. WellFormed(L, n) => WellFormed(M, n) BY <1>1 DEF WellFormed
<1>3. Once(L, n) => Once(M, n) BY <1>1 DEF Once
<1>4. \A i \in 0..n : Coms(L, i) = Coms(M, i) /\ Agree(L, M, i) /\ Cnt(L, s, i) = Cnt(M, s, i)
  BY SameComs
<1>5. n \in 0..n /\ \A i \in 1..n : i \in 0..n /\ i - 1 \in 0..n /\ i - 1 \in Nat OBVIOUS
<1>6. ASSUME Ordered(L, n) PROVE Ordered(M, n)
  <2>1. Coms(L, n) = Coms(M, n) /\ \A i \in 1..n : Coms(L, i) = Coms(M, i) BY <1>4, <1>5
  <2>2. QED BY <1>1, <1>6, <2>1 DEF Ordered, On
<1>7. ASSUME Fits(C, L, T, n) PROVE Fits(C, M, T, n)
  <2> SUFFICES ASSUME NEW j \in 1..n, M[j].ty \in Data, M[j].txid \in T
               PROVE  M[j].ty = "insert" <=>
                        Val(C, M, Coms(M, j) \cup {M[j].txid}, M[j].key, j - 1) = NoRow
    BY DEF Fits
  <2> DEFINE E == Coms(M, j) \cup {M[j].txid}
  <2>1. L[j] = M[j] /\ Coms(L, j) = Coms(M, j) BY <1>1, <1>4, <1>5
  <2>2. L[j].ty = "insert" <=> Val(C, L, E, M[j].key, j - 1) = NoRow BY <1>7, <2>1 DEF Fits
  <2> HIDE DEF E
  <2>3. Agree(L, M, j - 1) /\ j - 1 \in Nat BY <1>4, <1>5
  <2>4. Val(C, L, E, M[j].key, j - 1) = Val(C, M, E, M[j].key, j - 1) BY <2>3, SameVal
  <2>5. QED BY <2>1, <2>2, <2>4 DEF E
<1>8. ASSUME Sums(C, L, s, a, d, n) PROVE Sums(C, M, s, a, d, n)
  <2>1. Len(d) = Cnt(M, s, n) BY <1>4, <1>5, <1>8 DEF Sums
  <2>2. ASSUME NEW i \in s..n, NEW k \in Key
        PROVE  Val(C, M, Coms(M, i), k, i) = Overlaid(a, SubSeq(d, 1, Cnt(M, s, i)))[k]
    <3>1. i \in 0..n /\ i \in Nat OBVIOUS
    <3>2. Coms(L, i) = Coms(M, i) /\ Agree(L, M, i) /\ Cnt(L, s, i) = Cnt(M, s, i) BY <1>4, <3>1
    <3>3. Val(C, L, Coms(L, i), k, i) = Overlaid(a, SubSeq(d, 1, Cnt(M, s, i)))[k]
      BY <1>8, <3>2 DEF Sums
    <3>4. Val(C, L, Coms(M, i), k, i) = Val(C, M, Coms(M, i), k, i) BY <3>1, <3>2, SameVal
    <3>5. QED BY <3>2, <3>3, <3>4
  <2>3. QED BY <2>1, <2>2 DEF Sums
<1>9. QED BY <1>2, <1>3, <1>6, <1>7, <1>8

(* A log that is cut off.                                                  *)
LEMMA CutLog ==
    ASSUME NEW C, NEW L, NEW T, NEW U, NEW n \in Nat, NEW m \in 0..n, U \subseteq T
    PROVE  /\ WellFormed(L, n) => WellFormed(L, m)
           /\ Once(L, n) => Once(L, m)
           /\ Ordered(L, n) => Ordered(L, m)
           /\ Fits(C, L, T, n) => Fits(C, L, U, m)
<1>1. \A i \in 1..m : i \in 1..n OBVIOUS
<1>2. Coms(L, m) \subseteq Coms(L, n) BY ComsNext
<1>3. WellFormed(L, n) => WellFormed(L, m) BY <1>1 DEF WellFormed
<1>4. Once(L, n) => Once(L, m) BY <1>1 DEF Once
<1>5. Ordered(L, n) => Ordered(L, m) BY <1>1, <1>2 DEF Ordered
<1>6. Fits(C, L, T, n) => Fits(C, L, U, m) BY <1>1 DEF Fits
<1>7. QED BY <1>3, <1>4, <1>5, <1>6

(* The row of a key in the eyes of a transaction.                          *)
LEMMA DraftDecides ==
    ASSUME NEW C, NEW L, NEW n \in Nat, NEW t, NEW w, NEW E, NEW k, Tells(L, n, t, w)
    PROVE  Val(C, L, E \cup {t}, k, n) = IF k \in DOMAIN w THEN w[k] ELSE Val(C, L, E, k, n)
<1> DEFINE F == E \cup {t}
<1>1. CASE k \in DOMAIN w
  <2>1. PICK i \in 1..n : /\ On(L, i, k) /\ L[i].txid = t /\ L[i].row = w[k]
                          /\ \A j \in i..n : On(L, j, k) => j = i
    BY <1>1 DEF Tells
  <2>2. i \in Hits(L, F, k, n) BY <2>1 DEF Hits
  <2>3. \A j \in Hits(L, F, k, n) : j <= i BY <2>1 DEF Hits
  <2> HIDE DEF F
  <2>4. Val(C, L, F, k, n) = w[k] BY <2>1, <2>2, <2>3, ValIs
  <2>5. QED BY <1>1, <2>4 DEF F
<1>2. CASE k \notin DOMAIN w
  <2>1. \A i \in 1..n : On(L, i, k) => L[i].txid # t BY <1>2 DEF Tells, On
  <2>2. \A i \in 1..n : On(L, i, k) => (L[i].txid \in F <=> L[i].txid \in E) BY <2>1
  <2> HIDE DEF F
  <2>3. Agree(L, L, n) BY DEF Agree
  <2>4. Val(C, L, F, k, n) = Val(C, L, E, k, n) BY <2>2, <2>3, SameVal
  <2>5. QED BY <1>2, <2>4 DEF F
<1>3. QED BY <1>1, <1>2

(* A record is appended: only that of a commit commits.                    *)
LEMMA ComsAppended ==
    ASSUME NEW L, NEW M, NEW n \in Nat, NEW m, m = n + 1, Agree(L, M, n)
    PROVE  /\ M[m].ty = "commit" => Coms(M, m) = Coms(L, n) \cup {M[m].txid}
           /\ M[m].ty # "commit" => Coms(M, m) = Coms(L, n)
<1>1. n \in 0..n OBVIOUS
<1>2. Coms(M, n) = Coms(L, n) BY <1>1, SameComs
<1>3. QED BY <1>2, ComsNext

(* A write is appended: nothing is committed by it.                        *)
LEMMA WriteAppended ==
    ASSUME NEW C, NEW L, NEW M, NEW n \in Nat, NEW m, m = n + 1, Agree(L, M, n),
           NEW T, NEW s \in 0..n, NEW a, NEW d, M[m].ty \in Data
    PROVE  /\ Coms(M, m) = Coms(L, n)
           /\ Once(L, n) => Once(M, m)
           /\ Ordered(L, n) => Ordered(M, m)
           /\ (M[m].txid \in T =>
                 (M[m].ty = "insert" <=>
                    Val(C, L, Coms(L, n) \cup {M[m].txid}, M[m].key, n) = NoRow))
              => (Fits(C, L, T, n) => Fits(C, M, T, m))
           /\ M[m].txid \notin Coms(L, n) => (Sums(C, L, s, a, d, n) => Sums(C, M, s, a, d, m))
<1>1. /\ m \in Nat /\ m - 1 = n /\ s \in Nat /\ n \in 0..n /\ s <= n
      /\ \A i : i \in 1..m <=> i \in 1..n \/ i = m
      /\ \A i : i \in s..m <=> i \in s..n \/ i = m
  OBVIOUS
<1>2. M[m].ty \notin {"commit", "abort"} BY DEF Data
<1>3. Coms(M, n) = Coms(L, n) BY <1>1, SameComs
<1>4. Coms(M, m) = Coms(L, n) BY <1>2, <1>3, ComsNext
<1>5. ASSUME Once(L, n) PROVE Once(M, m)
  <2>1. Once(M, n) BY <1>1, <1>5, SameLog
  <2>2. QED BY <1>1, <1>2, <2>1 DEF Once
<1>6. ASSUME Ordered(L, n) PROVE Ordered(M, m)
  <2>1. Ordered(M, n) BY <1>1, <1>6, SameLog
  <2> SUFFICES ASSUME NEW i \in 1..m, NEW j \in 1..m, i < j, M[j].ty \in Data,
                      On(M, i, M[j].key), M[i].txid # M[j].txid, M[i].txid \in Coms(M, m)
               PROVE  M[i].txid \in Coms(M, j)
    BY DEF Ordered
  <2>2. CASE j = m BY <2>2
  <2>3. CASE j # m
    <3>1. i \in 1..n /\ j \in 1..n BY <1>1, <2>3
    <3>2. QED BY <1>3, <1>4, <2>1, <3>1 DEF Ordered
  <2>4. QED BY <2>2, <2>3
<1>7. ASSUME M[m].txid \in T =>
                (M[m].ty = "insert" <=>
                   Val(C, L, Coms(L, n) \cup {M[m].txid}, M[m].key, n) = NoRow),
             Fits(C, L, T, n)
      PROVE  Fits(C, M, T, m)
  <2>1. Fits(C, M, T, n) BY <1>1, <1>7, SameLog
  <2> SUFFICES ASSUME NEW j \in 1..m, M[j].ty \in Data, M[j].txid \in T
               PROVE  M[j].ty = "insert" <=>
                        Val(C, M, Coms(M, j) \cup {M[j].txid}, M[j].key, j - 1) = NoRow
    BY DEF Fits
  <2>2. CASE j = m
    <3> DEFINE E == Coms(L, n) \cup {M[m].txid}
               k == M[m].key
    <3>1. M[m].ty = "insert" <=> Val(C, L, E, k, n) = NoRow BY <1>7, <2>2
    <3> HIDE DEF E, k
    <3>2. Val(C, L, E, k, n) = Val(C, M, E, k, n) BY SameVal
    <3>3. QED BY <1>1, <1>4, <2>2, <3>1, <3>2 DEF E, k
  <2>3. CASE j # m
    <3>1. j \in 1..n BY <1>1, <2>3
    <3>2. QED BY <2>1, <3>1 DEF Fits
  <2>4. QED BY <2>2, <2>3
<1>8. ASSUME M[m].txid \notin Coms(L, n), Sums(C, L, s, a, d, n) PROVE Sums(C, M, s, a, d, m)
  <2>1. Sums(C, M, s, a, d, n) BY <1>1, <1>8, SameLog
  <2>2. Cnt(M, s, m) = Cnt(M, s, n) BY <1>2, CntNext
  <2>3. Len(d) = Cnt(M, s, m) BY <2>1, <2>2 DEF Sums
  <2>4. ASSUME NEW i \in s..m, NEW k \in Key
        PROVE  Val(C, M, Coms(M, i), k, i) = Overlaid(a, SubSeq(d, 1, Cnt(M, s, i)))[k]
    <3>1. CASE i = m
      <4>1. Val(C, M, Coms(M, m), k, m) = Val(C, M, Coms(M, m), k, n) BY <1>4, <1>8, ValNext
      <4>2. n \in s..n BY <1>1
      <4>3. Val(C, M, Coms(M, n), k, n) = Overlaid(a, SubSeq(d, 1, Cnt(M, s, n)))[k]
        BY <2>1, <4>2 DEF Sums
      <4>4. QED BY <1>3, <1>4, <2>2, <3>1, <4>1, <4>3
    <3>2. CASE i # m
      <4>1. i \in s..n BY <1>1, <3>2
      <4>2. QED BY <2>1, <4>1 DEF Sums
    <3>3. QED BY <3>1, <3>2
  <2>5. QED BY <2>3, <2>4 DEF Sums
<1>9. QED BY <1>4, <1>5, <1>6, <1>7, <1>8

(* ... and what the log tells of the transactions.                         *)
LEMMA WriteTells ==
    ASSUME NEW L, NEW M, NEW n \in Nat, NEW m, m = n + 1, Agree(L, M, n),
           NEW t, NEW w, Tells(L, n, t, w), M[m].ty \in Data
    PROVE  /\ M[m].txid # t /\ M[m].key \notin DOMAIN w => Tells(M, m, t, w)
           /\ \A v : /\ M[m].txid = t
                     /\ DOMAIN v = DOMAIN w \cup {M[m].key}
                     /\ v[M[m].key] = M[m].row
                     /\ \A k \in DOMAIN w \ {M[m].key} : v[k] = w[k]
                     => Tells(M, m, t, v)
<1>1. /\ \A i : i \in 1..m <=> i \in 1..n \/ i = m
      /\ \A i \in 1..n : \A j : j \in i..m <=> j \in i..n \/ j = m
      /\ \A j \in m..m : j = m
      /\ m \in 1..m
  OBVIOUS
<1>2. \A i \in 1..n : L[i] = M[i] BY DEF Agree
<1>3. \A i \in 1..n : \A j \in i..n : L[j] = M[j]
  <2>1. \A i \in 1..n : \A j \in i..n : j \in 1..n OBVIOUS
  <2>2. QED BY <1>2, <2>1
<1>4. M[m].ty # "abort" BY DEF Data
<1>5. /\ \A i \in 1..n : L[i].txid = t => L[i].ty # "abort"
      /\ \A i \in 1..n : L[i].ty \in Data /\ L[i].txid = t =>
            L[i].key \in DOMAIN w /\ \A j \in i..n : On(L, j, L[i].key) => L[j].txid = t
      /\ \A k \in DOMAIN w : \E i \in 1..n :
            /\ On(L, i, k) /\ L[i].txid = t /\ L[i].row = w[k]
            /\ \A j \in i..n : On(L, j, k) => j = i
  BY DEF Tells
<1>6. \A i \in 1..m : M[i].txid = t => M[i].ty # "abort" BY <1>1, <1>2, <1>4, <1>5
<1>7. ASSUME M[m].txid # t, M[m].key \notin DOMAIN w PROVE Tells(M, m, t, w)
  <2>1. ASSUME NEW i \in 1..m, M[i].ty \in Data, M[i].txid = t
        PROVE  M[i].key \in DOMAIN w /\ \A j \in i..m : On(M, j, M[i].key) => M[j].txid = t
    <3>1. i \in 1..n /\ L[i] = M[i] BY <1>1, <1>2, <1>7, <2>1
    <3>2. M[i].key \in DOMAIN w BY <1>5, <2>1, <3>1
    <3>3. ASSUME NEW j \in i..m, On(M, j, M[i].key) PROVE M[j].txid = t
      <4>1. j # m BY <1>7, <3>2, <3>3 DEF On
      <4>2. j \in i..n /\ L[j] = M[j] BY <1>1, <1>3, <3>1, <4>1
      <4>3. On(L, j, L[i].key) BY <3>1, <3>3, <4>2 DEF On
      <4>4. QED BY <1>5, <2>1, <3>1, <4>2, <4>3
    <3>4. QED BY <3>2, <3>3
  <2>2. ASSUME NEW k \in DOMAIN w
        PROVE  \E i \in 1..m : /\ On(M, i, k) /\ M[i].txid = t /\ M[i].row = w[k]
                               /\ \A j \in i..m : On(M, j, k) => j = i
    <3>1. PICK i \in 1..n : /\ On(L, i, k) /\ L[i].txid = t /\ L[i].row = w[k]
                            /\ \A j \in i..n : On(L, j, k) => j = i
      BY <1>5
    <3>2. i \in 1..m /\ M[i] = L[i] BY <1>1, <1>2
    <3>3. \A j \in i..m : On(M, j, k) => j = i
      <4>1. ~On(M, m, k) BY <1>7, <2>2 DEF On
      <4>2. QED BY <1>1, <1>3, <3>1, <4>1 DEF On
    <3>4. QED BY <3>1, <3>2, <3>3 DEF On
  <2>3. QED BY <1>6, <2>1, <2>2 DEF Tells
<1>8. ASSUME NEW v, M[m].txid = t, DOMAIN v = DOMAIN w \cup {M[m].key}, v[M[m].key] = M[m].row,
             \A k \in DOMAIN w \ {M[m].key} : v[k] = w[k]
      PROVE  Tells(M, m, t, v)
  <2>1. ASSUME NEW i \in 1..m, M[i].ty \in Data, M[i].txid = t
        PROVE  M[i].key \in DOMAIN v /\ \A j \in i..m : On(M, j, M[i].key) => M[j].txid = t
    <3>1. CASE i = m BY <1>1, <1>8, <3>1
    <3>2. CASE i # m
      <4>1. i \in 1..n /\ L[i] = M[i] BY <1>1, <1>2, <3>2
      <4>2. M[i].key \in DOMAIN v BY <1>5, <1>8, <2>1, <4>1
      <4>3. ASSUME NEW j \in i..m, On(M, j, M[i].key) PROVE M[j].txid = t
        <5>1. CASE j = m BY <1>8, <5>1
        <5>2. CASE j # m
          <6>1. j \in i..n /\ L[j] = M[j] BY <1>1, <1>3, <4>1, <5>2
          <6>2. On(L, j, L[i].key) BY <4>1, <4>3, <6>1 DEF On
          <6>3. QED BY <1>5, <2>1, <4>1, <6>1, <6>2
        <5>3. QED BY <5>1, <5>2
      <4>4. QED BY <4>2, <4>3
    <3>3. QED BY <3>1, <3>2
  <2>2. ASSUME NEW k \in DOMAIN v
        PROVE  \E i \in 1..m : /\ On(M, i, k) /\ M[i].txid = t /\ M[i].row = v[k]
                               /\ \A j \in i..m : On(M, j, k) => j = i
    <3>1. CASE k = M[m].key
      <4>1. On(M, m, k) BY <3>1 DEF On
      <4>2. QED BY <1>1, <1>8, <3>1, <4>1
    <3>2. CASE k # M[m].key
      <4>1. k \in DOMAIN w /\ v[k] = w[k] BY <1>8, <2>2, <3>2
      <4>2. PICK i \in 1..n : /\ On(L, i, k) /\ L[i].txid = t /\ L[i].row = w[k]
                              /\ \A j \in i..n : On(L, j, k) => j = i
        BY <1>5, <4>1
      <4>3. i \in 1..m /\ M[i] = L[i] BY <1>1, <1>2
      <4>4. \A j \in i..m : On(M, j, k) => j = i
        <5>1. ~On(M, m, k) BY <3>2 DEF On
        <5>2. QED BY <1>1, <1>3, <4>2, <5>1 DEF On
      <4>5. QED BY <4>1, <4>2, <4>3, <4>4 DEF On
    <3>3. QED BY <3>1, <3>2
  <2>3. QED BY <1>6, <2>1, <2>2 DEF Tells
<1>9. QED BY <1>7, <1>8

(* The end of a transaction is appended: what fitted does so.              *)
LEMMA EndFits ==
    ASSUME NEW C, NEW L, NEW M, NEW n \in Nat, NEW m, m = n + 1, Agree(L, M, n),
           NEW T, NEW U, U \subseteq T, M[m].ty \notin Data, Fits(C, L, T, n)
    PROVE  Fits(C, M, U, m)
<1>1. \A i : i \in 1..m <=> i \in 1..n \/ i = m OBVIOUS
<1>2. 0 \in Nat /\ Fits(C, M, T, n) BY SameLog
<1>3. QED BY <1>1, <1>2 DEF Fits

(* An abort record is appended: nothing changes for the others.            *)
LEMMA AbortAppended ==
    ASSUME NEW C, NEW L, NEW M, NEW n \in Nat, NEW m, m = n + 1, Agree(L, M, n),
           NEW s \in 0..n, NEW a, NEW d, M[m].ty = "abort"
    PROVE  /\ Coms(M, m) = Coms(L, n)
           /\ M[m].txid \notin Coms(L, n) => (Once(L, n) => Once(M, m))
           /\ Ordered(L, n) => Ordered(M, m)
           /\ Sums(C, L, s, a, d, n) => Sums(C, M, s, a, d, m)
<1>1. /\ m \in Nat /\ m - 1 = n /\ s \in Nat /\ n \in 0..n /\ s <= n /\ n <= m /\ n <= n
      /\ \A i : i \in 1..m <=> i \in 1..n \/ i = m
      /\ \A i : i \in s..m <=> i \in s..n \/ i = m
  OBVIOUS
<1>2. M[m].ty \notin Data /\ M[m].ty # "commit" /\ \A k : ~On(M, m, k) BY DEF Data, On
<1>3. Coms(M, n) = Coms(L, n) BY <1>1, SameComs
<1>4. Coms(M, m) = Coms(L, n) BY <1>2, <1>3, ComsNext
<1>5. ASSUME M[m].txid \notin Coms(L, n), Once(L, n) PROVE Once(M, m)
  <2>1. Once(M, n) BY <1>1, <1>5, SameLog
  <2>2. \A i \in 1..n : M[i].ty = "commit" => M[i].txid # M[m].txid BY <1>3, <1>5 DEF Coms
  <2>3. QED BY <1>1, <1>2, <2>1, <2>2 DEF Once
<1>6. ASSUME Ordered(L, n) PROVE Ordered(M, m)
  <2>1. Ordered(M, n) BY <1>1, <1>6, SameLog
  <2>2. QED BY <1>1, <1>2, <1>3, <1>4, <2>1 DEF Ordered
<1>7. ASSUME Sums(C, L, s, a, d, n) PROVE Sums(C, M, s, a, d, m)
  <2>1. Sums(C, M, s, a, d, n) BY <1>1, <1>7, SameLog
  <2>2. Cnt(M, s, m) = Cnt(M, s, n) BY <1>2, CntNext
  <2>3. Len(d) = Cnt(M, s, m) BY <2>1, <2>2 DEF Sums
  <2>4. ASSUME NEW i \in s..m, NEW k \in Key
        PROVE  Val(C, M, Coms(M, i), k, i) = Overlaid(a, SubSeq(d, 1, Cnt(M, s, i)))[k]
    <3>1. CASE i = m
      <4>1. Val(C, M, Coms(M, m), k, m) = Val(C, M, Coms(M, m), k, n) BY <1>2, ValNext
      <4>2. n \in s..n BY <1>1
      <4>3. Val(C, M, Coms(M, n), k, n) = Overlaid(a, SubSeq(d, 1, Cnt(M, s, n)))[k]
        BY <2>1, <4>2 DEF Sums
      <4>4. QED BY <1>3, <1>4, <2>2, <3>1, <4>1, <4>3
    <3>2. CASE i # m
      <4>1. i \in s..n BY <1>1, <3>2
      <4>2. QED BY <2>1, <4>1 DEF Sums
    <3>3. QED BY <3>1, <3>2
  <2>5. QED BY <2>3, <2>4 DEF Sums
<1>8. QED BY <1>4, <1>5, <1>6, <1>7

(* The end of a transaction changes nothing of what the log tells of one   *)
(* that it does not abort.                                                 *)
LEMMA EndTells ==
    ASSUME NEW L, NEW M, NEW n \in Nat, NEW m, m = n + 1, Agree(L, M, n),
           NEW t, NEW w, Tells(L, n, t, w), M[m].ty \notin Data,
           M[m].txid = t => M[m].ty # "abort"
    PROVE  Tells(M, m, t, w)
<1>1. /\ \A i : i \in 1..m <=> i \in 1..n \/ i = m
      /\ \A i \in 1..n : \A j : j \in i..m <=> j \in i..n \/ j = m
  OBVIOUS
<1>2. \A i \in 1..n : L[i] = M[i] BY DEF Agree
<1>3. \A i \in 1..n : \A j \in i..n : L[j] = M[j]
  <2>1. \A i \in 1..n : \A j \in i..n : j \in 1..n OBVIOUS
  <2>2. QED BY <1>2, <2>1
<1>4. \A k : ~On(M, m, k) BY DEF On
<1>5. \A i \in 1..m : M[i].txid = t => M[i].ty # "abort" BY <1>1, <1>2 DEF Tells
<1>6. ASSUME NEW i \in 1..m, M[i].ty \in Data, M[i].txid = t
      PROVE  M[i].key \in DOMAIN w /\ \A j \in i..m : On(M, j, M[i].key) => M[j].txid = t
  <2>1. i \in 1..n /\ L[i] = M[i] BY <1>1, <1>2, <1>6
  <2>2. M[i].key \in DOMAIN w BY <1>6, <2>1 DEF Tells
  <2>3. ASSUME NEW j \in i..m, On(M, j, M[i].key) PROVE M[j].txid = t
    <3>1. j \in i..n /\ L[j] = M[j] BY <1>1, <1>3, <1>4, <2>1, <2>3
    <3>2. On(L, j, L[i].key) BY <2>1, <2>3, <3>1 DEF On
    <3>3. QED BY <1>6, <2>1, <3>1, <3>2 DEF Tells
  <2>4. QED BY <2>2, <2>3
<1>7. ASSUME NEW k \in DOMAIN w
      PROVE  \E i \in 1..m : /\ On(M, i, k) /\ M[i].txid = t /\ M[i].row = w[k]
                             /\ \A j \in i..m : On(M, j, k) => j = i
  <2>1. PICK i \in 1..n : /\ On(L, i, k) /\ L[i].txid = t /\ L[i].row = w[k]
                          /\ \A j \in i..n : On(L, j, k) => j = i
    BY DEF Tells
  <2>2. i \in 1..m /\ M[i] = L[i] BY <1>1, <1>2
  <2>3. \A j \in i..m : On(M, j, k) => j = i BY <1>1, <1>3, <1>4, <2>1 DEF On
  <2>4. QED BY <2>1, <2>2, <2>3 DEF On
<1>8. QED BY <1>5, <1>6, <1>7 DEF Tells

(* A commit record is appended,                                            *)
LEMMA CommitAppended ==
    ASSUME NEW L, NEW M, NEW n \in Nat, NEW m, m = n + 1, Agree(L, M, n),
           M[m].ty = "commit", NEW t, M[m].txid = t, t \notin Coms(L, n),
           NEW w, Tells(L, n, t, w)
    PROVE  /\ Coms(M, m) = Coms(L, n) \cup {t}
           /\ Once(L, n) => Once(M, m)
           /\ Ordered(L, n) => Ordered(M, m)
<1>1. /\ m \in Nat /\ m - 1 = n /\ n \in 0..n
      /\ \A i : i \in 1..m <=> i \in 1..n \/ i = m
      /\ \A i \in 1..n : i \in 0..n
  OBVIOUS
<1>2. M[m].ty \notin Data /\ \A k : ~On(M, m, k) BY DEF Data, On
<1>3. \A i \in 0..n : Coms(M, i) = Coms(L, i) BY SameComs
<1>4. Coms(M, m) = Coms(L, n) \cup {t} BY <1>1, <1>3, ComsNext
<1>5. \A i \in 1..n : L[i] = M[i] BY DEF Agree
<1>6. ASSUME Once(L, n) PROVE Once(M, m)
  <2>1. Once(M, n) BY <1>1, <1>6, SameLog
  <2>2. \A i \in 1..n : M[i].ty = "commit" => M[i].txid # t BY <1>1, <1>3 DEF Coms
  <2>3. \A i \in 1..n : M[i].ty = "abort" => M[i].txid # t BY <1>5 DEF Tells
  <2>4. QED BY <1>1, <2>1, <2>2, <2>3 DEF Once
<1>7. ASSUME Ordered(L, n) PROVE Ordered(M, m)
  <2>1. Ordered(M, n) BY <1>1, <1>7, SameLog
  <2> SUFFICES ASSUME NEW i \in 1..m, NEW j \in 1..m, i < j, M[j].ty \in Data,
                      On(M, i, M[j].key), M[i].txid # M[j].txid, M[i].txid \in Coms(M, m)
               PROVE  M[i].txid \in Coms(M, j)
    BY DEF Ordered
  <2>2. i \in 1..n /\ j \in 1..n /\ j \in i..n BY <1>1, <1>2
  <2>3. CASE M[i].txid = t
    <3>1. L[i] = M[i] /\ L[j] = M[j] BY <1>5, <2>2
    <3>2. On(L, j, L[i].key) /\ L[i].ty \in Data BY <3>1 DEF On
    <3>3. L[j].txid = t BY <2>2, <2>3, <3>1, <3>2 DEF Tells
    <3>4. QED BY <2>3, <3>1, <3>3
  <2>4. CASE M[i].txid # t
    <3>1. M[i].txid \in Coms(M, n) BY <1>1, <1>3, <1>4, <2>4
    <3>2. QED BY <2>1, <2>2, <3>1 DEF Ordered
  <2>5. QED BY <2>3, <2>4
<1>8. QED BY <1>4, <1>6, <1>7

(* ... and what its transaction wrote comes on top of the others.          *)
LEMMA CommitSums ==
    ASSUME NEW C, NEW L, NEW M, NEW n \in Nat, NEW m, m = n + 1, Agree(L, M, n),
           NEW s \in 0..n, NEW a \in Rows, NEW d \in Seq(Writes), Sums(C, L, s, a, d, n),
           M[m].ty = "commit", NEW t, M[m].txid = t, NEW w \in Writes, Tells(L, n, t, w)
    PROVE  Sums(C, M, s, a, Append(d, w), m)
<1>1. /\ m \in Nat /\ s \in Nat /\ n \in 0..n
      /\ \A i : i \in s..m <=> i \in s..n \/ i = m
  OBVIOUS
<1>2. \A k : ~On(M, m, k) BY DEF Data, On
<1>3. Coms(M, m) = Coms(L, n) \cup {t} BY ComsAppended
<1> DEFINE e == Append(d, w)
<1>4. Sums(C, M, s, a, d, n) BY <1>1, SameLog
<1>5. /\ e \in Seq(Writes) /\ Len(d) \in Nat /\ Len(e) = Len(d) + 1
      /\ \A i \in 1..Len(d) : e[i] = d[i]
  BY LenProperties, AppendProperties
<1>6. Overlaid(a, e) = Over(Overlaid(a, d), w) BY OverlaidProperties
<1> HIDE DEF e
<1>7. Len(d) = Cnt(M, s, n) BY <1>4 DEF Sums
<1>8. Cnt(M, s, m) = Cnt(M, s, n) + 1 BY CntNext
<1>9. Len(e) = Cnt(M, s, m) BY <1>5, <1>7, <1>8
<1>10. ASSUME NEW i \in s..m, NEW k \in Key
      PROVE  Val(C, M, Coms(M, i), k, i) = Overlaid(a, SubSeq(e, 1, Cnt(M, s, i)))[k]
  <2>1. CASE i = m
    <3>1. Val(C, M, Coms(M, m), k, m) = Val(C, M, Coms(M, m), k, n)
      <4> DEFINE E == Coms(M, m)
      <4> HIDE DEF E
      <4>1. Val(C, M, E, k, m) = Val(C, M, E, k, n) BY <1>2, ValNext
      <4>2. QED BY <4>1 DEF E
    <3>2. Val(C, M, Coms(M, m), k, n) = Val(C, L, Coms(L, n) \cup {t}, k, n)
      <4> DEFINE E == Coms(L, n) \cup {t}
      <4>1. Coms(M, m) = E BY <1>3
      <4> HIDE DEF E
      <4>2. Val(C, L, E, k, n) = Val(C, M, E, k, n) BY SameVal
      <4>3. QED BY <4>1, <4>2 DEF E
    <3>3. Val(C, L, Coms(L, n) \cup {t}, k, n) =
             IF k \in DOMAIN w THEN w[k] ELSE Val(C, L, Coms(L, n), k, n)
      BY DraftDecides
    <3>4. Val(C, L, Coms(L, n), k, n) = Overlaid(a, d)[k]
      <4>1. n \in s..n OBVIOUS
      <4>2. Val(C, L, Coms(L, n), k, n) = Overlaid(a, SubSeq(d, 1, Cnt(L, s, n)))[k]
            /\ Len(d) = Cnt(L, s, n)
        BY <4>1 DEF Sums
      <4>3. SubSeq(d, 1, Len(d)) = d BY SubSeqFull
      <4>4. QED BY <4>2, <4>3
    <3>5. Over(Overlaid(a, d), w)[k] = IF k \in DOMAIN w THEN w[k] ELSE Overlaid(a, d)[k]
      BY DEF Over
    <3>6. SubSeq(e, 1, Cnt(M, s, m)) = e BY <1>5, <1>9, SubSeqFull
    <3>7. Val(C, M, Coms(M, m), k, m) = Overlaid(a, e)[k]
      BY <1>6, <3>1, <3>2, <3>3, <3>4, <3>5
    <3>8. QED BY <2>1, <3>6, <3>7
  <2>2. CASE i # m
    <3>1. i \in s..n BY <1>1, <2>2
    <3>2. Val(C, M, Coms(M, i), k, i) = Overlaid(a, SubSeq(d, 1, Cnt(M, s, i)))[k]
      BY <1>4, <3>1 DEF Sums
    <3>3. Cnt(M, s, i) \in 0..Len(d)
      <4>1. s \in Nat /\ i \in Nat /\ s <= i /\ i <= n BY <3>1
      <4>2. /\ Cnt(M, s, n) = Cnt(M, s, i) + Cnt(M, i, n)
            /\ Cnt(M, s, i) \in Nat /\ Cnt(M, i, n) \in Nat
        BY ONLY n \in Nat, <4>1, CntProperties
      <4>3. QED BY <1>7, <4>2
    <3> DEFINE c == Cnt(M, s, i)
    <3>4. SubSeq(d, 1, c) = SubSeq(e, 1, c)
      <4> HIDE DEF c
      <4>1. c \in 0..Len(d) /\ c \in 0..Len(e) BY <1>5, <3>3 DEF c
      <4>2. \A j \in 1..c : d[j] = e[j] BY <1>5, <4>1
      <4>3. QED BY <1>5, <4>1, <4>2, SamePrefix
    <3>5. QED BY <3>2, <3>4
  <2>3. QED BY <2>1, <2>2
<1>11. QED BY <1>9, <1>10 DEF Sums, e

(* The durable part of the log grows.                                      *)
LEMMA SumsForward ==
    ASSUME NEW C, NEW L, NEW n \in Nat, NEW s \in 0..n, NEW p \in s..n,
           NEW a \in Rows, NEW d \in Seq(Writes), Sums(C, L, s, a, d, n),
           NEW c, c = Cnt(L, s, p)
    PROVE  /\ c \in 0..Len(d)
           /\ Sums(C, L, p, Overlaid(a, SubSeq(d, 1, c)), SubSeq(d, c + 1, Len(d)), n)
<1> DEFINE l == Len(d)
           back == SubSeq(d, c + 1, l)
           b == Overlaid(a, SubSeq(d, 1, c))
<1>1. s \in Nat /\ p \in Nat /\ s <= p /\ p <= n /\ l \in Nat BY LenProperties
<1>2. \A i \in p..n : i \in Nat /\ p <= i /\ i <= n /\ s <= i /\ i \in s..n BY <1>1
<1>3. ASSUME NEW i \in p..n
      PROVE  Cnt(L, s, i) = c + Cnt(L, p, i) /\ c \in Nat /\ Cnt(L, p, i) \in Nat
  <2>1. s \in Nat /\ p \in Nat /\ i \in Nat /\ s <= p /\ p <= i BY <1>1, <1>2
  <2>2. /\ Cnt(L, s, i) = Cnt(L, s, p) + Cnt(L, p, i)
        /\ Cnt(L, s, p) \in Nat /\ Cnt(L, p, i) \in Nat
    BY ONLY <2>1, CntProperties
  <2>3. QED BY <2>2
<1>4. ASSUME NEW i \in p..n PROVE c + Cnt(L, p, i) <= l
  <2>0. s \in Nat /\ i \in Nat /\ n \in Nat /\ s <= i /\ i <= n BY <1>1, <1>2
  <2>1. /\ Cnt(L, s, n) = Cnt(L, s, i) + Cnt(L, i, n)
        /\ Cnt(L, s, i) \in Nat /\ Cnt(L, i, n) \in Nat
    BY ONLY <2>0, CntProperties
  <2>2. l = Cnt(L, s, n) BY DEF Sums
  <2>3. QED BY <1>3, <2>1, <2>2
<1>5. n \in p..n /\ p \in p..n BY <1>1
<1>6. l = c + Cnt(L, p, n) /\ c \in Nat /\ Cnt(L, p, n) \in Nat BY <1>3, <1>5 DEF Sums
<1>7. c \in 0..l /\ l \in c..l BY <1>1, <1>6
<1>8. back \in Seq(Writes) /\ Len(back) = l - c
  <2>1. c \in Nat /\ l \in c..Len(d) /\ d \in Seq(Writes) /\ back = SubSeq(d, c + 1, l) BY <1>6, <1>7
  <2> HIDE DEF back, l
  <2>2. QED BY ONLY <2>1, Section
<1>9. Len(back) = Cnt(L, p, n) BY <1>6, <1>8
<1>10. ASSUME NEW i \in p..n, NEW k \in Key
       PROVE  Val(C, L, Coms(L, i), k, i) = Overlaid(b, SubSeq(back, 1, Cnt(L, p, i)))[k]
  <2> DEFINE e == Cnt(L, p, i)
             all == SubSeq(d, 1, c + e)
  <2>0. e \in Nat /\ c + e <= l /\ Cnt(L, s, i) = c + e BY <1>3, <1>4
  <2>1. e \in Nat /\ c + e <= l /\ Cnt(L, s, i) = c + e /\ c + e \in 0..l
    <3> HIDE DEF e
    <3>1. QED BY <1>1, <1>6, <2>0
  <2>2. Val(C, L, Coms(L, i), k, i) = Overlaid(a, SubSeq(d, 1, Cnt(L, s, i)))[k]
    BY <1>2 DEF Sums
  <2>3. SubSeq(all, c + 1, c + e) = SubSeq(back, 1, e)
    <3> HIDE DEF e
    <3>1. QED BY <1>6, <2>1, MiddlePart
  <2> HIDE DEF e, back
  <2>4. all \in Seq(Writes) /\ Len(all) = c + e /\ \A j \in 1..(c + e) : all[j] = d[j]
    BY <2>1, Prefix
  <2> HIDE DEF all
  <2>5. SubSeq(all, 1, c) = SubSeq(d, 1, c)
    <3>1. c \in 0..Len(all) /\ \A j \in 1..c : j \in 1..(c + e) BY <1>6, <2>1, <2>4
    <3>2. \A j \in 1..c : all[j] = d[j] BY <2>4, <3>1
    <3>3. QED BY <1>7, <2>4, <3>1, <3>2, SamePrefix
  <2>6. Overlaid(Overlaid(a, SubSeq(all, 1, c)), SubSeq(all, c + 1, Len(all))) = Overlaid(a, all)
    <3>1. c \in 0..Len(all) BY <1>6, <2>1, <2>4
    <3>2. QED BY <2>4, <3>1, OverlaidProperties
  <2>7. Overlaid(b, SubSeq(back, 1, e)) = Overlaid(a, all) BY <2>3, <2>4, <2>5, <2>6
  <2>8. Val(C, L, Coms(L, i), k, i) = Overlaid(a, all)[k] BY <2>1, <2>2 DEF all
  <2>9. QED BY <2>7, <2>8 DEF e
<1> HIDE DEF back, b
<1>11. Sums(C, L, p, b, back, n) BY <1>9, <1>10 DEF Sums
<1>12. QED BY <1>7, <1>11 DEF back, b

(* The log is cut off behind the m-th record.                              *)
LEMMA SumsCut ==
    ASSUME NEW C, NEW L, NEW n \in Nat, NEW s \in 0..n, NEW m \in s..n,
           NEW a \in Rows, NEW d \in Seq(Writes), Sums(C, L, s, a, d, n),
           NEW c, c = Cnt(L, s, m)
    PROVE  /\ c \in 0..Len(d)
           /\ Sums(C, L, s, a, SubSeq(d, 1, c), m)
<1>1. s \in Nat /\ m \in Nat /\ s <= m /\ m <= n /\ Len(d) \in Nat BY LenProperties
<1>2. /\ Cnt(L, s, n) = Cnt(L, s, m) + Cnt(L, m, n)
      /\ Cnt(L, s, m) \in Nat /\ Cnt(L, m, n) \in Nat
  BY ONLY n \in Nat, <1>1, CntProperties
<1>3. c \in 0..Len(d) BY <1>1, <1>2 DEF Sums
<1> DEFINE e == SubSeq(d, 1, c)
<1>4. e \in Seq(Writes) /\ Len(e) = c /\ \A i \in 1..c : e[i] = d[i] BY <1>3, Prefix
<1> HIDE DEF e
<1>5. ASSUME NEW i \in s..m, NEW k \in Key
      PROVE  Val(C, L, Coms(L, i), k, i) = Overlaid(a, SubSeq(e, 1, Cnt(L, s, i)))[k]
  <2> DEFINE f == Cnt(L, s, i)
  <2>1. i \in Nat /\ s <= i /\ i <= m /\ i \in s..n BY <1>1
  <2>2. c = f + Cnt(L, i, m) /\ f \in Nat /\ Cnt(L, i, m) \in Nat
    <3>1. s \in Nat /\ i \in Nat /\ m \in Nat /\ s <= i /\ i <= m BY <1>1, <2>1
    <3>2. /\ Cnt(L, s, m) = Cnt(L, s, i) + Cnt(L, i, m)
          /\ Cnt(L, s, i) \in Nat /\ Cnt(L, i, m) \in Nat
      BY ONLY <3>1, CntProperties
    <3>3. QED BY <3>2
  <2>3. Val(C, L, Coms(L, i), k, i) = Overlaid(a, SubSeq(d, 1, f))[k] BY <2>1 DEF Sums
  <2> HIDE DEF f
  <2>4. f \in 0..Len(e) /\ f \in 0..Len(d) /\ \A j \in 1..f : j \in 1..c BY <1>3, <1>4, <2>2
  <2>5. \A j \in 1..f : d[j] = e[j] BY <1>4, <2>4
  <2>6. SubSeq(d, 1, f) = SubSeq(e, 1, f) BY <1>4, <2>4, <2>5, SamePrefix
  <2>7. QED BY <2>3, <2>6 DEF f
<1>6. Sums(C, L, s, a, e, m) BY <1>4, <1>5 DEF Sums
<1>7. QED BY <1>3, <1>6 DEF e

-----------------------------------------------------------------------------
(* What recovery makes of a log.                                           *)

Chains == [Key -> Seq(Version)]

\* a chain as recovery has it when the row of its key is v
ChainIs(c, v) ==
    /\ c \in Seq(Version)
    /\ LiveIn(c) = IF v = NoRow THEN {} ELSE {Len(c)}
    /\ v # NoRow => c[Len(c)].row = v

Killed(c) == [c EXCEPT ![Len(c)].dead = TRUE]
Newest(row) == [row |-> row, dead |-> FALSE]

(* Such a chain has one live version or none, and tells the row.           *)
LEMMA ChainTells ==
    ASSUME NEW c, NEW v, ChainIs(c, v)
    PROVE  RowOf(c) = v /\ Cardinality(LiveIn(c)) <= 1
<1>1. CASE v = NoRow
  <2>1. LiveIn(c) = {} BY <1>1 DEF ChainIs
  <2>2. Cardinality({}) = 0 BY FS_EmptySet
  <2>3. RowOf(c) = NoRow BY <2>1 DEF RowOf
  <2>4. QED BY <1>1, <2>1, <2>2, <2>3
<1>2. CASE v # NoRow
  <2> DEFINE n == Len(c)
  <2>1. LiveIn(c) = {n} /\ c[n].row = v BY <1>2 DEF ChainIs
  <2>2. n \in Nat BY LenProperties DEF ChainIs
  <2> HIDE DEF n
  <2>3. (CHOOSE i \in {n} : \A j \in {n} : j <= i) = n BY <2>2
  <2>4. RowOf(c) = v BY <2>1, <2>3 DEF RowOf
  <2>5. Cardinality({n}) = 1 BY FS_Singleton
  <2>6. QED BY <2>1, <2>4, <2>5
<1>3. QED BY <1>1, <1>2

(* The last version of a chain dies.                                       *)
LEMMA KilledProperties ==
    ASSUME NEW c \in Seq(Version), c # <<>>
    PROVE  /\ Len(c) \in Nat /\ Len(c) \in 1..Len(c)
           /\ Killed(c) \in Seq(Version) /\ Len(Killed(c)) = Len(c)
           /\ \A i \in 1..Len(c) : i # Len(c) => Killed(c)[i] = c[i]
           /\ Killed(c)[Len(c)].dead
<1> DEFINE n == Len(c)
           e == [c[n] EXCEPT !.dead = TRUE]
<1>1. n \in Nat /\ n # 0 BY LenProperties, EmptySeq
<1>2. n \in 1..n BY <1>1
<1>3. c[n] \in Version BY <1>2, ElementOfSeq
<1>4. e \in Version /\ e.dead BY <1>3 DEF Version
<1>5. Killed(c) = [c EXCEPT ![n] = e] BY DEF Killed
<1> HIDE DEF e
<1>6. /\ [c EXCEPT ![n] = e] \in Seq(Version) /\ Len([c EXCEPT ![n] = e]) = Len(c)
      /\ \A j \in 1..Len(c) : [c EXCEPT ![n] = e][j] = IF j = n THEN e ELSE c[j]
  BY <1>2, <1>4, ExceptSeq
<1>7. QED BY <1>1, <1>2, <1>4, <1>5, <1>6

(* One record is replayed, on chains that it fits.                         *)
LEMMA ReplayStep ==
    ASSUME NEW chains \in Chains, NEW r \in Record, NEW v, r.ty \in Data, r.key \in Key,
           r.row = NoRow <=> r.ty = "delete", ChainIs(chains[r.key], v),
           r.ty = "insert" <=> v = NoRow
    PROVE  /\ Replay(chains, r) \in Chains
           /\ ChainIs(Replay(chains, r)[r.key], r.row)
           /\ \A k \in Key \ {r.key} : Replay(chains, r)[k] = chains[k]
<1> DEFINE c == chains[r.key]
           old == IF r.ty = "insert" THEN c ELSE Killed(c)
           new == IF r.ty = "delete" THEN <<>> ELSE <<Newest(r.row)>>
           d == old \o new
<1>1. c \in Seq(Version) /\ Len(c) \in Nat BY LenProperties DEF Chains
<1>2. r.ty # "insert" => c # <<>>
  <2> SUFFICES ASSUME r.ty # "insert", c = <<>> PROVE FALSE
    OBVIOUS
  <2>1. LiveIn(c) = {Len(c)} BY DEF ChainIs
  <2>2. Len(c) \in DOMAIN c BY <2>1 DEF LiveIn
  <2>3. DOMAIN c = 1..Len(c) /\ Len(c) = 0 BY <1>1, LenProperties, EmptySeq
  <2>4. QED BY <2>2, <2>3
<1>3. /\ old \in Seq(Version) /\ Len(old) = Len(c)
      /\ \A i \in 1..Len(c) : old[i].dead
  <2>0. DOMAIN c = 1..Len(c) BY <1>1, LenProperties
  <2>1. CASE r.ty = "insert"
    <3>1. LiveIn(c) = {} BY <2>1 DEF ChainIs
    <3>2. QED BY <1>1, <2>0, <2>1, <3>1 DEF LiveIn
  <2>2. CASE r.ty # "insert"
    <3>1. /\ Killed(c) \in Seq(Version) /\ Len(Killed(c)) = Len(c) /\ Killed(c)[Len(c)].dead
          /\ \A i \in 1..Len(c) : i # Len(c) => Killed(c)[i] = c[i]
      BY <1>1, <1>2, <2>2, KilledProperties
    <3>2. \A i \in 1..Len(c) : i # Len(c) => c[i].dead
      <4>1. LiveIn(c) = {Len(c)} BY <2>2 DEF ChainIs
      <4>2. QED BY <2>0, <4>1 DEF LiveIn
    <3>3. QED BY <2>2, <3>1, <3>2
  <2>3. QED BY <2>1, <2>2
<1>4. Newest(r.row) \in Version BY DEF Newest, Version, Record
<1>5. new \in Seq(Version)
  <2> HIDE DEF c
  <2>1. <<>> \in Seq(Version) BY EmptySeq
  <2>2. <<Newest(r.row)>> \in Seq(Version) BY <1>4
  <2>3. QED BY <2>1, <2>2
<1>6. d \in Seq(Version) /\ Len(d) = Len(old) + Len(new)
      /\ \A i \in 1..(Len(old) + Len(new)) : d[i] = IF i <= Len(old) THEN old[i] ELSE new[i - Len(old)]
  <2> HIDE DEF old, new
  <2>1. old \in Seq(Version) BY <1>3
  <2>2. QED BY ONLY <1>5, <2>1, ConcatProperties
<1>7. Replay(chains, r) = [chains EXCEPT ![r.key] = d]
  <2>1. chains # None BY NoneAssumption DEF Chains
  <2>2. ~(r.ty # "insert" /\ c = <<>>) BY <1>2
  <2>3. new = IF r.ty = "delete" THEN <<>> ELSE <<[row |-> r.row, dead |-> FALSE]>>
    BY DEF Newest
  <2>4. old = IF r.ty = "insert" THEN c ELSE [c EXCEPT ![Len(c)].dead = TRUE] BY DEF Killed
  <2> HIDE DEF old, new
  <2>5. QED BY <2>1, <2>2, <2>3, <2>4 DEF Replay
<1>8. ChainIs(d, r.row)
  <2>0. DOMAIN d = 1..Len(d) BY <1>6, LenProperties
  <2>1. CASE r.ty = "delete"
    <3>1. Len(new) = 0 BY <2>1, EmptySeq
    <3> HIDE DEF d, old, new, c
    <3>2. Len(d) = Len(c) /\ \A i \in 1..Len(c) : d[i].dead BY <1>1, <1>3, <1>6, <3>1
    <3>3. LiveIn(d) = {} BY <2>0, <3>2 DEF LiveIn
    <3>4. QED BY <1>6, <2>1, <3>3 DEF ChainIs
  <2>2. CASE r.ty # "delete"
    <3>1. Len(new) = 1 /\ new[1] = Newest(r.row) BY <2>2
    <3> HIDE DEF d, old, new, c
    <3> DEFINE m == Len(d)
    <3>2. m = Len(c) + 1 /\ m \in 1..m BY <1>1, <1>3, <1>6, <3>1
    <3>3. \A i \in 1..Len(c) : d[i].dead BY <1>1, <1>3, <1>6, <3>1
    <3>4. d[m] = Newest(r.row)
      <4>1. m \in 1..(Len(old) + Len(new)) /\ ~(m <= Len(old)) /\ m - Len(old) = 1
        BY <1>1, <1>3, <3>1, <3>2
      <4>2. QED BY <1>6, <3>1, <4>1
    <3>5. \A i \in 1..m : i \in 1..Len(c) \/ i = m BY <1>1, <3>2
    <3>6. ~d[m].dead /\ d[m].row = r.row BY <3>4 DEF Newest
    <3> HIDE DEF m
    <3>7. LiveIn(d) = {m} BY <2>0, <3>2, <3>3, <3>5, <3>6 DEF LiveIn, m
    <3>8. QED BY <1>6, <2>2, <3>6, <3>7 DEF ChainIs, m
  <2>3. QED BY <2>1, <2>2
<1> HIDE DEF d
<1>9. [chains EXCEPT ![r.key] = d] \in Chains BY <1>6 DEF Chains
<1>10. QED BY <1>7, <1>8, <1>9 DEF Chains

\* the chains are those that the first i records make of the checkpoint C
Reached(C, L, E, x, i) == x \in Chains /\ \A k \in Key : ChainIs(x[k], Val(C, L, E, k, i))

Replayed(x, r, E) == IF r.ty \in Data /\ r.txid \in E THEN Replay(x, r) ELSE x

(* One record of a log is replayed.  A write of a committed transaction    *)
(* fits: what its writer saw is what is there, since all that others have  *)
(* written to the key before is committed, or never will be.               *)
LEMMA ReplayKeeps ==
    ASSUME NEW C, NEW L \in Seq(Record), NEW n, n = Len(L), NEW T, NEW E, E = Coms(L, n),
           E \subseteq T, WellFormed(L, n), Ordered(L, n), Fits(C, L, T, n),
           NEW i \in 1..n, NEW x, Reached(C, L, E, x, i - 1)
    PROVE  Reached(C, L, E, Replayed(x, L[i], E), i)
<1> DEFINE m == i - 1
<1>1. n \in Nat /\ m \in Nat /\ i = m + 1 /\ i \in Nat /\ i \in 0..n BY LenProperties
<1>2. x \in Chains /\ \A k \in Key : ChainIs(x[k], Val(C, L, E, k, m)) BY DEF Reached
<1>3. L[i] \in Record BY ElementOfSeq
<1> HIDE DEF m
<1>4. ASSUME NEW k
      PROVE  /\ On(L, i, k) /\ L[i].txid \in E => Val(C, L, E, k, i) = L[i].row
             /\ ~On(L, i, k) \/ L[i].txid \notin E => Val(C, L, E, k, i) = Val(C, L, E, k, m)
  <2>1. m \in Nat /\ i = m + 1 BY <1>1
  <2>2. QED BY ONLY <2>1, ValNext
<1>5. CASE ~(L[i].ty \in Data /\ L[i].txid \in E)
  <2>1. \A k \in Key : Val(C, L, E, k, i) = Val(C, L, E, k, m) BY <1>4, <1>5 DEF On
  <2>2. QED BY <1>2, <1>5, <2>1 DEF Reached, Replayed
<1>6. CASE L[i].ty \in Data /\ L[i].txid \in E
  <2> DEFINE r == L[i]
             t == r.txid
             key == r.key
             v == Val(C, L, E, key, m)
             F == Coms(L, i) \cup {t}
             y == Replay(x, r)
  <2>1. key \in Key /\ (r.row = NoRow <=> r.ty = "delete") BY <1>6 DEF WellFormed
  <2>2. ChainIs(x[key], v) BY <1>2, <2>1
  <2>3. r.ty = "insert" <=> Val(C, L, F, key, m) = NoRow BY <1>6 DEF Fits, m
  <2>4. Val(C, L, F, key, m) = v
    <3>1. Coms(L, i) \subseteq E BY ONLY <1>1, E = Coms(L, n), ComsNext
    <3>2. ASSUME NEW j \in 1..m, On(L, j, key), L[j].txid \in E PROVE L[j].txid \in F
      <4>1. j \in 1..n /\ j < i BY <1>1
      <4>2. L[j].txid # t => L[j].txid \in Coms(L, i) BY <1>6, <3>2, <4>1 DEF Ordered
      <4>3. QED BY <4>2
    <3>3. \A j \in 1..m : On(L, j, key) => (L[j].txid \in F <=> L[j].txid \in E)
      BY <1>6, <3>1, <3>2
    <3>4. Agree(L, L, m) BY DEF Agree
    <3> HIDE DEF F, key
    <3>5. QED BY <1>1, <3>3, <3>4, SameVal
  <2>5. r.ty = "insert" <=> v = NoRow BY <2>3, <2>4
  <2> HIDE DEF v, key
  <2>6. /\ y \in Chains /\ ChainIs(y[r.key], r.row)
        /\ \A k \in Key \ {r.key} : y[k] = x[k]
    <3>1. key = r.key BY DEF key
    <3> HIDE DEF r
    <3>2. r \in Record /\ r.ty \in Data BY <1>3, <1>6 DEF r
    <3>3. r.key \in Key /\ ChainIs(x[r.key], v) BY <2>1, <2>2, <3>1
    <3>4. QED BY <1>2, <2>1, <2>5, <3>2, <3>3, ReplayStep
  <2>7. ASSUME NEW k \in Key PROVE ChainIs(y[k], Val(C, L, E, k, i))
    <3>1. CASE k = L[i].key
      <4>1. Val(C, L, E, k, i) = L[i].row BY <1>4, <1>6, <3>1 DEF On
      <4>2. QED BY <2>6, <3>1, <4>1
    <3>2. CASE k # L[i].key
      <4>1. Val(C, L, E, k, i) = Val(C, L, E, k, m) BY <1>4, <3>2 DEF On
      <4>2. QED BY <1>2, <2>6, <3>2, <4>1
    <3>3. QED BY <3>1, <3>2
  <2> HIDE DEF y
  <2>8. Reached(C, L, E, y, i) BY <2>6, <2>7 DEF Reached
  <2>9. QED BY <1>6, <2>8 DEF Replayed, y
<1>7. QED BY <1>5, <1>6

(* Recovery rebuilds, of every key, one chain that tells its row.          *)
LEMMA RebuiltIs ==
    ASSUME file \in Seq(Record), ckpt \in Rows, NEW n, n = Len(file), NEW T, Coms(file, n) \subseteq T,
           WellFormed(file, n), Once(file, n), Ordered(file, n), Fits(ckpt, file, T, n)
    PROVE  /\ CommittedIn(file) = Coms(file, n)
           /\ Rebuilt # None
           /\ \A k \in Key : ChainIs(Rebuilt[k], Val(ckpt, file, Coms(file, n), k, n))
<1> DEFINE E == Coms(file, n)
           base == [k \in Key |-> IF ckpt[k] = NoRow THEN <<>> ELSE <<Newest(ckpt[k])>>]
<1>1. n \in Nat /\ DOMAIN file = 1..n BY LenProperties
<1>2. CommittedIn(file) = E BY <1>1 DEF CommittedIn, Coms, Once
<1> HIDE DEF E
<1>3. Reached(ckpt, file, E, base, 0)
  <2>1. ASSUME NEW k \in Key PROVE ChainIs(base[k], Val(ckpt, file, E, k, 0))
    <3>1. Val(ckpt, file, E, k, 0) = ckpt[k]
      <4>1. Hits(file, E, k, 0) = {} BY DEF Hits
      <4>2. QED BY <4>1, ValIs
    <3>2. CASE ckpt[k] = NoRow
      <4>1. <<>> \in Seq(Version) /\ DOMAIN <<>> = {} BY EmptySeq
      <4>2. LiveIn(<<>>) = {} BY <4>1 DEF LiveIn
      <4>3. QED BY <3>1, <3>2, <4>1, <4>2 DEF ChainIs
    <3>3. CASE ckpt[k] # NoRow
      <4> DEFINE c == <<Newest(ckpt[k])>>
      <4>1. Newest(ckpt[k]) \in Version BY DEF Newest, Version, Rows
      <4>2. c \in Seq(Version) /\ Len(c) = 1 /\ DOMAIN c = {1} /\ c[1] = Newest(ckpt[k])
        BY <4>1
      <4>3. base[k] = c BY <3>3
      <4> HIDE DEF c
      <4>4. ~c[1].dead /\ c[1].row = ckpt[k] BY <4>2 DEF Newest
      <4>5. LiveIn(c) = {1} BY <4>2, <4>4 DEF LiveIn
      <4>6. QED BY <3>1, <3>3, <4>2, <4>3, <4>4, <4>5 DEF ChainIs
    <3>4. QED BY <3>2, <3>3
  <2>2. base \in Chains BY <2>1 DEF ChainIs, Chains
  <2> HIDE DEF base
  <2>3. QED BY <2>1, <2>2 DEF Reached
<1> HIDE DEF base
<1>4. ASSUME NEW i \in 1..n, NEW x, Reached(ckpt, file, E, x, i - 1)
      PROVE  Reached(ckpt, file, E, Replayed(x, file[i], E), i)
  BY <1>4, ReplayKeeps DEF E
<1> DEFINE step == [i \in 1..n |-> [x \in Chains |->
                      IF Replayed(x, file[i], E) \in Chains THEN Replayed(x, file[i], E) ELSE x]]
<1>5. step \in [1..n -> [Chains -> Chains]] OBVIOUS
<1>6. \A i \in 1..n, x \in Chains :
         step[i][x] = IF Replayed(x, file[i], E) \in Chains THEN Replayed(x, file[i], E) ELSE x
  OBVIOUS
<1> HIDE DEF step
<1>7. PICK g \in [0..n -> Chains] : Recurses(g, base, step, n)
  BY <1>1, <1>3, <1>5, Recursion DEF Reached
<1>8. ASSUME NEW i \in 1..n, Reached(ckpt, file, E, g[i - 1], i - 1)
      PROVE  g[i] = Replayed(g[i - 1], file[i], E)
  <2>1. g[i - 1] \in Chains BY <1>8 DEF Reached
  <2>2. Replayed(g[i - 1], file[i], E) \in Chains BY <1>4, <1>8 DEF Reached
  <2>3. g[i] = step[i][g[i - 1]] BY <1>7 DEF Recurses
  <2>4. QED BY <1>6, <2>1, <2>2, <2>3
<1>9. \A i \in 0..n : Reached(ckpt, file, E, g[i], i)
  <2> DEFINE S == {i \in Nat : i <= n => Reached(ckpt, file, E, g[i], i)}
  <2>1. 0 \in S BY <1>3, <1>7 DEF Recurses
  <2>2. ASSUME NEW i \in Nat, i \in S PROVE i + 1 \in S
    <3> SUFFICES ASSUME i + 1 <= n PROVE Reached(ckpt, file, E, g[i + 1], i + 1)
      OBVIOUS
    <3> DEFINE k == i + 1
    <3>1. k \in 1..n /\ k - 1 = i /\ Reached(ckpt, file, E, g[i], i) BY <1>1, <2>2
    <3> HIDE DEF k
    <3>2. g[k] = Replayed(g[k - 1], file[k], E) BY <1>8, <3>1
    <3>3. Reached(ckpt, file, E, Replayed(g[k - 1], file[k], E), k) BY <1>4, <3>1
    <3>4. QED BY <3>2, <3>3 DEF k
  <2> HIDE DEF S
  <2>3. Nat \subseteq S BY <2>1, <2>2, NatSetInduction
  <2>4. QED BY <1>1, <2>3 DEF S
<1> DEFINE Upto == CHOOSE u : u = [i \in 0..n |->
              IF i = 0 THEN base
              ELSE IF file[i].ty \in Data /\ file[i].txid \in E
                   THEN Replay(u[i - 1], file[i]) ELSE u[i - 1]]
<1>10. Rebuilt = Upto[n] BY <1>2 DEF Rebuilt, base, Newest
<1>11. \E u : u = [i \in 0..n |->
              IF i = 0 THEN base
              ELSE IF file[i].ty \in Data /\ file[i].txid \in E
                   THEN Replay(u[i - 1], file[i]) ELSE u[i - 1]]
  <2> DEFINE W(u, i) == IF i = 0 THEN base
                        ELSE IF file[i].ty \in Data /\ file[i].txid \in E
                             THEN Replay(u[i - 1], file[i]) ELSE u[i - 1]
  <2>1. ASSUME NEW i \in 0..n PROVE g[i] = W(g, i)
    <3>1. CASE i = 0 BY <1>7, <3>1 DEF Recurses
    <3>2. CASE i # 0
      <4>1. i \in 1..n /\ i - 1 \in 0..n BY <1>1, <3>2
      <4>2. g[i] = Replayed(g[i - 1], file[i], E) BY <1>8, <1>9, <4>1
      <4>3. QED BY <3>2, <4>2 DEF Replayed
    <3>3. QED BY <3>1, <3>2
  <2>2. g = [i \in 0..n |-> g[i]] OBVIOUS
  <2>3. g = [i \in 0..n |-> W(g, i)]
    <3> HIDE DEF W
    <3>1. QED BY <2>1, <2>2
  <2>4. QED BY <2>3
<1>12. Upto = [i \in 0..n |->
              IF i = 0 THEN base
              ELSE IF file[i].ty \in Data /\ file[i].txid \in E
                   THEN Replay(Upto[i - 1], file[i]) ELSE Upto[i - 1]]
  <2> HIDE <1>2, <1>10
  <2>1. QED BY <1>11 DEF Upto
<1> HIDE DEF Upto
<1>13. \A i \in 0..n : Upto[i] = IF i = 0 THEN base ELSE Replayed(Upto[i - 1], file[i], E)
  BY ONLY <1>12 DEF Replayed
<1>14. Upto[n] = g[n]
  <2> DEFINE S == {i \in Nat : i <= n => Upto[i] = g[i]}
  <2>1. 0 \in S BY <1>1, <1>7, <1>13 DEF Recurses
  <2>2. ASSUME NEW i \in Nat, i \in S PROVE i + 1 \in S
    <3> SUFFICES ASSUME i + 1 <= n PROVE Upto[i + 1] = g[i + 1]
      OBVIOUS
    <3> DEFINE k == i + 1
    <3>1. k \in 1..n /\ k \in 0..n /\ k # 0 /\ k - 1 = i /\ i \in 0..n /\ Upto[i] = g[i]
      BY <1>1, <2>2
    <3> HIDE DEF k
    <3>2. g[k] = Replayed(g[k - 1], file[k], E) BY <1>8, <1>9, <3>1
    <3>3. Upto[k] = Replayed(Upto[k - 1], file[k], E) BY <1>13, <3>1
    <3>4. QED BY <3>1, <3>2, <3>3 DEF k
  <2> HIDE DEF S
  <2>3. Nat \subseteq S BY <2>1, <2>2, NatSetInduction
  <2>4. QED BY <1>1, <2>3 DEF S
<1>15. Reached(ckpt, file, E, Rebuilt, n) BY <1>1, <1>9, <1>10, <1>14
<1>16. Rebuilt # None BY <1>15, NoneAssumption DEF Reached, Chains
<1>17. QED BY <1>2, <1>15, <1>16 DEF Reached, E

-----------------------------------------------------------------------------
(* The invariant.  What is in the file and what the writer has not taken   *)
(* yet are one log: only the fsync and a crash tell them apart.            *)

Log == file \o queue
N == Len(Log)
Sum == Overlaid(acked, doubt)
May == Coms(Log, N) \cup (Live \ reused)
Committing == {t \in Live : txns[t].state = "committing"}

TypeInv ==
    /\ TypeOK
    /\ txns \in [TxId -> Transaction \cup {None}]
    /\ doubt \in Seq(Writes)
    /\ syncing \in BOOLEAN

LogInv ==
    /\ WellFormed(Log, N) /\ Once(Log, N) /\ Ordered(Log, N)
    /\ phase # "replaced" => Fits(ckpt, Log, May, N)

\* once the checkpoint has been replaced, the log is only waiting to be emptied
SumInv == phase # "replaced" => Sums(ckpt, Log, synced, acked, doubt, N)

Drafted(t) ==
    /\ t < nextId
    /\ txns[t].state = "open" => t \notin Coms(Log, N)
    /\ t \notin reused => Tells(Log, N, t, txns[t].writes)

DraftInv ==
    /\ \A t \in Live : Drafted(t)
    /\ \A t, u \in Live : t # u => DOMAIN txns[t].writes \cap DOMAIN txns[u].writes = {}

IdInv ==
    /\ nextId <= begun + 1
    /\ \A i \in 1..N : Log[i].txid <= begun
    /\ phase # "down" => \A i \in 1..N : Log[i].txid < nextId \/ Log[i].txid \in reused
    /\ reused \cap Coms(Log, N) = {}

PhaseInv ==
    /\ phase # "failed"
    /\ phase # "running" => Live = {}
    /\ phase \in {"down", "recovered"} => queue = <<>> /\ ~syncing
    /\ phase = "replaced" => doubt = <<>> /\ ckpt = acked

\* the commits that are not durable are waited for, and only they
PendingInv ==
    /\ syncing => Len(file) > 0 /\ Log[Len(file)].ty = "commit"
    /\ \A p \in 1..N : Log[p].ty = "commit" /\ (p > Len(file) \/ (p = Len(file) /\ syncing))
          => Log[p].txid \in Committing

TableInv ==
    phase # "down" =>
       /\ \A k \in Key : (\A u \in Committing : k \notin DOMAIN txns[u].writes) => table[k] = Sum[k]
       /\ \A u \in Committing : \A k \in DOMAIN txns[u].writes : Sum[k] = txns[u].writes[k]

Inv == TypeInv /\ LogInv /\ SumInv /\ DraftInv /\ IdInv /\ PhaseInv /\ PendingInv /\ TableInv

(* The parts of the state are what they should be.                         *)
LEMMA StateType ==
    ASSUME TypeInv
    PROVE  /\ Len(file) \in Nat /\ Len(queue) \in Nat /\ N \in Nat /\ N = Len(file) + Len(queue)
           /\ Log \in Seq(Record) /\ Agree(file, Log, Len(file))
           /\ Sum \in Rows /\ synced \in 0..N
           /\ MaxTxn \in Nat /\ MaxWrites \in Nat /\ nextId \in Nat /\ begun \in Nat
           /\ queue = <<>> => Log = file
<1>1. file \in Seq(Record) /\ queue \in Seq(Record) BY DEF TypeInv, TypeOK
<1>2. Len(file) \in Nat /\ Len(queue) \in Nat BY <1>1, LenProperties
<1>3. /\ file \o queue \in Seq(Record) /\ Len(file \o queue) = Len(file) + Len(queue)
      /\ \A i \in 1..(Len(file) + Len(queue)) :
            (file \o queue)[i] = IF i <= Len(file) THEN file[i] ELSE queue[i - Len(file)]
  BY <1>1, ConcatProperties
<1>4. Agree(file, Log, Len(file)) BY <1>2, <1>3 DEF Agree, Log
<1>5. Sum \in Rows BY OverlaidProperties DEF Sum, TypeInv, TypeOK
<1>6. queue = <<>> => Log = file BY <1>1, ConcatEmptySeq DEF Log
<1>7. MaxTxn \in Nat /\ MaxWrites \in Nat BY BoundAssumption
<1>8. QED BY <1>2, <1>3, <1>4, <1>5, <1>6, <1>7 DEF Log, N, TypeInv, TypeOK

(* ... and so are the transactions.                                        *)
LEMMA TxnType ==
    ASSUME TypeInv
    PROVE  /\ \A t \in Live : /\ t \in TxId /\ txns[t] # None /\ txns[t] \in Transaction
                              /\ txns[t].writes \in Writes
                              /\ DOMAIN txns[t].writes \subseteq Key
                              /\ txns[t].state \in {"open", "committing"}
                              /\ txns[t].born \in 1..begun
           /\ \A t \in TxId : txns[t] = None \/ t \in Live
<1>1. \A x \in Transaction : x.writes \in Writes BY DEF Transaction
<1>2. QED BY <1>1 DEF TypeInv, TypeOK, Live

\* what a set of rows over some keys is
LEMMA WritesIs ==
    ASSUME NEW w
    PROVE  w \in Writes <=> DOMAIN w \subseteq Key /\ w \in [DOMAIN w -> 0..MaxTxn]
<1>1. ASSUME w \in Writes PROVE DOMAIN w \subseteq Key /\ w \in [DOMAIN w -> 0..MaxTxn]
  <2>1. PICK K \in SUBSET Key : w \in [K -> 0..MaxTxn] BY <1>1 DEF Writes
  <2>2. QED BY <2>1
<1>2. ASSUME DOMAIN w \subseteq Key, w \in [DOMAIN w -> 0..MaxTxn] PROVE w \in Writes
  BY <1>2 DEF Writes
<1>3. QED BY <1>1, <1>2

(* A record goes to the writer.                                            *)
LEMMA Queued ==
    ASSUME TypeInv, NEW r \in Record, queue' = Append(queue, r), file' = file
    PROVE  /\ file' \in Seq(Record) /\ queue' \in Seq(Record)
           /\ Log' = Append(Log, r)
           /\ N' = N + 1 /\ Log'[N'] = r /\ Agree(Log, Log', N)
           /\ \A i \in 1..N : Log'[i] = Log[i]
<1>1. file \in Seq(Record) /\ queue \in Seq(Record) BY DEF TypeInv, TypeOK
<1>2. Log \in Seq(Record) /\ N \in Nat BY StateType
<1>3. Log' = Append(Log, r) BY <1>1, AppendBehind DEF Log
<1>4. queue' \in Seq(Record) BY <1>1, AppendProperties
<1>5. Len(Append(Log, r)) = Len(Log) + 1 /\ Append(Log, r)[Len(Log) + 1] = r
      /\ \A i \in 1..Len(Log) : Append(Log, r)[i] = Log[i]
  BY <1>2, AppendProperties
<1>6. QED BY <1>1, <1>3, <1>4, <1>5 DEF N, Agree

-----------------------------------------------------------------------------
(* The invariant holds at the start.                                       *)
LEMMA InitInv == ASSUME Init PROVE Inv
<1> USE DEF Init
<1>1. MaxTxn \in Nat /\ MaxWrites \in Nat BY BoundAssumption
<1>2. <<>> \in Seq(Record) /\ <<>> \in Seq(Writes) /\ Len(<<>>) = 0 BY EmptySeq
<1>3. Log = <<>> /\ N = 0 BY <1>2, ConcatEmptySeq DEF Log, N
<1>4. Live = {} BY DEF Live
<1>5. Empty \in Rows BY <1>1 DEF Empty, Rows, NoRow
<1>6. TypeInv
  <2>1. file \in Seq(Record) /\ synced \in 0..Len(file) /\ queue \in Seq(Record) BY <1>2
  <2>2. nextId \in 1..(MaxTxn + 1) /\ begun \in 0..MaxTxn /\ written \in 0..MaxWrites BY <1>1
  <2>3. TypeOK BY <1>4, <1>5, <2>1, <2>2 DEF TypeOK
  <2>4. txns \in [TxId -> Transaction \cup {None}] OBVIOUS
  <2>5. QED BY <1>2, <2>3, <2>4 DEF TypeInv
<1>7. Coms(Log, 0) = {} BY DEF Coms
<1>8. LogInv BY <1>3 DEF LogInv, WellFormed, Once, Ordered, Fits
<1>9. Sum = Empty BY <1>2, <1>5, OverlaidProperties DEF Sum
<1>10. Sums(ckpt, Log, 0, Empty, <<>>, 0)
  <2>1. Cnt(Log, 0, 0) = 0
    <3>1. {i \in (0 + 1)..0 : Log[i].ty = "commit"} = {} OBVIOUS
    <3>2. QED BY <3>1, FS_EmptySet DEF Cnt
  <2>2. \A i \in 0..0 : i = 0 OBVIOUS
  <2>3. ASSUME NEW k \in Key PROVE Val(ckpt, Log, Coms(Log, 0), k, 0) = Empty[k]
    <3> DEFINE E == Coms(Log, 0)
    <3>1. Hits(Log, E, k, 0) = {} BY DEF Hits
    <3> HIDE DEF E
    <3>2. Val(ckpt, Log, E, k, 0) = ckpt[k] BY <3>1, ValIs
    <3>3. QED BY <3>2 DEF E
  <2>4. SubSeq(<<>>, 1, 0) = <<>> BY SubSeqEmpty
  <2>5. Overlaid(Empty, <<>>) = Empty BY <1>2, <1>5, OverlaidProperties
  <2>6. QED BY <1>2, <2>1, <2>2, <2>3, <2>4, <2>5 DEF Sums
<1>11. SumInv BY <1>3, <1>10 DEF SumInv
<1>12. DraftInv BY <1>4 DEF DraftInv
<1>13. IdInv BY <1>3, <1>7 DEF IdInv
<1>14. PhaseInv /\ PendingInv BY <1>3, <1>4 DEF PhaseInv, PendingInv
<1>15. TableInv BY <1>4, <1>9 DEF TableInv, Committing
<1>16. QED BY <1>6, <1>8, <1>11, <1>12, <1>13, <1>14, <1>15 DEF Inv

-----------------------------------------------------------------------------
(* Every step keeps it.  First, those that only move the process on.       *)
LEMMA MovingOnKeeps ==
    ASSUME Inv, garbage' \in Rows,
           UNCHANGED <<file, queue, synced, ckpt, syncing, table, txns, nextId, begun, written,
                       acked, doubt, reused>>,
           \/ phase' = phase
           \/ phase = "running" /\ phase' = "checked" /\ Live = {}
           \/ phase = "recovered" /\ phase' = "running"
    PROVE  Inv'
<1>1. /\ Log' = Log /\ N' = N /\ Sum' = Sum /\ May' = May /\ Live' = Live
      /\ Committing' = Committing
  BY DEF Log, N, Sum, May, Live, Committing
<1>2. TypeInv' BY DEF Inv, TypeInv, TypeOK, Live
<1>3. LogInv' BY <1>1 DEF Inv, LogInv
<1>4. SumInv' BY <1>1 DEF Inv, SumInv
<1>5. DraftInv'
  <2>1. \A t \in Live : Drafted(t)' BY <1>1 DEF Inv, DraftInv, Drafted
  <2>2. QED BY <1>1, <2>1 DEF Inv, DraftInv
<1>6. IdInv' BY <1>1 DEF Inv, IdInv
<1>7. PhaseInv' BY <1>1 DEF Inv, PhaseInv
<1>8. PendingInv' BY <1>1 DEF Inv, PendingInv
<1>9. TableInv' BY <1>1 DEF Inv, TableInv
<1>10. QED BY <1>2, <1>3, <1>4, <1>5, <1>6, <1>7, <1>8, <1>9 DEF Inv

(* Garbage collection takes what is dead.                                  *)
LEMMA GcKeeps == ASSUME Inv, Gc PROVE Inv'
<1>1. garbage \in Rows BY DEF Inv, TypeInv, TypeOK
<1>2. garbage' \in Rows
  <2>1. PICK k \in Key : garbage' = [garbage EXCEPT ![k] = NoRow] BY DEF Gc
  <2>2. NoRow \in 0..MaxTxn BY BoundAssumption DEF NoRow
  <2>3. QED BY <1>1, <2>1, <2>2 DEF Rows
<1>3. QED BY <1>2, MovingOnKeeps DEF Gc, disk, wal, bounds, history

(* The checkpoint finds no transaction open.                               *)
LEMMA StartCheckpointKeeps == ASSUME Inv, StartCheckpoint PROVE Inv'
<1>1. garbage \in Rows BY DEF Inv, TypeInv, TypeOK
<1>2. QED BY <1>1, MovingOnKeeps DEF StartCheckpoint, disk, wal, tree, bounds, history

(* Sessions may come.                                                      *)
LEMMA OpenKeeps == ASSUME Inv, Open PROVE Inv'
<1>1. garbage \in Rows BY DEF Inv, TypeInv, TypeOK
<1>2. QED BY <1>1, MovingOnKeeps DEF Open, disk, wal, tree, bounds, history

(* Nothing happens.                                                        *)
LEMMA StutterKeeps == ASSUME Inv, UNCHANGED vars PROVE Inv'
<1>1. garbage \in Rows BY DEF Inv, TypeInv, TypeOK
<1>2. QED BY <1>1, MovingOnKeeps DEF vars

(* A transaction begins: its id is new, or its records do not count.       *)
LEMMA BeginKeeps == ASSUME AllAvoided, Inv, Begin PROVE Inv'
<1> USE DEF Inv
<1>1. /\ phase = "running" /\ begun < MaxTxn
      /\ txns' = [txns EXCEPT ![nextId] = Fresh] /\ nextId' = nextId + 1 /\ begun' = begun + 1
      /\ UNCHANGED <<file, queue, synced, ckpt, syncing, phase, table, garbage, written,
                     acked, doubt, reused>>
  BY DEF Begin, AllAvoided, disk, wal, tree, history
<1>2. MaxTxn \in Nat /\ nextId \in Nat /\ begun \in Nat BY StateType
<1>3. nextId \in TxId /\ nextId # 0
  BY <1>1, <1>2 DEF IdInv, TypeInv, TypeOK, TxId
<1>4. /\ Fresh \in Transaction /\ Fresh.state = "open" /\ Fresh.writes = <<>>
      /\ Fresh.born = begun + 1 /\ Fresh # None
  <2>1. <<>> \in Writes
    <3>1. DOMAIN <<>> = {} /\ <<>> = [k \in {} |-> NoRow] OBVIOUS
    <3>2. QED BY <3>1, WritesIs
  <2>2. begun + 1 \in 1..MaxTxn BY <1>1, <1>2
  <2>3. QED BY <2>1, <2>2, NoneAssumption DEF Fresh, Transaction
<1> HIDE DEF Fresh
<1>5. nextId \notin Live
  <2>1. \A t \in Live : t < nextId BY DEF DraftInv, Drafted
  <2>2. QED BY <1>2, <2>1
<1>6. /\ txns' \in [TxId -> Transaction \cup {None}]
      /\ \A t \in TxId : t # nextId => txns'[t] = txns[t]
      /\ txns'[nextId] = Fresh
  BY <1>1, <1>3, <1>4 DEF TypeInv
<1>7. Live' = Live \cup {nextId}
  BY <1>3, <1>4, <1>6 DEF Live
<1>8. Log' = Log /\ N' = N /\ Sum' = Sum
  BY <1>1 DEF Log, N, Sum
<1>9. \A t \in Live : t # nextId /\ txns'[t] = txns[t] /\ t \in TxId
  BY <1>5, <1>6 DEF Live
<1>10. Committing' = Committing
  BY <1>4, <1>6, <1>7, <1>9 DEF Committing
<1>11. TypeInv'
  <2>1. begun' \in 0..MaxTxn /\ nextId' \in 1..(MaxTxn + 1)
    BY <1>1, <1>2, <1>3 DEF TxId
  <2>2. ASSUME NEW t \in Live'
        PROVE  /\ txns'[t].state \in {"open", "committing"}
               /\ DOMAIN txns'[t].writes \subseteq Key
               /\ txns'[t].born \in 1..begun'
    <3>1. CASE t = nextId
      <4>1. DOMAIN <<>> = {} OBVIOUS
      <4>2. begun + 1 \in 1..(begun + 1) BY <1>2
      <4>3. QED BY <1>1, <1>4, <1>6, <3>1, <4>1, <4>2
    <3>2. CASE t # nextId
      <4>1. t \in Live /\ txns'[t] = txns[t] BY <1>7, <1>9, <3>2
      <4>2. txns[t].born \in 1..begun /\ txns[t].state \in {"open", "committing"}
            /\ DOMAIN txns[t].writes \subseteq Key
        BY <4>1, TxnType
      <4>3. QED BY <1>1, <1>2, <4>1, <4>2
    <3>3. QED BY <3>1, <3>2
  <2>3. TypeOK' BY <1>1, <2>1, <2>2 DEF TypeInv, TypeOK
  <2>4. QED BY <1>1, <1>6, <2>3 DEF TypeInv
<1>12. \A i \in 1..N : Log[i].txid # nextId \/ nextId \in reused
  BY <1>1, <1>2 DEF IdInv
<1>13. nextId \notin Coms(Log, N)
  <2>1. nextId \in reused => nextId \notin Coms(Log, N) BY DEF IdInv
  <2>2. nextId \notin reused => nextId \notin Coms(Log, N) BY <1>12 DEF Coms
  <2>3. QED BY <2>1, <2>2
<1>14. LogInv'
  <2>1. ASSUME NEW t \in May', t \notin May PROVE t = nextId /\ t \notin reused
    BY <1>1, <1>7, <1>8, <2>1 DEF May
  <2>2. \A i \in 1..N : Log[i].txid \in May' => Log[i].txid \in May BY <1>12, <2>1
  <2>3. Fits(ckpt, Log, May, N) BY <1>1 DEF LogInv
  <2>4. Fits(ckpt, Log, May', N) BY <2>2, <2>3 DEF Fits
  <2>5. QED BY <1>1, <1>8, <2>4 DEF LogInv
<1>15. SumInv' BY <1>1, <1>8 DEF SumInv
<1>16. DraftInv'
  <2>1. ASSUME NEW t \in Live' PROVE Drafted(t)'
    <3>1. CASE t = nextId
      <4>1. t \notin reused => Tells(Log, N, t, <<>>)
        <5>1. DOMAIN <<>> = {} OBVIOUS
        <5>2. QED BY <1>12, <3>1, <5>1 DEF Tells
      <4>2. t < nextId' BY <1>1, <1>2, <3>1
      <4>3. QED BY <1>1, <1>4, <1>6, <1>8, <1>13, <3>1, <4>1, <4>2 DEF Drafted
    <3>2. CASE t # nextId
      <4>1. t \in Live /\ txns'[t] = txns[t] /\ t \in TxId BY <1>7, <1>9, <3>2
      <4>2. Drafted(t) BY <4>1 DEF DraftInv
      <4>3. t < nextId' BY <1>1, <1>2, <4>1, <4>2 DEF Drafted, TxId
      <4>4. QED BY <1>1, <1>8, <4>1, <4>2, <4>3 DEF Drafted
    <3>3. QED BY <3>1, <3>2
  <2>2. ASSUME NEW t \in Live', NEW u \in Live', t # u
        PROVE  DOMAIN txns'[t].writes \cap DOMAIN txns'[u].writes = {}
    <3>1. DOMAIN txns'[nextId].writes = {}
      <4>1. DOMAIN <<>> = {} OBVIOUS
      <4>2. QED BY <1>4, <1>6, <4>1
    <3>2. CASE t # nextId /\ u # nextId
      <4>1. t \in Live /\ u \in Live /\ txns'[t] = txns[t] /\ txns'[u] = txns[u]
        BY <1>7, <1>9, <3>2
      <4>2. QED BY <2>2, <4>1 DEF DraftInv
    <3>3. QED BY <3>1, <3>2
  <2>3. QED BY <2>1, <2>2 DEF DraftInv
<1>17. IdInv'
  <2>1. \A i \in 1..N : Log[i].txid \in Nat
    <3>1. \A i \in 1..N : Log[i] \in Record BY StateType, ElementOfSeq DEF N
    <3>2. QED BY <3>1 DEF Record, TxId
  <2>2. QED BY <1>1, <1>2, <1>8, <2>1 DEF IdInv
<1>18. PhaseInv' BY <1>1 DEF PhaseInv
<1>19. PendingInv' BY <1>1, <1>8, <1>10 DEF PendingInv
<1>20. TableInv'
  <2>1. \A u \in Committing : txns'[u] = txns[u] BY <1>9 DEF Committing
  <2>2. QED BY <1>1, <1>8, <1>10, <2>1 DEF TableInv
<1>21. QED BY <1>11, <1>14, <1>15, <1>16, <1>17, <1>18, <1>19, <1>20

(* The records of a log are records.                                       *)
LEMMA RecordsAre ==
    ASSUME TypeInv
    PROVE  \A i \in 1..N : /\ Log[i] \in Record /\ Log[i].txid \in TxId /\ Log[i].txid \in Nat
                           /\ Log[i].row \in 0..MaxTxn
<1>1. \A i \in 1..N : Log[i] \in Record BY StateType, ElementOfSeq DEF N
<1>2. \A r \in Record : r.txid \in TxId /\ r.txid \in Nat /\ r.row \in 0..MaxTxn
  BY DEF Record, TxId
<1>3. QED BY <1>1, <1>2

(* A row is written: the record fits, since the writer sees its own writes *)
(* on top of the committed rows, and no one else has the key.              *)
LEMMA WriteKeeps == ASSUME AllAvoided, Inv, NEW t \in TxId, NEW k \in Key, Write(t, k) PROVE Inv'
<1> USE DEF Inv
<1> DEFINE w == txns[t].writes
           v(row) == [j \in DOMAIN w \cup {k} |-> IF j = k THEN row ELSE w[j]]
<1>1. /\ Up /\ t \in Live /\ txns[t].state = "open" /\ written < MaxWrites
      /\ \A u \in Live \ {t} : k \notin DOMAIN txns[u].writes
      /\ UNCHANGED <<file, synced, ckpt, syncing, phase, table, garbage, nextId, begun,
                     acked, doubt, reused>>
      /\ written' = written + 1
  BY DEF Write, Live, disk, tree, history
<1>2. /\ w \in Writes /\ txns[t] \in Transaction /\ txns[t].born \in 1..begun /\ t \in TxId
      /\ DOMAIN w \subseteq Key
  BY <1>1, TxnType
<1>3. MaxTxn \in Nat /\ begun \in 0..MaxTxn /\ MaxWrites \in Nat /\ written \in 0..MaxWrites
  BY StateType DEF TypeInv, TypeOK
<1>4. \E ty \in Data, row \in 0..MaxTxn :
         /\ queue' = Append(queue, [ty |-> ty, txid |-> t, key |-> k, row |-> row])
         /\ txns' = [txns EXCEPT ![t].writes = v(row)]
         /\ row = NoRow <=> ty = "delete"
         /\ ty = "insert" <=> Over(table, w)[k] = NoRow
  <2>1. txns[t].born \in 0..MaxTxn /\ txns[t].born # NoRow /\ NoRow \in 0..MaxTxn
    BY <1>2, <1>3 DEF NoRow
  <2>2. "insert" \in Data /\ "update" \in Data /\ "delete" \in Data BY DEF Data
  <2>3. CASE Over(table, w)[k] = NoRow
    <3>1. /\ queue' = Append(queue, [ty |-> "insert", txid |-> t, key |-> k, row |-> txns[t].born])
          /\ txns' = [txns EXCEPT ![t].writes = v(txns[t].born)]
      BY <2>3 DEF Write
    <3>2. QED BY <2>1, <2>2, <2>3, <3>1
  <2>4. CASE Over(table, w)[k] # NoRow
    <3>1. CASE /\ queue' = Append(queue, [ty |-> "update", txid |-> t, key |-> k, row |-> txns[t].born])
               /\ txns' = [txns EXCEPT ![t].writes = v(txns[t].born)]
      BY <2>1, <2>2, <2>4, <3>1
    <3>2. CASE /\ queue' = Append(queue, [ty |-> "delete", txid |-> t, key |-> k, row |-> NoRow])
               /\ txns' = [txns EXCEPT ![t].writes = v(NoRow)]
      BY <2>1, <2>2, <2>4, <3>2
    <3>3. QED BY <2>4, <3>1, <3>2 DEF Write
  <2>5. QED BY <2>3, <2>4
<1>5. PICK ty \in Data, row \in 0..MaxTxn :
         /\ queue' = Append(queue, [ty |-> ty, txid |-> t, key |-> k, row |-> row])
         /\ txns' = [txns EXCEPT ![t].writes = v(row)]
         /\ row = NoRow <=> ty = "delete"
         /\ ty = "insert" <=> Over(table, w)[k] = NoRow
  BY <1>4
<1> DEFINE r == [ty |-> ty, txid |-> t, key |-> k, row |-> row]
           x == v(row)
           txn == [txns[t] EXCEPT !.writes = x]
<1>6. r \in Record BY DEF Record
<1>7. r.ty = ty /\ r.txid = t /\ r.key = k /\ r.row = row OBVIOUS
<1>8. queue' = Append(queue, r) BY <1>5
<1> HIDE DEF r
<1>9. /\ queue' \in Seq(Record)
      /\ N' = N + 1 /\ Log'[N'] = r /\ Agree(Log, Log', N)
      /\ \A i \in 1..N : Log'[i] = Log[i]
  BY <1>1, <1>6, <1>8, Queued
<1>10. /\ DOMAIN x = DOMAIN w \cup {k} /\ x[k] = row /\ \A j \in DOMAIN w \ {k} : x[j] = w[j]
       /\ x \in Writes
  <2>1. DOMAIN x = DOMAIN w \cup {k} /\ x[k] = row /\ \A j \in DOMAIN w \ {k} : x[j] = w[j]
    OBVIOUS
  <2>2. w \in [DOMAIN w -> 0..MaxTxn] BY <1>2, WritesIs
  <2>3. x \in [DOMAIN w \cup {k} -> 0..MaxTxn] BY <2>2
  <2>4. DOMAIN x \subseteq Key /\ x \in [DOMAIN x -> 0..MaxTxn] BY <1>2, <2>1, <2>3
  <2> HIDE DEF x
  <2>5. QED BY <2>1, <2>4, WritesIs
<1>11. txns' = [txns EXCEPT ![t] = txn] BY <1>5
<1>12. /\ txn \in Transaction /\ txn.state = "open" /\ txn.born = txns[t].born /\ txn.writes = x
  <2> HIDE DEF x
  <2>1. QED BY <1>1, <1>2, <1>10 DEF Transaction
<1> HIDE DEF x, txn
<1>13. /\ txns' \in [TxId -> Transaction \cup {None}]
       /\ txns'[t] = txn /\ \A u \in TxId : u # t => txns'[u] = txns[u]
  BY <1>11, <1>12 DEF TypeInv
<1>14. txn # None BY <1>12, NoneAssumption
<1>15. Live' = Live BY <1>1, <1>13, <1>14 DEF Live
<1>16. Committing' = Committing /\ \A u \in Committing : u # t /\ txns'[u] = txns[u]
  <2>1. \A u \in Live : u \in TxId BY DEF Live
  <2>2. QED BY <1>1, <1>12, <1>13, <1>15, <2>1 DEF Committing
<1>17. Sum' = Sum BY <1>1 DEF Sum
<1>18. N \in Nat /\ synced \in 0..N BY StateType
<1>19. t < nextId /\ t \notin Coms(Log, N) /\ (t \notin reused => Tells(Log, N, t, w))
  BY <1>1 DEF DraftInv, Drafted
<1>20. phase = "running" BY <1>1 DEF PhaseInv
<1> DEFINE m == N'
           M == Log'
<1> HIDE DEF m, M
<1>21. m = N + 1 /\ Agree(Log, M, N) /\ M[m] = r /\ \A i \in 1..N : M[i] = Log[i]
  BY <1>9 DEF m, M
<1>22. \A i : i \in 1..m <=> i \in 1..N \/ i = m BY <1>18, <1>21
<1>23. M[m].ty = ty /\ M[m].txid = t /\ M[m].key = k /\ M[m].row = row /\ M[m].ty \in Data
  BY <1>7, <1>21
<1>24. Coms(M, m) = Coms(Log, N) BY <1>18, <1>21, <1>23, WriteAppended
<1>25. May' = May BY <1>1, <1>15, <1>24 DEF May, m, M
<1>26. TypeInv'
  <2>1. ASSUME NEW u \in Live'
        PROVE  /\ txns'[u].state \in {"open", "committing"}
               /\ DOMAIN txns'[u].writes \subseteq Key
               /\ txns'[u].born \in 1..begun'
    <3>1. CASE u = t
      <4>1. DOMAIN x \subseteq Key BY <1>2, <1>10
      <4>2. QED BY <1>1, <1>2, <1>12, <1>13, <3>1, <4>1
    <3>2. CASE u # t
      <4>1. u \in Live /\ txns'[u] = txns[u] BY <1>13, <1>15, <3>2 DEF Live
      <4>2. QED BY <1>1, <4>1, TxnType
    <3>3. QED BY <3>1, <3>2
  <2>2. written' \in 0..MaxWrites BY <1>1, <1>3
  <2>3. TypeOK' BY <1>1, <1>9, <2>1, <2>2 DEF TypeInv, TypeOK
  <2>4. QED BY <1>1, <1>13, <2>3 DEF TypeInv
<1>27. LogInv'
  <2>1. Once(Log, N) /\ Ordered(Log, N) /\ WellFormed(Log, N) /\ Fits(ckpt, Log, May, N)
    BY <1>20 DEF LogInv
  <2>2. WellFormed(M, m)
    <3>1. WellFormed(M, N) BY <1>18, <1>21, <2>1, SameLog
    <3>2. QED BY <1>5, <1>22, <1>23, <3>1 DEF WellFormed
  <2>3. Once(M, m) /\ Ordered(M, m) BY <1>18, <1>21, <1>23, <2>1, WriteAppended
  <2>4. ASSUME t \in May
        PROVE  ty = "insert" <=> Val(ckpt, Log, Coms(Log, N) \cup {t}, k, N) = NoRow
    <3>1. t \notin reused BY <1>19, <2>4 DEF May
    <3>2. Val(ckpt, Log, Coms(Log, N) \cup {t}, k, N) =
             IF k \in DOMAIN w THEN w[k] ELSE Val(ckpt, Log, Coms(Log, N), k, N)
      <4> DEFINE E == Coms(Log, N)
      <4> HIDE DEF E, w
      <4>1. Tells(Log, N, t, w) BY <1>19, <3>1
      <4>2. Val(ckpt, Log, E \cup {t}, k, N) = IF k \in DOMAIN w THEN w[k] ELSE Val(ckpt, Log, E, k, N)
        BY ONLY <1>18, <4>1, DraftDecides
      <4>3. QED BY <4>2 DEF E
    <3>3. Val(ckpt, Log, Coms(Log, N), k, N) = Sum[k]
      <4>1. Sums(ckpt, Log, synced, acked, doubt, N) BY <1>20 DEF SumInv
      <4>2. N \in synced..N BY <1>18
      <4>3. /\ Len(doubt) = Cnt(Log, synced, N)
            /\ Val(ckpt, Log, Coms(Log, N), k, N) =
                  Overlaid(acked, SubSeq(doubt, 1, Cnt(Log, synced, N)))[k]
        BY <4>1, <4>2 DEF Sums
      <4>4. SubSeq(doubt, 1, Len(doubt)) = doubt BY SubSeqFull DEF TypeInv
      <4>5. QED BY <4>3, <4>4 DEF Sum
    <3>4. k \notin DOMAIN w => table[k] = Sum[k]
      <4>1. \A u \in Committing : k \notin DOMAIN txns[u].writes BY <1>1, <1>16 DEF Committing
      <4>2. QED BY <1>20, <4>1 DEF TableInv
    <3>5. Over(table, w)[k] = IF k \in DOMAIN w THEN w[k] ELSE table[k] BY DEF Over
    <3>6. QED BY <1>5, <3>2, <3>3, <3>4, <3>5
  <2>5. Fits(ckpt, M, May, m)
    <3> DEFINE T == May
    <3>1. t \in T => (ty = "insert" <=> Val(ckpt, Log, Coms(Log, N) \cup {t}, k, N) = NoRow)
      BY <2>4
    <3> HIDE DEF T
    <3>2. M[m].txid \in T =>
             (M[m].ty = "insert" <=>
                Val(ckpt, Log, Coms(Log, N) \cup {M[m].txid}, M[m].key, N) = NoRow)
      BY <1>23, <3>1
    <3>3. Fits(ckpt, Log, T, N) BY <2>1 DEF T
    <3>4. Fits(ckpt, M, T, m) BY <1>18, <1>21, <1>23, <3>2, <3>3, WriteAppended
    <3>5. QED BY <3>4 DEF T
  <2>6. QED BY <1>1, <1>25, <2>2, <2>3, <2>5 DEF LogInv, m, M
<1>28. SumInv'
  <2>1. Sums(ckpt, Log, synced, acked, doubt, N) BY <1>20 DEF SumInv
  <2>2. M[m].txid \notin Coms(Log, N) BY <1>19, <1>23
  <2>3. Sums(ckpt, M, synced, acked, doubt, m)
    BY <1>18, <1>21, <1>23, <2>1, <2>2, WriteAppended
  <2>4. QED BY <1>1, <2>3 DEF SumInv, m, M
<1>29. DraftInv'
  <2>1. ASSUME NEW u \in Live PROVE Drafted(u)'
    <3>1. CASE u = t
      <4>1. t \notin reused => Tells(M, m, t, x)
        <5>1. /\ M[m].txid = t /\ DOMAIN x = DOMAIN w \cup {M[m].key} /\ x[M[m].key] = M[m].row
              /\ \A j \in DOMAIN w \ {M[m].key} : x[j] = w[j]
          BY <1>10, <1>23
        <5> HIDE DEF w
        <5>2. QED BY <1>18, <1>19, <1>21, <1>23, <5>1, WriteTells
      <4>2. QED BY <1>1, <1>12, <1>13, <1>19, <1>24, <3>1, <4>1 DEF Drafted, m, M
    <3>2. CASE u # t
      <4>1. u \in Live /\ txns'[u] = txns[u] /\ Drafted(u)
        BY <1>13, <3>2 DEF Live, DraftInv
      <4>2. u \notin reused => Tells(M, m, u, txns[u].writes)
        <5> DEFINE y == txns[u].writes
        <5>1. k \notin DOMAIN y /\ (u \notin reused => Tells(Log, N, u, y))
          BY <1>1, <3>2, <4>1 DEF Drafted
        <5>2. M[m].txid # u /\ M[m].key \notin DOMAIN y BY <1>23, <3>2, <5>1
        <5> HIDE DEF y
        <5>3. u \notin reused => Tells(M, m, u, y)
          BY <1>18, <1>21, <1>23, <5>1, <5>2, WriteTells
        <5>4. QED BY <5>3 DEF y
      <4>3. QED BY <1>1, <1>24, <4>1, <4>2 DEF Drafted, m, M
    <3>3. QED BY <3>1, <3>2
  <2>2. ASSUME NEW u \in Live, NEW z \in Live, u # z
        PROVE  DOMAIN txns'[u].writes \cap DOMAIN txns'[z].writes = {}
    <3>1. \A y \in Live \ {t} : DOMAIN txns'[y].writes = DOMAIN txns[y].writes
      BY <1>13 DEF Live
    <3>2. DOMAIN txns'[t].writes = DOMAIN w \cup {k} BY <1>10, <1>12, <1>13
    <3>3. \A y \in Live \ {t} : (DOMAIN w \cup {k}) \cap DOMAIN txns[y].writes = {}
      BY <1>1 DEF DraftInv
    <3>4. CASE u # t /\ z # t BY <2>2, <3>1, <3>4 DEF DraftInv
    <3>5. CASE u = t BY <2>2, <3>1, <3>2, <3>3, <3>5
    <3>6. CASE z = t BY <2>2, <3>1, <3>2, <3>3, <3>6
    <3>7. QED BY <3>4, <3>5, <3>6
  <2>3. QED BY <1>15, <2>1, <2>2 DEF DraftInv
<1>30. IdInv'
  <2>1. t <= begun
    <3>1. nextId \in Nat /\ begun \in Nat /\ t \in Nat BY StateType DEF TxId
    <3>2. QED BY <1>19, <3>1 DEF IdInv
  <2>2. \A i \in 1..m : M[i].txid <= begun /\ (M[i].txid < nextId \/ M[i].txid \in reused)
    BY <1>19, <1>20, <1>21, <1>22, <1>23, <2>1 DEF IdInv
  <2>3. QED BY <1>1, <1>24, <2>2 DEF IdInv, m, M
<1>31. PhaseInv' BY <1>1, <1>20 DEF PhaseInv
<1>32. PendingInv'
  <2>1. Len(file) \in Nat /\ N = Len(file) + Len(queue) /\ Len(queue) \in Nat BY StateType
  <2>2. M[m].ty # "commit" BY <1>23 DEF Data
  <2>3. syncing => M[Len(file)] = Log[Len(file)] BY <1>21, <2>1 DEF PendingInv
  <2>4. \A p \in 1..m : M[p].ty = "commit" => p \in 1..N /\ M[p] = Log[p] BY <1>21, <1>22, <2>2
  <2>5. QED BY <1>1, <1>16, <2>3, <2>4 DEF PendingInv, m, M
<1>33. TableInv'
  BY <1>1, <1>16, <1>17 DEF TableInv
<1>34. QED BY <1>26, <1>27, <1>28, <1>29, <1>30, <1>31, <1>32, <1>33

(* The statement count stays in its bound.                                 *)
LEMMA CountedType ==
    ASSUME TypeInv, NEW t \in TxId, CountEmpty(t)
    PROVE  written' \in 0..MaxWrites
<1>1. MaxWrites \in Nat /\ written \in 0..MaxWrites BY StateType DEF TypeInv, TypeOK
<1>2. CASE HasWritten(t) BY <1>1, <1>2 DEF CountEmpty
<1>3. CASE ~HasWritten(t) BY <1>1, <1>3 DEF CountEmpty
<1>4. QED BY <1>2, <1>3

(* A commit is requested: its rows will be on top of all others.           *)
LEMMA RequestCommitKeeps ==
    ASSUME AllAvoided, Inv, NEW t \in TxId, RequestCommit(t) PROVE Inv'
<1> USE DEF Inv
<1> DEFINE w == txns[t].writes
           r == Ending("commit", t)
           txn == [txns[t] EXCEPT !.state = "committing"]
<1>1. /\ Up /\ t \in Live /\ txns[t].state = "open" /\ t \notin reused
      /\ CountEmpty(t)
      /\ queue' = Append(queue, r)
      /\ txns' = [txns EXCEPT ![t] = txn]
      /\ doubt' = Append(doubt, w)
      /\ UNCHANGED <<file, synced, ckpt, syncing, phase, table, garbage, nextId, begun,
                     acked, reused>>
  BY DEF RequestCommit, Live, disk, tree, AllAvoided
<1>2. /\ w \in Writes /\ txns[t] \in Transaction /\ txns[t].born \in 1..begun
      /\ DOMAIN w \subseteq Key
  BY <1>1, TxnType
<1>3. MaxTxn \in Nat /\ N \in Nat /\ synced \in 0..N BY StateType
<1>4. r \in Record /\ r.ty = "commit" /\ r.txid = t
  BY <1>3 DEF Ending, Record, NoRow
<1> HIDE DEF r
<1>5. /\ queue' \in Seq(Record)
      /\ N' = N + 1 /\ Log'[N'] = r /\ Agree(Log, Log', N)
      /\ \A i \in 1..N : Log'[i] = Log[i]
  BY <1>1, <1>4, Queued
<1>6. txn \in Transaction /\ txn.state = "committing" /\ txn.born = txns[t].born /\ txn.writes = w
  BY <1>2 DEF Transaction
<1> HIDE DEF txn
<1>7. /\ txns' \in [TxId -> Transaction \cup {None}]
      /\ txns'[t] = txn /\ \A u \in TxId : u # t => txns'[u] = txns[u]
  BY <1>1, <1>6 DEF TypeInv
<1>8. txn # None BY <1>6, NoneAssumption
<1>9. Live' = Live /\ \A u \in Live : u \in TxId /\ txns'[u].writes = txns[u].writes
  BY <1>1, <1>6, <1>7, <1>8 DEF Live
<1>10. Committing' = Committing \cup {t} /\ t \notin Committing
  BY <1>1, <1>6, <1>7, <1>9 DEF Committing
<1>11. phase = "running" BY <1>1 DEF PhaseInv
<1>12. t < nextId /\ t \notin Coms(Log, N) /\ Tells(Log, N, t, w)
  BY <1>1 DEF DraftInv, Drafted
<1> DEFINE m == N'
           M == Log'
<1> HIDE DEF m, M
<1>13. /\ m = N + 1 /\ Agree(Log, M, N) /\ M[m] = r /\ \A i \in 1..N : M[i] = Log[i]
       /\ M[m].ty = "commit" /\ M[m].txid = t /\ M[m].ty \notin Data
  BY <1>4, <1>5 DEF m, M, Data
<1>14. \A i : i \in 1..m <=> i \in 1..N \/ i = m BY <1>3, <1>13
<1> HIDE DEF w
<1>15. acked \in Rows /\ doubt \in Seq(Writes) /\ Sum \in Rows
  BY StateType DEF TypeInv, TypeOK
<1>16. Coms(M, m) = Coms(Log, N) \cup {t}
  BY <1>3, <1>13, ComsAppended
<1>17. May' = May BY <1>1, <1>9, <1>16 DEF May, m, M
<1>18. Sum' = Over(Sum, w) BY <1>1, <1>2, <1>15, OverlaidProperties DEF Sum
<1>19. TypeInv'
  <2>1. ASSUME NEW u \in Live'
        PROVE  /\ txns'[u].state \in {"open", "committing"}
               /\ DOMAIN txns'[u].writes \subseteq Key
               /\ txns'[u].born \in 1..begun'
    <3>1. CASE u = t BY <1>1, <1>2, <1>6, <1>7, <3>1
    <3>2. CASE u # t
      <4>1. u \in Live /\ txns'[u] = txns[u] BY <1>7, <1>9, <3>2
      <4>2. QED BY <1>1, <4>1, TxnType
    <3>3. QED BY <3>1, <3>2
  <2>2. written' \in 0..MaxWrites BY <1>1, CountedType
  <2>3. TypeOK' BY <1>1, <1>5, <2>1, <2>2 DEF TypeInv, TypeOK
  <2>4. doubt' \in Seq(Writes) BY <1>1, <1>2, <1>15, AppendProperties
  <2>5. QED BY <1>1, <1>7, <2>3, <2>4 DEF TypeInv
<1>20. LogInv'
  <2>1. Once(Log, N) /\ Ordered(Log, N) /\ WellFormed(Log, N) /\ Fits(ckpt, Log, May, N)
    BY <1>11 DEF LogInv
  <2>2. WellFormed(M, m)
    <3>1. WellFormed(M, N) BY <1>3, <1>13, <2>1, SameLog
    <3>2. QED BY <1>13, <1>14, <3>1 DEF WellFormed
  <2> DEFINE T == May
  <2>3. Fits(ckpt, Log, T, N) BY <2>1
  <2> HIDE DEF T
  <2>4. Once(M, m) /\ Ordered(M, m) BY <1>3, <1>12, <1>13, <2>1, CommitAppended
  <2>5. Fits(ckpt, M, T, m) BY <1>3, <1>13, <2>3, EndFits
  <2>6. QED BY <1>1, <1>17, <2>2, <2>4, <2>5 DEF LogInv, m, M, T
<1>21. SumInv'
  <2>1. Sums(ckpt, Log, synced, acked, doubt, N) BY <1>11 DEF SumInv
  <2>2. Sums(ckpt, M, synced, acked, Append(doubt, w), m)
    BY <1>2, <1>3, <1>12, <1>13, <1>15, <2>1, CommitSums
  <2>3. QED BY <1>1, <2>2 DEF SumInv, m, M
<1>22. DraftInv'
  <2>1. ASSUME NEW u \in Live PROVE Drafted(u)'
    <3>1. Drafted(u) BY DEF DraftInv
    <3>2. u \notin reused => Tells(M, m, u, txns[u].writes)
      <4> DEFINE y == txns[u].writes
      <4>1. u \notin reused => Tells(Log, N, u, y) BY <3>1 DEF Drafted
      <4> HIDE DEF y
      <4>2. M[m].ty # "abort" BY <1>13
      <4>3. u \notin reused => Tells(M, m, u, y) BY <1>3, <1>13, <4>1, <4>2, EndTells
      <4>4. QED BY <4>3 DEF y
    <3>3. txns'[u].state = "open" => u # t /\ txns[u].state = "open"
      <4>1. u = t => txns'[u].state = "committing" BY <1>6, <1>7
      <4>2. u # t => txns'[u] = txns[u] BY <1>7, <1>9
      <4>3. QED BY <4>1, <4>2
    <3>4. txns'[u].state = "open" => u \notin Coms(M, m) BY <1>16, <3>1, <3>3 DEF Drafted
    <3>5. txns'[u].writes = txns[u].writes BY <1>9
    <3>6. QED BY <1>1, <3>1, <3>2, <3>4, <3>5 DEF Drafted, m, M
  <2>2. QED BY <1>9, <2>1 DEF DraftInv
<1>23. IdInv'
  <2>1. t <= begun
    <3>1. nextId \in Nat /\ begun \in Nat /\ t \in Nat BY StateType DEF TxId
    <3>2. QED BY <1>12, <3>1 DEF IdInv
  <2>2. \A i \in 1..m : M[i].txid <= begun /\ (M[i].txid < nextId \/ M[i].txid \in reused)
    BY <1>11, <1>12, <1>13, <1>14, <2>1 DEF IdInv
  <2>3. reused \cap Coms(M, m) = {} BY <1>1, <1>16 DEF IdInv
  <2>4. QED BY <1>1, <2>2, <2>3 DEF IdInv, m, M
<1>24. PhaseInv' BY <1>1, <1>11 DEF PhaseInv
<1>25. PendingInv'
  <2>1. Len(file) \in Nat /\ N = Len(file) + Len(queue) /\ Len(queue) \in Nat BY StateType
  <2>2. syncing => M[Len(file)] = Log[Len(file)] BY <1>13, <2>1 DEF PendingInv
  <2>3. ASSUME NEW p \in 1..m, M[p].ty = "commit", p > Len(file) \/ (p = Len(file) /\ syncing)
        PROVE  M[p].txid \in Committing \cup {t}
    <3>1. CASE p = m BY <1>13, <3>1
    <3>2. CASE p # m
      <4>1. p \in 1..N /\ M[p] = Log[p] BY <1>13, <1>14, <3>2
      <4>2. QED BY <2>3, <4>1 DEF PendingInv
    <3>3. QED BY <3>1, <3>2
  <2>4. QED BY <1>1, <1>10, <2>2, <2>3 DEF PendingInv, m, M
<1>26. TableInv'
  <2>1. \A j \in Key : Sum'[j] = IF j \in DOMAIN w THEN w[j] ELSE Sum[j] BY <1>18 DEF Over
  <2>2. txns'[t].writes = w BY <1>6, <1>7
  <2>3. ASSUME NEW j \in Key, \A u \in Committing' : j \notin DOMAIN txns'[u].writes
        PROVE  table[j] = Sum'[j]
    <3>1. j \notin DOMAIN w BY <1>10, <2>2, <2>3
    <3>2. \A u \in Committing : j \notin DOMAIN txns[u].writes
      BY <1>9, <1>10, <2>3 DEF Committing
    <3>3. table[j] = Sum[j] BY <1>11, <3>2 DEF TableInv
    <3>4. QED BY <2>1, <3>1, <3>3
  <2>4. ASSUME NEW u \in Committing', NEW j \in DOMAIN txns'[u].writes
        PROVE  Sum'[j] = txns'[u].writes[j]
    <3>1. CASE u = t
      <4>1. j \in DOMAIN w /\ j \in Key BY <1>2, <2>2, <2>4, <3>1 DEF w
      <4>2. QED BY <2>1, <2>2, <3>1, <4>1
    <3>2. CASE u # t
      <4>1. u \in Committing /\ u \in Live /\ txns'[u].writes = txns[u].writes
        BY <1>9, <1>10, <3>2 DEF Committing
      <4>2. j \notin DOMAIN w BY <1>1, <2>4, <3>2, <4>1 DEF DraftInv, w
      <4>3. j \in Key BY <2>4, <4>1, TxnType
      <4>4. Sum[j] = txns[u].writes[j] BY <1>11, <2>4, <4>1 DEF TableInv
      <4>5. QED BY <2>1, <4>1, <4>2, <4>3, <4>4
    <3>3. QED BY <3>1, <3>2
  <2>5. QED BY <1>1, <2>3, <2>4 DEF TableInv
<1>27. QED BY <1>19, <1>20, <1>21, <1>22, <1>23, <1>24, <1>25, <1>26

(* A transaction is aborted, or ends having only read.                     *)
LEMMA AbortKeeps ==
    ASSUME AllAvoided, Inv, NEW t \in TxId, Abort(t) PROVE Inv'
<1> USE DEF Inv
<1> DEFINE r == Ending("abort", t)
<1>1. /\ Up /\ t \in Live /\ txns[t].state = "open"
      /\ \/ CountEmpty(t) /\ queue' = Append(queue, r)
         \/ UNCHANGED <<queue, written>>
      /\ txns' = [txns EXCEPT ![t] = None]
      /\ UNCHANGED <<file, synced, ckpt, syncing, phase, table, nextId, begun, acked, doubt, reused>>
  BY DEF Abort, Live, disk, history, AllAvoided
<1>2. MaxTxn \in Nat /\ N \in Nat /\ synced \in 0..N BY StateType
<1>3. r \in Record /\ r.ty = "abort" /\ r.txid = t
  BY <1>2 DEF Ending, Record, NoRow
<1> HIDE DEF r
<1>4. /\ txns' \in [TxId -> Transaction \cup {None}]
      /\ txns'[t] = None /\ \A u \in TxId : u # t => txns'[u] = txns[u]
  BY <1>1 DEF TypeInv
<1>5. Live' = Live \ {t} /\ \A u \in Live' : u \in Live /\ u \in TxId /\ txns'[u] = txns[u]
  BY <1>1, <1>4 DEF Live
<1>6. Committing' = Committing /\ t \notin Committing /\ \A u \in Committing : txns'[u] = txns[u]
  BY <1>1, <1>4, <1>5 DEF Committing
<1>7. phase = "running" BY <1>1 DEF PhaseInv
<1>8. t < nextId /\ t \notin Coms(Log, N) BY <1>1 DEF DraftInv, Drafted
<1>9. Sum' = Sum BY <1>1 DEF Sum
<1>10. garbage' \in Rows
  <2>1. garbage \in Rows /\ txns[t].writes \in Writes BY <1>1, TxnType DEF TypeInv, TypeOK
  <2>2. txns[t].writes \in [DOMAIN txns[t].writes -> 0..MaxTxn] BY <2>1, WritesIs
  <2>3. garbage' = [k \in Key |->
          IF k \in DOMAIN txns[t].writes /\ table[k] = NoRow /\ txns[t].writes[k] # NoRow
          THEN txns[t].writes[k] ELSE garbage[k]]
    BY DEF Abort
  <2>4. QED BY <2>1, <2>2, <2>3 DEF Rows
<1> DEFINE m == N'
           M == Log'
           T == May
           U == Coms(Log, N) \cup (Live' \ reused)
<1>11. U \subseteq T BY <1>5 DEF May
<1>12. Once(Log, N) /\ Ordered(Log, N) /\ WellFormed(Log, N) /\ Fits(ckpt, Log, T, N)
  BY <1>7 DEF LogInv
<1>13. Sums(ckpt, Log, synced, acked, doubt, N) BY <1>7 DEF SumInv
<1> HIDE DEF m, M, T, U
<1>14. /\ queue' \in Seq(Record) /\ written' \in 0..MaxWrites
       /\ Coms(M, m) = Coms(Log, N)
       /\ WellFormed(M, m) /\ Once(M, m) /\ Ordered(M, m) /\ Fits(ckpt, M, U, m)
       /\ Sums(ckpt, M, synced, acked, doubt, m)
       /\ \A i \in 1..N : M[i] = Log[i]
       /\ \A i \in 1..m : i \in 1..N \/ (M[i].txid = t /\ M[i].ty = "abort")
       /\ \A u, y : u # t /\ Tells(Log, N, u, y) => Tells(M, m, u, y)
  <2>1. CASE UNCHANGED <<queue, written>>
    <3>1. M = Log /\ m = N BY <1>1, <2>1 DEF M, m, Log, N
    <3>2. N \in 0..N BY <1>2
    <3>3. Fits(ckpt, Log, U, N) BY <1>2, <1>11, <1>12, <3>2, CutLog
    <3>4. QED BY <1>12, <1>13, <2>1, <3>1, <3>3 DEF TypeInv, TypeOK
  <2>2. CASE CountEmpty(t) /\ queue' = Append(queue, r)
    <3>1. /\ queue' \in Seq(Record)
          /\ m = N + 1 /\ M[m] = r /\ Agree(Log, M, N)
          /\ \A i \in 1..N : M[i] = Log[i]
      BY <1>1, <1>3, <2>2, Queued DEF m, M
    <3>2. written' \in 0..MaxWrites BY <2>2, CountedType
    <3>3. M[m].ty = "abort" /\ M[m].txid = t /\ M[m].ty \notin Data BY <1>3, <3>1 DEF Data
    <3>4. \A i : i \in 1..m <=> i \in 1..N \/ i = m BY <1>2, <3>1
    <3>5. WellFormed(M, m)
      <4>1. WellFormed(M, N) BY <1>2, <1>12, <3>1, SameLog
      <4>2. QED BY <3>3, <3>4, <4>1 DEF WellFormed
    <3>6. Coms(M, m) = Coms(Log, N) BY <1>2, <3>1, <3>3, ComsAppended
    <3>7. Once(M, m) /\ Ordered(M, m) BY <1>2, <1>8, <1>12, <3>1, <3>3, AbortAppended
    <3>8. Fits(ckpt, M, U, m) BY <1>2, <1>11, <1>12, <3>1, <3>3, EndFits
    <3>9. Sums(ckpt, M, synced, acked, doubt, m)
      BY <1>2, <1>13, <3>1, <3>3, AbortAppended
    <3>10. ASSUME NEW u, NEW y, u # t, Tells(Log, N, u, y) PROVE Tells(M, m, u, y)
      BY <1>2, <3>1, <3>3, <3>10, EndTells
    <3>11. QED BY <3>1, <3>2, <3>3, <3>4, <3>5, <3>6, <3>7, <3>8, <3>9, <3>10
  <2>3. QED BY <1>1, <2>1, <2>2
<1>15. May' = U BY <1>1, <1>14 DEF May, U, m, M
<1>16. TypeInv'
  <2>1. \A u \in Live' : /\ txns'[u].state \in {"open", "committing"}
                         /\ DOMAIN txns'[u].writes \subseteq Key
                         /\ txns'[u].born \in 1..begun'
    BY <1>1, <1>5, TxnType
  <2>2. TypeOK' BY <1>1, <1>10, <1>14, <2>1 DEF TypeInv, TypeOK
  <2>3. QED BY <1>1, <1>4, <2>2 DEF TypeInv
<1>17. LogInv' BY <1>1, <1>14, <1>15 DEF LogInv, m, M
<1>18. SumInv' BY <1>1, <1>14 DEF SumInv, m, M
<1>19. DraftInv'
  <2>1. ASSUME NEW u \in Live' PROVE Drafted(u)'
    <3>1. u \in Live /\ u # t /\ txns'[u] = txns[u] /\ Drafted(u) BY <1>5 DEF DraftInv
    <3>2. u \notin reused => Tells(M, m, u, txns[u].writes) BY <1>14, <3>1 DEF Drafted
    <3>3. QED BY <1>1, <1>14, <3>1, <3>2 DEF Drafted, m, M
  <2>2. \A u, z \in Live' : u # z => DOMAIN txns'[u].writes \cap DOMAIN txns'[z].writes = {}
    BY <1>5 DEF DraftInv
  <2>3. QED BY <2>1, <2>2 DEF DraftInv
<1>20. IdInv'
  <2>1. t <= begun
    <3>1. nextId \in Nat /\ begun \in Nat /\ t \in Nat BY StateType DEF TxId
    <3>2. QED BY <1>8, <3>1 DEF IdInv
  <2>2. \A i \in 1..m : M[i].txid <= begun /\ (M[i].txid < nextId \/ M[i].txid \in reused)
    BY <1>7, <1>8, <1>14, <2>1 DEF IdInv
  <2>3. QED BY <1>1, <1>14, <2>2 DEF IdInv, m, M
<1>21. PhaseInv' BY <1>1, <1>7 DEF PhaseInv
<1>22. PendingInv'
  <2>1. Len(file) \in Nat /\ N = Len(file) + Len(queue) /\ Len(queue) \in Nat BY StateType
  <2>2. syncing => M[Len(file)] = Log[Len(file)] BY <1>14, <2>1 DEF PendingInv
  <2>3. \A p \in 1..m : M[p].ty = "commit" => p \in 1..N /\ M[p] = Log[p] BY <1>14
  <2>4. QED BY <1>1, <1>6, <2>2, <2>3 DEF PendingInv, m, M
<1>23. TableInv' BY <1>1, <1>6, <1>9 DEF TableInv
<1>24. QED BY <1>16, <1>17, <1>18, <1>19, <1>20, <1>21, <1>22, <1>23

-----------------------------------------------------------------------------
(* The writer.  What it takes off the queue stays in the log.              *)
LEMMA WriterWritesKeeps == ASSUME AllAvoided, Inv, WriterWrites PROVE Inv'
<1> USE DEF Inv
<1> DEFINE h == Head(queue)
<1>1. /\ Up /\ queue # <<>> /\ ~syncing
      /\ file' = Append(file, h) /\ queue' = Tail(queue) /\ syncing' = (h.ty = "commit")
      /\ UNCHANGED <<synced, ckpt, phase, table, garbage, txns, nextId, begun, written,
                     acked, doubt, reused>>
  BY DEF WriterWrites, tree, bounds, history, AllAvoided
<1>2. file \in Seq(Record) /\ queue \in Seq(Record) /\ synced \in 0..Len(file)
  BY DEF TypeInv, TypeOK
<1>3. h \in Record /\ queue' \in Seq(Record) /\ file' \o queue' = file \o queue
  BY <1>1, <1>2, HeadToTail
<1>4. Len(file) \in Nat /\ Len(queue) \in Nat /\ N = Len(file) + Len(queue) /\ Len(queue) # 0
  BY <1>1, <1>2, StateType, EmptySeq
<1>5. file' \in Seq(Record) /\ Len(file') = Len(file) + 1 BY <1>1, <1>2, <1>3, AppendProperties
<1>6. Log[Len(file)+ 1] = h
  <2> DEFINE i == Len(file) + 1
  <2>1. i \in 1..(Len(file) + Len(queue)) /\ ~(i <= Len(file)) /\ i - Len(file) = 1
    BY <1>4
  <2> HIDE DEF i
  <2>2. Log[i] = queue[1] BY <1>2, <2>1, ConcatProperties DEF Log
  <2>3. QED BY <2>2 DEF i
<1> HIDE DEF h
<1>7. /\ Log' = Log /\ N' = N /\ Sum' = Sum /\ May' = May /\ Live' = Live
      /\ Committing' = Committing
  BY <1>1, <1>3 DEF Log, N, Sum, May, Live, Committing
<1>8. TypeInv'
  <2>1. synced' \in 0..Len(file') BY <1>1, <1>2, <1>4, <1>5
  <2>2. TypeOK' BY <1>1, <1>3, <1>5, <1>7, <2>1 DEF TypeInv, TypeOK
  <2>3. syncing' \in BOOLEAN BY <1>1
  <2>4. QED BY <1>1, <2>2, <2>3 DEF TypeInv
<1>9. LogInv' BY <1>1, <1>7 DEF LogInv
<1>10. SumInv' BY <1>1, <1>7 DEF SumInv
<1>11. DraftInv'
  <2>1. \A t \in Live : Drafted(t)' BY <1>1, <1>7 DEF DraftInv, Drafted
  <2>2. QED BY <1>1, <1>7, <2>1 DEF DraftInv
<1>12. IdInv' BY <1>1, <1>7 DEF IdInv
<1>13. PhaseInv'
  <2>1. phase \notin {"down", "recovered"} BY <1>1 DEF Up
  <2>2. QED BY <1>1, <1>7, <2>1 DEF PhaseInv
<1>14. PendingInv'
  <2>1. syncing' => Len(file') > 0 /\ Log[Len(file')].ty = "commit"
    <3>1. syncing' => h.ty = "commit" BY <1>1, Zenon
    <3>2. Len(file') > 0 /\ Log[Len(file')] = h BY <1>4, <1>5, <1>6
    <3>3. QED BY <3>1, <3>2
  <2>2. \A p \in 1..N : p > Len(file') \/ (p = Len(file') /\ syncing') => p > Len(file)
    BY <1>4, <1>5
  <2>3. QED BY <1>7, <2>1, <2>2 DEF PendingInv
<1>15. TableInv' BY <1>1, <1>7 DEF TableInv
<1>16. QED BY <1>8, <1>9, <1>10, <1>11, <1>12, <1>13, <1>14, <1>15

(* The commits that become durable when p records are fsynced.             *)
LEMMA Forward ==
    ASSUME TypeInv, NEW p \in synced..Len(file), Sums(ckpt, Log, synced, acked, doubt, N),
           NEW c, c = Unsynced(p)
    PROVE  /\ c = Cnt(Log, synced, p) /\ c \in 0..Len(doubt)
           /\ AtMost(c, doubt) = SubSeq(doubt, 1, c)
           /\ AtMost(c, doubt) \in Seq(Writes) /\ Len(AtMost(c, doubt)) = c
           /\ Overlaid(acked, AtMost(c, doubt)) \in Rows
           /\ SubSeq(doubt, c + 1, Len(doubt)) \in Seq(Writes)
           /\ Overlaid(Overlaid(acked, AtMost(c, doubt)), SubSeq(doubt, c + 1, Len(doubt))) = Sum
           /\ Sums(ckpt, Log, p, Overlaid(acked, AtMost(c, doubt)),
                   SubSeq(doubt, c + 1, Len(doubt)), N)
<1>1. /\ acked \in Rows /\ doubt \in Seq(Writes) /\ synced \in Nat /\ synced \in 0..N
      /\ Len(file) \in Nat /\ N \in Nat /\ Agree(file, Log, Len(file)) /\ Len(doubt) \in Nat
      /\ p \in synced..N /\ p \in 0..Len(file)
  BY StateType, LenProperties DEF TypeInv, TypeOK
<1>2. c = Cnt(Log, synced, p)
  <2>1. Cnt(file, synced, p) = Cnt(Log, synced, p) BY <1>1, SameComs
  <2>2. QED BY <2>1 DEF Unsynced, Cnt
<1>3. /\ c \in 0..Len(doubt)
      /\ Sums(ckpt, Log, p, Overlaid(acked, SubSeq(doubt, 1, c)), SubSeq(doubt, c + 1, Len(doubt)), N)
  BY <1>1, <1>2, SumsForward
<1>4. AtMost(c, doubt) = SubSeq(doubt, 1, c)
  <2>1. (IF c < Len(doubt) THEN c ELSE Len(doubt)) = c BY <1>1, <1>3
  <2>2. QED BY <2>1 DEF AtMost
<1>5. SubSeq(doubt, 1, c) \in Seq(Writes) /\ Len(SubSeq(doubt, 1, c)) = c BY <1>1, <1>3, Prefix
<1>6. SubSeq(doubt, c + 1, Len(doubt)) \in Seq(Writes)
  <2>1. c \in Nat /\ Len(doubt) \in c..Len(doubt) BY <1>1, <1>3
  <2>2. QED BY <1>1, <2>1, Section
<1>7. Overlaid(acked, SubSeq(doubt, 1, c)) \in Rows BY <1>1, <1>5, OverlaidProperties
<1>8. Overlaid(Overlaid(acked, SubSeq(doubt, 1, c)), SubSeq(doubt, c + 1, Len(doubt))) = Sum
  BY <1>1, <1>3, OverlaidProperties DEF Sum
<1>9. QED BY <1>2, <1>3, <1>4, <1>5, <1>6, <1>7, <1>8

(* A commit is durable, and visible: its rows are those on top of the      *)
(* table, whatever commits are still waited for.                           *)
LEMMA WriterSyncsKeeps == ASSUME AllAvoided, Inv, WriterSyncs PROVE Inv'
<1> USE DEF Inv
<1> DEFINE f == Len(file)
           t == Last(file).txid
           w == txns[t].writes
           n == Unsynced(f)
           a == Overlaid(acked, AtMost(n, doubt))
           d == SubSeq(doubt, n + 1, Len(doubt))
<1>1. /\ f \in Nat /\ N \in Nat /\ N = f + Len(queue) /\ Len(queue) \in Nat
      /\ file \in Seq(Record) /\ synced \in 0..f /\ Agree(file, Log, f)
  BY StateType DEF TypeInv, TypeOK
<1>2. Up /\ syncing BY DEF WriterSyncs
<1>3. f \in 1..N /\ f \in 1..f BY <1>1, <1>2 DEF PendingInv
<1>4. t = Log[f].txid /\ Log[f].ty = "commit"
  <2>1. Last(file) = file[f] BY DEF Last
  <2>2. file[f] = Log[f] BY <1>1, <1>3 DEF Agree
  <2>3. QED BY <1>2, <2>1, <2>2 DEF PendingInv
<1>5. t \in Committing BY <1>2, <1>3, <1>4 DEF PendingInv
<1>6. t \in Live /\ t \in TxId /\ txns[t] # None /\ w \in Writes BY <1>5, TxnType DEF Committing
<1>7. phase = "running" BY <1>6 DEF PhaseInv
<1>8. /\ synced' = f /\ syncing' = FALSE
      /\ table' = Over(table, w)
      /\ garbage' = [k \in Key |->
            IF k \notin DOMAIN w THEN garbage[k]
            ELSE IF w[k] # NoRow THEN NoRow
            ELSE IF table[k] # NoRow THEN table[k] ELSE garbage[k]]
      /\ txns' = [txns EXCEPT ![t] = None]
      /\ acked' = a /\ doubt' = d
      /\ UNCHANGED <<file, ckpt, phase, queue, nextId, begun, written, reused>>
  BY <1>6 DEF WriterSyncs, bounds
<1>9. Sums(ckpt, Log, synced, acked, doubt, N) BY <1>7 DEF SumInv
<1>10. a \in Rows /\ d \in Seq(Writes) /\ Overlaid(a, d) = Sum /\ Sums(ckpt, Log, f, a, d, N)
  <2>1. f \in synced..Len(file) BY <1>1
  <2> HIDE DEF n
  <2>2. QED BY <1>9, <2>1, Forward DEF n
<1> HIDE DEF t, w, a, d, f
<1>11. /\ txns' \in [TxId -> Transaction \cup {None}]
       /\ txns'[t] = None /\ \A u \in TxId : u # t => txns'[u] = txns[u]
  BY <1>6, <1>8 DEF TypeInv
<1>12. Live' = Live \ {t} /\ \A u \in Live' : u \in Live /\ u \in TxId /\ txns'[u] = txns[u]
  BY <1>6, <1>11 DEF Live
<1>13. Committing' = Committing \ {t} /\ \A u \in Committing' : u \in Live' /\ txns'[u] = txns[u]
  BY <1>11, <1>12 DEF Committing
<1>14. Log' = Log /\ N' = N /\ Sum' = Sum BY <1>8, <1>10 DEF Log, N, Sum
<1>15. table' \in Rows /\ garbage' \in Rows
  <2>1. w \in [DOMAIN w -> 0..MaxTxn] BY <1>6, WritesIs
  <2>2. table \in Rows /\ garbage \in Rows
    BY DEF TypeInv, TypeOK
  <2>3. NoRow \in 0..MaxTxn BY BoundAssumption DEF NoRow
  <2>4. table' \in Rows BY <1>8, <2>1, <2>2 DEF Over, Rows
  <2>5. garbage' \in Rows BY <1>8, <2>1, <2>2, <2>3 DEF Rows
  <2>6. QED BY <2>4, <2>5
<1>16. TypeInv'
  <2>1. synced' \in 0..Len(file') BY <1>1, <1>8 DEF f
  <2>2. \A u \in Live' : /\ txns'[u].state \in {"open", "committing"}
                         /\ DOMAIN txns'[u].writes \subseteq Key
                         /\ txns'[u].born \in 1..begun'
    BY <1>8, <1>12, TxnType
  <2>3. TypeOK' BY <1>8, <1>10, <1>15, <2>1, <2>2 DEF TypeInv, TypeOK
  <2>4. QED BY <1>8, <1>10, <1>11, <2>3 DEF TypeInv
<1>17. LogInv'
  <2>1. Fits(ckpt, Log, May, N) BY <1>7 DEF LogInv
  <2>2. May' \subseteq May BY <1>8, <1>12, <1>14 DEF May
  <2>3. Fits(ckpt, Log, May', N) BY <2>1, <2>2 DEF Fits
  <2>4. QED BY <1>8, <1>14, <2>3 DEF LogInv
<1>18. SumInv' BY <1>8, <1>10, <1>14 DEF SumInv
<1>19. DraftInv'
  <2>1. \A u \in Live' : Drafted(u)' BY <1>8, <1>12, <1>14 DEF DraftInv, Drafted
  <2>2. QED BY <1>12, <2>1 DEF DraftInv
<1>20. IdInv' BY <1>8, <1>14 DEF IdInv
<1>21. PhaseInv' BY <1>7, <1>8 DEF PhaseInv
<1>22. PendingInv'
  <2>1. ASSUME NEW p \in 1..N, Log[p].ty = "commit", p > f PROVE Log[p].txid \in Committing \ {t}
    <3>1. Log[p].txid \in Committing BY <2>1 DEF PendingInv, f
    <3>2. Log[p].txid # t
      <4>1. Once(Log, N) /\ p # f BY <1>3, <2>1 DEF LogInv
      <4>2. QED BY <1>3, <1>4, <2>1, <4>1 DEF Once
    <3>3. QED BY <3>1, <3>2
  <2>2. QED BY <1>8, <1>13, <1>14, <2>1 DEF PendingInv, f
<1>23. TableInv'
  <2>1. \A k \in Key : table'[k] = IF k \in DOMAIN w THEN w[k] ELSE table[k] BY <1>8 DEF Over
  <2>2. \A k \in DOMAIN w : Sum[k] = w[k] BY <1>5, <1>7 DEF TableInv, w
  <2>3. ASSUME NEW k \in Key, \A u \in Committing' : k \notin DOMAIN txns'[u].writes
        PROVE  table'[k] = Sum[k]
    <3>1. CASE k \in DOMAIN w BY <2>1, <2>2, <3>1
    <3>2. CASE k \notin DOMAIN w
      <4>1. \A u \in Committing : k \notin DOMAIN txns[u].writes
        BY <1>13, <2>3, <3>2 DEF w
      <4>2. QED BY <1>7, <2>1, <3>2, <4>1 DEF TableInv
    <3>3. QED BY <3>1, <3>2
  <2>4. ASSUME NEW u \in Committing' PROVE \A k \in DOMAIN txns'[u].writes : Sum[k] = txns'[u].writes[k]
    <3>1. u \in Committing /\ txns'[u] = txns[u] BY <1>13
    <3>2. QED BY <1>7, <3>1 DEF TableInv
  <2>5. QED BY <1>14, <2>3, <2>4 DEF TableInv
<1>24. QED BY <1>16, <1>17, <1>18, <1>19, <1>20, <1>21, <1>22, <1>23

-----------------------------------------------------------------------------
(* The checkpoint.  No transaction is open, so the table is what has been  *)
(* committed, and becomes what is durable.                                 *)
LEMMA ReplaceCheckpointKeeps == ASSUME AllAvoided, Inv, ReplaceCheckpoint PROVE Inv'
<1> USE DEF Inv
<1>1. /\ phase = "checked" /\ LeftBehind = {}
      /\ ckpt' = [k \in Key |-> LastVersion(k)]
      /\ garbage' = [k \in Key |-> IF k \in LeftBehind THEN garbage[k] ELSE NoRow]
      /\ phase' = "replaced" /\ acked' = Sum /\ doubt' = <<>>
      /\ UNCHANGED <<file, synced, queue, syncing, table, txns, nextId, begun, written, reused>>
  BY DEF ReplaceCheckpoint, AllAvoided, wal, bounds, Sum
<1>2. Live = {} BY <1>1 DEF PhaseInv
<1>3. /\ Log' = Log /\ N' = N /\ Live' = Live /\ May' = May /\ Committing' = Committing
      /\ Committing = {}
  BY <1>1, <1>2 DEF Log, N, Live, May, Committing
<1>4. Sum \in Rows /\ <<>> \in Seq(Writes) BY StateType, EmptySeq
<1>5. Sum' = Sum BY <1>1, <1>4, OverlaidProperties DEF Sum
<1>6. ckpt' = table
  <2>1. \A k \in Key : LastVersion(k) = table[k] BY <1>1, <1>2 DEF LastVersion
  <2>2. table = [k \in Key |-> table[k]] BY DEF TypeInv, TypeOK, Rows
  <2>3. QED BY <1>1, <2>1, <2>2
<1>7. table = Sum
  <2>1. \A k \in Key : table[k] = Sum[k] BY <1>1, <1>3 DEF TableInv
  <2>2. table \in Rows BY DEF TypeInv, TypeOK
  <2>3. QED BY <1>4, <2>1, <2>2 DEF Rows
<1>8. TypeInv'
  <2>1. NoRow \in 0..MaxTxn BY BoundAssumption DEF NoRow
  <2>2. garbage' \in Rows BY <1>1, <2>1 DEF Rows, TypeInv, TypeOK
  <2>3. TypeOK' BY <1>1, <1>3, <1>4, <1>6, <1>7, <2>2 DEF TypeInv, TypeOK
  <2>4. QED BY <1>1, <1>4, <2>3 DEF TypeInv
<1>9. LogInv' BY <1>1, <1>3 DEF LogInv
<1>10. SumInv' BY <1>1 DEF SumInv
<1>11. DraftInv' BY <1>2, <1>3 DEF DraftInv
<1>12. IdInv' BY <1>1, <1>3 DEF IdInv
<1>13. PhaseInv' BY <1>1, <1>2, <1>3, <1>6, <1>7 DEF PhaseInv
<1>14. PendingInv' BY <1>1, <1>3 DEF PendingInv
<1>15. TableInv' BY <1>1, <1>3, <1>5, <1>7 DEF TableInv
<1>16. QED BY <1>8, <1>9, <1>10, <1>11, <1>12, <1>13, <1>14, <1>15

(* Behind the last record nothing is undecided.                            *)
LEMMA NothingBehind ==
    ASSUME NEW C, NEW L, NEW n \in Nat, NEW a \in Rows,
           \A k \in Key : Val(C, L, Coms(L, n), k, n) = a[k]
    PROVE  Sums(C, L, n, a, <<>>, n)
<1>1. <<>> \in Seq(Writes) /\ Len(<<>>) = 0 BY EmptySeq
<1>2. Cnt(L, n, n) = 0
  <2>1. n <= n OBVIOUS
  <2>2. QED BY ONLY n \in Nat, <2>1, CntProperties
<1>3. SubSeq(<<>>, 1, 0) = <<>> BY SubSeqEmpty
<1>4. Overlaid(a, <<>>) = a BY <1>1, OverlaidProperties
<1>5. \A i \in n..n : i = n OBVIOUS
<1>6. QED BY <1>1, <1>2, <1>3, <1>4, <1>5 DEF Sums

(* The log is emptied: the checkpoint holds all that is durable.           *)
LEMMA ResetLogKeeps == ASSUME AllAvoided, Inv, ResetLog PROVE Inv'
<1> USE DEF Inv
<1>1. /\ phase = "replaced" /\ queue = <<>> /\ ~syncing
      /\ file' = <<>> /\ synced' = 0 /\ phase' = "running"
      /\ UNCHANGED <<queue, syncing, ckpt, table, garbage, txns, nextId, begun, written,
                     acked, doubt, reused>>
  BY DEF ResetLog, wal, tree, bounds, history
<1>2. Live = {} /\ doubt = <<>> /\ ckpt = acked BY <1>1 DEF PhaseInv
<1>3. <<>> \in Seq(Record) /\ Len(<<>>) = 0 BY EmptySeq
<1>4. Log' = <<>> /\ N' = 0 BY <1>1, <1>3, ConcatEmptySeq DEF Log, N
<1>5. Live' = {} /\ Committing' = {} /\ Committing = {} /\ Sum' = Sum
  BY <1>1, <1>2 DEF Live, Committing, Sum
<1>6. TypeInv'
  <2>1. synced' \in 0..Len(file') /\ file' \in Seq(Record) BY <1>1, <1>3
  <2>2. TypeOK' BY <1>1, <1>5, <2>1 DEF TypeInv, TypeOK
  <2>3. QED BY <1>1, <2>2 DEF TypeInv
<1>7. Coms(Log', 0) = {} BY DEF Coms
<1>8. LogInv'
  <2>1. \A i : i \notin 1..0 OBVIOUS
  <2>2. QED BY <1>1, <1>4, <2>1 DEF LogInv, WellFormed, Once, Ordered, Fits
<1>9. SumInv'
  <2> DEFINE M == Log'
  <2>1. ASSUME NEW k \in Key PROVE Val(ckpt, M, Coms(M, 0), k, 0) = acked[k]
    <3> DEFINE E == Coms(M, 0)
    <3> HIDE DEF M, E
    <3>1. Hits(M, E, k, 0) = {} BY DEF Hits
    <3>2. Val(ckpt, M, E, k, 0) = ckpt[k] BY <3>1, ValIs
    <3>3. QED BY <1>2, <3>2 DEF E
  <2>2. acked \in Rows BY DEF TypeInv, TypeOK
  <2> HIDE DEF M
  <2>3. Sums(ckpt, M, 0, acked, <<>>, 0) BY <2>1, <2>2, NothingBehind
  <2>4. QED BY <1>1, <1>2, <1>4, <2>3 DEF SumInv, M
<1>10. DraftInv' BY <1>5 DEF DraftInv
<1>11. IdInv'
  <2>1. \A i : i \notin 1..0 OBVIOUS
  <2>2. QED BY <1>1, <1>4, <1>7, <2>1 DEF IdInv
<1>12. PhaseInv' BY <1>1, <1>5 DEF PhaseInv
<1>13. PendingInv'
  <2>1. \A i : i \notin 1..0 OBVIOUS
  <2>2. QED BY <1>1, <1>4, <2>1 DEF PendingInv
<1>14. TableInv' BY <1>1, <1>5 DEF TableInv
<1>15. QED BY <1>6, <1>8, <1>9, <1>10, <1>11, <1>12, <1>13, <1>14

-----------------------------------------------------------------------------
(* The process goes down, with the first p records of the file left, on    *)
(* which what is durable and what is in doubt still agree.                 *)
LEMMA GoDownKeeps ==
    ASSUME Inv, phase # "replaced", NEW p \in 0..Len(file), GoDown(SubSeq(file, 1, p)),
           synced' \in 0..p, acked' \in Rows, doubt' \in Seq(Writes),
           Sums(ckpt, Log, synced', acked', doubt', p)
    PROVE  Inv'
<1> USE DEF Inv
<1> DEFINE M == SubSeq(file, 1, p)
<1>1. /\ phase' = "down" /\ queue' = <<>> /\ syncing' = FALSE /\ file' = M
      /\ table' = Empty /\ garbage' = Empty
      /\ txns' = [t \in TxId |-> None] /\ nextId' = 1
      /\ UNCHANGED <<ckpt, begun, written, reused>>
  BY DEF GoDown, bounds
<1>2. /\ Len(file) \in Nat /\ N \in Nat /\ p \in 0..N /\ p \in Nat
      /\ file \in Seq(Record) /\ Agree(file, Log, Len(file))
  BY StateType DEF TypeInv, TypeOK
<1>3. M \in Seq(Record) /\ Len(M) = p /\ \A i \in 1..p : M[i] = file[i] BY <1>2, Prefix
<1>4. Agree(Log, M, p)
  <2>1. \A i \in 1..p : i \in 1..Len(file) BY <1>2
  <2>2. QED BY <1>2, <1>3, <2>1 DEF Agree
<1> HIDE DEF M
<1>5. <<>> \in Seq(Record) /\ Len(<<>>) = 0 BY EmptySeq
<1>6. Log' = M /\ N' = p BY <1>1, <1>3, ConcatEmptySeq DEF Log, N
<1>7. Live' = {} /\ Committing' = {} BY <1>1 DEF Live, Committing
<1>8. Coms(M, p) \subseteq Coms(Log, N)
  <2>1. Coms(Log, p) \subseteq Coms(Log, N) BY <1>2, ComsNext
  <2>2. p \in 0..p BY <1>2
  <2>3. Coms(Log, p) = Coms(M, p) BY <1>2, <1>4, <2>2, SameComs
  <2>4. QED BY <2>1, <2>3
<1>9. Empty \in Rows /\ 1 \in 1..(MaxTxn + 1) BY BoundAssumption DEF Empty, Rows, NoRow
<1>10. TypeInv'
  <2>1. TypeOK' BY <1>1, <1>3, <1>5, <1>7, <1>9 DEF TypeInv, TypeOK
  <2>2. txns' \in [TxId -> Transaction \cup {None}] BY <1>1
  <2>3. QED BY <1>1, <2>1, <2>2 DEF TypeInv
<1>11. LogInv'
  <2> DEFINE T == May
             U == May'
  <2>1. U \subseteq T BY <1>6, <1>7, <1>8 DEF May
  <2> HIDE DEF T, U
  <2>2. /\ WellFormed(Log, N) /\ Once(Log, N) /\ Ordered(Log, N) /\ Fits(ckpt, Log, T, N)
    BY DEF LogInv, T
  <2>3. WellFormed(Log, p) /\ Once(Log, p) /\ Ordered(Log, p) /\ Fits(ckpt, Log, U, p)
    BY <1>2, <2>1, <2>2, CutLog
  <2>4. WellFormed(M, p) /\ Once(M, p) /\ Ordered(M, p) /\ Fits(ckpt, M, U, p)
    <3>1. synced \in Nat BY <1>2 DEF TypeInv, TypeOK
    <3>2. QED BY <1>2, <1>4, <2>3, <3>1, SameLog
  <2>5. QED BY <1>1, <1>6, <2>4 DEF LogInv, U
<1>12. SumInv'
  <2> DEFINE s == synced'
             a == acked'
             d == doubt'
  <2>1. s \in Nat /\ Sums(ckpt, Log, s, a, d, p) BY <1>2
  <2> HIDE DEF s, a, d
  <2>2. Sums(ckpt, M, s, a, d, p) BY <1>2, <1>4, <2>1, SameLog
  <2>3. QED BY <1>1, <1>6, <2>2 DEF SumInv, s, a, d
<1>13. DraftInv' BY <1>7 DEF DraftInv
<1>14. IdInv'
  <2>1. \A i \in 1..p : M[i].txid <= begun
    <3>1. \A i \in 1..p : i \in 1..N BY <1>2
    <3>2. QED BY <1>4, <3>1 DEF IdInv, Agree
  <2>2. 1 <= begun + 1 BY StateType
  <2>3. QED BY <1>1, <1>6, <1>8, <2>1, <2>2 DEF IdInv
<1>15. PhaseInv' BY <1>1, <1>7 DEF PhaseInv
<1>16. PendingInv'
  <2>1. \A i \in 1..p : ~(i > p) BY <1>2
  <2>2. Len(file') = p BY <1>1, <1>3
  <2>3. QED BY <1>1, <1>6, <2>1, <2>2 DEF PendingInv
<1>17. TableInv' BY <1>1 DEF TableInv
<1>18. QED BY <1>10, <1>11, <1>12, <1>13, <1>14, <1>15, <1>16, <1>17

(* What is durable when the first p records are left and have been read.   *)
LEMMA Settled ==
    ASSUME TypeInv, NEW p \in synced..Len(file), Sums(ckpt, Log, synced, acked, doubt, N),
           NEW c, c = Unsynced(p)
    PROVE  LET a == Overlaid(acked, AtMost(c, doubt))
           IN  a \in Rows /\ Sums(ckpt, Log, p, a, <<>>, p)
<1> DEFINE a == Overlaid(acked, AtMost(c, doubt))
<1>1. c = Cnt(Log, synced, p) /\ AtMost(c, doubt) = SubSeq(doubt, 1, c) /\ a \in Rows BY Forward
<1>2. p \in synced..N /\ p \in Nat BY StateType DEF TypeInv, TypeOK
<1>3. \A k \in Key : Val(ckpt, Log, Coms(Log, p), k, p) = a[k] BY <1>1, <1>2 DEF Sums
<1> HIDE DEF a
<1>4. Sums(ckpt, Log, p, a, <<>>, p) BY <1>1, <1>2, <1>3, NothingBehind
<1>5. QED BY <1>1, <1>4 DEF a

(* Shutdown: all that was asked for is durable.                            *)
LEMMA StopKeeps == ASSUME AllAvoided, Inv, Stop PROVE Inv'
<1> DEFINE p == Len(file)
<1>1. /\ phase = "running" /\ queue = <<>> /\ GoDown(file)
      /\ synced' = p /\ acked' = Sum /\ doubt' = <<>>
  BY DEF Stop, Sum
<1>2. TypeInv /\ Sums(ckpt, Log, synced, acked, doubt, N) BY <1>1 DEF Inv, SumInv
<1>3. /\ file \in Seq(Record) /\ doubt \in Seq(Writes) /\ synced \in 0..p /\ p \in Nat /\ N = p
      /\ Sum \in Rows /\ <<>> \in Seq(Writes) /\ Log = file
  BY <1>1, <1>2, StateType, EmptySeq DEF TypeInv, TypeOK, N
<1>4. SubSeq(file, 1, p) = file /\ SubSeq(doubt, 1, Len(doubt)) = doubt BY <1>3, SubSeqFull
<1>5. \A k \in Key : Val(ckpt, Log, Coms(Log, p), k, p) = Sum[k]
  <2>1. p \in synced..N BY <1>3
  <2>2. Len(doubt) = Cnt(Log, synced, p) BY <1>2, <1>3 DEF Sums
  <2>3. QED BY <1>2, <1>4, <2>1, <2>2 DEF Sums, Sum
<1>6. Sums(ckpt, Log, p, Sum, <<>>, p)
  <2> HIDE DEF p
  <2>1. QED BY <1>3, <1>5, NothingBehind
<1>7. p \in 0..Len(file) /\ p \in 0..p BY <1>3
<1>8. GoDown(SubSeq(file, 1, p)) BY <1>1, <1>4
<1>9. /\ synced' \in 0..p /\ acked' \in Rows /\ doubt' \in Seq(Writes)
      /\ Sums(ckpt, Log, synced', acked', doubt', p)
  BY <1>1, <1>3, <1>6, <1>7
<1>10. phase # "replaced" BY <1>1
<1> HIDE DEF p
<1>11. QED BY <1>7, <1>8, <1>9, <1>10, GoDownKeeps

(* A crash: what is left of the file decides which of the commits in doubt *)
(* have happened.                                                          *)
LEMMA CrashKeeps == ASSUME AllAvoided, Inv, Crash PROVE Inv'
<1>1. Up /\ phase # "replaced" BY DEF Crash, AllAvoided
<1>2. PICK p \in synced..Len(file) :
         /\ GoDown(SubSeq(file, 1, p))
         /\ IF p = Len(file)
            THEN synced' = synced /\ doubt' = AtMost(Unsynced(p), doubt) /\ acked' = acked
            ELSE /\ synced' = p /\ acked' = Overlaid(acked, AtMost(Unsynced(p), doubt))
                 /\ doubt' = <<>>
  BY DEF Crash, AllAvoided
<1> DEFINE c == Unsynced(p)
           a == Overlaid(acked, AtMost(c, doubt))
<1>3. TypeInv /\ Sums(ckpt, Log, synced, acked, doubt, N) BY <1>1 DEF Inv, SumInv
<1>4. /\ acked \in Rows /\ doubt \in Seq(Writes) /\ synced \in 0..Len(file) /\ synced \in 0..N
      /\ N \in Nat /\ Len(file) \in Nat /\ p \in 0..Len(file) /\ p \in synced..N
      /\ synced \in 0..p /\ p \in 0..p /\ <<>> \in Seq(Writes)
  BY <1>3, StateType, EmptySeq DEF TypeInv, TypeOK
<1> HIDE DEF c
<1>5. /\ c = Cnt(Log, synced, p) /\ AtMost(c, doubt) = SubSeq(doubt, 1, c)
      /\ AtMost(c, doubt) \in Seq(Writes)
  BY <1>3, Forward DEF c
<1>6. Sums(ckpt, Log, synced, acked, SubSeq(doubt, 1, c), p)
  BY <1>3, <1>4, <1>5, SumsCut
<1>7. a \in Rows /\ Sums(ckpt, Log, p, a, <<>>, p) BY <1>3, Settled DEF c
<1> HIDE DEF a
<1>8. /\ synced' \in 0..p /\ acked' \in Rows /\ doubt' \in Seq(Writes)
      /\ Sums(ckpt, Log, synced', acked', doubt', p)
  <2>1. CASE p = Len(file)
    <3>1. synced' = synced /\ acked' = acked /\ doubt' = AtMost(c, doubt) BY <1>2, <2>1 DEF c
    <3>2. QED BY <1>4, <1>5, <1>6, <3>1
  <2>2. CASE p # Len(file)
    <3>1. synced' = p /\ acked' = a /\ doubt' = <<>> BY <1>2, <2>2 DEF a, c
    <3>2. QED BY <1>4, <1>7, <3>1
  <2>3. QED BY <2>1, <2>2
<1>9. GoDown(SubSeq(file, 1, p)) BY <1>2
<1>10. QED BY <1>1, <1>4, <1>8, <1>9, GoDownKeeps

-----------------------------------------------------------------------------
(* Recovery.  The next id is above those of the transactions that have     *)
(* committed.                                                              *)
LEMMA NextIdIs ==
    ASSUME NEW n \in Nat, NEW ids \in SUBSET (1..n)
    PROVE  NextIdAfter(ids) \in 1..(n + 1) /\ \A i \in ids : i < NextIdAfter(ids)
<1> DEFINE m == CHOOSE x \in ids \cup {0} : \A i \in ids : i <= x
<1>1. \E x \in ids \cup {0} : \A i \in ids : i <= x
  <2>1. CASE ids = {} BY <2>1
  <2>2. CASE ids # {} BY <2>2, GreatestMember
  <2>3. QED BY <2>1, <2>2
<1>2. m \in ids \cup {0} /\ \A i \in ids : i <= m BY <1>1
<1>3. NextIdAfter(ids) = 1 + m BY DEF NextIdAfter
<1> HIDE DEF m
<1>4. m \in 0..n /\ \A i \in ids : i \in Nat BY <1>2
<1>5. QED BY <1>2, <1>3, <1>4

(* What the process reads at its start, and makes of it.                   *)
LEMMA Reading ==
    ASSUME Inv, phase \in {"down", "recovered"}
    PROVE  /\ Log = file /\ N = Len(file) /\ N \in Nat
           /\ CommittedIn(file) = Coms(Log, N) /\ Rebuilt # None
           /\ \A k \in Key : ChainIs(Rebuilt[k], Sum[k])
<1> USE DEF Inv
<1>1. /\ Log = file /\ N = Len(file) /\ N \in Nat /\ file \in Seq(Record) /\ ckpt \in Rows
      /\ doubt \in Seq(Writes) /\ synced \in 0..N
  <2>1. queue = <<>> BY DEF PhaseInv
  <2>2. QED BY <2>1, StateType DEF TypeInv, TypeOK, N
<1>2. /\ WellFormed(file, N) /\ Once(file, N) /\ Ordered(file, N) /\ Fits(ckpt, file, May, N)
      /\ Sums(ckpt, Log, synced, acked, doubt, N)
  BY <1>1 DEF LogInv, SumInv
<1>3. Coms(file, N) \subseteq May BY <1>1 DEF May
<1>4. /\ CommittedIn(file) = Coms(file, N) /\ Rebuilt # None
      /\ \A k \in Key : ChainIs(Rebuilt[k], Val(ckpt, file, Coms(file, N), k, N))
  <2> DEFINE T == May
  <2>1. Coms(file, N) \subseteq T /\ Fits(ckpt, file, T, N) BY <1>2, <1>3
  <2> HIDE DEF T
  <2>2. QED BY <1>1, <1>2, <2>1, RebuiltIs
<1>5. \A k \in Key : Val(ckpt, Log, Coms(Log, N), k, N) = Sum[k]
  <2>1. N \in synced..N BY <1>1
  <2>2. Len(doubt) = Cnt(Log, synced, N) BY <1>2 DEF Sums
  <2>3. SubSeq(doubt, 1, Len(doubt)) = doubt BY <1>1, SubSeqFull
  <2>4. QED BY <1>2, <2>1, <2>2, <2>3 DEF Sums, Sum
<1>6. QED BY <1>1, <1>4, <1>5

(* Recovery reaches the rows of what is durable and of what was in doubt   *)
(* and has got to the file.                                                *)
LEMMA RecoverKeeps == ASSUME Inv, Recover PROVE Inv'
<1> USE DEF Inv
<1> DEFINE E == Coms(Log, N)
<1>1. phase = "down" BY DEF Recover
<1>2. /\ Log = file /\ N = Len(file) /\ N \in Nat /\ CommittedIn(file) = E /\ Rebuilt # None
      /\ \A k \in Key : ChainIs(Rebuilt[k], Sum[k])
  BY <1>1, Reading
<1>3. /\ file \in Seq(Record) /\ DOMAIN file = 1..N /\ begun \in Nat /\ begun <= MaxTxn
      /\ MaxTxn \in Nat /\ Sum \in Rows
  BY <1>2, StateType, LenProperties DEF TypeInv, TypeOK
<1> DEFINE next == NextIdAfter(E)
           started == {Log[i].txid : i \in 1..N}
<1>4. /\ phase' = "recovered"
      /\ table' = [k \in Key |-> RowOf(Rebuilt[k])]
      /\ garbage' = [k \in Key |->
            IF Rebuilt[k] # <<>> /\ LiveIn(Rebuilt[k]) = {} THEN Last(Rebuilt[k]).row ELSE NoRow]
      /\ nextId' = next /\ reused' = started \ 1..(next - 1)
      /\ UNCHANGED <<file, synced, ckpt, queue, syncing, txns, begun, written, acked, doubt>>
  BY <1>2, <1>3 DEF Recover, disk, wal, bounds
<1>5. queue = <<>> /\ ~syncing /\ Live = {} BY <1>1 DEF PhaseInv
<1>6. /\ Log' = Log /\ N' = N /\ Sum' = Sum /\ Live' = {} /\ Committing' = {} /\ May' = E
  BY <1>4, <1>5 DEF Log, N, Sum, Live, Committing, May
<1>7. \A i \in 1..N : Log[i].txid \in 1..begun
  <2>1. \A i \in 1..N : Log[i] \in Record BY <1>2, <1>3, ElementOfSeq
  <2>2. \A i \in 1..N : Log[i].txid \in TxId BY <2>1 DEF Record
  <2>3. QED BY <1>3, <2>2 DEF IdInv, TxId
<1>8. E \subseteq 1..begun BY <1>7 DEF Coms
<1>9. started \subseteq 1..begun BY <1>7
<1> HIDE DEF E, started
<1>10. next \in 1..(begun + 1) /\ \A i \in E : i < next BY <1>3, <1>8, NextIdIs
<1> HIDE DEF next
<1>11. table' = Sum
  <2>1. \A k \in Key : RowOf(Rebuilt[k]) = Sum[k] BY <1>2, ChainTells
  <2>2. Sum = [k \in Key |-> Sum[k]] BY <1>3 DEF Rows
  <2>3. QED BY <1>4, <2>1, <2>2
<1>12. garbage' \in Rows
  <2>1. NoRow \in 0..MaxTxn BY <1>3 DEF NoRow
  <2>2. ASSUME NEW k \in Key, Rebuilt[k] # <<>> PROVE Last(Rebuilt[k]).row \in 0..MaxTxn
    <3> DEFINE c == Rebuilt[k]
    <3>1. c \in Seq(Version) BY <1>2 DEF ChainIs
    <3>2. c # <<>> BY <2>2
    <3> HIDE DEF c
    <3>3. Len(c) \in 1..Len(c) BY <3>1, <3>2, KilledProperties
    <3>4. c[Len(c)] \in Version BY <3>1, <3>3, ElementOfSeq
    <3>5. Last(c).row \in 0..MaxTxn BY <3>4 DEF Last, Version
    <3>6. QED BY <3>5 DEF c
  <2>3. QED BY <1>4, <2>1, <2>2 DEF Rows
<1>13. TypeInv'
  <2>1. nextId' \in 1..(MaxTxn + 1) BY <1>3, <1>4, <1>10
  <2>2. reused' \subseteq TxId
    <3>1. \A i \in 1..begun : i \in TxId BY <1>3 DEF TxId
    <3>2. started \subseteq TxId BY <1>9, <3>1
    <3>3. reused' \subseteq started BY <1>4
    <3>4. QED BY <3>2, <3>3
  <2>3. TypeOK' BY <1>3, <1>4, <1>6, <1>11, <1>12, <2>1, <2>2 DEF TypeInv, TypeOK
  <2>4. QED BY <1>4, <2>3 DEF TypeInv
<1>14. LogInv'
  <2>1. E \subseteq May BY DEF May, E
  <2>2. Fits(ckpt, Log, May, N) BY <1>1 DEF LogInv
  <2>3. Fits(ckpt, Log, E, N) BY <2>1, <2>2 DEF Fits
  <2>4. QED BY <1>4, <1>6, <2>3 DEF LogInv
<1>15. SumInv' BY <1>1, <1>4, <1>6 DEF SumInv
<1>16. DraftInv' BY <1>6 DEF DraftInv
<1>17. IdInv'
  <2>1. nextId' <= begun' + 1 BY <1>3, <1>4, <1>10
  <2>2. \A i \in 1..N : Log[i].txid < nextId' \/ Log[i].txid \in reused'
    <3>1. \A i \in started : i \in 1..(next - 1) \/ i \in reused' BY <1>4
    <3>2. \A i \in 1..(next - 1) : i < next BY <1>10
    <3>3. \A i \in 1..N : Log[i].txid \in started BY DEF started
    <3>4. QED BY <1>4, <3>1, <3>2, <3>3
  <2>3. reused' \cap E = {}
    <3>1. \A i \in E : i \in 1..(next - 1) BY <1>3, <1>8, <1>10
    <3>2. QED BY <1>4, <3>1
  <2>4. QED BY <1>4, <1>6, <2>1, <2>2, <2>3 DEF IdInv, E
<1>18. PhaseInv' BY <1>4, <1>5, <1>6 DEF PhaseInv
<1>19. PendingInv'
  <2>1. ~syncing' /\ Len(file') = N /\ N' = N BY <1>2, <1>4, <1>5, <1>6
  <2>2. \A p \in 1..N : ~(p > N) BY <1>2
  <2>3. QED BY <2>1, <2>2 DEF PendingInv
<1>20. TableInv' BY <1>6, <1>11 DEF TableInv
<1>21. QED BY <1>13, <1>14, <1>15, <1>16, <1>17, <1>18, <1>19, <1>20

-----------------------------------------------------------------------------
(* The results, for every run in which none of the named situations arises. *)
LEMMA NextKeeps == ASSUME AllAvoided, Inv, [Next]_vars PROVE Inv'
<1>1. CASE Begin BY <1>1, BeginKeeps
<1>2. CASE \E t \in TxId : (\E k \in Key : Write(t, k)) \/ RequestCommit(t) \/ Abort(t)
  <2>1. PICK t \in TxId : (\E k \in Key : Write(t, k)) \/ RequestCommit(t) \/ Abort(t) BY <1>2
  <2>2. CASE \E k \in Key : Write(t, k)
    <3>1. PICK k \in Key : Write(t, k) BY <2>2
    <3>2. QED BY <3>1, WriteKeeps
  <2>3. CASE RequestCommit(t) BY <2>3, RequestCommitKeeps
  <2>4. CASE Abort(t) BY <2>4, AbortKeeps
  <2>5. QED BY <2>1, <2>2, <2>3, <2>4
<1>3. CASE WriterWrites BY <1>3, WriterWritesKeeps
<1>4. CASE WriterSyncs BY <1>4, WriterSyncsKeeps
<1>5. CASE Gc BY <1>5, GcKeeps
<1>6. CASE StartCheckpoint BY <1>6, StartCheckpointKeeps
<1>7. CASE ReplaceCheckpoint BY <1>7, ReplaceCheckpointKeeps
<1>8. CASE ResetLog BY <1>8, ResetLogKeeps
<1>9. CASE Stop BY <1>9, StopKeeps
<1>10. CASE Crash BY <1>10, CrashKeeps
<1>11. CASE Recover BY <1>11, RecoverKeeps
<1>12. CASE Open BY <1>12, OpenKeeps
<1>13. CASE UNCHANGED vars BY <1>13, StutterKeeps
<1>14. QED
  BY <1>1, <1>2, <1>3, <1>4, <1>5, <1>6, <1>7, <1>8, <1>9, <1>10, <1>11, <1>12, <1>13 DEF Next

(* The invariant of the log, the checkpoint and the open transactions      *)
(* holds in every reachable state.                                         *)
LEMMA InvHolds == ASSUME AllAvoided PROVE Spec => []Inv
<1>1. Init => Inv BY InitInv
<1>2. Inv /\ [Next]_vars => Inv' BY NextKeeps
<1>3. QED BY <1>1, <1>2, PTL DEF Spec

(* The parts of the state are always what they should be: log, queue,      *)
(* checkpoint, tree, transactions and the counters.                        *)
THEOREM TypeCorrect == ASSUME AllAvoided PROVE Spec => []TypeOK
<1>1. Inv => TypeOK BY DEF Inv, TypeInv
<1>2. QED BY <1>1, InvHolds, PTL

(* RecoveryIsExact: whatever has crashed, stopped and been checkpointed    *)
(* before, recovery (_recover and _apply_replay_record) does not fail, and *)
(* yields the rows of the transactions whose commit was acknowledged, and  *)
(* of those whose commit record was in the file, in the order of commits.  *)
THEOREM NothingIsLostOrMadeUp == ASSUME AllAvoided PROVE Spec => []RecoveryIsExact
<1>1. Inv => RecoveryIsExact
  <2> SUFFICES ASSUME Inv PROVE RecoveryIsExact
    OBVIOUS
  <2>1. phase # "failed" BY DEF Inv, PhaseInv
  <2>2. ASSUME phase = "recovered" PROVE table = Sum
    <3>1. Committing = {} BY <2>2 DEF Inv, PhaseInv, Committing
    <3>2. \A k \in Key : table[k] = Sum[k] BY <2>2, <3>1 DEF Inv, TableInv
    <3>3. table \in Rows /\ Sum \in Rows BY StateType DEF Inv, TypeInv, TypeOK
    <3>4. QED BY <3>2, <3>3 DEF Rows
  <2>3. QED BY <2>1, <2>2 DEF RecoveryIsExact, Sum
<1>2. QED BY <1>1, InvHolds, PTL

(* OneLiveVersion: replay leaves no chain with two live versions, of which *)
(* the older would come back when the newer is deleted.                    *)
THEOREM NoVersionComesBack == ASSUME AllAvoided PROVE Spec => []OneLiveVersion
<1>1. Inv => OneLiveVersion
  <2> SUFFICES ASSUME Inv, phase = "recovered", NEW k \in Key
               PROVE  Cardinality(LiveIn(Rebuilt[k])) <= 1
    BY DEF OneLiveVersion
  <2>1. ChainIs(Rebuilt[k], Sum[k]) BY Reading
  <2>2. QED BY <2>1, ChainTells
<1>2. QED BY <1>1, InvHolds, PTL

(* CheckpointIsExact: the file checkpoint() leaves in place of the old one *)
(* holds the committed rows and no others, before the log is emptied.      *)
THEOREM CheckpointHoldsTheCommitted == ASSUME AllAvoided PROVE Spec => []CheckpointIsExact
<1>1. Inv => CheckpointIsExact
  <2> SUFFICES ASSUME Inv, phase = "replaced" PROVE ckpt = acked /\ table = acked
    BY DEF CheckpointIsExact
  <2>1. doubt = <<>> /\ ckpt = acked /\ Committing = {} BY DEF Inv, PhaseInv, Committing
  <2>2. acked \in Rows /\ table \in Rows /\ <<>> \in Seq(Writes) BY EmptySeq DEF Inv, TypeInv, TypeOK
  <2>3. Sum = acked BY <2>1, <2>2, OverlaidProperties DEF Sum
  <2>4. \A k \in Key : table[k] = acked[k] BY <2>1, <2>3 DEF Inv, TableInv
  <2>5. table = acked BY <2>2, <2>4 DEF Rows
  <2>6. QED BY <2>1, <2>5
<1>2. QED BY <1>1, InvHolds, PTL
=============================================================================
