----------------------------- MODULE MvccProofs -----------------------------
(* Proofs about module Mvcc, for any number of transactions and keys: what *)
(* the operations on a version chain do to what can be read of it, an      *)
(* inductive invariant of the chains and the locks, and from it the safety *)
(* properties and the refinement of module Store.                          *)
EXTENDS Mvcc, FiniteSetTheorems, DataProofs

\* none of the situations occurs
AllAvoided ==
    {"write-before-read", "delete-after-rollback", "move-onto-a-new-key", "write-during-gc",
     "stale-snapshot", "gc-under-a-snapshot"} \subseteq Avoided

-----------------------------------------------------------------------------
(* A chain by itself.  What is read of it depends on the set S of the      *)
(* writers that are seen: 0, oneself, and those committed by the snapshot. *)

LiveIn(c, S) == {i \in DOMAIN c : c[i].xmin \in S /\ ~(c[i].xmax # 0 /\ c[i].xmax \in S)}

\* the row of the newest live version
ViewOf(c, S) ==
    IF LiveIn(c, S) = {} THEN Absent
    ELSE c[CHOOSE i \in LiveIn(c, S) : \A j \in LiveIn(c, S) : j <= i].row

\* S and R see the same writers of c
SeenAlike(c, S, R) ==
    \A i \in DOMAIN c : (c[i].xmin \in S <=> c[i].xmin \in R) /\ (c[i].xmax \in S <=> c[i].xmax \in R)

\* if any version is live, then one that no version seen comes after
Decided(c, S) ==
    \A i, j \in DOMAIN c :
       i < j /\ i \in LiveIn(c, S) /\ c[j].xmin \in S => \E l \in LiveIn(c, S) : j <= l

\* only transactions that have committed, C, or aborted, A, and the owner o have written here
Written(c, C, A, o) ==
    \A i \in DOMAIN c :
       c[i].row # Absent /\ c[i].xmin \in C \cup A \cup {0, o} /\ c[i].xmax \in C \cup A \cup {0, o}

\* a transaction has at most one version
OneEach(c) == \A i, j \in DOMAIN c : c[i].xmin = c[j].xmin => i = j

\* a version is stamped before another follows; the owner's is the last, and is not stamped
Linked(c, A, o) ==
    /\ \A i \in DOMAIN c : i < Len(c) /\ c[i].xmin \notin A => c[i].xmax # 0
    /\ \A i, j \in DOMAIN c : i < j /\ c[i].xmax = o => c[j].xmin = o
    /\ \A i \in DOMAIN c : c[i].xmin = o => c[i].xmax = 0

ChainOK(c, C, A, o) ==
    /\ Written(c, C, A, o) /\ OneEach(c) /\ Linked(c, A, o)
    /\ Decided(c, C \cup {0}) /\ Decided(c, C \cup {0, o})

\* what a new transaction reads, and what the owner reads
Theirs(c, C) == ViewOf(c, C \cup {0})
Mine(c, C, o) == ViewOf(c, C \cup {0, o})

(* The parts of a chain are what they should be.                           *)
LEMMA ChainType ==
    ASSUME NEW c \in Seq(Version)
    PROVE  /\ Len(c) \in Nat /\ DOMAIN c = 1..Len(c)
           /\ \A i \in DOMAIN c : /\ c[i] \in Version /\ c[i].xmin \in Txn \cup {0}
                                  /\ c[i].xmax \in Txn \cup {0} /\ c[i].row \in RowSet
<1>1. Len(c) \in Nat /\ DOMAIN c = 1..Len(c) BY LenProperties
<1>2. \A i \in DOMAIN c : c[i] \in Version BY <1>1, ElementOfSeq
<1>3. \A v \in Version : v.xmin \in Txn \cup {0} /\ v.xmax \in Txn \cup {0} /\ v.row \in RowSet
  BY DEF Version
<1>4. QED BY <1>1, <1>2, <1>3

(* What is read is the newest live version.                                *)
LEMMA ViewIs ==
    ASSUME NEW c \in Seq(Version), NEW S
    PROVE  /\ LiveIn(c, S) = {} => ViewOf(c, S) = Absent
           /\ \A i \in LiveIn(c, S) :
                 (\A j \in LiveIn(c, S) : j <= i) => ViewOf(c, S) = c[i].row
           /\ LiveIn(c, S) # {} => \E i \in LiveIn(c, S) : \A j \in LiveIn(c, S) : j <= i
           /\ LiveIn(c, S) \subseteq 1..Len(c)
<1> DEFINE L == LiveIn(c, S)
<1>1. L \subseteq 1..Len(c) /\ Len(c) \in Nat BY ChainType DEF LiveIn
<1> HIDE DEF L
<1>2. L # {} => \E i \in L : \A j \in L : j <= i BY <1>1, GreatestMember
<1>3. ASSUME NEW i \in L, \A j \in L : j <= i
      PROVE  (CHOOSE x \in L : \A j \in L : j <= x) = i
  <2> DEFINE m == CHOOSE x \in L : \A j \in L : j <= x
  <2>1. m \in L /\ \A j \in L : j <= m BY <1>3
  <2> HIDE DEF m
  <2>2. m <= i /\ i <= m /\ m \in Int /\ i \in Int BY <1>1, <1>3, <2>1
  <2>3. m = i BY <2>2
  <2>4. QED BY <2>3 DEF m
<1>4. ViewOf(c, S) = IF L = {} THEN Absent ELSE c[CHOOSE x \in L : \A j \in L : j <= x].row
  BY DEF ViewOf, L
<1>5. \A i \in L : (\A j \in L : j <= i) => ViewOf(c, S) = c[i].row
  BY <1>3, <1>4
<1>6. L = {} => ViewOf(c, S) = Absent BY <1>4
<1>7. QED BY <1>1, <1>2, <1>5, <1>6 DEF L

(* Nothing is read just when nothing is live, for no row is empty.         *)
LEMMA ReadWhenLive ==
    ASSUME NEW c \in Seq(Version), NEW S, \A i \in DOMAIN c : c[i].row # Absent
    PROVE  /\ ViewOf(c, S) = Absent <=> LiveIn(c, S) = {}
           /\ ViewOf(c, S) \in RowSet
<1>1. LiveIn(c, S) \subseteq DOMAIN c BY DEF LiveIn
<1>2. CASE LiveIn(c, S) = {} BY <1>2, ViewIs DEF RowSet, Absent
<1>3. CASE LiveIn(c, S) # {}
  <2>1. PICK i \in LiveIn(c, S) : \A j \in LiveIn(c, S) : j <= i BY <1>3, ViewIs
  <2>2. ViewOf(c, S) = c[i].row /\ i \in DOMAIN c BY <1>1, <2>1, ViewIs
  <2>3. QED BY <1>3, <2>2, ChainType
<1>4. QED BY <1>2, <1>3

(* What is read depends on which of the chain's writers are seen.          *)
LEMMA SameSeen ==
    ASSUME NEW c, NEW S, NEW R, SeenAlike(c, S, R)
    PROVE  LiveIn(c, S) = LiveIn(c, R) /\ ViewOf(c, S) = ViewOf(c, R)
           /\ (Decided(c, S) <=> Decided(c, R))
<1>1. LiveIn(c, S) = LiveIn(c, R) BY DEF SeenAlike, LiveIn
<1>2. ViewOf(c, S) = ViewOf(c, R) BY <1>1 DEF ViewOf
<1>3. Decided(c, S) <=> Decided(c, R) BY <1>1 DEF Decided, SeenAlike
<1>4. QED BY <1>1, <1>2, <1>3

(* Chains with the same live versions, in the same rows, read the same.    *)
LEMMA SameLive ==
    ASSUME NEW c \in Seq(Version), NEW d \in Seq(Version), NEW S, LiveIn(c, S) = LiveIn(d, S),
           \A i \in LiveIn(c, S) : c[i].row = d[i].row
    PROVE  ViewOf(c, S) = ViewOf(d, S)
<1>1. CASE LiveIn(c, S) = {} BY <1>1, ViewIs
<1>2. CASE LiveIn(c, S) # {}
  <2>1. PICK i \in LiveIn(c, S) : \A j \in LiveIn(c, S) : j <= i BY <1>2, ViewIs
  <2>2. ViewOf(c, S) = c[i].row /\ ViewOf(d, S) = d[i].row BY <2>1, ViewIs
  <2>3. QED BY <2>1, <2>2
<1>3. QED BY <1>1, <1>2

-----------------------------------------------------------------------------
(* Writing to a chain.                                                     *)

\* the transactions that have ended, and one that has not
Split(C, A, t) == C \subseteq Txn /\ A \subseteq Txn /\ C \cap A = {} /\ t \in Txn \ (C \cup A)

\* t has the lock of the chain
Held(c, C, A, t) == c \in Seq(Version) /\ Split(C, A, t) /\ ChainOK(c, C, A, t)

\* as Held, and t can append: it has no version, and the last is stamped
Closed(c, C, A, t) ==
    /\ c \in Seq(Version) /\ Split(C, A, t)
    /\ Written(c, C, A, t) /\ OneEach(c) /\ Linked(c, A, t) /\ Decided(c, C \cup {0})
    /\ \A i \in DOMAIN c : c[i].xmin # t
    /\ \A i \in DOMAIN c : i = Len(c) /\ c[i].xmin \notin A => c[i].xmax # 0

Row(row) == row \in RowSet /\ row # Absent

Stamping(c, t) == [c EXCEPT ![Len(c)].xmax = t]

(* 0 and None are not transactions.                                        *)
LEMMA ApartFromTxn == 0 \notin Txn /\ Txn \subseteq Nat /\ None \notin Txn \cup {0}
<1>1. Cardinality(Txn) \in Nat BY TxnAssumption, FS_CardinalityType
<1>2. Txn \subseteq Nat /\ 0 \notin Txn BY <1>1, TxnAssumption
<1>3. None \notin Nat BY NoneAssumption
<1>4. 0 \in Nat OBVIOUS
<1>5. None # 0 BY ONLY <1>3, <1>4
<1>6. QED BY ONLY <1>2, <1>3, <1>5, Zenon

(* A transaction's own version is the last, and the only one.              *)
LEMMA OwnIsLast ==
    ASSUME NEW c, NEW C, NEW A, NEW t, Held(c, C, A, t)
    PROVE  /\ \A i \in DOMAIN c : c[i].xmin = t => i \in Own(c, t) /\ i = Len(c)
           /\ Own(c, t) \subseteq {Len(c)}
           /\ Own(c, t) = {} => \A i \in DOMAIN c : c[i].xmin # t
<1> USE DEF Held
<1>1. Len(c) \in Nat /\ DOMAIN c = 1..Len(c) BY ChainType
<1>2. t \notin A BY DEF Split
<1>3. ASSUME NEW i \in DOMAIN c, c[i].xmin = t PROVE i \in Own(c, t) /\ i = Len(c)
  <2>1. c[i].xmax = 0 BY <1>3 DEF ChainOK, Linked
  <2>2. ~(i < Len(c)) BY <1>2, <1>3, <2>1 DEF ChainOK, Linked
  <2>3. QED BY <1>1, <1>3, <2>1, <2>2 DEF Own
<1>4. Own(c, t) \subseteq {Len(c)} BY <1>3 DEF Own
<1>5. QED BY <1>3, <1>4

(* A version that its writer appends is what it reads next, and nobody     *)
(* else reads it.                                                          *)
LEMMA AppendKeeps ==
    ASSUME NEW c, NEW C, NEW A, NEW t, NEW row, Row(row), Closed(c, C, A, t)
    PROVE  /\ Held(Inserted(c, t, row), C, A, t)
           /\ Mine(Inserted(c, t, row), C, t) = row
           /\ Theirs(Inserted(c, t, row), C) = Theirs(c, C)
<1> USE DEF Closed, Row
<1> DEFINE d == Inserted(c, t, row)
           n == Len(c)
           v == [xmin |-> t, xmax |-> 0, row |-> row]
           m == n + 1
<1>1. /\ t \in Txn /\ t \notin C /\ t \notin A /\ t # 0 /\ 0 \notin C /\ 0 \notin A
      BY ApartFromTxn DEF Split
<1>2. v \in Version BY <1>1 DEF Version
<1>3. /\ d \in Seq(Version) /\ n \in Nat /\ Len(d) = m
      /\ (\A i \in 1..n : d[i] = c[i]) /\ d[m] = v
      /\ DOMAIN c = 1..n /\ DOMAIN d = 1..m
  BY <1>2, Pushed, ChainType DEF Inserted
<1>4. m \in 1..m /\ (\A i \in 1..m : i \in 1..n \/ i = m) /\ m \notin 1..n /\ (\A i \in 1..n : i \in 1..m /\ i < m)
  BY <1>3
<1>5. v.xmin = t /\ v.xmax = 0 /\ v.row = row OBVIOUS
<1>6. m \in Nat /\ n \in Nat BY <1>3
<1> HIDE DEF v, n, m, d
<1>7. Written(d, C, A, t)
  BY <1>3, <1>4, <1>5 DEF Written
<1>8. OneEach(d)
  BY <1>3, <1>4, <1>5 DEF OneEach
<1>9. Linked(d, A, t)
  <2>1. ASSUME NEW i \in 1..m, i < m, d[i].xmin \notin A PROVE d[i].xmax # 0
    <3>1. i \in 1..n /\ d[i] = c[i] BY <1>3, <1>4, <1>6, <2>1
    <3>2. CASE i < n
      <4>1. i \in DOMAIN c /\ i < Len(c) /\ c[i].xmin \notin A BY <1>3, <2>1, <3>1, <3>2 DEF n
      <4>2. QED BY <3>1, <4>1 DEF Linked
    <3>3. CASE i = n BY <1>3, <2>1, <3>1, <3>3 DEF n
    <3>4. i < n \/ i = n BY ONLY <1>6, <3>1
    <3>5. QED BY <3>2, <3>3, <3>4
  <2>2. ASSUME NEW i \in 1..m, NEW j \in 1..m, i < j, d[i].xmax = t PROVE d[j].xmin = t
    <3>1. i \in 1..n /\ d[i] = c[i]
      <4>1. i # m BY ONLY <1>6, <2>2, j \in 1..m
      <4>2. QED BY <1>3, <1>4, <4>1
    <3>2. CASE j = m BY <1>3, <1>5, <3>2
    <3>3. CASE j \in 1..n BY <1>3, <2>2, <3>1, <3>3 DEF Linked
    <3>4. QED BY <1>4, <3>2, <3>3
  <2>3. \A i \in 1..m : d[i].xmin = t => d[i].xmax = 0
    BY <1>3, <1>4, <1>5
  <2>4. QED BY <1>3, <2>1, <2>2, <2>3 DEF Linked
<1>10. LiveIn(d, C \cup {0}) = LiveIn(c, C \cup {0})
  BY <1>1, <1>3, <1>4, <1>5 DEF LiveIn
<1>11. Decided(d, C \cup {0})
  <2>1. LiveIn(c, C \cup {0}) \subseteq 1..n BY <1>3 DEF LiveIn
  <2>2. d[m].xmin \notin C \cup {0} BY <1>1, <1>3, <1>5
  <2>3. QED BY <1>3, <1>4, <1>10, <2>1, <2>2 DEF Decided
<1>12. m \in LiveIn(d, C \cup {0, t}) /\ \A j \in DOMAIN d : j <= m
  BY <1>3, <1>4, <1>5, <1>6 DEF LiveIn
<1>13. Decided(d, C \cup {0, t})
  BY ONLY <1>12 DEF Decided
<1>14. ViewOf(d, C \cup {0, t}) = row
  <2>1. \A j \in LiveIn(d, C \cup {0, t}) : j <= m BY <1>12 DEF LiveIn
  <2>2. ViewOf(d, C \cup {0, t}) = d[m].row BY <1>3, <1>12, <2>1, ViewIs
  <2>3. QED BY <1>3, <1>5, <2>2
<1>15. ViewOf(d, C \cup {0}) = ViewOf(c, C \cup {0})
  <2>1. \A i \in LiveIn(c, C \cup {0}) : d[i].row = c[i].row BY <1>3 DEF LiveIn
  <2>2. QED BY <1>3, <1>10, <2>1, SameLive
<1>16. ChainOK(d, C, A, t)
  BY <1>7, <1>8, <1>9, <1>11, <1>13 DEF ChainOK
<1>17. QED
  BY <1>3, <1>14, <1>15, <1>16 DEF Held, Mine, Theirs, d

(* INSERT: where the writer reads nothing.                                 *)
LEMMA InsertKeeps ==
    ASSUME NEW c, NEW C, NEW A, NEW t, NEW row, Row(row), Held(c, C, A, t), Mine(c, C, t) = Absent
    PROVE  /\ Held(Inserted(c, t, row), C, A, t)
           /\ Mine(Inserted(c, t, row), C, t) = row
           /\ Theirs(Inserted(c, t, row), C) = Theirs(c, C)
<1>0. c \in Seq(Version) /\ Split(C, A, t) /\ ChainOK(c, C, A, t) BY DEF Held
<1>1. LiveIn(c, C \cup {0, t}) = {} BY <1>0, ReadWhenLive DEF ChainOK, Written, Mine
<1>2. \A i \in DOMAIN c : c[i].xmin # t
  <2>1. Own(c, t) \subseteq LiveIn(c, C \cup {0, t}) BY DEF Own, LiveIn
  <2>2. QED BY <1>1, <2>1, OwnIsLast
<1>3. ASSUME NEW i \in DOMAIN c, c[i].xmin \notin A PROVE c[i].xmax # 0
  <2>1. c[i].xmin \in C \cup {0, t} BY <1>0, <1>3 DEF ChainOK, Written
  <2>2. i \notin LiveIn(c, C \cup {0, t}) BY <1>1
  <2>3. QED BY <2>1, <2>2 DEF LiveIn
<1>4. Closed(c, C, A, t)
  BY <1>0, <1>2, <1>3 DEF ChainOK, Closed
<1>5. QED BY <1>4, AppendKeeps

(* Stamped: its last version, which is live to t, with t as its deleter.   *)
(* To others it stays as it is.                                            *)
LEMMA StampKeeps ==
    ASSUME NEW c, NEW C, NEW A, NEW t, Held(c, C, A, t),
           Own(c, t) = {}, Mine(c, C, t) # Absent
    PROVE  /\ Closed(Stamping(c, t), C, A, t)
           /\ Theirs(Stamping(c, t), C) = Theirs(c, C)
           /\ Len(c) \in Nat \ {0} /\ Len(Stamping(c, t)) = Len(c)
           /\ \A i \in 1..Len(c) : /\ Stamping(c, t)[i].xmin = c[i].xmin
                                   /\ Stamping(c, t)[i].row = c[i].row
           /\ c[Len(c)].xmin \in A \/ c[Len(c)].xmax \in A \cup {0}
           /\ \A i \in 1..Len(c) : i # Len(c) => Stamping(c, t)[i] = c[i]
           /\ Stamping(c, t)[Len(c)].xmax = t
<1> USE DEF Held
<1> DEFINE d == Stamping(c, t)
           n == Len(c)
<1>0. LiveIn(c, C \cup {0, t}) # {} BY ViewIs DEF Mine
<1>1. /\ t \in Txn /\ t \notin C /\ t \notin A /\ t # 0 /\ 0 \notin C /\ 0 \notin A
      BY ApartFromTxn DEF Split
<1>2. n \in Nat /\ DOMAIN c = 1..n BY ChainType
<1>3. LiveIn(c, C \cup {0, t}) \subseteq 1..n BY <1>2 DEF LiveIn
<1>4. n \in 1..n
  <2>1. PICK i \in LiveIn(c, C \cup {0, t}) : TRUE BY <1>0
  <2>2. i \in 1..n /\ n \in Nat BY <1>2, <1>3
  <2> HIDE DEF n
  <2>3. QED BY ONLY <2>2
<1>5. c[n] \in Version BY <1>2, <1>4, ChainType
<1>6. d = [i \in 1..n |-> IF i = n THEN [c[n] EXCEPT !.xmax = t] ELSE c[i]]
  BY <1>2, <1>4 DEF Stamping
<1> HIDE DEF d
<1>7. [c[n] EXCEPT !.xmax = t] \in Version BY <1>1, <1>5 DEF Version
<1>8. d \in Seq(Version)
  <2>1. \A i \in 1..n : c[i] \in Version BY <1>2, ChainType
  <2>2. d \in [1..n -> Version] BY <1>6, <1>7, <2>1
  <2>3. QED BY <1>2, <2>2, SeqDef
<1>9. DOMAIN d = 1..n /\ Len(d) = n
  <2>1. DOMAIN d = 1..n BY <1>6
  <2>2. DOMAIN d = 1..Len(d) /\ Len(d) \in Nat BY <1>8, ChainType
  <2>3. QED BY <1>2, <2>1, <2>2
<1>10. /\ \A i \in 1..n : d[i].xmin = c[i].xmin /\ d[i].row = c[i].row
       /\ \A i \in 1..n : i # n => d[i] = c[i]
       /\ d[n].xmax = t
  BY <1>4, <1>5, <1>6 DEF Version
<1>11. \A i \in 1..n : c[i].xmin # t BY <1>2, OwnIsLast
<1> HIDE DEF n
<1>12. c[n].xmin \in C \cup {0, t} => n \in LiveIn(c, C \cup {0, t})
  <2>1. PICK i \in LiveIn(c, C \cup {0, t}) : TRUE BY <1>0
  <2>2. i \in 1..n BY <1>3
  <2>3. CASE i = n BY <2>1, <2>3
  <2>4. CASE i < n
    <3>1. SUFFICES ASSUME c[n].xmin \in C \cup {0, t} PROVE n \in LiveIn(c, C \cup {0, t})
      OBVIOUS
    <3>2. PICK l \in LiveIn(c, C \cup {0, t}) : n <= l
      BY <1>2, <1>4, <2>1, <2>2, <2>4, <3>1 DEF ChainOK, Decided
    <3>3. l = n
      <4>1. l \in 1..n /\ n <= l /\ n \in Nat BY <1>2, <1>3, <3>2
      <4>2. QED BY ONLY <4>1
    <3>4. QED BY <3>3
  <2>5. i = n \/ i < n BY <1>2, <2>2
  <2>6. QED BY <2>3, <2>4, <2>5
<1>13. LiveIn(d, C \cup {0}) = LiveIn(c, C \cup {0})
  <2>1. \A i \in 1..n : i # n => (i \in LiveIn(d, C \cup {0}) <=> i \in LiveIn(c, C \cup {0}))
    BY <1>2, <1>9, <1>10 DEF LiveIn
  <2>2. n \in LiveIn(d, C \cup {0}) <=> c[n].xmin \in C \cup {0}
    BY <1>1, <1>4, <1>9, <1>10 DEF LiveIn
  <2>3. n \in LiveIn(c, C \cup {0}) => c[n].xmin \in C \cup {0} BY DEF LiveIn
  <2>4. c[n].xmin \in C \cup {0} => n \in LiveIn(c, C \cup {0})
    BY <1>2, <1>4, <1>12 DEF LiveIn
  <2>5. LiveIn(d, C \cup {0}) \subseteq 1..n /\ LiveIn(c, C \cup {0}) \subseteq 1..n
    BY <1>2, <1>9 DEF LiveIn
  <2>6. \A i \in 1..n : i \in LiveIn(d, C \cup {0}) <=> i \in LiveIn(c, C \cup {0})
    BY <2>1, <2>2, <2>3, <2>4
  <2>7. QED BY ONLY <2>5, <2>6
<1>14. Written(d, C, A, t)
  BY <1>2, <1>9, <1>10 DEF ChainOK, Written
<1>15. OneEach(d)
  BY <1>2, <1>9, <1>10 DEF ChainOK, OneEach
<1>16. Linked(d, A, t)
  <2>1. ASSUME NEW i \in 1..n, i < n, d[i].xmin \notin A PROVE d[i].xmax # 0
    <3>1. i # n
      <4>1. i \in 1..n /\ n \in Nat /\ i < n BY <1>2, <2>1
      <4>2. QED BY ONLY <4>1
    <3>2. d[i] = c[i] /\ i \in DOMAIN c BY <1>2, <1>10, <3>1
    <3>3. i < Len(c) BY <2>1 DEF n
    <3>4. QED BY <2>1, <3>2, <3>3 DEF ChainOK, Linked
  <2>2. ASSUME NEW i \in 1..n, NEW j \in 1..n, i < j, d[i].xmax = t PROVE d[j].xmin = t
    <3>1. i # n BY <1>2, <2>2
    <3>2. c[i].xmax = t BY <1>10, <2>2, <3>1
    <3>3. c[j].xmin = t BY <1>2, <2>2, <3>2 DEF ChainOK, Linked
    <3>4. QED BY <1>10, <3>3
  <2>3. \A i \in 1..n : d[i].xmin # t BY <1>10, <1>11
  <2>4. QED BY <1>9, <2>1, <2>2, <2>3 DEF Linked
<1>17. Decided(d, C \cup {0})
  BY <1>2, <1>9, <1>10, <1>13 DEF ChainOK, Decided
<1>18. n \in Nat \ {0} BY <1>2, <1>4
<1>19. Closed(d, C, A, t)
  <2>1. \A i \in DOMAIN d : d[i].xmin # t BY <1>9, <1>10, <1>11
  <2>2. \A i \in DOMAIN d : i = Len(d) /\ d[i].xmin \notin A => d[i].xmax # 0
    BY <1>1, <1>9, <1>10
  <2>3. QED BY <1>8, <1>14, <1>15, <1>16, <1>17, <2>1, <2>2 DEF Closed
<1>20. Theirs(d, C) = Theirs(c, C)
  <2>1. \A i \in LiveIn(c, C \cup {0}) : c[i].row = d[i].row
    BY <1>2, <1>10 DEF LiveIn
  <2>2. QED BY <1>8, <1>13, <2>1, SameLive DEF Theirs
<1>21. c[n].xmin \in A \/ c[n].xmax \in A \cup {0}
  <2>1. c[n].xmin \in C \cup A \cup {0, t} /\ c[n].xmax \in C \cup A \cup {0, t}
    BY <1>2, <1>4 DEF ChainOK, Written
  <2>2. n \in LiveIn(c, C \cup {0, t}) => ~(c[n].xmax # 0 /\ c[n].xmax \in C \cup {0, t})
    BY DEF LiveIn
  <2>3. QED BY <1>12, <2>1, <2>2
<1>22. QED
  BY <1>9, <1>10, <1>18, <1>19, <1>20, <1>21 DEF n, d

(* UPDATE of a row that its writer reads.                                  *)
LEMMA UpdateKeeps ==
    ASSUME NEW c, NEW C, NEW A, NEW t, NEW row, Row(row), Held(c, C, A, t), Mine(c, C, t) # Absent
    PROVE  /\ Held(Updated(c, t, row), C, A, t)
           /\ Mine(Updated(c, t, row), C, t) = row
           /\ Theirs(Updated(c, t, row), C) = Theirs(c, C)
<1> DEFINE d == Updated(c, t, row)
           n == Len(c)
<1>0. c \in Seq(Version) /\ Split(C, A, t) /\ ChainOK(c, C, A, t) /\ row # Absent /\ row \in RowSet
  BY DEF Held, Row
<1>2. /\ t \in Txn /\ t \notin C /\ t \notin A /\ t # 0 /\ 0 \notin C /\ 0 \notin A
      BY <1>0, ApartFromTxn DEF Split
<1>3. n \in Nat /\ DOMAIN c = 1..n BY <1>0, ChainType
<1>4. CASE Own(c, t) = {}
  <2>1. d = Inserted(Stamping(c, t), t, row) BY <1>4 DEF Updated, Stamping
  <2>2. Closed(Stamping(c, t), C, A, t) /\ Theirs(Stamping(c, t), C) = Theirs(c, C)
    BY <1>4, StampKeeps
  <2> HIDE DEF d
  <2>3. QED BY <2>1, <2>2, AppendKeeps DEF d
<1>5. CASE Own(c, t) # {}
  <2>1. n \in 1..n /\ Own(c, t) = {n} /\ c[n].xmin = t /\ c[n].xmax = 0
    <3>1. Own(c, t) = {n} BY <1>5, OwnIsLast
    <3>2. n \in Own(c, t) BY <3>1
    <3>3. QED BY <1>3, <3>1, <3>2 DEF Own
  <2>2. d = [i \in 1..n |-> IF i = n THEN [c[n] EXCEPT !.row = row] ELSE c[i]]
    <3>1. d = [i \in DOMAIN c |-> IF i \in Own(c, t) THEN [c[i] EXCEPT !.row = row] ELSE c[i]]
      BY <1>5 DEF Updated
    <3>2. QED BY <1>3, <2>1, <3>1
  <2>3. c[n] \in Version /\ [c[n] EXCEPT !.row = row] \in Version
    <3>1. c[n] \in Version BY <1>0, <1>3, <2>1, ChainType
    <3>2. QED BY <1>0, <3>1 DEF Version
  <2>4. d \in Seq(Version)
    <3>1. \A i \in 1..n : c[i] \in Version BY <1>0, <1>3, ChainType
    <3>2. d \in [1..n -> Version] BY <2>2, <2>3, <3>1
    <3>3. QED BY <1>3, <3>2, SeqDef
  <2>5. DOMAIN d = 1..n /\ Len(d) = n
    <3>1. DOMAIN d = 1..n BY <2>2
    <3>2. DOMAIN d = 1..Len(d) /\ Len(d) \in Nat BY <2>4, ChainType
    <3>3. QED BY <1>3, <3>1, <3>2
  <2>6. /\ \A i \in 1..n : d[i].xmin = c[i].xmin /\ d[i].xmax = c[i].xmax
        /\ \A i \in 1..n : i # n => d[i] = c[i]
        /\ d[n].row = row
    BY <2>1, <2>2, <2>3 DEF Version
  <2> HIDE DEF d, n
  <2>7. \A S : LiveIn(d, S) = LiveIn(c, S)
    BY <1>3, <2>5, <2>6 DEF LiveIn
  <2>8. Written(d, C, A, t)
    <3>1. \A i \in 1..n : d[i].row # Absent
      BY <1>0, <1>3, <2>6 DEF ChainOK, Written
    <3>2. QED BY <1>0, <1>3, <2>5, <2>6, <3>1 DEF ChainOK, Written
  <2>9. OneEach(d) BY <1>0, <1>3, <2>5, <2>6 DEF ChainOK, OneEach
  <2>10. Linked(d, A, t)
    <3>1. \A i \in 1..n : i < n /\ c[i].xmin \notin A => c[i].xmax # 0
      BY <1>0, <1>3 DEF ChainOK, Linked, n
    <3>2. \A i, j \in 1..n : i < j /\ c[i].xmax = t => c[j].xmin = t
      BY <1>0, <1>3 DEF ChainOK, Linked
    <3>3. \A i \in 1..n : c[i].xmin = t => c[i].xmax = 0
      BY <1>0, <1>3 DEF ChainOK, Linked
    <3>4. QED BY <2>5, <2>6, <3>1, <3>2, <3>3 DEF Linked
  <2>11. \A S : Decided(c, S) => Decided(d, S)
    BY <1>3, <2>5, <2>6, <2>7 DEF Decided
  <2>12. ViewOf(d, C \cup {0, t}) = row
    <3>1. n \in LiveIn(d, C \cup {0, t}) BY <2>1, <2>5, <2>6 DEF LiveIn
    <3>2. \A j \in LiveIn(d, C \cup {0, t}) : j <= n BY <1>3, <2>5 DEF LiveIn
    <3>3. QED BY <2>4, <2>6, <3>1, <3>2, ViewIs
  <2>13. ViewOf(c, C \cup {0}) = ViewOf(d, C \cup {0})
    <3>1. n \notin LiveIn(c, C \cup {0}) BY <1>2, <2>1 DEF LiveIn
    <3>2. \A i \in LiveIn(c, C \cup {0}) : c[i].row = d[i].row
      BY <1>3, <2>6, <3>1 DEF LiveIn
    <3>3. LiveIn(c, C \cup {0}) = LiveIn(d, C \cup {0}) BY <2>7
    <3>4. QED BY <1>0, <2>4, <3>2, <3>3, SameLive
  <2>14. Decided(d, C \cup {0}) /\ Decided(d, C \cup {0, t})
    BY <1>0, <2>11 DEF ChainOK
  <2>15. QED
    BY <1>0, <2>4, <2>8, <2>9, <2>10, <2>12, <2>13, <2>14 DEF ChainOK, Held, Mine, Theirs, d
<1>6. QED BY <1>4, <1>5

\* no version bears the id of a transaction that rolled back as its deleter
Unstamped(c, A) == \A i \in DOMAIN c : c[i].xmax \notin A

(* A chain in which every version is stamped by one that is seen reads as  *)
(* absent.                                                                 *)
LEMMA NoneLive ==
    ASSUME NEW c, NEW C, NEW A, NEW t, Split(C, A, t), Written(c, C, A, t), Unstamped(c, A),
           \A i \in DOMAIN c : c[i].xmin \notin A => c[i].xmax # 0
    PROVE  LiveIn(c, C \cup {0, t}) = {} /\ Mine(c, C, t) = Absent /\ Decided(c, C \cup {0, t})
<1>1. t # 0 /\ t \notin A /\ 0 \notin A BY ApartFromTxn DEF Split
<1>2. ASSUME NEW i \in DOMAIN c, c[i].xmin \in C \cup {0, t} PROVE c[i].xmax # 0 /\ c[i].xmax \in C \cup {0, t}
  <2>1. c[i].xmin \notin A BY <1>1, <1>2 DEF Split
  <2>2. c[i].xmax \notin A /\ c[i].xmax # 0 BY <2>1 DEF Unstamped
  <2>3. QED BY <2>2 DEF Written
<1>3. LiveIn(c, C \cup {0, t}) = {} BY <1>2 DEF LiveIn
<1>4. QED BY <1>3 DEF ViewOf, Mine, Decided

(* DELETE of a row that its writer reads.                                  *)
LEMMA DeleteKeeps ==
    ASSUME NEW c, NEW C, NEW A, NEW t, Held(c, C, A, t), Mine(c, C, t) # Absent, Unstamped(c, A)
    PROVE  /\ Held(Deleted(c, t), C, A, t)
           /\ Mine(Deleted(c, t), C, t) = Absent
           /\ Theirs(Deleted(c, t), C) = Theirs(c, C)
<1> DEFINE d == Deleted(c, t)
           n == Len(c)
<1>0. c \in Seq(Version) /\ Split(C, A, t) /\ ChainOK(c, C, A, t)
  BY DEF Held
<1>1. /\ t \in Txn /\ t \notin C /\ t \notin A /\ t # 0 /\ 0 \notin C /\ 0 \notin A
  BY <1>0, ApartFromTxn DEF Split
<1>2. n \in Nat /\ DOMAIN c = 1..n BY <1>0, ChainType
<1>3. CASE Own(c, t) = {}
  <2>1. PICK i \in LiveIn(c, C \cup {0, t}) : TRUE BY <1>0, ViewIs DEF Mine
  <2>2. i \in 1..n /\ c[i].xmin \notin A /\ c[i].xmax = 0
    <3>1. i \in 1..n /\ c[i].xmin \in C \cup {0, t} /\ ~(c[i].xmax # 0 /\ c[i].xmax \in C \cup {0, t})
      BY <1>2, <2>1 DEF LiveIn
    <3>2. c[i].xmax \in C \cup A \cup {0, t} /\ c[i].xmax \notin A
      BY <1>0, <1>2, <3>1 DEF ChainOK, Written, Unstamped
    <3>3. c[i].xmin \notin A BY <1>0, <1>1, <3>1 DEF Split
    <3>4. QED BY <3>1, <3>2, <3>3
  <2>3. i = n
    <3>1. ~(i < n) BY <1>0, <1>2, <2>2 DEF ChainOK, Linked
    <3> HIDE DEF n
    <3>2. QED BY ONLY <1>2, <2>2, <3>1
  <2>4. Last(c).xmax = 0 BY <2>2, <2>3 DEF Last
  <2>5. d = Stamping(c, t) BY <1>3, <2>4 DEF Deleted, Stamping
  <2>6. /\ Closed(d, C, A, t) /\ Theirs(d, C) = Theirs(c, C)
        /\ n \in Nat \ {0} /\ Len(d) = n
        /\ \A j \in 1..n : j # n => d[j] = c[j]
        /\ d[n].xmax = t
    BY <1>3, <2>5, StampKeeps
  <2> HIDE DEF d, n
  <2>7. DOMAIN d = 1..n BY <2>6, ChainType DEF Closed
  <2>8. Unstamped(d, A) BY <1>1, <1>2, <2>6, <2>7 DEF Unstamped
  <2>9. ASSUME NEW j \in DOMAIN d, d[j].xmin \notin A PROVE d[j].xmax # 0
    <3>1. CASE j = n BY <1>1, <2>6, <3>1
    <3>2. CASE j # n
      <4>1. j < n /\ j \in DOMAIN c /\ d[j] = c[j] BY <1>2, <2>6, <2>7, <3>2
      <4>2. QED BY <1>0, <2>9, <4>1 DEF ChainOK, Linked, n
    <3>3. QED BY <3>1, <3>2
  <2>10. Mine(d, C, t) = Absent /\ Decided(d, C \cup {0, t})
    BY <1>0, <2>6, <2>8, <2>9, NoneLive DEF Closed
  <2>11. Held(d, C, A, t)
    BY <2>6, <2>10 DEF Held, Closed, ChainOK
  <2>12. QED BY <2>6, <2>10, <2>11 DEF d
<1>4. CASE Own(c, t) # {}
  <2> DEFINE m == n - 1
  <2>1. n \in 1..n /\ Own(c, t) = {n} /\ c[n].xmin = t
    <3>1. Own(c, t) = {n} BY <1>4, OwnIsLast
    <3>2. n \in Own(c, t) BY <3>1
    <3>3. QED BY <1>2, <3>1, <3>2 DEF Own
  <2>2. d = RemoveAt(c, n)
    <3>1. (CHOOSE i \in Own(c, t) : TRUE) = n BY <2>1
    <3>2. QED BY <1>4, <3>1 DEF Deleted
  <2>3. d \in Seq(Version) /\ Len(d) = m /\ \A i \in 1..m : d[i] = c[i]
    <3>1. c \in Seq(Version) /\ n \in 1..Len(c) /\ Len(c) - 1 = m
      BY <1>0, <2>1
    <3>2. /\ RemoveAt(c, n) \in Seq(Version) /\ Len(RemoveAt(c, n)) = Len(c) - 1
          /\ \A i \in 1..(n - 1) : RemoveAt(c, n)[i] = c[i]
      BY ONLY <3>1, RemoveAtProperties
    <3>3. QED BY <2>2, <3>1, <3>2
  <2> HIDE DEF d, n
  <2>4. m \in Nat /\ \A i \in 1..m : i \in 1..n /\ i < n /\ i # n
    BY <1>2, <2>1
  <2>5. \A i \in 1..n : i # n => i \in 1..m BY <1>2, <2>1
  <2> HIDE DEF m
  <2>6. DOMAIN d = 1..m BY <2>3, ChainType
  <2>7. Written(d, C, A, t) BY <1>0, <1>2, <2>3, <2>4, <2>6 DEF ChainOK, Written
  <2>8. OneEach(d) BY <1>0, <1>2, <2>3, <2>4, <2>6 DEF ChainOK, OneEach
  <2>9. Unstamped(d, A) BY <1>2, <2>3, <2>4, <2>6 DEF Unstamped
  <2>10. \A i \in DOMAIN d : d[i].xmin \notin A => d[i].xmax # 0
    <3>1. \A i \in 1..n : i < n /\ c[i].xmin \notin A => c[i].xmax # 0
      BY <1>0, <1>2 DEF ChainOK, Linked, n
    <3>2. QED BY <2>3, <2>4, <2>6, <3>1
  <2>11. Linked(d, A, t)
    <3>1. \A i, j \in 1..n : i < j /\ c[i].xmax = t => c[j].xmin = t
      BY <1>0, <1>2 DEF ChainOK, Linked
    <3>2. \A i \in 1..n : c[i].xmin = t => c[i].xmax = 0
      BY <1>0, <1>2 DEF ChainOK, Linked
    <3>3. QED BY <2>3, <2>4, <2>6, <2>10, <3>1, <3>2 DEF Linked
  <2>12. LiveIn(d, C \cup {0}) = LiveIn(c, C \cup {0})
    <3>1. n \notin LiveIn(c, C \cup {0}) BY <1>1, <2>1 DEF LiveIn
    <3>2. LiveIn(c, C \cup {0}) \subseteq 1..n /\ LiveIn(d, C \cup {0}) \subseteq 1..m
      BY <1>2, <2>6 DEF LiveIn
    <3>3. \A i \in 1..m : i \in LiveIn(d, C \cup {0}) <=> i \in LiveIn(c, C \cup {0})
      BY <1>2, <2>3, <2>4, <2>6 DEF LiveIn
    <3>4. QED BY <2>4, <2>5, <3>1, <3>2, <3>3
  <2>13. Theirs(d, C) = Theirs(c, C)
    <3>1. \A i \in LiveIn(c, C \cup {0}) : c[i].row = d[i].row
      BY <2>3, <2>6, <2>12 DEF LiveIn
    <3>2. QED BY <1>0, <2>3, <2>12, <3>1, SameLive DEF Theirs
  <2>14. Decided(d, C \cup {0})
    <3>1. \A i, j \in 1..n : i < j /\ i \in LiveIn(c, C \cup {0}) /\ c[j].xmin \in C \cup {0}
             => \E l \in LiveIn(c, C \cup {0}) : j <= l
      BY <1>0, <1>2 DEF ChainOK, Decided
    <3>2. QED BY <2>3, <2>4, <2>6, <2>12, <3>1 DEF Decided
  <2>15. Mine(d, C, t) = Absent /\ Decided(d, C \cup {0, t})
    BY <1>0, <2>7, <2>9, <2>10, NoneLive
  <2>16. Held(d, C, A, t)
    BY <1>0, <2>3, <2>7, <2>8, <2>11, <2>14, <2>15 DEF Held, ChainOK
  <2>17. QED BY <2>13, <2>15, <2>16 DEF d
<1>5. QED BY <1>3, <1>4

-----------------------------------------------------------------------------
(* Locking a chain, and the end of a transaction.                          *)

\* C and A, apart, and someone who is in neither, who may be nobody
Apart(C, A, o) == C \subseteq Txn /\ A \subseteq Txn /\ C \cap A = {} /\ o \in (Txn \cup {None}) \ (C \cup A)

(* Who has not written is not mentioned: it reads what a new one reads, and *)
(* whether it is counted as seen changes nothing.                          *)
LEMMA Unmentioned ==
    ASSUME NEW c, NEW C, NEW A, NEW o, NEW t, c \in Seq(Version), Apart(C, A, o), Apart(C, A, t), t # o,
           Written(c, C, A, o)
    PROVE  /\ \A i \in DOMAIN c : c[i].xmin # t /\ c[i].xmax # t
           /\ Mine(c, C, t) = Theirs(c, C)
           /\ Decided(c, C \cup {0}) => Decided(c, C \cup {0, t})
<1>1. t # 0 BY ApartFromTxn DEF Apart
<1>2. \A i \in DOMAIN c : c[i].xmin # t /\ c[i].xmax # t
  BY <1>1 DEF Written, Apart
<1>3. SeenAlike(c, C \cup {0, t}, C \cup {0})
  BY <1>2 DEF SeenAlike
<1>4. QED BY <1>2, <1>3, SameSeen DEF Mine, Theirs

(* t takes the lock of a chain that nobody has locked.                     *)
LEMMA LockKeeps ==
    ASSUME NEW c, NEW C, NEW A, NEW t, c \in Seq(Version), Split(C, A, t), ChainOK(c, C, A, None)
    PROVE  Held(c, C, A, t) /\ Mine(c, C, t) = Theirs(c, C)
<1>1. /\ t # 0 /\ t # None /\ None \notin C \cup A /\ Apart(C, A, None) /\ Apart(C, A, t)
      /\ \A i \in DOMAIN c : c[i].xmin # None /\ c[i].xmax # None
  <2>1. None \notin Txn \cup {0} /\ 0 \notin Txn BY ApartFromTxn
  <2>2. QED BY <2>1, ChainType DEF Split, Apart
<1>2. Written(c, C, A, None) /\ OneEach(c) /\ Linked(c, A, None) /\ Decided(c, C \cup {0})
  BY DEF ChainOK
<1>3. /\ \A i \in DOMAIN c : c[i].xmin # t /\ c[i].xmax # t
      /\ Mine(c, C, t) = Theirs(c, C) /\ Decided(c, C \cup {0, t})
  BY <1>1, <1>2, Unmentioned
<1>4. Written(c, C, A, t) BY <1>1, <1>2 DEF Written
<1>5. Linked(c, A, t) BY <1>2, <1>3 DEF Linked
<1>6. QED BY <1>2, <1>3, <1>4, <1>5 DEF Held, ChainOK

(* t, which has the lock, commits: what it read is what a new one reads.   *)
LEMMA CommitKeeps ==
    ASSUME NEW c, NEW C, NEW A, NEW t, Held(c, C, A, t)
    PROVE  ChainOK(c, C \cup {t}, A, None) /\ Theirs(c, C \cup {t}) = Mine(c, C, t)
<1>1. c \in Seq(Version) /\ Split(C, A, t) /\ ChainOK(c, C, A, t) BY DEF Held
<1>2. \A i \in DOMAIN c : c[i].xmin # None /\ c[i].xmax # None
  <2>1. None \notin Txn \cup {0} BY ApartFromTxn
  <2>2. QED BY <1>1, <2>1, ChainType
<1>3. (C \cup {t}) \cup {0} = C \cup {0, t} OBVIOUS
<1>4. SeenAlike(c, C \cup {0, t}, (C \cup {t}) \cup {0, None})
  BY <1>2 DEF SeenAlike
<1>5. Decided(c, C \cup {0, t}) BY <1>1 DEF ChainOK
<1>6. Decided(c, (C \cup {t}) \cup {0, None}) BY <1>4, <1>5, SameSeen
<1>7. Written(c, C \cup {t}, A, None) BY <1>1 DEF ChainOK, Written
<1>8. Linked(c, A, None) BY <1>1, <1>2 DEF ChainOK, Linked
<1>9. QED BY <1>1, <1>3, <1>5, <1>6, <1>7, <1>8 DEF ChainOK, Theirs, Mine

(* t, which has the lock, rolls back.                                      *)
LEMMA AbortKeeps ==
    ASSUME NEW c, NEW C, NEW A, NEW t, Held(c, C, A, t)
    PROVE  ChainOK(c, C, A \cup {t}, None)
<1>1. c \in Seq(Version) /\ Split(C, A, t) /\ ChainOK(c, C, A, t) BY DEF Held
<1>2. \A i \in DOMAIN c : c[i].xmin # None /\ c[i].xmax # None
  <2>1. None \notin Txn \cup {0} BY ApartFromTxn
  <2>2. QED BY <1>1, <2>1, ChainType
<1>3. SeenAlike(c, C \cup {0}, C \cup {0, None})
  BY <1>2 DEF SeenAlike
<1>4. Decided(c, C \cup {0}) BY <1>1 DEF ChainOK
<1>5. Decided(c, C \cup {0, None}) BY <1>3, <1>4, SameSeen
<1>6. Written(c, C, A \cup {t}, None) BY <1>1 DEF ChainOK, Written
<1>7. Linked(c, A \cup {t}, None) BY <1>1, <1>2 DEF ChainOK, Linked
<1>8. QED BY <1>1, <1>4, <1>5, <1>6, <1>7 DEF ChainOK

Plus(X, t) == X \cup {t}

(* The end of a transaction that has not the lock changes nothing.         *)
LEMMA EndOther ==
    ASSUME NEW c, NEW C, NEW A, NEW o, NEW t, c \in Seq(Version), Apart(C, A, o), Split(C, A, t), t # o,
           ChainOK(c, C, A, o)
    PROVE  /\ ChainOK(c, Plus(C, t), A, o) /\ ChainOK(c, C, Plus(A, t), o)
           /\ Theirs(c, Plus(C, t)) = Theirs(c, C)
           /\ Mine(c, Plus(C, t), o) = Mine(c, C, o)
<1> USE DEF Plus
<1>1. Apart(C, A, t) BY DEF Split, Apart
<1>2. \A i \in DOMAIN c : c[i].xmin # t /\ c[i].xmax # t
  BY <1>1, Unmentioned DEF ChainOK
<1>3. SeenAlike(c, C \cup {0}, (C \cup {t}) \cup {0}) /\ SeenAlike(c, C \cup {0, o}, (C \cup {t}) \cup {0, o})
  BY <1>2 DEF SeenAlike
<1>4. /\ ViewOf(c, C \cup {0}) = ViewOf(c, (C \cup {t}) \cup {0})
      /\ ViewOf(c, C \cup {0, o}) = ViewOf(c, (C \cup {t}) \cup {0, o})
      /\ Decided(c, (C \cup {t}) \cup {0}) /\ Decided(c, (C \cup {t}) \cup {0, o})
  BY <1>3, SameSeen DEF ChainOK
<1>5. Written(c, C \cup {t}, A, o) /\ Written(c, C, A \cup {t}, o)
  BY DEF ChainOK, Written
<1>6. Linked(c, A \cup {t}, o) /\ Linked(c, A, o)
  BY DEF ChainOK, Linked
<1>7. QED BY <1>4, <1>5, <1>6 DEF ChainOK, Theirs, Mine

-----------------------------------------------------------------------------
(* Only the writer's id is added to a chain.                               *)

OnlyFrom(c, X) == \A i \in DOMAIN c : c[i].xmin \in X /\ c[i].xmax \in X

\* who sees neither t nor what was rolled back reads the same in d as in c
Hides(c, d, A, t) == \A S : S \cap (A \cup {t}) = {} => ViewOf(d, S) = ViewOf(c, S)

\* a write of t takes the chain c to the chain d
Wrote(c, d, C, A, t) ==
    /\ Held(d, C, A, t) /\ Theirs(d, C) = Theirs(c, C) /\ Hides(c, d, A, t)
    /\ \A X : 0 \in X /\ t \in X /\ OnlyFrom(c, X) => OnlyFrom(d, X)

(* INSERT, UPDATE and DELETE add no id but the writer's.                   *)
LEMMA WritesOnly ==
    ASSUME NEW c, NEW C, NEW A, NEW t, NEW row, NEW X, Held(c, C, A, t), Row(row),
           0 \in X, t \in X, OnlyFrom(c, X)
    PROVE  /\ OnlyFrom(Inserted(c, t, row), X)
           /\ Mine(c, C, t) # Absent => OnlyFrom(Updated(c, t, row), X) /\ OnlyFrom(Deleted(c, t), X)
<1> DEFINE n == Len(c)
           v == [xmin |-> t, xmax |-> 0, row |-> row]
<1>1. c \in Seq(Version) /\ n \in Nat /\ DOMAIN c = 1..n BY ChainType DEF Held
<1>2. \A e \in Seq(Version) : Len(e) = n /\ OnlyFrom(e, X) => OnlyFrom(Inserted(e, t, row), X)
  <2>1. v \in Version /\ v.xmin = t /\ v.xmax = 0 BY DEF Version, Held, Split, Row
  <2> TAKE e \in Seq(Version)
  <2> DEFINE d == Inserted(e, t, row)
  <2>2. /\ d \in Seq(Version) /\ (\A i \in 1..Len(e) : d[i] = e[i]) /\ d[Len(d)] = v
        /\ \A i \in 1..Len(d) : i \in 1..Len(e) \/ i = Len(d)
    <3> HIDE DEF v
    <3>1. d = Append(e, v) BY DEF Inserted, v
    <3> HIDE DEF d
    <3>2. QED BY <2>1, <3>1, Pushed
  <2> HIDE DEF d, v
  <2>3. DOMAIN d = 1..Len(d) /\ DOMAIN e = 1..Len(e) BY <2>2, ChainType
  <2>4. OnlyFrom(e, X) => OnlyFrom(d, X) BY <2>1, <2>2, <2>3 DEF OnlyFrom
  <2>5. QED BY <2>4 DEF d
<1>3. CASE Own(c, t) = {} /\ Mine(c, C, t) # Absent
  <2> DEFINE e == Stamping(c, t)
  <2>1. /\ e \in Seq(Version) /\ n \in Nat \ {0} /\ Len(e) = n
        /\ \A i \in 1..n : e[i].xmin = c[i].xmin
        /\ \A i \in 1..n : i # n => e[i] = c[i]
        /\ e[n].xmax = t
    <3>1. /\ Closed(e, C, A, t) /\ n \in Nat \ {0} /\ Len(e) = n
          /\ \A i \in 1..n : e[i].xmin = c[i].xmin
          /\ \A i \in 1..n : i # n => e[i] = c[i]
          /\ e[n].xmax = t
      BY <1>3, StampKeeps
    <3>2. QED BY <3>1 DEF Closed
  <2>2. Updated(c, t, row) = Inserted(e, t, row) /\ Deleted(c, t) \in {c, e}
    BY <1>3 DEF Updated, Deleted, Stamping
  <2> HIDE DEF e, n
  <2>3. DOMAIN e = 1..n BY <2>1, ChainType
  <2>4. OnlyFrom(e, X) BY <1>1, <2>1, <2>3 DEF OnlyFrom
  <2>5. QED BY <1>1, <1>2, <2>1, <2>2, <2>4
<1>4. CASE Own(c, t) # {} /\ Mine(c, C, t) # Absent
  <2>1. n \in 1..n /\ Own(c, t) = {n}
    <3>1. Own(c, t) = {n} BY <1>4, OwnIsLast
    <3>2. n \in Own(c, t) BY <3>1
    <3>3. QED BY <1>1, <3>1, <3>2 DEF Own
  <2>2. Updated(c, t, row) = [i \in DOMAIN c |-> IF i \in Own(c, t) THEN [c[i] EXCEPT !.row = row] ELSE c[i]]
    BY <1>4 DEF Updated
  <2>3. \A i \in DOMAIN c : c[i] \in Version BY <1>1, ChainType
  <2>4. OnlyFrom(Updated(c, t, row), X)
    <3>1. \A i \in DOMAIN c : LET w == [c[i] EXCEPT !.row = row] IN w.xmin = c[i].xmin /\ w.xmax = c[i].xmax
      BY <2>3 DEF Version
    <3>2. QED BY <2>2, <3>1 DEF OnlyFrom
  <2> DEFINE d == Deleted(c, t)
             m == n - 1
  <2>5. d = RemoveAt(c, n)
    <3>1. (CHOOSE i \in Own(c, t) : TRUE) = n BY <2>1
    <3>2. QED BY <1>4, <3>1 DEF Deleted
  <2>6. d \in Seq(Version) /\ Len(d) = m /\ \A i \in 1..m : d[i] = c[i]
    BY <1>1, <2>1, <2>5, RemoveAtProperties
  <2> HIDE DEF d, n
  <2>7. \A i \in 1..m : i \in 1..n BY <1>1
  <2>8. DOMAIN d = 1..m BY <2>6, ChainType
  <2> HIDE DEF m
  <2>9. OnlyFrom(d, X) BY <1>1, <2>6, <2>7, <2>8 DEF OnlyFrom
  <2>10. QED BY <1>1, <1>2, <2>4, <2>9 DEF d, n
<1>5. QED BY <1>1, <1>2, <1>3, <1>4

(* INSERT, UPDATE and DELETE show under no snapshot that does not see the  *)
(* writer, were it taken long ago.                                         *)
LEMMA WritesHide ==
    ASSUME NEW c, NEW C, NEW A, NEW t, NEW row, Held(c, C, A, t), Row(row)
    PROVE  /\ Hides(c, Inserted(c, t, row), A, t)
           /\ Mine(c, C, t) # Absent => Hides(c, Updated(c, t, row), A, t) /\ Hides(c, Deleted(c, t), A, t)
<1> DEFINE n == Len(c)
           v == [xmin |-> t, xmax |-> 0, row |-> row]
<1>1. c \in Seq(Version) /\ n \in Nat /\ DOMAIN c = 1..n BY ChainType DEF Held
<1>2. \A e \in Seq(Version) : Hides(e, Inserted(e, t, row), A, t)
  <2>1. v \in Version /\ v.xmin = t BY DEF Version, Held, Split, Row
  <2> TAKE e \in Seq(Version)
  <2> DEFINE d == Inserted(e, t, row)
  <2>2. /\ d \in Seq(Version) /\ (\A i \in 1..Len(e) : d[i] = e[i]) /\ d[Len(d)] = v
        /\ \A i \in 1..Len(d) : i \in 1..Len(e) \/ i = Len(d)
        /\ \A i \in 1..Len(e) : i \in 1..Len(d)
    <3> HIDE DEF v
    <3>1. d = Append(e, v) BY DEF Inserted, v
    <3> HIDE DEF d
    <3>2. /\ d \in Seq(Version) /\ (\A i \in 1..Len(e) : d[i] = e[i]) /\ d[Len(d)] = v
          /\ \A i \in 1..Len(d) : i \in 1..Len(e) \/ i = Len(d)
      BY <2>1, <3>1, Pushed
    <3>3. Len(d) = Len(e) + 1 /\ Len(e) \in Nat BY <2>1, <3>1, Pushed
    <3>4. QED BY <3>2, <3>3
  <2> HIDE DEF d, v
  <2>3. DOMAIN d = 1..Len(d) /\ DOMAIN e = 1..Len(e) BY <2>2, ChainType
  <2>4. SUFFICES ASSUME NEW S, S \cap (A \cup {t}) = {} PROVE ViewOf(d, S) = ViewOf(e, S)
    BY DEF Hides, d
  <2>5. LiveIn(d, S) = LiveIn(e, S) BY <2>1, <2>2, <2>3, <2>4 DEF LiveIn
  <2>6. \A i \in LiveIn(d, S) : d[i].row = e[i].row BY <2>2, <2>3, <2>5 DEF LiveIn
  <2>7. QED BY <2>2, <2>5, <2>6, SameLive
<1>3. CASE Own(c, t) = {} /\ Mine(c, C, t) # Absent
  <2> DEFINE e == Stamping(c, t)
  <2>1. /\ e \in Seq(Version) /\ n \in Nat \ {0} /\ Len(e) = n
        /\ \A i \in 1..n : e[i].xmin = c[i].xmin /\ e[i].row = c[i].row
        /\ \A i \in 1..n : i # n => e[i] = c[i]
        /\ e[n].xmax = t
        /\ c[n].xmin \in A \/ c[n].xmax \in A \cup {0}
    <3>1. /\ Closed(e, C, A, t) /\ n \in Nat \ {0} /\ Len(e) = n
          /\ \A i \in 1..n : e[i].xmin = c[i].xmin /\ e[i].row = c[i].row
          /\ \A i \in 1..n : i # n => e[i] = c[i]
          /\ e[n].xmax = t
          /\ c[n].xmin \in A \/ c[n].xmax \in A \cup {0}
      BY <1>3, StampKeeps
    <3>2. QED BY <3>1 DEF Closed
  <2>2. Updated(c, t, row) = Inserted(e, t, row) /\ Deleted(c, t) \in {c, e}
    BY <1>3 DEF Updated, Deleted, Stamping
  <2> HIDE DEF e, n
  <2>3. DOMAIN e = 1..n BY <2>1, ChainType
  <2>4. Hides(c, e, A, t)
    <3>1. SUFFICES ASSUME NEW S, S \cap (A \cup {t}) = {} PROVE ViewOf(e, S) = ViewOf(c, S)
      BY DEF Hides
    <3>2. \A i \in 1..n : i \in LiveIn(e, S) <=> i \in LiveIn(c, S)
      <4> TAKE i \in 1..n
      <4>1. CASE i # n BY <1>1, <2>1, <2>3, <4>1 DEF LiveIn
      <4>2. CASE i = n BY <1>1, <2>1, <2>3, <3>1, <4>2 DEF LiveIn
      <4>3. QED BY <4>1, <4>2
    <3>3. LiveIn(e, S) \subseteq 1..n /\ LiveIn(c, S) \subseteq 1..n BY <1>1, <2>3 DEF LiveIn
    <3>4. LiveIn(e, S) = LiveIn(c, S) BY <3>2, <3>3
    <3>5. \A i \in LiveIn(e, S) : e[i].row = c[i].row BY <2>1, <3>3
    <3>6. QED BY <1>1, <2>1, <3>4, <3>5, SameLive
  <2>5. Hides(e, Inserted(e, t, row), A, t) BY <1>2, <2>1
  <2>6. Hides(c, Updated(c, t, row), A, t) BY <2>2, <2>4, <2>5 DEF Hides
  <2>7. Hides(c, Deleted(c, t), A, t) BY <2>2, <2>4 DEF Hides
  <2>8. QED BY <1>1, <1>2, <2>6, <2>7
<1>4. CASE Own(c, t) # {} /\ Mine(c, C, t) # Absent
  <2>1. n \in 1..n /\ Own(c, t) = {n} /\ c[n].xmin = t
    <3>1. Own(c, t) = {n} BY <1>4, OwnIsLast
    <3>2. n \in Own(c, t) BY <3>1
    <3>3. QED BY <1>1, <3>1, <3>2 DEF Own
  <2>2. \A S : S \cap (A \cup {t}) = {} => LiveIn(c, S) \subseteq 1..(n - 1)
    <3> TAKE S
    <3>1. S \cap (A \cup {t}) = {} => n \notin LiveIn(c, S) BY <2>1 DEF LiveIn
    <3>2. LiveIn(c, S) \subseteq 1..n BY <1>1 DEF LiveIn
    <3> HIDE DEF n
    <3>3. QED BY <1>1, <3>1, <3>2
  <2>3. Hides(c, Updated(c, t, row), A, t)
    <3> DEFINE d == Updated(c, t, row)
    <3>1. d = [i \in DOMAIN c |-> IF i \in Own(c, t) THEN [c[i] EXCEPT !.row = row] ELSE c[i]]
      BY <1>4 DEF Updated
    <3>2. d \in Seq(Version) BY <1>4, UpdateKeeps DEF Held
    <3> HIDE DEF d
    <3>3. DOMAIN d = 1..n BY <1>1, <3>1
    <3>4. \A i \in DOMAIN c : c[i] \in Version BY <1>1, ChainType
    <3>5. \A i \in 1..n : d[i].xmin = c[i].xmin /\ d[i].xmax = c[i].xmax /\ (i # n => d[i] = c[i])
      BY <1>1, <2>1, <3>1, <3>4 DEF Version
    <3>6. SUFFICES ASSUME NEW S, S \cap (A \cup {t}) = {} PROVE ViewOf(d, S) = ViewOf(c, S)
      BY DEF Hides, d
    <3>7. LiveIn(d, S) = LiveIn(c, S) BY <1>1, <3>3, <3>5 DEF LiveIn
    <3>8. \A i \in LiveIn(d, S) : d[i].row = c[i].row
      <4> TAKE i \in LiveIn(d, S)
      <4>1. i \in 1..(n - 1) BY <2>2, <3>6, <3>7
      <4> HIDE DEF n
      <4>2. i \in 1..n /\ i # n BY <1>1, <4>1
      <4>3. QED BY <3>5, <4>2
    <3>9. QED BY <1>1, <3>2, <3>7, <3>8, SameLive
  <2>4. Hides(c, Deleted(c, t), A, t)
    <3> DEFINE d == Deleted(c, t)
               m == n - 1
    <3>1. d = RemoveAt(c, n)
      <4>1. (CHOOSE i \in Own(c, t) : TRUE) = n BY <2>1
      <4>2. QED BY <1>4, <4>1 DEF Deleted
    <3>2. d \in Seq(Version) /\ Len(d) = m /\ \A i \in 1..m : d[i] = c[i]
      BY <1>1, <2>1, <3>1, RemoveAtProperties
    <3>3. \A i \in 1..m : i \in 1..n BY <1>1
    <3>4. SUFFICES ASSUME NEW S, S \cap (A \cup {t}) = {} PROVE ViewOf(d, S) = ViewOf(c, S)
      BY DEF Hides
    <3>5. LiveIn(c, S) \subseteq 1..m BY <2>2, <3>4
    <3> HIDE DEF d, n
    <3>6. DOMAIN d = 1..m BY <3>2, ChainType
    <3> HIDE DEF m
    <3>7. LiveIn(d, S) = LiveIn(c, S) BY <1>1, <3>2, <3>3, <3>5, <3>6 DEF LiveIn
    <3>8. \A i \in LiveIn(d, S) : d[i].row = c[i].row BY <3>2, <3>5, <3>7
    <3>9. QED BY <1>1, <3>2, <3>7, <3>8, SameLive
  <2>5. QED BY <1>1, <1>2, <2>3, <2>4
<1>5. QED BY <1>1, <1>2, <1>3, <1>4

(* Every write of a transaction that has the lock keeps the chain in order *)
(* and out of sight of the others.                                         *)
LEMMA Writes ==
    ASSUME NEW c, NEW C, NEW A, NEW t, NEW row, Held(c, C, A, t), Row(row)
    PROVE  /\ Mine(c, C, t) = Absent =>
                 Wrote(c, Inserted(c, t, row), C, A, t) /\ Mine(Inserted(c, t, row), C, t) = row
           /\ Mine(c, C, t) # Absent =>
                 Wrote(c, Updated(c, t, row), C, A, t) /\ Mine(Updated(c, t, row), C, t) = row
           /\ Mine(c, C, t) # Absent /\ Unstamped(c, A) =>
                 Wrote(c, Deleted(c, t), C, A, t) /\ Mine(Deleted(c, t), C, t) = Absent
<1>1. CASE Mine(c, C, t) = Absent
  BY <1>1, InsertKeeps, WritesOnly, WritesHide DEF Wrote
<1>2. CASE Mine(c, C, t) # Absent
  <2>1. Wrote(c, Updated(c, t, row), C, A, t) /\ Mine(Updated(c, t, row), C, t) = row
    BY <1>2, UpdateKeeps, WritesOnly, WritesHide DEF Wrote
  <2>2. Unstamped(c, A) => Wrote(c, Deleted(c, t), C, A, t) /\ Mine(Deleted(c, t), C, t) = Absent
    BY <1>2, DeleteKeeps, WritesOnly, WritesHide DEF Wrote
  <2>3. QED BY <1>2, <2>1, <2>2
<1>3. QED BY <1>1, <1>2

-----------------------------------------------------------------------------
(* Garbage collection.                                                     *)

\* versions that nobody reads any more: their writer rolled back, or their deleter committed
Dead(v, C, A) == v.xmin \in A \/ v.xmax \in C

\* d is what is left of c when some dead versions are gone; f says where it was
Leaves(d, c, f, C, A) ==
    /\ f \in [1..Len(d) -> 1..Len(c)]
    /\ \A p, q \in 1..Len(d) : p < q => f[p] < f[q]
    /\ \A p \in 1..Len(d) : d[p] = c[f[p]]
    /\ \A i \in 1..Len(c) : Dead(c[i], C, A) \/ \E p \in 1..Len(d) : f[p] = i

Left(d, c, C, A) == d \in Seq(Version) /\ \E f : Leaves(d, c, f, C, A)

(* Who sees only versions that are left reads the same.                    *)
LEMMA LeavesReads ==
    ASSUME NEW c, NEW d, NEW C, NEW A, NEW f, NEW S, c \in Seq(Version), d \in Seq(Version),
           Leaves(d, c, f, C, A), \A i \in LiveIn(c, S) : ~Dead(c[i], C, A)
    PROVE  ViewOf(d, S) = ViewOf(c, S)
<1> DEFINE n == Len(c)
           m == Len(d)
<1>1. n \in Nat /\ DOMAIN c = 1..n /\ m \in Nat /\ DOMAIN d = 1..m
  BY ChainType
<1>2. /\ \A p \in 1..m : f[p] \in 1..n /\ d[p] = c[f[p]]
      /\ \A p, q \in 1..m : p < q => f[p] < f[q]
      /\ \A i \in 1..n : Dead(c[i], C, A) \/ \E p \in 1..m : f[p] = i
  BY DEF Leaves
<1> HIDE DEF n, m
<1>3. \A p \in 1..m : p \in LiveIn(d, S) <=> f[p] \in LiveIn(c, S)
  BY <1>1, <1>2 DEF LiveIn
<1>4. LiveIn(c, S) \subseteq 1..n /\ LiveIn(d, S) \subseteq 1..m BY <1>1 DEF LiveIn
<1>5. \A i \in LiveIn(c, S) : \E p \in 1..m : f[p] = i BY <1>2, <1>4
<1>6. CASE LiveIn(d, S) = {}
  <2>1. LiveIn(c, S) = {} BY <1>3, <1>5, <1>6
  <2>2. QED BY <1>6, <2>1, ViewIs
<1>7. CASE LiveIn(d, S) # {}
  <2>1. PICK p \in LiveIn(d, S) : \A q \in LiveIn(d, S) : q <= p BY <1>7, ViewIs
  <2>2. p \in 1..m /\ f[p] \in LiveIn(c, S) /\ d[p] = c[f[p]] BY <1>2, <1>3, <1>4, <2>1
  <2>3. ASSUME NEW i \in LiveIn(c, S) PROVE i <= f[p]
    <3>1. PICK q \in 1..m : f[q] = i BY <1>5
    <3>2. q \in LiveIn(d, S) BY <1>3, <3>1
    <3>3. q <= p /\ q \in Int /\ p \in Int BY <2>1, <2>2, <3>2
    <3>4. q = p \/ q < p BY ONLY <3>3
    <3>5. f[q] \in 1..n /\ f[p] \in 1..n BY <1>2, <2>2
    <3>6. q < p => f[q] < f[p] BY <1>2, <2>2
    <3>7. i \in Int /\ f[p] \in Int /\ (i = f[p] \/ i < f[p]) BY <3>1, <3>4, <3>5, <3>6
    <3>8. QED BY ONLY <3>7
  <2>4. ViewOf(d, S) = d[p].row BY <2>1, ViewIs
  <2>5. ViewOf(c, S) = c[f[p]].row BY <2>2, <2>3, ViewIs
  <2>6. QED BY <2>2, <2>4, <2>5
<1>8. QED BY <1>6, <1>7

(* What is left is in order and reads the same: a dead version is not live *)
(* to anybody who sees what is committed by now.                           *)
LEMMA LeftKeeps ==
    ASSUME NEW c, NEW d, NEW C, NEW A, NEW o, c \in Seq(Version), Apart(C, A, o),
           ChainOK(c, C, A, o), Left(d, c, C, A)
    PROVE  /\ ChainOK(d, C, A, o)
           /\ Theirs(d, C) = Theirs(c, C) /\ Mine(d, C, o) = Mine(c, C, o)
           /\ \A X : OnlyFrom(c, X) => OnlyFrom(d, X)
<1> DEFINE n == Len(c)
           m == Len(d)
<1>1. PICK f : Leaves(d, c, f, C, A) BY DEF Left
<1>2. /\ n \in Nat /\ DOMAIN c = 1..n /\ m \in Nat /\ DOMAIN d = 1..m /\ d \in Seq(Version)
  BY ChainType DEF Left
<1>3. /\ \A p \in 1..m : f[p] \in 1..n /\ d[p] = c[f[p]]
      /\ \A p, q \in 1..m : p < q => f[p] < f[q]
      /\ \A i \in 1..n : Dead(c[i], C, A) \/ \E p \in 1..m : f[p] = i
  BY <1>1 DEF Leaves
<1>4. /\ 0 \notin Txn /\ None \notin Txn \cup {0} /\ o \notin A /\ 0 \notin A /\ 0 \notin C /\ C \cap A = {}
  BY ApartFromTxn DEF Apart
<1>6. \A p, q \in 1..m : f[p] = f[q] => p = q
  <2> HIDE DEF n, m
  <2> TAKE p, q \in 1..m
  <2>1. f[p] \in 1..n /\ f[q] \in 1..n BY <1>3
  <2>2. p < q => f[p] < f[q] BY <1>3
  <2>3. q < p => f[q] < f[p] BY <1>3
  <2>4. QED BY <1>2, <2>1, <2>2, <2>3
<1>7. \A p, q \in 1..m : f[p] <= f[q] => p <= q
  <2> HIDE DEF n, m
  <2> TAKE p, q \in 1..m
  <2>1. f[p] \in 1..n /\ f[q] \in 1..n BY <1>3
  <2>2. q < p => f[q] < f[p] BY <1>3
  <2>3. QED BY <1>2, <2>1, <2>2
<1>8. \A p \in 1..m : p # m => f[p] < n
  <2> HIDE DEF n, m
  <2> TAKE p \in 1..m
  <2>1. m \in 1..m /\ (p # m => p < m) BY <1>2
  <2>2. p # m => f[p] < f[m] BY <1>3, <2>1
  <2>3. f[p] \in 1..n /\ f[m] \in 1..n BY <1>3, <2>1
  <2>4. QED BY <1>2, <2>2, <2>3
<1> HIDE DEF n, m
<1>9. ASSUME NEW S, S \cap A = {}, C \subseteq S, Decided(c, S)
      PROVE  Decided(d, S) /\ ViewOf(d, S) = ViewOf(c, S)
  <2>1. \A p \in 1..m : p \in LiveIn(d, S) <=> f[p] \in LiveIn(c, S)
    BY <1>2, <1>3 DEF LiveIn
  <2>2. \A i \in LiveIn(c, S) : \E p \in 1..m : f[p] = i
    <3> TAKE i \in LiveIn(c, S)
    <3>1. i \in 1..n /\ c[i].xmin \notin A /\ ~(c[i].xmax # 0 /\ c[i].xmax \in S)
      BY <1>2, <1>9 DEF LiveIn
    <3>2. c[i].xmax \notin C BY <1>4, <1>9, <3>1
    <3>3. ~Dead(c[i], C, A) BY <3>1, <3>2 DEF Dead
    <3>4. QED BY <1>3, <3>1, <3>3
  <2>3. LiveIn(d, S) \subseteq 1..m BY <1>2 DEF LiveIn
  <2>4. Decided(d, S)
    <3> SUFFICES ASSUME NEW p \in 1..m, NEW q \in 1..m, p < q, p \in LiveIn(d, S), d[q].xmin \in S
                 PROVE  \E r \in LiveIn(d, S) : q <= r
      BY <1>2 DEF Decided
    <3>1. f[p] < f[q] /\ f[p] \in LiveIn(c, S) /\ c[f[q]].xmin \in S /\ f[p] \in DOMAIN c /\ f[q] \in DOMAIN c
      BY <1>2, <1>3, <2>1
    <3>2. PICK l \in LiveIn(c, S) : f[q] <= l BY <1>9, <3>1 DEF Decided
    <3>3. PICK r \in 1..m : f[r] = l BY <2>2
    <3>4. r \in LiveIn(d, S) /\ q <= r BY <1>7, <2>1, <3>2, <3>3
    <3>5. QED BY <3>4
  <2>5. ViewOf(d, S) = ViewOf(c, S)
    <3>1. \A i \in LiveIn(c, S) : ~Dead(c[i], C, A)
      <4> TAKE i \in LiveIn(c, S)
      <4>1. c[i].xmin \notin A /\ ~(c[i].xmax # 0 /\ c[i].xmax \in S) BY <1>9 DEF LiveIn
      <4>2. QED BY <1>4, <1>9, <4>1 DEF Dead
    <3>2. QED BY <1>1, <1>2, <3>1, LeavesReads
  <2>6. QED BY <2>4, <2>5
<1>10. /\ Decided(d, C \cup {0}) /\ ViewOf(d, C \cup {0}) = ViewOf(c, C \cup {0})
       /\ Decided(d, C \cup {0, o}) /\ ViewOf(d, C \cup {0, o}) = ViewOf(c, C \cup {0, o})
  <2>1. (C \cup {0}) \cap A = {} /\ (C \cup {0, o}) \cap A = {} BY <1>4
  <2>2. C \subseteq C \cup {0} /\ C \subseteq C \cup {0, o} OBVIOUS
  <2>3. Decided(c, C \cup {0}) /\ Decided(c, C \cup {0, o}) BY DEF ChainOK
  <2>4. QED BY <1>9, <2>1, <2>2, <2>3
<1>11. Written(d, C, A, o)
  <2>1. \A i \in 1..n : c[i].row # Absent /\ c[i].xmin \in C \cup A \cup {0, o} /\ c[i].xmax \in C \cup A \cup {0, o}
    BY <1>2 DEF ChainOK, Written
  <2>2. QED BY <1>2, <1>3, <2>1 DEF Written
<1>12. OneEach(d)
  <2>1. \A i, j \in 1..n : c[i].xmin = c[j].xmin => i = j BY <1>2 DEF ChainOK, OneEach
  <2>2. QED BY <1>2, <1>3, <1>6, <2>1 DEF OneEach
<1>13. Linked(d, A, o)
  <2>1. /\ \A i \in 1..n : i < n /\ c[i].xmin \notin A => c[i].xmax # 0
        /\ \A i, j \in 1..n : i < j /\ c[i].xmax = o => c[j].xmin = o
        /\ \A i \in 1..n : c[i].xmin = o => c[i].xmax = 0
    BY <1>2 DEF ChainOK, Linked, n
  <2>2. ASSUME NEW p \in 1..m, p < m, d[p].xmin \notin A PROVE d[p].xmax # 0
    <3>1. p # m BY <1>2, <2>2
    <3>2. f[p] \in 1..n /\ f[p] < n /\ d[p] = c[f[p]] BY <1>3, <1>8, <3>1
    <3>3. QED BY <2>1, <2>2, <3>2
  <2>3. ASSUME NEW p \in 1..m, NEW q \in 1..m, p < q, d[p].xmax = o PROVE d[q].xmin = o
    <3>1. f[p] \in 1..n /\ f[q] \in 1..n /\ f[p] < f[q] /\ d[p] = c[f[p]] /\ d[q] = c[f[q]] BY <1>3, <2>3
    <3>2. QED BY <2>1, <2>3, <3>1
  <2>4. \A p \in 1..m : d[p].xmin = o => d[p].xmax = 0 BY <1>3, <2>1
  <2>5. QED BY <1>2, <2>2, <2>3, <2>4 DEF Linked, m
<1>14. \A X : OnlyFrom(c, X) => OnlyFrom(d, X)
  BY <1>2, <1>3 DEF OnlyFrom
<1>15. QED BY <1>10, <1>11, <1>12, <1>13, <1>14 DEF ChainOK, Theirs, Mine

(* The copy shares its versions with a chain that has not changed.         *)
LEMMA SharedIs ==
    ASSUME NEW c, NEW d, NEW C, NEW A, c \in Seq(Version), OneEach(c), Left(d, c, C, A)
    PROVE  Shared(d, c) = d
<1>1. PICK f : Leaves(d, c, f, C, A) BY DEF Left
<1>2. DOMAIN c = 1..Len(c) /\ DOMAIN d = 1..Len(d) /\ Len(d) \in Nat /\ d \in Seq(Version)
  BY ChainType DEF Left
<1>3. ASSUME NEW p \in DOMAIN d
      PROVE  LET same == {j \in DOMAIN c : c[j].xmin = d[p].xmin}
             IN  (IF same = {} THEN d[p] ELSE c[CHOOSE j \in same : TRUE]) = d[p]
  <2>1. f[p] \in DOMAIN c /\ d[p] = c[f[p]] BY <1>1, <1>2 DEF Leaves
  <2>2. {j \in DOMAIN c : c[j].xmin = d[p].xmin} = {f[p]} BY <2>1 DEF OneEach
  <2>3. QED BY <2>1, <2>2
<1>4. Shared(d, c) = [p \in DOMAIN d |-> d[p]] BY <1>3 DEF Shared
<1>5. d = [p \in DOMAIN d |-> d[p]]
  <2>1. d \in [1..Len(d) -> Version] BY <1>2, SeqDef
  <2>2. QED BY <1>2, <2>1
<1>6. QED BY <1>4, <1>5

\* what the copy is after a version
With(s, v) == IF Reclaimable(v) THEN s ELSE Append(s, v)

(* The copies of the prefixes of a chain exist, and are made version by    *)
(* version.                                                                *)
LEMMA CopiesExist ==
    ASSUME NEW c \in Seq(Version)
    PROVE  \E g : /\ g \in [0..Len(c) -> Seq(Version)] /\ g[0] = <<>>
                  /\ \A i \in 1..Len(c) : g[i] = With(g[i - 1], c[i])
                  /\ Unreclaimed(c) = g[Len(c)]
<1> DEFINE n == Len(c)
           Fits(g, m) == /\ g \in [0..m -> Seq(Version)] /\ g[0] = <<>>
                         /\ \A i \in 1..m : g[i] = With(g[i - 1], c[i])
           S == {m \in Nat : m <= n => \E g : Fits(g, m)}
           Kept == CHOOSE k : k = [m \in 0..n |-> IF m = 0 THEN <<>>
                                    ELSE IF Reclaimable(c[m]) THEN k[m - 1] ELSE Append(k[m - 1], c[m])]
<1>1. n \in Nat /\ \A i \in 1..n : c[i] \in Version BY ChainType
<1>2. Unreclaimed(c) = Kept[n] BY DEF Unreclaimed
<1> HIDE DEF n, Kept, Fits
<1>3. 0 \in S
  <2>1. <<>> \in Seq(Version) OBVIOUS
  <2>2. Fits([i \in 0..0 |-> <<>>], 0) BY <2>1 DEF Fits
  <2>3. QED BY <2>2
<1>4. ASSUME NEW m \in Nat, m \in S PROVE m + 1 \in S
  <2> SUFFICES ASSUME m + 1 <= n PROVE \E g : Fits(g, m + 1)
    OBVIOUS
  <2>0. PICK g : Fits(g, m) BY <1>1, <1>4
  <2>1. /\ g \in [0..m -> Seq(Version)] /\ g[0] = <<>>
        /\ \A i \in 1..m : g[i] = With(g[i - 1], c[i])
    BY <2>0 DEF Fits
  <2> DEFINE k == m + 1
             h == [i \in 0..k |-> IF i = k THEN With(g[m], c[k]) ELSE g[i]]
  <2>2. k \in 1..n /\ m \in 0..m /\ k - 1 = m /\ k \notin 0..m /\ 0 \in 0..m BY <1>1
  <2>3. /\ \A i \in 0..k : i # k => i \in 0..m
        /\ \A i \in 1..k : i # k => i \in 1..m /\ i - 1 \in 0..m
        /\ \A i \in 0..m : i \in 0..k /\ i # k
        /\ k \in 0..k
    BY <1>1
  <2> HIDE DEF k
  <2>4. With(g[m], c[k]) \in Seq(Version)
    <3>1. g[m] \in Seq(Version) /\ c[k] \in Version BY <1>1, <2>1, <2>2
    <3>2. Append(g[m], c[k]) \in Seq(Version) BY <3>1, AppendProperties
    <3>3. QED BY <3>1, <3>2 DEF With
  <2>5. h \in [0..k -> Seq(Version)] BY <2>1, <2>3, <2>4
  <2>6. h[k] = With(g[m], c[k]) /\ \A i \in 0..m : h[i] = g[i] BY <2>3
  <2> HIDE DEF h
  <2>7. h[0] = <<>> BY <2>1, <2>2, <2>6
  <2>8. ASSUME NEW i \in 1..k PROVE h[i] = With(h[i - 1], c[i])
    <3>1. CASE i = k
      <4>1. i - 1 = m BY <2>2, <3>1
      <4>2. QED BY <2>2, <2>6, <3>1, <4>1
    <3>2. CASE i # k
      <4>1. i \in 1..m /\ i - 1 \in 0..m /\ i \in 0..m BY <2>3, <3>2
      <4>2. QED BY <2>1, <2>6, <4>1
    <3>3. QED BY <3>1, <3>2
  <2>9. Fits(h, k) BY <2>5, <2>7, <2>8 DEF Fits
  <2>10. QED BY <2>9 DEF k
<1>5. PICK g : /\ g \in [0..n -> Seq(Version)] /\ g[0] = <<>>
               /\ \A i \in 1..n : g[i] = With(g[i - 1], c[i])
  <2> HIDE DEF S
  <2>1. Nat \subseteq S BY <1>3, <1>4, NatSetInduction
  <2>2. n \in S BY <1>1, <2>1
  <2>3. PICK g : Fits(g, n) BY <1>1, <2>2 DEF S
  <2>4. QED BY <2>3 DEF Fits
<1>6. g = [m \in 0..n |-> IF m = 0 THEN <<>>
              ELSE IF Reclaimable(c[m]) THEN g[m - 1] ELSE Append(g[m - 1], c[m])]
  <2>1. g = [m \in 0..n |-> g[m]] BY <1>5
  <2>2. ASSUME NEW m \in 0..n
        PROVE  g[m] = IF m = 0 THEN <<>>
                        ELSE IF Reclaimable(c[m]) THEN g[m - 1] ELSE Append(g[m - 1], c[m])
    <3>1. CASE m = 0 BY <1>5, <3>1
    <3>2. CASE m # 0
      <4>1. m \in 1..n BY <1>1, <3>2
      <4>2. g[m] = With(g[m - 1], c[m]) BY <1>5, <4>1
      <4>3. QED BY <3>2, <4>2 DEF With
    <3>3. QED BY <3>1, <3>2
  <2>3. QED BY <2>1, <2>2
<1>7. Kept = [m \in 0..n |-> IF m = 0 THEN <<>>
                 ELSE IF Reclaimable(c[m]) THEN Kept[m - 1] ELSE Append(Kept[m - 1], c[m])]
  BY <1>6 DEF Kept
<1>8. \A m \in 0..n : Kept[m] = IF m = 0 THEN <<>>
                 ELSE IF Reclaimable(c[m]) THEN Kept[m - 1] ELSE Append(Kept[m - 1], c[m])
  BY ONLY <1>7
<1>9. \A i \in 1..n : Kept[i] = With(Kept[i - 1], c[i])
  <2>1. \A i \in 1..n : i \in 0..n /\ i # 0 BY <1>1
  <2>2. QED BY <1>8, <2>1 DEF With
<1>10. Kept[0] = <<>>
  <2>1. 0 \in 0..n BY <1>1
  <2>2. QED BY <1>8, <2>1
<1>11. \A m \in Nat : m <= n => Kept[m] = g[m]
  <2> DEFINE T == {m \in Nat : m <= n => Kept[m] = g[m]}
  <2>1. 0 \in T BY <1>5, <1>10
  <2>2. ASSUME NEW m \in Nat, m \in T PROVE m + 1 \in T
    <3> SUFFICES ASSUME m + 1 <= n PROVE Kept[m + 1] = g[m + 1]
      OBVIOUS
    <3> DEFINE k == m + 1
    <3>1. k \in 1..n /\ k - 1 = m /\ Kept[m] = g[m] BY <1>1, <2>2
    <3> HIDE DEF k
    <3>2. Kept[k] = With(Kept[k - 1], c[k]) /\ g[k] = With(g[k - 1], c[k]) BY <1>5, <1>9, <3>1
    <3>3. QED BY <3>1, <3>2 DEF k
  <2> HIDE DEF T
  <2>3. Nat \subseteq T BY <2>1, <2>2, NatSetInduction
  <2>4. QED BY <2>3 DEF T
<1>12. Unreclaimed(c) = g[n] BY <1>1, <1>2, <1>11
<1>13. QED BY <1>5, <1>12 DEF n

(* The copy is what is left of the chain when reclaimable versions go.     *)
LEMMA CopyIsLeft ==
    ASSUME NEW c \in Seq(Version), NEW C, NEW A, \A v \in Version : Reclaimable(v) => Dead(v, C, A)
    PROVE  Left(Unreclaimed(c), c, C, A)
<1> DEFINE n == Len(c)
           Up(s, f, m) == /\ f \in [1..Len(s) -> 1..m]
                          /\ \A p, q \in 1..Len(s) : p < q => f[p] < f[q]
                          /\ \A p \in 1..Len(s) : s[p] = c[f[p]]
                          /\ \A i \in 1..m : Dead(c[i], C, A) \/ \E p \in 1..Len(s) : f[p] = i
<1>1. n \in Nat /\ \A i \in 1..n : c[i] \in Version BY ChainType
<1>2. PICK g : /\ g \in [0..n -> Seq(Version)] /\ g[0] = <<>>
               /\ \A i \in 1..n : g[i] = With(g[i - 1], c[i])
               /\ Unreclaimed(c) = g[n]
  BY CopiesExist
<1> DEFINE T == {m \in Nat : m <= n => \E f : Up(g[m], f, m)}
<1> HIDE DEF n
<1>3. 0 \in T
  <2>1. Len(g[0]) = 0 /\ 1..0 = {} BY <1>2
  <2>2. [i \in {} |-> 0] \in [1..Len(g[0]) -> 1..0] BY <2>1
  <2>3. Up(g[0], [i \in {} |-> 0], 0) BY <2>1, <2>2
  <2>4. QED BY <2>3
<1>4. ASSUME NEW m \in Nat, m \in T PROVE m + 1 \in T
  <2> SUFFICES ASSUME m + 1 <= n PROVE \E f : Up(g[m + 1], f, m + 1)
    OBVIOUS
  <2>1. PICK f : Up(g[m], f, m) BY <1>1, <1>4
  <2> DEFINE k == m + 1
             s == g[m]
             w == g[k]
  <2>2. /\ k \in 1..n /\ m \in 0..n /\ k - 1 = m
        /\ (\A i \in 1..k : i = k \/ i \in 1..m) /\ (\A i \in 1..m : i \in 1..k /\ i < k) /\ k \in 1..k
    BY <1>1
  <2> HIDE DEF k
  <2>3. s \in Seq(Version) /\ c[k] \in Version /\ w = With(s, c[k]) BY <1>1, <1>2, <2>2
  <2>4. /\ f \in [1..Len(s) -> 1..m]
        /\ \A p, q \in 1..Len(s) : p < q => f[p] < f[q]
        /\ \A p \in 1..Len(s) : s[p] = c[f[p]]
        /\ \A i \in 1..m : Dead(c[i], C, A) \/ \E p \in 1..Len(s) : f[p] = i
    BY <2>1
  <2> HIDE DEF s, w
  <2>5. CASE Reclaimable(c[k])
    <3>1. w = s BY <2>3, <2>5 DEF With
    <3>2. Dead(c[k], C, A) BY <2>3, <2>5
    <3>3. f \in [1..Len(s) -> 1..k] BY <2>2, <2>4
    <3>4. \A i \in 1..k : Dead(c[i], C, A) \/ \E p \in 1..Len(s) : f[p] = i BY <2>2, <2>4, <3>2
    <3>5. Up(w, f, k) BY <2>4, <3>1, <3>3, <3>4
    <3>6. QED BY <3>5 DEF w, k
  <2>6. CASE ~Reclaimable(c[k])
    <3>1. w = Append(s, c[k]) BY <2>3, <2>6 DEF With
    <3> DEFINE l == Len(w)
               h == [p \in 1..l |-> IF p = l THEN k ELSE f[p]]
    <3>2. /\ Len(s) \in Nat /\ l = Len(s) + 1 /\ l \in 1..l
          /\ \A i \in 1..Len(s) : w[i] = s[i]
          /\ \A i \in 1..l : i \in 1..Len(s) \/ i = l
          /\ w[l] = c[k]
      BY <2>3, <3>1, Pushed
    <3> HIDE DEF l
    <3>3. \A p \in 1..Len(s) : p \in 1..l /\ p # l /\ p < l BY <3>2
    <3>4. h \in [1..l -> 1..k] BY <2>2, <2>4, <3>2, <3>3
    <3>5. h[l] = k /\ \A p \in 1..Len(s) : h[p] = f[p] BY <3>2, <3>3
    <3> HIDE DEF h
    <3>6. ASSUME NEW p \in 1..l, NEW q \in 1..l, p < q PROVE h[p] < h[q]
      <4>1. p \in 1..Len(s) BY <3>2, <3>6
      <4>2. CASE q = l BY <2>2, <2>4, <3>5, <4>1, <4>2
      <4>3. CASE q \in 1..Len(s) BY <2>4, <3>5, <3>6, <4>1, <4>3
      <4>4. QED BY <3>2, <4>2, <4>3
    <3>7. \A p \in 1..l : w[p] = c[h[p]] BY <2>4, <3>2, <3>5
    <3>8. ASSUME NEW i \in 1..k PROVE Dead(c[i], C, A) \/ \E p \in 1..l : h[p] = i
      <4>1. CASE i = k BY <3>2, <3>5, <4>1
      <4>2. CASE i \in 1..m BY <2>4, <3>3, <3>5, <4>2
      <4>3. QED BY <2>2, <4>1, <4>2
    <3>9. Up(w, h, k) BY <3>4, <3>6, <3>7, <3>8 DEF l
    <3>10. QED BY <3>9 DEF w, k
  <2>7. QED BY <2>5, <2>6
<1>5. PICK f : Up(g[n], f, n)
  <2> HIDE DEF T
  <2>1. Nat \subseteq T BY <1>3, <1>4, NatSetInduction
  <2>2. n \in T BY <1>1, <2>1
  <2>3. QED BY <1>1, <2>2 DEF T
<1>6. g[n] \in Seq(Version) BY <1>1, <1>2
<1>7. Leaves(g[n], c, f, C, A) BY <1>5 DEF Leaves, n
<1>8. QED BY <1>2, <1>6, <1>7 DEF Left

-----------------------------------------------------------------------------
(* The inductive invariant.                                                *)

CommittedIds == {t \in Txn : status[t] = "committed"}
AbortedIds == {t \in Txn : status[t] = "aborted"}

\* who counts as committed in the snapshot s of t
SeenIn(t, s) == {0, t} \cup {x \in CommittedIds : x < s.taken_at /\ x \notin s.active}

\* 0, t, all that have aborted, and those that had committed when the snapshot s of t was taken
Past(C, A, t, s) == {0, t} \cup A \cup {x \in C : x < s.taken_at /\ x \notin s.active}
EndedIds == CommittedIds \cup AbortedIds

\* the snapshot s will never see anybody but E who has not ended yet
Fixed(E, s) == \A u \in Txn \ E : u < s.taken_at => u \in s.active

TypeInv == TypeOK /\ DOMAIN stmt = Txn

\* every chain is in order, and only the owner of its lock is writing to it
ChainInv == \A k \in Key : ChainOK(chains[k], CommittedIds, AbortedIds, rowOwner[k])

\* the locks belong to active transactions; a reader's table is written by none but itself
LockInv ==
    /\ readers \cup writers \subseteq Active
    /\ \A k \in Key : rowOwner[k] # None => rowOwner[k] \in writers
    /\ \A r \in readers : writers \subseteq {r}
    /\ readers \subseteq Serial /\ Serial \cap writers \subseteq readers
    /\ \A t \in Txn : stmt[t] # None => t \in writers
    /\ \A t \in Txn : status[t] # "unborn" <=> t < nextId

\* a pinned snapshot sees nobody new; what a reader's snapshot does not see of what has been
\* committed, nobody has written here
PinInv ==
    /\ \A t \in Txn : pinned[t] # None => t \in Serial /\ t \in Active /\ Fixed(EndedIds, pinned[t])
    /\ \A t \in readers : pinned[t] # None
    /\ \A t \in readers, k \in Key : OnlyFrom(chains[k], Past(CommittedIds, AbortedIds, t, pinned[t]))

\* a row on its way to another key is locked, there, and settled in the snapshot it travels with
Settled(t) ==
    stmt[t] # None /\ stmt[t].op = "moving" =>
       \A k \in stmt[t].keys :
          /\ rowOwner[k] = t /\ OnlyFrom(chains[k], Past(CommittedIds, AbortedIds, t, stmt[t].snap))
          /\ Mine(chains[k], CommittedIds, t) # Absent
MoveInv == \A t \in Txn : Settled(t)

\* the copies of a GC pass are the chains without some dead versions
GcInv == gc # None => \A k \in Key : Left(gc[k], chains[k], CommittedIds, AbortedIds)

\* and show the same under every snapshot that has been pinned
CopyInv == gc # None =>
    \A t \in Txn, k \in Key : pinned[t] # None =>
       ViewOf(gc[k], SeenIn(t, pinned[t])) = ViewOf(chains[k], SeenIn(t, pinned[t]))

Inv == TypeInv /\ ChainInv /\ LockInv /\ PinInv /\ MoveInv /\ GcInv /\ CopyInv

(* What a transaction reads of a key under a snapshot, in terms of the      *)
(* chain.                                                                  *)
LEMMA ViewIsViewOf ==
    ASSUME TypeOK, NEW k \in Key, NEW t, NEW s
    PROVE  /\ View(k, t, s) = ViewOf(chains[k], SeenIn(t, s))
           /\ VisibleIn(k, t, s) = LiveIn(chains[k], SeenIn(t, s))
<1>1. chains[k] \in Seq(Version) BY DEF TypeOK
<1>2. \A i \in DOMAIN chains[k] : chains[k][i].xmin \in Txn \cup {0} /\ chains[k][i].xmax \in Txn \cup {0}
  BY <1>1, ChainType
<1>3. \A x \in Txn \cup {0} : Seen(x, t, s) <=> x \in SeenIn(t, s)
  BY DEF Seen, SeenIn, CommittedIds
<1>4. \A i \in DOMAIN chains[k] : version_visible(chains[k][i], t, s) <=> i \in LiveIn(chains[k], SeenIn(t, s))
  BY <1>2, <1>3 DEF version_visible, LiveIn
<1>5. VisibleIn(k, t, s) = LiveIn(chains[k], SeenIn(t, s))
  BY <1>4 DEF VisibleIn, LiveIn
<1>6. QED BY <1>5 DEF View, ViewOf

(* Facts about who has ended and who has not.                              *)
LEMMA Ended ==
    ASSUME TypeOK, LockInv
    PROVE  /\ \A t \in Txn : status[t] = "active" => Split(CommittedIds, AbortedIds, t)
           /\ \A k \in Key : Apart(CommittedIds, AbortedIds, rowOwner[k])
           /\ \A x \in CommittedIds \cup AbortedIds : x < nextId /\ x \notin Active
           /\ nextId \in Nat /\ nextId # 0 /\ nextId \notin CommittedIds \cup AbortedIds
           /\ \A k \in Key : rowOwner[k] # nextId
<1>1. nextId \in Nat /\ nextId # 0
  <2>1. Cardinality(Txn) \in Nat BY TxnAssumption, FS_CardinalityType
  <2>2. QED BY <2>1 DEF TypeOK
<1>2. \A t \in Txn : status[t] = "active" => Split(CommittedIds, AbortedIds, t)
  BY DEF Split, CommittedIds, AbortedIds
<1>3. ASSUME NEW k \in Key PROVE Apart(CommittedIds, AbortedIds, rowOwner[k])
  <2>1. rowOwner[k] \in Txn \cup {None} BY DEF TypeOK
  <2>2. rowOwner[k] # None => rowOwner[k] \in Active BY DEF LockInv
  <2>3. None \notin Txn BY ApartFromTxn
  <2>4. rowOwner[k] \notin CommittedIds \cup AbortedIds
    BY <2>2, <2>3 DEF CommittedIds, AbortedIds, Active
  <2>5. CommittedIds \subseteq Txn /\ AbortedIds \subseteq Txn /\ CommittedIds \cap AbortedIds = {}
    BY DEF CommittedIds, AbortedIds
  <2>6. QED BY <2>1, <2>4, <2>5 DEF Apart
<1>4. \A x \in CommittedIds \cup AbortedIds : x < nextId /\ x \notin Active
  BY DEF LockInv, CommittedIds, AbortedIds, Active
<1>5. nextId \notin CommittedIds \cup AbortedIds BY <1>1, <1>4
<1>6. ASSUME NEW k \in Key, rowOwner[k] = nextId PROVE FALSE
  <2>1. nextId # None BY <1>1, NoneAssumption
  <2>2. nextId \in Txn /\ status[nextId] = "active" BY <1>6, <2>1 DEF LockInv, Active
  <2>3. nextId < nextId BY <2>2 DEF LockInv
  <2>4. QED BY <1>1, <2>3
<1>7. QED BY <1>1, <1>2, <1>3, <1>4, <1>5, <1>6

(* What a pinned snapshot sees stays the same, whoever ends.               *)
LEMMA SeenStays ==
    ASSUME Inv, NEW t \in Txn, pinned[t] # None, pinned'[t] = pinned[t],
           CommittedIds \subseteq CommittedIds', CommittedIds' \ CommittedIds \subseteq Active
    PROVE  SeenIn(t, pinned[t])' = SeenIn(t, pinned[t])
<1>1. \A u \in Txn \ EndedIds : u < pinned[t].taken_at => u \in pinned[t].active
  BY DEF Inv, PinInv, Fixed
<1>2. Active \subseteq Txn \ EndedIds BY DEF Active, EndedIds, CommittedIds, AbortedIds
<1>3. SeenIn(t, pinned[t])' = {0, t} \cup {x \in CommittedIds' : x < pinned[t].taken_at /\ x \notin pinned[t].active}
  BY DEF SeenIn
<1>4. QED BY <1>1, <1>2, <1>3 DEF SeenIn

(* What anybody reads is what is committed, on top of its own writes: a    *)
(* new transaction, one that takes a snapshot now, a reader under its      *)
(* pinned snapshot, and a row on its way under the one it travels with.    *)
Reads ==
    /\ Committed = [k \in Key |-> Theirs(chains[k], CommittedIds)]
    /\ Drafts = [t \in Txn |-> [k \in Key |->
                    IF rowOwner[k] = t THEN Mine(chains[k], CommittedIds, t) ELSE None]]
    /\ \A k \in Key, t \in Active :
          /\ View(k, t, take_snapshot) = Mine(chains[k], CommittedIds, t)
          /\ t \in readers => View(k, t, pinned[t]) = Mine(chains[k], CommittedIds, t)
          /\ stmt[t] # None /\ stmt[t].op = "moving" /\ k \in stmt[t].keys =>
                View(k, t, stmt[t].snap) = Mine(chains[k], CommittedIds, t)
    /\ \A k \in Key, t \in Active : Mine(chains[k], CommittedIds, t) \in RowSet
    /\ \A k \in Key, t \in Active :
          rowOwner[k] # t => Mine(chains[k], CommittedIds, t) = Theirs(chains[k], CommittedIds)

(* The invariant says what every transaction reads.                        *)
LEMMA InvReads == Inv => Reads
<1> SUFFICES ASSUME Inv PROVE Reads
  OBVIOUS
<1> USE DEF Inv, TypeInv
<1> DEFINE C == CommittedIds
           A == AbortedIds
<1>1. /\ \A t \in Txn : status[t] = "active" => Split(C, A, t)
      /\ \A k \in Key : Apart(C, A, rowOwner[k])
      /\ \A x \in C \cup A : x < nextId /\ x \notin Active
      /\ nextId \in Nat /\ nextId # 0 /\ nextId \notin C \cup A
      /\ \A k \in Key : rowOwner[k] # nextId
  BY Ended
<1>2. \A k \in Key : chains[k] \in Seq(Version) BY DEF TypeOK
<1>3. \A k \in Key : ChainOK(chains[k], C, A, rowOwner[k]) BY DEF ChainInv
<1>4. \A t : SeenIn(t, take_snapshot) = C \cup {0, t}
  BY <1>1 DEF SeenIn, take_snapshot
<1>5. ASSUME NEW k \in Key, NEW t PROVE View(k, t, take_snapshot) = Mine(chains[k], C, t)
  <2>1. View(k, t, take_snapshot) = ViewOf(chains[k], SeenIn(t, take_snapshot)) BY ViewIsViewOf
  <2>2. SeenIn(t, take_snapshot) = C \cup {0, t} BY <1>4
  <2> HIDE DEF C
  <2>3. QED BY <2>1, <2>2 DEF Mine
<1>6. ASSUME NEW k \in Key, NEW t, NEW s, OnlyFrom(chains[k], Past(CommittedIds, AbortedIds, t, s))
      PROVE  View(k, t, s) = Mine(chains[k], C, t)
  <2>1. SeenAlike(chains[k], SeenIn(t, s), C \cup {0, t})
    <3>1. C \cap A = {} BY DEF CommittedIds, AbortedIds
    <3>2. \A x \in Past(CommittedIds, AbortedIds, t, s) : x \in SeenIn(t, s) <=> x \in C \cup {0, t}
      BY <1>1, <3>1 DEF Past, SeenIn
    <3>3. QED BY <1>6, <3>2 DEF OnlyFrom, SeenAlike
  <2>2. QED BY <2>1, SameSeen, ViewIsViewOf DEF Mine
<1> HIDE DEF C, A
<1>7. ASSUME NEW k \in Key, NEW t, Apart(C, A, t), t # rowOwner[k]
      PROVE  Mine(chains[k], C, t) = Theirs(chains[k], C)
  BY <1>1, <1>2, <1>3, <1>7, Unmentioned DEF ChainOK
<1>8. ASSUME NEW k \in Key PROVE View(k, nextId, take_snapshot) = Theirs(chains[k], C)
  <2>1. \A i \in DOMAIN chains[k] : chains[k][i].xmin # nextId /\ chains[k][i].xmax # nextId
    <3>1. Written(chains[k], C, A, rowOwner[k]) BY <1>3 DEF ChainOK
    <3>2. QED BY <1>1, <3>1 DEF Written
  <2>2. SeenAlike(chains[k], C \cup {0, nextId}, C \cup {0}) BY <2>1 DEF SeenAlike
  <2>3. Mine(chains[k], C, nextId) = Theirs(chains[k], C) BY <2>2, SameSeen DEF Mine, Theirs
  <2>4. QED BY <1>5, <2>3 DEF C
<1>9. Committed = [k \in Key |-> Theirs(chains[k], C)] BY <1>8 DEF Committed
<1>10. Drafts = [t \in Txn |-> [k \in Key |-> IF rowOwner[k] = t THEN Mine(chains[k], C, t) ELSE None]]
  BY <1>5 DEF Drafts, C
<1>11. ASSUME NEW k \in Key, NEW t \in Active
       PROVE  /\ t \in readers => View(k, t, pinned[t]) = Mine(chains[k], C, t)
              /\ stmt[t] # None /\ stmt[t].op = "moving" /\ k \in stmt[t].keys =>
                    View(k, t, stmt[t].snap) = Mine(chains[k], C, t)
  <2>1. t \in readers => OnlyFrom(chains[k], Past(CommittedIds, AbortedIds, t, pinned[t])) BY DEF PinInv
  <2>2. stmt[t] # None /\ stmt[t].op = "moving" /\ k \in stmt[t].keys =>
           OnlyFrom(chains[k], Past(CommittedIds, AbortedIds, t, stmt[t].snap))
    BY DEF MoveInv, Settled, Active
  <2>3. QED BY <1>6, <2>1, <2>2 DEF C
<1>12. ASSUME NEW k \in Key, NEW t \in Active PROVE Mine(chains[k], C, t) \in RowSet
  <2>1. \A i \in DOMAIN chains[k] : chains[k][i].row # Absent BY <1>3 DEF ChainOK, Written
  <2>2. QED BY <1>2, <2>1, ReadWhenLive DEF Mine
<1>13. \A k \in Key, t \in Active : rowOwner[k] # t => Mine(chains[k], C, t) = Theirs(chains[k], C)
  <2>1. \A t \in Active : Apart(C, A, t) BY <1>1 DEF Active, Split, Apart
  <2>2. QED BY <1>7, <2>1
<1>14. QED BY <1>5, <1>9, <1>10, <1>11, <1>12, <1>13 DEF Reads, C

-----------------------------------------------------------------------------
(* A step of a statement of t.                                             *)

\* each chain is left alone, or t has its lock from now on and has written to it or not
ChainStep(t) ==
    \A k \in Key :
       \/ chains'[k] = chains[k] /\ rowOwner'[k] = rowOwner[k]
       \/ /\ rowOwner[k] \in {None, t} /\ rowOwner'[k] = t
          /\ Wrote(chains[k], chains'[k], CommittedIds, AbortedIds, t)

\* t may write to the table
MayWrite(t) ==
    /\ t \in Active
    /\ readers \subseteq {t} /\ (t \in readers => writers \subseteq {t}) /\ (t \in Serial => t \in readers)

StmtOK(x) ==
    x = None \/ /\ x.op \in {"update", "delete", "move", "moving"}
                /\ x.keys \subseteq Key /\ x.snap \in Snapshot \cup {None}

WriteStep(t) ==
    /\ MayWrite(t) /\ writers' = writers \cup {t}
    /\ UNCHANGED <<status, nextId, pinned, readers, gc>>
    /\ DOMAIN chains' = Key /\ (gc # None => chains' = chains)
    /\ rowOwner' \in [Key -> Txn \cup {None}] /\ ChainStep(t)
    /\ DOMAIN stmt' = Txn /\ StmtOK(stmt'[t]) /\ \A u \in Txn \ {t} : stmt'[u] = stmt[u]
    /\ Settled(t)'

(* In the middle of a statement t may write.                               *)
LEMMA MidStatement ==
    ASSUME Inv, NEW t \in Txn, stmt[t] # None
    PROVE  MayWrite(t) /\ t \in writers
<1>1. t \in writers BY DEF Inv, LockInv
<1>2. /\ writers \subseteq Active /\ (\A r \in readers : writers \subseteq {r})
      /\ Serial \cap writers \subseteq readers
  BY DEF Inv, LockInv
<1>3. QED BY <1>1, <1>2 DEF MayWrite

(* A chain that nobody else has locked can be t's.                         *)
LEMMA Holding ==
    ASSUME Inv, NEW t \in Active, NEW k \in Key, rowOwner[k] \in {None, t}
    PROVE  /\ Held(chains[k], CommittedIds, AbortedIds, t)
           /\ Wrote(chains[k], chains[k], CommittedIds, AbortedIds, t)
<1>1. Split(CommittedIds, AbortedIds, t) BY Ended DEF Inv, TypeInv, Active
<1>2. chains[k] \in Seq(Version) /\ ChainOK(chains[k], CommittedIds, AbortedIds, rowOwner[k])
  BY DEF Inv, TypeInv, TypeOK, ChainInv
<1>3. Held(chains[k], CommittedIds, AbortedIds, t)
  <2>1. CASE rowOwner[k] = None BY <1>1, <1>2, <2>1, LockKeeps
  <2>2. CASE rowOwner[k] = t BY <1>1, <1>2, <2>2 DEF Held
  <2>3. QED BY <2>1, <2>2
<1>4. QED BY <1>3 DEF Wrote, Hides

(* A step of a statement keeps the invariant.                              *)
LEMMA WriteStepKeeps ==
    ASSUME Inv, NEW t \in Txn, WriteStep(t)
    PROVE  Inv'
<1> DEFINE C == CommittedIds
           A == AbortedIds
<1>1. /\ t \in Active /\ readers \subseteq {t} /\ (t \in readers => writers \subseteq {t})
      /\ (t \in Serial => t \in readers) /\ writers' = writers \cup {t}
      /\ status' = status /\ nextId' = nextId /\ pinned' = pinned /\ readers' = readers /\ gc' = gc
      /\ (gc # None => chains' = chains)
      /\ DOMAIN stmt' = Txn /\ StmtOK(stmt'[t]) /\ (\A u \in Txn \ {t} : stmt'[u] = stmt[u])
  BY DEF WriteStep, MayWrite
<1>2. CommittedIds' = C /\ AbortedIds' = A /\ Active' = Active
  BY <1>1 DEF CommittedIds, AbortedIds, Active
<1>3. EndedIds' = EndedIds /\ CommittedIds' = CommittedIds /\ AbortedIds' = AbortedIds
  BY <1>2 DEF EndedIds, C, A
<1>4. \A k \in Key : \/ chains'[k] = chains[k] /\ rowOwner'[k] = rowOwner[k]
                     \/ rowOwner[k] \in {None, t} /\ rowOwner'[k] = t /\ Wrote(chains[k], chains'[k], C, A, t)
  BY DEF WriteStep, ChainStep
<1> HIDE DEF C, A
<1>5. TypeInv'
  <2>1. DOMAIN chains' = Key /\ rowOwner' \in [Key -> Txn \cup {None}] BY DEF WriteStep
  <2>2. \A k \in Key : chains'[k] \in Seq(Version) BY <1>4 DEF Inv, TypeInv, TypeOK, Wrote, Held
  <2>3. \A u \in Txn : stmt'[u] = None \/ /\ stmt'[u].op \in {"update", "delete", "move", "moving"}
                                          /\ stmt'[u].keys \subseteq Key /\ stmt'[u].snap \in Snapshot \cup {None}
    BY <1>1 DEF Inv, TypeInv, TypeOK, StmtOK
  <2>4. QED BY <1>1, <2>1, <2>2, <2>3 DEF Inv, TypeInv, TypeOK
<1>6. ChainInv'
  <2>1. \A k \in Key : ChainOK(chains[k], C, A, rowOwner[k]) BY DEF Inv, ChainInv, C, A
  <2>2. \A k \in Key : ChainOK(chains'[k], C, A, rowOwner'[k])
    BY <1>4, <2>1 DEF Wrote, Held
  <2>3. QED BY <1>2, <2>2 DEF ChainInv
<1>7. LockInv'
  <2>1. /\ readers' \cup writers' \subseteq Active'
        /\ \A r \in readers' : writers' \subseteq {r}
        /\ readers' \subseteq Serial /\ Serial \cap writers' \subseteq readers'
        /\ \A u \in Txn : stmt'[u] # None => u \in writers'
        /\ \A u \in Txn : status'[u] # "unborn" <=> u < nextId'
    BY <1>1, <1>2 DEF Inv, LockInv
  <2>2. \A k \in Key : rowOwner'[k] # None => rowOwner'[k] \in writers'
    BY <1>1, <1>4 DEF Inv, LockInv
  <2>3. QED BY <2>1, <2>2 DEF LockInv
<1>8. PinInv'
  <2>1. ASSUME NEW r \in readers, NEW k \in Key PROVE OnlyFrom(chains'[k], Past(CommittedIds, AbortedIds, r, pinned[r]))
    <3>1. r = t /\ OnlyFrom(chains[k], Past(CommittedIds, AbortedIds, t, pinned[t])) BY <1>1 DEF Inv, PinInv
    <3>2. 0 \in Past(CommittedIds, AbortedIds, t, pinned[t]) /\ t \in Past(CommittedIds, AbortedIds, t, pinned[t]) BY DEF Past
    <3>3. QED BY <1>4, <3>1, <3>2 DEF Wrote
  <2>2. /\ \A u \in Txn : pinned'[u] # None => u \in Serial /\ u \in Active' /\ Fixed(EndedIds', pinned'[u])
        /\ \A r \in readers' : pinned'[r] # None
    BY <1>1, <1>2, <1>3 DEF Inv, PinInv
  <2>3. \A r \in readers', k \in Key : OnlyFrom(chains'[k], Past(CommittedIds', AbortedIds', r, pinned'[r]))
    BY <1>1, <1>3, <2>1
  <2>4. QED BY <2>2, <2>3 DEF PinInv
<1>9. MoveInv'
  <2>1. ASSUME NEW u \in Txn, u # t PROVE Settled(u)'
    <3>1. SUFFICES ASSUME stmt'[u] # None, stmt'[u].op = "moving", NEW k \in stmt'[u].keys
                   PROVE  /\ rowOwner'[k] = u /\ OnlyFrom(chains'[k], Past(CommittedIds', AbortedIds', u, stmt'[u].snap))
                          /\ Mine(chains'[k], C, u) # Absent
      BY <1>2 DEF Settled
    <3>2. stmt'[u] = stmt[u] BY <1>1, <2>1
    <3>3. k \in Key BY <3>1, <3>2 DEF Inv, TypeInv, TypeOK
    <3>4. rowOwner[k] = u /\ OnlyFrom(chains[k], Past(CommittedIds, AbortedIds, u, stmt[u].snap)) /\ Mine(chains[k], C, u) # Absent
      BY <3>1, <3>2 DEF Inv, MoveInv, Settled, C
    <3>5. u # None BY ApartFromTxn
    <3>6. chains'[k] = chains[k] /\ rowOwner'[k] = rowOwner[k] BY <1>4, <2>1, <3>3, <3>4, <3>5
    <3>7. QED BY <1>3, <3>2, <3>4, <3>6
  <2>2. Settled(t)' BY DEF WriteStep
  <2>3. QED BY <2>1, <2>2 DEF MoveInv
<1>10. GcInv'
  BY <1>1, <1>2 DEF Inv, GcInv, C, A
<1>11. CopyInv'
  BY <1>1, <1>3 DEF Inv, CopyInv, SeenIn
<1>12. QED BY <1>5, <1>6, <1>7, <1>8, <1>9, <1>10, <1>11 DEF Inv

-----------------------------------------------------------------------------
(* The actions of a statement are steps of this kind.                      *)

Kept(k) == chains'[k] = chains[k]

\* t has the lock of k from now on, and reads the row there
Redrafts(t, k, row) == rowOwner'[k] = t /\ Mine(chains'[k], CommittedIds, t) = row

(* The first snapshot of a statement shows what is committed, and the pin  *)
(* stays; so does the snapshot after the wait.                             *)
LEMMA SnapshotIs ==
    ASSUME Inv, Reads, NEW t \in Txn, MayWrite(t)
    PROVE  /\ Pinned(t) = pinned
           /\ \A k \in Key : /\ View(k, t, snapshot_for(t)) = Mine(chains[k], CommittedIds, t)
                             /\ View(k, t, PostLock(t)) = Mine(chains[k], CommittedIds, t)
           /\ PostLock(t) \in Snapshot
           /\ \A k \in Key : rowOwner[k] \in {None, t} =>
                 OnlyFrom(chains[k], Past(CommittedIds, AbortedIds, t, PostLock(t)))
<1>1. /\ pinned \in [Txn -> Snapshot \cup {None}]
      /\ (t \in readers => pinned[t] # None) /\ (pinned[t] # None => t \in Serial)
  BY DEF Inv, TypeInv, TypeOK, PinInv, LockInv
<1>2. t \in Active /\ (t \in Serial => t \in readers) BY DEF MayWrite
<1>3. \A k \in Key : /\ View(k, t, take_snapshot) = Mine(chains[k], CommittedIds, t)
                     /\ t \in readers => View(k, t, pinned[t]) = Mine(chains[k], CommittedIds, t)
  BY <1>2 DEF Reads
<1>4. CASE t \in Serial
  <2>1. snapshot_for(t) = pinned[t] /\ PostLock(t) = pinned[t] /\ t \in readers
    BY <1>1, <1>2, <1>4 DEF snapshot_for, PostLock
  <2>2. Pinned(t) = pinned
    <3>1. Pinned(t) = [pinned EXCEPT ![t] = pinned[t]] BY <1>4, <2>1 DEF Pinned
    <3>2. QED BY <1>1, <3>1
  <2>3. PostLock(t) \in Snapshot BY <1>1, <2>1
  <2>4. \A k \in Key : OnlyFrom(chains[k], Past(CommittedIds, AbortedIds, t, PostLock(t)))
    BY <2>1 DEF Inv, PinInv
  <2>5. QED BY <1>3, <2>1, <2>2, <2>3, <2>4
<1>5. CASE t \notin Serial
  <2>1. snapshot_for(t) = take_snapshot /\ PostLock(t) = take_snapshot /\ pinned[t] = None
    BY <1>1, <1>5 DEF snapshot_for, PostLock
  <2>2. Pinned(t) = pinned
    <3>1. Pinned(t) = [pinned EXCEPT ![t] = pinned[t]] BY <1>5, <2>1 DEF Pinned
    <3>2. QED BY <1>1, <3>1
  <2>3. TypeOK /\ LockInv BY DEF Inv, TypeInv
  <2>4. nextId \in Nat /\ \A x \in CommittedIds \cup AbortedIds : x < nextId /\ x \notin Active
    BY <2>3, Ended
  <2>5. PostLock(t) \in Snapshot BY <2>1, <2>4 DEF take_snapshot, Snapshot, Active
  <2>6. Past(CommittedIds, AbortedIds, t, take_snapshot) = {0, t} \cup CommittedIds \cup AbortedIds
    BY <2>4 DEF Past, take_snapshot
  <2>7. ASSUME NEW k \in Key, rowOwner[k] \in {None, t}
        PROVE  OnlyFrom(chains[k], Past(CommittedIds, AbortedIds, t, take_snapshot))
    <3>1. Held(chains[k], CommittedIds, AbortedIds, t) BY <1>2, <2>7, Holding
    <3>2. QED BY <2>6, <3>1 DEF Held, ChainOK, Written, OnlyFrom
  <2>8. QED BY <1>3, <2>1, <2>2, <2>5, <2>7
<1>6. QED BY <1>4, <1>5

(* Taking row locks without writing.                                       *)
LEMMA LockOnly ==
    ASSUME Inv, NEW t \in Active, NEW K \in SUBSET Key, CanLock(t, K), rowOwner' = Locked(t, K),
           chains' = chains
    PROVE  ChainStep(t) /\ rowOwner' \in [Key -> Txn \cup {None}]
<1>1. rowOwner \in [Key -> Txn \cup {None}] BY DEF Inv, TypeInv, TypeOK
<1>2. rowOwner' \in [Key -> Txn \cup {None}] BY <1>1 DEF Locked, Active
<1>3. ASSUME NEW k \in Key
      PROVE  \/ chains'[k] = chains[k] /\ rowOwner'[k] = rowOwner[k]
             \/ /\ rowOwner[k] \in {None, t} /\ rowOwner'[k] = t
                /\ Wrote(chains[k], chains'[k], CommittedIds, AbortedIds, t)
  <2>1. CASE k \in K
    <3>1. rowOwner[k] \in {None, t} /\ rowOwner'[k] = t BY <2>1 DEF CanLock, Locked
    <3>2. QED BY <3>1, Holding
  <2>2. CASE k \notin K BY <2>2 DEF Locked
  <2>3. QED BY <2>1, <2>2
<1>4. QED BY <1>2, <1>3 DEF ChainStep

(* INSERT.                                                                 *)
LEMMA InsertStep ==
    ASSUME AllAvoided, Inv, Reads, NEW t \in Txn, NEW k \in Key, Insert(t, k)
    PROVE  /\ WriteStep(t)
           /\ \/ \A j \in Key : Kept(j)
              \/ /\ Mine(chains[k], CommittedIds, t) = Absent /\ Redrafts(t, k, {t})
                 /\ \A j \in Key \ {k} : Kept(j)
<1>1. /\ status[t] = "active" /\ stmt[t] = None /\ CanWrite(t) /\ CanLock(t, {k}) /\ gc = None
      /\ writers' = writers \cup {t} /\ rowOwner' = Locked(t, {k}) /\ pinned' = Pinned(t)
      /\ chains' = IF View(k, t, snapshot_for(t)) = Absent
                   THEN [chains EXCEPT ![k] = Inserted(chains[k], t, {t})] ELSE chains
      /\ status' = status /\ nextId' = nextId /\ readers' = readers /\ stmt' = stmt /\ gc' = gc
  BY DEF Insert, Idle, NoGcAround, AllAvoided
<1>2. t \in Active BY <1>1 DEF Active
<1>3. MayWrite(t) BY <1>1, <1>2 DEF CanWrite, AllAvoided, MayWrite
<1>4. Pinned(t) = pinned /\ View(k, t, snapshot_for(t)) = Mine(chains[k], CommittedIds, t)
  BY <1>3, SnapshotIs
<1>5. DOMAIN chains = Key /\ DOMAIN stmt = Txn /\ StmtOK(stmt[t])
  BY DEF Inv, TypeInv, TypeOK, StmtOK
<1>6. Settled(t)' BY <1>1 DEF Settled
<1>7. rowOwner[k] \in {None, t} /\ rowOwner'[k] = t /\ \A j \in Key \ {k} : rowOwner'[j] = rowOwner[j]
  BY <1>1 DEF CanLock, Locked
<1>8. rowOwner' \in [Key -> Txn \cup {None}] BY <1>1 DEF Inv, TypeInv, TypeOK, Locked
<1>9. ASSUME ChainStep(t), DOMAIN chains' = Key PROVE WriteStep(t)
  BY <1>1, <1>3, <1>4, <1>5, <1>6, <1>8, <1>9 DEF WriteStep
<1>10. CASE Mine(chains[k], CommittedIds, t) = Absent
  <2>1. chains' = [chains EXCEPT ![k] = Inserted(chains[k], t, {t})] BY <1>1, <1>4, <1>10
  <2>2. chains'[k] = Inserted(chains[k], t, {t}) /\ DOMAIN chains' = Key /\ \A j \in Key \ {k} : Kept(j)
    BY <1>5, <2>1 DEF Kept
  <2>3. Row({t}) BY DEF Row, RowSet, Absent
  <2>4. /\ Wrote(chains[k], chains'[k], CommittedIds, AbortedIds, t)
        /\ Mine(chains'[k], CommittedIds, t) = {t}
    BY <1>2, <1>7, <1>10, <2>2, <2>3, Holding, Writes
  <2>5. ChainStep(t) BY <1>7, <2>2, <2>4 DEF ChainStep, Kept
  <2>6. QED BY <1>7, <1>9, <1>10, <2>2, <2>4, <2>5 DEF Redrafts
<1>11. CASE Mine(chains[k], CommittedIds, t) # Absent
  <2>1. chains' = chains BY <1>1, <1>4, <1>11
  <2>2. ChainStep(t) BY <1>1, <1>2, <2>1, LockOnly
  <2>3. QED BY <1>5, <1>9, <2>1, <2>2 DEF Kept
<1>12. QED BY <1>10, <1>11

(* What is not stamped by a transaction that rolled back.                  *)
LEMMA NotStamped ==
    ASSUME NEW k \in Key, ~Stamped(k)
    PROVE  Unstamped(chains[k], AbortedIds)
<1>1. 0 \notin Txn BY ApartFromTxn
<1>2. \A i \in DOMAIN chains[k] : chains[k][i].xmax \notin AbortedIds
  BY <1>1 DEF Stamped, AbortedIds
<1>3. QED BY <1>2 DEF Unstamped

(* UPDATE and DELETE, with the row locks.                                  *)
LEMMA ApplyStep ==
    ASSUME AllAvoided, Inv, Reads, NEW t \in Txn, Apply(t)
    PROVE  /\ WriteStep(t)
           /\ \/ \A k \in Key : Kept(k) \/
                    (/\ Mine(chains[k], CommittedIds, t) # Absent
                     /\ Redrafts(t, k, Mine(chains[k], CommittedIds, t) \cup {t}))
              \/ \A k \in Key : Kept(k) \/ Redrafts(t, k, Absent)
<1> DEFINE keys == stmt[t].keys
           D(k) == Mine(chains[k], CommittedIds, t)
<1>1. /\ stmt[t] # None /\ stmt[t].op \in {"update", "delete"} /\ CanLock(t, keys) /\ gc = None
      /\ rowOwner' = Locked(t, keys) /\ stmt' = [stmt EXCEPT ![t] = None]
      /\ status' = status /\ nextId' = nextId /\ pinned' = pinned /\ readers' = readers
      /\ writers' = writers /\ gc' = gc
  BY DEF Apply, NoGcAround, AllAvoided
<1>2. MayWrite(t) /\ t \in writers /\ t \in Active BY <1>1, MidStatement DEF MayWrite
<1>3. \A k \in Key : View(k, t, PostLock(t)) = D(k) BY <1>2, SnapshotIs
<1>4. PICK chosen \in SUBSET {k \in keys : View(k, t, PostLock(t)) # Absent} :
         /\ stmt[t].op = "delete" => \A k \in chosen : ~Stamped(k)
         /\ chains' = [k \in Key |->
               IF k \notin chosen THEN chains[k]
               ELSE IF stmt[t].op = "update"
                    THEN Updated(chains[k], t, View(k, t, PostLock(t)) \cup {t})
                    ELSE Deleted(chains[k], t)]
  BY DEF Apply, AllAvoided
<1>5. DOMAIN chains = Key /\ DOMAIN stmt = Txn /\ keys \subseteq Key
  BY <1>1 DEF Inv, TypeInv, TypeOK
<1> HIDE DEF keys
<1>6. \A k \in chosen : k \in keys /\ k \in Key /\ D(k) # Absent BY <1>3, <1>4, <1>5
<1>7. /\ \A k \in keys : rowOwner[k] \in {None, t} /\ rowOwner'[k] = t
      /\ \A k \in Key \ keys : rowOwner'[k] = rowOwner[k]
  BY <1>1, <1>5 DEF CanLock, Locked
<1>8. ASSUME NEW k \in chosen
      PROVE  /\ Wrote(chains[k], chains'[k], CommittedIds, AbortedIds, t)
             /\ stmt[t].op = "update" => Redrafts(t, k, D(k) \cup {t})
             /\ stmt[t].op = "delete" => Redrafts(t, k, Absent)
  <2>1. Held(chains[k], CommittedIds, AbortedIds, t) /\ D(k) # Absent
    BY <1>2, <1>6, <1>7, Holding
  <2>2. Row(D(k) \cup {t})
    <3>1. D(k) \in RowSet BY <1>2, <1>6 DEF Reads
    <3>2. QED BY <3>1 DEF Row, RowSet, Absent
  <2>3. CASE stmt[t].op = "update"
    <3>1. chains'[k] = Updated(chains[k], t, D(k) \cup {t}) BY <1>3, <1>4, <1>6, <2>3
    <3>2. QED BY <1>6, <1>7, <2>1, <2>2, <2>3, <3>1, Writes DEF Redrafts
  <2>4. CASE stmt[t].op = "delete"
    <3>1. chains'[k] = Deleted(chains[k], t) BY <1>4, <1>6, <2>4
    <3>2. Unstamped(chains[k], AbortedIds) BY <1>4, <1>6, <2>4, NotStamped
    <3>3. QED BY <1>6, <1>7, <2>1, <2>2, <2>4, <3>1, <3>2, Writes DEF Redrafts
  <2>5. QED BY <1>1, <2>3, <2>4
<1>9. \A k \in Key : k \in chosen \/ Kept(k) BY <1>4 DEF Kept
<1>10. ASSUME NEW k \in Key
       PROVE  \/ chains'[k] = chains[k] /\ rowOwner'[k] = rowOwner[k]
              \/ /\ rowOwner[k] \in {None, t} /\ rowOwner'[k] = t
                 /\ Wrote(chains[k], chains'[k], CommittedIds, AbortedIds, t)
  <2>1. CASE k \in chosen BY <1>6, <1>7, <1>8, <2>1
  <2>2. CASE k \in keys \ chosen
    <3>1. Wrote(chains[k], chains[k], CommittedIds, AbortedIds, t) BY <1>2, <1>7, <2>2, Holding
    <3>2. QED BY <1>7, <1>9, <2>2, <3>1 DEF Kept
  <2>3. CASE k \notin keys BY <1>6, <1>7, <1>9, <2>3 DEF Kept
  <2>4. QED BY <2>1, <2>2, <2>3
<1>11. WriteStep(t)
  <2>1. DOMAIN chains' = Key BY <1>4
  <2>2. rowOwner' \in [Key -> Txn \cup {None}] BY <1>1 DEF Inv, TypeInv, TypeOK, Locked
  <2>3. stmt'[t] = None /\ DOMAIN stmt' = Txn /\ \A u \in Txn \ {t} : stmt'[u] = stmt[u] BY <1>1, <1>5
  <2>4. Settled(t)' BY <2>3 DEF Settled
  <2>5. writers' = writers \cup {t} BY <1>1, <1>2
  <2>6. ChainStep(t) BY <1>10 DEF ChainStep
  <2>7. QED BY <1>1, <1>2, <2>1, <2>2, <2>3, <2>4, <2>5, <2>6 DEF WriteStep, StmtOK
<1>12. QED BY <1>1, <1>6, <1>8, <1>9, <1>11

(* UPDATE of a primary key: the lock of the row.                           *)
LEMMA LockMovedStep ==
    ASSUME Inv, Reads, NEW t \in Txn, NEW k \in Key, LockMoved(t, k)
    PROVE  WriteStep(t) /\ \A j \in Key : Kept(j)
<1>1. /\ stmt[t] # None /\ CanLock(t, {k}) /\ rowOwner' = Locked(t, {k}) /\ chains' = chains
      /\ \/ stmt' = [stmt EXCEPT ![t] = None]
         \/ /\ View(k, t, PostLock(t)) # Absent
            /\ stmt' = [stmt EXCEPT ![t] = [op |-> "moving", keys |-> {k}, snap |-> PostLock(t)]]
      /\ status' = status /\ nextId' = nextId /\ pinned' = pinned /\ readers' = readers
      /\ writers' = writers /\ gc' = gc
  BY DEF LockMoved
<1>2. MayWrite(t) /\ t \in writers /\ t \in Active BY <1>1, MidStatement DEF MayWrite
<1>3. ChainStep(t) /\ rowOwner' \in [Key -> Txn \cup {None}] BY <1>1, <1>2, LockOnly
<1>4. /\ View(k, t, PostLock(t)) = Mine(chains[k], CommittedIds, t) /\ PostLock(t) \in Snapshot
      /\ rowOwner[k] \in {None, t} => OnlyFrom(chains[k], Past(CommittedIds, AbortedIds, t, PostLock(t)))
  BY <1>2, SnapshotIs
<1>5. rowOwner[k] \in {None, t} /\ rowOwner'[k] = t BY <1>1 DEF CanLock, Locked
<1>6. DOMAIN chains = Key /\ DOMAIN stmt = Txn BY DEF Inv, TypeInv, TypeOK
<1>7. CommittedIds' = CommittedIds /\ AbortedIds' = AbortedIds
  BY <1>1 DEF CommittedIds, AbortedIds
<1>8. DOMAIN stmt' = Txn /\ (\A u \in Txn \ {t} : stmt'[u] = stmt[u]) /\ StmtOK(stmt'[t]) /\ Settled(t)'
  <2>1. CASE stmt' = [stmt EXCEPT ![t] = None]
    <3>1. stmt'[t] = None /\ DOMAIN stmt' = Txn /\ \A u \in Txn \ {t} : stmt'[u] = stmt[u] BY <1>6, <2>1
    <3>2. QED BY <3>1 DEF StmtOK, Settled
  <2>2. CASE /\ View(k, t, PostLock(t)) # Absent
             /\ stmt' = [stmt EXCEPT ![t] = [op |-> "moving", keys |-> {k}, snap |-> PostLock(t)]]
    <3>1. /\ stmt'[t] = [op |-> "moving", keys |-> {k}, snap |-> PostLock(t)]
          /\ DOMAIN stmt' = Txn /\ \A u \in Txn \ {t} : stmt'[u] = stmt[u]
      BY <1>6, <2>2
    <3>2. stmt'[t].op = "moving" /\ stmt'[t].keys = {k} /\ stmt'[t].snap = PostLock(t) BY <3>1
    <3>3. StmtOK(stmt'[t]) BY <1>4, <3>2 DEF StmtOK
    <3>4. \A j \in stmt'[t].keys :
             /\ rowOwner'[j] = t /\ OnlyFrom(chains'[j], Past(CommittedIds', AbortedIds', t, stmt'[t].snap))
             /\ Mine(chains'[j], CommittedIds', t) # Absent
      BY <1>1, <1>4, <1>5, <1>7, <2>2, <3>2
    <3>5. QED BY <3>1, <3>3, <3>4 DEF Settled
  <2>3. QED BY <1>1, <2>1, <2>2
<1>9. QED BY <1>1, <1>2, <1>3, <1>6, <1>8 DEF WriteStep, Kept

(* The wait for the row locks fails.                                       *)
LEMMA LockFailsStep ==
    ASSUME Inv, NEW t \in Txn, LockFails(t)
    PROVE  WriteStep(t) /\ \A j \in Key : Kept(j)
<1>1. /\ stmt[t] # None /\ chains' = chains /\ stmt' = [stmt EXCEPT ![t] = None]
      /\ status' = status /\ nextId' = nextId /\ pinned' = pinned /\ readers' = readers
      /\ writers' = writers /\ gc' = gc
  BY DEF LockFails
<1>2. PICK got \in SUBSET stmt[t].keys : CanLock(t, got) /\ rowOwner' = Locked(t, got)
  BY DEF LockFails
<1>3. DOMAIN chains = Key /\ DOMAIN stmt = Txn /\ stmt[t].keys \subseteq Key
  BY <1>1 DEF Inv, TypeInv, TypeOK
<1>4. MayWrite(t) /\ t \in writers /\ t \in Active BY <1>1, MidStatement DEF MayWrite
<1>5. ChainStep(t) /\ rowOwner' \in [Key -> Txn \cup {None}] BY <1>1, <1>2, <1>3, <1>4, LockOnly
<1>6. stmt'[t] = None /\ DOMAIN stmt' = Txn /\ \A u \in Txn \ {t} : stmt'[u] = stmt[u] BY <1>1, <1>3
<1>7. QED BY <1>1, <1>3, <1>4, <1>5, <1>6 DEF WriteStep, Kept, StmtOK, Settled

(* UPDATE of a primary key: from the old key to the new.                   *)
LEMMA MoveOntoStep ==
    ASSUME AllAvoided, Inv, Reads, NEW t \in Txn, NEW k \in Key, NEW to \in Key, k # to,
           MoveOnto(t, k, to)
    PROVE  /\ WriteStep(t)
           /\ \/ \A j \in Key : Kept(j)
              \/ /\ Mine(chains[to], CommittedIds, t) = Absent
                 /\ Redrafts(t, to, Mine(chains[k], CommittedIds, t) \cup {t}) /\ Redrafts(t, k, Absent)
                 /\ \A j \in Key \ {k, to} : Kept(j)
<1> DEFINE snap == stmt[t].snap
           D(j) == Mine(chains[j], CommittedIds, t)
<1>1. /\ stmt[t] # None /\ stmt[t].op = "moving" /\ stmt[t].keys = {k}
      /\ CanLock(t, {to}) /\ gc = None /\ ~Stamped(k)
      /\ View(to, t, snap) = Absent => View(to, t, take_snapshot) = Absent
      /\ chains' = IF View(to, t, snap) # Absent THEN chains
                   ELSE [chains EXCEPT ![k] = Deleted(chains[k], t),
                                       ![to] = Inserted(chains[to], t, View(k, t, snap) \cup {t})]
      /\ rowOwner' = Locked(t, {to}) /\ stmt' = [stmt EXCEPT ![t] = None]
      /\ status' = status /\ nextId' = nextId /\ pinned' = pinned /\ readers' = readers
      /\ writers' = writers /\ gc' = gc
  BY DEF MoveOnto, NoGcAround, AllAvoided
<1>2. MayWrite(t) /\ t \in writers /\ t \in Active BY <1>1, MidStatement DEF MayWrite
<1>3. rowOwner[k] = t /\ D(k) # Absent BY <1>1 DEF Inv, MoveInv, Settled
<1>4. View(k, t, snap) = D(k) /\ View(to, t, take_snapshot) = D(to) /\ D(k) \in RowSet
  BY <1>1, <1>2 DEF Reads
<1>5. DOMAIN chains = Key /\ DOMAIN stmt = Txn BY DEF Inv, TypeInv, TypeOK
<1>6. /\ rowOwner[to] \in {None, t} /\ rowOwner'[to] = t /\ rowOwner'[k] = t
      /\ \A j \in Key \ {k, to} : rowOwner'[j] = rowOwner[j]
  BY <1>1, <1>3 DEF CanLock, Locked
<1>7. stmt'[t] = None /\ DOMAIN stmt' = Txn /\ \A u \in Txn \ {t} : stmt'[u] = stmt[u] BY <1>1, <1>5
<1>8. rowOwner' \in [Key -> Txn \cup {None}] BY <1>1 DEF Inv, TypeInv, TypeOK, Locked
<1>9. ASSUME ChainStep(t), DOMAIN chains' = Key PROVE WriteStep(t)
  BY <1>1, <1>2, <1>7, <1>8, <1>9 DEF WriteStep, StmtOK, Settled
<1>10. CASE View(to, t, snap) # Absent
  <2>1. chains' = chains BY <1>1, <1>10
  <2>2. ChainStep(t) BY <1>1, <1>2, <2>1, LockOnly
  <2>3. QED BY <1>5, <1>9, <2>1, <2>2 DEF Kept
<1>11. CASE View(to, t, snap) = Absent
  <2>1. D(to) = Absent BY <1>1, <1>4, <1>11
  <2>2. chains' = [chains EXCEPT ![k] = Deleted(chains[k], t),
                                 ![to] = Inserted(chains[to], t, D(k) \cup {t})]
    BY <1>1, <1>4, <1>11
  <2>3. /\ chains'[k] = Deleted(chains[k], t) /\ chains'[to] = Inserted(chains[to], t, D(k) \cup {t})
        /\ DOMAIN chains' = Key /\ \A j \in Key \ {k, to} : Kept(j)
    BY <1>5, <2>2 DEF Kept
  <2>4. Row(D(k) \cup {t}) BY <1>4 DEF Row, RowSet, Absent
  <2>5. Held(chains[k], CommittedIds, AbortedIds, t) /\ Held(chains[to], CommittedIds, AbortedIds, t)
    BY <1>2, <1>3, <1>6, Holding
  <2>6. Unstamped(chains[k], AbortedIds) BY <1>1, NotStamped
  <2>7. /\ Wrote(chains[k], chains'[k], CommittedIds, AbortedIds, t)
        /\ Mine(chains'[k], CommittedIds, t) = Absent
    BY <1>3, <2>3, <2>4, <2>5, <2>6, Writes
  <2>8. /\ Wrote(chains[to], chains'[to], CommittedIds, AbortedIds, t)
        /\ Mine(chains'[to], CommittedIds, t) = D(k) \cup {t}
    BY <2>1, <2>3, <2>4, <2>5, Writes
  <2>9. ChainStep(t) BY <1>3, <1>6, <2>3, <2>7, <2>8 DEF ChainStep, Kept
  <2>10. QED BY <1>6, <1>9, <2>1, <2>3, <2>7, <2>8, <2>9 DEF Redrafts
<1>12. QED BY <1>10, <1>11

-----------------------------------------------------------------------------
(* The other actions keep the invariant.                                   *)

(* A snapshot is pinned, or has been: it sees what is committed by now, or *)
(* what it saw.                                                            *)
LEMMA PinStep ==
    ASSUME Inv, NEW t \in Txn, t \in Serial, t \in Active, pinned' = Pinned(t),
           chains' = chains, status' = status, nextId' = nextId, gc' = gc
    PROVE  /\ pinned' \in [Txn -> Snapshot \cup {None}] /\ pinned'[t] # None
           /\ pinned'[t] = IF pinned[t] = None THEN take_snapshot ELSE pinned[t]
           /\ \A u \in Txn \ {t} : pinned'[u] = pinned[u]
           /\ \A u \in Txn : pinned'[u] # None => u \in Serial /\ u \in Active' /\ Fixed(EndedIds', pinned'[u])
           /\ CommittedIds' = CommittedIds /\ AbortedIds' = AbortedIds /\ Active' = Active
           /\ CopyInv'
<1>1. pinned \in [Txn -> Snapshot \cup {None}] /\ TypeOK /\ LockInv
  BY DEF Inv, TypeInv, TypeOK
<1>2. nextId \in Nat /\ (\A x \in CommittedIds \cup AbortedIds : x < nextId /\ x \notin Active)
  BY <1>1, Ended
<1>3. take_snapshot \in Snapshot BY <1>2 DEF take_snapshot, Snapshot, Active
<1>4. None \notin Snapshot BY NoneAssumption
<1>5. /\ pinned' \in [Txn -> Snapshot \cup {None}] /\ pinned'[t] # None
      /\ pinned'[t] = IF pinned[t] = None THEN take_snapshot ELSE pinned[t]
      /\ \A u \in Txn \ {t} : pinned'[u] = pinned[u]
  BY <1>1, <1>3, <1>4 DEF Pinned, snapshot_for
<1>6. /\ CommittedIds' = CommittedIds /\ AbortedIds' = AbortedIds /\ EndedIds' = EndedIds /\ Active' = Active
  BY DEF CommittedIds, AbortedIds, EndedIds, Active
<1>7. Fixed(EndedIds, take_snapshot)
  <2>1. ASSUME NEW u \in Txn \ EndedIds, u < nextId PROVE u \in Active
    <3>1. status[u] # "unborn" BY <1>1, <2>1 DEF LockInv
    <3>2. status[u] \in {"unborn", "active", "committed", "aborted"} BY <1>1 DEF TypeOK
    <3>3. QED BY <2>1, <3>1, <3>2 DEF EndedIds, CommittedIds, AbortedIds, Active
  <2>2. QED BY <2>1 DEF Fixed, take_snapshot
<1>8. \A u \in Txn : pinned'[u] # None => u \in Serial /\ u \in Active' /\ Fixed(EndedIds', pinned'[u])
  BY <1>5, <1>6, <1>7 DEF Inv, PinInv
<1>9. CopyInv'
  <2>1. SUFFICES ASSUME gc # None, NEW u \in Txn, NEW k \in Key, pinned'[u] # None
                 PROVE  ViewOf(gc[k], SeenIn(u, pinned[u])') = ViewOf(chains[k], SeenIn(u, pinned[u])')
    BY DEF CopyInv
  <2>2. CASE pinned[u] # None
    <3>1. pinned'[u] = pinned[u] BY <1>5, <2>2
    <3>2. SeenIn(u, pinned[u])' = SeenIn(u, pinned[u]) BY <1>6, <2>2, <3>1, SeenStays
    <3>3. QED BY <2>1, <2>2, <3>2 DEF Inv, CopyInv
  <2>3. CASE pinned[u] = None
    <3>1. u = t /\ pinned'[t] = take_snapshot BY <1>5, <2>1, <2>3
    <3>2. SeenIn(u, pinned[u])' = CommittedIds \cup {0, t}
      BY <1>2, <1>6, <3>1 DEF SeenIn, take_snapshot
    <3>3. chains[k] \in Seq(Version) /\ Left(gc[k], chains[k], CommittedIds, AbortedIds)
      BY <2>1 DEF Inv, TypeInv, TypeOK, GcInv
    <3>4. gc[k] \in Seq(Version) BY <3>3 DEF Left
    <3>5. PICK f : Leaves(gc[k], chains[k], f, CommittedIds, AbortedIds) BY <3>3 DEF Left
    <3>6. \A i \in LiveIn(chains[k], CommittedIds \cup {0, t}) : ~Dead(chains[k][i], CommittedIds, AbortedIds)
      <4>1. 0 \notin Txn BY ApartFromTxn
      <4>2. 0 \notin CommittedIds /\ 0 \notin AbortedIds /\ t \notin AbortedIds
            /\ CommittedIds \cap AbortedIds = {}
        BY <4>1 DEF CommittedIds, AbortedIds, Active
      <4>3. QED BY <4>2 DEF LiveIn, Dead
    <3>7. ViewOf(gc[k], CommittedIds \cup {0, t}) = ViewOf(chains[k], CommittedIds \cup {0, t})
      <4> DEFINE S == CommittedIds \cup {0, t}
      <4> HIDE DEF S
      <4>1. \A i \in LiveIn(chains[k], S) : ~Dead(chains[k][i], CommittedIds, AbortedIds) BY <3>6 DEF S
      <4>2. ViewOf(gc[k], S) = ViewOf(chains[k], S) BY ONLY <3>3, <3>4, <3>5, <4>1, LeavesReads
      <4>3. QED BY <4>2 DEF S
    <3>8. QED BY <3>2, <3>7
  <2>4. QED BY <2>2, <2>3
<1>10. QED BY <1>5, <1>6, <1>8, <1>9

(* A statement that reads or writes another table, or none.                *)
LEMMA PinElsewhereKeeps ==
    ASSUME Inv, NEW t \in Txn, PinElsewhere(t)
    PROVE  Inv'
<1>1. /\ t \in Active /\ t \in Serial /\ pinned' = Pinned(t)
      /\ chains' = chains /\ status' = status /\ nextId' = nextId /\ readers' = readers
      /\ writers' = writers /\ rowOwner' = rowOwner /\ stmt' = stmt /\ gc' = gc
  BY DEF PinElsewhere, Idle, locks, Active
<1>2. /\ pinned' \in [Txn -> Snapshot \cup {None}] /\ pinned'[t] # None
      /\ pinned'[t] = IF pinned[t] = None THEN take_snapshot ELSE pinned[t]
      /\ \A u \in Txn \ {t} : pinned'[u] = pinned[u]
      /\ \A u \in Txn : pinned'[u] # None => u \in Serial /\ u \in Active' /\ Fixed(EndedIds', pinned'[u])
      /\ CommittedIds' = CommittedIds /\ AbortedIds' = AbortedIds /\ Active' = Active
      /\ CopyInv'
  BY <1>1, PinStep
<1>3. TypeInv' BY <1>1, <1>2 DEF Inv, TypeInv, TypeOK
<1>4. ChainInv' BY <1>1, <1>2 DEF Inv, ChainInv
<1>5. LockInv' BY <1>1, <1>2 DEF Inv, LockInv
<1>6. PinInv'
  <2>1. \A r \in readers : r \in Txn /\ pinned[r] # None /\ pinned'[r] = pinned[r]
    BY <1>2 DEF Inv, TypeInv, TypeOK, PinInv
  <2>2. QED BY <1>1, <1>2, <2>1 DEF Inv, PinInv
<1>7. MoveInv' BY <1>1, <1>2 DEF Inv, MoveInv, Settled
<1>8. GcInv' BY <1>1, <1>2 DEF Inv, GcInv
<1>9. QED BY <1>2, <1>3, <1>4, <1>5, <1>6, <1>7, <1>8 DEF Inv

(* A read of a SERIALIZABLE transaction: the snapshot it pins is taken     *)
(* when nobody else is writing; one it has pinned before sees all that has *)
(* been committed here.                                                    *)
LEMMA SelectKeeps ==
    ASSUME AllAvoided, Inv, NEW t \in Txn, Select(t)
    PROVE  Inv'
<1>1. /\ t \in Active /\ t \in Serial /\ ~Stale(t)
      /\ writers \subseteq {t} /\ (t \in writers => readers \subseteq {t})
      /\ readers' = readers \cup {t} /\ pinned' = Pinned(t)
      /\ chains' = chains /\ status' = status /\ nextId' = nextId /\ writers' = writers
      /\ rowOwner' = rowOwner /\ stmt' = stmt /\ gc' = gc
  BY DEF Select, Idle, CanRead, AllAvoided, Active
<1>2. /\ pinned' \in [Txn -> Snapshot \cup {None}] /\ pinned'[t] # None
      /\ pinned'[t] = IF pinned[t] = None THEN take_snapshot ELSE pinned[t]
      /\ \A u \in Txn \ {t} : pinned'[u] = pinned[u]
      /\ \A u \in Txn : pinned'[u] # None => u \in Serial /\ u \in Active' /\ Fixed(EndedIds', pinned'[u])
      /\ CommittedIds' = CommittedIds /\ AbortedIds' = AbortedIds /\ Active' = Active
      /\ CopyInv'
  BY <1>1, PinStep
<1>3. TypeOK /\ LockInv /\ (\A r \in readers : r \in Txn /\ pinned[r] # None)
  BY DEF Inv, TypeInv, TypeOK, PinInv
<1>4. nextId \in Nat /\ (\A x \in CommittedIds \cup AbortedIds : x < nextId /\ x \notin Active)
  BY <1>3, Ended
<1>5. TypeInv' BY <1>1, <1>2 DEF Inv, TypeInv, TypeOK
<1>6. ChainInv' BY <1>1, <1>2 DEF Inv, ChainInv
<1>7. LockInv'
  <2>1. \A r \in readers' : writers' \subseteq {r} BY <1>1 DEF Inv, LockInv
  <2>2. QED BY <1>1, <1>2, <2>1 DEF Inv, LockInv
<1>8. ASSUME NEW k \in Key
      PROVE  OnlyFrom(chains[k], Past(CommittedIds, AbortedIds, t, pinned'[t]))
  <2>1. rowOwner[k] \in {None, t} BY <1>1 DEF Inv, LockInv
  <2>2. Held(chains[k], CommittedIds, AbortedIds, t) BY <1>1, <2>1, Holding
  <2>3. \A i \in DOMAIN chains[k] : /\ chains[k][i].xmin \in CommittedIds \cup AbortedIds \cup {0, t}
                                    /\ chains[k][i].xmax \in CommittedIds \cup AbortedIds \cup {0, t}
    BY <2>2 DEF Held, ChainOK, Written
  <2>4. CASE pinned[t] = None
    <3>1. pinned'[t] = take_snapshot BY <1>2, <2>4
    <3>2. Past(CommittedIds, AbortedIds, t, take_snapshot) = {0, t} \cup CommittedIds \cup AbortedIds
      BY <1>4 DEF Past, take_snapshot
    <3>3. QED BY <2>3, <3>1, <3>2 DEF OnlyFrom
  <2>5. CASE pinned[t] # None
    <3>1. pinned'[t] = pinned[t] BY <1>2, <2>5
    <3>2. ASSUME NEW i \in DOMAIN chains[k], NEW x \in {chains[k][i].xmin, chains[k][i].xmax}
          PROVE  x \in Past(CommittedIds, AbortedIds, t, pinned[t])
      <4>1. x \in CommittedIds \cup AbortedIds \cup {0, t} BY <2>3, <3>2
      <4>2. CASE x \in CommittedIds
        <5>1. Seen(x, t, take_snapshot) BY <1>4, <4>2 DEF Seen, take_snapshot, CommittedIds
        <5>2. Seen(x, t, pinned[t]) BY <1>1, <2>5, <3>2, <5>1 DEF Stale
        <5>3. QED BY <4>2, <5>2 DEF Seen, Past
      <4>3. CASE x \notin CommittedIds BY <4>1, <4>3 DEF Past
      <4>4. QED BY <4>2, <4>3
    <3>3. QED BY <3>1, <3>2 DEF OnlyFrom
  <2>6. QED BY <2>4, <2>5
<1>9. PinInv'
  <2>1. ASSUME NEW r \in readers'
        PROVE  pinned'[r] # None
               /\ \A k \in Key : OnlyFrom(chains[k], Past(CommittedIds, AbortedIds, r, pinned'[r]))
    <3>1. CASE r = t BY <1>2, <1>8, <3>1
    <3>2. CASE r # t
      <4>1. r \in readers /\ pinned'[r] = pinned[r] BY <1>1, <1>2, <1>3, <2>1, <3>2
      <4>2. QED BY <1>3, <4>1 DEF Inv, PinInv
    <3>3. QED BY <3>1, <3>2
  <2>2. QED BY <1>1, <1>2, <2>1 DEF PinInv
<1>10. MoveInv' BY <1>1, <1>2 DEF Inv, MoveInv, Settled
<1>11. GcInv' BY <1>1, <1>2 DEF Inv, GcInv
<1>12. QED BY <1>2, <1>5, <1>6, <1>7, <1>9, <1>10, <1>11 DEF Inv

(* UPDATE and DELETE up to the wait.                                       *)
LEMMA PlanStep ==
    ASSUME AllAvoided, Inv, Reads, NEW t \in Txn, NEW op \in {"update", "delete", "move"},
           NEW K \in SUBSET Key, Plan(t, op, K)
    PROVE  WriteStep(t) /\ rowOwner' = rowOwner /\ chains' = chains
<1>1. /\ status[t] = "active" /\ stmt[t] = None /\ CanWrite(t)
      /\ writers' = writers \cup {t} /\ pinned' = Pinned(t)
      /\ stmt' = IF K = {} THEN stmt ELSE [stmt EXCEPT ![t] = [op |-> op, keys |-> K, snap |-> None]]
      /\ chains' = chains /\ status' = status /\ nextId' = nextId /\ readers' = readers
      /\ rowOwner' = rowOwner /\ gc' = gc
  BY DEF Plan, Idle
<1>2. MayWrite(t) BY <1>1 DEF CanWrite, AllAvoided, MayWrite, Active
<1>3. Pinned(t) = pinned BY <1>2, SnapshotIs
<1>4. DOMAIN chains = Key /\ DOMAIN stmt = Txn /\ rowOwner \in [Key -> Txn \cup {None}]
  BY DEF Inv, TypeInv, TypeOK
<1>5. DOMAIN stmt' = Txn /\ (\A u \in Txn \ {t} : stmt'[u] = stmt[u]) /\ StmtOK(stmt'[t]) /\ Settled(t)'
  <2>1. CASE K = {} BY <1>1, <1>4, <2>1 DEF StmtOK, Settled
  <2>2. CASE K # {}
    <3>1. /\ stmt'[t] = [op |-> op, keys |-> K, snap |-> None] /\ DOMAIN stmt' = Txn
          /\ \A u \in Txn \ {t} : stmt'[u] = stmt[u]
      BY <1>1, <1>4, <2>2
    <3>2. stmt'[t].op = op /\ stmt'[t].keys = K /\ stmt'[t].snap = None BY <3>1
    <3>3. op \in {"update", "delete", "move", "moving"} /\ op # "moving" OBVIOUS
    <3>4. QED BY <3>1, <3>2, <3>3 DEF StmtOK, Settled
  <2>3. QED BY <2>1, <2>2
<1>6. ChainStep(t) BY <1>1 DEF ChainStep
<1>7. QED BY <1>1, <1>2, <1>3, <1>4, <1>5, <1>6 DEF WriteStep

(* BEGIN.                                                                  *)
LEMMA BeginKeeps ==
    ASSUME Inv, NEW t \in Txn, Begin(t)
    PROVE  Inv'
<1>1. /\ t = nextId /\ nextId' = t + 1 /\ status' = [status EXCEPT ![t] = "active"]
      /\ chains' = chains /\ pinned' = pinned /\ readers' = readers /\ writers' = writers
      /\ rowOwner' = rowOwner /\ stmt' = stmt /\ gc' = gc
  BY DEF Begin, locks
<1>2. TypeOK /\ LockInv /\ status \in [Txn -> {"unborn", "active", "committed", "aborted"}]
  BY DEF Inv, TypeInv, TypeOK
<1>3. Cardinality(Txn) \in Nat /\ Txn = 1..Cardinality(Txn) BY TxnAssumption, FS_CardinalityType
<1>4. t \in Nat /\ nextId' \in 1..(Cardinality(Txn) + 1) BY <1>1, <1>3
<1>5. \A u \in Txn : status'[u] = IF u = t THEN "active" ELSE status[u] BY <1>1, <1>2
<1>6. status[t] = "unborn" BY <1>1, <1>2, <1>4 DEF LockInv
<1>7. /\ CommittedIds' = CommittedIds /\ AbortedIds' = AbortedIds /\ EndedIds' = EndedIds
      /\ Active \subseteq Active'
  BY <1>5, <1>6 DEF CommittedIds, AbortedIds, EndedIds, Active
<1>8. TypeInv' BY <1>1, <1>2, <1>4 DEF Inv, TypeInv, TypeOK
<1>9. ChainInv' BY <1>1, <1>7 DEF Inv, ChainInv
<1>10. LockInv'
  <2>1. \A u \in Txn : status'[u] # "unborn" <=> u < nextId'
    <3> TAKE u \in Txn
    <3>1. u \in Int /\ t \in Int BY <1>3
    <3>2. CASE u = t BY <1>1, <1>5, <3>1, <3>2
    <3>3. CASE u # t
      <4>1. status'[u] # "unborn" <=> u < t BY <1>1, <1>2, <1>5, <3>3 DEF LockInv
      <4>2. u < t <=> u < t + 1 BY <3>1, <3>3
      <4>3. QED BY <1>1, <4>1, <4>2
    <3>4. QED BY <3>2, <3>3
  <2>2. QED BY <1>1, <1>2, <1>7, <2>1 DEF LockInv
<1>11. PinInv' BY <1>1, <1>7 DEF Inv, PinInv
<1>12. MoveInv' BY <1>1, <1>7 DEF Inv, MoveInv, Settled
<1>13. GcInv' /\ CopyInv' BY <1>1, <1>7 DEF Inv, GcInv, CopyInv, SeenIn
<1>14. QED BY <1>8, <1>9, <1>10, <1>11, <1>12, <1>13 DEF Inv

(* COMMIT and ROLLBACK: the chains whose lock t had are free, and a new    *)
(* transaction reads there what t read, or what it read before.            *)
LEMMA EndChains ==
    ASSUME Inv, NEW t \in Txn, NEW outcome \in {"committed", "aborted"}, End(t, outcome)
    PROVE  /\ CommittedIds' = IF outcome = "committed" THEN CommittedIds \cup {t} ELSE CommittedIds
           /\ AbortedIds' = IF outcome = "aborted" THEN AbortedIds \cup {t} ELSE AbortedIds
           /\ \A k \in Key :
                 /\ ChainOK(chains[k], CommittedIds', AbortedIds', rowOwner'[k])
                 /\ rowOwner[k] # t =>
                       /\ Theirs(chains[k], CommittedIds') = Theirs(chains[k], CommittedIds)
                       /\ Mine(chains[k], CommittedIds', rowOwner[k]) = Mine(chains[k], CommittedIds, rowOwner[k])
                 /\ rowOwner[k] = t =>
                       Theirs(chains[k], CommittedIds') =
                          IF outcome = "committed" THEN Mine(chains[k], CommittedIds, t)
                                                   ELSE Theirs(chains[k], CommittedIds)
<1> DEFINE C == CommittedIds
           A == AbortedIds
<1>1. /\ status[t] = "active" /\ status' = [status EXCEPT ![t] = outcome]
      /\ rowOwner' = [k \in Key |-> IF rowOwner[k] = t THEN None ELSE rowOwner[k]]
  BY DEF End, Idle
<1>2. status \in [Txn -> {"unborn", "active", "committed", "aborted"}] /\ TypeOK /\ LockInv
  BY DEF Inv, TypeInv, TypeOK
<1>3. \A u \in Txn : status'[u] = IF u = t THEN outcome ELSE status[u] BY <1>1, <1>2
<1>4. /\ CommittedIds' = IF outcome = "committed" THEN C \cup {t} ELSE C
      /\ AbortedIds' = IF outcome = "aborted" THEN A \cup {t} ELSE A
  BY <1>1, <1>3 DEF CommittedIds, AbortedIds
<1>5. Split(C, A, t) /\ \A k \in Key : Apart(C, A, rowOwner[k]) BY <1>1, <1>2, Ended
<1>6. \A k \in Key : chains[k] \in Seq(Version) /\ ChainOK(chains[k], C, A, rowOwner[k])
  BY DEF Inv, TypeInv, TypeOK, ChainInv
<1> HIDE DEF C, A
<1>7. ASSUME NEW k \in Key
      PROVE  /\ ChainOK(chains[k], CommittedIds', AbortedIds', rowOwner'[k])
             /\ rowOwner[k] # t =>
                   /\ Theirs(chains[k], CommittedIds') = Theirs(chains[k], C)
                   /\ Mine(chains[k], CommittedIds', rowOwner[k]) = Mine(chains[k], C, rowOwner[k])
             /\ rowOwner[k] = t =>
                   Theirs(chains[k], CommittedIds') =
                      IF outcome = "committed" THEN Mine(chains[k], C, t) ELSE Theirs(chains[k], C)
  <2>1. CASE rowOwner[k] = t
    <3>1. Held(chains[k], C, A, t) /\ rowOwner'[k] = None BY <1>1, <1>5, <1>6, <2>1 DEF Held
    <3>2. CASE outcome = "committed"
      <4>1. CommittedIds' = C \cup {t} /\ AbortedIds' = A BY <1>4, <3>2
      <4>2. QED BY <2>1, <3>1, <3>2, <4>1, CommitKeeps
    <3>3. CASE outcome = "aborted"
      <4>1. CommittedIds' = C /\ AbortedIds' = A \cup {t} BY <1>4, <3>3
      <4>2. QED BY <2>1, <3>1, <3>3, <4>1, AbortKeeps
    <3>4. QED BY <3>2, <3>3
  <2>2. CASE rowOwner[k] # t
    <3>1. /\ ChainOK(chains[k], C \cup {t}, A, rowOwner[k]) /\ ChainOK(chains[k], C, A \cup {t}, rowOwner[k])
          /\ Theirs(chains[k], C \cup {t}) = Theirs(chains[k], C)
          /\ Mine(chains[k], C \cup {t}, rowOwner[k]) = Mine(chains[k], C, rowOwner[k])
      <4>1. /\ ChainOK(chains[k], Plus(C, t), A, rowOwner[k]) /\ ChainOK(chains[k], C, Plus(A, t), rowOwner[k])
            /\ Theirs(chains[k], Plus(C, t)) = Theirs(chains[k], C)
            /\ Mine(chains[k], Plus(C, t), rowOwner[k]) = Mine(chains[k], C, rowOwner[k])
        BY <1>5, <1>6, <2>2, EndOther
      <4>2. QED BY <4>1 DEF Plus
    <3>2. rowOwner'[k] = rowOwner[k] BY <1>1, <2>2
    <3>3. QED BY <1>4, <2>2, <3>1, <3>2
  <2>3. QED BY <2>1, <2>2
<1>8. QED BY <1>4, <1>7 DEF C, A

(* COMMIT and ROLLBACK keep the invariant.                                 *)
LEMMA EndKeeps ==
    ASSUME Inv, NEW t \in Txn, NEW outcome \in {"committed", "aborted"}, End(t, outcome)
    PROVE  Inv'
<1>1. /\ status[t] = "active" /\ stmt[t] = None /\ status' = [status EXCEPT ![t] = outcome]
      /\ readers' = readers \ {t} /\ writers' = writers \ {t}
      /\ rowOwner' = [k \in Key |-> IF rowOwner[k] = t THEN None ELSE rowOwner[k]]
      /\ pinned' = [pinned EXCEPT ![t] = None]
      /\ chains' = chains /\ nextId' = nextId /\ stmt' = stmt /\ gc' = gc
  BY DEF End, Idle
<1>2. status \in [Txn -> {"unborn", "active", "committed", "aborted"}] /\ pinned \in [Txn -> Snapshot \cup {None}]
  BY DEF Inv, TypeInv, TypeOK
<1>3. \A u \in Txn : status'[u] = IF u = t THEN outcome ELSE status[u] BY <1>1, <1>2
<1>4. /\ CommittedIds \subseteq CommittedIds' /\ AbortedIds \subseteq AbortedIds'
      /\ \A k \in Key :
            /\ ChainOK(chains[k], CommittedIds', AbortedIds', rowOwner'[k])
            /\ rowOwner[k] # t =>
                  Mine(chains[k], CommittedIds', rowOwner[k]) = Mine(chains[k], CommittedIds, rowOwner[k])
  BY EndChains
<1>5. Active' = Active \ {t} BY <1>1, <1>3 DEF Active
<1>6. \A u, s, c : OnlyFrom(c, Past(CommittedIds, AbortedIds, u, s)) =>
                   OnlyFrom(c, Past(CommittedIds', AbortedIds', u, s))
  BY <1>4 DEF OnlyFrom, Past
<1>7. EndedIds \subseteq EndedIds' BY <1>4 DEF EndedIds
<1>8. TypeInv' BY <1>1, <1>2 DEF Inv, TypeInv, TypeOK
<1>9. ChainInv' BY <1>1, <1>4 DEF ChainInv
<1>10. LockInv'
  <2>1. /\ readers' \cup writers' \subseteq Active'
        /\ \A r \in readers' : writers' \subseteq {r}
        /\ readers' \subseteq Serial /\ Serial \cap writers' \subseteq readers'
        /\ \A u \in Txn : stmt'[u] # None => u \in writers'
    BY <1>1, <1>5 DEF Inv, LockInv
  <2>2. \A k \in Key : rowOwner'[k] # None => rowOwner'[k] \in writers'
    BY <1>1 DEF Inv, LockInv
  <2>3. \A u \in Txn : status'[u] # "unborn" <=> u < nextId'
    BY <1>1, <1>3 DEF Inv, LockInv
  <2>4. QED BY <2>1, <2>2, <2>3 DEF LockInv
<1>11. PinInv'
  <2>1. /\ \A u \in Txn : pinned'[u] # None => u \in Serial /\ u \in Active' /\ Fixed(EndedIds', pinned'[u])
        /\ \A r \in readers' : pinned'[r] # None
    <3>1. \A u \in Txn \ {t} : pinned'[u] = pinned[u] BY <1>1, <1>2
    <3>2. \A s : Fixed(EndedIds, s) => Fixed(EndedIds', s) BY <1>7 DEF Fixed
    <3>3. pinned'[t] = None /\ t \notin readers' BY <1>1, <1>2
    <3>4. readers \subseteq Txn BY DEF Inv, TypeInv, TypeOK
    <3>5. QED BY <1>1, <1>5, <3>1, <3>2, <3>3, <3>4 DEF Inv, PinInv
  <2>2. ASSUME NEW r \in readers', NEW k \in Key PROVE OnlyFrom(chains'[k], Past(CommittedIds', AbortedIds', r, pinned'[r]))
    <3>1. r \in readers /\ r # t /\ r \in Txn BY <1>1 DEF Inv, TypeInv, TypeOK
    <3>2. pinned'[r] = pinned[r] BY <1>1, <1>2, <3>1
    <3>3. OnlyFrom(chains[k], Past(CommittedIds, AbortedIds, r, pinned[r])) BY <3>1 DEF Inv, PinInv
    <3>4. QED BY <1>1, <1>6, <1>7, <3>2, <3>3
  <2>3. QED BY <2>1, <2>2 DEF PinInv
<1>12. MoveInv'
  <2>1. ASSUME NEW u \in Txn, stmt[u] # None, stmt[u].op = "moving", NEW k \in stmt[u].keys
        PROVE  /\ rowOwner'[k] = u /\ OnlyFrom(chains[k], Past(CommittedIds', AbortedIds', u, stmt[u].snap))
               /\ Mine(chains[k], CommittedIds', u) # Absent
    <3>1. rowOwner[k] = u /\ OnlyFrom(chains[k], Past(CommittedIds, AbortedIds, u, stmt[u].snap)) /\ Mine(chains[k], CommittedIds, u) # Absent
      BY <2>1 DEF Inv, MoveInv, Settled
    <3>2. u # t /\ k \in Key BY <1>1, <2>1 DEF Inv, TypeInv, TypeOK
    <3>3. rowOwner'[k] = u BY <1>1, <3>1, <3>2
    <3>4. Mine(chains[k], CommittedIds', u) # Absent BY <1>4, <3>1, <3>2
    <3>5. QED BY <1>6, <1>7, <3>1, <3>3, <3>4
  <2>2. QED BY <1>1, <2>1 DEF MoveInv, Settled
<1>13. GcInv'
  <2>1. \A d, c : Left(d, c, CommittedIds, AbortedIds) => Left(d, c, CommittedIds', AbortedIds')
    <3>1. \A v : Dead(v, CommittedIds, AbortedIds) => Dead(v, CommittedIds', AbortedIds') BY <1>4 DEF Dead
    <3>2. ASSUME NEW d, NEW c, NEW f, Leaves(d, c, f, CommittedIds, AbortedIds)
          PROVE  Leaves(d, c, f, CommittedIds', AbortedIds')
      BY <3>1, <3>2 DEF Leaves
    <3>3. QED BY <3>2 DEF Left
  <2>2. QED BY <1>1, <2>1 DEF Inv, GcInv
<1>14. CopyInv'
  <2>1. SUFFICES ASSUME gc # None, NEW u \in Txn, NEW k \in Key, pinned'[u] # None
                 PROVE  ViewOf(gc[k], SeenIn(u, pinned[u])') = ViewOf(chains[k], SeenIn(u, pinned[u])')
    BY <1>1 DEF CopyInv
  <2>2. pinned'[u] = pinned[u] BY <1>1, <1>2, <2>1
  <2>3. CommittedIds' \ CommittedIds \subseteq Active BY <1>1, <1>3 DEF CommittedIds, Active
  <2>4. SeenIn(u, pinned[u])' = SeenIn(u, pinned[u]) BY <1>4, <2>1, <2>2, <2>3, SeenStays
  <2>5. QED BY <2>1, <2>2, <2>4 DEF Inv, CopyInv
<1>15. QED BY <1>8, <1>9, <1>10, <1>11, <1>12, <1>13, <1>14 DEF Inv

(* A GC pass: the copies.                                                  *)
LEMMA GcScanKeeps ==
    ASSUME AllAvoided, Inv, GcScan
    PROVE  Inv'
<1>1. /\ gc' = [k \in Key |-> Unreclaimed(chains[k])]
      /\ chains' = chains /\ status' = status /\ nextId' = nextId /\ pinned' = pinned
      /\ readers' = readers /\ writers' = writers /\ rowOwner' = rowOwner /\ stmt' = stmt
  BY DEF GcScan, locks
<1>2. /\ CommittedIds' = CommittedIds /\ AbortedIds' = AbortedIds /\ EndedIds' = EndedIds /\ Active' = Active
  BY <1>1 DEF CommittedIds, AbortedIds, EndedIds, Active
<1>3. \A v \in Version : Reclaimable(v) => Dead(v, CommittedIds, AbortedIds)
  BY DEF Reclaimable, Dead, CommittedIds, AbortedIds
<1>4. \A k \in Key : chains[k] \in Seq(Version) BY DEF Inv, TypeInv, TypeOK
<1>5. \A k \in Key : Left(gc'[k], chains[k], CommittedIds, AbortedIds)
  BY <1>1, <1>3, <1>4, CopyIsLeft
<1>6. \A k \in Key : gc'[k] \in Seq(Version) BY <1>5 DEF Left
<1>7. TypeInv' BY <1>1, <1>6 DEF Inv, TypeInv, TypeOK
<1>8. ChainInv' /\ PinInv' BY <1>1, <1>2 DEF Inv, ChainInv, PinInv
<1>9. LockInv' BY <1>1, <1>2 DEF Inv, LockInv
<1>10. MoveInv' BY <1>1, <1>2 DEF Inv, MoveInv, Settled
<1>11. GcInv' BY <1>1, <1>2, <1>5 DEF GcInv
<1>12. CopyInv'
  <2> DEFINE low == {x \in CommittedIds : x < Oldest}
  <2>1. \A v \in Version : Reclaimable(v) => Dead(v, low, AbortedIds)
    BY DEF Reclaimable, Dead, CommittedIds, AbortedIds
  <2>2. SUFFICES ASSUME NEW t \in Txn, NEW k \in Key, pinned[t] # None
                 PROVE  ViewOf(gc'[k], SeenIn(t, pinned[t])) = ViewOf(chains[k], SeenIn(t, pinned[t]))
    BY <1>1, <1>2 DEF CopyInv, SeenIn
  <2> DEFINE S == SeenIn(t, pinned[t])
  <2>3. gc'[k] = Unreclaimed(chains[k]) BY <1>1
  <2> HIDE DEF low
  <2>4. Left(gc'[k], chains[k], low, AbortedIds) BY <1>4, <2>1, <2>3, CopyIsLeft
  <2>5. PICK f : Leaves(gc'[k], chains[k], f, low, AbortedIds) BY <2>4 DEF Left
  <2>6. ASSUME NEW i \in LiveIn(chains[k], S) PROVE ~Dead(chains[k][i], low, AbortedIds)
    <3>1. VisibleIn(k, t, pinned[t]) = LiveIn(chains[k], S) BY ViewIsViewOf DEF Inv, TypeInv
    <3>2. ~Reclaimable(chains[k][i])
      BY <2>2, <2>6, <3>1 DEF GcScan, AllAvoided
    <3>3. chains[k][i].xmin \in S BY <2>6 DEF LiveIn
    <3>4. chains[k][i].xmin \notin AbortedIds
      <4>1. t \in Active BY <2>2 DEF Inv, PinInv
      <4>2. S \cap AbortedIds = {}
        BY <4>1, ApartFromTxn DEF SeenIn, CommittedIds, AbortedIds, Active
      <4>3. QED BY <3>3, <4>2
    <3>5. chains[k][i].xmax \notin low BY <3>2 DEF Reclaimable, low, CommittedIds
    <3>6. QED BY <3>4, <3>5 DEF Dead
  <2>7. chains[k] \in Seq(Version) /\ gc'[k] \in Seq(Version) BY <1>4, <1>6
  <2>8. QED BY <2>5, <2>6, <2>7, LeavesReads
<1>13. QED BY <1>7, <1>8, <1>9, <1>10, <1>11, <1>12 DEF Inv

(* The second half: each chain is as it was, or its copy.                  *)
LEMMA GcReplaceChains ==
    ASSUME Inv, GcReplace
    PROVE  /\ DOMAIN chains' = Key /\ gc' = None
           /\ status' = status /\ nextId' = nextId /\ pinned' = pinned
           /\ readers' = readers /\ writers' = writers /\ rowOwner' = rowOwner /\ stmt' = stmt
           /\ \A k \in Key :
                 \/ chains'[k] = chains[k]
                 \/ chains'[k] = gc[k] /\ Left(gc[k], chains[k], CommittedIds, AbortedIds)
<1>1. gc # None /\ \A k \in Key : Left(gc[k], chains[k], CommittedIds, AbortedIds)
  BY DEF GcReplace, Inv, GcInv
<1>2. PICK gone \in SUBSET {k \in Key : gc[k] = <<>> /\ chains[k] # <<>>} :
         chains' = [k \in Key |->
                      IF k \in gone THEN <<>>
                      ELSE IF k \in {j \in Key : gc[j] = <<>> /\ chains[j] # <<>>} THEN chains[k]
                      ELSE Shared(gc[k], chains[k])]
  BY DEF GcReplace
<1>3. \A k \in Key : chains[k] \in Seq(Version) /\ OneEach(chains[k])
  BY DEF Inv, TypeInv, TypeOK, ChainInv, ChainOK
<1>4. \A k \in Key : Shared(gc[k], chains[k]) = gc[k] BY <1>1, <1>3, SharedIs
<1>5. \A k \in Key : chains'[k] = chains[k] \/ chains'[k] = gc[k] BY <1>2, <1>4
<1>6. QED BY <1>1, <1>2, <1>5 DEF GcReplace, locks

(* The second half of a GC pass keeps the invariant, and what anybody reads. *)
LEMMA GcReplaceKeeps ==
    ASSUME Inv, GcReplace
    PROVE  /\ Inv'
           /\ CommittedIds' = CommittedIds
           /\ \A k \in Key : /\ Theirs(chains'[k], CommittedIds) = Theirs(chains[k], CommittedIds)
                             /\ Mine(chains'[k], CommittedIds, rowOwner[k]) =
                                   Mine(chains[k], CommittedIds, rowOwner[k])
<1>1. /\ DOMAIN chains' = Key /\ gc' = None
      /\ status' = status /\ nextId' = nextId /\ pinned' = pinned
      /\ readers' = readers /\ writers' = writers /\ rowOwner' = rowOwner /\ stmt' = stmt
      /\ \A k \in Key : \/ chains'[k] = chains[k]
                        \/ chains'[k] = gc[k] /\ Left(gc[k], chains[k], CommittedIds, AbortedIds)
  BY GcReplaceChains
<1>2. /\ CommittedIds' = CommittedIds /\ AbortedIds' = AbortedIds /\ EndedIds' = EndedIds /\ Active' = Active
  BY <1>1 DEF CommittedIds, AbortedIds, EndedIds, Active
<1>3. /\ \A k \in Key : chains[k] \in Seq(Version) /\ ChainOK(chains[k], CommittedIds, AbortedIds, rowOwner[k])
      /\ TypeOK /\ LockInv
  BY DEF Inv, TypeInv, TypeOK, ChainInv
<1>4. \A k \in Key : Apart(CommittedIds, AbortedIds, rowOwner[k]) BY <1>3, Ended
<1>5. ASSUME NEW k \in Key
      PROVE  /\ chains'[k] \in Seq(Version)
             /\ ChainOK(chains'[k], CommittedIds, AbortedIds, rowOwner[k])
             /\ Theirs(chains'[k], CommittedIds) = Theirs(chains[k], CommittedIds)
             /\ Mine(chains'[k], CommittedIds, rowOwner[k]) = Mine(chains[k], CommittedIds, rowOwner[k])
             /\ \A X : OnlyFrom(chains[k], X) => OnlyFrom(chains'[k], X)
  <2>1. CASE chains'[k] = chains[k] BY <1>3, <2>1
  <2>2. CASE chains'[k] = gc[k] /\ Left(gc[k], chains[k], CommittedIds, AbortedIds)
    <3>1. chains'[k] \in Seq(Version) BY <2>2 DEF Left
    <3>2. QED BY <1>3, <1>4, <2>2, <3>1, LeftKeeps
  <2>3. QED BY <1>1, <2>1, <2>2
<1>6. TypeInv' BY <1>1, <1>5 DEF Inv, TypeInv, TypeOK
<1>7. ChainInv' BY <1>1, <1>2, <1>5 DEF ChainInv
<1>8. LockInv' BY <1>1, <1>2 DEF Inv, LockInv
<1>9. PinInv' BY <1>1, <1>2, <1>5 DEF Inv, PinInv
<1>10. MoveInv'
  <2>1. ASSUME NEW u \in Txn, stmt[u] # None, stmt[u].op = "moving", NEW k \in stmt[u].keys
        PROVE  /\ rowOwner[k] = u /\ OnlyFrom(chains'[k], Past(CommittedIds, AbortedIds, u, stmt[u].snap))
               /\ Mine(chains'[k], CommittedIds, u) # Absent
    <3>1. /\ rowOwner[k] = u /\ OnlyFrom(chains[k], Past(CommittedIds, AbortedIds, u, stmt[u].snap))
          /\ Mine(chains[k], CommittedIds, u) # Absent
      BY <2>1 DEF Inv, MoveInv, Settled
    <3>2. k \in Key BY <2>1 DEF Inv, TypeInv, TypeOK
    <3>3. QED BY <1>5, <3>1, <3>2
  <2>2. QED BY <1>1, <1>2, <2>1 DEF MoveInv, Settled
<1>11. GcInv' /\ CopyInv' BY <1>1 DEF GcInv, CopyInv
<1>12. QED BY <1>2, <1>5, <1>6, <1>7, <1>8, <1>9, <1>10, <1>11 DEF Inv

-----------------------------------------------------------------------------
(* All the steps.                                                          *)

\* what a statement does to what t reads: nothing, or an INSERT, UPDATE, DELETE or move of a row
Effect(t) ==
    \/ \A k \in Key : Kept(k)
    \/ \E k \in Key : /\ Mine(chains[k], CommittedIds, t) = Absent /\ Redrafts(t, k, {t})
                      /\ \A j \in Key \ {k} : Kept(j)
    \/ \A k \in Key : Kept(k) \/
          (/\ Mine(chains[k], CommittedIds, t) # Absent
           /\ Redrafts(t, k, Mine(chains[k], CommittedIds, t) \cup {t}))
    \/ \A k \in Key : Kept(k) \/ Redrafts(t, k, Absent)
    \/ \E k, to \in Key :
          /\ k # to /\ Mine(chains[to], CommittedIds, t) = Absent
          /\ Redrafts(t, to, Mine(chains[k], CommittedIds, t) \cup {t}) /\ Redrafts(t, k, Absent)
          /\ \A j \in Key \ {k, to} : Kept(j)

(* A statement reads, or is a step of the kind above with such an effect.  *)
LEMMA StatementStep ==
    ASSUME AllAvoided, Inv, NEW t \in Txn, Statement(t)
    PROVE  PinElsewhere(t) \/ Select(t) \/ (WriteStep(t) /\ Effect(t))
<1>0. Reads BY InvReads
<1>1. ASSUME NEW k \in Key, Insert(t, k) PROVE WriteStep(t) /\ Effect(t)
  BY <1>0, <1>1, InsertStep DEF Effect
<1>2. ASSUME NEW K \in SUBSET Key, NEW op \in {"update", "delete", "move"}, Plan(t, op, K)
      PROVE  WriteStep(t) /\ Effect(t)
  BY <1>0, <1>2, PlanStep DEF Effect, Kept
<1>3. ASSUME Apply(t) PROVE WriteStep(t) /\ Effect(t)
  BY <1>0, <1>3, ApplyStep DEF Effect
<1>4. ASSUME NEW k \in Key, LockMoved(t, k) PROVE WriteStep(t) /\ Effect(t)
  BY <1>0, <1>4, LockMovedStep DEF Effect
<1>5. ASSUME NEW k \in Key, NEW to \in Key, k # to, MoveOnto(t, k, to) PROVE WriteStep(t) /\ Effect(t)
  BY <1>0, <1>5, MoveOntoStep DEF Effect
<1>6. ASSUME LockFails(t) PROVE WriteStep(t) /\ Effect(t)
  BY <1>6, LockFailsStep DEF Effect
<1>7. \A k \in Key : {k} \in SUBSET Key OBVIOUS
<1>8. /\ "move" \in {"update", "delete", "move"}
      /\ \A op \in {"update", "delete"} : op \in {"update", "delete", "move"}
  OBVIOUS
<1>9. QED BY <1>1, <1>2, <1>3, <1>4, <1>5, <1>6, <1>7, <1>8 DEF Statement

(* A freshly loaded table satisfies the invariant.                         *)
LEMMA InitInv == Init => Inv
<1> SUFFICES ASSUME Init PROVE Inv
  OBVIOUS
<1> USE DEF Init
<1> DEFINE one == [xmin |-> 0, xmax |-> 0, row |-> {0}]
<1>1. Cardinality(Txn) \in Nat BY TxnAssumption, FS_CardinalityType
<1>2. 0 \notin Txn /\ Txn \subseteq Nat /\ None \notin Txn \cup {0} BY ApartFromTxn
<1>3. one \in Version BY DEF Version, RowSet
<1>4. CommittedIds = {} /\ AbortedIds = {} /\ Active = {}
  BY DEF CommittedIds, AbortedIds, Active
<1>5. TypeInv BY <1>1, <1>3 DEF TypeInv, TypeOK
<1>6. ChainInv
  <2>1. ChainOK(<<>>, {}, {}, None)
    BY DEF ChainOK, Written, OneEach, Linked, Decided, LiveIn
  <2>2. ChainOK(<<one>>, {}, {}, None)
    <3> DEFINE c == <<one>>
    <3>1. DOMAIN c = {1} /\ Len(c) = 1 /\ c[1].xmin = 0 /\ c[1].xmax = 0 /\ c[1].row = {0} OBVIOUS
    <3> HIDE DEF c
    <3>2. Written(c, {}, {}, None) BY <3>1 DEF Written, Absent
    <3>3. OneEach(c) BY <3>1 DEF OneEach
    <3>4. Linked(c, {}, None) BY <1>2, <3>1 DEF Linked
    <3>5. \A S : Decided(c, S) BY <3>1 DEF Decided
    <3>6. QED BY <3>2, <3>3, <3>4, <3>5 DEF ChainOK, c
  <2>3. QED BY <1>4, <2>1, <2>2 DEF ChainInv
<1>7. LockInv
  <2>1. \A t \in Txn : ~(t < nextId) BY <1>1, TxnAssumption
  <2>2. QED BY <2>1 DEF LockInv
<1>8. PinInv BY DEF PinInv
<1>9. MoveInv BY DEF MoveInv, Settled
<1>10. GcInv /\ CopyInv BY DEF GcInv, CopyInv
<1>11. QED BY <1>5, <1>6, <1>7, <1>8, <1>9, <1>10 DEF Inv

(* Every step keeps the invariant.                                         *)
LEMMA NextInv ==
    ASSUME AllAvoided, Inv, [Next]_vars
    PROVE  Inv'
<1>1. ASSUME NEW t \in Txn, Statement(t) PROVE Inv'
  BY <1>1, StatementStep, PinElsewhereKeeps, SelectKeeps, WriteStepKeeps
<1>2. ASSUME NEW t \in Txn, Begin(t) PROVE Inv' BY <1>2, BeginKeeps
<1>3. ASSUME NEW t \in Txn, NEW outcome \in {"committed", "aborted"}, End(t, outcome) PROVE Inv'
  BY <1>3, EndKeeps
<1>4. CASE GcScan BY <1>4, GcScanKeeps
<1>5. CASE GcReplace BY <1>5, GcReplaceKeeps
<1>6. CASE UNCHANGED vars
  <2>1. CommittedIds' = CommittedIds /\ AbortedIds' = AbortedIds /\ EndedIds' = EndedIds /\ Active' = Active
    BY <1>6 DEF vars, CommittedIds, AbortedIds, EndedIds, Active
  <2>2. TypeInv' BY <1>6 DEF vars, Inv, TypeInv, TypeOK
  <2>3. ChainInv' /\ PinInv' /\ GcInv' /\ CopyInv'
    BY <1>6, <2>1 DEF vars, Inv, ChainInv, PinInv, GcInv, CopyInv, SeenIn
  <2>4. LockInv' BY <1>6, <2>1 DEF vars, Inv, LockInv
  <2>5. MoveInv' BY <1>6, <2>1 DEF vars, Inv, MoveInv, Settled
  <2>6. QED BY <2>2, <2>3, <2>4, <2>5 DEF Inv
<1>7. QED BY <1>1, <1>2, <1>3, <1>4, <1>5, <1>6 DEF Next

(* The inductive invariant of the chains, locks, snapshots and GC passes.  *)
THEOREM ChainsInvariance ==
    ASSUME AllAvoided
    PROVE  Spec => []Inv
BY InitInv, NextInv, PTL DEF Spec

-----------------------------------------------------------------------------
(* The properties.                                                         *)

(* The variables have their types.                                         *)
THEOREM ChainsTypeCorrect ==
    ASSUME AllAvoided
    PROVE  Spec => []TypeOK
<1>1. Inv => TypeOK BY DEF Inv, TypeInv
<1>2. QED BY <1>1, ChainsInvariance, PTL

(* Of a chain that no rolled-back deleter has stamped, a new transaction   *)
(* sees one version at most: of two, the first would be stamped by the     *)
(* owner of the lock, and then the second would be the owner's own.        *)
LEMMA OneIsVisible == Inv => OneVersionIsVisible
<1> SUFFICES ASSUME Inv, NEW k \in Key, ~Stamped(k)
             PROVE  Cardinality(VisibleIn(k, nextId, take_snapshot)) <= 1
  BY DEF OneVersionIsVisible
<1> DEFINE C == CommittedIds
           A == AbortedIds
           o == rowOwner[k]
           c == chains[k]
           L == VisibleIn(k, nextId, take_snapshot)
<1>1. TypeOK /\ LockInv /\ c \in Seq(Version) /\ ChainOK(c, C, A, o)
  BY DEF Inv, TypeInv, TypeOK, ChainInv
<1>2. /\ Apart(C, A, o) /\ (\A x \in C \cup A : x < nextId /\ x \notin Active)
      /\ nextId # 0 /\ nextId \notin C \cup A /\ o # nextId
  BY <1>1, Ended
<1>3. 0 \notin Txn /\ None \notin Txn \cup {0} BY ApartFromTxn
<1>4. SeenIn(nextId, take_snapshot) = C \cup {0, nextId}
  BY <1>2 DEF SeenIn, take_snapshot
<1>5. L = LiveIn(c, C \cup {0, nextId})
  <2>1. L = LiveIn(c, SeenIn(nextId, take_snapshot)) BY <1>1, ViewIsViewOf
  <2> HIDE DEF L, c, C
  <2>2. QED BY <1>4, <2>1
<1>6. Unstamped(c, A) BY NotStamped
<1> HIDE DEF C, A, o, c, L
<1>7. o \notin C \cup A \cup {0} BY <1>2, <1>3 DEF Apart
<1>8. DOMAIN c = 1..Len(c) /\ Len(c) \in Nat BY <1>1, ChainType
<1>9. ASSUME NEW i \in L, NEW j \in L, i < j PROVE FALSE
  <2>1. /\ i \in DOMAIN c /\ j \in DOMAIN c /\ c[i].xmin \in C \cup {0, nextId} /\ c[j].xmin \in C \cup {0, nextId}
        /\ ~(c[i].xmax # 0 /\ c[i].xmax \in C \cup {0, nextId})
    BY <1>5 DEF LiveIn
  <2>2. /\ c[i].xmin \in C \cup A \cup {0, o} /\ c[i].xmax \in C \cup A \cup {0, o} /\ c[i].xmax \notin A
    BY <1>1, <1>6, <2>1 DEF ChainOK, Written, Unstamped
  <2>3. c[i].xmin \notin A BY <1>2, <1>3, <2>1 DEF Apart
  <2>4. i < Len(c) BY <1>8, <1>9, <2>1
  <2>5. c[i].xmax # 0 BY <1>1, <2>1, <2>3, <2>4 DEF ChainOK, Linked
  <2>6. c[i].xmax = o BY <2>1, <2>2, <2>5
  <2>7. c[j].xmin = o BY <1>1, <1>9, <2>1, <2>6 DEF ChainOK, Linked
  <2>8. QED BY <1>2, <1>7, <2>1, <2>7
<1>10. \A i, j \in L : i = j
  <2>1. L \subseteq 1..Len(c) BY <1>5, <1>8 DEF LiveIn
  <2>2. \A i, j \in L : i \in Int /\ j \in Int BY <1>8, <2>1
  <2>3. QED BY <1>9, <2>2
<1>11. CASE L = {}
  <2>1. Cardinality(L) = 0 BY <1>11, FS_EmptySet
  <2>2. QED BY <2>1 DEF L
<1>12. CASE L # {}
  <2>1. PICK i \in L : TRUE BY <1>12
  <2>2. L = {i} BY <1>10, <2>1
  <2>3. Cardinality(L) = 1 BY <2>2, FS_Singleton
  <2>4. QED BY <2>3 DEF L
<1>13. QED BY <1>11, <1>12

(* A primary key has one row.                                              *)
THEOREM KeysAreUnique ==
    ASSUME AllAvoided
    PROVE  Spec => []OneVersionIsVisible
<1>1. Inv => OneVersionIsVisible BY OneIsVisible
<1>2. QED BY <1>1, ChainsInvariance, PTL

(* What a SERIALIZABLE reader sees is current until it ends.               *)
THEOREM ReadersStayCurrent ==
    ASSUME AllAvoided
    PROVE  Spec => []SerialReadsAreCurrent
<1>1. Inv => SerialReadsAreCurrent
  <2>1. SUFFICES ASSUME Inv, Reads, NEW t \in readers, NEW k \in Key
                 PROVE  View(k, t, pinned[t]) = View(k, t, take_snapshot)
    BY InvReads DEF SerialReadsAreCurrent
  <2>2. t \in Active BY <2>1 DEF Inv, LockInv
  <2>3. QED BY <2>1, <2>2 DEF Reads
<1>2. QED BY <1>1, ChainsInvariance, PTL

(* Nobody but who commits in a step is committed by it.                    *)
LEMMA CommittedStep ==
    ASSUME AllAvoided, Inv, [Next]_vars
    PROVE  CommittedIds \subseteq CommittedIds' /\ CommittedIds' \ CommittedIds \subseteq Active
<1>1. ASSUME status' = status PROVE CommittedIds' = CommittedIds BY <1>1 DEF CommittedIds
<1>2. ASSUME NEW t \in Txn, Statement(t) PROVE CommittedIds' = CommittedIds
  BY <1>1, <1>2, StatementStep DEF PinElsewhere, Select, WriteStep
<1>3. ASSUME NEW t \in Txn, Begin(t) PROVE CommittedIds' = CommittedIds
  <2>1. t = nextId /\ status' = [status EXCEPT ![t] = "active"] BY <1>3 DEF Begin
  <2>2. nextId \in Nat /\ status \in [Txn -> {"unborn", "active", "committed", "aborted"}]
    BY Ended DEF Inv, TypeInv, TypeOK
  <2>3. status[t] = "unborn" BY <2>1, <2>2 DEF Inv, LockInv
  <2>4. QED BY <2>1, <2>2, <2>3 DEF CommittedIds
<1>4. ASSUME NEW t \in Txn, NEW outcome \in {"committed", "aborted"}, End(t, outcome)
      PROVE  CommittedIds \subseteq CommittedIds' /\ CommittedIds' \ CommittedIds \subseteq Active
  <2>1. status[t] = "active" /\ status' = [status EXCEPT ![t] = outcome] BY <1>4 DEF End, Idle
  <2>2. status \in [Txn -> {"unborn", "active", "committed", "aborted"}] BY DEF Inv, TypeInv, TypeOK
  <2>3. QED BY <2>1, <2>2 DEF CommittedIds, Active
<1>5. CASE GcScan \/ GcReplace \/ UNCHANGED vars
  BY <1>1, <1>5 DEF GcScan, GcReplace, vars
<1>6. QED BY <1>2, <1>3, <1>4, <1>5 DEF Next

\* what is read under a pinned snapshot
PinnedViews == \A t \in Txn, k \in Key : View(k, t, pinned[t]) = ViewOf(chains[k], SeenIn(t, pinned[t]))

(* Under its pinned snapshot a transaction keeps reading the same: whoever *)
(* writes is not seen, whoever commits is not seen either, and what a pass *)
(* takes away was not read.                                                *)
LEMMA RepeatStep ==
    ASSUME AllAvoided, Inv, PinnedViews, PinnedViews', [Next]_vars, NEW t \in Txn, NEW k \in Key,
           pinned[t] # None, pinned'[t] = pinned[t], rowOwner'[k] # t
    PROVE  View(k, t, pinned[t])' = View(k, t, pinned[t])
<1> DEFINE S == SeenIn(t, pinned[t])
<1>1. SeenIn(t, pinned[t])' = S BY CommittedStep, SeenStays
<1>2. View(k, t, pinned[t]) = ViewOf(chains[k], S) BY DEF PinnedViews
<1>3. View(k, t, pinned[t])' = ViewOf(chains'[k], S) BY <1>1 DEF PinnedViews
<1>4. t \in Active /\ S \cap AbortedIds = {} /\ S \subseteq CommittedIds \cup {0, t}
  <2>1. t \in Active BY DEF Inv, PinInv
  <2>2. QED BY <2>1, ApartFromTxn DEF SeenIn, CommittedIds, AbortedIds, Active
<1> HIDE DEF S
<1>5. SUFFICES ViewOf(chains'[k], S) = ViewOf(chains[k], S)
  BY <1>2, <1>3
<1>6. ASSUME chains' = chains PROVE ViewOf(chains'[k], S) = ViewOf(chains[k], S)
  BY <1>6
<1>7. ASSUME NEW u \in Txn, WriteStep(u) PROVE ViewOf(chains'[k], S) = ViewOf(chains[k], S)
  <2>1. CASE chains'[k] = chains[k] BY <2>1
  <2>2. CASE rowOwner'[k] = u /\ Wrote(chains[k], chains'[k], CommittedIds, AbortedIds, u)
    <3>1. u # t BY <2>2
    <3>2. u \in Active BY <1>7 DEF WriteStep, MayWrite
    <3>3. u \notin S BY <1>4, <3>1, <3>2, ApartFromTxn DEF CommittedIds, Active
    <3>4. S \cap (AbortedIds \cup {u}) = {} BY <1>4, <3>3
    <3>5. QED BY <2>2, <3>4 DEF Wrote, Hides
  <2>3. QED BY <1>7, <2>1, <2>2 DEF WriteStep, ChainStep
<1>8. ASSUME NEW u \in Txn, Statement(u) PROVE ViewOf(chains'[k], S) = ViewOf(chains[k], S)
  BY <1>6, <1>7, <1>8, StatementStep DEF PinElsewhere, Select
<1>9. CASE GcReplace
  <2>1. chains'[k] = chains[k] \/ chains'[k] = gc[k] BY <1>9, GcReplaceChains
  <2>2. gc # None BY <1>9 DEF GcReplace
  <2>3. ViewOf(gc[k], S) = ViewOf(chains[k], S) BY <2>2 DEF Inv, CopyInv, S
  <2>4. QED BY <2>1, <2>3
<1>10. CASE GcScan \/ UNCHANGED vars BY <1>6, <1>10 DEF GcScan, vars
<1>11. ASSUME NEW u \in Txn, Begin(u) \/ \E outcome \in {"committed", "aborted"} : End(u, outcome)
       PROVE  ViewOf(chains'[k], S) = ViewOf(chains[k], S)
  BY <1>6, <1>11 DEF Begin, End
<1>12. QED BY <1>8, <1>9, <1>10, <1>11 DEF Next

(* Repeatable reads.                                                       *)
THEOREM ReadsRepeat ==
    ASSUME AllAvoided
    PROVE  Spec => PinnedReadsRepeat
<1>1. Inv => PinnedViews BY ViewIsViewOf DEF PinnedViews, Inv, TypeInv
<1>2. Inv /\ PinnedViews /\ PinnedViews' /\ [Next]_vars =>
         [\A t \in Txn, k \in Key :
             pinned[t] # None /\ pinned'[t] = pinned[t] /\ rowOwner'[k] # t
                => View(k, t, pinned[t])' = View(k, t, pinned[t])]_vars
  BY RepeatStep
<1>3. QED BY <1>1, <1>2, ChainsInvariance, PTL DEF PinnedReadsRepeat, Spec

-----------------------------------------------------------------------------
(* The chains implement the store of module Store.                         *)

(* What the store's transaction t works on is what t reads.                *)
LEMMA CurrentIs ==
    ASSUME Reads, NEW t \in Active, NEW k \in Key
    PROVE  Promised!Current(t, k) = Mine(chains[k], CommittedIds, t)
<1>1. t \in Txn /\ Mine(chains[k], CommittedIds, t) # None
  BY NoneAssumption DEF Reads, Active
<1>2. Committed[k] = Theirs(chains[k], CommittedIds) BY DEF Reads
<1>3. Drafts[t][k] = IF rowOwner[k] = t THEN Mine(chains[k], CommittedIds, t) ELSE None
  BY <1>1 DEF Reads
<1>4. rowOwner[k] # t => Mine(chains[k], CommittedIds, t) = Theirs(chains[k], CommittedIds)
  BY DEF Reads
<1>5. QED BY <1>1, <1>2, <1>3, <1>4 DEF Promised!Current

(* A statement writes to the draft of its transaction.                     *)
LEMMA WriteIsDrafting ==
    ASSUME Inv, Reads, Inv', Reads', NEW t \in Txn, WriteStep(t)
    PROVE  /\ Promised!Drafting(t)
           /\ \A k \in Key : \A row : Redrafts(t, k, row) => Drafts'[t][k] = row
           /\ \A k \in Key : Kept(k) => Promised!Keeps(t, k)
<1>1. t \in Active /\ CommittedIds' = CommittedIds BY DEF WriteStep, MayWrite, CommittedIds
<1>2. \A k \in Key : \/ chains'[k] = chains[k] /\ rowOwner'[k] = rowOwner[k]
                     \/ /\ rowOwner[k] \in {None, t} /\ rowOwner'[k] = t
                        /\ Theirs(chains'[k], CommittedIds) = Theirs(chains[k], CommittedIds)
  BY DEF WriteStep, ChainStep, Wrote
<1>3. /\ Committed = [k \in Key |-> Theirs(chains[k], CommittedIds)]
      /\ Committed' = [k \in Key |-> Theirs(chains'[k], CommittedIds)]
  BY <1>1 DEF Reads
<1>4. /\ Drafts = [u \in Txn |-> [k \in Key |->
                     IF rowOwner[k] = u THEN Mine(chains[k], CommittedIds, u) ELSE None]]
      /\ Drafts' = [u \in Txn |-> [k \in Key |->
                     IF rowOwner'[k] = u THEN Mine(chains'[k], CommittedIds, u) ELSE None]]
  BY <1>1 DEF Reads
<1>5. Committed' = Committed
  <2>1. \A k \in Key : Theirs(chains'[k], CommittedIds) = Theirs(chains[k], CommittedIds) BY <1>2
  <2>2. QED BY <1>3, <2>1
<1>6. None \notin Txn BY ApartFromTxn
<1>7. ASSUME NEW u \in Txn \ {t} PROVE Drafts'[u] = Drafts[u]
  <2>1. \A k \in Key : (IF rowOwner'[k] = u THEN Mine(chains'[k], CommittedIds, u) ELSE None)
                     = (IF rowOwner[k] = u THEN Mine(chains[k], CommittedIds, u) ELSE None)
    BY <1>2, <1>6
  <2>2. QED BY <1>4, <2>1
<1>8. /\ \A u \in Txn, k \in Key : Drafts[u][k] = IF rowOwner[k] = u THEN Mine(chains[k], CommittedIds, u) ELSE None
      /\ \A u \in Txn, k \in Key : Drafts'[u][k] = IF rowOwner'[k] = u THEN Mine(chains'[k], CommittedIds, u) ELSE None
  BY ONLY <1>4
<1>9. ASSUME NEW k \in Key, Drafts'[t][k] # Drafts[t][k], NEW u \in Txn \ {t} PROVE Drafts[u][k] = None
  <2>1. ~(chains'[k] = chains[k] /\ rowOwner'[k] = rowOwner[k]) BY <1>8, <1>9
  <2>2. rowOwner[k] \in {None, t} BY <1>2, <2>1
  <2>3. QED BY <1>6, <1>8, <2>2
<1>10. Promised!Drafting(t) BY <1>5, <1>7, <1>9 DEF Promised!Drafting
<1>11. \A k \in Key : \A row : Redrafts(t, k, row) => Drafts'[t][k] = row
  BY <1>8 DEF Redrafts
<1>12. ASSUME NEW k \in Key, Kept(k) PROVE Promised!Keeps(t, k)
  <2>1. Promised!Current(t, k) = Mine(chains[k], CommittedIds, t) BY <1>1, CurrentIs
  <2>2. chains'[k] = chains[k] BY <1>12 DEF Kept
  <2>3. Drafts'[t][k] \in {Drafts[t][k], Mine(chains[k], CommittedIds, t)}
    <3>1. CASE rowOwner'[k] = rowOwner[k] BY <1>8, <2>2, <3>1
    <3>2. CASE rowOwner'[k] = t BY <1>8, <2>2, <3>2
    <3>3. QED BY <1>2, <3>1, <3>2
  <2>4. QED BY <2>1, <2>3 DEF Promised!Keeps
<1>13. QED BY <1>10, <1>11, <1>12

(* A statement is a Write of the store.                                    *)
LEMMA WriteIsWrite ==
    ASSUME Inv, Reads, Inv', Reads', NEW t \in Txn, WriteStep(t), Effect(t)
    PROVE  Promised!Write(t)
<1>1. /\ Promised!Drafting(t)
      /\ \A k \in Key : \A row : Redrafts(t, k, row) => Drafts'[t][k] = row
      /\ \A k \in Key : Kept(k) => Promised!Keeps(t, k)
  BY WriteIsDrafting
<1>2. \A k \in Key : Promised!Current(t, k) = Mine(chains[k], CommittedIds, t)
  BY CurrentIs DEF WriteStep, MayWrite
<1>3. Promised!Absent = Absent BY DEF Promised!Absent, Absent
<1>4. CASE \A k \in Key : Kept(k)
  BY <1>1, <1>4 DEF Promised!Write, Promised!Update
<1>5. ASSUME NEW k \in Key, Mine(chains[k], CommittedIds, t) = Absent, Redrafts(t, k, {t}),
             \A j \in Key \ {k} : Kept(j)
      PROVE  Promised!Write(t)
  <2>1. Promised!Insert(t, k) BY <1>1, <1>2, <1>3, <1>5 DEF Promised!Insert
  <2>2. QED BY <1>1, <2>1 DEF Promised!Write
<1>6. CASE \A k \in Key : Kept(k) \/
              (/\ Mine(chains[k], CommittedIds, t) # Absent
               /\ Redrafts(t, k, Mine(chains[k], CommittedIds, t) \cup {t}))
  <2>1. Promised!Update(t) BY <1>1, <1>2, <1>3, <1>6 DEF Promised!Update
  <2>2. QED BY <1>1, <2>1 DEF Promised!Write
<1>7. CASE \A k \in Key : Kept(k) \/ Redrafts(t, k, Absent)
  <2>1. Promised!Delete(t) BY <1>1, <1>3, <1>7 DEF Promised!Delete
  <2>2. QED BY <1>1, <2>1 DEF Promised!Write
<1>8. ASSUME NEW k \in Key, NEW to \in Key, k # to, Mine(chains[to], CommittedIds, t) = Absent,
             Redrafts(t, to, Mine(chains[k], CommittedIds, t) \cup {t}), Redrafts(t, k, Absent),
             \A j \in Key \ {k, to} : Kept(j)
      PROVE  Promised!Write(t)
  <2>1. Promised!Move(t, k, to) BY <1>1, <1>2, <1>3, <1>8 DEF Promised!Move
  <2>2. QED BY <1>1, <1>8, <2>1 DEF Promised!Write
<1>9. QED BY <1>4, <1>5, <1>6, <1>7, <1>8 DEF Effect

(* COMMIT is the store's Commit, and ROLLBACK its Abort.                   *)
LEMMA EndIsEnd ==
    ASSUME Inv, Reads, Inv', Reads', NEW t \in Txn, NEW outcome \in {"committed", "aborted"}, End(t, outcome)
    PROVE  Promised!Commit(t) \/ Promised!Abort(t)
<1>1. /\ chains' = chains /\ rowOwner' = [k \in Key |-> IF rowOwner[k] = t THEN None ELSE rowOwner[k]]
      /\ t \in Active
  BY DEF End, Idle, Active
<1>2. \A k \in Key :
         /\ rowOwner[k] # t =>
               /\ Theirs(chains[k], CommittedIds') = Theirs(chains[k], CommittedIds)
               /\ Mine(chains[k], CommittedIds', rowOwner[k]) = Mine(chains[k], CommittedIds, rowOwner[k])
         /\ rowOwner[k] = t =>
               Theirs(chains[k], CommittedIds') =
                  IF outcome = "committed" THEN Mine(chains[k], CommittedIds, t)
                                           ELSE Theirs(chains[k], CommittedIds)
  BY EndChains
<1>3. None \notin Txn BY ApartFromTxn
<1>4. Drafts' = [Drafts EXCEPT ![t] = [k \in Key |-> None]]
  <2>1. /\ Drafts = [u \in Txn |-> [k \in Key |->
                       IF rowOwner[k] = u THEN Mine(chains[k], CommittedIds, u) ELSE None]]
        /\ Drafts' = [u \in Txn |-> [k \in Key |->
                       IF rowOwner'[k] = u THEN Mine(chains[k], CommittedIds', u) ELSE None]]
    BY <1>1 DEF Reads
  <2>2. ASSUME NEW u \in Txn, NEW k \in Key
        PROVE  (IF rowOwner'[k] = u THEN Mine(chains[k], CommittedIds', u) ELSE None) =
                  IF u = t THEN None ELSE IF rowOwner[k] = u THEN Mine(chains[k], CommittedIds, u) ELSE None
    <3>1. CASE rowOwner[k] = t BY <1>1, <1>3, <3>1
    <3>2. CASE rowOwner[k] # t
      <4>1. rowOwner'[k] = rowOwner[k] BY <1>1, <3>2
      <4>2. CASE rowOwner[k] = u BY <1>2, <3>2, <4>1, <4>2
      <4>3. CASE rowOwner[k] # u BY <4>1, <4>3
      <4>4. QED BY <4>2, <4>3
    <3>3. QED BY <3>1, <3>2
  <2>3. Drafts' = [u \in Txn |-> [k \in Key |->
                     IF u = t THEN None ELSE IF rowOwner[k] = u THEN Mine(chains[k], CommittedIds, u) ELSE None]]
    BY ONLY <2>1, <2>2
  <2>4. ASSUME NEW u \in Txn
        PROVE  [k \in Key |-> IF u = t THEN None ELSE IF rowOwner[k] = u THEN Mine(chains[k], CommittedIds, u) ELSE None]
                  = IF u = t THEN [k \in Key |-> None] ELSE Drafts[u]
    <3>1. CASE u = t BY ONLY <3>1
    <3>2. CASE u # t BY ONLY <2>1, <3>2, u \in Txn
    <3>3. QED BY <3>1, <3>2
  <2>5. DOMAIN Drafts = Txn BY ONLY <2>1
  <2>6. QED BY ONLY <2>3, <2>4, <2>5
<1>5. Committed = [k \in Key |-> Theirs(chains[k], CommittedIds)] /\ Committed' = [k \in Key |-> Theirs(chains[k], CommittedIds')]
  BY <1>1 DEF Reads
<1>6. CASE outcome = "committed"
  <2>1. ASSUME NEW k \in Key PROVE Theirs(chains[k], CommittedIds') = Promised!Current(t, k)
    <3>1. Promised!Current(t, k) = Mine(chains[k], CommittedIds, t) BY <1>1, CurrentIs
    <3>2. rowOwner[k] # t => Mine(chains[k], CommittedIds, t) = Theirs(chains[k], CommittedIds)
      BY <1>1 DEF Reads
    <3>3. QED BY <1>2, <1>6, <3>1, <3>2
  <2>2. Committed' = [k \in Key |-> Promised!Current(t, k)] BY <1>5, <2>1
  <2>3. QED BY <1>4, <2>2 DEF Promised!Commit
<1>7. CASE outcome = "aborted"
  <2>1. \A k \in Key : Theirs(chains[k], CommittedIds') = Theirs(chains[k], CommittedIds) BY <1>2, <1>7
  <2>2. Committed' = Committed BY <1>5, <2>1
  <2>3. QED BY <1>4, <2>2 DEF Promised!Abort
<1>8. QED BY <1>6, <1>7

(* Everything else, garbage collection too, the store does not notice.     *)
LEMMA RestIsStutter ==
    ASSUME Inv, Reads, Inv', Reads',
           (\E t \in Txn : Begin(t) \/ PinElsewhere(t) \/ Select(t)) \/ GcScan \/ GcReplace \/ UNCHANGED vars
    PROVE  Committed' = Committed /\ Drafts' = Drafts
<1>1. rowOwner' = rowOwner BY DEF Begin, PinElsewhere, Select, GcScan, GcReplace, vars, locks
<1>2. /\ CommittedIds' = CommittedIds
      /\ \A k \in Key : /\ Theirs(chains'[k], CommittedIds) = Theirs(chains[k], CommittedIds)
                        /\ Mine(chains'[k], CommittedIds, rowOwner[k]) = Mine(chains[k], CommittedIds, rowOwner[k])
  <2>1. ASSUME NEW t \in Txn, Begin(t) PROVE CommittedIds' = CommittedIds /\ chains' = chains
    <3>1. t = nextId /\ status' = [status EXCEPT ![t] = "active"] /\ chains' = chains BY <2>1 DEF Begin
    <3>2. nextId \in Nat /\ status \in [Txn -> {"unborn", "active", "committed", "aborted"}]
      BY Ended DEF Inv, TypeInv, TypeOK
    <3>3. status[t] = "unborn" BY <3>1, <3>2 DEF Inv, LockInv
    <3>4. QED BY <3>1, <3>2, <3>3 DEF CommittedIds
  <2>2. CASE (\E t \in Txn : PinElsewhere(t) \/ Select(t)) \/ GcScan \/ UNCHANGED vars
    BY <2>2 DEF PinElsewhere, Select, GcScan, vars, CommittedIds
  <2>3. CASE GcReplace BY <2>3, GcReplaceKeeps
  <2>4. QED BY <2>1, <2>2, <2>3
<1>3. Committed' = Committed
  <2>1. /\ Committed = [k \in Key |-> Theirs(chains[k], CommittedIds)]
        /\ Committed' = [k \in Key |-> Theirs(chains'[k], CommittedIds)]
    BY <1>2 DEF Reads
  <2>2. QED BY <1>2, <2>1
<1>4. Drafts' = Drafts
  <2>1. /\ Drafts = [u \in Txn |-> [k \in Key |->
                       IF rowOwner[k] = u THEN Mine(chains[k], CommittedIds, u) ELSE None]]
        /\ Drafts' = [u \in Txn |-> [k \in Key |->
                       IF rowOwner[k] = u THEN Mine(chains'[k], CommittedIds, u) ELSE None]]
    BY <1>1, <1>2 DEF Reads
  <2>2. ASSUME NEW u \in Txn, NEW k \in Key
        PROVE  (IF rowOwner[k] = u THEN Mine(chains[k], CommittedIds, u) ELSE None) =
                  IF rowOwner[k] = u THEN Mine(chains'[k], CommittedIds, u) ELSE None
    BY <1>2
  <2>3. QED BY ONLY <2>1, <2>2
<1>5. QED BY <1>3, <1>4

(* Every step of the chains is a step of the store.                        *)
LEMMA StepRefines ==
    ASSUME AllAvoided, Inv, Reads, Inv', Reads', [Next]_vars
    PROVE  Promised!Next \/ (Committed' = Committed /\ Drafts' = Drafts)
<1>1. ASSUME NEW t \in Txn, Statement(t) PROVE Promised!Next \/ (Committed' = Committed /\ Drafts' = Drafts)
  <2>1. CASE PinElsewhere(t) \/ Select(t) BY <2>1, RestIsStutter
  <2>2. CASE WriteStep(t) /\ Effect(t) BY <2>2, WriteIsWrite DEF Promised!Next
  <2>3. QED BY <1>1, <2>1, <2>2, StatementStep
<1>2. ASSUME NEW t \in Txn, Begin(t) PROVE Committed' = Committed /\ Drafts' = Drafts
  BY <1>2, RestIsStutter
<1>3. ASSUME NEW t \in Txn, NEW outcome \in {"committed", "aborted"}, End(t, outcome) PROVE Promised!Next
  BY <1>3, EndIsEnd DEF Promised!Next
<1>4. ASSUME GcScan \/ GcReplace \/ UNCHANGED vars
      PROVE  Committed' = Committed /\ Drafts' = Drafts
  BY <1>4, RestIsStutter
<1>5. QED BY <1>1, <1>2, <1>3, <1>4 DEF Next

(* The rows a checkpoint brought in are what the store starts with.        *)
LEMMA InitRefines == Init => Promised!Init
<1> SUFFICES ASSUME Init PROVE Promised!Init
  OBVIOUS
<1>1. Inv /\ Reads BY InitInv, InvReads
<1>2. /\ chains = [k \in Key |-> IF k \in Loaded THEN <<[xmin |-> 0, xmax |-> 0, row |-> {0}]>> ELSE <<>>]
      /\ rowOwner = [k \in Key |-> None]
  BY DEF Init
<1>3. ASSUME NEW k \in Key PROVE Theirs(chains[k], CommittedIds) = IF k \in Loaded THEN {0} ELSE {}
  <2>1. CASE k \in Loaded
    <3> DEFINE v == [xmin |-> 0, xmax |-> 0, row |-> {0}]
    <3>1. chains[k] = <<v>> BY <1>2, <2>1
    <3>2. DOMAIN chains[k] = {1} /\ chains[k][1] = v BY <3>1
    <3>3. LiveIn(chains[k], CommittedIds \cup {0}) = {1} BY <3>2 DEF LiveIn
    <3>4. ViewOf(chains[k], CommittedIds \cup {0}) = {0} BY <3>2, <3>3 DEF ViewOf
    <3>5. QED BY <2>1, <3>4 DEF Theirs
  <2>2. CASE k \notin Loaded
    <3>1. chains[k] = <<>> BY <1>2, <2>2
    <3>2. DOMAIN chains[k] = {} BY <3>1
    <3>3. LiveIn(chains[k], CommittedIds \cup {0}) = {} BY <3>2 DEF LiveIn
    <3>4. QED BY <2>2, <3>3 DEF Theirs, ViewOf, Absent
  <2>3. QED BY <2>1, <2>2
<1>4. Committed = [k \in Key |-> IF k \in Loaded THEN {0} ELSE {}]
  BY <1>1, <1>3 DEF Reads
<1>5. None \notin Txn BY ApartFromTxn
<1>6. Drafts = [t \in Txn |-> [k \in Key |-> None]]
  BY <1>1, <1>2, <1>5 DEF Reads
<1>7. QED BY <1>4, <1>6 DEF Promised!Init, Promised!Absent

(* The version chains implement the store.                                 *)
THEOREM ChainsImplementTheStore ==
    ASSUME AllAvoided
    PROVE  Spec => ImplementsStore
<1>1. Inv => Reads BY InvReads
<1>2. Inv /\ Reads /\ Inv' /\ Reads' /\ [Next]_vars => [Promised!Next]_<<Committed, Drafts>>
  BY StepRefines
<1>3. QED BY <1>1, <1>2, InitRefines, ChainsInvariance, PTL DEF ImplementsStore, Promised!Spec, Spec
=============================================================================
