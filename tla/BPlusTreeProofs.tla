-------------------------- MODULE BPlusTreeProofs --------------------------
(***************************************************************************)
(* The tree is the sorted map, for every order, every set of keys and any  *)
(* sequence of operations.  What makes it one is said of the range of keys *)
(* of each node: the keys of a node divide its range among its children,   *)
(* and the chain of leaves goes from range to adjoining range.             *)
(***************************************************************************)
EXTENDS BPlusTree, FiniteSetTheorems, DataProofs

-----------------------------------------------------------------------------
(* Searching in a node.                                                    *)

(* Keys are below Infinity.                                                *)
LEMMA InfinityIs == Infinity \in Nat /\ \A k \in Key : k \in Nat /\ k < Infinity
<1> DEFINE T == {0} \cup {k + 1 : k \in Key}
<1>1. \E n \in T : \A k \in Key : k < n
  <2>1. CASE Key = {} BY <2>1
  <2>2. CASE Key # {}
    <3>1. Key \in SUBSET Nat /\ IsFiniteSet(Key) BY KeyAssumption
    <3>2. \E m \in Key : \A k \in Key : k <= m
      <4> DEFINE Most(S) == S = {} \/ \E m \in S : \A k \in S : k <= m
                 P == {S \in SUBSET Key : Most(S)}
      <4>1. \A S \in SUBSET Key : IsFiniteSet(S) BY <3>1, FS_Subset
      <4>2. Most(Key)
        <5>1. PICK n \in Nat : Cardinality(Key) = n BY <3>1, FS_CardinalityType
        <5> DEFINE Q == {c \in Nat : \A S \in SUBSET Key : Cardinality(S) = c => Most(S)}
        <5>2. 0 \in Q
          <6>1. \A S \in SUBSET Key : Cardinality(S) = 0 => S = {} BY <4>1, FS_EmptySet
          <6>2. QED BY <6>1
        <5>3. ASSUME NEW c \in Nat, c \in Q PROVE c + 1 \in Q
          <6>1. ASSUME NEW S \in SUBSET Key, Cardinality(S) = c + 1 PROVE Most(S)
            <7>1. IsFiniteSet(S) /\ S # {} BY <4>1, <6>1, FS_EmptySet
            <7>2. PICK x \in S : TRUE BY <7>1
            <7>3. Cardinality(S \ {x}) = c
              BY <6>1, <7>1, <7>2, FS_RemoveElement
            <7>4. Most(S \ {x}) BY <5>3, <7>3
            <7>5. \A k \in S : k \in Nat BY <3>1
            <7>6. CASE S \ {x} = {}
              <8>1. \A k \in S : k <= x BY <7>2, <7>5, <7>6
              <8>2. QED BY <7>2, <8>1
            <7>7. CASE S \ {x} # {}
              <8>1. PICK m \in S \ {x} : \A k \in S \ {x} : k <= m BY <7>4, <7>7
              <8>2. CASE x <= m
                <9>1. \A k \in S : k <= m BY <8>1, <8>2
                <9>2. QED BY <8>1, <9>1
              <8>3. CASE ~(x <= m)
                <9>1. \A k \in S : k <= x BY <7>2, <7>5, <8>1, <8>3
                <9>2. QED BY <7>2, <9>1
              <8>4. QED BY <8>2, <8>3
            <7>8. QED BY <7>6, <7>7
          <6> HIDE DEF Most
          <6>2. QED BY <6>1
        <5> HIDE DEF Q
        <5>4. Nat \subseteq Q BY <5>2, <5>3, NatSetInduction
        <5>5. QED BY <5>1, <5>4 DEF Q
      <4>3. QED BY <2>2, <4>2
    <3>3. PICK m \in Key : \A k \in Key : k <= m BY <3>2
    <3>4. m + 1 \in T /\ \A k \in Key : k < m + 1 BY <3>1, <3>3
    <3>5. QED BY <3>4
  <2>3. QED BY <2>1, <2>2
<1>2. Infinity \in T /\ \A k \in Key : k < Infinity BY <1>1 DEF Infinity
<1>3. T \subseteq Nat BY KeyAssumption
<1>4. QED BY <1>2, <1>3, KeyAssumption

\* Right says it of the slots up to some one
Downward(Right, n) ==
    /\ n \in Nat /\ Right \in [1..n -> BOOLEAN]
    /\ \A i \in 1..n, j \in 1..n : i < j /\ Right[j] => Right[i]

\* r is that slot
Divides(Right, n, r) ==
    /\ r \in 0..n
    /\ \A i \in 1..r : Right[i]
    /\ \A i \in (r + 1)..n : ~Right[i]

(* The binary search finds it.                                             *)
LEMMA BisectDivides ==
    ASSUME NEW n, NEW Right, Downward(Right, n)
    PROVE  Divides(Right, n, Bisect(Right, n))
<1> DEFINE Bounds(s) == {b \in [lo : 0..n, hi : 0..n] :
                           /\ b.lo <= b.hi /\ b.hi - b.lo <= s
                           /\ \A i \in 1..b.lo : Right[i]
                           /\ \A i \in (b.hi + 1)..n : ~Right[i]}
           X == [i \in 0..n |-> Bounds(n - i)]
           base == [lo |-> 0, hi |-> n]
           step == [b \in [lo : 0..n, hi : 0..n] |-> Halve(Right, b)]
           Good(g) == g = [i \in 0..n |-> IF i = 0 THEN base ELSE Halve(Right, g[i - 1])]
           pass == CHOOSE g : Good(g)
<1>1. n \in Nat /\ Right \in [1..n -> BOOLEAN]
      /\ \A i \in 1..n, j \in 1..n : i < j /\ Right[j] => Right[i]
  BY DEF Downward
<1>2. Bisect(Right, n) = pass[n].lo BY DEF Bisect
<1>3. base \in Bounds(n) BY <1>1
<1>4. ASSUME NEW m \in Nat, NEW b \in Bounds(m) PROVE Halve(Right, b) \in Bounds(m - 1) \/ m = 0
  <2> DEFINE mid == (b.lo + b.hi) \div 2
  <2>1. /\ b \in [lo : 0..n, hi : 0..n] /\ b.lo <= b.hi /\ b.hi - b.lo <= m
        /\ \A i \in 1..b.lo : Right[i]
        /\ \A i \in (b.hi + 1)..n : ~Right[i]
    OBVIOUS
  <2>2. CASE b.lo >= b.hi
    <3>1. Halve(Right, b) = b BY <2>2 DEF Halve
    <3>2. QED BY <1>1, <2>1, <2>2, <3>1
  <2>3. CASE ~(b.lo >= b.hi)
    <3>1. mid \in 0..n /\ b.lo <= mid /\ mid < b.hi /\ mid + 1 \in 1..n BY <1>1, <2>1, <2>3
    <3>2. Halve(Right, b) = IF Right[mid + 1] THEN [b EXCEPT !.lo = mid + 1] ELSE [b EXCEPT !.hi = mid]
      BY <2>3 DEF Halve
    <3> HIDE DEF mid
    <3>3. CASE Right[mid + 1]
      <4>1. \A i \in 1..(mid + 1) : Right[i] BY <1>1, <3>1, <3>3
      <4>2. QED BY <1>1, <2>1, <3>1, <3>2, <3>3, <4>1
    <3>4. CASE ~Right[mid + 1]
      <4>1. \A i \in (mid + 1)..n : ~Right[i] BY <1>1, <3>1, <3>4
      <4>2. QED BY <1>1, <2>1, <3>1, <3>2, <3>4, <4>1
    <3>5. QED BY <3>3, <3>4
  <2>4. QED BY <2>2, <2>3
<1>5. \A i \in 1..n : X[i - 1] = Bounds(n - i + 1) /\ X[i] = Bounds(n - i) /\ n - i + 1 \in Nat /\ n - i + 1 # 0
                      /\ n - i = n - i + 1 - 1
  BY <1>1
<1>6. X[0] = Bounds(n) /\ X[n] = Bounds(0) BY <1>1
<1>7. \A s \in Nat : \A b \in Bounds(s) : b \in [lo : 0..n, hi : 0..n] OBVIOUS
<1>8. Bounds(0) = {b \in [lo : 0..n, hi : 0..n] :
                     /\ b.lo <= b.hi /\ b.hi - b.lo <= 0
                     /\ \A i \in 1..b.lo : Right[i]
                     /\ \A i \in (b.hi + 1)..n : ~Right[i]}
  OBVIOUS
<1> HIDE DEF Bounds, X, base
<1>9. \A i \in 1..n : \A b \in X[i - 1] : Halve(Right, b) \in X[i]
  <2> SUFFICES ASSUME NEW i \in 1..n, NEW b \in X[i - 1] PROVE Halve(Right, b) \in X[i] OBVIOUS
  <2> DEFINE m == n - i + 1
  <2>1. m \in Nat /\ m # 0 /\ n - i = m - 1 BY <1>1
  <2>2. b \in Bounds(m) /\ X[i] = Bounds(n - i) BY <1>5
  <2> HIDE DEF m
  <2>3. X[i] = Bounds(m - 1) BY <2>1, <2>2
  <2>4. QED BY <1>4, <2>1, <2>2, <2>3
<1>10. \A i \in 1..n : \A b \in X[i - 1] : step[b] = Halve(Right, b) BY <1>5, <1>7
<1>11. \E g : Good(g)
  <2> HIDE DEF step
  <2>1. \A i \in 1..n : \A b \in X[i - 1] : step[b] \in X[i] BY <1>9, <1>10
  <2>2. PICK g : Loops(g, n, base, step) /\ \A i \in 0..n : g[i] \in X[i]
    BY <1>1, <1>3, <1>6, <2>1, LoopExists
  <2>3. \A i \in 0..n : i # 0 => i \in 1..n /\ i - 1 \in 0..n BY <1>1
  <2>4. \A i \in 0..n : i # 0 => step[g[i - 1]] = Halve(Right, g[i - 1]) BY <1>10, <2>2, <2>3
  <2>5. Good(g) BY <2>2, <2>4 DEF Loops
  <2>6. QED BY <2>5
<1> DEFINE p == pass
<1>12. Good(p) BY <1>11
<1> HIDE DEF p
<1>13. p[n] \in X[n]
  <2>1. p[0] = base /\ \A i \in 1..n : p[i] = Halve(Right, p[i - 1]) BY <1>1, <1>12
  <2>2. \A i \in 1..n : p[i - 1] \in X[i - 1] => p[i] \in X[i] BY <1>9, <2>1
  <2>3. p[0] \in X[0] BY <1>3, <1>6, <2>1
  <2>4. QED BY <1>1, <2>2, <2>3, LoopKeeps
<1>14. p[n] \in Bounds(0) BY <1>6, <1>13
<1>15. Divides(Right, n, p[n].lo) BY <1>1, <1>8, <1>14 DEF Divides
<1>16. QED BY <1>2, <1>15 DEF p

\* keys in ascending order
Ascending(keys) ==
    keys \in Seq(Int) /\ \A i \in 1..Len(keys), j \in 1..Len(keys) : i < j => keys[i] < keys[j]

\* n keys are below k, and n of them or n + 1 are not above
SlotIs(keys, k, n) ==
    /\ n \in 0..Len(keys)
    /\ \A i \in 1..n : keys[i] < k
    /\ \A i \in (n + 1)..Len(keys) : k <= keys[i]
TurnIs(keys, k, n) ==
    /\ n \in 0..Len(keys)
    /\ \A i \in 1..n : keys[i] <= k
    /\ \A i \in (n + 1)..Len(keys) : k < keys[i]

(* The three searches.                                                     *)
LEMMA SearchesFind ==
    ASSUME NEW keys, Ascending(keys), NEW k \in Int
    PROVE  /\ SlotIs(keys, k, slot_of(keys, k))
           /\ TurnIs(keys, k, traverse(keys, k))
           /\ TurnIs(keys, k, traverse_lt(keys, k))
<1> DEFINE n == Len(keys)
           below == [i \in DOMAIN keys |-> keys[i] < k]
           upto == [i \in DOMAIN keys |-> keys[i] <= k]
           notup == [i \in DOMAIN keys |-> ~(k < keys[i])]
<1>1. n \in Nat /\ DOMAIN keys = 1..n /\ \A i \in 1..n : keys[i] \in Int
  BY LenProperties, ElementOfSeq DEF Ascending
<1>2. \A i \in 1..n, j \in 1..n : i < j => keys[i] < keys[j] BY DEF Ascending
<1>3. /\ below \in [1..n -> BOOLEAN] /\ \A i \in 1..n : below[i] <=> keys[i] < k
      /\ upto \in [1..n -> BOOLEAN] /\ \A i \in 1..n : upto[i] <=> keys[i] <= k
      /\ notup \in [1..n -> BOOLEAN] /\ \A i \in 1..n : notup[i] <=> keys[i] <= k
  <2>1. \A i \in 1..n : ~(k < keys[i]) <=> keys[i] <= k BY <1>1
  <2>2. DOMAIN keys = 1..n BY <1>1
  <2> HIDE DEF n
  <2>3. \A i \in 1..n : /\ below[i] = (keys[i] < k) /\ upto[i] = (keys[i] <= k)
                        /\ notup[i] = ~(k < keys[i])
    BY <2>2, Zenon
  <2>4. below \in [1..n -> BOOLEAN] /\ upto \in [1..n -> BOOLEAN] /\ notup \in [1..n -> BOOLEAN]
    <3>1. \A i \in 1..n : /\ (keys[i] < k) \in BOOLEAN /\ (keys[i] <= k) \in BOOLEAN
                          /\ (~(k < keys[i])) \in BOOLEAN
      OBVIOUS
    <3>2. QED BY <2>2, <3>1, Zenon
  <2>5. QED BY <2>1, <2>3, <2>4, Zenon
<1>4. /\ slot_of(keys, k) = Bisect(below, n)
      /\ traverse(keys, k) = Bisect(upto, n)
      /\ traverse_lt(keys, k) = Bisect(notup, n)
  BY DEF slot_of, traverse, traverse_lt
<1> HIDE DEF n, below, upto, notup
<1>5. /\ Divides(below, n, Bisect(below, n)) /\ Divides(upto, n, Bisect(upto, n))
      /\ Divides(notup, n, Bisect(notup, n))
  <2>1. Downward(below, n) /\ Downward(upto, n) /\ Downward(notup, n)
    BY <1>1, <1>2, <1>3 DEF Downward, n
  <2>2. QED BY <2>1, BisectDivides
<1>6. ASSUME NEW r, Divides(below, n, r) PROVE SlotIs(keys, k, r)
  BY <1>1, <1>3, <1>6 DEF Divides, n, SlotIs
<1>7. ASSUME NEW r, Divides(upto, n, r) PROVE TurnIs(keys, k, r)
  BY <1>1, <1>3, <1>7 DEF Divides, n, TurnIs
<1>8. ASSUME NEW r, Divides(notup, n, r) PROVE TurnIs(keys, k, r)
  BY <1>1, <1>3, <1>8 DEF Divides, n, TurnIs
<1>9. QED BY <1>4, <1>5, <1>6, <1>7, <1>8

-----------------------------------------------------------------------------
(* The shape of a tree, also in the middle of an insertion.                *)

Record == [keys : Seq(Key), vals : Seq(Int), kids : Seq(Nat), parent : Nat, next : Nat]
Tree == [root : Nat, size : Nat, nodes : Seq(Record)]

\* of each node, the range of its keys and its height
Frame(n) == [lo : [1..n -> Int], hi : [1..n -> Int], level : [1..n -> Nat]]

\* While the call for the new node x, split off from l, is due (x is 0 if none is), l has
\* only the first part of the range that its parent sees.
Top(g, l, x, n) == IF x # 0 /\ n = l THEN g.hi[x] ELSE g.hi[n]

KeysFit(keys, lo, hi) ==
    Ascending(keys) /\ \A i \in 1..Len(keys) : lo <= keys[i] /\ keys[i] < hi

\* the part of a node's range between its keys that its i-th child has
Starts(keys, i, lo) == IF i = 1 THEN lo ELSE keys[i - 1]
Stops(keys, i, hi) == IF i = Len(keys) + 1 THEN hi ELSE keys[i]

ChildFits(t, g, l, x, n, i) ==
    LET keys == t.nodes[n].keys
        c == t.nodes[n].kids[i]
    IN  /\ c \in 1..Len(t.nodes) /\ c # x
        /\ t.nodes[c].parent = n /\ g.level[n] = g.level[c] + 1
        /\ g.lo[c] = Starts(keys, i, g.lo[n]) /\ Top(g, l, x, c) = Stops(keys, i, g.hi[n])

LeafShape(node) == node.kids = <<>> /\ Len(node.vals) = Len(node.keys)

BranchFits(t, g, l, x, n) ==
    LET node == t.nodes[n]
    IN  /\ node.keys # <<>> /\ Len(node.kids) = Len(node.keys) + 1 /\ node.next = 0
        /\ \A i \in 1..Len(node.kids) : ChildFits(t, g, l, x, n, i)

IsChild(t, n) ==
    LET p == t.nodes[n].parent
    IN  p \in 1..Len(t.nodes) /\ \E i \in 1..Len(t.nodes[p].kids) : t.nodes[p].kids[i] = n

\* q is a node that may have a key too many
NodeFits(t, g, l, x, q, n) ==
    LET node == t.nodes[n]
    IN  /\ g.lo[n] < g.hi[n] /\ KeysFit(node.keys, g.lo[n], g.hi[n])
        /\ Len(node.keys) <= IF n = q THEN Order + 1 ELSE Order
        /\ IF g.level[n] = 0 THEN LeafShape(node) ELSE BranchFits(t, g, l, x, n)
        /\ n # t.root /\ n # x => IsChild(t, n)

IsDue(t, g, l, x) ==
    /\ l \in 1..Len(t.nodes) /\ x \in 1..Len(t.nodes) /\ x # l /\ x # t.root
    /\ g.level[x] = g.level[l] /\ g.hi[l] = g.lo[x]

RootFits(t, g, l, x) ==
    /\ t.root \in 1..Len(t.nodes) /\ t.nodes[t.root].parent = 0
    /\ g.lo[t.root] = -1 /\ Top(g, l, x, t.root) = Infinity
    /\ g.level[t.root] < Len(t.nodes)
    /\ \A n \in 1..Len(t.nodes) : g.level[n] <= g.level[t.root]

Fits(t, g, l, x, q) ==
    /\ t \in Tree /\ g \in Frame(Len(t.nodes))
    /\ RootFits(t, g, l, x)
    /\ \A n \in 1..Len(t.nodes) : NodeFits(t, g, l, x, q, n)
    /\ x # 0 => IsDue(t, g, l, x)

(* What is the case of every node of a tree.                               *)
LEMMA NodeTypes ==
    ASSUME NEW t \in Tree
    PROVE  /\ t.root \in Nat /\ t.size \in Nat /\ t.nodes \in Seq(Record)
           /\ Len(t.nodes) \in Nat /\ DOMAIN t.nodes = 1..Len(t.nodes)
           /\ \A n \in 1..Len(t.nodes) :
                 /\ t.nodes[n] \in Record
                 /\ t.nodes[n].keys \in Seq(Key) /\ t.nodes[n].vals \in Seq(Int)
                 /\ t.nodes[n].kids \in Seq(Nat)
                 /\ t.nodes[n].parent \in Nat /\ t.nodes[n].next \in Nat
                 /\ Len(t.nodes[n].keys) \in Nat /\ Len(t.nodes[n].kids) \in Nat
                 /\ Len(t.nodes[n].vals) \in Nat
                 /\ t.nodes[n].kids = <<>> <=> Len(t.nodes[n].kids) = 0
                 /\ t.nodes[n].keys = <<>> <=> Len(t.nodes[n].keys) = 0
<1>1. t.root \in Nat /\ t.size \in Nat /\ t.nodes \in Seq(Record) BY DEF Tree
<1>2. Len(t.nodes) \in Nat /\ DOMAIN t.nodes = 1..Len(t.nodes) BY <1>1, LenProperties
<1>3. ASSUME NEW n \in 1..Len(t.nodes)
      PROVE  /\ t.nodes[n] \in Record
             /\ t.nodes[n].keys \in Seq(Key) /\ t.nodes[n].vals \in Seq(Int)
             /\ t.nodes[n].kids \in Seq(Nat)
             /\ t.nodes[n].parent \in Nat /\ t.nodes[n].next \in Nat
  <2>1. t.nodes[n] \in Record BY <1>1, ElementOfSeq
  <2>2. QED BY <2>1 DEF Record
<1>4. ASSUME NEW S, NEW s \in Seq(S) PROVE Len(s) \in Nat /\ (s = <<>> <=> Len(s) = 0)
  BY LenProperties, EmptySeq
<1>5. \A n \in 1..Len(t.nodes) :
         /\ Len(t.nodes[n].keys) \in Nat /\ Len(t.nodes[n].kids) \in Nat
         /\ Len(t.nodes[n].vals) \in Nat
         /\ t.nodes[n].kids = <<>> <=> Len(t.nodes[n].kids) = 0
         /\ t.nodes[n].keys = <<>> <=> Len(t.nodes[n].keys) = 0
  BY <1>3, <1>4
<1>6. QED BY <1>1, <1>2, <1>3, <1>5

(* Leaves are the nodes at level 0.                                        *)
LEMMA LeafLevels ==
    ASSUME NEW t, NEW g, NEW l, NEW x, NEW q, Fits(t, g, l, x, q), NEW n \in 1..Len(t.nodes)
    PROVE  IsLeaf(t.nodes[n]) <=> g.level[n] = 0
<1>1. NodeFits(t, g, l, x, q, n) BY DEF Fits
<1>2. Len(t.nodes[n].keys) \in Nat /\ (t.nodes[n].kids = <<>> <=> Len(t.nodes[n].kids) = 0)
  BY NodeTypes DEF Fits
<1>3. QED BY <1>1, <1>2 DEF NodeFits, LeafShape, BranchFits, IsLeaf

(* A node with a parent is below it, and in its range.                     *)
LEMMA ParentIs ==
    ASSUME NEW t, NEW g, NEW l, NEW x, NEW q, Fits(t, g, l, x, q), NEW n \in 1..Len(t.nodes),
           n # t.root, n # x
    PROVE  LET p == t.nodes[n].parent
           IN  /\ p \in 1..Len(t.nodes) /\ g.level[p] = g.level[n] + 1
               /\ BranchFits(t, g, l, x, p)
               /\ \E i \in 1..Len(t.nodes[p].kids) : t.nodes[p].kids[i] = n /\ ChildFits(t, g, l, x, p, i)
<1> DEFINE p == t.nodes[n].parent
<1>1. NodeFits(t, g, l, x, q, n) BY DEF Fits
<1>2. IsChild(t, n) BY <1>1 DEF NodeFits
<1>3. PICK i \in 1..Len(t.nodes[p].kids) : t.nodes[p].kids[i] = n BY <1>2 DEF IsChild
<1>4. p \in 1..Len(t.nodes) BY <1>2 DEF IsChild
<1> HIDE DEF p
<1>5. NodeFits(t, g, l, x, q, p) BY <1>4 DEF Fits
<1>6. /\ Len(t.nodes[p].kids) \in Nat /\ Len(t.nodes[p].kids) # 0
      /\ (t.nodes[p].kids = <<>> <=> Len(t.nodes[p].kids) = 0)
  BY <1>3, <1>4, NodeTypes DEF Fits
<1>7. g.level[p] # 0 BY <1>5, <1>6 DEF NodeFits, LeafShape
<1>8. BranchFits(t, g, l, x, p) BY <1>5, <1>7 DEF NodeFits
<1>9. ChildFits(t, g, l, x, p, i) BY <1>3, <1>8 DEF BranchFits
<1>10. g.level[p] = g.level[n] + 1 BY <1>3, <1>9 DEF ChildFits
<1>11. QED BY <1>3, <1>4, <1>8, <1>9, <1>10 DEF p

(* A node whose part of the tree is as it was still has its children.      *)
LEMMA BranchStays ==
    ASSUME NEW t, NEW g, NEW l, NEW x, NEW u, NEW h, NEW m, NEW y, NEW n,
           BranchFits(t, g, l, x, n),
           u.nodes[n].keys = t.nodes[n].keys, u.nodes[n].kids = t.nodes[n].kids,
           u.nodes[n].next = t.nodes[n].next,
           h.lo[n] = g.lo[n], h.hi[n] = g.hi[n], h.level[n] = g.level[n],
           \A c \in 1..Len(t.nodes) :
              t.nodes[c].parent = n /\ c # x /\ g.level[n] = g.level[c] + 1
                => /\ c \in 1..Len(u.nodes) /\ c # y /\ u.nodes[c].parent = n
                   /\ h.level[c] = g.level[c] /\ h.lo[c] = g.lo[c]
                   /\ Top(h, m, y, c) = Top(g, l, x, c)
    PROVE  BranchFits(u, h, m, y, n)
<1>1. ASSUME NEW i \in 1..Len(t.nodes[n].kids) PROVE ChildFits(u, h, m, y, n, i)
  <2>1. ChildFits(t, g, l, x, n, i) BY DEF BranchFits
  <2>2. QED BY <2>1 DEF ChildFits
<1>2. QED BY <1>1 DEF BranchFits

(* Nobody's range is empty.                                                *)
LEMMA RangeIsOpen ==
    ASSUME NEW t, NEW g, NEW l, NEW x, NEW q, Fits(t, g, l, x, q), NEW n \in 1..Len(t.nodes)
    PROVE  /\ g.lo[n] \in Int /\ g.hi[n] \in Int /\ g.level[n] \in Nat
           /\ Top(g, l, x, n) \in Int
           /\ g.lo[n] < g.hi[n] /\ g.hi[n] <= Top(g, l, x, n)
           /\ x # 0 => g.lo[x] < g.hi[x] /\ Top(g, l, x, l) = g.hi[x] /\ g.hi[l] < g.hi[x]
<1>1. g \in Frame(Len(t.nodes)) /\ NodeFits(t, g, l, x, q, n) BY DEF Fits
<1>2. /\ \A m \in 1..Len(t.nodes) : g.lo[m] \in Int /\ g.hi[m] \in Int /\ g.level[m] \in Nat
  BY <1>1 DEF Frame
<1>3. g.lo[n] < g.hi[n] BY <1>1 DEF NodeFits
<1>4. CASE x = 0 BY <1>2, <1>3, <1>4 DEF Top
<1>5. CASE x # 0
  <2>1. IsDue(t, g, l, x) BY <1>5 DEF Fits
  <2>2. x \in 1..Len(t.nodes) /\ l \in 1..Len(t.nodes) /\ g.hi[l] = g.lo[x]
    BY <2>1 DEF IsDue
  <2>3. NodeFits(t, g, l, x, q, x) BY <2>2 DEF Fits
  <2>4. g.lo[x] < g.hi[x] BY <2>3 DEF NodeFits
  <2>5. QED BY <1>2, <1>3, <1>5, <2>2, <2>4 DEF Top
<1>6. QED BY <1>4, <1>5

(* The children of a node are in the order of its keys, each of them once. *)
LEMMA ChildrenDiffer ==
    ASSUME NEW t, NEW g, NEW l, NEW x, NEW q, Fits(t, g, l, x, q), NEW p \in 1..Len(t.nodes),
           BranchFits(t, g, l, x, p),
           NEW i \in 1..Len(t.nodes[p].kids), NEW j \in 1..Len(t.nodes[p].kids),
           i # j
    PROVE  t.nodes[p].kids[i] # t.nodes[p].kids[j]
<1> SUFFICES ASSUME NEW a \in 1..Len(t.nodes[p].kids), NEW b \in 1..Len(t.nodes[p].kids), a < b
             PROVE  t.nodes[p].kids[a] # t.nodes[p].kids[b]
  <2>1. Len(t.nodes[p].kids) \in Nat BY NodeTypes DEF Fits
  <2>2. i < j \/ j < i BY <2>1
  <2>3. QED BY <2>2
<1> DEFINE keys == t.nodes[p].keys
           c == t.nodes[p].kids[a]
<1>1. ChildFits(t, g, l, x, p, a) /\ ChildFits(t, g, l, x, p, b) /\ Len(t.nodes[p].kids) = Len(keys) + 1
  BY DEF BranchFits
<1>2. Len(keys) \in Nat BY NodeTypes DEF Fits
<1>3. NodeFits(t, g, l, x, q, p) BY DEF Fits
<1>4. Ascending(keys) BY <1>3 DEF NodeFits, KeysFit
<1>5. \A m \in 1..Len(keys) : keys[m] \in Int BY <1>4, ElementOfSeq DEF Ascending
<1>6. a \in 1..Len(keys) /\ b - 1 \in 1..Len(keys) /\ a <= b - 1 /\ b # 1 /\ a # Len(keys) + 1
  BY <1>1, <1>2
<1> HIDE DEF keys
<1>7. keys[a] <= keys[b - 1]
  <2>1. CASE a = b - 1 BY <1>5, <1>6, <2>1
  <2>2. CASE a # b - 1
    <3>1. a < b - 1 BY <1>6, <2>2, <1>2
    <3>2. keys[a] < keys[b - 1] BY <1>4, <1>6, <3>1 DEF Ascending
    <3>3. QED BY <1>5, <1>6, <3>2
  <2>3. QED BY <2>1, <2>2
<1>8. c \in 1..Len(t.nodes) /\ Top(g, l, x, c) = keys[a]
  BY <1>1, <1>6 DEF ChildFits, Stops, keys
<1>9. g.lo[t.nodes[p].kids[b]] = keys[b - 1] BY <1>1, <1>6 DEF ChildFits, Starts, keys
<1>10. g.lo[c] \in Int /\ g.hi[c] \in Int /\ Top(g, l, x, c) \in Int
       /\ g.lo[c] < g.hi[c] /\ g.hi[c] <= Top(g, l, x, c)
  BY <1>8, RangeIsOpen
<1> HIDE DEF c
<1>11. keys[a] \in Int /\ keys[b - 1] \in Int BY <1>5, <1>6
<1>12. g.lo[c] # keys[b - 1] BY <1>7, <1>8, <1>10, <1>11
<1>14. c # t.nodes[p].kids[b] BY <1>9, <1>12
<1>15. QED BY <1>14 DEF c

\* k goes in between smaller and larger keys
IsGap(keys, m, k) ==
    (\A i \in 1..(m - 1) : keys[i] < k) /\ (\A i \in m..Len(keys) : k < keys[i])

(* It may, then.                                                           *)
LEMMA InsertKeepsOrder ==
    ASSUME NEW keys \in Seq(Key), NEW k \in Key, NEW m \in 1..(Len(keys) + 1),
           IsGap(keys, m, k),
           NEW lo \in Int, NEW hi \in Int, KeysFit(keys, lo, hi), lo <= k, k < hi,
           NEW long, long = InsertAt(keys, m, k)
    PROVE  KeysFit(long, lo, hi)
<1>0. /\ \A i \in 1..(m - 1) : keys[i] < k
      /\ \A i \in m..Len(keys) : k < keys[i]
  BY DEF IsGap
<1> DEFINE len == Len(keys)
<1>1. len \in Nat /\ m \in 1..(len + 1) BY LenProperties
<1>2. \A i \in 1..len : keys[i] \in Key BY ElementOfSeq
<1>3. \A i \in 1..len : keys[i] \in Int /\ lo <= keys[i] /\ keys[i] < hi
  <2>1. Key \subseteq Int BY ONLY KeyAssumption
  <2>2. \A i \in 1..len : keys[i] \in Int BY ONLY <1>2, <2>1, Zenon
  <2>3. \A i \in 1..len : lo <= keys[i] /\ keys[i] < hi BY DEF KeysFit
  <2>4. QED BY <2>2, <2>3
<1>4. k \in Int BY KeyAssumption
<1>5. /\ long \in Seq(Key) /\ Len(long) = len + 1 /\ long[m] = k
      /\ \A i \in 1..(m - 1) : long[i] = keys[i]
      /\ \A i \in (m + 1)..(len + 1) : long[i] = keys[i - 1]
  <2>1. keys \in Seq(Key) /\ m \in 1..(Len(keys) + 1) /\ k \in Key /\ long = InsertAt(keys, m, k)
    OBVIOUS
  <2>2. long \in Seq(Key) /\ InsertedAt(long, keys, m, k) BY ONLY <2>1, InsertAtProperties
  <2>3. QED BY ONLY <2>2 DEF InsertedAt, len
<1>6. \A i \in 1..(len + 1) : \/ i \in 1..(m - 1)
                              \/ i = m
                              \/ i \in (m + 1)..(len + 1) /\ i - 1 \in m..len
  BY <1>1
<1>7. (\A i \in 1..(m - 1) : i \in 1..len) /\ (\A i \in m..len : i \in 1..len) BY <1>1
<1>8. \A i \in 1..(len + 1) : long[i] \in Int /\ lo <= long[i] /\ long[i] < hi
  BY <1>3, <1>4, <1>5, <1>6, <1>7
<1>9. /\ \A i \in 1..(m - 1) : long[i] < k
      /\ \A i \in (m + 1)..(len + 1) : k < long[i]
  <2>1. \A i \in 1..(m - 1) : long[i] < k BY <1>0, <1>5
  <2>2. \A i \in (m + 1)..(len + 1) : i - 1 \in m..len BY <1>1
  <2>3. \A i \in (m + 1)..(len + 1) : k < keys[i - 1] BY <1>0, <2>2
  <2>4. \A i \in (m + 1)..(len + 1) : k < long[i] BY <1>5, <2>3
  <2>5. QED BY <2>1, <2>4
<1>10. ASSUME NEW i \in 1..(len + 1), NEW j \in 1..(len + 1), i < j PROVE long[i] < long[j]
  <2>1. \A a \in 1..len, b \in 1..len : a < b => keys[a] < keys[b] BY DEF KeysFit, Ascending
  <2>2. CASE j \in 1..(m - 1)
    <3>1. i \in 1..(m - 1) BY <2>2, <1>1, <1>10
    <3>2. QED BY <1>5, <1>7, <1>10, <2>1, <2>2, <3>1
  <2>3. CASE j = m
    <3>1. i \in 1..(m - 1) BY <2>3, <1>1, <1>10
    <3>2. QED BY <1>5, <1>9, <2>3, <3>1
  <2>4. CASE j \in (m + 1)..(len + 1) /\ j - 1 \in m..len
    <3>1. CASE i \in 1..(m - 1)
      <4>1. long[i] < k /\ k < long[j] BY <1>9, <2>4, <3>1
      <4>2. QED BY <1>4, <1>8, <4>1
    <3>2. CASE i = m BY <1>5, <1>9, <2>4, <3>2
    <3>3. CASE i \in (m + 1)..(len + 1) /\ i - 1 \in m..len
      <4>1. i - 1 < j - 1 /\ i - 1 \in 1..len /\ j - 1 \in 1..len BY <1>1, <1>7, <1>10, <2>4, <3>3
      <4>2. keys[i - 1] < keys[j - 1] BY <2>1, <4>1
      <4>3. QED BY <1>5, <2>4, <3>3, <4>2
    <3>4. QED BY <1>6, <3>1, <3>2, <3>3
  <2>5. QED BY <1>6, <2>2, <2>3, <2>4
<1>11. long \in Seq(Int)
  <2>1. Key \subseteq Int BY KeyAssumption
  <2>2. QED BY <1>5, <2>1, SeqMonotonic
<1>12. QED BY <1>5, <1>8, <1>10, <1>11 DEF KeysFit, Ascending

-----------------------------------------------------------------------------
(* A call of insert_in_parent: the new node joins the parent of the one it *)
(* was split off from.                                                     *)

Attach(t, p, x, ks, cs) ==
    [t EXCEPT !.nodes[p].keys = ks, !.nodes[p].kids = cs, !.nodes[x].parent = p]

IsAttached(u, t, p, x, ks, cs) ==
    /\ u \in Tree /\ u.root = t.root /\ u.size = t.size /\ Len(u.nodes) = Len(t.nodes)
    /\ \A n \in 1..Len(t.nodes) : n # p /\ n # x => u.nodes[n] = t.nodes[n]
    /\ u.nodes[p].keys = ks /\ u.nodes[p].kids = cs
    /\ u.nodes[p].vals = t.nodes[p].vals /\ u.nodes[p].next = t.nodes[p].next
    /\ u.nodes[p].parent = t.nodes[p].parent
    /\ u.nodes[x].keys = t.nodes[x].keys /\ u.nodes[x].kids = t.nodes[x].kids
    /\ u.nodes[x].vals = t.nodes[x].vals /\ u.nodes[x].next = t.nodes[x].next
    /\ u.nodes[x].parent = p

(* The parent's keys and children, and the new node's parent.              *)
LEMMA AttachedIs ==
    ASSUME NEW t \in Tree, NEW p \in 1..Len(t.nodes), NEW x \in 1..Len(t.nodes), p # x,
           NEW ks \in Seq(Key), NEW cs \in Seq(Nat)
    PROVE  IsAttached(Attach(t, p, x, ks, cs), t, p, x, ks, cs)
<1> DEFINE u == Attach(t, p, x, ks, cs)
<1>0. u = [t EXCEPT !.nodes[p].keys = ks, !.nodes[p].kids = cs, !.nodes[x].parent = p]
  BY DEF Attach
<1> HIDE DEF u
<1> DEFINE rp == [t.nodes[p] EXCEPT !.keys = ks, !.kids = cs]
           rx == [t.nodes[x] EXCEPT !.parent = p]
           ms == [t.nodes EXCEPT ![p] = rp]
           ns == [ms EXCEPT ![x] = rx]
<1>1. t.nodes[p] \in Record /\ t.nodes[x] \in Record /\ DOMAIN t.nodes = 1..Len(t.nodes)
      /\ t.nodes \in Seq(Record)
  BY NodeTypes
<1>2. p \in Nat BY NodeTypes
<1>3. rp \in Record /\ rx \in Record BY <1>1, <1>2 DEF Record
<1>4. u = [t EXCEPT !.nodes = ns]
  BY <1>0, <1>1 DEF Tree
<1>5. /\ rp.keys = ks /\ rp.kids = cs /\ rp.vals = t.nodes[p].vals /\ rp.next = t.nodes[p].next
      /\ rp.parent = t.nodes[p].parent
  BY <1>1 DEF Record
<1>6. /\ rx.keys = t.nodes[x].keys /\ rx.kids = t.nodes[x].kids
      /\ rx.vals = t.nodes[x].vals /\ rx.next = t.nodes[x].next /\ rx.parent = p
  BY <1>1 DEF Record
<1> HIDE DEF rp, rx
<1>7. /\ ms \in Seq(Record) /\ Len(ms) = Len(t.nodes)
      /\ \A n \in 1..Len(t.nodes) : ms[n] = IF n = p THEN rp ELSE t.nodes[n]
  BY <1>1, <1>3, ExceptSeq
<1>8. x \in 1..Len(ms) BY <1>7
<1> HIDE DEF ms
<1>9. /\ ns \in Seq(Record) /\ Len(ns) = Len(ms)
      /\ \A n \in 1..Len(ms) : ns[n] = IF n = x THEN rx ELSE ms[n]
  BY ONLY <1>3, <1>7, <1>8, ExceptSeq DEF ns
<1> HIDE DEF ns
<1>10. /\ ns \in Seq(Record) /\ Len(ns) = Len(t.nodes) /\ ns[p] = rp /\ ns[x] = rx
       /\ \A n \in 1..Len(t.nodes) : n # p /\ n # x => ns[n] = t.nodes[n]
  BY <1>7, <1>9
<1>11. u \in Tree /\ u.root = t.root /\ u.size = t.size /\ u.nodes = ns
  BY <1>4, <1>10 DEF Tree
<1>12. IsAttached(u, t, p, x, ks, cs) BY <1>5, <1>6, <1>10, <1>11 DEF IsAttached
<1>13. QED BY <1>12 DEF u

\* the new node x belongs next to the j-th child l of p
IsPlace(t, g, l, x, k, p, j) ==
    /\ k = g.hi[l] /\ p = t.nodes[l].parent
    /\ p \in 1..Len(t.nodes) /\ p # x /\ p # l /\ l # t.root /\ g.level[p] = g.level[l] + 1
    /\ BranchFits(t, g, l, x, p)
    /\ j \in 1..(Len(t.nodes[p].keys) + 1)
    /\ t.nodes[p].kids[j] = l /\ ChildFits(t, g, l, x, p, j)
    /\ \A i \in 1..(j - 1) : t.nodes[p].keys[i] < k
    /\ \A i \in j..Len(t.nodes[p].keys) : k < t.nodes[p].keys[i]
    /\ g.lo[p] <= k /\ k < g.hi[p]

(* The place of the new node among the children of its parent.             *)
LEMMA PlaceIs ==
    ASSUME NEW t, NEW g, NEW l, NEW x, Fits(t, g, l, x, 0), x # 0,
           NEW k \in Int, k = g.hi[l], NEW p, p = t.nodes[l].parent, p # 0
    PROVE  IsPlace(t, g, l, x, k, p, traverse_lt(t.nodes[p].keys, k) + 1)
<1> DEFINE keys == t.nodes[p].keys
           kids == t.nodes[p].kids
           idx == traverse_lt(keys, k)
<1>1. IsDue(t, g, l, x) /\ RootFits(t, g, l, x) /\ t \in Tree BY DEF Fits
<1>2. l \in 1..Len(t.nodes) /\ x \in 1..Len(t.nodes) /\ x # l /\ g.level[x] = g.level[l] /\ g.hi[l] = g.lo[x]
  BY <1>1 DEF IsDue
<1>3. l # t.root BY <1>1 DEF RootFits
<1>4. /\ p \in 1..Len(t.nodes) /\ g.level[p] = g.level[l] + 1 /\ BranchFits(t, g, l, x, p)
      /\ \E i \in 1..Len(kids) : kids[i] = l /\ ChildFits(t, g, l, x, p, i)
  <2>1. Fits(t, g, l, x, 0) /\ p = t.nodes[l].parent OBVIOUS
  <2>2. QED BY ONLY <1>2, <1>3, <2>1, ParentIs
<1>5. PICK j \in 1..Len(kids) : kids[j] = l /\ ChildFits(t, g, l, x, p, j) BY <1>4
<1>6. g.level[l] \in Nat /\ g.lo[l] \in Int /\ g.lo[l] < g.hi[l] /\ Top(g, l, x, l) = g.hi[x]
      /\ g.hi[l] < g.hi[x] /\ g.lo[p] \in Int /\ g.hi[p] \in Int /\ g.hi[x] \in Int
  <2>1. Fits(t, g, l, x, 0) /\ x # 0 OBVIOUS
  <2>2. \A n \in 1..Len(t.nodes) : g.lo[n] \in Int /\ g.hi[n] \in Int /\ g.level[n] \in Nat /\ g.lo[n] < g.hi[n]
    BY ONLY <2>1, RangeIsOpen
  <2>3. Top(g, l, x, l) = g.hi[x] /\ g.hi[l] < g.hi[x] BY ONLY <1>2, <2>1, RangeIsOpen
  <2>4. QED BY ONLY <1>2, <1>4, <2>2, <2>3
<1>7. p # x /\ p # l BY ONLY <1>2, <1>4, <1>6
<1>8. KeysFit(keys, g.lo[p], g.hi[p]) BY <1>4 DEF Fits, NodeFits
<1>9. Ascending(keys) BY <1>8 DEF KeysFit
<1>10. TurnIs(keys, k, idx) BY <1>9, SearchesFind
<1>11. Len(keys) \in Nat /\ Len(kids) = Len(keys) + 1 BY <1>1, <1>4, NodeTypes DEF BranchFits
<1>12. g.lo[l] = Starts(keys, j, g.lo[p]) /\ g.hi[x] = Stops(keys, j, g.hi[p])
  BY <1>5, <1>6 DEF ChildFits
<1> HIDE DEF keys, kids, idx
<1>13. \A i \in 1..Len(keys) : keys[i] \in Int /\ g.lo[p] <= keys[i] /\ keys[i] < g.hi[p]
  BY <1>8, ElementOfSeq DEF KeysFit, Ascending
<1>14. /\ j # 1 => keys[j - 1] < k
       /\ j # Len(keys) + 1 => k < keys[j]
  BY <1>6, <1>12 DEF Starts, Stops
<1>15. idx = j - 1
  <2>1. idx \in 0..Len(keys) /\ (\A i \in 1..idx : keys[i] <= k)
        /\ (\A i \in (idx + 1)..Len(keys) : k < keys[i])
    BY <1>10 DEF TurnIs
  <2>2. ~(idx < j - 1)
    <3> SUFFICES ASSUME idx < j - 1 PROVE FALSE OBVIOUS
    <3>1. j - 1 \in (idx + 1)..Len(keys) /\ j # 1 /\ j - 1 \in 1..Len(keys) BY <1>11, <2>1
    <3>2. k < keys[j - 1] /\ keys[j - 1] < k /\ keys[j - 1] \in Int BY <1>13, <1>14, <2>1, <3>1
    <3>3. QED BY <3>2
  <2>3. ~(idx > j - 1)
    <3> SUFFICES ASSUME idx > j - 1 PROVE FALSE OBVIOUS
    <3>1. j \in 1..idx /\ j # Len(keys) + 1 /\ j \in 1..Len(keys) BY <1>11, <2>1
    <3>2. keys[j] <= k /\ k < keys[j] /\ keys[j] \in Int BY <1>13, <1>14, <2>1, <3>1
    <3>3. QED BY <3>2
  <2>4. QED BY <2>1, <2>2, <2>3
<1>16. \A i \in 1..(j - 1) : keys[i] < k
  <2> SUFFICES ASSUME NEW i \in 1..(j - 1) PROVE keys[i] < k OBVIOUS
  <2>1. j # 1 /\ j - 1 \in 1..Len(keys) /\ i \in 1..Len(keys) BY <1>11
  <2>2. keys[j - 1] < k /\ keys[j - 1] \in Int /\ keys[i] \in Int BY <1>13, <1>14, <2>1
  <2>3. i = j - 1 \/ i < j - 1 BY <2>1
  <2>4. i < j - 1 => keys[i] < keys[j - 1] BY <1>9, <2>1 DEF Ascending
  <2>5. QED BY <2>2, <2>3, <2>4
<1>17. \A i \in j..Len(keys) : k < keys[i]
  BY <1>10, <1>11, <1>15 DEF TurnIs
<1>18. g.lo[p] <= k /\ k < g.hi[p]
  <2>1. g.lo[p] <= g.lo[l]
    <3>1. CASE j = 1 BY <1>6, <1>12, <3>1 DEF Starts
    <3>2. CASE j # 1
      <4>1. j - 1 \in 1..Len(keys) BY <1>11, <3>2
      <4>2. QED BY <1>12, <1>13, <3>2, <4>1 DEF Starts
    <3>3. QED BY <3>1, <3>2
  <2>2. g.hi[x] <= g.hi[p]
    <3>1. CASE j = Len(keys) + 1 BY <1>6, <1>12, <3>1 DEF Stops
    <3>2. CASE j # Len(keys) + 1
      <4>1. j \in 1..Len(keys) BY <1>11, <3>2
      <4>2. QED BY <1>6, <1>12, <1>13, <3>2, <4>1 DEF Stops
    <3>3. QED BY <3>1, <3>2
  <2>3. k = g.hi[l] OBVIOUS
  <2>4. \A a, b, c, d, e \in Int : a <= b /\ b < c /\ c < d /\ d <= e => a <= c /\ c < e OBVIOUS
  <2>5. k \in Int OBVIOUS
  <2>6. QED BY ONLY <1>6, <2>1, <2>2, <2>3, <2>4, <2>5
<1>19. idx + 1 = j BY <1>11, <1>15
<1>20. k = g.hi[l] /\ p = t.nodes[l].parent OBVIOUS
<1>21. IsPlace(t, g, l, x, k, p, j)
  BY ONLY <1>3, <1>4, <1>5, <1>7, <1>11, <1>16, <1>17, <1>18, <1>20 DEF keys, kids, IsPlace
<1>22. QED BY ONLY <1>19, <1>21 DEF keys, idx

\* u is t with x there
Joined(u, t, x, k, p, j) ==
    /\ u \in Tree /\ u.root = t.root /\ u.size = t.size /\ Len(u.nodes) = Len(t.nodes)
    /\ \A n \in 1..Len(t.nodes) : n # p /\ n # x => u.nodes[n] = t.nodes[n]
    /\ u.nodes[p].keys \in Seq(Key) /\ u.nodes[p].kids \in Seq(Nat)
    /\ u.nodes[p].keys = InsertAt(t.nodes[p].keys, j, k)
    /\ InsertedAt(u.nodes[p].keys, t.nodes[p].keys, j, k)
    /\ InsertedAt(u.nodes[p].kids, t.nodes[p].kids, j + 1, x)
    /\ u.nodes[p].vals = t.nodes[p].vals /\ u.nodes[p].next = t.nodes[p].next
    /\ u.nodes[p].parent = t.nodes[p].parent
    /\ u.nodes[x].keys = t.nodes[x].keys /\ u.nodes[x].kids = t.nodes[x].kids
    /\ u.nodes[x].vals = t.nodes[x].vals /\ u.nodes[x].next = t.nodes[x].next
    /\ u.nodes[x].parent = p

(* It leaves a tree with nothing due, and perhaps a key too many in p.     *)
LEMMA JoinFits ==
    ASSUME NEW t, NEW g, NEW l, NEW x, Fits(t, g, l, x, 0), x # 0,
           NEW k \in Key, NEW p, NEW j \in Nat, IsPlace(t, g, l, x, k, p, j),
           NEW N \in Nat, N = Len(t.nodes), NEW u, Joined(u, t, x, k, p, j)
    PROVE  Fits(u, g, 0, 0, p)
<1> DEFINE keys == t.nodes[p].keys
           kids == t.nodes[p].kids
           ks == u.nodes[p].keys
           cs == u.nodes[p].kids
<1>1. k \in Int /\ t \in Tree /\ g \in Frame(N) /\ IsDue(t, g, l, x) /\ RootFits(t, g, l, x)
      /\ \A n \in 1..N : NodeFits(t, g, l, x, 0, n)
  BY KeyAssumption DEF Fits
<1>2. l \in 1..N /\ x \in 1..N /\ x # l /\ x # t.root /\ g.level[x] = g.level[l] /\ g.lo[x] = g.hi[l]
      /\ x \in Nat
  BY <1>1 DEF IsDue
<1>3. /\ p \in 1..N /\ p # x /\ p # l /\ g.lo[x] = k /\ g.hi[l] = k /\ p = t.nodes[l].parent
      /\ l # t.root /\ g.level[p] = g.level[l] + 1
      /\ BranchFits(t, g, l, x, p)
      /\ j \in 1..(Len(keys) + 1)
      /\ kids[j] = l /\ ChildFits(t, g, l, x, p, j)
      /\ \A i \in 1..(j - 1) : keys[i] < k
      /\ \A i \in j..Len(keys) : k < keys[i]
      /\ g.lo[p] <= k /\ k < g.hi[p]
  BY <1>2 DEF IsPlace
<1>4. /\ keys \in Seq(Key) /\ kids \in Seq(Nat) /\ Len(keys) \in Nat /\ Len(kids) = Len(keys) + 1
      /\ t.nodes[p].next = 0 /\ keys # <<>>
  BY <1>1, <1>3, NodeTypes DEF BranchFits
<1>5. \A n \in 1..N : g.lo[n] \in Int /\ g.hi[n] \in Int /\ g.level[n] \in Nat BY <1>1 DEF Frame
<1>6. KeysFit(keys, g.lo[p], g.hi[p]) /\ Len(keys) <= Order
  <2>1. NodeFits(t, g, l, x, 0, p) /\ p # 0 BY ONLY <1>1, <1>3
  <2>2. QED BY ONLY <2>1 DEF NodeFits
<1>7. Top(g, l, x, l) = g.hi[x] /\ \A n \in 1..N : n # l => Top(g, l, x, n) = g.hi[n]
  BY DEF Top
<1>8. N = Len(t.nodes) /\ Fits(t, g, l, x, 0) OBVIOUS
<1>13. /\ u \in Tree /\ u.root = t.root /\ u.size = t.size /\ Len(u.nodes) = N
       /\ \A n \in 1..N : n # p /\ n # x => u.nodes[n] = t.nodes[n]
       /\ u.nodes[p].keys = ks /\ u.nodes[p].kids = cs
       /\ u.nodes[p].vals = t.nodes[p].vals /\ u.nodes[p].next = t.nodes[p].next
       /\ u.nodes[p].parent = t.nodes[p].parent
       /\ u.nodes[x].keys = t.nodes[x].keys /\ u.nodes[x].kids = t.nodes[x].kids
       /\ u.nodes[x].vals = t.nodes[x].vals /\ u.nodes[x].next = t.nodes[x].next
       /\ u.nodes[x].parent = p
  BY <1>8 DEF Joined
<1>10. InsertedAt(ks, keys, j, k) /\ InsertedAt(cs, kids, j + 1, x) /\ ks = InsertAt(keys, j, k)
       /\ ks \in Seq(Key) /\ cs \in Seq(Nat)
  BY DEF Joined
<1> HIDE DEF keys, kids, ks, cs
<1>9. /\ Len(ks) = Len(keys) + 1 /\ ks[j] = k
      /\ \A i \in 1..(j - 1) : ks[i] = keys[i]
      /\ \A i \in (j + 1)..(Len(keys) + 1) : ks[i] = keys[i - 1]
      /\ KeysFit(ks, g.lo[p], g.hi[p])
  <2>1. ks = InsertAt(keys, j, k) /\ k \in Key /\ g.lo[p] \in Int /\ g.hi[p] \in Int BY ONLY <1>3, <1>5, <1>10
  <2>2. IsGap(keys, j, k) BY ONLY <1>3 DEF IsGap
  <2>3. KeysFit(ks, g.lo[p], g.hi[p]) BY ONLY <1>3, <1>4, <1>6, <2>1, <2>2, InsertKeepsOrder
  <2>4. QED BY ONLY <1>10, <2>3 DEF InsertedAt
<1>11. /\ Len(cs) = Len(kids) + 1 /\ cs[j + 1] = x
       /\ \A i \in 1..j : cs[i] = kids[i]
       /\ \A i \in (j + 2)..(Len(kids) + 1) : cs[i] = kids[i - 1]
  <2>1. (j + 1) - 1 = j /\ (j + 1) + 1 = j + 2 OBVIOUS
  <2>2. QED BY ONLY <1>10, <2>1 DEF InsertedAt
<1>14. \A n \in 1..N : n # x => u.nodes[n].parent = t.nodes[n].parent BY ONLY <1>13
\* the children of p
<1>15. ASSUME NEW i \in 1..Len(cs) PROVE ChildFits(u, g, 0, 0, p, i)
  <2> DEFINE c == cs[i]
  <2>0. ChildFits(u, g, 0, 0, p, i) <=>
          /\ c \in 1..N /\ c # 0
          /\ u.nodes[c].parent = p /\ g.level[p] = g.level[c] + 1
          /\ g.lo[c] = Starts(ks, i, g.lo[p]) /\ g.hi[c] = Stops(ks, i, g.hi[p])
    BY ONLY <1>13 DEF ChildFits, Top
  <2>1. CASE i = j + 1
    <3>1. c = x /\ c \in 1..N /\ c # 0 BY ONLY <1>2, <1>11, <2>1
    <3>2. g.level[p] = g.level[c] + 1 /\ u.nodes[c].parent = p BY ONLY <1>2, <1>3, <1>13, <3>1
    <3>3. g.lo[c] = Starts(ks, i, g.lo[p]) BY ONLY <1>2, <1>3, <1>9, <2>1, <3>1 DEF Starts
    <3>4. g.hi[x] = Stops(keys, j, g.hi[p]) BY ONLY <1>3, <1>7 DEF ChildFits, kids, keys
    <3>5. g.hi[c] = Stops(ks, i, g.hi[p])
      <4>1. CASE j = Len(keys) + 1
        <5>1. i = Len(ks) + 1 BY ONLY <1>9, <2>1, <4>1
        <5>2. QED BY ONLY <3>1, <3>4, <4>1, <5>1 DEF Stops
      <4>2. CASE j # Len(keys) + 1
        <5>1. j + 1 \in (j + 1)..(Len(keys) + 1) /\ j + 1 - 1 = j /\ i # Len(ks) + 1
          BY ONLY <1>3, <1>4, <1>9, <2>1, <4>2
        <5>2. ks[i] = keys[j] BY ONLY <1>9, <2>1, <5>1
        <5>3. QED BY ONLY <3>1, <3>4, <4>2, <5>1, <5>2 DEF Stops
      <4>3. QED BY ONLY <4>1, <4>2
    <3>6. QED BY ONLY <2>0, <3>1, <3>2, <3>3, <3>5
  <2>2. CASE i # j + 1
    <3> DEFINE o == IF i <= j THEN i ELSE i - 1
    <3>1. o \in 1..Len(kids) /\ c = kids[o] /\ Len(cs) = Len(kids) + 1
      <4>1. CASE i <= j
        <5>1. i \in 1..j /\ i \in 1..Len(kids) BY ONLY <1>3, <1>4, <4>1
        <5>2. QED BY ONLY <1>11, <1>11, <4>1, <5>1
      <4>2. CASE ~(i <= j)
        <5>1. i \in (j + 2)..(Len(kids) + 1) BY ONLY <1>3, <1>4, <1>11, <2>2, <4>2
        <5>2. i - 1 \in 1..Len(kids) BY ONLY <1>3, <1>4, <5>1
        <5>3. QED BY ONLY <1>11, <1>11, <4>2, <5>1, <5>2
      <4>3. QED BY ONLY <4>1, <4>2
    <3>2. ChildFits(t, g, l, x, p, o) BY ONLY <1>3, <3>1 DEF BranchFits, kids
    <3>3. /\ c \in 1..N /\ c # x
          /\ t.nodes[c].parent = p /\ g.level[p] = g.level[c] + 1
          /\ g.lo[c] = Starts(keys, o, g.lo[p]) /\ Top(g, l, x, c) = Stops(keys, o, g.hi[p])
      BY ONLY <1>8, <3>1, <3>2 DEF ChildFits, kids, keys
    <3>4. u.nodes[c].parent = p /\ c # 0 BY ONLY <1>14, <3>3
    <3>5. g.lo[c] = Starts(ks, i, g.lo[p])
      <4>1. CASE i = 1 BY ONLY <1>3, <3>3, <4>1 DEF Starts
      <4>2. CASE i # 1 /\ i <= j
        <5>1. i - 1 \in 1..(j - 1) /\ o = i BY ONLY <1>3, <4>2
        <5>2. QED BY ONLY <1>9, <3>3, <4>2, <5>1 DEF Starts
      <4>3. CASE ~(i <= j)
        <5>1. o = i - 1 /\ o # 1 /\ i - 1 \in (j + 1)..(Len(keys) + 1) /\ i # 1 /\ i - 1 - 1 = o - 1
          <6>1. Len(keys) \in Nat /\ Len(kids) = Len(keys) + 1 BY ONLY <1>4
          <6>2. j \in 1..(Len(keys) + 1) BY ONLY <1>3
          <6>3. o = i - 1 /\ i \in 1..(Len(kids) + 1) BY ONLY <1>11, <2>2, <4>3
          <6>4. QED BY ONLY <2>2, <4>3, <6>1, <6>2, <6>3
        <5>2. ks[i - 1] = keys[o - 1] BY ONLY <1>9, <5>1
        <5>3. QED BY ONLY <3>3, <5>1, <5>2 DEF Starts
      <4>4. QED BY ONLY <4>1, <4>2, <4>3
    <3>6. o # j => c # l
      <4>1. ASSUME o # j PROVE kids[o] # kids[j]
        <5>0. o # j BY ONLY <4>1
        <5>1. p \in 1..Len(t.nodes) /\ o \in 1..Len(t.nodes[p].kids) /\ j \in 1..Len(t.nodes[p].kids)
          BY ONLY <1>3, <1>4, <1>8, <3>1 DEF kids
        <5>2. QED BY ONLY <1>3, <1>8, <5>0, <5>1, ChildrenDiffer DEF kids
      <4>2. QED BY ONLY <1>3, <3>1, <4>1
    <3>7. g.hi[c] = Stops(ks, i, g.hi[p])
      <4>1. CASE i = j
        <5>1. o = j /\ c = l /\ i # Len(ks) + 1 BY ONLY <1>3, <1>4, <1>9, <3>1, <4>1
        <5>2. QED BY ONLY <1>3, <1>7, <1>9, <4>1, <5>1 DEF Stops
      <4>2. CASE i < j
        <5>1. o = i /\ o # j /\ i \in 1..(j - 1) /\ i # Len(ks) + 1 /\ i # Len(keys) + 1
          BY ONLY <1>3, <1>4, <1>9, <4>2
        <5>2. g.hi[c] = Stops(keys, i, g.hi[p]) BY ONLY <1>7, <3>3, <3>6, <5>1
        <5>3. QED BY ONLY <1>9, <5>1, <5>2 DEF Stops
      <4>3. CASE i > j
        <5>1. o = i - 1 /\ o # j /\ i \in (j + 2)..(Len(kids) + 1) BY ONLY <1>3, <1>4, <1>11, <2>2, <4>3
        <5>2. g.hi[c] = Stops(keys, i - 1, g.hi[p]) BY ONLY <1>7, <3>3, <3>6, <5>1
        <5>3. CASE i = Len(ks) + 1
          <6>1. i - 1 = Len(keys) + 1 BY ONLY <1>4, <1>9, <5>3
          <6>2. QED BY ONLY <5>2, <5>3, <6>1 DEF Stops
        <5>4. CASE i # Len(ks) + 1
          <6>0. Len(ks) = Len(keys) + 1 /\ i \in Int BY ONLY <1>9
          <6>1. i - 1 # Len(keys) + 1 /\ i \in (j + 1)..(Len(keys) + 1)
            <7>1. Len(keys) \in Nat /\ Len(kids) = Len(keys) + 1 BY ONLY <1>4
            <7>2. j \in Nat BY ONLY <1>3, <7>1
            <7>3. QED BY ONLY <5>1, <5>4, <6>0, <7>1, <7>2
          <6>2. ks[i] = keys[i - 1] BY ONLY <1>9, <6>1
          <6>3. QED BY ONLY <5>2, <5>4, <6>1, <6>2 DEF Stops
        <5>5. QED BY ONLY <5>3, <5>4
      <4>4. QED BY ONLY <1>3, <4>1, <4>2, <4>3
    <3>8. QED BY ONLY <2>0, <3>3, <3>4, <3>5, <3>7
  <2>3. QED BY ONLY <2>1, <2>2
<1>16. BranchFits(u, g, 0, 0, p)
  <2>1. Len(ks) # 0 /\ Len(cs) = Len(ks) + 1 BY ONLY <1>4, <1>9, <1>11
  <2>2. ks # <<>> BY ONLY <2>1
  <2>3. QED BY ONLY <1>4, <1>13, <1>15, <2>1, <2>2 DEF BranchFits
\* the children of other nodes
<1>17. ASSUME NEW n \in 1..N, n # p, BranchFits(t, g, l, x, n) PROVE BranchFits(u, g, 0, 0, n)
  <2>1. u.nodes[n].keys = t.nodes[n].keys /\ u.nodes[n].kids = t.nodes[n].kids
        /\ u.nodes[n].next = t.nodes[n].next
    BY ONLY <1>13, <1>17
  <2>2. ASSUME NEW c \in 1..N, t.nodes[c].parent = n, c # x
        PROVE  /\ c \in 1..Len(u.nodes) /\ c # 0 /\ u.nodes[c].parent = n
               /\ Top(g, 0, 0, c) = Top(g, l, x, c)
    <3>1. c # l BY ONLY <1>3, <1>17, <2>2
    <3>2. QED BY ONLY <1>7, <1>13, <1>14, <2>2, <3>1 DEF Top
  <2>3. QED BY ONLY <1>17, <2>1, <2>2, <1>8, BranchStays
\* the parents
<1>18. ASSUME NEW n \in 1..N, n # x, IsChild(t, n) PROVE IsChild(u, n)
  <2> DEFINE m == t.nodes[n].parent
  <2>1. m \in 1..N /\ u.nodes[n].parent = m BY <1>14, <1>18 DEF IsChild
  <2>2. PICK i \in 1..Len(t.nodes[m].kids) : t.nodes[m].kids[i] = n BY <1>18 DEF IsChild
  <2> HIDE DEF m
  <2>3. CASE m # p
    <3>1. u.nodes[m].kids = t.nodes[m].kids BY ONLY <1>13, <2>1, <2>3
    <3>2. QED BY ONLY <1>13, <2>1, <2>2, <3>1 DEF IsChild
  <2>4. CASE m = p
    <3>0. i \in 1..Len(kids) /\ kids[i] = n BY ONLY <2>2, <2>4 DEF kids
    <3>1. CASE i <= j
      <4>1. i \in 1..j /\ i \in 1..Len(cs) BY ONLY <1>3, <1>4, <1>11, <3>0, <3>1
      <4>2. cs[i] = n BY ONLY <1>11, <3>0, <4>1
      <4>3. QED BY ONLY <1>13, <2>1, <2>4, <4>1, <4>2 DEF IsChild
    <3>2. CASE ~(i <= j)
      <4>1. i + 1 \in (j + 2)..(Len(kids) + 1) /\ i + 1 \in 1..Len(cs) /\ i + 1 - 1 = i
        <5>1. i \in 1..Len(kids) /\ ~(i <= j) BY ONLY <3>0, <3>2
        <5>2. PICK m1, n1 \in Nat : m1 = j /\ n1 = Len(kids)
          <6>1. Len(kids) \in Nat /\ Len(kids) = Len(keys) + 1 BY ONLY <1>4
          <6>2. j \in 1..(Len(keys) + 1) BY ONLY <1>3
          <6>3. j \in Nat BY ONLY <6>1, <6>2
          <6>4. QED BY ONLY <6>1, <6>3
        <5>3. Len(cs) = Len(kids) + 1 BY ONLY <1>11
        <5>4. QED BY ONLY <5>1, <5>2, <5>3
      <4>2. cs[i + 1] = n BY ONLY <1>11, <3>0, <4>1
      <4>3. QED BY ONLY <1>13, <2>1, <2>4, <4>1, <4>2 DEF IsChild
    <3>3. QED BY ONLY <3>1, <3>2
  <2>5. QED BY ONLY <2>3, <2>4
<1>19. IsChild(u, x)
  <2>1. j + 1 \in 1..Len(cs) BY ONLY <1>3, <1>4, <1>11
  <2>2. QED BY ONLY <1>3, <1>11, <1>13, <2>1 DEF IsChild
<1>20. ASSUME NEW n \in 1..N PROVE NodeFits(u, g, 0, 0, p, n)
  <2>1. NodeFits(t, g, l, x, 0, n) BY ONLY <1>1
  <2>2. n # u.root => IsChild(u, n)
    <3>1. CASE n = x BY ONLY <1>19, <3>1
    <3>2. CASE n # x
      <4>1. u.root = t.root BY ONLY <1>13
      <4>2. n # t.root => IsChild(t, n) BY ONLY <2>1, <3>2 DEF NodeFits
      <4>3. QED BY ONLY <1>18, <3>2, <4>1, <4>2, n \in 1..N
    <3>3. QED BY ONLY <3>1, <3>2
  <2>3. CASE n = p
    <3>1. g.level[n] # 0 BY ONLY <1>2, <1>3, <1>5, <2>3
    <3>2. Len(u.nodes[n].keys) <= Order + 1 BY ONLY <1>4, <1>6, <1>9, <1>13, <2>3, OrderAssumption
    <3>3. KeysFit(u.nodes[n].keys, g.lo[n], g.hi[n]) BY ONLY <1>9, <1>13, <2>3
    <3>4. g.lo[n] < g.hi[n] BY ONLY <2>1 DEF NodeFits
    <3>5. QED BY ONLY <1>16, <2>2, <2>3, <3>1, <3>2, <3>3, <3>4 DEF NodeFits
  <2>4. CASE n # p
    <3>1. u.nodes[n].keys = t.nodes[n].keys /\ u.nodes[n].kids = t.nodes[n].kids
          /\ u.nodes[n].vals = t.nodes[n].vals
      BY ONLY <1>13, <2>4
    <3>2. Len(u.nodes[n].keys) <= Order
      <4>1. n # 0 OBVIOUS
      <4>2. QED BY ONLY <2>1, <3>1, <4>1 DEF NodeFits
    <3>3. IF g.level[n] = 0 THEN LeafShape(u.nodes[n]) ELSE BranchFits(u, g, 0, 0, n)
      BY ONLY <1>17, <2>1, <2>4, <3>1 DEF NodeFits, LeafShape
    <3>4. g.lo[n] < g.hi[n] /\ KeysFit(u.nodes[n].keys, g.lo[n], g.hi[n]) BY ONLY <2>1, <3>1 DEF NodeFits
    <3>5. QED BY ONLY <2>2, <2>4, <3>2, <3>3, <3>4 DEF NodeFits
  <2>5. QED BY ONLY <2>3, <2>4
<1>21. RootFits(u, g, 0, 0)
  <2>1. t.root \in 1..N /\ t.nodes[t.root].parent = 0 /\ g.lo[t.root] = -1
        /\ Top(g, l, x, t.root) = Infinity /\ g.level[t.root] < N
        /\ \A n \in 1..N : g.level[n] <= g.level[t.root]
    BY <1>1 DEF RootFits
  <2>2. u.nodes[t.root].parent = 0 BY <1>2, <1>14, <2>1
  <2>3. g.hi[t.root] = Infinity BY ONLY <1>3, <1>7, <2>1
  <2>4. QED BY ONLY <1>13, <2>1, <2>2, <2>3 DEF RootFits, Top
<1>22. Fits(u, g, 0, 0, p) BY ONLY <1>1, <1>13, <1>20, <1>21 DEF Fits
<1>24. QED BY ONLY <1>22

-----------------------------------------------------------------------------
(* A split: the part of the node p that is not below k goes to a new node. *)

Parted(g, N, p, k) ==
    [lo |-> [n \in 1..(N + 1) |-> IF n = N + 1 THEN k ELSE g.lo[n]],
     hi |-> [n \in 1..(N + 1) |-> IF n = N + 1 THEN g.hi[p] ELSE IF n = p THEN k ELSE g.hi[n]],
     level |-> [n \in 1..(N + 1) |-> IF n = N + 1 THEN g.level[p] ELSE g.level[n]]]

IsParted(h, g, N, x, p, k) ==
    /\ h \in Frame(x)
    /\ h.lo[x] = k /\ h.hi[x] = g.hi[p] /\ h.level[x] = g.level[p]
    /\ h.hi[p] = k
    /\ \A n \in 1..N : h.lo[n] = g.lo[n] /\ h.level[n] = g.level[n]
    /\ \A n \in 1..N : n # p => h.hi[n] = g.hi[n]
    /\ \A n \in 1..N : Top(h, p, x, n) = g.hi[n]

(* What there is of the new frame.                                         *)
LEMMA PartedIs ==
    ASSUME NEW N \in Nat, NEW g \in Frame(N), NEW p \in 1..N, NEW k \in Int
    PROVE  IsParted(Parted(g, N, p, k), g, N, N + 1, p, k)
<1> DEFINE h == Parted(g, N, p, k)
<1>0. h = Parted(g, N, p, k) OBVIOUS
<1> HIDE DEF h
<1> DEFINE lo == [n \in 1..(N + 1) |-> IF n = N + 1 THEN k ELSE g.lo[n]]
           hi == [n \in 1..(N + 1) |-> IF n = N + 1 THEN g.hi[p] ELSE IF n = p THEN k ELSE g.hi[n]]
           level == [n \in 1..(N + 1) |-> IF n = N + 1 THEN g.level[p] ELSE g.level[n]]
<1>1. h.lo = lo /\ h.hi = hi /\ h.level = level /\ h = [lo |-> lo, hi |-> hi, level |-> level]
  BY <1>0 DEF Parted
<1>2. /\ g.lo \in [1..N -> Int] /\ g.hi \in [1..N -> Int] /\ g.level \in [1..N -> Nat]
  BY DEF Frame
<1>3. lo \in [1..(N + 1) -> Int] /\ hi \in [1..(N + 1) -> Int] /\ level \in [1..(N + 1) -> Nat]
  <2>1. k \in Int /\ g.hi[p] \in Int /\ g.level[p] \in Nat BY <1>2
  <2>2. \A n \in 1..(N + 1) : n # N + 1 => n \in 1..N OBVIOUS
  <2>3. \A n \in 1..N : g.lo[n] \in Int /\ g.hi[n] \in Int /\ g.level[n] \in Nat BY ONLY <1>2
  <2>4. lo \in [1..(N + 1) -> Int] BY ONLY <2>1, <2>2, <2>3
  <2>5. hi \in [1..(N + 1) -> Int] BY ONLY <2>1, <2>2, <2>3
  <2>6. level \in [1..(N + 1) -> Nat] BY ONLY <2>1, <2>2, <2>3
  <2>7. QED BY ONLY <2>4, <2>5, <2>6
<1>4. /\ lo[N + 1] = k /\ hi[N + 1] = g.hi[p] /\ level[N + 1] = g.level[p] /\ hi[p] = k
      /\ \A n \in 1..N : lo[n] = g.lo[n] /\ level[n] = g.level[n]
      /\ \A n \in 1..N : n # p => hi[n] = g.hi[n]
  BY ONLY N \in Nat, p \in 1..N
<1> HIDE DEF lo, hi, level
<1>5. h \in Frame(N + 1) BY ONLY <1>1, <1>3 DEF Frame
<1>6. \A n \in 1..N : Top(h, p, N + 1, n) = g.hi[n]
  BY <1>1, <1>4 DEF Top
<1>7. IsParted(h, g, N, N + 1, p, k) BY ONLY <1>1, <1>4, <1>5, <1>6 DEF IsParted
<1>8. QED BY ONLY <1>0, <1>7

\* u is t with the node p split, whatever became of its keys and children
Split(u, t, p) ==
    LET N == Len(t.nodes) x == N + 1
    IN  /\ u \in Tree /\ u.root = t.root /\ u.size = t.size /\ Len(u.nodes) = N + 1
        /\ \A n \in 1..N :
              n # p => /\ u.nodes[n].keys = t.nodes[n].keys /\ u.nodes[n].kids = t.nodes[n].kids
                       /\ u.nodes[n].vals = t.nodes[n].vals /\ u.nodes[n].next = t.nodes[n].next
        /\ \A n \in 1..N :
              \/ u.nodes[n].parent = t.nodes[n].parent
              \/ t.nodes[n].parent = p /\ u.nodes[n].parent = x
        /\ u.nodes[x].parent = t.nodes[p].parent

\* each half is a node
HalfFits(u, h, p, x, n) ==
    /\ KeysFit(u.nodes[n].keys, h.lo[n], h.hi[n]) /\ Len(u.nodes[n].keys) <= Order
    /\ IF h.level[n] = 0 THEN LeafShape(u.nodes[n]) ELSE BranchFits(u, h, p, x, n)

(* The call to attach the new node is due, then.                           *)
LEMMA SplitFits ==
    ASSUME NEW t, NEW g, NEW p, Fits(t, g, 0, 0, p),
           NEW N \in Nat, N = Len(t.nodes), p \in 1..N, NEW x \in Nat, x = N + 1,
           NEW k \in Int, g.lo[p] < k, k < g.hi[p], NEW h, h = Parted(g, N, p, k),
           NEW u, Split(u, t, p),
           HalfFits(u, h, p, x, p), HalfFits(u, h, p, x, x),
           \A n \in 1..N : n # t.root /\ t.nodes[n].parent = p => IsChild(u, n)
    PROVE  Fits(u, h, p, x, 0)
<1>1. /\ Fits(t, g, 0, 0, p) /\ N = Len(t.nodes) /\ p \in 1..N /\ x = N + 1 /\ x # 0 /\ x # p
      /\ HalfFits(u, h, p, x, p) /\ HalfFits(u, h, p, x, x)
      /\ \A n \in 1..N : n # t.root /\ t.nodes[n].parent = p => IsChild(u, n)
  OBVIOUS
<1>2. t \in Tree /\ g \in Frame(N) /\ RootFits(t, g, 0, 0) /\ \A n \in 1..N : NodeFits(t, g, 0, 0, p, n)
  BY DEF Fits
<1>3. /\ h \in Frame(x) /\ h.lo[x] = k /\ h.hi[x] = g.hi[p] /\ h.level[x] = g.level[p]
      /\ h.hi[p] = k
      /\ \A n \in 1..N : h.lo[n] = g.lo[n] /\ h.level[n] = g.level[n]
      /\ \A n \in 1..N : n # p => h.hi[n] = g.hi[n]
      /\ \A n \in 1..N : Top(h, p, x, n) = g.hi[n]
  <2>1. g \in Frame(N) /\ p \in 1..N /\ h = Parted(g, N, p, k) BY <1>2
  <2>2. N \in Nat /\ k \in Int OBVIOUS
  <2>3. IsParted(Parted(g, N, p, k), g, N, N + 1, p, k) BY ONLY <2>1, <2>2, PartedIs
  <2>4. IsParted(h, g, N, x, p, k) BY ONLY <1>1, <2>1, <2>3
  <2>5. QED BY ONLY <2>4 DEF IsParted
<1>4. \A n \in 1..N : Top(g, 0, 0, n) = g.hi[n] BY DEF Top
<1>5. /\ u \in Tree /\ u.root = t.root /\ Len(u.nodes) = x
      /\ \A n \in 1..N :
            n # p => /\ u.nodes[n].keys = t.nodes[n].keys /\ u.nodes[n].kids = t.nodes[n].kids
                     /\ u.nodes[n].vals = t.nodes[n].vals /\ u.nodes[n].next = t.nodes[n].next
      /\ \A n \in 1..N :
            \/ u.nodes[n].parent = t.nodes[n].parent
            \/ t.nodes[n].parent = p /\ u.nodes[n].parent = x
      /\ u.nodes[x].parent = t.nodes[p].parent
  BY ONLY <1>1, Split(u, t, p) DEF Split
<1>6. g.lo[p] < k /\ k < g.hi[p] /\ p \in Nat OBVIOUS
<1>7. ASSUME NEW n \in 1..N, n # p, BranchFits(t, g, 0, 0, n) PROVE BranchFits(u, h, p, x, n)
  <2>1. u.nodes[n].keys = t.nodes[n].keys /\ u.nodes[n].kids = t.nodes[n].kids
        /\ u.nodes[n].next = t.nodes[n].next
    BY ONLY <1>5, <1>7
  <2>2. h.lo[n] = g.lo[n] /\ h.hi[n] = g.hi[n] /\ h.level[n] = g.level[n]
    BY ONLY <1>3, <1>7
  <2>3. ASSUME NEW c \in 1..N, t.nodes[c].parent = n
        PROVE  /\ c \in 1..x /\ c # x /\ u.nodes[c].parent = n
               /\ h.level[c] = g.level[c] /\ h.lo[c] = g.lo[c]
               /\ Top(h, p, x, c) = Top(g, 0, 0, c)
    <3>1. c \in 1..x /\ c # x BY ONLY <1>1, c \in 1..N, N \in Nat
    <3>2. QED BY ONLY <1>3, <1>4, <1>5, <1>7, <2>3, <3>1
  <2>4. QED BY ONLY <1>1, <1>5, <1>7, <2>1, <2>2, <2>3, BranchStays
<1>8. ASSUME NEW n \in 1..N, n # t.root PROVE IsChild(u, n)
  <2> DEFINE m == t.nodes[n].parent
  <2>1. CASE m = p BY ONLY <1>1, <1>8, <2>1
  <2>2. CASE m # p
    <3>1. IsChild(t, n) BY ONLY <1>1, <1>2, <1>8 DEF NodeFits
    <3>2. PICK i \in 1..Len(t.nodes[m].kids) : t.nodes[m].kids[i] = n BY ONLY <3>1 DEF IsChild
    <3>3. m \in 1..N BY ONLY <1>1, <3>1 DEF IsChild
    <3>4. u.nodes[n].parent = m BY ONLY <1>5, <2>2
    <3>5. u.nodes[m].kids = t.nodes[m].kids BY ONLY <1>5, <2>2, <3>3
    <3>6. m \in 1..x BY ONLY <1>1, <3>3, N \in Nat
    <3> HIDE DEF m
    <3>7. QED BY ONLY <1>5, <3>2, <3>4, <3>5, <3>6 DEF IsChild
  <2>3. QED BY ONLY <2>1, <2>2
<1>9. ASSUME NEW n \in 1..x PROVE NodeFits(u, h, p, x, 0, n)
  <2>1. n # u.root /\ n # x => IsChild(u, n)
    <3>1. n # x => n \in 1..N BY ONLY <1>1, n \in 1..x, N \in Nat
    <3>2. QED BY ONLY <1>5, <1>8, <3>1
  <2>2. ASSUME n \in {p, x} PROVE NodeFits(u, h, p, x, 0, n)
    <3>1. h.lo[n] < h.hi[n] BY ONLY <1>1, <1>3, <1>6, <2>2
    <3>2. HalfFits(u, h, p, x, n) BY ONLY <1>1, <2>2
    <3>3. n # 0 BY ONLY <1>1, <2>2
    <3>4. QED BY ONLY <2>1, <3>1, <3>2, <3>3 DEF HalfFits, NodeFits
  <2>3. ASSUME n # p, n # x PROVE NodeFits(u, h, p, x, 0, n)
    <3>1. n \in 1..N BY ONLY <1>1, <2>3, n \in 1..x, N \in Nat
    <3>2. NodeFits(t, g, 0, 0, p, n) BY ONLY <1>2, <3>1
    <3>3. u.nodes[n].keys = t.nodes[n].keys /\ u.nodes[n].kids = t.nodes[n].kids
          /\ u.nodes[n].vals = t.nodes[n].vals
      BY ONLY <1>5, <2>3, <3>1
    <3>4. h.lo[n] = g.lo[n] /\ h.hi[n] = g.hi[n] /\ h.level[n] = g.level[n]
      BY ONLY <1>3, <2>3, <3>1
    <3>5. IF h.level[n] = 0 THEN LeafShape(u.nodes[n]) ELSE BranchFits(u, h, p, x, n)
      BY ONLY <1>7, <2>3, <3>1, <3>2, <3>3, <3>4 DEF NodeFits, LeafShape
    <3>6. h.lo[n] < h.hi[n] /\ KeysFit(u.nodes[n].keys, h.lo[n], h.hi[n])
          /\ Len(u.nodes[n].keys) <= Order
      BY ONLY <2>3, <3>2, <3>3, <3>4 DEF NodeFits
    <3>7. n # 0 BY ONLY <3>1
    <3>8. QED BY ONLY <2>1, <3>5, <3>6, <3>7 DEF NodeFits
  <2>4. QED BY ONLY <2>2, <2>3
<1>10. RootFits(u, h, p, x)
  <2>1. t.root \in 1..N /\ t.nodes[t.root].parent = 0 /\ g.lo[t.root] = -1
        /\ Top(g, 0, 0, t.root) = Infinity /\ g.level[t.root] < N
        /\ \A n \in 1..N : g.level[n] <= g.level[t.root]
    BY ONLY <1>1, <1>2 DEF RootFits
  <2>2. g.level[t.root] \in Nat BY ONLY <1>2, <2>1 DEF Frame
  <2>3. t.root \in 1..x /\ g.level[t.root] < x BY ONLY <1>1, <2>1, <2>2, N \in Nat
  <2>4. u.nodes[t.root].parent = 0 BY ONLY <1>1, <1>5, <2>1
  <2>5. ASSUME NEW n \in 1..x PROVE h.level[n] <= h.level[t.root]
    <3>1. n # x => n \in 1..N BY ONLY <1>1, n \in 1..x, N \in Nat
    <3>2. QED BY ONLY <1>1, <1>3, <2>1, <3>1
  <2>6. QED BY ONLY <1>3, <1>4, <1>5, <2>1, <2>3, <2>4, <2>5 DEF RootFits
<1>11. IsDue(u, h, p, x)
  <2>1. t.root \in 1..N BY ONLY <1>1, <1>2 DEF RootFits
  <2>2. t.root # x /\ p \in 1..x /\ x \in 1..x BY ONLY <1>1, <2>1, N \in Nat
  <2>3. QED BY ONLY <1>1, <1>3, <1>5, <2>2 DEF IsDue
<1>12. QED BY ONLY <1>3, <1>5, <1>9, <1>10, <1>11 DEF Fits

\* short is the first n entries of s, or its entries after the n-th
IsFront(short, s, n) == Len(short) = n /\ \A i \in 1..n : short[i] = s[i]
IsBack(short, s, n) == Len(short) = Len(s) - n /\ \A i \in 1..(Len(s) - n) : short[i] = s[n + i]

(* SubSeq gives the two parts.                                             *)
LEMMA CutIs ==
    ASSUME NEW S, NEW s \in Seq(S), NEW n \in 0..Len(s)
    PROVE  /\ SubSeq(s, 1, n) \in Seq(S) /\ IsFront(SubSeq(s, 1, n), s, n)
           /\ SubSeq(s, n + 1, Len(s)) \in Seq(S) /\ IsBack(SubSeq(s, n + 1, Len(s)), s, n)
<1> DEFINE front == SubSeq(s, 1, n)
           back == SubSeq(s, n + 1, Len(s))
<1>1. Len(s) \in Nat /\ n \in Nat /\ Len(s) \in n..Len(s) BY LenProperties
<1>2. front = SubSeq(s, 1, n) /\ back = SubSeq(s, n + 1, Len(s)) OBVIOUS
<1> HIDE DEF front, back
<1>3. front \in Seq(S) /\ IsFront(front, s, n) BY <1>2, Prefix DEF IsFront
<1>4. back \in Seq(S) /\ IsBack(back, s, n) BY <1>1, <1>2, Section DEF IsBack
<1>5. QED BY <1>2, <1>3, <1>4

\* the i-th child of p is one that the split moves
Moves(t, p, m, n) == \E i \in (m + 1)..Len(t.nodes[p].kids) : t.nodes[p].kids[i] = n

\* u is t with the internal node p split after its first m children
BranchCut(u, t, p, m) ==
    LET x == Len(t.nodes) + 1 node == t.nodes[p]
    IN  /\ u \in Tree /\ u.root = t.root /\ u.size = t.size /\ Len(u.nodes) = x
        /\ \A n \in 1..Len(t.nodes) :
              n # p => /\ u.nodes[n].keys = t.nodes[n].keys /\ u.nodes[n].kids = t.nodes[n].kids
                       /\ u.nodes[n].vals = t.nodes[n].vals /\ u.nodes[n].next = t.nodes[n].next
        /\ \A n \in 1..Len(t.nodes) :
              u.nodes[n].parent = IF Moves(t, p, m, n) THEN x ELSE t.nodes[n].parent
        /\ u.nodes[x].parent = t.nodes[p].parent
        /\ u.nodes[p].next = t.nodes[p].next /\ u.nodes[x].next = 0
        /\ IsFront(u.nodes[p].keys, node.keys, m - 1) /\ IsFront(u.nodes[p].kids, node.kids, m)
        /\ IsBack(u.nodes[x].keys, node.keys, m) /\ IsBack(u.nodes[x].kids, node.kids, m)

Middle(n) == (n \div 2) + 1

(* What split_internal does.                                               *)
LEMMA SplitInternalIs ==
    ASSUME NEW t \in Tree, NEW p \in 1..Len(t.nodes),
           NEW m \in Nat, m = Middle(Len(t.nodes[p].keys)), m <= Len(t.nodes[p].keys),
           Len(t.nodes[p].kids) = Len(t.nodes[p].keys) + 1,
           NEW c, c = split_internal(t, p)
    PROVE  /\ BranchCut(c.tree, t, p, m)
           /\ c.left = p /\ c.right = Len(t.nodes) + 1 /\ c.key = t.nodes[p].keys[m]
<1> DEFINE node == t.nodes[p]
           keys == node.keys
           kids == node.kids
           mid == Len(keys) \div 2
           N == Len(t.nodes)
           x == N + 1
           k1 == SubSeq(keys, 1, mid)
           c1 == SubSeq(kids, 1, mid + 1)
           k2 == SubSeq(keys, mid + 2, Len(keys))
           c2 == SubSeq(kids, mid + 2, Len(kids))
           kept == [node EXCEPT !.keys = k1, !.kids = c1]
           moved == Internal(k2, c2, node.parent)
           ns1 == [t.nodes EXCEPT ![p] = kept]
           ns2 == Adopted(ns1, c2, x)
           ns3 == Append(ns2, moved)
           u == [t EXCEPT !.nodes = ns3]
<1>1. t.nodes \in Seq(Record) /\ node \in Record /\ keys \in Seq(Key) /\ kids \in Seq(Nat)
      /\ N \in Nat /\ DOMAIN t.nodes = 1..N /\ Len(keys) \in Nat /\ Len(kids) \in Nat
  BY NodeTypes
<1>2. mid + 1 = m /\ mid = m - 1 /\ mid + 2 = m + 1 /\ m \in 0..Len(keys) /\ m - 1 \in 0..Len(keys)
      /\ m \in 0..Len(kids)
  <2>0. \A a \in Nat : a \div 2 \in Nat OBVIOUS
  <2>1. mid \in Nat BY ONLY <1>1, <2>0
  <2> HIDE DEF mid
  <2>2. m = mid + 1 BY DEF mid, Middle
  <2>3. QED BY ONLY <1>1, <2>1, <2>2, m \in Nat, m <= Len(keys), Len(kids) = Len(keys) + 1
<1>3. c = Call(u, p, keys[mid + 1], x)
  BY Zenon DEF split_internal, Internal
<1>4. k1 \in Seq(Key) /\ IsFront(k1, keys, m - 1)
  BY ONLY <1>1, <1>2, CutIs
<1>5. c1 \in Seq(Nat) /\ IsFront(c1, kids, m)
  BY ONLY <1>1, <1>2, CutIs
<1>6. k2 \in Seq(Key) /\ IsBack(k2, keys, m)
  BY ONLY <1>1, <1>2, CutIs
<1>7. c2 \in Seq(Nat) /\ IsBack(c2, kids, m)
  BY ONLY <1>1, <1>2, CutIs
<1>8. <<>> \in Seq(Int) OBVIOUS
<1> HIDE DEF k1, c1, k2, c2
<1>9. /\ kept \in Record /\ kept.keys = k1 /\ kept.kids = c1 /\ kept.vals = node.vals
      /\ kept.parent = node.parent /\ kept.next = node.next
  BY ONLY <1>1, <1>4, <1>5 DEF Record
<1>10. /\ moved \in Record /\ moved.keys = k2 /\ moved.kids = c2
       /\ moved.parent = node.parent /\ moved.next = 0
  BY ONLY <1>1, <1>6, <1>7, <1>8 DEF Record, Internal
<1> HIDE DEF kept, moved
<1>11. /\ ns1 \in Seq(Record) /\ Len(ns1) = N
       /\ \A n \in 1..N : ns1[n] = IF n = p THEN kept ELSE t.nodes[n]
  <2>1. p \in 1..N OBVIOUS
  <2>2. QED BY ONLY <1>1, <1>9, <2>1, ExceptSeq
<1> HIDE DEF ns1
<1>12. /\ ns2 \in Seq(Record) /\ Len(ns2) = N
       /\ \A n \in 1..N : /\ ns2[n].keys = ns1[n].keys /\ ns2[n].kids = ns1[n].kids
                          /\ ns2[n].vals = ns1[n].vals /\ ns2[n].next = ns1[n].next
                          /\ ns2[n].parent = IF n \in Range(c2) THEN x ELSE ns1[n].parent
  <2>1. DOMAIN ns1 = 1..N BY ONLY <1>11, LenProperties
  <2>2. \A n \in 1..N : ns1[n] \in Record BY ONLY <1>11, ElementOfSeq
  <2>3. x \in Nat BY ONLY <1>1
  <2> HIDE DEF x
  <2>4. /\ DOMAIN ns2 = 1..N
        /\ \A n \in 1..N : ns2[n] = IF n \in Range(c2) THEN [ns1[n] EXCEPT !.parent = x] ELSE ns1[n]
        /\ ns2 = [n \in 1..N |-> IF n \in Range(c2) THEN [ns1[n] EXCEPT !.parent = x] ELSE ns1[n]]
    BY ONLY <2>1 DEF Adopted
  <2> HIDE DEF ns2
  <2>5. \A n \in 1..N : ns2[n] \in Record
                        /\ ns2[n].keys = ns1[n].keys /\ ns2[n].kids = ns1[n].kids
                        /\ ns2[n].vals = ns1[n].vals /\ ns2[n].next = ns1[n].next
                        /\ ns2[n].parent = IF n \in Range(c2) THEN x ELSE ns1[n].parent
    <3>1. ASSUME NEW r \in Record, NEW q, q = [r EXCEPT !.parent = x]
          PROVE  /\ q \in Record /\ q.parent = x /\ q.keys = r.keys /\ q.kids = r.kids
                 /\ q.vals = r.vals /\ q.next = r.next
      BY ONLY <2>3, <3>1, r \in Record DEF Record
    <3>2. ASSUME NEW n \in 1..N
          PROVE  /\ ns2[n] \in Record
                 /\ ns2[n].keys = ns1[n].keys /\ ns2[n].kids = ns1[n].kids
                 /\ ns2[n].vals = ns1[n].vals /\ ns2[n].next = ns1[n].next
                 /\ ns2[n].parent = IF n \in Range(c2) THEN x ELSE ns1[n].parent
      <4>1. ns1[n] \in Record BY ONLY <2>2, n \in 1..N
      <4>2. ns2[n] = IF n \in Range(c2) THEN [ns1[n] EXCEPT !.parent = x] ELSE ns1[n]
        BY ONLY <2>4, n \in 1..N
      <4>3. CASE n \in Range(c2)
        <5>1. ns2[n] = [ns1[n] EXCEPT !.parent = x] BY ONLY <4>2, <4>3
        <5>2. QED BY ONLY <3>1, <4>1, <4>3, <5>1
      <4>4. CASE n \notin Range(c2)
        <5>1. ns2[n] = ns1[n] BY ONLY <4>2, <4>4
        <5>2. QED BY ONLY <4>1, <4>4, <5>1
      <4>5. QED BY ONLY <4>3, <4>4
    <3>3. QED BY ONLY <3>2
  <2>6. ns2 \in [1..N -> Record] BY ONLY <2>4, <2>5
  <2>7. ns2 \in Seq(Record)
    <3>1. PICK R : R = Record OBVIOUS
    <3>2. PICK len \in Nat : len = N BY ONLY <1>1
    <3>3. ns2 \in [1..len -> R] BY ONLY <2>6, <3>1, <3>2
    <3>4. ns2 \in Seq(R) BY ONLY <3>2, <3>3, IsASeq
    <3>5. QED BY ONLY <3>1, <3>4
  <2>8. Len(ns2) = N BY ONLY <1>1, <2>4, <2>7, LenProperties
  <2>9. QED BY ONLY <2>5, <2>7, <2>8
<1> HIDE DEF ns2
<1>13. /\ ns3 \in Seq(Record) /\ Len(ns3) = x /\ ns3[x] = moved
       /\ \A n \in 1..N : ns3[n] = ns2[n]
  BY ONLY <1>10, <1>12, Pushed
<1> HIDE DEF ns3
<1>14. u \in Tree /\ u.root = t.root /\ u.size = t.size /\ u.nodes = ns3
  <2>1. t \in Tree OBVIOUS
  <2>2. QED BY ONLY <2>1, <1>13 DEF Tree
<1>15. ASSUME NEW n \in 1..N PROVE n \in Range(c2) <=> Moves(t, p, m, n)
  <2>1. DOMAIN c2 = 1..Len(c2) BY ONLY <1>7, LenProperties
  <2>2. n \in Range(c2) <=> \E i \in 1..Len(c2) : c2[i] = n BY ONLY <2>1 DEF Range
  <2>3. Len(c2) = Len(kids) - m /\ \A i \in 1..(Len(kids) - m) : c2[i] = kids[m + i]
    BY ONLY <1>7 DEF IsBack
  <2>4. n \in Range(c2) <=> \E i \in 1..(Len(kids) - m) : kids[m + i] = n BY ONLY <2>2, <2>3
  <2> DEFINE q == Len(kids)
  <2>5. q \in Nat /\ m \in 0..q BY ONLY <1>1, <1>2
  <2>6. Moves(t, p, m, n) <=> \E i \in (m + 1)..q : kids[i] = n BY DEF Moves
  <2> HIDE DEF q, kids
  <2>7. ASSUME NEW i \in 1..(q - m), kids[m + i] = n PROVE \E j \in (m + 1)..q : kids[j] = n
    <3>1. m + i \in (m + 1)..q BY ONLY <2>5, i \in 1..(q - m), m \in Nat
    <3>2. QED BY ONLY <2>7, <3>1
  <2>8. ASSUME NEW j \in (m + 1)..q, kids[j] = n PROVE \E i \in 1..(q - m) : kids[m + i] = n
    <3>1. j - m \in 1..(q - m) /\ m + (j - m) = j BY ONLY <2>5, j \in (m + 1)..q, m \in Nat
    <3>2. QED BY ONLY <2>8, <3>1
  <2>9. QED BY ONLY <2>4, <2>6, <2>7, <2>8 DEF q
<1>16. c.tree = u /\ c.left = p /\ c.right = x /\ c.key = keys[m] BY ONLY <1>2, <1>3 DEF Call
<1>17. \A n \in 1..N : n # p => /\ u.nodes[n].keys = t.nodes[n].keys /\ u.nodes[n].kids = t.nodes[n].kids
                       /\ u.nodes[n].vals = t.nodes[n].vals /\ u.nodes[n].next = t.nodes[n].next
  BY ONLY <1>11, <1>12, <1>13, <1>14
<1>18. \A n \in 1..N : ns1[n].parent = t.nodes[n].parent BY ONLY <1>9, <1>11
<1>19. \A n \in 1..N : u.nodes[n].parent = IF Moves(t, p, m, n) THEN x ELSE t.nodes[n].parent
  BY ONLY <1>12, <1>13, <1>14, <1>15, <1>18
<1>20. /\ u.nodes[x].parent = node.parent /\ u.nodes[x].next = 0
       /\ u.nodes[x].keys = k2 /\ u.nodes[x].kids = c2
  BY ONLY <1>10, <1>13, <1>14
<1>21. u.nodes[p].keys = k1 /\ u.nodes[p].kids = c1 /\ u.nodes[p].next = node.next
  <2>1. p \in 1..N OBVIOUS
  <2>2. QED BY ONLY <1>9, <1>11, <1>12, <1>13, <1>14, <2>1
<1> HIDE DEF u
<1>22. BranchCut(u, t, p, m)
  BY ONLY <1>4, <1>5, <1>6, <1>7, <1>13, <1>14, <1>17, <1>19, <1>20, <1>21 DEF BranchCut
<1>23. QED BY ONLY <1>16, <1>22

(* Both parts of a sequence of keys fit, on either side of the m-th.       *)
LEMMA HalvesFit ==
    ASSUME NEW keys \in Seq(Key), NEW lo \in Int, NEW hi \in Int, KeysFit(keys, lo, hi),
           NEW m \in Nat, m \in 1..Len(keys), NEW b \in Nat, b \in {m - 1, m},
           NEW front \in Seq(Key), IsFront(front, keys, m - 1),
           NEW back \in Seq(Key), IsBack(back, keys, b)
    PROVE  /\ KeysFit(front, lo, keys[m]) /\ KeysFit(back, keys[m], hi)
           /\ keys[m] \in Key /\ keys[m] \in Int /\ keys[m] < hi
           /\ m > 1 => lo < keys[m]
<1> DEFINE len == Len(keys)
<1>1. /\ len \in Nat /\ m \in 1..len /\ (b = m - 1 \/ b = m)
      /\ front \in Seq(Key) /\ back \in Seq(Key) /\ lo \in Int /\ hi \in Int /\ m \in Nat /\ b \in Nat
  BY LenProperties
<1>2. \A i \in 1..len : keys[i] \in Key BY ElementOfSeq
<1>3. Key \subseteq Int BY ONLY KeyAssumption
<1>4. /\ \A i \in 1..len : keys[i] \in Int /\ lo <= keys[i] /\ keys[i] < hi
      /\ \A i \in 1..len, j \in 1..len : i < j => keys[i] < keys[j]
  <2>1. KeysFit(keys, lo, hi) OBVIOUS
  <2>2. \A i \in 1..len : keys[i] \in Int BY ONLY <1>2, <1>3
  <2>3. QED BY ONLY <2>1, <2>2 DEF KeysFit, Ascending
<1>5. Len(front) = m - 1 /\ \A i \in 1..(m - 1) : front[i] = keys[i] BY DEF IsFront
<1>6. Len(back) = len - b /\ \A i \in 1..(len - b) : back[i] = keys[b + i] BY DEF IsBack
<1> DEFINE k == keys[m]
<1> HIDE DEF len
<1>7. k \in Int /\ lo <= k /\ k < hi /\ k \in Key BY ONLY <1>1, <1>2, <1>4
<1>8. \A i \in 1..(m - 1) : i \in 1..len /\ i < m BY ONLY <1>1
<1>9. \A i \in 1..(len - b) : b + i \in 1..len /\ m <= b + i /\ b + i \in Int BY ONLY <1>1
<1>10. front \in Seq(Int) /\ back \in Seq(Int) BY ONLY <1>1, <1>3, SeqMonotonic
<1>11. KeysFit(front, lo, k)
  <2>1. \A i \in 1..(m - 1) : lo <= front[i] /\ front[i] < k BY ONLY <1>1, <1>4, <1>5, <1>8
  <2>2. \A i \in 1..(m - 1), j \in 1..(m - 1) : i < j => front[i] < front[j]
    BY ONLY <1>4, <1>5, <1>8
  <2>3. QED BY ONLY <1>5, <1>10, <2>1, <2>2 DEF KeysFit, Ascending
<1>12. KeysFit(back, k, hi)
  <2>1. ASSUME NEW i \in 1..(len - b) PROVE k <= back[i] /\ back[i] < hi
    <3> DEFINE a == b + i
    <3>1. a \in 1..len /\ m <= a BY ONLY <1>9, i \in 1..(len - b)
    <3>2. back[i] = keys[a] BY ONLY <1>6, i \in 1..(len - b)
    <3> HIDE DEF a
    <3>3. a \in Int BY ONLY <1>1, <3>1
    <3>4. m = a \/ m < a BY ONLY <1>1, <3>1, <3>3
    <3>5. m < a => k < keys[a] BY ONLY <1>1, <1>4, <3>1
    <3>6. keys[a] \in Int BY ONLY <1>4, <3>1
    <3>7. k <= keys[a] BY ONLY <1>7, <3>4, <3>5, <3>6
    <3>8. QED BY ONLY <1>4, <3>1, <3>2, <3>7
  <2>2. ASSUME NEW i \in 1..(len - b), NEW j \in 1..(len - b), i < j PROVE back[i] < back[j]
    <3>1. b + i \in 1..len /\ b + j \in 1..len BY ONLY <1>9, i \in 1..(len - b), j \in 1..(len - b)
    <3>2. b + i < b + j BY ONLY <1>1, <2>2, i \in 1..(len - b), j \in 1..(len - b)
    <3>3. back[i] = keys[b + i] /\ back[j] = keys[b + j]
      BY ONLY <1>6, i \in 1..(len - b), j \in 1..(len - b)
    <3>4. keys[b + i] < keys[b + j] BY ONLY <1>4, <3>1, <3>2
    <3>5. QED BY ONLY <3>3, <3>4
  <2>3. QED BY ONLY <1>6, <1>10, <2>1, <2>2 DEF KeysFit, Ascending
<1>13. m > 1 => lo < k
  <2> SUFFICES ASSUME m > 1 PROVE lo < k OBVIOUS
  <2>1. 1 \in 1..len /\ 1 < m BY ONLY <1>1, m > 1
  <2>2. keys[1] < k /\ lo <= keys[1] /\ keys[1] \in Int BY ONLY <1>1, <1>4, <2>1
  <2>3. QED BY ONLY <1>1, <1>7, <2>2
<1>14. QED BY ONLY <1>7, <1>11, <1>12, <1>13

(* A node of internal nodes split in the middle.                           *)
LEMMA BranchCutFits ==
    ASSUME NEW t, NEW g, NEW p, Fits(t, g, 0, 0, p), g.level[p] # 0,
           NEW N \in Nat, N = Len(t.nodes), p \in 1..N, NEW x \in Nat, x = N + 1,
           NEW m \in Nat, 1 < m, m < Len(t.nodes[p].keys),
           NEW k, k = t.nodes[p].keys[m],
           NEW h, h = Parted(g, N, p, k), NEW u, BranchCut(u, t, p, m)
    PROVE  Fits(u, h, p, x, 0) /\ k \in Key
<1> DEFINE keys == t.nodes[p].keys
           kids == t.nodes[p].kids
           ks == u.nodes[p].keys
           cs == u.nodes[p].kids
           kx == u.nodes[x].keys
           cx == u.nodes[x].kids
<1>1. /\ Fits(t, g, 0, 0, p) /\ N = Len(t.nodes) /\ p \in 1..N /\ x = N + 1 /\ x # 0 /\ x # p
      /\ m \in Nat /\ 1 < m /\ m < Len(keys) /\ k = keys[m] /\ x \in 1..x /\ p \in 1..x /\ 0 \notin 1..x
  OBVIOUS
<1>2. t \in Tree /\ g \in Frame(N) /\ RootFits(t, g, 0, 0) /\ NodeFits(t, g, 0, 0, p, p)
  BY ONLY <1>1 DEF Fits
<1>3. BranchFits(t, g, 0, 0, p) /\ KeysFit(keys, g.lo[p], g.hi[p]) /\ Len(keys) <= Order + 1
  <2>1. g.level[p] # 0 OBVIOUS
  <2>2. QED BY ONLY <1>2, <2>1 DEF NodeFits
<1>4. /\ keys \in Seq(Key) /\ kids \in Seq(Nat) /\ Len(keys) \in Nat /\ Len(kids) = Len(keys) + 1
      /\ t.nodes[p].next = 0
      /\ \A i \in 1..Len(kids) : ChildFits(t, g, 0, 0, p, i)
  BY ONLY <1>1, <1>2, <1>3, NodeTypes DEF BranchFits
<1>5. /\ u \in Tree /\ u.root = t.root /\ u.size = t.size /\ Len(u.nodes) = x
      /\ \A n \in 1..N :
              n # p => /\ u.nodes[n].keys = t.nodes[n].keys /\ u.nodes[n].kids = t.nodes[n].kids
                       /\ u.nodes[n].vals = t.nodes[n].vals /\ u.nodes[n].next = t.nodes[n].next
      /\ \A n \in 1..N : u.nodes[n].parent = IF Moves(t, p, m, n) THEN x ELSE t.nodes[n].parent
      /\ u.nodes[x].parent = t.nodes[p].parent
      /\ u.nodes[p].next = t.nodes[p].next /\ u.nodes[x].next = 0
      /\ IsFront(ks, keys, m - 1) /\ IsFront(cs, kids, m)
      /\ IsBack(kx, keys, m) /\ IsBack(cx, kids, m)
  <2>1. BranchCut(u, t, p, m) OBVIOUS
  <2>2. QED BY ONLY <1>1, <2>1 DEF BranchCut
<1>6. ks \in Seq(Key) /\ kx \in Seq(Key) BY ONLY <1>1, <1>5, NodeTypes
<1>7. g.lo[p] \in Int /\ g.hi[p] \in Int /\ \A n \in 1..N : g.level[n] \in Nat
  BY ONLY <1>1, <1>2 DEF Frame
<1> HIDE DEF keys, kids, ks, cs, kx, cx
<1>8. /\ KeysFit(ks, g.lo[p], k) /\ KeysFit(kx, k, g.hi[p])
      /\ k \in Key /\ k \in Int /\ k < g.hi[p] /\ g.lo[p] < k
  <2>1. m \in 1..Len(keys) /\ m \in {m - 1, m} BY ONLY <1>1, <1>4
  <2>2. /\ KeysFit(ks, g.lo[p], keys[m]) /\ KeysFit(kx, keys[m], g.hi[p])
        /\ keys[m] \in Key /\ keys[m] \in Int /\ keys[m] < g.hi[p]
        /\ m > 1 => g.lo[p] < keys[m]
    <3>1. /\ keys \in Seq(Key) /\ g.lo[p] \in Int /\ g.hi[p] \in Int
          /\ KeysFit(keys, g.lo[p], g.hi[p]) /\ m \in Nat
          /\ ks \in Seq(Key) /\ IsFront(ks, keys, m - 1) /\ kx \in Seq(Key) /\ IsBack(kx, keys, m)
      BY ONLY <1>1, <1>3, <1>4, <1>5, <1>6, <1>7
    <3>2. QED BY ONLY <2>1, <3>1, HalvesFit
  <2>3. QED BY ONLY <1>1, <2>2
<1>9. /\ h \in Frame(x) /\ h.lo[x] = k /\ h.hi[x] = g.hi[p] /\ h.level[x] = g.level[p]
      /\ h.hi[p] = k
      /\ \A n \in 1..N : h.lo[n] = g.lo[n] /\ h.level[n] = g.level[n]
      /\ \A n \in 1..N : n # p => h.hi[n] = g.hi[n]
      /\ \A n \in 1..N : Top(h, p, x, n) = g.hi[n]
  <2>1. h = Parted(g, N, p, k) /\ N \in Nat OBVIOUS
  <2>3. IsParted(Parted(g, N, p, k), g, N, N + 1, p, k) BY ONLY <1>1, <1>2, <1>8, <2>1, PartedIs
  <2>4. IsParted(h, g, N, x, p, k) BY ONLY <1>1, <2>1, <2>3
  <2>5. QED BY ONLY <2>4 DEF IsParted
\* the children that stay, and those that move
<1>10. ASSUME NEW i \in 1..Len(kids)
       PROVE  /\ kids[i] \in 1..N /\ kids[i] # p /\ t.nodes[kids[i]].parent = p
              /\ g.level[p] = g.level[kids[i]] + 1
              /\ g.lo[kids[i]] = Starts(keys, i, g.lo[p]) /\ g.hi[kids[i]] = Stops(keys, i, g.hi[p])
              /\ u.nodes[kids[i]].parent = IF i > m THEN x ELSE p
  <2> DEFINE c == kids[i]
  <2>1. ChildFits(t, g, 0, 0, p, i) BY ONLY <1>4, i \in 1..Len(kids)
  <2>2. /\ c \in 1..N /\ t.nodes[c].parent = p /\ g.level[p] = g.level[c] + 1
        /\ g.lo[c] = Starts(keys, i, g.lo[p]) /\ g.hi[c] = Stops(keys, i, g.hi[p])
    BY ONLY <1>1, <2>1 DEF ChildFits, Top, keys, kids
  <2>3. g.level[c] \in Nat BY ONLY <1>7, <2>2
  <2>4. c # p BY ONLY <2>2, <2>3
  <2>5. i > m <=> Moves(t, p, m, c)
    <3>1. Moves(t, p, m, c) <=> \E j \in (m + 1)..Len(kids) : kids[j] = c BY DEF Moves, kids
    <3>2. ASSUME NEW j \in (m + 1)..Len(kids), kids[j] = c PROVE i > m
      <4>1. j \in 1..Len(kids) /\ j > m BY ONLY <1>1, j \in (m + 1)..Len(kids)
      <4>2. j # i => kids[j] # kids[i]
        <5>1. j \in 1..Len(t.nodes[p].kids) /\ i \in 1..Len(t.nodes[p].kids) /\ p \in 1..Len(t.nodes)
          BY ONLY <1>1, <4>1, i \in 1..Len(kids) DEF kids
        <5>2. QED BY ONLY <1>1, <1>3, <5>1, ChildrenDiffer DEF kids
      <4>3. QED BY ONLY <3>2, <4>1, <4>2
    <3>3. ASSUME i > m PROVE i \in (m + 1)..Len(kids)
      BY ONLY <1>1, <1>4, <3>3, i \in 1..Len(kids)
    <3>4. QED BY ONLY <3>1, <3>2, <3>3
  <2>6. u.nodes[c].parent = IF i > m THEN x ELSE p BY ONLY <1>5, <2>2, <2>5
  <2>7. QED BY ONLY <2>2, <2>4, <2>6
<1>11. Len(ks) = m - 1 /\ \A i \in 1..(m - 1) : ks[i] = keys[i] BY ONLY <1>5 DEF IsFront
<1>12. Len(cs) = m /\ \A i \in 1..m : cs[i] = kids[i] BY ONLY <1>5 DEF IsFront
<1>13. Len(kx) = Len(keys) - m /\ \A i \in 1..(Len(keys) - m) : kx[i] = keys[m + i]
  BY ONLY <1>5 DEF IsBack
<1>14. Len(cx) = Len(kids) - m /\ \A i \in 1..(Len(kids) - m) : cx[i] = kids[m + i]
  BY ONLY <1>5 DEF IsBack
<1>15. HalfFits(u, h, p, x, p)
  <2>1. KeysFit(ks, h.lo[p], h.hi[p]) BY ONLY <1>1, <1>8, <1>9
  <2>2. Len(ks) <= Order /\ Len(ks) # 0 /\ Len(cs) = Len(ks) + 1
    BY ONLY <1>1, <1>3, <1>4, <1>11, <1>12, OrderAssumption
  <2>3. h.level[p] # 0 /\ u.nodes[p].next = 0 /\ ks # <<>>
    <3>1. g.level[p] # 0 OBVIOUS
    <3>2. QED BY ONLY <1>1, <1>4, <1>5, <1>9, <2>2, <3>1
  <2>4. ASSUME NEW i \in 1..Len(cs) PROVE ChildFits(u, h, p, x, p, i)
    <3> DEFINE c == kids[i]
    <3>1. i \in 1..m /\ i \in 1..Len(kids) /\ ~(i > m) BY ONLY <1>1, <1>4, <1>12, i \in 1..Len(cs)
    <3>2. /\ cs[i] = c /\ c \in 1..N /\ c # p /\ g.level[p] = g.level[c] + 1
          /\ g.lo[c] = Starts(keys, i, g.lo[p]) /\ g.hi[c] = Stops(keys, i, g.hi[p])
          /\ u.nodes[c].parent = p
      BY ONLY <1>10, <1>12, <3>1
    <3> HIDE DEF c
    <3>3. c \in 1..x /\ c # x BY ONLY <1>1, <3>2, N \in Nat
    <3>4. h.lo[c] = Starts(ks, i, h.lo[p])
      <4>1. CASE i = 1 BY ONLY <1>1, <1>9, <3>2, <4>1 DEF Starts
      <4>2. CASE i # 1
        <5>1. i - 1 \in 1..(m - 1) BY ONLY <1>1, <3>1, <4>2
        <5>2. ks[i - 1] = keys[i - 1] BY ONLY <1>11, <5>1
        <5>3. QED BY ONLY <1>9, <3>2, <4>2, <5>2 DEF Starts
      <4>3. QED BY ONLY <4>1, <4>2
    <3>5. Top(h, p, x, c) = Stops(ks, i, h.hi[p])
      <4>0. i # Len(keys) + 1 BY ONLY <1>1, <1>4, <3>1
      <4>1. g.hi[c] = keys[i] BY ONLY <3>2, <4>0 DEF Stops
      <4>2. CASE i = m
        <5>1. i = Len(ks) + 1 BY ONLY <1>1, <1>11, <4>2
        <5>2. QED BY ONLY <1>1, <1>9, <3>2, <4>1, <4>2, <5>1 DEF Stops
      <4>3. CASE i # m
        <5>1. i \in 1..(m - 1) /\ i # Len(ks) + 1 BY ONLY <1>1, <1>11, <3>1, <4>3
        <5>2. QED BY ONLY <1>9, <1>11, <3>2, <4>1, <5>1 DEF Stops
      <4>4. QED BY ONLY <4>2, <4>3
    <3>6. h.level[p] = h.level[c] + 1 BY ONLY <1>1, <1>9, <3>2
    <3>7. QED BY ONLY <1>5, <3>2, <3>3, <3>4, <3>5, <3>6 DEF ChildFits, ks, cs
  <2>5. BranchFits(u, h, p, x, p) BY ONLY <2>2, <2>3, <2>4 DEF BranchFits, ks, cs
  <2>6. QED BY ONLY <2>1, <2>2, <2>3, <2>5 DEF HalfFits, ks
<1>16. HalfFits(u, h, p, x, x)
  <2>1. KeysFit(kx, h.lo[x], h.hi[x]) BY ONLY <1>8, <1>9
  <2>2. Len(kx) <= Order /\ Len(kx) # 0 /\ Len(cx) = Len(kx) + 1
    <3>1. Len(kx) <= Order BY ONLY <1>1, <1>3, <1>4, <1>13, OrderAssumption
    <3>2. Len(kx) # 0 BY ONLY <1>1, <1>4, <1>13
    <3>3. Len(cx) = Len(kx) + 1 BY ONLY <1>1, <1>4, <1>13, <1>14
    <3>4. QED BY ONLY <3>1, <3>2, <3>3
  <2>3. h.level[x] # 0 /\ u.nodes[x].next = 0 /\ kx # <<>>
    <3>1. g.level[p] # 0 OBVIOUS
    <3>2. QED BY ONLY <1>5, <1>9, <2>2, <3>1
  <2>4. ASSUME NEW i \in 1..Len(cx) PROVE ChildFits(u, h, p, x, x, i)
    <3> DEFINE a == m + i
               c == kids[a]
    <3>0. i \in Nat /\ i \in 1..(Len(kids) - m) BY ONLY <1>1, <1>4, <1>14, i \in 1..Len(cx)
    <3>1. a \in 1..Len(kids) /\ a > m /\ a \in Nat /\ a = m + i
      BY ONLY <1>1, <1>4, <1>14, i \in 1..Len(cx)
    <3>9. cx[i] = c BY ONLY <1>14, <3>0
    <3> HIDE DEF a
    <3>2. /\ cx[i] = c /\ c \in 1..N /\ c # p /\ g.level[p] = g.level[c] + 1
          /\ g.lo[c] = Starts(keys, a, g.lo[p]) /\ g.hi[c] = Stops(keys, a, g.hi[p])
          /\ u.nodes[c].parent = x
      BY ONLY <1>10, <3>1, <3>9
    <3> HIDE DEF c
    <3>3. c \in 1..x /\ c # x BY ONLY <1>1, <3>2, N \in Nat
    <3>4. h.lo[c] = Starts(kx, i, h.lo[x])
      <4>0. a # 1 BY ONLY <1>1, <3>1
      <4>1. g.lo[c] = keys[a - 1] BY ONLY <3>2, <4>0 DEF Starts
      <4>2. CASE i = 1
        <5>1. a - 1 = m BY ONLY <1>1, <3>1, <4>2
        <5>2. QED BY ONLY <1>1, <1>9, <3>2, <4>1, <4>2, <5>1 DEF Starts
      <4>3. CASE i # 1
        <5>1. i - 1 \in 1..(Len(keys) - m) /\ m + (i - 1) = a - 1
          <6>0. Len(keys) \in Nat /\ Len(kids) = Len(keys) + 1 BY ONLY <1>4
          <6>1. i - 1 \in 1..(Len(keys) - m) BY ONLY <3>0, <4>3, <6>0, m \in Nat
          <6>2. m + (i - 1) = a - 1 BY ONLY <1>1, <3>0, <3>1
          <6>3. QED BY ONLY <6>1, <6>2
        <5>2. kx[i - 1] = keys[a - 1] BY ONLY <1>13, <5>1
        <5>3. QED BY ONLY <1>9, <3>2, <4>1, <4>3, <5>2 DEF Starts
      <4>4. QED BY ONLY <4>2, <4>3
    <3>5. Top(h, p, x, c) = Stops(kx, i, h.hi[x])
      <4>1. CASE a = Len(keys) + 1
        <5>1. i = Len(kx) + 1 BY ONLY <1>1, <1>4, <1>13, <3>0, <3>1, <4>1
        <5>2. QED BY ONLY <1>9, <3>2, <4>1, <5>1 DEF Stops
      <4>2. CASE a # Len(keys) + 1
        <5>1. i # Len(kx) + 1 /\ i \in 1..(Len(keys) - m)
          <6>0. m + i # Len(keys) + 1 BY ONLY <3>1, <4>2
          <6>1. i # Len(kx) + 1 BY ONLY <1>1, <1>4, <1>13, <3>0, <6>0
          <6>2. i \in 1..(Len(keys) - m)
            <7>1. Len(kx) \in Nat BY ONLY <1>1, <1>4, <1>13
            <7>2. i \in 1..Len(kx) BY ONLY <2>2, <6>1, <7>1, i \in 1..Len(cx)
            <7>3. QED BY ONLY <1>13, <7>2
          <6>3. QED BY ONLY <6>1, <6>2
        <5>2. kx[i] = keys[a] BY ONLY <1>13, <3>1, <5>1
        <5>3. QED BY ONLY <1>9, <3>2, <4>2, <5>1, <5>2 DEF Stops
      <4>3. QED BY ONLY <4>1, <4>2
    <3>6. h.level[x] = h.level[c] + 1 BY ONLY <1>9, <3>2
    <3>7. QED BY ONLY <1>5, <3>2, <3>3, <3>4, <3>5, <3>6 DEF ChildFits, kx, cx
  <2>5. BranchFits(u, h, p, x, x) BY ONLY <2>2, <2>3, <2>4 DEF BranchFits, kx, cx
  <2>6. QED BY ONLY <2>1, <2>2, <2>3, <2>5 DEF HalfFits, kx
<1>17. ASSUME NEW n \in 1..N, n # t.root, t.nodes[n].parent = p PROVE IsChild(u, n)
  <2>1. NodeFits(t, g, 0, 0, p, n) /\ n # 0 BY ONLY <1>1, n \in 1..N DEF Fits
  <2>2. IsChild(t, n) BY ONLY <1>17, <2>1 DEF NodeFits
  <2>3. PICK i \in 1..Len(kids) : kids[i] = n BY ONLY <1>17, <2>2 DEF IsChild, kids
  <2>4. u.nodes[n].parent = IF i > m THEN x ELSE p BY ONLY <1>10, <2>3
  <2>5. CASE i > m
    <3>0. Len(kids) \in Nat
      <4>1. Len(keys) \in Nat /\ Len(kids) = Len(keys) + 1 BY ONLY <1>4
      <4>2. QED BY ONLY <4>1
    <3>1. i - m \in 1..(Len(kids) - m) /\ m + (i - m) = i
      BY ONLY <2>5, <3>0, i \in 1..Len(kids), m \in Nat
    <3>2. cx[i - m] = n /\ i - m \in 1..Len(cx) BY ONLY <1>14, <2>3, <3>1
    <3>3. QED BY ONLY <1>1, <1>5, <2>4, <2>5, <3>2 DEF IsChild, cx
  <2>6. CASE ~(i > m)
    <3>1. i \in 1..m BY ONLY <1>1, <1>4, <2>6, i \in 1..Len(kids)
    <3>2. cs[i] = n /\ i \in 1..Len(cs) BY ONLY <1>12, <2>3, <3>1
    <3>3. QED BY ONLY <1>1, <1>5, <2>4, <2>6, <3>2 DEF IsChild, cs
  <2>7. QED BY ONLY <2>5, <2>6
<1>18. Split(u, t, p)
  <2>1. ASSUME NEW n \in 1..N
        PROVE  \/ u.nodes[n].parent = t.nodes[n].parent
               \/ t.nodes[n].parent = p /\ u.nodes[n].parent = x
    <3>1. CASE Moves(t, p, m, n)
      <4>1. PICK i \in (m + 1)..Len(kids) : kids[i] = n BY ONLY <3>1 DEF Moves, kids
      <4>2. i \in 1..Len(kids) BY ONLY <1>1, i \in (m + 1)..Len(kids)
      <4>3. t.nodes[n].parent = p BY ONLY <1>10, <4>1, <4>2
      <4>4. QED BY ONLY <1>5, <3>1, <4>3, n \in 1..N
    <3>2. CASE ~Moves(t, p, m, n) BY ONLY <1>5, <3>2, n \in 1..N
    <3>3. QED BY ONLY <3>1, <3>2
  <2>2. QED BY ONLY <1>1, <1>5, <2>1 DEF Split
<1>19. Fits(u, h, p, x, 0)
  <2>1. h = Parted(g, N, p, k) /\ N \in Nat /\ x \in Nat OBVIOUS
  <2>2. QED BY ONLY <1>1, <1>8, <1>15, <1>16, <1>17, <1>18, <2>1, SplitFits
<1>20. QED BY ONLY <1>8, <1>19

-----------------------------------------------------------------------------
(* A split of the root: the two halves get a new one.                      *)

Raised(g, N, root) ==
    [lo |-> [n \in 1..(N + 1) |-> IF n = N + 1 THEN -1 ELSE g.lo[n]],
     hi |-> [n \in 1..(N + 1) |-> IF n = N + 1 THEN Infinity ELSE g.hi[n]],
     level |-> [n \in 1..(N + 1) |-> IF n = N + 1 THEN g.level[root] + 1 ELSE g.level[n]]]

IsRaised(h, g, N, r, root) ==
    /\ h \in Frame(r)
    /\ h.lo[r] = -1 /\ h.hi[r] = Infinity /\ h.level[r] = g.level[root] + 1
    /\ \A n \in 1..N : h.lo[n] = g.lo[n] /\ h.hi[n] = g.hi[n] /\ h.level[n] = g.level[n]

(* What there is of the new frame.                                         *)
LEMMA RaisedIs ==
    ASSUME NEW N \in Nat, NEW g \in Frame(N), NEW root \in 1..N
    PROVE  IsRaised(Raised(g, N, root), g, N, N + 1, root)
<1> DEFINE h == Raised(g, N, root)
           lo == [n \in 1..(N + 1) |-> IF n = N + 1 THEN -1 ELSE g.lo[n]]
           hi == [n \in 1..(N + 1) |-> IF n = N + 1 THEN Infinity ELSE g.hi[n]]
           level == [n \in 1..(N + 1) |-> IF n = N + 1 THEN g.level[root] + 1 ELSE g.level[n]]
<1>1. h.lo = lo /\ h.hi = hi /\ h.level = level /\ h = [lo |-> lo, hi |-> hi, level |-> level]
  BY DEF Raised
<1> HIDE DEF h
<1>2. /\ g.lo \in [1..N -> Int] /\ g.hi \in [1..N -> Int] /\ g.level \in [1..N -> Nat]
  BY DEF Frame
<1>3. lo \in [1..(N + 1) -> Int] /\ hi \in [1..(N + 1) -> Int] /\ level \in [1..(N + 1) -> Nat]
  <2>1. -1 \in Int /\ Infinity \in Int /\ g.level[root] + 1 \in Nat BY <1>2, InfinityIs
  <2>2. \A n \in 1..(N + 1) : n # N + 1 => n \in 1..N OBVIOUS
  <2>3. \A n \in 1..N : g.lo[n] \in Int /\ g.hi[n] \in Int /\ g.level[n] \in Nat BY ONLY <1>2
  <2>4. lo \in [1..(N + 1) -> Int] BY ONLY <2>1, <2>2, <2>3
  <2>5. hi \in [1..(N + 1) -> Int] BY ONLY <2>1, <2>2, <2>3
  <2>6. level \in [1..(N + 1) -> Nat] BY ONLY <2>1, <2>2, <2>3
  <2>7. QED BY ONLY <2>4, <2>5, <2>6
<1>4. /\ lo[N + 1] = -1 /\ hi[N + 1] = Infinity /\ level[N + 1] = g.level[root] + 1
      /\ \A n \in 1..N : lo[n] = g.lo[n] /\ hi[n] = g.hi[n] /\ level[n] = g.level[n]
  BY ONLY N \in Nat, root \in 1..N
<1> HIDE DEF lo, hi, level
<1>5. h \in Frame(N + 1) BY ONLY <1>1, <1>3 DEF Frame
<1>6. IsRaised(h, g, N, N + 1, root) BY ONLY <1>1, <1>4, <1>5 DEF IsRaised
<1>7. QED BY ONLY <1>6 DEF h

\* u is t with a new root over the old one l and the new node x
NewRoot(u, t, l, k, x) ==
    LET N == Len(t.nodes) r == N + 1
    IN  /\ u \in Tree /\ u.root = r /\ u.size = t.size /\ Len(u.nodes) = r
        /\ \A n \in 1..N :
              /\ u.nodes[n].keys = t.nodes[n].keys /\ u.nodes[n].kids = t.nodes[n].kids
              /\ u.nodes[n].vals = t.nodes[n].vals /\ u.nodes[n].next = t.nodes[n].next
              /\ u.nodes[n].parent = IF n \in {l, x} THEN r ELSE t.nodes[n].parent
        /\ u.nodes[r].keys = <<k>> /\ u.nodes[r].kids = <<l, x>>
        /\ u.nodes[r].next = 0 /\ u.nodes[r].parent = 0

(* What insert_in_parent does without a parent.                            *)
LEMMA NewRootIs ==
    ASSUME NEW t \in Tree, NEW l \in 1..Len(t.nodes), NEW x \in 1..Len(t.nodes), l # x,
           NEW k \in Key, t.nodes[l].parent = 0,
           NEW c, c = insert_in_parent(t, l, k, x)
    PROVE  NewRoot(c.tree, t, l, k, x) /\ c.right = 0
<1> DEFINE N == Len(t.nodes)
           r == N + 1
           rl == [t.nodes[l] EXCEPT !.parent = r]
           rx == [t.nodes[x] EXCEPT !.parent = r]
           ms == [t.nodes EXCEPT ![l] = rl]
           ns == [ms EXCEPT ![x] = rx]
           top == Internal(<<k>>, <<l, x>>, 0)
           all == Append(ns, top)
           u == [t EXCEPT !.root = r, !.nodes = all]
<1>1. /\ t.nodes \in Seq(Record) /\ N \in Nat /\ DOMAIN t.nodes = 1..N
      /\ t.nodes[l] \in Record /\ t.nodes[x] \in Record /\ l \in 1..N /\ x \in 1..N
      /\ l # x /\ l \in Nat /\ x \in Nat /\ k \in Key /\ t \in Tree
  BY NodeTypes
<1>2. ns = [t.nodes EXCEPT ![l].parent = r, ![x].parent = r]
  BY ONLY <1>1
<1>3. c = Return(u) BY <1>2, Zenon DEF insert_in_parent
<1>4. r \in Nat BY ONLY <1>1
<1> HIDE DEF r
<1>5. /\ rl \in Record /\ rl.keys = t.nodes[l].keys /\ rl.kids = t.nodes[l].kids
      /\ rl.vals = t.nodes[l].vals /\ rl.next = t.nodes[l].next /\ rl.parent = r
  BY ONLY <1>1, <1>4 DEF Record
<1>6. /\ rx \in Record /\ rx.keys = t.nodes[x].keys /\ rx.kids = t.nodes[x].kids
      /\ rx.vals = t.nodes[x].vals /\ rx.next = t.nodes[x].next /\ rx.parent = r
  BY ONLY <1>1, <1>4 DEF Record
<1> HIDE DEF rl, rx
<1>7. /\ ms \in Seq(Record) /\ Len(ms) = N
      /\ \A n \in 1..N : ms[n] = IF n = l THEN rl ELSE t.nodes[n]
  BY ONLY <1>1, <1>5, ExceptSeq
<1> HIDE DEF ms
<1>8. /\ ns \in Seq(Record) /\ Len(ns) = N
      /\ \A n \in 1..N : ns[n] = IF n = x THEN rx ELSE ms[n]
  <2>1. x \in 1..Len(ms) BY ONLY <1>1, <1>7
  <2>2. QED BY ONLY <1>6, <1>7, <2>1, ExceptSeq
<1> HIDE DEF ns
<1>9. /\ top \in Record /\ top.keys = <<k>> /\ top.kids = <<l, x>> /\ top.next = 0 /\ top.parent = 0
  <2>1. <<k>> \in Seq(Key) /\ <<l, x>> \in Seq(Nat) /\ <<>> \in Seq(Int) BY ONLY <1>1
  <2>2. QED BY ONLY <2>1 DEF Internal, Record
<1> HIDE DEF top
<1>10. all \in Seq(Record) /\ Len(all) = r /\ all[r] = top /\ \A n \in 1..N : all[n] = ns[n]
  <2>1. /\ all \in Seq(Record) /\ Len(all) = Len(ns) + 1 /\ all[Len(all)] = top
        /\ \A n \in 1..Len(ns) : all[n] = ns[n]
    BY ONLY <1>8, <1>9, Pushed
  <2>2. QED BY ONLY <1>8, <2>1 DEF r
<1> HIDE DEF all
<1>11. u \in Tree /\ u.root = r /\ u.size = t.size /\ u.nodes = all
  BY ONLY <1>1, <1>4, <1>10 DEF Tree
<1>12. ASSUME NEW n \in 1..N
       PROVE  /\ u.nodes[n].keys = t.nodes[n].keys /\ u.nodes[n].kids = t.nodes[n].kids
              /\ u.nodes[n].vals = t.nodes[n].vals /\ u.nodes[n].next = t.nodes[n].next
              /\ u.nodes[n].parent = IF n \in {l, x} THEN r ELSE t.nodes[n].parent
  <2>1. u.nodes[n] = IF n = x THEN rx ELSE IF n = l THEN rl ELSE t.nodes[n]
    BY ONLY <1>7, <1>8, <1>10, <1>11, n \in 1..N
  <2>2. QED BY ONLY <1>5, <1>6, <2>1
<1>13. /\ u.nodes[r].keys = <<k>> /\ u.nodes[r].kids = <<l, x>>
       /\ u.nodes[r].next = 0 /\ u.nodes[r].parent = 0
  BY ONLY <1>9, <1>10, <1>11
<1> HIDE DEF u
<1>14. NewRoot(u, t, l, k, x)
  BY ONLY <1>10, <1>11, <1>12, <1>13 DEF NewRoot, r
<1>15. QED BY ONLY <1>3, <1>14 DEF Return, Call

(* Nothing is due any more, then.                                          *)
LEMMA NewRootFits ==
    ASSUME NEW t, NEW g, NEW l, NEW x, Fits(t, g, l, x, 0), x # 0,
           NEW k \in Key, k = g.hi[l], t.nodes[l].parent = 0,
           NEW N \in Nat, N = Len(t.nodes), NEW r \in Nat, r = N + 1,
           NEW h, h = Raised(g, N, l), NEW u, NewRoot(u, t, l, k, x)
    PROVE  l = t.root /\ Fits(u, h, 0, 0, 0)
<1>1. /\ Fits(t, g, l, x, 0) /\ x # 0 /\ k = g.hi[l] /\ N = Len(t.nodes) /\ r = N + 1 /\ r # 0
      /\ t.nodes[l].parent = 0 /\ r \in 1..r /\ \A n \in 1..N : n \in 1..r /\ n # r /\ n # 0
  OBVIOUS
<1>2. /\ t \in Tree /\ g \in Frame(N) /\ RootFits(t, g, l, x) /\ IsDue(t, g, l, x)
      /\ \A n \in 1..N : NodeFits(t, g, l, x, 0, n)
  BY ONLY <1>1 DEF Fits
<1>3. /\ l \in 1..N /\ x \in 1..N /\ x # l /\ x # t.root /\ g.level[x] = g.level[l] /\ g.hi[l] = g.lo[x]
      /\ x \in Nat /\ l \in Nat
  BY ONLY <1>1, <1>2 DEF IsDue
<1>4. \A n \in 1..N : g.lo[n] \in Int /\ g.hi[n] \in Int /\ g.level[n] \in Nat BY ONLY <1>2 DEF Frame
<1>5. l = t.root
  <2> SUFFICES ASSUME l # t.root PROVE FALSE OBVIOUS
  <2>1. IsChild(t, l) BY ONLY <1>2, <1>3, l # t.root DEF NodeFits
  <2>2. t.nodes[l].parent \in 1..N BY ONLY <1>1, <2>1 DEF IsChild
  <2>3. QED BY ONLY <1>1, <2>2
<1>6. /\ g.lo[l] = -1 /\ g.hi[x] = Infinity /\ g.level[l] < N /\ \A n \in 1..N : g.level[n] <= g.level[l]
      /\ Infinity \in Nat
  BY ONLY <1>1, <1>2, <1>5, InfinityIs DEF RootFits, Top
<1>7. /\ h \in Frame(r) /\ h.lo[r] = -1 /\ h.hi[r] = Infinity /\ h.level[r] = g.level[l] + 1
      /\ \A n \in 1..N : h.lo[n] = g.lo[n] /\ h.hi[n] = g.hi[n] /\ h.level[n] = g.level[n]
  <2>1. h = Raised(g, N, l) /\ N \in Nat OBVIOUS
  <2>2. IsRaised(Raised(g, N, l), g, N, N + 1, l) BY ONLY <1>2, <1>3, <2>1, RaisedIs
  <2>3. IsRaised(h, g, N, r, l) BY ONLY <1>1, <2>1, <2>2
  <2>4. QED BY ONLY <2>3 DEF IsRaised
<1>8. /\ u \in Tree /\ u.root = r /\ u.size = t.size /\ Len(u.nodes) = r
      /\ \A n \in 1..N :
            /\ u.nodes[n].keys = t.nodes[n].keys /\ u.nodes[n].kids = t.nodes[n].kids
            /\ u.nodes[n].vals = t.nodes[n].vals /\ u.nodes[n].next = t.nodes[n].next
            /\ u.nodes[n].parent = IF n \in {l, x} THEN r ELSE t.nodes[n].parent
      /\ u.nodes[r].keys = <<k>> /\ u.nodes[r].kids = <<l, x>>
      /\ u.nodes[r].next = 0 /\ u.nodes[r].parent = 0
  <2>1. NewRoot(u, t, l, k, x) OBVIOUS
  <2>2. QED BY ONLY <1>1, <2>1 DEF NewRoot
<1>9. \A n \in 1..N : Top(h, 0, 0, n) = g.hi[n] BY ONLY <1>7 DEF Top
<1>10. ASSUME NEW n \in 1..N, BranchFits(t, g, l, x, n) PROVE BranchFits(u, h, 0, 0, n)
  <2>1. u.nodes[n].keys = t.nodes[n].keys /\ u.nodes[n].kids = t.nodes[n].kids
        /\ u.nodes[n].next = t.nodes[n].next
    BY ONLY <1>8, <1>10
  <2>2. h.lo[n] = g.lo[n] /\ h.hi[n] = g.hi[n] /\ h.level[n] = g.level[n]
    BY ONLY <1>7, <1>10
  <2>3. ASSUME NEW c \in 1..N, t.nodes[c].parent = n, c # x
        PROVE  /\ c \in 1..r /\ c # 0 /\ u.nodes[c].parent = n
               /\ h.level[c] = g.level[c] /\ h.lo[c] = g.lo[c]
               /\ Top(h, 0, 0, c) = Top(g, l, x, c)
    <3>1. c # l BY ONLY <1>1, <2>3, n \in 1..N
    <3>2. Top(g, l, x, c) = g.hi[c] BY ONLY <3>1 DEF Top
    <3>3. u.nodes[c].parent = n BY ONLY <1>8, <2>3, <3>1
    <3>4. QED BY ONLY <1>1, <1>7, <1>9, <2>3, <3>2, <3>3
  <2>4. QED BY ONLY <1>1, <1>8, <1>10, <2>1, <2>2, <2>3, BranchStays
<1>11. BranchFits(u, h, 0, 0, r)
  <2>1. u.nodes[r].keys # <<>> /\ Len(u.nodes[r].keys) = 1 /\ Len(u.nodes[r].kids) = 2
        /\ u.nodes[r].kids[1] = l /\ u.nodes[r].kids[2] = x /\ u.nodes[r].keys[1] = k
    BY ONLY <1>8
  <2>2. ChildFits(u, h, 0, 0, r, 1)
    <3>1. h.lo[l] = Starts(u.nodes[r].keys, 1, h.lo[r]) BY ONLY <1>3, <1>6, <1>7 DEF Starts
    <3>2. Top(h, 0, 0, l) = Stops(u.nodes[r].keys, 1, h.hi[r])
      BY ONLY <1>1, <1>3, <1>9, <2>1 DEF Stops
    <3>3. u.nodes[l].parent = r /\ l \in 1..r /\ l # 0 BY ONLY <1>1, <1>3, <1>8
    <3>4. h.level[r] = h.level[l] + 1 BY ONLY <1>3, <1>7
    <3>5. QED BY ONLY <1>8, <2>1, <3>1, <3>2, <3>3, <3>4 DEF ChildFits
  <2>3. ChildFits(u, h, 0, 0, r, 2)
    <3>1. h.lo[x] = Starts(u.nodes[r].keys, 2, h.lo[r]) BY ONLY <1>1, <1>3, <1>7, <2>1 DEF Starts
    <3>2. Top(h, 0, 0, x) = Stops(u.nodes[r].keys, 2, h.hi[r])
      BY ONLY <1>3, <1>6, <1>7, <1>9, <2>1 DEF Stops
    <3>3. u.nodes[x].parent = r /\ x \in 1..r BY ONLY <1>1, <1>3, <1>8
    <3>4. h.level[r] = h.level[x] + 1 BY ONLY <1>3, <1>7
    <3>5. QED BY ONLY <1>1, <1>8, <2>1, <3>1, <3>2, <3>3, <3>4 DEF ChildFits
  <2>4. \A i \in 1..Len(u.nodes[r].kids) : i = 1 \/ i = 2 BY ONLY <2>1
  <2>5. QED BY ONLY <1>8, <2>1, <2>2, <2>3, <2>4 DEF BranchFits
<1>12. ASSUME NEW n \in 1..N PROVE IsChild(u, n)
  <2>1. CASE n \in {l, x}
    <3>1. u.nodes[n].parent = r BY ONLY <1>8, <2>1, n \in 1..N
    <3>2. Len(u.nodes[r].kids) = 2 /\ u.nodes[r].kids[1] = l /\ u.nodes[r].kids[2] = x BY ONLY <1>8
    <3>3. \E i \in 1..2 : u.nodes[r].kids[i] = n BY ONLY <2>1, <3>2
    <3>4. QED BY ONLY <1>1, <1>8, <3>1, <3>2, <3>3 DEF IsChild
  <2>2. CASE n \notin {l, x}
    <3>1. IsChild(t, n) BY ONLY <1>2, <1>5, <2>2, n \in 1..N DEF NodeFits
    <3> DEFINE m == t.nodes[n].parent
    <3>2. PICK i \in 1..Len(t.nodes[m].kids) : t.nodes[m].kids[i] = n BY ONLY <3>1 DEF IsChild
    <3>3. m \in 1..N BY ONLY <1>1, <3>1 DEF IsChild
    <3>4. u.nodes[n].parent = m BY ONLY <1>8, <2>2, n \in 1..N
    <3>5. u.nodes[m].kids = t.nodes[m].kids BY ONLY <1>8, <3>3
    <3>6. m \in 1..r BY ONLY <1>1, <3>3
    <3> HIDE DEF m
    <3>7. QED BY ONLY <1>8, <3>2, <3>4, <3>5, <3>6 DEF IsChild
  <2>3. QED BY ONLY <2>1, <2>2
<1>13. ASSUME NEW n \in 1..r PROVE NodeFits(u, h, 0, 0, 0, n)
  <2>1. CASE n = r
    <3>1. h.level[r] # 0 BY ONLY <1>3, <1>4, <1>7
    <3>2. h.lo[r] < h.hi[r] BY ONLY <1>6, <1>7
    <3>3. KeysFit(<<k>>, -1, Infinity)
      <4>1. k \in Int /\ -1 <= k /\ k < Infinity /\ k \in Key BY InfinityIs
      <4>2. <<k>> \in Seq(Int) /\ Len(<<k>>) = 1 /\ <<k>>[1] = k BY ONLY <4>1
      <4>3. QED BY ONLY <4>1, <4>2 DEF KeysFit, Ascending
    <3>4. Len(u.nodes[r].keys) = 1 BY ONLY <1>8
    <3>5. Len(u.nodes[r].keys) <= Order BY ONLY <3>4, OrderAssumption
    <3>6. KeysFit(u.nodes[r].keys, h.lo[r], h.hi[r]) BY ONLY <1>7, <1>8, <3>3
    <3>7. QED BY ONLY <1>1, <1>8, <1>11, <2>1, <3>1, <3>2, <3>5, <3>6 DEF NodeFits
  <2>2. CASE n # r
    <3>1. n \in 1..N BY ONLY <1>1, <2>2, n \in 1..r, N \in Nat
    <3>2. NodeFits(t, g, l, x, 0, n) /\ n # 0 BY ONLY <1>1, <1>2, <3>1
    <3>3. u.nodes[n].keys = t.nodes[n].keys /\ u.nodes[n].kids = t.nodes[n].kids
          /\ u.nodes[n].vals = t.nodes[n].vals
      BY ONLY <1>8, <3>1
    <3>4. h.lo[n] = g.lo[n] /\ h.hi[n] = g.hi[n] /\ h.level[n] = g.level[n] BY ONLY <1>7, <3>1
    <3>5. IF h.level[n] = 0 THEN LeafShape(u.nodes[n]) ELSE BranchFits(u, h, 0, 0, n)
      BY ONLY <1>10, <3>1, <3>2, <3>3, <3>4 DEF NodeFits, LeafShape
    <3>6. h.lo[n] < h.hi[n] /\ KeysFit(u.nodes[n].keys, h.lo[n], h.hi[n])
          /\ Len(u.nodes[n].keys) <= Order
      BY ONLY <3>2, <3>3, <3>4 DEF NodeFits
    <3>7. QED BY ONLY <1>12, <3>1, <3>2, <3>5, <3>6 DEF NodeFits
  <2>3. QED BY ONLY <2>1, <2>2
<1>14. RootFits(u, h, 0, 0)
  <2>1. h.level[r] < r
    BY ONLY <1>1, <1>3, <1>4, <1>6, <1>7, N \in Nat
  <2>2. ASSUME NEW n \in 1..r PROVE h.level[n] <= h.level[r]
    <3>1. n # r => n \in 1..N BY ONLY <1>1, n \in 1..r, N \in Nat
    <3>2. g.level[l] \in Nat BY ONLY <1>3, <1>4
    <3>3. n # r => h.level[n] = g.level[n] /\ g.level[n] \in Nat /\ g.level[n] <= g.level[l]
      BY ONLY <1>4, <1>6, <1>7, <3>1
    <3>4. CASE n = r BY ONLY <1>7, <3>2, <3>4
    <3>5. CASE n # r BY ONLY <1>7, <3>2, <3>3, <3>5
    <3>6. QED BY ONLY <3>4, <3>5
  <2>3. QED BY ONLY <1>1, <1>7, <1>8, <2>1, <2>2 DEF RootFits, Top
<1>15. QED BY ONLY <1>5, <1>7, <1>8, <1>13, <1>14 DEF Fits

-----------------------------------------------------------------------------
(* The calls.  None of them concerns the leaves.                           *)

\* a call that is due, or none
Calls == [tree : Tree, left : Nat, key : Int, right : Nat]

CallFits(c, g) ==
    /\ c \in Calls
    /\ IF c.right = 0 THEN Fits(c.tree, g, 0, 0, 0)
       ELSE /\ Fits(c.tree, g, c.left, c.right, 0)
            /\ c.key = g.hi[c.left] /\ c.key \in Key

SameLeaves(t, g, u, h) ==
    /\ u.size = t.size /\ Len(t.nodes) \in Nat /\ Len(u.nodes) \in Nat /\ Len(t.nodes) <= Len(u.nodes)
    /\ \A n \in 1..Len(u.nodes) : h.level[n] = 0 => n \in 1..Len(t.nodes) /\ g.level[n] = 0
    /\ \A n \in 1..Len(t.nodes) :
          g.level[n] = 0 =>
             /\ h.level[n] = 0 /\ h.lo[n] = g.lo[n] /\ h.hi[n] = g.hi[n]
             /\ u.nodes[n].keys = t.nodes[n].keys /\ u.nodes[n].vals = t.nodes[n].vals
             /\ u.nodes[n].next = t.nodes[n].next

\* when one call gives way to another: the next is a level higher
Rises(c, g, d, h) ==
    d.right # 0 => /\ h.level[d.left] = g.level[c.left] + 1
                   /\ h.level[d.tree.root] = g.level[c.tree.root]

(* A node that may have a key too many but does not.                       *)
LEMMA NoneTooMany ==
    ASSUME NEW t, NEW g, NEW p, Fits(t, g, 0, 0, p), NEW N \in Nat, N = Len(t.nodes),
           p \in 1..N => Len(t.nodes[p].keys) <= Order
    PROVE  Fits(t, g, 0, 0, 0)
<1>1. t \in Tree /\ g \in Frame(Len(t.nodes)) /\ RootFits(t, g, 0, 0)
      /\ \A n \in 1..Len(t.nodes) : NodeFits(t, g, 0, 0, p, n)
  BY DEF Fits
<1>2. ASSUME NEW n \in 1..N PROVE NodeFits(t, g, 0, 0, 0, n)
  <2>1. NodeFits(t, g, 0, 0, p, n) BY <1>1
  <2>2. Len(t.nodes[n].keys) <= Order /\ n # 0
    <3>1. CASE n = p BY <3>1
    <3>2. CASE n # p BY ONLY <2>1, <3>2, n \in 1..N DEF NodeFits
    <3>3. QED BY <3>1, <3>2
  <2>3. QED BY ONLY <2>1, <2>2 DEF NodeFits
<1>3. QED BY <1>1, <1>2 DEF Fits

\* in u, the new node x has joined p, the parent of l, that may now have a key too many
Grows(u, t, g, l, x, k, p) ==
    /\ p \in 1..Len(t.nodes) /\ g.level[p] = g.level[l] + 1
    /\ Fits(u, g, 0, 0, p) /\ \E j \in Nat : Joined(u, t, x, k, p, j)

(* The new node joins the parent.                                          *)
LEMMA GrownFits ==
    ASSUME NEW t, NEW g, NEW l, NEW x, Fits(t, g, l, x, 0), x # 0,
           NEW k \in Key, k = g.hi[l], NEW p, p = t.nodes[l].parent, p # 0,
           NEW idx, idx = traverse_lt(t.nodes[p].keys, k), NEW u,
           u = Attach(t, p, x, InsertAt(t.nodes[p].keys, idx + 1, k),
                               InsertAt(t.nodes[p].kids, idx + 2, x))
    PROVE  Grows(u, t, g, l, x, k, p)
<1> DEFINE keys == t.nodes[p].keys
           kids == t.nodes[p].kids
           ks == InsertAt(keys, idx + 1, k)
           cs == InsertAt(kids, idx + 2, x)
           N == Len(t.nodes)
           w == Attach(t, p, x, ks, cs)
<1>1. /\ Fits(t, g, l, x, 0) /\ x # 0 /\ k \in Key /\ k = g.hi[l] /\ p = t.nodes[l].parent /\ p # 0
      /\ idx = traverse_lt(keys, k)
  OBVIOUS
<1>2. u = w OBVIOUS
<1>3. k \in Int /\ t \in Tree /\ g \in Frame(N) /\ IsDue(t, g, l, x)
  BY ONLY <1>1, KeyAssumption DEF Fits
<1>4. N \in Nat BY ONLY <1>3, NodeTypes
<1>5. PICK j \in Nat : j = idx + 1 /\ IsPlace(t, g, l, x, k, p, j) /\ j \in 1..(Len(keys) + 1)
  <2>1. IsPlace(t, g, l, x, k, p, idx + 1) BY ONLY <1>1, <1>3, PlaceIs
  <2>2. idx + 1 \in 1..(Len(keys) + 1) BY ONLY <2>1 DEF IsPlace
  <2>3. idx + 1 \in Nat BY ONLY <2>2
  <2>4. QED BY ONLY <2>1, <2>2, <2>3
<1>6. p \in 1..N /\ p # x /\ BranchFits(t, g, l, x, p) /\ g.level[p] = g.level[l] + 1
  BY ONLY <1>5 DEF IsPlace
<1>7. /\ keys \in Seq(Key) /\ kids \in Seq(Nat) /\ Len(keys) \in Nat /\ Len(kids) = Len(keys) + 1
  BY ONLY <1>3, <1>6, NodeTypes DEF BranchFits
<1>8. x \in 1..N /\ x \in Nat BY ONLY <1>3, <1>4 DEF IsDue
<1>9. idx + 2 = j + 1
  <2>1. TurnIs(keys, k, idx)
    <3>1. NodeFits(t, g, l, x, 0, p) BY ONLY <1>1, <1>6 DEF Fits
    <3>2. Ascending(keys) BY ONLY <3>1 DEF NodeFits, KeysFit
    <3>3. QED BY ONLY <1>1, <1>3, <3>2, SearchesFind
  <2>2. idx \in Nat BY ONLY <1>7, <2>1 DEF TurnIs
  <2>3. QED BY ONLY <1>5, <2>2
<1>10. ks = InsertAt(keys, j, k) /\ cs = InsertAt(kids, j + 1, x)
  <2>1. ks = InsertAt(keys, j, k) BY ONLY <1>5
  <2>2. cs = InsertAt(kids, j + 1, x) BY ONLY <1>9
  <2>3. QED BY ONLY <2>1, <2>2
<1> HIDE DEF ks, cs, keys, kids, N
<1>11. ks \in Seq(Key) /\ InsertedAt(ks, keys, j, k)
  BY ONLY <1>1, <1>5, <1>7, <1>10, InsertAtProperties
<1>12. cs \in Seq(Nat) /\ InsertedAt(cs, kids, j + 1, x)
  <2>1. j + 1 \in 1..(Len(kids) + 1) BY ONLY <1>5, <1>7, j \in Nat
  <2>2. QED BY ONLY <1>7, <1>8, <1>10, <2>1, InsertAtProperties
<1>13. /\ u \in Tree /\ u.root = t.root /\ u.size = t.size /\ Len(u.nodes) = N
       /\ \A n \in 1..N : n # p /\ n # x => u.nodes[n] = t.nodes[n]
       /\ u.nodes[p].keys = ks /\ u.nodes[p].kids = cs
       /\ u.nodes[p].vals = t.nodes[p].vals /\ u.nodes[p].next = t.nodes[p].next
       /\ u.nodes[p].parent = t.nodes[p].parent
       /\ u.nodes[x].keys = t.nodes[x].keys /\ u.nodes[x].kids = t.nodes[x].kids
       /\ u.nodes[x].vals = t.nodes[x].vals /\ u.nodes[x].next = t.nodes[x].next
       /\ u.nodes[x].parent = p
  <2>1. IsAttached(Attach(t, p, x, ks, cs), t, p, x, ks, cs)
    BY ONLY <1>3, <1>6, <1>8, <1>11, <1>12, AttachedIs DEF N
  <2>2. QED BY ONLY <1>2, <2>1 DEF IsAttached, N
<1>14. Joined(u, t, x, k, p, j)
  BY ONLY <1>10, <1>11, <1>12, <1>13 DEF Joined, N, keys, kids
<1>15. Fits(u, g, 0, 0, p)
  <2>1. j \in Nat /\ N = Len(t.nodes) BY DEF N
  <2>2. QED BY ONLY <1>1, <1>4, <1>5, <1>14, <2>1, JoinFits
<1>16. QED BY ONLY <1>6, <1>14, <1>15, j \in Nat DEF N, Grows

(* The leaves stay as they are, call by call.                              *)
LEMMA SameLeavesTrans ==
    ASSUME NEW t, NEW g, NEW u, NEW h, NEW w, NEW f, SameLeaves(t, g, u, h), SameLeaves(u, h, w, f)
    PROVE  SameLeaves(t, g, w, f)
<1> DEFINE a == Len(t.nodes)
           b == Len(u.nodes)
           d == Len(w.nodes)
<1>1. /\ a \in Nat /\ b \in Nat /\ d \in Nat /\ a <= b /\ b <= d
      /\ u.size = t.size /\ w.size = u.size
      /\ \A n \in 1..b : h.level[n] = 0 => n \in 1..a /\ g.level[n] = 0
      /\ \A n \in 1..d : f.level[n] = 0 => n \in 1..b /\ h.level[n] = 0
      /\ \A n \in 1..a : g.level[n] = 0 =>
             /\ h.level[n] = 0 /\ h.lo[n] = g.lo[n] /\ h.hi[n] = g.hi[n]
             /\ u.nodes[n].keys = t.nodes[n].keys /\ u.nodes[n].vals = t.nodes[n].vals
             /\ u.nodes[n].next = t.nodes[n].next
      /\ \A n \in 1..b : h.level[n] = 0 =>
             /\ f.level[n] = 0 /\ f.lo[n] = h.lo[n] /\ f.hi[n] = h.hi[n]
             /\ w.nodes[n].keys = u.nodes[n].keys /\ w.nodes[n].vals = u.nodes[n].vals
             /\ w.nodes[n].next = u.nodes[n].next
  BY DEF SameLeaves
<1>2. a <= d /\ \A n \in 1..a : n \in 1..b
  <2> HIDE DEF a, b, d
  <2>1. QED BY ONLY <1>1
<1>3. \A n \in 1..d : f.level[n] = 0 => n \in 1..a /\ g.level[n] = 0 BY ONLY <1>1
<1>4. \A n \in 1..a : g.level[n] = 0 =>
             /\ f.level[n] = 0 /\ f.lo[n] = g.lo[n] /\ f.hi[n] = g.hi[n]
             /\ w.nodes[n].keys = t.nodes[n].keys /\ w.nodes[n].vals = t.nodes[n].vals
             /\ w.nodes[n].next = t.nodes[n].next
  <2> HIDE DEF a, b, d
  <2>1. QED BY ONLY <1>1, <1>2
<1>5. QED BY ONLY <1>1, <1>2, <1>3, <1>4 DEF SameLeaves

(* The call that a split of a node of internal nodes ends with.            *)
LEMMA SplitCall ==
    ASSUME NEW u, NEW g, NEW p, Fits(u, g, 0, 0, p), NEW N \in Nat, N = Len(u.nodes),
           p \in 1..N, g.level[p] # 0, Len(u.nodes[p].keys) > Order,
           NEW d, d = split_internal(u, p)
    PROVE  \E h : /\ CallFits(d, h) /\ SameLeaves(u, g, d.tree, h)
                  /\ d.right # 0 /\ h.level[d.left] = g.level[p]
                  /\ h.level[d.tree.root] = g.level[u.root]
<1>1. /\ Fits(u, g, 0, 0, p) /\ N = Len(u.nodes) /\ p \in 1..N /\ g.level[p] # 0
      /\ d = split_internal(u, p) /\ N \in Nat
  OBVIOUS
<1>2. u \in Tree /\ g \in Frame(N) /\ RootFits(u, g, 0, 0) /\ NodeFits(u, g, 0, 0, p, p)
  BY ONLY <1>1 DEF Fits
<1>3. BranchFits(u, g, 0, 0, p) BY ONLY <1>1, <1>2 DEF NodeFits
<1>4. Len(u.nodes[p].keys) \in Nat /\ Order \in Nat BY ONLY <1>1, <1>2, NodeTypes, OrderAssumption
<1>5. PICK len \in Nat : len = Len(u.nodes[p].keys) /\ len > 3
  <2>1. Len(u.nodes[p].keys) > Order OBVIOUS
  <2>2. QED BY ONLY <1>4, <2>1, OrderAssumption
<1>6. PICK m \in Nat : m = Middle(len) /\ 1 < m /\ m < len /\ m <= len
  <2>1. \A a \in Nat : a > 3 => /\ (a \div 2) + 1 \in Nat /\ 1 < (a \div 2) + 1
                                /\ (a \div 2) + 1 < a /\ (a \div 2) + 1 <= a
    OBVIOUS
  <2>2. /\ Middle(len) \in Nat /\ 1 < Middle(len) /\ Middle(len) < len /\ Middle(len) <= len
    BY ONLY <1>5, <2>1 DEF Middle
  <2>3. QED BY ONLY <2>2
<1>7. PICK y \in Nat : y = N + 1 /\ y # 0 /\ N <= y OBVIOUS
<1>8. PICK kk : kk = u.nodes[p].keys[m] OBVIOUS
<1>9. PICK h : h = Parted(g, N, p, kk) OBVIOUS
<1>10. PICK w : w = d.tree OBVIOUS
<1>11. BranchCut(w, u, p, m) /\ d.left = p /\ d.right = y /\ d.key = kk
  <2>1. Len(u.nodes[p].kids) = Len(u.nodes[p].keys) + 1 BY ONLY <1>3 DEF BranchFits
  <2>2. /\ BranchCut(d.tree, u, p, m) /\ d.left = p /\ d.right = Len(u.nodes) + 1
        /\ d.key = u.nodes[p].keys[m]
    BY ONLY <1>1, <1>2, <1>5, <1>6, <2>1, SplitInternalIs
  <2>3. QED BY ONLY <1>1, <1>7, <1>8, <1>10, <2>2
<1>12. Fits(w, h, p, y, 0) /\ kk \in Key
  <2>1. y \in Nat /\ m \in Nat OBVIOUS
  <2>2. QED BY ONLY <1>1, <1>5, <1>6, <1>7, <1>8, <1>9, <1>11, <2>1, BranchCutFits
<1>13. IsParted(h, g, N, y, p, kk)
  <2>1. kk \in Int BY ONLY <1>12, KeyAssumption
  <2>2. IsParted(Parted(g, N, p, kk), g, N, N + 1, p, kk) BY ONLY <1>1, <1>2, <2>1, PartedIs
  <2>3. QED BY ONLY <1>7, <1>9, <2>2
<1>14. /\ h.level[y] = g.level[p] /\ h.hi[p] = kk
       /\ \A n \in 1..N : h.lo[n] = g.lo[n] /\ h.level[n] = g.level[n]
       /\ \A n \in 1..N : n # p => h.hi[n] = g.hi[n]
  BY ONLY <1>13 DEF IsParted
<1>15. /\ w \in Tree /\ w.root = u.root /\ w.size = u.size /\ Len(w.nodes) = y
       /\ \A n \in 1..N :
            n # p => /\ w.nodes[n].keys = u.nodes[n].keys
                     /\ w.nodes[n].vals = u.nodes[n].vals /\ w.nodes[n].next = u.nodes[n].next
  BY ONLY <1>1, <1>7, <1>11 DEF BranchCut
<1>16. SameLeaves(u, g, w, h)
  <2>1. \A n \in 1..y : n # y => n \in 1..N BY ONLY <1>7, N \in Nat, y \in Nat
  <2>2. \A n \in 1..y : h.level[n] = 0 => n \in 1..N /\ g.level[n] = 0
    BY ONLY <1>1, <1>14, <2>1
  <2>3. \A n \in 1..N : g.level[n] = 0 => n # p BY ONLY <1>1
  <2>4. y \in Nat /\ N \in Nat OBVIOUS
  <2>5. QED BY ONLY <1>1, <1>7, <1>14, <1>15, <2>2, <2>3, <2>4 DEF SameLeaves
<1>17. d \in Calls
  <2>1. d = Call(d.tree, d.left, d.key, d.right) BY ONLY <1>1 DEF split_internal, Call
  <2>2. d.tree \in Tree BY ONLY <1>10, <1>15
  <2>3. d.left \in Nat /\ d.right \in Nat BY ONLY <1>1, <1>11, y \in Nat
  <2>4. d.key \in Int BY ONLY <1>11, <1>12, KeyAssumption
  <2>5. QED BY ONLY <2>1, <2>2, <2>3, <2>4 DEF Call, Calls
<1>18. CallFits(d, h) BY ONLY <1>7, <1>10, <1>11, <1>12, <1>14, <1>17 DEF CallFits
<1>19. d.right # 0 /\ h.level[d.left] = g.level[p] /\ h.level[d.tree.root] = g.level[u.root]
  <2>1. u.root \in 1..N BY ONLY <1>1, <1>2 DEF RootFits
  <2>2. QED BY ONLY <1>1, <1>7, <1>10, <1>11, <1>14, <1>15, <2>1
<1>20. QED BY ONLY <1>10, <1>16, <1>18, <1>19

(* A call of insert_in_parent leaves a tree, or the call a level higher.   *)
LEMMA CallLeaves ==
    ASSUME NEW t, NEW g, NEW l, NEW x, Fits(t, g, l, x, 0), x # 0, NEW k \in Key, k = g.hi[l],
           NEW N \in Nat, N = Len(t.nodes), NEW d, d = insert_in_parent(t, l, k, x)
    PROVE  \E h : /\ CallFits(d, h) /\ SameLeaves(t, g, d.tree, h)
                  /\ d.right # 0 => /\ h.level[d.left] = g.level[l] + 1
                                    /\ h.level[d.tree.root] = g.level[t.root]
<1>0. PICK p : p = t.nodes[l].parent OBVIOUS
<1>1. /\ Fits(t, g, l, x, 0) /\ x # 0 /\ k = g.hi[l] /\ k \in Key /\ p = t.nodes[l].parent
      /\ t \in Tree /\ g \in Frame(N) /\ IsDue(t, g, l, x) /\ RootFits(t, g, l, x)
      /\ N = Len(t.nodes) /\ d = insert_in_parent(t, l, k, x) /\ N \in Nat
  BY <1>0 DEF Fits
<1>2. l \in 1..N /\ x \in 1..N /\ l # x /\ \A n \in 1..N : g.level[n] \in Nat
  BY ONLY <1>1 DEF IsDue, Frame
<1>3. CASE p = 0
  <2>1. PICK r \in Nat : r = N + 1 /\ N <= r OBVIOUS
  <2>2. PICK h : h = Raised(g, N, l) OBVIOUS
  <2>3. PICK u : u = d.tree OBVIOUS
  <2>4. NewRoot(u, t, l, k, x) /\ d.right = 0 BY ONLY <1>1, <1>2, <1>3, <2>3, NewRootIs
  <2>5. Fits(u, h, 0, 0, 0)
    <3>1. r \in Nat OBVIOUS
    <3>2. QED BY ONLY <1>1, <1>2, <1>3, <2>1, <2>2, <2>4, <3>1, NewRootFits
  <2>6. IsRaised(h, g, N, r, l)
    <3>1. IsRaised(Raised(g, N, l), g, N, N + 1, l) BY ONLY <1>1, <1>2, RaisedIs
    <3>2. QED BY ONLY <2>1, <2>2, <3>1
  <2>7. /\ h.level[r] = g.level[l] + 1
        /\ \A n \in 1..N : h.lo[n] = g.lo[n] /\ h.hi[n] = g.hi[n] /\ h.level[n] = g.level[n]
    BY ONLY <2>6 DEF IsRaised
  <2>8. SameLeaves(t, g, u, h)
    <3>1. /\ u.size = t.size /\ Len(u.nodes) = r
          /\ \A n \in 1..N :
                /\ u.nodes[n].keys = t.nodes[n].keys
                /\ u.nodes[n].vals = t.nodes[n].vals /\ u.nodes[n].next = t.nodes[n].next
      BY ONLY <1>1, <2>1, <2>4 DEF NewRoot
    <3>2. g.level[l] + 1 # 0 BY ONLY <1>2
    <3>3. \A n \in 1..r : n # r => n \in 1..N BY ONLY <2>1, N \in Nat, r \in Nat
    <3>4. \A n \in 1..r : h.level[n] = 0 => n \in 1..N /\ g.level[n] = 0
      BY ONLY <2>7, <3>2, <3>3
    <3>5. r \in Nat /\ N \in Nat OBVIOUS
    <3>6. QED BY ONLY <1>1, <2>1, <2>7, <3>1, <3>4, <3>5 DEF SameLeaves
  <2>9. d \in Calls
    <3>1. \E v : d = Return(v) BY ONLY <1>1, <1>3, Zenon DEF insert_in_parent
    <3>2. u \in Tree BY ONLY <2>5 DEF Fits
    <3>3. QED BY ONLY <2>3, <3>1, <3>2 DEF Return, Call, Calls
  <2>10. CallFits(d, h) BY ONLY <2>3, <2>4, <2>5, <2>9 DEF CallFits
  <2>11. QED BY ONLY <2>3, <2>4, <2>8, <2>10
<1>4. CASE p # 0
  <2>1. PICK idx : idx = traverse_lt(t.nodes[p].keys, k) OBVIOUS
  <2>2. PICK u : u = Attach(t, p, x, InsertAt(t.nodes[p].keys, idx + 1, k),
                                     InsertAt(t.nodes[p].kids, idx + 2, x))
    OBVIOUS
  <2>3. d = IF Len(u.nodes[p].keys) > Order THEN split_internal(u, p) ELSE Return(u)
    <3> DEFINE pp == t.nodes[l].parent
               ii == traverse_lt(t.nodes[pp].keys, k)
               uu == Attach(t, pp, x, InsertAt(t.nodes[pp].keys, ii + 1, k),
                                      InsertAt(t.nodes[pp].kids, ii + 2, x))
    <3>1. pp # 0 => d = IF Len(uu.nodes[pp].keys) > Order THEN split_internal(uu, pp) ELSE Return(uu)
      BY ONLY <1>1, Zenon DEF insert_in_parent, Attach
    <3>2. pp = p BY ONLY <1>1
    <3>3. ii = idx BY ONLY <2>1, <3>2
    <3>4. uu = u BY ONLY <2>2, <3>2, <3>3
    <3> HIDE DEF pp, ii, uu
    <3>5. QED BY ONLY <1>4, <3>1, <3>2, <3>4
  <2>4. /\ p \in 1..N /\ g.level[p] = g.level[l] + 1
        /\ Fits(u, g, 0, 0, p) /\ \E j \in Nat : Joined(u, t, x, k, p, j)
    <3>1. Fits(t, g, l, x, 0) /\ x # 0 /\ k \in Key /\ k = g.hi[l] /\ p = t.nodes[l].parent /\ p # 0
      BY ONLY <1>1, <1>4
    <3>2. Grows(u, t, g, l, x, k, p) BY ONLY <2>1, <2>2, <3>1, GrownFits
    <3>3. QED BY ONLY <1>1, <3>2 DEF Grows
  <2>5. PICK j \in Nat : Joined(u, t, x, k, p, j) BY ONLY <2>4
  <2>6. /\ u.root = t.root /\ u.size = t.size /\ Len(u.nodes) = N
        /\ \A n \in 1..N : n # p /\ n # x => u.nodes[n] = t.nodes[n]
        /\ u.nodes[x].keys = t.nodes[x].keys
        /\ u.nodes[x].vals = t.nodes[x].vals /\ u.nodes[x].next = t.nodes[x].next
    BY ONLY <1>1, <2>5 DEF Joined
  <2>7. g.level[p] # 0 /\ g.level[p] \in Nat BY ONLY <1>2, <2>4
  <2>8. SameLeaves(t, g, u, g)
    <3>1. \A n \in 1..N : g.level[n] = 0 => n # p BY ONLY <2>7
    <3>2. N <= N BY ONLY N \in Nat
    <3>3. QED BY ONLY <1>1, <2>6, <3>1, <3>2 DEF SameLeaves
  <2>9. u \in Tree BY ONLY <2>4 DEF Fits
  <2>10. Len(u.nodes[p].keys) \in Nat /\ Order \in Nat
    BY ONLY <2>4, <2>6, <2>9, NodeTypes, OrderAssumption
  <2>11. CASE ~(Len(u.nodes[p].keys) > Order)
    <3>1. d = Return(u) BY ONLY <2>3, <2>11
    <3>2. Fits(u, g, 0, 0, 0)
      <4>1. Len(u.nodes[p].keys) <= Order BY ONLY <2>10, <2>11
      <4>2. QED BY ONLY <1>1, <2>4, <2>6, <4>1, NoneTooMany
    <3>3. d.right = 0 /\ d.tree = u /\ d \in Calls BY ONLY <2>9, <3>1 DEF Return, Call, Calls
    <3>4. CallFits(d, g) BY ONLY <3>2, <3>3 DEF CallFits
    <3>5. QED BY ONLY <2>8, <3>3, <3>4
  <2>12. CASE Len(u.nodes[p].keys) > Order
    <3>1. d = split_internal(u, p) BY ONLY <2>3, <2>12
    <3>2. PICK h : /\ CallFits(d, h) /\ SameLeaves(u, g, d.tree, h)
                   /\ d.right # 0 /\ h.level[d.left] = g.level[p]
                   /\ h.level[d.tree.root] = g.level[u.root]
      <4>1. N = Len(u.nodes) /\ N \in Nat BY ONLY <1>1, <2>6
      <4>2. Fits(u, g, 0, 0, p) /\ p \in 1..N /\ g.level[p] # 0 /\ Len(u.nodes[p].keys) > Order
        BY ONLY <2>4, <2>7, <2>12
      <4>3. QED BY ONLY <3>1, <4>1, <4>2, SplitCall
    <3>3. SameLeaves(t, g, d.tree, h) BY ONLY <2>8, <3>2, SameLeavesTrans
    <3>4. QED BY ONLY <2>4, <2>6, <3>2, <3>3
  <2>13. QED BY ONLY <2>11, <2>12
<1>5. QED BY ONLY <1>3, <1>4

(* Again, of a call as such.                                               *)
LEMMA CallKeeps ==
    ASSUME NEW c, NEW g, CallFits(c, g), c.right # 0,
           NEW d, d = insert_in_parent(c.tree, c.left, c.key, c.right)
    PROVE  \E h : CallFits(d, h) /\ SameLeaves(c.tree, g, d.tree, h) /\ Rises(c, g, d, h)
<1>1. PICK t, l, x, k : t = c.tree /\ l = c.left /\ x = c.right /\ k = c.key OBVIOUS
<1>2. Fits(t, g, l, x, 0) /\ x # 0 /\ k = g.hi[l] /\ k \in Key /\ t \in Tree
      /\ d = insert_in_parent(t, l, k, x)
  BY <1>1 DEF CallFits, Fits
<1>3. Len(t.nodes) \in Nat BY ONLY <1>2, NodeTypes
<1>4. PICK h : /\ CallFits(d, h) /\ SameLeaves(t, g, d.tree, h)
               /\ d.right # 0 => /\ h.level[d.left] = g.level[l] + 1
                                 /\ h.level[d.tree.root] = g.level[t.root]
  BY ONLY <1>2, <1>3, CallLeaves
<1>5. QED BY ONLY <1>1, <1>4 DEF Rises

(* The calls come to an end: no node is above the root.                    *)
LEMMA ClimbFits ==
    ASSUME NEW c, NEW g, CallFits(c, g), c.right # 0, g.level[c.left] = 0
    PROVE  \E h : Fits(Climb(c), h, 0, 0, 0) /\ SameLeaves(c.tree, g, Climb(c), h)
<1>1. PICK N : N = Len(c.tree.nodes) OBVIOUS
<1>2. PICK L : L = g.level[c.tree.root] OBVIOUS
<1>3. /\ c \in Calls /\ CallFits(c, g) /\ c.right # 0 /\ g.level[c.left] = 0
      /\ Fits(c.tree, g, c.left, c.right, 0)
  BY DEF CallFits
<1>4. N \in Nat /\ L < N
  <2>1. c.tree \in Tree /\ RootFits(c.tree, g, c.left, c.right) BY ONLY <1>3 DEF Fits
  <2>2. QED BY ONLY <1>1, <1>2, <2>1, NodeTypes DEF RootFits
<1> DEFINE Is(d, i) == \E h : /\ CallFits(d, h) /\ SameLeaves(c.tree, g, d.tree, h)
                              /\ d.right # 0 => h.level[d.left] = i /\ h.level[d.tree.root] = L
           Reached(i) == {d \in Calls : Is(d, i)}
           X == [i \in 0..N |-> Reached(i)]
           Pass(d) == IF d.right = 0 THEN d ELSE insert_in_parent(d.tree, d.left, d.key, d.right)
           step == [d \in Calls |-> Pass(d)]
           Good(f) == f = [i \in 0..N |-> IF i = 0 THEN c ELSE Pass(f[i - 1])]
           at == CHOOSE f : Good(f)
<1>5. Climb(c) = at[N].tree BY ONLY <1>1, Zenon DEF Climb
<1>6. ASSUME NEW i \in Nat, NEW d \in Reached(i) PROVE Pass(d) \in Reached(i + 1)
  <2>1. d \in Calls /\ Is(d, i) BY ONLY <1>6
  <2>2. PICK h : /\ CallFits(d, h) /\ SameLeaves(c.tree, g, d.tree, h)
                 /\ d.right # 0 => h.level[d.left] = i /\ h.level[d.tree.root] = L
    BY ONLY <2>1
  <2>3. CASE d.right = 0
    <3>1. Is(d, i + 1) BY ONLY <2>2, <2>3
    <3> HIDE DEF Is
    <3>2. QED BY ONLY <2>1, <2>3, <3>1
  <2>4. CASE d.right # 0
    <3>1. PICK e : e = insert_in_parent(d.tree, d.left, d.key, d.right) OBVIOUS
    <3>2. PICK f : CallFits(e, f) /\ SameLeaves(d.tree, h, e.tree, f) /\ Rises(d, h, e, f)
      BY ONLY <2>2, <2>4, <3>1, CallKeeps
    <3>3. SameLeaves(c.tree, g, e.tree, f) BY ONLY <2>2, <3>2, SameLeavesTrans
    <3>4. e.right # 0 => f.level[e.left] = i + 1 /\ f.level[e.tree.root] = L
      BY ONLY <2>2, <2>4, <3>2 DEF Rises
    <3>5. Is(e, i + 1) BY ONLY <3>2, <3>3, <3>4
    <3>6. e \in Calls BY ONLY <3>2 DEF CallFits
    <3> HIDE DEF Is
    <3>7. QED BY ONLY <2>4, <3>1, <3>5, <3>6
  <2>5. QED BY ONLY <2>3, <2>4
<1>7. c \in Reached(0)
  <2>1. SameLeaves(c.tree, g, c.tree, g)
    <3>1. Len(c.tree.nodes) <= Len(c.tree.nodes) BY ONLY <1>1, <1>4
    <3>2. QED BY ONLY <1>1, <1>4, <3>1 DEF SameLeaves
  <2>2. Is(c, 0) BY ONLY <1>2, <1>3, <2>1
  <2> HIDE DEF Is
  <2>3. QED BY ONLY <1>3, <2>2
<1>8. \A i \in Nat : \A d \in Reached(i) : d \in Calls OBVIOUS
<1>9. \A d : d \in Reached(N) => Is(d, N) OBVIOUS
<1> HIDE DEF Reached
<1>10. 0 \in 0..N /\ N \in 0..N /\ \A i \in 1..N : i \in 0..N /\ i - 1 \in 0..N /\ i - 1 \in Nat /\ (i - 1) + 1 = i
  BY ONLY <1>4
<1>11. X[0] = Reached(0) /\ X[N] = Reached(N) /\ \A i \in 1..N : X[i] = Reached(i) /\ X[i - 1] = Reached(i - 1)
  BY ONLY <1>10
<1> HIDE DEF X, Pass
<1>12. \A i \in 1..N : \A d \in X[i - 1] : Pass(d) \in X[i] /\ d \in Calls
  <2> SUFFICES ASSUME NEW i \in 1..N, NEW d \in X[i - 1] PROVE Pass(d) \in X[i] /\ d \in Calls OBVIOUS
  <2>1. i - 1 \in Nat /\ (i - 1) + 1 = i BY ONLY <1>10, i \in 1..N
  <2>2. d \in Reached(i - 1) BY ONLY <1>11, i \in 1..N, d \in X[i - 1]
  <2>3. Pass(d) \in Reached((i - 1) + 1) BY ONLY <1>6, <2>1, <2>2
  <2>4. QED BY ONLY <1>8, <1>11, <2>1, <2>2, <2>3, i \in 1..N
<1>13. \A d \in Calls : step[d] = Pass(d) OBVIOUS
<1>14. c \in X[0] BY ONLY <1>7, <1>11
<1> HIDE DEF step
<1>15. \E f : Good(f)
  <2>1. \A i \in 1..N : \A d \in X[i - 1] : step[d] \in X[i] BY ONLY <1>12, <1>13
  <2>2. PICK f : Loops(f, N, c, step) /\ \A i \in 0..N : f[i] \in X[i]
    BY ONLY <1>4, <1>14, <2>1, LoopExists
  <2>3. \A i \in 0..N : i # 0 => i \in 1..N /\ i - 1 \in 0..N BY ONLY <1>4
  <2>4. \A i \in 0..N : i # 0 => step[f[i - 1]] = Pass(f[i - 1])
    BY ONLY <1>12, <1>13, <2>2, <2>3
  <2>5. Good(f) BY ONLY <2>2, <2>4 DEF Loops
  <2>6. QED BY ONLY <2>5
<1> DEFINE p == at
<1>16. Good(p) BY <1>15
<1> HIDE DEF p
<1>17. p[N] \in X[N]
  <2>1. p[0] = c /\ \A i \in 1..N : p[i] = Pass(p[i - 1])
    <3>1. \A i \in 1..N : i # 0 BY ONLY <1>4
    <3>2. QED BY ONLY <1>10, <1>16, <3>1
  <2>2. \A i \in 1..N : p[i - 1] \in X[i - 1] => p[i] \in X[i] BY ONLY <1>12, <2>1
  <2>3. p[0] \in X[0] BY ONLY <1>14, <2>1
  <2>4. QED BY ONLY <1>4, <2>2, <2>3, LoopKeeps
<1>18. PICK e : e = p[N] OBVIOUS
<1>19. PICK h : /\ CallFits(e, h) /\ SameLeaves(c.tree, g, e.tree, h)
                /\ e.right # 0 => h.level[e.left] = N /\ h.level[e.tree.root] = L
  BY ONLY <1>9, <1>11, <1>17, <1>18
<1>20. e.right = 0
  <2> SUFFICES ASSUME e.right # 0 PROVE FALSE OBVIOUS
  <2>1. Fits(e.tree, h, e.left, e.right, 0) BY ONLY <1>19, e.right # 0 DEF CallFits
  <2>2. RootFits(e.tree, h, e.left, e.right) /\ IsDue(e.tree, h, e.left, e.right)
        /\ h \in Frame(Len(e.tree.nodes))
    BY ONLY <2>1, e.right # 0 DEF Fits
  <2>3. /\ e.left \in 1..Len(e.tree.nodes) /\ e.tree.root \in 1..Len(e.tree.nodes)
        /\ h.level[e.left] <= h.level[e.tree.root]
    BY ONLY <2>2 DEF RootFits, IsDue
  <2>4. h.level[e.tree.root] \in Nat BY ONLY <2>2, <2>3 DEF Frame
  <2>5. N <= L /\ L \in Nat BY ONLY <1>19, <2>3, <2>4, e.right # 0
  <2>6. QED BY ONLY <1>4, <2>5
<1>21. Climb(c) = e.tree BY ONLY <1>5, <1>18 DEF p
<1>22. Fits(e.tree, h, 0, 0, 0) BY ONLY <1>19, <1>20 DEF CallFits
<1>23. QED BY ONLY <1>19, <1>21, <1>22

-----------------------------------------------------------------------------
(* The leaves: their chain, and the map that they hold.                    *)

LeavesOf(t, g) == {n \in 1..Len(t.nodes) : g.level[n] = 0}

\* the chain goes on where the range of a leaf ends, and no two ranges overlap
ChainFits(t, g) ==
    /\ \A n \in LeavesOf(t, g) :
          /\ g.hi[n] <= Infinity
          /\ IF g.hi[n] = Infinity THEN t.nodes[n].next = 0
             ELSE t.nodes[n].next \in LeavesOf(t, g) /\ g.lo[t.nodes[n].next] = g.hi[n]
    /\ \A n, o \in LeavesOf(t, g) : n # o => g.hi[n] <= g.lo[o] \/ g.hi[o] <= g.lo[n]

\* the pairs of a leaf are in the map
LeafHolds(node, m) ==
    \A i \in 1..Len(node.keys) : node.keys[i] \in DOMAIN m /\ node.vals[i] = m[node.keys[i]]

Has(node, k) == \E i \in 1..Len(node.keys) : node.keys[i] = k

Holds(t, g, m) ==
    /\ \A n \in LeavesOf(t, g) : LeafHolds(t.nodes[n], m)
    /\ \A k \in DOMAIN m : \E n \in LeavesOf(t, g) : Has(t.nodes[n], k)

\* a sorted map
Maps == UNION {[S -> Int] : S \in SUBSET Key}

LeavesFit(t, g, m) ==
    m \in Maps /\ t.size = Cardinality(DOMAIN m) /\ ChainFits(t, g) /\ Holds(t, g, m)

(* What leaves the leaves as they are leaves the map.                      *)
LEMMA SameLeavesFit ==
    ASSUME NEW t, NEW g, NEW u, NEW h, NEW m, LeavesFit(t, g, m), SameLeaves(t, g, u, h)
    PROVE  LeavesFit(u, h, m)
<1>1. /\ m \in Maps /\ t.size = Cardinality(DOMAIN m) /\ ChainFits(t, g) /\ Holds(t, g, m)
  BY DEF LeavesFit
<1>2. /\ u.size = t.size /\ Len(t.nodes) \in Nat /\ Len(u.nodes) \in Nat /\ Len(t.nodes) <= Len(u.nodes)
      /\ \A n \in 1..Len(u.nodes) : h.level[n] = 0 => n \in 1..Len(t.nodes) /\ g.level[n] = 0
      /\ \A n \in 1..Len(t.nodes) :
          g.level[n] = 0 =>
             /\ h.level[n] = 0 /\ h.lo[n] = g.lo[n] /\ h.hi[n] = g.hi[n]
             /\ u.nodes[n].keys = t.nodes[n].keys /\ u.nodes[n].vals = t.nodes[n].vals
             /\ u.nodes[n].next = t.nodes[n].next
  BY DEF SameLeaves
<1>3. \A n \in 1..Len(t.nodes) : n \in 1..Len(u.nodes) BY ONLY <1>2
<1>4. LeavesOf(u, h) = LeavesOf(t, g) BY ONLY <1>2, <1>3 DEF LeavesOf
<1>5. \A n \in LeavesOf(t, g) :
         /\ h.lo[n] = g.lo[n] /\ h.hi[n] = g.hi[n]
         /\ u.nodes[n].keys = t.nodes[n].keys /\ u.nodes[n].vals = t.nodes[n].vals
         /\ u.nodes[n].next = t.nodes[n].next
  BY ONLY <1>2 DEF LeavesOf
<1>6. ChainFits(u, h) BY ONLY <1>1, <1>4, <1>5 DEF ChainFits
<1>7. Holds(u, h, m)
  <2>1. \A n \in LeavesOf(t, g) : LeafHolds(t.nodes[n], m) => LeafHolds(u.nodes[n], m)
    BY ONLY <1>5 DEF LeafHolds
  <2>2. \A n \in LeavesOf(t, g) : \A k : Has(t.nodes[n], k) => Has(u.nodes[n], k)
    BY ONLY <1>5 DEF Has
  <2>3. QED BY ONLY <1>1, <1>4, <2>1, <2>2 DEF Holds
<1>8. QED BY ONLY <1>1, <1>2, <1>6, <1>7 DEF LeavesFit

\* u is t with other keys and values in the leaf n
LeafChange(u, t, n, ks, vs, size) ==
    /\ u \in Tree /\ u.root = t.root /\ u.size = size /\ Len(u.nodes) = Len(t.nodes)
    /\ \A o \in 1..Len(t.nodes) : o # n => u.nodes[o] = t.nodes[o]
    /\ u.nodes[n].keys = ks /\ u.nodes[n].vals = vs /\ u.nodes[n].kids = t.nodes[n].kids
    /\ u.nodes[n].parent = t.nodes[n].parent /\ u.nodes[n].next = t.nodes[n].next

(* The tree fits if they fit in the leaf.                                  *)
LEMMA LeafChangeFits ==
    ASSUME NEW t, NEW g, Fits(t, g, 0, 0, 0), NEW N \in Nat, N = Len(t.nodes), NEW n \in 1..N,
           g.level[n] = 0, NEW u, NEW ks, NEW vs, NEW size, LeafChange(u, t, n, ks, vs, size),
           KeysFit(ks, g.lo[n], g.hi[n]), Len(vs) = Len(ks),
           NEW q, IF q = n THEN Len(ks) <= Order + 1 ELSE q = 0 /\ Len(ks) <= Order
    PROVE  Fits(u, g, 0, 0, q)
<1>1. /\ N = Len(t.nodes) /\ n \in 1..N /\ g.level[n] = 0 /\ N \in Nat
      /\ KeysFit(ks, g.lo[n], g.hi[n]) /\ Len(vs) = Len(ks)
      /\ IF q = n THEN Len(ks) <= Order + 1 ELSE q = 0 /\ Len(ks) <= Order
  OBVIOUS
<1>2. t \in Tree /\ g \in Frame(N) /\ RootFits(t, g, 0, 0) /\ \A o \in 1..N : NodeFits(t, g, 0, 0, 0, o)
  BY DEF Fits
<1>3. /\ u \in Tree /\ u.root = t.root /\ Len(u.nodes) = N
      /\ \A o \in 1..N : o # n => u.nodes[o] = t.nodes[o]
      /\ u.nodes[n].keys = ks /\ u.nodes[n].vals = vs /\ u.nodes[n].kids = t.nodes[n].kids
      /\ u.nodes[n].parent = t.nodes[n].parent /\ u.nodes[n].next = t.nodes[n].next
  BY <1>1 DEF LeafChange
<1>4. \A o \in 1..N : u.nodes[o].parent = t.nodes[o].parent /\ u.nodes[o].kids = t.nodes[o].kids
  BY ONLY <1>3
<1>5. ASSUME NEW o \in 1..N, IsChild(t, o) PROVE IsChild(u, o)
  <2>1. PICK p : p = t.nodes[o].parent OBVIOUS
  <2>2. p \in 1..N /\ \E i \in 1..Len(t.nodes[p].kids) : t.nodes[p].kids[i] = o
    BY ONLY <1>1, <1>5, <2>1 DEF IsChild
  <2>3. u.nodes[o].parent = p /\ u.nodes[p].kids = t.nodes[p].kids BY ONLY <1>4, <2>1, <2>2, o \in 1..N
  <2>4. QED BY ONLY <1>3, <2>2, <2>3 DEF IsChild
<1>6. ASSUME NEW o \in 1..N, o # n, BranchFits(t, g, 0, 0, o) PROVE BranchFits(u, g, 0, 0, o)
  <2>1. u.nodes[o] = t.nodes[o] BY ONLY <1>3, <1>6
  <2>2. \A c \in 1..N : t.nodes[c].parent = o => u.nodes[c].parent = o BY ONLY <1>4
  <2>3. QED BY ONLY <1>1, <1>3, <1>6, <2>1, <2>2, BranchStays
<1>7. ASSUME NEW o \in 1..N PROVE NodeFits(u, g, 0, 0, q, o)
  <2>1. NodeFits(t, g, 0, 0, 0, o) /\ o # 0 BY ONLY <1>2, o \in 1..N
  <2>2. o # u.root => IsChild(u, o) BY ONLY <1>3, <1>5, <2>1, o \in 1..N DEF NodeFits
  <2>3. g.lo[o] < g.hi[o] BY ONLY <2>1 DEF NodeFits
  <2>4. CASE o = n
    <3>1. LeafShape(u.nodes[n]) BY ONLY <1>1, <1>3, <2>1, <2>4 DEF NodeFits, LeafShape
    <3>2. Len(ks) <= IF n = q THEN Order + 1 ELSE Order BY ONLY <1>1
    <3>3. QED BY ONLY <1>1, <1>3, <2>2, <2>3, <2>4, <3>1, <3>2 DEF NodeFits
  <2>5. CASE o # n
    <3>1. u.nodes[o] = t.nodes[o] BY ONLY <1>3, <2>5
    <3>2. o # q BY ONLY <1>1, <2>1, <2>5
    <3>3. Len(u.nodes[o].keys) <= Order BY ONLY <2>1, <3>1 DEF NodeFits
    <3>4. IF g.level[o] = 0 THEN LeafShape(u.nodes[o]) ELSE BranchFits(u, g, 0, 0, o)
      BY ONLY <1>6, <2>1, <2>5, <3>1 DEF NodeFits
    <3>5. KeysFit(u.nodes[o].keys, g.lo[o], g.hi[o]) BY ONLY <2>1, <3>1 DEF NodeFits
    <3>6. QED BY ONLY <2>2, <2>3, <3>2, <3>3, <3>4, <3>5 DEF NodeFits
  <2>6. QED BY ONLY <2>4, <2>5
<1>8. RootFits(u, g, 0, 0)
  <2>1. t.root \in 1..N BY ONLY <1>1, <1>2 DEF RootFits
  <2>2. QED BY ONLY <1>1, <1>2, <1>3, <1>4, <2>1 DEF RootFits
<1>9. QED BY ONLY <1>2, <1>3, <1>7, <1>8 DEF Fits

\* new is m with the pairs of ks and vs for those of the leaf n
Rewrites(t, g, n, ks, vs, size, m, new) ==
    /\ size = Cardinality(DOMAIN new)
    /\ \A i \in 1..Len(ks) : ks[i] \in DOMAIN new /\ vs[i] = new[ks[i]]
    /\ \A k \in DOMAIN new :
          \/ \E i \in 1..Len(ks) : ks[i] = k
          \/ k \in DOMAIN m /\ ~Has(t.nodes[n], k)
    /\ \A k \in DOMAIN m :
          \/ g.lo[n] <= k /\ k < g.hi[n]
          \/ k \in DOMAIN new /\ new[k] = m[k]

(* The map changes in the range of the leaf.                               *)
LEMMA LeafChangeHolds ==
    ASSUME NEW t, NEW g, Fits(t, g, 0, 0, 0), NEW N \in Nat, N = Len(t.nodes), NEW n \in 1..N,
           g.level[n] = 0, NEW u, NEW ks, NEW vs, NEW size, LeafChange(u, t, n, ks, vs, size),
           NEW m, LeavesFit(t, g, m), NEW new \in Maps, Rewrites(t, g, n, ks, vs, size, m, new)
    PROVE  LeavesFit(u, g, new)
<1>1. /\ N = Len(t.nodes) /\ n \in 1..N /\ g.level[n] = 0 /\ N \in Nat /\ new \in Maps
      /\ size = Cardinality(DOMAIN new)
      /\ \A i \in 1..Len(ks) : ks[i] \in DOMAIN new /\ vs[i] = new[ks[i]]
      /\ \A k \in DOMAIN new :
            \/ \E i \in 1..Len(ks) : ks[i] = k
            \/ k \in DOMAIN m /\ ~Has(t.nodes[n], k)
      /\ \A k \in DOMAIN m :
            \/ g.lo[n] <= k /\ k < g.hi[n]
            \/ k \in DOMAIN new /\ new[k] = m[k]
  BY DEF Rewrites
<1>2. t \in Tree /\ g \in Frame(N) /\ \A o \in 1..N : NodeFits(t, g, 0, 0, 0, o)
  BY DEF Fits
<1>3. /\ u \in Tree /\ u.size = size /\ Len(u.nodes) = N
      /\ \A o \in 1..N : o # n => u.nodes[o] = t.nodes[o]
      /\ u.nodes[n].keys = ks /\ u.nodes[n].vals = vs
      /\ u.nodes[n].next = t.nodes[n].next
  BY <1>1 DEF LeafChange
<1>4. ChainFits(t, g) /\ Holds(t, g, m) BY DEF LeavesFit
<1>5. LeavesOf(u, g) = LeavesOf(t, g) BY ONLY <1>1, <1>3 DEF LeavesOf
<1>6. \A o \in LeavesOf(t, g) : o \in 1..N BY ONLY <1>1 DEF LeavesOf
<1>7. \A o \in LeavesOf(t, g) : u.nodes[o].next = t.nodes[o].next BY ONLY <1>3, <1>6
<1>8. ChainFits(u, g) BY ONLY <1>4, <1>5, <1>7 DEF ChainFits
<1>9. n \in LeavesOf(t, g) BY ONLY <1>1 DEF LeavesOf
<1>10. ASSUME NEW o \in LeavesOf(t, g) PROVE LeafHolds(u.nodes[o], new)
  <2>1. CASE o = n BY ONLY <1>1, <1>3, <2>1 DEF LeafHolds
  <2>2. CASE o # n
    <3>1. u.nodes[o] = t.nodes[o] BY ONLY <1>3, <1>6, <2>2, o \in LeavesOf(t, g)
    <3>2. ASSUME NEW i \in 1..Len(t.nodes[o].keys)
          PROVE  t.nodes[o].keys[i] \in DOMAIN new /\ t.nodes[o].vals[i] = new[t.nodes[o].keys[i]]
      <4>1. PICK k : k = t.nodes[o].keys[i] OBVIOUS
      <4>2. k \in DOMAIN m /\ t.nodes[o].vals[i] = m[k]
        BY ONLY <1>4, <4>1, o \in LeavesOf(t, g), i \in 1..Len(t.nodes[o].keys) DEF Holds, LeafHolds
      <4>3. NodeFits(t, g, 0, 0, 0, o) BY ONLY <1>2, <1>6, o \in LeavesOf(t, g)
      <4>4. k \in Int /\ g.lo[o] <= k /\ k < g.hi[o]
        <5>1. KeysFit(t.nodes[o].keys, g.lo[o], g.hi[o]) BY ONLY <4>3 DEF NodeFits
        <5>2. QED BY ONLY <4>1, <5>1, ElementOfSeq, i \in 1..Len(t.nodes[o].keys)
                  DEF KeysFit, Ascending
      <4>5. g.hi[n] <= g.lo[o] \/ g.hi[o] <= g.lo[n]
        BY ONLY <1>4, <1>9, <2>2, o \in LeavesOf(t, g) DEF ChainFits
      <4>6. g.lo[o] \in Int /\ g.hi[o] \in Int /\ g.lo[n] \in Int /\ g.hi[n] \in Int
        BY ONLY <1>1, <1>2, <1>6, o \in LeavesOf(t, g) DEF Frame
      <4>7. ~(g.lo[n] <= k /\ k < g.hi[n]) BY ONLY <4>4, <4>5, <4>6
      <4>8. QED BY ONLY <1>1, <4>1, <4>2, <4>7
    <3>3. QED BY ONLY <3>1, <3>2 DEF LeafHolds
  <2>3. QED BY ONLY <2>1, <2>2
<1>11. ASSUME NEW k \in DOMAIN new PROVE \E o \in LeavesOf(t, g) : Has(u.nodes[o], k)
  <2>1. CASE \E i \in 1..Len(ks) : ks[i] = k BY ONLY <1>3, <1>9, <2>1 DEF Has
  <2>2. CASE k \in DOMAIN m /\ ~Has(t.nodes[n], k)
    <3>1. PICK o \in LeavesOf(t, g) : Has(t.nodes[o], k) BY ONLY <1>4, <2>2 DEF Holds
    <3>2. u.nodes[o] = t.nodes[o] BY ONLY <1>3, <1>6, <2>2, <3>1
    <3>3. QED BY ONLY <3>1, <3>2
  <2>3. QED BY ONLY <1>1, <2>1, <2>2, k \in DOMAIN new
<1>12. Holds(u, g, new) BY ONLY <1>5, <1>10, <1>11 DEF Holds
<1>13. QED BY ONLY <1>1, <1>3, <1>8, <1>12 DEF LeavesFit

\* u is t with the leaf p split after its first m keys
LeafCut(u, t, p, m) ==
    LET x == Len(t.nodes) + 1 leaf == t.nodes[p]
    IN  /\ u \in Tree /\ u.root = t.root /\ u.size = t.size /\ Len(u.nodes) = x
        /\ \A n \in 1..Len(t.nodes) : n # p => u.nodes[n] = t.nodes[n]
        /\ u.nodes[p].kids = leaf.kids /\ u.nodes[p].parent = leaf.parent /\ u.nodes[p].next = x
        /\ u.nodes[x].kids = <<>> /\ u.nodes[x].parent = leaf.parent /\ u.nodes[x].next = leaf.next
        /\ IsFront(u.nodes[p].keys, leaf.keys, m) /\ IsFront(u.nodes[p].vals, leaf.vals, m)
        /\ IsBack(u.nodes[x].keys, leaf.keys, m) /\ IsBack(u.nodes[x].vals, leaf.vals, m)

Half(n) == n \div 2

(* What split_leaf does.                                                   *)
LEMMA SplitLeafIs ==
    ASSUME NEW t \in Tree, NEW p \in 1..Len(t.nodes),
           NEW m \in Nat, m = Half(Len(t.nodes[p].keys)), m < Len(t.nodes[p].keys),
           Len(t.nodes[p].vals) = Len(t.nodes[p].keys),
           NEW c, c = split_leaf(t, p)
    PROVE  /\ LeafCut(c.tree, t, p, m)
           /\ c.left = p /\ c.right = Len(t.nodes) + 1 /\ c.key = t.nodes[p].keys[m + 1]
<1> DEFINE leaf == t.nodes[p]
           keys == leaf.keys
           vals == leaf.vals
           N == Len(t.nodes)
           x == N + 1
           mid == Len(keys) \div 2
           k1 == SubSeq(keys, 1, mid)
           v1 == SubSeq(vals, 1, mid)
           k2 == SubSeq(keys, mid + 1, Len(keys))
           v2 == SubSeq(vals, mid + 1, Len(vals))
           kept == [leaf EXCEPT !.keys = k1, !.vals = v1, !.next = x]
           moved == Leaf(k2, v2, leaf.parent, leaf.next)
           ns1 == [t.nodes EXCEPT ![p] = kept]
           ns2 == Append(ns1, moved)
           u == [t EXCEPT !.nodes = ns2]
<1>1. t.nodes \in Seq(Record) /\ leaf \in Record /\ keys \in Seq(Key) /\ vals \in Seq(Int)
      /\ N \in Nat /\ DOMAIN t.nodes = 1..N /\ Len(keys) \in Nat /\ Len(vals) = Len(keys)
      /\ t \in Tree /\ p \in 1..N /\ m = mid /\ m \in Nat /\ m < Len(keys)
  BY NodeTypes DEF Half
<1>2. mid \in 0..Len(keys) /\ mid \in 0..Len(vals)
  <2> HIDE DEF mid, keys, vals
  <2>1. QED BY ONLY <1>1
<1>3. c = Call(u, p, moved.keys[1], x)
  BY Zenon DEF split_leaf, Halved, Leaf
<1>4. k1 \in Seq(Key) /\ IsFront(k1, keys, m) /\ k2 \in Seq(Key) /\ IsBack(k2, keys, m)
  BY ONLY <1>1, <1>2, CutIs
<1>5. v1 \in Seq(Int) /\ IsFront(v1, vals, m) /\ v2 \in Seq(Int) /\ IsBack(v2, vals, m)
  BY ONLY <1>1, <1>2, CutIs
<1>6. <<>> \in Seq(Nat) /\ x \in Nat BY ONLY <1>1
<1> HIDE DEF k1, k2, v1, v2, x
<1>7. /\ kept \in Record /\ kept.keys = k1 /\ kept.vals = v1 /\ kept.kids = leaf.kids
      /\ kept.parent = leaf.parent /\ kept.next = x
  BY ONLY <1>1, <1>4, <1>5, <1>6 DEF Record
<1>8. /\ moved \in Record /\ moved.keys = k2 /\ moved.vals = v2 /\ moved.kids = <<>>
      /\ moved.parent = leaf.parent /\ moved.next = leaf.next
  BY ONLY <1>1, <1>4, <1>5, <1>6 DEF Record, Leaf
<1> HIDE DEF kept, moved
<1>9. /\ ns1 \in Seq(Record) /\ Len(ns1) = N
      /\ \A n \in 1..N : ns1[n] = IF n = p THEN kept ELSE t.nodes[n]
  BY ONLY <1>1, <1>7, ExceptSeq
<1> HIDE DEF ns1
<1>10. /\ ns2 \in Seq(Record) /\ Len(ns2) = x /\ ns2[x] = moved
       /\ \A n \in 1..N : ns2[n] = ns1[n]
  <2>1. /\ ns2 \in Seq(Record) /\ Len(ns2) = Len(ns1) + 1 /\ ns2[Len(ns2)] = moved
        /\ \A n \in 1..Len(ns1) : ns2[n] = ns1[n]
    BY ONLY <1>8, <1>9, Pushed
  <2>2. QED BY ONLY <1>9, <2>1 DEF x
<1> HIDE DEF ns2
<1>11. u \in Tree /\ u.root = t.root /\ u.size = t.size /\ u.nodes = ns2
  BY ONLY <1>1, <1>10 DEF Tree
<1>12. c.tree = u /\ c.left = p /\ c.right = x /\ c.key = keys[m + 1]
  <2>1. c.tree = u /\ c.left = p /\ c.right = x /\ c.key = k2[1] BY ONLY <1>3, <1>8 DEF Call
  <2>2. Len(k2) = Len(keys) - m /\ \A i \in 1..(Len(keys) - m) : k2[i] = keys[m + i]
    BY ONLY <1>4 DEF IsBack
  <2> HIDE DEF keys, mid
  <2>3. 1 \in 1..(Len(keys) - m) BY ONLY <1>1
  <2>4. k2[1] = keys[m + 1] BY ONLY <2>2, <2>3
  <2>5. QED BY ONLY <2>1, <2>4 DEF keys
<1>13. \A n \in 1..N : n # p => u.nodes[n] = t.nodes[n] BY ONLY <1>9, <1>10, <1>11
<1>14. u.nodes[p] = kept /\ u.nodes[x] = moved BY ONLY <1>1, <1>9, <1>10, <1>11
<1> HIDE DEF u
<1>15. LeafCut(u, t, p, m)
  BY ONLY <1>4, <1>5, <1>7, <1>8, <1>10, <1>11, <1>13, <1>14 DEF LeafCut, x
<1>16. QED BY ONLY <1>12, <1>15 DEF x

(* A leaf split in the middle.                                             *)
LEMMA LeafCutFits ==
    ASSUME NEW t, NEW g, NEW p, Fits(t, g, 0, 0, p), g.level[p] = 0,
           NEW N \in Nat, N = Len(t.nodes), p \in 1..N, NEW x \in Nat, x = N + 1,
           NEW m \in Nat, 1 <= m, m < Len(t.nodes[p].keys),
           NEW k, k = t.nodes[p].keys[m + 1],
           NEW h, h = Parted(g, N, p, k), NEW u, LeafCut(u, t, p, m)
    PROVE  Fits(u, h, p, x, 0) /\ k \in Key /\ k \in Int /\ g.lo[p] < k /\ k < g.hi[p]
<1> DEFINE keys == t.nodes[p].keys
           len == Len(keys)
           front == u.nodes[p].keys
           back == u.nodes[x].keys
<1>1. /\ Fits(t, g, 0, 0, p) /\ N = Len(t.nodes) /\ p \in 1..N /\ x = N + 1 /\ x # 0 /\ x # p
      /\ m \in Nat /\ 1 <= m /\ m < len /\ k = keys[m + 1] /\ x \in 1..x /\ p \in 1..x
      /\ g.level[p] = 0 /\ N \in Nat /\ LeafCut(u, t, p, m) /\ h = Parted(g, N, p, k)
  OBVIOUS
<1>2. t \in Tree /\ g \in Frame(N) /\ RootFits(t, g, 0, 0) /\ NodeFits(t, g, 0, 0, p, p)
  BY ONLY <1>1 DEF Fits
<1>3. LeafShape(t.nodes[p]) /\ KeysFit(keys, g.lo[p], g.hi[p]) /\ len <= Order + 1
  BY ONLY <1>1, <1>2 DEF NodeFits
<1>4. /\ u \in Tree /\ u.root = t.root /\ u.size = t.size /\ Len(u.nodes) = x
      /\ \A n \in 1..N : n # p => u.nodes[n] = t.nodes[n]
      /\ u.nodes[p].kids = t.nodes[p].kids /\ u.nodes[p].parent = t.nodes[p].parent
      /\ u.nodes[x].kids = <<>> /\ u.nodes[x].parent = t.nodes[p].parent
      /\ IsFront(front, keys, m) /\ IsFront(u.nodes[p].vals, t.nodes[p].vals, m)
      /\ IsBack(back, keys, m) /\ IsBack(u.nodes[x].vals, t.nodes[p].vals, m)
  BY ONLY <1>1 DEF LeafCut
<1>5. keys \in Seq(Key) /\ front \in Seq(Key) /\ back \in Seq(Key) /\ len \in Nat
  BY ONLY <1>1, <1>2, <1>4, NodeTypes
<1>6. g.lo[p] \in Int /\ g.hi[p] \in Int /\ Order \in Nat
  BY ONLY <1>1, <1>2, OrderAssumption DEF Frame
<1>7. /\ KeysFit(front, g.lo[p], k) /\ KeysFit(back, k, g.hi[p])
      /\ k \in Key /\ k \in Int /\ k < g.hi[p] /\ g.lo[p] < k
  <2>1. PICK M \in Nat : M = m + 1 BY ONLY <1>1
  <2> HIDE DEF len
  <2>2. M \in 1..len /\ m = M - 1 /\ M > 1 /\ m \in {M - 1, M} BY ONLY <1>1, <1>5, <2>1
  <2>3. IsFront(front, keys, M - 1) BY ONLY <1>4, <2>2
  <2>4. keys[M] = k BY ONLY <1>1, <2>1
  <2> HIDE DEF keys, front, back
  <2>5. M \in 1..Len(keys) BY ONLY <2>2 DEF len
  <2>6. /\ KeysFit(front, g.lo[p], keys[M]) /\ KeysFit(back, keys[M], g.hi[p])
        /\ keys[M] \in Key /\ keys[M] \in Int /\ keys[M] < g.hi[p]
        /\ M > 1 => g.lo[p] < keys[M]
    <3>1. /\ keys \in Seq(Key) /\ g.lo[p] \in Int /\ g.hi[p] \in Int
          /\ KeysFit(keys, g.lo[p], g.hi[p]) /\ m \in Nat /\ m \in {M - 1, M}
          /\ front \in Seq(Key) /\ back \in Seq(Key) /\ IsBack(back, keys, m)
      BY ONLY <1>1, <1>3, <1>4, <1>5, <1>6, <2>2
    <3>2. QED BY ONLY <2>3, <2>5, <3>1, M \in Nat, HalvesFit
  <2>7. QED BY ONLY <2>2, <2>4, <2>6
<1>8. /\ h.lo[p] = g.lo[p] /\ h.hi[p] = k /\ h.lo[x] = k /\ h.hi[x] = g.hi[p]
      /\ h.level[p] = 0 /\ h.level[x] = 0
  <2>1. IsParted(h, g, N, x, p, k) BY ONLY <1>1, <1>2, <1>7, PartedIs
  <2>2. QED BY ONLY <1>1, <2>1 DEF IsParted
<1>9. /\ Len(front) = m /\ Len(u.nodes[p].vals) = m
      /\ Len(back) = len - m /\ Len(u.nodes[x].vals) = len - m
  <2>1. Len(t.nodes[p].vals) = len BY ONLY <1>3 DEF LeafShape
  <2>2. QED BY ONLY <1>4, <2>1 DEF IsFront, IsBack
<1>10. Len(front) <= Order /\ Len(back) <= Order
  <2> HIDE DEF len
  <2>1. m <= Order /\ len - m <= Order BY ONLY <1>1, <1>3, <1>5, <1>6
  <2>2. QED BY ONLY <1>9, <2>1
<1>11. LeafShape(u.nodes[p]) /\ LeafShape(u.nodes[x])
  BY ONLY <1>3, <1>4, <1>9 DEF LeafShape
<1>12. HalfFits(u, h, p, x, p) /\ HalfFits(u, h, p, x, x)
  BY ONLY <1>7, <1>8, <1>10, <1>11 DEF HalfFits
<1>13. Split(u, t, p) BY ONLY <1>1, <1>4 DEF Split
<1>14. \A n \in 1..N : n # t.root /\ t.nodes[n].parent = p => IsChild(u, n)
  <2> SUFFICES ASSUME NEW n \in 1..N, n # t.root, t.nodes[n].parent = p PROVE FALSE OBVIOUS
  <2>1. g.level[p] = g.level[n] + 1
    <3>1. PICK z : z = 0 OBVIOUS
    <3>2. n # z /\ n \in 1..Len(t.nodes) /\ Fits(t, g, z, z, p) BY ONLY <1>1, <3>1, n \in 1..N
    <3>3. PICK a : a = t.nodes[n].parent OBVIOUS
    <3>4. g.level[a] = g.level[n] + 1 BY ONLY <3>2, <3>3, n # t.root, ParentIs
    <3>5. QED BY ONLY <3>3, <3>4, t.nodes[n].parent = p
  <2>2. g.level[n] \in Nat BY ONLY <1>2, n \in 1..N DEF Frame
  <2>3. QED BY ONLY <1>1, <2>1, <2>2
<1>15. Fits(u, h, p, x, 0)
  BY ONLY <1>1, <1>7, <1>12, <1>13, <1>14, N \in Nat, x \in Nat, SplitFits
<1>16. QED BY ONLY <1>7, <1>15

(* The halves take over what the leaf had of the map.                      *)
LEMMA LeafCutHolds ==
    ASSUME NEW t, NEW g, NEW p, t \in Tree, g \in Frame(Len(t.nodes)), NodeFits(t, g, 0, 0, p, p),
           g.level[p] = 0,
           NEW N \in Nat, N = Len(t.nodes), p \in 1..N, NEW x \in Nat, x = N + 1,
           NEW m \in Nat, m < Len(t.nodes[p].keys), NEW k \in Int, g.lo[p] < k, k < g.hi[p],
           NEW h, h = Parted(g, N, p, k), NEW u, LeafCut(u, t, p, m),
           NEW mp, LeavesFit(t, g, mp)
    PROVE  LeavesFit(u, h, mp)
<1> DEFINE leaf == t.nodes[p]
           len == Len(leaf.keys)
           A == u.nodes[p]
           B == u.nodes[x]
           old == LeavesOf(t, g)
           new == LeavesOf(u, h)
<1>1. /\ N = Len(t.nodes) /\ p \in 1..N /\ x = N + 1 /\ x # 0 /\ x # p /\ x \notin 1..N
      /\ m \in Nat /\ m < len /\ x \in 1..x /\ p \in 1..x /\ N \in Nat
      /\ k \in Int /\ g.lo[p] < k /\ k < g.hi[p] /\ t \in Tree /\ g \in Frame(N)
      /\ g.level[p] = 0 /\ h = Parted(g, N, p, k) /\ LeafCut(u, t, p, m)
      /\ \A n \in 1..N : n \in 1..x
      /\ \A n \in 1..x : n \in 1..N \/ n = x
  OBVIOUS
<1>2. /\ mp \in Maps /\ t.size = Cardinality(DOMAIN mp) /\ ChainFits(t, g) /\ Holds(t, g, mp)
  BY ONLY LeavesFit(t, g, mp) DEF LeavesFit
<1>3. /\ u.size = t.size /\ Len(u.nodes) = x
      /\ \A n \in 1..N : n # p => u.nodes[n] = t.nodes[n]
      /\ A.next = x /\ B.next = leaf.next
      /\ IsFront(A.keys, leaf.keys, m) /\ IsFront(A.vals, leaf.vals, m)
      /\ IsBack(B.keys, leaf.keys, m) /\ IsBack(B.vals, leaf.vals, m)
  BY ONLY <1>1 DEF LeafCut
<1>4. len \in Nat /\ Len(leaf.vals) = len
  <2>1. NodeFits(t, g, 0, 0, p, p) OBVIOUS
  <2>2. LeafShape(leaf) BY ONLY <1>1, <2>1 DEF NodeFits
  <2>3. len \in Nat BY ONLY <1>1, NodeTypes
  <2>4. QED BY ONLY <2>2, <2>3 DEF LeafShape
<1>5. /\ h.lo[x] = k /\ h.hi[x] = g.hi[p] /\ h.level[x] = 0 /\ h.hi[p] = k
      /\ \A n \in 1..N : h.lo[n] = g.lo[n] /\ h.level[n] = g.level[n]
      /\ \A n \in 1..N : n # p => h.hi[n] = g.hi[n]
  <2>1. IsParted(h, g, N, x, p, k) BY ONLY <1>1, PartedIs
  <2>2. QED BY ONLY <1>1, <2>1 DEF IsParted
<1>6. p \in old /\ x \notin old /\ \A n : n \in old <=> n \in 1..N /\ g.level[n] = 0
  BY ONLY <1>1 DEF LeavesOf
<1>7. new = old \cup {x}
  <2>1. \A n : n \in new <=> n \in 1..x /\ h.level[n] = 0 BY ONLY <1>3 DEF LeavesOf
  <2>2. \A n \in 1..N : n \in 1..x /\ h.level[n] = g.level[n] BY ONLY <1>1, <1>5
  <2>3. h.level[x] = 0 /\ x \in 1..x /\ \A n \in 1..x : n \in 1..N \/ n = x BY ONLY <1>1, <1>5
  <2> HIDE DEF new, old
  <2>4. \A n \in old : n \in new BY ONLY <1>6, <2>1, <2>2
  <2>5. x \in new BY ONLY <2>1, <2>3
  <2>6. \A n \in new : n \in old \/ n = x BY ONLY <1>6, <2>1, <2>2, <2>3
  <2>7. QED BY ONLY <2>4, <2>5, <2>6
<1>8. \A n \in old : g.lo[n] \in Int /\ g.hi[n] \in Int BY ONLY <1>1, <1>6 DEF Frame
<1>9. \A n \in old : n # p => u.nodes[n] = t.nodes[n] /\ h.hi[n] = g.hi[n]
  BY ONLY <1>3, <1>5, <1>6
<1>10. \A n \in old : h.lo[n] = g.lo[n] BY ONLY <1>5, <1>6
<1>11. Infinity \in Int BY ONLY InfinityIs
<1> HIDE DEF new, old, A, B, leaf
<1>12. /\ \A n \in old :
             /\ g.hi[n] <= Infinity
             /\ IF g.hi[n] = Infinity THEN t.nodes[n].next = 0
                ELSE t.nodes[n].next \in old /\ g.lo[t.nodes[n].next] = g.hi[n]
       /\ \A n, o \in old : n # o => g.hi[n] <= g.lo[o] \/ g.hi[o] <= g.lo[n]
  BY ONLY <1>2 DEF ChainFits, old
<1>13. ASSUME NEW n \in new
       PROVE  /\ h.hi[n] <= Infinity
              /\ IF h.hi[n] = Infinity THEN u.nodes[n].next = 0
                 ELSE u.nodes[n].next \in new /\ h.lo[u.nodes[n].next] = h.hi[n]
  <2>1. n = x \/ n = p \/ (n \in old /\ n # p) BY ONLY <1>7, n \in new
  <2>2. CASE n = x
    <3>1. u.nodes[n].next = t.nodes[p].next /\ h.hi[n] = g.hi[p] BY ONLY <1>3, <1>5, <2>2 DEF A, B, leaf
    <3>2. \A o \in old : o \in new /\ h.lo[o] = g.lo[o] BY ONLY <1>7, <1>10
    <3>3. QED BY ONLY <1>6, <1>12, <3>1, <3>2
  <2>3. CASE n = p
    <3>1. u.nodes[n].next = x /\ h.hi[n] = k /\ h.lo[x] = k /\ x \in new
      BY ONLY <1>3, <1>5, <1>7, <2>3 DEF A
    <3>2. k < Infinity /\ k <= Infinity /\ k # Infinity
      BY ONLY <1>1, <1>6, <1>8, <1>11, <1>12
    <3>3. QED BY ONLY <3>1, <3>2
  <2>4. CASE n \in old /\ n # p
    <3>1. u.nodes[n].next = t.nodes[n].next /\ h.hi[n] = g.hi[n] BY ONLY <1>9, <2>4
    <3>2. \A o \in old : o \in new /\ h.lo[o] = g.lo[o] BY ONLY <1>7, <1>10
    <3>3. QED BY ONLY <1>12, <2>4, <3>1, <3>2
  <2>5. QED BY ONLY <2>1, <2>2, <2>3, <2>4
<1> DEFINE Apart(n, o) == h.hi[n] <= h.lo[o] \/ h.hi[o] <= h.lo[n]
<1>14. \A n, o \in new : n # o => Apart(n, o)
  <2>1. \A n \in old : n # p => h.hi[n] <= g.lo[p] \/ g.hi[p] <= h.lo[n]
    BY ONLY <1>6, <1>9, <1>10, <1>12
  <2>2. ASSUME NEW n \in old, n # p PROVE Apart(n, p) /\ Apart(n, x)
    <3>1. h.hi[n] \in Int /\ h.lo[n] \in Int BY ONLY <1>8, <1>9, <1>10, <2>2
    <3>2. g.lo[p] \in Int /\ g.hi[p] \in Int BY ONLY <1>6, <1>8
    <3>3. h.hi[n] <= g.lo[p] \/ g.hi[p] <= h.lo[n] BY ONLY <2>1, <2>2
    <3>4. h.lo[p] = g.lo[p] /\ h.hi[p] = k /\ h.lo[x] = k /\ h.hi[x] = g.hi[p]
      BY ONLY <1>5, <1>6, <1>10
    <3>5. h.hi[n] <= g.lo[p] => h.hi[n] <= k BY ONLY <1>1, <3>1, <3>2
    <3>6. g.hi[p] <= h.lo[n] => k <= h.lo[n] BY ONLY <1>1, <3>1, <3>2
    <3>7. QED BY ONLY <3>3, <3>4, <3>5, <3>6
  <2>3. ASSUME NEW n \in old, NEW o \in old, n # p, o # p, n # o PROVE Apart(n, o)
    BY ONLY <1>9, <1>10, <1>12, <2>3
  <2>4. Apart(p, x) BY ONLY <1>1, <1>5
  <2>5. \A n \in new : n = x \/ n = p \/ (n \in old /\ n # p) BY ONLY <1>7
  <2>6. \A n, o : Apart(n, o) => Apart(o, n) OBVIOUS
  <2> HIDE DEF Apart
  <2>7. QED BY ONLY <2>2, <2>3, <2>4, <2>5, <2>6
<1>15. ChainFits(u, h) BY ONLY <1>13, <1>14 DEF ChainFits, new
<1>16. Holds(u, h, mp)
  <2>1. /\ \A n \in old : LeafHolds(t.nodes[n], mp)
        /\ \A j \in DOMAIN mp : \E n \in old : Has(t.nodes[n], j)
    BY ONLY <1>2 DEF Holds, old
  <2>2. /\ Len(A.keys) = m /\ \A i \in 1..m : A.keys[i] = leaf.keys[i] /\ A.vals[i] = leaf.vals[i]
        /\ Len(B.keys) = len - m
        /\ \A i \in 1..(len - m) : B.keys[i] = leaf.keys[m + i] /\ B.vals[i] = leaf.vals[m + i]
    BY ONLY <1>3, <1>4 DEF IsFront, IsBack
  <2> HIDE DEF len
  <2>3. /\ \A i \in 1..m : i \in 1..len
        /\ \A i \in 1..(len - m) : m + i \in 1..len
        /\ \A i \in 1..len : i \in 1..m \/ (i - m \in 1..(len - m) /\ m + (i - m) = i)
    <3>1. m \in Nat /\ len \in Nat /\ m < len BY ONLY <1>1, <1>4
    <3>2. \A i \in 1..m : i \in 1..len BY ONLY <3>1
    <3>3. \A i \in 1..(len - m) : m + i \in 1..len BY ONLY <3>1
    <3>4. \A i \in 1..len : ~(i <= m) => i - m \in 1..(len - m) /\ m + (i - m) = i BY ONLY <3>1
    <3>5. \A i \in 1..len : i <= m => i \in 1..m BY ONLY <3>1
    <3>6. QED BY ONLY <3>2, <3>3, <3>4, <3>5
  <2>4. \A i \in 1..len : leaf.keys[i] \in DOMAIN mp /\ leaf.vals[i] = mp[leaf.keys[i]]
    BY ONLY <1>6, <2>1 DEF LeafHolds, len, leaf
  <2>5. LeafHolds(A, mp) /\ LeafHolds(B, mp)
    <3>1. LeafHolds(A, mp) BY ONLY <2>2, <2>3, <2>4 DEF LeafHolds
    <3>2. LeafHolds(B, mp)
      <4>1. ASSUME NEW i \in 1..(len - m) PROVE B.keys[i] \in DOMAIN mp /\ B.vals[i] = mp[B.keys[i]]
        <5>1. /\ m + i \in 1..len
              /\ B.keys[i] = leaf.keys[m + i] /\ B.vals[i] = leaf.vals[m + i]
          BY ONLY <2>2, <2>3, i \in 1..(len - m)
        <5>2. QED BY ONLY <2>4, <5>1
      <4>2. QED BY ONLY <2>2, <4>1 DEF LeafHolds
    <3>3. QED BY ONLY <3>1, <3>2
  <2>6. \A j : Has(leaf, j) => Has(A, j) \/ Has(B, j)
    <3> SUFFICES ASSUME NEW i \in 1..len PROVE Has(A, leaf.keys[i]) \/ Has(B, leaf.keys[i])
      BY DEF Has, len
    <3>1. CASE i \in 1..m BY ONLY <2>2, <3>1 DEF Has
    <3>2. CASE i - m \in 1..(len - m) /\ m + (i - m) = i
      <4>1. B.keys[i - m] = leaf.keys[i] BY ONLY <2>2, <3>2
      <4>2. QED BY ONLY <2>2, <3>2, <4>1 DEF Has
    <3>3. QED BY ONLY <2>3, <3>1, <3>2, i \in 1..len
  <2>7. \A n \in new : LeafHolds(u.nodes[n], mp)
    BY ONLY <1>7, <1>9, <2>1, <2>5 DEF A, B
  <2>8. \A j \in DOMAIN mp : \E n \in new : Has(u.nodes[n], j)
    <3> SUFFICES ASSUME NEW j \in DOMAIN mp PROVE \E n \in new : Has(u.nodes[n], j) OBVIOUS
    <3>1. PICK n \in old : Has(t.nodes[n], j) BY ONLY <2>1, j \in DOMAIN mp
    <3>2. CASE n = p BY ONLY <1>6, <1>7, <2>6, <3>1, <3>2 DEF A, B, leaf
    <3>3. CASE n # p BY ONLY <1>7, <1>9, <3>1, <3>3
    <3>4. QED BY ONLY <3>2, <3>3
  <2>9. QED BY ONLY <2>7, <2>8 DEF Holds, new
<1>17. QED BY ONLY <1>2, <1>3, <1>15, <1>16 DEF LeavesFit

-----------------------------------------------------------------------------
(* The walks from the root.                                                *)

\* f goes on from each node to the child in turn, up to a leaf
Walks(f, t, turn) ==
    f = [n \in DOMAIN t.nodes |->
           IF IsLeaf(t.nodes[n]) THEN n ELSE f[t.nodes[n].kids[turn[n]]]]

Descends(t, g, N, turn) ==
    \A n \in 1..N : g.level[n] # 0 => turn[n] \in 1..Len(t.nodes[n].kids)

\* there is the walk, and it gets from a set of nodes that it stays in to a leaf in it
Arrives(t, g, N, turn) ==
    /\ \E f : Walks(f, t, turn)
    /\ \A f, Q : /\ Walks(f, t, turn) /\ Q \subseteq 1..N
                 /\ \A n \in Q : g.level[n] # 0 => t.nodes[n].kids[turn[n]] \in Q
                 => \A n \in Q : f[n] \in Q /\ g.level[f[n]] = 0

(* There is such a function, and it stays in whatever the turns stay in.   *)
LEMMA WalkDown ==
    ASSUME NEW t, NEW g, Fits(t, g, 0, 0, 0), NEW N \in Nat, N = Len(t.nodes),
           NEW turn, Descends(t, g, N, turn)
    PROVE  Arrives(t, g, N, turn)
<1> DEFINE S == 1..N
           Ends == {n \in S : IsLeaf(t.nodes[n])}
           Kid(n) == t.nodes[n].kids[turn[n]]
           next == [n \in S |-> Kid(n)]
           out == [n \in S |-> n]
           step == [n \in S |-> [m \in S |-> m]]
<1>1. /\ Fits(t, g, 0, 0, 0) /\ N = Len(t.nodes) /\ N \in Nat
      /\ \A n \in S : g.level[n] # 0 => turn[n] \in 1..Len(t.nodes[n].kids)
  BY DEF Descends
<1>2. t \in Tree /\ g \in Frame(N) /\ \A n \in S : NodeFits(t, g, 0, 0, 0, n)
  BY ONLY <1>1 DEF Fits
<1>3. DOMAIN t.nodes = S BY ONLY <1>1, <1>2, NodeTypes
<1>4. g.level \in [S -> Nat] BY ONLY <1>2 DEF Frame
<1>5. \A n \in S : IsLeaf(t.nodes[n]) <=> g.level[n] = 0
  BY ONLY <1>1, LeafLevels
<1>6. \A n \in S : g.level[n] # 0 => Kid(n) \in S /\ g.level[n] = g.level[Kid(n)] + 1
  <2> SUFFICES ASSUME NEW n \in S, g.level[n] # 0
               PROVE  Kid(n) \in S /\ g.level[n] = g.level[Kid(n)] + 1
    OBVIOUS
  <2>1. BranchFits(t, g, 0, 0, n) BY ONLY <1>2, n \in S, g.level[n] # 0 DEF NodeFits
  <2>2. PICK i : i = turn[n] OBVIOUS
  <2>3. i \in 1..Len(t.nodes[n].kids) BY ONLY <1>1, <2>2, n \in S, g.level[n] # 0
  <2>4. ChildFits(t, g, 0, 0, n, i) BY ONLY <2>1, <2>3 DEF BranchFits
  <2>5. QED BY ONLY <1>1, <2>2, <2>4 DEF ChildFits
<1>7. \A n : n \in Ends <=> n \in S /\ g.level[n] = 0 BY ONLY <1>5
<1>8. /\ \A n \in S : next[n] = Kid(n) /\ out[n] = n
      /\ \A n \in S, m \in S : step[n][m] = m
  OBVIOUS
<1> HIDE DEF Ends, Kid, next, out, step, S
<1>9. \E f : Walks(f, t, turn)
  <2>1. /\ \A n \in S : n \in Ends => out[n] \in S
        /\ \A n \in S : n \notin Ends => /\ next[n] \in S /\ g.level[next[n]] < g.level[n]
                                         /\ \A m \in S : step[n][m] \in S
    <3>1. \A n \in S : n \notin Ends => next[n] \in S /\ g.level[next[n]] < g.level[n]
      <4> SUFFICES ASSUME NEW n \in S, n \notin Ends
                   PROVE  next[n] \in S /\ g.level[next[n]] < g.level[n]
        OBVIOUS
      <4>1. next[n] = Kid(n) /\ Kid(n) \in S /\ g.level[n] = g.level[Kid(n)] + 1
        BY ONLY <1>6, <1>7, <1>8, n \in S, n \notin Ends
      <4>2. g.level[Kid(n)] \in Nat BY ONLY <1>4, <4>1
      <4>3. QED BY ONLY <4>1, <4>2
    <3>2. QED BY ONLY <1>8, <3>1
  <2>2. PICK f \in [S -> S] :
          \A n \in S : f[n] = IF n \in Ends THEN out[n] ELSE step[n][f[next[n]]]
    <3>1. PICK rank : rank = g.level OBVIOUS
    <3>2. rank \in [S -> Nat] /\ \A n \in S : n \in Ends => out[n] \in S BY ONLY <1>4, <2>1, <3>1
    <3>3. \A n \in S : n \notin Ends => /\ next[n] \in S /\ rank[next[n]] < rank[n]
                                       /\ \A m \in S : step[n][m] \in S
      BY ONLY <2>1, <3>1
    <3>4. Steps(S, S, rank, Ends, next, out, step) BY ONLY <3>2, <3>3 DEF Steps
    <3>5. QED BY ONLY <3>4, WalkExists DEF IsWalk
  <2>3. \A n \in S : f[n] = IF IsLeaf(t.nodes[n]) THEN n ELSE f[Kid(n)]
    <3> SUFFICES ASSUME NEW n \in S PROVE f[n] = IF IsLeaf(t.nodes[n]) THEN n ELSE f[Kid(n)]
      OBVIOUS
    <3>1. CASE g.level[n] = 0 BY ONLY <1>5, <1>7, <1>8, <2>2, <3>1, n \in S
    <3>2. CASE g.level[n] # 0
      <4>1. Kid(n) \in S BY ONLY <1>6, <3>2, n \in S
      <4>2. f[Kid(n)] \in S BY ONLY <2>2, <4>1
      <4>3. QED BY ONLY <1>5, <1>7, <1>8, <2>2, <3>2, <4>2, n \in S
    <3>3. QED BY ONLY <3>1, <3>2
  <2>4. f = [n \in S |-> IF IsLeaf(t.nodes[n]) THEN n ELSE f[Kid(n)]] BY ONLY <2>2, <2>3
  <2>5. QED BY ONLY <1>3, <2>4 DEF Walks, Kid
<1>10. ASSUME NEW f, NEW Q, Walks(f, t, turn), Q \subseteq S,
              \A n \in Q : g.level[n] # 0 => Kid(n) \in Q
       PROVE  \A n \in Q : f[n] \in Q /\ g.level[f[n]] = 0
  <2>1. \A n \in S : f[n] = IF IsLeaf(t.nodes[n]) THEN n ELSE f[Kid(n)]
    BY ONLY <1>3, <1>10 DEF Walks, Kid
  <2> DEFINE Fine(n) == f[n] \in Q /\ g.level[f[n]] = 0
             T == {m \in Nat : \A n \in Q : g.level[n] = m => Fine(n)}
  <2>2. \A n \in Q : g.level[n] = 0 => Fine(n) BY ONLY <1>5, <1>10, <2>1
  <2>3. \A n \in Q : g.level[n] # 0 => /\ Kid(n) \in Q /\ Kid(n) \in S
                                       /\ g.level[n] = g.level[Kid(n)] + 1
                                       /\ Fine(Kid(n)) => Fine(n)
    BY ONLY <1>5, <1>6, <1>10, <2>1
  <2> HIDE DEF Fine
  <2>4. 0 \in T BY ONLY <2>2
  <2>5. ASSUME NEW m \in Nat, m \in T PROVE m + 1 \in T
    <3> SUFFICES ASSUME NEW n \in Q, g.level[n] = m + 1 PROVE Fine(n) OBVIOUS
    <3>1. g.level[n] # 0 BY ONLY m \in Nat, g.level[n] = m + 1
    <3>2. g.level[Kid(n)] \in Nat BY ONLY <1>4, <2>3, <3>1, n \in Q
    <3>3. g.level[Kid(n)] = m BY ONLY <2>3, <3>1, <3>2, m \in Nat, g.level[n] = m + 1, n \in Q
    <3>4. QED BY ONLY <2>3, <2>5, <3>1, <3>3, n \in Q
  <2>6. Nat \subseteq T
    <3> HIDE DEF T
    <3>1. QED BY ONLY <2>4, <2>5, NatSetInduction
  <2>7. \A n \in Q : g.level[n] \in Nat BY ONLY <1>4, <1>10
  <2>8. \A n \in Q : Fine(n) BY ONLY <2>6, <2>7
  <2>9. QED BY ONLY <2>8 DEF Fine
<1>11. QED BY ONLY <1>9, <1>10 DEF S, Kid, Arrives

\* the leaf whose range k is in
IsHome(t, g, n, k) == n \in LeavesOf(t, g) /\ g.lo[n] <= k /\ k < g.hi[n]

(* A key leads to the leaf whose range it is in.                           *)
LEMMA DescendIs ==
    ASSUME NEW t, NEW g, Fits(t, g, 0, 0, 0), NEW k \in Int, -1 <= k, k < Infinity
    PROVE  IsHome(t, g, Descend(t, k), k)
<1> DEFINE N == Len(t.nodes)
           S == 1..N
           turn == [n \in S |-> traverse(t.nodes[n].keys, k) + 1]
           Q == {n \in S : g.lo[n] <= k /\ k < g.hi[n]}
           Good(f) == f = [n \in DOMAIN t.nodes |->
             LET node == t.nodes[n]
             IN  IF IsLeaf(node) THEN n ELSE f[node.kids[traverse(node.keys, k) + 1]]]
           leaf == CHOOSE f : Good(f)
<1>1. Fits(t, g, 0, 0, 0) /\ k \in Int /\ -1 <= k /\ k < Infinity OBVIOUS
<1>2. t \in Tree /\ g \in Frame(N) /\ RootFits(t, g, 0, 0) /\ \A n \in S : NodeFits(t, g, 0, 0, 0, n)
  BY ONLY <1>1 DEF Fits
<1>3. N \in Nat /\ DOMAIN t.nodes = S BY ONLY <1>2, NodeTypes
<1>4. Descend(t, k) = leaf[t.root] BY Zenon DEF Descend
<1>5. \A n \in S : turn[n] = traverse(t.nodes[n].keys, k) + 1 OBVIOUS
<1>6. \A n : n \in Q <=> n \in S /\ g.lo[n] <= k /\ k < g.hi[n] OBVIOUS
<1> HIDE DEF turn, Q
<1>7. \A f : Good(f) <=> Walks(f, t, turn)
  <2> SUFFICES ASSUME NEW f PROVE Good(f) <=> Walks(f, t, turn) OBVIOUS
  <2>1. \A n \in S : f[t.nodes[n].kids[turn[n]]] = f[t.nodes[n].kids[traverse(t.nodes[n].keys, k) + 1]]
    BY ONLY <1>5
  <2> HIDE DEF N, S
  <2>2. QED BY ONLY <1>3, <2>1 DEF Walks
<1>8. ASSUME NEW n \in S, g.level[n] # 0
      PROVE  /\ turn[n] \in 1..Len(t.nodes[n].kids)
             /\ n \in Q => t.nodes[n].kids[turn[n]] \in Q
  <2>1. BranchFits(t, g, 0, 0, n) /\ KeysFit(t.nodes[n].keys, g.lo[n], g.hi[n])
    BY ONLY <1>2, <1>8, n \in S DEF NodeFits
  <2>2. PICK keys, kids : keys = t.nodes[n].keys /\ kids = t.nodes[n].kids OBVIOUS
  <2>3. PICK r : r = traverse(keys, k) OBVIOUS
  <2>4. PICK i : i = r + 1 OBVIOUS
  <2>5. i \in 1..Len(kids) => ChildFits(t, g, 0, 0, n, i)
    BY ONLY <2>1, <2>2 DEF KeysFit, BranchFits
  <2>6. Ascending(keys) /\ Len(kids) = Len(keys) + 1 BY ONLY <2>1, <2>2 DEF KeysFit, BranchFits
  <2>7. TurnIs(keys, k, r) BY ONLY <1>1, <2>3, <2>6, SearchesFind
  <2>8. Len(keys) \in Nat /\ r \in 0..Len(keys) /\ i \in 1..Len(kids)
    <3>1. Len(keys) \in Nat BY ONLY <2>6, LenProperties DEF Ascending
    <3>2. r \in 0..Len(keys) BY ONLY <2>7 DEF TurnIs
    <3>3. QED BY ONLY <2>4, <2>6, <3>1, <3>2
  <2>9. PICK c : c = kids[i] OBVIOUS
  <2>10. /\ c \in S /\ g.lo[c] = Starts(keys, i, g.lo[n]) /\ g.hi[c] = Stops(keys, i, g.hi[n])
    BY ONLY <1>3, <2>2, <2>5, <2>8, <2>9 DEF ChildFits, Top
  <2>11. n \in Q => g.lo[c] <= k /\ k < g.hi[c]
    <3> SUFFICES ASSUME n \in Q PROVE g.lo[c] <= k /\ k < g.hi[c] OBVIOUS
    <3>1. g.lo[n] <= k /\ k < g.hi[n] BY ONLY <1>6, n \in Q
    <3>2. i # 1 => keys[i - 1] <= k
      <4>1. i # 1 => i - 1 \in 1..r BY ONLY <2>4, <2>8
      <4>2. QED BY ONLY <2>7, <4>1 DEF TurnIs
    <3>3. i # Len(keys) + 1 => k < keys[i]
      <4>1. i # Len(keys) + 1 => i \in (r + 1)..Len(keys) BY ONLY <2>4, <2>8
      <4>2. QED BY ONLY <2>7, <4>1 DEF TurnIs
    <3>4. QED BY ONLY <2>10, <3>1, <3>2, <3>3 DEF Starts, Stops
  <2>12. turn[n] = i BY ONLY <1>5, <2>2, <2>3, <2>4, n \in S
  <2>13. QED BY ONLY <1>6, <2>2, <2>8, <2>9, <2>10, <2>11, <2>12
<1>9. Descends(t, g, N, turn) BY ONLY <1>8 DEF Descends
<1>10. Arrives(t, g, N, turn) BY ONLY <1>1, <1>3, <1>9, WalkDown
<1> DEFINE w == leaf
<1>11. Walks(w, t, turn)
  <2> HIDE DEF Good
  <2>1. \E f : Good(f) BY ONLY <1>7, <1>10 DEF Arrives
  <2>2. Good(leaf) BY ONLY <2>1
  <2>3. QED BY ONLY <1>7, <2>2
<1> HIDE DEF w
<1>12. Q \subseteq 1..N /\ \A n \in Q : g.level[n] # 0 => t.nodes[n].kids[turn[n]] \in Q
  BY ONLY <1>6, <1>8
<1>13. \A n \in Q : w[n] \in Q /\ g.level[w[n]] = 0 BY ONLY <1>10, <1>11, <1>12 DEF Arrives
<1>14. t.root \in Q
  <2>1. t.root \in S /\ g.lo[t.root] = -1 /\ g.hi[t.root] = Infinity BY ONLY <1>2 DEF RootFits, Top
  <2>2. QED BY ONLY <1>1, <1>6, <2>1
<1>15. PICK d : d = Descend(t, k) OBVIOUS
<1>16. d = w[t.root] BY ONLY <1>4, <1>15 DEF w
<1>17. d \in Q /\ g.level[d] = 0 BY ONLY <1>13, <1>14, <1>16
<1>18. IsHome(t, g, d, k) BY ONLY <1>6, <1>17 DEF IsHome, LeavesOf
<1>19. QED BY ONLY <1>15, <1>18

(* What there is of a leaf.                                                *)
LEMMA LeafIs ==
    ASSUME NEW t, NEW g, Fits(t, g, 0, 0, 0), NEW n, n \in LeavesOf(t, g)
    PROVE  /\ n \in 1..Len(t.nodes) /\ n # 0 /\ g.level[n] = 0 /\ LeafShape(t.nodes[n]) /\ IsLeaf(t.nodes[n])
           /\ t.nodes[n] \in Record /\ t.nodes[n].keys \in Seq(Key) /\ t.nodes[n].vals \in Seq(Int)
           /\ Len(t.nodes[n].keys) \in Nat /\ Len(t.nodes[n].keys) <= Order
           /\ Len(t.nodes[n].vals) = Len(t.nodes[n].keys)
           /\ g.lo[n] \in Int /\ g.hi[n] \in Int /\ g.lo[n] < g.hi[n]
           /\ KeysFit(t.nodes[n].keys, g.lo[n], g.hi[n])
           /\ \A i \in 1..Len(t.nodes[n].keys) :
                 /\ t.nodes[n].keys[i] \in Key /\ t.nodes[n].keys[i] \in Int
                 /\ g.lo[n] <= t.nodes[n].keys[i] /\ t.nodes[n].keys[i] < g.hi[n]
<1>1. n \in 1..Len(t.nodes) /\ g.level[n] = 0 BY DEF LeavesOf
<1>2. t \in Tree /\ g \in Frame(Len(t.nodes)) /\ NodeFits(t, g, 0, 0, 0, n)
  BY ONLY <1>1, Fits(t, g, 0, 0, 0) DEF Fits
<1>3. n # 0
  <2>1. 0 \notin 1..Len(t.nodes) BY ONLY <1>2, NodeTypes
  <2>2. QED BY ONLY <1>1, <2>1
<1>4. /\ LeafShape(t.nodes[n]) /\ Len(t.nodes[n].keys) <= Order /\ g.lo[n] < g.hi[n]
      /\ KeysFit(t.nodes[n].keys, g.lo[n], g.hi[n])
  BY ONLY <1>1, <1>2, <1>3 DEF NodeFits
<1>5. /\ t.nodes[n] \in Record /\ t.nodes[n].keys \in Seq(Key) /\ t.nodes[n].vals \in Seq(Int)
      /\ Len(t.nodes[n].keys) \in Nat
  BY ONLY <1>1, <1>2, NodeTypes
<1>6. g.lo[n] \in Int /\ g.hi[n] \in Int BY ONLY <1>1, <1>2 DEF Frame
<1>7. Len(t.nodes[n].vals) = Len(t.nodes[n].keys) /\ IsLeaf(t.nodes[n])
  BY ONLY <1>4 DEF LeafShape, IsLeaf
<1>8. \A i \in 1..Len(t.nodes[n].keys) :
         /\ t.nodes[n].keys[i] \in Key /\ t.nodes[n].keys[i] \in Int
         /\ g.lo[n] <= t.nodes[n].keys[i] /\ t.nodes[n].keys[i] < g.hi[n]
  <2>1. Key \subseteq Int BY ONLY KeyAssumption
  <2>2. QED BY ONLY <1>4, <1>5, <2>1, ElementOfSeq DEF KeysFit
<1>9. QED BY ONLY <1>1, <1>3, <1>4, <1>5, <1>6, <1>7, <1>8

(* The leaf that has a key is the one whose range it is in.                *)
LEMMA HomeHas ==
    ASSUME NEW t, NEW g, Fits(t, g, 0, 0, 0), NEW m, LeavesFit(t, g, m),
           NEW n, NEW k \in Int, IsHome(t, g, n, k)
    PROVE  /\ \A o \in LeavesOf(t, g) : IsHome(t, g, o, k) => o = n
           /\ \A o \in LeavesOf(t, g) : Has(t.nodes[o], k) => o = n
           /\ k \in DOMAIN m <=> Has(t.nodes[n], k)
<1>1. Fits(t, g, 0, 0, 0) /\ n \in LeavesOf(t, g) /\ g.lo[n] <= k /\ k < g.hi[n] /\ k \in Int
  BY DEF IsHome
<1>2. ChainFits(t, g) /\ Holds(t, g, m) BY DEF LeavesFit
<1>3. \A o \in LeavesOf(t, g) : g.lo[o] \in Int /\ g.hi[o] \in Int BY ONLY <1>1, LeafIs
<1>4. ASSUME NEW o \in LeavesOf(t, g), g.lo[o] <= k, k < g.hi[o] PROVE o = n
  <2>1. o # n => g.hi[n] <= g.lo[o] \/ g.hi[o] <= g.lo[n]
    BY ONLY <1>1, <1>2, o \in LeavesOf(t, g) DEF ChainFits
  <2>2. QED BY ONLY <1>1, <1>3, <1>4, <2>1
<1>5. \A o \in LeavesOf(t, g) : IsHome(t, g, o, k) => o = n BY ONLY <1>4 DEF IsHome
<1>6. \A o \in LeavesOf(t, g) : Has(t.nodes[o], k) => o = n
  <2> SUFFICES ASSUME NEW o \in LeavesOf(t, g), NEW i \in 1..Len(t.nodes[o].keys), t.nodes[o].keys[i] = k
               PROVE  o = n
    BY DEF Has
  <2>1. g.lo[o] <= t.nodes[o].keys[i] /\ t.nodes[o].keys[i] < g.hi[o]
    BY ONLY <1>1, LeafIs, o \in LeavesOf(t, g), i \in 1..Len(t.nodes[o].keys)
  <2>2. QED BY ONLY <1>4, <2>1, t.nodes[o].keys[i] = k, o \in LeavesOf(t, g)
<1>7. k \in DOMAIN m => Has(t.nodes[n], k) BY ONLY <1>2, <1>6 DEF Holds
<1>8. Has(t.nodes[n], k) => k \in DOMAIN m BY ONLY <1>1, <1>2 DEF Holds, LeafHolds, Has
<1>9. QED BY ONLY <1>5, <1>6, <1>7, <1>8

\* n and s are what find has found
Found(t, g, m, k, n, s) ==
    /\ IsHome(t, g, n, k) /\ SlotIs(t.nodes[n].keys, k, s)
    /\ find(t, k) = [leaf |-> n, slot |-> s]
    /\ Hit(t, k) <=> k \in DOMAIN m
    /\ k \in DOMAIN m => /\ s + 1 \in 1..Len(t.nodes[n].keys) /\ t.nodes[n].keys[s + 1] = k
                         /\ get(t, k) = m[k]

(* find finds what there is.                                               *)
LEMMA FindIs ==
    ASSUME NEW t, NEW g, Fits(t, g, 0, 0, 0), NEW m, LeavesFit(t, g, m), NEW k \in Key
    PROVE  \E n, s : Found(t, g, m, k, n, s)
<1>1. Fits(t, g, 0, 0, 0) /\ LeavesFit(t, g, m) /\ k \in Key OBVIOUS
<1>2. k \in Int /\ -1 <= k /\ k < Infinity BY ONLY <1>1, InfinityIs
<1>3. PICK n : n = Descend(t, k) OBVIOUS
<1>4. PICK keys : keys = t.nodes[n].keys OBVIOUS
<1>5. PICK s : s = slot_of(keys, k) OBVIOUS
<1>6. find(t, k) = [leaf |-> n, slot |-> s] BY ONLY <1>3, <1>4, <1>5 DEF find
<1>7. IsHome(t, g, n, k) BY ONLY <1>1, <1>2, <1>3, DescendIs
<1>8. n \in LeavesOf(t, g) BY ONLY <1>7 DEF IsHome
<1>9. Ascending(keys) /\ Len(keys) \in Nat BY ONLY <1>1, <1>4, <1>8, LeafIs DEF KeysFit
<1>10. SlotIs(keys, k, s) BY ONLY <1>2, <1>5, <1>9, SearchesFind
<1>11. s \in 0..Len(keys) /\ \A i \in 1..s : keys[i] < k BY ONLY <1>10 DEF SlotIs
<1>12. \A i \in 1..Len(keys) : keys[i] \in Int BY ONLY <1>9, ElementOfSeq DEF Ascending
<1>13. Has(t.nodes[n], k) => s < Len(keys) /\ keys[s + 1] = k
  <2> SUFFICES ASSUME NEW i \in 1..Len(keys), keys[i] = k PROVE s < Len(keys) /\ keys[s + 1] = k
    BY <1>4 DEF Has
  <2>1. i \notin 1..s BY ONLY <1>2, <1>11, keys[i] = k
  <2>2. i \in (s + 1)..Len(keys) /\ s < Len(keys) /\ s + 1 \in 1..Len(keys) /\ s + 1 <= i
    BY ONLY <1>9, <1>11, <2>1, i \in 1..Len(keys)
  <2>3. k <= keys[s + 1]
    <3>1. s + 1 \in (s + 1)..Len(keys) BY ONLY <1>9, <1>11, <2>2
    <3>2. QED BY ONLY <1>10, <3>1 DEF SlotIs
  <2>4. i # s + 1 => keys[s + 1] < keys[i]
    <3>1. i # s + 1 => s + 1 < i BY ONLY <1>11, <2>2, i \in 1..Len(keys)
    <3>2. QED BY ONLY <1>9, <2>2, <3>1, i \in 1..Len(keys) DEF Ascending
  <2>5. keys[s + 1] \in Int BY ONLY <1>12, <2>2
  <2>6. QED BY ONLY <1>2, <2>2, <2>3, <2>4, <2>5, keys[i] = k
<1>14. s < Len(keys) => s + 1 \in 1..Len(keys) BY ONLY <1>9, <1>11
<1>15. Hit(t, k) <=> s < Len(keys) /\ keys[s + 1] = k BY ONLY <1>4, <1>6 DEF Hit
<1>16. k \in DOMAIN m <=> Has(t.nodes[n], k) BY ONLY <1>1, <1>2, <1>7, HomeHas
<1>17. Hit(t, k) <=> k \in DOMAIN m
  <2>1. Hit(t, k) => Has(t.nodes[n], k) BY ONLY <1>4, <1>14, <1>15 DEF Has
  <2>2. QED BY ONLY <1>13, <1>15, <1>16, <2>1
<1>18. k \in DOMAIN m => s + 1 \in 1..Len(keys) /\ keys[s + 1] = k /\ get(t, k) = m[k]
  <2> SUFFICES ASSUME k \in DOMAIN m PROVE s + 1 \in 1..Len(keys) /\ keys[s + 1] = k /\ get(t, k) = m[k]
    OBVIOUS
  <2>1. s + 1 \in 1..Len(keys) /\ keys[s + 1] = k BY ONLY <1>14, <1>15, <1>17, k \in DOMAIN m
  <2>2. get(t, k) = t.nodes[n].vals[s + 1] BY ONLY <1>6 DEF get
  <2>3. LeafHolds(t.nodes[n], m) BY ONLY <1>1, <1>8 DEF LeavesFit, Holds
  <2>4. QED BY ONLY <1>4, <2>1, <2>2, <2>3 DEF LeafHolds
<1>19. Found(t, g, m, k, n, s) BY ONLY <1>4, <1>6, <1>7, <1>10, <1>17, <1>18 DEF Found
<1>20. QED BY ONLY <1>19

-----------------------------------------------------------------------------
(* Insertion and deletion.                                                 *)

Put(m, k, v) == [j \in DOMAIN m \cup {k} |-> IF j = k THEN v ELSE m[j]]

(* What a sorted map is after each.                                        *)
LEMMA MapsAre ==
    ASSUME NEW m \in Maps, NEW k \in Key, NEW v \in Int
    PROVE  /\ DOMAIN m \in SUBSET Key /\ IsFiniteSet(DOMAIN m) /\ Cardinality(DOMAIN m) \in Nat
           /\ \A j \in DOMAIN m : m[j] \in Int
           /\ Put(m, k, v) \in Maps /\ DOMAIN Put(m, k, v) = DOMAIN m \cup {k}
           /\ Put(m, k, v)[k] = v /\ \A j \in DOMAIN m : j # k => Put(m, k, v)[j] = m[j]
           /\ k \in DOMAIN m => Cardinality(DOMAIN Put(m, k, v)) = Cardinality(DOMAIN m)
           /\ k \notin DOMAIN m => Cardinality(DOMAIN Put(m, k, v)) = Cardinality(DOMAIN m) + 1
<1>1. PICK S \in SUBSET Key : m \in [S -> Int] BY DEF Maps
<1>2. DOMAIN m = S /\ \A j \in S : m[j] \in Int BY <1>1
<1>3. IsFiniteSet(S) BY <1>1, KeyAssumption, FS_Subset
<1>4. Cardinality(S) \in Nat BY <1>3, FS_CardinalityType
<1> DEFINE new == Put(m, k, v)
           T == S \cup {k}
<1>5. new = [j \in T |-> IF j = k THEN v ELSE m[j]] BY ONLY <1>2, Zenon DEF Put
<1>6. T \in SUBSET Key BY <1>1
<1> HIDE DEF new, T
<1>7. \A j \in T : j = k \/ j \in S BY DEF T
<1>8. \A j \in T : (IF j = k THEN v ELSE m[j]) \in Int BY ONLY <1>2, <1>7, v \in Int
<1>9. new \in [T -> Int] /\ DOMAIN new = T BY ONLY <1>5, <1>8
<1>10. k \in T /\ \A j \in S : j \in T BY DEF T
<1>11. new[k] = v /\ \A j \in S : j # k => new[j] = m[j] BY ONLY <1>5, <1>10
<1>12. new \in Maps BY ONLY <1>6, <1>9 DEF Maps
<1>13. Cardinality(T) = IF k \in S THEN Cardinality(S) ELSE Cardinality(S) + 1
  BY ONLY <1>3, FS_AddElement DEF T
<1>14. QED BY ONLY <1>1, <1>2, <1>3, <1>4, <1>9, <1>11, <1>12, <1>13 DEF new, T

(* What it is without some keys.                                           *)
LEMMA WithoutIs ==
    ASSUME NEW m \in Maps, NEW dead
    PROVE  /\ Without(m, dead) \in Maps /\ DOMAIN Without(m, dead) = DOMAIN m \ dead
           /\ \A j \in DOMAIN m \ dead : Without(m, dead)[j] = m[j]
<1>1. PICK S \in SUBSET Key : m \in [S -> Int] BY DEF Maps
<1>2. DOMAIN m = S /\ \A j \in S : m[j] \in Int BY <1>1
<1> DEFINE new == Without(m, dead)
           T == S \ dead
<1>3. new = [j \in T |-> m[j]] BY ONLY <1>2, Zenon DEF Without
<1>4. T \in SUBSET Key /\ \A j \in T : j \in S BY <1>1
<1> HIDE DEF new, T
<1>5. new \in [T -> Int] /\ DOMAIN new = T /\ \A j \in T : new[j] = m[j] BY ONLY <1>2, <1>3, <1>4
<1>6. new \in Maps BY ONLY <1>4, <1>5 DEF Maps
<1>7. QED BY ONLY <1>2, <1>5, <1>6 DEF new, T

Alter(t, n, ks, vs, size) ==
    [t EXCEPT !.nodes = [t.nodes EXCEPT ![n] = [t.nodes[n] EXCEPT !.keys = ks, !.vals = vs]],
              !.size = size]

(* A leaf that gets other keys and values.                                 *)
LEMMA AlterIs ==
    ASSUME NEW t \in Tree, NEW n \in 1..Len(t.nodes), NEW ks \in Seq(Key), NEW vs \in Seq(Int),
           NEW size \in Nat
    PROVE  LeafChange(Alter(t, n, ks, vs, size), t, n, ks, vs, size)
<1> DEFINE rec == [t.nodes[n] EXCEPT !.keys = ks, !.vals = vs]
           ns == [t.nodes EXCEPT ![n] = rec]
           u == Alter(t, n, ks, vs, size)
<1>1. t.nodes[n] \in Record /\ t.nodes \in Seq(Record) BY NodeTypes
<1>2. u = [t EXCEPT !.nodes = ns, !.size = size] BY ONLY Zenon DEF Alter
<1> HIDE DEF u
<1>3. /\ rec \in Record /\ rec.keys = ks /\ rec.vals = vs /\ rec.kids = t.nodes[n].kids
      /\ rec.parent = t.nodes[n].parent /\ rec.next = t.nodes[n].next
  BY <1>1 DEF Record
<1> HIDE DEF rec
<1>4. /\ ns \in Seq(Record) /\ Len(ns) = Len(t.nodes)
      /\ \A o \in 1..Len(t.nodes) : ns[o] = IF o = n THEN rec ELSE t.nodes[o]
  BY <1>1, <1>3, ExceptSeq
<1> HIDE DEF ns
<1>5. u \in Tree /\ u.root = t.root /\ u.size = size /\ u.nodes = ns BY <1>2, <1>4 DEF Tree
<1>6. ns[n] = rec BY <1>4
<1>7. LeafChange(u, t, n, ks, vs, size) BY ONLY <1>3, <1>4, <1>5, <1>6 DEF LeafChange
<1>8. QED BY ONLY <1>7 DEF u

(* A leaf with a key too many is split, and the calls that are due made.   *)
LEMMA LeafSplitFits ==
    ASSUME NEW t, NEW g, NEW p, Fits(t, g, 0, 0, p), NEW N \in Nat, N = Len(t.nodes), p \in 1..N,
           g.level[p] = 0, Order < Len(t.nodes[p].keys), NEW m, LeavesFit(t, g, m),
           NEW u, u = Climb(split_leaf(t, p))
    PROVE  \E h : Fits(u, h, 0, 0, 0) /\ LeavesFit(u, h, m)
<1>1. /\ Fits(t, g, 0, 0, p) /\ N \in Nat /\ N = Len(t.nodes) /\ p \in 1..N /\ g.level[p] = 0
      /\ Order < Len(t.nodes[p].keys) /\ LeavesFit(t, g, m) /\ p \in 1..Len(t.nodes)
  OBVIOUS
<1>2. t \in Tree /\ g \in Frame(Len(t.nodes)) /\ NodeFits(t, g, 0, 0, p, p) BY ONLY <1>1 DEF Fits
<1>3. LeafShape(t.nodes[p]) BY ONLY <1>1, <1>2 DEF NodeFits
<1>4. PICK len : len = Len(t.nodes[p].keys) OBVIOUS
<1>5. len \in Nat /\ Len(t.nodes[p].vals) = len BY ONLY <1>1, <1>2, <1>3, <1>4, NodeTypes DEF LeafShape
<1>6. PICK cut \in Nat : cut = len \div 2 BY ONLY <1>5
<1>7. 1 <= cut /\ cut < len
  <2>1. 3 < len BY ONLY <1>1, <1>4, <1>5, OrderAssumption
  <2>2. QED BY ONLY <1>5, <1>6, <2>1
<1>8. PICK c : c = split_leaf(t, p) OBVIOUS
<1>9. PICK x \in Nat : x = N + 1 BY ONLY <1>1
<1>10. PICK k : k = t.nodes[p].keys[cut + 1] OBVIOUS
<1>11. PICK w : w = c.tree OBVIOUS
<1>12. LeafCut(w, t, p, cut) /\ c.left = p /\ c.right = x /\ c.key = k
  <2>1. /\ LeafCut(c.tree, t, p, cut)
        /\ c.left = p /\ c.right = Len(t.nodes) + 1 /\ c.key = t.nodes[p].keys[cut + 1]
    <3>1. /\ cut = Half(Len(t.nodes[p].keys)) /\ cut < Len(t.nodes[p].keys)
          /\ Len(t.nodes[p].vals) = Len(t.nodes[p].keys)
      BY ONLY <1>4, <1>5, <1>6, <1>7 DEF Half
    <3>2. t \in Tree /\ p \in 1..Len(t.nodes) BY ONLY <1>1, <1>2
    <3>3. QED BY ONLY <3>1, <3>2, <1>8, cut \in Nat, SplitLeafIs
  <2>2. QED BY ONLY <1>1, <1>9, <1>10, <1>11, <2>1
<1>13. PICK h : h = Parted(g, N, p, k) OBVIOUS
<1>14. Fits(w, h, p, x, 0) /\ k \in Key /\ k \in Int /\ g.lo[p] < k /\ k < g.hi[p]
  BY ONLY <1>1, <1>4, <1>7, <1>9, <1>10, <1>12, <1>13, cut \in Nat, x \in Nat, LeafCutFits
<1>15. LeavesFit(w, h, m)
  BY ONLY <1>1, <1>2, <1>4, <1>7, <1>9, <1>12, <1>13, <1>14, cut \in Nat, x \in Nat, LeafCutHolds
<1>16. IsParted(h, g, N, x, p, k)
  <2>1. g \in Frame(N) BY ONLY <1>1, <1>2
  <2>2. QED BY ONLY <1>1, <1>9, <1>13, <1>14, <2>1, PartedIs
<1>17. h.hi[p] = k /\ h.level[p] = 0 BY ONLY <1>1, <1>16 DEF IsParted
<1>18. c \in Calls
  <2>1. w \in Tree BY ONLY <1>14 DEF Fits
  <2>2. c = Call(w, p, k, x)
    <3>1. c = [tree |-> c.tree, left |-> c.left, key |-> c.key, right |-> c.right]
      BY ONLY <1>8, Zenon DEF split_leaf, Call
    <3>2. QED BY ONLY <1>11, <1>12, <3>1 DEF Call
  <2>3. p \in Nat BY ONLY <1>1
  <2>4. QED BY ONLY <1>14, <2>1, <2>2, <2>3, x \in Nat DEF Calls, Call
<1>19. c.right # 0 BY ONLY <1>1, <1>9, <1>12
<1>20. CallFits(c, h) BY ONLY <1>11, <1>12, <1>14, <1>17, <1>18, <1>19 DEF CallFits
<1>21. PICK f : Fits(Climb(c), f, 0, 0, 0) /\ SameLeaves(c.tree, h, Climb(c), f)
  BY ONLY <1>12, <1>17, <1>19, <1>20, ClimbFits
<1>22. u = Climb(c) BY ONLY <1>8, u = Climb(split_leaf(t, p))
<1>23. LeavesFit(u, f, m) BY ONLY <1>11, <1>15, <1>21, <1>22, SameLeavesFit
<1>24. QED BY ONLY <1>21, <1>22, <1>23

Changed(t, n, s, v) == [t EXCEPT !.nodes[n].vals[s + 1] = v]
Grown(t, n, s, k, v) ==
    [t EXCEPT !.nodes[n].keys = InsertAt(@, s + 1, k),
              !.nodes[n].vals = InsertAt(@, s + 1, v), !.size = @ + 1]

(* A key that is there gets the value.                                     *)
LEMMA UpdateFits ==
    ASSUME NEW t, NEW g, Fits(t, g, 0, 0, 0), NEW m, LeavesFit(t, g, m), NEW k \in Key, NEW v \in Int,
           k \in DOMAIN m, NEW n, NEW s, Found(t, g, m, k, n, s),
           NEW u, u = Changed(t, n, s, v)
    PROVE  Fits(u, g, 0, 0, 0) /\ LeavesFit(u, g, Put(m, k, v))
<1>1. Fits(t, g, 0, 0, 0) /\ LeavesFit(t, g, m) /\ k \in Key /\ v \in Int /\ k \in DOMAIN m
  OBVIOUS
<1>2. PICK keys, vals : keys = t.nodes[n].keys /\ vals = t.nodes[n].vals OBVIOUS
<1>3. PICK i : i = s + 1 OBVIOUS
<1>4. PICK len : len = Len(keys) OBVIOUS
<1>5. /\ n \in LeavesOf(t, g) /\ g.lo[n] <= k /\ k < g.hi[n] /\ i \in 1..len /\ keys[i] = k
  BY <1>2, <1>3, <1>4 DEF Found, IsHome
<1>6. /\ n \in 1..Len(t.nodes) /\ g.level[n] = 0
      /\ t.nodes[n] \in Record /\ keys \in Seq(Key) /\ vals \in Seq(Int)
      /\ len \in Nat /\ len <= Order /\ Len(vals) = len
      /\ KeysFit(keys, g.lo[n], g.hi[n])
      /\ \A j \in 1..len : keys[j] \in Key /\ keys[j] \in Int /\ g.lo[n] <= keys[j] /\ keys[j] < g.hi[n]
  BY ONLY <1>1, <1>2, <1>4, <1>5, LeafIs
<1>7. t \in Tree /\ t.nodes \in Seq(Record) /\ t.size \in Nat /\ Len(t.nodes) \in Nat
      /\ DOMAIN t.nodes = 1..Len(t.nodes)
  <2>1. t \in Tree BY ONLY <1>1 DEF Fits
  <2>2. QED BY ONLY <2>1, NodeTypes
<1> DEFINE vs == [vals EXCEPT ![i] = v]
           rec == [t.nodes[n] EXCEPT !.keys = keys, !.vals = vs]
           ns == [t.nodes EXCEPT ![n] = rec]
           new == Put(m, k, v)
<1>8. vs \in Seq(Int) /\ Len(vs) = len /\ \A j \in 1..len : vs[j] = IF j = i THEN v ELSE vals[j]
  BY ONLY <1>1, <1>5, <1>6, ExceptSeq
<1>9. u = Alter(t, n, keys, vs, t.size)
  <2>1. u = [t EXCEPT !.nodes = [t.nodes EXCEPT ![n] = [t.nodes[n] EXCEPT !.vals = vs]]]
    BY <1>2, <1>3 DEF Changed
  <2> HIDE DEF vs
  <2>2. [t.nodes[n] EXCEPT !.vals = vs] = [t.nodes[n] EXCEPT !.keys = keys, !.vals = vs]
    BY ONLY <1>2, <1>6 DEF Record
  <2>3. u = [t EXCEPT !.nodes = ns] BY ONLY <2>1, <2>2
  <2> HIDE DEF ns
  <2>4. u = [t EXCEPT !.nodes = ns, !.size = t.size] BY ONLY <1>7, <2>3 DEF Tree
  <2>5. QED BY ONLY <2>4 DEF ns, Alter
<1> HIDE DEF vs
<1>10. LeafChange(u, t, n, keys, vs, t.size)
  BY ONLY <1>6, <1>7, <1>8, <1>9, AlterIs
<1>11. Fits(u, g, 0, 0, 0)
  <2>1. PICK N \in Nat : N = Len(t.nodes) BY ONLY <1>7
  <2>2. PICK q : q = 0 OBVIOUS
  <2>3. n \in 1..N /\ q # n /\ Len(keys) <= Order /\ Len(vs) = Len(keys)
    BY ONLY <1>4, <1>6, <1>8, <2>1, <2>2
  <2>4. Fits(u, g, 0, 0, q) BY ONLY <1>1, <1>6, <1>10, <2>1, <2>2, <2>3, N \in Nat, LeafChangeFits
  <2>5. QED BY ONLY <2>2, <2>4
<1>12. m \in Maps /\ t.size = Cardinality(DOMAIN m) /\ LeafHolds(t.nodes[n], m)
  BY ONLY <1>1, <1>5 DEF LeavesFit, Holds
<1>13. /\ new \in Maps /\ DOMAIN new = DOMAIN m \cup {k}
       /\ new[k] = v /\ \A j \in DOMAIN m : j # k => new[j] = m[j]
       /\ t.size = Cardinality(DOMAIN new)
  <2> HIDE DEF new
  <2>1. /\ new \in Maps /\ DOMAIN new = DOMAIN m \cup {k}
        /\ new[k] = v /\ \A j \in DOMAIN m : j # k => new[j] = m[j]
        /\ k \in DOMAIN m => Cardinality(DOMAIN new) = Cardinality(DOMAIN m)
    <3>1. m \in Maps /\ k \in Key /\ v \in Int /\ new = Put(m, k, v) BY ONLY <1>1, <1>12 DEF new
    <3>2. QED BY ONLY <3>1, MapsAre
  <2>2. QED BY ONLY <1>1, <1>12, <2>1
<1> HIDE DEF new
<1>14. \A j \in 1..len : keys[j] \in DOMAIN new /\ vs[j] = new[keys[j]]
  <2> SUFFICES ASSUME NEW j \in 1..len PROVE keys[j] \in DOMAIN new /\ vs[j] = new[keys[j]]
    OBVIOUS
  <2>1. CASE j = i BY ONLY <1>5, <1>8, <1>13, <2>1
  <2>2. CASE j # i
    <3>1. keys[j] # k
      <4>1. i < j \/ j < i BY ONLY <1>5, <2>2, j \in 1..len
      <4>2. keys[i] < keys[j] \/ keys[j] < keys[i]
        BY ONLY <1>4, <1>5, <1>6, <4>1, j \in 1..len DEF KeysFit, Ascending
      <4>3. keys[i] \in Int /\ keys[j] \in Int BY ONLY <1>5, <1>6, j \in 1..len
      <4>4. QED BY ONLY <1>5, <4>2, <4>3
    <3>2. keys[j] \in DOMAIN m /\ vals[j] = m[keys[j]]
      BY ONLY <1>2, <1>4, <1>12, j \in 1..len DEF LeafHolds
    <3>3. QED BY ONLY <1>8, <1>13, <2>2, <3>1, <3>2, j \in 1..len
  <2>3. QED BY ONLY <2>1, <2>2
<1>15. \A j \in DOMAIN new :
          \/ \E a \in 1..Len(keys) : keys[a] = j
          \/ j \in DOMAIN m /\ ~Has(t.nodes[n], j)
  <2>1. \A j : ~Has(t.nodes[n], j) \/ \E a \in 1..Len(keys) : keys[a] = j BY ONLY <1>2 DEF Has
  <2>2. QED BY ONLY <1>1, <1>13, <2>1
<1>16. \A j \in DOMAIN m :
         \/ g.lo[n] <= j /\ j < g.hi[n]
         \/ j \in DOMAIN new /\ new[j] = m[j]
  BY ONLY <1>5, <1>13
<1>17. LeavesFit(u, g, new)
  <2>1. PICK N \in Nat : N = Len(t.nodes) BY ONLY <1>7
  <2>2. n \in 1..N BY ONLY <1>6, <2>1
  <2>3. \A a \in 1..Len(keys) : keys[a] \in DOMAIN new /\ vs[a] = new[keys[a]] BY ONLY <1>4, <1>14
  <2>4. Rewrites(t, g, n, keys, vs, t.size, m, new)
    BY ONLY <1>13, <1>15, <1>16, <2>3 DEF Rewrites
  <2>5. QED BY ONLY <1>1, <1>6, <1>10, <1>13, <2>1, <2>2, <2>4, N \in Nat, LeafChangeHolds
<1>18. QED BY ONLY <1>11, <1>17 DEF new

(* A key that is not there goes to its place.                              *)
LEMMA PlaceFits ==
    ASSUME NEW t, NEW g, Fits(t, g, 0, 0, 0), NEW m, LeavesFit(t, g, m), NEW k \in Key, NEW v \in Int,
           k \notin DOMAIN m, NEW n, NEW s, Found(t, g, m, k, n, s),
           NEW u, u = Grown(t, n, s, k, v),
           NEW q, q = IF Len(u.nodes[n].keys) > Order THEN n ELSE 0
    PROVE  /\ Fits(u, g, 0, 0, q) /\ LeavesFit(u, g, Put(m, k, v))
           /\ n \in 1..Len(u.nodes) /\ Len(u.nodes) \in Nat /\ g.level[n] = 0
<1>1. Fits(t, g, 0, 0, 0) /\ LeavesFit(t, g, m) /\ k \in Key /\ v \in Int /\ k \notin DOMAIN m
  OBVIOUS
<1>2. PICK keys, vals : keys = t.nodes[n].keys /\ vals = t.nodes[n].vals OBVIOUS
<1>3. PICK i : i = s + 1 OBVIOUS
<1>4. PICK len : len = Len(keys) OBVIOUS
<1>5. n \in LeavesOf(t, g) /\ g.lo[n] <= k /\ k < g.hi[n] /\ SlotIs(keys, k, s)
  BY <1>2 DEF Found, IsHome
<1>6. /\ n \in 1..Len(t.nodes) /\ g.level[n] = 0
      /\ t.nodes[n] \in Record /\ keys \in Seq(Key) /\ vals \in Seq(Int)
      /\ len \in Nat /\ len <= Order /\ Len(vals) = len
      /\ KeysFit(keys, g.lo[n], g.hi[n]) /\ g.lo[n] \in Int /\ g.hi[n] \in Int
      /\ \A j \in 1..len : keys[j] \in Key /\ keys[j] \in Int /\ g.lo[n] <= keys[j] /\ keys[j] < g.hi[n]
  BY ONLY <1>1, <1>2, <1>4, <1>5, LeafIs
<1>7. t \in Tree /\ t.nodes \in Seq(Record) /\ t.size \in Nat /\ Len(t.nodes) \in Nat
      /\ DOMAIN t.nodes = 1..Len(t.nodes)
  <2>1. t \in Tree BY ONLY <1>1 DEF Fits
  <2>2. QED BY ONLY <2>1, NodeTypes
<1>8. /\ s \in 0..len /\ i \in 1..(len + 1)
      /\ \A j \in 1..s : keys[j] < k
      /\ \A j \in (s + 1)..len : k <= keys[j]
  <2>1. s \in 0..len BY ONLY <1>4, <1>5 DEF SlotIs
  <2>2. i \in 1..(len + 1) BY ONLY <1>3, <1>6, <2>1
  <2>3. QED BY ONLY <1>4, <1>5, <2>1, <2>2 DEF SlotIs
<1>9. m \in Maps /\ t.size = Cardinality(DOMAIN m) /\ LeafHolds(t.nodes[n], m)
  BY ONLY <1>1, <1>5 DEF LeavesFit, Holds
<1>10. IsGap(keys, i, k)
  <2>1. \A j \in 1..(i - 1) : j \in 1..s BY ONLY <1>3, <1>8
  <2>2. \A j \in i..len : j \in (s + 1)..len /\ j \in 1..len BY ONLY <1>3, <1>6, <1>8
  <2>3. \A j \in 1..len : keys[j] # k BY ONLY <1>1, <1>2, <1>4, <1>9 DEF LeafHolds
  <2>4. k \in Int BY ONLY <1>1, KeyAssumption
  <2>5. ASSUME NEW j \in i..len PROVE k < keys[j]
    <3>1. keys[j] \in Int /\ k <= keys[j] /\ keys[j] # k BY ONLY <1>6, <1>8, <2>2, <2>3, j \in i..len
    <3>2. QED BY ONLY <2>4, <3>1
  <2>6. QED BY ONLY <1>4, <1>8, <2>1, <2>5 DEF IsGap
<1> DEFINE ks == InsertAt(keys, i, k)
           vs == InsertAt(vals, i, v)
           size == t.size + 1
           rec == [t.nodes[n] EXCEPT !.keys = ks, !.vals = vs]
           ns == [t.nodes EXCEPT ![n] = rec]
           new == Put(m, k, v)
<1>11. /\ ks \in Seq(Key) /\ InsertedAt(ks, keys, i, k)
       /\ vs \in Seq(Int) /\ InsertedAt(vs, vals, i, v)
  <2>1. i \in 1..(Len(keys) + 1) /\ i \in 1..(Len(vals) + 1) BY ONLY <1>4, <1>6, <1>8
  <2>2. QED BY ONLY <1>1, <1>6, <2>1, InsertAtProperties
<1>12. KeysFit(ks, g.lo[n], g.hi[n])
  <2>1. i \in 1..(Len(keys) + 1) BY ONLY <1>4, <1>8
  <2>2. PICK lo, hi : lo = g.lo[n] /\ hi = g.hi[n] OBVIOUS
  <2>3. lo \in Int /\ hi \in Int /\ KeysFit(keys, lo, hi) /\ lo <= k /\ k < hi
    BY ONLY <1>5, <1>6, <2>2
  <2>4. KeysFit(ks, lo, hi) BY ONLY <1>1, <1>6, <1>10, <2>1, <2>3, InsertKeepsOrder
  <2>5. QED BY ONLY <2>2, <2>4
<1>13. u = Alter(t, n, ks, vs, size)
  <2>1. u = [t EXCEPT !.nodes[n].keys = InsertAt(t.nodes[n].keys, i, k),
                      !.nodes[n].vals = InsertAt(t.nodes[n].vals, i, v), !.size = t.size + 1]
    <3>1. u = [t EXCEPT !.nodes[n].keys = InsertAt(@, s + 1, k),
                        !.nodes[n].vals = InsertAt(@, s + 1, v), !.size = @ + 1]
      BY DEF Grown
    <3>2. QED BY ONLY <1>3, <1>6, <1>7, <3>1 DEF Tree, Record
  <2>2. u = [t EXCEPT !.nodes[n].keys = ks, !.nodes[n].vals = vs, !.size = size]
    BY ONLY <1>2, <2>1
  <2> HIDE DEF ks, vs, size
  <2>3. u = [t EXCEPT !.nodes = ns, !.size = size] BY ONLY <1>6, <1>7, <2>2 DEF Tree, Record
  <2>4. QED BY ONLY <2>3 DEF Alter
<1> HIDE DEF ks, vs, size
<1>14. size \in Nat BY ONLY <1>7 DEF size
<1>15. LeafChange(u, t, n, ks, vs, size)
  BY ONLY <1>6, <1>7, <1>11, <1>13, <1>14, AlterIs
<1>16. Len(ks) = len + 1 /\ Len(vs) = len + 1 BY ONLY <1>4, <1>6, <1>11 DEF InsertedAt
<1>17. u.nodes[n].keys = ks /\ Len(u.nodes) = Len(t.nodes) BY ONLY <1>15 DEF LeafChange
<1>18. Fits(u, g, 0, 0, q)
  <2>1. PICK N \in Nat : N = Len(t.nodes) BY ONLY <1>7
  <2>2. n \in 1..N BY ONLY <1>6, <2>1
  <2>3. IF q = n THEN Len(ks) <= Order + 1 ELSE q = 0 /\ Len(ks) <= Order
    <3>1. q = IF Len(ks) > Order THEN n ELSE 0 BY ONLY <1>17, q = IF Len(u.nodes[n].keys) > Order THEN n ELSE 0
    <3>2. n # 0 BY ONLY <2>2
    <3>3. QED BY ONLY <1>6, <1>16, <3>1, <3>2, OrderAssumption
  <2>4. Len(vs) = Len(ks) BY ONLY <1>16
  <2>5. QED BY ONLY <1>1, <1>6, <1>12, <1>15, <2>1, <2>2, <2>3, <2>4, N \in Nat, LeafChangeFits
<1>19. /\ new \in Maps /\ DOMAIN new = DOMAIN m \cup {k}
       /\ new[k] = v /\ \A j \in DOMAIN m : j # k => new[j] = m[j]
       /\ size = Cardinality(DOMAIN new)
  <2> HIDE DEF new
  <2>1. /\ new \in Maps /\ DOMAIN new = DOMAIN m \cup {k}
        /\ new[k] = v /\ \A j \in DOMAIN m : j # k => new[j] = m[j]
        /\ k \notin DOMAIN m => Cardinality(DOMAIN new) = Cardinality(DOMAIN m) + 1
    <3>1. m \in Maps /\ k \in Key /\ v \in Int /\ new = Put(m, k, v) BY ONLY <1>1, <1>9 DEF new
    <3>2. QED BY ONLY <3>1, MapsAre
  <2>2. QED BY ONLY <1>1, <1>9, <2>1 DEF size
<1> HIDE DEF new
<1>20. \A j \in 1..Len(ks) : ks[j] \in DOMAIN new /\ vs[j] = new[ks[j]]
  <2> SUFFICES ASSUME NEW j \in 1..Len(ks) PROVE ks[j] \in DOMAIN new /\ vs[j] = new[ks[j]]
    OBVIOUS
  <2>1. \A a \in 1..len : keys[a] \in DOMAIN new /\ vals[a] = new[keys[a]]
    <3>1. \A a \in 1..len : keys[a] \in DOMAIN m /\ vals[a] = m[keys[a]]
      BY ONLY <1>2, <1>4, <1>9 DEF LeafHolds
    <3>2. QED BY ONLY <1>1, <1>19, <3>1
  <2>2. j = i \/ j \in 1..(i - 1) \/ j \in (i + 1)..(len + 1)
    BY ONLY <1>6, <1>8, <1>16, j \in 1..Len(ks)
  <2>3. CASE j = i BY ONLY <1>11, <1>19, <2>3 DEF InsertedAt
  <2>4. CASE j \in 1..(i - 1)
    <3>1. j \in 1..len BY ONLY <1>6, <1>8, <2>4
    <3>2. ks[j] = keys[j] /\ vs[j] = vals[j] BY ONLY <1>11, <2>4 DEF InsertedAt
    <3>3. QED BY ONLY <2>1, <3>1, <3>2
  <2>5. CASE j \in (i + 1)..(len + 1)
    <3>1. j - 1 \in 1..len BY ONLY <1>6, <1>8, <2>5
    <3>2. ks[j] = keys[j - 1] /\ vs[j] = vals[j - 1] BY ONLY <1>4, <1>6, <1>11, <2>5 DEF InsertedAt
    <3>3. QED BY ONLY <2>1, <3>1, <3>2
  <2>6. QED BY ONLY <2>2, <2>3, <2>4, <2>5
<1>21. \A a \in 1..len : \E j \in 1..Len(ks) : ks[j] = keys[a]
  <2> SUFFICES ASSUME NEW a \in 1..len PROVE \E j \in 1..Len(ks) : ks[j] = keys[a] OBVIOUS
  <2>1. CASE a < i
    <3>1. a \in 1..(i - 1) /\ a \in 1..Len(ks) BY ONLY <1>6, <1>8, <1>16, <2>1, a \in 1..len
    <3>2. QED BY ONLY <1>11, <3>1 DEF InsertedAt
  <2>2. CASE ~(a < i)
    <3>1. a + 1 \in (i + 1)..(len + 1) /\ a + 1 \in 1..Len(ks) /\ (a + 1) - 1 = a
      BY ONLY <1>6, <1>8, <1>16, <2>2, a \in 1..len
    <3>2. ks[a + 1] = keys[(a + 1) - 1] BY ONLY <1>4, <1>11, <3>1 DEF InsertedAt
    <3>3. QED BY ONLY <3>1, <3>2
  <2>3. QED BY ONLY <2>1, <2>2
<1>22. \A j \in DOMAIN new :
          \/ \E a \in 1..Len(ks) : ks[a] = j
          \/ j \in DOMAIN m /\ ~Has(t.nodes[n], j)
  <2>1. \A j : ~Has(t.nodes[n], j) \/ \E a \in 1..Len(ks) : ks[a] = j
    BY ONLY <1>2, <1>4, <1>21 DEF Has
  <2>2. i \in 1..Len(ks) /\ ks[i] = k
    <3>1. i \in 1..Len(ks) BY ONLY <1>8, <1>16
    <3>2. QED BY ONLY <1>11, <3>1 DEF InsertedAt
  <2>3. QED BY ONLY <1>19, <2>1, <2>2
<1>23. \A j \in DOMAIN m :
         \/ g.lo[n] <= j /\ j < g.hi[n]
         \/ j \in DOMAIN new /\ new[j] = m[j]
  BY ONLY <1>5, <1>19
<1>24. LeavesFit(u, g, new)
  <2>1. PICK N \in Nat : N = Len(t.nodes) BY ONLY <1>7
  <2>2. n \in 1..N BY ONLY <1>6, <2>1
  <2>3. Rewrites(t, g, n, ks, vs, size, m, new)
    BY ONLY <1>19, <1>20, <1>22, <1>23 DEF Rewrites
  <2>4. QED BY ONLY <1>1, <1>6, <1>15, <1>19, <2>1, <2>2, <2>3, N \in Nat, LeafChangeHolds
<1>25. n \in 1..Len(u.nodes) /\ Len(u.nodes) \in Nat /\ g.level[n] = 0 BY ONLY <1>6, <1>7, <1>17
<1>26. QED BY ONLY <1>18, <1>24, <1>25 DEF new

(* Insertion keeps the tree, and makes the change to the map.              *)
LEMMA InsertFits ==
    ASSUME NEW t, NEW g, Fits(t, g, 0, 0, 0), NEW m, LeavesFit(t, g, m), NEW k \in Key, NEW v \in Int
    PROVE  \E h : Fits(insert(t, k, v), h, 0, 0, 0) /\ LeavesFit(insert(t, k, v), h, Put(m, k, v))
<1>1. Fits(t, g, 0, 0, 0) /\ LeavesFit(t, g, m) /\ k \in Key /\ v \in Int OBVIOUS
<1>2. PICK n, s : Found(t, g, m, k, n, s) BY ONLY <1>1, FindIs
<1>3. find(t, k) = [leaf |-> n, slot |-> s] /\ (Hit(t, k) <=> k \in DOMAIN m)
  BY ONLY <1>2 DEF Found
<1>4. PICK grown : grown = Grown(t, n, s, k, v) OBVIOUS
<1>5. PICK changed : changed = Changed(t, n, s, v) OBVIOUS
<1>6. PICK u : u = insert(t, k, v) OBVIOUS
<1>7. u = IF Hit(t, k) THEN changed
          ELSE IF Len(grown.nodes[n].keys) > Order THEN Climb(split_leaf(grown, n))
          ELSE grown
  <2>1. find(t, k).leaf = n /\ find(t, k).slot = s BY ONLY <1>3
  <2>2. u = IF Hit(t, k) THEN Changed(t, find(t, k).leaf, find(t, k).slot, v)
            ELSE LET w == Grown(t, find(t, k).leaf, find(t, k).slot, k, v)
                 IN  IF Len(w.nodes[find(t, k).leaf].keys) > Order
                       THEN Climb(split_leaf(w, find(t, k).leaf)) ELSE w
    BY ONLY <1>6, Zenon DEF insert, Changed, Grown
  <2>3. QED BY ONLY <1>4, <1>5, <2>1, <2>2
<1>8. CASE k \in DOMAIN m
  <2>1. u = changed BY ONLY <1>3, <1>7, <1>8
  <2>2. Fits(changed, g, 0, 0, 0) /\ LeavesFit(changed, g, Put(m, k, v))
    BY ONLY <1>1, <1>2, <1>5, <1>8, UpdateFits
  <2>3. QED BY ONLY <1>6, <2>1, <2>2
<1>9. CASE k \notin DOMAIN m
  <2>1. PICK q : q = IF Len(grown.nodes[n].keys) > Order THEN n ELSE 0 OBVIOUS
  <2>2. /\ Fits(grown, g, 0, 0, q) /\ LeavesFit(grown, g, Put(m, k, v))
        /\ n \in 1..Len(grown.nodes) /\ Len(grown.nodes) \in Nat /\ g.level[n] = 0
    BY ONLY <1>1, <1>2, <1>4, <1>9, <2>1, PlaceFits
  <2>3. CASE Len(grown.nodes[n].keys) > Order
    <3>1. u = Climb(split_leaf(grown, n)) BY ONLY <1>3, <1>7, <1>9, <2>3
    <3>2. PICK N \in Nat : N = Len(grown.nodes) BY ONLY <2>2
    <3>3. Order < Len(grown.nodes[n].keys)
      <4>1. PICK l : l = Len(grown.nodes[n].keys) OBVIOUS
      <4>2. l > Order BY ONLY <2>3, <4>1
      <4>3. grown \in Tree BY ONLY <2>2 DEF Fits
      <4>4. l \in Nat BY ONLY <2>2, <4>1, <4>3, NodeTypes
      <4>5. QED BY ONLY <4>1, <4>2, <4>4, OrderAssumption
    <3>4. q = n /\ n \in 1..N BY ONLY <2>1, <2>2, <2>3, <3>2
    <3>5. PICK new : new = Put(m, k, v) OBVIOUS
    <3>6. \E h : Fits(u, h, 0, 0, 0) /\ LeavesFit(u, h, new)
      BY ONLY <2>2, <3>1, <3>2, <3>3, <3>4, <3>5, N \in Nat, LeafSplitFits
    <3>7. QED BY ONLY <1>6, <3>5, <3>6
  <2>4. CASE ~(Len(grown.nodes[n].keys) > Order)
    <3>1. u = grown /\ q = 0 BY ONLY <1>3, <1>7, <1>9, <2>1, <2>4
    <3>2. QED BY ONLY <1>6, <2>2, <3>1
  <2>5. QED BY ONLY <2>3, <2>4
<1>10. QED BY ONLY <1>8, <1>9

(* The root never needs the collapse.                                      *)
LEMMA CollapseIs ==
    ASSUME NEW t, NEW g, Fits(t, g, 0, 0, 0)
    PROVE  collapse(t) = t
<1> DEFINE N == Len(t.nodes)
           Pass(u) == LET root == u.nodes[u.root]
                      IN  IF ~IsLeaf(root) /\ root.keys = <<>>
                            THEN [u EXCEPT !.root = root.kids[1], !.nodes[root.kids[1]].parent = 0]
                            ELSE u
           step == [u \in {t} |-> u]
           Good(f) == f = [i \in 0..N |-> IF i = 0 THEN t ELSE Pass(f[i - 1])]
           at == CHOOSE f : Good(f)
           X == [i \in 0..N |-> {t}]
<1>1. Fits(t, g, 0, 0, 0) OBVIOUS
<1>2. RootFits(t, g, 0, 0) /\ t \in Tree BY ONLY <1>1 DEF Fits
<1>3. N \in Nat BY ONLY <1>2, NodeTypes
<1>4. collapse(t) = at[N] BY ONLY Zenon DEF collapse
<1>5. Pass(t) = t
  <2>1. t.root \in 1..N BY ONLY <1>2 DEF RootFits
  <2>2. NodeFits(t, g, 0, 0, 0, t.root) BY ONLY <1>1, <2>1 DEF Fits
  <2>3. IsLeaf(t.nodes[t.root]) \/ t.nodes[t.root].keys # <<>>
    BY ONLY <2>2 DEF NodeFits, LeafShape, BranchFits, IsLeaf
  <2>4. QED BY ONLY <2>3
<1> HIDE DEF Pass
<1>6. step[t] = t /\ \A i \in 0..N : X[i] = {t} OBVIOUS
<1>7. 0 \in 0..N /\ N \in 0..N /\ \A i \in 1..N : i \in 0..N /\ i - 1 \in 0..N /\ i # 0
  BY ONLY <1>3
<1> HIDE DEF step, X
<1>8. \E f : Good(f)
  <2>1. t \in X[0] /\ \A i \in 1..N : \A u \in X[i - 1] : step[u] \in X[i]
    BY ONLY <1>6, <1>7
  <2>2. PICK f : Loops(f, N, t, step) /\ \A i \in 0..N : f[i] \in X[i]
    BY ONLY <1>3, <2>1, LoopExists
  <2>3. \A i \in 0..N : i # 0 => i - 1 \in 0..N BY ONLY <1>3
  <2>4. \A i \in 0..N : i # 0 => step[f[i - 1]] = Pass(f[i - 1])
    BY ONLY <1>5, <1>6, <2>2, <2>3
  <2>5. Good(f) BY ONLY <2>2, <2>4 DEF Loops
  <2>6. QED BY ONLY <2>5
<1> DEFINE p == at
<1>9. Good(p) BY <1>8
<1> HIDE DEF p
<1>10. p[N] \in X[N]
  <2>1. p[0] = t /\ \A i \in 1..N : p[i] = Pass(p[i - 1]) BY ONLY <1>7, <1>9
  <2>2. \A i \in 1..N : p[i - 1] \in X[i - 1] => p[i] \in X[i] BY ONLY <1>5, <1>6, <1>7, <2>1
  <2>3. p[0] \in X[0] BY ONLY <1>6, <1>7, <2>1
  <2>4. QED BY ONLY <1>3, <2>2, <2>3, LoopKeeps
<1>11. p[N] = t BY ONLY <1>6, <1>7, <1>10
<1>12. QED BY ONLY <1>4, <1>11 DEF p

\* short is s without its n-th entry
IsWithout(short, s, n) ==
    /\ Len(short) = Len(s) - 1
    /\ \A i \in 1..(n - 1) : short[i] = s[i]
    /\ \A i \in n..(Len(s) - 1) : short[i] = s[i + 1]

(* RemoveAt leaves that.                                                   *)
LEMMA RemoveIs ==
    ASSUME NEW S, NEW s \in Seq(S), NEW n \in 1..Len(s)
    PROVE  RemoveAt(s, n) \in Seq(S) /\ IsWithout(RemoveAt(s, n), s, n)
<1> DEFINE short == RemoveAt(s, n)
<1>1. short \in Seq(S) /\ Len(short) = Len(s) - 1
      /\ (\A i \in 1..(n - 1) : short[i] = s[i])
      /\ (\A i \in n..(Len(s) - 1) : short[i] = s[i + 1])
  BY RemoveAtProperties
<1> HIDE DEF short
<1>2. short \in Seq(S) /\ IsWithout(short, s, n) BY ONLY <1>1 DEF IsWithout
<1>3. QED BY ONLY <1>2 DEF short

(* The keys that are left fit.                                             *)
LEMMA RemoveKeepsOrder ==
    ASSUME NEW keys \in Seq(Key), NEW lo \in Int, NEW hi \in Int, KeysFit(keys, lo, hi),
           NEW n \in 1..Len(keys), NEW short \in Seq(Key), IsWithout(short, keys, n)
    PROVE  KeysFit(short, lo, hi)
<1>1. PICK len \in Nat : len = Len(keys) BY LenProperties
<1>2. n \in 1..len /\ KeysFit(keys, lo, hi) /\ IsWithout(short, keys, n) BY <1>1
<1>3. /\ \A i \in 1..len : lo <= keys[i] /\ keys[i] < hi
      /\ \A i \in 1..len, j \in 1..len : i < j => keys[i] < keys[j]
  BY ONLY <1>1, <1>2 DEF KeysFit, Ascending
<1> DEFINE from == [i \in 1..(len - 1) |-> IF i < n THEN i ELSE i + 1]
<1>4. Len(short) = len - 1 /\ \A i \in 1..(len - 1) : short[i] = keys[from[i]]
  <2>1. /\ Len(short) = len - 1
        /\ \A i \in 1..(n - 1) : short[i] = keys[i]
        /\ \A i \in n..(len - 1) : short[i] = keys[i + 1]
    BY ONLY <1>1, <1>2 DEF IsWithout
  <2>2. \A i \in 1..(len - 1) : IF i < n THEN i \in 1..(n - 1) ELSE i \in n..(len - 1)
    BY ONLY <1>2, len \in Nat
  <2>3. QED BY ONLY <2>1, <2>2
<1>5. /\ \A i \in 1..(len - 1) : from[i] \in 1..len
      /\ \A i \in 1..(len - 1), j \in 1..(len - 1) : i < j => from[i] < from[j]
  BY ONLY <1>2, len \in Nat
<1> HIDE DEF from
<1>6. short \in Seq(Int)
  <2>1. Key \subseteq Int BY ONLY KeyAssumption
  <2>2. QED BY <2>1, SeqMonotonic
<1>7. \A i \in 1..(len - 1) : lo <= short[i] /\ short[i] < hi BY ONLY <1>3, <1>4, <1>5
<1>8. \A i \in 1..(len - 1), j \in 1..(len - 1) : i < j => short[i] < short[j]
  BY ONLY <1>3, <1>4, <1>5
<1>9. QED BY ONLY <1>4, <1>6, <1>7, <1>8 DEF KeysFit, Ascending

\* the leaf n without its i-th key, the tree being as it is otherwise
Cleared(u, t, n, i) ==
    /\ LeafChange(u, t, n, u.nodes[n].keys, u.nodes[n].vals, t.size - 1)
    /\ i \in 1..Len(t.nodes[n].keys)
    /\ IsWithout(u.nodes[n].keys, t.nodes[n].keys, i)
    /\ IsWithout(u.nodes[n].vals, t.nodes[n].vals, i)

(* What delete does with a key that is there.                              *)
LEMMA DeleteIs ==
    ASSUME NEW t, NEW g, Fits(t, g, 0, 0, 0), NEW m, LeavesFit(t, g, m), NEW k \in Key,
           k \in DOMAIN m, NEW n, NEW s, Found(t, g, m, k, n, s),
           NEW u, u = delete(t, k)
    PROVE  /\ Cleared(u, t, n, s + 1)
           /\ Fits(u, g, 0, 0, 0) /\ LeavesFit(u, g, Without(m, {k}))
<1>1. Fits(t, g, 0, 0, 0) /\ LeavesFit(t, g, m) /\ k \in Key /\ k \in DOMAIN m
  OBVIOUS
<1>2. PICK keys, vals : keys = t.nodes[n].keys /\ vals = t.nodes[n].vals OBVIOUS
<1>3. PICK i : i = s + 1 OBVIOUS
<1>4. PICK len : len = Len(keys) OBVIOUS
<1>5. /\ n \in LeavesOf(t, g) /\ g.lo[n] <= k /\ k < g.hi[n] /\ i \in 1..len /\ keys[i] = k
      /\ find(t, k) = [leaf |-> n, slot |-> s] /\ Hit(t, k)
  BY <1>2, <1>3, <1>4 DEF Found, IsHome
<1>6. /\ n \in 1..Len(t.nodes) /\ g.level[n] = 0
      /\ t.nodes[n] \in Record /\ keys \in Seq(Key) /\ vals \in Seq(Int)
      /\ len \in Nat /\ len <= Order /\ Len(vals) = len
      /\ KeysFit(keys, g.lo[n], g.hi[n]) /\ g.lo[n] \in Int /\ g.hi[n] \in Int
      /\ \A j \in 1..len : keys[j] \in Key /\ keys[j] \in Int /\ g.lo[n] <= keys[j] /\ keys[j] < g.hi[n]
  BY ONLY <1>1, <1>2, <1>4, <1>5, LeafIs
<1>7. t \in Tree /\ t.nodes \in Seq(Record) /\ t.size \in Nat /\ Len(t.nodes) \in Nat
      /\ DOMAIN t.nodes = 1..Len(t.nodes)
  <2>1. t \in Tree BY ONLY <1>1 DEF Fits
  <2>2. QED BY ONLY <2>1, NodeTypes
<1>8. m \in Maps /\ t.size = Cardinality(DOMAIN m) /\ LeafHolds(t.nodes[n], m)
  BY ONLY <1>1, <1>5 DEF LeavesFit, Holds
<1> DEFINE ks == RemoveAt(keys, i)
           vs == RemoveAt(vals, i)
           size == t.size - 1
           rec == [t.nodes[n] EXCEPT !.keys = ks, !.vals = vs]
           ns == [t.nodes EXCEPT ![n] = rec]
           w == Alter(t, n, ks, vs, size)
           new == Without(m, {k})
<1>9. /\ ks \in Seq(Key) /\ IsWithout(ks, keys, i) /\ vs \in Seq(Int) /\ IsWithout(vs, vals, i)
  <2>1. i \in 1..Len(keys) /\ i \in 1..Len(vals) BY ONLY <1>4, <1>5, <1>6
  <2>2. QED BY ONLY <1>6, <2>1, RemoveIs
<1>10. KeysFit(ks, g.lo[n], g.hi[n])
  <2>1. PICK lo, hi : lo = g.lo[n] /\ hi = g.hi[n] OBVIOUS
  <2>2. lo \in Int /\ hi \in Int /\ KeysFit(keys, lo, hi) /\ i \in 1..Len(keys)
    BY ONLY <1>4, <1>5, <1>6, <2>1
  <2> HIDE DEF ks
  <2>3. KeysFit(ks, lo, hi) BY ONLY <1>6, <1>9, <2>2, RemoveKeepsOrder
  <2>4. QED BY ONLY <2>1, <2>3
<1>11. u = collapse(w)
  <2>1. find(t, k).leaf = n /\ find(t, k).slot = s BY ONLY <1>5
  <2>2. u = IF ~Hit(t, k) THEN t
            ELSE collapse([t EXCEPT !.nodes[find(t, k).leaf] = Removed(@, find(t, k).slot + 1), !.size = @ - 1])
    <3>1. u = delete(t, k) OBVIOUS
    <3>2. QED BY ONLY <3>1, Zenon DEF delete
  <2>3. u = collapse([t EXCEPT !.nodes[n] = Removed(@, i), !.size = @ - 1])
    BY ONLY <1>3, <1>5, <2>1, <2>2
  <2>4. Removed(t.nodes[n], i) = rec BY ONLY <1>2 DEF Removed
  <2>5. [t EXCEPT !.nodes[n] = Removed(@, i), !.size = @ - 1]
        = [t EXCEPT !.nodes[n] = Removed(t.nodes[n], i), !.size = t.size - 1]
    BY ONLY <1>6, <1>7 DEF Tree
  <2> HIDE DEF rec
  <2>6. [t EXCEPT !.nodes[n] = Removed(@, i), !.size = @ - 1] = [t EXCEPT !.nodes = ns, !.size = size]
    BY ONLY <1>6, <1>7, <2>4, <2>5 DEF Tree
  <2>7. w = [t EXCEPT !.nodes = ns, !.size = size] BY DEF Alter, rec
  <2> HIDE DEF w, ns, size
  <2>8. QED BY ONLY <2>3, <2>6, <2>7
<1> HIDE DEF ks, vs
<1>12. size \in Nat
  <2>1. IsFiniteSet(DOMAIN m) BY ONLY <1>1, <1>8, MapsAre, 0 \in Int
  <2>2. DOMAIN m # {} BY ONLY <1>1
  <2>3. Cardinality(DOMAIN m) # 0 BY ONLY <2>1, <2>2, FS_EmptySet
  <2>4. QED BY ONLY <1>7, <1>8, <2>3
<1>13. LeafChange(w, t, n, ks, vs, size)
  <2> HIDE DEF size
  <2>1. QED BY ONLY <1>6, <1>7, <1>9, <1>12, AlterIs DEF w
<1> HIDE DEF w, new, size
<1>14. Len(ks) = len - 1 /\ Len(vs) = len - 1 BY ONLY <1>4, <1>6, <1>9 DEF IsWithout
<1>15. Fits(w, g, 0, 0, 0)
  <2>1. PICK N \in Nat : N = Len(t.nodes) BY ONLY <1>7
  <2>2. PICK q : q = 0 OBVIOUS
  <2>3. n \in 1..N /\ q # n /\ Len(ks) <= Order /\ Len(vs) = Len(ks)
    BY ONLY <1>6, <1>14, <2>1, <2>2, OrderAssumption
  <2>4. Fits(w, g, 0, 0, q) BY ONLY <1>1, <1>6, <1>10, <1>13, <2>1, <2>2, <2>3, N \in Nat, LeafChangeFits
  <2>5. QED BY ONLY <2>2, <2>4
<1>16. u = w BY ONLY <1>11, <1>15, CollapseIs
<1>17. /\ new \in Maps /\ DOMAIN new = DOMAIN m \ {k}
       /\ \A j \in DOMAIN m \ {k} : new[j] = m[j]
  <2>1. m \in Maps /\ new = Without(m, {k}) BY ONLY <1>8 DEF new
  <2>2. QED BY ONLY <2>1, WithoutIs
<1>18. size = Cardinality(DOMAIN new)
  <2>1. IsFiniteSet(DOMAIN m) BY ONLY <1>1, <1>8, MapsAre, 0 \in Int
  <2>2. QED BY ONLY <1>1, <1>8, <1>17, <2>1, FS_RemoveElement DEF size
<1>19. \A a \in 1..Len(ks) : ks[a] \in DOMAIN new /\ vs[a] = new[ks[a]]
  <2> SUFFICES ASSUME NEW a \in 1..Len(ks) PROVE ks[a] \in DOMAIN new /\ vs[a] = new[ks[a]] OBVIOUS
  <2>1. PICK b : b = IF a < i THEN a ELSE a + 1 OBVIOUS
  <2>2. b \in 1..len /\ b # i /\ ks[a] = keys[b] /\ vs[a] = vals[b]
    <3>1. a \in 1..(len - 1) BY ONLY <1>14, a \in 1..Len(ks)
    <3>2. CASE a < i
      <4>1. a \in 1..(i - 1) /\ b = a /\ b \in 1..len /\ b # i BY ONLY <1>5, <1>6, <2>1, <3>1, <3>2
      <4>2. QED BY ONLY <1>9, <4>1 DEF IsWithout
    <3>3. CASE ~(a < i)
      <4>1. a \in i..(len - 1) /\ b = a + 1 /\ b \in 1..len /\ b # i BY ONLY <1>5, <1>6, <2>1, <3>1, <3>3
      <4>2. QED BY ONLY <1>4, <1>6, <1>9, <4>1 DEF IsWithout
    <3>4. QED BY ONLY <3>2, <3>3
  <2>3. keys[b] # k
    <3>1. b < i \/ i < b BY ONLY <1>5, <2>2
    <3>2. keys[b] < keys[i] \/ keys[i] < keys[b] BY ONLY <1>4, <1>5, <1>6, <2>2, <3>1 DEF KeysFit, Ascending
    <3>3. keys[b] \in Int /\ keys[i] \in Int BY ONLY <1>5, <1>6, <2>2
    <3>4. QED BY ONLY <1>5, <3>2, <3>3
  <2>4. keys[b] \in DOMAIN m /\ vals[b] = m[keys[b]] BY ONLY <1>2, <1>4, <1>8, <2>2 DEF LeafHolds
  <2>5. QED BY ONLY <1>17, <2>2, <2>3, <2>4
<1>20. \A j \in DOMAIN new :
          \/ \E a \in 1..Len(ks) : ks[a] = j
          \/ j \in DOMAIN m /\ ~Has(t.nodes[n], j)
  <2> SUFFICES ASSUME NEW j \in DOMAIN new, Has(t.nodes[n], j) PROVE \E a \in 1..Len(ks) : ks[a] = j
    BY <1>17
  <2>1. PICK b \in 1..len : keys[b] = j BY ONLY <1>2, <1>4, Has(t.nodes[n], j) DEF Has
  <2>2. b # i BY ONLY <1>5, <1>17, <2>1, j \in DOMAIN new
  <2>3. CASE b < i
    <3>1. b \in 1..(i - 1) /\ b \in 1..Len(ks) BY ONLY <1>5, <1>6, <1>14, <2>3, b \in 1..len
    <3>2. QED BY ONLY <1>9, <2>1, <3>1 DEF IsWithout
  <2>4. CASE i < b
    <3>1. b - 1 \in i..(len - 1) /\ b - 1 \in 1..Len(ks) /\ (b - 1) + 1 = b
      BY ONLY <1>5, <1>6, <1>14, <2>4, b \in 1..len
    <3>2. ks[b - 1] = keys[(b - 1) + 1] BY ONLY <1>4, <1>9, <3>1 DEF IsWithout
    <3>3. QED BY ONLY <2>1, <3>1, <3>2
  <2>5. b < i \/ i < b BY ONLY <1>5, <2>2, b \in 1..len
  <2>6. QED BY ONLY <2>3, <2>4, <2>5
<1>21. \A j \in DOMAIN m :
          \/ g.lo[n] <= j /\ j < g.hi[n]
          \/ j \in DOMAIN new /\ new[j] = m[j]
  BY ONLY <1>5, <1>17
<1>22. Rewrites(t, g, n, ks, vs, size, m, new)
  BY ONLY <1>18, <1>19, <1>20, <1>21 DEF Rewrites
<1>23. LeavesFit(w, g, new)
  <2>1. PICK N \in Nat : N = Len(t.nodes) BY ONLY <1>7
  <2>2. n \in 1..N BY ONLY <1>6, <2>1
  <2>3. QED BY ONLY <1>1, <1>6, <1>13, <1>17, <1>22, <2>1, <2>2, N \in Nat, LeafChangeHolds
<1>24. Cleared(w, t, n, i)
  <2>1. w.nodes[n].keys = ks /\ w.nodes[n].vals = vs BY ONLY <1>13 DEF LeafChange
  <2>2. QED BY ONLY <1>2, <1>4, <1>5, <1>9, <1>13, <2>1 DEF Cleared, size
<1>25. QED BY ONLY <1>3, <1>15, <1>16, <1>23, <1>24 DEF new

(* Deletion keeps the tree, and makes the change to the map.               *)
LEMMA DeleteFits ==
    ASSUME NEW t, NEW g, Fits(t, g, 0, 0, 0), NEW m, LeavesFit(t, g, m), NEW k \in Key
    PROVE  Fits(delete(t, k), g, 0, 0, 0) /\ LeavesFit(delete(t, k), g, Without(m, {k}))
<1>1. Fits(t, g, 0, 0, 0) /\ LeavesFit(t, g, m) /\ k \in Key OBVIOUS
<1>2. PICK n, s : Found(t, g, m, k, n, s) BY ONLY <1>1, FindIs
<1>3. PICK u : u = delete(t, k) OBVIOUS
<1>4. CASE k \in DOMAIN m
  <2>1. Fits(u, g, 0, 0, 0) /\ LeavesFit(u, g, Without(m, {k}))
    BY ONLY <1>1, <1>2, <1>3, <1>4, DeleteIs
  <2>2. QED BY ONLY <1>3, <2>1
<1>5. CASE k \notin DOMAIN m
  <2>1. ~Hit(t, k) BY ONLY <1>2, <1>5 DEF Found
  <2>2. u = t BY ONLY <1>3, <2>1, Zenon DEF delete
  <2>3. Without(m, {k}) = m
    <3>1. m \in Maps BY ONLY <1>1 DEF LeavesFit
    <3>2. PICK S : m \in [S -> Int] BY ONLY <3>1 DEF Maps
    <3>3. DOMAIN m \ {k} = DOMAIN m BY ONLY <1>5
    <3>4. Without(m, {k}) = [j \in DOMAIN m |-> m[j]] BY ONLY <3>3, Zenon DEF Without
    <3>5. QED BY ONLY <3>2, <3>4
  <2>4. QED BY ONLY <1>1, <1>3, <2>2, <2>3
<1>6. QED BY ONLY <1>4, <1>5

-----------------------------------------------------------------------------
(* The tree is well formed.                                                *)

(* The leaves are as deep as the root is high.                             *)
LEMMA DepthIs ==
    ASSUME NEW g, Fits(tree, g, 0, 0, 0), NEW n \in Nodes
    PROVE  Depth[n] = g.level[tree.root] - g.level[n]
<1> DEFINE L == g.level[tree.root]
           up == [m \in Nodes |-> tree.nodes[m].parent]
           Ends == {tree.root}
           rank == [m \in Nodes |-> L - g.level[m]]
           out == [m \in Nodes |-> 0]
           step == [m \in Nodes |-> [x \in Nat |-> x + 1]]
           Good(d) == d = [m \in Nodes |-> IF tree.nodes[m].parent = 0 THEN 0 ELSE d[tree.nodes[m].parent] + 1]
           depth == CHOOSE d : Good(d)
<1>1. Fits(tree, g, 0, 0, 0) /\ n \in Nodes OBVIOUS
<1>2. tree \in Tree /\ g \in Frame(Len(tree.nodes)) /\ RootFits(tree, g, 0, 0)
  BY ONLY <1>1 DEF Fits
<1>3. Nodes = 1..Len(tree.nodes) /\ Len(tree.nodes) \in Nat BY ONLY <1>2, NodeTypes DEF Nodes
<1>4. /\ tree.root \in Nodes /\ tree.nodes[tree.root].parent = 0
      /\ \A m \in Nodes : g.level[m] <= L
  BY ONLY <1>2, <1>3 DEF RootFits
<1>5. g.level \in [Nodes -> Nat] BY ONLY <1>2, <1>3 DEF Frame
<1>6. L \in Nat BY ONLY <1>4, <1>5
<1>7. \A m \in Nodes : m # tree.root =>
         up[m] \in Nodes /\ up[m] # 0 /\ g.level[up[m]] = g.level[m] + 1
  <2> SUFFICES ASSUME NEW m \in Nodes, m # tree.root
               PROVE  up[m] \in Nodes /\ up[m] # 0 /\ g.level[up[m]] = g.level[m] + 1
    OBVIOUS
  <2>1. PICK z : z = 0 OBVIOUS
  <2>2. m # z /\ m \in 1..Len(tree.nodes) /\ Fits(tree, g, z, z, z)
    BY ONLY <1>1, <1>3, <2>1, m \in Nodes
  <2>3. PICK p : p = tree.nodes[m].parent OBVIOUS
  <2>4. p \in 1..Len(tree.nodes) /\ g.level[p] = g.level[m] + 1
    BY ONLY <2>2, <2>3, m # tree.root, ParentIs
  <2>5. p = up[m] BY ONLY <2>3, m \in Nodes
  <2>6. QED BY ONLY <1>3, <2>4, <2>5
<1>8. Depth = depth BY ONLY Zenon DEF Depth
<1>9. \A m \in Nodes : up[m] = tree.nodes[m].parent BY ONLY Zenon
<1>10. \A m \in Nodes : tree.nodes[m].parent = 0 <=> m \in Ends BY ONLY <1>4, <1>7, <1>9
<1>11. /\ rank \in [Nodes -> Nat]
       /\ \A m \in Nodes : rank[m] = L - g.level[m] /\ out[m] = 0
       /\ \A m \in Nodes : \A x \in Nat : step[m][x] = x + 1
  BY ONLY <1>4, <1>5, <1>6
<1> HIDE DEF L, up, Ends, rank, out, step
<1>12. \A m \in Nodes : m \notin Ends => up[m] \in Nodes /\ rank[m] = rank[up[m]] + 1
  <2> SUFFICES ASSUME NEW m \in Nodes, m \notin Ends PROVE up[m] \in Nodes /\ rank[m] = rank[up[m]] + 1
    OBVIOUS
  <2>1. m # tree.root BY ONLY m \notin Ends DEF Ends
  <2>2. up[m] \in Nodes /\ g.level[up[m]] = g.level[m] + 1 BY ONLY <1>7, <2>1, m \in Nodes
  <2>3. g.level[m] \in Nat BY ONLY <1>5, m \in Nodes
  <2>4. QED BY ONLY <1>6, <1>11, <2>2, <2>3, m \in Nodes
<1>13. \A d : Good(d) <=> d = [m \in Nodes |-> IF m \in Ends THEN 0 ELSE d[up[m]] + 1]
  BY ONLY <1>9, <1>10
<1>14. \E d : Good(d)
  <2>1. Steps(Nodes, Nat, rank, Ends, up, out, step)
    <3>1. \A m \in Nodes : m \notin Ends => up[m] \in Nodes /\ rank[up[m]] < rank[m]
      BY ONLY <1>11, <1>12
    <3>2. \A m \in Nodes : out[m] \in Nat /\ \A x \in Nat : step[m][x] \in Nat BY ONLY <1>11
    <3>3. QED BY ONLY <1>11, <3>1, <3>2 DEF Steps
  <2>2. PICK f : IsWalk(f, Nodes, Nat, Ends, up, out, step) BY ONLY <2>1, WalkExists
  <2>3. f \in [Nodes -> Nat] /\ \A m \in Nodes : f[m] = IF m \in Ends THEN out[m] ELSE step[m][f[up[m]]]
    BY ONLY <2>2 DEF IsWalk
  <2>4. \A m \in Nodes : f[m] = IF m \in Ends THEN 0 ELSE f[up[m]] + 1
    BY ONLY <1>11, <1>12, <2>3
  <2> HIDE DEF Good
  <2>5. f = [m \in Nodes |-> IF m \in Ends THEN 0 ELSE f[up[m]] + 1] BY ONLY <2>3, <2>4
  <2>6. QED BY ONLY <1>13, <2>5
<1> DEFINE p == depth
<1>15. \A m \in Nodes : p[m] = IF m \in Ends THEN 0 ELSE p[up[m]] + 1
  <2> HIDE DEF Good
  <2>1. Good(depth) BY ONLY <1>14
  <2>2. QED BY ONLY <1>13, <2>1
<1> HIDE DEF p
<1> DEFINE T == {r \in Nat : \A m \in Nodes : rank[m] = r => p[m] = r}
<1>16. 0 \in T
  <2>1. \A m \in Nodes : rank[m] = 0 => m \in Ends
    BY ONLY <1>11, <1>12
  <2>2. QED BY ONLY <1>15, <2>1
<1>17. ASSUME NEW r \in Nat, r \in T PROVE r + 1 \in T
  <2> SUFFICES ASSUME NEW m \in Nodes, rank[m] = r + 1 PROVE p[m] = r + 1 OBVIOUS
  <2>1. m \notin Ends
    <3>1. tree.root \in Nodes /\ rank[tree.root] = 0
      <4>1. rank[tree.root] = L - L BY ONLY <1>4, <1>11 DEF L
      <4>2. QED BY ONLY <1>4, <1>6, <4>1
    <3>2. QED BY ONLY <3>1, rank[m] = r + 1, r \in Nat DEF Ends
  <2>2. up[m] \in Nodes /\ rank[m] = rank[up[m]] + 1 BY ONLY <1>12, <2>1, m \in Nodes
  <2>3. rank[up[m]] = r BY ONLY <1>11, <2>2, rank[m] = r + 1, r \in Nat
  <2>4. p[up[m]] = r BY ONLY <1>17, <2>2, <2>3
  <2>5. QED BY ONLY <1>15, <2>1, <2>4, m \in Nodes
<1>18. Nat \subseteq T
  <2> HIDE DEF T
  <2>1. QED BY ONLY <1>16, <1>17, NatSetInduction
<1>19. rank[n] \in Nat BY ONLY <1>1, <1>11
<1>20. p[n] = rank[n] BY ONLY <1>1, <1>18, <1>19
<1>21. QED BY ONLY <1>1, <1>8, <1>11, <1>20 DEF p, L

(* What fits is well formed.                                               *)
LEMMA FitsWell ==
    ASSUME NEW g, Fits(tree, g, 0, 0, 0), ChainFits(tree, g)
    PROVE  WellFormed
<1>1. Fits(tree, g, 0, 0, 0) /\ ChainFits(tree, g) OBVIOUS
<1>2. /\ tree \in Tree /\ g \in Frame(Len(tree.nodes)) /\ RootFits(tree, g, 0, 0)
      /\ \A n \in 1..Len(tree.nodes) : NodeFits(tree, g, 0, 0, 0, n)
  BY ONLY <1>1 DEF Fits
<1>3. Nodes = 1..Len(tree.nodes) /\ Len(tree.nodes) \in Nat BY ONLY <1>2, NodeTypes DEF Nodes
<1>4. tree.root \in Nodes /\ tree.size \in Nat /\ tree.nodes[tree.root].parent = 0
  BY ONLY <1>2, <1>3, NodeTypes DEF RootFits
<1>5. ASSUME NEW n \in Nodes
      PROVE  LET node == tree.nodes[n]
             IN  /\ node.keys \in Seq(Key) /\ Len(node.keys) <= Order
                 /\ node.parent \in Nodes \cup {0} /\ node.next \in Nodes \cup {0}
                 /\ IF IsLeaf(node) THEN Len(node.vals) = Len(node.keys)
                    ELSE node.kids \in Seq(Nodes) /\ Len(node.kids) = Len(node.keys) + 1
                 /\ \A c \in Range(node.kids) : tree.nodes[c].parent = n
                 /\ n # tree.root => /\ node.parent # 0
                                     /\ n \in Range(tree.nodes[node.parent].kids)
                 /\ ~IsLeaf(node) => node.keys # <<>>
  <2>1. PICK node : node = tree.nodes[n] OBVIOUS
  <2>2. NodeFits(tree, g, 0, 0, 0, n) /\ n # 0 BY ONLY <1>2, <1>3, n \in Nodes
  <2>3. /\ node.keys \in Seq(Key) /\ node.kids \in Seq(Nat) /\ Len(node.kids) \in Nat
        /\ DOMAIN node.kids = 1..Len(node.kids)
    BY ONLY <1>2, <1>3, <2>1, NodeTypes, LenProperties, n \in Nodes
  <2>4. Len(node.keys) <= Order BY ONLY <2>1, <2>2 DEF NodeFits
  <2>5. n # tree.root => /\ node.parent \in Nodes /\ node.parent # 0
                         /\ n \in Range(tree.nodes[node.parent].kids)
    <3> SUFFICES ASSUME n # tree.root
                 PROVE  /\ node.parent \in Nodes /\ node.parent # 0
                        /\ n \in Range(tree.nodes[node.parent].kids)
      OBVIOUS
    <3>1. PICK p : p = node.parent OBVIOUS
    <3>2. IsChild(tree, n) BY ONLY <2>2, n # tree.root DEF NodeFits
    <3>3. PICK i \in 1..Len(tree.nodes[p].kids) : tree.nodes[p].kids[i] = n
      BY ONLY <2>1, <3>1, <3>2 DEF IsChild
    <3>4. p \in Nodes /\ p # 0 BY ONLY <1>3, <2>1, <3>1, <3>2 DEF IsChild
    <3>5. DOMAIN tree.nodes[p].kids = 1..Len(tree.nodes[p].kids)
      BY ONLY <1>2, <1>3, <3>4, NodeTypes, LenProperties
    <3>6. n \in Range(tree.nodes[p].kids) BY ONLY <3>3, <3>5 DEF Range
    <3>7. QED BY ONLY <3>1, <3>4, <3>6
  <2>6. node.parent \in Nodes \cup {0} BY ONLY <1>4, <2>1, <2>5
  <2>7. IsLeaf(node) <=> g.level[n] = 0 BY ONLY <1>1, <1>3, <2>1, LeafLevels, n \in Nodes
  <2>8. CASE g.level[n] = 0
    <3>1. LeafShape(node) BY ONLY <2>1, <2>2, <2>8 DEF NodeFits
    <3>2. Len(node.vals) = Len(node.keys) /\ node.kids = <<>> BY ONLY <3>1 DEF LeafShape
    <3>3. \A c \in Range(node.kids) : FALSE BY ONLY <3>2 DEF Range
    <3>4. node.next \in Nodes \cup {0}
      <4>1. n \in LeavesOf(tree, g) BY ONLY <1>3, <2>8, n \in Nodes DEF LeavesOf
      <4>2. \A o \in LeavesOf(tree, g) : o \in Nodes BY ONLY <1>3 DEF LeavesOf
      <4>3. QED BY ONLY <1>1, <2>1, <4>1, <4>2 DEF ChainFits
    <3>5. QED BY ONLY <2>1, <2>3, <2>4, <2>5, <2>6, <2>7, <2>8, <3>2, <3>3, <3>4
  <2>9. CASE g.level[n] # 0
    <3>1. BranchFits(tree, g, 0, 0, n) BY ONLY <2>2, <2>9 DEF NodeFits
    <3>2. node.keys # <<>> /\ Len(node.kids) = Len(node.keys) + 1 /\ node.next = 0
      BY ONLY <2>1, <3>1 DEF BranchFits
    <3>3. \A i \in 1..Len(node.kids) : node.kids[i] \in Nodes /\ tree.nodes[node.kids[i]].parent = n
      BY ONLY <1>3, <2>1, <3>1 DEF BranchFits, ChildFits
    <3>4. node.kids \in Seq(Nodes)
      <4>1. node.kids = [i \in 1..Len(node.kids) |-> node.kids[i]] BY ONLY <2>3, LenProperties
      <4>2. [i \in 1..Len(node.kids) |-> node.kids[i]] \in [1..Len(node.kids) -> Nodes] BY ONLY <3>3
      <4>3. PICK l \in Nat : l = Len(node.kids) BY ONLY <2>3
      <4>4. node.kids \in [1..l -> Nodes] BY ONLY <4>1, <4>2, <4>3
      <4>5. QED BY <4>4, SeqDef
    <3>5. \A c \in Range(node.kids) : tree.nodes[c].parent = n BY ONLY <2>3, <3>3 DEF Range
    <3>6. QED BY ONLY <2>1, <2>3, <2>4, <2>5, <2>6, <2>7, <2>9, <3>2, <3>4, <3>5
  <2>10. QED BY ONLY <2>8, <2>9
<1>6. NodeShapes BY ONLY <1>4, <1>5 DEF NodeShapes
<1>7. \A n, m \in Leaves : Depth[n] = Depth[m]
  <2>1. \A n \in Leaves : n \in Nodes /\ g.level[n] = 0
    BY ONLY <1>1, <1>3, LeafLevels DEF Leaves
  <2>2. \A n \in Leaves : Depth[n] = g.level[tree.root] - 0 BY ONLY <1>1, <2>1, DepthIs
  <2>3. QED BY ONLY <2>2
<1>8. ParentsAreRight BY ONLY <1>4, <1>5, <1>7 DEF ParentsAreRight
<1>9. QED BY ONLY <1>6, <1>8 DEF WellFormed

-----------------------------------------------------------------------------
(* Going along the leaves.                                                 *)

\* the slot j of the leaf c is past the keys below e, and those alone; past all if c is 0
Edge(t, g, c, j, e) ==
    /\ e \in Int /\ j \in Nat
    /\ c = 0 => e = Infinity
    /\ c # 0 => /\ c \in LeavesOf(t, g) /\ g.lo[c] <= e /\ e <= g.hi[c]
                /\ \A i \in 1..Len(t.nodes[c].keys) :
                      IF i <= j THEN t.nodes[c].keys[i] < e ELSE e <= t.nodes[c].keys[i]

(* The keys of the map.                                                    *)
LEMMA MapKeys ==
    ASSUME NEW t, NEW g, NEW m, LeavesFit(t, g, m)
    PROVE  /\ IsFiniteSet(DOMAIN m) /\ DOMAIN m \subseteq Key
           /\ \A x \in DOMAIN m : x \in Key /\ x \in Int /\ 0 <= x /\ x < Infinity /\ m[x] \in Int
<1>1. m \in Maps BY DEF LeavesFit
<1>2. PICK S \in SUBSET Key : m \in [S -> Int] BY ONLY <1>1 DEF Maps
<1>3. DOMAIN m = S BY ONLY <1>2
<1>4. IsFiniteSet(S) BY <1>2, KeyAssumption, FS_Subset
<1>5. \A x \in S : x \in Key /\ x \in Int /\ 0 <= x /\ x < Infinity
  <2>1. \A x \in Key : x \in Nat /\ x < Infinity BY ONLY InfinityIs
  <2>2. \A x \in Nat : x \in Int /\ 0 <= x OBVIOUS
  <2>3. QED BY ONLY <1>2, <2>1, <2>2
<1>6. QED BY ONLY <1>2, <1>3, <1>4, <1>5

(* The keys ahead of the slot are those of the map, up to the leaf's end.  *)
LEMMA EdgeKeys ==
    ASSUME NEW t, NEW g, Fits(t, g, 0, 0, 0), NEW m, LeavesFit(t, g, m),
           NEW c, c # 0, NEW j, NEW e, Edge(t, g, c, j, e),
           NEW x, x \in DOMAIN m, e <= x, x < g.hi[c]
    PROVE  \E i \in 1..Len(t.nodes[c].keys) : j < i /\ t.nodes[c].keys[i] = x
<1>1. /\ Fits(t, g, 0, 0, 0) /\ LeavesFit(t, g, m) /\ x \in DOMAIN m /\ e <= x /\ x < g.hi[c]
      /\ c # 0 /\ Edge(t, g, c, j, e)
  OBVIOUS
<1>2. /\ e \in Int /\ j \in Nat /\ c \in LeavesOf(t, g) /\ g.lo[c] <= e /\ e <= g.hi[c]
      /\ \A i \in 1..Len(t.nodes[c].keys) :
                      IF i <= j THEN t.nodes[c].keys[i] < e ELSE e <= t.nodes[c].keys[i]
  BY ONLY <1>1 DEF Edge
<1>3. x \in Int BY ONLY <1>1, MapKeys
<1>4. g.lo[c] \in Int /\ g.hi[c] \in Int BY ONLY <1>1, <1>2, LeafIs
<1>5. IsHome(t, g, c, x) BY ONLY <1>1, <1>2, <1>3, <1>4 DEF IsHome
<1>6. Has(t.nodes[c], x) BY ONLY <1>1, <1>3, <1>5, HomeHas
<1>7. PICK i \in 1..Len(t.nodes[c].keys) : t.nodes[c].keys[i] = x BY ONLY <1>6 DEF Has
<1>8. ~(i <= j) BY ONLY <1>1, <1>2, <1>3, <1>7
<1>9. j < i
  <2>1. Len(t.nodes[c].keys) \in Nat BY ONLY <1>1, <1>2, LeafIs
  <2>2. QED BY ONLY <1>2, <1>8, <2>1, i \in 1..Len(t.nodes[c].keys)
<1>10. QED BY ONLY <1>7, <1>9

(* At the end of a leaf it goes on with the next.                          *)
LEMMA EdgeAtEnd ==
    ASSUME NEW t, NEW g, Fits(t, g, 0, 0, 0), NEW m, LeavesFit(t, g, m),
           NEW c, c # 0, NEW j, NEW e, Edge(t, g, c, j, e), j >= Len(t.nodes[c].keys)
    PROVE  /\ Edge(t, g, t.nodes[c].next, 0, g.hi[c]) /\ e <= g.hi[c]
           /\ t.nodes[c].next # 0 => g.lo[t.nodes[c].next] = g.hi[c]
           /\ \A x \in DOMAIN m : e <= x => g.hi[c] <= x
<1>1. /\ Fits(t, g, 0, 0, 0) /\ LeavesFit(t, g, m) /\ c # 0 /\ Edge(t, g, c, j, e)
      /\ j >= Len(t.nodes[c].keys)
  OBVIOUS
<1>2. e \in Int /\ j \in Nat /\ c \in LeavesOf(t, g) /\ e <= g.hi[c] BY ONLY <1>1 DEF Edge
<1>3. g.hi[c] \in Int /\ Len(t.nodes[c].keys) \in Nat BY ONLY <1>1, <1>2, LeafIs
<1>4. \A x \in DOMAIN m : e <= x => g.hi[c] <= x
  <2> SUFFICES ASSUME NEW x \in DOMAIN m, e <= x PROVE g.hi[c] <= x OBVIOUS
  <2>1. x \in Int BY ONLY <1>1, MapKeys, x \in DOMAIN m
  <2>2. CASE x < g.hi[c]
    <3>1. PICK i \in 1..Len(t.nodes[c].keys) : j < i BY ONLY <1>1, <2>2, x \in DOMAIN m, e <= x, EdgeKeys
    <3>2. FALSE BY ONLY <1>1, <1>2, <1>3, <3>1
    <3>3. QED BY ONLY <3>2
  <2>3. QED BY ONLY <1>3, <2>1, <2>2
<1>5. PICK n : n = t.nodes[c].next OBVIOUS
<1>6. ChainFits(t, g) BY ONLY <1>1 DEF LeavesFit
<1>7. IF g.hi[c] = Infinity THEN n = 0 ELSE n \in LeavesOf(t, g) /\ g.lo[n] = g.hi[c]
  BY ONLY <1>2, <1>5, <1>6 DEF ChainFits
<1>8. n # 0 => n \in LeavesOf(t, g) /\ g.lo[n] = g.hi[c] BY ONLY <1>7
<1>9. n = 0 => g.hi[c] = Infinity
  <2>1. 0 \notin LeavesOf(t, g) BY ONLY <1>1, LeafIs
  <2>2. QED BY ONLY <1>7, <2>1
<1>10. Edge(t, g, n, 0, g.hi[c])
  <2> SUFFICES ASSUME n # 0
               PROVE  /\ n \in LeavesOf(t, g) /\ g.lo[n] <= g.hi[c] /\ g.hi[c] <= g.hi[n]
                      /\ \A i \in 1..Len(t.nodes[n].keys) :
                          IF i <= 0 THEN t.nodes[n].keys[i] < g.hi[c] ELSE g.hi[c] <= t.nodes[n].keys[i]
    BY <1>3, <1>9 DEF Edge
  <2>1. n \in LeavesOf(t, g) /\ g.lo[n] = g.hi[c] BY ONLY <1>8, n # 0
  <2>2. /\ g.lo[n] < g.hi[n] /\ g.lo[n] \in Int /\ g.hi[n] \in Int
        /\ \A i \in 1..Len(t.nodes[n].keys) : g.lo[n] <= t.nodes[n].keys[i]
    BY ONLY <1>1, <2>1, LeafIs
  <2>3. \A i \in 1..Len(t.nodes[n].keys) : ~(i <= 0)
    <3>1. Len(t.nodes[n].keys) \in Nat BY ONLY <1>1, <2>1, LeafIs
    <3>2. QED BY ONLY <3>1
  <2>4. QED BY ONLY <2>1, <2>2, <2>3
<1>11. QED BY ONLY <1>2, <1>4, <1>5, <1>8, <1>10

(* Past the next key the slot is at the edge that follows it.              *)
LEMMA EdgeOnKey ==
    ASSUME NEW t, NEW g, Fits(t, g, 0, 0, 0), NEW m, LeavesFit(t, g, m),
           NEW c, c # 0, NEW j, NEW e, Edge(t, g, c, j, e), j < Len(t.nodes[c].keys),
           NEW k, k = t.nodes[c].keys[j + 1]
    PROVE  /\ j + 1 \in 1..Len(t.nodes[c].keys) /\ k \in Key /\ k \in Int /\ k \in DOMAIN m
           /\ t.nodes[c].vals[j + 1] = m[k] /\ m[k] \in Int
           /\ e <= k /\ k < g.hi[c] /\ Edge(t, g, c, j + 1, k + 1)
           /\ \A x \in DOMAIN m : e <= x => k <= x
<1>1. /\ Fits(t, g, 0, 0, 0) /\ LeavesFit(t, g, m) /\ c # 0 /\ Edge(t, g, c, j, e)
  OBVIOUS
<1>2. PICK keys : keys = t.nodes[c].keys OBVIOUS
<1>3. PICK len : len = Len(keys) OBVIOUS
<1>4. j < len /\ k = keys[j + 1] BY <1>2, <1>3
<1>5. /\ e \in Int /\ j \in Nat /\ c \in LeavesOf(t, g) /\ g.lo[c] <= e /\ e <= g.hi[c]
      /\ \A i \in 1..len : IF i <= j THEN keys[i] < e ELSE e <= keys[i]
  BY ONLY <1>1, <1>2, <1>3 DEF Edge
<1>6. /\ g.lo[c] \in Int /\ g.hi[c] \in Int /\ len \in Nat /\ KeysFit(keys, g.lo[c], g.hi[c])
      /\ \A i \in 1..len : keys[i] \in Key /\ keys[i] \in Int /\ keys[i] < g.hi[c]
      /\ t.nodes[c].vals \in Seq(Int) /\ Len(t.nodes[c].vals) = len
  BY ONLY <1>1, <1>2, <1>3, <1>5, LeafIs
<1>7. PICK a \in Int : a = j + 1 BY ONLY <1>5
<1>8. a \in 1..len /\ ~(a <= j) BY ONLY <1>4, <1>5, <1>6, <1>7
<1>9. k = keys[a] /\ k \in Key /\ k \in Int /\ k < g.hi[c] /\ e <= k
  BY ONLY <1>4, <1>5, <1>6, <1>7, <1>8
<1>10. Holds(t, g, m) BY ONLY <1>1 DEF LeavesFit
<1>11. k \in DOMAIN m /\ t.nodes[c].vals[a] = m[k]
  BY ONLY <1>2, <1>3, <1>5, <1>8, <1>9, <1>10 DEF Holds, LeafHolds
<1>12. t.nodes[c].vals[a] \in Int BY ONLY <1>6, <1>8, ElementOfSeq
<1>13. \A i \in 1..len, b \in 1..len : i < b => keys[i] < keys[b]
  BY ONLY <1>3, <1>6 DEF KeysFit, Ascending
<1>14. \A i \in 1..len : IF i <= a THEN keys[i] < k + 1 ELSE k + 1 <= keys[i]
  <2> SUFFICES ASSUME NEW i \in 1..len PROVE IF i <= a THEN keys[i] < k + 1 ELSE k + 1 <= keys[i]
    OBVIOUS
  <2>1. i < a \/ i = a \/ a < i BY ONLY <1>8, i \in 1..len, a \in Int
  <2>2. keys[i] \in Int BY ONLY <1>6, i \in 1..len
  <2>3. CASE i < a
    <3>1. keys[i] < k BY ONLY <1>8, <1>9, <1>13, <2>3, i \in 1..len
    <3>2. i <= a BY ONLY <2>3, i \in 1..len, a \in Int
    <3>3. keys[i] < k + 1 BY ONLY <1>9, <2>2, <3>1
    <3>4. QED BY ONLY <3>2, <3>3
  <2>4. CASE i = a
    <3>1. keys[i] = k /\ i <= a BY ONLY <1>9, <2>4, a \in Int
    <3>2. QED BY ONLY <1>9, <3>1
  <2>5. CASE a < i
    <3>1. k < keys[i] BY ONLY <1>8, <1>9, <1>13, <2>5, i \in 1..len
    <3>2. ~(i <= a) BY ONLY <2>5, i \in 1..len, a \in Int
    <3>3. k + 1 <= keys[i] BY ONLY <1>9, <2>2, <3>1
    <3>4. QED BY ONLY <3>2, <3>3
  <2>6. QED BY ONLY <2>1, <2>3, <2>4, <2>5
<1>15. Edge(t, g, c, a, k + 1)
  <2>1. k + 1 \in Int /\ a \in Nat /\ g.lo[c] <= k + 1 /\ k + 1 <= g.hi[c]
    BY ONLY <1>5, <1>6, <1>7, <1>9
  <2>2. QED BY ONLY <1>1, <1>2, <1>3, <1>5, <1>14, <2>1 DEF Edge
<1>16. \A x \in DOMAIN m : e <= x => k <= x
  <2> SUFFICES ASSUME NEW x \in DOMAIN m, e <= x PROVE k <= x OBVIOUS
  <2>1. x \in Int BY ONLY <1>1, MapKeys, x \in DOMAIN m
  <2>2. CASE x < g.hi[c]
    <3>1. PICK i \in 1..len : j < i /\ keys[i] = x
      BY ONLY <1>1, <1>2, <1>3, <2>2, x \in DOMAIN m, e <= x, EdgeKeys
    <3>2. i = a \/ a < i BY ONLY <1>5, <1>7, <3>1
    <3>3. i = a \/ k < keys[i] BY ONLY <1>8, <1>9, <1>13, <3>2
    <3>4. QED BY ONLY <1>9, <2>1, <3>1, <3>3
  <2>3. QED BY ONLY <1>6, <1>9, <2>1, <2>2
<1>17. QED BY ONLY <1>2, <1>3, <1>7, <1>8, <1>9, <1>11, <1>12, <1>15, <1>16

(* The first leaf is the one from below all keys on.                       *)
LEMMA LeftmostIs ==
    ASSUME NEW t, NEW g, Fits(t, g, 0, 0, 0)
    PROVE  Edge(t, g, Leftmost(t), 0, -1) /\ Leftmost(t) # 0
<1> DEFINE N == Len(t.nodes)
           S == 1..N
           turn == [n \in S |-> 1]
           Q == {n \in S : g.lo[n] = -1}
           Good(f) == f = [n \in DOMAIN t.nodes |->
             IF IsLeaf(t.nodes[n]) THEN n ELSE f[t.nodes[n].kids[1]]]
           leaf == CHOOSE f : Good(f)
<1>1. Fits(t, g, 0, 0, 0) OBVIOUS
<1>2. t \in Tree /\ g \in Frame(N) /\ RootFits(t, g, 0, 0) /\ \A n \in S : NodeFits(t, g, 0, 0, 0, n)
  BY ONLY <1>1 DEF Fits
<1>3. N \in Nat /\ DOMAIN t.nodes = S BY ONLY <1>2, NodeTypes
<1>4. Leftmost(t) = leaf[t.root] BY Zenon DEF Leftmost
<1>5. \A n \in S : turn[n] = 1 OBVIOUS
<1>6. \A n : n \in Q <=> n \in S /\ g.lo[n] = -1 OBVIOUS
<1> HIDE DEF turn, Q
<1>7. \A f : Good(f) <=> Walks(f, t, turn)
  <2> SUFFICES ASSUME NEW f PROVE Good(f) <=> Walks(f, t, turn) OBVIOUS
  <2>1. \A n \in S : f[t.nodes[n].kids[turn[n]]] = f[t.nodes[n].kids[1]] BY ONLY <1>5
  <2> HIDE DEF N, S
  <2>2. QED BY ONLY <1>3, <2>1 DEF Walks
<1>8. ASSUME NEW n \in S, g.level[n] # 0
      PROVE  /\ turn[n] \in 1..Len(t.nodes[n].kids)
             /\ n \in Q => t.nodes[n].kids[turn[n]] \in Q
  <2>1. BranchFits(t, g, 0, 0, n) BY ONLY <1>2, <1>8, n \in S DEF NodeFits
  <2>2. PICK i : i = 1 OBVIOUS
  <2>3. PICK c : c = t.nodes[n].kids[i] OBVIOUS
  <2>4. Len(t.nodes[n].kids) = Len(t.nodes[n].keys) + 1 BY ONLY <2>1 DEF BranchFits
  <2>5. Len(t.nodes[n].keys) \in Nat BY ONLY <1>2, NodeTypes, n \in S
  <2>6. i \in 1..Len(t.nodes[n].kids) BY ONLY <2>2, <2>4, <2>5
  <2>7. ChildFits(t, g, 0, 0, n, i) BY ONLY <2>1, <2>6 DEF BranchFits
  <2>8. c \in S /\ g.lo[c] = g.lo[n] BY ONLY <2>2, <2>3, <2>7 DEF ChildFits, Starts
  <2>9. turn[n] = i BY ONLY <1>5, <2>2, n \in S
  <2>10. QED BY ONLY <1>6, <2>3, <2>6, <2>8, <2>9
<1>9. Descends(t, g, N, turn) BY ONLY <1>8 DEF Descends
<1>10. Arrives(t, g, N, turn) BY ONLY <1>1, <1>3, <1>9, WalkDown
<1> DEFINE w == leaf
<1>11. Walks(w, t, turn)
  <2> HIDE DEF Good
  <2>1. \E f : Good(f) BY ONLY <1>7, <1>10 DEF Arrives
  <2>2. Good(leaf) BY ONLY <2>1
  <2>3. QED BY ONLY <1>7, <2>2
<1> HIDE DEF w
<1>12. Q \subseteq 1..N /\ \A n \in Q : g.level[n] # 0 => t.nodes[n].kids[turn[n]] \in Q
  BY ONLY <1>6, <1>8
<1>13. \A n \in Q : w[n] \in Q /\ g.level[w[n]] = 0 BY ONLY <1>10, <1>11, <1>12 DEF Arrives
<1>14. t.root \in Q
  <2>1. t.root \in S /\ g.lo[t.root] = -1 BY ONLY <1>2 DEF RootFits
  <2>2. QED BY ONLY <1>6, <2>1
<1>15. PICK d : d = Leftmost(t) OBVIOUS
<1>16. d = w[t.root] BY ONLY <1>4, <1>15 DEF w
<1>17. d \in LeavesOf(t, g) /\ g.lo[d] = -1 BY ONLY <1>6, <1>13, <1>14, <1>16 DEF LeavesOf
<1>18. /\ g.lo[d] < g.hi[d] /\ g.lo[d] \in Int /\ g.hi[d] \in Int /\ d # 0 /\ Len(t.nodes[d].keys) \in Nat
       /\ \A i \in 1..Len(t.nodes[d].keys) : g.lo[d] <= t.nodes[d].keys[i]
  BY ONLY <1>1, <1>17, LeafIs
<1>19. \A i \in 1..Len(t.nodes[d].keys) : ~(i <= 0) BY ONLY <1>18
<1>20. Edge(t, g, d, 0, -1) BY ONLY <1>17, <1>18, <1>19 DEF Edge
<1>21. QED BY ONLY <1>15, <1>18, <1>20

-----------------------------------------------------------------------------
(* Scanning.                                                               *)

\* a measure of what there is from the slot j of the leaf c on
Ahead(t, g, c, j) ==
    IF c = 0 THEN 0
    ELSE IF j >= Len(t.nodes[c].keys) THEN 2 * (Infinity - g.hi[c]) + 2
    ELSE 2 * (Infinity - t.nodes[c].keys[j + 1]) + 1

(* It falls from slot to slot, and from leaf to leaf.                      *)
LEMMA AheadFalls ==
    ASSUME NEW t, NEW g, Fits(t, g, 0, 0, 0), NEW m, LeavesFit(t, g, m),
           NEW c \in LeavesOf(t, g), NEW j \in Nat
    PROVE  /\ Ahead(t, g, c, j) \in Nat
           /\ j >= Len(t.nodes[c].keys) =>
                /\ t.nodes[c].next \in {0} \cup LeavesOf(t, g)
                /\ Ahead(t, g, t.nodes[c].next, 0) < Ahead(t, g, c, j)
           /\ ~(j >= Len(t.nodes[c].keys)) => Ahead(t, g, c, j + 1) < Ahead(t, g, c, j)
<1>1. Fits(t, g, 0, 0, 0) /\ LeavesFit(t, g, m) /\ ChainFits(t, g) BY DEF LeavesFit
<1>2. PICK z \in Int : z = Infinity BY InfinityIs
<1>3. \A o \in LeavesOf(t, g) :
         /\ o # 0 /\ Len(t.nodes[o].keys) \in Nat /\ g.lo[o] \in Int /\ g.hi[o] \in Int
         /\ g.lo[o] < g.hi[o] /\ g.hi[o] <= z
         /\ \A i \in 1..Len(t.nodes[o].keys) :
               /\ t.nodes[o].keys[i] \in Int /\ g.lo[o] <= t.nodes[o].keys[i]
               /\ t.nodes[o].keys[i] < g.hi[o]
  <2> SUFFICES ASSUME NEW o \in LeavesOf(t, g)
      PROVE  /\ o # 0 /\ Len(t.nodes[o].keys) \in Nat /\ g.lo[o] \in Int /\ g.hi[o] \in Int
             /\ g.lo[o] < g.hi[o] /\ g.hi[o] <= z
             /\ \A i \in 1..Len(t.nodes[o].keys) :
               /\ t.nodes[o].keys[i] \in Int /\ g.lo[o] <= t.nodes[o].keys[i]
               /\ t.nodes[o].keys[i] < g.hi[o]
    OBVIOUS
  <2>1. g.hi[o] <= z BY ONLY <1>1, <1>2, o \in LeavesOf(t, g) DEF ChainFits
  <2>2. QED BY ONLY <1>1, <2>1, LeafIs, o \in LeavesOf(t, g)
<1>4. \A o, i : o \in LeavesOf(t, g) /\ i \in Nat /\ i >= Len(t.nodes[o].keys)
           => Ahead(t, g, o, i) = 2 * (z - g.hi[o]) + 2
  BY ONLY <1>2, <1>3 DEF Ahead
<1>5. \A o, i : o \in LeavesOf(t, g) /\ i \in Nat /\ ~(i >= Len(t.nodes[o].keys))
           => /\ Ahead(t, g, o, i) = 2 * (z - t.nodes[o].keys[i + 1]) + 1
              /\ t.nodes[o].keys[i + 1] \in Int /\ g.lo[o] <= t.nodes[o].keys[i + 1]
              /\ t.nodes[o].keys[i + 1] < g.hi[o]
  <2> SUFFICES ASSUME NEW o \in LeavesOf(t, g), NEW i \in Nat, ~(i >= Len(t.nodes[o].keys))
               PROVE  /\ Ahead(t, g, o, i) = 2 * (z - t.nodes[o].keys[i + 1]) + 1
                      /\ t.nodes[o].keys[i + 1] \in Int /\ g.lo[o] <= t.nodes[o].keys[i + 1]
                      /\ t.nodes[o].keys[i + 1] < g.hi[o]
    OBVIOUS
  <2>1. Ahead(t, g, o, i) = 2 * (z - t.nodes[o].keys[i + 1]) + 1
    BY ONLY <1>2, <1>3, o \in LeavesOf(t, g), ~(i >= Len(t.nodes[o].keys)) DEF Ahead
  <2>2. i + 1 \in 1..Len(t.nodes[o].keys)
    BY ONLY <1>3, o \in LeavesOf(t, g), i \in Nat, ~(i >= Len(t.nodes[o].keys))
  <2>3. QED BY ONLY <1>3, <2>1, <2>2, o \in LeavesOf(t, g)
<1>6. \A o, i : o \in LeavesOf(t, g) /\ i \in Nat
           => /\ Ahead(t, g, o, i) \in Nat /\ Ahead(t, g, o, i) < 2 * (z - g.lo[o]) + 2
  <2> SUFFICES ASSUME NEW o \in LeavesOf(t, g), NEW i \in Nat
               PROVE  Ahead(t, g, o, i) \in Nat /\ Ahead(t, g, o, i) < 2 * (z - g.lo[o]) + 2
    OBVIOUS
  <2>1. /\ g.lo[o] \in Int /\ g.hi[o] \in Int /\ g.lo[o] < g.hi[o] /\ g.hi[o] <= z
    BY ONLY <1>3, o \in LeavesOf(t, g)
  <2>2. CASE i >= Len(t.nodes[o].keys)
    <3>1. Ahead(t, g, o, i) = 2 * (z - g.hi[o]) + 2 BY ONLY <1>4, <2>2, o \in LeavesOf(t, g), i \in Nat
    <3>2. QED BY ONLY <2>1, <3>1, z \in Int
  <2>3. CASE ~(i >= Len(t.nodes[o].keys))
    <3>1. PICK k : k = t.nodes[o].keys[i + 1] OBVIOUS
    <3>2. Ahead(t, g, o, i) = 2 * (z - k) + 1 /\ k \in Int /\ g.lo[o] <= k /\ k < g.hi[o]
      BY ONLY <1>5, <2>3, <3>1, o \in LeavesOf(t, g), i \in Nat
    <3>3. QED BY ONLY <2>1, <3>2, z \in Int
  <2>4. QED BY ONLY <2>2, <2>3
<1>7. ASSUME j >= Len(t.nodes[c].keys)
      PROVE  /\ t.nodes[c].next \in {0} \cup LeavesOf(t, g)
             /\ Ahead(t, g, t.nodes[c].next, 0) < Ahead(t, g, c, j)
  <2>1. PICK n : n = t.nodes[c].next OBVIOUS
  <2>2. IF g.hi[c] = Infinity THEN n = 0 ELSE n \in LeavesOf(t, g) /\ g.lo[n] = g.hi[c]
    BY ONLY <1>1, <2>1, c \in LeavesOf(t, g) DEF ChainFits
  <2>3. Ahead(t, g, c, j) = 2 * (z - g.hi[c]) + 2 /\ g.hi[c] \in Int /\ g.hi[c] <= z
    BY ONLY <1>3, <1>4, <1>7, c \in LeavesOf(t, g), j \in Nat
  <2>4. CASE n = 0
    <3>1. Ahead(t, g, n, 0) = 0 BY ONLY <2>4 DEF Ahead
    <3>2. 0 < Ahead(t, g, c, j) BY ONLY <2>3, z \in Int
    <3>3. QED BY ONLY <2>1, <2>4, <3>1, <3>2
  <2>5. CASE n # 0
    <3>1. n \in LeavesOf(t, g) /\ g.lo[n] = g.hi[c] BY ONLY <2>2, <2>5
    <3>2. Ahead(t, g, n, 0) < 2 * (z - g.lo[n]) + 2 BY ONLY <1>6, <3>1
    <3>3. QED BY ONLY <2>1, <2>3, <3>1, <3>2
  <2>6. QED BY ONLY <2>4, <2>5
<1>8. ASSUME ~(j >= Len(t.nodes[c].keys)) PROVE Ahead(t, g, c, j + 1) < Ahead(t, g, c, j)
  <2>1. PICK i \in Nat : i = j + 1 OBVIOUS
  <2>2. PICK keys : keys = t.nodes[c].keys OBVIOUS
  <2>3. PICK len \in Nat : len = Len(keys) BY ONLY <1>3, <2>2, c \in LeavesOf(t, g)
  <2>4. i \in 1..len BY ONLY <1>8, <2>1, <2>2, <2>3, j \in Nat
  <2>5. /\ Ahead(t, g, c, j) = 2 * (z - keys[i]) + 1
        /\ keys[i] \in Int /\ keys[i] < g.hi[c]
    BY ONLY <1>5, <1>8, <2>1, <2>2, j \in Nat, c \in LeavesOf(t, g)
  <2>6. g.hi[c] \in Int /\ KeysFit(keys, g.lo[c], g.hi[c]) BY ONLY <1>1, <2>2, LeafIs, c \in LeavesOf(t, g)
  <2>7. CASE i >= len
    <3>1. Ahead(t, g, c, i) = 2 * (z - g.hi[c]) + 2
      BY ONLY <1>4, <2>2, <2>3, <2>7, c \in LeavesOf(t, g), i \in Nat
    <3>2. QED BY ONLY <2>1, <2>5, <2>6, <3>1, z \in Int
  <2>8. CASE ~(i >= len)
    <3>1. PICK b \in Nat : b = i + 1 OBVIOUS
    <3>2. b \in 1..len /\ i < b BY ONLY <2>4, <2>8, <3>1, len \in Nat
    <3>3. keys[i] < keys[b] BY ONLY <2>3, <2>4, <2>6, <3>2 DEF KeysFit, Ascending
    <3>4. Ahead(t, g, c, i) = 2 * (z - keys[b]) + 1 /\ keys[b] \in Int
      BY ONLY <1>5, <2>2, <2>3, <2>8, <3>1, c \in LeavesOf(t, g), i \in Nat
    <3>5. QED BY ONLY <2>1, <2>5, <3>3, <3>4, z \in Int
  <2>9. QED BY ONLY <2>7, <2>8
<1>9. Ahead(t, g, c, j) \in Nat BY ONLY <1>6, c \in LeavesOf(t, g), j \in Nat
<1>10. QED BY ONLY <1>7, <1>8, <1>9

Pairs == Key \X Int

\* the keys of s ascend
Climbs(s) == \A i \in 1..(Len(s) - 1) : s[i][1] < s[i + 1][1]

\* s is what there is in the map from the key low to below high
Listed(s, m, low, high) ==
    /\ s \in Seq(Pairs) /\ Climbs(s)
    /\ \A i \in 1..Len(s) : /\ s[i] = <<s[i][1], m[s[i][1]]>>
                            /\ s[i][1] \in DOMAIN m /\ low <= s[i][1] /\ s[i][1] < high
    /\ \A x \in DOMAIN m : low <= x /\ x < high => \E i \in 1..Len(s) : s[i][1] = x

(* A pair and those that follow.                                           *)
LEMMA ListedFirst ==
    ASSUME NEW m, NEW low \in Int, NEW high \in Int, NEW k \in Key, NEW v \in Int, NEW s, NEW long,
           DOMAIN m \subseteq Int, k \in DOMAIN m, k \in Int, v = m[k], low <= k, k < high,
           \A x \in DOMAIN m : low <= x => k <= x,
           Listed(s, m, k + 1, high), long = << <<k, v>> >> \o s
    PROVE  Listed(long, m, low, high)
<1>1. PICK e \in Int : e = k + 1 OBVIOUS
<1>2. /\ s \in Seq(Pairs) /\ Climbs(s)
      /\ \A i \in 1..Len(s) : /\ s[i] = <<s[i][1], m[s[i][1]]>>
                              /\ s[i][1] \in DOMAIN m /\ e <= s[i][1] /\ s[i][1] < high
      /\ \A x \in DOMAIN m : e <= x /\ x < high => \E i \in 1..Len(s) : s[i][1] = x
  BY <1>1 DEF Listed
<1>3. PICK one : one = << <<k, v>> >> OBVIOUS
<1>4. PICK n \in Nat : n = Len(s) BY ONLY <1>2, LenProperties
<1>5. one \in Seq(Pairs) /\ Len(one) = 1 /\ one[1] = <<k, v>>
  <2>1. <<k, v>> \in Pairs BY DEF Pairs
  <2>2. QED BY ONLY <1>3, <2>1
<1>6. /\ long \in Seq(Pairs) /\ Len(long) = n + 1
      /\ \A i \in 1..(1 + n) : long[i] = IF i <= 1 THEN one[i] ELSE s[i - 1]
  <2>1. long = one \o s BY ONLY <1>3, long = << <<k, v>> >> \o s
  <2>2. /\ one \o s \in Seq(Pairs) /\ Len(one \o s) = Len(one) + Len(s)
        /\ \A i \in 1..(Len(one) + Len(s)) : (one \o s)[i] = IF i <= Len(one) THEN one[i] ELSE s[i - Len(one)]
    BY ONLY <1>2, <1>5, ConcatProperties
  <2>3. QED BY ONLY <1>4, <1>5, <2>1, <2>2
<1>7. long[1] = <<k, v>> /\ 1 \in 1..(n + 1)
  <2>1. long[1] = one[1] BY ONLY <1>6, n \in Nat
  <2>2. QED BY ONLY <1>5, <2>1, n \in Nat
<1>8. \A i \in 1..n : i + 1 \in 1..(n + 1) /\ long[i + 1] = s[i]
  <2> SUFFICES ASSUME NEW i \in 1..n PROVE i + 1 \in 1..(n + 1) /\ long[i + 1] = s[i] OBVIOUS
  <2>1. PICK a \in Nat : a = i + 1 OBVIOUS
  <2>2. a \in 1..(1 + n) /\ a \in 1..(n + 1) /\ ~(a <= 1) /\ a - 1 = i BY ONLY <2>1, i \in 1..n, n \in Nat
  <2>3. long[a] = s[a - 1] BY ONLY <1>6, <2>2
  <2>4. QED BY ONLY <2>1, <2>2, <2>3
<1>9. \A i \in 1..(n + 1) : i = 1 \/ \E a \in 1..n : i = a + 1
  <2> SUFFICES ASSUME NEW i \in 1..(n + 1), i # 1 PROVE \E a \in 1..n : i = a + 1 OBVIOUS
  <2>1. i - 1 \in 1..n /\ i = (i - 1) + 1 BY ONLY n \in Nat, i \in 1..(n + 1), i # 1
  <2>2. QED BY ONLY <2>1
<1>10. Climbs(long)
  <2> SUFFICES ASSUME NEW i \in 1..(Len(long) - 1) PROVE long[i][1] < long[i + 1][1] BY DEF Climbs
  <2>1. i \in 1..n BY ONLY <1>6, i \in 1..(Len(long) - 1), n \in Nat
  <2>2. long[i + 1] = s[i] BY ONLY <1>8, <2>1
  <2>3. CASE i = 1
    <3>1. long[i][1] = k BY ONLY <1>7, <2>3
    <3>2. e <= s[i][1] /\ s[i][1] \in DOMAIN m BY ONLY <1>2, <1>4, <2>1
    <3>3. s[i][1] \in Int BY ONLY <3>2, DOMAIN m \subseteq Int
    <3>4. QED BY ONLY <1>1, <2>2, <3>1, <3>2, <3>3, k \in Int
  <2>4. CASE i # 1
    <3>1. PICK a \in 1..n : i = a + 1 BY ONLY <1>9, <2>1, <2>4, n \in Nat
    <3>2. long[i] = s[a] BY ONLY <1>8, <3>1
    <3>3. a \in 1..(Len(s) - 1) BY ONLY <1>4, <2>1, <3>1, n \in Nat
    <3>4. s[a][1] < s[a + 1][1] BY ONLY <1>2, <3>3 DEF Climbs
    <3>5. QED BY ONLY <2>2, <3>1, <3>2, <3>4
  <2>5. QED BY ONLY <2>3, <2>4
<1>11. \A i \in 1..(n + 1) : /\ long[i] = <<long[i][1], m[long[i][1]]>>
                             /\ long[i][1] \in DOMAIN m /\ low <= long[i][1] /\ long[i][1] < high
  <2> SUFFICES ASSUME NEW i \in 1..(n + 1)
               PROVE  /\ long[i] = <<long[i][1], m[long[i][1]]>>
                      /\ long[i][1] \in DOMAIN m /\ low <= long[i][1] /\ long[i][1] < high
    OBVIOUS
  <2>1. CASE i = 1
    <3>1. long[i] = <<k, m[k]>> BY ONLY <1>7, <2>1, v = m[k]
    <3>2. long[i][1] = k BY ONLY <3>1
    <3>3. QED BY ONLY <3>1, <3>2, k \in DOMAIN m, low <= k, k < high
  <2>2. CASE i # 1
    <3>1. PICK a \in 1..n : i = a + 1 BY ONLY <1>9, <2>2, i \in 1..(n + 1)
    <3>2. PICK p : p = s[a] OBVIOUS
    <3>3. long[i] = p BY ONLY <1>8, <3>1, <3>2
    <3>4. p = <<p[1], m[p[1]]>> /\ p[1] \in DOMAIN m /\ e <= p[1] /\ p[1] < high
      BY ONLY <1>2, <1>4, <3>1, <3>2
    <3>5. p[1] \in Int BY ONLY <3>4, DOMAIN m \subseteq Int
    <3>6. low <= p[1] BY ONLY <1>1, <3>4, <3>5, low <= k, k \in Int, low \in Int
    <3>7. QED BY ONLY <3>3, <3>4, <3>6
  <2>3. QED BY ONLY <2>1, <2>2
<1>12. \A x \in DOMAIN m : low <= x /\ x < high => \E i \in 1..(n + 1) : long[i][1] = x
  <2> SUFFICES ASSUME NEW x \in DOMAIN m, low <= x, x < high PROVE \E i \in 1..(n + 1) : long[i][1] = x
    OBVIOUS
  <2>1. x \in Int /\ k <= x
    BY ONLY x \in DOMAIN m, low <= x, DOMAIN m \subseteq Int, \A y \in DOMAIN m : low <= y => k <= y
  <2>2. x = k \/ e <= x BY ONLY <1>1, <2>1, k \in Int
  <2>3. CASE x = k
    <3>1. long[1][1] = x BY ONLY <1>7, <2>3
    <3>2. QED BY ONLY <1>7, <3>1
  <2>4. CASE e <= x
    <3>1. PICK i \in 1..n : s[i][1] = x BY ONLY <1>2, <1>4, <2>4, x \in DOMAIN m, x < high
    <3>2. QED BY ONLY <1>8, <3>1
  <2>5. QED BY ONLY <2>2, <2>3, <2>4
<1>13. QED BY ONLY <1>6, <1>10, <1>11, <1>12 DEF Listed

(* Nothing is from high on.                                                *)
LEMMA ListedNone ==
    ASSUME NEW m, NEW low, NEW high, \A x \in DOMAIN m : ~(low <= x /\ x < high)
    PROVE  Listed(<<>>, m, low, high)
<1>1. PICK s : s = <<>> OBVIOUS
<1>2. s \in Seq(Pairs) /\ Len(s) = 0 BY ONLY <1>1
<1>3. \A i \in 1..Len(s) : FALSE BY ONLY <1>2
<1>4. \A i \in 1..(Len(s) - 1) : FALSE BY ONLY <1>2
<1>5. Climbs(s) BY ONLY <1>4 DEF Climbs
<1>6. Listed(s, m, low, high)
  BY ONLY <1>2, <1>3, <1>5, \A x \in DOMAIN m : ~(low <= x /\ x < high) DEF Listed
<1>7. QED BY ONLY <1>1, <1>6

(* What begins later lists the same, if nothing is between.                *)
LEMMA ListedFrom ==
    ASSUME NEW m, NEW low \in Int, NEW next \in Int, NEW high, NEW s, DOMAIN m \subseteq Int, low <= next,
           \A x \in DOMAIN m : low <= x => next <= x, Listed(s, m, next, high)
    PROVE  Listed(s, m, low, high)
<1>1. /\ s \in Seq(Pairs) /\ Climbs(s)
      /\ \A i \in 1..Len(s) : /\ s[i] = <<s[i][1], m[s[i][1]]>>
                              /\ s[i][1] \in DOMAIN m /\ next <= s[i][1] /\ s[i][1] < high
      /\ \A x \in DOMAIN m : next <= x /\ x < high => \E i \in 1..Len(s) : s[i][1] = x
  BY DEF Listed
<1>2. \A x \in DOMAIN m : next <= x => low <= x
  BY ONLY DOMAIN m \subseteq Int, low \in Int, next \in Int, low <= next
<1>3. \A i \in 1..Len(s) : low <= s[i][1] BY ONLY <1>1, <1>2
<1>4. \A x \in DOMAIN m : low <= x /\ x < high => \E i \in 1..Len(s) : s[i][1] = x
  BY ONLY <1>1, \A x \in DOMAIN m : low <= x => next <= x
<1>5. QED BY ONLY <1>1, <1>3, <1>4 DEF Listed

\* p is what is left to yield from each slot of each leaf
Yields(p, t, g, high) ==
    /\ \A j \in Nat : p[<<0, j>>] = <<>>
    /\ \A c \in LeavesOf(t, g), j \in Nat :
          LET leaf == t.nodes[c]
          IN  /\ j >= Len(leaf.keys) => p[<<c, j>>] = p[<<leaf.next, 0>>]
              /\ ~(j >= Len(leaf.keys)) =>
                   p[<<c, j>>] = IF leaf.keys[j + 1] >= high THEN <<>>
                                 ELSE << <<leaf.keys[j + 1], leaf.vals[j + 1]>> >> \o p[<<c, j + 1>>]

(* Yield is such a function, at the slot it begins with.                   *)
LEMMA YieldExists ==
    ASSUME NEW t, NEW g, Fits(t, g, 0, 0, 0), NEW m, LeavesFit(t, g, m), NEW high, NEW n, NEW s
    PROVE  \E p : Yields(p, t, g, high) /\ Yield(t, n, s, high) = p[<<n, s>>]
<1> DEFINE leaves == {o \in DOMAIN t.nodes : IsLeaf(t.nodes[o])}
           S == ({0} \cup leaves) \X Nat
           Good(rest) == rest = [c \in S |->
             LET leaf == t.nodes[c[1]] i == c[2] + 1
             IN  IF c[1] = 0 THEN <<>>
                 ELSE IF c[2] >= Len(leaf.keys) THEN rest[<<leaf.next, 0>>]
                 ELSE IF leaf.keys[i] >= high THEN <<>>
                 ELSE << <<leaf.keys[i], leaf.vals[i]>> >> \o rest[<<c[1], i>>]]
           rest == CHOOSE f : Good(f)
           X == Seq(Pairs)
           Past(c) == c[2] >= Len(t.nodes[c[1]].keys)
           Pair(c) == <<t.nodes[c[1]].keys[c[2] + 1], t.nodes[c[1]].vals[c[2] + 1]>>
           Ends == {c \in S : c[1] = 0 \/ (~Past(c) /\ t.nodes[c[1]].keys[c[2] + 1] >= high)}
           rank == [c \in S |-> Ahead(t, g, c[1], c[2])]
           next == [c \in S |-> IF Past(c) THEN <<t.nodes[c[1]].next, 0>> ELSE <<c[1], c[2] + 1>>]
           out == [c \in S |-> <<>>]
           step == [c \in S |-> [x \in X |-> IF Past(c) THEN x ELSE <<Pair(c)>> \o x]]
<1>1. Fits(t, g, 0, 0, 0) /\ LeavesFit(t, g, m) OBVIOUS
<1>2. leaves = LeavesOf(t, g)
  <2>1. t \in Tree BY ONLY <1>1 DEF Fits
  <2>2. DOMAIN t.nodes = 1..Len(t.nodes) BY ONLY <2>1, NodeTypes
  <2>3. \A o \in 1..Len(t.nodes) : IsLeaf(t.nodes[o]) <=> g.level[o] = 0 BY ONLY <1>1, LeafLevels
  <2>4. QED BY ONLY <2>2, <2>3 DEF LeavesOf
<1>3. Yield(t, n, s, high) = rest[<<n, s>>] BY Zenon DEF Yield
<1> HIDE DEF leaves
<1>4. \A c \in S : c[1] \in {0} \cup LeavesOf(t, g) /\ c[2] \in Nat /\ c = <<c[1], c[2]>> BY <1>2
<1>5. \A o, j : o \in {0} \cup LeavesOf(t, g) /\ j \in Nat => <<o, j>> \in S BY <1>2
<1> HIDE DEF S
<1>6. \A c \in S : c[1] # 0 => c[1] \in LeavesOf(t, g) BY ONLY <1>4
<1>7. rank \in [S -> Nat]
  <2> SUFFICES ASSUME NEW c \in S PROVE Ahead(t, g, c[1], c[2]) \in Nat OBVIOUS
  <2>1. CASE c[1] = 0
    <3>1. Ahead(t, g, c[1], c[2]) = 0 BY ONLY <2>1 DEF Ahead
    <3>2. QED BY ONLY <3>1
  <2>2. CASE c[1] # 0
    <3>1. c[1] \in LeavesOf(t, g) /\ c[2] \in Nat BY ONLY <1>4, <1>6, <2>2, c \in S
    <3>2. QED BY ONLY <1>1, <3>1, AheadFalls
  <2>3. QED BY ONLY <2>1, <2>2
<1>8. \A c \in S : c \in Ends => out[c] \in X OBVIOUS
<1>9. ASSUME NEW c \in S, c \notin Ends
      PROVE  next[c] \in S /\ rank[next[c]] < rank[c] /\ \A x \in X : step[c][x] \in X
  <2>1. PICK o, j : c = <<o, j>> /\ o = c[1] /\ j = c[2] /\ j \in Nat
    BY ONLY <1>4, c \in S
  <2>2. o # 0 /\ o \in LeavesOf(t, g) BY <1>6, <1>9, <2>1
  <2>3. PICK r : r = next[c] OBVIOUS
  <2>4. CASE Past(c)
    <3>1. j >= Len(t.nodes[o].keys) BY <2>1, <2>4
    <3>2. /\ t.nodes[o].next \in {0} \cup LeavesOf(t, g)
          /\ Ahead(t, g, t.nodes[o].next, 0) < Ahead(t, g, o, j)
      BY ONLY <1>1, <2>1, <2>2, <3>1, AheadFalls
    <3>3. PICK u : u = t.nodes[o].next OBVIOUS
    <3>4. r = <<u, 0>> BY <2>1, <2>3, <2>4, <3>3
    <3>5. r \in S BY ONLY <1>5, <3>2, <3>3, <3>4
    <3>6. rank[r] = Ahead(t, g, u, 0) BY <3>4, <3>5
    <3>7. rank[c] = Ahead(t, g, o, j) BY <2>1
    <3>8. \A x \in X : step[c][x] = x BY <2>4
    <3>9. \A x \in X : step[c][x] \in X BY ONLY <3>8
    <3>10. rank[r] < rank[c] BY ONLY <3>2, <3>3, <3>6, <3>7
    <3>11. QED BY ONLY <2>3, <3>5, <3>9, <3>10
  <2>5. CASE ~Past(c)
    <3>1. ~(j >= Len(t.nodes[o].keys)) BY <2>1, <2>5
    <3>2. Ahead(t, g, o, j + 1) < Ahead(t, g, o, j) BY ONLY <1>1, <2>1, <2>2, <3>1, AheadFalls
    <3>3. PICK i \in Nat : i = j + 1 BY <2>1
    <3>4. r = <<o, i>> BY <2>1, <2>3, <2>5, <3>3
    <3>5. r \in S BY ONLY <1>5, <2>2, <3>4, i \in Nat
    <3>6. rank[r] = Ahead(t, g, o, i) BY <3>4, <3>5
    <3>7. rank[c] = Ahead(t, g, o, j) BY <2>1
    <3>8. Len(t.nodes[o].keys) \in Nat /\ Len(t.nodes[o].vals) = Len(t.nodes[o].keys)
          /\ t.nodes[o].keys \in Seq(Key) /\ t.nodes[o].vals \in Seq(Int)
      BY ONLY <1>1, <2>2, LeafIs
    <3>9. i \in 1..Len(t.nodes[o].keys) /\ i \in 1..Len(t.nodes[o].vals)
      BY ONLY <2>1, <3>1, <3>3, <3>8
    <3>10. t.nodes[o].keys[i] \in Key /\ t.nodes[o].vals[i] \in Int BY ONLY <3>8, <3>9, ElementOfSeq
    <3>11. Pair(c) = <<t.nodes[o].keys[i], t.nodes[o].vals[i]>> BY <2>1, <3>3
    <3>12. PICK one : one = <<Pair(c)>> OBVIOUS
    <3>13. one \in Seq(Pairs)
      <4>1. PICK q : q = Pair(c) OBVIOUS
      <4>2. q \in Pairs BY ONLY <3>10, <3>11, <4>1 DEF Pairs
      <4>3. one = <<q>> BY ONLY <3>12, <4>1
      <4>4. QED BY ONLY <4>2, <4>3
    <3>14. \A x \in X : step[c][x] = one \o x BY <2>5, <3>12
    <3>15. \A x \in X : step[c][x] \in X BY ONLY <3>13, <3>14, ConcatProperties
    <3>16. rank[r] < rank[c] BY ONLY <3>2, <3>3, <3>6, <3>7
    <3>17. QED BY ONLY <2>3, <3>5, <3>15, <3>16
  <2>6. QED BY ONLY <2>4, <2>5
<1>10. \A f : IsWalk(f, S, X, Ends, next, out, step) => Good(f)
  <2> SUFFICES ASSUME NEW f, IsWalk(f, S, X, Ends, next, out, step) PROVE Good(f) OBVIOUS
  <2>1. /\ f \in [S -> X]
        /\ \A c \in S : f[c] = IF c \in Ends THEN out[c] ELSE step[c][f[next[c]]]
    BY DEF IsWalk
  <2> SUFFICES ASSUME NEW c \in S
               PROVE  f[c] = LET leaf == t.nodes[c[1]] i == c[2] + 1
             IN  IF c[1] = 0 THEN <<>>
                 ELSE IF c[2] >= Len(leaf.keys) THEN f[<<leaf.next, 0>>]
                 ELSE IF leaf.keys[i] >= high THEN <<>>
                 ELSE << <<leaf.keys[i], leaf.vals[i]>> >> \o f[<<c[1], i>>]
    BY <2>1
  <2>2. CASE c \in Ends
    <3>1. f[c] = <<>> BY <2>1, <2>2
    <3>2. c[1] = 0 \/ (~Past(c) /\ t.nodes[c[1]].keys[c[2] + 1] >= high) BY <2>2
    <3> HIDE DEF Ends, next, out, step, rank
    <3>3. QED BY ONLY <3>1, <3>2
  <2>3. CASE c \notin Ends
    <3>1. f[c] = step[c][f[next[c]]] BY <2>1, <2>3
    <3>2. c[1] # 0 /\ (Past(c) \/ ~(t.nodes[c[1]].keys[c[2] + 1] >= high)) BY <2>3
    <3>3. next[c] \in S BY <1>9, <2>3
    <3>4. f[next[c]] \in X BY <2>1, <3>3
    <3>5. step[c][f[next[c]]] = IF Past(c) THEN f[next[c]] ELSE <<Pair(c)>> \o f[next[c]]
      BY <3>4
    <3>6. next[c] = IF Past(c) THEN <<t.nodes[c[1]].next, 0>> ELSE <<c[1], c[2] + 1>> OBVIOUS
    <3> HIDE DEF Ends, next, out, step, rank
    <3>7. CASE Past(c)
      <4>1. f[c] = f[<<t.nodes[c[1]].next, 0>>] BY ONLY <3>1, <3>5, <3>6, <3>7
      <4>2. QED BY ONLY <3>2, <3>7, <4>1
    <3>8. CASE ~Past(c)
      <4>1. f[c] = <<Pair(c)>> \o f[<<c[1], c[2] + 1>>] BY ONLY <3>1, <3>5, <3>6, <3>8
      <4>2. ~(t.nodes[c[1]].keys[c[2] + 1] >= high) BY ONLY <3>2, <3>8
      <4>3. QED BY ONLY <3>2, <3>8, <4>1, <4>2
    <3>9. QED BY ONLY <3>7, <3>8
  <2>4. QED BY ONLY <2>2, <2>3
<1>11. \A f : Good(f) => Yields(f, t, g, high)
  <2> SUFFICES ASSUME NEW f, Good(f) PROVE Yields(f, t, g, high) OBVIOUS
  <2>1. \A o, j : <<o, j>> \in S => f[<<o, j>>] =
             LET leaf == t.nodes[o] i == j + 1
             IN  IF o = 0 THEN <<>>
                 ELSE IF j >= Len(leaf.keys) THEN f[<<leaf.next, 0>>]
                 ELSE IF leaf.keys[i] >= high THEN <<>>
                 ELSE << <<leaf.keys[i], leaf.vals[i]>> >> \o f[<<o, i>>]
    <3> SUFFICES ASSUME NEW o, NEW j, <<o, j>> \in S
                 PROVE  f[<<o, j>>] =
             LET leaf == t.nodes[o] i == j + 1
             IN  IF o = 0 THEN <<>>
                 ELSE IF j >= Len(leaf.keys) THEN f[<<leaf.next, 0>>]
                 ELSE IF leaf.keys[i] >= high THEN <<>>
                 ELSE << <<leaf.keys[i], leaf.vals[i]>> >> \o f[<<o, i>>]
      OBVIOUS
    <3>1. PICK c : c = <<o, j>> OBVIOUS
    <3>2. c \in S /\ c[1] = o /\ c[2] = j BY <3>1
    <3>3. f[c] = LET leaf == t.nodes[c[1]] i == c[2] + 1
             IN  IF c[1] = 0 THEN <<>>
                 ELSE IF c[2] >= Len(leaf.keys) THEN f[<<leaf.next, 0>>]
                 ELSE IF leaf.keys[i] >= high THEN <<>>
                 ELSE << <<leaf.keys[i], leaf.vals[i]>> >> \o f[<<c[1], i>>]
      BY <3>2
    <3> HIDE DEF Good
    <3>4. QED BY ONLY <3>1, <3>2, <3>3
  <2> HIDE DEF Good
  <2>2. \A j \in Nat : <<0, j>> \in S BY ONLY <1>5
  <2>3. \A c \in LeavesOf(t, g), j \in Nat : <<c, j>> \in S BY ONLY <1>5
  <2>4. \A c \in LeavesOf(t, g) : c # 0 BY ONLY <1>1, LeafIs
  <2>5. \A j \in Nat : f[<<0, j>>] = <<>> BY ONLY <2>1, <2>2
  <2>6. ASSUME NEW c \in LeavesOf(t, g), NEW j \in Nat
        PROVE  /\ j >= Len(t.nodes[c].keys) => f[<<c, j>>] = f[<<t.nodes[c].next, 0>>]
               /\ ~(j >= Len(t.nodes[c].keys)) =>
                    f[<<c, j>>] = IF t.nodes[c].keys[j + 1] >= high THEN <<>>
                                  ELSE << <<t.nodes[c].keys[j + 1], t.nodes[c].vals[j + 1]>> >>
                                         \o f[<<c, j + 1>>]
    BY ONLY <2>1, <2>3, <2>4, c \in LeavesOf(t, g), j \in Nat
  <2>7. QED BY ONLY <2>5, <2>6 DEF Yields
<1> HIDE DEF Ends, rank, next, out, step, X, Good
<1>12. Steps(S, X, rank, Ends, next, out, step) BY ONLY <1>7, <1>8, <1>9 DEF Steps
<1>13. \E f : IsWalk(f, S, X, Ends, next, out, step) BY ONLY <1>12, WalkExists
<1>14. Good(rest) BY ONLY <1>10, <1>13
<1>15. QED BY <1>3, <1>11, <1>14

(* From an edge on, a scan yields what the map has from there to high.     *)
LEMMA YieldIs ==
    ASSUME NEW t, NEW g, Fits(t, g, 0, 0, 0), NEW m, LeavesFit(t, g, m), NEW high \in Int,
           NEW n, NEW s, NEW low, Edge(t, g, n, s, low)
    PROVE  Listed(Yield(t, n, s, high), m, low, high)
<1>1. Fits(t, g, 0, 0, 0) /\ LeavesFit(t, g, m) /\ Edge(t, g, n, s, low) OBVIOUS
<1>2. PICK p : Yields(p, t, g, high) /\ Yield(t, n, s, high) = p[<<n, s>>] BY ONLY <1>1, YieldExists
<1> DEFINE Right(c, j, e) == Edge(t, g, c, j, e) => Listed(p[<<c, j>>], m, e, high)
           Below(r) == \A c, j, e : Ahead(t, g, c, j) \in Nat /\ Ahead(t, g, c, j) < r => Right(c, j, e)
           T == {r \in Nat : Below(r)}
<1>3. 0 \in T
  <2>1. \A c, j : ~(Ahead(t, g, c, j) \in Nat /\ Ahead(t, g, c, j) < 0) OBVIOUS
  <2>2. QED BY <2>1
<1>4. \A x \in DOMAIN m : x \in Int /\ x < Infinity BY ONLY <1>1, MapKeys
<1>5. Infinity \in Int BY InfinityIs
<1>6. \A c, j, e : Edge(t, g, c, j, e) => /\ e \in Int /\ j \in Nat /\ (c = 0 => e = Infinity)
                                          /\ (c # 0 => c \in LeavesOf(t, g))
  BY DEF Edge
<1>7. \A c, j, e : Edge(t, g, c, j, e) => Ahead(t, g, c, j) \in Nat
  <2> SUFFICES ASSUME NEW c, NEW j, NEW e, Edge(t, g, c, j, e) PROVE Ahead(t, g, c, j) \in Nat OBVIOUS
  <2>1. CASE c = 0
    <3>1. Ahead(t, g, c, j) = 0 BY ONLY <2>1 DEF Ahead
    <3>2. QED BY ONLY <3>1
  <2>2. CASE c # 0
    <3>1. c \in LeavesOf(t, g) /\ j \in Nat BY ONLY <1>6, <2>2, Edge(t, g, c, j, e)
    <3>2. QED BY ONLY <1>1, <3>1, AheadFalls
  <2>3. QED BY ONLY <2>1, <2>2
<1>8. ASSUME NEW c, NEW j, NEW e, Edge(t, g, c, j, e), Below(Ahead(t, g, c, j))
      PROVE  Listed(p[<<c, j>>], m, e, high)
  <2>1. /\ e \in Int /\ j \in Nat /\ (c = 0 => e = Infinity) /\ (c # 0 => c \in LeavesOf(t, g))
        /\ Edge(t, g, c, j, e)
    BY ONLY <1>6, <1>8
  <2>2. CASE c = 0
    <3>1. p[<<c, j>>] = <<>> BY ONLY <1>2, <2>1, <2>2 DEF Yields
    <3>2. \A x \in DOMAIN m : ~(e <= x /\ x < high) BY ONLY <1>4, <1>5, <2>1, <2>2
    <3>3. QED BY ONLY <3>1, <3>2, ListedNone
  <2>3. CASE c # 0 /\ j >= Len(t.nodes[c].keys)
    <3>1. p[<<c, j>>] = p[<<t.nodes[c].next, 0>>] BY ONLY <1>2, <2>1, <2>3 DEF Yields
    <3>2. PICK u : u = t.nodes[c].next OBVIOUS
    <3>3. PICK z : z = 0 OBVIOUS
    <3>4. PICK d : d = g.hi[c] OBVIOUS
    <3>5. /\ Edge(t, g, t.nodes[c].next, 0, g.hi[c]) /\ e <= g.hi[c]
          /\ \A x \in DOMAIN m : e <= x => g.hi[c] <= x
      BY ONLY <1>1, <2>1, <2>3, EdgeAtEnd
    <3>6. Edge(t, g, u, z, d) /\ e <= d /\ \A x \in DOMAIN m : e <= x => d <= x
      BY ONLY <3>2, <3>3, <3>4, <3>5
    <3>7. d \in Int /\ Ahead(t, g, u, z) \in Nat BY ONLY <1>6, <1>7, <3>6
    <3>8. Ahead(t, g, u, z) < Ahead(t, g, c, j) BY ONLY <1>1, <2>1, <2>3, <3>2, <3>3, AheadFalls
    <3>9. Listed(p[<<u, z>>], m, d, high) BY ONLY <1>8, <3>6, <3>7, <3>8
    <3>10. PICK q : q = p[<<u, z>>] OBVIOUS
    <3>11. Listed(q, m, d, high) /\ DOMAIN m \subseteq Int BY ONLY <1>4, <3>9, <3>10
    <3>12. Listed(q, m, e, high) BY ONLY <2>1, <3>6, <3>7, <3>11, ListedFrom
    <3>13. QED BY ONLY <3>1, <3>2, <3>3, <3>10, <3>12
  <2>4. CASE c # 0 /\ ~(j >= Len(t.nodes[c].keys))
    <3>1. PICK k : k = t.nodes[c].keys[j + 1] OBVIOUS
    <3>2. PICK v : v = t.nodes[c].vals[j + 1] OBVIOUS
    <3>3. PICK i : i = j + 1 OBVIOUS
    <3>4. PICK d : d = k + 1 OBVIOUS
    <3>5. p[<<c, j>>] = IF k >= high THEN <<>> ELSE << <<k, v>> >> \o p[<<c, i>>]
      BY ONLY <1>2, <2>1, <2>4, <3>1, <3>2, <3>3 DEF Yields
    <3>6. j < Len(t.nodes[c].keys)
      <4>1. Len(t.nodes[c].keys) \in Nat BY ONLY <1>1, <2>1, <2>4, LeafIs
      <4>2. QED BY ONLY <2>1, <2>4, <4>1
    <3>7. /\ k \in Key /\ k \in Int /\ k \in DOMAIN m
          /\ t.nodes[c].vals[j + 1] = m[k] /\ m[k] \in Int
          /\ e <= k /\ Edge(t, g, c, j + 1, k + 1)
          /\ \A x \in DOMAIN m : e <= x => k <= x
      BY ONLY <1>1, <2>1, <2>4, <3>1, <3>6, EdgeOnKey
    <3>8. Edge(t, g, c, i, d) /\ v = m[k] /\ v \in Int BY ONLY <3>2, <3>3, <3>4, <3>7
    <3>9. CASE k >= high
      <4>1. p[<<c, j>>] = <<>> BY ONLY <3>5, <3>9
      <4>2. \A x \in DOMAIN m : ~(e <= x /\ x < high)
        BY ONLY <1>4, <2>1, <3>7, <3>9, high \in Int
      <4>3. QED BY ONLY <4>1, <4>2, ListedNone
    <3>10. CASE ~(k >= high)
      <4>1. Ahead(t, g, c, i) \in Nat BY ONLY <1>7, <3>8
      <4>2. Ahead(t, g, c, i) < Ahead(t, g, c, j) BY ONLY <1>1, <2>1, <2>4, <3>3, AheadFalls
      <4>3. Listed(p[<<c, i>>], m, d, high) BY ONLY <1>8, <3>8, <4>1, <4>2
      <4>4. PICK q : q = p[<<c, i>>] OBVIOUS
      <4>5. Listed(q, m, k + 1, high) BY ONLY <3>4, <4>3, <4>4
      <4>6. p[<<c, j>>] = << <<k, v>> >> \o q BY ONLY <3>5, <3>10, <4>4
      <4>7. k < high BY ONLY <3>7, <3>10, high \in Int
      <4>8. PICK long : long = p[<<c, j>>] OBVIOUS
      <4>9. long = << <<k, v>> >> \o q /\ DOMAIN m \subseteq Int BY ONLY <1>4, <4>6, <4>8
      <4>10. Listed(long, m, e, high)
        BY ONLY <2>1, <3>7, <3>8, <4>5, <4>7, <4>9, high \in Int, ListedFirst
      <4>11. QED BY ONLY <4>8, <4>10
    <3>11. QED BY ONLY <3>9, <3>10
  <2>5. QED BY ONLY <2>2, <2>3, <2>4
<1> HIDE DEF Right
<1>9. ASSUME NEW r \in Nat, r \in T PROVE r + 1 \in T
  <2> SUFFICES ASSUME NEW c, NEW j, NEW e, Ahead(t, g, c, j) \in Nat, Ahead(t, g, c, j) < r + 1
               PROVE  Right(c, j, e)
    OBVIOUS
  <2>1. Below(r) BY <1>9
  <2>2. PICK a \in Nat : a = Ahead(t, g, c, j) OBVIOUS
  <2>3. \A b \in Nat : b < a => b < r BY ONLY <2>2, Ahead(t, g, c, j) < r + 1, r \in Nat
  <2>4. Below(a)
    <3> HIDE DEF T
    <3>1. QED BY <2>1, <2>3
  <2>5. QED BY ONLY <1>8, <2>2, <2>4 DEF Right
<1> HIDE DEF Below
<1>10. Nat \subseteq T
  <2> HIDE DEF T
  <2>1. QED BY ONLY <1>3, <1>9, NatSetInduction
<1>11. Ahead(t, g, n, s) \in Nat BY ONLY <1>1, <1>7
<1>12. Below(Ahead(t, g, n, s)) BY <1>10, <1>11
<1>13. Listed(p[<<n, s>>], m, low, high) BY ONLY <1>1, <1>8, <1>12
<1>14. QED BY ONLY <1>2, <1>13

(* What is listed is the map's pairs for those keys.                       *)
LEMMA ListedLists ==
    ASSUME NEW s, NEW low, NEW high, Listed(s, map, low, high), NEW keys,
           \A k : k \in keys <=> k \in DOMAIN map /\ low <= k /\ k < high
    PROVE  Lists(s, keys)
<1>1. /\ s \in Seq(Pairs) /\ Climbs(s)
      /\ \A i \in 1..Len(s) : /\ s[i] = <<s[i][1], map[s[i][1]]>>
                              /\ s[i][1] \in DOMAIN map /\ low <= s[i][1] /\ s[i][1] < high
      /\ \A x \in DOMAIN map : low <= x /\ x < high => \E i \in 1..Len(s) : s[i][1] = x
  BY DEF Listed
<1>2. DOMAIN s = 1..Len(s) BY ONLY <1>1, LenProperties
<1>3. \A p : p \in Range(s) <=> \E i \in 1..Len(s) : s[i] = p BY <1>2 DEF Range
<1>4. \A i \in 1..Len(s) : s[i] \in {<<k, map[k]>> : k \in keys}
  <2> SUFFICES ASSUME NEW i \in 1..Len(s) PROVE s[i] \in {<<k, map[k]>> : k \in keys} OBVIOUS
  <2>1. PICK k : k = s[i][1] OBVIOUS
  <2>2. s[i] = <<k, map[k]>> /\ k \in DOMAIN map /\ low <= k /\ k < high BY ONLY <1>1, <2>1, i \in 1..Len(s)
  <2>3. k \in keys BY <2>2
  <2>4. QED BY ONLY <2>2, <2>3
<1>5. \A k \in keys : \E i \in 1..Len(s) : s[i] = <<k, map[k]>>
  <2> SUFFICES ASSUME NEW k \in keys PROVE \E i \in 1..Len(s) : s[i] = <<k, map[k]>> OBVIOUS
  <2>1. k \in DOMAIN map /\ low <= k /\ k < high OBVIOUS
  <2>2. PICK i \in 1..Len(s) : s[i][1] = k BY ONLY <1>1, <2>1
  <2>3. s[i] = <<s[i][1], map[s[i][1]]>> BY ONLY <1>1, <2>2
  <2>4. s[i] = <<k, map[k]>> BY ONLY <2>2, <2>3
  <2>5. QED BY ONLY <2>2, <2>4
<1>6. Range(s) = {<<k, map[k]>> : k \in keys} BY ONLY <1>3, <1>4, <1>5
<1>7. QED BY ONLY <1>1, <1>6 DEF Lists, Climbs

(* Where find stops is an edge.                                            *)
LEMMA FoundEdge ==
    ASSUME NEW t, NEW g, Fits(t, g, 0, 0, 0), NEW m, NEW k \in Int, NEW n, NEW s, Found(t, g, m, k, n, s)
    PROVE  n # 0 /\ Edge(t, g, n, s, k)
<1>1. n \in LeavesOf(t, g) /\ g.lo[n] <= k /\ k < g.hi[n] /\ SlotIs(t.nodes[n].keys, k, s)
  BY DEF Found, IsHome
<1>2. n # 0 /\ Len(t.nodes[n].keys) \in Nat /\ g.hi[n] \in Int BY ONLY <1>1, Fits(t, g, 0, 0, 0), LeafIs
<1>3. /\ s \in 0..Len(t.nodes[n].keys)
      /\ \A i \in 1..s : t.nodes[n].keys[i] < k
      /\ \A i \in (s + 1)..Len(t.nodes[n].keys) : k <= t.nodes[n].keys[i]
  BY ONLY <1>1 DEF SlotIs
<1>4. s \in Nat BY ONLY <1>2, <1>3
<1>5. \A i \in 1..Len(t.nodes[n].keys) : IF i <= s THEN i \in 1..s ELSE i \in (s + 1)..Len(t.nodes[n].keys)
  BY ONLY <1>2, <1>4
<1>6. k <= g.hi[n] BY ONLY <1>1, <1>2, k \in Int
<1>7. \A i \in 1..Len(t.nodes[n].keys) :
                      IF i <= s THEN t.nodes[n].keys[i] < k ELSE k <= t.nodes[n].keys[i]
  BY ONLY <1>3, <1>5
<1>8. QED BY ONLY <1>1, <1>2, <1>4, <1>6, <1>7, k \in Int DEF Edge

(* A tree that fits is read as the map.                                    *)
LEMMA ReadsWell ==
    ASSUME NEW g, Fits(tree, g, 0, 0, 0), LeavesFit(tree, g, map)
    PROVE  ReadsAreTheMap
<1>1. Fits(tree, g, 0, 0, 0) /\ LeavesFit(tree, g, map) OBVIOUS
<1>2. \A x \in DOMAIN map : x \in Int /\ 0 <= x /\ x < Infinity BY ONLY <1>1, MapKeys
<1>3. Infinity \in Int /\ \A k \in Key : k \in Int BY InfinityIs
<1>4. ScanIsTheMap
  <2>1. PICK low \in Int : low = -1 OBVIOUS
  <2>2. PICK high \in Int : high = Infinity BY <1>3
  <2>3. PICK j : j = 0 OBVIOUS
  <2>4. PICK n : n = Leftmost(tree) OBVIOUS
  <2>5. Edge(tree, g, Leftmost(tree), 0, -1) BY ONLY <1>1, LeftmostIs
  <2>6. Edge(tree, g, n, j, low) BY ONLY <2>1, <2>3, <2>4, <2>5
  <2>7. Listed(Yield(tree, n, j, high), map, low, high) BY ONLY <1>1, <2>6, high \in Int, YieldIs
  <2>8. PICK s : s = items(tree) OBVIOUS
  <2>9. s = Yield(tree, n, j, high) BY ONLY <2>2, <2>3, <2>4, <2>8 DEF items
  <2>10. \A k : k \in DOMAIN map <=> k \in DOMAIN map /\ low <= k /\ k < high BY ONLY <1>2, <2>1, <2>2
  <2>11. Lists(s, DOMAIN map) BY ONLY <2>7, <2>9, <2>10, ListedLists
  <2>12. tree.size = Cardinality(DOMAIN map) BY ONLY <1>1 DEF LeavesFit
  <2>13. QED BY ONLY <2>8, <2>11, <2>12 DEF ScanIsTheMap
<1>5. LookupsFind
  <2> SUFFICES ASSUME NEW k \in Key
               PROVE (Hit(tree, k) <=> k \in DOMAIN map) /\ (Hit(tree, k) => get(tree, k) = map[k])
    BY Zenon DEF LookupsFind
  <2>1. PICK n, s : Found(tree, g, map, k, n, s) BY ONLY <1>1, FindIs, k \in Key
  <2>2. /\ Hit(tree, k) <=> k \in DOMAIN map
        /\ k \in DOMAIN map => get(tree, k) = map[k]
    BY ONLY <2>1 DEF Found
  <2>3. QED BY ONLY <2>2
<1>6. RangesAreExact
  <2> SUFFICES ASSUME NEW low \in Key, NEW high \in Key
               PROVE  Lists(range(tree, low, high), {k \in DOMAIN map : low <= k /\ k < high})
    BY DEF RangesAreExact
  <2>1. low \in Int /\ high \in Int BY ONLY <1>3, low \in Key, high \in Key
  <2>2. PICK n, s : Found(tree, g, map, low, n, s) BY ONLY <1>1, FindIs, low \in Key
  <2>3. find(tree, low) = [leaf |-> n, slot |-> s] BY ONLY <2>2 DEF Found
  <2>4. Edge(tree, g, n, s, low) BY ONLY <1>1, <2>1, <2>2, FoundEdge
  <2>5. Listed(Yield(tree, n, s, high), map, low, high) BY ONLY <1>1, <2>1, <2>4, YieldIs
  <2>6. range(tree, low, high) = Yield(tree, find(tree, low).leaf, find(tree, low).slot, high)
    BY Zenon DEF range
  <2>7. PICK p : p = range(tree, low, high) OBVIOUS
  <2>8. p = Yield(tree, n, s, high) BY ONLY <2>3, <2>6, <2>7
  <2>9. PICK keys : keys = {k \in DOMAIN map : low <= k /\ k < high} OBVIOUS
  <2>10. \A k : k \in keys <=> k \in DOMAIN map /\ low <= k /\ k < high BY ONLY <2>9
  <2>11. Lists(p, keys) BY ONLY <2>5, <2>8, <2>10, ListedLists
  <2>12. QED BY ONLY <2>7, <2>9, <2>11
<1>7. QED BY ONLY <1>4, <1>5, <1>6 DEF ReadsAreTheMap

-----------------------------------------------------------------------------
(* Sweeping.                                                               *)

\* after the deletion of k the slot j is past the keys below d: of those from e on, at most
\* b and k
Skips(u, g, m, c, j, e, k, d, b) ==
    /\ Edge(u, g, c, j, d) /\ k < d
    /\ \A x \in DOMAIN m : e <= x /\ x < d /\ x # k => x = b

\* u is t, that fits the map, after the deletion of k, the next key at slot j
Passed(u, t, g, m, c, j, e, k) ==
    /\ k \in Key /\ k \in DOMAIN m /\ e <= k /\ Len(u.nodes) = Len(t.nodes)
    /\ Fits(u, g, 0, 0, 0) /\ LeavesFit(u, g, Without(m, {k}))
    /\ \E d, b : Skips(u, g, m, c, j + 1, e, k, d, b)

(* The slot after that of a key that is deleted is past the next one too.  *)
LEMMA EdgeAfterDelete ==
    ASSUME NEW t, NEW g, Fits(t, g, 0, 0, 0), NEW m, LeavesFit(t, g, m),
           NEW c, c # 0, NEW j, NEW e, Edge(t, g, c, j, e), j < Len(t.nodes[c].keys),
           NEW k, k = t.nodes[c].keys[j + 1], NEW u, u = delete(t, k)
    PROVE  Passed(u, t, g, m, c, j, e, k)
<1>1. /\ Fits(t, g, 0, 0, 0) /\ LeavesFit(t, g, m) /\ c # 0 /\ Edge(t, g, c, j, e)
      /\ j < Len(t.nodes[c].keys) /\ k = t.nodes[c].keys[j + 1]
  OBVIOUS
<1>2. PICK i : i = j + 1 OBVIOUS
<1>3. PICK keys : keys = t.nodes[c].keys OBVIOUS
<1>4. PICK len : len = Len(keys) OBVIOUS
<1>5. /\ j + 1 \in 1..Len(t.nodes[c].keys) /\ k \in Key /\ k \in Int /\ k \in DOMAIN m
      /\ e <= k /\ k < g.hi[c] /\ Edge(t, g, c, j + 1, k + 1)
      /\ \A x \in DOMAIN m : e <= x => k <= x
  BY ONLY <1>1, EdgeOnKey
<1>6. e \in Int /\ j \in Nat /\ c \in LeavesOf(t, g) /\ g.lo[c] <= e BY ONLY <1>1 DEF Edge
<1>7. /\ g.lo[c] \in Int /\ g.hi[c] \in Int /\ g.lo[c] < g.hi[c] /\ len \in Nat
      /\ c \in 1..Len(t.nodes) /\ g.level[c] = 0
      /\ KeysFit(keys, g.lo[c], g.hi[c])
      /\ \A a \in 1..len : keys[a] \in Int /\ keys[a] < g.hi[c]
  BY ONLY <1>1, <1>3, <1>4, <1>6, LeafIs
<1>8. i \in 1..len /\ keys[i] = k /\ i \in Nat BY ONLY <1>1, <1>2, <1>3, <1>4, <1>5, <1>6
<1>9. \A a \in 1..len, b \in 1..len : a < b => keys[a] < keys[b]
  BY ONLY <1>4, <1>7 DEF KeysFit, Ascending
<1>10. PICK n, s : Found(t, g, m, k, n, s) BY ONLY <1>1, <1>5, FindIs
<1>11. n = c /\ s = j
  <2>1. IsHome(t, g, n, k) /\ s + 1 \in 1..Len(t.nodes[n].keys) /\ t.nodes[n].keys[s + 1] = k
        /\ SlotIs(t.nodes[n].keys, k, s)
    BY ONLY <1>5, <1>10 DEF Found
  <2>2. g.lo[c] <= k BY ONLY <1>5, <1>6, <1>7
  <2>3. IsHome(t, g, c, k) BY ONLY <1>5, <1>6, <2>2 DEF IsHome
  <2>4. c = n BY ONLY <1>1, <1>5, <1>6, <2>1, <2>3, HomeHas
  <2>5. PICK a : a = s + 1 OBVIOUS
  <2>6. a \in 1..len /\ keys[a] = k BY ONLY <1>3, <1>4, <2>1, <2>4, <2>5
  <2>7. ~(a < i) /\ ~(i < a)
    <3>1. a < i => keys[a] < keys[i] BY ONLY <1>8, <1>9, <2>6
    <3>2. i < a => keys[i] < keys[a] BY ONLY <1>8, <1>9, <2>6
    <3>3. ~(k < k) BY ONLY <1>5
    <3>4. QED BY ONLY <1>8, <2>6, <3>1, <3>2, <3>3
  <2>8. a = i BY ONLY <1>8, <2>6, <2>7
  <2>9. s \in 0..len BY ONLY <1>3, <1>4, <2>1, <2>4 DEF SlotIs
  <2>10. s = j BY ONLY <1>2, <1>6, <2>5, <2>8, <2>9
  <2>11. QED BY ONLY <2>4, <2>10
<1>12. Cleared(u, t, n, s + 1) /\ Fits(u, g, 0, 0, 0) /\ LeavesFit(u, g, Without(m, {k}))
  BY ONLY <1>1, <1>5, <1>10, u = delete(t, k), DeleteIs
<1>13. PICK new : new = u.nodes[c].keys OBVIOUS
<1>14. IsWithout(new, keys, i) /\ Len(u.nodes) = Len(t.nodes)
  BY ONLY <1>2, <1>3, <1>11, <1>12, <1>13 DEF Cleared, LeafChange
<1>15. /\ Len(new) = len - 1
       /\ \A a \in 1..(i - 1) : new[a] = keys[a]
       /\ \A a \in i..(len - 1) : new[a] = keys[a + 1]
  BY ONLY <1>4, <1>14 DEF IsWithout
<1>16. c \in LeavesOf(u, g) BY ONLY <1>7, <1>14 DEF LeavesOf
<1>17. \E d, b : /\ d \in Int /\ k < d /\ d <= g.hi[c]
                 /\ \A a \in 1..(len - 1) : IF a <= i THEN new[a] < d ELSE d <= new[a]
                 /\ \A x \in DOMAIN m : k + 1 <= x /\ x < d => x = b
  <2>1. PICK z \in Int : z = k + 1 BY ONLY <1>5
  <2>2. Edge(t, g, c, i, z) BY ONLY <1>2, <1>5, <2>1
  <2>3. \A x \in DOMAIN m : x \in Int BY ONLY <1>1, MapKeys
  <2>4. CASE i < len
    <3>1. PICK o \in Nat : o = i + 1 BY ONLY <1>8
    <3>2. o \in 1..len /\ o # 0 BY ONLY <1>7, <1>8, <2>4, <3>1
    <3>3. PICK p : p = keys[o] OBVIOUS
    <3>4. PICK d \in Int : d = p + 1 BY <1>7, <3>2, <3>3
    <3>5. p \in Int /\ p < g.hi[c] /\ k < p
      <4>1. i < o BY ONLY <1>8, <3>1
      <4>2. QED BY ONLY <1>7, <1>8, <1>9, <3>2, <3>3, <4>1
    <3>6. \A x \in DOMAIN m : z <= x => p <= x
      BY ONLY <1>1, <1>3, <1>4, <2>2, <2>4, <3>1, <3>3, EdgeOnKey
    <3>7. \A x \in DOMAIN m : k + 1 <= x /\ x < d => x = p BY ONLY <2>1, <2>3, <3>4, <3>5, <3>6
    <3>8. k < d /\ d <= g.hi[c] BY ONLY <1>5, <1>7, <3>4, <3>5
    <3>9. ASSUME NEW a \in 1..(len - 1) PROVE IF a <= i THEN new[a] < d ELSE d <= new[a]
      <4>1. a \in 1..len /\ a + 1 \in 1..len /\ a \in Int BY ONLY <1>7, a \in 1..(len - 1)
      <4>2. a < i \/ a = i \/ i < a BY ONLY <1>8, <4>1
      <4>3. CASE a < i
        <5>1. a \in 1..(i - 1) /\ a <= i BY ONLY <1>8, <4>1, <4>3
        <5>2. new[a] = keys[a] BY ONLY <1>15, <5>1
        <5>3. keys[a] < k /\ keys[a] \in Int BY ONLY <1>7, <1>8, <1>9, <4>1, <4>3
        <5>4. keys[a] < d BY ONLY <1>5, <3>8, <5>3, d \in Int
        <5>5. QED BY ONLY <5>1, <5>2, <5>4
      <4>4. CASE a = i
        <5>1. a \in i..(len - 1) /\ a <= i BY ONLY <1>8, <4>1, <4>4, <1>7, a \in 1..(len - 1)
        <5>2. new[a] = keys[a + 1] BY ONLY <1>15, <5>1
        <5>3. new[a] = p BY ONLY <3>1, <3>3, <4>4, <5>2
        <5>4. p < d BY ONLY <3>4, <3>5
        <5>5. QED BY ONLY <5>1, <5>3, <5>4
      <4>5. CASE i < a
        <5>1. a \in i..(len - 1) /\ ~(a <= i) BY ONLY <1>7, <1>8, <4>1, <4>5, a \in 1..(len - 1)
        <5>2. new[a] = keys[a + 1] BY ONLY <1>15, <5>1
        <5>3. PICK b : b = a + 1 OBVIOUS
        <5>4. b \in 1..len /\ o < b BY ONLY <1>8, <3>1, <4>1, <4>5, <5>3
        <5>5. p < keys[b] /\ keys[b] \in Int BY ONLY <1>7, <1>9, <3>2, <3>3, <5>4
        <5>6. d <= new[a] BY ONLY <3>4, <3>5, <5>2, <5>3, <5>5
        <5>7. QED BY ONLY <5>1, <5>6
      <4>6. QED BY ONLY <4>2, <4>3, <4>4, <4>5
    <3>10. QED BY ONLY <3>7, <3>8, <3>9, d \in Int
  <2>5. CASE ~(i < len)
    <3>1. PICK d : d = g.hi[c] OBVIOUS
    <3>2. i >= len /\ i = len BY ONLY <1>7, <1>8, <2>5
    <3>3. \A x \in DOMAIN m : z <= x => d <= x
      BY ONLY <1>1, <1>3, <1>4, <2>2, <3>1, <3>2, EdgeAtEnd
    <3>4. d \in Int /\ k < d /\ d <= g.hi[c] BY ONLY <1>5, <1>7, <3>1
    <3>5. \A x \in DOMAIN m : ~(k + 1 <= x /\ x < d) BY ONLY <2>1, <2>3, <3>3, <3>4
    <3>6. ASSUME NEW a \in 1..(len - 1) PROVE IF a <= i THEN new[a] < d ELSE d <= new[a]
      <4>1. a \in 1..(i - 1) /\ a <= i /\ a \in 1..len BY ONLY <1>7, <3>2, a \in 1..(len - 1)
      <4>2. new[a] = keys[a] BY ONLY <1>15, <4>1
      <4>3. keys[a] < d BY ONLY <1>7, <3>1, <4>1
      <4>4. QED BY ONLY <4>1, <4>2, <4>3
    <3>7. QED BY ONLY <3>4, <3>5, <3>6
  <2>6. QED BY ONLY <2>4, <2>5
<1>18. PICK d, b : /\ d \in Int /\ k < d /\ d <= g.hi[c]
                   /\ \A a \in 1..(len - 1) : IF a <= i THEN new[a] < d ELSE d <= new[a]
                   /\ \A x \in DOMAIN m : k + 1 <= x /\ x < d => x = b
  BY ONLY <1>17
<1>19. Edge(u, g, c, i, d)
  <2>1. g.lo[c] <= d BY ONLY <1>5, <1>6, <1>7, <1>18
  <2>2. QED BY ONLY <1>1, <1>8, <1>13, <1>15, <1>16, <1>18, <2>1 DEF Edge
<1>20. \A x \in DOMAIN m : e <= x /\ x < d /\ x # k => x = b
  <2>1. \A x \in DOMAIN m : x \in Int BY ONLY <1>1, MapKeys
  <2>2. \A x \in DOMAIN m : e <= x /\ x # k => k + 1 <= x BY ONLY <1>5, <2>1
  <2>3. QED BY ONLY <1>18, <2>2
<1>21. Skips(u, g, m, c, i, e, k, d, b) BY ONLY <1>18, <1>19, <1>20 DEF Skips
<1>22. QED BY ONLY <1>2, <1>5, <1>12, <1>14, <1>21 DEF Passed

-----------------------------------------------------------------------------
(* Counting.                                                               *)

(* Of a part of a finite set.                                              *)
LEMMA Fewer ==
    ASSUME NEW B, IsFiniteSet(B), NEW A, A \subseteq B
    PROVE  /\ IsFiniteSet(A) /\ Cardinality(A) \in Nat /\ Cardinality(B) \in Nat
           /\ Cardinality(A) <= Cardinality(B)
           /\ \A x \in B : x \notin A => Cardinality(A) + 1 <= Cardinality(B)
<1>1. IsFiniteSet(A) /\ Cardinality(A) <= Cardinality(B) /\ (Cardinality(B) = Cardinality(A) => B = A)
  BY FS_Subset
<1>2. Cardinality(A) \in Nat /\ Cardinality(B) \in Nat BY <1>1, FS_CardinalityType
<1>3. ASSUME NEW x \in B, x \notin A PROVE Cardinality(A) + 1 <= Cardinality(B)
  <2>1. A # B BY <1>3
  <2>2. QED BY ONLY <1>1, <1>2, <2>1
<1>4. QED BY ONLY <1>1, <1>2, <1>3

(* Of what has at most one member that a finite set does not have.         *)
LEMMA OneMore ==
    ASSUME NEW B, IsFiniteSet(B), NEW b, NEW A, A \subseteq B \cup {b}
    PROVE  IsFiniteSet(A) /\ Cardinality(A) \in Nat /\ Cardinality(A) <= Cardinality(B) + 1
<1>1. IsFiniteSet(B \cup {b}) /\ Cardinality(B \cup {b}) = IF b \in B THEN Cardinality(B) ELSE Cardinality(B) + 1
  BY FS_AddElement
<1>2. IsFiniteSet(A) /\ Cardinality(A) \in Nat /\ Cardinality(A) <= Cardinality(B \cup {b})
      /\ Cardinality(B \cup {b}) \in Nat
  BY <1>1, Fewer
<1>3. Cardinality(B) \in Nat BY FS_CardinalityType
<1>4. QED BY ONLY <1>1, <1>2, <1>3

\* the leaves from c on, in the order of their keys
LeavesFrom(t, g, c) == {o \in LeavesOf(t, g) : c # 0 /\ g.lo[c] <= g.lo[o]}

\* The loop at s has deleted the dead keys R and has passed those below e that it left: no
\* more than it has deleted.  Each pass it makes brings it past a key or a leaf.
Passing(s, g, m, dead, left, R, e) ==
    /\ R \subseteq dead
    /\ Fits(s.tree, g, 0, 0, 0) /\ LeavesFit(s.tree, g, Without(m, R))
    /\ Edge(s.tree, g, s.leaf, s.slot, e)
    /\ Cardinality({k \in dead \ R : k < e}) <= Cardinality(R)
    /\ Cardinality({k \in DOMAIN m \ R : e <= k}) + Cardinality(LeavesFrom(s.tree, g, s.leaf)) <= left

LoopState(t, leaf, slot) == [tree |-> t, leaf |-> leaf, slot |-> slot]

(* There are finitely many leaves from one on.                             *)
LEMMA LeavesFromIs ==
    ASSUME NEW t, NEW g, Fits(t, g, 0, 0, 0), NEW c
    PROVE  /\ IsFiniteSet(LeavesFrom(t, g, c)) /\ Cardinality(LeavesFrom(t, g, c)) \in Nat
           /\ Cardinality(LeavesFrom(t, g, c)) <= Len(t.nodes)
           /\ c = 0 => Cardinality(LeavesFrom(t, g, c)) = 0
           /\ c # 0 /\ c \in LeavesOf(t, g) => c \in LeavesFrom(t, g, c)
<1>1. t \in Tree BY DEF Fits
<1>2. PICK N \in Nat : N = Len(t.nodes) BY ONLY <1>1, NodeTypes
<1>3. IsFiniteSet(1..N) /\ Cardinality(1..N) = N
  <2>1. IsFiniteSet(1..N) /\ Cardinality(1..N) = IF 1 > N THEN 0 ELSE N - 1 + 1 BY FS_Interval
  <2>2. QED BY ONLY <2>1, N \in Nat
<1>4. LeavesFrom(t, g, c) \subseteq 1..N BY ONLY <1>2 DEF LeavesFrom, LeavesOf
<1>5. /\ IsFiniteSet(LeavesFrom(t, g, c)) /\ Cardinality(LeavesFrom(t, g, c)) \in Nat
      /\ Cardinality(LeavesFrom(t, g, c)) <= N
  <2>1. PICK A : A = LeavesFrom(t, g, c) OBVIOUS
  <2>2. A \subseteq 1..N BY ONLY <1>4, <2>1
  <2>3. PICK B : B = 1..N OBVIOUS
  <2>4. IsFiniteSet(A) /\ Cardinality(A) \in Nat /\ Cardinality(A) <= Cardinality(B)
    BY ONLY <1>3, <2>2, <2>3, Fewer
  <2>5. QED BY ONLY <1>3, <2>1, <2>3, <2>4
<1>6. c = 0 => Cardinality(LeavesFrom(t, g, c)) = 0
  <2>1. c = 0 => LeavesFrom(t, g, c) = {} BY DEF LeavesFrom
  <2>2. QED BY ONLY <2>1, FS_EmptySet
<1>7. c # 0 /\ c \in LeavesOf(t, g) => c \in LeavesFrom(t, g, c)
  <2> SUFFICES ASSUME c # 0, c \in LeavesOf(t, g) PROVE c \in LeavesFrom(t, g, c) OBVIOUS
  <2>1. g.lo[c] \in Int BY ONLY Fits(t, g, 0, 0, 0), c \in LeavesOf(t, g), LeafIs
  <2>2. g.lo[c] <= g.lo[c] BY ONLY <2>1
  <2>3. QED BY ONLY <2>2, c # 0, c \in LeavesOf(t, g) DEF LeavesFrom
<1>8. QED BY ONLY <1>2, <1>5, <1>6, <1>7

(* The counts a pass of the loop keeps, or brings down.                    *)
LEMMA AtLeafEnd ==
    ASSUME NEW g, NEW m \in Maps, NEW dead, dead \subseteq DOMAIN m, NEW left \in Nat,
           NEW R, NEW e, NEW t, NEW c, c # 0, NEW j,
           Passing(LoopState(t, c, j), g, m, dead, left, R, e),
           j >= Len(t.nodes[c].keys)
    PROVE  /\ left > 0
           /\ Passing(LoopState(t, t.nodes[c].next, 0), g, m, dead, left - 1, R, g.hi[c])
<1>1. PICK live : live = Without(m, R) OBVIOUS
<1>2. /\ R \subseteq dead /\ Fits(t, g, 0, 0, 0) /\ LeavesFit(t, g, live) /\ Edge(t, g, c, j, e)
      /\ Cardinality({k \in dead \ R : k < e}) <= Cardinality(R)
      /\ Cardinality({k \in DOMAIN m \ R : e <= k}) + Cardinality(LeavesFrom(t, g, c)) <= left
  BY <1>1 DEF Passing, LoopState
<1>3. PICK d : d = g.hi[c] OBVIOUS
<1>4. PICK n : n = t.nodes[c].next OBVIOUS
<1>5. PICK z : z = 0 OBVIOUS
<1>6. DOMAIN live = DOMAIN m \ R BY ONLY <1>1, WithoutIs, m \in Maps
<1>7. /\ Edge(t, g, t.nodes[c].next, 0, g.hi[c]) /\ e <= g.hi[c]
      /\ t.nodes[c].next # 0 => g.lo[t.nodes[c].next] = g.hi[c]
      /\ \A x \in DOMAIN live : e <= x => g.hi[c] <= x
  BY ONLY <1>2, c # 0, j >= Len(t.nodes[c].keys), EdgeAtEnd
<1>8. /\ Edge(t, g, n, z, d) /\ e <= d /\ (n # 0 => g.lo[n] = d)
      /\ \A x \in DOMAIN m \ R : e <= x => d <= x
  BY ONLY <1>3, <1>4, <1>5, <1>6, <1>7
<1>9. e \in Int /\ d \in Int /\ c \in LeavesOf(t, g) BY ONLY <1>2, <1>8, c # 0 DEF Edge
<1>10. IsFiniteSet(DOMAIN m \ R) /\ \A x \in DOMAIN m \ R : x \in Int BY ONLY <1>2, <1>6, MapKeys
<1>11. \A x \in dead \ R : x \in DOMAIN m \ R BY dead \subseteq DOMAIN m
<1>12. {k \in dead \ R : k < d} = {k \in dead \ R : k < e}
  <2>1. \A x \in dead \ R : x < d <=> x < e BY ONLY <1>8, <1>9, <1>10, <1>11
  <2>2. QED BY ONLY <2>1
<1>13. {k \in DOMAIN m \ R : d <= k} = {k \in DOMAIN m \ R : e <= k}
  <2>1. \A x \in DOMAIN m \ R : d <= x <=> e <= x BY ONLY <1>8, <1>9, <1>10
  <2>2. QED BY ONLY <2>1
<1>14. Cardinality({k \in DOMAIN m \ R : e <= k}) \in Nat
  <2>1. {k \in DOMAIN m \ R : e <= k} \subseteq DOMAIN m \ R OBVIOUS
  <2>2. QED BY ONLY <1>10, <2>1, Fewer
<1>15. /\ Cardinality(LeavesFrom(t, g, n)) \in Nat /\ Cardinality(LeavesFrom(t, g, c)) \in Nat
       /\ Cardinality(LeavesFrom(t, g, n)) + 1 <= Cardinality(LeavesFrom(t, g, c))
  <2>1. /\ IsFiniteSet(LeavesFrom(t, g, c)) /\ c \in LeavesFrom(t, g, c)
    BY ONLY <1>2, <1>9, c # 0, LeavesFromIs
  <2>2. \A o \in LeavesOf(t, g) : g.lo[o] \in Int /\ g.hi[o] \in Int /\ g.lo[o] < g.hi[o]
    BY ONLY <1>2, LeafIs
  <2>3. LeavesFrom(t, g, n) \subseteq LeavesFrom(t, g, c) /\ c \notin LeavesFrom(t, g, n)
    <3>1. CASE n = 0 BY ONLY <3>1 DEF LeavesFrom
    <3>2. CASE n # 0
      <4>1. \A o \in LeavesOf(t, g) : g.lo[n] <= g.lo[o] => g.lo[c] <= g.lo[o]
        BY ONLY <1>3, <1>8, <1>9, <2>2, <3>2
      <4>2. ~(g.lo[n] <= g.lo[c]) BY ONLY <1>3, <1>8, <1>9, <2>2, <3>2
      <4>3. QED BY ONLY <4>1, <4>2, c # 0 DEF LeavesFrom
    <3>3. QED BY ONLY <3>1, <3>2
  <2>4. QED BY ONLY <2>1, <2>3, Fewer
<1>16. left > 0 /\ left - 1 \in Nat BY ONLY <1>2, <1>14, <1>15, left \in Nat
<1>17. Cardinality({k \in DOMAIN m \ R : d <= k}) + Cardinality(LeavesFrom(t, g, n)) <= left - 1
  <2>1. PICK a \in Nat : a = Cardinality({k \in DOMAIN m \ R : e <= k}) BY ONLY <1>14
  <2>2. PICK b \in Nat : b = Cardinality(LeavesFrom(t, g, n)) BY ONLY <1>15
  <2>3. PICK b2 \in Nat : b2 = Cardinality(LeavesFrom(t, g, c)) BY ONLY <1>15
  <2>4. a + b2 <= left /\ b + 1 <= b2 BY ONLY <1>2, <1>15, <2>1, <2>2, <2>3
  <2>5. a + b <= left - 1 BY ONLY <2>4, a \in Nat, b \in Nat, b2 \in Nat, left \in Nat
  <2>6. QED BY ONLY <1>13, <2>1, <2>2, <2>5
<1>18. Passing(LoopState(t, n, z), g, m, dead, left - 1, R, d)
  <2>1. PICK s : s = LoopState(t, n, z) OBVIOUS
  <2>2. s.tree = t /\ s.leaf = n /\ s.slot = z BY <2>1 DEF LoopState
  <2>3. QED BY ONLY <1>1, <1>2, <1>8, <1>12, <1>17, <2>1, <2>2 DEF Passing
<1>19. QED BY ONLY <1>3, <1>4, <1>5, <1>16, <1>18

(* A key that lives is passed.                                             *)
LEMMA AtLiveKey ==
    ASSUME NEW g, NEW m \in Maps, NEW dead, dead \subseteq DOMAIN m, NEW left \in Nat,
           NEW R, NEW e, NEW t, NEW c, c # 0, NEW j,
           Passing(LoopState(t, c, j), g, m, dead, left, R, e),
           j < Len(t.nodes[c].keys), NEW k, k = t.nodes[c].keys[j + 1], k \notin dead
    PROVE  /\ left > 0
           /\ Passing(LoopState(t, c, j + 1), g, m, dead, left - 1, R, k + 1)
<1>1. PICK live : live = Without(m, R) OBVIOUS
<1>2. /\ R \subseteq dead /\ Fits(t, g, 0, 0, 0) /\ LeavesFit(t, g, live) /\ Edge(t, g, c, j, e)
      /\ Cardinality({x \in dead \ R : x < e}) <= Cardinality(R)
      /\ Cardinality({x \in DOMAIN m \ R : e <= x}) + Cardinality(LeavesFrom(t, g, c)) <= left
  BY <1>1 DEF Passing, LoopState
<1>3. DOMAIN live = DOMAIN m \ R BY ONLY <1>1, WithoutIs, m \in Maps
<1>4. PICK i : i = j + 1 OBVIOUS
<1>5. PICK d : d = k + 1 OBVIOUS
<1>6. /\ k \in Int /\ k \in DOMAIN live /\ e <= k /\ Edge(t, g, c, j + 1, k + 1)
      /\ \A x \in DOMAIN live : e <= x => k <= x
  BY ONLY <1>2, c # 0, j < Len(t.nodes[c].keys), k = t.nodes[c].keys[j + 1], EdgeOnKey
<1>7. Edge(t, g, c, i, d) BY ONLY <1>4, <1>5, <1>6
<1>8. e \in Int /\ d \in Int BY ONLY <1>2, <1>7 DEF Edge
<1>9. IsFiniteSet(DOMAIN m \ R) /\ \A x \in DOMAIN m \ R : x \in Int BY ONLY <1>2, <1>3, MapKeys
<1>10. \A x \in dead \ R : x \in DOMAIN m \ R BY dead \subseteq DOMAIN m
<1>11. {x \in dead \ R : x < d} = {x \in dead \ R : x < e}
  <2>1. \A x \in dead \ R : x \in DOMAIN live /\ x \in Int /\ x # k
    BY ONLY <1>3, <1>9, <1>10, k \notin dead
  <2>2. \A x \in dead \ R : x < d <=> x < e BY ONLY <1>5, <1>6, <1>8, <2>1
  <2>3. QED BY ONLY <2>2
<1>12. PICK A, B : A = {x \in DOMAIN m \ R : d <= x} /\ B = {x \in DOMAIN m \ R : e <= x} OBVIOUS
<1>13. A \subseteq B /\ k \in B /\ k \notin A
  <2>1. \A x \in DOMAIN m \ R : d <= x => e <= x BY ONLY <1>5, <1>6, <1>8, <1>9
  <2>2. ~(d <= k) BY ONLY <1>5, <1>6
  <2>3. QED BY ONLY <1>3, <1>6, <1>12, <2>1, <2>2
<1>14. B \subseteq DOMAIN m \ R BY ONLY <1>12
<1>15. IsFiniteSet(B) BY ONLY <1>9, <1>14, Fewer
<1>16. Cardinality(A) \in Nat /\ Cardinality(B) \in Nat /\ Cardinality(A) + 1 <= Cardinality(B)
  BY ONLY <1>13, <1>15, Fewer
<1>17. PICK f \in Nat : f = Cardinality(LeavesFrom(t, g, c)) BY ONLY <1>2, LeavesFromIs
<1>18. left > 0 /\ left - 1 \in Nat /\ Cardinality(A) + f <= left - 1
  BY ONLY <1>2, <1>12, <1>16, <1>17, left \in Nat
<1>19. Passing(LoopState(t, c, i), g, m, dead, left - 1, R, d)
  <2>1. PICK s : s = LoopState(t, c, i) OBVIOUS
  <2>2. s.tree = t /\ s.leaf = c /\ s.slot = i BY <2>1 DEF LoopState
  <2>3. QED BY ONLY <1>1, <1>2, <1>7, <1>11, <1>12, <1>17, <1>18, <2>1, <2>2 DEF Passing
<1>20. QED BY ONLY <1>4, <1>5, <1>18, <1>19

(* What is without some keys and one more.                                 *)
LEMMA WithoutMore ==
    ASSUME NEW m \in Maps, NEW R, NEW k
    PROVE  Without(Without(m, R), {k}) = Without(m, R \cup {k})
<1>1. PICK live : live = Without(m, R) OBVIOUS
<1>2. live \in Maps /\ DOMAIN live = DOMAIN m \ R /\ \A j \in DOMAIN m \ R : live[j] = m[j]
  BY ONLY <1>1, WithoutIs, m \in Maps
<1>3. DOMAIN live \ {k} = DOMAIN m \ (R \cup {k}) BY ONLY <1>2
<1>4. Without(live, {k}) = [j \in DOMAIN live \ {k} |-> live[j]] BY ONLY Zenon DEF Without
<1>5. Without(m, R \cup {k}) = [j \in DOMAIN m \ (R \cup {k}) |-> m[j]] BY ONLY Zenon DEF Without
<1>6. \A j \in DOMAIN m \ (R \cup {k}) : live[j] = m[j] BY ONLY <1>2
<1>7. Without(live, {k}) = Without(m, R \cup {k}) BY ONLY <1>3, <1>4, <1>5, <1>6
<1>8. QED BY ONLY <1>1, <1>7

(* A map has finitely many keys.                                           *)
LEMMA MapKeysAreFinite ==
    ASSUME NEW m \in Maps
    PROVE  IsFiniteSet(DOMAIN m)
<1>1. PICK S \in SUBSET Key : m \in [S -> Int] BY DEF Maps
<1>2. IsFiniteSet(S) BY <1>1, KeyAssumption, FS_Subset
<1>3. QED BY <1>1, <1>2

(* A dead key is deleted, and at most one more passed.                     *)
LEMMA AtDeadKey ==
    ASSUME NEW g, NEW m \in Maps, NEW dead, dead \subseteq DOMAIN m, NEW left \in Nat,
           NEW R, NEW e, NEW t, NEW c, c # 0, NEW j,
           Passing(LoopState(t, c, j), g, m, dead, left, R, e),
           j < Len(t.nodes[c].keys), NEW k, k = t.nodes[c].keys[j + 1], k \in dead
    PROVE  /\ left > 0
           /\ \E d : Passing(LoopState(delete(t, k), c, j + 1), g, m, dead, left - 1, R \cup {k}, d)
<1>1. PICK live : live = Without(m, R) OBVIOUS
<1>2. /\ R \subseteq dead /\ Fits(t, g, 0, 0, 0) /\ LeavesFit(t, g, live) /\ Edge(t, g, c, j, e)
      /\ Cardinality({x \in dead \ R : x < e}) <= Cardinality(R)
      /\ Cardinality({x \in DOMAIN m \ R : e <= x}) + Cardinality(LeavesFrom(t, g, c)) <= left
  BY <1>1 DEF Passing, LoopState
<1>3. DOMAIN live = DOMAIN m \ R BY ONLY <1>1, WithoutIs, m \in Maps
<1>4. PICK i : i = j + 1 OBVIOUS
<1>5. PICK u : u = delete(t, k) OBVIOUS
<1>6. PICK Q : Q = R \cup {k} OBVIOUS
<1>7. /\ k \in DOMAIN live /\ e <= k /\ Len(u.nodes) = Len(t.nodes)
      /\ Fits(u, g, 0, 0, 0) /\ LeavesFit(u, g, Without(live, {k}))
      /\ \E d, b : Skips(u, g, live, c, j + 1, e, k, d, b)
  <2>1. /\ Fits(t, g, 0, 0, 0) /\ LeavesFit(t, g, live) /\ c # 0 /\ Edge(t, g, c, j, e)
        /\ j < Len(t.nodes[c].keys) /\ k = t.nodes[c].keys[j + 1] /\ u = delete(t, k)
    BY <1>2, <1>5
  <2>2. Passed(u, t, g, live, c, j, e, k) BY ONLY <2>1, EdgeAfterDelete
  <2>3. QED BY ONLY <2>2 DEF Passed
<1>8. PICK d, b : /\ Edge(u, g, c, j + 1, d) /\ k < d
                  /\ \A x \in DOMAIN live : e <= x /\ x < d /\ x # k => x = b
  BY ONLY <1>7 DEF Skips
<1>9. Edge(u, g, c, i, d) BY ONLY <1>4, <1>8
<1>10. e \in Int /\ d \in Int BY ONLY <1>2, <1>9 DEF Edge
<1>11. IsFiniteSet(DOMAIN m \ R) /\ \A x \in DOMAIN m \ R : x \in Int BY ONLY <1>2, <1>3, MapKeys
<1>12. k \in DOMAIN m \ R /\ k \in Int BY ONLY <1>3, <1>7, <1>11
<1>13. LeavesFit(u, g, Without(m, Q)) BY ONLY <1>1, <1>6, <1>7, m \in Maps, WithoutMore
<1>14. Q \subseteq dead BY ONLY <1>2, <1>6, k \in dead
<1>15. IsFiniteSet(R) /\ Cardinality(R) \in Nat /\ Cardinality(Q) = Cardinality(R) + 1
  <2>1. IsFiniteSet(DOMAIN m) BY ONLY MapKeysAreFinite, m \in Maps
  <2>2. R \subseteq DOMAIN m BY ONLY <1>2, dead \subseteq DOMAIN m
  <2>3. IsFiniteSet(R) /\ Cardinality(R) \in Nat BY ONLY <2>1, <2>2, Fewer
  <2>4. Cardinality(R \cup {k}) = IF k \in R THEN Cardinality(R) ELSE Cardinality(R) + 1
    BY ONLY <2>3, FS_AddElement
  <2>5. QED BY ONLY <1>6, <1>12, <2>3, <2>4
<1>16. Cardinality({x \in dead \ Q : x < d}) <= Cardinality(Q)
  <2>1. PICK A, B : A = {x \in dead \ Q : x < d} /\ B = {x \in dead \ R : x < e} OBVIOUS
  <2>2. B \subseteq DOMAIN m \ R BY ONLY <2>1, dead \subseteq DOMAIN m
  <2>3. A \subseteq B \cup {b}
    <3> SUFFICES ASSUME NEW x \in A, x # b PROVE x \in B OBVIOUS
    <3>1. x \in dead /\ x \notin R /\ x # k /\ x < d BY <1>6, <2>1
    <3>2. x \in DOMAIN live /\ x \in Int BY ONLY <1>3, <1>11, <3>1, dead \subseteq DOMAIN m
    <3>3. ~(e <= x) BY ONLY <1>8, <3>1, <3>2, x # b
    <3>4. x < e BY ONLY <1>10, <3>2, <3>3
    <3>5. QED BY ONLY <2>1, <3>1, <3>4
  <2>4. IsFiniteSet(B) BY ONLY <1>11, <2>2, Fewer
  <2>5. Cardinality(B) \in Nat BY ONLY <2>4, FS_CardinalityType
  <2>6. Cardinality(A) \in Nat /\ Cardinality(A) <= Cardinality(B) + 1
    BY ONLY <2>3, <2>4, OneMore
  <2>7. QED BY ONLY <1>2, <1>15, <2>1, <2>5, <2>6
<1>17. PICK A, B : A = {x \in DOMAIN m \ Q : d <= x} /\ B = {x \in DOMAIN m \ R : e <= x} OBVIOUS
<1>18. A \subseteq B /\ k \in B /\ k \notin A
  <2>1. \A x \in DOMAIN m \ R : d <= x => e <= x BY ONLY <1>7, <1>8, <1>10, <1>11, <1>12
  <2>2. k \in Q BY ONLY <1>6
  <2>3. \A x \in DOMAIN m \ Q : x \in DOMAIN m \ R BY ONLY <1>6
  <2>4. QED BY ONLY <1>7, <1>12, <1>17, <2>1, <2>2, <2>3
<1>19. B \subseteq DOMAIN m \ R BY ONLY <1>17
<1>20. IsFiniteSet(B) BY ONLY <1>11, <1>19, Fewer
<1>21. Cardinality(A) \in Nat /\ Cardinality(B) \in Nat /\ Cardinality(A) + 1 <= Cardinality(B)
  BY ONLY <1>18, <1>20, Fewer
<1>22. PICK f \in Nat : f = Cardinality(LeavesFrom(t, g, c)) BY ONLY <1>2, LeavesFromIs
<1>23. LeavesFrom(u, g, c) = LeavesFrom(t, g, c) BY ONLY <1>7 DEF LeavesFrom, LeavesOf
<1>24. left > 0 /\ left - 1 \in Nat /\ Cardinality(A) + f <= left - 1
  BY ONLY <1>2, <1>17, <1>21, <1>22, left \in Nat
<1>25. Passing(LoopState(u, c, i), g, m, dead, left - 1, Q, d)
  <2>1. PICK s : s = LoopState(u, c, i) OBVIOUS
  <2>2. s.tree = u /\ s.leaf = c /\ s.slot = i BY <2>1 DEF LoopState
  <2>3. QED BY ONLY <1>7, <1>9, <1>13, <1>14, <1>16, <1>17, <1>22, <1>23, <1>24, <2>1, <2>2 DEF Passing
<1>26. QED BY ONLY <1>4, <1>5, <1>6, <1>24, <1>25

(* A pass of the loop.                                                     *)
LEMMA VisitIs ==
    ASSUME NEW g, NEW m \in Maps, NEW dead, dead \subseteq DOMAIN m, NEW left \in Nat \ {0},
           NEW t, NEW c, NEW j, NEW R, NEW e,
           Passing(LoopState(t, c, j), g, m, dead, left, R, e)
    PROVE  \E u, d, i, Q, f : /\ Visit(LoopState(t, c, j), dead) = LoopState(u, d, i)
                              /\ Passing(LoopState(u, d, i), g, m, dead, left - 1, Q, f)
<1>1. PICK s : s = LoopState(t, c, j) OBVIOUS
<1>2. PICK v : v = Visit(s, dead) OBVIOUS
<1>3. s.tree = t /\ s.leaf = c /\ s.slot = j BY <1>1 DEF LoopState
<1>4. /\ Fits(t, g, 0, 0, 0) /\ Edge(t, g, c, j, e) /\ LeavesFit(t, g, Without(m, R))
      /\ Passing(s, g, m, dead, left, R, e)
  BY <1>1, <1>3 DEF Passing
<1>5. PICK k : k = t.nodes[c].keys[j + 1] OBVIOUS
<1>6. CASE c = 0
  <2>1. v = s BY ONLY <1>2, <1>3, <1>6, Zenon DEF Visit
  <2>2. e = Infinity BY ONLY <1>4, <1>6 DEF Edge
  <2>3. {x \in DOMAIN m \ R : e <= x} = {}
    <3>1. DOMAIN Without(m, R) = DOMAIN m \ R BY ONLY WithoutIs, m \in Maps
    <3>2. \A x \in DOMAIN m \ R : x \in Int /\ x < Infinity BY ONLY <1>4, <3>1, MapKeys
    <3>3. Infinity \in Int BY InfinityIs
    <3>4. \A x \in DOMAIN m \ R : ~(e <= x) BY ONLY <2>2, <3>2, <3>3
    <3>5. QED BY ONLY <3>4
  <2>4. Cardinality({x \in DOMAIN m \ R : e <= x}) = 0 BY ONLY <2>3, FS_EmptySet
  <2>5. Cardinality(LeavesFrom(t, g, c)) = 0 BY ONLY <1>4, <1>6, LeavesFromIs
  <2>6. left - 1 \in Nat /\ 0 + 0 <= left - 1 BY ONLY left \in Nat \ {0}
  <2>7. Cardinality({x \in DOMAIN m \ R : e <= x}) + Cardinality(LeavesFrom(t, g, c)) <= left - 1
    BY ONLY <2>4, <2>5, <2>6
  <2>8. Passing(s, g, m, dead, left - 1, R, e) BY ONLY <1>3, <1>4, <2>7 DEF Passing
  <2>9. QED BY ONLY <1>1, <1>2, <2>1, <2>8
<1>7. CASE c # 0 /\ j >= Len(t.nodes[c].keys)
  <2>1. v = [s EXCEPT !.leaf = t.nodes[c].next, !.slot = 0]
    <3>1. s.leaf # 0 /\ s.slot >= Len(s.tree.nodes[s.leaf].keys) BY ONLY <1>3, <1>7
    <3>2. v = [s EXCEPT !.leaf = s.tree.nodes[s.leaf].next, !.slot = 0]
      BY ONLY <1>2, <3>1, Zenon DEF Visit
    <3>3. QED BY ONLY <1>3, <3>2
  <2>2. v = LoopState(t, t.nodes[c].next, 0) BY <1>1, <2>1 DEF LoopState
  <2>3. Passing(LoopState(t, t.nodes[c].next, 0), g, m, dead, left - 1, R, g.hi[c])
    BY ONLY <1>1, <1>4, <1>7, m \in Maps, dead \subseteq DOMAIN m, left \in Nat \ {0}, AtLeafEnd
  <2>4. QED BY ONLY <1>1, <1>2, <2>2, <2>3
<1>8. CASE c # 0 /\ ~(j >= Len(t.nodes[c].keys))
  <2>1. j < Len(t.nodes[c].keys)
    <3>1. j \in Nat /\ c \in LeavesOf(t, g) BY ONLY <1>4, <1>8 DEF Edge
    <3>2. Len(t.nodes[c].keys) \in Nat BY ONLY <1>4, <3>1, LeafIs
    <3>3. QED BY ONLY <1>8, <3>1, <3>2
  <2>2. s.leaf # 0 /\ ~(s.slot >= Len(s.tree.nodes[s.leaf].keys)) BY ONLY <1>3, <1>8
  <2>3. s.tree.nodes[s.leaf].keys[s.slot + 1] = k BY ONLY <1>3, <1>5
  <2>4. CASE k \notin dead
    <3>1. v = [s EXCEPT !.slot = @ + 1] BY ONLY <1>2, <2>2, <2>3, <2>4, Zenon DEF Visit
    <3>2. v = LoopState(t, c, j + 1) BY <1>1, <3>1 DEF LoopState
    <3>3. Passing(LoopState(t, c, j + 1), g, m, dead, left - 1, R, k + 1)
      BY ONLY <1>1, <1>4, <1>5, <1>8, <2>1, <2>4, m \in Maps, dead \subseteq DOMAIN m,
              left \in Nat \ {0}, AtLiveKey
    <3>4. QED BY ONLY <1>1, <1>2, <3>2, <3>3
  <2>5. CASE k \in dead
    <3>1. v = [s EXCEPT !.tree = delete(s.tree, k),
                        !.slot = AfterDelete(s.tree.nodes[s.leaf], s.slot)]
      BY ONLY <1>2, <2>2, <2>3, <2>5, Zenon DEF Visit
    <3>2. AfterDelete(s.tree.nodes[s.leaf], s.slot) = j + 1 BY ONLY <1>3 DEF AfterDelete
    <3>3. PICK u : u = delete(t, k) OBVIOUS
    <3>4. v = [s EXCEPT !.tree = u, !.slot = j + 1] BY ONLY <1>3, <3>1, <3>2, <3>3
    <3>5. v = LoopState(u, c, j + 1) BY <1>1, <3>4 DEF LoopState
    <3>6. \E d : Passing(LoopState(delete(t, k), c, j + 1), g, m, dead, left - 1, R \cup {k}, d)
      BY ONLY <1>1, <1>4, <1>5, <1>8, <2>1, <2>5, m \in Maps, dead \subseteq DOMAIN m,
              left \in Nat \ {0}, AtDeadKey
    <3>7. QED BY ONLY <1>1, <1>2, <3>3, <3>5, <3>6
  <2>6. QED BY ONLY <2>4, <2>5
<1>9. QED BY ONLY <1>6, <1>7, <1>8

(* The whole loop: it has passed all keys, and has left no more dead keys  *)
(* than it has deleted.                                                    *)
LEMMA SweepFits ==
    ASSUME NEW t, NEW g, Fits(t, g, 0, 0, 0), NEW m, LeavesFit(t, g, m),
           NEW dead, dead \subseteq DOMAIN m
    PROVE  \E R : /\ R \subseteq dead
                  /\ Fits(Sweep(t, dead), g, 0, 0, 0) /\ LeavesFit(Sweep(t, dead), g, Without(m, R))
                  /\ 2 * Cardinality(dead \ R) <= Cardinality(dead)
<1> DEFINE n == t.size + Len(t.nodes)
           base == [tree |-> t, leaf |-> Leftmost(t), slot |-> 0]
           S == {LoopState(u, c, j) : u \in Tree, c \in Nat, j \in Nat}
           In(s, i) == \E R, e : Passing(s, g, m, dead, n - i, R, e)
           X == [i \in 0..n |-> {s \in S : In(s, i)}]
           step == [s \in S |-> Visit(s, dead)]
           Good(f) == f = [i \in 0..n |-> IF i = 0 THEN base ELSE Visit(f[i - 1], dead)]
           at == CHOOSE f : Good(f)
<1>1. Fits(t, g, 0, 0, 0) /\ LeavesFit(t, g, m) /\ dead \subseteq DOMAIN m OBVIOUS
<1>2. Sweep(t, dead) = at[n].tree BY ONLY Zenon DEF Sweep
<1>3. t \in Tree /\ m \in Maps /\ t.size = Cardinality(DOMAIN m) BY ONLY <1>1 DEF Fits, LeavesFit
<1>4. t.size \in Nat /\ Len(t.nodes) \in Nat BY ONLY <1>3, NodeTypes
<1>5. n \in Nat BY ONLY <1>4
<1>6. \A u, c, j : u \in Tree /\ c \in Nat /\ j \in Nat => LoopState(u, c, j) \in S OBVIOUS
<1>7. \A s \in S : \E u, c, j : s = LoopState(u, c, j) OBVIOUS
<1>8. \A s \in S : step[s] = Visit(s, dead) OBVIOUS
<1>9. \A i \in 0..n : \A s : s \in X[i] <=> s \in S /\ In(s, i) OBVIOUS
<1>10. 0 \in 0..n /\ n \in 0..n /\ \A i \in 1..n : i \in 0..n /\ i - 1 \in 0..n /\ i # 0
  BY ONLY <1>5
<1> HIDE DEF S, X, step
<1>11. ASSUME NEW u, NEW c, NEW j, NEW l, NEW R, NEW e,
              Passing(LoopState(u, c, j), g, m, dead, l, R, e)
       PROVE  /\ LoopState(u, c, j) \in S
              /\ R \subseteq dead /\ Fits(u, g, 0, 0, 0) /\ LeavesFit(u, g, Without(m, R))
              /\ Edge(u, g, c, j, e)
  <2>1. PICK s : s = LoopState(u, c, j) OBVIOUS
  <2>2. s.tree = u /\ s.leaf = c /\ s.slot = j BY <2>1 DEF LoopState
  <2>3. /\ R \subseteq dead /\ Fits(u, g, 0, 0, 0) /\ LeavesFit(u, g, Without(m, R))
        /\ Edge(u, g, c, j, e)
    BY ONLY <1>11, <2>1, <2>2 DEF Passing
  <2>4. u \in Tree BY ONLY <2>3 DEF Fits
  <2>5. j \in Nat /\ (c # 0 => c \in LeavesOf(u, g)) BY ONLY <2>3 DEF Edge
  <2>6. c \in Nat
    <3>1. CASE c = 0 BY ONLY <3>1
    <3>2. CASE c # 0
      <4>1. c \in 1..Len(u.nodes) /\ Len(u.nodes) \in Nat
        BY ONLY <2>3, <2>4, <2>5, <3>2, LeafIs, NodeTypes
      <4>2. QED BY ONLY <4>1
    <3>3. QED BY ONLY <3>1, <3>2
  <2>7. QED BY ONLY <1>6, <2>3, <2>4, <2>5, <2>6
<1>12. In(base, 0) /\ base \in S
  <2>1. PICK b : b = base OBVIOUS
  <2>2. PICK c : c = Leftmost(t) OBVIOUS
  <2>3. PICK e \in Int : e = -1 OBVIOUS
  <2>4. PICK R : R = {} OBVIOUS
  <2>5. PICK z : z = 0 OBVIOUS
  <2>6. b = LoopState(t, c, z) /\ b.tree = t /\ b.leaf = c /\ b.slot = z
    BY <2>1, <2>2, <2>5 DEF LoopState
  <2>7. Edge(t, g, c, z, e)
    <3>1. Edge(t, g, Leftmost(t), 0, -1) BY ONLY <1>1, LeftmostIs
    <3>2. QED BY ONLY <2>2, <2>3, <2>5, <3>1
  <2>8. Without(m, R) = m
    <3>1. PICK D : m \in [D -> Int] BY <1>3 DEF Maps
    <3>2. DOMAIN m \ R = DOMAIN m BY ONLY <2>4
    <3>3. Without(m, R) = [x \in DOMAIN m |-> m[x]] BY ONLY <3>2, Zenon DEF Without
    <3>4. QED BY ONLY <3>1, <3>3
  <2>9. \A x \in DOMAIN m : x \in Int /\ 0 <= x BY ONLY <1>1, MapKeys
  <2>10. {k \in dead \ R : k < e} = {}
    <3>1. \A x \in dead \ R : ~(x < e) BY ONLY <1>1, <2>3, <2>9
    <3>2. QED BY ONLY <3>1
  <2>11. {k \in DOMAIN m \ R : e <= k} = DOMAIN m
    <3>1. \A x \in DOMAIN m : e <= x BY ONLY <2>3, <2>9
    <3>2. QED BY ONLY <2>4, <3>1
  <2>12. Cardinality({k \in dead \ R : k < e}) <= Cardinality(R)
    <3>1. Cardinality({k \in dead \ R : k < e}) = 0 /\ Cardinality(R) = 0
      BY ONLY <2>4, <2>10, FS_EmptySet
    <3>2. 0 <= 0 OBVIOUS
    <3>3. QED BY ONLY <3>1, <3>2
  <2>13. Cardinality({k \in DOMAIN m \ R : e <= k}) + Cardinality(LeavesFrom(t, g, c)) <= n - 0
    <3>1. Cardinality({k \in DOMAIN m \ R : e <= k}) = t.size BY ONLY <1>3, <2>11
    <3>2. PICK f \in Nat : f = Cardinality(LeavesFrom(t, g, c)) /\ f <= Len(t.nodes)
      BY ONLY <1>1, LeavesFromIs
    <3>3. t.size + f <= n - 0 BY ONLY <1>4, <3>2
    <3>4. QED BY ONLY <3>1, <3>2, <3>3
  <2>14. R \subseteq dead BY ONLY <2>4
  <2>15. Passing(b, g, m, dead, n - 0, R, e)
    <3> HIDE DEF n
    <3>1. QED BY ONLY <1>1, <2>6, <2>7, <2>8, <2>12, <2>13, <2>14 DEF Passing
  <2>16. Passing(LoopState(t, c, z), g, m, dead, n - 0, R, e) BY ONLY <2>6, <2>15
  <2>17. b \in S
    <3> HIDE DEF n
    <3>1. QED BY ONLY <1>11, <2>6, <2>16
  <2>18. In(b, 0)
    <3> HIDE DEF n
    <3>1. QED BY ONLY <2>15
  <2>19. QED BY ONLY <2>1, <2>17, <2>18
<1>13. ASSUME NEW i \in 1..n, NEW s \in X[i - 1] PROVE Visit(s, dead) \in X[i] /\ s \in S
  <2>1. s \in S /\ In(s, i - 1) BY ONLY <1>9, <1>10, i \in 1..n, s \in X[i - 1]
  <2>2. PICK u, c, j : s = LoopState(u, c, j) BY ONLY <1>7, <2>1
  <2>3. PICK left : left = n - (i - 1) OBVIOUS
  <2>4. left \in Nat \ {0} /\ left - 1 = n - i BY ONLY <1>5, <2>3, i \in 1..n
  <2>5. PICK R, e : Passing(s, g, m, dead, left, R, e)
    <3> HIDE DEF n
    <3>1. QED BY <2>1, <2>3
  <2>6. Passing(LoopState(u, c, j), g, m, dead, left, R, e) BY ONLY <2>2, <2>5
  <2>7. PICK u2, c2, j2, R2, e2 : /\ Visit(LoopState(u, c, j), dead) = LoopState(u2, c2, j2)
                                  /\ Passing(LoopState(u2, c2, j2), g, m, dead, left - 1, R2, e2)
    BY ONLY <1>1, <1>3, <2>4, <2>6, VisitIs
  <2>8. PICK v : v = Visit(s, dead) OBVIOUS
  <2>9. v = LoopState(u2, c2, j2) BY ONLY <2>2, <2>7, <2>8
  <2>10. v \in S BY ONLY <1>11, <2>7, <2>9
  <2>11. Passing(v, g, m, dead, n - i, R2, e2) BY ONLY <2>4, <2>7, <2>9
  <2>12. In(v, i)
    <3> HIDE DEF n
    <3>1. QED BY ONLY <2>11
  <2>13. v \in X[i] BY ONLY <1>9, <1>10, <2>10, <2>12, i \in 1..n
  <2>14. QED BY ONLY <2>1, <2>8, <2>13
<1> HIDE DEF In
<1>14. base \in X[0] BY ONLY <1>9, <1>10, <1>12
<1>15. \E f : Good(f)
  <2>1. \A i \in 1..n : \A s \in X[i - 1] : step[s] \in X[i] BY ONLY <1>8, <1>13
  <2> HIDE DEF base, n
  <2>2. PICK f : Loops(f, n, base, step) /\ \A i \in 0..n : f[i] \in X[i]
    BY ONLY <1>5, <1>14, <2>1, LoopExists
  <2>3. \A i \in 0..n : i # 0 => i - 1 \in 0..n /\ i \in 1..n BY ONLY <1>5
  <2>4. \A i \in 0..n : i # 0 => step[f[i - 1]] = Visit(f[i - 1], dead)
    BY ONLY <1>8, <1>13, <2>2, <2>3
  <2>5. Good(f) BY ONLY <2>2, <2>4 DEF Loops
  <2>6. QED BY ONLY <2>5
<1> DEFINE p == at
<1>16. Good(p) BY <1>15
<1> HIDE DEF p
<1>17. p[n] \in X[n]
  <2>1. p[0] = base /\ \A i \in 1..n : p[i] = Visit(p[i - 1], dead)
    <3> HIDE DEF base, n
    <3>1. QED BY ONLY <1>10, <1>16
  <2> HIDE DEF base, n
  <2>2. \A i \in 1..n : p[i - 1] \in X[i - 1] => p[i] \in X[i] BY ONLY <1>13, <2>1
  <2>3. p[0] \in X[0] BY ONLY <1>14, <2>1
  <2>4. QED BY ONLY <1>5, <2>2, <2>3, LoopKeeps
<1>18. p[n] \in S /\ In(p[n], n) BY ONLY <1>9, <1>10, <1>17
<1>19. PICK u, c, j : p[n] = LoopState(u, c, j) BY ONLY <1>7, <1>18
<1>20. PICK R, e : Passing(LoopState(u, c, j), g, m, dead, n - n, R, e)
  <2> HIDE DEF n
  <2>1. QED BY ONLY <1>18, <1>19 DEF In
<1>21. /\ R \subseteq dead /\ Fits(u, g, 0, 0, 0) /\ LeavesFit(u, g, Without(m, R))
       /\ Edge(u, g, c, j, e)
  BY ONLY <1>11, <1>20
<1>22. Sweep(t, dead) = u
  <2>1. Sweep(t, dead) = p[n].tree BY ONLY <1>2 DEF p
  <2>2. LoopState(u, c, j).tree = u BY DEF LoopState
  <2>3. QED BY ONLY <1>19, <2>1, <2>2
<1>23. PICK live : live = DOMAIN m \ R OBVIOUS
<1>24. /\ Cardinality({k \in dead \ R : k < e}) <= Cardinality(R)
       /\ Cardinality({k \in live : e <= k}) + Cardinality(LeavesFrom(u, g, c)) <= 0
  <2>1. PICK s : s = LoopState(u, c, j) OBVIOUS
  <2>2. s.tree = u /\ s.leaf = c /\ s.slot = j BY <2>1 DEF LoopState
  <2>3. n - n = 0 BY ONLY <1>5
  <2> HIDE DEF n
  <2>4. Passing(s, g, m, dead, 0, R, e) BY ONLY <1>20, <2>1, <2>3
  <2>5. QED BY ONLY <1>23, <2>2, <2>4 DEF Passing
<1>25. DOMAIN Without(m, R) = live BY ONLY <1>3, <1>23, WithoutIs
<1>26. IsFiniteSet(live) /\ \A x \in live : x \in Int /\ x < Infinity
  BY ONLY <1>21, <1>25, MapKeys
<1>27. c = 0
  <2>1. PICK A : A = {k \in live : e <= k} OBVIOUS
  <2>2. A \subseteq live BY ONLY <2>1
  <2>3. Cardinality(A) \in Nat BY ONLY <1>26, <2>2, Fewer
  <2>4. PICK F : F = LeavesFrom(u, g, c) OBVIOUS
  <2>5. IsFiniteSet(F) /\ Cardinality(F) \in Nat BY ONLY <1>21, <2>4, LeavesFromIs
  <2>6. Cardinality(A) + Cardinality(F) <= 0 BY ONLY <1>24, <2>1, <2>4
  <2>7. Cardinality(F) = 0 BY ONLY <2>3, <2>5, <2>6
  <2>8. F = {} BY ONLY <2>5, <2>7, FS_EmptySet
  <2>9. c # 0 => c \in LeavesOf(u, g) BY ONLY <1>21 DEF Edge
  <2>10. c # 0 => c \in F BY ONLY <1>21, <2>4, <2>9, LeavesFromIs
  <2>11. QED BY ONLY <2>8, <2>10
<1>28. e = Infinity BY ONLY <1>21, <1>27 DEF Edge
<1>29. dead \ R \subseteq live BY ONLY <1>1, <1>23
<1>30. {k \in dead \ R : k < e} = dead \ R BY ONLY <1>26, <1>28, <1>29
<1>31. 2 * Cardinality(dead \ R) <= Cardinality(dead)
  <2>1. PICK L : L = dead \ R OBVIOUS
  <2>2. Cardinality(L) <= Cardinality(R) BY ONLY <1>24, <1>30, <2>1
  <2>3. IsFiniteSet(DOMAIN m) BY ONLY <1>3, MapKeysAreFinite
  <2>4. IsFiniteSet(dead) /\ Cardinality(dead) \in Nat BY ONLY <1>1, <2>3, Fewer
  <2>5. IsFiniteSet(R) /\ Cardinality(R) \in Nat BY ONLY <1>21, <2>4, Fewer
  <2>6. dead \cap R = R BY ONLY <1>21
  <2>7. Cardinality(dead \ R) = Cardinality(dead) - Cardinality(dead \cap R)
    BY ONLY <2>4, FS_Difference
  <2>8. Cardinality(L) = Cardinality(dead) - Cardinality(R) BY ONLY <2>1, <2>6, <2>7
  <2>9. 2 * Cardinality(L) <= Cardinality(dead) BY ONLY <2>2, <2>4, <2>5, <2>8
  <2>10. QED BY ONLY <2>1, <2>9
<1>32. QED BY ONLY <1>21, <1>22, <1>31

-----------------------------------------------------------------------------
(* The tree of the table.                                                  *)

\* the inductive invariant: the nodes have ranges in which they fit, and the leaves the map
TreeFits == \E g : Fits(tree, g, 0, 0, 0) /\ LeavesFit(tree, g, map)

TreeInv == TreeFits /\ SweepTakesHalf

(* A tree without keys fits.                                               *)
LEMMA EmptyFits == \E g : Fits(EmptyTree, g, 0, 0, 0) /\ LeavesFit(EmptyTree, g, <<>>)
<1> DEFINE node == Leaf(<<>>, <<>>, 0, 0)
<1>1. PICK z \in Nat : z = Infinity BY InfinityIs
<1>2. PICK g : g = [lo |-> [n \in 1..1 |-> -1], hi |-> [n \in 1..1 |-> z], level |-> [n \in 1..1 |-> 0]]
  OBVIOUS
<1>3. PICK t : t = EmptyTree OBVIOUS
<1>4. PICK m : m = <<>> OBVIOUS
<1>5. 1 \in 1..1 /\ \A n \in 1..1 : n = 1 OBVIOUS
<1>6. t.root = 1 /\ t.size = 0 /\ t.nodes = <<node>> BY <1>3 DEF EmptyTree
<1>7. /\ node.keys = <<>> /\ node.vals = <<>> /\ node.kids = <<>> /\ node.parent = 0 /\ node.next = 0
  BY DEF Leaf
<1>8. node \in Record
  <2>1. node = [keys |-> <<>>, vals |-> <<>>, kids |-> <<>>, parent |-> 0, next |-> 0] BY DEF Leaf
  <2>2. <<>> \in Seq(Key) /\ <<>> \in Seq(Int) /\ <<>> \in Seq(Nat) /\ 0 \in Nat OBVIOUS
  <2> HIDE DEF node
  <2>4. QED BY ONLY <2>1, <2>2 DEF Record
<1> HIDE DEF node
<1>9. t.nodes \in Seq(Record) /\ Len(t.nodes) = 1 /\ t.nodes[1] = node BY ONLY <1>6, <1>8
<1>10. t \in Tree
  <2>1. t = [root |-> t.root, size |-> t.size, nodes |-> t.nodes] BY <1>3 DEF EmptyTree
  <2>2. t.root \in Nat /\ t.size \in Nat BY ONLY <1>6
  <2>3. QED BY ONLY <1>9, <2>1, <2>2 DEF Tree
<1>11. g.lo[1] = -1 /\ g.hi[1] = z /\ g.level[1] = 0 BY <1>2, <1>5
<1>12. g \in Frame(1)
  <2>1. -1 \in Int /\ z \in Int /\ 0 \in Nat OBVIOUS
  <2>2. QED BY ONLY <1>2, <2>1 DEF Frame
<1>13. RootFits(t, g, 0, 0)
  <2>1. Top(g, 0, 0, 1) = Infinity BY ONLY <1>1, <1>11 DEF Top
  <2>2. 0 < 1 /\ 0 <= 0 OBVIOUS
  <2>3. QED BY ONLY <1>5, <1>6, <1>7, <1>9, <1>11, <2>1, <2>2 DEF RootFits
<1>14. Len(node.keys) = 0 /\ \A i \in 1..Len(node.keys) : FALSE
  <2>1. Len(<<>>) = 0 OBVIOUS
  <2>2. Len(node.keys) = 0 BY ONLY <1>7, <2>1
  <2>3. QED BY ONLY <2>2
<1>15. NodeFits(t, g, 0, 0, 0, 1)
  <2>1. node.keys \in Seq(Int) BY ONLY <1>7
  <2>2. KeysFit(node.keys, -1, z) BY ONLY <1>14, <2>1 DEF KeysFit, Ascending
  <2>3. LeafShape(node) BY ONLY <1>7 DEF LeafShape
  <2>4. -1 < z BY <1>1
  <2>5. 0 <= Order BY OrderAssumption
  <2>6. 1 # 0 OBVIOUS
  <2>7. QED BY ONLY <1>6, <1>9, <1>11, <1>14, <2>2, <2>3, <2>4, <2>5, <2>6 DEF NodeFits
<1>16. Fits(t, g, 0, 0, 0) BY ONLY <1>5, <1>9, <1>10, <1>12, <1>13, <1>15 DEF Fits
<1>17. \A n \in LeavesOf(t, g) : n = 1 BY ONLY <1>5, <1>9 DEF LeavesOf
<1>18. ChainFits(t, g)
  <2>1. z <= Infinity BY ONLY <1>1
  <2>2. QED BY ONLY <1>1, <1>7, <1>9, <1>11, <1>17, <2>1 DEF ChainFits
<1>19. DOMAIN m = {} /\ m \in Maps
  <2>1. DOMAIN m = {} BY ONLY <1>4
  <2>2. m \in [{} -> Int] BY ONLY <1>4
  <2>3. QED BY ONLY <2>1, <2>2 DEF Maps
<1>20. Holds(t, g, m) BY ONLY <1>9, <1>14, <1>17, <1>19 DEF Holds, LeafHolds
<1>21. t.size = Cardinality(DOMAIN m) BY ONLY <1>6, <1>19, FS_EmptySet
<1>22. LeavesFit(t, g, m) BY ONLY <1>18, <1>19, <1>20, <1>21 DEF LeavesFit
<1>23. QED BY ONLY <1>3, <1>4, <1>16, <1>22

(* The invariant holds at first, and every step keeps it.                  *)
LEMMA TreeInit == Init => TreeInv
<1> SUFFICES ASSUME Init PROVE TreeInv OBVIOUS
<1>1. tree = EmptyTree /\ map = <<>> /\ swept = [met |-> {}, left |-> {}] BY DEF Init
<1>2. TreeFits BY ONLY <1>1, EmptyFits DEF TreeFits
<1>3. SweepTakesHalf
  <2>1. swept.met = {} /\ swept.left = {} BY ONLY <1>1
  <2>2. Cardinality({}) = 0 BY FS_EmptySet
  <2>3. QED BY ONLY <2>1, <2>2 DEF SweepTakesHalf
<1>4. QED BY ONLY <1>2, <1>3 DEF TreeInv

LEMMA TreeStep == TreeInv /\ [Next]_vars => TreeInv'
<1> SUFFICES ASSUME TreeInv, [Next]_vars PROVE TreeInv' OBVIOUS
<1>1. PICK g : Fits(tree, g, 0, 0, 0) /\ LeavesFit(tree, g, map) BY DEF TreeInv, TreeFits
<1>2. SweepTakesHalf BY DEF TreeInv
<1>3. ASSUME NEW k \in Key, Insert(k, Fresh(k)) PROVE TreeInv'
  <2>1. PICK v : v = Fresh(k) OBVIOUS
  <2>2. /\ tree' = insert(tree, k, v) /\ swept' = swept
        /\ map' = Put(map, k, v)
    BY <1>3, <2>1 DEF Insert, Put
  <2>3. v \in Int
    <3>1. k \in DOMAIN map => map[k] \in Int BY ONLY <1>1, MapKeys
    <3>2. k \in Int BY InfinityIs
    <3>3. v = IF k \in DOMAIN map THEN -map[k] ELSE k + 1 BY ONLY <2>1, Zenon DEF Fresh
    <3>4. QED BY ONLY <3>1, <3>2, <3>3
  <2>4. \E h : Fits(insert(tree, k, v), h, 0, 0, 0) /\ LeavesFit(insert(tree, k, v), h, Put(map, k, v))
    BY ONLY <1>1, <2>3, k \in Key, InsertFits
  <2>5. TreeFits' BY ONLY <2>2, <2>4 DEF TreeFits
  <2>6. SweepTakesHalf' BY ONLY <1>2, <2>2 DEF SweepTakesHalf
  <2>7. QED BY ONLY <2>5, <2>6 DEF TreeInv
<1>4. ASSUME NEW k \in Key, Delete(k) PROVE TreeInv'
  <2>1. tree' = delete(tree, k) /\ map' = Without(map, {k}) /\ swept' = swept BY <1>4 DEF Delete
  <2>2. Fits(delete(tree, k), g, 0, 0, 0) /\ LeavesFit(delete(tree, k), g, Without(map, {k}))
    BY ONLY <1>1, k \in Key, DeleteFits
  <2>3. TreeFits' BY ONLY <2>1, <2>2 DEF TreeFits
  <2>4. SweepTakesHalf' BY ONLY <1>2, <2>1 DEF SweepTakesHalf
  <2>5. QED BY ONLY <2>3, <2>4 DEF TreeInv
<1>5. ASSUME NEW dead, dead \subseteq DOMAIN map, ReplaceChains(dead) PROVE TreeInv'
  <2>1. PICK left : left = {k \in dead : Hit(tree', k)} OBVIOUS
  <2>2. /\ tree' = Sweep(tree, dead) /\ swept' = [met |-> dead, left |-> left]
        /\ map' = Without(map, dead \ left)
    BY <1>5, <2>1 DEF ReplaceChains
  <2>3. PICK u : u = Sweep(tree, dead) OBVIOUS
  <2>4. PICK R : /\ R \subseteq dead
                 /\ Fits(u, g, 0, 0, 0) /\ LeavesFit(u, g, Without(map, R))
                 /\ 2 * Cardinality(dead \ R) <= Cardinality(dead)
    BY ONLY <1>1, <1>5, <2>3, SweepFits
  <2>5. left = dead \ R
    <3>1. map \in Maps BY ONLY <1>1 DEF LeavesFit
    <3>2. DOMAIN Without(map, R) = DOMAIN map \ R BY ONLY <3>1, WithoutIs
    <3>3. ASSUME NEW k \in dead PROVE Hit(u, k) <=> k \notin R
      <4>1. k \in Key BY ONLY <1>1, <1>5, k \in dead, MapKeys
      <4>2. PICK n, s : Found(u, g, Without(map, R), k, n, s) BY ONLY <2>4, <4>1, FindIs
      <4>3. Hit(u, k) <=> k \in DOMAIN Without(map, R) BY ONLY <4>2 DEF Found
      <4>4. QED BY ONLY <1>5, <3>2, <4>3, k \in dead
    <3>4. tree' = u BY ONLY <2>2, <2>3
    <3>5. QED BY ONLY <2>1, <3>3, <3>4
  <2>6. dead \ left = R BY ONLY <2>4, <2>5
  <2>7. TreeFits' BY ONLY <2>2, <2>3, <2>4, <2>6 DEF TreeFits
  <2>8. SweepTakesHalf'
    <3>1. swept'.met = dead /\ swept'.left = left BY ONLY <2>2
    <3>2. 2 * Cardinality(left) <= Cardinality(dead) BY ONLY <2>4, <2>5
    <3>3. QED BY ONLY <3>1, <3>2 DEF SweepTakesHalf
  <2>9. QED BY ONLY <2>7, <2>8 DEF TreeInv
<1>6. CASE UNCHANGED vars
  <2>1. tree' = tree /\ map' = map /\ swept' = swept BY ONLY <1>6 DEF vars
  <2>2. TreeFits' BY ONLY <1>1, <2>1 DEF TreeFits
  <2>3. SweepTakesHalf' BY ONLY <1>2, <2>1 DEF SweepTakesHalf
  <2>4. QED BY ONLY <2>2, <2>3 DEF TreeInv
<1>7. CASE Next
  <2>1. \/ \E k \in Key : Insert(k, Fresh(k)) \/ Delete(k)
        \/ \E low \in Key : ReplaceChains({k \in DOMAIN map : low <= k})
    BY <1>7 DEF Next
  <2>2. \A low : {k \in DOMAIN map : low <= k} \subseteq DOMAIN map OBVIOUS
  <2>3. QED BY ONLY <1>3, <1>4, <1>5, <2>1, <2>2
<1>8. QED BY <1>6, <1>7

(* The inductive invariant.  Every node has a range, that its parent's     *)
(* separators give its child; the leaves, in the chain's order, have the   *)
(* ranges one after the other, and hold the map.                           *)
THEOREM TreeKept == Spec => []TreeInv
<1>1. Init => TreeInv BY TreeInit
<1>2. TreeInv /\ [Next]_vars => TreeInv' BY TreeStep
<1>3. QED BY <1>1, <1>2, PTL DEF Spec

(* After every insert, delete and pass of replace_chains, for every order  *)
(* and every set of keys: no node is over the order, every parent pointer  *)
(* is that of the node's parent, all leaves are at one depth, and the root *)
(* keeps a key unless it is a leaf.                                        *)
THEOREM TreeIsWellFormed == Spec => []WellFormed
<1>1. TreeInv => WellFormed
  <2> SUFFICES ASSUME TreeInv PROVE WellFormed OBVIOUS
  <2>1. PICK g : Fits(tree, g, 0, 0, 0) /\ LeavesFit(tree, g, map) BY DEF TreeInv, TreeFits
  <2>2. ChainFits(tree, g) BY ONLY <2>1 DEF LeavesFit
  <2>3. QED BY ONLY <2>1, <2>2, FitsWell
<1>2. QED BY <1>1, TreeKept, PTL

(* Whatever deletions and splits have made of it, the tree is read as the  *)
(* sorted map that the same operations make: by a scan of the chain of     *)
(* leaves, by lookups, and by range scans between any two keys.            *)
THEOREM TreeReadsAsTheMap == Spec => []ReadsAreTheMap
<1>1. TreeInv => ReadsAreTheMap
  <2> SUFFICES ASSUME TreeInv PROVE ReadsAreTheMap OBVIOUS
  <2>1. PICK g : Fits(tree, g, 0, 0, 0) /\ LeavesFit(tree, g, map) BY DEF TreeInv, TreeFits
  <2>2. QED BY ONLY <2>1, ReadsWell
<1>2. QED BY <1>1, TreeKept, PTL

(* A pass of replace_chains, which deletes from the leaf it iterates over  *)
(* and so passes over keys, never leaves more dead keys than it deletes.   *)
THEOREM SweepsTakeHalf == Spec => []SweepTakesHalf
<1>1. TreeInv => SweepTakesHalf BY DEF TreeInv
<1>2. QED BY <1>1, TreeKept, PTL
=============================================================================
