----------------------------- MODULE BPlusTree -----------------------------
(***************************************************************************)
(* The B+ tree under every table (storage/bptree.py), with its parent      *)
(* pointers and its chain of leaves, and the one place that deletes from a *)
(* tree while it iterates over it (replace_chains in storage/table.py).    *)
(*                                                                         *)
(* A tree is a value: nodes in the order of their creation, a node named   *)
(* by its index, 0 for None.  An operation on it is an operator; the table *)
(* latch makes each one step.                                              *)
(***************************************************************************)
EXTENDS Integers, FiniteSets, Sequences, SequencesExt

CONSTANTS
    Order,      \* BPlusTree.order
    Key,        \* keys, some naturals
    MaxOps      \* bound: operations after the initial state

ASSUME OrderAssumption == Order \in Nat /\ Order >= 3
ASSUME KeyAssumption == Key \subseteq Nat /\ IsFiniteSet(Key)
ASSUME BoundAssumption == MaxOps \in Nat

VARIABLES
    tree,       \* the B+ tree
    map,        \* history: what a sorted map would hold
    swept,      \* history: the dead keys the last pass of replace_chains met and left
    ops         \* operations so far

vars == <<tree, map, swept, ops>>

Fresh(k) == IF k \in DOMAIN map THEN -map[k] ELSE k + 1   \* a value that k does not have
Infinity == CHOOSE n \in {0} \cup {k + 1 : k \in Key} : \A k \in Key : k < n

Leaf(keys, vals, parent, next) ==
    [keys |-> keys, vals |-> vals, kids |-> <<>>, parent |-> parent, next |-> next]
Internal(keys, kids, parent) ==
    [keys |-> keys, vals |-> <<>>, kids |-> kids, parent |-> parent, next |-> 0]
IsLeaf(node) == node.kids = <<>>

EmptyTree == [root |-> 1, size |-> 0, nodes |-> <<Leaf(<<>>, <<>>, 0, 0)>>]

-----------------------------------------------------------------------------
(* Searching.  Slots are counted from 0, as in the code.                   *)

\* a pass of the binary search all three searches share: Right says of a slot to go past it
Halve(Right, b) ==
    LET mid == (b.lo + b.hi) \div 2
    IN  IF b.lo >= b.hi THEN b
        ELSE IF Right[mid + 1] THEN [b EXCEPT !.lo = mid + 1] ELSE [b EXCEPT !.hi = mid]

\* each pass but the last halves what is left of the n slots
Bisect(Right, n) ==
    LET pass[i \in 0..n] == IF i = 0 THEN [lo |-> 0, hi |-> n] ELSE Halve(Right, pass[i - 1])
    IN  pass[n].lo

slot_of(keys, k) == Bisect([i \in DOMAIN keys |-> keys[i] < k], Len(keys))

\* Mutant of traverse: a key equal to a separator goes left.
traverse_strict(keys, k) == Bisect([i \in DOMAIN keys |-> keys[i] < k], Len(keys))

traverse(keys, k) == Bisect([i \in DOMAIN keys |-> keys[i] <= k], Len(keys))
traverse_lt(keys, k) == Bisect([i \in DOMAIN keys |-> ~(k < keys[i])], Len(keys))

\* the walk from the root to the leaf where a key belongs
Descend(t, k) ==
    LET leaf[n \in DOMAIN t.nodes] ==
          LET node == t.nodes[n]
          IN  IF IsLeaf(node) THEN n ELSE leaf[node.kids[traverse(node.keys, k) + 1]]
    IN  leaf[t.root]

find(t, k) ==
    LET n == Descend(t, k) IN [leaf |-> n, slot |-> slot_of(t.nodes[n].keys, k)]

Hit(t, k) ==
    LET f == find(t, k) keys == t.nodes[f.leaf].keys
    IN  f.slot < Len(keys) /\ keys[f.slot + 1] = k

get(t, k) == LET f == find(t, k) IN t.nodes[f.leaf].vals[f.slot + 1]

Leftmost(t) ==
    LET leaf[n \in DOMAIN t.nodes] ==
          IF IsLeaf(t.nodes[n]) THEN n ELSE leaf[t.nodes[n].kids[1]]
    IN  leaf[t.root]

\* the generator of range(), from a slot of a leaf on
Yield(t, n, slot, high) ==
    LET leaves == {o \in DOMAIN t.nodes : IsLeaf(t.nodes[o])}
        rest[c \in (({0} \cup leaves) \X Nat)] ==
          LET leaf == t.nodes[c[1]] i == c[2] + 1
          IN  IF c[1] = 0 THEN <<>>
              ELSE IF c[2] >= Len(leaf.keys) THEN rest[<<leaf.next, 0>>]
              ELSE IF leaf.keys[i] >= high THEN <<>>
              ELSE << <<leaf.keys[i], leaf.vals[i]>> >> \o rest[<<c[1], i>>]
    IN  rest[<<n, slot>>]

\* Mutant of range: the scan from a key begins after it.
range_after(t, low, high) ==
    LET f == find(t, low) IN Yield(t, f.leaf, f.slot + 1, high)

range(t, low, high) == LET f == find(t, low) IN Yield(t, f.leaf, f.slot, high)
items(t) == Yield(t, Leftmost(t), 0, Infinity)

-----------------------------------------------------------------------------
(* Insertion.                                                              *)

\* a call of insert_in_parent that is due, and none
Call(t, left, k, right) == [tree |-> t, left |-> left, key |-> k, right |-> right]
Return(t) == Call(t, 0, 0, 0)

\* Mutant of Adopted: the children that move keep their old parent.
NotAdopted(nodes, kids, new) == nodes

Adopted(nodes, kids, new) ==
    [n \in DOMAIN nodes |->
       IF n \in Range(kids) THEN [nodes[n] EXCEPT !.parent = new] ELSE nodes[n]]

split_internal(t, n) ==
    LET node == t.nodes[n]
        mid == Len(node.keys) \div 2
        new == Len(t.nodes) + 1
        kept == [node EXCEPT !.keys = SubSeq(@, 1, mid), !.kids = SubSeq(@, 1, mid + 1)]
        moved == Internal(SubSeq(node.keys, mid + 2, Len(node.keys)),
                          SubSeq(node.kids, mid + 2, Len(node.kids)), node.parent)
        nodes == Append(Adopted([t.nodes EXCEPT ![n] = kept], moved.kids, new), moved)
    IN  Call([t EXCEPT !.nodes = nodes], n, node.keys[mid + 1], new)

\* the call, up to the one that it ends with if the parent has to be split
insert_in_parent(t, left, k, right) ==
    LET p == t.nodes[left].parent
        new == Len(t.nodes) + 1
        idx == traverse_lt(t.nodes[p].keys, k)
        grown == [t EXCEPT !.nodes[p].keys = InsertAt(@, idx + 1, k),
                           !.nodes[p].kids = InsertAt(@, idx + 2, right),
                           !.nodes[right].parent = p]
    IN  IF p = 0
          THEN Return([t EXCEPT !.root = new,
                         !.nodes = Append([@ EXCEPT ![left].parent = new, ![right].parent = new],
                                          Internal(<<k>>, <<left, right>>, 0))])
        ELSE IF Len(grown.nodes[p].keys) > Order THEN split_internal(grown, p)
        ELSE Return(grown)

\* the calls one after the other, each a level higher
Climb(c) ==
    LET at[i \in 0..Len(c.tree.nodes)] ==
          IF i = 0 THEN c
          ELSE LET d == at[i - 1]
               IN  IF d.right = 0 THEN d ELSE insert_in_parent(d.tree, d.left, d.key, d.right)
    IN  at[Len(c.tree.nodes)].tree

\* Mutant of Halved: the chain skips the new leaf.
HalvedUnlinked(leaf, mid, new) ==
    [leaf EXCEPT !.keys = SubSeq(@, 1, mid), !.vals = SubSeq(@, 1, mid)]

Halved(leaf, mid, new) ==
    [leaf EXCEPT !.keys = SubSeq(@, 1, mid), !.vals = SubSeq(@, 1, mid), !.next = new]

split_leaf(t, n) ==
    LET leaf == t.nodes[n]
        mid == Len(leaf.keys) \div 2
        new == Len(t.nodes) + 1
        moved == Leaf(SubSeq(leaf.keys, mid + 1, Len(leaf.keys)),
                      SubSeq(leaf.vals, mid + 1, Len(leaf.vals)), leaf.parent, leaf.next)
        nodes == Append([t.nodes EXCEPT ![n] = Halved(leaf, mid, new)], moved)
    IN  Call([t EXCEPT !.nodes = nodes], n, moved.keys[1], new)

insert(t, k, v) ==
    LET f == find(t, k)
        grown == [t EXCEPT !.nodes[f.leaf].keys = InsertAt(@, f.slot + 1, k),
                           !.nodes[f.leaf].vals = InsertAt(@, f.slot + 1, v),
                           !.size = @ + 1]
    IN  IF Hit(t, k) THEN [t EXCEPT !.nodes[f.leaf].vals[f.slot + 1] = v]
        ELSE IF Len(grown.nodes[f.leaf].keys) > Order THEN Climb(split_leaf(grown, f.leaf))
        ELSE grown

-----------------------------------------------------------------------------
(* Deletion, and deletion under an iterator.                               *)

collapse(t) ==
    LET at[i \in 0..Len(t.nodes)] ==
          IF i = 0 THEN t
          ELSE LET u == at[i - 1] root == u.nodes[u.root]
               IN  IF ~IsLeaf(root) /\ root.keys = <<>>
                     THEN [u EXCEPT !.root = root.kids[1], !.nodes[root.kids[1]].parent = 0]
                     ELSE u
    IN  at[Len(t.nodes)]

\* Mutant of Removed: the value stays.
RemovedKey(leaf, i) == [leaf EXCEPT !.keys = RemoveAt(@, i)]

Removed(leaf, i) == [leaf EXCEPT !.keys = RemoveAt(@, i), !.vals = RemoveAt(@, i)]

delete(t, k) ==
    LET f == find(t, k)
    IN  IF ~Hit(t, k) THEN t
        ELSE collapse([t EXCEPT !.nodes[f.leaf] = Removed(@, f.slot + 1), !.size = @ - 1])

\* Mutant of AfterDelete: the pass leaves a leaf once it has deleted from it.
NextLeaf(leaf, slot) == Len(leaf.keys)

\* the iterator goes on to the next slot, of a leaf that has just lost a key
AfterDelete(leaf, slot) == slot + 1

\* a pass of the loop of replace_chains, and the loop: each pass leaves a leaf or a key behind
Visit(s, dead) ==
    LET leaf == s.tree.nodes[s.leaf] k == leaf.keys[s.slot + 1]
    IN  IF s.leaf = 0 THEN s
        ELSE IF s.slot >= Len(leaf.keys) THEN [s EXCEPT !.leaf = leaf.next, !.slot = 0]
        ELSE IF k \in dead
               THEN [s EXCEPT !.tree = delete(s.tree, k), !.slot = AfterDelete(leaf, s.slot)]
        ELSE [s EXCEPT !.slot = @ + 1]

Sweep(t, dead) ==
    LET n == t.size + Len(t.nodes)
        at[i \in 0..n] == IF i = 0 THEN [tree |-> t, leaf |-> Leftmost(t), slot |-> 0]
                           ELSE Visit(at[i - 1], dead)
    IN  at[n].tree

-----------------------------------------------------------------------------
Without(m, dead) == [k \in DOMAIN m \ dead |-> m[k]]

Init == tree = EmptyTree /\ map = <<>> /\ swept = [met |-> {}, left |-> {}] /\ ops = 0

Insert(k, v) ==
    /\ ops < MaxOps /\ ops' = ops + 1
    /\ tree' = insert(tree, k, v)
    /\ map' = [j \in DOMAIN map \cup {k} |-> IF j = k THEN v ELSE map[j]]
    /\ UNCHANGED swept

Delete(k) ==
    /\ ops < MaxOps /\ ops' = ops + 1
    /\ tree' = delete(tree, k)
    /\ map' = Without(map, {k})
    /\ UNCHANGED swept

\* replace_chains, when the chains of some keys are empty: no key is new
ReplaceChains(dead) ==
    /\ ops < MaxOps /\ ops' = ops + 1
    /\ tree' = Sweep(tree, dead)
    /\ swept' = [met |-> dead, left |-> {k \in dead : Hit(tree', k)}]
    /\ map' = Without(map, dead \ swept'.left)

Next ==
    \/ \E k \in Key : Insert(k, Fresh(k)) \/ Delete(k)
    \/ \E low \in Key : ReplaceChains({k \in DOMAIN map : low <= k})

Spec == Init /\ [][Next]_vars

-----------------------------------------------------------------------------
(* Properties.                                                             *)

Nodes == DOMAIN tree.nodes

Leaves == {n \in Nodes : IsLeaf(tree.nodes[n])}

\* the steps from a node to the root
Depth ==
    LET d[n \in Nodes] ==
          IF tree.nodes[n].parent = 0 THEN 0 ELSE d[tree.nodes[n].parent] + 1
    IN  d

\* nodes are of the order, with as many values or one child more than keys
NodeShapes ==
    /\ tree.root \in Nodes /\ tree.size \in Nat
    /\ \A n \in Nodes :
          LET node == tree.nodes[n]
          IN  /\ node.keys \in Seq(Key) /\ Len(node.keys) <= Order
              /\ node.parent \in Nodes \cup {0} /\ node.next \in Nodes \cup {0}
              /\ IF IsLeaf(node) THEN Len(node.vals) = Len(node.keys)
                 ELSE node.kids \in Seq(Nodes) /\ Len(node.kids) = Len(node.keys) + 1

\* every node but the root is a child of the node its parent pointer names, all leaves
\* are at one depth, and an internal node keeps a key
ParentsAreRight ==
    /\ tree.nodes[tree.root].parent = 0
    /\ \A n \in Nodes :
          LET node == tree.nodes[n]
          IN  /\ \A c \in Range(node.kids) : tree.nodes[c].parent = n
              /\ n # tree.root => /\ node.parent # 0
                                   /\ n \in Range(tree.nodes[node.parent].kids)
              /\ ~IsLeaf(node) => node.keys # <<>>
    /\ \A n, m \in Leaves : Depth[n] = Depth[m]

(* Splits find their way up, whatever deletions have left: the tree is one *)
(* of its order, the pointers to parents are those of its children, and    *)
(* the root never needs the collapse.                                      *)
WellFormed == NodeShapes /\ ParentsAreRight

\* s has the map's pairs for some keys, in the order of the keys
Lists(s, keys) ==
    /\ Range(s) = {<<k, map[k]>> : k \in keys}
    /\ \A i \in 1..(Len(s) - 1) : s[i][1] < s[i + 1][1]

\* the chain of leaves yields the map
ScanIsTheMap == Lists(items(tree), DOMAIN map) /\ tree.size = Cardinality(DOMAIN map)

\* a key is found exactly if the map has it, with its value
LookupsFind ==
    \A k \in Key : /\ Hit(tree, k) <=> k \in DOMAIN map
                   /\ Hit(tree, k) => get(tree, k) = map[k]

\* a range scan yields the part of the map between its bounds
RangesAreExact ==
    \A low, high \in Key :
       Lists(range(tree, low, high), {k \in DOMAIN map : low <= k /\ k < high})

(* However a table is read, what is read is the map: scans step past the   *)
(* leaves that deletions have emptied, lookups find their way by the       *)
(* separators of keys that are gone, and ranges start at such keys too.    *)
ReadsAreTheMap == ScanIsTheMap /\ LookupsFind /\ RangesAreExact

(* A pass of replace_chains, which steps over keys as it deletes, still    *)
(* removes half of the dead keys: the background passes get to all.        *)
SweepTakesHalf == 2 * Cardinality(swept.left) <= Cardinality(swept.met)
=============================================================================
