-------------------------- MODULE WaitGraphProofs --------------------------
(***************************************************************************)
(* The deadlock search is right about every wait-for graph, of any size:   *)
(* it blames nobody who is in no cycle, somebody when there is a cycle,    *)
(* and everybody who is on a cycle of two or three.                        *)
(***************************************************************************)
EXTENDS WaitGraph, FiniteSetTheorems, DataProofs

(* A walk of a graph that begins somewhere.                                *)
Walk(g, p) ==
    /\ p \in Seq(Txn) /\ p # <<>>
    /\ \A i \in 1..(Len(p) - 1) : p[i + 1] \in g[p[i]]

\* the paths of the search: pushed, and under expansion
TypeOK ==
    /\ graph \in [Txn -> SUBSET Txn]
    /\ starts \subseteq Txn
    /\ stack \in Seq(Seq(Txn)) /\ path \in Seq(Txn)
    /\ todo \subseteq Txn
    /\ seen \in [Txn -> SUBSET Txn]
    /\ victims \subseteq Txn

Walks ==
    /\ \A i \in 1..Len(stack) : Walk(graph, stack[i])
    /\ path # <<>> => Walk(graph, path) /\ todo \subseteq graph[Node]
    /\ path = <<>> => todo = {}

(* While nobody is blamed, every start the search has done with is in no   *)
(* cycle.  Of the start it is at: a node it has met is still the end of a  *)
(* path on the stack, or all its edges are followed and none is to the     *)
(* start, or it is under expansion, and that holds of the edges so far.    *)
Met(s) == {s} \cup UNION {seen[u] : u \in Txn}
OnStack(v) == \E i \in 1..Len(stack) : stack[i][Len(stack[i])] = v
Followed(s, v, edges) == edges \subseteq seen[v] /\ s \notin edges

Searching(s) ==
    /\ stack # <<>> \/ path # <<>>
    /\ \A i \in 1..Len(stack) : stack[i][1] = s
    /\ path # <<>> => path[1] = s
    /\ \A v \in Met(s) : \/ OnStack(v)
                         \/ Followed(s, v, graph[v])
                         \/ path # <<>> /\ v = Node /\ Followed(s, v, graph[v] \ todo)

Thorough ==
    victims = {} => \A s \in Txn \ starts : graph[s] # {} => s \notin OnCycle \/ Searching(s)

Inv == TypeOK /\ Walks /\ OnlyCyclesAreBlamed /\ Thorough

-----------------------------------------------------------------------------
(* A set that is closed under edges is not left by a walk.                 *)
LEMMA WalkStays ==
    ASSUME TypeOK, NEW p, Walk(graph, p), NEW S \in SUBSET Txn, \A v \in S : graph[v] \subseteq S,
           NEW i \in 1..Len(p), p[i] \in S, NEW j \in i..Len(p)
    PROVE  p[j] \in S
<1> DEFINE B == {n \in Nat : n \in i..Len(p) /\ p[n] \notin S}
<1>0. Len(p) \in Nat
  BY DEF Walk
<1> SUFFICES ASSUME B # {} PROVE FALSE
  BY <1>0
<1>1. PICK n \in B : \A m \in B : n <= m
  BY LeastMember
<1>2. n # i /\ n - 1 \in i..Len(p) /\ n - 1 \in 1..(Len(p) - 1) /\ n - 1 \in Nat
  BY <1>0, <1>1
<1>3. p[n - 1] \in S
  BY <1>0, <1>1, <1>2
<1>4. p[n] \in graph[p[n - 1]]
  BY <1>0, <1>1, <1>2 DEF Walk
<1>5. QED BY <1>1, <1>3, <1>4

(* A walk whose last node has an edge to its node number first: all from   *)
(* there on are on a cycle.                                                *)
LEMMA ClosedWalk ==
    ASSUME TypeOK, NEW p, Walk(graph, p), NEW first \in 1..Len(p), p[first] \in graph[p[Len(p)]],
           NEW j \in first..Len(p)
    PROVE  p[j] \in OnCycle
<1>0. Len(p) \in Nat /\ \A i \in 1..Len(p) : p[i] \in Txn
  BY DEF Walk
<1>1. SUFFICES ASSUME NEW S \in SUBSET Txn, graph[p[j]] \subseteq S,
                      \A v \in S : graph[v] \subseteq S
               PROVE  p[j] \in S
  BY <1>0 DEF OnCycle, Reaches
<1>2. p[Len(p)] \in S \/ j = Len(p)
  <2>1. CASE j < Len(p)
    <3>1. p[j + 1] \in S
      BY <1>0, <1>1, <2>1 DEF Walk
    <3>2. QED BY <1>0, <1>1, <2>1, <3>1, WalkStays
  <2>2. QED BY <1>0, <2>1
<1>3. p[first] \in S
  BY <1>1, <1>2
<1>4. QED BY <1>0, <1>1, <1>3, WalkStays

(* A start all of whose paths are expanded, with no edge back to it, is in *)
(* no cycle.                                                               *)
LEMMA ExhaustedSearch ==
    ASSUME TypeOK, NEW s \in Txn, \A v \in Met(s) : Followed(s, v, graph[v])
    PROVE  s \notin OnCycle
<1> DEFINE S == UNION {graph[v] : v \in Met(s)}
<1>1. S \subseteq Txn /\ graph[s] \subseteq S /\ s \notin S
  BY DEF TypeOK, Met, Followed
<1>2. S \subseteq Met(s)
  BY DEF TypeOK, Met, Followed
<1>3. \A v \in S : graph[v] \subseteq S
  BY <1>2
<1> HIDE DEF S
<1>4. QED BY <1>1, <1>3 DEF OnCycle, Reaches

-----------------------------------------------------------------------------
(* The search starts in the invariant.                                     *)
LEMMA InitInv == Init => Inv
BY DEF Init, Inv, TypeOK, Walks, OnlyCyclesAreBlamed, Thorough

(* A new root keeps the invariant,                                         *)
LEMMA StartKeeps == Inv /\ Start => Inv'
<1> SUFFICES ASSUME Inv, Start PROVE Inv'
  OBVIOUS
<1> USE DEF Inv, TypeOK
<1>1. PICK s \in starts : /\ starts' = starts \ {s} /\ stack' = << <<s>> >>
                          /\ seen' = [t \in Txn |-> {}]
  BY DEF Start
<1>2. /\ stack = <<>> /\ path = <<>>
      /\ UNCHANGED <<graph, path, todo, victims>>
  BY DEF Start
<1>3. TypeOK'
  BY <1>1, <1>2
<1>4. Walks'
  <2>1. Walk(graph, <<s>>)
    BY DEF Walk
  <2>2. \A i \in 1..Len(stack') : stack'[i] = <<s>>
    BY <1>1
  <2>3. QED BY <1>2, <2>1, <2>2 DEF Walks
<1>5. OnCycle' = OnCycle
  BY <1>2 DEF OnCycle, Reaches
<1>6. Searching(s)'
  BY <1>1, <1>2 DEF Searching, Met, OnStack
<1>7. Thorough'
  BY <1>1, <1>2, <1>5, <1>6 DEF Thorough, Searching
<1>8. QED BY <1>2, <1>3, <1>4, <1>5, <1>7 DEF OnlyCyclesAreBlamed

(* and so does the return from a finished transaction,                     *)
LEMMA PopKeeps == Inv /\ Pop => Inv'
<1> SUFFICES ASSUME Inv, Pop PROVE Inv'
  OBVIOUS
<1> USE DEF Inv, TypeOK
<1>1. /\ path = <<>> /\ stack # <<>> /\ path' = stack[Len(stack)]
      /\ stack' = SubSeq(stack, 1, Len(stack) - 1)
      /\ todo' = graph[path'[Len(path')]]
      /\ UNCHANGED <<graph, starts, seen, victims>>
  BY DEF Pop
<1>2. /\ Len(stack) \in Nat \ {0} /\ Len(stack') = Len(stack) - 1
      /\ stack' \in Seq(Seq(Txn))
      /\ \A i \in 1..Len(stack') : i \in 1..Len(stack) /\ stack'[i] = stack[i]
      /\ \A i \in 1..Len(stack) : i \in 1..Len(stack') \/ i = Len(stack)
  <2> DEFINE Paths == Seq(Txn)
             n == Len(stack) - 1
  <2>1. stack \in Seq(Paths) /\ stack # <<>> /\ stack' = SubSeq(stack, 1, n)
    BY <1>1
  <2> HIDE DEF Paths
  <2>2. Len(stack) \in Nat \ {0}
    BY <2>1, EmptySeq
  <2>3. n \in 0..Len(stack)
    BY <2>2
  <2> HIDE DEF n
  <2>4. stack' \in Seq(Paths) /\ Len(stack') = n /\ \A i \in 1..n : stack'[i] = stack[i]
    BY <2>1, <2>3, Prefix
  <2>5. QED BY <2>2, <2>4 DEF Paths, n
<1>3. Walk(graph', path') /\ path' # <<>> /\ path' \in Seq(Txn) /\ path'[Len(path')] \in Txn
  <2>1. Walk(graph', path')
    BY <1>1, <1>2 DEF Walks
  <2>2. path' # <<>> /\ path' \in Seq(Txn)
    BY <2>1 DEF Walk
  <2>3. path'[Len(path')] \in Txn
    BY <2>2, EmptySeq, ElementOfSeq
  <2>4. QED BY <1>1, <2>1, <2>2, <2>3 DEF Walk
<1>4. TypeOK'
  BY <1>1, <1>2, <1>3
<1>5. Walks'
  BY <1>1, <1>2, <1>3 DEF Walks, Node
<1>6. OnCycle' = OnCycle
  BY <1>1 DEF OnCycle, Reaches
<1>7. ASSUME NEW s \in Txn, Searching(s) PROVE Searching(s)'
  <2>1. /\ \A i \in 1..Len(stack') : stack'[i][1] = s
        /\ path'[1] = s
    BY <1>1, <1>2, <1>7 DEF Searching
  <2>2. \A v \in Met(s)' : OnStack(v) => OnStack(v)' \/ v = Node'
    BY <1>1, <1>2 DEF OnStack, Node
  <2>3. Followed(s, Node', graph[Node'] \ todo')
    BY <1>1 DEF Followed, Node
  <2>4. QED
    BY <1>1, <1>3, <1>7, <2>1, <2>2, <2>3 DEF Searching, Met, Followed
<1>8. Thorough'
  BY <1>1, <1>6, <1>7 DEF Thorough
<1>9. QED BY <1>1, <1>4, <1>5, <1>6, <1>8 DEF OnlyCyclesAreBlamed

(* and an edge that closes a cycle,                                        *)
LEMMA CloseCycleKeeps == ASSUME NEW nxt \in todo, Inv, CloseCycle(nxt) PROVE Inv'
<1> USE DEF Inv, TypeOK
<1> DEFINE first == CHOOSE i \in 1..Len(path) : path[i] = nxt
           tail == SubSeq(path, first, Len(path))
<1>1. /\ victims' = victims \cup Range(tail)
      /\ path' = <<>> /\ todo' = {}
      /\ nxt \in Range(path)
      /\ UNCHANGED <<graph, starts, stack, seen>>
  BY DEF CloseCycle
<1>2. path # <<>> /\ Walk(graph, path) /\ nxt \in graph[Node]
  BY DEF Walks
<1>3. first \in 1..Len(path) /\ path[first] = nxt
  BY <1>1 DEF Range
<1> HIDE DEF first
<1>4. \A j \in first..Len(path) : path[j] \in OnCycle
  BY <1>2, <1>3, ClosedWalk DEF Node
<1>5. Range(tail) \subseteq OnCycle
  BY <1>3, <1>4 DEF Range
<1>6. nxt \in Range(tail)
  <2>1. Len(path) \in Nat /\ 1 \in DOMAIN tail /\ tail[1] = path[first]
    BY <1>3
  <2>2. QED BY <1>3, <2>1 DEF Range
<1> HIDE DEF tail
<1>7. OnCycle' = OnCycle /\ OnCycle \subseteq Txn
  BY <1>1 DEF OnCycle, Reaches
<1>8. TypeOK'
  BY <1>1, <1>5, <1>7
<1>9. Walks'
  BY <1>1 DEF Walks, Walk
<1>10. OnlyCyclesAreBlamed' /\ Thorough'
  BY <1>1, <1>5, <1>6, <1>7 DEF OnlyCyclesAreBlamed, Thorough
<1>11. QED BY <1>8, <1>9, <1>10

(* and an edge that is followed,                                           *)
LEMMA FollowEdgeKeeps == ASSUME NEW nxt \in todo, Inv, FollowEdge(nxt) PROVE Inv'
<1> USE DEF Inv, TypeOK
<1>1. /\ nxt \notin Range(path) /\ todo' = todo \ {nxt}
      /\ UNCHANGED <<graph, starts, path, victims>>
  BY DEF FollowEdge
<1>2. path # <<>> /\ Walk(graph, path) /\ nxt \in graph[Node] /\ Node \in Txn /\ Node' = Node
  BY <1>1 DEF Walks, Walk, Node
<1>3. /\ seen' \in [Txn -> SUBSET Txn]
      /\ \A u \in Txn : seen[u] \subseteq seen'[u] /\ seen'[u] \subseteq seen[u] \cup {nxt}
      /\ nxt \in seen'[Node]
  <2>1. CASE nxt \in seen[Node]
    BY <1>2, <2>1 DEF FollowEdge
  <2>2. CASE nxt \notin seen[Node]
    BY <1>2, <2>2 DEF FollowEdge
  <2>3. QED BY <2>1, <2>2
<1>4. \/ stack' = stack /\ seen' = seen
      \/ stack' = Append(stack, Append(path, nxt))
  BY DEF FollowEdge
<1> DEFINE long == Append(path, nxt)
<1>5. /\ long \in Seq(Txn) /\ long # <<>> /\ Len(long) = Len(path) + 1 /\ long[Len(long)] = nxt
      /\ \A i \in 1..Len(path) : long[i] = path[i]
      /\ Len(path) \in Nat \ {0}
  BY <1>2, Pushed, EmptySeq
<1>6. Walk(graph, long)
  BY <1>2, <1>5 DEF Walk, Node
<1> HIDE DEF long
<1>7. /\ stack' \in Seq(Seq(Txn))
      /\ Len(stack) \in Nat /\ Len(stack') \in Nat /\ Len(stack') >= Len(stack)
      /\ \A i \in 1..Len(stack) : stack'[i] = stack[i]
      /\ \A i \in 1..Len(stack') : i \in 1..Len(stack) \/ stack'[i] = long
      /\ \/ stack' = stack /\ seen' = seen
         \/ Len(stack') \in 1..Len(stack') /\ stack'[Len(stack')] = long
  <2>1. CASE stack' = stack /\ seen' = seen
    BY <2>1, LenProperties
  <2>2. CASE stack' = Append(stack, long)
    BY <2>2, <1>5, Pushed
  <2>3. QED BY <1>4, <2>1, <2>2 DEF long
<1>8. TypeOK'
  BY <1>1, <1>3, <1>7
<1>9. Walks'
  BY <1>1, <1>2, <1>6, <1>7 DEF Walks, Walk
<1>10. OnCycle' = OnCycle
  BY <1>1 DEF OnCycle, Reaches
<1>11. ASSUME NEW s \in Txn, Searching(s) PROVE Searching(s)'
  <2>1. path[1] = s /\ s # nxt
    BY <1>1, <1>2, <1>5, <1>11 DEF Searching, Range
  <2>2. \A i \in 1..Len(stack') : stack'[i][1] = s
    <3>1. long[1] = s
      BY <1>5, <2>1
    <3>2. \A i \in 1..Len(stack) : stack[i][1] = s
      BY <1>11 DEF Searching
    <3>3. QED BY <1>7, <3>1, <3>2
  <2>3. ASSUME NEW v, OnStack(v) PROVE OnStack(v)'
    <3>1. PICK i \in 1..Len(stack) : stack[i][Len(stack[i])] = v
      BY <2>3 DEF OnStack
    <3>2. i \in 1..Len(stack') /\ stack'[i] = stack[i]
      BY <1>7
    <3>3. stack'[i][Len(stack'[i])] = v
      BY <3>1, <3>2
    <3>4. QED BY <3>2, <3>3 DEF OnStack
  <2>4. ASSUME NEW v \in Met(s)' PROVE v \in Met(s) \/ OnStack(v)'
    <3>1. CASE stack' = stack /\ seen' = seen
      BY <3>1 DEF Met
    <3>2. CASE Len(stack') \in 1..Len(stack') /\ stack'[Len(stack')] = long
      <4>1. OnStack(nxt)'
        BY <3>2, <1>5 DEF OnStack
      <4>2. v \in Met(s) \cup {nxt}
        BY <1>3 DEF Met
      <4>3. QED BY <4>1, <4>2
    <3>3. QED BY <1>7, <3>1, <3>2
  <2>5. \A v \in Met(s) : v \in Txn
    BY DEF Met
  <2>6. ASSUME NEW v \in Met(s), path # <<>> /\ v = Node /\ Followed(s, v, graph[v] \ todo)
        PROVE  v = Node' /\ (Followed(s, v, graph[v] \ todo))'
    BY <1>1, <1>2, <1>3, <2>1, <2>6 DEF Followed
  <2>7. ASSUME NEW v \in Met(s), Followed(s, v, graph[v])
        PROVE  Followed(s, v, graph[v])'
    BY <1>1, <1>3, <2>5, <2>7 DEF Followed
  <2>8. \A v \in Met(s) : \/ OnStack(v)'
                          \/ Followed(s, v, graph[v])'
                          \/ path # <<>> /\ v = Node' /\ (Followed(s, v, graph[v] \ todo))'
    BY <1>11, <2>3, <2>6, <2>7 DEF Searching
  <2>9. QED
    BY <1>1, <1>2, <2>1, <2>2, <2>4, <2>8 DEF Searching
<1>12. Thorough'
  BY <1>1, <1>10, <1>11 DEF Thorough
<1>13. QED BY <1>1, <1>8, <1>9, <1>10, <1>12 DEF OnlyCyclesAreBlamed

(* and the turn to the next edge.                                          *)
LEMMA NextPathKeeps == Inv /\ NextPath => Inv'
<1> SUFFICES ASSUME Inv, NextPath PROVE Inv'
  OBVIOUS
<1> USE DEF Inv, TypeOK
<1>1. /\ path # <<>> /\ todo = {} /\ path' = <<>>
      /\ UNCHANGED <<graph, starts, stack, todo, seen, victims>>
  BY DEF NextPath
<1>2. TypeOK' /\ Walks'
  BY <1>1 DEF Walks, Walk
<1>3. OnCycle' = OnCycle
  BY <1>1 DEF OnCycle, Reaches
<1>4. ASSUME NEW s \in Txn, Searching(s) PROVE s \notin OnCycle \/ Searching(s)'
  <2>1. \A v \in Met(s) : OnStack(v) \/ Followed(s, v, graph[v])
    BY <1>1, <1>4 DEF Searching, Followed
  <2>2. CASE stack = <<>>
    <3>1. \A v \in Met(s) : Followed(s, v, graph[v])
      BY <2>1, <2>2 DEF OnStack
    <3>2. QED BY <3>1, ExhaustedSearch
  <2>3. CASE stack # <<>>
    BY <1>1, <1>4, <2>1, <2>3 DEF Searching, Met, OnStack, Followed
  <2>4. QED BY <2>2, <2>3
<1>5. Thorough'
  BY <1>1, <1>3, <1>4 DEF Thorough
<1>6. QED BY <1>1, <1>2, <1>3, <1>5 DEF OnlyCyclesAreBlamed

(* Every step keeps the invariant.                                         *)
LEMMA NextInv == Inv /\ [Next]_vars => Inv'
<1> SUFFICES ASSUME Inv, [Next]_vars PROVE Inv'
  OBVIOUS
<1>1. CASE UNCHANGED vars
  <2>1. /\ OnCycle' = OnCycle /\ Node' = Node
        /\ \A s : Searching(s)' <=> Searching(s)
    BY <1>1 DEF vars, Node, OnCycle, Reaches, Searching, Met, OnStack, Followed
  <2>2. QED
    BY <1>1, <2>1 DEF vars, Inv, TypeOK, Walks, OnlyCyclesAreBlamed, Thorough
<1>2. ASSUME NEW nxt \in todo, CloseCycle(nxt) \/ FollowEdge(nxt) PROVE Inv'
  BY <1>2, CloseCycleKeeps, FollowEdgeKeeps
<1>3. QED
  BY <1>1, <1>2, StartKeeps, PopKeeps, NextPathKeeps DEF Next

(* The search keeps its path and what it has excluded, for every graph.    *)
THEOREM Invariance == Spec => []Inv
<1>1. Init => Inv BY InitInv
<1>2. Inv /\ [Next]_vars => Inv' BY NextInv
<1>3. QED BY <1>1, <1>2, PTL DEF Spec

(* The search never blames a transaction that is in no cycle of the        *)
(* wait-for graph, for any number of transactions.                         *)
THEOREM BlamesOnlyCycles == Spec => []OnlyCyclesAreBlamed
<1>1. Inv => OnlyCyclesAreBlamed BY DEF Inv
<1>2. QED BY <1>1, Invariance, PTL

(* When the search is done with a graph that has a cycle, it has blamed    *)
(* somebody, although it leaves a node at the first edge that closes a     *)
(* cycle and follows no edge twice from one start.                         *)
THEOREM FindsEveryDeadlock == Spec => []EveryDeadlockIsFound
<1>1. ASSUME Inv PROVE EveryDeadlockIsFound
  <2> SUFFICES ASSUME Done, victims = {}, NEW s \in OnCycle PROVE FALSE
    BY DEF EveryDeadlockIsFound
  <2>1. s \in Txn /\ graph[s] # {}
    BY <1>1 DEF OnCycle, Reaches
  <2>2. ~Searching(s)
    BY DEF Done, Searching
  <2>3. QED BY <1>1, <2>1, <2>2 DEF Inv, Thorough, Done
<1>2. QED BY <1>1, Invariance, PTL

-----------------------------------------------------------------------------
(* Short cycles.  From d the search goes to t, and from t to u, and there  *)
(* is an edge from u to d, or u is d.  Until t is blamed, something is     *)
(* pending that will blame it: the start d, or t behind d, or u behind t.  *)
(* No edge that closes a cycle at t or at a u reached from t can miss t.   *)
Short(d, t, u) == t \in graph[d] /\ u \in graph[t] /\ (u = d \/ d \in graph[u])

From(d) ==
    /\ \A i \in 1..Len(stack) : stack[i][1] = d
    /\ path # <<>> => path[1] = d

\* on the way from d to t, with the edge from t to u not yet followed
BeforeT(d, t, u) ==
    /\ From(d) /\ u \notin seen[t]
    /\ \/ path = <<>> /\ stack = << <<d>> >> /\ t \notin seen[d]
       \/ path = <<d>> /\ t \in todo /\ t \notin seen[d]
       \/ OnStack(t)
       \/ path # <<>> /\ Node = t /\ u \in todo

\* a path by t to u, from where an edge goes back to d
Back(p, d, t, u) == Len(p) > 1 /\ p[1] = d /\ p[Len(p) - 1] = t /\ p[Len(p)] = u

BehindT(d, t, u) ==
    \/ \E i \in 1..Len(stack) : Back(stack[i], d, t, u)
    \/ path # <<>> /\ Back(path, d, t, u) /\ d \in todo

Pending(d, t, u) == d \in starts \/ BeforeT(d, t, u) \/ (u # d /\ BehindT(d, t, u))

NoSelf == \A t \in Txn : t \notin graph[t]

Blaming ==
    \A d, t, u \in Txn : Short(d, t, u) => t \in victims \/ Pending(d, t, u)

(* The node at the end of the path is blamed with any cycle that is        *)
(* closed, and the one before it too.                                      *)
LEMMA EndIsBlamed ==
    ASSUME Inv, NoSelf, NEW nxt \in todo, CloseCycle(nxt)
    PROVE  /\ path # <<>> /\ Len(path) \in Nat \ {0}
           /\ victims \subseteq victims' /\ Node \in victims'
           /\ Len(path) > 1 => path[Len(path) - 1] \in victims'
<1> USE DEF Inv, TypeOK
<1> DEFINE n == Len(path)
           first == CHOOSE i \in 1..Len(path) : path[i] = nxt
           tail == SubSeq(path, first, Len(path))
<1>1. victims' = victims \cup Range(tail) /\ nxt \in Range(path)
  BY DEF CloseCycle
<1>2. path # <<>> /\ nxt \in graph[Node] /\ n \in Nat /\ n # 0
  BY EmptySeq DEF Walks
<1>3. first \in 1..n /\ path[first] = nxt
  BY <1>1 DEF Range
<1>4. nxt # path[n]
  <2>1. path[n] \in Txn
    BY <1>2, ElementOfSeq
  <2>2. QED BY <1>2, <2>1 DEF NoSelf, Node
<1>5. first \in 1..n /\ first # n
  BY <1>3, <1>4
<1> HIDE DEF first, n
<1>6. \A i \in first..n : path[i] \in Range(tail)
  <2> SUFFICES ASSUME NEW i \in first..n PROVE path[i] \in Range(tail)
    OBVIOUS
  <2> DEFINE k == i - first + 1
  <2>1. k \in 1..(n - first + 1) /\ first + k - 1 = i /\ first <= n /\ first \in Int /\ n \in Int
    BY <1>2, <1>5
  <2>2. \A j \in first..n : path[j] \in Txn
    BY <1>2, <1>5, ElementOfSeq DEF n
  <2> HIDE DEF k
  <2>3. Len(tail) = n - first + 1 /\ tail[k] = path[first + k - 1] /\ tail \in Seq(Txn)
    BY <2>1, <2>2, SubSeqProperties DEF n
  <2>4. DOMAIN tail = 1..Len(tail)
    BY <2>3, LenProperties
  <2>5. QED BY <2>1, <2>3, <2>4 DEF Range
<1>7. n \in first..n /\ n - 1 \in first..n
  BY <1>2, <1>5
<1>8. QED BY <1>1, <1>2, <1>6, <1>7 DEF Node, n

(* At the start everybody who waits is still to be searched from.         *)
LEMMA InitBlaming == Init => NoSelf /\ Blaming
BY DEF Init, NoSelf, Blaming, Pending, Short

(* A search from d is on its way to t; any other start leaves d to come.   *)
LEMMA StartBlaming ==
    ASSUME Inv, Start, NEW d \in Txn, NEW t \in Txn, NEW u \in Txn, Short(d, t, u),
           Pending(d, t, u)
    PROVE  Pending(d, t, u)'
<1> USE DEF Inv, TypeOK
<1>1. PICK s \in starts : /\ starts' = starts \ {s} /\ stack' = << <<s>> >>
                          /\ seen' = [v \in Txn |-> {}]
  BY DEF Start
<1>2. stack = <<>> /\ path = <<>> /\ path' = path
  BY DEF Start
<1>3. d \in starts
  BY <1>2 DEF Pending, BeforeT, BehindT, OnStack
<1>4. CASE s = d
  BY <1>1, <1>2, <1>4 DEF Pending, BeforeT, From
<1>5. CASE s # d
  BY <1>1, <1>3, <1>5 DEF Pending
<1>6. QED BY <1>4, <1>5

(* A path that ends in t or u is taken off the stack, with all its edges.  *)
LEMMA PopBlaming ==
    ASSUME Inv, Pop, NEW d \in Txn, NEW t \in Txn, NEW u \in Txn, Short(d, t, u),
           Pending(d, t, u)
    PROVE  Pending(d, t, u)'
<1> USE DEF Inv, TypeOK
<1>1. /\ path = <<>> /\ stack # <<>> /\ path' = stack[Len(stack)]
      /\ stack' = SubSeq(stack, 1, Len(stack) - 1)
      /\ todo' = graph[path'[Len(path')]]
      /\ UNCHANGED <<graph, starts, seen, victims>>
  BY DEF Pop
<1>2. /\ Len(stack) \in 1..Len(stack) /\ Len(stack') = Len(stack) - 1
      /\ \A i \in 1..Len(stack') : i \in 1..Len(stack) /\ stack'[i] = stack[i]
      /\ \A i \in 1..Len(stack) : (i \in 1..Len(stack') /\ stack'[i] = stack[i]) \/ i = Len(stack)
  <2> DEFINE Paths == Seq(Txn)
             n == Len(stack) - 1
  <2>1. stack \in Seq(Paths) /\ stack # <<>> /\ stack' = SubSeq(stack, 1, n)
    BY <1>1
  <2> HIDE DEF Paths
  <2>2. Len(stack) \in Nat \ {0}
    BY <2>1, EmptySeq
  <2>3. n \in 0..Len(stack)
    BY <2>2
  <2> HIDE DEF n
  <2>4. stack' \in Seq(Paths) /\ Len(stack') = n /\ \A i \in 1..n : stack'[i] = stack[i]
    BY <2>1, <2>3, Prefix
  <2>5. QED BY <2>2, <2>4 DEF Paths, n
<1>3. path' # <<>>
  BY <1>1, <1>2 DEF Walks, Walk
<1>4. CASE d \in starts
  BY <1>1, <1>4 DEF Pending
<1>5. CASE BeforeT(d, t, u)
  <2>1. From(d)'
    BY <1>1, <1>2, <1>5 DEF BeforeT, From
  <2>2. CASE stack = << <<d>> >> /\ t \notin seen[d]
    <3>1. path' = <<d>> /\ todo' = graph[d]
      BY <1>1, <2>2
    <3>2. QED BY <1>1, <1>5, <2>1, <2>2, <3>1 DEF Pending, BeforeT, Short
  <2>3. CASE OnStack(t)
    <3>1. PICK i \in 1..Len(stack) : stack[i][Len(stack[i])] = t
      BY <2>3 DEF OnStack
    <3>2. CASE i \in 1..Len(stack') /\ stack'[i] = stack[i]
      <4>1. OnStack(t)'
        BY <3>1, <3>2 DEF OnStack
      <4>2. QED BY <1>1, <1>5, <2>1, <4>1 DEF Pending, BeforeT
    <3>3. CASE i = Len(stack)
      <4>1. Node' = t /\ u \in todo'
        BY <1>1, <3>1, <3>3 DEF Node, Short
      <4>2. QED BY <1>1, <1>3, <1>5, <2>1, <4>1 DEF Pending, BeforeT
    <3>4. QED BY <1>2, <3>2, <3>3
  <2>4. QED BY <1>1, <1>5, <2>2, <2>3 DEF BeforeT
<1>6. CASE u # d /\ BehindT(d, t, u)
  <2>1. PICK i \in 1..Len(stack) : Back(stack[i], d, t, u)
    BY <1>1, <1>6 DEF BehindT
  <2>2. CASE i \in 1..Len(stack') /\ stack'[i] = stack[i]
    <3>1. BehindT(d, t, u)'
      BY <2>1, <2>2 DEF BehindT
    <3>2. QED BY <1>6, <3>1 DEF Pending
  <2>3. CASE i = Len(stack)
    <3>1. Back(path', d, t, u) /\ d \in todo'
      BY <1>1, <1>6, <2>1, <2>3 DEF Back, Short
    <3>2. QED BY <1>3, <1>6, <3>1 DEF Pending, BehindT
  <2>4. QED BY <1>2, <2>2, <2>3
<1>7. QED BY <1>4, <1>5, <1>6 DEF Pending

(* An edge that closes a cycle where t should be blamed blames t, and      *)
(* elsewhere what is pending is on the stack.                              *)
LEMMA CloseCycleBlaming ==
    ASSUME Inv, NoSelf, NEW nxt \in todo, CloseCycle(nxt),
           NEW d \in Txn, NEW t \in Txn, NEW u \in Txn, Short(d, t, u), Pending(d, t, u)
    PROVE  t \in victims' \/ Pending(d, t, u)'
<1> USE DEF Inv, TypeOK
<1>1. path' = <<>> /\ todo' = {} /\ UNCHANGED <<graph, starts, stack, seen>>
  BY DEF CloseCycle
<1>2. /\ path # <<>> /\ Node \in victims'
      /\ Len(path) > 1 => path[Len(path) - 1] \in victims'
  BY EndIsBlamed
<1>3. CASE d \in starts
  BY <1>1, <1>3 DEF Pending
<1>4. CASE BeforeT(d, t, u)
  <2>1. From(d)'
    BY <1>1, <1>4 DEF BeforeT, From
  <2>2. path # <<d>>
    <3>1. ASSUME path = <<d>> PROVE FALSE
      <4>1. nxt = d /\ nxt \in graph[d]
        <5>1. nxt \in Range(path)
          BY DEF CloseCycle
        <5>2. Len(path) = 1 /\ path[1] = d /\ DOMAIN path = {1}
          BY <3>1
        <5>3. nxt = d
          BY <5>1, <5>2 DEF Range
        <5>4. nxt \in graph[Node]
          BY <1>2 DEF Walks
        <5>5. QED BY <5>2, <5>3, <5>4 DEF Node
      <4>2. QED BY <4>1 DEF NoSelf
    <3>2. QED BY <3>1
  <2>3. CASE OnStack(t)
    <3>1. OnStack(t)'
      BY <1>1, <2>3 DEF OnStack
    <3>2. QED BY <1>1, <1>4, <2>1, <3>1 DEF Pending, BeforeT
  <2>4. CASE Node = t
    BY <1>2, <2>4
  <2>5. QED BY <1>2, <1>4, <2>2, <2>3, <2>4 DEF BeforeT
<1>5. CASE u # d /\ BehindT(d, t, u)
  <2>1. CASE \E i \in 1..Len(stack) : Back(stack[i], d, t, u)
    <3>1. BehindT(d, t, u)'
      BY <1>1, <2>1 DEF BehindT
    <3>2. QED BY <1>5, <3>1 DEF Pending
  <2>2. CASE Back(path, d, t, u)
    BY <1>2, <2>2 DEF Back
  <2>3. QED BY <1>5, <2>1, <2>2 DEF BehindT
<1>6. QED BY <1>3, <1>4, <1>5 DEF Pending

(* An edge is followed: from d to t, from t to u, or another, which leaves *)
(* what is pending.                                                        *)
LEMMA FollowEdgeBlaming ==
    ASSUME Inv, NoSelf, NEW nxt \in todo, FollowEdge(nxt),
           NEW d \in Txn, NEW t \in Txn, NEW u \in Txn, Short(d, t, u), Pending(d, t, u)
    PROVE  Pending(d, t, u)'
<1> USE DEF Inv, TypeOK
<1>1. /\ nxt \notin Range(path) /\ todo' = todo \ {nxt}
      /\ UNCHANGED <<graph, starts, path, victims>>
  BY DEF FollowEdge
<1>2. path # <<>> /\ path \in Seq(Txn) /\ Node \in Txn /\ Node' = Node /\ Len(path) \in Nat \ {0}
  BY <1>1, EmptySeq, ElementOfSeq DEF Walks, Walk, Node
<1> DEFINE long == Append(path, nxt)
<1>3. /\ Len(long) = Len(path) + 1 /\ long[Len(long)] = nxt
      /\ \A i \in 1..Len(path) : long[i] = path[i]
      /\ long \in Seq(Txn)
  BY <1>2, Pushed
<1>4. /\ long[1] = path[1] /\ Len(long) > 1 /\ long[Len(long) - 1] = Node /\ long[Len(long)] = nxt
  <2>1. 1 \in 1..Len(path) /\ Len(path) \in 1..Len(path) /\ Len(long) - 1 = Len(path)
    BY <1>2, <1>3
  <2>2. QED BY <1>2, <1>3, <2>1 DEF Node
<1> HIDE DEF long
<1>5. /\ Len(stack) \in Nat /\ \A i \in 1..Len(stack) : i \in 1..Len(stack') /\ stack'[i] = stack[i]
      /\ \A i \in 1..Len(stack') : (i \in 1..Len(stack) /\ stack'[i] = stack[i]) \/ stack'[i] = long
      /\ nxt \notin seen[Node] => Len(stack') \in 1..Len(stack') /\ stack'[Len(stack')] = long
  <2>1. CASE nxt \in seen[Node]
    BY <2>1, LenProperties DEF FollowEdge
  <2>2. CASE nxt \notin seen[Node]
    <3>1. stack' = Append(stack, long)
      BY <2>2 DEF FollowEdge, long
    <3>2. QED BY <1>3, <2>2, <3>1, Pushed
  <2>3. QED BY <2>1, <2>2
<1>6. /\ \A v \in Txn : v # Node => seen'[v] = seen[v]
      /\ \A w : w # nxt /\ w \notin seen[Node] => w \notin seen'[Node]
  <2>1. CASE nxt \in seen[Node]
    BY <2>1 DEF FollowEdge
  <2>2. CASE nxt \notin seen[Node]
    BY <1>2, <2>2 DEF FollowEdge
  <2>3. QED BY <2>1, <2>2
<1>7. CASE d \in starts
  BY <1>1, <1>7 DEF Pending
<1>8. CASE BeforeT(d, t, u)
  <2>1. From(d) /\ u \notin seen[t] /\ path[1] = d
    BY <1>2, <1>8 DEF BeforeT, From
  <2>2. From(d)'
    BY <1>1, <1>4, <1>5, <2>1 DEF From
  <2>3. CASE Node = t /\ nxt = u
    <3>1. d \in Range(path)
      BY <1>2, <2>1 DEF Range
    <3>2. u # d
      BY <1>1, <2>3, <3>1
    <3>3. Back(stack'[Len(stack')], d, t, u) /\ Len(stack') \in 1..Len(stack')
      BY <1>4, <1>5, <2>1, <2>3 DEF Back
    <3>4. BehindT(d, t, u)'
      BY <3>3 DEF BehindT
    <3>5. QED BY <3>2, <3>4 DEF Pending
  <2>4. CASE ~(Node = t /\ nxt = u)
    <3>1. u \notin seen'[t]
      BY <1>6, <2>1, <2>4
    <3>2. CASE path = <<d>> /\ t \in todo /\ t \notin seen[d]
      <4>1. Node = d
        BY <3>2 DEF Node
      <4>2. CASE nxt = t
        <5>1. OnStack(t)'
          BY <1>4, <1>5, <3>2, <4>1, <4>2 DEF OnStack
        <5>2. QED BY <2>2, <3>1, <5>1 DEF Pending, BeforeT
      <4>3. CASE nxt # t
        <5>1. t \notin seen'[d] /\ t \in todo' /\ path' = <<d>>
          BY <1>1, <1>6, <3>2, <4>1, <4>3
        <5>2. QED BY <2>2, <3>1, <5>1 DEF Pending, BeforeT
      <4>4. QED BY <4>2, <4>3
    <3>3. CASE OnStack(t)
      <4>1. OnStack(t)'
        BY <1>5, <3>3 DEF OnStack
      <4>2. QED BY <2>2, <3>1, <4>1 DEF Pending, BeforeT
    <3>4. CASE Node = t /\ u \in todo
      <4>1. u \in todo' /\ Node' = t /\ path' # <<>>
        BY <1>1, <1>2, <2>4, <3>4
      <4>2. QED BY <2>2, <3>1, <4>1 DEF Pending, BeforeT
    <3>5. QED BY <1>2, <1>8, <3>2, <3>3, <3>4 DEF BeforeT
  <2>5. QED BY <2>3, <2>4
<1>9. CASE u # d /\ BehindT(d, t, u)
  <2>1. CASE \E i \in 1..Len(stack) : Back(stack[i], d, t, u)
    <3>1. BehindT(d, t, u)'
      BY <1>5, <2>1 DEF BehindT
    <3>2. QED BY <1>9, <3>1 DEF Pending
  <2>2. CASE Back(path, d, t, u) /\ d \in todo
    <3>1. d # nxt
      BY <1>1, <1>2, <2>2 DEF Back, Range
    <3>2. BehindT(d, t, u)'
      BY <1>1, <1>2, <2>2, <3>1 DEF BehindT
    <3>3. QED BY <1>9, <3>2 DEF Pending
  <2>3. QED BY <1>9, <2>1, <2>2 DEF BehindT
<1>10. QED BY <1>7, <1>8, <1>9 DEF Pending

(* Every step keeps what is pending, or blames.                            *)
LEMMA NextBlaming == Inv /\ NoSelf /\ Blaming /\ [Next]_vars => (NoSelf /\ Blaming)'
<1> SUFFICES ASSUME Inv, NoSelf, Blaming, [Next]_vars PROVE NoSelf' /\ Blaming'
  OBVIOUS
<1>1. graph' = graph
  BY DEF Next, Start, Pop, NextPath, CloseCycle, FollowEdge, vars
<1>2. NoSelf'
  BY <1>1 DEF NoSelf
<1>3. \A v \in victims : v \in victims'
  BY DEF Next, Start, Pop, NextPath, CloseCycle, FollowEdge, vars
<1>4. ASSUME NEW d \in Txn, NEW t \in Txn, NEW u \in Txn, Short(d, t, u)'
      PROVE  t \in victims' \/ Pending(d, t, u)'
  <2>1. Short(d, t, u)
    BY <1>1, <1>4 DEF Short
  <2>2. CASE t \in victims
    BY <1>3, <2>2
  <2>3. CASE Pending(d, t, u)
    <3>1. CASE Start BY <2>1, <2>3, <3>1, StartBlaming
    <3>2. CASE Pop BY <2>1, <2>3, <3>2, PopBlaming
    <3>3. CASE NextPath
      <4>1. /\ path # <<>> /\ todo = {} /\ path' = <<>>
            /\ UNCHANGED <<graph, starts, stack, todo, seen, victims>>
        BY <3>3 DEF NextPath
      <4>2. From(d) => From(d)'
        BY <4>1 DEF From
      <4>3. OnStack(t)' <=> OnStack(t)
        BY <4>1 DEF OnStack
      <4>4. BeforeT(d, t, u) => BeforeT(d, t, u)'
        BY <4>1, <4>2, <4>3 DEF BeforeT
      <4>5. BehindT(d, t, u) => BehindT(d, t, u)'
        BY <4>1 DEF BehindT
      <4>6. QED BY <2>3, <4>1, <4>4, <4>5 DEF Pending
    <3>4. CASE \E nxt \in todo : CloseCycle(nxt) \/ FollowEdge(nxt)
      BY <2>1, <2>3, <3>4, CloseCycleBlaming, FollowEdgeBlaming
    <3>5. CASE UNCHANGED vars
      <4>1. /\ UNCHANGED <<graph, starts, stack, path, todo, seen>> /\ Node' = Node
            /\ OnStack(t)' <=> OnStack(t)
        BY <3>5 DEF vars, Node, OnStack
      <4>2. QED BY <2>3, <4>1 DEF Pending, BeforeT, BehindT, From
    <3>6. QED BY <3>1, <3>2, <3>3, <3>4, <3>5 DEF Next
  <2>4. QED BY <2>1, <2>2, <2>3 DEF Blaming
<1>5. QED BY <1>2, <1>4 DEF Blaming

(* What is pending, and that nobody waits for himself, at every step.      *)
LEMMA BlamingHolds == Spec => [](Inv /\ NoSelf /\ Blaming)
<1>1. Init => Inv /\ NoSelf /\ Blaming BY InitInv, InitBlaming
<1>2. (Inv /\ NoSelf /\ Blaming) /\ [Next]_vars => (Inv /\ NoSelf /\ Blaming)'
  BY NextInv, NextBlaming
<1>3. QED BY <1>1, <1>2, PTL DEF Spec

(* When the search is done nothing is pending.                             *)
LEMMA DoneBlames == ASSUME Inv, Blaming PROVE ShortCyclesAreBlamed
<1> SUFFICES ASSUME Done, NEW t \in Txn, OnShortCycle(t) PROVE t \in victims
  BY DEF ShortCyclesAreBlamed
<1>1. PICK d, u \in Txn : t \in graph[d] /\ u \in graph[t] /\ (d = u \/ d \in graph[u])
  BY DEF OnShortCycle
<1>2. Short(d, t, u)
  BY <1>1 DEF Short
<1>3. ~Pending(d, t, u)
  <2>1. starts = {} /\ path = <<>> /\ \A i : i \notin 1..Len(stack)
    BY DEF Done
  <2>2. QED BY <2>1 DEF Pending, BeforeT, BehindT, OnStack, Done
<1>4. QED BY <1>2, <1>3 DEF Blaming

(* Whoever is on a cycle of two or three transactions is blamed, however   *)
(* many others wait, and however the search comes to the cycle.            *)
THEOREM BlamesShortCycles == Spec => []ShortCyclesAreBlamed
<1>1. Inv /\ NoSelf /\ Blaming => ShortCyclesAreBlamed BY DoneBlames
<1>2. QED BY <1>1, BlamingHolds, PTL

-----------------------------------------------------------------------------
(* Reachability, by its first and by its last edge.                        *)
LEMMA ReachFacts ==
    ASSUME TypeOK, NEW t \in Txn
    PROVE  /\ \A u \in graph[t] : Reaches(t, u)
           /\ \A u, v \in Txn : Reaches(t, u) /\ Reaches(u, v) => Reaches(t, v)
           /\ \A v \in Txn : Reaches(t, v) =>
                 v \in graph[t] \/ \E w \in graph[t] : Reaches(w, v)
           /\ \A v \in Txn : Reaches(t, v) =>
                 v \in graph[t] \/ \E w \in Txn : v \in graph[w] /\ Reaches(t, w)
<1> USE DEF TypeOK
<1>1. \A u \in graph[t] : Reaches(t, u)
  BY DEF Reaches
<1>2. \A u, v \in Txn : Reaches(t, u) /\ Reaches(u, v) => Reaches(t, v)
  BY DEF Reaches
<1>3. ASSUME NEW v \in Txn, Reaches(t, v) PROVE v \in graph[t] \/ \E w \in graph[t] : Reaches(w, v)
  <2> DEFINE S == {x \in Txn : x \in graph[t] \/ \E w \in graph[t] : Reaches(w, x)}
  <2>1. \A x \in S : graph[x] \subseteq S
    <3> SUFFICES ASSUME NEW x \in S, NEW y \in graph[x] PROVE y \in S
      OBVIOUS
    <3>1. x \in Txn /\ y \in Txn
      OBVIOUS
    <3>2. Reaches(x, y)
      BY <3>1 DEF Reaches
    <3>3. CASE x \in graph[t] BY <3>1, <3>2, <3>3
    <3>4. ASSUME NEW w \in graph[t], Reaches(w, x) PROVE y \in S
      <4>1. Reaches(w, y)
        BY <3>1, <3>2, <3>4 DEF Reaches
      <4>2. QED BY <3>1, <4>1
    <3>5. QED BY <3>3, <3>4
  <2>2. S \subseteq Txn /\ graph[t] \subseteq S
    OBVIOUS
  <2> HIDE DEF S
  <2>3. v \in S
    BY <1>3, <2>1, <2>2 DEF Reaches
  <2>4. QED BY <2>3 DEF S
<1>4. ASSUME NEW v \in Txn, Reaches(t, v)
      PROVE  v \in graph[t] \/ \E w \in Txn : v \in graph[w] /\ Reaches(t, w)
  <2> DEFINE S == {x \in Txn : x \in graph[t] \/ \E w \in Txn : x \in graph[w] /\ Reaches(t, w)}
  <2>1. \A x \in S : graph[x] \subseteq S
    <3> SUFFICES ASSUME NEW x \in S, NEW y \in graph[x] PROVE y \in S
      OBVIOUS
    <3>1. x \in Txn /\ y \in Txn
      OBVIOUS
    <3>2. Reaches(t, x)
      BY <3>1 DEF Reaches
    <3>3. QED BY <3>1, <3>2
  <2>2. S \subseteq Txn /\ graph[t] \subseteq S
    OBVIOUS
  <2> HIDE DEF S
  <2>3. v \in S
    BY <1>4, <2>1, <2>2 DEF Reaches
  <2>4. QED BY <2>3 DEF S
<1>5. QED BY <1>1, <1>2, <1>3, <1>4

(* Of at most three there are no four, and they have a highest.            *)
LEMMA AtMostThree ==
    ASSUME NEW S, IsFiniteSet(S), Cardinality(S) <= 3, S \subseteq Nat, S # {}
    PROVE  /\ \A a, b, c, d \in S : a = b \/ a = c \/ a = d \/ b = c \/ b = d \/ c = d
           /\ \E t \in S : \A u \in S : u <= t
<1>1. ASSUME NEW a \in S, NEW b \in S, NEW c \in S, NEW d \in S,
             ~(a = b \/ a = c \/ a = d \/ b = c \/ b = d \/ c = d)
      PROVE  FALSE
  <2> DEFINE A == {a}
             B == A \cup {b}
             C == B \cup {c}
             D == C \cup {d}
  <2>1. b \notin A /\ c \notin B /\ d \notin C /\ D \subseteq S
    BY <1>1
  <2>2. IsFiniteSet(A) /\ Cardinality(A) = 1
    BY FS_Singleton
  <2> HIDE DEF A
  <2>3. IsFiniteSet(B) /\ Cardinality(B) = 2
    BY <2>1, <2>2, FS_AddElement
  <2> HIDE DEF B
  <2>4. IsFiniteSet(C) /\ Cardinality(C) = 3
    BY <2>1, <2>3, FS_AddElement
  <2> HIDE DEF C
  <2>5. Cardinality(D) = Cardinality(C) + 1
    BY ONLY <2>1, <2>4, FS_AddElement
  <2> HIDE DEF D
  <2>6. Cardinality(D) <= Cardinality(S) /\ Cardinality(S) \in Nat
    BY <2>1, FS_Subset, FS_CardinalityType
  <2>7. QED BY <2>4, <2>5, <2>6
<1>2. PICK a, b, c \in S : S \subseteq {a, b, c}
  <2>1. PICK a \in S : TRUE
    OBVIOUS
  <2>2. CASE S \subseteq {a}
    BY <2>2
  <2>3. CASE ~(S \subseteq {a})
    <3>1. PICK b \in S : b # a
      BY <2>3
    <3>2. CASE S \subseteq {a, b}
      BY <3>2
    <3>3. CASE ~(S \subseteq {a, b})
      <4>1. PICK c \in S : c # a /\ c # b
        BY <3>3
      <4>2. S \subseteq {a, b, c}
        BY <1>1, <3>1, <4>1
      <4>3. QED BY <4>2
    <3>4. QED BY <3>2, <3>3
  <2>4. QED BY <2>2, <2>3
<1>3. \E t \in {a, b, c} : a <= t /\ b <= t /\ c <= t
  <2>1. a \in Nat /\ b \in Nat /\ c \in Nat
    OBVIOUS
  <2>2. QED BY <2>1
<1>4. QED BY <1>1, <1>2, <1>3

(* With at most three on cycles, each is on a cycle of two or three.       *)
LEMMA CyclesAreShort ==
    ASSUME TypeOK, NoSelf, IsFiniteSet(OnCycle), Cardinality(OnCycle) <= 3, NEW t \in OnCycle
    PROVE  OnShortCycle(t)
<1> USE DEF TypeOK
<1>1. t \in Txn /\ Reaches(t, t) /\ OnCycle \subseteq Nat
  BY TxnAssumption DEF OnCycle
<1>2. PICK u \in graph[t] : Reaches(u, t)
  <2>1. t \in graph[t] \/ \E u \in graph[t] : Reaches(u, t)
    BY <1>1, ReachFacts
  <2>2. QED BY <1>1, <2>1 DEF NoSelf
<1>3. PICK w \in Txn : t \in graph[w] /\ Reaches(t, w)
  <2>1. t \in graph[t] \/ \E w \in Txn : t \in graph[w] /\ Reaches(t, w)
    BY <1>1, ReachFacts
  <2>2. QED BY <1>1, <2>1 DEF NoSelf
<1>4. u \in Txn /\ u # t /\ w # t /\ Reaches(t, u) /\ Reaches(w, t)
  BY <1>1, <1>2, <1>3, ReachFacts DEF NoSelf
<1>5. u \in OnCycle /\ w \in OnCycle
  <2>1. Reaches(u, u)
    BY <1>1, <1>2, <1>4, ReachFacts
  <2>2. Reaches(w, w)
    BY <1>1, <1>3, <1>4, ReachFacts
  <2>3. QED BY <1>4, <2>1, <2>2 DEF OnCycle
<1>6. CASE u = w
  BY <1>1, <1>2, <1>3, <1>4, <1>6 DEF OnShortCycle
<1>7. CASE t \in graph[u]
  BY <1>1, <1>2, <1>4, <1>7 DEF OnShortCycle
<1>8. CASE u # w /\ t \notin graph[u]
  <2>1. PICK x \in graph[u] : Reaches(x, t)
    <3>1. t \in graph[u] \/ \E x \in graph[u] : Reaches(x, t)
      BY <1>1, <1>2, <1>4, ReachFacts
    <3>2. QED BY <1>8, <3>1
  <2>2. x \in Txn /\ x # u /\ x # t /\ Reaches(u, x)
    BY <1>4, <1>8, <2>1, ReachFacts DEF NoSelf
  <2>3. x \in OnCycle
    <3>1. Reaches(x, u)
      BY <1>1, <1>4, <2>1, <2>2, ReachFacts
    <3>2. Reaches(x, x)
      BY <1>4, <2>2, <3>1, ReachFacts
    <3>3. QED BY <2>2, <3>2 DEF OnCycle
  <2>4. x = w
    <3>1. OnCycle # {}
      OBVIOUS
    <3>2. t = u \/ t = w \/ t = x \/ u = w \/ u = x \/ w = x
      BY ONLY <1>1, <1>5, <2>3, <3>1, IsFiniteSet(OnCycle), Cardinality(OnCycle) <= 3, t \in OnCycle,
              AtMostThree
    <3>3. QED BY <1>4, <1>8, <2>2, <3>2
  <2>5. QED BY <1>1, <1>2, <1>3, <1>4, <2>1, <2>4 DEF OnShortCycle
<1>9. QED BY <1>6, <1>7, <1>8

(* With at most three transactions on cycles, and any number of others that *)
(* wait for them or for anybody else, the victim is the youngest on a      *)
(* cycle, in whatever order the search meets them.                         *)
THEOREM SmallDeadlockEndsTheYoungest == Spec => []SmallDeadlockKillsYoungest
<1>1. Inv /\ NoSelf /\ Blaming => SmallDeadlockKillsYoungest
  <2> SUFFICES ASSUME Inv, NoSelf, Blaming, Done, OnCycle # {}, Cardinality(OnCycle) <= 3
               PROVE  Youngest(victims) = Youngest(OnCycle)
    BY DEF SmallDeadlockKillsYoungest
  <2>1. OnCycle \subseteq Nat /\ IsFiniteSet(OnCycle)
    <3>1. OnCycle \subseteq Txn
      BY DEF OnCycle
    <3>2. QED BY <3>1, TxnAssumption, FS_Subset
  <2>2. PICK y \in OnCycle : \A v \in OnCycle : v <= y
    BY <2>1, AtMostThree
  <2>3. y \in victims
    <3>1. OnShortCycle(y) /\ y \in Txn
      BY <2>1, CyclesAreShort DEF Inv, OnCycle
    <3>2. ShortCyclesAreBlamed
      BY DoneBlames
    <3>3. QED BY <3>1, <3>2 DEF ShortCyclesAreBlamed
  <2>4. \A v \in victims : v <= y
    BY <2>2 DEF Inv, OnlyCyclesAreBlamed
  <2>5. ASSUME NEW S \in SUBSET Nat, y \in S, \A v \in S : v <= y PROVE Youngest(S) = y
    <3> DEFINE z == CHOOSE v \in S : \A x \in S : x <= v
    <3>1. z \in S /\ \A x \in S : x <= z
      BY <2>5
    <3> HIDE DEF z
    <3>2. z <= y /\ y <= z /\ z \in Nat /\ y \in Nat
      BY <2>5, <3>1
    <3>3. z = y
      BY <3>2
    <3>4. QED BY <3>3 DEF Youngest, z
  <2>6. victims \subseteq Nat
    BY <2>1 DEF Inv, OnlyCyclesAreBlamed
  <2>7. Youngest(OnCycle) = y
    BY <2>1, <2>2, <2>5
  <2>8. Youngest(victims) = y
    BY <2>3, <2>4, <2>5, <2>6
  <2>9. QED BY <2>7, <2>8
<1>2. QED BY <1>1, BlamingHolds, PTL
=============================================================================
