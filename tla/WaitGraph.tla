----------------------------- MODULE WaitGraph -----------------------------
(***************************************************************************)
(* The deadlock search of the lock manager, LockManager._detect_deadlock   *)
(* (txn/locks.py): a depth-first search of the wait-for graph, from every  *)
(* waiting transaction, that collects the members of the cycles it meets   *)
(* and returns the highest txid among them.                                *)
(*                                                                         *)
(* The whole search runs under _meta on a graph it has just built, so the  *)
(* graph is a constant of a behaviour.  What is not fixed is the order in  *)
(* which Python iterates over a set of holders: an edge of a node is taken *)
(* here in any order, and so is the next start.                            *)
(***************************************************************************)
EXTENDS Naturals, Sequences, FiniteSets, Functions

CONSTANT Txn    \* transaction ids

ASSUME TxnAssumption == Txn \subseteq Nat /\ IsFiniteSet(Txn)

VARIABLES
    graph,      \* [Txn -> SUBSET Txn]: waiter |-> the holders it waits for
    starts,     \* the keys of the graph the outer loop has not visited
    stack,      \* paths still to be expanded; the node is a path's last element
    path,       \* the path being expanded, <<>> between two expansions
    todo,       \* neighbours of that node the inner loop has not looked at
    seen,       \* seen_from: [Txn -> SUBSET Txn], edges already followed
    victims     \* members of the cycles met so far

vars == <<graph, starts, stack, path, todo, seen, victims>>

Node == path[Len(path)]
Youngest(S) == CHOOSE t \in S : \A u \in S : u <= t

-----------------------------------------------------------------------------
(* Only waiters are keys of the graph; a waiter is never its own holder.    *)
Init ==
    /\ graph \in [Txn -> SUBSET Txn]
    /\ \A t \in Txn : t \notin graph[t]
    /\ starts = {t \in Txn : graph[t] # {}}
    /\ stack = <<>>
    /\ path = <<>>
    /\ todo = {}
    /\ seen = [t \in Txn |-> {}]
    /\ victims = {}

\* for start in list(graph): a fresh stack and a fresh seen_from
Start ==
    /\ stack = <<>> /\ path = <<>>
    /\ \E s \in starts :
          /\ starts' = starts \ {s}
          /\ stack' = << <<s>> >>
          /\ seen' = [t \in Txn |-> {}]
    /\ UNCHANGED <<graph, path, todo, victims>>

\* node, path = stack.pop()
Pop ==
    /\ path = <<>> /\ stack # <<>>
    /\ path' = stack[Len(stack)]
    /\ stack' = SubSeq(stack, 1, Len(stack) - 1)
    /\ todo' = graph[path'[Len(path')]]
    /\ UNCHANGED <<graph, starts, seen, victims>>

\* Mutant of CloseCycle: the whole path is blamed, not its part from nxt on.
BlameWholePath(nxt) ==
    /\ nxt \in Range(path)
    /\ victims' = victims \cup Range(path)
    /\ path' = <<>>
    /\ todo' = {}
    /\ UNCHANGED <<graph, starts, stack, seen>>

\* Mutant of CloseCycle: only the two ends of the closing edge are blamed.
BlameClosingEdge(nxt) ==
    /\ nxt \in Range(path)
    /\ victims' = victims \cup {nxt, Node}
    /\ path' = <<>>
    /\ todo' = {}
    /\ UNCHANGED <<graph, starts, stack, seen>>

\* nxt is on the path: its cycle is collected and the inner loop is left
CloseCycle(nxt) ==
    /\ nxt \in Range(path)
    /\ LET first == CHOOSE i \in 1..Len(path) : path[i] = nxt
       IN  victims' = victims \cup Range(SubSeq(path, first, Len(path)))
    /\ path' = <<>>
    /\ todo' = {}
    /\ UNCHANGED <<graph, starts, stack, seen>>

\* Mutant of FollowEdge: the pushed path forgets how nxt was reached.
FollowWithoutPath(nxt) ==
    /\ nxt \notin Range(path)
    /\ IF nxt \in seen[Node]
         THEN UNCHANGED <<seen, stack>>
         ELSE /\ seen' = [seen EXCEPT ![Node] = @ \cup {nxt}]
              /\ stack' = Append(stack, <<nxt>>)
    /\ todo' = todo \ {nxt}
    /\ UNCHANGED <<graph, starts, path, victims>>

\* nxt is off the path: pushed unless this edge was followed before
FollowEdge(nxt) ==
    /\ nxt \notin Range(path)
    /\ IF nxt \in seen[Node]
         THEN UNCHANGED <<seen, stack>>
         ELSE /\ seen' = [seen EXCEPT ![Node] = @ \cup {nxt}]
              /\ stack' = Append(stack, Append(path, nxt))
    /\ todo' = todo \ {nxt}
    /\ UNCHANGED <<graph, starts, path, victims>>

\* the inner loop has run out of neighbours
NextPath ==
    /\ path # <<>> /\ todo = {}
    /\ path' = <<>>
    /\ UNCHANGED <<graph, starts, stack, todo, seen, victims>>

Next == Start \/ Pop \/ NextPath \/ \E nxt \in todo : CloseCycle(nxt) \/ FollowEdge(nxt)

Spec == Init /\ [][Next]_vars

-----------------------------------------------------------------------------
(* Reference definitions, independent of the search.                       *)

Done == starts = {} /\ stack = <<>> /\ path = <<>>

\* u lies in every set that contains t's neighbours and is closed under edges
Reaches(t, u) ==
    \A S \in SUBSET Txn :
       (graph[t] \subseteq S /\ \A v \in S : graph[v] \subseteq S) => u \in S

OnCycle == {t \in Txn : Reaches(t, t)}

(* _detect_deadlock never blames a transaction that is in no wait-for      *)
(* cycle, whatever the set iteration order: a transaction that would be    *)
(* granted its lock in the end is not killed.                              *)
OnlyCyclesAreBlamed == victims \subseteq OnCycle

(* _detect_deadlock finds a victim whenever the graph has a cycle, although *)
(* its inner loop breaks off at the first path edge it meets and follows no *)
(* edge twice: no deadlock goes unnoticed.                                  *)
EveryDeadlockIsFound == Done /\ OnCycle # {} => victims # {}

\* t lies on a cycle of two transactions or of three
OnShortCycle(t) ==
    \E u, v \in Txn : t \in graph[u] /\ v \in graph[t] /\ (u = v \/ u \in graph[v])

(* _detect_deadlock collects everyone on a cycle of two or three, wherever  *)
(* that is in the graph: on so short a cycle the break of its inner loop    *)
(* and the edges it does not follow again cannot hide a member.             *)
ShortCyclesAreBlamed == Done => \A t \in Txn : OnShortCycle(t) => t \in victims

(* Up to three transactions on cycles, the victim of _detect_deadlock is    *)
(* the youngest of them, whoever else waits and in whatever order the       *)
(* search meets them.                                                       *)
SmallDeadlockKillsYoungest ==
    Done /\ OnCycle # {} /\ Cardinality(OnCycle) <= 3
       => Youngest(victims) = Youngest(OnCycle)
=============================================================================
