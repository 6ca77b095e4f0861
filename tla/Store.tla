------------------------------- MODULE Store -------------------------------
(***************************************************************************)
(* What a table promises its transactions (docs/ARCHITECTURE.md, 4.5 and   *)
(* 6): one committed row per key, and for each transaction a private draft *)
(* of the keys it has locked.  Writes go to the draft, on top of what the  *)
(* writer sees; Commit publishes the whole draft at once, Abort forgets    *)
(* it, and no two transactions draft the same key.                         *)
(*                                                                         *)
(* There are no versions, snapshots or garbage collection here: module     *)
(* Mvcc has them, and implements this one.                                 *)
(*                                                                         *)
(* A row is the set of transactions whose writes it includes, so that a    *)
(* write that is lost is missed.                                           *)
(***************************************************************************)
EXTENDS Naturals

CONSTANTS
    Txn, Key, None,
    Loaded      \* keys of the rows a checkpoint brought in

VARIABLES
    store,  \* the committed row of each key
    draft   \* draft[t][k]: the row t will commit for k, None while t has not locked k

RowSet == SUBSET (Txn \cup {0})
Absent == {}

Init ==
    /\ store = [k \in Key |-> IF k \in Loaded THEN {0} ELSE Absent]
    /\ draft = [t \in Txn |-> [k \in Key |-> None]]

Current(t, k) == IF draft[t][k] = None THEN store[k] ELSE draft[t][k]

\* t rewrites its draft, in keys that nobody else drafts
Drafting(t) ==
    /\ \A u \in Txn \ {t} : draft'[u] = draft[u]
    /\ \A k \in Key : draft'[t][k] # draft[t][k] => \A u \in Txn \ {t} : draft[u][k] = None
    /\ UNCHANGED store

\* t leaves k alone, or no more than locks it
Keeps(t, k) == draft'[t][k] \in {draft[t][k], Current(t, k)}

\* INSERT of one row, under a key that is absent
Insert(t, k) ==
    /\ Current(t, k) = Absent /\ draft'[t][k] = {t}
    /\ \A j \in Key \ {k} : Keeps(t, j)

\* UPDATE: rows that are there are rewritten, on top of what they were
Update(t) == \A k \in Key :
    Keeps(t, k) \/ (Current(t, k) # Absent /\ draft'[t][k] = Current(t, k) \cup {t})

Delete(t) == \A k \in Key : Keeps(t, k) \/ draft'[t][k] = Absent

\* UPDATE of a primary key: the row goes from k to a key that is absent
Move(t, k, to) ==
    /\ Current(t, to) = Absent /\ draft'[t][to] = Current(t, k) \cup {t}
    /\ draft'[t][k] = Absent
    /\ \A j \in Key \ {k, to} : Keeps(t, j)

Write(t) ==
    /\ Drafting(t)
    /\ \/ Update(t) \/ Delete(t)
       \/ \E k \in Key : Insert(t, k)
       \/ \E k, to \in Key : k # to /\ Move(t, k, to)

Commit(t) ==
    /\ store' = [k \in Key |-> Current(t, k)]
    /\ draft' = [draft EXCEPT ![t] = [k \in Key |-> None]]

Abort(t) ==
    /\ draft' = [draft EXCEPT ![t] = [k \in Key |-> None]]
    /\ UNCHANGED store

Next == \E t \in Txn : Write(t) \/ Commit(t) \/ Abort(t)

Spec == Init /\ [][Next]_<<store, draft>>
=============================================================================
