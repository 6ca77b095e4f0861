-------------------------------- MODULE Mvcc --------------------------------
(***************************************************************************)
(* One table under multi-version concurrency control: version chains       *)
(* (storage/table.py), snapshots and the end of transactions               *)
(* (txn/manager.py), the write statements and the locks they take          *)
(* (engine/executor.py), and garbage collection.                           *)
(*                                                                         *)
(* A statement is a few steps: it plans under one snapshot, waits for its  *)
(* row locks, and applies under another.  Waiting is a step that is not    *)
(* enabled; module LockManager has the lock manager itself, and here a     *)
(* grant and its record are one step, as CompatibleUntilOverlap (there)    *)
(* says they are while no two grants overlap.  Escalation is left out:     *)
(* one statement locks fewer rows than its threshold.  Table.latch makes   *)
(* each operation on the chains one step; a GC pass is two.                *)
(*                                                                         *)
(* There are other tables, and statements without a table.  All that they  *)
(* leave behind for this table is the snapshot of a SERIALIZABLE           *)
(* transaction, which is pinned once for all tables (PinElsewhere).        *)
(*                                                                         *)
(* As in module Store, a row is the set of transactions that wrote it.  A  *)
(* WHERE clause may choose any rows, so the chosen keys are any subset.    *)
(***************************************************************************)
EXTENDS Naturals, FiniteSets, Sequences, SequencesExt

CONSTANTS
    Txn,        \* transaction ids, in the order in which they are given out
    Key,        \* primary keys
    None,
    Loaded,     \* keys of the rows a checkpoint brought in
    Serial,     \* the transactions that are SERIALIZABLE; the others: READ COMMITTED
    Sessions,   \* how many transactions can be open at once
    Avoided     \* situations that are kept out (see the guards that name them)

ASSUME TxnAssumption == IsFiniteSet(Txn) /\ Txn = 1..Cardinality(Txn)
ASSUME KeyAssumption == Key \subseteq Nat /\ IsFiniteSet(Key)
ASSUME LoadedAssumption == Loaded \subseteq Key
ASSUME SerialAssumption == Serial \subseteq Txn
ASSUME SessionsAssumption == Sessions \in Nat
ASSUME AvoidedAssumption ==
    Avoided \subseteq {"write-before-read", "delete-after-rollback", "move-onto-a-new-key",
                       "write-during-gc", "stale-snapshot", "gc-under-a-snapshot"}

VARIABLES
    chains,     \* tree: the version chain of each key, oldest first; <<>>: no such key
    status,     \* _state ("unborn": not begun)
    nextId,     \* _next_id
    pinned,     \* Transaction.snapshot, one for all tables
    readers,    \* transactions with S on the table
    writers,    \* transactions with IX on the table (both: X)
    rowOwner,   \* the transaction with X on the row, or None
    stmt,       \* the UPDATE or DELETE a transaction is in the middle of
    gc          \* chains the GC pass in progress will put back, or None

vars == <<chains, status, nextId, pinned, readers, writers, rowOwner, stmt, gc>>

locks == <<readers, writers, rowOwner>>

RowSet == SUBSET (Txn \cup {0})
Absent == {}
Version == [xmin : Txn \cup {0}, xmax : Txn \cup {0}, row : RowSet]
Active == {t \in Txn : status[t] = "active"}
Snapshot == [taken_at : Nat, active : SUBSET Txn]

ASSUME NoneAssumption ==
    None \notin Nat /\ None \notin Snapshot /\ \A r \in RowSet : r # None

-----------------------------------------------------------------------------
(* Visibility.                                                             *)

\* Mutant of take_snapshot: it does not say who is in progress.
counter_alone == [taken_at |-> nextId, active |-> {}]

take_snapshot == [taken_at |-> nextId, active |-> Active]

\* Mutant of Seen: a transaction that has ended counts, however it ended.
SeenOnceEnded(x, t, s) ==
    \/ x = 0 \/ x = t
    \/ x < s.taken_at /\ x \notin s.active

\* whether the writer x counts as committed in snapshot s of transaction t
Seen(x, t, s) ==
    \/ x = 0 \/ x = t
    \/ x < s.taken_at /\ x \notin s.active /\ status[x] = "committed"

version_visible(v, t, s) == Seen(v.xmin, t, s) /\ ~(v.xmax # 0 /\ Seen(v.xmax, t, s))

VisibleIn(k, t, s) == {i \in DOMAIN chains[k] : version_visible(chains[k][i], t, s)}

\* _pick_visible: the row of the newest visible version
View(k, t, s) ==
    LET visible == VisibleIn(k, t, s)
    IN  IF visible = {} THEN Absent
        ELSE chains[k][CHOOSE i \in visible : \A j \in visible : j <= i].row

\* snapshot_for: the snapshot t's statement starts with, and what it leaves pinned
snapshot_for(t) == IF t \notin Serial \/ pinned[t] = None THEN take_snapshot ELSE pinned[t]
Pinned(t) == [pinned EXCEPT ![t] = IF t \in Serial THEN snapshot_for(t) ELSE None]

\* _post_lock_snapshot
PostLock(t) == IF t \in Serial THEN pinned[t] ELSE take_snapshot

-----------------------------------------------------------------------------
(* Writes to a chain.                                                      *)

\* positions of t's own live version
Own(chain, t) == {i \in DOMAIN chain : chain[i].xmin = t /\ chain[i].xmax = 0}

Inserted(chain, t, row) == Append(chain, [xmin |-> t, xmax |-> 0, row |-> row])

\* Mutant of Updated: the version it replaces stays alive.
UpdatedBeside(chain, t, row) ==
    IF Own(chain, t) # {}
    THEN [i \in DOMAIN chain |-> IF i \in Own(chain, t) THEN [chain[i] EXCEPT !.row = row] ELSE chain[i]]
    ELSE Inserted(chain, t, row)

\* Table.update
Updated(chain, t, row) ==
    IF Own(chain, t) # {}
    THEN [i \in DOMAIN chain |-> IF i \in Own(chain, t) THEN [chain[i] EXCEPT !.row = row] ELSE chain[i]]
    ELSE Inserted([chain EXCEPT ![Len(chain)].xmax = t], t, row)

\* Table.delete
Deleted(chain, t) ==
    IF Own(chain, t) # {} THEN RemoveAt(chain, CHOOSE i \in Own(chain, t) : TRUE)
    ELSE IF Last(chain).xmax # 0 THEN chain
    ELSE [chain EXCEPT ![Len(chain)].xmax = t]

\* a transaction that rolled back has left its id on a version of k as its deleter
Stamped(k) == \E i \in DOMAIN chains[k] :
    chains[k][i].xmax # 0 /\ status[chains[k][i].xmax] = "aborted"

-----------------------------------------------------------------------------
Init ==
    /\ chains = [k \in Key |->
          IF k \in Loaded THEN <<[xmin |-> 0, xmax |-> 0, row |-> {0}]>> ELSE <<>>]
    /\ status = [t \in Txn |-> "unborn"]
    /\ nextId = 1
    /\ pinned = [t \in Txn |-> None]
    /\ readers = {} /\ writers = {}
    /\ rowOwner = [k \in Key |-> None]
    /\ stmt = [t \in Txn |-> None]
    /\ gc = None

\* Mutant of Begin: an id is used up twice, by the counter and by the next id.
BeginTwice(t) ==
    /\ t = nextId /\ Cardinality(Active) < Sessions
    /\ nextId' = t + 2
    /\ status' = [status EXCEPT ![t] = "active"]
    /\ UNCHANGED <<chains, pinned, locks, stmt, gc>>

Begin(t) ==
    /\ t = nextId /\ Cardinality(Active) < Sessions
    /\ nextId' = t + 1
    /\ status' = [status EXCEPT ![t] = "active"]
    /\ UNCHANGED <<chains, pinned, locks, stmt, gc>>

\* t is in a transaction and between two statements
Idle(t) == status[t] = "active" /\ stmt[t] = None

\* Mutant of CanRead: the S lock is granted beside writers.
CanReadBeside(t) == readers \subseteq {t} \/ writers = {}

\* the table lock t needs is granted: S for a SERIALIZABLE read, IX for a write, and
\* with the other one already held the two make X
CanRead(t) == writers \subseteq {t} /\ (t \in writers => readers \subseteq {t})
CanWrite(t) ==
    /\ readers \subseteq {t} /\ (t \in readers => writers \subseteq {t})
    /\ "write-before-read" \in Avoided => (t \in Serial => t \in readers)

CanLock(t, K) == \A k \in K : rowOwner[k] \in {None, t}
Locked(t, K) == [k \in Key |-> IF k \in K THEN t ELSE rowOwner[k]]

\* chains may be written
NoGcAround == "write-during-gc" \in Avoided => gc = None

\* SELECT without a table, and any statement on other tables: no lock is taken here,
\* but the first of them pins the snapshot
PinElsewhere(t) ==
    /\ Idle(t) /\ t \in Serial
    /\ pinned' = Pinned(t)
    /\ UNCHANGED <<chains, status, nextId, locks, stmt, gc>>

\* t has pinned its snapshot before a write to this table was committed
Stale(t) ==
    /\ pinned[t] # None
    /\ \E k \in Key : \E i \in DOMAIN chains[k] : \E x \in {chains[k][i].xmin, chains[k][i].xmax} :
          Seen(x, t, take_snapshot) /\ ~Seen(x, t, pinned[t])

\* SELECT of a SERIALIZABLE transaction; under READ COMMITTED it changes nothing
Select(t) ==
    /\ Idle(t) /\ t \in Serial /\ CanRead(t)
    /\ "stale-snapshot" \in Avoided => ~Stale(t)
    /\ readers' = readers \cup {t}
    /\ pinned' = Pinned(t)
    /\ UNCHANGED <<chains, status, nextId, writers, rowOwner, stmt, gc>>

\* one row of an INSERT; a key that is visible is refused, and the locks are kept
Insert(t, k) ==
    /\ Idle(t) /\ CanWrite(t) /\ CanLock(t, {k}) /\ NoGcAround
    /\ writers' = writers \cup {t}
    /\ rowOwner' = Locked(t, {k})
    /\ pinned' = Pinned(t)
    /\ chains' = IF View(k, t, snapshot_for(t)) = Absent
                 THEN [chains EXCEPT ![k] = Inserted(@, t, {t})] ELSE chains
    /\ UNCHANGED <<status, nextId, readers, stmt, gc>>

\* UPDATE, DELETE and UPDATE of the primary key, up to the wait for the row locks:
\* the candidates are the rows chosen under the statement's first snapshot
Plan(t, op, K) ==
    /\ Idle(t) /\ CanWrite(t)
    /\ \A k \in K : View(k, t, snapshot_for(t)) # Absent
    /\ writers' = writers \cup {t}
    /\ pinned' = Pinned(t)
    /\ stmt' = IF K = {} THEN stmt
                ELSE [stmt EXCEPT ![t] = [op |-> op, keys |-> K, snap |-> None]]
    /\ UNCHANGED <<chains, status, nextId, readers, rowOwner, gc>>

\* UPDATE or DELETE with its row locks: those of the candidates that are still
\* visible and still chosen are written
Apply(t) ==
    LET keys == stmt[t].keys
        snap == PostLock(t)
        there == {k \in keys : View(k, t, snap) # Absent}
    IN  /\ stmt[t] # None /\ stmt[t].op \in {"update", "delete"}
        /\ CanLock(t, keys) /\ NoGcAround
        /\ \E chosen \in SUBSET there :
              /\ stmt[t].op = "delete" /\ "delete-after-rollback" \in Avoided =>
                    \A k \in chosen : ~Stamped(k)
              /\ chains' = [k \in Key |->
                    IF k \notin chosen THEN chains[k]
                    ELSE IF stmt[t].op = "update"
                         THEN Updated(chains[k], t, View(k, t, snap) \cup {t})
                         ELSE Deleted(chains[k], t)]
        /\ rowOwner' = Locked(t, keys)
        /\ stmt' = [stmt EXCEPT ![t] = None]
        /\ UNCHANGED <<status, nextId, pinned, readers, writers, gc>>

\* UPDATE of a primary key with the lock of its row: it goes on to the new key
\* under the snapshot it takes here
LockMoved(t, k) ==
    /\ stmt[t] # None /\ stmt[t].op = "move" /\ stmt[t].keys = {k}
    /\ CanLock(t, {k})
    /\ rowOwner' = Locked(t, {k})
    /\ \/ stmt' = [stmt EXCEPT ![t] = None]
       \/ /\ View(k, t, PostLock(t)) # Absent
          /\ stmt' = [stmt EXCEPT ![t] = [op |-> "moving", keys |-> {k}, snap |-> PostLock(t)]]
    /\ UNCHANGED <<chains, status, nextId, pinned, readers, writers, gc>>

\* _move_primary_key with the lock of the new key
MoveOnto(t, k, to) ==
    LET snap == stmt[t].snap
    IN  /\ stmt[t] # None /\ stmt[t].op = "moving" /\ stmt[t].keys = {k}
        /\ CanLock(t, {to}) /\ NoGcAround
        /\ "delete-after-rollback" \in Avoided => ~Stamped(k)
        /\ "move-onto-a-new-key" \in Avoided =>
              (View(to, t, snap) = Absent => View(to, t, take_snapshot) = Absent)
        /\ chains' = IF View(to, t, snap) # Absent THEN chains
                     ELSE [chains EXCEPT ![k] = Deleted(@, t),
                                         ![to] = Inserted(@, t, View(k, t, snap) \cup {t})]
        /\ rowOwner' = Locked(t, {to})
        /\ stmt' = [stmt EXCEPT ![t] = None]
        /\ UNCHANGED <<status, nextId, pinned, readers, writers, gc>>

\* the wait for a row lock ends in a DeadlockError; the locks it got are kept
LockFails(t) ==
    /\ stmt[t] # None
    /\ \E got \in SUBSET stmt[t].keys :
          /\ CanLock(t, got)
          /\ rowOwner' = Locked(t, got)
    /\ stmt' = [stmt EXCEPT ![t] = None]
    /\ UNCHANGED <<chains, status, nextId, pinned, readers, writers, gc>>

\* commit or abort, from the new state to the end of release_all
End(t, outcome) ==
    /\ Idle(t)
    /\ status' = [status EXCEPT ![t] = outcome]
    /\ readers' = readers \ {t} /\ writers' = writers \ {t}
    /\ rowOwner' = [k \in Key |-> IF rowOwner[k] = t THEN None ELSE rowOwner[k]]
    /\ pinned' = [pinned EXCEPT ![t] = None]
    /\ UNCHANGED <<chains, nextId, stmt, gc>>

-----------------------------------------------------------------------------
(* Garbage collection.                                                     *)

\* the low-water mark of gc_tick
Oldest == CHOOSE n \in Active \cup {nextId} : \A t \in Active : n <= t

Reclaimable(v) ==
    \/ v.xmin \in Txn /\ v.xmin < Oldest /\ status[v.xmin] = "aborted"
    \/ v.xmax \in Txn /\ v.xmax < Oldest /\ status[v.xmax] = "committed"

\* the copy of a chain without what can go
Unreclaimed(chain) ==
    LET Kept[n \in 0..Len(chain)] ==
          IF n = 0 THEN <<>>
          ELSE IF Reclaimable(chain[n]) THEN Kept[n - 1] ELSE Append(Kept[n - 1], chain[n])
    IN  Kept[Len(chain)]

\* first half of Table.gc: copies of the chains without what can go.  (A pass that
\* nobody writes during and that finds nothing puts back what was there.)
GcScan ==
    /\ gc = None
    /\ "write-during-gc" \in Avoided =>
          \E k \in Key : \E i \in DOMAIN chains[k] : Reclaimable(chains[k][i])
    /\ "gc-under-a-snapshot" \in Avoided =>
          \A t \in Txn, k \in Key : pinned[t] # None =>
             \A i \in VisibleIn(k, t, pinned[t]) : ~Reclaimable(chains[k][i])
    /\ gc' = [k \in Key |-> Unreclaimed(chains[k])]
    /\ UNCHANGED <<chains, status, nextId, pinned, locks, stmt>>

\* a copy shares its version objects with the chain
Shared(copy, chain) ==
    [i \in DOMAIN copy |->
        LET same == {j \in DOMAIN chain : chain[j].xmin = copy[i].xmin}
        IN  IF same = {} THEN copy[i] ELSE chain[CHOOSE j \in same : TRUE]]

\* replace_chains: keys without a copy are deleted while they are iterated over, and
\* the key after a deleted one in the leaf is passed over
GcReplace ==
    LET dead == {k \in Key : gc[k] = <<>> /\ chains[k] # <<>>}
        present == {k \in Key : gc[k] # <<>> \/ chains[k] # <<>>}
        Before(k) == {p \in present : p < k /\ \A q \in present : q <= p \/ k <= q}
    IN  /\ gc # None
        /\ \E gone \in SUBSET dead :
              /\ \A k \in dead : k \in gone <=> Before(k) \cap gone = {}
              /\ chains' = [k \in Key |->
                    IF k \in gone THEN <<>>
                    ELSE IF k \in dead THEN chains[k]
                    ELSE Shared(gc[k], chains[k])]
        /\ gc' = None
        /\ UNCHANGED <<status, nextId, pinned, locks, stmt>>

-----------------------------------------------------------------------------
Statement(t) ==
    \/ PinElsewhere(t)
    \/ Select(t)
    \/ \E k \in Key : Insert(t, k)
    \/ \E K \in SUBSET Key, op \in {"update", "delete"} : Plan(t, op, K)
    \/ \E k \in Key : Plan(t, "move", {k})
    \/ Apply(t)
    \/ \E k \in Key : LockMoved(t, k)
    \/ \E k, to \in Key : k # to /\ MoveOnto(t, k, to)
    \/ LockFails(t)

Next ==
    \/ \E t \in Txn : \/ Begin(t)
                      \/ Statement(t)
                      \/ \E outcome \in {"committed", "aborted"} : End(t, outcome)
    \/ GcScan \/ GcReplace

Spec == Init /\ [][Next]_vars
-----------------------------------------------------------------------------
(* Properties.                                                             *)

TypeOK ==
    /\ DOMAIN chains = Key /\ \A k \in Key : chains[k] \in Seq(Version)
    /\ status \in [Txn -> {"unborn", "active", "committed", "aborted"}]
    /\ nextId \in 1..(Cardinality(Txn) + 1)
    /\ pinned \in [Txn -> Snapshot \cup {None}]
    /\ readers \subseteq Txn /\ writers \subseteq Txn
    /\ rowOwner \in [Key -> Txn \cup {None}]
    /\ \A t \in Txn : stmt[t] = None \/
          /\ stmt[t].op \in {"update", "delete", "move", "moving"}
          /\ stmt[t].keys \subseteq Key /\ stmt[t].snap \in Snapshot \cup {None}
    /\ gc = None \/ (DOMAIN gc = Key /\ \A k \in Key : gc[k] \in Seq(Version))

\* what the next transaction would read, and what t itself reads
Committed == [k \in Key |-> View(k, nextId, take_snapshot)]
Drafts == [t \in Txn |-> [k \in Key |->
              IF rowOwner[k] = t THEN View(k, t, take_snapshot) ELSE None]]

Promised == INSTANCE Store WITH store <- Committed, draft <- Drafts

(* The version chains implement the store of module Store: what a new      *)
(* transaction reads changes only by commits, by a whole transaction at a  *)
(* time; a transaction reads its own writes; no write is lost or made on a *)
(* stale row; a rollback, a failed statement and garbage collection change *)
(* nothing anybody reads (ARCHITECTURE.md, 4.5 and 5.3).                   *)
ImplementsStore == Promised!Spec

(* A primary key has one row: of a chain at most one version is visible to *)
(* a new transaction, so it does not matter that readers look for the      *)
(* newest.  A transaction that rolled back over a version leaves its id    *)
(* there, and until that version is overwritten the chain is excepted.     *)
OneVersionIsVisible ==
    \A k \in Key : ~Stamped(k) => Cardinality(VisibleIn(k, nextId, take_snapshot)) <= 1

(* S2PL (ARCHITECTURE.md, 4.1): a SERIALIZABLE transaction that has read   *)
(* the table sees in its pinned snapshot, until it ends, just what a fresh *)
(* snapshot would show, so its reads and writes happen at one point.  It   *)
(* may have pinned the snapshot long before it read this table, if nobody  *)
(* has committed a write to the table in between ("stale-snapshot").       *)
SerialReadsAreCurrent ==
    \A t \in readers, k \in Key : View(k, t, pinned[t]) = View(k, t, take_snapshot)

(* Repeatable reads (ARCHITECTURE.md, 4.1): under its pinned snapshot a    *)
(* SERIALIZABLE transaction keeps seeing the same row in every key that it *)
(* has not locked to write.  Until it reads this table nothing but the     *)
(* versions keeps that so: it has no lock here, others write, commit and   *)
(* roll back, and garbage is collected.                                    *)
PinnedReadsRepeat ==
    [][\A t \in Txn, k \in Key :
          pinned[t] # None /\ pinned'[t] = pinned[t] /\ rowOwner'[k] # t
             => View(k, t, pinned[t])' = View(k, t, pinned[t])]_vars
=============================================================================
