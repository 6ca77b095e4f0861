---------------------------- MODULE LockManager ----------------------------
(***************************************************************************)
(* LockManager (txn/locks.py): table locks with intention modes, row       *)
(* locks, escalation of a transaction's row locks to a table lock, waiting *)
(* with deadlock detection and a timeout, and release at the end of the    *)
(* transaction.                                                            *)
(*                                                                         *)
(* Each transaction is driven by one thread.  A block "with self._meta:"   *)
(* is one step, enabled while no other thread owns _meta, and so is a      *)
(* block "with res.cv:" taken without _meta: those are Check, Recheck and  *)
(* Leave.  _meta is re-entrant; the only path on which it stays owned over *)
(* several steps is acquire_row on an escalated table, which calls         *)
(* acquire_table inside the block.                                         *)
(*                                                                         *)
(* TransactionManager.shutdown releases the locks of a transaction from    *)
(* another thread, wherever the transaction's own thread is, and that one  *)
(* goes on: it may record locks of a transaction that is over.             *)
(*                                                                         *)
(* The events a release sets are left out: a waiter polls every 0.25 s, so *)
(* whether it was woken shows only in how soon it looks again.             *)
(***************************************************************************)
EXTENDS Naturals, FiniteSets

CONSTANTS
    Txn,            \* transaction ids
    Table,          \* table names
    Row,            \* row keys
    TableModes,     \* modes callers pass to acquire_table
    RowModes,       \* modes callers pass to acquire_row
    Threshold,      \* escalation_threshold
    Stragglers,     \* transactions that shutdown may find open
    Whole,          \* the slot of the table lock itself, beside its rows
    None

ASSUME TxnAssumption == Txn \subseteq Nat /\ IsFiniteSet(Txn) /\ None \notin Txn
ASSUME SlotAssumption == Whole \notin Row
ASSUME ModeAssumption ==
    TableModes \subseteq {"IS", "IX", "S", "X"} /\ RowModes \subseteq {"S", "X"}
ASSUME ThresholdAssumption == Threshold \in Nat
ASSUME StragglersAssumption == Stragglers \subseteq Txn

VARIABLES
    holders,    \* res.holders, by table, slot and transaction ("none": absent)
    waiting,    \* the transaction's entry in a resource's waiters, or None
    txTables,   \* _tx_tables
    txRows,     \* _tx_rows
    escalated,  \* _escalated
    meta,       \* the thread that owns _meta across steps, or None
    pc,         \* where the transaction's thread is
    goal,       \* the acquire_table / acquire_row call it is in
    want,       \* the lock its current _acquire is for
    orphan,     \* its _acquire looks at a resource that was dropped meanwhile
    aborted,    \* transactions that shutdown has aborted under their threads
    overlapped  \* history: two grants on a table have overlapped (no code state)

vars == <<holders, waiting, txTables, txRows, escalated, meta, pc, goal, want,
          orphan, aborted, overlapped>>

Mode == {"IS", "IX", "S", "X"}
Held == Mode \cup {"none"}
Slot == Row \cup {Whole}
Request == [tab : Table, slot : Slot, mode : Mode]

\* pc values between the append to waiters and its removal in "finally"
InWaitLoop == {"detect", "recheck", "granted", "failed"}
PC == InWaitLoop \cup {"idle", "check", "record", "ended"}

-----------------------------------------------------------------------------
(* Lock modes.                                                             *)

\* _TABLE_COMPAT, as the set of compatible pairs <<held, requested>>
TableCompat ==
    {<<"IS", "IS">>, <<"IS", "IX">>, <<"IS", "S">>, <<"IX", "IS">>,
     <<"IX", "IX">>, <<"S", "IS">>, <<"S", "S">>}

Compatible(slot, held, mode) ==
    IF slot = Whole THEN <<held, mode>> \in TableCompat
                    ELSE held # "X" /\ mode # "X"

\* _mode_covers
Covers(held, mode) ==
    \/ held = "X" \/ held = mode
    \/ <<held, mode>> \in {<<"S", "IS">>, <<"IX", "IS">>}

Rank(mode) == CASE mode = "IS" -> 0 [] mode = "IX" -> 1 [] mode = "S" -> 2 [] mode = "X" -> 3

\* Mutant of Joined: the mode asked for last replaces the one held.
JoinedLast(held, mode) == mode

\* new_mode in _record_table
Joined(held, mode) ==
    CASE held = "none" -> mode
      [] held = "X" -> "X"
      [] {held, mode} = {"S", "IX"} -> "X"
      [] OTHER -> IF Rank(held) >= Rank(mode) THEN held ELSE mode

Intent(mode) == IF mode = "X" THEN "IX" ELSE "IS"

-----------------------------------------------------------------------------
(* Grants and the wait-for graph.                                          *)

\* Mutant of GrantableAs: holders of the requested mode never conflict with it.
GrantableBesideSame(tab, slot, mode, t) ==
    \A u \in Txn \ {t} :
       LET held == holders[tab][slot][u]
       IN  held \in {"none", mode} \/ Compatible(slot, held, mode)

\* _grantable, for a resource and a mode
GrantableAs(tab, slot, mode, t) ==
    \A u \in Txn \ {t} :
       LET held == holders[tab][slot][u]
       IN  held = "none" \/ Compatible(slot, held, mode)

Grantable(t) == GrantableAs(want[t].tab, want[t].slot, want[t].mode, t)

Waiters(tab, slot) ==
    {t \in Txn : waiting[t] # None /\ waiting[t].tab = tab /\ waiting[t].slot = slot}

\* _build_graph: a waiter points to every other holder of its resource
BlockedBy(t) ==
    IF waiting[t] = None THEN {}
    ELSE {u \in Txn \ {t} : holders[waiting[t].tab][waiting[t].slot][u] # "none"}

OnCycle ==
    {t \in Txn : \A S \in SUBSET Txn :
        (BlockedBy(t) \subseteq S /\ \A u \in S : BlockedBy(u) \subseteq S) => t \in S}

\* Mutant of Victims: the oldest transaction is sacrificed by whoever looks last.
OldestVictims ==
    IF OnCycle = {} THEN {None}
    ELSE {v \in Txn : \A u \in Txn : v <= u}

\* What _detect_deadlock may return.  The search itself is module WaitGraph: it
\* returns None exactly when no transaction is on a cycle, else a transaction on a
\* cycle, the highest one when at most three are.
Victims ==
    IF OnCycle = {} THEN {None}
    ELSE IF Cardinality(OnCycle) <= 3 THEN {v \in OnCycle : \A u \in OnCycle : u <= v}
    ELSE OnCycle

\* Resources that vanish when t lets go of the slots in S: nobody else holds them
\* or queues for them, so they are dropped from _resources.
Dropped(tab, S, t) ==
    {s \in S : Waiters(tab, s) = {} /\ \A u \in Txn \ {t} : holders[tab][s][u] = "none"}

\* A thread between "res = self._resources[key]" and "with res.cv:" keeps the
\* dropped object, which never has a holder again.
Orphaned(dropped) ==
    [u \in Txn |-> orphan[u] \/ (pc[u] = "check" /\ want[u].slot \in dropped[want[u].tab])]

MetaFree(t) == meta \in {None, t}

-----------------------------------------------------------------------------
Init ==
    /\ holders = [tab \in Table |-> [s \in Slot |-> [t \in Txn |-> "none"]]]
    /\ waiting = [t \in Txn |-> None]
    /\ txTables = [t \in Txn |-> [tab \in Table |-> "none"]]
    /\ txRows = [t \in Txn |-> [tab \in Table |-> {}]]
    /\ escalated = [t \in Txn |-> {}]
    /\ meta = None
    /\ pc = [t \in Txn |-> "idle"]
    /\ goal = [t \in Txn |-> None]
    /\ want = [t \in Txn |-> None]
    /\ orphan = [t \in Txn |-> FALSE]
    /\ aborted = {}
    /\ overlapped = FALSE

\* _acquire fetches the resource; Check then looks at it under its cv
Enter(t, call, first) ==
    /\ goal' = [goal EXCEPT ![t] = call]
    /\ want' = [want EXCEPT ![t] = first]
    /\ pc' = [pc EXCEPT ![t] = "check"]
    /\ orphan' = [orphan EXCEPT ![t] = FALSE]

\* Mutant of Unowned: _meta stays owned.
StillOwned(t) == meta

\* _meta when t leaves the block it may own it in
Unowned(t) == IF meta = t THEN None ELSE meta

\* a call comes back, with or without an error; so does the block that owns _meta
Return(t) ==
    /\ goal' = [goal EXCEPT ![t] = None]
    /\ want' = [want EXCEPT ![t] = None]
    /\ pc' = [pc EXCEPT ![t] = "idle"]
    /\ orphan' = [orphan EXCEPT ![t] = FALSE]
    /\ meta' = Unowned(t)

\* acquire_table up to its _acquire; a lock that covers the mode returns at once
CallTable(t, tab, mode) ==
    /\ pc[t] = "idle" /\ MetaFree(t)
    /\ ~Covers(txTables[t][tab], mode)
    /\ LET call == [tab |-> tab, slot |-> Whole, mode |-> mode]
       IN  Enter(t, call, call)
    /\ UNCHANGED <<holders, waiting, txTables, txRows, escalated, meta, aborted>>

\* Mutant of FirstLock: the row is locked without an intention lock.
RowAlone(t, call) == call

\* the first lock of an acquire_row: the table's intention lock unless it is held
FirstLock(t, call) ==
    IF Covers(txTables[t][call.tab], Intent(call.mode)) THEN call
    ELSE [tab |-> call.tab, slot |-> Whole, mode |-> Intent(call.mode)]

\* acquire_row on a table whose row locks were not escalated
CallRow(t, tab, row, mode) ==
    /\ pc[t] = "idle" /\ MetaFree(t)
    /\ tab \notin escalated[t]
    /\ LET call == [tab |-> tab, slot |-> row, mode |-> mode]
       IN  Enter(t, call, FirstLock(t, call))
    /\ UNCHANGED <<holders, waiting, txTables, txRows, escalated, meta, aborted>>

\* acquire_row on an escalated table: the table X lock, waited for with _meta owned
CallEscalated(t, tab) ==
    /\ pc[t] = "idle" /\ MetaFree(t)
    /\ tab \in escalated[t]
    /\ ~Covers(txTables[t][tab], "X")
    /\ LET call == [tab |-> tab, slot |-> Whole, mode |-> "X"]
       IN  Enter(t, call, call)
    /\ meta' = t
    /\ UNCHANGED <<holders, waiting, txTables, txRows, escalated, aborted>>

\* Mutant of Entry: the entry is queued without its mode.
EntryWithoutMode(t) == [want[t] EXCEPT !.mode = "none"]

\* the tuple appended to res.waiters
Entry(t) == want[t]

\* first look at the resource: granted, or queued among its waiters
Check(t) ==
    /\ pc[t] = "check"
    /\ IF orphan[t] \/ Grantable(t)
         THEN /\ pc' = [pc EXCEPT ![t] = "record"]
              /\ UNCHANGED waiting
         ELSE /\ pc' = [pc EXCEPT ![t] = "detect"]
              /\ waiting' = [waiting EXCEPT ![t] = Entry(t)]
    /\ UNCHANGED <<holders, txTables, txRows, escalated, meta, goal, want, orphan, aborted>>

\* top of the wait loop: only the chosen victim gives up
Detect(t) ==
    /\ pc[t] = "detect" /\ MetaFree(t)
    /\ \E v \in Victims : pc' = [pc EXCEPT ![t] = IF v = t THEN "failed" ELSE "recheck"]
    /\ UNCHANGED <<holders, waiting, txTables, txRows, escalated, meta, goal, want, orphan,
                   aborted>>

\* second look: granted, or another round after event.wait
Recheck(t) ==
    /\ pc[t] = "recheck"
    /\ pc' = [pc EXCEPT ![t] = IF Grantable(t) THEN "granted" ELSE "detect"]
    /\ UNCHANGED <<holders, waiting, txTables, txRows, escalated, meta, goal, want, orphan,
                   aborted>>

\* the deadline has passed
Timeout(t) ==
    /\ pc[t] = "recheck" /\ ~Grantable(t)
    /\ pc' = [pc EXCEPT ![t] = "failed"]
    /\ UNCHANGED <<holders, waiting, txTables, txRows, escalated, meta, goal, want, orphan,
                   aborted>>

\* Mutant of Dequeued: an exception leaves the entry behind.
DequeuedIfGranted(t) == IF pc[t] = "granted" THEN None ELSE waiting[t]

\* what the "finally" of _acquire leaves of the entry
Dequeued(t) == None

\* the "finally" of _acquire: the waiter entry goes, whatever the outcome
Leave(t) ==
    /\ waiting' = [waiting EXCEPT ![t] = Dequeued(t)]
    /\ \/ /\ pc[t] = "granted"
          /\ pc' = [pc EXCEPT ![t] = "record"]
          /\ UNCHANGED <<meta, goal, want, orphan>>
       \/ pc[t] = "failed" /\ Return(t)
    /\ UNCHANGED <<holders, txTables, txRows, escalated, aborted>>

\* end of acquire_table; an acquire_row goes on with its row
RecordTable(t) ==
    LET tab == want[t].tab
        mode == Joined(txTables[t][tab], want[t].mode)
    IN  /\ pc[t] = "record" /\ MetaFree(t) /\ want[t].slot = Whole
        /\ holders' = [holders EXCEPT ![tab][Whole][t] = mode]
        /\ txTables' = [txTables EXCEPT ![t][tab] = mode]
        /\ IF goal[t] = want[t] THEN Return(t)
                                ELSE Enter(t, goal[t], goal[t]) /\ UNCHANGED meta
        /\ UNCHANGED <<waiting, txRows, escalated, aborted>>

\* Mutant of Escalates: one row lock too many is kept.
EscalatesLate(t, tab, rows) == Cardinality(rows) > Threshold /\ tab \notin escalated[t]

\* when acquire_row calls _escalate
Escalates(t, tab, rows) == Cardinality(rows) >= Threshold /\ tab \notin escalated[t]

\* end of acquire_row below the threshold
RecordRow(t) ==
    LET tab == want[t].tab
        row == want[t].slot
    IN  /\ pc[t] = "record" /\ MetaFree(t) /\ row # Whole
        /\ ~Escalates(t, tab, txRows[t][tab] \cup {row})
        /\ holders' = [holders EXCEPT ![tab][row][t] = want[t].mode]
        /\ txRows' = [txRows EXCEPT ![t][tab] = @ \cup {row}]
        /\ Return(t)
        /\ UNCHANGED <<waiting, txTables, escalated, aborted>>

\* end of acquire_row with _escalate: the row locks go, the table lock becomes X
\* if nobody stands in the way at this moment
RecordAndEscalate(t) ==
    LET tab == want[t].tab
        rows == txRows[t][tab] \cup {want[t].slot}
        upgraded == GrantableAs(tab, Whole, "X", t)
        dropped == [x \in Table |-> IF x = tab THEN Dropped(tab, rows, t) ELSE {}]
    IN  /\ pc[t] = "record" /\ MetaFree(t) /\ want[t].slot # Whole
        /\ Escalates(t, tab, rows)
        /\ escalated' = [escalated EXCEPT ![t] = @ \cup {tab}]
        /\ holders' = [holders EXCEPT ![tab] = [s \in Slot |->
              IF s \in rows THEN [holders[tab][s] EXCEPT ![t] = "none"]
              ELSE IF s = Whole /\ upgraded THEN [holders[tab][s] EXCEPT ![t] = "X"]
              ELSE holders[tab][s]]]
        /\ txRows' = [txRows EXCEPT ![t][tab] = {}]
        /\ txTables' = IF upgraded THEN [txTables EXCEPT ![t][tab] = "X"] ELSE txTables
        /\ goal' = [goal EXCEPT ![t] = None]
        /\ want' = [want EXCEPT ![t] = None]
        /\ pc' = [pc EXCEPT ![t] = "idle"]
        /\ orphan' = [Orphaned(dropped) EXCEPT ![t] = FALSE]
        /\ meta' = Unowned(t)
        /\ UNCHANGED <<waiting, aborted>>

\* Mutant of Recorded: release_all forgets the row locks.
RecordedTable(t, tab) == IF txTables[t][tab] = "none" THEN {} ELSE {Whole}

\* slots of tab that release_all finds in the transaction's own records
Recorded(t, tab) == txRows[t][tab] \cup (IF txTables[t][tab] = "none" THEN {} ELSE {Whole})

\* release_all: the locks the transaction's own records name
Released(t) ==
    /\ holders' = [tab \in Table |-> [s \in Slot |->
          IF s \in Recorded(t, tab) THEN [holders[tab][s] EXCEPT ![t] = "none"]
                                    ELSE holders[tab][s]]]
    /\ txTables' = [txTables EXCEPT ![t] = [tab \in Table |-> "none"]]
    /\ txRows' = [txRows EXCEPT ![t] = [tab \in Table |-> {}]]
    /\ escalated' = [escalated EXCEPT ![t] = {}]

\* the threads that release_all leaves with a dropped resource
OrphanedByRelease(t) == Orphaned([tab \in Table |-> Dropped(tab, Recorded(t, tab), t)])

\* commit or abort, on the transaction's own thread
ReleaseAll(t) ==
    /\ pc[t] = "idle" /\ MetaFree(t) /\ t \notin aborted
    /\ Released(t)
    /\ pc' = [pc EXCEPT ![t] = "ended"]
    /\ orphan' = OrphanedByRelease(t)
    /\ UNCHANGED <<waiting, meta, goal, want, aborted>>

\* abort from TransactionManager.shutdown, on another thread: t's own thread stays
\* where it is.  (If it is about to look, it may or may not have fetched the
\* resource yet; one that is fetched later is not the dropped one.)
ShutdownReleases(t) ==
    /\ t \in Stragglers \ aborted /\ pc[t] # "ended"
    /\ meta = None
    /\ Released(t)
    /\ \E late \in BOOLEAN :
          orphan' = [OrphanedByRelease(t) EXCEPT ![t] = orphan[t] \/ (@ /\ ~late)]
    /\ aborted' = aborted \cup {t}
    /\ UNCHANGED <<waiting, meta, pc, goal, want>>

\* the session's own end after that: commit raises, abort returns, nothing is released
EndAfterShutdown(t) ==
    /\ pc[t] = "idle" /\ t \in aborted
    /\ pc' = [pc EXCEPT ![t] = "ended"]
    /\ UNCHANGED <<holders, waiting, txTables, txRows, escalated, meta, goal, want, orphan,
                   aborted>>

Step(t) ==
    \/ Check(t) \/ Detect(t) \/ Recheck(t) \/ Leave(t)
    \/ RecordTable(t) \/ RecordRow(t) \/ RecordAndEscalate(t)

Call(t) ==
    \E tab \in Table :
       \/ \E mode \in TableModes : CallTable(t, tab, mode)
       \/ \E row \in Row, mode \in RowModes : CallRow(t, tab, row, mode)
       \/ CallEscalated(t, tab)

(* A grant is decided under the resource's cv and recorded later, under    *)
(* _meta.  Two grants overlap when one thread has decided and not recorded *)
(* while another on the same table has too, or holds a dropped resource.   *)
Granted(t) == pc[t] \in {"granted", "record"} \/ orphan[t]
Overlap ==
    \E t, u \in Txn : t # u /\ Granted(t) /\ Granted(u) /\ want[t].tab = want[u].tab

Observe == overlapped' = (overlapped \/ Overlap')

Next ==
    /\ \E t \in Txn : \/ Call(t) \/ Step(t) \/ Timeout(t)
                      \/ ReleaseAll(t) \/ ShutdownReleases(t) \/ EndAfterShutdown(t)
    /\ Observe

Spec == Init /\ [][Next]_vars

(* A thread inside the lock manager keeps running.  A client goes on with  *)
(* its transaction as it likes, but commits or rolls back in the end.  No  *)
(* fairness of Timeout: waits must end without it.                         *)
FairSpec ==
    /\ Spec
    /\ \A t \in Txn : WF_vars(Step(t) /\ Observe) /\ SF_vars(ReleaseAll(t) /\ Observe)

-----------------------------------------------------------------------------
(* Safety.                                                                 *)

TypeOK ==
    /\ holders \in [Table -> [Slot -> [Txn -> Held]]]
    /\ waiting \in [Txn -> Request \cup {None}]
    /\ txTables \in [Txn -> [Table -> Held]]
    /\ txRows \in [Txn -> [Table -> SUBSET Row]]
    /\ escalated \in [Txn -> SUBSET Table]
    /\ meta \in Txn \cup {None}
    /\ pc \in [Txn -> PC]
    /\ goal \in [Txn -> Request \cup {None}]
    /\ want \in [Txn -> Request \cup {None}]
    /\ orphan \in [Txn -> BOOLEAN]
    /\ aborted \subseteq Txn
    /\ overlapped \in BOOLEAN

(* The two records of a lock agree: a transaction is in the holders of a   *)
(* resource exactly when its own _tx_tables / _tx_rows say so.  release_all *)
(* only looks at the latter, so a disagreement is a lock that is never     *)
(* released, through conversion, escalation, errors and dropped resources. *)
BookkeepingAgrees ==
    \A t \in Txn, tab \in Table :
       /\ holders[tab][Whole][t] = txTables[t][tab]
       /\ \A row \in Row : holders[tab][row][t] # "none" <=> row \in txRows[t][tab]

(* At its end nothing of a transaction is left: no lock, and no waiter     *)
(* entry that would give others a wait-for edge to a dead thread.  What    *)
(* shutdown has aborted under its thread is excepted, for the locks only:  *)
(* its thread can record one after release_all, and abort returns early.   *)
NothingLeaks ==
    \A t \in Txn : pc[t] = "ended" =>
       /\ waiting[t] = None /\ meta # t
       /\ t \in aborted \/ \A tab \in Table, s \in Slot : holders[tab][s][t] = "none"

(* A waiter entry stands in a resource's list exactly while its thread is  *)
(* in the wait loop, and it is for the lock the thread waits for: the      *)
(* wait-for graph has no stale edge, so no deadlock is found that is not   *)
(* there and none is missed.                                               *)
WaitersAreWaiting ==
    \A t \in Txn : waiting[t] = IF pc[t] \in InWaitLoop THEN want[t] ELSE None

(* "Writers take IX on the table then X per touched row" (locks.py): a row *)
(* lock is never held without the intention lock above it, also when table *)
(* locks are converted and escalated in between, unless shutdown has       *)
(* aborted the transaction under its thread.                               *)
RowsUnderIntent ==
    \A t \in Txn \ aborted, tab \in Table, row \in Row :
       holders[tab][row][t] # "none" =>
          Covers(holders[tab][Whole][t], Intent(holders[tab][row][t]))

(* Escalation bounds the lock table: between calls a transaction has fewer *)
(* than escalation_threshold row locks on a table, and none once that      *)
(* table is escalated, although the X lock it was traded for may be late.  *)
RowLocksAreBounded ==
    \A t \in Txn, tab \in Table :
       /\ txRows[t][tab] # {} => Cardinality(txRows[t][tab]) < Threshold
       /\ tab \in escalated[t] => txRows[t][tab] = {}

(* _meta is owned across steps only by a thread that is inside the X       *)
(* upgrade of a table it has escalated; every way out of that call, errors *)
(* included, gives it back.                                                *)
MetaOnlyForUpgrade ==
    meta # None =>
       /\ pc[meta] \notin {"idle", "ended"}
       /\ want[meta] = goal[meta]
       /\ want[meta].slot = Whole /\ want[meta].mode = "X"
       /\ want[meta].tab \in escalated[meta]

(* Strict two-phase locking: until release_all a table lock is only ever   *)
(* replaced by one that covers it, and a row lock is given up only by the  *)
(* escalation of its table, all of the table's rows at once.               *)
StrictTwoPhase ==
    [][\A t \in Txn, tab \in Table : pc'[t] # "ended" /\ t \notin aborted' \ aborted =>
          /\ \/ txTables[t][tab] = "none"
             \/ Covers(txTables'[t][tab], txTables[t][tab])
          /\ \/ txRows[t][tab] \subseteq txRows'[t][tab]
             \/ tab \in escalated'[t] /\ txRows'[t][tab] = {}]_vars

(* No two transactions hold incompatible locks on a resource: the row X    *)
(* lock serialises the writers of a row (ARCHITECTURE.md, section 7).      *)
HoldersAreCompatible ==
    \A tab \in Table, s \in Slot, t, u \in Txn :
       t # u /\ holders[tab][s][t] # "none" /\ holders[tab][s][u] # "none"
         => Compatible(s, holders[tab][s][t], holders[tab][s][u])

(* ... and that holds as long as no two grants on a table have overlapped, *)
(* whatever else happens: waiting, conversion from S and IX to X, timeouts, *)
(* victims, escalation with or without its upgrade, dropped resources.     *)
CompatibleUntilOverlap == ~overlapped => HoldersAreCompatible

-----------------------------------------------------------------------------
(* Liveness.                                                               *)

(* Every lock call comes back, by a grant or a DeadlockError, though no    *)
(* timeout ever fires and other transactions may call again and again:     *)
(* detection alone resolves every deadlock.  The exception is a thread     *)
(* that keeps _meta while it waits for its upgrade.  What shutdown leaves   *)
(* locked for good can only be waited for until the timeout.               *)
EveryCallReturns ==
    (\A t \in Txn : pc[t] \notin {"idle", "ended"} ~> pc[t] \in {"idle", "ended"})
       \/ <>[](meta # None) \/ <>(aborted # {})
=============================================================================
