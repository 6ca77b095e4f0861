------------------------------ MODULE Session ------------------------------
(***************************************************************************)
(* Sessions (engine/session.py) over the life cycle of a transaction       *)
(* (txn/manager.py), the log with its writer thread (txn/wal.py), CREATE   *)
(* TABLE and shutdown (engine/database.py).                                *)
(*                                                                         *)
(* What a statement does to rows is module Mvcc, how it gets its locks is  *)
(* LockManager, restarts are Recovery.  Here a statement locks and writes  *)
(* rows one at a time and may raise at any point, the disk may refuse an   *)
(* fsync, and shutdown runs while sessions go on.  A crash is not a step:  *)
(* the properties look at every part of the log a crash could leave.       *)
(***************************************************************************)
EXTENDS Naturals, FiniteSets, Sequences, SequencesExt

CONSTANTS
    Client,         \* sessions, each with its thread
    Explicit,       \* bound: those that use BEGIN, the others have single statements
    Row,            \* rows of the tables
    NewRow,         \* those of them in the table that CREATE TABLE makes
    MaxTxn,         \* bound: transactions
    MaxWrites,      \* bound: data records logged
    MaxFailures,    \* bound: commit records the disk refuses, before shutdown
    None,
    Avoided         \* situations that are kept out (see the guards that name them)

TxId == 1..MaxTxn

ASSUME ClientAssumption == Explicit \subseteq Client
ASSUME RowAssumption == NewRow \subseteq Row
ASSUME BoundAssumption == MaxTxn \in Nat /\ MaxWrites \in Nat /\ MaxFailures \in Nat
ASSUME NoneAssumption == None \notin TxId \cup Row /\ \A S \in SUBSET TxId : S # None
ASSUME AvoidedAssumption ==
    Avoided \subseteq {"shutdown-during-commit", "table-of-a-transaction-not-committed"}

VARIABLES
    pc,         \* where each session's thread is
    own,        \* Session._txn
    auto,       \* own_txn: the running statement has a transaction of its own
    stmt,       \* the running statement
    status,     \* Transaction.state and TransactionManager._state
    started,    \* Transaction.wal_started
    holder,     \* the transaction that has a row's X lock
    maker,      \* the transaction whose CREATE TABLE put the table into the catalog
    log,        \* the records of wal.log, and behind them those of WAL._q
    taken,      \* how many of them the writer has dealt with
    synced,     \* how many of them are fsynced
    victims,    \* shutdown: transactions still to abort; None before it is called
    failures,   \* how many commit records the disk has refused
    refused     \* history: transactions whose commit was answered with an error

vars == <<pc, own, auto, stmt, status, started, holder, maker, log, taken, synced,
          victims, failures, refused>>
session == <<own, auto, stmt>>
writer == <<taken, synced, failures, refused>>

Ended == {"committed", "aborted"}
Data == {"write", "create"}
Rec(ty, t, r) == [ty |-> ty, txid |-> t, row |-> r]
End == Rec("end", None, None)   \* what close() queues
Record == [ty : Data \cup {"commit", "abort"}, txid : TxId, row : Row \cup {None}] \cup {End}

LogClosed == \E i \in 1..taken : log[i] = End     \* the writer has ended
\* _put; what comes behind the end mark is never read
Closing == End \in Range(log)
Logged(rec) == IF Closing THEN log ELSE Append(log, rec)

DataRecords(recs) == SelectSeq(recs, LAMBDA r : r.ty \in Data)
MayWrite == Len(DataRecords(log)) < MaxWrites

NextId == 1 + Cardinality({t \in TxId : status[t] # "none"})
Active(t) == t # None /\ status[t] = "active"
Holds(t) == {r \in Row : holder[r] = t}

\* read_wal: the ids with a commit record and no abort record
CommittedIn(recs) ==
    {recs[i].txid : i \in {j \in DOMAIN recs : recs[j].ty = "commit"}}
       \ {recs[i].txid : i \in {j \in DOMAIN recs : recs[j].ty = "abort"}}

-----------------------------------------------------------------------------
Init ==
    /\ pc = [s \in Client |-> "idle"] /\ own = [s \in Client |-> None]
    /\ auto = [s \in Client |-> FALSE] /\ stmt = [s \in Client |-> "none"]
    /\ status = [t \in TxId |-> "none"] /\ started = [t \in TxId |-> FALSE]
    /\ holder = [r \in Row |-> None] /\ maker = None
    /\ log = <<>> /\ taken = 0 /\ synced = 0
    /\ victims = None /\ failures = 0 /\ refused = {}

-----------------------------------------------------------------------------
(* Statements.                                                             *)

\* TransactionManager.begin
NewTxn(s) ==
    /\ NextId \in TxId
    /\ status' = [status EXCEPT ![NextId] = "active"]
    /\ own' = [own EXCEPT ![s] = NextId]

\* BEGIN, also in place of a transaction that shutdown has ended
Begin(s) ==
    /\ s \in Explicit /\ pc[s] = "idle" /\ ~Active(own[s])
    /\ NewTxn(s)
    /\ UNCHANGED <<pc, auto, stmt, started, holder, maker, log, writer, victims>>

\* Session.sql: a statement that reads, writes rows, or creates the table, inside the
\* open transaction or in its own.  A transaction that shutdown has ended still counts
\* as open here.
Statement(s, kind) ==
    /\ pc[s] = "idle"
    /\ auto' = [auto EXCEPT ![s] = own[s] = None]
    /\ IF own[s] = None THEN NewTxn(s) ELSE UNCHANGED <<own, status>>
    /\ started' = [started EXCEPT ![own'[s]] = @ \/ kind # "read"]
    /\ stmt' = [stmt EXCEPT ![s] = kind]
    /\ pc' = [pc EXCEPT ![s] = "run"]
    /\ UNCHANGED <<holder, maker, log, writer, victims>>

Usable(t, r) ==
    r \in NewRow =>
       /\ maker # None
       /\ "table-of-a-transaction-not-committed" \in Avoided =>
             maker = t \/ status[maker] = "committed"

\* the row's X lock, log_insert, log_update or log_delete, and the change of the tree
WriteRow(s, r) ==
    /\ pc[s] = "run" /\ stmt[s] = "write" /\ Usable(own[s], r)
    /\ holder[r] \in {None, own[s]} /\ MayWrite
    /\ holder' = [holder EXCEPT ![r] = own[s]]
    /\ log' = Logged(Rec("write", own[s], r))
    /\ UNCHANGED <<pc, session, status, started, maker, writer, victims>>

\* Mutant of CreateTable: the new table is not logged.
CreateUnlogged(s) ==
    /\ pc[s] = "run" /\ stmt[s] = "create" /\ maker = None /\ MayWrite
    /\ maker' = own[s]
    /\ stmt' = [stmt EXCEPT ![s] = "created"]
    /\ UNCHANGED <<pc, own, auto, status, started, holder, log, writer, victims>>

\* create_table: the catalog shows the table to everybody at once
CreateTable(s) ==
    /\ pc[s] = "run" /\ stmt[s] = "create" /\ maker = None /\ MayWrite
    /\ log' = Logged(Rec("create", own[s], None))
    /\ maker' = own[s]
    /\ stmt' = [stmt EXCEPT ![s] = "created"]
    /\ UNCHANGED <<pc, own, auto, status, started, holder, writer, victims>>

\* a statement inside an explicit transaction comes to its end
Finish(s) ==
    /\ pc[s] = "run" /\ ~auto[s] /\ stmt[s] # "create"
    /\ pc' = [pc EXCEPT ![s] = "idle"]
    /\ stmt' = [stmt EXCEPT ![s] = "none"]
    /\ UNCHANGED <<own, auto, status, started, holder, maker, log, writer, victims>>

\* Mutant of Raise: only an IntegrityError aborts the statement's own transaction.
RaiseKeeping(s) ==
    /\ pc[s] = "run"
    /\ stmt' = [stmt EXCEPT ![s] = "none"]
    /\ \E caught \in BOOLEAN :
          pc' = [pc EXCEPT ![s] = IF auto[s] /\ caught THEN "abort" ELSE "idle"]
    /\ UNCHANGED <<own, auto, status, started, holder, maker, log, writer, victims>>

\* a statement raises, a deadlock victim's too: its own transaction is aborted, an
\* explicit one goes on with the locks and the writes it has
Raise(s) ==
    /\ pc[s] = "run"
    /\ stmt' = [stmt EXCEPT ![s] = "none"]
    /\ pc' = [pc EXCEPT ![s] = IF auto[s] THEN "abort" ELSE "idle"]
    /\ UNCHANGED <<own, auto, status, started, holder, maker, log, writer, victims>>

-----------------------------------------------------------------------------
(* The end of a transaction.                                               *)

\* COMMIT, or the end of a statement in its own transaction
CommitCalled(s) ==
    \/ pc[s] = "idle" /\ own[s] # None
    \/ pc[s] = "run" /\ auto[s] /\ stmt[s] # "create"

\* Mutant of Commit: the state of the transaction is not looked at.
CommitUnchecked(s) ==
    /\ CommitCalled(s)
    /\ LET t == own[s]
       IN  /\ pc' = [pc EXCEPT ![s] = IF started[t] THEN "waiting" ELSE "publish"]
           /\ log' = IF started[t] THEN Logged(Rec("commit", t, None)) ELSE log
    /\ stmt' = [stmt EXCEPT ![s] = "none"]
    /\ UNCHANGED <<own, auto, status, started, holder, maker, writer, victims>>

\* TransactionManager.commit up to the wait for the writer; one that has logged nothing
\* has nothing to wait for
Commit(s) ==
    /\ CommitCalled(s) /\ Active(own[s])
    /\ LET t == own[s]
       IN  /\ pc' = [pc EXCEPT ![s] = IF started[t] THEN "waiting" ELSE "publish"]
           /\ log' = IF started[t] THEN Logged(Rec("commit", t, None)) ELSE log
    /\ stmt' = [stmt EXCEPT ![s] = "none"]
    /\ UNCHANGED <<own, auto, status, started, holder, maker, writer, victims>>

\* Mutant of Publish: the locks go before the commit is visible.
PublishUnlocked(s) ==
    /\ pc[s] = "publish"
    /\ \/ /\ Holds(own[s]) # {}
          /\ holder' = [r \in Row |-> IF holder[r] = own[s] THEN None ELSE holder[r]]
          /\ UNCHANGED <<pc, status>>
       \/ /\ Holds(own[s]) = {}
          /\ status' = [status EXCEPT ![own[s]] = "committed"]
          /\ pc' = [pc EXCEPT ![s] = "release"]
          /\ UNCHANGED holder
    /\ UNCHANGED <<session, started, maker, log, writer, victims>>

Publish(s) ==
    /\ pc[s] = "publish"
    /\ status' = [status EXCEPT ![own[s]] = "committed"]
    /\ pc' = [pc EXCEPT ![s] = "release"]
    /\ UNCHANGED <<session, started, holder, maker, log, writer, victims>>

\* ROLLBACK, close() of the session, the commit of a transaction that shutdown has
\* aborted under the statement, or after an error (see Raise and WriterRefuses)
AbortCalled(s) ==
    \/ pc[s] = "idle" /\ own[s] # None
    \/ pc[s] = "run" /\ auto[s] /\ ~Active(own[s])
    \/ pc[s] = "abort"

\* the session is without a transaction again
Leave(s) ==
    /\ own' = [own EXCEPT ![s] = None]
    /\ auto' = [auto EXCEPT ![s] = FALSE]
    /\ pc' = [pc EXCEPT ![s] = "idle"]

\* TransactionManager.abort: nothing at all for a transaction that is not active
Abort(s) ==
    /\ AbortCalled(s)
    /\ LET t == own[s]
       IN  IF Active(t)
           THEN /\ log' = IF started[t] THEN Logged(Rec("abort", t, None)) ELSE log
                /\ pc' = [pc EXCEPT ![s] = "unpublish"]
                /\ UNCHANGED <<own, auto>>
           ELSE Leave(s) /\ UNCHANGED log
    /\ stmt' = [stmt EXCEPT ![s] = "none"]
    /\ UNCHANGED <<status, started, holder, maker, writer, victims>>

FreeLocks(t) == holder' = [r \in Row |-> IF holder[r] = t THEN None ELSE holder[r]]

\* the rest of abort: the state, then release_all
Unpublish(s) ==
    /\ pc[s] = "unpublish"
    /\ status' = [status EXCEPT ![own[s]] = "aborted"]
    /\ FreeLocks(own[s])
    /\ Leave(s)
    /\ UNCHANGED <<stmt, started, maker, log, writer, victims>>

\* release_all after a commit
Release(s) ==
    /\ pc[s] = "release"
    /\ FreeLocks(own[s])
    /\ Leave(s)
    /\ UNCHANGED <<stmt, status, started, maker, log, writer, victims>>

-----------------------------------------------------------------------------
(* The writer thread.                                                      *)

\* the position of the next commit record or end mark: the records before it are
\* written with it, in an order with the steps of others that nobody can tell
NextStop ==
    LET stops == {i \in (taken + 1)..Len(log) : log[i].ty \in {"commit", "end"}}
    IN  IF LogClosed \/ stops = {} THEN 0 ELSE CHOOSE i \in stops : \A j \in stops : i <= j

Waiting(t) == {s \in Client : pc[s] = "waiting" /\ own[s] = t}

\* Mutant of WriterPersists: the commit is answered before the fsync.
WriterAnswersEarly ==
    /\ NextStop # 0 /\ log[NextStop].ty = "commit"
    /\ taken' = NextStop
    /\ pc' = [s \in Client |-> IF s \in Waiting(log[NextStop].txid) THEN "publish" ELSE pc[s]]
    /\ UNCHANGED <<log, synced, failures, refused, session, status, started, holder, maker,
                   victims>>

\* Mutant of WriterPersists: what is still queued counts as fsynced too.
WriterCountsQueue ==
    /\ NextStop # 0
    /\ taken' = NextStop /\ synced' = Len(log)
    /\ pc' = [s \in Client |-> IF s \in Waiting(log[NextStop].txid) THEN "publish" ELSE pc[s]]
    /\ UNCHANGED <<log, failures, refused, session, status, started, holder, maker, victims>>

\* write, flush and fsync of a commit record or at the end mark; the event of the
\* commit is set
WriterPersists ==
    /\ NextStop # 0
    /\ taken' = NextStop /\ synced' = NextStop
    /\ pc' = [s \in Client |-> IF s \in Waiting(log[NextStop].txid) THEN "publish" ELSE pc[s]]
    /\ UNCHANGED <<log, failures, refused, session, status, started, holder, maker, victims>>

\* Mutant of WriterRefuses: the error is not passed on.
WriterRefusesSilently ==
    /\ NextStop # 0 /\ log[NextStop].ty = "commit" /\ victims = None /\ failures < MaxFailures
    /\ failures' = failures + 1
    /\ taken' = NextStop
    /\ UNCHANGED <<pc, log, refused, synced, session, status, started, holder, maker, victims>>

\* The disk fails, with the record written or not.  The commit raises WALError: the
\* transaction of a single statement is aborted, an explicit one is as it was before.
WriterRefuses ==
    /\ NextStop # 0 /\ log[NextStop].ty = "commit" /\ victims = None /\ failures < MaxFailures
    /\ failures' = failures + 1
    /\ LET t == log[NextStop].txid
       IN  /\ refused' = refused \cup {t}
           /\ pc' = [s \in Client |-> IF s \notin Waiting(t) THEN pc[s]
                                      ELSE IF auto[s] THEN "abort" ELSE "idle"]
    /\ \/ taken' = NextStop /\ UNCHANGED log
       \/ taken' = NextStop - 1 /\ log' = RemoveAt(log, NextStop)
    /\ UNCHANGED <<synced, session, status, started, holder, maker, victims>>

-----------------------------------------------------------------------------
(* Database.shutdown without a checkpoint.                                 *)

Shutdown ==
    /\ victims = None
    /\ victims' = {t \in TxId : Active(t)}
    /\ UNCHANGED <<pc, session, status, started, holder, maker, log, writer>>

\* abort of one victim, all of it: a COMMIT between its parts is kept out too
ShutdownAborts(t) ==
    /\ victims # None /\ t \in victims /\ \A u \in victims : t <= u
    /\ "shutdown-during-commit" \in Avoided =>
          \A s \in Client : own[s] = t => pc[s] \notin {"waiting", "publish"}
    /\ victims' = victims \ {t}
    /\ IF Active(t)
       THEN /\ log' = IF started[t] THEN Logged(Rec("abort", t, None)) ELSE log
            /\ status' = [status EXCEPT ![t] = "aborted"]
            /\ FreeLocks(t)
       ELSE UNCHANGED <<log, status, holder>>
    /\ UNCHANGED <<pc, session, started, maker, writer>>

\* WAL.close, with an end mark behind what is queued
CloseLog ==
    /\ victims = {} /\ ~Closing
    /\ log' = Append(log, End)
    /\ UNCHANGED <<pc, session, status, started, holder, maker, writer, victims>>

-----------------------------------------------------------------------------
EndStep(s) == Publish(s) \/ (pc[s] = "abort" /\ Abort(s)) \/ Unpublish(s) \/ Release(s)

Next ==
    \/ \E s \in Client :
          \/ Begin(s) \/ (\E kind \in {"read", "write", "create"} : Statement(s, kind))
          \/ (\E r \in Row : WriteRow(s, r)) \/ CreateTable(s)
          \/ Finish(s) \/ Raise(s) \/ Commit(s) \/ Publish(s)
          \/ Abort(s) \/ Unpublish(s) \/ Release(s)
    \/ WriterPersists \/ WriterRefuses
    \/ Shutdown \/ (\E t \in TxId : ShutdownAborts(t)) \/ CloseLog

Spec == Init /\ [][Next]_vars

(* A thread inside commit or abort goes on, and so does the writer until   *)
(* its end mark.  Clients, statements and shutdown owe nothing.            *)
FairSpec ==
    /\ Spec
    /\ \A s \in Client : WF_vars(EndStep(s))
    /\ WF_vars(WriterPersists)

-----------------------------------------------------------------------------
(* Properties.                                                             *)

TypeOK ==
    /\ \A s \in Client : pc[s] \in {"idle", "run", "waiting", "publish", "abort",
                                    "unpublish", "release"}
    /\ own \in [Client -> TxId \cup {None}]
    /\ auto \in [Client -> BOOLEAN]
    /\ stmt \in [Client -> {"none", "read", "write", "created", "create"}]
    /\ status \in [TxId -> {"none", "active"} \cup Ended] /\ started \in [TxId -> BOOLEAN]
    /\ holder \in [Row -> TxId \cup {None}] /\ maker \in TxId \cup {None}
    /\ log \in Seq(Record) /\ taken \in 0..Len(log) /\ synced \in 0..taken
    /\ failures \in 0..MaxFailures
    /\ victims = None \/ victims \subseteq TxId
    /\ refused \subseteq TxId

\* the logs a crash may leave: all that is fsynced, and some of what is or may be written
Survivors == {SubSeq(log, 1, n) : n \in synced..Len(log)}

Committed == {t \in TxId : status[t] = "committed"}
Undecided == refused \cup {own[s] : s \in {c \in Client : pc[c] \in {"waiting", "publish"}}}

(* A client's knowledge of a transaction survives a crash (wal.py:16-20):  *)
(* what was committed is recovered, and what is recovered was committed or *)
(* has a COMMIT that was not answered, or was answered with an error.      *)
OutcomeIsKept ==
    \A recs \in Survivors :
       /\ \A t \in Committed : started[t] => t \in CommittedIn(recs)
       /\ CommittedIn(recs) \subseteq Committed \cup Undecided

(* Whoever holds the lock of a row finds in memory what the log says of    *)
(* it: a commit in the log, whatever became of its fsync, of another       *)
(* transaction that wrote the row is visible, or taken back in the log     *)
(* (manager.py:196-220, the order of log, state and locks).  Behind the    *)
(* end mark nothing is taken back, and nothing is committed either.        *)
HolderIsCurrent ==
    ~Closing => \A i \in DOMAIN log :
       LET rec == log[i]
       IN  /\ rec.ty = "write" /\ holder[rec.row] \notin {None, rec.txid}
           /\ rec.txid \in CommittedIn(log)
           => rec.txid \in Committed

(* Until shutdown, what is open or holds a lock belongs to a session that  *)
(* can end it (session.py:118-124): no error leaves a transaction behind.  *)
NothingIsOrphaned ==
    victims = None =>
       /\ \A t \in TxId : Active(t) \/ Holds(t) # {} =>
             \E s \in Client : own[s] = t /\ (pc[s] = "idle" => ~auto[s])
       /\ \A s \in Client : pc[s] = "idle" /\ own[s] # None => Active(own[s])

(* Recovery knows the table of each record it replays: the CREATE TABLE of *)
(* a table is committed in every log that has committed rows of it         *)
(* (database.py:142, a KeyError otherwise).                                *)
LogIsReplayable ==
    \A recs \in Survivors : \A i \in DOMAIN recs :
       recs[i].row \in NewRow /\ recs[i].txid \in CommittedIn(recs) =>
          \E j \in 1..i : recs[j].ty = "create" /\ recs[j].txid \in CommittedIn(recs)

(* A transaction ends once, whichever threads are at its end.              *)
StatusIsFinal ==
    [][\A t \in TxId : status[t] \in Ended => status'[t] = status[t]]_vars

(* COMMIT and ROLLBACK return, and with them every statement in its own    *)
(* transaction, unless the COMMIT came behind the end mark of the log.     *)
EndReturns ==
    \A s \in Client :
       pc[s] \notin {"idle", "run"} ~> pc[s] \in {"idle"} \/ (pc[s] = "waiting" /\ LogClosed)
=============================================================================
