------------------------------ MODULE Recovery ------------------------------
(***************************************************************************)
(* Durability: the write-ahead log (txn/wal.py), its queue and its writer  *)
(* thread, the checkpoint, crashes, and recovery (engine/database.py).     *)
(*                                                                         *)
(* One table.  Locks and versions are modules LockManager and Mvcc; of a   *)
(* chain only what the log and the checkpoint can tell apart is kept here: *)
(* its committed row, an open transaction's draft of it, and the last      *)
(* version of a chain that is dead but still in the tree.                  *)
(*                                                                         *)
(* The writer appends line by line (buffering=1), so a killed process      *)
(* leaves all it has written; a power failure may also take what was not   *)
(* fsynced.  A row is the number of the transaction that wrote it, counted *)
(* over all lives of the database: ids are given out again after a crash.  *)
(***************************************************************************)
EXTENDS Naturals, FiniteSets, Sequences, SequencesExt

CONSTANTS
    Key,        \* primary keys
    MaxTxn,     \* bound: transactions begun over all lives
    MaxWrites,  \* bound: statements logged over all lives, of one row or none
    None,
    Avoided     \* situations that are kept out (see the guards that name them)

ASSUME KeyAssumption == Key \subseteq Nat /\ IsFiniteSet(Key)
ASSUME BoundAssumption == MaxTxn \in Nat /\ MaxWrites \in Nat
ASSUME AvoidedAssumption ==
    Avoided \subseteq {"commit-under-a-reused-id", "long-torn-record", "write-error",
                       "crash-before-reset", "neighbouring-dead-keys",
                       "begin-during-checkpoint", "shutdown-during-commit"}

VARIABLES
    file,       \* wal.log: the records written to it
    synced,     \* how many of them are fsynced
    ckpt,       \* checkpoint.json: the row of each key
    phase,      \* what the process is doing
    syncing,    \* the writer has written a commit record and not fsynced it
    queue,      \* WAL._q: records the writer has not taken
    table,      \* the committed row of each key
    garbage,    \* the last version of a chain without a committed row, or NoRow
    txns,       \* open transactions, by txid
    nextId,     \* _next_id
    begun,      \* how many transactions have begun in all lives
    written,    \* how many statements have been logged in all lives
    acked,      \* history: the rows after the commits that are durable
    doubt,      \* history: commits requested since, in order, still undecided
    reused      \* history: ids in the log at the last start that are given out again

vars == <<file, synced, ckpt, phase, syncing, queue, table, garbage, txns, nextId,
          begun, written, acked, doubt, reused>>
disk == <<file, synced, ckpt>>
wal == <<queue, syncing>>
tree == <<table, garbage>>
bounds == <<begun, written>>
history == <<acked, doubt, reused>>

TxId == 1..MaxTxn
NoRow == 0
Rows == [Key -> 0..MaxTxn]
Empty == [k \in Key |-> NoRow]
Data == {"insert", "update", "delete"}

\* begin records are left out: recovery passes them over
Record == [ty : Data \cup {"commit", "abort"}, txid : TxId, key : Key \cup {None}, row : 0..MaxTxn]
Ending(ty, t) == [ty |-> ty, txid |-> t, key |-> None, row |-> NoRow]

\* what a transaction wrote: the rows of the keys it wrote
Writes == UNION {[K -> 0..MaxTxn] : K \in SUBSET Key}
Transaction == [born : 1..MaxTxn, writes : Writes, state : {"open", "committing"}]

\* a version of a chain as recovery builds it
Version == [row : 0..MaxTxn, dead : BOOLEAN]

ASSUME NoneAssumption == None \notin Transaction /\ None \notin [Key -> Seq(Version)]

\* rows with a transaction's writes on top, and with those of a sequence of transactions
Over(rows, writes) == [k \in Key |-> IF k \in DOMAIN writes THEN writes[k] ELSE rows[k]]
Overlaid(rows, all) ==
    LET Upto[n \in 0..Len(all)] == IF n = 0 THEN rows ELSE Over(Upto[n - 1], all[n])
    IN  Upto[Len(all)]

Up == phase \in {"running", "checked", "replaced"}
Live == {t \in TxId : txns[t] # None}
Fresh == [born |-> begun + 1, writes |-> <<>>, state |-> "open"]
HasWritten(t) == DOMAIN txns[t].writes # {}

\* the one statement of a transaction that has written no row counts, if it is logged
CountEmpty(t) ==
    IF HasWritten(t) THEN UNCHANGED written
    ELSE written < MaxWrites /\ written' = written + 1

\* how many commits the file has behind its fsynced part, up to the n-th record
Unsynced(n) == Cardinality({i \in (synced + 1)..n : file[i].ty = "commit"})
AtMost(n, seq) == SubSeq(seq, 1, IF n < Len(seq) THEN n ELSE Len(seq))

-----------------------------------------------------------------------------
Init ==
    /\ file = <<>> /\ synced = 0 /\ ckpt = Empty
    /\ phase = "running" /\ queue = <<>> /\ syncing = FALSE
    /\ table = Empty /\ garbage = Empty
    /\ txns = [t \in TxId |-> None] /\ nextId = 1 /\ begun = 0 /\ written = 0
    /\ acked = Empty /\ doubt = <<>> /\ reused = {}

Begin ==
    /\ Up /\ begun < MaxTxn
    /\ "begin-during-checkpoint" \in Avoided => phase = "running"
    /\ txns' = [txns EXCEPT ![nextId] = Fresh]
    /\ nextId' = nextId + 1
    /\ begun' = begun + 1
    /\ UNCHANGED <<disk, wal, phase, tree, written, history>>

\* one row written by a statement, under its row lock: first the log, then the tree
Write(t, k) ==
    LET txn == txns[t]
        Log(ty, row) ==
           /\ queue' = Append(queue, [ty |-> ty, txid |-> t, key |-> k, row |-> row])
           /\ txns' = [txns EXCEPT ![t].writes =
                          [j \in DOMAIN @ \cup {k} |-> IF j = k THEN row ELSE @[j]]]
           /\ written' = written + 1
    IN  /\ Up /\ txn # None /\ txn.state = "open" /\ written < MaxWrites
        /\ \A u \in Live \ {t} : k \notin DOMAIN txns[u].writes
        /\ IF Over(table, txn.writes)[k] = NoRow THEN Log("insert", txn.born)
           ELSE Log("update", txn.born) \/ Log("delete", NoRow)
        /\ UNCHANGED <<disk, syncing, phase, tree, nextId, begun, history>>

\* commit of a transaction that has begun in the log, be it with a statement that
\* wrote no row: its thread waits for the writer
RequestCommit(t) ==
    /\ Up /\ txns[t] # None /\ txns[t].state = "open"
    /\ "commit-under-a-reused-id" \in Avoided => t \notin reused
    /\ CountEmpty(t)
    /\ queue' = Append(queue, Ending("commit", t))
    /\ txns' = [txns EXCEPT ![t].state = "committing"]
    /\ doubt' = Append(doubt, txns[t].writes)
    /\ UNCHANGED <<disk, syncing, phase, tree, nextId, begun, acked, reused>>

\* abort, by the session or by shutdown; also the end of a transaction that only
\* read, which is not in the log.  The version an aborted INSERT leaves is dead.
Abort(t) ==
    /\ Up /\ txns[t] # None
    /\ \/ txns[t].state = "open"
       \/ txns[t].state = "committing" /\ "shutdown-during-commit" \notin Avoided
    /\ \/ CountEmpty(t) /\ queue' = Append(queue, Ending("abort", t))
       \/ ~HasWritten(t) /\ txns[t].state = "open" /\ UNCHANGED <<queue, written>>
    /\ garbage' = [k \in Key |->
          IF k \in DOMAIN txns[t].writes /\ table[k] = NoRow /\ txns[t].writes[k] # NoRow
          THEN txns[t].writes[k] ELSE garbage[k]]
    /\ txns' = [txns EXCEPT ![t] = None]
    /\ UNCHANGED <<disk, syncing, phase, table, nextId, begun, history>>

-----------------------------------------------------------------------------
(* The writer thread.                                                      *)

\* Mutant of WriterWrites: the writer waits for a second record to save writes.
WriterBatches ==
    /\ Up /\ Len(queue) > 1 /\ ~syncing
    /\ file' = Append(file, Head(queue))
    /\ queue' = Tail(queue)
    /\ syncing' = (Head(queue).ty = "commit")
    /\ UNCHANGED <<synced, ckpt, phase, tree, txns, nextId, bounds, history>>

\* the writer takes a record off its queue and writes it; an error in a data record
\* is swallowed
WriterWrites ==
    /\ Up /\ queue # <<>> /\ ~syncing
    /\ \E failed \in BOOLEAN :
          /\ failed => "write-error" \notin Avoided /\ Head(queue).ty \in Data
          /\ file' = IF failed THEN file ELSE Append(file, Head(queue))
    /\ queue' = Tail(queue)
    /\ syncing' = (Head(queue).ty = "commit")
    /\ UNCHANGED <<synced, ckpt, phase, tree, txns, nextId, bounds, history>>

\* Mutant of WriterSyncs: the commit is acknowledged before the fsync.
WriterAcks ==
    /\ Up /\ syncing
    /\ syncing' = FALSE
    /\ LET t == Last(file).txid
           n == Unsynced(Len(file))
       IN  /\ txns[t] # None
           /\ table' = Over(table, txns[t].writes)
           /\ txns' = [txns EXCEPT ![t] = None]
           /\ acked' = Overlaid(acked, AtMost(n, doubt))
           /\ doubt' = SubSeq(doubt, n + 1, Len(doubt))
    /\ UNCHANGED <<disk, phase, queue, garbage, nextId, bounds, reused>>

\* fsync; the commit request is answered and the commit made visible, and the chain of
\* a row it deleted is dead
WriterSyncs ==
    /\ Up /\ syncing
    /\ synced' = Len(file) /\ syncing' = FALSE
    /\ LET t == Last(file).txid
           n == Unsynced(Len(file))
           writes == IF txns[t] = None THEN <<>> ELSE txns[t].writes
       IN  /\ table' = Over(table, writes)
           /\ garbage' = [k \in Key |->
                 IF k \notin DOMAIN writes THEN garbage[k]
                 ELSE IF writes[k] # NoRow THEN NoRow
                 ELSE IF table[k] # NoRow THEN table[k] ELSE garbage[k]]
           /\ txns' = [txns EXCEPT ![t] = None]
           /\ acked' = Overlaid(acked, AtMost(n, doubt))
           /\ doubt' = SubSeq(doubt, n + 1, Len(doubt))
    /\ UNCHANGED <<file, ckpt, phase, queue, nextId, bounds, reused>>

-----------------------------------------------------------------------------
(* Garbage collection and the checkpoint.                                  *)

\* a background pass removes a dead chain (module Mvcc has which and when)
Gc ==
    /\ Up
    /\ \E k \in Key : garbage[k] # NoRow /\ garbage' = [garbage EXCEPT ![k] = NoRow]
    /\ UNCHANGED <<disk, wal, phase, table, txns, nextId, bounds, history>>

\* Mutant of StartCheckpoint: open transactions are not looked for.
StartCheckpointAnytime ==
    /\ phase = "running"
    /\ phase' = "checked"
    /\ UNCHANGED <<disk, wal, tree, txns, nextId, bounds, history>>

\* checkpoint() finds no transaction open
StartCheckpoint ==
    /\ phase = "running" /\ Live = {}
    /\ phase' = "checked"
    /\ UNCHANGED <<disk, wal, tree, txns, nextId, bounds, history>>

Dead == {k \in Key : table[k] = NoRow /\ garbage[k] # NoRow}

\* what replace_chains leaves of the dead chains: it passes over the key after one it
\* has deleted
LeftBehind ==
    LET present == Dead \cup {k \in Key : table[k] # NoRow}
        Before(k) == {p \in present : p < k /\ \A q \in present : q <= p \/ k <= q}
    IN  CHOOSE left \in SUBSET Dead :
           \A k \in Dead : k \in left <=> Before(k) \cap (Dead \ left) # {}

\* the last version of k's chain, whoever wrote it
LastVersion(k) ==
    LET drafts == {t \in Live : k \in DOMAIN txns[t].writes /\ txns[t].writes[k] # NoRow}
    IN  IF drafts # {} THEN txns[CHOOSE t \in drafts : TRUE].writes[k]
        ELSE IF k \in LeftBehind THEN garbage[k] ELSE table[k]

\* GC, then the last version of every chain goes to a file that replaces the old one
ReplaceCheckpoint ==
    /\ phase = "checked"
    /\ "neighbouring-dead-keys" \in Avoided => LeftBehind = {}
    /\ ckpt' = [k \in Key |-> LastVersion(k)]
    /\ garbage' = [k \in Key |-> IF k \in LeftBehind THEN garbage[k] ELSE NoRow]
    /\ phase' = "replaced"
    /\ acked' = Overlaid(acked, doubt)
    /\ doubt' = <<>>
    /\ UNCHANGED <<file, synced, wal, table, txns, nextId, bounds, reused>>

\* Mutant of ResetLog: the log is closed and opened again, but not truncated.
ReopenLog ==
    /\ phase = "replaced" /\ queue = <<>> /\ ~syncing
    /\ synced' = Len(file)
    /\ phase' = "running"
    /\ UNCHANGED <<wal, file, ckpt, tree, txns, nextId, bounds, history>>

\* WAL.reset, once close() has waited for the writer to empty its queue
ResetLog ==
    /\ phase = "replaced" /\ queue = <<>> /\ ~syncing
    /\ file' = <<>> /\ synced' = 0
    /\ phase' = "running"
    /\ UNCHANGED <<wal, ckpt, tree, txns, nextId, bounds, history>>

-----------------------------------------------------------------------------
(* Stops, crashes and recovery.                                            *)

GoDown(log) ==
    /\ phase' = "down" /\ queue' = <<>> /\ syncing' = FALSE
    /\ file' = log
    /\ table' = Empty /\ garbage' = Empty
    /\ txns' = [t \in TxId |-> None] /\ nextId' = 1
    /\ UNCHANGED <<ckpt, bounds, reused>>

\* shutdown, with everything aborted and the log closed
Stop ==
    /\ phase = "running" /\ Live = {} /\ queue = <<>> /\ ~syncing
    /\ GoDown(file)
    /\ synced' = Len(file)
    /\ acked' = Overlaid(acked, doubt)
    /\ doubt' = <<>>

\* The process dies: what is written survives, or after a power failure any part of
\* it from the start that holds the fsynced part.  The next start cuts a torn record
\* off, and all of the log with it when the record is longer than a block.
Crash ==
    /\ Up
    /\ phase = "replaced" => "crash-before-reset" \notin Avoided
    /\ \E n \in synced..Len(file), torn \in BOOLEAN :
          LET survivors == AtMost(Unsynced(n), doubt)
          IN  /\ torn => "long-torn-record" \notin Avoided /\ (n < Len(file) \/ queue # <<>>)
              /\ GoDown(IF torn THEN <<>> ELSE SubSeq(file, 1, n))
              /\ IF n = Len(file) /\ ~torn
                   THEN synced' = synced /\ doubt' = survivors /\ UNCHANGED acked
                   ELSE /\ synced' = IF torn THEN 0 ELSE n
                        /\ acked' = Overlaid(acked, survivors)
                        /\ doubt' = <<>>

\* Mutant of CommittedIn: every transaction in the log counts.
StartedIn(log) == {log[i].txid : i \in DOMAIN log}

\* read_wal: the ids with a commit record and no abort record
CommittedIn(log) ==
    {log[i].txid : i \in {j \in DOMAIN log : log[j].ty = "commit"}}
       \ {log[i].txid : i \in {j \in DOMAIN log : log[j].ty = "abort"}}

\* _apply_replay_record on the chains, each a sequence of versions that are dead or
\* not; a KeyError of the dict lookup makes the whole of it None
Replay(chains, r) ==
    IF chains = None THEN None
    ELSE LET chain == chains[r.key]
             old == IF r.ty = "insert" THEN chain
                    ELSE [chain EXCEPT ![Len(chain)].dead = TRUE]
             new == IF r.ty = "delete" THEN <<>> ELSE <<[row |-> r.row, dead |-> FALSE]>>
         IN  IF r.ty # "insert" /\ chain = <<>> THEN None
             ELSE [chains EXCEPT ![r.key] = old \o new]

\* the chains after _recover
Rebuilt ==
    LET committed == CommittedIn(file)
        Upto[n \in 0..Len(file)] ==
           IF n = 0 THEN [k \in Key |-> IF ckpt[k] = NoRow THEN <<>>
                                        ELSE <<[row |-> ckpt[k], dead |-> FALSE]>>]
           ELSE IF file[n].ty \in Data /\ file[n].txid \in committed
                THEN Replay(Upto[n - 1], file[n]) ELSE Upto[n - 1]
    IN  Upto[Len(file)]

\* positions of the versions that are not dead, and the row of the newest
LiveIn(chain) == {i \in DOMAIN chain : ~chain[i].dead}
RowOf(chain) ==
    IF LiveIn(chain) = {} THEN NoRow
    ELSE chain[CHOOSE i \in LiveIn(chain) : \A j \in LiveIn(chain) : j <= i].row

\* Mutant of NextIdAfter: the highest id is given out again.
NextIdFrom(ids) == CHOOSE n \in ids \cup {0} : \A i \in ids : i <= n

\* bootstrap_state
NextIdAfter(ids) == 1 + CHOOSE n \in ids \cup {0} : \A i \in ids : i <= n

Recover ==
    /\ phase = "down"
    /\ IF Rebuilt = None
         THEN phase' = "failed" /\ UNCHANGED <<tree, nextId>>
         ELSE /\ phase' = "recovered"
              /\ table' = [k \in Key |-> RowOf(Rebuilt[k])]
              /\ garbage' = [k \in Key |->
                    IF Rebuilt[k] # <<>> /\ LiveIn(Rebuilt[k]) = {}
                    THEN Last(Rebuilt[k]).row ELSE NoRow]
              /\ nextId' = NextIdAfter(CommittedIn(file))
    /\ reused' = {file[i].txid : i \in DOMAIN file} \ 1..(NextIdAfter(CommittedIn(file)) - 1)
    /\ UNCHANGED <<disk, wal, txns, bounds, acked, doubt>>

\* the constructor is done and sessions may come
Open ==
    /\ phase = "recovered"
    /\ phase' = "running"
    /\ UNCHANGED <<disk, wal, tree, txns, nextId, bounds, history>>

-----------------------------------------------------------------------------
Next ==
    \/ Begin
    \/ \E t \in TxId : (\E k \in Key : Write(t, k)) \/ RequestCommit(t) \/ Abort(t)
    \/ WriterWrites \/ WriterSyncs \/ Gc
    \/ StartCheckpoint \/ ReplaceCheckpoint \/ ResetLog
    \/ Stop \/ Crash \/ Recover \/ Open

Spec == Init /\ [][Next]_vars

(* The writer thread runs as long as the process does.                     *)
FairSpec == Spec /\ WF_vars(WriterWrites) /\ WF_vars(WriterSyncs)

-----------------------------------------------------------------------------
(* Properties.                                                             *)

TypeOK ==
    /\ file \in Seq(Record) /\ synced \in 0..Len(file) /\ queue \in Seq(Record)
    /\ ckpt \in Rows /\ table \in Rows /\ garbage \in Rows /\ acked \in Rows
    /\ phase \in {"running", "checked", "replaced", "down", "recovered", "failed"}
    /\ nextId \in 1..(MaxTxn + 1) /\ begun \in 0..MaxTxn /\ written \in 0..MaxWrites
    /\ reused \subseteq TxId
    /\ \A t \in Live :
          /\ txns[t].state \in {"open", "committing"}
          /\ DOMAIN txns[t].writes \subseteq Key
          /\ txns[t].born \in 1..begun

(* Recovery (wal.py:16-20, ARCHITECTURE.md 5.2) rebuilds the rows of       *)
(* exactly the transactions whose commit was acknowledged and of those     *)
(* whose commit record got to disk unanswered, in the order of their       *)
(* commits, all of each and nothing of any other; and it does not fail.    *)
RecoveryIsExact ==
    /\ phase # "failed"
    /\ phase = "recovered" => table = Overlaid(acked, doubt)

(* A primary key has one live version after recovery: a second one would   *)
(* come back when the newer is deleted.                                    *)
OneLiveVersion ==
    phase = "recovered" => \A k \in Key : Cardinality(LiveIn(Rebuilt[k])) <= 1

(* The checkpoint holds the committed rows and no others (database.py:169): *)
(* log and checkpoint together never say less than what was acknowledged.  *)
CheckpointIsExact == phase = "replaced" => ckpt = acked /\ table = acked

(* A commit request is answered unless the process dies: the committing    *)
(* thread waits for the writer without a timeout.                          *)
CommitIsAnswered ==
    \A t \in TxId :
       (txns[t] # None /\ txns[t].state = "committing") ~> (txns[t] = None \/ ~Up)
=============================================================================
