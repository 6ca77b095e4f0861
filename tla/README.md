# minidb in TLA+

minidb is an embedded relational database in Python: SQL front end, planner, tables on
B+ trees with multi-version rows, two-phase locking, a write-ahead log with a writer
thread, checkpoints and crash recovery. This directory models its transactional core,
the algorithms under it and the way of a query above it, checks the models with TLC on
small instances, and proves with TLAPS, for every instance, the safety of the lock manager,
of the deadlock search, of sessions, of crash recovery and of the planner's push-down, that
the version chains implement an abstract store, and that the B+ tree is a sorted map.

Paths below are relative to `src/minidb/` unless they start with `docs/` or `tests/`.

## Running it

    tlc -config LockManager.cfg LockManager.tla     # and so on, one .cfg per run
    tlapm LockManagerProofs.tla                     # and the other *Proofs modules

`PROJECT.json` lists the runs with the module each belongs to, a mutant of the code for
every property, the source lines behind every definition, the hazards and the findings.

## 1. The system

| Component | State | Operations | Modules |
|---|---|---|---|
| Lock manager, `txn/locks.py` | resources with holders and waiters; each transaction's own record of its locks; what it has escalated; `_meta` | `acquire_table`, `acquire_row`, escalation, `_detect_deadlock`, `release_all` | `LockManager`, `MCLockManager`, `WaitGraph` |
| Transactions, `txn/manager.py` | id counter, state of each transaction, pinned snapshots | begin, commit, abort, snapshots, `gc_tick`, shutdown | `Mvcc`, `Session`, `Recovery`, `LockManager` |
| Versions, `storage/table.py` | a chain of versions per key, in a B+ tree under a latch | insert, update, delete, visible scans, `gc`, `replace_chains` | `Mvcc`, `BPlusTree` |
| Write statements, `engine/executor.py` | none of their own | INSERT, UPDATE, DELETE, SELECT: plan, lock, look again, write | `Mvcc` |
| Write-ahead log, `txn/wal.py` | queue, log file, writer thread | append, `commit`, write, fsync, close, reset, `read_wal` | `Recovery`, `Session` |
| Recovery and checkpoint, `engine/database.py` | `checkpoint.json`, `wal.log` | checkpoint, close, recover | `Recovery` |
| B+ tree, `storage/bptree.py` | nodes, parent pointers, chain of leaves | insert, delete, lookup, range, scan | `BPlusTree` |
| Planner and joins, `engine/planner.py`, `engine/executor.py` | none (a plan is a value) | `plan_select`, key lookup, scans, nested loops, residual filter | `Planner`, `MCPlanner` |
| SELECT after the joins, `engine/executor.py` | none | filter, groups, HAVING, projection, DISTINCT, ORDER BY, OFFSET, LIMIT | `Select`, `MCSelect` |
| Expressions, `engine/expressions.py` and the evaluator of HAVING | none | evaluation in three-valued logic, `split_conjuncts` | `Expressions`, `Planner` |
| Sessions, `engine/session.py` | current transaction | BEGIN, COMMIT, ROLLBACK, a statement in its own transaction, close | `Session` |
| Schema and values, `storage/schema.py` | column types | `convert_value`, and = and < on what it yields | `Values`, `PlannerProofs` |
| SQL front end, `sql/` | position in the tokens | `parse_select`, `parse_expr` and below | `Parser`, `MCParser` |
| Command line, `cli.py` | none | prompt and output | no |

How they meet: a session runs each statement on its own thread, inside a transaction.
The executor asks the planner for a plan, the transaction manager for a snapshot, the
lock manager for locks, and then calls `Table` operations, each of which holds the
table's latch. The manager puts a record of each row written on the log's queue before
the row goes to the tree, and a commit waits for the log's writer thread to fsync. A GC
thread calls `gc_tick` in the background, and the checkpoint calls it too. The tree
knows nothing of transactions.

### What is hard, and what has to hold

- *Lock manager.* Many threads, a lock per resource and one around all of them: a grant
  is decided under one and recorded under the other. Conversion, escalation, errors and
  timeouts each must leave the two records of a lock in agreement; shutdown releases
  locks under running threads; a deadlock must be found, and blame only those in it;
  incompatible locks must not be held together.
- *Transactions and versions.* A statement reads, waits for locks, and reads again
  before it writes; one snapshot serves all tables, locks are taken table by table;
  rollback undoes nothing; GC runs in two halves. What a new
  transaction reads must change by whole commits only, and no write may be lost.
- *Log and recovery.* The process or the power can go at any moment; the last record may
  be torn; ids are given out anew after a restart. Recovery must produce what was
  acknowledged, plus at most what was durable and not yet answered.
- *B+ tree.* Splits keep parent pointers, deletions leave empty leaves and stale
  separators, and one caller deletes while it iterates. The tree must be a sorted map.
- *Planner.* Conjuncts move below joins, inner and left. The rows must not change.
- *Sessions.* A statement can raise anywhere, the disk can refuse a commit record, and
  shutdown aborts transactions from another thread. What a client was told must be what
  a crash leaves, no error may orphan a transaction or its locks, and COMMIT returns.
- *SELECT.* NULL takes part in every operator, in groups, in DISTINCT and in the order,
  and there are two evaluators of conditions. The answer is what SQL says it is.
- *Parsing.* Precedence is in the order nine methods call each other; what is accepted
  must be read as the documented grammar means it, with nothing dropped.

`PROJECT.json` lists these hazards at their lines, with the properties that would catch
each going wrong.

## 2. The modules

### WaitGraph: the search for deadlocks

`LockManager._detect_deadlock` as a depth-first search of a fixed wait-for graph, one
step per start, pop and edge. `stack`, `path` and `seen` are the locals of the code;
edges are followed in any order, since Python's iteration over a set of holders is in no
order to rely on. The run takes **every graph over four transactions**. Four is the
least number with two cycles that do not share a node and with a cycle behind another.
It shows that only transactions on cycles are collected, that no cycle goes unnoticed, and
that with up to three transactions on cycles the one returned is the youngest, since everyone
on a cycle of two or three is collected (`ShortCyclesAreBlamed`, which is proved). With four on cycles it need not be (an edge
already followed is not followed again along another path), so the code's "abort the
youngest" is a property of small deadlocks only.

### LockManager: locks

One thread per transaction. A `with self._meta:` block is one step; so is each look at a
resource under its `cv`. `pc` follows `_acquire`:

    idle -> check -> record                       granted at once
            check -> detect <-> recheck -> granted -> record
                     detect | recheck  -> failed  -> idle      victim, timeout

`CallTable`, `CallRow` and `CallEscalated` are the entries of `acquire_table` and
`acquire_row`; `RecordTable`, `RecordRow` and `RecordAndEscalate` their ends; `Leave` is
the `finally` that removes the waiter. `Victims` is what the search may return, and is
justified by `WaitGraph`. `orphan` says that a thread holds a resource object that was
dropped from the dictionary between its lookup and its first look. Events are left out:
a waiter polls every 0.25 s, so an event changes only when it looks.

`ReleaseAll` is commit or abort on the transaction's own thread, when no call is in progress.
`ShutdownReleases` is `TransactionManager.shutdown`, which aborts a transaction (one of the
constant `Stragglers`) from another thread wherever its own is, which then goes on: it may be
granted locks and record them, and its own end (`EndAfterShutdown`) releases nothing, since
the transaction is over. So `NothingLeaks` and `RowsUnderIntent` except the locks of
transactions in `aborted`. Without the exception TLC finds, in eight states, a thread between
the intention lock and its row: shutdown releases the one, the thread records the other, the
session ends, and the row stays locked for good, where the documentation has a failure release
the locks (`docs/ARCHITECTURE.md:233`). All else (that the two records agree, waiters, `_meta`,
the bound on rows, exclusion) holds of those transactions too.

`overlapped` is a history variable. A grant is decided under `res.cv` and recorded under
`_meta` later, and two threads may both decide before either records (`locks_exclusion`
shows the result). `CompatibleUntilOverlap` says that nothing else breaks exclusion:
until two grants on one table have overlapped, holders are compatible.

### Store and Mvcc: rows

`Store` is the abstract specification: one committed row per key, a draft per
transaction of the keys it has locked; `Commit` publishes the whole draft. A row is the
set of transactions whose writes it includes, so a lost update shows as a missing
element.

`Mvcc` is the code: version chains with `xmin` and `xmax`, `version_visible`,
`snapshot_for` and the snapshot taken after locking, `Table.insert/update/delete` on the
last version, and statements in the executor's steps. `Plan` chooses rows under one
snapshot, `Apply` waits for their locks and writes under another; `LockMoved` and
`MoveOnto` are the two halves of an UPDATE of a primary key; `LockFails` ends a statement
that was a deadlock victim, with the locks it got kept. `GcScan` and `GcReplace` are the
two halves of a GC pass. The module has one table. What the others can do to it is to pin the
snapshot of a SERIALIZABLE transaction, one for all tables, without a lock here
(`PinElsewhere`: any statement on other tables, and SELECT without FROM); `Select` takes the
S lock and reads under the snapshot that is pinned by then. Lock grants are one step (see `CompatibleUntilOverlap`), and row
locks do not escalate: a statement here locks two rows at most.

The refinement maps `store` to what the next transaction would read and `draft` to what
a transaction reads in the keys it has locked. The run checks `Store!Spec` as a property.

### Recovery: the log and the checkpoint

The disk (`file`, `synced`, `ckpt`), the queue and the writer thread, and of the tree
just what the checkpoint can tell apart: the committed row of a key, drafts of it, and
the last version of a dead chain that is still there. `WriterWrites` and `WriterSyncs`
are the writer's loop; a commit is acknowledged in `WriterSyncs`. A checkpoint is three
steps, as in the code: the test for open transactions, the replacement of the file, the
reset of the log. `Crash` is possible in all of them and keeps any part of the log
between what is fsynced and what is written; a killed process keeps all that is
written, because the file is line-buffered. `Recover` is `read_wal` and the replay,
with the `KeyError` of a record whose key is gone as a phase `failed`.

`acked` and `doubt` are history: the rows after the commits that were acknowledged, and
the commits requested since. `RecoveryIsExact` says that recovery yields `acked` with
what was durable of `doubt` on top: all or nothing of each transaction.

### BPlusTree and MCBPlusTree: the index

The tree is a value and each operation an operator that follows the code: the binary
searches, leaf and internal splits, `insert_in_parent` with parent pointers, `delete`
with `collapse`, lookups, `range` and `items` over the chain of leaves, and the loop of
`replace_chains`. Loops and recursive calls are recursive functions: of the number of passes
(`Bisect`, `Climb`, `collapse`, `Sweep`) or of the place in the tree (`Descend`, `Yield`). Where
`_insert_in_parent` and `_split_internal` call each other, `Climb` makes one `Call` after the
other, each a level higher, up to the one that returns. The history variable `map` is a sorted
map that went through the same operations. `MCBPlusTree` starts from trees of order 3 (the least order) that are
already grown, along strides (ascending, descending and mixed insertion orders) up to
22 of 23 keys, with three levels, and with some leaves emptied by five deletions.

Two facts the proofs establish on the way: an internal node always keeps a key, so
`collapse` never does anything; and `replace_chains` steps over the key after one it
deleted, so a sweep leaves up to half of the dead keys (`SweepTakesHalf`). `min_key`
returns `None` when the leftmost leaf is empty; it has no caller and is left out.

### Planner and MCPlanner: joins

`Plan` is `plan_select`: WHERE conjuncts go to the first scan that can have them (never
to the right side of a left join), ON conjuncts to the first scan, to the join, or,
when they are about the joined table alone, nowhere. `ScanFirst`, `JoinNext` and
`Filter` run it, next to the same query without push-down (`full`). `PlanIsEquivalent`
compares the two results, `NothingIsMadeUp` each join on the way: a row that a pushed
filter removed must not return as an outer row. `MCPlanner` has every query of three
tables over a stock of 7 x 4 x 11 clauses and the four mixes of joins, over tables of
up to two rows, with NULLs, with qualified and unqualified names.

`Planner` extends `Values`: keys and literals have types. `KeyOf` is the conversion in
`_pk_eq_key`, by which `id = '1'` or `id = TRUE` becomes a lookup; a second stock of
queries asks columns of each type for literals of each type. `Broken` has the two ways
a scan can raise: an AND with a missing predicate, and a key that does not compare.

### Values: what columns store

`Converted` is `convert_value`. A number is its type and its amount in halves (so that
some are whole and some are not), a text is known by what it spells: a number, a bool,
or nothing. `Equal` is Python's `==`, by which `TRUE` equals 1 and 1.0, and `'1'` equals
neither; `Comparable` says where `<` does not raise.

### Session: sessions, commits and shutdown

A session's thread, with `pc` as in `Session.sql` and `TransactionManager`:

    idle -> run -> waiting -> publish -> release -> idle     commit
            run -> abort -> unpublish -> idle                error, rollback
            run -> idle                                      inside BEGIN

Here the parts of `commit` are steps of their own: the record on the queue, the writer's
answer, the state, the locks. `abort` logs first, then sets the state and frees the
locks. `Statement` begins a statement, in a transaction of its own if none is open;
`Raise` may end it at any point. `WriterPersists` and `WriterRefuses` are the writer
thread up to the next commit record; when the disk refuses, the record is in the file or
it is not, `COMMIT` raises, and a single statement's transaction is aborted behind it,
while an explicit one stays open and can be committed again. `Shutdown`, `ShutdownAborts`
and `CloseLog` are `Database.shutdown(checkpoint=False)` while sessions go on. `CREATE
TABLE` puts its table into the catalog at once, whatever becomes of its transaction.

A crash is no step: `OutcomeIsKept` and `LogIsReplayable` quantify over every log that
could be found after one (`Survivors`). `HolderIsCurrent` is the reason for the order of
the parts: whoever gets a row's lock finds memory and log in agreement about it.

### Expressions, Select and MCSelect: the rest of a SELECT

`Evaluate` is `evaluate`, `HavingValue` the other evaluator. `Select` takes the rows of
the joins through the stages of `_select_from`, one step each: `Filter`, then `Group`
and `Reduce` or `Project`, `DropDuplicates` before or after `Order`, and `Slice`.

The reference is written apart from the code: truth is a number (2, 1 for unknown, 0),
AND a minimum, NOT a difference; a query's units are sets of places in the input, and a
row's rank is how many units come before it. `ConditionsAreKleene` compares conditions,
also where only NOT would tell unknown from false; `AnswerHasTheRows` the multiset of
rows before paging; `PageIsRanked` the page. `MCSelect` has some 3300
conditions two operators deep on single rows, and some 400 combinations of groups,
HAVING, aggregates, DISTINCT, order and page on all inputs of up to three rows of two
columns with NULLs; grouping also on one input of four rows in three groups.

### Parser and MCParser: the descent

`Parsed(level, i)` are the methods from `parse_expr` down to `_parse_primary`, one level
each, `Select(i)` is `parse_select`; both return a tree and where they left off. `Written`
is the reference, the grammar in the module's header turned into a printer: it puts
parentheses exactly where a part binds less closely than its place asks.

Texts come about in two ways. `Type` appends any token, so that the run sees *every* text
of up to four tokens of thirteen after `SELECT * WHERE`. `Combine` and `Ask` build a form and
write it: two operators over operands of every level, and every combination of clauses.
`ReadAsMeant` says that a written form is parsed back to itself, `NothingIsDropped` that
of a typed text that is accepted every token is in the tree.

## 3. The runs

| Run | Instance | Shows |
|---|---|---|
| `wait_graph` | every graph of 4 transactions | no false victim, no missed deadlock, the youngest of up to three |
| `locks` | 3 transactions, of which shutdown may abort one, 1 table, 2 rows, threshold 2 | the records agree, nothing leaks, two-phase, bounded row locks, exclusion until overlap |
| `locks_live` | the same with row X locks, without shutdown, under fairness | every call returns without a timeout |
| `mvcc` | 3 transactions, 2 open at once, 2 keys, one SERIALIZABLE | `Mvcc` implements `Store`; pinned reads repeat, and are current under S |
| `recovery` | 3 transactions and 3 logged statements over all lives, 2 keys | recovery is exact, checkpoints are exact, commits are answered |
| `bptree` | order 3, up to 22 keys, two operations | the tree is the sorted map |
| `planner` | 3 tables; columns and literals of every type | plans are equivalent to their queries |
| `sessions` | 2 sessions, one with BEGIN; 2 transactions, 2 data records, one refused commit record, one shutdown | outcomes survive a crash, holders are current, nothing is orphaned, the log can be replayed, COMMIT returns |
| `select` | inputs of up to 3 rows with NULLs | conditions, groups, DISTINCT, order and pages are SQL's |
| `parser` | texts of 4 tokens; forms of 2 operators and of all clauses | what is written is read as meant, what is accepted is read whole |

and two that end in a counterexample; each contradicts a line of the documentation or
of a comment, quoted under "findings" in `PROJECT.json`:

| Run | The code |
|---|---|
| `locks_exclusion` | decides a grant and records it in two critical sections, so two transactions can hold X on one row (the run has row locks only; IX beside S on a table comes about in the same way) |
| `recovery_reused_ids` | gives ids out again after a crash while records of their first owners are in the log |

`BPlusTree`, `WaitGraph`, `Planner`, `Select` and `Parser` have no type invariant of their
own in the runs: their properties compare the whole result with a reference, and
`WellFormed` has the shape of the tree.

### Bounds, and why they are enough

- *Locks.* Three transactions are needed for a cycle that one more waits behind, and for
  a conversion between two holders. Two rows and threshold 2 give the escalation with
  and without its upgrade to X, and the call that waits with `_meta` owned. More would
  not add a kind of step, and the proofs (section 4) hold for any number.
  `TableModes = {IX, S}` and `RowModes = {X}` are what the executor passes; IS comes only
  from row S locks, which it does not use. `Stragglers` has one transaction, to have
  shutdown at every point of it while two others go on, an older and a younger one. The rows
  are symmetric: nothing tells them apart.
- *Versions.* Three ids give a writer, one that comes after it and a GC horizon; two keys
  give the move of a row and neighbours for the sweep. Two open at once keep the state
  space small; a third would add only waiting. One SERIALIZABLE transaction is enough
  for a snapshot that is older than a commit, a lock, or what GC takes.
- *Recovery.* Three transactions give one before a crash, one after, and a reuse of the
  id; three statements give insert, update and delete of one key in different lives.
  The number of crashes, checkpoints and stops is not bounded.
- *Sessions.* Two sessions and two ids give a writer and the one who waits for its lock,
  with shutdown as a third thread; one refused record is retried or aborted; two data
  records are a row in the new table and one elsewhere, or a CREATE TABLE and a row.
- *SELECT.* Three rows are the least with two equal ones and a third between them or in
  another group; two numbers and NULL are all that comparisons tell apart.
- *Parser.* A text of four tokens has every pair of operators next to each other with an
  operand; two operators are enough for precedence and associativity, which are about
  pairs, and the operands of `Combine` add a third.
- *B+ tree.* Two operations after growth, since the growth itself is a long sequence of
  insertions; each stride is another tree shape.

### Situations that are kept out

A model that goes wrong in a known way would report nothing else. So `Mvcc`, `Recovery`,
`Session`, `Planner`, `Select` and `Parser` have a constant `Avoided`: each name in it is a guard that keeps one
situation out, at the action where it begins or of the input it is about. The passing runs avoid all; with any one
of them taken out, a property fails. What holds is therefore exactly: *outside these
situations, the properties are true.*

`Mvcc`:

- "write-before-read": a SERIALIZABLE transaction writes without having read first
  (`engine/executor.py:333`).
- "delete-after-rollback": DELETE of a row that a rolled-back transaction has stamped
  (`storage/table.py:138`).
- "move-onto-a-new-key": UPDATE moves a row onto a key that was committed after the
  snapshot it checks with (`engine/executor.py:263`).
- "write-during-gc": a write between the halves of a GC pass (`storage/table.py:231`).
- "stale-snapshot": a SERIALIZABLE transaction reads the table under a snapshot that it pinned
  elsewhere, before the table's last commit (`txn/manager.py:175`). The S lock it gets keeps
  others out, but does not make the snapshot current: t2 pins it by `SELECT 1` while t1 has an
  insert open, t1 commits, t2 selects under S, does not see the row and inserts its key again.
  Two versions are visible then (`OneVersionIsVisible`); an UPDATE instead loses that of t1.
  `docs/ARCHITECTURE.md:158-159` and `txn/manager.py:17-20` say that the S lock comes before the
  snapshot and makes schedules serializable; that is so for the first statement only.
- "gc-under-a-snapshot": a GC pass finds a version reclaimable that is seen in a pinned
  snapshot (`storage/table.py:223`). t2 pins it elsewhere while t1 is open, t1 updates a row and
  commits; the oldest open transaction is then t2, so GC takes the version t1 replaced, and the
  row is gone from t2's snapshot (`PinnedReadsRepeat`). `storage/table.py:208-210` says that a
  version goes when every transaction that could still see it has finished.

A snapshot that is pinned elsewhere, before or after commits here, is *not* kept out: only
reading this table under it once it is out of date, or a pass of GC that takes what it sees.

`Recovery`:

- "commit-under-a-reused-id" (`txn/manager.py:229`; run `recovery_reused_ids`).
- "long-torn-record": the cut of a torn tail longer than a block takes the whole log
  (`txn/wal.py:89`).
- "write-error": the writer swallows an error in a data record (`txn/wal.py:155`).
- "crash-before-reset": a crash between the replacement of the checkpoint and the reset
  of the log (`engine/database.py:187`).
- "neighbouring-dead-keys": the checkpoint meets a dead row its GC stepped over and
  writes it as a live one (`storage/table.py:198`).
- "begin-during-checkpoint": a transaction starts after the test for open ones
  (`engine/database.py:167`).
- "shutdown-during-commit": shutdown aborts a transaction whose commit is queued
  (`txn/manager.py:255`).

`Session`:

- "shutdown-during-commit": as in `Recovery`, here also what the client was told.
- "table-of-a-transaction-not-committed": a session writes to a table whose CREATE TABLE
  another one has not committed, and may roll back (`engine/database.py:75`).

`Planner`:

- "ON-about-the-joined-table-alone": such conjuncts go to a list that nothing reads
  (`engine/planner.py:165`).
- "ON-about-the-first-table-no-WHERE": a missing WHERE counts as a conjunct `None`
  (`engine/expressions.py:280`).
- "name-of-an-earlier-table-pushed-on": a name without a table resolves to the first table
  that has it, but its conjunct is pushed to the first one, not left-joined, that has *all*
  its names (`engine/planner.py:152`). With `x` in t1 and t2, `x = t2.id` filters by t2.x.

`Select`:

- "IS-NULL-in-HAVING", "IS NOT NULL" too: they come out as their operand
  (`engine/executor.py:681`).
- "NULL-as-a-bound-of-BETWEEN": unknown, also where the other bound decides
  (`engine/expressions.py:163`).
- "NULL-among-members", "NULL-in-no-members": IN with a subquery that returns NULL, and
  NULL IN a subquery without rows (`engine/expressions.py:244`).
- "literal-beside-aggregates-of-nothing": NULL instead of the literal
  (`engine/executor.py:664`).
- "groups-of-DISTINCT-ordered-by-what-it-drops": groups are ordered before DISTINCT
  (`engine/executor.py:389`), so the order decides which of the equal rows stays; plain
  rows go the other way round, and the first of the equal rows stays.
- "ordinal-beyond-the-columns": SQL rejects it, the code orders by NULL, or for the ordinal 0
  by the last column (Python's index -1).

`Parser`:

- "NOT-before-a-comparison": `a NOT = b` is read as `a = b` (`sql/parser.py:452`).

Three more that need no guard: a COMMIT queued behind the end mark of `WAL.close` is never
answered (`EndReturns` excepts it), `acquire_row` on an escalated table waits with `_meta`
owned, which stops the whole lock manager until the timeout (`EveryCallReturns` excepts
it), and `_escalate` drops the row locks before it has the table lock (`StrictTwoPhase`
admits it).

Shutdown needs no guard in `LockManager` either: what it leaves locked is excepted by name, as
section 2 says. In `Session` a statement may go on writing after shutdown has aborted its
transaction: what clients were told, the log and the statuses are checked then too, but
`NothingIsOrphaned` speaks only of the time until shutdown is called.

### Fairness

- `LockManager!FairSpec`. Weak fairness of each thread's `Step`: a thread that is inside
  the lock manager is scheduled again. Strong fairness of `ReleaseAll`: a client commits
  or rolls back in the end although `_meta` is taken from time to time. `Timeout` has no
  fairness, on purpose: detection must be enough.
- `Recovery!FairSpec`. Weak fairness of the two steps of the writer: its thread loops as
  long as the process runs. Nothing else is fair: sessions, checkpoints and crashes may
  happen or not.
- `Session!FairSpec`. Weak fairness of `EndStep` for each session, the steps inside commit
  and abort that wait for nobody, and of `WriterPersists`, the writer's loop while the
  disk takes its records. No statement, client or shutdown is fair, nor is a refusal.
- The other modules have safety properties only.

`CHECK_DEADLOCK FALSE` is set where the system may stop: all transactions ended, a search
or a query finished, a bound reached. `Recovery` is checked for deadlock: it can always
stop and start again.

## 4. The proofs

Each `*Proofs` module EXTENDS the module it is about, under that module's named assumptions
on its constants, which TLC evaluates in the runs; `DataProofs` has the facts about numbers,
sequences and recursive functions that they share. Every inductive invariant was checked by TLC on the run's
instance before it was proved (that of the B+ tree with the ranges computed from the tree). Where a theorem says `AllAvoided`, or names a situation, it
assumes that `Avoided` has it: as section 3 says, without any one of them a property fails.

### Locks

`LockManagerProofs` proves ten theorems about `LockManager`, for all values of the
constants under the assumptions that module names: `TxnAssumption` (a finite set of
numbers), `SlotAssumption` (`Whole` is no row), `ModeAssumption`, `ThresholdAssumption` and
`StragglersAssumption`. So shutdown may abort any of the transactions, at any point. TLC evaluates the assumptions in the runs.

- `TypeCorrect`: the type invariant. It needs `CallShape`, which says that a thread inside
  a call knows its call and the lock it is after.
- `Inductive`: `IInv` always holds. `IInv` is the type invariant and, for each transaction,
  `ThreadInv`: its waiter entry matches its `pc` (`Queued`), its two lock records agree
  (`Booked`), nothing is left after the end (`Emptied`), `_meta` is owned only for an
  upgrade (`Owning`), row locks have their intention lock, the one being acquired
  included (`Intended`, `RowCall`), and row locks are below the threshold (`Bounded`).
  `Emptied`, `Intended` and `RowCall` except transactions in `aborted`, whose locks shutdown
  takes in the middle of a call.
  None of the safety properties is inductive without the others: the release of all
  locks is complete *because* the records agree, and the intention lock is still there
  when the row is recorded *because* conversion only strengthens and escalation empties
  the rows.
- The argument is by thread. `Frame`: a step of one thread leaves another's part of the
  state, and so its `ThreadInv`, alone; `ShutdownReleases` is a step of the thread whose
  locks it takes, seen from the others. Then one lemma per action that changes a lock
  (`RecordTableKeeps`, `RecordRowKeeps`, `EscalateKeeps`, `ReleaseKeeps`), and
  `QuietSteps` for the rest.
- `LocksAreRecorded`, `EndedLeavesNothing`, `WaitersMatchLoops`, `IntentAboveRows`,
  `RowLocksBelowThreshold`, `MetaIsForUpgrades` are the run's invariants, from `IInv`.
- `LocksAreTwoPhase` is the action property: `IInv` gives that what is recorded covers
  what was held.
- `ExclusiveUntilOverlap`: with the modes the program uses (no IS on request, no row S),
  holders are compatible as long as no grants overlap. The strengthening `ExclInv` adds
  that a thread between its grant and its record could still be granted (`GrantsHold`):
  while no other grant overlaps, nobody can have recorded a conflicting lock.

### Values

`PlannerProofs` proves two theorems for every column and every value, from `ValueAssumption`
alone (NULL and the conversion error are no values), which the `planner` run evaluates.
`StoredHasTheType` is the lemma under both: what a column stores has the column's type.

- `StoredOnce`: a stored value converts to itself, so that rows that are read and written
  back, and keys that are looked up, do not drift.
- `LookupFindsTheRow`: a literal that equals a stored key converts to that key, or to none
  (and then the table is scanned). This is why replacing `id = literal` by a lookup loses no
  row, whatever the types; `PlanIsEquivalent` has it inside whole queries.

### The deadlock search

`WaitGraphProofs` proves, for graphs of any size, that the search blames only transactions
on cycles (`BlamesOnlyCycles`) and ends without a victim only if there is no cycle
(`FindsEveryDeadlock`). The invariant has two parts besides the types: `Walks`, that the
paths on the stack are paths of the graph (so an edge back to the path closes a cycle), and
`Thorough`, that while nobody is blamed no start the search is done with is on a cycle: what
it has met from the start is still on the stack, or has all its edges followed and none of
them to the start, so there is no way back (`WalkStays`, an induction along the path).

`BlamesShortCycles` says that everyone on a cycle of two or three is blamed. Of such a cycle d,
t, u the search from d has, until t is blamed, something pending that will blame it (`Pending`):
a path to t from where the edge to u is not yet followed, or a path by t to u with the edge
back to d. An edge that closes a cycle blames the end of the path and the one before it
(`EndIsBlamed`), so whatever closes at t or at u has t. `SmallDeadlockEndsTheYoungest` follows,
because with at most three transactions on cycles each of them is on a short one
(`CyclesAreShort`); `TxnAssumption` says that there are finitely many transactions.

### Versions

`MvccProofs` is about any number of transactions, keys, sessions and passes of GC, under
`AllAvoided`. It has two halves.

*One chain.* What is read of a chain depends on the set S of writers that count: `LiveIn` are
the live versions, `ViewOf` the row of the newest. `ChainOK` says what a chain looks like
between two operations when its lock is held by `o`: only 0, ended transactions and `o` have
written to it (`Written`), each one at most one version (`OneEach`), and every version is
stamped by whoever came after, unless its own writer rolled back (`Linked`); `Decided` says
that a version that is seen makes an older one dead, or is followed by one that is live, both
for a new transaction and for `o`. `InsertKeeps`, `UpdateKeeps`, `DeleteKeeps`, `CommitKeeps`
and `AbortKeeps` show that each operation keeps this and what it does to what is read.
`CopyIsLeft` shows by induction that a GC copy is the chain without some dead versions
(`Left`), and `LeftKeeps` that nobody reads the difference.

*The system.* `Inv` adds to `ChainOK` of every chain (`ChainInv`): the locks are those of
active transactions, and a SERIALIZABLE reader keeps other writers out (`LockInv`); whoever
has not ended is either in the `active` of a pinned snapshot or too young for it, so that no
commit changes what it counts (`Fixed`, in `PinInv`); what has been written since the snapshot
of a *reader* was pinned it has written itself (`PinInv` too: this needs "stale-snapshot", for
a snapshot may be older than the lock); a row that is on its way to another key is locked
(`MoveInv`); the copies of a GC pass still fit (`GcInv`), and every pinned snapshot reads in
them what it reads in the chains (`CopyInv`, which needs "gc-under-a-snapshot" at the scan).
`InvReads` turns `Inv` into what every transaction reads.

- `ChainsTypeCorrect` and `KeysAreUnique` (one visible version) follow from `Inv`, as does
  `ReadersStayCurrent`.
- `ReadsRepeat` is the action property. It is about every pinned snapshot, also one without
  a lock on the table, so locks are no help: writers come and go beneath it. A write changes
  nothing for whoever does not count its writer (`Hides`; `LeavesReads` for the copies of GC),
  a later commit is not counted (`Fixed`), and what GC puts back reads the same (`CopyInv`).
- `ChainsImplementTheStore`: `Spec => Store!Spec` under the mapping of `Mvcc`. `StatementStep`
  reduces each statement to what it changes in each chain, `WriteIsWrite` makes that a
  `Write` of the store, `EndIsEnd` makes COMMIT a `Commit` and ROLLBACK an `Abort`, and
  `RestIsStutter` shows that BEGIN, reading and both halves of GC leave the store alone.

### Sessions

`SessionProofs` proves all the safety the `sessions` run checks, for any number of sessions,
transactions and rows, in four invariants that build on each other:

- `SessionInv`: ids are used in order, every active transaction has an owner, and each `pc`
  fits the status of the session's transaction. `TypeCorrect` and `LeavesNothingBehind`.
- `LogInv`: a logged write is that of a transaction that holds the row's lock, has committed,
  or has its abort logged; a logged commit is known in memory or still undecided. This is
  what the order of the steps in commit and abort is for, and gives `LocksCoverTheLog`.
- `KeptInv`, if shutdown meets no commit ("shutdown-during-commit"): a transaction that waits
  for its commit stays active, what memory shows as committed is fsynced, what has an abort
  record is aborted. `EndsOnce` and `CrashKeepsOutcomes`, the latter for every log that a
  crash may leave.
- `TableInv`, if also nobody writes to a table that is not committed: the record of a table
  is before those of its rows. `LogsAreReplayable`.

### Recovery and the checkpoint

`RecoveryProofs` proves all the safety the `recovery` run checks, under `AllAvoided`, for any
keys, any number of transactions and statements, and any sequence of crashes, power failures,
stops and checkpoints: `TypeCorrect`, `NothingIsLostOrMadeUp` (recovery is exact and does not
fail), `NoVersionComesBack` and `CheckpointHoldsTheCommitted`. Besides the assumptions on keys
and bounds it uses `NoneAssumption`: `None` is neither a transaction nor a set of chains.

*One log.* What is in the file and what the writer has not taken yet are one log, `Log`; only
the fsync and a crash tell them apart. `Val` is the row of a key after the first n records: that
of the last write by a transaction that counts, or the checkpoint's. Five facts about a log
make replay work:

- `Once`: a transaction that commits has one end, so no abort record takes its commit back.
- `Ordered`: whoever's write counts has committed before another writes the same key. Row
  locks give this, and it is why replaying in the order of the *records* yields the result of
  the order of the *commits*.
- `Fits`: a write is logged as an insert exactly when its writer saw no row. Since the log is
  `Ordered`, what the writer saw is what replay finds, so no KeyError and no second version
  (`ReplayKeeps`, and `RebuiltIs` by induction along the log).
- `Sums`: at every record behind the fsynced ones, what replay up to there gives is `acked` with
  as many of the commits in `doubt` as are in the log by then. This is for *every* record, as
  a crash may cut anywhere: `SumsCut` is the crash, `SumsForward` the fsync.
- `Tells`: the log has of an open transaction just its writes, the last on each of its keys.

*The system.* `Inv` says this of `Log`, and besides: ids are below the next one, or of those
that are given out again without having committed (`IdInv`); whoever's commit is behind the
fsync waits for it (`PendingInv`); the table is what is durable and in doubt, except for the
rows of those that wait (`TableInv`). There is one lemma per action; those of the checkpoint are
short, because it starts without open transactions, and `Reading` gives what recovery reads
in the form of the results.

### The planner

`PlannerProofs` proves `PushDownIsEquivalent` and `PushDownMakesNothingUp`, under
`AllAvoided`, for any number of tables, any contents whose keys are unique and as stored,
and any conjuncts over two columns. The invariant (`PlanInv`) relates the two executions:
after each join, `left` is `full` without the rows that a conjunct already pushed rejects
(`Pruned`), and every row of `full` meets the ON conditions that went to the first table. The steps rest
on three facts: the pushed conjuncts of the first or an inner-joined table mean the same on
its rows and on joined rows; a filter on the left side of a join of either kind may come
before it; and a key lookup finds the row a scan would (`LookupFindsTheRow`).

The first attempt at this proof failed where it had to: the situation that was kept out then
was about left joins only, and the step for inner joins could not be proved. A name of an
earlier table can be pushed onto a later one there too, and TLC confirmed it once the
stock of clauses had such a conjunct.

### The B+ tree

`BPlusTreeProofs` proves all that the `bptree` run checks, for every order from 3 on, every
finite set of keys (`OrderAssumption`, `KeyAssumption`) and any sequence of inserts, deletes
and passes of `replace_chains`, from the empty tree: `TreeIsWellFormed`, `TreeReadsAsTheMap`
and `SweepsTakeHalf`. Lookups and scans go down by the separators or along the chain, deletion
leaves both as they are, and splits go up by the parent pointers, so the properties say too
little about the nodes in between to be inductive. The invariant (`TreeInv`, by `TreeKept`) is:

- `Fits`: there is a frame, which gives every node a range of keys and a level. The keys of a
  node are in its range and divide it among its children (`Starts`, `Stops`), which have it as
  their parent; leaves are at level 0; the root has the range of all keys. What is stored may
  be less than the ranges, and that is why deletion keeps it: a separator whose key is
  gone still divides.
- `LeavesFit`: the ranges of the leaves do not overlap, the chain goes on where a range ends,
  and the pairs in the leaves are those of the map.

*Searching.* `BisectDivides`: n passes find the slot where the predicate changes. `DescendIs`:
the walk ends at the leaf whose range has the key, by induction over the level; so if the map
has the key, that leaf has it, at the slot `FindIs` says.

*Inserting.* Between `split_leaf` and the last call of `insert_in_parent` the tree does not
fit, and `Fits(t, g, l, x, q)` says how: the call for the new node `x`, split off from `l`, is
due, so the parent sees the range of both as that of `l` (`Top`); `q` may have a key too many.
`JoinFits`: a call puts `x` where it belongs, and leaves at most its parent too full.
`SplitFits`: splitting that (or a leaf) makes a call due a level higher; `NewRootFits`: the call
at the root ends it. None of them touches what the leaves hold (`SameLeaves`), and `ClimbFits`
says that as many calls as there are nodes are enough, as each is a level higher.

*Deleting.* `DeleteFits`: the frame stays. A node that is no leaf keeps a key, so the
root never collapses (`CollapseIs`).

*Reading.* `Edge` says that a slot of a leaf is past the keys below some e, and those alone.
From an edge `Yield` goes to the next key or the next leaf, which has the same edge, and
`Ahead`, which looks at the keys and ranges still to come, falls (`AheadFalls`); `YieldIs`
follows by induction on it, however many empty leaves lie between.

*Sweeping.* The invariant of the loop (`Passing`) is that it has passed no more dead keys than
it has deleted: the slot after a deleted key is past that key and at most one more
(`EdgeAfterDelete`). Each pass gets past a key or a leaf, so as many passes as there are of
both are enough, as the model assumes (`SweepFits`).

Everything here is about recursive functions over data. The library's induction theorems for
those take an operator, so `DataProofs` has the induction once for sets: `LoopExists` (a loop
whose passes each go from one set of states to the next) and its like for walks down levels
and along chains, which `BPlusTreeProofs` uses for all of the above.

### Only model-checked

- Liveness (`EveryCallReturns`, `CommitIsAnswered`, `EndReturns`), which needs ENABLED.
- What RECURSIVE operators compute, out of the prover's reach: expressions and SELECT
  (`ConditionsAreKleene`, `AnswerHasTheRows`, `PageIsRanked`), the parser (`ReadAsMeant`,
  `NothingIsDropped`).

## 5. Not modelled

- The lexer, and the statements other than SELECT: flat lists of tokens without nesting or
  precedence. The command line: input and output around one session.
- Of values: NaN, the loss of digits in large floats, the checks of CREATE TABLE, the case
  of names (`has_column` and `column` are case-sensitive where their callers lower-case).
- Of expressions: LIKE, UPPER, LOWER, `*` and `/`, AVG, texts, and what raises; the rows of a
  subquery are a set that is given, so correlated subqueries are left out.
- Of SELECT: EXPLAIN, `*` in projections, and what a query without FROM returns.
- Of the catalog: the schemas in a checkpoint; and the counters for hidden row ids.
- A checkpoint at shutdown while sessions go on (`Recovery` has shutdown and checkpoint
  without other sessions, `Session` has sessions without the checkpoint).
- Escalation inside `Mvcc`, and shutdown under a running statement there (`Session` and
  `LockManager` have it).
- Several tables in `Mvcc` and `Recovery`. Transactions over different tables meet in the
  wait-for graph, which is `WaitGraph`'s; in the pinned snapshot, which `Mvcc` has for one
  table as seen from it (`PinElsewhere`), so properties that relate the rows of two tables to
  each other are not stated; and in the log, where `Recovery` tells keys apart and no more.
- The reads of subqueries: they take the snapshot of the outer statement and no S lock
  (`engine/executor.py:339`), change nothing, and what they return may be out of date.
- Races inside the Python runtime (a dictionary that grows while it is iterated over).

## 6. Plan

All safety that the passing runs check is proved, except for `Select` and `Parser`. Both compute
over trees of expressions with RECURSIVE operators. The next step would be theirs: expressions
as nodes with indices, as the B+ tree has them, so that evaluation and printing become
recursive functions to which the lemmas of `DataProofs` apply. For the evaluation of conditions
that is an induction over levels like `DescendIs`; for the parser it is one over the text that
is left, in nine functions that call each other.
