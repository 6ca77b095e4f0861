------------------------- MODULE LockManagerProofs -------------------------
(***************************************************************************)
(* What the lock manager guarantees for every set of transactions, tables  *)
(* and rows, every threshold and every choice of modes: its two records of *)
(* a lock agree, waiters and wait loops match, row locks stand under their *)
(* intention lock and below the threshold, and _meta is only kept for an   *)
(* upgrade.  Shutdown may abort any of the transactions at any moment; two *)
(* of the properties are about the transactions it has not.                *)
(***************************************************************************)
EXTENDS LockManager, FiniteSetTheorems, TLAPS

USE TxnAssumption, SlotAssumption, ModeAssumption, ThresholdAssumption

(* A thread inside a call knows its call and the lock it is after, which is *)
(* that call's or the intention lock of its table.                         *)
CallShape ==
    \A t \in Txn :
       /\ pc[t] \notin {"idle", "ended"} =>
            /\ goal[t] \in Request /\ want[t] \in Request
            /\ goal[t].tab = want[t].tab
            /\ \/ goal[t] = want[t]
               \/ /\ goal[t].slot # Whole /\ want[t].slot = Whole
                  /\ want[t].mode = Intent(goal[t].mode)
            /\ goal[t].slot # Whole => goal[t].mode \in {"S", "X"}

TypeInv == TypeOK /\ CallShape

(* The system starts well-typed.                                           *)
LEMMA InitType == Init => TypeInv
<1> SUFFICES ASSUME Init PROVE TypeInv
  OBVIOUS
<1>1. holders \in [Table -> [Slot -> [Txn -> Held]]]
  BY DEF Init, Held
<1>2. TypeOK
  BY <1>1 DEF Init, TypeOK, Held, PC
<1> QED
  BY <1>2 DEF Init, TypeInv, CallShape

(* An upgraded lock has a mode.                                            *)
LEMMA JoinedType == ASSUME NEW h \in Held, NEW m \in Mode PROVE Joined(h, m) \in Mode
  BY DEF Joined, Held, Mode

(* Giving one transaction one mode keeps the table of holders a table.     *)
LEMMA HoldersType ==
  ASSUME TypeOK, NEW t \in Txn, NEW tab \in Table, NEW slot \in Slot, NEW mode \in Held,
         holders' = [holders EXCEPT ![tab][slot][t] = mode]
  PROVE  holders' \in [Table -> [Slot -> [Txn -> Held]]]
BY DEF TypeOK

(* The variables of a thread that returns from its call. *)
LEMMA ReturnType ==
  ASSUME TypeInv, NEW t \in Txn, Return(t)
  PROVE  /\ goal' \in [Txn -> Request \cup {None}] /\ want' \in [Txn -> Request \cup {None}]
         /\ pc' \in [Txn -> PC] /\ orphan' \in [Txn -> BOOLEAN]
         /\ meta' \in Txn \cup {None} /\ CallShape'
<1> USE DEF TypeInv, TypeOK, CallShape, Return
<1>1. /\ goal' \in [Txn -> Request \cup {None}] /\ want' \in [Txn -> Request \cup {None}]
      /\ pc' \in [Txn -> PC] /\ orphan' \in [Txn -> BOOLEAN]
  BY DEF PC
<1>2. meta' \in Txn \cup {None}
  BY DEF Unowned
<1>3. \A u \in Txn \ {t} : pc'[u] = pc[u] /\ goal'[u] = goal[u] /\ want'[u] = want[u]
  OBVIOUS
<1>4. pc'[t] = "idle"
  OBVIOUS
<1>5. CallShape'
  BY <1>3, <1>4
<1> QED
  BY <1>1, <1>2, <1>5

(* The variables of a thread that enters _acquire. *)
LEMMA EnterType ==
  ASSUME TypeInv, NEW t \in Txn, NEW call \in Request, NEW first \in Request,
         Enter(t, call, first), call.tab = first.tab,
         call.slot # Whole => call.mode \in {"S", "X"},
         call = first \/ (call.slot # Whole /\ first.slot = Whole /\ first.mode = Intent(call.mode))
  PROVE  /\ goal' \in [Txn -> Request \cup {None}] /\ want' \in [Txn -> Request \cup {None}]
         /\ pc' \in [Txn -> PC] /\ orphan' \in [Txn -> BOOLEAN] /\ CallShape'
<1> USE DEF TypeInv, TypeOK, CallShape, Enter
<1>1. /\ goal' \in [Txn -> Request \cup {None}] /\ want' \in [Txn -> Request \cup {None}]
      /\ pc' \in [Txn -> PC] /\ orphan' \in [Txn -> BOOLEAN]
  BY DEF PC
<1>2. \A u \in Txn \ {t} : pc'[u] = pc[u] /\ goal'[u] = goal[u] /\ want'[u] = want[u]
  OBVIOUS
<1>3. goal'[t] = call /\ want'[t] = first
  OBVIOUS
<1>4. CallShape'
  BY <1>2, <1>3
<1> QED
  BY <1>1, <1>4

(* Every step keeps the types.                                             *)
LEMMA NextType == TypeInv /\ [Next]_vars => TypeInv'
<1> SUFFICES ASSUME TypeInv, [Next]_vars PROVE TypeInv'
  OBVIOUS
<1> USE DEF TypeInv, TypeOK
<1>o. Next => overlapped' \in BOOLEAN
  BY DEF Next, Observe
<1>1. ASSUME NEW t \in Txn, NEW tab \in Table, NEW mode \in TableModes,
             CallTable(t, tab, mode), Next
      PROVE TypeInv'
  <2> DEFINE call == [tab |-> tab, slot |-> Whole, mode |-> mode]
  <2>1. call \in Request
    BY DEF Request, Slot, Mode
  <2> QED
    BY <1>1, <1>o, <2>1, EnterType DEF CallTable
<1>2. ASSUME NEW t \in Txn, NEW tab \in Table, NEW row \in Row, NEW mode \in RowModes,
             CallRow(t, tab, row, mode), Next
      PROVE TypeInv'
  <2> DEFINE call == [tab |-> tab, slot |-> row, mode |-> mode]
             first == FirstLock(t, call)
  <2>1. call \in Request /\ call.mode \in {"S", "X"} /\ call.slot # Whole
    BY DEF Request, Slot, Mode
  <2>2. /\ first \in Request /\ call.tab = first.tab
        /\ call = first \/ (first.slot = Whole /\ first.mode = Intent(call.mode))
    BY <2>1 DEF FirstLock, Intent, Request, Slot, Mode
  <2>3. /\ Enter(t, call, first)
        /\ UNCHANGED <<holders, waiting, txTables, txRows, escalated, meta, aborted>>
    BY <1>2 DEF CallRow
  <2> HIDE DEF first, call
  <2> QED
    BY <1>2, <1>o, <2>1, <2>2, <2>3, EnterType
<1>3. ASSUME NEW t \in Txn, NEW tab \in Table, CallEscalated(t, tab), Next
      PROVE TypeInv'
  <2> DEFINE call == [tab |-> tab, slot |-> Whole, mode |-> "X"]
  <2>1. call \in Request
    BY DEF Request, Slot, Mode
  <2> QED
    BY <1>3, <1>o, <2>1, EnterType DEF CallEscalated
<1>4. ASSUME NEW t \in Txn, Check(t), Next PROVE TypeInv'
  <2>1. /\ pc[t] = "check"
        /\ UNCHANGED <<holders, txTables, txRows, escalated, meta, goal, want, orphan, aborted>>
    BY <1>4 DEF Check
  <2>2. want[t] \in Request
    BY <2>1 DEF CallShape
  <2>3. pc' \in [Txn -> PC] /\ waiting' \in [Txn -> Request \cup {None}]
    BY <1>4, <2>2 DEF Check, Entry, PC, InWaitLoop
  <2>4. CallShape'
    BY <1>4, <2>1 DEF Check, CallShape
  <2> QED
    BY <1>4, <1>o, <2>1, <2>3, <2>4
<1>5. ASSUME NEW t \in Txn, Detect(t), Next PROVE TypeInv'
  BY <1>5, <1>o DEF Detect, PC, InWaitLoop, CallShape
<1>6. ASSUME NEW t \in Txn, Recheck(t), Next PROVE TypeInv'
  BY <1>6, <1>o DEF Recheck, PC, InWaitLoop, CallShape
<1>7. ASSUME NEW t \in Txn, Timeout(t), Next PROVE TypeInv'
  BY <1>7, <1>o DEF Timeout, PC, InWaitLoop, CallShape
<1>8. ASSUME NEW t \in Txn, Leave(t), Next PROVE TypeInv'
  <2>1. waiting' \in [Txn -> Request \cup {None}]
    BY <1>8 DEF Leave, Dequeued
  <2>2. CASE Return(t)
    BY <1>8, <1>o, <2>1, <2>2, ReturnType DEF Leave
  <2>3. CASE pc[t] = "granted" /\ pc' = [pc EXCEPT ![t] = "record"]
             /\ UNCHANGED <<meta, goal, want, orphan>>
    BY <1>8, <1>o, <2>1, <2>3 DEF Leave, PC, CallShape
  <2> QED
    BY <1>8, <2>2, <2>3 DEF Leave
<1>9. ASSUME NEW t \in Txn, RecordTable(t), Next PROVE TypeInv'
  <2> DEFINE tab == want[t].tab
             mode == Joined(txTables[t][tab], want[t].mode)
  <2>1. /\ tab \in Table /\ want[t].mode \in Mode /\ goal[t] \in Request
        /\ (goal[t].slot # Whole => goal[t].mode \in {"S", "X"})
    BY <1>9 DEF RecordTable, Request, CallShape
  <2>h. \A x \in Table : txTables[t][x] \in Held
    OBVIOUS
  <2>2. mode \in Mode
    BY <2>1, <2>h, JoinedType
  <2>3. /\ holders' = [holders EXCEPT ![tab][Whole][t] = mode]
        /\ txTables' = [txTables EXCEPT ![t][tab] = mode]
        /\ Return(t) \/ (Enter(t, goal[t], goal[t]) /\ UNCHANGED meta)
        /\ UNCHANGED <<waiting, txRows, escalated, aborted>>
    BY <1>9 DEF RecordTable
  <2> HIDE DEF mode, tab
  <2>4. holders' \in [Table -> [Slot -> [Txn -> Held]]]
    BY <2>1, <2>2, <2>3, HoldersType DEF Held, Slot
  <2>5. txTables' \in [Txn -> [Table -> Held]]
    BY <2>1, <2>2, <2>3 DEF Held
  <2>6. CASE Return(t)
    BY <1>o, <1>9, <2>3, <2>4, <2>5, <2>6, ReturnType
  <2>7. CASE Enter(t, goal[t], goal[t]) /\ UNCHANGED meta
    BY <1>o, <1>9, <2>1, <2>3, <2>4, <2>5, <2>7, EnterType
  <2> QED
    BY <2>3, <2>6, <2>7
<1>10. ASSUME NEW t \in Txn, RecordRow(t), Next PROVE TypeInv'
  <2>1. want[t].tab \in Table /\ want[t].slot \in Row /\ want[t].mode \in Mode
    BY <1>10 DEF RecordRow, CallShape, Request, Slot
  <2>2. holders' \in [Table -> [Slot -> [Txn -> Held]]]
    BY <1>10, <2>1, HoldersType DEF RecordRow, Held, Slot
  <2>3. txRows' \in [Txn -> [Table -> SUBSET Row]]
    BY <1>10, <2>1 DEF RecordRow
  <2> QED
    BY <1>10, <1>o, <2>2, <2>3, ReturnType DEF RecordRow
<1>11. ASSUME NEW t \in Txn, RecordAndEscalate(t), Next PROVE TypeInv'
  <2>1. want[t].tab \in Table /\ want[t].slot \in Row
    BY <1>11 DEF RecordAndEscalate, CallShape, Request, Slot
  <2>2. holders' \in [Table -> [Slot -> [Txn -> Held]]]
    <3>1. "none" \in Held /\ "X" \in Held
      BY DEF Held, Mode
    <3> DEFINE tab == want[t].tab
               rows == txRows[t][tab] \cup {want[t].slot}
               locks == [s \in Slot |->
                  IF s \in rows THEN [holders[tab][s] EXCEPT ![t] = "none"]
                  ELSE IF s = Whole /\ GrantableAs(tab, Whole, "X", t)
                    THEN [holders[tab][s] EXCEPT ![t] = "X"]
                  ELSE holders[tab][s]]
    <3>2. \A s \in Slot : holders[tab][s] \in [Txn -> Held]
      BY <2>1
    <3>3. locks \in [Slot -> [Txn -> Held]]
      BY <3>1, <3>2
    <3>4. holders' = [holders EXCEPT ![tab] = locks]
      BY <1>11 DEF RecordAndEscalate
    <3> HIDE DEF locks
    <3> QED
      BY <2>1, <3>3, <3>4
  <2>3. txRows' \in [Txn -> [Table -> SUBSET Row]] /\ txTables' \in [Txn -> [Table -> Held]]
    BY <1>11, <2>1 DEF RecordAndEscalate, Held, Mode
  <2>4. escalated' \in [Txn -> SUBSET Table] /\ waiting' = waiting /\ aborted' = aborted
    BY <1>11, <2>1 DEF RecordAndEscalate
  <2>5. orphan' \in [Txn -> BOOLEAN]
    BY <1>11 DEF RecordAndEscalate, Orphaned
  <2>6. /\ goal' = [goal EXCEPT ![t] = None] /\ want' = [want EXCEPT ![t] = None]
        /\ pc' = [pc EXCEPT ![t] = "idle"] /\ meta' = Unowned(t)
    BY <1>11 DEF RecordAndEscalate
  <2>7. CallShape'
    BY <2>6 DEF CallShape
  <2> QED
    BY <1>11, <1>o, <2>2, <2>3, <2>4, <2>5, <2>6, <2>7 DEF Unowned, PC
<1>12. ASSUME NEW t \in Txn, Released(t)
       PROVE  /\ holders' \in [Table -> [Slot -> [Txn -> Held]]]
              /\ txRows' \in [Txn -> [Table -> SUBSET Row]]
              /\ txTables' \in [Txn -> [Table -> Held]] /\ escalated' \in [Txn -> SUBSET Table]
  <2>1. holders' \in [Table -> [Slot -> [Txn -> Held]]]
    BY <1>12 DEF Released, Held
  <2> QED
    BY <1>12, <2>1 DEF Released, Held
<1>13. ASSUME NEW t \in Txn, ReleaseAll(t), Next PROVE TypeInv'
  <2>1. orphan' \in [Txn -> BOOLEAN]
    BY <1>13 DEF ReleaseAll, OrphanedByRelease, Orphaned
  <2> QED
    BY <1>12, <1>13, <1>o, <2>1 DEF ReleaseAll, PC, CallShape
<1>14. ASSUME NEW t \in Txn, ShutdownReleases(t), Next PROVE TypeInv'
  <2>1. orphan' \in [Txn -> BOOLEAN]
    BY <1>14 DEF ShutdownReleases, OrphanedByRelease, Orphaned
  <2> QED
    BY <1>12, <1>14, <1>o, <2>1 DEF ShutdownReleases, CallShape
<1>15. ASSUME NEW t \in Txn, EndAfterShutdown(t), Next PROVE TypeInv'
  BY <1>15, <1>o DEF EndAfterShutdown, PC, CallShape
<1>16. CASE UNCHANGED vars
  BY <1>16 DEF vars, CallShape
<1> QED
  BY <1>1, <1>2, <1>3, <1>4, <1>5, <1>6, <1>7, <1>8, <1>9, <1>10, <1>11, <1>13, <1>14, <1>15,
     <1>16 DEF Next, Call, Step

(* The type invariant of the lock manager, for every choice of constants.  *)
THEOREM TypeCorrect == Spec => []TypeOK
<1>1. TypeInv => TypeOK
  BY DEF TypeInv
<1> QED
  BY <1>1, InitType, NextType, PTL DEF Spec

-----------------------------------------------------------------------------
(* The inductive invariant, one transaction at a time.  Only a thread's    *)
(* own steps touch what it says about that thread (lemma Frame).           *)

Queued(t) == waiting[t] = IF pc[t] \in InWaitLoop THEN want[t] ELSE None

Booked(t) ==
    \A tab \in Table :
       /\ holders[tab][Whole][t] = txTables[t][tab]
       /\ \A row \in Row : holders[tab][row][t] # "none" <=> row \in txRows[t][tab]

Emptied(t) ==
    pc[t] = "ended" /\ t \notin aborted =>
       \A tab \in Table : txTables[t][tab] = "none" /\ txRows[t][tab] = {}

Owning(t) ==
    meta = t => /\ pc[t] \notin {"idle", "ended"} /\ want[t] = goal[t]
                /\ want[t].slot = Whole /\ want[t].mode = "X"
                /\ want[t].tab \in escalated[t]

\* what a row lock needs, and what a call for one has secured on its way
Intended(t) ==
    t \notin aborted => \A tab \in Table, row \in Row :
       holders[tab][row][t] # "none" =>
          Covers(txTables[t][tab], Intent(holders[tab][row][t]))

RowCall(t) ==
    pc[t] \notin {"idle", "ended"} =>
       /\ goal[t].slot # Whole => goal[t].tab \notin escalated[t]
       /\ want[t].slot # Whole /\ t \notin aborted =>
             Covers(txTables[t][want[t].tab], Intent(want[t].mode))

Bounded(t) ==
    \A tab \in Table :
       /\ IsFiniteSet(txRows[t][tab])
       /\ txRows[t][tab] # {} => Cardinality(txRows[t][tab]) < Threshold
       /\ tab \in escalated[t] => txRows[t][tab] = {}

ThreadInv(t) ==
    Queued(t) /\ Booked(t) /\ Emptied(t) /\ Owning(t) /\ Intended(t) /\ RowCall(t) /\ Bounded(t)

IInv == TypeInv /\ \A t \in Txn : ThreadInv(t)

\* one step of thread t, or of shutdown with transaction t
Acts(t) ==
    \/ Call(t) \/ Step(t) \/ Timeout(t)
    \/ ReleaseAll(t) \/ ShutdownReleases(t) \/ EndAfterShutdown(t)

\* nothing that ThreadInv(u) speaks of has changed
Untouched(u) ==
    /\ pc'[u] = pc[u] /\ goal'[u] = goal[u] /\ want'[u] = want[u]
    /\ waiting'[u] = waiting[u] /\ txTables'[u] = txTables[u]
    /\ txRows'[u] = txRows[u] /\ escalated'[u] = escalated[u]
    /\ (meta' = u) <=> (meta = u)
    /\ u \in aborted' <=> u \in aborted
    /\ \A tab \in Table, s \in Slot : holders'[tab][s][u] = holders[tab][s][u]

(* A step of one thread leaves the others' part of the state alone. *)
LEMMA Frame ==
  ASSUME TypeInv, NEW t \in Txn, NEW u \in Txn \ {t}, Acts(t)
  PROVE  Untouched(u)
<1> USE DEF TypeInv, TypeOK, Untouched, MetaFree
<1>1. ASSUME NEW tab \in Table, NEW mode \in TableModes, CallTable(t, tab, mode)
      PROVE Untouched(u)
  BY <1>1 DEF CallTable, Enter
<1>2. ASSUME NEW tab \in Table, NEW row \in Row, NEW mode \in RowModes,
             CallRow(t, tab, row, mode)
      PROVE Untouched(u)
  BY <1>2 DEF CallRow, Enter
<1>3. ASSUME NEW tab \in Table, CallEscalated(t, tab) PROVE Untouched(u)
  BY <1>3 DEF CallEscalated, Enter
<1>4. CASE Check(t)
  BY <1>4 DEF Check
<1>5. CASE Detect(t)
  BY <1>5 DEF Detect
<1>6. CASE Recheck(t) \/ Timeout(t)
  BY <1>6 DEF Recheck, Timeout
<1>7. CASE Leave(t)
  BY <1>7 DEF Leave, Return, Unowned
<1>8. CASE RecordTable(t)
  BY <1>8 DEF RecordTable, Return, Unowned, Enter
<1>9. CASE RecordRow(t)
  BY <1>9 DEF RecordRow, Return, Unowned
<1>10. CASE RecordAndEscalate(t)
  BY <1>10 DEF RecordAndEscalate, Unowned
<1>11. CASE ReleaseAll(t)
  BY <1>11 DEF ReleaseAll, Released
<1>12. CASE ShutdownReleases(t)
  BY <1>12 DEF ShutdownReleases, Released
<1>13. CASE EndAfterShutdown(t)
  BY <1>13 DEF EndAfterShutdown
<1> QED
  BY <1>1, <1>2, <1>3, <1>4, <1>5, <1>6, <1>7, <1>8, <1>9, <1>10, <1>11, <1>12, <1>13
     DEF Acts, Call, Step

(* A thread that a step does not touch stays where it is.                  *)
LEMMA Untouching ==
  ASSUME NEW u \in Txn, ThreadInv(u), Untouched(u) PROVE ThreadInv(u)'
<1> USE DEF ThreadInv, Untouched
<1>1. Queued(u)' /\ Emptied(u)' /\ Owning(u)' /\ RowCall(u)' /\ Bounded(u)'
  BY DEF Queued, Emptied, Owning, RowCall, Bounded
<1>2. Booked(u)' /\ Intended(u)'
  BY DEF Booked, Intended, Slot
<1> QED
  BY <1>1, <1>2

(* Facts about modes. *)
LEMMA JoinedCovers ==
  ASSUME NEW held \in Held, NEW mode \in Mode, NEW need \in {"IS", "IX"}
  PROVE  /\ Covers(Joined(held, mode), mode)
         /\ Covers(held, need) => Covers(Joined(held, mode), need)
BY DEF Joined, Covers, Rank, Held, Mode

(* A row lock needs an intention lock on its table.                        *)
LEMMA IntentNeeds == ASSUME NEW mode PROVE Intent(mode) \in {"IS", "IX"}
BY DEF Intent

(* The steps inside a call that lock or release nothing. *)
LEMMA QuietSteps ==
  ASSUME TypeInv, NEW t \in Txn, ThreadInv(t),
         \/ \E tab \in Table : \/ \E mode \in TableModes : CallTable(t, tab, mode)
                               \/ \E row \in Row, mode \in RowModes : CallRow(t, tab, row, mode)
                               \/ CallEscalated(t, tab)
         \/ Check(t) \/ Detect(t) \/ Recheck(t) \/ Timeout(t) \/ Leave(t) \/ EndAfterShutdown(t)
  PROVE  ThreadInv(t)'
<1> USE DEF TypeInv, TypeOK, MetaFree, ThreadInv
<1>1. UNCHANGED <<holders, txTables, txRows, escalated, aborted>>
  BY DEF CallTable, CallRow, CallEscalated, Check, Detect, Recheck, Timeout, Leave,
     EndAfterShutdown
<1>2. Booked(t)' /\ Intended(t)' /\ Bounded(t)'
  BY <1>1 DEF Booked, Intended, Bounded
<1>3. ASSUME NEW tab \in Table, NEW mode \in TableModes, CallTable(t, tab, mode)
      PROVE Queued(t)' /\ Emptied(t)' /\ Owning(t)' /\ RowCall(t)'
  BY <1>3 DEF CallTable, Enter, Queued, Emptied, Owning, RowCall, InWaitLoop
<1>4. ASSUME NEW tab \in Table, NEW row \in Row, NEW mode \in RowModes,
             CallRow(t, tab, row, mode)
      PROVE Queued(t)' /\ Emptied(t)' /\ Owning(t)' /\ RowCall(t)'
  BY <1>4 DEF CallRow, FirstLock, Enter, Queued, Emptied, Owning, RowCall, InWaitLoop
<1>5. ASSUME NEW tab \in Table, CallEscalated(t, tab)
      PROVE Queued(t)' /\ Emptied(t)' /\ Owning(t)' /\ RowCall(t)'
  BY <1>5 DEF CallEscalated, Enter, Queued, Emptied, Owning, RowCall, InWaitLoop
<1>6. ASSUME Check(t) PROVE Queued(t)' /\ Emptied(t)' /\ Owning(t)' /\ RowCall(t)'
  BY <1>6 DEF Check, Entry, Queued, Emptied, Owning, RowCall, InWaitLoop
<1>7. ASSUME Detect(t) \/ Recheck(t) \/ Timeout(t)
      PROVE Queued(t)' /\ Emptied(t)' /\ Owning(t)' /\ RowCall(t)'
  BY <1>7 DEF Detect, Recheck, Timeout, Queued, Emptied, Owning, RowCall, InWaitLoop
<1>8. ASSUME Leave(t) PROVE Queued(t)' /\ Emptied(t)' /\ Owning(t)' /\ RowCall(t)'
  BY <1>8 DEF Leave, Dequeued, Return, Unowned, Queued, Emptied, Owning, RowCall, InWaitLoop
<1>9. ASSUME EndAfterShutdown(t) PROVE Queued(t)' /\ Emptied(t)' /\ Owning(t)' /\ RowCall(t)'
  BY <1>9 DEF EndAfterShutdown, Queued, Emptied, Owning, RowCall, InWaitLoop
<1> QED
  BY <1>2, <1>3, <1>4, <1>5, <1>6, <1>7, <1>8, <1>9

(* So does the record of a table lock.                                     *)
LEMMA RecordTableKeeps ==
  ASSUME TypeInv, NEW t \in Txn, ThreadInv(t), RecordTable(t)
  PROVE  ThreadInv(t)'
<1> USE DEF TypeInv, TypeOK, MetaFree, ThreadInv
<1> DEFINE tab == want[t].tab
           held == txTables[t][tab]
           mode == Joined(held, want[t].mode)
<1>1. /\ tab \in Table /\ want[t].mode \in Mode
      /\ pc[t] \notin {"idle", "ended"} /\ goal[t].tab = tab /\ want[t].slot = Whole
      /\ (goal[t] # want[t] => goal[t].slot # Whole /\ want[t].mode = Intent(goal[t].mode))
  BY DEF RecordTable, CallShape, Request
<1>2. held \in Held
  BY <1>1
<1>3. /\ holders' = [holders EXCEPT ![tab][Whole][t] = mode]
      /\ txTables' = [txTables EXCEPT ![t][tab] = mode]
      /\ \/ Return(t)
         \/ goal[t] # want[t] /\ Enter(t, goal[t], goal[t]) /\ UNCHANGED meta
      /\ UNCHANGED <<waiting, txRows, escalated, aborted>>
  BY DEF RecordTable
<1>4. Covers(mode, want[t].mode) /\ \A m : Covers(held, Intent(m)) => Covers(mode, Intent(m))
  <2>1. Covers(mode, want[t].mode)
    BY <1>1, <1>2, JoinedCovers
  <2>2. \A need \in {"IS", "IX"} : Covers(held, need) => Covers(mode, need)
    BY <1>1, <1>2, JoinedCovers
  <2> HIDE DEF mode, held
  <2> QED
    BY <2>1, <2>2, IntentNeeds
<1> HIDE DEF mode
<1>5. /\ \A x \in Table : txTables'[t][x] = IF x = tab THEN mode ELSE txTables[t][x]
      /\ \A x \in Table : holders'[x][Whole][t] = IF x = tab THEN mode ELSE holders[x][Whole][t]
      /\ \A x \in Table, row \in Row : holders'[x][row][t] = holders[x][row][t]
  <2>1. \A x \in Table : txTables'[t][x] = IF x = tab THEN mode ELSE txTables[t][x]
    BY <1>1, <1>3
  <2>2. \A x \in Table, s \in Slot :
           holders'[x][s][t] = IF x = tab /\ s = Whole THEN mode ELSE holders[x][s][t]
    BY <1>1, <1>3 DEF Slot
  <2> QED
    BY <2>1, <2>2 DEF Slot
<1>6. Booked(t)' /\ Bounded(t)'
  <2>1. Booked(t)'
    BY <1>3, <1>5 DEF Booked
  <2>2. Bounded(t)'
    BY <1>3, <1>5 DEF Bounded
  <2> QED
    BY <2>1, <2>2
<1>7. Intended(t)'
  BY <1>3, <1>4, <1>5 DEF Intended
<1>8. Queued(t)' /\ Emptied(t)'
  BY <1>1, <1>3 DEF RecordTable, Return, Enter, Queued, Emptied, InWaitLoop
<1>9. Owning(t)'
  BY <1>1, <1>3 DEF Return, Enter, Unowned, Owning
<1>10. RowCall(t)'
  <2>1. CASE Return(t)
    BY <2>1 DEF Return, RowCall
  <2>2. CASE goal[t] # want[t] /\ Enter(t, goal[t], goal[t])
    BY <1>1, <1>3, <1>4, <1>5, <2>2 DEF Enter, RowCall
  <2> QED
    BY <1>3, <2>1, <2>2
<1> QED
  BY <1>6, <1>7, <1>8, <1>9, <1>10

(* So does the record of a row lock.                                       *)
LEMMA RecordRowKeeps ==
  ASSUME TypeInv, NEW t \in Txn, ThreadInv(t), RecordRow(t)
  PROVE  ThreadInv(t)'
<1> USE DEF TypeInv, TypeOK, MetaFree, ThreadInv
<1> DEFINE tab == want[t].tab
           row == want[t].slot
           rows == txRows[t][tab] \cup {row}
<1>1. /\ tab \in Table /\ row \in Row /\ row # Whole /\ want[t].mode \in Mode
      /\ pc[t] = "record" /\ want[t] = goal[t]
  BY DEF RecordRow, CallShape, Request, Slot
<1>2. /\ holders' = [holders EXCEPT ![tab][row][t] = want[t].mode]
      /\ txRows' = [txRows EXCEPT ![t][tab] = rows]
      /\ Return(t) /\ UNCHANGED <<waiting, txTables, escalated, aborted>>
      /\ ~Escalates(t, tab, rows)
  BY DEF RecordRow
<1>3. /\ tab \notin escalated[t]
      /\ t \notin aborted => Covers(txTables[t][tab], Intent(want[t].mode))
  BY <1>1 DEF RowCall
<1>4. IsFiniteSet(rows) /\ Cardinality(rows) < Threshold
  <2>1. IsFiniteSet(rows)
    <3>1. IsFiniteSet(txRows[t][tab])
      BY <1>1 DEF Bounded
    <3> QED
      BY <3>1, FS_AddElement
  <2>2. Cardinality(rows) \in Nat
    BY <2>1, FS_CardinalityType
  <2> QED
    BY <1>2, <1>3, <2>1, <2>2 DEF Escalates
<1>5. /\ \A x \in Table : txRows'[t][x] = IF x = tab THEN rows ELSE txRows[t][x]
      /\ \A x \in Table : holders'[x][Whole][t] = holders[x][Whole][t]
      /\ \A x \in Table, r \in Row :
            holders'[x][r][t] = IF x = tab /\ r = row THEN want[t].mode ELSE holders[x][r][t]
  <2>1. \A x \in Table : txRows'[t][x] = IF x = tab THEN rows ELSE txRows[t][x]
    BY <1>1, <1>2
  <2>2. \A x \in Table, s \in Slot :
           holders'[x][s][t] = IF x = tab /\ s = row THEN want[t].mode ELSE holders[x][s][t]
    BY <1>1, <1>2 DEF Slot
  <2>3. \A r \in Row : r \in Slot /\ r # Whole
    BY DEF Slot
  <2> HIDE DEF rows, row
  <2> QED
    BY <1>1, <2>1, <2>2, <2>3 DEF Slot
<1>6. Booked(t)'
  BY <1>1, <1>2, <1>5 DEF Booked, Mode
<1>7. Bounded(t)'
  BY <1>2, <1>3, <1>4, <1>5 DEF Bounded
<1>8. Intended(t)'
  BY <1>2, <1>3, <1>5 DEF Intended
<1>9. Queued(t)' /\ Emptied(t)' /\ Owning(t)' /\ RowCall(t)'
  BY <1>1, <1>2 DEF Return, Unowned, Queued, Emptied, Owning, RowCall, InWaitLoop
<1> QED
  BY <1>6, <1>7, <1>8, <1>9

(* So does an escalation.                                                  *)
LEMMA EscalateKeeps ==
  ASSUME TypeInv, NEW t \in Txn, ThreadInv(t), RecordAndEscalate(t)
  PROVE  ThreadInv(t)'
<1> USE DEF TypeInv, TypeOK, MetaFree, ThreadInv
<1> DEFINE tab == want[t].tab
           rows == txRows[t][tab] \cup {want[t].slot}
           upgraded == GrantableAs(tab, Whole, "X", t)
<1>1. tab \in Table /\ want[t].slot \in Row /\ pc[t] = "record" /\ rows \subseteq Row
  <2>1. tab \in Table /\ want[t].slot \in Row /\ pc[t] = "record"
    BY DEF RecordAndEscalate, CallShape, Request, Slot
  <2>2. txRows[t][tab] \subseteq Row
    BY <2>1
  <2> QED
    BY <2>1, <2>2
<1>2. /\ escalated' = [escalated EXCEPT ![t] = @ \cup {tab}]
      /\ holders' = [holders EXCEPT ![tab] = [s \in Slot |->
              IF s \in rows THEN [holders[tab][s] EXCEPT ![t] = "none"]
              ELSE IF s = Whole /\ upgraded THEN [holders[tab][s] EXCEPT ![t] = "X"]
              ELSE holders[tab][s]]]
      /\ txRows' = [txRows EXCEPT ![t][tab] = {}]
      /\ txTables' = IF upgraded THEN [txTables EXCEPT ![t][tab] = "X"] ELSE txTables
      /\ goal' = [goal EXCEPT ![t] = None] /\ want' = [want EXCEPT ![t] = None]
      /\ pc' = [pc EXCEPT ![t] = "idle"] /\ meta' = Unowned(t) /\ waiting' = waiting
      /\ aborted' = aborted
  BY DEF RecordAndEscalate
<1> HIDE DEF upgraded
<1>3. /\ \A x \in Table : txTables'[t][x] = IF x = tab /\ upgraded THEN "X" ELSE txTables[t][x]
      /\ \A x \in Table : holders'[x][Whole][t] = IF x = tab /\ upgraded THEN "X"
                                                  ELSE holders[x][Whole][t]
      /\ \A x \in Table, r \in Row :
            holders'[x][r][t] = IF x = tab /\ r \in rows THEN "none" ELSE holders[x][r][t]
      /\ \A x \in Table : txRows'[t][x] = IF x = tab THEN {} ELSE txRows[t][x]
  <2>1. \A x \in Table : txTables'[t][x] = IF x = tab /\ upgraded THEN "X" ELSE txTables[t][x]
    BY <1>1, <1>2
  <2>2. \A x \in Table : txRows'[t][x] = IF x = tab THEN {} ELSE txRows[t][x]
    BY <1>1, <1>2
  <2>3. \A x \in Table, s \in Slot :
           holders'[x][s][t] = IF x = tab /\ s \in rows THEN "none"
                               ELSE IF x = tab /\ s = Whole /\ upgraded THEN "X"
                               ELSE holders[x][s][t]
    <3> SUFFICES ASSUME NEW x \in Table, NEW s \in Slot
                 PROVE  holders'[x][s][t] = IF x = tab /\ s \in rows THEN "none"
                                            ELSE IF x = tab /\ s = Whole /\ upgraded THEN "X"
                                            ELSE holders[x][s][t]
      OBVIOUS
    <3>1. CASE x = tab
      BY <1>1, <1>2, <3>1
    <3>2. CASE x # tab
      BY <1>1, <1>2, <3>2
    <3> QED
      BY <3>1, <3>2
  <2> HIDE DEF rows
  <2> QED
    BY <1>1, <2>1, <2>2, <2>3 DEF Slot
<1>4. Booked(t)'
  <2> SUFFICES ASSUME NEW x \in Table
               PROVE  /\ holders'[x][Whole][t] = txTables'[t][x]
                      /\ \A r \in Row : holders'[x][r][t] # "none" <=> r \in txRows'[t][x]
    BY DEF Booked
  <2>1. holders[x][Whole][t] = txTables[t][x]
    BY DEF Booked
  <2>2. \A r \in Row : holders[x][r][t] # "none" <=> r \in txRows[t][x]
    BY DEF Booked
  <2>3. CASE x = tab
    <3>1. holders'[x][Whole][t] = txTables'[t][x]
      BY <1>3, <2>1, <2>3
    <3>2. ASSUME NEW r \in Row PROVE holders'[x][r][t] = "none"
      <4>1. CASE r \in rows
        BY <1>3, <2>3, <4>1
      <4>2. CASE r \notin rows
        <5>1. r \notin txRows[t][x]
          BY <2>3, <4>2
        <5>2. holders'[x][r][t] = holders[x][r][t]
          BY <1>3, <4>2
        <5> QED
          BY <2>2, <5>1, <5>2
      <4> QED
        BY <4>1, <4>2
    <3>3. txRows'[t][x] = {}
      BY <1>3, <2>3
    <3> QED
      BY <3>1, <3>2, <3>3
  <2>4. CASE x # tab
    <3>1. holders'[x][Whole][t] = txTables'[t][x]
      BY <1>3, <2>1, <2>4
    <3>2. \A r \in Row : holders'[x][r][t] = holders[x][r][t]
      BY <1>3, <2>4
    <3>3. txRows'[t][x] = txRows[t][x]
      BY <1>3, <2>4
    <3> QED
      BY <2>2, <3>1, <3>2, <3>3
  <2> QED
    BY <2>3, <2>4
<1>5. Intended(t)'
  <2> SUFFICES ASSUME t \notin aborted, NEW x \in Table, NEW r \in Row, holders'[x][r][t] # "none"
               PROVE  Covers(txTables'[t][x], Intent(holders'[x][r][t]))
    BY <1>2 DEF Intended
  <2>1. holders'[x][r][t] = holders[x][r][t] /\ holders[x][r][t] # "none"
    BY <1>3
  <2>2. Covers(txTables[t][x], Intent(holders[x][r][t]))
    BY <2>1 DEF Intended
  <2> QED
    BY <1>3, <2>1, <2>2 DEF Covers
<1>6. Bounded(t)'
  <2>1. ASSUME NEW x \in Table
        PROVE /\ IsFiniteSet(txRows'[t][x])
              /\ txRows'[t][x] # {} => Cardinality(txRows'[t][x]) < Threshold
    BY <1>1, <1>2, <1>3, FS_EmptySet DEF Bounded
  <2>2. ASSUME NEW x \in Table, x \in escalated'[t] PROVE txRows'[t][x] = {}
    <3>1. CASE x = tab
      BY <1>3, <3>1
    <3>2. CASE x # tab
      <4>1. x \in escalated[t]
        BY <1>2, <2>2, <3>2
      <4> QED
        BY <1>1, <1>3, <3>2, <4>1 DEF Bounded
    <3> QED
      BY <3>1, <3>2
  <2> QED
    BY <2>1, <2>2 DEF Bounded
<1>7. Queued(t)' /\ Emptied(t)' /\ Owning(t)' /\ RowCall(t)'
  <2>1. Queued(t)' /\ Emptied(t)'
    BY <1>1, <1>2 DEF Queued, Emptied, InWaitLoop
  <2>2. Owning(t)' /\ RowCall(t)'
    BY <1>1, <1>2 DEF Unowned, Owning, RowCall
  <2> QED
    BY <2>1, <2>2
<1> QED
  BY <1>4, <1>5, <1>6, <1>7

(* So does release_all, whoever calls it.                                  *)
LEMMA ReleaseKeeps ==
  ASSUME TypeInv, NEW t \in Txn, ThreadInv(t), ReleaseAll(t) \/ ShutdownReleases(t)
  PROVE  ThreadInv(t)'
<1> USE DEF TypeInv, TypeOK, ThreadInv
<1>0. Released(t)
  BY DEF ReleaseAll, ShutdownReleases
<1>1. /\ \A tab \in Table, s \in Slot :
           holders'[tab][s][t] = IF s \in Recorded(t, tab) THEN "none" ELSE holders[tab][s][t]
      /\ \A tab \in Table : txTables'[t][tab] = "none" /\ txRows'[t][tab] = {}
      /\ escalated'[t] = {}
  BY <1>0 DEF Released
<1>2. ASSUME NEW tab \in Table, NEW s \in Slot PROVE holders'[tab][s][t] = "none"
  <2>1. CASE s \in Recorded(t, tab)
    BY <1>1, <2>1
  <2>2. CASE s \notin Recorded(t, tab)
    <3>1. holders[tab][s][t] = "none"
      <4>1. CASE s = Whole
        BY <2>2, <4>1 DEF Booked, Recorded
      <4>2. CASE s \in Row
        BY <2>2, <4>2 DEF Booked, Recorded
      <4> QED
        BY <4>1, <4>2 DEF Slot
    <3> QED
      BY <1>1, <2>2, <3>1
  <2> QED
    BY <2>1, <2>2
<1>3. Booked(t)' /\ Intended(t)' /\ Bounded(t)'
  <2>1. Whole \in Slot /\ Row \subseteq Slot
    BY DEF Slot
  <2>2. Booked(t)' /\ Intended(t)'
    BY <1>1, <1>2, <2>1 DEF Booked, Intended
  <2>3. Bounded(t)'
    BY <1>1, FS_EmptySet DEF Bounded
  <2> QED
    BY <2>2, <2>3
<1>4. CASE ReleaseAll(t)
  BY <1>1, <1>3, <1>4
     DEF ReleaseAll, MetaFree, Queued, Emptied, Owning, RowCall, InWaitLoop
<1>5. CASE ShutdownReleases(t)
  <2>1. /\ meta = None /\ t \in aborted'
        /\ UNCHANGED <<waiting, meta, pc, goal, want>>
    BY <1>5 DEF ShutdownReleases
  <2>2. Queued(t)' /\ Emptied(t)' /\ Owning(t)'
    BY <2>1 DEF Queued, Emptied, Owning
  <2>3. RowCall(t)'
    BY <1>1, <2>1 DEF RowCall
  <2> QED
    BY <1>3, <2>2, <2>3
<1> QED
  BY <1>4, <1>5

(* No thread is inside a call at the start.                                *)
LEMMA InitInductive == Init => IInv
<1> SUFFICES ASSUME Init, NEW t \in Txn PROVE ThreadInv(t)
  BY InitType DEF IInv
<1> QED
  BY FS_EmptySet DEF Init, ThreadInv, Queued, Booked, Emptied, Owning, Intended, RowCall,
     Bounded, InWaitLoop, Slot

(* Every step keeps the inductive invariant.                               *)
LEMMA NextInductive == IInv /\ [Next]_vars => IInv'
<1> SUFFICES ASSUME IInv, [Next]_vars PROVE IInv'
  OBVIOUS
<1>1. TypeInv'
  BY NextType DEF IInv
<1>2. CASE UNCHANGED vars
  <2>1. \A u \in Txn : Untouched(u)
    BY <1>2 DEF vars, Untouched
  <2> QED
    BY <1>1, <2>1, Untouching DEF IInv
<1>3. ASSUME NEW t \in Txn, Acts(t) PROVE \A u \in Txn : ThreadInv(u)'
  <2>1. \A u \in Txn \ {t} : ThreadInv(u)'
    BY <1>3, Frame, Untouching DEF IInv
  <2>2. ThreadInv(t)'
    BY <1>3, QuietSteps, RecordTableKeeps, RecordRowKeeps, EscalateKeeps, ReleaseKeeps
       DEF IInv, Acts, Call, Step
  <2> QED
    BY <2>1, <2>2
<1> QED
  BY <1>1, <1>2, <1>3 DEF IInv, Next, Acts

(* The inductive invariant: the records of every transaction, its thread's *)
(* place in the code and its waiter entry fit together in every reachable  *)
(* state, so every property below about one transaction follows from it.   *)
THEOREM Inductive == Spec => []IInv
BY InitInductive, NextInductive, PTL DEF Spec

(* A lock stands in a resource's holders exactly when its transaction's own *)
(* record lists it, so release_all finds every lock.                       *)
THEOREM LocksAreRecorded == Spec => []BookkeepingAgrees
<1>1. IInv => BookkeepingAgrees
  BY DEF IInv, ThreadInv, Booked, BookkeepingAgrees
<1> QED
  BY <1>1, Inductive, PTL

(* At its end a transaction has no waiter entry and not _meta, and no lock *)
(* either unless shutdown has aborted it under its thread.                 *)
THEOREM EndedLeavesNothing == Spec => []NothingLeaks
<1>1. IInv => NothingLeaks
  <2> SUFFICES ASSUME IInv, NEW t \in Txn, pc[t] = "ended"
               PROVE  /\ waiting[t] = None /\ meta # t
                      /\ t \notin aborted =>
                            \A tab \in Table, s \in Slot : holders[tab][s][t] = "none"
    BY DEF NothingLeaks
  <2>1. waiting[t] = None /\ meta # t
    BY DEF IInv, ThreadInv, Queued, Owning, InWaitLoop
  <2>2. t \notin aborted => \A tab \in Table : txTables[t][tab] = "none" /\ txRows[t][tab] = {}
    BY DEF IInv, ThreadInv, Emptied
  <2>3. Booked(t)
    BY DEF IInv, ThreadInv
  <2>4. ASSUME t \notin aborted, NEW tab \in Table PROVE \A s \in Slot : holders[tab][s][t] = "none"
    <3>1. holders[tab][Whole][t] = "none"
      BY <2>2, <2>3, <2>4 DEF Booked
    <3>2. \A row \in Row : holders[tab][row][t] = "none"
      BY <2>2, <2>3, <2>4 DEF Booked
    <3> QED
      BY <3>1, <3>2 DEF Slot
  <2> QED
    BY <2>1, <2>4
<1> QED
  BY <1>1, Inductive, PTL

(* A waiter entry stands in a list exactly while its thread is in the loop. *)
THEOREM WaitersMatchLoops == Spec => []WaitersAreWaiting
<1>1. IInv => WaitersAreWaiting
  BY DEF IInv, ThreadInv, Queued, WaitersAreWaiting
<1> QED
  BY <1>1, Inductive, PTL

(* No row lock without the table lock above it, unless shutdown has        *)
(* aborted its transaction: then the thread goes on without what it had.   *)
THEOREM IntentAboveRows == Spec => []RowsUnderIntent
<1>1. IInv => RowsUnderIntent
  <2> SUFFICES ASSUME IInv, NEW t \in Txn \ aborted, NEW tab \in Table, NEW row \in Row,
                      holders[tab][row][t] # "none"
               PROVE  Covers(holders[tab][Whole][t], Intent(holders[tab][row][t]))
    BY DEF RowsUnderIntent
  <2>1. holders[tab][Whole][t] = txTables[t][tab]
    BY DEF IInv, ThreadInv, Booked
  <2>2. Covers(txTables[t][tab], Intent(holders[tab][row][t]))
    BY DEF IInv, ThreadInv, Intended
  <2> QED
    BY <2>1, <2>2
<1> QED
  BY <1>1, Inductive, PTL

(* Fewer than escalation_threshold row locks per table, none after escalation. *)
THEOREM RowLocksBelowThreshold == Spec => []RowLocksAreBounded
<1>1. IInv => RowLocksAreBounded
  BY DEF IInv, ThreadInv, Bounded, RowLocksAreBounded
<1> QED
  BY <1>1, Inductive, PTL

(* _meta is owned over several steps only inside an escalated upgrade. *)
THEOREM MetaIsForUpgrades == Spec => []MetaOnlyForUpgrade
<1>1. IInv => MetaOnlyForUpgrade
  BY DEF IInv, TypeInv, TypeOK, ThreadInv, Owning, MetaOnlyForUpgrade
<1> QED
  BY <1>1, Inductive, PTL

-----------------------------------------------------------------------------
(* Strict two-phase locking, a property of every step of every thread.     *)

KeepsLocks(t) ==
    \A tab \in Table : pc'[t] # "ended" /\ t \notin aborted' \ aborted =>
       /\ \/ txTables[t][tab] = "none"
          \/ Covers(txTables'[t][tab], txTables[t][tab])
       /\ \/ txRows[t][tab] \subseteq txRows'[t][tab]
          \/ tab \in escalated'[t] /\ txRows'[t][tab] = {}

(* An upgrade never weakens the lock that is held.                         *)
LEMMA JoinedCoversHeld ==
  ASSUME NEW held \in Mode, NEW mode \in Mode PROVE Covers(Joined(held, mode), held)
BY DEF Joined, Covers, Rank, Mode

(* A step of t weakens no record of its locks, but for an escalation.      *)
LEMMA OwnLocksKept ==
  ASSUME TypeInv, NEW t \in Txn, Acts(t) PROVE KeepsLocks(t)
<1> USE DEF TypeInv, TypeOK
<1>0. \A mode : Covers(mode, mode)
  BY DEF Covers
<1>1. CASE UNCHANGED <<txTables, txRows>>
  BY <1>0, <1>1 DEF KeepsLocks
<1>2. CASE RecordTable(t)
  <2> DEFINE tab == want[t].tab
             mode == Joined(txTables[t][tab], want[t].mode)
  <2>1. tab \in Table /\ want[t].mode \in Mode
    BY <1>2 DEF RecordTable, CallShape, Request
  <2>2. txTables' = [txTables EXCEPT ![t][tab] = mode] /\ txRows' = txRows
    BY <1>2 DEF RecordTable
  <2>3. txTables[t][tab] = "none" \/ Covers(mode, txTables[t][tab])
    <3>1. txTables[t][tab] \in Mode \cup {"none"}
      BY <2>1 DEF Held
    <3> QED
      BY <2>1, <3>1, JoinedCoversHeld
  <2> HIDE DEF mode
  <2> QED
    BY <1>0, <2>1, <2>2, <2>3 DEF KeepsLocks
<1>3. CASE RecordRow(t)
  <2>1. want[t].tab \in Table /\ txTables' = txTables
        /\ txRows' = [txRows EXCEPT ![t][want[t].tab] = @ \cup {want[t].slot}]
    BY <1>3 DEF RecordRow, CallShape, Request
  <2> QED
    BY <1>0, <2>1 DEF KeepsLocks
<1>4. CASE RecordAndEscalate(t)
  <2> DEFINE tab == want[t].tab
  <2>1. /\ tab \in Table
        /\ escalated' = [escalated EXCEPT ![t] = @ \cup {tab}]
        /\ txRows' = [txRows EXCEPT ![t][tab] = {}]
        /\ txTables' = [txTables EXCEPT ![t][tab] = "X"] \/ txTables' = txTables
    BY <1>4 DEF RecordAndEscalate, CallShape, Request
  <2>2. \A mode : Covers("X", mode)
    BY DEF Covers
  <2> QED
    BY <1>0, <2>1, <2>2 DEF KeepsLocks
<1>5. CASE ReleaseAll(t) \/ ShutdownReleases(t) \/ EndAfterShutdown(t)
  BY <1>5 DEF ReleaseAll, ShutdownReleases, EndAfterShutdown, KeepsLocks
<1> QED
  BY <1>1, <1>2, <1>3, <1>4, <1>5
     DEF Acts, Call, Step, CallTable, CallRow, CallEscalated, Check, Detect, Recheck, Timeout, Leave

(* Locks only grow until release_all, but for the escalation of a whole table. *)
THEOREM LocksAreTwoPhase == Spec => StrictTwoPhase
<1>1. TypeInv /\ [Next]_vars => [\A t \in Txn : KeepsLocks(t)]_vars
  <2> SUFFICES ASSUME TypeInv, NEW t \in Txn, Acts(t), NEW u \in Txn PROVE KeepsLocks(u)
    BY DEF Next, Acts
  <2>1. CASE u = t
    BY <2>1, OwnLocksKept
  <2>2. CASE u # t
    <3>1. Untouched(u)
      BY <2>2, Frame
    <3> QED
      BY <3>1 DEF Untouched, KeepsLocks, Covers
  <2> QED
    BY <2>1, <2>2
<1>2. [\A t \in Txn : KeepsLocks(t)]_vars
        => [\A t \in Txn, tab \in Table : pc'[t] # "ended" /\ t \notin aborted' \ aborted =>
              /\ \/ txTables[t][tab] = "none"
                 \/ Covers(txTables'[t][tab], txTables[t][tab])
              /\ \/ txRows[t][tab] \subseteq txRows'[t][tab]
                 \/ tab \in escalated'[t] /\ txRows'[t][tab] = {}]_vars
  BY DEF KeepsLocks
<1> QED
  BY <1>1, <1>2, InitType, NextType, PTL DEF Spec, StrictTwoPhase

-----------------------------------------------------------------------------
(* Mutual exclusion until two grants overlap.  The executor asks for IX and *)
(* S on tables and X on rows; with IS in play a conversion from S and IX to *)
(* X would be granted beside an IS holder.                                 *)

ProgramModes == "IS" \notin TableModes /\ "S" \notin RowModes

\* no IS, and only X on rows; only a thread outside the wait loop can be orphaned
Modes(t) ==
    /\ pc[t] \notin {"idle", "ended"} =>
          want[t].mode # "IS" /\ (goal[t].slot # Whole => goal[t].mode = "X")
    /\ \A tab \in Table, s \in Slot : holders[tab][s][t] # "IS"
    /\ orphan[t] => pc[t] \in {"check", "record"}

ModesInv == \A t \in Txn : Modes(t)

\* who has decided to take a lock may still take it
GrantsHold == \A t \in Txn : Granted(t) => Grantable(t)

ExclInv ==
    /\ IInv /\ ModesInv
    /\ Overlap => overlapped
    /\ ~overlapped => HoldersAreCompatible /\ GrantsHold

(* The holders after each step that changes them. *)
LEMMA PointHolders ==
  ASSUME TypeOK, NEW t \in Txn, NEW tab \in Table, NEW slot \in Slot, NEW mode,
         holders' = [holders EXCEPT ![tab][slot][t] = mode]
  PROVE  \A x \in Table, s \in Slot, u \in Txn :
            holders'[x][s][u] = IF x = tab /\ s = slot /\ u = t THEN mode ELSE holders[x][s][u]
BY DEF TypeOK

(* What an escalation does to the holders.                                 *)
LEMMA EscalateHolders ==
  ASSUME TypeInv, NEW t \in Txn, RecordAndEscalate(t)
  PROVE  \A x \in Table, s \in Slot, u \in Txn :
            \/ holders'[x][s][u] = holders[x][s][u]
            \/ u = t /\ holders'[x][s][u] = "none"
            \/ /\ u = t /\ x = want[t].tab /\ s = Whole /\ holders'[x][s][u] = "X"
               /\ GrantableAs(x, Whole, "X", t)
<1> USE DEF TypeInv, TypeOK
<1>1. want[t].tab \in Table
  BY DEF RecordAndEscalate, CallShape, Request
<1> TAKE x \in Table, s \in Slot, u \in Txn
<1> DEFINE rows == txRows[t][want[t].tab] \cup {want[t].slot}
<1>2. CASE x # want[t].tab
  BY <1>1, <1>2 DEF RecordAndEscalate
<1>3. CASE x = want[t].tab
  <2>1. holders'[x] = [r \in Slot |->
              IF r \in rows THEN [holders[x][r] EXCEPT ![t] = "none"]
              ELSE IF r = Whole /\ GrantableAs(x, Whole, "X", t)
                     THEN [holders[x][r] EXCEPT ![t] = "X"]
              ELSE holders[x][r]]
    BY <1>1, <1>3 DEF RecordAndEscalate
  <2> HIDE DEF rows
  <2> QED
    BY <1>3, <2>1
<1> QED
  BY <1>2, <1>3

(* An escalation drops the row locks that it stands for.                   *)
LEMMA EscalateDrops ==
  ASSUME TypeInv, NEW t \in Txn, RecordAndEscalate(t)
  PROVE  \A s \in Slot : s \in txRows[t][want[t].tab] \cup {want[t].slot} =>
            holders'[want[t].tab][s][t] = "none"
<1> USE DEF TypeInv, TypeOK
<1> DEFINE tab == want[t].tab
           rows == txRows[t][tab] \cup {want[t].slot}
<1>1. tab \in Table
  BY DEF RecordAndEscalate, CallShape, Request
<1>2. holders'[tab] = [r \in Slot |->
            IF r \in rows THEN [holders[tab][r] EXCEPT ![t] = "none"]
            ELSE IF r = Whole /\ GrantableAs(tab, Whole, "X", t)
                   THEN [holders[tab][r] EXCEPT ![t] = "X"]
            ELSE holders[tab][r]]
  BY <1>1 DEF RecordAndEscalate
<1> QED
  BY <1>1, <1>2

(* What release_all does to the holders.                                   *)
LEMMA ReleaseHolders ==
  ASSUME TypeOK, NEW t \in Txn, Released(t)
  PROVE  \A x \in Table, s \in Slot, u \in Txn :
            /\ holders'[x][s][u] = holders[x][s][u] \/ (u = t /\ holders'[x][s][u] = "none")
            /\ s \in Recorded(t, x) => holders'[x][s][t] = "none"
BY DEF TypeOK, Released

(* Only the modes the program asks for are ever held.                      *)
LEMMA ModesKept ==
  ASSUME ProgramModes, IInv, ModesInv, [Next]_vars PROVE ModesInv'
<1> USE DEF IInv, TypeInv, TypeOK
<1>0. \A u \in Txn : ThreadInv(u) /\ Modes(u)
  BY DEF ModesInv
<1>1. ASSUME NEW t \in Txn, Acts(t), Modes(t)',
             \A u \in Txn \ {t} : orphan'[u] => orphan[u] \/ pc[u] = "check"
      PROVE ModesInv'
  <2>1. ASSUME NEW u \in Txn \ {t} PROVE Modes(u)'
    <3>1. Untouched(u) /\ Modes(u)
      BY <1>0, <1>1, Frame
    <3>2. (orphan[u] => pc[u] \in {"check", "record"}) /\ (orphan'[u] => orphan[u] \/ pc[u] = "check")
      BY <1>1, <3>1 DEF Modes
    <3>3. orphan'[u] => pc'[u] \in {"check", "record"}
      BY <3>1, <3>2 DEF Untouched
    <3>4. \A tab \in Table, s \in Slot : holders'[tab][s][u] # "IS"
      BY <3>1 DEF Untouched, Modes
    <3> QED
      BY <3>1, <3>3, <3>4 DEF Untouched, Modes
  <2> QED
    BY <1>1, <2>1 DEF ModesInv
<1>2. ASSUME NEW t \in Txn, NEW tab \in Table, NEW mode \in TableModes, CallTable(t, tab, mode)
      PROVE ModesInv'
  <2>1. /\ want'[t].mode = mode /\ goal'[t].slot = Whole /\ pc'[t] = "check"
        /\ orphan'[t] = FALSE /\ UNCHANGED holders
        /\ \A u \in Txn \ {t} : orphan'[u] = orphan[u]
    BY <1>2 DEF CallTable, Enter
  <2>2. mode # "IS"
    BY DEF ProgramModes
  <2>3. Modes(t)'
    BY <1>0, <2>1, <2>2 DEF Modes
  <2>4. Acts(t)
    BY <1>2 DEF Acts, Call
  <2> QED
    BY <1>1, <2>1, <2>3, <2>4
<1>3. ASSUME NEW t \in Txn, NEW tab \in Table, NEW row \in Row, NEW mode \in RowModes,
             CallRow(t, tab, row, mode)
      PROVE ModesInv'
  <2>1. mode = "X"
    BY DEF ProgramModes
  <2>2. /\ want'[t].mode \in {"X", "IX"} /\ goal'[t].mode = "X" /\ pc'[t] = "check"
        /\ orphan'[t] = FALSE /\ UNCHANGED holders
        /\ \A u \in Txn \ {t} : orphan'[u] = orphan[u]
    BY <1>3, <2>1 DEF CallRow, FirstLock, Intent, Enter
  <2>3. Modes(t)'
    BY <1>0, <2>2 DEF Modes
  <2>4. Acts(t)
    BY <1>3 DEF Acts, Call
  <2> QED
    BY <1>1, <2>2, <2>3, <2>4
<1>4. ASSUME NEW t \in Txn, NEW tab \in Table, CallEscalated(t, tab) PROVE ModesInv'
  <2>1. /\ want'[t].mode = "X" /\ goal'[t].slot = Whole /\ pc'[t] = "check"
        /\ orphan'[t] = FALSE /\ UNCHANGED holders
        /\ \A u \in Txn \ {t} : orphan'[u] = orphan[u]
    BY <1>4 DEF CallEscalated, Enter
  <2>2. Modes(t)'
    BY <1>0, <2>1 DEF Modes
  <2>3. Acts(t)
    BY <1>4 DEF Acts, Call
  <2> QED
    BY <1>1, <2>1, <2>2, <2>3
<1>5. ASSUME NEW t \in Txn, Check(t) \/ Detect(t) \/ Recheck(t) \/ Timeout(t) PROVE ModesInv'
  <2>1. /\ UNCHANGED <<holders, want, goal, orphan>>
        /\ pc[t] \notin {"idle", "ended"} /\ (pc[t] = "check" \/ pc[t] \notin {"check", "record"})
        /\ pc[t] = "check" /\ orphan[t] => pc'[t] = "record"
    BY <1>5 DEF Check, Detect, Recheck, Timeout
  <2>3. Modes(t)'
    BY <1>0, <2>1 DEF Modes
  <2> QED
    BY <1>1, <1>5, <2>1, <2>3 DEF Acts, Step
<1>6. ASSUME NEW t \in Txn, Leave(t) PROVE ModesInv'
  <2>1. CASE Return(t)
    <3>1. \A tab \in Table, s \in Slot : holders'[tab][s][t] # "IS"
      BY <1>0, <1>6 DEF Leave, Modes
    <3>2. pc'[t] = "idle" /\ orphan'[t] = FALSE
      BY <2>1 DEF Return
    <3>3. Modes(t)'
      BY <3>1, <3>2 DEF Modes
    <3>4. \A u \in Txn \ {t} : orphan'[u] = orphan[u]
      BY <2>1 DEF Return
    <3>5. Acts(t)
      BY <1>6 DEF Acts, Step
    <3> QED
      BY <1>1, <3>3, <3>4, <3>5
  <2>2. CASE pc[t] = "granted" /\ pc' = [pc EXCEPT ![t] = "record"]
             /\ UNCHANGED <<meta, goal, want, orphan>>
    <3>1. UNCHANGED holders /\ pc'[t] = "record"
      BY <1>6, <2>2 DEF Leave
    <3>2. Modes(t)'
      BY <1>0, <2>2, <3>1 DEF Modes
    <3>3. Acts(t)
      BY <1>6 DEF Acts, Step
    <3> QED
      BY <1>1, <2>2, <3>2, <3>3
  <2> QED
    BY <1>6, <2>1, <2>2 DEF Leave
<1>7. ASSUME NEW t \in Txn, RecordTable(t) PROVE ModesInv'
  <2> DEFINE tab == want[t].tab
             mode == Joined(txTables[t][tab], want[t].mode)
  <2>1. /\ tab \in Table /\ want[t].mode \in Mode \ {"IS"} /\ pc[t] = "record"
        /\ goal[t] \in Request /\ (goal[t].slot # Whole => goal[t].mode = "X")
    BY <1>0, <1>7 DEF RecordTable, CallShape, Request, Modes
  <2>2. txTables[t][tab] \in Held \ {"IS"}
    <3>1. txTables[t][tab] = holders[tab][Whole][t]
      BY <1>0, <2>1 DEF ThreadInv, Booked
    <3>2. \A x \in Table : txTables[t][x] \in Held
      OBVIOUS
    <3>3. holders[tab][Whole][t] # "IS"
      BY <1>0, <2>1 DEF Modes, Slot
    <3> QED
      BY <2>1, <3>1, <3>2, <3>3
  <2>3. mode # "IS"
    BY <2>1, <2>2 DEF Joined, Held, Mode
  <2>4. /\ holders' = [holders EXCEPT ![tab][Whole][t] = mode]
        /\ Return(t) \/ Enter(t, goal[t], goal[t])
    BY <1>7 DEF RecordTable
  <2> HIDE DEF mode
  <2>5. \A x \in Table, s \in Slot : holders'[x][s][t] # "IS"
    <3>1. Whole \in Slot /\ Modes(t)
      BY <1>0 DEF Slot
    <3> QED
      BY <2>1, <2>3, <2>4, <3>1, PointHolders DEF Modes
  <2>6. goal[t].mode = want[t].mode \/ goal[t].slot # Whole
    BY <1>7 DEF CallShape, RecordTable
  <2>7. CASE Return(t)
    BY <1>1, <1>7, <2>5, <2>7 DEF Return, Modes, Acts, Step
  <2>8. CASE Enter(t, goal[t], goal[t])
    BY <1>1, <1>7, <2>1, <2>5, <2>6, <2>8 DEF Enter, Modes, Acts, Step
  <2> QED
    BY <2>4, <2>7, <2>8
<1>8. ASSUME NEW t \in Txn, RecordRow(t) PROVE ModesInv'
  <2>1. /\ want[t].tab \in Table /\ want[t].slot \in Slot /\ want[t].mode # "IS"
        /\ holders' = [holders EXCEPT ![want[t].tab][want[t].slot][t] = want[t].mode]
    BY <1>0, <1>8 DEF RecordRow, CallShape, Request, Modes
  <2>2. \A x \in Table, s \in Slot : holders'[x][s][t] # "IS"
    BY <1>0, <2>1, PointHolders DEF Modes
  <2> QED
    BY <1>1, <1>8, <2>2 DEF RecordRow, Return, Modes, Acts, Step
<1>9. ASSUME NEW t \in Txn, RecordAndEscalate(t) PROVE ModesInv'
  <2>1. \A x \in Table, s \in Slot : holders'[x][s][t] # "IS"
    <3> TAKE x \in Table, s \in Slot
    <3>1. holders[x][s][t] # "IS"
      BY <1>0 DEF Modes
    <3>2. holders'[x][s][t] \in {holders[x][s][t], "none", "X"}
      <4> HIDE DEF TypeOK
      <4> QED
        BY <1>9, EscalateHolders DEF TypeInv
    <3> QED
      BY <3>1, <3>2
  <2>2. Modes(t)' /\ \A u \in Txn : orphan'[u] => orphan[u] \/ pc[u] = "check"
    BY <1>9, <2>1 DEF RecordAndEscalate, Orphaned, Modes
  <2> QED
    BY <1>1, <1>9, <2>2 DEF Acts, Step
<1>10. ASSUME NEW t \in Txn, ReleaseAll(t) \/ ShutdownReleases(t) PROVE ModesInv'
  <2>0. Released(t)
    BY <1>10 DEF ReleaseAll, ShutdownReleases
  <2>1. \A x \in Table, s \in Slot : holders'[x][s][t] # "IS"
    <3> TAKE x \in Table, s \in Slot
    <3>1. holders[x][s][t] # "IS"
      BY <1>0 DEF Modes
    <3>2. holders'[x][s][t] = holders[x][s][t] \/ holders'[x][s][t] = "none"
      BY <2>0, ReleaseHolders
    <3> QED
      BY <3>1, <3>2
  <2>2. \A u \in Txn : orphan'[u] => orphan[u] \/ pc[u] = "check"
    BY <1>10 DEF ReleaseAll, ShutdownReleases, OrphanedByRelease, Orphaned
  <2>3. Modes(t)'
    BY <1>0, <1>10, <2>1, <2>2 DEF ReleaseAll, ShutdownReleases, Modes
  <2> QED
    BY <1>1, <1>10, <2>2, <2>3 DEF Acts
<1>11. ASSUME NEW t \in Txn, EndAfterShutdown(t) PROVE ModesInv'
  BY <1>0, <1>1, <1>11 DEF EndAfterShutdown, Modes, Acts
<1>12. CASE UNCHANGED vars
  BY <1>12 DEF vars, ModesInv, Modes
<1> QED
  BY <1>2, <1>3, <1>4, <1>5, <1>6, <1>7, <1>8, <1>9, <1>10, <1>11, <1>12 DEF Next, Call, Step

(* A mode compatible with both is compatible with their join.              *)
LEMMA CompatibleJoined ==
  ASSUME NEW held \in Mode \ {"IS"}, NEW mode \in Mode \ {"IS"},
         NEW other \in Mode \ {"IS"},
         Compatible(Whole, other, held), Compatible(Whole, other, mode)
  PROVE  Compatible(Whole, other, Joined(held, mode))
BY DEF Compatible, TableCompat, Joined, Rank, Mode

(* Compatibility is symmetric.                                             *)
LEMMA CompatibleBothWays ==
  ASSUME NEW slot, NEW a \in Mode, NEW b \in Mode, Compatible(slot, a, b)
  PROVE  Compatible(slot, b, a)
BY DEF Compatible, TableCompat, Mode

\* t may lose locks and records at most this one
RecordsAtMost(t, tab, slot, mode) ==
    \A x \in Table, s \in Slot, u \in Txn :
       \/ holders'[x][s][u] = holders[x][s][u]
       \/ u = t /\ holders'[x][s][u] = "none"
       \/ u = t /\ x = tab /\ s = slot /\ holders'[x][s][u] = mode

(* A lock recorded beside compatible holders keeps all holders compatible. *)
LEMMA PointCompatible ==
  ASSUME TypeOK, HoldersAreCompatible,
         NEW t \in Txn, NEW tab \in Table, NEW slot \in Slot, NEW mode \in Mode,
         RecordsAtMost(t, tab, slot, mode), GrantableAs(tab, slot, mode, t)
  PROVE  HoldersAreCompatible'
<1> SUFFICES ASSUME NEW x \in Table, NEW s \in Slot, NEW v \in Txn, NEW w \in Txn, v # w,
                    holders'[x][s][v] # "none", holders'[x][s][w] # "none"
             PROVE  Compatible(s, holders'[x][s][v], holders'[x][s][w])
  BY DEF HoldersAreCompatible
<1>1. \A u \in Txn :
         \/ holders'[x][s][u] = holders[x][s][u]
         \/ u = t /\ holders'[x][s][u] = "none"
         \/ u = t /\ x = tab /\ s = slot /\ holders'[x][s][u] = mode
  BY DEF RecordsAtMost
<1>2. \A u \in Txn \ {t} :
         holders[tab][slot][u] = "none" \/ Compatible(slot, holders[tab][slot][u], mode)
  BY DEF GrantableAs
<1>3. \A u \in Txn : holders[x][s][u] \in Mode \cup {"none"}
  BY DEF TypeOK, Held
<1>4. CASE holders'[x][s][v] = holders[x][s][v] /\ holders'[x][s][w] = holders[x][s][w]
  BY <1>4 DEF HoldersAreCompatible
<1>5. CASE holders'[x][s][v] # holders[x][s][v]
  <2>1. v = t /\ x = tab /\ s = slot /\ holders'[x][s][v] = mode
    BY <1>5, <1>1
  <2>2. holders'[x][s][w] = holders[x][s][w]
    BY <1>1, <2>1
  <2>3. Compatible(s, holders[x][s][w], mode) /\ holders[x][s][w] \in Mode
    BY <1>3, <1>2, <2>1, <2>2
  <2>4. Compatible(s, mode, holders[x][s][w])
    BY <2>3, CompatibleBothWays
  <2> QED
    BY <2>1, <2>2, <2>4
<1>6. CASE holders'[x][s][w] # holders[x][s][w]
  <2>1. w = t /\ x = tab /\ s = slot /\ holders'[x][s][w] = mode
    BY <1>6, <1>1
  <2>2. holders'[x][s][v] = holders[x][s][v]
    BY <1>1, <2>1
  <2> QED
    BY <1>2, <2>1, <2>2
<1> QED
  BY <1>4, <1>5, <1>6

(* A grant survives steps that only take locks away on its table. *)
LEMMA GrantKept ==
  ASSUME NEW u \in Txn, Grantable(u), want'[u] = want[u],
         \A v \in Txn : holders'[want[u].tab][want[u].slot][v]
                          \in {holders[want[u].tab][want[u].slot][v], "none"}
  PROVE  Grantable(u)'
BY DEF Grantable, GrantableAs

\* Steps that change no holder.
LEMMA QuietGrants ==
  ASSUME IInv, ModesInv, GrantsHold, NEW t \in Txn,
         \/ \E tab \in Table : \/ \E mode \in TableModes : CallTable(t, tab, mode)
                               \/ \E row \in Row, mode \in RowModes : CallRow(t, tab, row, mode)
                               \/ CallEscalated(t, tab)
         \/ Check(t) \/ Detect(t) \/ Recheck(t) \/ Timeout(t) \/ Leave(t) \/ EndAfterShutdown(t)
  PROVE  GrantsHold'
<1> USE DEF IInv, TypeInv, TypeOK
<1>1. UNCHANGED holders
  BY DEF CallTable, CallRow, CallEscalated, Check, Detect, Recheck, Timeout, Leave,
     EndAfterShutdown
<1>2. ASSUME NEW u \in Txn \ {t} PROVE Granted(u)' => Granted(u) /\ want'[u] = want[u]
  BY DEF CallTable, CallRow, CallEscalated, Check, Detect, Recheck, Timeout, Leave, Enter,
         EndAfterShutdown, Return, Granted
<1>3. Granted(t)' => (Granted(t) \/ Grantable(t)) /\ want'[t] = want[t]
  <2>1. orphan[t] => pc[t] \in {"check", "record"}
    BY DEF ModesInv, Modes
  <2> QED
    BY <2>1 DEF CallTable, CallRow, CallEscalated, Check, Detect, Recheck, Timeout, Leave,
         EndAfterShutdown, Enter, Return, Granted
<1>4. \A u \in Txn : Granted(u)' => Grantable(u) /\ want'[u] = want[u]
  BY <1>2, <1>3 DEF GrantsHold
<1> QED
  BY <1>1, <1>4 DEF GrantsHold, Grantable, GrantableAs

\* The holders of a table on which t has decided to take a lock change under t's
\* hands only: nobody else has decided there.
LEMMA RecordGrants ==
  ASSUME IInv, ModesInv, ~Overlap, GrantsHold, NEW t \in Txn, pc[t] = "record",
         RecordTable(t) \/ RecordRow(t) \/ RecordAndEscalate(t)
  PROVE  GrantsHold'
<1> USE DEF IInv, TypeInv, TypeOK
<1> DEFINE tab == want[t].tab
<1>0. tab \in Table /\ want[t].slot \in Slot
  BY DEF CallShape, Request
<1>1. ASSUME NEW u \in Txn \ {t}
      PROVE pc'[u] = pc[u] /\ want'[u] = want[u] /\
            (pc[u] \notin {"idle", "ended"} => want[u].tab \in Table /\ want[u].slot \in Slot)
  BY Frame DEF Acts, Step, Untouched, CallShape, Request
<1>2. \A x \in Table, s \in Slot, v \in Txn : x # tab => holders'[x][s][v] = holders[x][s][v]
  <2>1. CASE RecordTable(t)
    BY <1>0, <2>1 DEF RecordTable
  <2>2. CASE RecordRow(t)
    BY <1>0, <2>2 DEF RecordRow
  <2>3. CASE RecordAndEscalate(t)
    BY <1>0, <2>3 DEF RecordAndEscalate
  <2> QED
    BY <2>1, <2>2, <2>3
<1>3. ASSUME NEW u \in Txn \ {t}, Granted(u) PROVE Grantable(u)'
  <2>1. want[u].tab # tab
    BY <1>3 DEF Overlap, Granted
  <2>2. pc[u] \notin {"idle", "ended"}
    BY <1>3 DEF Granted, ModesInv, Modes
  <2>3. Grantable(u)
    BY <1>3 DEF GrantsHold
  <2> QED
    <3>1. want'[u] = want[u] /\ want[u].tab \in Table /\ want[u].slot \in Slot
      BY <1>1, <2>2
    <3>2. \A v \in Txn : holders'[want[u].tab][want[u].slot][v]
                           = holders[want[u].tab][want[u].slot][v]
      BY <1>2, <2>1, <3>1
    <3> QED
      BY <2>3, <3>1, <3>2, GrantKept
<1>4. ASSUME NEW u \in Txn \ {t}, Granted(u)', ~Granted(u) PROVE Grantable(u)'
  <2>1. ~orphan[u] /\ orphan'[u]
    BY <1>1, <1>4 DEF Granted
  <2>2. RecordAndEscalate(t)
    BY <2>1 DEF RecordTable, RecordRow, Return, Enter
  <2>3. /\ pc[u] = "check" /\ want[u].tab = tab
        /\ want[u].slot \in Dropped(tab, txRows[t][tab] \cup {want[t].slot}, t)
    <3> DEFINE dropped == [x \in Table |->
                 IF x = tab THEN Dropped(tab, txRows[t][tab] \cup {want[t].slot}, t) ELSE {}]
    <3>1. orphan'[u] = Orphaned(dropped)[u]
      BY <2>2 DEF RecordAndEscalate, Orphaned
    <3>2. pc[u] = "check" /\ want[u].slot \in dropped[want[u].tab]
      BY <2>1, <3>1 DEF Orphaned
    <3>3. want[u].tab \in Table
      BY <1>1, <3>2
    <3> QED
      BY <3>2, <3>3
  <2>4. \A v \in Txn \ {t} : holders[tab][want[u].slot][v] = "none"
    BY <2>3 DEF Dropped
  <2>5. want[u].slot \in Slot /\ want[u].slot # Whole
    <3>1. txRows[t][tab] \subseteq Row
      BY <1>0
    <3>2. want[t].slot \in Row
      BY <1>0, <2>2 DEF RecordAndEscalate, Slot
    <3>3. want[u].slot \in txRows[t][tab] \cup {want[t].slot}
      BY <2>3 DEF Dropped
    <3>4. want[u].slot \in Row
      BY <3>1, <3>2, <3>3
    <3> QED
      BY <3>4, SlotAssumption DEF Slot
  <2>6. holders'[tab][want[u].slot][t] = "none"
    BY <2>2, <2>3, <2>5, EscalateDrops DEF Dropped
  <2>7. \A v \in Txn : holders'[tab][want[u].slot][v] = "none"
    BY <1>0, <2>2, <2>4, <2>5, <2>6, EscalateHolders
  <2> QED
    BY <1>1, <2>3, <2>7 DEF Grantable, GrantableAs
<1>5. ~Granted(t)'
  <2>1. CASE Return(t) \/ Enter(t, goal[t], goal[t])
    BY <2>1 DEF Return, Enter, Granted
  <2>2. CASE RecordAndEscalate(t)
    <3>1. pc'[t] = "idle" /\ orphan'[t] = FALSE
      BY <2>2 DEF RecordAndEscalate, Orphaned
    <3> QED
      BY <3>1 DEF Granted
  <2> QED
    BY <2>1, <2>2 DEF RecordTable, RecordRow
<1> QED
  BY <1>3, <1>4, <1>5 DEF GrantsHold

\* Releasing only takes locks away; a resource it drops has no holder left.
LEMMA ReleaseGrants ==
  ASSUME IInv, ModesInv, GrantsHold, NEW t \in Txn,
         ReleaseAll(t) \/ ShutdownReleases(t)
  PROVE  GrantsHold'
<1> USE DEF IInv, TypeInv, TypeOK
<1>0. Released(t) /\ want' = want
  BY DEF ReleaseAll, ShutdownReleases
<1>1. ASSUME NEW u \in Txn, Granted(u) \/ pc[u] = "check"
      PROVE want[u].tab \in Table /\ want[u].slot \in Slot
  BY <1>1 DEF Granted, ModesInv, Modes, CallShape, Request
<1>2. ASSUME NEW u \in Txn, Granted(u) PROVE Grantable(u)'
  <2>1. Grantable(u) /\ want[u].tab \in Table /\ want[u].slot \in Slot
    BY <1>1, <1>2 DEF GrantsHold
  <2>2. \A v \in Txn : holders'[want[u].tab][want[u].slot][v]
                         \in {holders[want[u].tab][want[u].slot][v], "none"}
    BY <1>0, <2>1, ReleaseHolders
  <2> QED
    BY <1>0, <2>1, <2>2, GrantKept
<1>3. ASSUME NEW u \in Txn, Granted(u)', ~Granted(u) PROVE Grantable(u)'
  <2> DEFINE dropped == [x \in Table |-> Dropped(x, Recorded(t, x), t)]
  <2>1. pc'[u] = pc[u] \/ pc'[u] = "ended"
    BY DEF ReleaseAll, ShutdownReleases
  <2>2. ~orphan[u] /\ orphan'[u]
    BY <1>3, <2>1 DEF Granted
  <2>3. orphan'[u] => Orphaned(dropped)[u]
    <3>1. CASE ReleaseAll(t)
      BY <3>1 DEF ReleaseAll, OrphanedByRelease
    <3>2. CASE ShutdownReleases(t)
      <4>1. OrphanedByRelease(t) \in [Txn -> BOOLEAN] /\ OrphanedByRelease(t) = Orphaned(dropped)
        BY DEF OrphanedByRelease, Orphaned
      <4>2. \A v \in Txn : orphan'[v] => orphan[v] \/ OrphanedByRelease(t)[v]
        BY <3>2, <4>1 DEF ShutdownReleases
      <4> QED
        BY <2>2, <4>1, <4>2
    <3> QED
      BY <3>1, <3>2
  <2>4. pc[u] = "check" /\ want[u].slot \in dropped[want[u].tab]
    BY <2>2, <2>3 DEF Orphaned
  <2>5. want[u].tab \in Table /\ want[u].slot \in Slot
    BY <1>1, <2>4
  <2>6. /\ want[u].slot \in Recorded(t, want[u].tab)
        /\ \A v \in Txn \ {t} : holders[want[u].tab][want[u].slot][v] = "none"
    BY <2>4, <2>5 DEF Dropped
  <2>7. \A v \in Txn : holders'[want[u].tab][want[u].slot][v] = "none"
    <3> HIDE DEF TypeOK
    <3>1. \A x \in Table, s \in Slot, v \in Txn :
             /\ holders'[x][s][v] = holders[x][s][v] \/ (v = t /\ holders'[x][s][v] = "none")
             /\ s \in Recorded(t, x) => holders'[x][s][t] = "none"
      BY <1>0, ReleaseHolders
    <3> QED
      BY <2>5, <2>6, <3>1
  <2> QED
    BY <1>0, <2>7 DEF Grantable, GrantableAs
<1> QED
  BY <1>2, <1>3 DEF GrantsHold

(* The record of a table lock keeps the holders compatible,                *)
LEMMA RecordTableCompatible ==
  ASSUME IInv, ModesInv, HoldersAreCompatible, GrantsHold, NEW t \in Txn, RecordTable(t)
  PROVE  HoldersAreCompatible'
<1> USE DEF IInv, TypeInv, TypeOK
<1> DEFINE tab == want[t].tab
           held == txTables[t][tab]
           mode == Joined(held, want[t].mode)
<1>1. /\ tab \in Table /\ Whole \in Slot /\ want[t].slot = Whole
      /\ want[t].mode \in Mode \ {"IS"} /\ pc[t] = "record"
      /\ holders' = [holders EXCEPT ![tab][Whole][t] = mode]
  BY DEF RecordTable, CallShape, Request, Slot, ModesInv, Modes
<1>2. held = holders[tab][Whole][t] /\ held \in Held \ {"IS"}
  <2>1. \A x \in Table, s \in Slot : holders[x][s][t] \in Held /\ holders[x][s][t] # "IS"
    BY DEF ModesInv, Modes
  <2>2. held = holders[tab][Whole][t]
    BY <1>1 DEF ThreadInv, Booked
  <2> QED
    BY <1>1, <2>1, <2>2
<1>3. mode \in Mode
  BY <1>1, <1>2, JoinedType
<1>4. ASSUME NEW u \in Txn \ {t}, holders[tab][Whole][u] # "none"
      PROVE Compatible(Whole, holders[tab][Whole][u], mode)
  <2> DEFINE other == holders[tab][Whole][u]
  <2>1. other \in Mode \ {"IS"}
    <3>1. \A x \in Table, s \in Slot : holders[x][s][u] \in Held /\ holders[x][s][u] # "IS"
      BY DEF ModesInv, Modes
    <3> QED
      BY <1>1, <1>4, <3>1 DEF Held
  <2>2. Compatible(Whole, other, want[t].mode)
    BY <1>1, <1>4 DEF GrantsHold, Granted, Grantable, GrantableAs
  <2>3. CASE held = "none"
    BY <2>2, <2>3 DEF Joined
  <2>4. CASE held # "none"
    <3>1. held \in Mode \ {"IS"} /\ Compatible(Whole, other, held)
      BY <1>1, <1>2, <1>4, <2>4 DEF HoldersAreCompatible, Held
    <3> QED
      BY <1>1, <2>1, <2>2, <3>1, CompatibleJoined
  <2> QED
    BY <2>3, <2>4
<1> HIDE DEF mode
<1>5. RecordsAtMost(t, tab, Whole, mode) /\ GrantableAs(tab, Whole, mode, t)
  BY <1>1, <1>4, PointHolders DEF RecordsAtMost, GrantableAs
<1> QED
  BY <1>1, <1>3, <1>4, <1>5, PointCompatible

(* and so does that of a row lock,                                         *)
LEMMA RecordRowCompatible ==
  ASSUME IInv, ModesInv, HoldersAreCompatible, GrantsHold, NEW t \in Txn, RecordRow(t)
  PROVE  HoldersAreCompatible'
<1> USE DEF IInv, TypeInv, TypeOK
<1> DEFINE tab == want[t].tab
           row == want[t].slot
           mode == want[t].mode
<1>1. /\ tab \in Table /\ row \in Slot /\ mode \in Mode /\ pc[t] = "record"
      /\ holders' = [holders EXCEPT ![tab][row][t] = mode]
  BY DEF RecordRow, CallShape, Request
<1>2. GrantableAs(tab, row, mode, t)
  BY <1>1 DEF GrantsHold, Granted, Grantable
<1> HIDE DEF mode, row, tab
<1>3. RecordsAtMost(t, tab, row, mode)
  BY <1>1, PointHolders DEF RecordsAtMost
<1> QED
  BY <1>1, <1>2, <1>3, PointCompatible

(* and an escalation.                                                      *)
LEMMA EscalateCompatible ==
  ASSUME IInv, HoldersAreCompatible, NEW t \in Txn, RecordAndEscalate(t)
  PROVE  HoldersAreCompatible'
<1> USE DEF IInv, TypeInv, TypeOK
<1>1. want[t].tab \in Table /\ Whole \in Slot
  BY DEF RecordAndEscalate, CallShape, Request, Slot
<1>2. CASE GrantableAs(want[t].tab, Whole, "X", t)
  <2>1. RecordsAtMost(t, want[t].tab, Whole, "X")
    BY EscalateHolders DEF RecordsAtMost
  <2> QED
    BY <1>1, <1>2, <2>1, PointCompatible DEF Mode
<1>3. CASE ~GrantableAs(want[t].tab, Whole, "X", t)
  <2>1. \A x \in Table, s \in Slot, u \in Txn :
           holders'[x][s][u] = holders[x][s][u] \/ holders'[x][s][u] = "none"
    BY <1>3, EscalateHolders
  <2> QED
    BY <2>1 DEF HoldersAreCompatible
<1> QED
  BY <1>2, <1>3

(* Every step keeps the invariant about exclusion.                         *)
LEMMA ExclKept == ProgramModes /\ ExclInv /\ [Next]_vars => ExclInv'
<1> SUFFICES ASSUME ProgramModes, ExclInv, [Next]_vars PROVE ExclInv'
  OBVIOUS
<1>1. IInv' /\ ModesInv'
  BY NextInductive, ModesKept DEF ExclInv
<1>2. CASE UNCHANGED vars
  BY <1>1, <1>2 DEF ExclInv, vars, Overlap, Granted, HoldersAreCompatible, GrantsHold,
     Grantable, GrantableAs
<1>3. CASE Next
  <2>1. Overlap' => overlapped'
    BY <1>3 DEF Next, Observe
  <2>2. ASSUME ~overlapped' PROVE HoldersAreCompatible' /\ GrantsHold'
    <3>1. ~overlapped /\ ~Overlap /\ HoldersAreCompatible /\ GrantsHold /\ IInv /\ ModesInv
      BY <1>3, <2>2 DEF Next, Observe, ExclInv, IInv, TypeInv, TypeOK
    <3>2. PICK t \in Txn : Acts(t)
      BY <1>3 DEF Next, Acts
    <3>3. CASE RecordTable(t)
      <4>1. pc[t] = "record"
        BY <3>3 DEF RecordTable
      <4> QED
        BY <3>1, <3>3, <4>1, RecordGrants, RecordTableCompatible
    <3>4. CASE RecordRow(t)
      <4>1. pc[t] = "record"
        BY <3>4 DEF RecordRow
      <4> QED
        BY <3>1, <3>4, <4>1, RecordGrants, RecordRowCompatible
    <3>5. CASE RecordAndEscalate(t)
      <4>1. pc[t] = "record"
        BY <3>5 DEF RecordAndEscalate
      <4> QED
        BY <3>1, <3>5, <4>1, RecordGrants, EscalateCompatible
    <3>6. CASE ReleaseAll(t) \/ ShutdownReleases(t)
      <4>1. \A x \in Table, s \in Slot, u \in Txn :
               holders'[x][s][u] = holders[x][s][u] \/ holders'[x][s][u] = "none"
        <5>1. TypeOK
          BY <3>1 DEF IInv, TypeInv
        <5>2. \A x \in Table, s \in Slot, u \in Txn :
                 holders'[x][s][u] = holders[x][s][u]
                    \/ (u = t /\ holders'[x][s][u] = "none")
          <6>1. Released(t)
            BY <3>6 DEF ReleaseAll, ShutdownReleases
          <6> QED
            BY <5>1, <6>1, ReleaseHolders
        <5> QED
          BY <5>2
      <4>2. HoldersAreCompatible'
        BY <3>1, <4>1 DEF HoldersAreCompatible
      <4> QED
        BY <3>1, <3>6, <4>2, ReleaseGrants
    <3>7. CASE \/ Call(t) \/ Check(t) \/ Detect(t) \/ Recheck(t) \/ Timeout(t) \/ Leave(t)
               \/ EndAfterShutdown(t)
      <4>1. UNCHANGED holders
        BY <3>7 DEF Call, CallTable, CallRow, CallEscalated, Check, Detect, Recheck, Timeout,
           Leave, EndAfterShutdown
      <4>2. HoldersAreCompatible'
        BY <3>1, <4>1 DEF HoldersAreCompatible
      <4> QED
        BY <3>1, <3>7, <4>2, QuietGrants DEF Call
    <3> QED
      BY <3>2, <3>3, <3>4, <3>5, <3>6, <3>7 DEF Acts, Step
  <2> QED
    BY <1>1, <2>1, <2>2 DEF ExclInv
<1> QED
  BY <1>2, <1>3

(* Nobody holds anything at the start.                                     *)
LEMMA ExclInit == Init => ExclInv
<1> SUFFICES ASSUME Init PROVE ExclInv
  OBVIOUS
<1>1. IInv
  BY InitInductive
<1>2. ModesInv
  BY DEF Init, ModesInv, Modes, Slot
<1>3. ~Overlap /\ GrantsHold
  BY DEF Init, Overlap, Granted, GrantsHold
<1>4. HoldersAreCompatible
  BY DEF Init, HoldersAreCompatible, Slot
<1> QED
  BY <1>1, <1>2, <1>3, <1>4 DEF ExclInv

(* With the modes the executor uses, two transactions hold incompatible    *)
(* locks only after two grants on a table have overlapped: the gap between *)
(* deciding a grant and recording it is the only way to lose exclusion.    *)
THEOREM ExclusiveUntilOverlap ==
  ProgramModes => (Spec => []CompatibleUntilOverlap)
<1>1. ExclInv => CompatibleUntilOverlap
  BY DEF ExclInv, CompatibleUntilOverlap
<1> SUFFICES ASSUME ProgramModes PROVE Spec => []CompatibleUntilOverlap
  OBVIOUS
<1>2. ExclInv /\ [Next]_vars => ExclInv'
  BY ExclKept
<1> QED
  BY <1>1, <1>2, ExclInit, PTL DEF Spec
=============================================================================
