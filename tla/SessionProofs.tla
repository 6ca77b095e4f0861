--------------------------- MODULE SessionProofs ---------------------------
(***************************************************************************)
(* What sessions, the writer thread and shutdown guarantee for any number  *)
(* of sessions, rows, transactions and failures of the disk.  The first    *)
(* half is about who owns a transaction; the second, about the log.        *)
(***************************************************************************)
EXTENDS Session, FiniteSetTheorems, DataProofs

USE ClientAssumption, RowAssumption, BoundAssumption, NoneAssumption, AvoidedAssumption
    DEF TxId

Places == {"idle", "run", "waiting", "publish", "abort", "unpublish", "release"}

(* Ids are given out in order, so the next one is new.                     *)
IdsInOrder == \E k \in 0..MaxTxn : \A t \in TxId : status[t] # "none" <=> t <= k

Owned(t) == \E s \in Client : own[s] = t

(* A transaction has one session at most, and an active one has one.       *)
Owners ==
    /\ pc \in [Client -> Places]
    /\ \A s, u \in Client : own[s] = own[u] /\ own[s] # None => s = u
    /\ \A t \in TxId : status[t] = "active" => Owned(t)
    /\ maker # None => started[maker]

(* Where a session is fits the state of its transaction.                   *)
Fits(s) ==
    /\ pc[s] = "idle" => ~auto[s]
    /\ pc[s] = "abort" => auto[s]
    /\ pc[s] # "idle" => own[s] # None
    /\ pc[s] = "run" /\ stmt[s] \in {"write", "create", "created"} => started[own[s]]
    /\ own[s] # None /\ pc[s] = "release" => status[own[s]] = "committed"
    /\ own[s] # None /\ pc[s] # "release" => status[own[s]] \in {"active", "aborted"}

AllFit == \A s \in Client : Fits(s)

(* Before shutdown nobody ends another's transaction.                      *)
BeforeShutdown ==
    victims = None =>
       /\ \A s \in Client : own[s] # None /\ pc[s] # "release" => status[own[s]] = "active"
       /\ \A r \in Row : holder[r] # None => Owned(holder[r])

SessionInv == TypeOK /\ IdsInOrder /\ Owners /\ AllFit /\ BeforeShutdown

-----------------------------------------------------------------------------
(* A new transaction has an id that no other has had.                      *)
LEMMA NextIdIsNew ==
    ASSUME TypeOK, IdsInOrder, NextId \in TxId
    PROVE  /\ status[NextId] = "none"
           /\ [status EXCEPT ![NextId] = "active"] \in [TxId -> {"none", "active"} \cup Ended]
           /\ (status' = [status EXCEPT ![NextId] = "active"]) => IdsInOrder'
<1>1. PICK k \in 0..MaxTxn : \A t \in TxId : status[t] # "none" <=> t <= k
  BY DEF IdsInOrder
<1> DEFINE used == {t \in TxId : status[t] # "none"}
<1>2. used = 1..k /\ NextId = 1 + Cardinality(used)
  BY <1>1 DEF NextId
<1> HIDE DEF used
<1>3. Cardinality(1..k) = k
  BY <1>1, FS_Interval
<1>4. NextId = k + 1
  BY <1>1, <1>2, <1>3
<1>5. status[NextId] = "none"
  BY <1>1, <1>4
<1>6. [status EXCEPT ![NextId] = "active"] \in [TxId -> {"none", "active"} \cup Ended]
  BY DEF TypeOK
<1>7. ASSUME status' = [status EXCEPT ![NextId] = "active"] PROVE IdsInOrder'
  <2>1. k + 1 \in 0..MaxTxn
    BY <1>1, <1>4
  <2>2. \A t \in TxId : status'[t] # "none" <=> t <= k + 1
    BY <1>1, <1>4, <1>7 DEF TypeOK
  <2>3. QED BY <2>1, <2>2 DEF IdsInOrder
<1>8. QED BY <1>5, <1>6, <1>7

(* The end mark is the one record that is of no transaction.               *)
LEMMA RecordKinds ==
    ASSUME NEW rec \in Record
    PROVE  /\ rec.ty # "end" => rec.txid \in TxId
           /\ rec.ty = "end" => rec = End
           /\ rec.row \in Row \cup {None}
           /\ End.ty = "end" /\ End.txid = None /\ End.row = None
BY DEF Record, Data, End, Rec

(* What is queued behind the end mark is dropped, all else comes last.     *)
LEMMA LoggedIs ==
    ASSUME TypeOK, NEW rec \in Record, NEW recs, recs = Logged(rec)
    PROVE  /\ recs \in Seq(Record)
           /\ Len(log) \in Nat /\ Len(recs) \in Nat /\ Len(recs) >= Len(log)
           /\ Closing => recs = log
           /\ ~Closing => recs = Append(log, rec)
BY LenProperties, AppendProperties DEF TypeOK, Logged

(* The next commit or end record is one the writer has yet to take.        *)
LEMMA NextStopIs ==
    ASSUME TypeOK, NextStop # 0
    PROVE  /\ NextStop \in (taken + 1)..Len(log) /\ log[NextStop].ty \in {"commit", "end"}
           /\ NextStop \in 1..Len(log) /\ Len(log) \in Nat /\ taken \in Nat /\ synced \in Nat
           /\ log[NextStop] \in Record
<1> DEFINE stops == {i \in (taken + 1)..Len(log) : log[i].ty \in {"commit", "end"}}
<1>1. Len(log) \in Nat /\ taken \in Nat /\ synced \in Nat
  BY LenProperties DEF TypeOK
<1>2. stops # {} /\ NextStop = CHOOSE i \in stops : \A j \in stops : i <= j
  BY DEF NextStop
<1>3. stops \subseteq Nat
  BY <1>1
<1>4. \E i \in stops : \A j \in stops : i <= j
  BY <1>2, <1>3, LeastMember
<1>5. NextStop \in stops
  BY <1>2, <1>4
<1>6. NextStop \in 1..Len(log)
  BY <1>1, <1>5
<1>7. QED BY <1>1, <1>5, <1>6, ElementOfSeq DEF TypeOK

(* A commit record that could not be written leaves the log.               *)
LEMMA Refused ==
    ASSUME TypeOK, NextStop # 0, NEW recs, recs = RemoveAt(log, NextStop)
    PROVE  /\ recs \in Seq(Record) /\ Len(recs) \in Nat /\ Len(recs) = Len(log) - 1
           /\ \A i \in 1..(NextStop - 1) : recs[i] = log[i]
           /\ \A i \in NextStop..(Len(log) - 1) : recs[i] = log[i + 1]
           /\ \A i \in 1..Len(recs) : \E k \in 1..Len(log) :
                 /\ recs[i] = log[k]
                 /\ \A j \in 1..k : j = NextStop \/ \E m \in 1..i : recs[m] = log[j]
<1>1. NextStop \in 1..Len(log) /\ log \in Seq(Record)
  BY NextStopIs DEF TypeOK
<1>2. QED BY ONLY <1>1, recs = RemoveAt(log, NextStop), RemoveAtProperties, RemoveAtKeepsOrder, LenProperties

-----------------------------------------------------------------------------
(* The steps of a session.                                                 *)
LEMMA InitSession == Init => SessionInv
<1> SUFFICES ASSUME Init PROVE SessionInv
  OBVIOUS
<1>1. TypeOK
  BY EmptySeq DEF Init, TypeOK, Ended
<1>2. IdsInOrder
  <2>1. 0 \in 0..MaxTxn /\ \A t \in TxId : ~(t <= 0)
    OBVIOUS
  <2>2. \A t \in TxId : status[t] = "none"
    BY DEF Init
  <2>3. QED BY <2>1, <2>2 DEF IdsInOrder
<1>3. Owners /\ AllFit /\ BeforeShutdown
  BY DEF Init, Owners, AllFit, Fits, BeforeShutdown, Places, Owned
<1>4. QED BY <1>1, <1>2, <1>3 DEF SessionInv

(* The start of a transaction or a statement keeps the invariant,          *)
LEMMA StartKeepsSession ==
    ASSUME SessionInv, NEW s \in Client,
           Begin(s) \/ (\E kind \in {"read", "write", "create"} : Statement(s, kind))
    PROVE  SessionInv'
<1> USE DEF SessionInv, Owners, AllFit
<1>1. CASE Begin(s)
  <2>1. NextId \in TxId /\ status' = [status EXCEPT ![NextId] = "active"]
        /\ own' = [own EXCEPT ![s] = NextId] /\ pc[s] = "idle" /\ ~Active(own[s])
        /\ UNCHANGED <<pc, auto, stmt, started, holder, maker, log, writer, victims>>
    BY <1>1 DEF Begin, NewTxn
  <2>2. status[NextId] = "none" /\ IdsInOrder'
    BY <2>1, NextIdIsNew
  <2> DEFINE new == NextId
  <2> HIDE DEF new
  <2>3. /\ new \in TxId /\ status[new] = "none" /\ status' = [status EXCEPT ![new] = "active"]
        /\ own' = [own EXCEPT ![s] = new]
    BY <2>1, <2>2 DEF new
  <2>4. TypeOK'
    BY <2>1, <2>3 DEF TypeOK, writer, Ended
  <2>5. \A u \in Client : own[u] # new
    BY <2>3 DEF TypeOK, Fits
  <2>6. \A u, v \in Client : own'[u] = own'[v] /\ own'[u] # None => u = v
    BY <2>3, <2>5 DEF TypeOK
  <2>7. ASSUME NEW t \in TxId, status'[t] = "active" PROVE Owned(t)'
    BY <2>1, <2>3, <2>7 DEF TypeOK, Owned, Active
  <2>8. Owners'
    BY <2>1, <2>6, <2>7
  <2>9. AllFit'
    BY <2>1, <2>3 DEF TypeOK, Fits
  <2>10. BeforeShutdown'
    BY <2>1, <2>3 DEF TypeOK, Owned, BeforeShutdown, Active
  <2>11. QED BY <2>2, <2>4, <2>8, <2>9, <2>10
<1>2. ASSUME NEW kind \in {"read", "write", "create"}, Statement(s, kind) PROVE SessionInv'
  <2>1. /\ pc[s] = "idle" /\ auto' = [auto EXCEPT ![s] = own[s] = None]
        /\ started' = [started EXCEPT ![own'[s]] = @ \/ kind # "read"]
        /\ stmt' = [stmt EXCEPT ![s] = kind]
        /\ pc' = [pc EXCEPT ![s] = "run"]
        /\ UNCHANGED <<holder, maker, log, writer, victims>>
    BY <1>2 DEF Statement
  <2>2. /\ \A t \in TxId : started[t] => started'[t]
        /\ own'[s] \in TxId /\ kind # "read" => started'[own'[s]]
    BY <2>1 DEF TypeOK
  <2>3. \A u \in Client \ {s} : pc'[u] = pc[u] /\ auto'[u] = auto[u] /\ stmt'[u] = stmt[u]
    BY <2>1 DEF TypeOK
  <2>4. pc'[s] = "run" /\ stmt'[s] = kind
    BY <2>1 DEF TypeOK
  <2>5. CASE own[s] = None
    <3>1. NextId \in TxId /\ status' = [status EXCEPT ![NextId] = "active"]
          /\ own' = [own EXCEPT ![s] = NextId]
      BY <1>2, <2>5 DEF Statement, NewTxn
    <3>2. status[NextId] = "none" /\ IdsInOrder'
      BY <3>1, NextIdIsNew
    <3> DEFINE new == NextId
    <3> HIDE DEF new
    <3>3. /\ new \in TxId /\ status[new] = "none" /\ status' = [status EXCEPT ![new] = "active"]
          /\ own' = [own EXCEPT ![s] = new]
      BY <3>1, <3>2 DEF new
    <3>4. TypeOK'
      BY <2>1, <3>3 DEF TypeOK, writer, Ended
    <3>5. \A u \in Client : own[u] # new
      BY <3>3 DEF TypeOK, Fits
    <3>6. \A u, v \in Client : own'[u] = own'[v] /\ own'[u] # None => u = v
      BY <3>3, <3>5 DEF TypeOK
    <3>7. ASSUME NEW t \in TxId, status'[t] = "active" PROVE Owned(t)'
      BY <2>5, <3>3, <3>7 DEF TypeOK, Owned
    <3>8. pc' \in [Client -> Places]
      BY <2>1 DEF Places
    <3>9. maker' # None => started'[maker']
      BY <2>1, <2>2 DEF TypeOK
    <3>10. Owners'
      BY <3>6, <3>7, <3>8, <3>9
    <3>11. Fits(s)'
      BY <2>2, <2>4, <3>3 DEF TypeOK, Fits
    <3>12. ASSUME NEW u \in Client \ {s} PROVE Fits(u)'
      <4>1. own'[u] = own[u] /\ (own[u] # None => own[u] \in TxId /\ status'[own[u]] = status[own[u]])
        BY <3>3, <3>5 DEF TypeOK
      <4>2. QED BY <2>2, <2>3, <4>1 DEF Fits
    <3>13. AllFit'
      BY <3>11, <3>12
    <3>14. BeforeShutdown'
      BY <2>1, <2>5, <3>3 DEF TypeOK, Owned, BeforeShutdown, Active
    <3>15. QED BY <3>2, <3>4, <3>10, <3>13, <3>14
  <2>6. CASE own[s] # None
    <3>1. UNCHANGED <<own, status>> /\ own[s] \in TxId
      BY <1>2, <2>6 DEF Statement, TypeOK
    <3>2. TypeOK'
      BY <2>1, <3>1 DEF TypeOK, writer, Ended
    <3>3. Owners'
      BY <2>1, <2>6, <3>1 DEF TypeOK, Owned, Places
    <3>4. AllFit'
      BY <2>1, <2>2, <2>3, <2>4, <2>6, <3>1 DEF Fits
    <3>5. IdsInOrder'
      BY <3>1 DEF IdsInOrder
    <3>6. BeforeShutdown'
      BY <2>1, <3>1 DEF TypeOK, Owned, BeforeShutdown
    <3>7. QED BY <3>2, <3>3, <3>4, <3>5, <3>6
  <2>7. QED BY <2>5, <2>6
<1>3. QED BY <1>1, <1>2

(* the run of a statement keeps it,                                        *)
LEMMA RunKeepsSession ==
    ASSUME SessionInv, NEW s \in Client,
           (\E r \in Row : WriteRow(s, r)) \/ CreateTable(s) \/ Finish(s) \/ Raise(s)
    PROVE  SessionInv'
<1> USE DEF SessionInv, Owners, AllFit
<1>1. ASSUME NEW r \in Row, WriteRow(s, r) PROVE SessionInv'
  <2>1. /\ pc[s] = "run" /\ stmt[s] = "write"
        /\ holder' = [holder EXCEPT ![r] = own[s]]
        /\ log' = Logged(Rec("write", own[s], r))
        /\ UNCHANGED <<pc, own, auto, stmt, status, started, maker, taken, synced, failures,
                       refused, victims>>
    BY <1>1 DEF WriteRow, session, writer
  <2>2. own[s] \in TxId /\ Rec("write", own[s], r) \in Record
    BY <2>1 DEF TypeOK, Fits, Rec, Record, Data
  <2>3. log' \in Seq(Record) /\ Len(log) \in Nat /\ Len(log') \in Nat /\ Len(log') >= Len(log)
    BY <2>1, <2>2, LoggedIs
  <2>4. TypeOK'
    BY <2>1, <2>2, <2>3 DEF TypeOK
  <2>5. Owners' /\ AllFit'
    BY <2>1 DEF Owned, Fits
  <2>6. IdsInOrder'
    BY <2>1 DEF IdsInOrder
  <2>7. BeforeShutdown'
    BY <2>1, <2>2 DEF Owned, BeforeShutdown, TypeOK
  <2>8. QED BY <2>4, <2>5, <2>6, <2>7
<1>2. CASE CreateTable(s)
  <2>1. /\ pc[s] = "run" /\ stmt[s] = "create"
        /\ log' = Logged(Rec("create", own[s], None))
        /\ maker' = own[s]
        /\ stmt' = [stmt EXCEPT ![s] = "created"]
        /\ UNCHANGED <<pc, own, auto, status, started, holder, taken, synced, failures, refused,
                       victims>>
    BY <1>2 DEF CreateTable, writer
  <2>2. own[s] \in TxId /\ Rec("create", own[s], None) \in Record
    BY <2>1 DEF TypeOK, Fits, Rec, Record, Data
  <2>3. log' \in Seq(Record) /\ Len(log) \in Nat /\ Len(log') \in Nat /\ Len(log') >= Len(log)
    BY <2>1, <2>2, LoggedIs
  <2>4. TypeOK'
    BY <2>1, <2>2, <2>3 DEF TypeOK
  <2>5. started[own[s]]
    BY <2>1 DEF Fits
  <2>6. Owners'
    BY <2>1, <2>5 DEF Owned
  <2>7. AllFit'
    BY <2>1 DEF Fits, TypeOK
  <2>8. IdsInOrder'
    BY <2>1 DEF IdsInOrder
  <2>9. BeforeShutdown'
    BY <2>1 DEF Owned, BeforeShutdown, TypeOK
  <2>10. QED BY <2>4, <2>6, <2>7, <2>8, <2>9
<1>3. CASE Finish(s) \/ Raise(s)
  <2>1. /\ pc[s] = "run"
        /\ stmt' = [stmt EXCEPT ![s] = "none"]
        /\ pc' = [pc EXCEPT ![s] = IF auto[s] THEN "abort" ELSE "idle"]
        /\ UNCHANGED <<own, auto, status, started, holder, maker, log, taken, synced, failures,
                       refused, victims>>
    BY <1>3 DEF Finish, Raise, writer
  <2>2. TypeOK'
    BY <2>1 DEF TypeOK
  <2>3. Owners'
    BY <2>1 DEF Owned, TypeOK, Places
  <2>4. AllFit'
    BY <2>1 DEF Fits, TypeOK
  <2>5. IdsInOrder'
    BY <2>1 DEF IdsInOrder
  <2>6. BeforeShutdown'
    BY <2>1 DEF Owned, BeforeShutdown, TypeOK
  <2>7. QED BY <2>2, <2>3, <2>4, <2>5, <2>6
<1>4. QED BY <1>1, <1>2, <1>3

(* the end of a transaction keeps it,                                      *)
LEMMA EndKeepsSession ==
    ASSUME SessionInv, NEW s \in Client,
           Commit(s) \/ Publish(s) \/ Abort(s) \/ Unpublish(s) \/ Release(s)
    PROVE  SessionInv'
<1> USE DEF SessionInv, Owners, AllFit
<1>1. CASE Commit(s)
  <2>1. /\ pc[s] \in {"idle", "run"} /\ own[s] # None /\ Active(own[s])
        /\ pc' = [pc EXCEPT ![s] = IF started[own[s]] THEN "waiting" ELSE "publish"]
        /\ log' = IF started[own[s]] THEN Logged(Rec("commit", own[s], None)) ELSE log
        /\ stmt' = [stmt EXCEPT ![s] = "none"]
        /\ UNCHANGED <<own, auto, status, started, holder, maker, taken, synced, failures,
                       refused, victims>>
    BY <1>1 DEF Commit, CommitCalled, Active, writer
  <2>2. own[s] \in TxId /\ Rec("commit", own[s], None) \in Record
    BY <2>1 DEF TypeOK, Rec, Record
  <2>3. log' \in Seq(Record) /\ Len(log) \in Nat /\ Len(log') \in Nat /\ Len(log') >= Len(log)
    <3>1. CASE started[own[s]]
      BY <2>1, <2>2, <3>1, LoggedIs
    <3>2. CASE ~started[own[s]]
      BY <2>1, <3>2, LenProperties DEF TypeOK
    <3>3. QED BY <3>1, <3>2
  <2>4. TypeOK'
    BY <2>1, <2>2, <2>3 DEF TypeOK
  <2>5. Owners'
    BY <2>1 DEF Owned, TypeOK, Places
  <2>6. AllFit'
    BY <2>1 DEF Fits, TypeOK
  <2>7. IdsInOrder'
    BY <2>1 DEF IdsInOrder
  <2>8. BeforeShutdown'
    BY <2>1 DEF Owned, BeforeShutdown, TypeOK
  <2>9. QED BY <2>4, <2>5, <2>6, <2>7, <2>8
<1>2. CASE Publish(s)
  <2>1. /\ pc[s] = "publish" /\ own[s] \in TxId
        /\ status' = [status EXCEPT ![own[s]] = "committed"]
        /\ pc' = [pc EXCEPT ![s] = "release"]
        /\ UNCHANGED <<own, auto, stmt, started, holder, maker, log, taken, synced, failures,
                       refused, victims>>
    BY <1>2 DEF Publish, session, writer, Fits, TypeOK
  <2>2. status[own[s]] # "none"
    BY <2>1 DEF Fits
  <2>3. TypeOK'
    BY <2>1 DEF TypeOK, Ended
  <2>4. Owners'
    BY <2>1 DEF Owned, TypeOK, Places
  <2>5. AllFit'
    BY <2>1 DEF Fits, TypeOK
  <2>6. \A t \in TxId : status'[t] # "none" <=> status[t] # "none"
    BY <2>1, <2>2 DEF TypeOK
  <2>7. IdsInOrder'
    BY <2>6 DEF IdsInOrder
  <2>8. BeforeShutdown'
    BY <2>1 DEF Owned, BeforeShutdown, TypeOK
  <2>9. QED BY <2>3, <2>4, <2>5, <2>7, <2>8
<1>3. CASE Abort(s)
  <2>1. /\ own[s] \in TxId
        /\ stmt' = [stmt EXCEPT ![s] = "none"]
        /\ pc[s] \in {"idle", "run", "abort"}
        /\ UNCHANGED <<status, started, holder, maker, taken, synced, failures, refused, victims>>
    BY <1>3 DEF Abort, AbortCalled, writer, Fits, TypeOK
  <2>2. IdsInOrder'
    BY <2>1 DEF IdsInOrder
  <2>3. CASE Active(own[s])
    <3>1. /\ log' = IF started[own[s]] THEN Logged(Rec("abort", own[s], None)) ELSE log
          /\ pc' = [pc EXCEPT ![s] = "unpublish"]
          /\ UNCHANGED <<own, auto>>
      BY <1>3, <2>3 DEF Abort
    <3>2. Rec("abort", own[s], None) \in Record
      BY <2>1 DEF Rec, Record
    <3>3. log' \in Seq(Record) /\ Len(log) \in Nat /\ Len(log') \in Nat /\ Len(log') >= Len(log)
      <4>1. CASE started[own[s]]
        BY <3>1, <3>2, <4>1, LoggedIs
      <4>2. CASE ~started[own[s]]
        BY <3>1, <4>2, LenProperties DEF TypeOK
      <4>3. QED BY <4>1, <4>2
    <3>4. TypeOK'
      BY <2>1, <3>1, <3>3 DEF TypeOK
    <3>5. Owners'
      BY <2>1, <3>1 DEF Owned, TypeOK, Places
    <3>6. AllFit'
      BY <2>1, <3>1 DEF Fits, TypeOK
    <3>7. BeforeShutdown'
      BY <2>1, <3>1 DEF Owned, BeforeShutdown, TypeOK
    <3>8. QED BY <2>2, <3>4, <3>5, <3>6, <3>7
  <2>4. CASE ~Active(own[s])
    <3>1. /\ own' = [own EXCEPT ![s] = None]
          /\ auto' = [auto EXCEPT ![s] = FALSE]
          /\ pc' = [pc EXCEPT ![s] = "idle"]
          /\ UNCHANGED log
      BY <1>3, <2>4 DEF Abort, Leave
    <3>2. status[own[s]] # "active" /\ victims # None
      BY <2>1, <2>4 DEF Active, BeforeShutdown
    <3>3. TypeOK'
      BY <2>1, <3>1 DEF TypeOK
    <3>4. pc' \in [Client -> Places] /\ (maker' # None => started'[maker'])
      BY <2>1, <3>1 DEF Places
    <3>5. \A u, v \in Client : own'[u] = own'[v] /\ own'[u] # None => u = v
      BY <3>1 DEF TypeOK
    <3>6. \A t \in TxId : status'[t] = "active" => Owned(t)'
      BY <2>1, <3>1, <3>2 DEF TypeOK, Owned
    <3>7. AllFit'
      BY <2>1, <3>1 DEF Fits, TypeOK
    <3>8. BeforeShutdown'
      BY <2>1, <3>2 DEF BeforeShutdown
    <3>9. QED BY <2>2, <3>3, <3>4, <3>5, <3>6, <3>7, <3>8
  <2>5. QED BY <2>3, <2>4
<1>4. CASE Unpublish(s) \/ Release(s)
  <2>1. /\ own[s] \in TxId /\ pc[s] \in {"unpublish", "release"}
        /\ status' = IF pc[s] = "unpublish" THEN [status EXCEPT ![own[s]] = "aborted"] ELSE status
        /\ holder' = [r \in Row |-> IF holder[r] = own[s] THEN None ELSE holder[r]]
        /\ own' = [own EXCEPT ![s] = None]
        /\ auto' = [auto EXCEPT ![s] = FALSE]
        /\ pc' = [pc EXCEPT ![s] = "idle"]
        /\ UNCHANGED <<stmt, started, maker, log, taken, synced, failures, refused, victims>>
    BY <1>4 DEF Unpublish, Release, FreeLocks, Leave, writer, Fits, TypeOK
  <2>2. /\ status' \in [TxId -> {"none", "active"} \cup Ended]
        /\ \A t \in TxId \ {own[s]} : status'[t] = status[t]
        /\ status'[own[s]] \in Ended /\ status[own[s]] # "none"
    BY <2>1 DEF TypeOK, Ended, Fits
  <2>3. TypeOK'
    BY <2>1, <2>2 DEF TypeOK
  <2>4. \A t \in TxId : status'[t] # "none" <=> status[t] # "none"
    BY <2>2 DEF Ended
  <2>5. IdsInOrder'
    BY <2>4 DEF IdsInOrder
  <2>6. pc' \in [Client -> Places] /\ (maker' # None => started'[maker'])
    BY <2>1 DEF Places
  <2>7. \A u, v \in Client : own'[u] = own'[v] /\ own'[u] # None => u = v
    BY <2>1 DEF TypeOK
  <2>8. \A t \in TxId : status'[t] = "active" => Owned(t)'
    BY <2>1, <2>2 DEF TypeOK, Owned, Ended
  <2>9. AllFit'
    BY <2>1, <2>2 DEF Fits, TypeOK
  <2>10. BeforeShutdown'
    BY <2>1, <2>2 DEF BeforeShutdown, TypeOK, Owned
  <2>11. QED BY <2>3, <2>5, <2>6, <2>7, <2>8, <2>9, <2>10
<1>5. QED BY <1>1, <1>2, <1>3, <1>4

-----------------------------------------------------------------------------
(* The steps of the writer thread and of shutdown.                         *)
LEMMA WriterKeepsSession ==
    ASSUME SessionInv, WriterPersists \/ WriterRefuses
    PROVE  SessionInv'
<1> USE DEF SessionInv, Owners, AllFit
<1> DEFINE t == log[NextStop].txid
<1>1. /\ NextStop # 0
      /\ UNCHANGED <<own, auto, stmt, status, started, holder, maker, victims>>
  BY DEF WriterPersists, WriterRefuses, session
<1>2. /\ \A s \in Client : s \notin Waiting(t) => pc'[s] = pc[s]
      /\ \A s \in Waiting(t) : /\ pc[s] = "waiting"
                               /\ pc'[s] \in {"publish", "abort", "idle"}
                               /\ pc'[s] = "abort" => auto[s]
                               /\ pc'[s] = "idle" => ~auto[s]
      /\ pc' \in [Client -> Places]
  BY DEF WriterPersists, WriterRefuses, Waiting, Places
<1>3. /\ NextStop \in (taken + 1)..Len(log) /\ Len(log) \in Nat /\ taken \in Nat /\ synced \in Nat
      /\ log[NextStop] \in Record
  BY <1>1, NextStopIs
<1>4. /\ log' \in Seq(Record) /\ Len(log') \in Nat
      /\ \/ Len(log') = Len(log) /\ taken' = NextStop
         \/ Len(log') = Len(log) - 1 /\ taken' = NextStop - 1
      /\ synced' = synced \/ synced' = taken'
      /\ failures' \in 0..MaxFailures /\ refused' \subseteq TxId
  <2>1. CASE WriterPersists
    BY <2>1, <1>3 DEF WriterPersists, TypeOK
  <2>2. CASE WriterRefuses
    <3>1. /\ log[NextStop].ty = "commit" /\ refused' = refused \cup {t} /\ synced' = synced
          /\ failures < MaxFailures /\ failures' = failures + 1
          /\ \/ taken' = NextStop /\ UNCHANGED log
             \/ taken' = NextStop - 1 /\ log' = RemoveAt(log, NextStop)
      BY <2>2 DEF WriterRefuses
    <3>2. failures' \in 0..MaxFailures
      BY <3>1 DEF TypeOK
    <3>3. refused' \subseteq TxId
      <4> DEFINE rec == log[NextStop]
      <4>1. rec \in Record /\ rec.ty = "commit"
        BY <1>3, <3>1
      <4> HIDE DEF rec
      <4>2. rec.txid \in TxId
        BY <4>1, RecordKinds
      <4>3. QED BY <3>1, <4>2 DEF TypeOK, rec
    <3>4. CASE taken' = NextStop /\ UNCHANGED log
      BY <1>3, <3>3, <3>1, <3>2, <3>4 DEF TypeOK
    <3>5. CASE taken' = NextStop - 1 /\ log' = RemoveAt(log, NextStop)
      <4>1. log' \in Seq(Record) /\ Len(log') \in Nat /\ Len(log') = Len(log) - 1
        BY <1>1, <3>5, Refused
      <4>2. QED BY <3>3, <3>1, <3>2, <3>5, <4>1
    <3>6. QED BY <3>1, <3>4, <3>5
  <2>3. QED BY <2>1, <2>2
<1>5. TypeOK'
  BY <1>1, <1>2, <1>3, <1>4 DEF TypeOK, Places
<1>6. Owners' /\ AllFit' /\ BeforeShutdown'
  BY <1>1, <1>2 DEF Owned, Fits, BeforeShutdown
<1>7. IdsInOrder'
  BY <1>1 DEF IdsInOrder
<1>8. QED BY <1>5, <1>6, <1>7

(* and so does the shutdown.                                               *)
LEMMA ShutdownKeepsSession ==
    ASSUME SessionInv, Shutdown \/ (\E t \in TxId : ShutdownAborts(t)) \/ CloseLog
    PROVE  SessionInv'
<1> USE DEF SessionInv, Owners, AllFit
<1>1. CASE Shutdown
  <2>1. /\ victims' \subseteq TxId /\ victims' # None
        /\ UNCHANGED <<pc, own, auto, stmt, status, started, holder, maker, log, taken, synced,
                       failures, refused>>
    BY <1>1 DEF Shutdown, session, writer
  <2>2. TypeOK'
    BY <2>1 DEF TypeOK
  <2>3. Owners' /\ AllFit' /\ BeforeShutdown'
    BY <2>1 DEF Owned, Fits, BeforeShutdown
  <2>4. IdsInOrder'
    BY <2>1 DEF IdsInOrder
  <2>5. QED BY <2>2, <2>3, <2>4
<1>2. ASSUME NEW t \in TxId, ShutdownAborts(t) PROVE SessionInv'
  <2>1. /\ victims # None /\ victims' = victims \ {t} /\ victims' # None
        /\ UNCHANGED <<pc, own, auto, stmt, started, maker, taken, synced, failures, refused>>
    BY <1>2 DEF ShutdownAborts, session, writer, TypeOK
  <2>2. CASE Active(t)
    <3>1. /\ log' = IF started[t] THEN Logged(Rec("abort", t, None)) ELSE log
          /\ status' = [status EXCEPT ![t] = "aborted"]
          /\ holder' = [r \in Row |-> IF holder[r] = t THEN None ELSE holder[r]]
          /\ status[t] = "active"
      BY <1>2, <2>2 DEF ShutdownAborts, FreeLocks, Active
    <3>2. Rec("abort", t, None) \in Record
      BY DEF Rec, Record
    <3>3. log' \in Seq(Record) /\ Len(log) \in Nat /\ Len(log') \in Nat /\ Len(log') >= Len(log)
      <4>1. CASE started[t]
        BY <3>1, <3>2, <4>1, LoggedIs
      <4>2. CASE ~started[t]
        BY <3>1, <4>2, LenProperties DEF TypeOK
      <4>3. QED BY <4>1, <4>2
    <3>4. TypeOK'
      BY <2>1, <3>1, <3>3 DEF TypeOK, Ended
    <3>5. Owners' /\ AllFit'
      BY <2>1, <3>1 DEF Owned, Fits, TypeOK
    <3>6. \A u \in TxId : status'[u] # "none" <=> status[u] # "none"
      BY <3>1 DEF TypeOK
    <3>7. IdsInOrder'
      BY <3>6 DEF IdsInOrder
    <3>8. QED BY <2>1, <3>4, <3>5, <3>7 DEF BeforeShutdown
  <2>3. CASE ~Active(t)
    <3>1. UNCHANGED <<log, status, holder>>
      BY <1>2, <2>3 DEF ShutdownAborts
    <3>2. TypeOK'
      BY <2>1, <3>1 DEF TypeOK
    <3>3. Owners' /\ AllFit'
      BY <2>1, <3>1 DEF Owned, Fits
    <3>4. IdsInOrder'
      BY <3>1 DEF IdsInOrder
    <3>5. QED BY <2>1, <3>2, <3>3, <3>4 DEF BeforeShutdown
  <2>4. QED BY <2>2, <2>3
<1>3. CASE CloseLog
  <2>1. /\ log' = Append(log, End) /\ End \in Record
        /\ UNCHANGED <<pc, own, auto, stmt, status, started, holder, maker, taken, synced,
                       failures, refused, victims>>
    BY <1>3 DEF CloseLog, session, writer, Record
  <2>2. log' \in Seq(Record) /\ Len(log) \in Nat /\ Len(log') = Len(log) + 1
    BY <2>1, Pushed DEF TypeOK
  <2>3. TypeOK'
    BY <2>1, <2>2 DEF TypeOK
  <2>4. Owners' /\ AllFit' /\ BeforeShutdown'
    BY <2>1 DEF Owned, Fits, BeforeShutdown
  <2>5. IdsInOrder'
    BY <2>1 DEF IdsInOrder
  <2>6. QED BY <2>3, <2>4, <2>5
<1>4. QED BY <1>1, <1>2, <1>3

(* Every step keeps the invariant.                                         *)
LEMMA NextSession == SessionInv /\ [Next]_vars => SessionInv'
<1> SUFFICES ASSUME SessionInv, [Next]_vars PROVE SessionInv'
  OBVIOUS
<1>1. CASE UNCHANGED vars
  <2> USE <1>1 DEF vars, SessionInv
  <2>1. TypeOK'
    BY DEF TypeOK
  <2>2. IdsInOrder'
    BY DEF IdsInOrder
  <2>3. Owners' /\ AllFit' /\ BeforeShutdown'
    BY DEF Owners, AllFit, Fits, Owned, BeforeShutdown
  <2>4. QED BY <2>1, <2>2, <2>3
<1>2. CASE Next
  BY <1>2, StartKeepsSession, RunKeepsSession, EndKeepsSession, WriterKeepsSession,
     ShutdownKeepsSession DEF Next
<1>3. QED BY <1>1, <1>2

(* Locks, statuses and program counters agree in every reachable state.    *)
THEOREM SessionInvariance == Spec => []SessionInv
<1>1. Init => SessionInv BY InitSession
<1>2. SessionInv /\ [Next]_vars => SessionInv' BY NextSession
<1>3. QED BY <1>1, <1>2, PTL DEF Spec

(* Every variable keeps its type, for any number of sessions, rows and     *)
(* transactions.                                                           *)
THEOREM TypeCorrect == Spec => []TypeOK
<1>1. SessionInv => TypeOK BY DEF SessionInv
<1>2. QED BY <1>1, SessionInvariance, PTL

(* Until shutdown no error leaves a transaction or a lock behind that no   *)
(* session can end.                                                        *)
THEOREM LeavesNothingBehind == Spec => []NothingIsOrphaned
<1>1. ASSUME SessionInv PROVE NothingIsOrphaned
  <2>1. SUFFICES ASSUME victims = None PROVE
              /\ \A t \in TxId : Active(t) \/ Holds(t) # {} =>
                    \E s \in Client : own[s] = t /\ (pc[s] = "idle" => ~auto[s])
              /\ \A s \in Client : pc[s] = "idle" /\ own[s] # None => Active(own[s])
    BY DEF NothingIsOrphaned
  <2>2. ASSUME NEW t \in TxId, Active(t) \/ Holds(t) # {}
        PROVE  \E s \in Client : own[s] = t /\ (pc[s] = "idle" => ~auto[s])
    <3>1. Owned(t)
      BY <1>1, <2>1, <2>2 DEF SessionInv, Owners, BeforeShutdown, Active, Holds
    <3>2. QED BY <1>1, <3>1 DEF Owned, SessionInv, AllFit, Fits
  <2>3. \A s \in Client : pc[s] = "idle" /\ own[s] # None => Active(own[s])
    BY <1>1, <2>1 DEF SessionInv, BeforeShutdown, Active
  <2>4. QED BY <2>2, <2>3
<1>2. QED BY <1>1, SessionInvariance, PTL

-----------------------------------------------------------------------------
(* The records of a log, and whether one of a kind is of a transaction.    *)
Recs(l) == {l[i] : i \in 1..Len(l)}
Has(l, ty, t) == \E rec \in Recs(l) : rec.ty = ty /\ rec.txid = t

(* Only a transaction that has begun logging has records.                  *)
WellLogged ==
    \A rec \in Recs(log) :
       /\ rec.ty # "end" => started[rec.txid]
       /\ rec.row \in Row <=> rec.ty = "write"

(* Until the log closes, a transaction that wrote a row has its lock, or   *)
(* has committed, or its abort is in the log already.                      *)
HoldersLogged ==
    ~Closing =>
       /\ \A rec \in Recs(log) : rec.ty = "write" =>
             \/ holder[rec.row] = rec.txid
             \/ status[rec.txid] = "committed"
             \/ Has(log, "abort", rec.txid)
       /\ \A s \in Client :
             pc[s] = "unpublish" /\ started[own[s]] => Has(log, "abort", own[s])

CommitsKnown ==
    \A rec \in Recs(log) : rec.ty = "commit" => rec.txid \in Committed \cup Undecided

LogInv == SessionInv /\ WellLogged /\ HoldersLogged /\ CommitsKnown

(* The log is being closed just when it has its end record.                *)
LEMMA ClosingIs == ASSUME TypeOK PROVE Closing <=> End \in Recs(log)
<1>1. DOMAIN log = 1..Len(log)
  BY DEF TypeOK
<1>2. QED BY <1>1 DEF Closing, Range, Recs

(* What a step that logs does to the records.                              *)
LEMMA LogGrows ==
    ASSUME TypeOK, NEW rec \in Record, log' = Logged(rec)
    PROVE  /\ Recs(log) \subseteq Recs(log') /\ Recs(log') \subseteq Recs(log) \cup {rec}
           /\ ~Closing => rec \in Recs(log')
           /\ Closing => log' = log
           /\ \A i \in 1..Len(log) : log'[i] = log[i]
           /\ Len(log) \in Nat /\ Len(log') \in {Len(log), Len(log) + 1}
           /\ \A i \in 1..Len(log') : i \in 1..Len(log) \/ log'[i] = rec
<1>1. CASE Closing
  BY <1>1, LoggedIs DEF Recs
<1>2. CASE ~Closing
  <2>1. log' = Append(log, rec) /\ log \in Seq(Record)
    BY <1>2, LoggedIs DEF TypeOK
  <2>2. /\ Len(log) \in Nat /\ Len(log') = Len(log) + 1 /\ Len(log') \in 1..Len(log')
        /\ \A i \in 1..Len(log) : log'[i] = log[i]
        /\ \A i \in 1..Len(log') : i \in 1..Len(log) \/ i = Len(log')
        /\ log'[Len(log')] = rec
    BY <2>1, Pushed
  <2>3. \A i \in 1..Len(log) : i \in 1..Len(log')
    BY <2>2
  <2>4. Recs(log) \subseteq Recs(log')
    BY <2>2, <2>3 DEF Recs
  <2>5. Recs(log') \subseteq Recs(log) \cup {rec} /\ rec \in Recs(log')
    BY <2>2 DEF Recs
  <2>6. QED BY <1>2, <2>2, <2>4, <2>5
<1>3. QED BY <1>1, <1>2

(* A commit record that is refused takes only itself out of the log.       *)
LEMMA LogLoses ==
    ASSUME TypeOK, NextStop # 0, log[NextStop].ty = "commit", log' = RemoveAt(log, NextStop)
    PROVE  /\ Recs(log') \subseteq Recs(log)
           /\ \A rec \in Recs(log) : rec.ty # "commit" => rec \in Recs(log')
<1>1. /\ NextStop \in 1..Len(log) /\ Len(log) \in Nat
  BY NextStopIs
<1> DEFINE n == NextStop
           l == log'
<1>2. /\ Len(l) = Len(log) - 1
      /\ \A i \in 1..(n - 1) : l[i] = log[i]
      /\ \A i \in n..(Len(log) - 1) : l[i] = log[i + 1]
  BY Refused
<1>3. n \in 1..Len(log) /\ log[n].ty = "commit"
  BY <1>1
<1> HIDE DEF n
<1>4. ASSUME NEW i \in 1..Len(l) PROVE l[i] \in Recs(log)
  <2>1. CASE i < n
    BY <1>1, <1>2, <1>3, <1>4, <2>1 DEF Recs
  <2>2. CASE ~(i < n)
    <3>1. i \in n..(Len(log) - 1) /\ i + 1 \in 1..Len(log)
      BY <1>1, <1>2, <1>3, <1>4, <2>2
    <3>2. QED BY <1>2, <3>1 DEF Recs
  <2>3. QED BY <2>1, <2>2
<1>5. ASSUME NEW i \in 1..Len(log), i # n PROVE \E j \in 1..Len(l) : l[j] = log[i]
  <2>1. CASE i < n
    BY <1>1, <1>2, <1>3, <1>5, <2>1
  <2>2. CASE ~(i < n)
    <3>1. i - 1 \in n..(Len(log) - 1) /\ i - 1 \in 1..Len(l) /\ i - 1 + 1 = i
      BY <1>1, <1>2, <1>3, <1>5, <2>2
    <3>2. QED BY <1>2, <3>1
  <2>3. QED BY <2>1, <2>2
<1>6. Recs(log') \subseteq Recs(log)
  BY <1>4 DEF Recs
<1>7. ASSUME NEW rec \in Recs(log), rec.ty # "commit" PROVE rec \in Recs(log')
  <2>1. PICK i \in 1..Len(log) : rec = log[i]
    BY <1>7 DEF Recs
  <2>2. i # n
    BY <1>3, <1>7, <2>1
  <2>3. PICK j \in 1..Len(l) : l[j] = log[i]
    BY <1>5, <2>2
  <2>4. QED BY <2>1, <2>3 DEF Recs
<1>8. QED BY <1>6, <1>7

(* The log is empty at the start.                                          *)
LEMMA InitLog == Init => LogInv
<1> SUFFICES ASSUME Init PROVE LogInv
  OBVIOUS
<1>1. SessionInv
  BY InitSession
<1>2. Recs(log) = {}
  BY EmptySeq DEF Init, Recs
<1>3. QED
  BY <1>1, <1>2 DEF Init, LogInv, WellLogged, HoldersLogged, CommitsKnown

(* A transaction that has begun logging has, and a committed one stays so. *)
LEMMA NothingUndone ==
    ASSUME SessionInv, [Next]_vars
    PROVE  /\ \A t \in TxId : started[t] => started'[t]
           /\ \A t \in TxId : status[t] = "committed" => status'[t] = "committed"
<1> USE DEF SessionInv
<1>1. ASSUME NEW s \in Client, Begin(s)
      PROVE  /\ \A t \in TxId : started[t] => started'[t]
             /\ \A t \in TxId : status[t] = "committed" => status'[t] = "committed"
  BY <1>1, NextIdIsNew DEF Begin, NewTxn, TypeOK
<1>2. ASSUME NEW s \in Client, NEW kind \in {"read", "write", "create"}, Statement(s, kind)
      PROVE  /\ \A t \in TxId : started[t] => started'[t]
             /\ \A t \in TxId : status[t] = "committed" => status'[t] = "committed"
  <2>1. \A t \in TxId : started[t] => started'[t]
    BY <1>2 DEF Statement, TypeOK
  <2>2. \A t \in TxId : status[t] = "committed" => status'[t] = "committed"
    BY <1>2, NextIdIsNew DEF Statement, NewTxn, TypeOK
  <2>3. QED BY <2>1, <2>2
<1>3. ASSUME NEW s \in Client, Publish(s) \/ Unpublish(s)
      PROVE  /\ \A t \in TxId : started[t] => started'[t]
             /\ \A t \in TxId : status[t] = "committed" => status'[t] = "committed"
  BY <1>3 DEF Publish, Unpublish, TypeOK, AllFit, Fits
<1>4. ASSUME NEW t \in TxId, ShutdownAborts(t)
      PROVE  /\ \A u \in TxId : started[u] => started'[u]
             /\ \A u \in TxId : status[u] = "committed" => status'[u] = "committed"
  BY <1>4 DEF ShutdownAborts, Active, TypeOK
<1>5. CASE UNCHANGED <<started, status>>
  BY <1>5
<1>6. UNCHANGED vars => UNCHANGED <<started, status>>
  BY DEF vars
<1>7. ASSUME NEW s \in Client,
             \/ \E r \in Row : WriteRow(s, r)
             \/ CreateTable(s) \/ Finish(s) \/ Raise(s) \/ Commit(s) \/ Abort(s) \/ Release(s)
      PROVE  UNCHANGED <<started, status>>
  BY <1>7 DEF WriteRow, CreateTable, Finish, Raise, Commit, Abort, Release
<1>8. WriterPersists \/ WriterRefuses \/ Shutdown \/ CloseLog => UNCHANGED <<started, status>>
  BY DEF WriterPersists, WriterRefuses, Shutdown, CloseLog
<1>9. QED BY <1>1, <1>2, <1>3, <1>4, <1>5, <1>6, <1>7, <1>8 DEF Next

(* A transaction whose commit was called is waiting for it, or committed,  *)
(* or was told of an error.                                                *)
LEMMA KnownStays ==
    ASSUME SessionInv, [Next]_vars
    PROVE  Committed \cup Undecided \subseteq (Committed \cup Undecided)'
<1> USE DEF SessionInv
<1>1. Committed \subseteq Committed'
  BY NothingUndone DEF Committed
<1>2. refused \subseteq refused'
  BY DEF Next, vars, writer, Begin, Statement, WriteRow, CreateTable, Finish, Raise, Commit,
         Publish, Abort, Unpublish, Release, WriterPersists, WriterRefuses, Shutdown,
         ShutdownAborts, CloseLog
<1>3. ASSUME NEW s \in Client, pc[s] \in {"waiting", "publish"}
      PROVE  \/ pc'[s] \in {"waiting", "publish"} /\ own'[s] = own[s]
             \/ own[s] \in Committed'
             \/ own[s] \in refused'
  <2>1. own[s] \in TxId
    BY <1>3 DEF AllFit, Fits, TypeOK
  <2>2. ASSUME NEW u \in Client,
               \/ Begin(u)
               \/ \E kind \in {"read", "write", "create"} : Statement(u, kind)
               \/ \E r \in Row : WriteRow(u, r)
               \/ CreateTable(u) \/ Finish(u) \/ Raise(u) \/ Commit(u)
               \/ Abort(u) \/ Unpublish(u) \/ Release(u)
        PROVE  u # s /\ pc'[s] = pc[s] /\ own'[s] = own[s]
    BY <1>3, <2>2 DEF Begin, NewTxn, Statement, WriteRow, CreateTable, Finish, Raise, Commit, session,
           CommitCalled, Abort, AbortCalled, Unpublish, Release, Leave, Owners, TypeOK
  <2>3. ASSUME NEW u \in Client, Publish(u)
        PROVE  (pc'[s] = pc[s] /\ own'[s] = own[s]) \/ own[s] \in Committed'
    <3>1. CASE u = s
      BY <2>1, <2>3, <3>1 DEF Publish, Committed, TypeOK
    <3>2. CASE u # s
      BY <2>3, <3>2 DEF Publish, session, Owners
    <3>3. QED BY <3>1, <3>2
  <2>4. CASE WriterPersists
    BY <1>3, <2>4 DEF WriterPersists, session
  <2>5. CASE WriterRefuses
    BY <1>3, <2>5 DEF WriterRefuses, session, Waiting
  <2>6. CASE UNCHANGED <<pc, own>>
    BY <1>3, <2>6
  <2>7. /\ UNCHANGED vars => UNCHANGED <<pc, own>>
        /\ Shutdown \/ (\E t \in TxId : ShutdownAborts(t)) \/ CloseLog => UNCHANGED <<pc, own>>
    BY DEF vars, Shutdown, ShutdownAborts, CloseLog, session
  <2>8. QED BY <1>3, <2>2, <2>3, <2>4, <2>5, <2>6, <2>7 DEF Next
<1>4. QED BY <1>1, <1>2, <1>3 DEF Undecided

(* Who writes a record.                                                    *)
Writes(rec) ==
    \/ \E s \in Client, r \in Row : WriteRow(s, r) /\ rec = Rec("write", own[s], r)
    \/ \E s \in Client : CreateTable(s) /\ rec = Rec("create", own[s], None)
    \/ \E s \in Client : Commit(s) /\ started[own[s]] /\ rec = Rec("commit", own[s], None)
    \/ \E s \in Client : /\ Abort(s) /\ Active(own[s]) /\ started[own[s]]
                         /\ rec = Rec("abort", own[s], None)
    \/ \E t \in TxId : /\ ShutdownAborts(t) /\ Active(t) /\ started[t]
                       /\ rec = Rec("abort", t, None)
    \/ CloseLog /\ rec = End

(* A step appends one record, or withdraws a commit record, or neither.    *)
LEMMA LogEffect ==
    ASSUME SessionInv, [Next]_vars
    PROVE  \/ log' = log
           \/ \E rec \in Record : log' = Logged(rec) /\ Writes(rec)
           \/ /\ WriterRefuses /\ NextStop # 0 /\ log[NextStop].ty = "commit"
              /\ log' = RemoveAt(log, NextStop)
<1> USE DEF SessionInv
<1> DEFINE Grows == \E rec \in Record : log' = Logged(rec) /\ Writes(rec)
<1>1. ASSUME NEW s \in Client, NEW r \in Row, WriteRow(s, r) PROVE Grows
  <2>1. own[s] \in TxId
    BY <1>1 DEF WriteRow, AllFit, Fits, TypeOK
  <2>2. Rec("write", own[s], r) \in Record
    BY <2>1 DEF Rec, Record, Data
  <2>3. log' = Logged(Rec("write", own[s], r))
    BY <1>1 DEF WriteRow
  <2>4. QED BY <1>1, <2>2, <2>3 DEF Writes
<1>2. ASSUME NEW s \in Client, CreateTable(s) PROVE Grows
  <2>1. own[s] \in TxId
    BY <1>2 DEF CreateTable, AllFit, Fits, TypeOK
  <2>2. Rec("create", own[s], None) \in Record
    BY <2>1 DEF Rec, Record, Data
  <2>3. log' = Logged(Rec("create", own[s], None))
    BY <1>2 DEF CreateTable
  <2>4. QED BY <1>2, <2>2, <2>3 DEF Writes
<1>3. ASSUME NEW s \in Client, Commit(s) PROVE log' = log \/ Grows
  <2>1. CASE started[own[s]]
    <3>1. own[s] \in TxId
      BY <1>3 DEF Commit, Active, TypeOK
    <3>2. Rec("commit", own[s], None) \in Record
      BY <3>1 DEF Rec, Record
    <3>3. log' = Logged(Rec("commit", own[s], None))
      BY <1>3, <2>1 DEF Commit
    <3>4. QED BY <1>3, <2>1, <3>2, <3>3 DEF Writes
  <2>2. CASE ~started[own[s]]
    BY <1>3, <2>2 DEF Commit
  <2>3. QED BY <2>1, <2>2
<1>4. ASSUME NEW s \in Client, Abort(s) PROVE log' = log \/ Grows
  <2>1. CASE Active(own[s]) /\ started[own[s]]
    <3>1. own[s] \in TxId
      BY <2>1 DEF Active, TypeOK
    <3>2. Rec("abort", own[s], None) \in Record
      BY <3>1 DEF Rec, Record
    <3>3. log' = Logged(Rec("abort", own[s], None))
      BY <1>4, <2>1 DEF Abort
    <3>4. QED BY <1>4, <2>1, <3>2, <3>3 DEF Writes
  <2>2. CASE ~(Active(own[s]) /\ started[own[s]])
    BY <1>4, <2>2 DEF Abort
  <2>3. QED BY <2>1, <2>2
<1>5. ASSUME NEW t \in TxId, ShutdownAborts(t) PROVE log' = log \/ Grows
  <2>1. CASE Active(t) /\ started[t]
    <3>1. Rec("abort", t, None) \in Record
      BY DEF Rec, Record
    <3>2. log' = Logged(Rec("abort", t, None))
      BY <1>5, <2>1 DEF ShutdownAborts
    <3>3. QED BY <1>5, <2>1, <3>1, <3>2 DEF Writes
  <2>2. CASE ~(Active(t) /\ started[t])
    BY <1>5, <2>2 DEF ShutdownAborts
  <2>3. QED BY <2>1, <2>2
<1>6. CloseLog => Grows
  <2>1. End \in Record
    BY DEF Record
  <2>2. CloseLog => log' = Logged(End)
    BY DEF CloseLog, Logged
  <2>3. QED BY <2>1, <2>2 DEF Writes
<1>7. ASSUME NEW s \in Client,
             \/ Begin(s) \/ \E kind \in {"read", "write", "create"} : Statement(s, kind)
             \/ Finish(s) \/ Raise(s) \/ Publish(s) \/ Unpublish(s) \/ Release(s)
      PROVE  log' = log
  BY <1>7 DEF Begin, Statement, Finish, Raise, Publish, Unpublish, Release
<1>8. (UNCHANGED vars) \/ WriterPersists \/ Shutdown => log' = log
  BY DEF vars, WriterPersists, Shutdown
<1>9. WriterRefuses => \/ log' = log
                       \/ /\ NextStop # 0 /\ log[NextStop].ty = "commit"
                          /\ log' = RemoveAt(log, NextStop)
  BY DEF WriterRefuses
<1> HIDE DEF Grows
<1>10. log' = log \/ Grows \/ /\ WriterRefuses /\ NextStop # 0 /\ log[NextStop].ty = "commit"
                              /\ log' = RemoveAt(log, NextStop)
  BY <1>1, <1>2, <1>3, <1>4, <1>5, <1>6, <1>7, <1>8, <1>9 DEF Next
<1>11. QED BY <1>10 DEF Grows

(* Only transactions that began in the log have records there.             *)
LEMMA WellLoggedStays == LogInv /\ [Next]_vars => WellLogged' /\ CommitsKnown'
<1> SUFFICES ASSUME LogInv, [Next]_vars PROVE WellLogged' /\ CommitsKnown'
  OBVIOUS
<1> USE DEF LogInv
<1>1. TypeOK
  BY DEF SessionInv
<1>2. /\ \A t \in TxId : started[t] => started'[t]
      /\ Committed \cup Undecided \subseteq (Committed \cup Undecided)'
  BY NothingUndone, KnownStays
<1>3. \A rec \in Recs(log) : rec \in Record
  BY <1>1, ElementOfSeq DEF Recs, TypeOK
<1>4. \A rec \in Recs(log) :
         /\ rec.ty # "end" => started'[rec.txid]
         /\ rec.row \in Row <=> rec.ty = "write"
         /\ rec.ty = "commit" => rec.txid \in (Committed \cup Undecided)'
  BY <1>2, <1>3, RecordKinds DEF WellLogged, CommitsKnown
<1>5. CASE Recs(log') \subseteq Recs(log)
  BY <1>4, <1>5 DEF WellLogged, CommitsKnown
<1>6. ASSUME NEW rec \in Record, log' = Logged(rec), Writes(rec)
      PROVE  WellLogged' /\ CommitsKnown'
  <2>1. Recs(log') \subseteq Recs(log) \cup {rec}
    BY <1>1, <1>6, LogGrows
  <2>2. /\ rec.ty # "end" => started'[rec.txid]
        /\ rec.row \in Row <=> rec.ty = "write"
        /\ rec.ty = "commit" => rec.txid \in (Committed \cup Undecided)'
    <3>1. ASSUME NEW s \in Client, NEW r \in Row, WriteRow(s, r), rec = Rec("write", own[s], r)
          PROVE  started'[rec.txid] /\ rec.row \in Row /\ rec.ty = "write"
      BY <3>1 DEF WriteRow, SessionInv, AllFit, Fits, Rec
    <3>2. ASSUME NEW s \in Client, CreateTable(s), rec = Rec("create", own[s], None)
          PROVE  started'[rec.txid] /\ rec.row = None /\ rec.ty = "create"
      BY <3>2 DEF CreateTable, SessionInv, AllFit, Fits, Rec
    <3>3. ASSUME NEW s \in Client, Commit(s), started[own[s]], rec = Rec("commit", own[s], None)
          PROVE  /\ started'[rec.txid] /\ rec.row = None /\ rec.ty = "commit"
                 /\ rec.txid \in Undecided'
      <4>1. own'[s] = own[s] /\ started' = started /\ rec.txid = own[s] /\ rec.row = None
            /\ rec.ty = "commit"
        BY <3>3 DEF Commit, Rec
      <4>2. pc'[s] = "waiting"
        BY <1>1, <3>3 DEF Commit, SessionInv, Owners
      <4>3. QED BY <3>3, <4>1, <4>2 DEF Undecided
    <3>4. ASSUME NEW t \in TxId, started[t], rec = Rec("abort", t, None)
          PROVE  started'[rec.txid] /\ rec.row = None /\ rec.ty = "abort"
      BY <1>2, <3>4 DEF Rec
    <3>5. ASSUME NEW s \in Client, Active(own[s]) PROVE own[s] \in TxId
      BY <1>1, <3>5 DEF Active, TypeOK
    <3>6. rec = End => rec.ty = "end" /\ rec.row = None
      BY RecordKinds
    <3>7. QED BY <1>6, <3>1, <3>2, <3>3, <3>4, <3>5, <3>6 DEF Writes
  <2>3. QED BY <1>4, <2>1, <2>2 DEF WellLogged, CommitsKnown
<1>7. QED
  BY <1>1, <1>5, <1>6, LogEffect, LogLoses

(* Records other than of commits stay, and the log stays closed.           *)
LEMMA RecordsStay ==
    ASSUME SessionInv, [Next]_vars
    PROVE  /\ \A rec \in Recs(log) : rec.ty # "commit" => rec \in Recs(log')
           /\ Closing => Closing'
           /\ \A t \in TxId : Has(log, "abort", t) => Has(log', "abort", t)
<1>1. TypeOK /\ TypeOK'
  BY NextSession DEF SessionInv
<1>2. \A rec \in Recs(log) : rec.ty # "commit" => rec \in Recs(log')
  BY <1>1, LogEffect, LogGrows, LogLoses
<1>3. Closing' <=> End \in Recs(log')
  <2>1. DOMAIN log' = 1..Len(log')
    BY <1>1 DEF TypeOK
  <2>2. QED BY <2>1 DEF Closing, Range, Recs, End, Rec
<1>4. Closing => Closing'
  BY <1>1, <1>2, <1>3, ClosingIs, RecordKinds DEF End, Rec
<1>5. \A t \in TxId : Has(log, "abort", t) => Has(log', "abort", t)
  BY <1>2 DEF Has
<1>6. QED BY <1>2, <1>4, <1>5

(* A logged write stays one whose fate is decided or whose lock is held.   *)
LEMMA HoldersLoggedStays == LogInv /\ [Next]_vars => HoldersLogged'
<1> SUFFICES ASSUME LogInv, [Next]_vars, ~Closing' PROVE HoldersLogged'
  BY DEF HoldersLogged
<1> USE DEF LogInv
<1>1. TypeOK /\ Owners /\ AllFit /\ ~Closing
  BY RecordsStay DEF SessionInv
<1>2. /\ \A t \in TxId : started[t] => started'[t]
      /\ \A t \in TxId : status[t] = "committed" => status'[t] = "committed"
      /\ \A t \in TxId : Has(log, "abort", t) => Has(log', "abort", t)
  BY NothingUndone, RecordsStay
<1>3. ASSUME NEW t \in TxId, log' = Logged(Rec("abort", t, None)) PROVE Has(log', "abort", t)
  <2>1. Rec("abort", t, None) \in Record
    BY DEF Rec, Record
  <2>2. Rec("abort", t, None) \in Recs(log')
    BY <1>1, <1>3, <2>1, LogGrows
  <2>3. QED BY <2>2 DEF Has, Rec
<1>4. ASSUME NEW rec \in Recs(log), rec.ty = "write"
      PROVE  \/ holder'[rec.row] = rec.txid
             \/ status'[rec.txid] = "committed"
             \/ Has(log', "abort", rec.txid)
  <2>1. rec \in Record /\ rec.txid \in TxId /\ rec.row \in Row /\ started[rec.txid]
    BY <1>1, <1>4, ElementOfSeq, RecordKinds DEF Recs, TypeOK, WellLogged
  <2> DEFINE t == rec.txid
             r == rec.row
  <2> SUFFICES ASSUME holder[r] = t, holder'[r] # t, status[t] # "committed"
               PROVE  status'[t] = "committed" \/ Has(log', "abort", t)
    BY <1>1, <1>2, <1>4, <2>1 DEF HoldersLogged
  <2>2. t \in TxId /\ r \in Row /\ started[t] /\ t # None
    BY <2>1
  <2> HIDE DEF t, r
  <2>3. ASSUME NEW s \in Client, NEW q \in Row, WriteRow(s, q) PROVE FALSE
    BY <1>1, <2>2, <2>3 DEF WriteRow, TypeOK
  <2>4. ASSUME NEW s \in Client, Unpublish(s) PROVE Has(log', "abort", t)
    <3>1. own[s] = t /\ pc[s] = "unpublish"
      BY <2>2, <2>4 DEF Unpublish, FreeLocks
    <3>2. QED BY <1>1, <1>2, <2>2, <3>1 DEF HoldersLogged
  <2>5. ASSUME NEW s \in Client, Release(s) PROVE FALSE
    <3>1. own[s] = t /\ pc[s] = "release"
      BY <2>2, <2>5 DEF Release, FreeLocks
    <3>2. QED BY <1>1, <2>2, <3>1 DEF AllFit, Fits
  <2>6. ASSUME NEW u \in TxId, ShutdownAborts(u) PROVE Has(log', "abort", t)
    <3>1. u = t /\ Active(u)
      BY <2>2, <2>6 DEF ShutdownAborts, FreeLocks
    <3>2. log' = Logged(Rec("abort", t, None))
      BY <2>2, <2>6, <3>1 DEF ShutdownAborts
    <3>3. QED BY <1>3, <2>2, <3>2
  <2>7. UNCHANGED holder => FALSE
    OBVIOUS
  <2>8. ASSUME NEW s \in Client,
               \/ Begin(s) \/ \E kind \in {"read", "write", "create"} : Statement(s, kind)
               \/ CreateTable(s) \/ Finish(s) \/ Raise(s) \/ Commit(s) \/ Publish(s) \/ Abort(s)
        PROVE  UNCHANGED holder
    BY <2>8 DEF Begin, Statement, CreateTable, Finish, Raise, Commit, Publish, Abort
  <2>9. WriterPersists \/ WriterRefuses \/ Shutdown \/ CloseLog \/ (UNCHANGED vars) => UNCHANGED holder
    BY DEF WriterPersists, WriterRefuses, Shutdown, CloseLog, vars
  <2>10. QED BY <2>3, <2>4, <2>5, <2>6, <2>7, <2>8, <2>9 DEF Next
<1>5. ASSUME NEW rec \in Recs(log'), rec.ty = "write", rec \notin Recs(log)
      PROVE  holder'[rec.row] = rec.txid
  <2>1. PICK new \in Record : log' = Logged(new) /\ Writes(new)
    BY <1>1, <1>5, LogEffect, LogLoses
  <2>2. rec = new
    BY <1>1, <1>5, <2>1, LogGrows
  <2>3. PICK s \in Client, r \in Row : WriteRow(s, r) /\ rec = Rec("write", own[s], r)
    BY <1>5, <2>1, <2>2 DEF Writes, Rec, End
  <2>4. QED BY <1>1, <2>3 DEF WriteRow, Rec, TypeOK
<1>6. ASSUME NEW s \in Client, pc'[s] = "unpublish", started'[own'[s]]
      PROVE  Has(log', "abort", own'[s])
  <2>1. CASE pc[s] = "unpublish" /\ own'[s] = own[s] /\ started[own[s]]
    <3>1. own[s] \in TxId
      BY <1>1, <2>1 DEF AllFit, Fits, TypeOK
    <3>2. QED BY <1>1, <1>2, <2>1, <3>1 DEF HoldersLogged
  <2>2. ASSUME Abort(s) PROVE Has(log', "abort", own'[s])
    <3>1. Active(own[s])
      BY <1>1, <1>6, <2>2 DEF Abort, Leave, Owners
    <3>2. /\ own' = own /\ started' = started /\ own[s] \in TxId
          /\ log' = IF started[own[s]] THEN Logged(Rec("abort", own[s], None)) ELSE log
      BY <1>1, <2>2, <3>1 DEF Abort, Active, TypeOK
    <3>3. QED BY <1>3, <1>6, <3>2
  <2>3. ASSUME ~Abort(s) PROVE pc[s] = "unpublish" /\ own'[s] = own[s] /\ started[own[s]]
    <3>1. CASE UNCHANGED <<pc, own, started>>
      BY <1>6, <3>1
    <3>2. ASSUME NEW u \in Client, Begin(u) PROVE pc[s] = "unpublish" /\ own'[s] = own[s] /\ started[own[s]]
      BY <1>1, <1>6, <3>2 DEF Begin, NewTxn, TypeOK
    <3>3. ASSUME NEW u \in Client, NEW kind \in {"read", "write", "create"}, Statement(u, kind)
          PROVE pc[s] = "unpublish" /\ own'[s] = own[s] /\ started[own[s]]
      <4>1. u # s /\ pc[s] = "unpublish"
        BY <1>1, <1>6, <3>3 DEF Statement, Owners
      <4>2. own'[s] = own[s] /\ own[s] \in TxId
        BY <1>1, <3>3, <4>1 DEF Statement, NewTxn, TypeOK, AllFit, Fits
      <4>3. own'[u] # own[s]
        BY <1>1, <3>3, <4>1, <4>2, NextSession DEF SessionInv, Owners
      <4>4. started'[own[s]] = started[own[s]]
        BY <1>1, <3>3, <4>2, <4>3 DEF Statement, TypeOK
      <4>5. QED BY <1>6, <4>1, <4>2, <4>4
    <3>4. ASSUME NEW u \in Client,
                 \/ Finish(u) \/ Raise(u) \/ Commit(u) \/ Publish(u) \/ Unpublish(u) \/ Release(u)
          PROVE pc[s] = "unpublish" /\ own'[s] = own[s] /\ started[own[s]]
      BY <1>1, <1>6, <3>4 DEF Finish, Raise, Commit, Publish, Unpublish, Release, Leave, session, Owners,
         TypeOK
    <3>5. ASSUME NEW u \in Client, u # s, Abort(u)
          PROVE pc[s] = "unpublish" /\ own'[s] = own[s] /\ started[own[s]]
      BY <1>1, <1>6, <3>5 DEF Abort, Leave, Owners, TypeOK
    <3>6. WriterPersists \/ WriterRefuses => pc[s] = "unpublish" /\ own'[s] = own[s] /\ started[own[s]]
      BY <1>6 DEF WriterPersists, WriterRefuses, session
    <3>7. ASSUME NEW u \in Client, (\E r \in Row : WriteRow(u, r)) \/ CreateTable(u)
          PROVE  UNCHANGED <<pc, own, started>>
      BY <3>7 DEF WriteRow, CreateTable, session
    <3>8. /\ Shutdown \/ (\E t \in TxId : ShutdownAborts(t)) \/ CloseLog => UNCHANGED <<pc, own, started>>
          /\ UNCHANGED vars => UNCHANGED <<pc, own, started>>
      BY DEF vars, Shutdown, ShutdownAborts, CloseLog, session
    <3>9. QED BY <2>3, <3>1, <3>2, <3>3, <3>4, <3>5, <3>6, <3>7, <3>8 DEF Next
  <2>4. QED BY <2>1, <2>2, <2>3
<1>7. QED BY <1>4, <1>5, <1>6 DEF HoldersLogged

(* Every step keeps the invariant about the log.                           *)
LEMMA NextLog == LogInv /\ [Next]_vars => LogInv'
BY NextSession, WellLoggedStays, HoldersLoggedStays DEF LogInv

(* Who gets a row's lock finds in memory what the log says of the row: no  *)
(* other's commit of it is in the log and not yet visible.                 *)
THEOREM LocksCoverTheLog == Spec => []HolderIsCurrent
<1>1. ASSUME LogInv PROVE HolderIsCurrent
  <2> SUFFICES ASSUME ~Closing, NEW i \in DOMAIN log, log[i].ty = "write",
                      holder[log[i].row] \notin {None, log[i].txid},
                      log[i].txid \in CommittedIn(log)
               PROVE  log[i].txid \in Committed
    BY DEF HolderIsCurrent
  <2>1. DOMAIN log = 1..Len(log) /\ log \in Seq(Record)
    BY <1>1 DEF LogInv, SessionInv, TypeOK
  <2>2. log[i] \in Recs(log) /\ log[i] \in Record
    BY <2>1, ElementOfSeq DEF Recs
  <2>3. log[i].txid \in TxId
    BY <2>2, RecordKinds
  <2>4. ~Has(log, "abort", log[i].txid)
    BY <2>1 DEF CommittedIn, Has, Recs
  <2>5. QED BY <1>1, <2>2, <2>3, <2>4 DEF LogInv, HoldersLogged, Committed
<1>2. Spec => []LogInv
  BY InitLog, NextLog, PTL DEF Spec
<1>3. QED BY <1>1, <1>2, PTL

-----------------------------------------------------------------------------
(* From here on shutdown does not abort a transaction whose commit has     *)
(* been called: that is what breaks the next properties in the code.       *)
CommitsAreKept ==
    \A s \in Client : pc[s] \in {"waiting", "publish"} => status[own[s]] = "active"

(* What is taken back in the log is taken back in memory, or about to be.  *)
AbortsKnown ==
    \A t \in TxId : Has(log, "abort", t) =>
       status[t] = "aborted" \/ \E s \in Client : own[s] = t /\ pc[s] = "unpublish"

(* A commit that memory shows, or is about to, is fsynced.                 *)
Durable(t) ==
    /\ \E i \in 1..synced : log[i].ty = "commit" /\ log[i].txid = t
    /\ ~Has(log, "abort", t)

CommitsDurable ==
    /\ \A t \in TxId : status[t] = "committed" /\ started[t] => Durable(t)
    /\ \A s \in Client : pc[s] = "publish" /\ started[own[s]] => Durable(own[s])

KeptInv == LogInv /\ CommitsAreKept /\ AbortsKnown /\ CommitsDurable

(* Nothing has ended at the start.                                         *)
LEMMA InitKept == Init => KeptInv
<1> SUFFICES ASSUME Init PROVE KeptInv
  OBVIOUS
<1>1. LogInv
  BY InitLog
<1>2. Recs(log) = {}
  BY EmptySeq DEF Init, Recs
<1>3. QED
  BY <1>1, <1>2 DEF Init, KeptInv, CommitsAreKept, AbortsKnown, CommitsDurable, Has

(* A transaction that waits for its commit stays active.                   *)
LEMMA CommitsAreKeptStays ==
    ASSUME "shutdown-during-commit" \in Avoided, SessionInv, CommitsAreKept, [Next]_vars
    PROVE  CommitsAreKept'
<1> SUFFICES ASSUME NEW s \in Client, pc'[s] \in {"waiting", "publish"}
             PROVE  status'[own'[s]] = "active"
  BY DEF CommitsAreKept
<1> USE DEF SessionInv, Owners, AllFit
<1>1. ASSUME pc[s] \in {"waiting", "publish"}, own'[s] = own[s],
             status'[own[s]] = status[own[s]]
      PROVE  status'[own'[s]] = "active"
  BY <1>1 DEF CommitsAreKept
<1>2. ASSUME NEW u \in Client, Commit(u) PROVE status'[own'[s]] = "active"
  <2>1. CASE u = s
    BY <1>2, <2>1 DEF Commit, session, Active
  <2>2. CASE u # s
    BY <1>1, <1>2, <2>2 DEF Commit, session
  <2>3. QED BY <2>1, <2>2
<1>3. ASSUME NEW u \in Client, Publish(u) \/ Unpublish(u) \/ Release(u)
      PROVE  status'[own'[s]] = "active"
  <2>1. u # s /\ pc[s] \in {"waiting", "publish"} /\ own'[s] = own[s]
    BY <1>3 DEF Publish, Unpublish, Release, Leave, session, TypeOK
  <2>2. own[s] \in TxId /\ own[u] # own[s]
    BY <1>3, <2>1 DEF Publish, Unpublish, Release, Fits, TypeOK
  <2>3. status'[own[s]] = status[own[s]]
    BY <1>3, <2>2 DEF Publish, Unpublish, Release, TypeOK
  <2>4. QED BY <1>1, <2>1, <2>3
<1>4. ASSUME NEW u \in Client,
             Begin(u) \/ \E kind \in {"read", "write", "create"} : Statement(u, kind)
      PROVE  status'[own'[s]] = "active"
  <2>1. u # s /\ pc[s] \in {"waiting", "publish"}
    BY <1>4 DEF Begin, Statement
  <2>2. own'[s] = own[s] /\ own[s] \in TxId
    BY <1>4, <2>1 DEF Begin, Statement, NewTxn, Fits, TypeOK
  <2>3. status[own[s]] = "active"
    BY <2>1 DEF CommitsAreKept
  <2>4. status'[own[s]] = "active"
    BY <1>4, <2>2, <2>3, NextIdIsNew DEF Begin, Statement, NewTxn, TypeOK
  <2>5. QED BY <2>2, <2>4
<1>5. ASSUME NEW u \in Client,
             \/ \E r \in Row : WriteRow(u, r)
             \/ CreateTable(u) \/ Finish(u) \/ Raise(u) \/ Abort(u)
      PROVE  status'[own'[s]] = "active"
  <2>1. pc[s] \in {"waiting", "publish"} /\ own'[s] = own[s] /\ status' = status
    BY <1>5 DEF WriteRow, CreateTable, Finish, Raise, Abort, AbortCalled, Leave, session, TypeOK
  <2>2. QED BY <1>1, <2>1
<1>6. ASSUME WriterPersists \/ WriterRefuses PROVE status'[own'[s]] = "active"
  <2>1. pc[s] \in {"waiting", "publish"} /\ own' = own /\ status' = status
    BY <1>6 DEF WriterPersists, WriterRefuses, session, Waiting
  <2>2. QED BY <1>1, <2>1
<1>7. ASSUME NEW t \in TxId, ShutdownAborts(t) PROVE status'[own'[s]] = "active"
  <2>1. pc[s] \in {"waiting", "publish"} /\ own'[s] = own[s] /\ own[s] # t
    BY <1>7 DEF ShutdownAborts, session
  <2>2. own[s] \in TxId
    BY <2>1 DEF Fits, TypeOK
  <2>3. status'[own[s]] = status[own[s]]
    BY <1>7, <2>1, <2>2 DEF ShutdownAborts, TypeOK
  <2>4. QED BY <1>1, <2>1, <2>3
<1>8. ASSUME Shutdown \/ CloseLog \/ UNCHANGED vars PROVE status'[own'[s]] = "active"
  <2>1. UNCHANGED <<pc, own, status>>
    BY <1>8 DEF Shutdown, CloseLog, vars, session
  <2>2. QED BY <1>1, <2>1
<1>9. QED BY <1>2, <1>3, <1>4, <1>5, <1>6, <1>7, <1>8 DEF Next

(* A transaction that has ended has ended for good.                        *)
LEMMA EndedStays ==
    ASSUME SessionInv, CommitsAreKept, [Next]_vars, NEW t \in TxId, status[t] \in Ended
    PROVE  status'[t] = status[t]
<1> USE DEF SessionInv, Ended
<1>1. ASSUME NEW s \in Client,
             Begin(s) \/ \E kind \in {"read", "write", "create"} : Statement(s, kind)
      PROVE  status'[t] = status[t]
  BY <1>1, NextIdIsNew DEF Begin, Statement, NewTxn, TypeOK
<1>2. ASSUME NEW s \in Client, Publish(s) PROVE status'[t] = status[t]
  BY <1>2 DEF Publish, CommitsAreKept, TypeOK
<1>3. ASSUME NEW s \in Client, Unpublish(s) PROVE status'[t] = status[t]
  BY <1>3 DEF Unpublish, AllFit, Fits, TypeOK
<1>4. ASSUME NEW u \in TxId, ShutdownAborts(u) PROVE status'[t] = status[t]
  BY <1>4 DEF ShutdownAborts, Active, TypeOK
<1>5. ASSUME NEW s \in Client,
             \/ \E r \in Row : WriteRow(s, r)
             \/ CreateTable(s) \/ Finish(s) \/ Raise(s) \/ Commit(s) \/ Abort(s) \/ Release(s)
      PROVE  status' = status
  BY <1>5 DEF WriteRow, CreateTable, Finish, Raise, Commit, Abort, Release
<1>6. WriterPersists \/ WriterRefuses \/ Shutdown \/ CloseLog \/ UNCHANGED vars => status' = status
  BY DEF WriterPersists, WriterRefuses, Shutdown, CloseLog, vars
<1>7. QED BY <1>1, <1>2, <1>3, <1>4, <1>5, <1>6 DEF Next

(* An abort record stays that of a transaction that was aborted.           *)
LEMMA AbortsKnownStays ==
    ASSUME "shutdown-during-commit" \in Avoided, KeptInv, [Next]_vars
    PROVE  AbortsKnown'
<1> USE DEF KeptInv, LogInv
<1>1. TypeOK /\ Owners /\ AllFit /\ SessionInv
  BY DEF SessionInv
<1>2. SUFFICES ASSUME NEW t \in TxId, Has(log', "abort", t)
               PROVE  status'[t] = "aborted" \/ \E s \in Client : own'[s] = t /\ pc'[s] = "unpublish"
  BY DEF AbortsKnown
<1>3. CASE Has(log, "abort", t)
  <2>1. CASE status[t] = "aborted"
    BY <1>1, <2>1, EndedStays DEF Ended
  <2>2. ASSUME NEW s \in Client, own[s] = t, pc[s] = "unpublish"
        PROVE  status'[t] = "aborted" \/ (own'[s] = t /\ pc'[s] = "unpublish")
    <3>1. ASSUME Unpublish(s) PROVE status'[t] = "aborted"
      BY <1>1, <2>2, <3>1 DEF Unpublish, TypeOK
    <3>2. ASSUME NEW u \in Client, u # s \/ ~Unpublish(u),
                 \/ Begin(u) \/ \E kind \in {"read", "write", "create"} : Statement(u, kind)
                 \/ \E r \in Row : WriteRow(u, r)
                 \/ CreateTable(u) \/ Finish(u) \/ Raise(u) \/ Commit(u) \/ Publish(u)
                 \/ Abort(u) \/ Unpublish(u) \/ Release(u)
          PROVE  own'[s] = t /\ pc'[s] = "unpublish"
      BY <1>1, <2>2, <3>2 DEF Begin, Statement, NewTxn, WriteRow, CreateTable, Finish, Raise, Commit,
         CommitCalled, Publish, Abort, AbortCalled, Unpublish, Release, Leave, session, TypeOK, Owners
    <3>3. WriterPersists \/ WriterRefuses => own'[s] = t /\ pc'[s] = "unpublish"
      BY <2>2 DEF WriterPersists, WriterRefuses, Waiting, session
    <3>4. Shutdown \/ (\E u \in TxId : ShutdownAborts(u)) \/ CloseLog \/ UNCHANGED vars
             => own'[s] = t /\ pc'[s] = "unpublish"
      BY <2>2 DEF Shutdown, ShutdownAborts, CloseLog, vars, session
    <3>5. QED BY <3>1, <3>2, <3>3, <3>4 DEF Next
  <2>3. QED BY <1>3, <2>1, <2>2 DEF AbortsKnown
<1>4. CASE ~Has(log, "abort", t)
  <2>1. PICK rec \in Recs(log') : rec \notin Recs(log) /\ rec.ty = "abort" /\ rec.txid = t
    BY <1>2, <1>4 DEF Has
  <2>2. PICK new \in Record : log' = Logged(new) /\ Writes(new)
    BY <1>1, <2>1, LogEffect, LogLoses
  <2>3. rec = new
    BY <1>1, <2>1, <2>2, LogGrows
  <2>4. ASSUME NEW s \in Client, Abort(s), Active(own[s]), own[s] = t
        PROVE  own'[s] = t /\ pc'[s] = "unpublish"
    BY <1>1, <2>4 DEF Abort, Owners
  <2>5. ShutdownAborts(t) /\ Active(t) => status'[t] = "aborted"
    BY <1>1 DEF ShutdownAborts, TypeOK
  <2>6. QED BY <2>1, <2>2, <2>3, <2>4, <2>5 DEF Writes, Rec, End
<1>5. QED BY <1>3, <1>4

(* The writer only adds to what is fsynced.                                *)
LEMMA SyncedStays ==
    ASSUME SessionInv, [Next]_vars
    PROVE  synced' \in Nat /\ synced' >= synced /\ \A i \in 1..synced : log'[i] = log[i]
<1>1. TypeOK /\ synced \in Nat /\ taken \in Nat /\ Len(log) \in Nat /\ synced <= taken /\ taken <= Len(log)
  BY LenProperties DEF SessionInv, TypeOK
<1>2. synced' \in Nat /\ synced' >= synced
  <2>1. WriterPersists => synced' \in Nat /\ synced' >= synced
    BY <1>1, NextStopIs DEF WriterPersists
  <2>2. WriterRefuses => synced' = synced
    BY DEF WriterRefuses
  <2>3. ASSUME NEW u \in Client,
               \/ Begin(u) \/ \E kind \in {"read", "write", "create"} : Statement(u, kind)
               \/ \E r \in Row : WriteRow(u, r)
               \/ CreateTable(u) \/ Finish(u) \/ Raise(u) \/ Commit(u) \/ Publish(u)
               \/ Abort(u) \/ Unpublish(u) \/ Release(u)
        PROVE  synced' = synced
    BY <2>3 DEF Begin, Statement, WriteRow, CreateTable, Finish, Raise, Commit, Publish, Abort, Unpublish,
       Release, writer
  <2>4. Shutdown \/ (\E u \in TxId : ShutdownAborts(u)) \/ CloseLog \/ UNCHANGED vars => synced' = synced
    BY DEF Shutdown, ShutdownAborts, CloseLog, vars, writer
  <2>5. QED BY <1>1, <2>1, <2>2, <2>3, <2>4 DEF Next
<1>3. \A i \in 1..synced : log'[i] = log[i]
  <2>1. CASE log' = log
    BY <2>1
  <2>2. CASE \E rec \in Record : log' = Logged(rec)
    <3>1. \A i \in 1..Len(log) : log'[i] = log[i]
      BY <1>1, <2>2, LogGrows
    <3>2. QED BY <1>1, <3>1
  <2>3. CASE NextStop # 0 /\ log' = RemoveAt(log, NextStop)
    <3>1. NextStop \in (taken + 1)..Len(log) /\ \A i \in 1..(NextStop - 1) : log'[i] = log[i]
      BY <1>1, <2>3, NextStopIs, Refused
    <3>2. QED BY <1>1, <3>1
  <2>4. QED BY <2>1, <2>2, <2>3, LogEffect
<1>4. QED BY <1>2, <1>3

(* No abort is logged for a transaction whose commit is done, or about to  *)
(* be made visible.                                                        *)
LEMMA DurableStays ==
    ASSUME "shutdown-during-commit" \in Avoided, KeptInv, [Next]_vars, NEW t \in TxId, Durable(t),
           status[t] = "committed" \/ \E s \in Client : own[s] = t /\ pc[s] = "publish"
    PROVE  Durable(t)'
<1> USE DEF KeptInv, LogInv
<1>1. TypeOK /\ Owners /\ AllFit /\ SessionInv
  BY DEF SessionInv
<1>2. PICK i \in 1..synced : log[i].ty = "commit" /\ log[i].txid = t
  BY DEF Durable
<1>3. i \in 1..synced' /\ log'[i] = log[i]
  BY <1>1, <1>2, SyncedStays DEF TypeOK
<1>4. ASSUME Has(log', "abort", t) PROVE FALSE
  <2>1. PICK rec \in Recs(log') : rec \notin Recs(log) /\ rec.ty = "abort" /\ rec.txid = t
    BY <1>4 DEF Has, Durable
  <2>2. PICK new \in Record : log' = Logged(new) /\ Writes(new)
    BY <1>1, <2>1, LogEffect, LogLoses
  <2>3. rec = new
    BY <1>1, <2>1, <2>2, LogGrows
  <2>4. ASSUME NEW s \in Client, Abort(s), Active(own[s]), own[s] = t PROVE FALSE
    BY <1>1, <2>4 DEF Abort, AbortCalled, Active, Owners
  <2>5. ASSUME ShutdownAborts(t), Active(t) PROVE FALSE
    BY <2>5 DEF ShutdownAborts, Active
  <2>6. QED BY <2>1, <2>2, <2>3, <2>4, <2>5 DEF Writes, Rec, End
<1>5. QED BY <1>2, <1>3, <1>4 DEF Durable

(* A transaction that is reported committed stays fsynced.                 *)
LEMMA CommitsDurableStays ==
    ASSUME "shutdown-during-commit" \in Avoided, KeptInv, [Next]_vars
    PROVE  CommitsDurable'
<1> USE DEF KeptInv, LogInv
<1>1. TypeOK /\ Owners /\ AllFit /\ SessionInv
  BY DEF SessionInv
<1>2. ASSUME NEW u \in Client, NEW kind \in {"read", "write", "create"}, Statement(u, kind),
             NEW t \in TxId, started'[t], ~started[t]
      PROVE  /\ status'[t] # "committed"
             /\ \A s \in Client : pc'[s] = "publish" => own'[s] # t
  <2>1. own'[u] = t /\ pc'[u] = "run"
    BY <1>1, <1>2 DEF Statement, Owners, TypeOK
  <2>2. SessionInv'
    BY <1>1, NextSession
  <2>3. status'[t] \in {"active", "aborted"}
    BY <1>2, <2>1, <2>2 DEF SessionInv, AllFit, Fits
  <2>4. QED BY <2>1, <2>2, <2>3 DEF SessionInv, Owners
<1>3. ASSUME ~\E u \in Client, kind \in {"read", "write", "create"} : Statement(u, kind)
      PROVE  started' = started
  BY <1>3 DEF Next, vars, Begin, WriteRow, CreateTable, Finish, Raise, Commit, Publish, Abort, Unpublish,
     Release, WriterPersists, WriterRefuses, Shutdown, ShutdownAborts, CloseLog
<1>4. ASSUME NEW t \in TxId, started'[t], ~started[t]
      PROVE  /\ status'[t] # "committed"
             /\ \A s \in Client : pc'[s] = "publish" => own'[s] # t
  BY <1>2, <1>3, <1>4
<1>5. ASSUME NEW t \in TxId, status'[t] = "committed", status[t] # "committed", started[t]
      PROVE  Durable(t)'
  <2>1. \E s \in Client : own[s] = t /\ pc[s] = "publish"
    <3>1. ASSUME NEW u \in Client, Publish(u) PROVE own[u] = t /\ pc[u] = "publish"
      BY <1>1, <1>5, <3>1 DEF Publish, TypeOK
    <3>2. ASSUME NEW u \in Client,
                 \/ Begin(u) \/ \E kind \in {"read", "write", "create"} : Statement(u, kind)
                 \/ \E r \in Row : WriteRow(u, r)
                 \/ CreateTable(u) \/ Finish(u) \/ Raise(u) \/ Commit(u)
                 \/ Abort(u) \/ Unpublish(u) \/ Release(u)
          PROVE  FALSE
      BY <1>1, <1>5, <3>2, NextIdIsNew DEF Begin, Statement, NewTxn, WriteRow, CreateTable, Finish, Raise,
         Commit, Abort, Unpublish, Release, TypeOK, SessionInv
    <3>3. ASSUME NEW u \in TxId, ShutdownAborts(u) PROVE FALSE
      BY <1>1, <1>5, <3>3 DEF ShutdownAborts, TypeOK
    <3>4. WriterPersists \/ WriterRefuses \/ Shutdown \/ CloseLog \/ UNCHANGED vars => FALSE
      BY <1>5 DEF WriterPersists, WriterRefuses, Shutdown, CloseLog, vars
    <3>5. QED BY <3>1, <3>2, <3>3, <3>4 DEF Next
  <2>2. QED BY <1>5, <2>1, DurableStays DEF CommitsDurable
<1>6. \A t \in TxId : status'[t] = "committed" /\ started'[t] => Durable(t)'
  BY <1>4, <1>5, DurableStays DEF CommitsDurable
<1>7. ASSUME NEW s \in Client, NEW t \in TxId, pc'[s] = "publish", own'[s] = t, started'[t]
      PROVE  Durable(t)'
  <2>1. started[t]
    BY <1>4, <1>7
  <2>2. CASE pc[s] = "publish" /\ own[s] = t
    BY <2>1, <2>2, DurableStays DEF CommitsDurable
  <2>3. CASE pc[s] = "waiting" /\ own[s] = t /\ WriterPersists /\ s \in Waiting(log[NextStop].txid)
    <3>1. /\ NextStop # 0 /\ synced' = NextStop /\ log' = log
      BY <2>3 DEF WriterPersists
    <3>2. /\ NextStop \in 1..NextStop /\ log[NextStop].ty \in {"commit", "end"}
          /\ log[NextStop] \in Record
      BY <1>1, <3>1, NextStopIs
    <3>3. log[NextStop].txid = t
      BY <2>3 DEF Waiting
    <3>4. log[NextStop].ty = "commit"
      BY <3>2, <3>3, RecordKinds
    <3>5. ~Has(log, "abort", t)
      BY <1>1, <2>3 DEF AbortsKnown, CommitsAreKept, Owners
    <3>6. QED BY <3>1, <3>2, <3>3, <3>4, <3>5 DEF Durable
  <2>4. \/ pc[s] = "publish" /\ own[s] = t
        \/ pc[s] = "waiting" /\ own[s] = t /\ WriterPersists /\ s \in Waiting(log[NextStop].txid)
    <3>1. ASSUME NEW u \in Client,
                 \/ Begin(u) \/ \E kind \in {"read", "write", "create"} : Statement(u, kind)
                 \/ \E r \in Row : WriteRow(u, r)
                 \/ CreateTable(u) \/ Finish(u) \/ Raise(u) \/ Publish(u)
                 \/ Abort(u) \/ Unpublish(u) \/ Release(u)
          PROVE  pc[s] = "publish" /\ own[s] = t
      BY <1>1, <1>7, <3>1 DEF Begin, Statement, NewTxn, WriteRow, CreateTable, Finish, Raise, Publish,
         Abort, Unpublish, Release, Leave, session, TypeOK, Owners
    <3>2. ASSUME NEW u \in Client, Commit(u) PROVE pc[s] = "publish" /\ own[s] = t
      BY <1>1, <1>7, <2>1, <3>2 DEF Commit, session, Owners
    <3>3. ASSUME WriterPersists
          PROVE  \/ pc[s] = "publish" /\ own[s] = t
                 \/ /\ pc[s] = "waiting" /\ own[s] = t /\ WriterPersists
                    /\ s \in Waiting(log[NextStop].txid)
      BY <1>7, <3>3 DEF WriterPersists, Waiting, session
    <3>4. WriterRefuses => pc[s] = "publish" /\ own[s] = t
      BY <1>7 DEF WriterRefuses, Waiting, session
    <3>5. Shutdown \/ (\E u \in TxId : ShutdownAborts(u)) \/ CloseLog \/ UNCHANGED vars
             => pc[s] = "publish" /\ own[s] = t
      BY <1>7 DEF Shutdown, ShutdownAborts, CloseLog, vars, session
    <3>6. QED BY <3>1, <3>2, <3>3, <3>4, <3>5 DEF Next
  <2>5. QED BY <2>2, <2>3, <2>4
<1>8. ASSUME NEW s \in Client, pc'[s] = "publish" PROVE own'[s] \in TxId
  BY <1>1, <1>8, NextSession DEF SessionInv, AllFit, Fits, TypeOK
<1>9. QED BY <1>6, <1>7, <1>8 DEF CommitsDurable, Durable

(* Outcomes and log agree in every reachable state.                        *)
LEMMA KeptInvariance ==
    ASSUME "shutdown-during-commit" \in Avoided
    PROVE  Spec => []KeptInv
<1>1. Init => KeptInv
  BY InitKept
<1>2. KeptInv /\ [Next]_vars => KeptInv'
  BY NextLog, CommitsAreKeptStays, AbortsKnownStays, CommitsDurableStays DEF KeptInv, LogInv
<1>3. QED BY <1>1, <1>2, PTL DEF Spec

(* A transaction that has committed or aborted has done so for good.       *)
THEOREM EndsOnce ==
    ASSUME "shutdown-during-commit" \in Avoided
    PROVE  Spec => StatusIsFinal
<1>1. ASSUME KeptInv, [Next]_vars
      PROVE  [\A t \in TxId : status[t] \in Ended => status'[t] = status[t]]_vars
  BY <1>1, EndedStays DEF KeptInv, LogInv
<1>2. QED BY <1>1, KeptInvariance, PTL DEF Spec, StatusIsFinal

(* What any part of the log that a crash may leave says of commits.        *)
LEMMA SurvivorIs ==
    ASSUME TypeOK, NEW recs \in Survivors
    PROVE  /\ Len(recs) \in synced..Len(log) /\ Len(log) \in Nat /\ synced \in Nat
           /\ DOMAIN recs = 1..Len(recs) /\ DOMAIN log = 1..Len(log)
           /\ \A i \in 1..Len(recs) : i \in 1..Len(log) /\ recs[i] = log[i]
<1>1. Len(log) \in Nat /\ synced \in Nat /\ log \in Seq(Record)
  BY LenProperties DEF TypeOK
<1>2. PICK n \in synced..Len(log) : recs = SubSeq(log, 1, n)
  BY DEF Survivors
<1>3. n \in 0..Len(log)
  BY <1>1, <1>2
<1>4. recs \in Seq(Record) /\ Len(recs) = n /\ \A i \in 1..n : recs[i] = log[i]
  BY <1>1, <1>2, <1>3, Prefix
<1>5. \A i \in 1..n : i \in 1..Len(log)
  BY <1>1, <1>3
<1>6. QED BY <1>1, <1>2, <1>4, <1>5

(* What is reported is what recovery finds.                                *)
LEMMA KeptOutcome == KeptInv => OutcomeIsKept
<1> SUFFICES ASSUME KeptInv, NEW recs \in Survivors
             PROVE  /\ \A t \in Committed : started[t] => t \in CommittedIn(recs)
                    /\ CommittedIn(recs) \subseteq Committed \cup Undecided
  BY DEF OutcomeIsKept
<1>1. TypeOK
  BY DEF KeptInv, LogInv, SessionInv
<1>2. /\ Len(recs) \in synced..Len(log) /\ Len(log) \in Nat /\ synced \in Nat
      /\ DOMAIN recs = 1..Len(recs)
      /\ \A i \in 1..Len(recs) : i \in 1..Len(log) /\ recs[i] = log[i]
  BY <1>1, SurvivorIs
<1>3. ASSUME NEW t \in Committed, started[t] PROVE t \in CommittedIn(recs)
  <2>1. Durable(t)
    BY <1>3 DEF KeptInv, CommitsDurable, Committed
  <2>2. PICK i \in 1..synced : log[i].ty = "commit" /\ log[i].txid = t
    BY <2>1 DEF Durable
  <2>3. i \in DOMAIN recs /\ recs[i].ty = "commit" /\ recs[i].txid = t
    BY <1>2, <2>2
  <2>4. ASSUME NEW j \in DOMAIN recs, recs[j].ty = "abort", recs[j].txid = t PROVE FALSE
    BY <1>2, <2>1, <2>4 DEF Durable, Has, Recs
  <2>5. QED BY <2>3, <2>4 DEF CommittedIn
<1>4. ASSUME NEW t \in CommittedIn(recs) PROVE t \in Committed \cup Undecided
  <2>1. PICK i \in DOMAIN recs : recs[i].ty = "commit" /\ recs[i].txid = t
    BY <1>4 DEF CommittedIn
  <2>2. recs[i] \in Recs(log)
    BY <1>2 DEF Recs
  <2>3. QED BY <2>1, <2>2 DEF KeptInv, LogInv, CommitsKnown
<1>5. QED BY <1>3, <1>4

(* A crash at any time, whatever part of the unsynced log it leaves, keeps *)
(* every commit that was made visible, and makes no commit out of what was *)
(* never committed, refused or still undecided.                            *)
THEOREM CrashKeepsOutcomes ==
    ASSUME "shutdown-during-commit" \in Avoided
    PROVE  Spec => []OutcomeIsKept
BY KeptInvariance, KeptOutcome, PTL

-----------------------------------------------------------------------------
(* CREATE TABLE and the records of the table's rows.  From here on nobody  *)
(* writes to a table whose CREATE TABLE another has not committed yet.     *)
MakerLogged == ~Closing /\ maker # None => Has(log, "create", maker)

TablesFirst ==
    \A i \in 1..Len(log) : log[i].row \in NewRow =>
       \E j \in 1..i :
          /\ log[j].ty = "create"
          /\ \/ log[j].txid = log[i].txid
             \/ status[log[j].txid] = "committed" /\ started[log[j].txid]

TableInv == KeptInv /\ MakerLogged /\ TablesFirst

(* There is no table at the start.                                         *)
LEMMA InitTable == Init => TableInv
<1> SUFFICES ASSUME Init PROVE TableInv
  OBVIOUS
<1>1. KeptInv
  BY InitKept
<1>2. Len(log) = 0
  BY EmptySeq DEF Init
<1>3. QED BY <1>1, <1>2 DEF TableInv, MakerLogged, TablesFirst, Init

(* The maker of the table stays logged.                                    *)
LEMMA MakerLoggedStays == SessionInv /\ MakerLogged /\ [Next]_vars => MakerLogged'
<1> SUFFICES ASSUME SessionInv, MakerLogged, [Next]_vars, ~Closing', maker' # None
             PROVE  Has(log', "create", maker')
  BY DEF MakerLogged
<1>1. ~Closing /\ TypeOK
  BY RecordsStay DEF SessionInv
<1>2. CASE maker' = maker
  <2>1. Has(log, "create", maker)
    BY <1>1, <1>2 DEF MakerLogged
  <2>2. QED BY <1>2, <2>1, RecordsStay DEF Has
<1>3. ASSUME NEW s \in Client, CreateTable(s) PROVE Has(log', "create", maker')
  <2> DEFINE rec == Rec("create", own[s], None)
  <2>1. own[s] \in TxId /\ log' = Logged(rec) /\ maker' = own[s]
    BY <1>1, <1>3 DEF CreateTable, SessionInv, AllFit, Fits, TypeOK
  <2>2. rec \in Record /\ rec.ty = "create" /\ rec.txid = maker'
    BY <2>1 DEF Rec, Record, Data
  <2> HIDE DEF rec
  <2>3. rec \in Recs(log')
    BY <1>1, <2>1, <2>2, LogGrows
  <2>4. QED BY <2>2, <2>3 DEF Has
<1>4. ASSUME ~\E s \in Client : CreateTable(s) PROVE maker' = maker
  BY <1>4 DEF Next, vars, Begin, Statement, WriteRow, Finish, Raise, Commit, Publish, Abort, Unpublish,
     Release, WriterPersists, WriterRefuses, Shutdown, ShutdownAborts, CloseLog
<1>5. QED BY <1>2, <1>3, <1>4

(* The record of a table stays before those of its rows.                   *)
LEMMA TablesFirstStays ==
    ASSUME "table-of-a-transaction-not-committed" \in Avoided, TableInv, [Next]_vars
    PROVE  TablesFirst'
<1> USE DEF TableInv, KeptInv, LogInv
<1>1. TypeOK /\ Owners /\ SessionInv /\ Len(log) \in Nat /\ log \in Seq(Record)
  BY LenProperties DEF SessionInv, TypeOK
<1>2. /\ \A t \in TxId : started[t] => started'[t]
      /\ \A t \in TxId : status[t] = "committed" => status'[t] = "committed"
  BY <1>1, NothingUndone
<1>3. ASSUME NEW i \in 1..Len(log) PROVE log[i].ty # "end" => log[i].txid \in TxId
  BY <1>1, <1>3, ElementOfSeq, RecordKinds
<1>4. ASSUME NEW i \in 1..Len(log), log[i].row \in NewRow
      PROVE  /\ log[i].ty = "write"
             /\ \E j \in 1..i :
                   /\ log[j].ty = "create"
                   /\ \/ log[j].txid = log[i].txid
                      \/ status'[log[j].txid] = "committed" /\ started'[log[j].txid]
  <2>1. PICK j \in 1..i :
                /\ log[j].ty = "create"
                /\ \/ log[j].txid = log[i].txid
                   \/ status[log[j].txid] = "committed" /\ started[log[j].txid]
    BY <1>4 DEF TablesFirst
  <2>2. j \in 1..Len(log) /\ log[j].txid \in TxId
    BY <1>1, <1>3, <2>1
  <2>3. log[i].ty = "write"
    BY <1>4 DEF WellLogged, Recs
  <2>4. QED BY <1>2, <2>1, <2>2, <2>3
<1>5. CASE log' = log
  BY <1>4, <1>5 DEF TablesFirst
<1>6. ASSUME NEW rec \in Record, log' = Logged(rec), Writes(rec) PROVE TablesFirst'
  <2>1. /\ Len(log') \in {Len(log), Len(log) + 1}
        /\ \A i \in 1..Len(log) : log'[i] = log[i]
        /\ \A i \in 1..Len(log') : i \in 1..Len(log) \/ log'[i] = rec
        /\ Closing => log' = log
    BY <1>1, <1>6, LogGrows
  <2>2. ASSUME NEW i \in 1..Len(log), log[i].row \in NewRow
        PROVE  \E j \in 1..i :
                  /\ log'[j].ty = "create"
                  /\ \/ log'[j].txid = log'[i].txid
                     \/ status'[log'[j].txid] = "committed" /\ started'[log'[j].txid]
    <3>1. \A j \in 1..i : log'[j] = log[j]
      BY <1>1, <2>1, <2>2
    <3>2. i \in 1..i
      BY <1>1, <2>2
    <3>3. QED BY <1>4, <2>2, <3>1, <3>2
  <2>3. ASSUME NEW i \in 1..Len(log'), i \notin 1..Len(log), rec.row \in NewRow
        PROVE  \E j \in 1..i :
                  /\ log'[j].ty = "create"
                  /\ \/ log'[j].txid = log'[i].txid
                     \/ status'[log'[j].txid] = "committed" /\ started'[log'[j].txid]
    <3>1. PICK s \in Client, r \in Row : WriteRow(s, r) /\ rec = Rec("write", own[s], r)
      BY <1>6, <2>3 DEF Writes, Rec, End
    <3>2. r \in NewRow /\ rec.txid = own[s]
      BY <2>3, <3>1 DEF Rec
    <3>3. maker # None /\ (maker = own[s] \/ status[maker] = "committed")
      BY <3>1, <3>2 DEF WriteRow, Usable
    <3>4. ~Closing
      BY <2>1, <2>3
    <3>5. PICK j \in 1..Len(log) : log[j].ty = "create" /\ log[j].txid = maker
      BY <3>3, <3>4 DEF MakerLogged, Has, Recs
    <3>6. j \in 1..i /\ log'[j] = log[j] /\ log'[i] = rec
      BY <1>1, <2>1, <2>3, <3>5
    <3>7. maker \in TxId /\ started[maker]
      BY <1>1, <3>3 DEF Owners, TypeOK
    <3>8. QED BY <1>2, <3>2, <3>3, <3>5, <3>6, <3>7
  <2>4. QED BY <1>1, <2>1, <2>2, <2>3 DEF TablesFirst
<1>7. CASE NextStop # 0 /\ log[NextStop].ty = "commit" /\ log' = RemoveAt(log, NextStop)
  <2>1. SUFFICES ASSUME NEW i \in 1..Len(log'), log'[i].row \in NewRow
                 PROVE  \E j \in 1..i :
                           /\ log'[j].ty = "create"
                           /\ \/ log'[j].txid = log'[i].txid
                              \/ status'[log'[j].txid] = "committed" /\ started'[log'[j].txid]
    BY DEF TablesFirst
  <2>2. PICK k \in 1..Len(log) :
           /\ log'[i] = log[k]
           /\ \A j \in 1..k : j = NextStop \/ \E m \in 1..i : log'[m] = log[j]
    BY <1>1, <1>7, Refused
  <2>3. PICK j \in 1..k :
                   /\ log[j].ty = "create"
                   /\ \/ log[j].txid = log[k].txid
                      \/ status'[log[j].txid] = "committed" /\ started'[log[j].txid]
    BY <1>4, <2>1, <2>2
  <2>4. j # NextStop
    BY <1>7, <2>3
  <2>5. QED BY <2>2, <2>3, <2>4
<1>8. QED BY <1>1, <1>5, <1>6, <1>7, LogEffect

(* Every log that a crash may leave can be replayed: the CREATE TABLE of a *)
(* table is in it, committed and before, when it has committed rows of it. *)
THEOREM LogsAreReplayable ==
    ASSUME "shutdown-during-commit" \in Avoided,
           "table-of-a-transaction-not-committed" \in Avoided
    PROVE  Spec => []LogIsReplayable
<1>1. ASSUME TableInv PROVE LogIsReplayable
  <2> SUFFICES ASSUME NEW recs \in Survivors, NEW i \in DOMAIN recs, recs[i].row \in NewRow,
                      recs[i].txid \in CommittedIn(recs)
               PROVE  \E j \in 1..i : recs[j].ty = "create" /\ recs[j].txid \in CommittedIn(recs)
    BY DEF LogIsReplayable
  <2>1. TypeOK
    BY <1>1 DEF TableInv, KeptInv, LogInv, SessionInv
  <2>2. /\ Len(recs) \in synced..Len(log) /\ Len(log) \in Nat /\ synced \in Nat
        /\ DOMAIN recs = 1..Len(recs) /\ log \in Seq(Record)
        /\ \A k \in 1..Len(recs) : k \in 1..Len(log) /\ recs[k] = log[k]
    BY <2>1, SurvivorIs DEF TypeOK
  <2>3. PICK j \in 1..i : /\ log[j].ty = "create"
                          /\ \/ log[j].txid = log[i].txid
                             \/ status[log[j].txid] = "committed" /\ started[log[j].txid]
    BY <1>1, <2>2 DEF TableInv, TablesFirst
  <2>4. j \in 1..Len(recs) /\ j \in 1..Len(log)
    BY <2>2, <2>3
  <2>5. recs[j] = log[j] /\ recs[i] = log[i] /\ log[j] \in Record
    BY <2>2, <2>4, ElementOfSeq
  <2>6. log[j].txid \in TxId
    BY <2>3, <2>5, RecordKinds
  <2>7. recs[j].txid \in CommittedIn(recs)
    BY <1>1, <2>3, <2>5, <2>6, KeptOutcome DEF TableInv, OutcomeIsKept, Committed
  <2>8. QED BY <2>3, <2>5, <2>7
<1>2. Init => TableInv
  BY InitTable
<1>3. TableInv /\ [Next]_vars => TableInv'
  BY NextLog, CommitsAreKeptStays, AbortsKnownStays, CommitsDurableStays, MakerLoggedStays,
     TablesFirstStays DEF TableInv, KeptInv, LogInv
<1>4. QED BY <1>1, <1>2, <1>3, PTL DEF Spec
=============================================================================
