--------------------------- MODULE Kvalobs_proofs ---------------------------
(* Machine-checked theorems about Kvalobs, for every value of its constants. *)
EXTENDS Kvalobs, TLAPS

----------------------------------------------------------------------------
(* Type correctness.  TypeOK alone is not inductive: a worker that is past   *)
(* fetching has an observation in hand, so does a MissingRunner inside its   *)
(* transaction, and WorkQueueMover never deletes more rows of workstatistik  *)
(* than there are.                                                           *)

WorkerInv == \A w \in Worker : pc[w] \in {"check", "send", "mark"} => cur[w] # 0

MissingPcInv == mrPc = "begun" => mrCur # 0

MoverInv == \A i \in Id : mvDel[i] <= workstatistik[i]

TypeInv == TypeOK /\ WorkerInv /\ MissingPcInv /\ MoverInv

\* Init establishes the strengthened type invariant (initial state of all daemons).
LEMMA TypeInvInit == Init => TypeInv
<1> SUFFICES ASSUME Init PROVE TypeInv
  OBVIOUS
<1> USE KvStoreAssumption
<1>1. StoreTypeOK
  <2>1. NoRow \in Row /\ NoEntry \in Entry
    BY DEF NoRow, Row, NoEntry, Entry, Stamp
  <2> QED BY <2>1 DEF Init, StoreInit, StoreTypeOK, Id
<1>2. InputTypeOK
  BY DEF Init, InputInit, InputTypeOK
<1>3. QaTypeOK /\ WorkerInv
  <2>1. pc \in [Worker -> Pc] /\ cur \in [Worker -> 0..MaxId] /\ batch \in [Worker -> SUBSET Id]
    BY DEF Init, QaInit, Pc
  <2>2. stopping \in [Worker -> BOOLEAN] /\ inflight \subseteq Id /\ unsent \subseteq Id
    BY Zenon DEF Init, QaInit
  <2>3. WorkerInv
    BY DEF Init, QaInit, WorkerInv
  <2> QED BY <2>1, <2>2, <2>3 DEF QaTypeOK
<1>4. ManagerTypeOK /\ MissingPcInv
  <2>1. mrSaw \in BOOLEAN /\ mrRetry \in BOOLEAN /\ hourDone \in BOOLEAN
    BY Zenon DEF Init, ManagerInit
  <2>2. mvDel \in [Id -> Nat] /\ completing \in 0..MaxId /\ mrCur \in 0..MaxId
    BY DEF Init, ManagerInit
  <2> QED BY <2>1, <2>2 DEF Init, ManagerInit, ManagerTypeOK, MissingPcInv
<1>5. MoverInv
  BY DEF Init, ManagerInit, StoreInit, MoverInv, Id
<1> QED BY <1>1, <1>2, <1>3, <1>4, <1>5 DEF TypeInv, TypeOK

\* The records that are put in the tables have the tables' types (rows and entries).
LEMMA RecordTypes ==
  /\ NoRow \in Row
  /\ NoEntry \in Entry
  /\ \A b \in BOOLEAN, q \in QaIds : NewEntry(b, q) \in Entry
  BY KvStoreAssumption DEF NoRow, Row, NoEntry, Entry, NewEntry, Stamp

\* DataUpdateTransaction's common tail keeps the types.
LEMMA StoreType ==
  ASSUME TypeInv, NEW k \in Key, NEW m \in Message, NEW f \in Filters, NEW q \in QaIds,
         NEW data \in Row, Store(k, m, f, q, data)
  PROVE  StoreTypeOK' /\ InputTypeOK' /\ \A i \in Id : workstatistik'[i] >= workstatistik[i]
<1> USE KvStoreAssumption DEF TypeInv, TypeOK
<1> DEFINE old == row[k].id
<1>1. old \in 0..MaxId /\ nextId \in Id
  BY DEF StoreTypeOK, Row, Store, Id
<1>2. CascadeDelete(old) \in [Id -> Entry]
  BY <1>1, RecordTypes DEF StoreTypeOK, CascadeDelete, Id
<1>3. workque' \in [Id -> Entry]
  BY <1>1, <1>2, RecordTypes DEF StoreTypeOK, Store
<1>4. row' \in [Key -> Row] /\ nextId' \in 1..(MaxId + 1) /\ checked' = checked /\ faults' = faults
  BY DEF StoreTypeOK, Store
<1>5. workstatistik' \in [Id -> Nat] /\ \A i \in Id : workstatistik'[i] >= workstatistik[i]
  BY <1>1 DEF StoreTypeOK, Store, WorqueToWorkStatistik, Id
<1>6. InputTypeOK'
  BY <1>1 DEF Store, InputTypeOK
<1> QED BY <1>3, <1>4, <1>5, <1>6 DEF StoreTypeOK

\* A step of kvDataInputd keeps the strengthened type invariant.
LEMMA InputTypeStep == TypeInv /\ InputStep => TypeInv'
<1> SUFFICES ASSUME TypeInv, InputStep PROVE TypeInv'
  OBVIOUS
<1> USE KvStoreAssumption DEF TypeInv, TypeOK
<1>0. QaTypeOK' /\ ManagerTypeOK' /\ WorkerInv' /\ MissingPcInv'
  BY DEF InputStep, QaTypeOK, ManagerTypeOK, WorkerInv, MissingPcInv, qaVars, managerVars,
         mrVars, mvVars
<1>m. mvDel' = mvDel
  BY DEF InputStep, managerVars, mvVars
<1>1. ASSUME NEW k \in Key, NEW m \in Message, NEW f \in Filters, NEW q \in QaIds,
             NEW data \in Row, Store(k, m, f, q, data)
      PROVE  TypeInv'
  <2>1. StoreTypeOK' /\ InputTypeOK' /\ \A i \in Id : workstatistik'[i] >= workstatistik[i]
    BY <1>1, StoreType
  <2>2. MoverInv'
    BY <2>1, <1>m DEF MoverInv, StoreTypeOK, ManagerTypeOK
  <2> QED BY <1>0, <2>1, <2>2
<1>2. ASSUME NEW k \in Key, NEW m \in Message, NEW f \in Filters, NEW q \in QaIds,
             Insert(k, m, f, q) \/ Replace(k, m, f, q)
      PROVE  TypeInv'
  <2>1. PICK data \in Row : Store(k, m, f, q, data)
    <3>1. nextId \in 0..MaxId
      <4>1. nextId <= MaxId
        BY <1>2 DEF Insert, Replace, Store
      <4> QED BY <4>1 DEF StoreTypeOK
    <3>2. [id |-> nextId, num |-> m.num, txt |-> m.txt, raw |-> ~OnlyHqcData(m),
           filled |-> FALSE] \in Row
      BY <3>1 DEF Row, Message, OnlyHqcData
    <3> QED BY <1>2, <3>2 DEF Insert, Replace
  <2> QED BY <1>1, <2>1
<1>3. ASSUME NEW k \in Key, NEW m \in Message, NEW f \in Filters, NEW q \in QaIds,
             Update(k, m, f, q)
      PROVE  TypeInv'
  <2>1. PICK data \in Row : Store(k, m, f, q, data)
    <3>1. nextId \in 0..MaxId /\ row[k] \in Row
      BY <1>3 DEF StoreTypeOK, Update, Store
    <3>2. [id |-> nextId, num |-> m.num \/ row[k].num, txt |-> m.txt \/ row[k].txt,
           raw |-> ~OnlyHqcData(m) \/ row[k].raw, filled |-> row[k].filled] \in Row
      BY <3>1 DEF Row, Message, OnlyHqcData
    <3> QED BY <1>3, <3>2 DEF Update
  <2> QED BY <1>1, <2>1
<1>4. ASSUME NEW k \in Key, NEW m \in Message, NEW f \in Filters, Duplicate(k, m, f)
      PROVE  TypeInv'
  BY <1>4, <1>0, <1>m
  DEF Duplicate, storeVars, inputVars, StoreTypeOK, InputTypeOK, MoverInv
<1>5. ASSUME NEW i \in Id, PublishData(i) \/ PublishDropped(i)
      PROVE  TypeInv'
  BY <1>5, <1>0, <1>m
  DEF PublishData, PublishDropped, Fault, StoreTypeOK, InputTypeOK, MoverInv
<1> QED BY <1>2, <1>3, <1>4, <1>5 DEF InputStep, InputNext

\* A step of a kvQabased process keeps the strengthened type invariant.
LEMMA QaTypeStep == TypeInv /\ QaStep => TypeInv'
<1> SUFFICES ASSUME TypeInv, QaStep PROVE TypeInv'
  OBVIOUS
<1> USE KvStoreAssumption DEF TypeInv, TypeOK
<1>0. InputTypeOK' /\ ManagerTypeOK' /\ MissingPcInv' /\ mvDel' = mvDel
  BY DEF QaStep, InputTypeOK, ManagerTypeOK, MissingPcInv, inputVars, managerVars, mrVars, mvVars
<1>s. ASSUME workstatistik' = workstatistik, StoreTypeOK', QaTypeOK', WorkerInv'
      PROVE  TypeInv'
  BY <1>0, <1>s DEF MoverInv
<1>1. ASSUME NEW w \in Worker, SelectDataForControl(w) PROVE TypeInv'
  <2>1. PICK S \in Selections(w) : \E i \in S :
          /\ workque' = [j \in Id |-> IF j \in S
                                      THEN [workque[j] EXCEPT !.qa_start = "recent"]
                                      ELSE workque[j]]
          /\ cur' = [cur EXCEPT ![w] = i]
          /\ batch' = [batch EXCEPT ![w] = S \ {i}]
    BY <1>1 DEF SelectDataForControl
  <2>2. S \subseteq Id
    BY <2>1 DEF Selections, Limited, FailedData, LatestData, ReadyData
  <2>3. workque' \in [Id -> Entry]
    BY <2>1 DEF StoreTypeOK, Entry, Stamp
  <2>4. cur' \in [Worker -> 0..MaxId] /\ cur'[w] # 0 /\ batch' \in [Worker -> SUBSET Id]
    BY <2>1, <2>2 DEF QaTypeOK, Id
  <2>5. \A v \in Worker : v # w => cur'[v] = cur[v]
    BY <2>1 DEF QaTypeOK
  <2>6. pc' \in [Worker -> Pc] /\ \A v \in Worker : v # w => pc'[v] = pc[v]
    BY <1>1 DEF SelectDataForControl, QaTypeOK, Pc
  <2>7. StoreTypeOK' /\ QaTypeOK' /\ workstatistik' = workstatistik
    BY <1>1, <2>3, <2>4, <2>6 DEF SelectDataForControl, StoreTypeOK, QaTypeOK
  <2>8. WorkerInv'
    BY <2>4, <2>5, <2>6 DEF WorkerInv
  <2> QED BY <1>s, <2>7, <2>8
<1>2. ASSUME NEW w \in Worker, NextOfBatch(w) PROVE TypeInv'
  <2>1. StoreTypeOK' /\ workstatistik' = workstatistik
    BY <1>2 DEF NextOfBatch, storeVars, StoreTypeOK
  <2>2. QaTypeOK'
    BY <1>2 DEF NextOfBatch, QaTypeOK, Pc, Id
  <2>3. WorkerInv'
    BY <1>2 DEF NextOfBatch, QaTypeOK, WorkerInv, Pc, Id
  <2> QED BY <1>s, <2>1, <2>2, <2>3
<1>3. ASSUME NEW w \in Worker, RunChecks(w) PROVE TypeInv'
  <2>1. row' \in [Key -> Row]
    BY <1>3 DEF RunChecks, StoreTypeOK, Row
  <2>2. StoreTypeOK' /\ workstatistik' = workstatistik
    BY <1>3, <2>1 DEF RunChecks, StoreTypeOK
  <2>3. pc' \in [Worker -> Pc] /\ \A v \in Worker : v # w => pc'[v] = pc[v]
    BY <1>3 DEF RunChecks, QaTypeOK, Pc
  <2>4. QaTypeOK' /\ WorkerInv'
    BY <1>3, <2>3 DEF RunChecks, QaTypeOK, WorkerInv
  <2> QED BY <1>s, <2>2, <2>4
<1>4. ASSUME NEW w \in Worker, SendConfirmed(w) \/ SendUnconfirmed(w) PROVE TypeInv'
  <2>1. cur[w] \in Id
    BY <1>4 DEF SendConfirmed, SendUnconfirmed, QaTypeOK, WorkerInv, Id
  <2>2. StoreTypeOK' /\ workstatistik' = workstatistik
    <3>1. CASE SendConfirmed(w)
      BY <3>1, <2>1 DEF SendConfirmed, StoreTypeOK
    <3>2. CASE SendUnconfirmed(w)
      BY <3>2 DEF SendUnconfirmed, StoreTypeOK, storeVars
    <3> QED BY <1>4, <3>1, <3>2
  <2>3. pc' \in [Worker -> Pc] /\ \A v \in Worker : v # w => pc'[v] = pc[v]
    BY <1>4 DEF SendConfirmed, SendUnconfirmed, QaTypeOK, Pc
  <2>4. cur' = cur /\ batch' = batch /\ stopping' = stopping
    BY <1>4 DEF SendConfirmed, SendUnconfirmed
  <2>5. inflight' \subseteq Id /\ unsent' \subseteq Id
    BY <1>4, <2>1 DEF SendConfirmed, SendUnconfirmed, QaTypeOK
  <2> QED BY <1>s, <2>1, <2>2, <2>3, <2>4, <2>5 DEF QaTypeOK, WorkerInv, Id
<1>5. ASSUME NEW w \in Worker, ProcessingFails(w) \/ Crash(w) PROVE TypeInv'
  <2>1. StoreTypeOK' /\ workstatistik' = workstatistik
    BY <1>5 DEF ProcessingFails, Crash, Fault, StoreTypeOK
  <2>2. QaTypeOK'
    <3>1. CASE ProcessingFails(w)
      BY <3>1 DEF ProcessingFails, QaTypeOK, Pc
    <3>2. CASE Crash(w)
      BY <3>2 DEF Crash, QaTypeOK, Pc
    <3> QED BY <1>5, <3>1, <3>2
  <2>3. WorkerInv'
    BY <1>5 DEF ProcessingFails, Crash, QaTypeOK, WorkerInv
  <2> QED BY <1>s, <2>1, <2>2, <2>3
<1>6. ASSUME NEW w \in Worker, MarkProcessDone(w) PROVE TypeInv'
  <2>1. cur[w] \in Id
    BY <1>6 DEF MarkProcessDone, QaTypeOK, WorkerInv, Id
  <2>2. workque' \in [Id -> Entry]
    BY <1>6, <2>1 DEF MarkProcessDone, StoreTypeOK, Entry, Stamp
  <2>3. StoreTypeOK' /\ workstatistik' = workstatistik
    BY <1>6, <2>2 DEF MarkProcessDone, StoreTypeOK
  <2>4. QaTypeOK'
    BY <1>6 DEF MarkProcessDone, QaTypeOK, Pc
  <2>5. WorkerInv'
    BY <1>6 DEF MarkProcessDone, QaTypeOK, WorkerInv
  <2> QED BY <1>s, <2>3, <2>4, <2>5
<1>7. ASSUME NEW w \in Worker, Stop(w) PROVE TypeInv'
  <2>1. StoreTypeOK' /\ workstatistik' = workstatistik
    BY <1>7 DEF Stop, Fault, StoreTypeOK
  <2>2. QaTypeOK' /\ WorkerInv'
    BY <1>7 DEF Stop, QaTypeOK, WorkerInv
  <2> QED BY <1>s, <2>1, <2>2
<1>8. ASSUME NEW w \in Worker, Exit(w) \/ Restart(w) PROVE TypeInv'
  <2>1. StoreTypeOK' /\ workstatistik' = workstatistik
    BY <1>8 DEF Exit, Restart, storeVars, StoreTypeOK
  <2>2. QaTypeOK'
    <3>1. CASE Exit(w)
      BY <3>1 DEF Exit, QaTypeOK, Pc
    <3>2. CASE Restart(w)
      BY <3>2 DEF Restart, QaTypeOK, Pc
    <3> QED BY <1>8, <3>1, <3>2
  <2>3. WorkerInv'
    BY <1>8 DEF Exit, Restart, QaTypeOK, WorkerInv
  <2> QED BY <1>s, <2>1, <2>2, <2>3
<1>9. ASSUME NEW i \in Id, Deliver(i) PROVE TypeInv'
  <2>1. StoreTypeOK' /\ workstatistik' = workstatistik
    BY <1>9 DEF Deliver, StoreTypeOK
  <2>2. QaTypeOK' /\ WorkerInv'
    BY <1>9 DEF Deliver, QaTypeOK, WorkerInv
  <2> QED BY <1>s, <2>1, <2>2
<1>10. ASSUME NEW i \in Id, ClaimAges(i) PROVE TypeInv'
  <2>1. workque' \in [Id -> Entry]
    BY <1>10 DEF ClaimAges, StoreTypeOK, Entry, Stamp
  <2>2. StoreTypeOK' /\ workstatistik' = workstatistik
    BY <1>10, <2>1 DEF ClaimAges, StoreTypeOK
  <2>3. QaTypeOK' /\ WorkerInv'
    BY <1>10 DEF ClaimAges, qaVars, QaTypeOK, WorkerInv
  <2> QED BY <1>s, <2>2, <2>3
<1> QED
  BY <1>1, <1>2, <1>3, <1>4, <1>5, <1>6, <1>7, <1>8, <1>9, <1>10
  DEF QaStep, QaNext, WorkerStep

\* What addMissingData writes has the tables' types.
LEMMA AddMissingDataType ==
  ASSUME StoreTypeOK, NEW i \in Id, AddMissingData(i)
  PROVE  row' \in [Key -> Row] /\ workque' \in [Id -> Entry]
<1>1. row' \in [Key -> Row]
  BY DEF AddMissingData, WithMissingData, StoreTypeOK, Row
<1>2. NewEntry(TRUE, IF workque[i].on THEN workque[i].qa_id ELSE -1) \in Entry
  BY RecordTypes, KvStoreAssumption DEF StoreTypeOK, Entry
<1>3. workque' \in [Id -> Entry]
  BY <1>2 DEF AddMissingData, StoreTypeOK
<1> QED BY <1>1, <1>3

\* A step of a kvManagerd thread keeps the strengthened type invariant.
LEMMA ManagerTypeStep == TypeInv /\ ManagerStep => TypeInv'
<1> SUFFICES ASSUME TypeInv, ManagerStep PROVE TypeInv'
  OBVIOUS
<1> USE KvStoreAssumption DEF TypeInv, TypeOK
<1>0. InputTypeOK' /\ QaTypeOK' /\ WorkerInv'
  BY DEF ManagerStep, InputTypeOK, QaTypeOK, WorkerInv, inputVars, qaVars
<1>s. ASSUME StoreTypeOK', ManagerTypeOK', MissingPcInv', mvDel' = mvDel,
             workstatistik' = workstatistik
      PROVE  TypeInv'
  BY <1>0, <1>s DEF MoverInv
<1>1. ASSUME NEW i \in Id, CompleteSelect(i) PROVE TypeInv'
  <2>1. StoreTypeOK' /\ workstatistik' = workstatistik
    BY <1>1 DEF CompleteSelect, storeVars, StoreTypeOK
  <2>2. ManagerTypeOK' /\ MissingPcInv' /\ mvDel' = mvDel
    BY <1>1 DEF CompleteSelect, mrVars, mvVars, ManagerTypeOK, MissingPcInv, Id
  <2> QED BY <1>s, <2>1, <2>2
<1>2. ASSUME CompleteApply PROVE TypeInv'
  <2>1. completing \in Id
    BY <1>2 DEF CompleteApply, ManagerTypeOK, Id
  <2>2. row' \in [Key -> Row] /\ workque' \in [Id -> Entry]
    BY <1>2, <2>1, AddMissingDataType DEF CompleteApply, StoreTypeOK
  <2>3. StoreTypeOK' /\ workstatistik' = workstatistik
    BY <1>2, <2>2 DEF CompleteApply, StoreTypeOK
  <2>4. ManagerTypeOK' /\ MissingPcInv' /\ mvDel' = mvDel
    BY <1>2 DEF CompleteApply, mrVars, mvVars, ManagerTypeOK, MissingPcInv
  <2> QED BY <1>s, <2>3, <2>4
<1>3. ASSUME FindAllMissing PROVE TypeInv'
  BY <1>3, <1>s DEF FindAllMissing, storeVars, mvVars, StoreTypeOK, ManagerTypeOK, MissingPcInv
<1>4. ASSUME NEW k \in Key, CreateObservation(k) PROVE TypeInv'
  <2>1. nextId \in Id /\ nextId' \in 1..(MaxId + 1)
    BY <1>4 DEF CreateObservation, StoreTypeOK, Id
  <2>2. [NoRow EXCEPT !.id = nextId] \in Row
    BY <2>1, RecordTypes DEF Row, Id
  <2>3. StoreTypeOK' /\ workstatistik' = workstatistik
    BY <1>4, <2>1, <2>2 DEF CreateObservation, StoreTypeOK
  <2>4. ManagerTypeOK' /\ MissingPcInv' /\ mvDel' = mvDel
    BY <1>4, <2>1 DEF CreateObservation, mvVars, ManagerTypeOK, MissingPcInv
  <2> QED BY <1>s, <2>3, <2>4
<1>5. ASSUME NEW k \in Key, CreateObservationFails(k) PROVE TypeInv'
  BY <1>5, <1>s DEF CreateObservationFails, storeVars, mvVars, StoreTypeOK, ManagerTypeOK,
                    MissingPcInv
<1>6. ASSUME AllCreated \/ SetLastFindAllMissingRuntime PROVE TypeInv'
  BY <1>6, <1>s DEF AllCreated, SetLastFindAllMissingRuntime, storeVars, mvVars, StoreTypeOK,
                    ManagerTypeOK, MissingPcInv
<1>7. ASSUME NEW i \in Id, MissingBegin(i) PROVE TypeInv'
  <2>1. StoreTypeOK' /\ workstatistik' = workstatistik /\ mvDel' = mvDel
    BY <1>7 DEF MissingBegin, storeVars, mvVars, StoreTypeOK
  <2>2. mrSaw' \in BOOLEAN
    BY <1>7 DEF MissingBegin, Current
  <2>3. ManagerTypeOK' /\ MissingPcInv'
    BY <1>7, <2>2 DEF MissingBegin, mvVars, ManagerTypeOK, MissingPcInv, Id
  <2> QED BY <1>s, <2>1, <2>3
<1>8. ASSUME MissingCommit PROVE TypeInv'
  <2>1. mrCur \in Id
    BY <1>8 DEF MissingCommit, ManagerTypeOK, MissingPcInv, Id
  <2>2. row' \in [Key -> Row] /\ workque' \in [Id -> Entry]
    BY <1>8, <2>1, AddMissingDataType DEF MissingCommit
  <2>3. StoreTypeOK' /\ workstatistik' = workstatistik
    BY <1>8, <2>2 DEF MissingCommit, StoreTypeOK
  <2>4. ManagerTypeOK' /\ MissingPcInv' /\ mvDel' = mvDel
    <3>1. mrRetry' \in BOOLEAN
      BY <1>8, Zenon DEF MissingCommit
    <3> QED BY <1>8, <3>1 DEF MissingCommit, mvVars, ManagerTypeOK, MissingPcInv
  <2> QED BY <1>s, <2>3, <2>4
<1>9. ASSUME MissingSerializeError PROVE TypeInv'
  <2>1. faults' \in 0..MaxFaults
    BY <1>9 DEF MissingSerializeError, Fault, StoreTypeOK
  <2>2. StoreTypeOK' /\ workstatistik' = workstatistik
    BY <1>9, <2>1 DEF MissingSerializeError, StoreTypeOK
  <2>3. ManagerTypeOK' /\ MissingPcInv' /\ mvDel' = mvDel
    BY <1>9 DEF MissingSerializeError, mvVars, ManagerTypeOK, MissingPcInv
  <2> QED BY <1>s, <2>2, <2>3
<1>10. ASSUME MissingForeignKeyError PROVE TypeInv'
  BY <1>10, <1>s DEF MissingForeignKeyError, storeVars, mvVars, StoreTypeOK, ManagerTypeOK,
                     MissingPcInv
<1>11. ASSUME CleanDelete PROVE TypeInv'
  <2>1. StoreTypeOK' /\ MissingPcInv'
    BY <1>11 DEF CleanDelete, storeVars, mrVars, StoreTypeOK, MissingPcInv
  <2>2. mvOld' \subseteq Id /\ mvDel' \in [Id -> Nat]
    BY <1>11 DEF CleanDelete, StoreTypeOK
  <2>3. ManagerTypeOK'
    BY <1>11, <2>2 DEF CleanDelete, mrVars, ManagerTypeOK
  <2>4. MoverInv'
    BY <1>11 DEF CleanDelete, storeVars, StoreTypeOK, MoverInv
  <2> QED BY <1>0, <2>1, <2>3, <2>4
<1>12. ASSUME CleanInsert PROVE TypeInv'
  BY <1>12, <1>s DEF CleanInsert, TooOld, storeVars, mrVars, StoreTypeOK, ManagerTypeOK,
                     MissingPcInv
<1>13. ASSUME CleanCommit PROVE TypeInv'
  <2>1. workque' \in [Id -> Entry]
    BY <1>13, RecordTypes DEF CleanCommit, StoreTypeOK
  <2>2. workstatistik' \in [Id -> Nat]
    BY <1>13 DEF CleanCommit, StoreTypeOK, ManagerTypeOK, MoverInv
  <2>3. StoreTypeOK'
    BY <1>13, <2>1, <2>2 DEF CleanCommit, StoreTypeOK
  <2>4. ManagerTypeOK' /\ MissingPcInv'
    BY <1>13 DEF CleanCommit, mrVars, ManagerTypeOK, MissingPcInv
  <2>5. MoverInv'
    BY <1>13, <2>2 DEF CleanCommit, MoverInv
  <2> QED BY <1>0, <2>3, <2>4, <2>5
<1>14. ASSUME ManagerRestart PROVE TypeInv'
  <2>1. StoreTypeOK'
    BY <1>14 DEF ManagerRestart, Fault, StoreTypeOK
  <2>2. mrSaw' \in BOOLEAN /\ mrRetry' \in BOOLEAN
    BY <1>14, Zenon DEF ManagerRestart
  <2>3. mvDel' \in [Id -> Nat] /\ MoverInv'
    BY <1>14, <2>1 DEF ManagerRestart, StoreTypeOK, MoverInv
  <2>4. ManagerTypeOK' /\ MissingPcInv'
    BY <1>14, <2>2, <2>3 DEF ManagerRestart, ManagerTypeOK, MissingPcInv
  <2> QED BY <1>0, <2>1, <2>3, <2>4
<1> QED
  BY <1>1, <1>2, <1>3, <1>4, <1>5, <1>6, <1>7, <1>8, <1>9, <1>10, <1>11, <1>12, <1>13, <1>14
  DEF ManagerStep, ManagerNext

\* Every step of the system keeps the strengthened type invariant.
LEMMA TypeInvStep == TypeInv /\ [Next]_vars => TypeInv'
<1> SUFFICES ASSUME TypeInv, [Next]_vars PROVE TypeInv'
  OBVIOUS
<1>1. CASE TimeStep
  <2>1. PICK i \in Id : QaStopAges(i)
    BY <1>1 DEF TimeStep
  <2>2. workque' \in [Id -> Entry]
    BY <2>1 DEF QaStopAges, TypeInv, TypeOK, StoreTypeOK, Entry, Stamp
  <2>3. StoreTypeOK' /\ workstatistik' = workstatistik
    BY <2>1, <2>2 DEF QaStopAges, TypeInv, TypeOK, StoreTypeOK
  <2> QED BY <1>1, <2>3 DEF TimeStep, TypeInv, TypeOK, inputVars, qaVars, managerVars, mrVars,
        mvVars, InputTypeOK, QaTypeOK, ManagerTypeOK, WorkerInv, MissingPcInv, MoverInv
<1>2. CASE UNCHANGED vars
  BY <1>2 DEF vars, storeVars, inputVars, qaVars, managerVars, mrVars, mvVars, TypeInv, TypeOK,
     StoreTypeOK, InputTypeOK, QaTypeOK, ManagerTypeOK, WorkerInv, MissingPcInv, MoverInv
<1> QED BY <1>1, <1>2, InputTypeStep, QaTypeStep, ManagerTypeStep DEF Next

\* Type correctness of the tables, the workers and the threads of kvManagerd in every
\* reachable state, for any number of stations, workers and observations.
THEOREM TypeCorrect == Spec => []TypeOK
<1>1. Spec => []TypeInv
  BY TypeInvInit, TypeInvStep, PTL DEF Spec
<1> QED BY <1>1, PTL DEF TypeInv
=============================================================================
