----------------------- MODULE KvalobsArchive_proofs -----------------------
(* Machine-checked proofs of what becomes of an observation after kvQabased: *)
(* WorkQueueMover moves its workque entry to workstatistik in a transaction  *)
(* of three statements, between which stores and workers go on.              *)
EXTENDS KvalobsSafety_proofs

----------------------------------------------------------------------------
(* The inductive invariants, on top of IInv. *)

\* The open transaction of WorkQueueMover: an entry that was too old when it began is
\* still queued, unless its observation has been replaced; only rows of such entries are
\* deleted from workstatistik; and what the last statement will delete has been copied.
MoverTxInv ==
    /\ \A i \in mvOld : i < nextId
    /\ \A i \in mvOld : Current(i) => workque[i].on
    /\ \A i \in Id : mvDel[i] > 0 => i \in mvOld
    /\ mvPc # "inserted" => mvIns = {}
    /\ mvPc = "inserted" => TooOld \subseteq mvIns

\* qa_stop is set after qa_start, and nobody holds a processed entry unless workers may
\* be slow.
HeldInv ==
    /\ \A i \in Id : Processed(i) => workque[i].qa_start # "null"
    /\ SlowWorkers \/ \A w \in Worker : \A i \in Held(w) : ~Processed(i)

\* What is queued, still to be queued by MissingRunner or still to be created has no row
\* in workstatistik; WorkQueueMover copies none of it but what it then deletes, and its
\* first statement finds nothing to delete.
ArchiveInv ==
    \/ SlowWorkers
    \/ /\ \A i \in Id : workque[i].on \/ i >= nextId \/ i \in Handling
                           => workstatistik[i] = 0 /\ (i \in mvIns => i \in TooOld)
       /\ \A i \in Id : mvDel[i] = 0

\* What a worker works on is not in its batch any more.
BatchInv == \A w \in Worker : cur[w] \notin batch[w]

MoverSafe == IInv /\ MoverTxInv /\ BatchInv /\ HeldInv /\ ArchiveInv

\* The places NothingForgotten names; data belongs to an observation that exists.
Kept(i) ==
    \/ workque[i].on
    \/ workstatistik[i] > 0
    \/ i \in toPublish \cup checked \cup dropped

\* The same after a step, for an observationid of now.
KeptAfter(i) ==
    \/ workque'[i].on
    \/ workstatistik'[i] > 0
    \/ i \in toPublish' \cup checked' \cup dropped'

KeptInv == \A k \in Key : row[k].num \/ row[k].txt => row[k].id # 0 /\ Kept(row[k].id)

\* What one step may do to the archive.
ArchiveKept ==
    \A i \in Id :
        (\/ Processed(i) /\ ~workque'[i].on
         \/ ~SlowWorkers /\ workstatistik[i] > 0 /\ ~workque[i].on)
            => workstatistik'[i] > 0

\* At the start nothing is queued or archived, and no transaction is open.
LEMMA MoverSafeInit == Init => MoverSafe
<1> SUFFICES ASSUME Init PROVE MoverSafe
  OBVIOUS
<1>1. IInv
  BY IInvInit
<1>2. /\ \A i \in Id : ~workque[i].on /\ workstatistik[i] = 0 /\ mvDel[i] = 0
      /\ mvOld = {} /\ mvIns = {} /\ mvPc = "idle"
  BY DEF Init, StoreInit, ManagerInit, NoEntry
<1>3. \A w \in Worker : Held(w) = {}
  BY DEF Init, QaInit, Held
<1>4. MoverTxInv
  BY <1>2 DEF MoverTxInv
<1>5. HeldInv
  BY <1>2, <1>3 DEF HeldInv, Processed
<1>6. ArchiveInv
  BY <1>2 DEF ArchiveInv
<1>7. BatchInv
  BY DEF Init, QaInit, BatchInv
<1> QED BY <1>1, <1>4, <1>5, <1>6, <1>7 DEF MoverSafe

----------------------------------------------------------------------------
(* Steps that neither queue nor archive anything. *)

\* No entry and no archived row comes or goes, no entry becomes too old under the open
\* transaction, and nothing that was published is taken back.
Calm ==
    /\ nextId' = nextId /\ workstatistik' = workstatistik /\ UNCHANGED mvVars
    /\ \A k \in Key : /\ row'[k].id = row[k].id
                      /\ row'[k].num <=> row[k].num
                      /\ row'[k].txt <=> row[k].txt
    /\ \A i \in Id : workque'[i].on <=> workque[i].on
    /\ \A i \in mvOld : workque'[i].qa_stop = "old" => workque[i].qa_stop = "old"
    /\ toPublish \cup checked \cup dropped \subseteq toPublish' \cup checked' \cup dropped'
    /\ Handling' \subseteq Handling

\* qa_stop of an entry that is too old does not change.
OldStays == \A i \in Id : workque[i].qa_stop = "old" => workque'[i].qa_stop = "old"

\* A calm step keeps the transaction of WorkQueueMover as it is.
LEMMA CalmKeepsMover ==
  ASSUME TypeInv, MoverTxInv, Calm
  PROVE  MoverTxInv'
<1>1. mvOld \subseteq Id
  BY DEF TypeInv, TypeOK, ManagerTypeOK
<1>2. \A i : Current(i)' <=> Current(i)
  BY DEF Calm, Current
<1>3. TooOld' \subseteq TooOld
  BY <1>1 DEF Calm, TooOld, mvVars
<1> QED BY <1>1, <1>2, <1>3 DEF MoverTxInv, Calm, mvVars

\* A calm step that leaves old entries old keeps the archive in step with the queue.
LEMMA CalmKeepsArchive ==
  ASSUME TypeInv, ArchiveInv, Calm, OldStays
  PROVE  ArchiveInv'
<1>1. mvOld \subseteq Id
  BY DEF TypeInv, TypeOK, ManagerTypeOK
<1>2. TooOld \subseteq TooOld'
  BY <1>1 DEF Calm, OldStays, TooOld, mvVars
<1> QED BY <1>2 DEF ArchiveInv, Calm, mvVars

\* A calm step forgets nothing and leaves the archive alone.
LEMMA CalmForgetsNothing ==
  ASSUME TypeInv, Calm
  PROVE  KeptInv => KeptInv'
<1>1. \A k \in Key : row[k].id \in 0..MaxId
  BY TypeFacts
<1>2. \A i \in Id : Kept(i) => Kept(i)'
  BY DEF Kept, Calm
<1> QED BY <1>1, <1>2 DEF KeptInv, Calm, Id

\* A calm step touches nothing that is archived.
LEMMA CalmKeepsRows ==
  ASSUME Calm
  PROVE  ArchiveKept
  BY DEF Calm, ArchiveKept, Processed

\* Tables that do not change are calm, if what is published grows.
LEMMA UnchangedIsCalm ==
  ASSUME UNCHANGED <<nextId, row, workque, workstatistik, mvVars>>, Handling' \subseteq Handling,
         toPublish \cup checked \cup dropped \subseteq toPublish' \cup checked' \cup dropped'
  PROVE  Calm /\ OldStays
  BY DEF Calm, OldStays

\* Duplicates and publishing in kvDataInputd are calm.
LEMMA InputCalm ==
  ASSUME UNCHANGED <<qaVars, managerVars>>,
         \/ \E k \in Key, m \in Message, f \in Filters : Duplicate(k, m, f)
         \/ \E i \in Id : PublishData(i) \/ PublishDropped(i)
  PROVE  Calm /\ OldStays
<1>1. UNCHANGED <<nextId, row, workque, workstatistik, mvVars>> /\ Handling' \subseteq Handling
  BY DEF Duplicate, PublishData, PublishDropped, storeVars, managerVars, mrVars, Handling
<1>2. toPublish \cup checked \cup dropped \subseteq toPublish' \cup checked' \cup dropped'
  BY DEF Duplicate, PublishData, PublishDropped, storeVars, inputVars
<1> QED BY <1>1, <1>2, UnchangedIsCalm

\* Everything kvQabased does is calm, and only marking touches qa_stop.
LEMMA QaCalm ==
  ASSUME TypeInv, QaStep
  PROVE  Calm /\ (OldStays \/ \E w \in Worker : MarkProcessDone(w))
<1>m. UNCHANGED <<inputVars, mvVars>> /\ Handling' \subseteq Handling
  BY DEF QaStep, managerVars, mrVars, Handling
<1>t. /\ workque \in [Id -> Entry] /\ row \in [Key -> Row] /\ mvOld \subseteq Id
      /\ \A w \in Worker : cur[w] \in 0..MaxId
  BY TypeFacts DEF TypeInv, TypeOK, StoreTypeOK, ManagerTypeOK
<1>1. ASSUME NEW w \in Worker,
             \/ NextOfBatch(w) \/ SendConfirmed(w) \/ SendUnconfirmed(w) \/ ProcessingFails(w)
             \/ Stop(w) \/ Exit(w) \/ Crash(w) \/ Restart(w)
      PROVE  Calm /\ OldStays
  <2>1. UNCHANGED <<nextId, row, workque, workstatistik>> /\ checked \subseteq checked'
    BY <1>1 DEF NextOfBatch, SendConfirmed, SendUnconfirmed, ProcessingFails, Stop, Exit, Crash,
                Restart, storeVars
  <2> QED BY <1>m, <2>1, UnchangedIsCalm DEF inputVars
<1>2. ASSUME NEW i \in Id, Deliver(i)
      PROVE  Calm /\ OldStays
  <2>1. UNCHANGED <<nextId, row, workque, workstatistik>> /\ checked \subseteq checked'
    BY <1>2 DEF Deliver
  <2> QED BY <1>m, <2>1, UnchangedIsCalm DEF inputVars
<1>3. ASSUME NEW w \in Worker, SelectDataForControl(w)
      PROVE  Calm /\ OldStays
  <2>1. \A i \in Id : /\ workque'[i].on <=> workque[i].on
                      /\ workque'[i].qa_stop = workque[i].qa_stop
    BY <1>3, <1>t DEF SelectDataForControl, Entry
  <2>2. UNCHANGED <<nextId, row, workstatistik, checked>>
    BY <1>3 DEF SelectDataForControl
  <2> QED BY <1>m, <1>t, <2>1, <2>2 DEF Calm, OldStays, inputVars
<1>4. ASSUME NEW w \in Worker, RunChecks(w)
      PROVE  Calm /\ OldStays
  <2>1. \A k \in Key : /\ row'[k].id = row[k].id
                       /\ row'[k].num <=> row[k].num
                       /\ row'[k].txt <=> row[k].txt
    BY <1>4, <1>t DEF RunChecks, Row
  <2>2. UNCHANGED <<nextId, workque, workstatistik, checked>>
    BY <1>4 DEF RunChecks
  <2> QED BY <1>m, <2>1, <2>2 DEF Calm, OldStays, inputVars
<1>5. ASSUME NEW w \in Worker, MarkProcessDone(w)
      PROVE  Calm
  <2>1. cur[w] \in Id
    BY <1>5, <1>t DEF MarkProcessDone, TypeInv, WorkerInv, Id
  <2>2. \A i \in Id : /\ workque'[i].on <=> workque[i].on
                      /\ workque'[i].qa_stop \in {workque[i].qa_stop, "recent"}
    BY <1>5, <1>t, <2>1 DEF MarkProcessDone, Entry
  <2>3. UNCHANGED <<nextId, row, workstatistik, checked>>
    BY <1>5 DEF MarkProcessDone
  <2> QED BY <1>m, <1>t, <2>2, <2>3 DEF Calm, inputVars
<1>6. ASSUME NEW i \in Id, ClaimAges(i)
      PROVE  Calm /\ OldStays
  <2>1. \A j \in Id : /\ workque'[j].on <=> workque[j].on
                      /\ workque'[j].qa_stop = workque[j].qa_stop
    BY <1>6, <1>t DEF ClaimAges, Entry
  <2>2. UNCHANGED <<nextId, row, workstatistik, checked>>
    BY <1>6 DEF ClaimAges
  <2> QED BY <1>m, <1>t, <2>1, <2>2 DEF Calm, OldStays, inputVars
<1> QED BY <1>1, <1>2, <1>3, <1>4, <1>5, <1>6 DEF QaStep, QaNext, WorkerStep

\* ObservationComplete selects and gives up calmly, and so does MissingRunner but for
\* creating and queueing.
LEMMA ManagerCalm ==
  ASSUME IInv, UNCHANGED <<inputVars, qaVars>>,
         \/ FindAllMissing \/ AllCreated \/ SetLastFindAllMissingRuntime
         \/ \E k \in Key : CreateObservationFails(k)
         \/ \E i \in Id : MissingBegin(i) \/ CompleteSelect(i)
         \/ MissingSerializeError \/ MissingForeignKeyError
         \/ CompleteApply /\ ~Current(completing)
  PROVE  Calm /\ OldStays
<1>1. UNCHANGED <<nextId, row, workque, workstatistik, checked, mvVars>>
  BY DEF FindAllMissing, AllCreated, SetLastFindAllMissingRuntime, CreateObservationFails,
         MissingBegin, CompleteSelect, MissingSerializeError, MissingForeignKeyError,
         CompleteApply, storeVars
<1>2. Handling' \subseteq Handling
  <2>1. CASE \/ FindAllMissing \/ AllCreated \/ SetLastFindAllMissingRuntime
             \/ \E k \in Key : CreateObservationFails(k)
             \/ \E i \in Id : MissingBegin(i)
             \/ MissingSerializeError \/ MissingForeignKeyError
    BY <2>1, ManagerQuiet DEF Quiet, QuietThreads
  <2>2. CASE (\E i \in Id : CompleteSelect(i)) \/ CompleteApply
    BY <2>2 DEF CompleteSelect, CompleteApply, mrVars, Handling
  <2> QED BY <2>1, <2>2
<1> QED BY <1>1, <1>2, UnchangedIsCalm DEF inputVars

\* Time passes calmly: no entry ages under an open transaction of WorkQueueMover.
LEMMA TimeCalm ==
  ASSUME TypeInv, TimeStep
  PROVE  Calm /\ OldStays
<1>1. PICK i \in Id \ mvOld : QaStopAges(i)
  BY DEF TimeStep
<1>2. workque \in [Id -> Entry] /\ mvOld \subseteq Id
  BY DEF TypeInv, TypeOK, StoreTypeOK, ManagerTypeOK
<1>3. \A j \in Id : /\ workque'[j].on <=> workque[j].on
                    /\ j # i => workque'[j].qa_stop = workque[j].qa_stop
  BY <1>1, <1>2 DEF QaStopAges, Entry
<1>4. workque[i].qa_stop # "old"
  BY <1>1 DEF QaStopAges
<1>5. UNCHANGED <<nextId, row, workstatistik, checked, toPublish, dropped, mvVars>>
      /\ Handling' \subseteq Handling
  BY <1>1 DEF TimeStep, QaStopAges, inputVars, managerVars, mrVars, Handling
<1> QED BY <1>1, <1>2, <1>3, <1>4, <1>5 DEF Calm, OldStays

----------------------------------------------------------------------------
(* Steps that create, queue or replace an observation. *)

\* What a store does to the tables: the old entry goes, with a copy if it was processed,
\* and the new observationid was unknown to WorkQueueMover.
StoreEffect(k, q, data) ==
    LET old == row[k].id
    IN  /\ nextId \in Id /\ nextId' = nextId + 1 /\ old \in 0..MaxId /\ old < nextId
        /\ row'[k] = data /\ \A l \in Key : l # k => row'[l] = row[l]
        /\ \A l \in Key : l # k /\ row[l].id # 0 => row[l].id # old /\ row[l].id < nextId
        /\ ~workque[nextId].on
        /\ workque'[nextId].on => workque'[nextId] = NewEntry(FALSE, q)
        /\ \A i \in Id : i # nextId /\ i # old => workque'[i] = workque[i]
        /\ old # 0 => ~workque'[old].on
        /\ \A i \in Id : i # old => workstatistik'[i] = workstatistik[i]
        /\ old # 0 => /\ workstatistik'[old] >= workstatistik[old]
                      /\ Processed(old) => workstatistik'[old] > 0
                      /\ ~Processed(old) => workstatistik'[old] = workstatistik[old]

\* That is what Store says, given what is known of observationids.
LEMMA StoreFacts ==
  ASSUME IInv, NEW k \in Key, NEW m \in Message, NEW f \in Filters, NEW q \in QaIds,
         NEW data \in Row, data.id = nextId, Store(k, m, f, q, data)
  PROVE  StoreEffect(k, q, data)
<1> USE KvStoreAssumption DEF IInv
<1> DEFINE old == row[k].id
<1>1. nextId \in Id /\ nextId' = nextId + 1 /\ \A l \in Key : row[l].id \in 0..MaxId
  BY TypeFacts DEF Store, Id
<1>2. old \in 0..MaxId /\ old < nextId
  BY <1>1 DEF FreshInv
<1>3. row'[k] = data /\ \A l \in Key : l # k => row'[l] = row[l]
  BY DEF Store, TypeInv, TypeOK, StoreTypeOK
<1>4. \A l \in Key : l # k /\ row[l].id # 0 => row[l].id # old /\ row[l].id < nextId
  BY <1>1 DEF FreshInv
<1>5. ~workque[nextId].on
  BY <1>1 DEF ForeignKeyInv, Current, FreshInv, Id
<1>6. /\ CascadeDelete(old) \in [Id -> Entry]
      /\ \A i \in Id : i # old => CascadeDelete(old)[i] = workque[i]
      /\ old # 0 => ~CascadeDelete(old)[old].on
  BY <1>2, RecordTypes DEF CascadeDelete, NoEntry, TypeInv, TypeOK, StoreTypeOK, Id
<1>7. workque' = CascadeDelete(old)
      \/ workque' = [CascadeDelete(old) EXCEPT ![nextId] = NewEntry(FALSE, q)]
  BY DEF Store
<1>8. /\ workque'[nextId].on => workque'[nextId] = NewEntry(FALSE, q)
      /\ \A i \in Id : i # nextId /\ i # old => workque'[i] = workque[i]
      /\ old # 0 => ~workque'[old].on
  <2>1. CASE workque' = CascadeDelete(old)
    <3>1. nextId # old
      BY <1>1, <1>2 DEF Id
    <3>2. CascadeDelete(old)[nextId] = workque[nextId]
      BY <1>1, <1>6, <3>1
    <3>3. ~workque'[nextId].on
      BY <1>5, <2>1, <3>2
    <3> QED BY <1>6, <2>1, <3>3
  <2>2. CASE workque' = [CascadeDelete(old) EXCEPT ![nextId] = NewEntry(FALSE, q)]
    <3>1. workque'[nextId] = NewEntry(FALSE, q)
      BY <1>1, <1>6, <2>2
    <3>2. \A i \in Id : i # nextId => workque'[i] = CascadeDelete(old)[i]
      BY <1>6, <2>2
    <3>3. old # 0 => old \in Id /\ old # nextId
      BY <1>1, <1>2 DEF Id
    <3> QED BY <1>6, <3>1, <3>2, <3>3
  <2> QED BY <1>7, <2>1, <2>2
<1>9. workstatistik \in [Id -> Nat] /\ workstatistik' = WorqueToWorkStatistik(old)
  BY DEF Store, TypeInv, TypeOK, StoreTypeOK
<1>10. /\ \A i \in Id : i # old => workstatistik'[i] = workstatistik[i]
       /\ old # 0 => /\ workstatistik'[old] >= workstatistik[old]
                     /\ Processed(old) => workstatistik'[old] > 0
                     /\ ~Processed(old) => workstatistik'[old] = workstatistik[old]
  <2>1. CASE old # 0 /\ Processed(old) /\ workstatistik[old] = 0
    BY <1>2, <1>9, <2>1 DEF WorqueToWorkStatistik, Id
  <2>2. CASE ~(old # 0 /\ Processed(old) /\ workstatistik[old] = 0)
    <3>1. workstatistik' = workstatistik
      BY <1>9, <2>2 DEF WorqueToWorkStatistik
    <3>2. old # 0 => workstatistik[old] \in Nat
      BY <1>2, <1>9 DEF Id
    <3> QED BY <2>2, <3>1, <3>2
  <2> QED BY <2>1, <2>2
<1> QED BY <1>1, <1>2, <1>3, <1>4, <1>5, <1>8, <1>10 DEF StoreEffect

\* A store keeps the transaction of WorkQueueMover and the archive in order.
LEMMA StoreKeepsArchive ==
  ASSUME MoverSafe, UNCHANGED <<qaVars, managerVars>>,
         NEW k \in Key, NEW m \in Message, NEW f \in Filters, NEW q \in QaIds,
         NEW data \in Row, data.id = nextId, Store(k, m, f, q, data)
  PROVE  MoverTxInv' /\ HeldInv' /\ ArchiveInv' /\ ArchiveKept
<1> DEFINE old == row[k].id
<1>f. /\ nextId \in Id /\ nextId' = nextId + 1 /\ old \in 0..MaxId /\ old < nextId
      /\ row'[k] = data /\ \A l \in Key : l # k => row'[l] = row[l]
      /\ \A l \in Key : l # k /\ row[l].id # 0 => row[l].id # old /\ row[l].id < nextId
      /\ ~workque[nextId].on
      /\ workque'[nextId].on => workque'[nextId] = NewEntry(FALSE, q)
      /\ \A i \in Id : i # nextId /\ i # old => workque'[i] = workque[i]
      /\ old # 0 => ~workque'[old].on
      /\ \A i \in Id : i # old => workstatistik'[i] = workstatistik[i]
      /\ old # 0 => /\ workstatistik'[old] >= workstatistik[old]
                    /\ Processed(old) => workstatistik'[old] > 0
                    /\ ~Processed(old) => workstatistik'[old] = workstatistik[old]
  <2>1. StoreEffect(k, q, data)
    BY StoreFacts DEF MoverSafe
  <2> QED BY <2>1 DEF StoreEffect
<1>u. /\ UNCHANGED <<mvPc, mvOld, mvDel, mvIns>> /\ Handling' = Handling
      /\ \A w \in Worker : Held(w)' = Held(w)
  BY DEF qaVars, managerVars, mrVars, mvVars, Handling, Held
<1>t. /\ mvOld \subseteq Id /\ mvIns \subseteq Id /\ Handling \subseteq Id
      /\ workstatistik \in [Id -> Nat]
      /\ \A w \in Worker : Held(w) \subseteq Id
  BY TypeFacts DEF MoverSafe, IInv, TypeInv, TypeOK, ManagerTypeOK, StoreTypeOK
<1>n. workque'[nextId].on => workque'[nextId].qa_stop = "null"
  BY <1>f DEF NewEntry
<1>1. \A i \in Id : workque'[i].on => i # old
  BY <1>f DEF Id
<1>2. TooOld' \subseteq TooOld
  BY <1>f, <1>u, <1>t, <1>n, <1>1 DEF TooOld
<1>3. MoverTxInv'
  <2>1. \A i \in mvOld : i < nextId'
    BY <1>f, <1>t DEF MoverSafe, MoverTxInv, Id
  <2>2. ASSUME NEW i \in mvOld, Current(i)' PROVE workque'[i].on
    <3>1. i \in Id /\ i # nextId /\ i < nextId
      BY <1>t, <1>f DEF MoverSafe, MoverTxInv, Id
    <3>2. PICK l \in Key : row'[l].id = i
      BY <2>2 DEF Current
    <3>3. l # k /\ row[l].id = i
      BY <1>f, <3>1, <3>2
    <3>4. i # old
      BY <1>f, <3>1, <3>3 DEF Id
    <3>5. workque[i].on
      BY <3>3 DEF MoverSafe, MoverTxInv, Current
    <3> QED BY <1>f, <3>1, <3>4, <3>5
  <2> QED BY <1>u, <1>2, <2>1, <2>2 DEF MoverSafe, MoverTxInv
<1>4. HeldInv'
  <2>1. \A i \in Id : Processed(i)' => Processed(i) /\ workque'[i] = workque[i]
    BY <1>f, <1>n, <1>1 DEF Processed
  <2> QED BY <1>u, <1>t, <2>1 DEF MoverSafe, HeldInv
<1>5. ArchiveInv'
  <2> SUFFICES ASSUME ~SlowWorkers PROVE ArchiveInv'
    BY DEF ArchiveInv
  <2>1. ASSUME NEW i \in Id, workque'[i].on \/ i >= nextId' \/ i \in Handling'
        PROVE  workstatistik'[i] = 0 /\ (i \in mvIns' => i \in TooOld')
    <3>1. workque[i].on \/ i >= nextId \/ i \in Handling
      BY <1>f, <1>u, <1>1, <2>1 DEF Id
    <3>2. workstatistik[i] = 0 /\ (i \in mvIns => i \in TooOld)
      BY <3>1 DEF MoverSafe, ArchiveInv
    <3>3. CASE i = old
      <4>1. i \in Handling /\ old # 0
        BY <1>f, <1>u, <1>1, <2>1, <3>3 DEF Id
      <4>2. ~workque[i].on
        BY <4>1 DEF MoverSafe, IInv, MissingInv
      <4>3. ~Processed(i) /\ i \notin TooOld
        BY <4>2 DEF Processed, TooOld
      <4> QED BY <1>f, <1>u, <3>2, <3>3, <4>1, <4>3
    <3>4. CASE i = nextId
      <4>1. i \notin TooOld
        BY <1>f, <3>4 DEF TooOld
      <4> QED BY <1>f, <1>u, <3>2, <3>4, <4>1 DEF Id
    <3>5. CASE i # old /\ i # nextId
      <4>1. i \in TooOld => i \in TooOld'
        BY <1>f, <1>u, <3>5 DEF TooOld
      <4> QED BY <1>f, <1>u, <3>2, <3>5, <4>1
    <3> QED BY <3>3, <3>4, <3>5
  <2> QED BY <1>u, <2>1 DEF MoverSafe, ArchiveInv
<1>6. ArchiveKept
  <2>1. \A i \in Id : workstatistik[i] > 0 => workstatistik'[i] > 0
    BY <1>f, <1>t DEF Id
  <2>2. \A i \in Id : Processed(i) /\ ~workque'[i].on => workstatistik'[i] > 0
    BY <1>f DEF Processed, Id
  <2> QED BY <2>1, <2>2 DEF ArchiveKept
<1> QED BY <1>3, <1>4, <1>5, <1>6

\* createObservation_ keeps them: the new observation is neither queued nor archived.
LEMMA CreateKeepsArchive ==
  ASSUME MoverSafe, UNCHANGED <<inputVars, qaVars>>, NEW k \in Key, CreateObservation(k)
  PROVE  MoverTxInv' /\ HeldInv' /\ ArchiveInv' /\ ArchiveKept
<1>u. /\ UNCHANGED <<workque, workstatistik, mvPc, mvOld, mvDel, mvIns>>
      /\ Handling' = Handling \cup {nextId} /\ nextId' = nextId + 1
      /\ \A w \in Worker : Held(w)' = Held(w)
  BY DEF CreateObservation, qaVars, mvVars, Handling, Held
<1>t. nextId \in Id /\ mvOld \subseteq Id /\ mvIns \subseteq Id
  BY TypeFacts, KvStoreAssumption
     DEF CreateObservation, MoverSafe, IInv, TypeInv, TypeOK, ManagerTypeOK, Id
<1>1. TooOld' = TooOld
  BY <1>u DEF TooOld
<1>2. MoverTxInv'
  <2>1. \A i \in mvOld : i < nextId' /\ i # nextId
    BY <1>t, <1>u DEF MoverSafe, MoverTxInv, Id
  <2>2. \A l \in Key : row'[l].id \in {row[l].id, nextId}
    BY DEF CreateObservation, NoRow, MoverSafe, IInv, TypeInv, TypeOK, StoreTypeOK
  <2>3. \A i \in mvOld : Current(i)' => Current(i)
    BY <2>1, <2>2 DEF Current
  <2> QED BY <1>u, <1>1, <2>1, <2>3 DEF MoverSafe, MoverTxInv
<1>3. HeldInv'
  BY <1>u DEF MoverSafe, HeldInv, Processed
<1>4. ArchiveInv'
  BY <1>u, <1>t, <1>1 DEF MoverSafe, ArchiveInv, Id
<1>5. ArchiveKept
  BY <1>u DEF ArchiveKept, Processed
<1> QED BY <1>2, <1>3, <1>4, <1>5

\* addMissingData, by ObservationComplete or MissingRunner: it queues an observation that
\* was queued and not released, or not queued yet.
MissingAdded(i) ==
    /\ AddMissingData(i)
    /\ (workque[i].on /\ ~workque[i].process_start) \/ i \in Handling
    /\ Handling' \subseteq Handling
    /\ UNCHANGED <<inputVars, qaVars, nextId, workstatistik, checked, mvVars>>

\* It keeps them.
LEMMA AddMissingKeepsArchive ==
  ASSUME MoverSafe, NEW i \in Id, MissingAdded(i)
  PROVE  MoverTxInv' /\ HeldInv' /\ ArchiveInv' /\ ArchiveKept
<1> USE DEF MissingAdded
<1>u. /\ UNCHANGED <<mvPc, mvOld, mvDel, mvIns>>
      /\ \A w \in Worker : Held(w)' = Held(w)
  BY DEF qaVars, mvVars, Held
<1>t. /\ mvOld \subseteq Id /\ mvIns \subseteq Id
      /\ \A w \in Worker : Held(w) \subseteq Id
  BY TypeFacts DEF MoverSafe, IInv, TypeInv, TypeOK, ManagerTypeOK
<1>1. /\ workque'[i].on /\ workque'[i].qa_stop = "null"
      /\ \A j \in Id : j # i => workque'[j] = workque[j]
  BY DEF AddMissingData, NewEntry, MoverSafe, IInv, TypeInv, TypeOK, StoreTypeOK
<1>2. \A l \in Key : row'[l].id = row[l].id
  <2>1. row' = [l \in Key |-> IF row[l].id = i THEN WithMissingData(l) ELSE row[l]]
    BY DEF AddMissingData
  <2>2. \A l \in Key : WithMissingData(l).id = row[l].id
    BY TypeFacts DEF WithMissingData, Row, MoverSafe, IInv
  <2> QED BY <2>1, <2>2
<1>3. ~Processed(i) /\ i \notin TooOld
  BY DEF MoverSafe, IInv, EntryInv, MissingInv, Processed, TooOld
<1>4. TooOld' = TooOld
  BY <1>u, <1>t, <1>1, <1>3 DEF TooOld
<1>5. MoverTxInv'
  <2>1. \A j : Current(j)' <=> Current(j)
    BY <1>2 DEF Current
  <2> QED BY <1>u, <1>t, <1>1, <1>4, <2>1 DEF MoverSafe, MoverTxInv
<1>6. HeldInv'
  BY <1>u, <1>t, <1>1 DEF MoverSafe, HeldInv, Processed
<1>7. ArchiveInv'
  <2>1. \A j \in Id : (workque'[j].on \/ j >= nextId' \/ j \in Handling')
                         => (workque[j].on \/ j >= nextId \/ j \in Handling)
    BY <1>1
  <2> QED BY <1>u, <1>4, <2>1 DEF MoverSafe, ArchiveInv
<1>8. ArchiveKept
  BY <1>1 DEF ArchiveKept, Processed
<1> QED BY <1>5, <1>6, <1>7, <1>8

----------------------------------------------------------------------------
(* WorkQueueMover *)

\* The first statement finds entries that are queued, of observations that exist; none of
\* them has a row in workstatistik unless workers may be slow.
LEMMA DeleteKeepsArchive ==
  ASSUME MoverSafe, UNCHANGED <<inputVars, qaVars>>, CleanDelete
  PROVE  MoverTxInv' /\ HeldInv' /\ ArchiveInv' /\ ArchiveKept
<1>u. /\ UNCHANGED <<workque, workstatistik, row, nextId>> /\ Handling' = Handling
      /\ \A w \in Worker : Held(w)' = Held(w)
      /\ mvIns' = {} /\ mvPc' = "deleted"
  BY DEF CleanDelete, storeVars, mrVars, qaVars, Handling, Held, MoverSafe, MoverTxInv
<1>1. /\ mvOld' = {i \in Id : workque[i].on /\ workque[i].qa_stop = "old"}
      /\ mvDel' = [i \in Id |-> IF i \in mvOld' THEN workstatistik[i] ELSE 0]
  BY DEF CleanDelete
<1>2. \A i \in mvOld' : i \in Id /\ workque[i].on /\ i < nextId
  BY <1>1, TypeFacts DEF MoverSafe, IInv, ForeignKeyInv, FreshInv, Current
<1>3. MoverTxInv'
  BY <1>u, <1>1, <1>2 DEF MoverTxInv
<1>4. HeldInv'
  BY <1>u DEF MoverSafe, HeldInv, Processed
<1>5. ArchiveInv'
  <2> SUFFICES ASSUME ~SlowWorkers PROVE ArchiveInv'
    BY DEF ArchiveInv
  <2>1. \A i \in Id : mvDel'[i] = 0
    BY <1>1, <1>2 DEF MoverSafe, ArchiveInv
  <2> QED BY <1>u, <2>1 DEF MoverSafe, ArchiveInv
<1>6. ArchiveKept
  BY <1>u DEF ArchiveKept, Processed
<1> QED BY <1>3, <1>4, <1>5, <1>6

\* The second statement copies what the third will find, or more.
LEMMA InsertKeepsArchive ==
  ASSUME MoverSafe, UNCHANGED <<inputVars, qaVars>>, CleanInsert
  PROVE  MoverTxInv' /\ HeldInv' /\ ArchiveInv' /\ ArchiveKept
<1>u. /\ UNCHANGED <<workque, workstatistik, row, nextId, mvOld, mvDel>> /\ Handling' = Handling
      /\ \A w \in Worker : Held(w)' = Held(w)
      /\ mvIns' = TooOld /\ mvPc' = "inserted"
  BY DEF CleanInsert, storeVars, mrVars, qaVars, Handling, Held
<1>1. TooOld' = TooOld /\ \A i : Current(i)' <=> Current(i)
  BY <1>u DEF TooOld, Current
<1>2. MoverTxInv'
  BY <1>u, <1>1 DEF MoverSafe, MoverTxInv
<1>3. HeldInv' /\ ArchiveInv' /\ ArchiveKept
  BY <1>u, <1>1 DEF MoverSafe, HeldInv, ArchiveInv, ArchiveKept, Processed
<1> QED BY <1>2, <1>3

\* The third statement and the commit: what leaves workque has been copied.
LEMMA CommitKeepsArchive ==
  ASSUME MoverSafe, UNCHANGED <<inputVars, qaVars>>, CleanCommit
  PROVE  MoverTxInv' /\ HeldInv' /\ ArchiveInv' /\ ArchiveKept
<1>u. /\ UNCHANGED <<row, nextId>> /\ Handling' = Handling
      /\ \A w \in Worker : Held(w)' = Held(w)
      /\ mvPc = "inserted" /\ mvPc' = "idle" /\ mvOld' = {} /\ mvIns' = {}
      /\ \A i \in Id : mvDel'[i] = 0
  BY DEF CleanCommit, mrVars, qaVars, Handling, Held
<1>t. /\ TooOld \subseteq Id /\ workstatistik \in [Id -> Nat] /\ mvDel \in [Id -> Nat]
      /\ \A i \in Id : mvDel[i] <= workstatistik[i]
      /\ \A w \in Worker : Held(w) \subseteq Id
  BY TypeFacts
     DEF TooOld, MoverSafe, IInv, TypeInv, TypeOK, ManagerTypeOK, StoreTypeOK, MoverInv
<1>1. \A i \in Id : IF i \in TooOld THEN ~workque'[i].on ELSE workque'[i] = workque[i]
  BY DEF CleanCommit, NoEntry
<1>2. \A i \in Id :
         workstatistik'[i] = workstatistik[i] - mvDel[i] + IF i \in mvIns THEN 1 ELSE 0
  BY DEF CleanCommit
<1>3. MoverTxInv'
  BY <1>u DEF MoverTxInv
<1>4. HeldInv'
  BY <1>u, <1>t, <1>1 DEF MoverSafe, HeldInv, Processed
<1>5. ArchiveInv'
  <2> SUFFICES ASSUME ~SlowWorkers PROVE ArchiveInv'
    BY DEF ArchiveInv
  <2>1. ASSUME NEW i \in Id, workque'[i].on \/ i >= nextId \/ i \in Handling
        PROVE  workstatistik'[i] = 0
    <3>1. workque[i].on \/ i >= nextId \/ i \in Handling
      BY <1>1, <2>1
    <3>2. workstatistik[i] = 0 /\ mvDel[i] = 0 /\ (i \in mvIns => i \in TooOld)
      BY <3>1 DEF MoverSafe, ArchiveInv
    <3>3. i \notin TooOld
      <4>1. CASE workque'[i].on
        BY <1>1, <4>1
      <4>2. CASE i >= nextId \/ i \in Handling
        <5>1. ~workque[i].on
          BY <4>2, TypeFacts
             DEF MoverSafe, IInv, MissingInv, ForeignKeyInv, FreshInv, Current, Id
        <5> QED BY <5>1 DEF TooOld
      <4> QED BY <2>1, <4>1, <4>2
    <3> QED BY <1>2, <3>2, <3>3
  <2> QED BY <1>u, <2>1 DEF ArchiveInv
<1>6. ArchiveKept
  <2>1. ASSUME NEW i \in Id, Processed(i), ~workque'[i].on
        PROVE  workstatistik'[i] > 0
    <3>1. i \in TooOld
      BY <1>1, <2>1 DEF Processed
    <3>2. i \in mvIns
      BY <1>u, <3>1 DEF MoverSafe, MoverTxInv
    <3> QED BY <1>t, <1>2, <3>2
  <2>2. ASSUME NEW i \in Id, ~SlowWorkers, workstatistik[i] > 0
        PROVE  workstatistik'[i] > 0
    <3>1. mvDel[i] = 0
      BY <2>2 DEF MoverSafe, ArchiveInv
    <3> QED BY <1>t, <1>2, <2>2, <3>1
  <2> QED BY <2>1, <2>2 DEF ArchiveKept
<1> QED BY <1>3, <1>4, <1>5, <1>6

\* A restart of kvManagerd rolls the transaction back.
LEMMA RestartKeepsArchive ==
  ASSUME MoverSafe, UNCHANGED <<inputVars, qaVars>>, ManagerRestart
  PROVE  MoverTxInv' /\ HeldInv' /\ ArchiveInv' /\ ArchiveKept
<1>u. /\ UNCHANGED <<workque, workstatistik, row, nextId>> /\ Handling' = {}
      /\ \A w \in Worker : Held(w)' = Held(w)
      /\ mvPc' = "idle" /\ mvOld' = {} /\ mvIns' = {} /\ \A i \in Id : mvDel'[i] = 0
  BY DEF ManagerRestart, qaVars, Handling, Held
<1>1. MoverTxInv'
  BY <1>u DEF MoverTxInv
<1>2. HeldInv' /\ ArchiveInv' /\ ArchiveKept
  BY <1>u DEF MoverSafe, HeldInv, ArchiveInv, ArchiveKept, Processed
<1> QED BY <1>1, <1>2

----------------------------------------------------------------------------
(* What workers hold *)

\* Letting go, and losing a processed entry, is harmless.
LEMMA QuietKeepsHeld ==
  ASSUME TypeInv, HeldInv, QuietEntries, QuietWorkers
  PROVE  HeldInv'
<1>1. \A w \in Worker : Held(w) \subseteq Id
  BY TypeFacts
<1>2. \A i \in Id : Processed(i)' => Processed(i) /\ workque'[i].qa_start = workque[i].qa_start
  BY DEF QuietEntries, Processed
<1> QED BY <1>1, <1>2 DEF HeldInv, QuietWorkers

\* selectDataForControl claims entries that are not processed.
LEMMA SelectKeepsHeld ==
  ASSUME TypeInv, HeldInv, NEW w \in Worker, SelectDataForControl(w)
  PROVE  HeldInv'
<1>1. PICK S \in Selections(w) : \E i \in S :
        /\ workque' = [j \in Id |-> IF j \in S
                                    THEN [workque[j] EXCEPT !.qa_start = "recent"]
                                    ELSE workque[j]]
        /\ cur' = [cur EXCEPT ![w] = i]
        /\ batch' = [batch EXCEPT ![w] = S \ {i}]
  BY DEF SelectDataForControl
<1>2. S \subseteq FailedData(w) \cup ReadyData(w)
  BY <1>1 DEF Selections, Limited, LatestData
<1>3. S \subseteq Id /\ \A i \in S : ~Processed(i)
  BY <1>2 DEF FailedData, ReadyData, Pending, Processed, HeldInv
<1>4. \A i \in Id : /\ Processed(i)' <=> Processed(i)
                    /\ workque'[i].qa_start \in {workque[i].qa_start, "recent"}
  BY <1>1 DEF Processed, TypeInv, TypeOK, StoreTypeOK, Entry
<1>5. \A v \in Worker : Held(v) \subseteq Id /\ Held(v)' \subseteq Held(v) \cup S
  BY <1>1, TypeFacts DEF Held, TypeInv, TypeOK, QaTypeOK
<1> QED BY <1>3, <1>4, <1>5 DEF HeldInv

\* markProcessDone processes what only this worker holds, and lets it go.
LEMMA MarkKeepsHeld ==
  ASSUME IInv, HeldInv, BatchInv, NEW w \in Worker, MarkProcessDone(w)
  PROVE  HeldInv'
<1>1. cur[w] \in Id /\ cur[w] \in Held(w)
  BY TypeFacts DEF MarkProcessDone, IInv, TypeInv, WorkerInv, Held, Id
<1>2. \A i \in Id : i # cur[w] => workque'[i] = workque[i]
  BY <1>1 DEF MarkProcessDone, IInv, TypeInv, TypeOK, StoreTypeOK
<1>3. workque'[cur[w]].on => workque'[cur[w]].qa_start # "null"
  <2>1. workque'[cur[w]].on
           => workque[cur[w]].on /\ workque'[cur[w]].qa_start = workque[cur[w]].qa_start
    BY <1>1 DEF MarkProcessDone, IInv, TypeInv, TypeOK, StoreTypeOK, Entry
  <2> QED BY <1>1, <2>1 DEF IInv, ClaimInv
<1>4. \A v \in Worker : Held(v) \subseteq Id /\ Held(v)' \subseteq Held(v)
  BY TypeFacts DEF MarkProcessDone, Held, IInv, TypeInv, TypeOK, QaTypeOK
<1>5. \A i \in Id : Processed(i)' => workque'[i].qa_start # "null"
  BY <1>2, <1>3 DEF HeldInv, Processed
<1>6. ASSUME ~SlowWorkers, NEW v \in Worker, NEW i \in Held(v)'
      PROVE  ~Processed(i)'
  <2>1. CASE i = cur[w]
    <3>1. v = w
      BY <1>1, <1>4, <1>6, <2>1 DEF IInv, ExclusiveClaim
    <3>2. cur'[w] = 0 /\ batch' = batch
      BY DEF MarkProcessDone, IInv, TypeInv, TypeOK, QaTypeOK
    <3>3. i \in batch[w]
      BY <1>6, <3>1, <3>2 DEF Held
    <3>4. cur[w] \notin batch[w]
      BY DEF BatchInv
    <3> QED BY <2>1, <3>3, <3>4
  <2>2. CASE i # cur[w]
    BY <1>2, <1>4, <1>6, <2>2 DEF HeldInv, Processed
  <2> QED BY <2>1, <2>2
<1> QED BY <1>5, <1>6 DEF HeldInv

\* fetchDataToProcess takes what it works on out of the batch.
LEMMA BatchStep ==
  ASSUME TypeInv, BatchInv, [Next]_vars
  PROVE  BatchInv'
<1>t. cur \in [Worker -> 0..MaxId] /\ batch \in [Worker -> SUBSET Id]
  BY DEF TypeInv, TypeOK, QaTypeOK
<1>1. ASSUME UNCHANGED <<cur, batch>> PROVE BatchInv'
  BY <1>1 DEF BatchInv
<1>2. ASSUME NEW w \in Worker, SelectDataForControl(w) \/ NextOfBatch(w)
      PROVE  BatchInv'
  BY <1>2, <1>t DEF SelectDataForControl, NextOfBatch, BatchInv
<1>3. ASSUME NEW w \in Worker, ProcessingFails(w) \/ MarkProcessDone(w) \/ Crash(w) \/ Exit(w)
      PROVE  BatchInv'
  BY <1>3, <1>t DEF ProcessingFails, MarkProcessDone, Crash, Exit, BatchInv, Id
<1>4. ASSUME NEW w \in Worker,
             RunChecks(w) \/ SendConfirmed(w) \/ SendUnconfirmed(w) \/ Stop(w) \/ Restart(w)
      PROVE  BatchInv'
  BY <1>1, <1>4 DEF RunChecks, SendConfirmed, SendUnconfirmed, Stop, Restart
<1>5. ASSUME NEW i \in Id, Deliver(i) \/ ClaimAges(i)
      PROVE  BatchInv'
  BY <1>1, <1>5 DEF Deliver, ClaimAges, qaVars
<1>6. CASE QaStep
  BY <1>6, <1>2, <1>3, <1>4, <1>5 DEF QaStep, QaNext, WorkerStep
<1>7. CASE InputStep \/ ManagerStep \/ TimeStep \/ UNCHANGED vars
  BY <1>1, <1>7 DEF InputStep, ManagerStep, TimeStep, vars, qaVars
<1> QED BY <1>6, <1>7 DEF Next

\* No step makes a worker hold a processed entry: the calm ones.
LEMMA CalmKeepsHeld ==
  ASSUME MoverSafe,
         \/ QaStep \/ TimeStep \/ UNCHANGED vars
         \/ InputStep /\ UNCHANGED workque
         \/ ManagerStep /\ UNCHANGED workque
  PROVE  HeldInv'
<1> USE DEF MoverSafe
<1>q. ASSUME QuietEntries, QuietWorkers PROVE HeldInv'
  BY <1>q, QuietKeepsHeld DEF IInv
<1>1. CASE QaStep
  <2>1. UNCHANGED <<inputVars, managerVars>>
    BY <1>1 DEF QaStep
  <2>2. CASE \/ \E w \in Worker : \/ NextOfBatch(w) \/ ProcessingFails(w) \/ Stop(w) \/ Exit(w)
                                   \/ Crash(w) \/ Restart(w)
             \/ \E i \in Id : Deliver(i)
    BY <2>1, <2>2, <1>q, QaQuiet DEF Quiet
  <2>3. ASSUME NEW w \in Worker, RunChecks(w) \/ SendConfirmed(w) \/ SendUnconfirmed(w)
        PROVE  HeldInv'
    BY <2>3 DEF RunChecks, SendConfirmed, SendUnconfirmed, storeVars, HeldInv, Held, Processed
  <2>4. ASSUME NEW i \in Id, ClaimAges(i)
        PROVE  HeldInv'
    <3>1. \A j \in Id : /\ Processed(j)' <=> Processed(j)
                        /\ workque'[j].qa_start \in {workque[j].qa_start, "old"}
      BY <2>4 DEF ClaimAges, Processed, IInv, TypeInv, TypeOK, StoreTypeOK, Entry
    <3>2. \A w \in Worker : Held(w)' = Held(w) /\ Held(w) \subseteq Id
      BY <2>4, TypeFacts DEF ClaimAges, qaVars, Held, IInv
    <3> QED BY <3>1, <3>2 DEF HeldInv
  <2> QED BY <1>1, <2>2, <2>3, <2>4, SelectKeepsHeld, MarkKeepsHeld
          DEF QaStep, QaNext, WorkerStep, IInv
<1>2. CASE TimeStep
  BY <1>2, <1>q, TimeQuiet DEF Quiet
<1>3. CASE \/ UNCHANGED vars
           \/ InputStep /\ UNCHANGED workque
           \/ ManagerStep /\ UNCHANGED workque
  <2>1. UNCHANGED workque /\ UNCHANGED qaVars
    BY <1>3 DEF vars, storeVars, InputStep, ManagerStep
  <2> QED BY <2>1, <1>q, UnchangedIsQuiet
<1> QED BY <1>1, <1>2, <1>3

\* A calm step keeps all of it.
LEMMA CalmStep ==
  ASSUME MoverSafe, Calm, HeldInv', OldStays \/ \E w \in Worker : MarkProcessDone(w)
  PROVE  MoverTxInv' /\ HeldInv' /\ ArchiveInv' /\ ArchiveKept
<1>1. TypeInv /\ MoverTxInv' /\ ArchiveKept
  BY CalmKeepsMover, CalmKeepsRows DEF MoverSafe, IInv
<1>2. CASE OldStays
  BY <1>1, <1>2, CalmKeepsArchive DEF MoverSafe
<1>3. ASSUME NEW w \in Worker, MarkProcessDone(w)
      PROVE  ArchiveInv'
  <2>1. CASE SlowWorkers
    BY <2>1 DEF ArchiveInv
  <2>2. CASE ~SlowWorkers
    <3>1. cur[w] \in Id /\ cur[w] \in Held(w)
      BY <1>1, <1>3, TypeFacts DEF MarkProcessDone, TypeInv, WorkerInv, Held, Id
    <3>2. ~Processed(cur[w])
      BY <2>2, <3>1 DEF MoverSafe, HeldInv
    <3>3. \A i \in Id : i # cur[w] => workque'[i] = workque[i]
      BY <1>1, <1>3, <3>1 DEF MarkProcessDone, TypeInv, TypeOK, StoreTypeOK
    <3>4. workque[cur[w]].on => workque[cur[w]].qa_stop # "old"
      BY <3>2 DEF Processed
    <3>5. ~workque[cur[w]].on => workque' = workque
      BY <1>3 DEF MarkProcessDone
    <3>6. OldStays
      BY <3>3, <3>4, <3>5 DEF OldStays
    <3> QED BY <1>1, <3>6, CalmKeepsArchive DEF MoverSafe
  <2> QED BY <2>1, <2>2
<1> QED BY <1>1, <1>2, <1>3

----------------------------------------------------------------------------
(* All steps *)

\* The steps of WorkQueueMover, and of kvManagerd when it is started again.
MoverStep == CleanDelete \/ CleanInsert \/ CleanCommit \/ ManagerRestart

\* Every step of the system is one of these.
StepKind ==
    \/ Calm /\ HeldInv' /\ (OldStays \/ \E w \in Worker : MarkProcessDone(w))
    \/ /\ UNCHANGED <<qaVars, managerVars>>
       /\ \E k \in Key, m \in Message, f \in Filters, q \in QaIds, data \in Row :
             data.id = nextId /\ Store(k, m, f, q, data)
    \/ \E i \in Id : MissingAdded(i)
    \/ UNCHANGED <<inputVars, qaVars>> /\ ((\E k \in Key : CreateObservation(k)) \/ MoverStep)

\* Which step is of which kind.
LEMMA StepKinds == MoverSafe /\ [Next]_vars => StepKind
<1> SUFFICES ASSUME MoverSafe, [Next]_vars PROVE StepKind
  OBVIOUS
<1>0. IInv /\ TypeInv
  BY DEF MoverSafe, IInv
<1>1. CASE InputStep
  <2>1. UNCHANGED <<qaVars, managerVars>>
    BY <1>1 DEF InputStep
  <2>2. ASSUME NEW k \in Key, NEW m \in Message, NEW f \in Filters, NEW q \in QaIds,
               Insert(k, m, f, q) \/ Update(k, m, f, q) \/ Replace(k, m, f, q)
        PROVE  StepKind
    BY <1>0, <2>1, <2>2, StoreCases DEF StepKind
  <2>3. CASE \/ \E k \in Key, m \in Message, f \in Filters : Duplicate(k, m, f)
             \/ \E i \in Id : PublishData(i) \/ PublishDropped(i)
    <3>1. UNCHANGED workque
      BY <2>3 DEF Duplicate, PublishData, PublishDropped, storeVars
    <3>2. HeldInv'
      BY <1>1, <3>1, CalmKeepsHeld
    <3>3. Calm /\ OldStays
      BY <2>1, <2>3, InputCalm
    <3> QED BY <3>2, <3>3 DEF StepKind
  <2> QED BY <1>1, <2>2, <2>3 DEF InputStep, InputNext
<1>2. CASE QaStep
  BY <1>0, <1>2, QaCalm, CalmKeepsHeld DEF StepKind
<1>3. CASE ManagerStep
  <2>1. UNCHANGED <<inputVars, qaVars>>
    BY <1>3 DEF ManagerStep
  <2>2. CASE \/ FindAllMissing \/ AllCreated \/ SetLastFindAllMissingRuntime
             \/ \E k \in Key : CreateObservationFails(k)
             \/ \E i \in Id : MissingBegin(i) \/ CompleteSelect(i)
             \/ MissingSerializeError \/ MissingForeignKeyError
             \/ CompleteApply /\ ~Current(completing)
    <3>1. UNCHANGED workque
      BY <2>2 DEF FindAllMissing, AllCreated, SetLastFindAllMissingRuntime,
                  CreateObservationFails, MissingBegin, CompleteSelect, MissingSerializeError,
                  MissingForeignKeyError, CompleteApply, storeVars
    <3>2. HeldInv'
      BY <1>3, <3>1, CalmKeepsHeld
    <3>3. Calm /\ OldStays
      BY <1>0, <2>1, <2>2, ManagerCalm
    <3> QED BY <3>2, <3>3 DEF StepKind
  <2>3. CASE CompleteApply /\ Current(completing)
    <3>1. completing \in Id /\ AddMissingData(completing)
      BY <1>0, <2>3, TypeFacts DEF CompleteApply, Id
    <3>2. workque[completing].on /\ ~workque[completing].process_start
      BY <1>0, <2>3 DEF CompleteApply, IInv, CompleteInv
    <3>3. /\ Handling' \subseteq Handling
          /\ UNCHANGED <<nextId, workstatistik, checked, mvVars>>
      BY <2>3 DEF CompleteApply, mrVars, Handling
    <3>4. MissingAdded(completing)
      BY <2>1, <3>1, <3>2, <3>3 DEF MissingAdded
    <3> QED BY <3>1, <3>4 DEF StepKind
  <2>4. CASE MissingCommit
    <3>1. mrCur \in Id /\ mrCur \in Handling /\ AddMissingData(mrCur)
      BY <1>0, <2>4, TypeFacts DEF MissingCommit, TypeInv, MissingPcInv, Handling, Id
    <3>2. Handling' \subseteq Handling
      BY <2>4 DEF MissingCommit, Handling
    <3>3. UNCHANGED <<nextId, workstatistik, checked, mvVars>>
      BY <2>4 DEF MissingCommit
    <3>4. MissingAdded(mrCur)
      BY <2>1, <3>1, <3>2, <3>3 DEF MissingAdded
    <3> QED BY <3>1, <3>4 DEF StepKind
  <2>5. CASE (\E k \in Key : CreateObservation(k)) \/ MoverStep
    BY <2>1, <2>5 DEF StepKind
  <2> QED BY <1>3, <2>2, <2>3, <2>4, <2>5 DEF ManagerStep, ManagerNext, MoverStep
<1>4. CASE TimeStep
  BY <1>0, <1>4, TimeCalm, CalmKeepsHeld DEF StepKind
<1>5. CASE UNCHANGED vars
  <2>1. Calm /\ OldStays
    BY <1>5, UnchangedIsCalm DEF vars, storeVars, inputVars, managerVars, mrVars, Handling
  <2> QED BY <1>5, <2>1, CalmKeepsHeld DEF StepKind
<1> QED BY <1>1, <1>2, <1>3, <1>4, <1>5 DEF Next

\* Every step keeps the invariants and the archive.
LEMMA MoverSafeStep == MoverSafe /\ [Next]_vars => MoverSafe' /\ ArchiveKept
<1> SUFFICES ASSUME MoverSafe, [Next]_vars PROVE MoverSafe' /\ ArchiveKept
  OBVIOUS
<1>1. IInv' /\ BatchInv'
  BY IInvStep, BatchStep DEF MoverSafe, IInv
<1>2. StepKind
  BY StepKinds
<1>3. MoverTxInv' /\ HeldInv' /\ ArchiveInv' /\ ArchiveKept
  <2>1. CASE Calm /\ HeldInv' /\ (OldStays \/ \E w \in Worker : MarkProcessDone(w))
    BY <2>1, CalmStep
  <2>2. ASSUME UNCHANGED <<qaVars, managerVars>>,
               NEW k \in Key, NEW m \in Message, NEW f \in Filters, NEW q \in QaIds,
               NEW data \in Row, data.id = nextId, Store(k, m, f, q, data)
        PROVE  MoverTxInv' /\ HeldInv' /\ ArchiveInv' /\ ArchiveKept
    BY <2>2, StoreKeepsArchive
  <2>3. ASSUME NEW i \in Id, MissingAdded(i)
        PROVE  MoverTxInv' /\ HeldInv' /\ ArchiveInv' /\ ArchiveKept
    BY <2>3, AddMissingKeepsArchive
  <2>4. CASE UNCHANGED <<inputVars, qaVars>>
             /\ ((\E k \in Key : CreateObservation(k)) \/ MoverStep)
    BY <2>4, CreateKeepsArchive, DeleteKeepsArchive, InsertKeepsArchive, CommitKeepsArchive,
       RestartKeepsArchive DEF MoverStep
  <2> QED BY <1>2, <2>1, <2>2, <2>3, <2>4 DEF StepKind
<1> QED BY <1>1, <1>3 DEF MoverSafe

\* A processed entry leaves workque only into workstatistik, however cleanWorkQueue's three
\* statements interleave with stores and workers; the archived row stays, unless a worker
\* may sit on a claim for longer than the 10 minutes.
THEOREM ProcessedGoesToArchive == Spec => ProcessedIsArchived
<1>1. Spec => []MoverSafe
  BY MoverSafeInit, MoverSafeStep, PTL DEF Spec
<1>2. MoverSafe /\ [Next]_vars => [ArchiveKept]_vars
  BY MoverSafeStep
<1>3. ProcessedIsArchived <=> [][ArchiveKept]_vars
  BY DEF ProcessedIsArchived, ArchiveKept
<1> QED BY <1>1, <1>2, <1>3, PTL DEF Spec

----------------------------------------------------------------------------
(* Nothing is forgotten, if every filter queues and publishes. *)

AllFiltersPass == \A f \in Filters : f.publish /\ f.addToWorkQueue

\* A store queues its data or keeps it for publishing, and touches no other observation.
LEMMA StoreForgetsNothing ==
  ASSUME AllFiltersPass, MoverSafe, KeptInv,
         NEW k \in Key, NEW m \in Message, NEW f \in Filters, NEW q \in QaIds,
         NEW data \in Row, data.id = nextId, Store(k, m, f, q, data)
  PROVE  KeptInv'
<1> DEFINE old == row[k].id
<1>f. /\ nextId \in Id /\ old \in 0..MaxId
      /\ row'[k] = data /\ \A l \in Key : l # k => row'[l] = row[l]
      /\ \A l \in Key : l # k /\ row[l].id # 0 => row[l].id # old /\ row[l].id < nextId
      /\ \A i \in Id : i # nextId /\ i # old => workque'[i] = workque[i]
      /\ \A i \in Id : i # old => workstatistik'[i] = workstatistik[i]
  <2>1. StoreEffect(k, q, data)
    BY StoreFacts DEF MoverSafe
  <2> QED BY <2>1 DEF StoreEffect
<1>1. KeptAfter(nextId)
  <2>1. CASE Bypasses(m, old)
    BY <2>1 DEF AllFiltersPass, Store, KeptAfter
  <2>2. CASE ~Bypasses(m, old)
    <3>1. workque' = [CascadeDelete(old) EXCEPT ![nextId] = NewEntry(FALSE, q)]
      BY <2>2 DEF AllFiltersPass, Store
    <3>2. CascadeDelete(old) \in [Id -> Entry]
      BY <1>f, RecordTypes
         DEF CascadeDelete, MoverSafe, IInv, TypeInv, TypeOK, StoreTypeOK, Id
    <3>3. workque'[nextId] = NewEntry(FALSE, q)
      BY <1>f, <3>1, <3>2
    <3> QED BY <3>3 DEF NewEntry, KeptAfter
  <2> QED BY <2>1, <2>2
<1>2. ASSUME NEW l \in Key, l # k, row[l].num \/ row[l].txt
      PROVE  row[l].id # 0 /\ KeptAfter(row[l].id)
  <2>1. row[l].id # 0 /\ Kept(row[l].id)
    BY <1>2 DEF KeptInv
  <2>2. row[l].id \in Id /\ row[l].id # old /\ row[l].id # nextId
    BY <1>f, <1>2, <2>1, TypeFacts DEF MoverSafe, IInv, Id
  <2>3. toPublish \subseteq toPublish' /\ checked' = checked /\ dropped' = dropped
    BY DEF Store
  <2> QED BY <1>f, <2>1, <2>2, <2>3 DEF Kept, KeptAfter
<1>3. nextId # 0
  BY <1>f DEF Id
<1> QED BY <1>f, <1>1, <1>2, <1>3 DEF KeptInv, Kept, KeptAfter

\* A row that WorkQueueMover deletes from workque is in workstatistik when it commits, and
\* what is only in workstatistik is not deleted there.
LEMMA CommitForgetsNothing ==
  ASSUME MoverSafe, KeptInv, CleanCommit, UNCHANGED inputVars
  PROVE  KeptInv'
<1>1. UNCHANGED <<row, checked, toPublish, dropped>>
  BY DEF CleanCommit, inputVars
<1>2. ASSUME NEW k \in Key, row[k].num \/ row[k].txt
      PROVE  row[k].id # 0 /\ KeptAfter(row[k].id)
  <2> DEFINE i == row[k].id
  <2>1. i \in Id /\ Kept(i) /\ Current(i)
    BY <1>2, TypeFacts DEF KeptInv, MoverSafe, IInv, Current, Id
  <2>t. /\ workstatistik[i] \in Nat /\ mvDel[i] \in Nat /\ mvDel[i] <= workstatistik[i]
    BY <2>1 DEF MoverSafe, IInv, TypeInv, TypeOK, StoreTypeOK, ManagerTypeOK, MoverInv
  <2>2. /\ i \notin TooOld => workque'[i] = workque[i]
        /\ workstatistik'[i] = workstatistik[i] - mvDel[i] + IF i \in mvIns THEN 1 ELSE 0
    BY <2>1 DEF CleanCommit
  <2>3. i # 0
    BY <2>1 DEF Id
  <2> HIDE DEF i
  <2>4. CASE i \in TooOld
    <3>1. i \in mvIns
      BY <2>4 DEF MoverSafe, MoverTxInv, CleanCommit
    <3>2. workstatistik'[i] > 0
      BY <2>t, <2>2, <3>1
    <3> QED BY <2>3, <3>2 DEF KeptAfter, i
  <2>5. CASE i \notin TooOld /\ workque[i].on
    BY <2>2, <2>3, <2>5 DEF KeptAfter, i
  <2>6. CASE ~workque[i].on /\ workstatistik[i] > 0
    <3>1. i \notin mvOld
      BY <2>1, <2>6 DEF MoverSafe, MoverTxInv
    <3>2. mvDel[i] = 0
      BY <2>1, <2>t, <3>1 DEF MoverSafe, MoverTxInv
    <3>3. workstatistik'[i] > 0
      BY <2>t, <2>2, <2>6, <3>2
    <3> QED BY <2>3, <3>3 DEF KeptAfter, i
  <2>7. CASE i \in toPublish \cup checked \cup dropped
    BY <1>1, <2>3, <2>7 DEF KeptAfter, i
  <2> QED BY <2>1, <2>4, <2>5, <2>6, <2>7 DEF Kept
<1> QED BY <1>1, <1>2 DEF KeptInv, Kept, KeptAfter

\* No step forgets data.
LEMMA KeptStep ==
  ASSUME AllFiltersPass, MoverSafe, KeptInv, [Next]_vars
  PROVE  KeptInv'
<1>t. TypeInv /\ \A k \in Key : row[k] \in Row /\ row[k].id \in 0..MaxId
  BY TypeFacts DEF MoverSafe, IInv
<1>1. CASE Calm
  BY <1>1, <1>t, CalmForgetsNothing
<1>2. ASSUME NEW i \in Id, MissingAdded(i)
      PROVE  KeptInv'
  <2>1. /\ workque'[i].on /\ \A j \in Id : j # i => workque'[j] = workque[j]
        /\ UNCHANGED <<workstatistik, checked, toPublish, dropped>>
    BY <1>2, <1>t
       DEF MissingAdded, AddMissingData, NewEntry, inputVars, TypeInv, TypeOK, StoreTypeOK
  <2>2. \A k \in Key : row'[k].id = row[k].id /\ (row[k].id # i => row'[k] = row[k])
    <3>1. row' = [l \in Key |-> IF row[l].id = i THEN WithMissingData(l) ELSE row[l]]
      BY <1>2 DEF MissingAdded, AddMissingData
    <3>2. \A l \in Key : WithMissingData(l).id = row[l].id
      BY <1>t DEF WithMissingData, Row
    <3> QED BY <3>1, <3>2
  <2>3. \A j \in Id : Kept(j) => Kept(j)'
    BY <2>1 DEF Kept
  <2>4. Kept(i)' /\ i # 0
    BY <2>1 DEF Kept, Id
  <2> QED BY <1>t, <2>2, <2>3, <2>4 DEF KeptInv, Id
<1>3. ASSUME NEW k \in Key, CreateObservation(k), UNCHANGED inputVars
      PROVE  KeptInv'
  <2>1. /\ ~row'[k].num /\ ~row'[k].txt /\ \A l \in Key : l # k => row'[l] = row[l]
        /\ UNCHANGED <<workque, workstatistik, checked, toPublish, dropped>>
    BY <1>3, <1>t DEF CreateObservation, NoRow, inputVars, TypeInv, TypeOK, StoreTypeOK
  <2> QED BY <2>1 DEF KeptInv, Kept
<1>4. CASE (CleanDelete \/ CleanInsert \/ ManagerRestart) /\ UNCHANGED inputVars
  <2>1. UNCHANGED <<row, workque, workstatistik, checked, toPublish, dropped>>
    BY <1>4 DEF CleanDelete, CleanInsert, ManagerRestart, storeVars, inputVars
  <2> QED BY <2>1 DEF KeptInv, Kept
<1>5. ASSUME NEW k \in Key, NEW m \in Message, NEW f \in Filters, NEW q \in QaIds,
             NEW data \in Row, data.id = nextId, Store(k, m, f, q, data)
      PROVE  KeptInv'
  BY <1>5, StoreForgetsNothing
<1>6. CASE CleanCommit /\ UNCHANGED inputVars
  BY <1>6, CommitForgetsNothing
<1> QED BY <1>1, <1>2, <1>3, <1>4, <1>5, <1>6, StepKinds DEF StepKind, MoverStep

\* If every filter queues and publishes, as the default filter does, stored data is always
\* queued, archived, or published or on its way there: no interleaving of stores, workers,
\* kvManagerd's threads and their restarts forgets it.
THEOREM DataIsNotForgotten ==
  ASSUME AllFiltersPass
  PROVE  Spec => []NothingForgotten
<1>1. Init => KeptInv
  BY DEF Init, StoreInit, NoRow, KeptInv
<1>2. MoverSafe /\ KeptInv /\ [Next]_vars => KeptInv'
  BY KeptStep
<1>3. MoverSafe /\ [Next]_vars => MoverSafe'
  BY MoverSafeStep
<1>4. KeptInv => NothingForgotten
  BY DEF KeptInv, Kept, NothingForgotten
<1> QED BY <1>1, <1>2, <1>3, <1>4, MoverSafeInit, PTL DEF Spec
=============================================================================
