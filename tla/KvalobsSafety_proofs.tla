------------------------ MODULE KvalobsSafety_proofs ------------------------
(* Machine-checked proofs of the safety properties of Kvalobs, for every     *)
(* value of its constants.                                                   *)
EXTENDS Kvalobs_proofs

----------------------------------------------------------------------------
(* The inductive invariant.  The properties hold because of what is true of  *)
(* an observationid at each stage of its life; that is what the conjuncts    *)
(* below say.                                                                *)

\* observationids are handed out once: no table, worker or thread knows one that is
\* still to come, and two observations never share one.
FreshInv ==
    /\ \A k \in Key : row[k].id < nextId
    /\ \A k, l \in Key : row[k].id # 0 /\ row[k].id = row[l].id => k = l
    /\ \A w \in Worker : \A i \in Held(w) : i < nextId
    /\ \A i \in mrMissing : i < nextId
    /\ mrCur < nextId /\ completing < nextId

\* The foreign key of workque: an entry belongs to an observation that exists.
ForeignKeyInv == \A i \in Id : workque[i].on => Current(i)

\* kvQabased touches an entry only after kvManagerd has released it.
EntryInv ==
    \A i \in Id : workque[i].on /\ (workque[i].qa_start # "null" \/ workque[i].qa_stop # "null")
                      => workque[i].process_start

\* What a worker holds is claimed, and the claim is young unless workers may be slow.
ClaimInv ==
    \A w \in Worker : \A i \in Held(w) :
        workque[i].on => /\ workque[i].process_start
                         /\ workque[i].qa_start # "null"
                         /\ SlowWorkers \/ workque[i].qa_start = "recent"

\* What ObservationComplete has in hand is queued and not released, or it has been replaced.
CompleteInv ==
    completing # 0 /\ Current(completing)
        => workque[completing].on /\ ~workque[completing].process_start

\* What MissingRunner has created and not handled is not queued, and nobody checks it.
Handling == mrMissing \cup ({mrCur} \ {0})

MissingInv ==
    /\ mrCur \notin mrMissing
    /\ \A i \in Handling : ~workque[i].on /\ \A w \in Worker : i \notin Held(w)

\* Unchecked data is queued; a worker that has run the checks has left none.
UncheckedInv ==
    /\ UncheckedIsQueued
    /\ \A k \in Key : row[k].raw => row[k].id # 0
    /\ \A w \in Worker, k \in Key :
          pc[w] \in {"send", "mark"} /\ row[k].id = cur[w] => ~row[k].raw

\* An observation that is released or claimed has its missing values.
FilledInv ==
    \A k \in Key :
        /\ k \in WholeHour /\ k \in Expected /\ row[k].id # 0
        /\ \/ workque[row[k].id].on /\ workque[row[k].id].process_start
           \/ \E w \in Worker : row[k].id \in Held(w)
        => row[k].filled

\* What is marked done, or about to be, is on the topic.
DoneInv ==
    /\ DoneIsPublished
    /\ \A w \in Worker, k \in Key :
          pc[w] = "mark" /\ row[k].id = cur[w] /\ HasContent(k)
              => row[k].id \in checked \cup unsent

IInv ==
    /\ TypeInv
    /\ FreshInv /\ ForeignKeyInv /\ EntryInv /\ ClaimInv /\ CompleteInv /\ MissingInv
    /\ ExclusiveClaim
    /\ UncheckedInv /\ FilledInv /\ DoneInv

\* The initial state satisfies the invariant: empty tables, idle workers and threads.
LEMMA IInvInit == Init => IInv
<1> SUFFICES ASSUME Init PROVE IInv
  OBVIOUS
<1> USE KvStoreAssumption
<1>1. TypeInv
  BY TypeInvInit
<1>2. /\ \A k \in Key : row[k].id = 0 /\ ~row[k].raw /\ ~row[k].num /\ ~row[k].txt
      /\ nextId = 1
  BY DEF Init, StoreInit, NoRow
<1>3. \A i \in Id : ~workque[i].on
  BY DEF Init, StoreInit, NoEntry
<1>4. \A w \in Worker : Held(w) = {} /\ pc[w] = "run"
  BY DEF Init, QaInit, Held
<1>5. mrMissing = {} /\ mrCur = 0 /\ completing = 0 /\ Handling = {}
  BY DEF Init, ManagerInit, Handling
<1>6. FreshInv /\ ForeignKeyInv /\ EntryInv
  BY <1>2, <1>3, <1>4, <1>5 DEF FreshInv, ForeignKeyInv, EntryInv
<1>7. ClaimInv /\ CompleteInv /\ MissingInv /\ ExclusiveClaim
  BY <1>4, <1>5 DEF ClaimInv, CompleteInv, MissingInv, ExclusiveClaim
<1>8. UncheckedInv /\ FilledInv /\ DoneInv
  BY <1>2, <1>4 DEF UncheckedInv, UncheckedIsQueued, FilledInv, DoneInv, DoneIsPublished, Processed
<1> QED BY <1>1, <1>6, <1>7, <1>8 DEF IInv

----------------------------------------------------------------------------
(* Most actions let go of something, record something, or change nothing the *)
(* invariant is about.                                                       *)

\* Entries may only disappear, and only processed ones; claims do not change.
QuietEntries ==
    /\ \A i \in Id : workque'[i].on =>
          /\ workque[i].on
          /\ workque'[i].process_start = workque[i].process_start
          /\ workque'[i].qa_start = workque[i].qa_start
          /\ workque'[i].qa_stop = "null" <=> workque[i].qa_stop = "null"
    /\ \A i \in Id : workque[i].on /\ (~workque[i].process_start \/ workque[i].qa_stop = "null")
                         => workque'[i].on

\* Workers may only let go of what they hold.
QuietWorkers ==
    /\ \A w \in Worker : Held(w)' \subseteq Held(w)
    /\ \A w \in Worker : pc'[w] \in {"send", "mark"} => pc'[w] = pc[w] /\ cur'[w] = cur[w]
    /\ unsent \subseteq unsent'

\* The threads of kvManagerd may only let go of what they have.
QuietThreads ==
    /\ Handling' \subseteq Handling /\ mrCur' \notin mrMissing'
    /\ completing' \in {0, completing}

Quiet ==
    /\ row' = row /\ nextId' = nextId
    /\ QuietEntries /\ QuietWorkers /\ QuietThreads
    /\ checked \subseteq checked' /\ unqueued \subseteq unqueued'

\* A quiet step keeps the invariant.
LEMMA QuietStep == IInv /\ TypeInv' /\ Quiet => IInv'
<1> SUFFICES ASSUME IInv, TypeInv', Quiet PROVE IInv'
  OBVIOUS
<1> USE KvStoreAssumption DEF IInv
<1>t. /\ row \in [Key -> Row] /\ nextId \in Nat /\ mrCur \in Nat /\ completing \in 0..MaxId
      /\ mrCur' \in Nat /\ mrCur' \in 0..MaxId /\ mrMissing' \subseteq Id
      /\ \A w \in Worker : Held(w)' \subseteq Id
  <2>1. row \in [Key -> Row] /\ nextId \in Nat
    BY DEF TypeInv, TypeOK, StoreTypeOK
  <2>2. /\ mrCur \in 0..MaxId /\ completing \in 0..MaxId
        /\ mrCur' \in 0..MaxId /\ mrMissing' \subseteq Id
    BY DEF TypeInv, TypeOK, ManagerTypeOK
  <2>3. \A w \in Worker : Held(w)' \subseteq Id
    BY DEF TypeInv, TypeOK, QaTypeOK, Held, Id
  <2> QED BY <2>1, <2>2, <2>3
<1>c. \A i : Current(i)' <=> Current(i)
  BY DEF Quiet, QuietEntries, QuietWorkers, QuietThreads, Current
<1>r. \A k \in Key : row[k].id \in 0..MaxId
  BY <1>t DEF Row
<1>1. FreshInv'
  <2>1. /\ \A w \in Worker : \A i \in Held(w)' : i < nextId'
        /\ \A k \in Key : row'[k].id < nextId'
        /\ \A k, l \in Key : row'[k].id # 0 /\ row'[k].id = row'[l].id => k = l
    BY DEF Quiet, QuietEntries, QuietWorkers, QuietThreads, FreshInv
  <2>2. \A i \in Handling : i < nextId
    BY DEF FreshInv, Handling
  <2>3. 0 < nextId
    BY DEF TypeInv, TypeOK, StoreTypeOK
  <2>4. (\A i \in mrMissing' : i < nextId') /\ mrCur' < nextId' /\ completing' < nextId'
    BY <2>2, <2>3 DEF Quiet, QuietEntries, QuietWorkers, QuietThreads, FreshInv, Handling
  <2> QED BY <2>1, <2>4 DEF FreshInv
<1>2. ForeignKeyInv'
  BY <1>c DEF Quiet, QuietEntries, QuietWorkers, QuietThreads, ForeignKeyInv
<1>3. EntryInv'
  BY DEF Quiet, QuietEntries, QuietWorkers, QuietThreads, EntryInv
<1>4. ClaimInv'
  BY <1>t DEF Quiet, QuietEntries, QuietWorkers, QuietThreads, ClaimInv
<1>5. CompleteInv'
  BY <1>c, <1>t DEF Quiet, QuietEntries, QuietWorkers, QuietThreads, CompleteInv, Id
<1>6. MissingInv'
  <2>1. \A i \in Handling' : i \in Id
    BY <1>t DEF Handling, Id
  <2> QED BY <2>1 DEF Quiet, QuietEntries, QuietWorkers, QuietThreads, MissingInv
<1>7. ExclusiveClaim'
  BY DEF Quiet, QuietEntries, QuietWorkers, QuietThreads, ExclusiveClaim
<1>8. UncheckedInv'
  <2>1. UncheckedIsQueued'
    BY <1>r
    DEF Quiet, QuietEntries, QuietWorkers, QuietThreads, UncheckedInv, UncheckedIsQueued, Pending, Id
  <2> QED BY <2>1 DEF Quiet, QuietEntries, QuietWorkers, QuietThreads, UncheckedInv
<1>9. FilledInv'
  BY <1>r DEF Quiet, QuietEntries, QuietWorkers, QuietThreads, FilledInv, Id
<1>10. DoneInv'
  <2>1. DoneIsPublished'
    BY <1>r
    DEF Quiet, QuietEntries, QuietWorkers, QuietThreads, DoneInv, DoneIsPublished, Processed, HasContent, Id
  <2> QED BY <2>1 DEF Quiet, QuietEntries, QuietWorkers, QuietThreads, DoneInv, HasContent
<1> QED BY <1>1, <1>2, <1>3, <1>4, <1>5, <1>6, <1>7, <1>8, <1>9, <1>10

\* What does not change is quiet.
LEMMA UnchangedIsQuiet ==
  /\ UNCHANGED workque => QuietEntries
  /\ UNCHANGED qaVars => QuietWorkers
  /\ MissingInv /\ UNCHANGED managerVars => QuietThreads
<1>1. UNCHANGED workque => QuietEntries
  BY DEF QuietEntries
<1>2. UNCHANGED qaVars => QuietWorkers
  BY DEF QuietWorkers, Held, qaVars
<1>3. MissingInv /\ UNCHANGED managerVars => QuietThreads
  BY DEF QuietThreads, Handling, MissingInv, managerVars, mrVars
<1> QED BY <1>1, <1>2, <1>3

\* Duplicates and publishing in kvDataInputd are quiet.
LEMMA InputQuiet ==
  ASSUME IInv, UNCHANGED <<qaVars, managerVars>>,
         \/ \E k \in Key, m \in Message, f \in Filters : Duplicate(k, m, f)
         \/ \E i \in Id : PublishData(i) \/ PublishDropped(i)
  PROVE  Quiet
<1>1. QuietWorkers /\ QuietThreads
  BY UnchangedIsQuiet DEF IInv
<1>2. /\ UNCHANGED <<workque, row, nextId>>
      /\ checked \subseteq checked' /\ unqueued \subseteq unqueued'
  BY DEF Duplicate, PublishData, PublishDropped, storeVars, inputVars
<1> QED BY <1>1, <1>2, UnchangedIsQuiet DEF Quiet

\* A worker that goes on with its batch, fails, stops, dies or is restarted is quiet, and
\* so is a late delivery by Kafka.
LEMMA QaQuiet ==
  ASSUME IInv, UNCHANGED <<inputVars, managerVars>>,
         \/ \E w \in Worker : \/ NextOfBatch(w) \/ ProcessingFails(w) \/ Stop(w) \/ Exit(w)
                               \/ Crash(w) \/ Restart(w)
         \/ \E i \in Id : Deliver(i)
  PROVE  Quiet
<1> USE DEF IInv, TypeInv, TypeOK
<1>1. QuietThreads
  BY UnchangedIsQuiet
<1>2. UNCHANGED <<workque, row, nextId, unqueued>> /\ checked \subseteq checked'
  BY DEF NextOfBatch, ProcessingFails, Stop, Exit, Crash, Restart, Deliver, storeVars, inputVars
<1>3. QuietWorkers
  <2>1. ASSUME NEW w \in Worker, NextOfBatch(w) PROVE QuietWorkers
    BY <2>1 DEF NextOfBatch, QuietWorkers, Held, QaTypeOK
  <2>2. ASSUME NEW w \in Worker, ProcessingFails(w) PROVE QuietWorkers
    BY <2>2 DEF ProcessingFails, QuietWorkers, Held, QaTypeOK
  <2>3. ASSUME NEW w \in Worker, Stop(w) PROVE QuietWorkers
    BY <2>3 DEF Stop, QuietWorkers, Held, QaTypeOK
  <2>4. ASSUME NEW w \in Worker, Exit(w) PROVE QuietWorkers
    BY <2>4 DEF Exit, QuietWorkers, Held, QaTypeOK
  <2>5. ASSUME NEW w \in Worker, Crash(w) PROVE QuietWorkers
    BY <2>5 DEF Crash, QuietWorkers, Held, QaTypeOK
  <2>6. ASSUME NEW w \in Worker, Restart(w) PROVE QuietWorkers
    BY <2>6 DEF Restart, QuietWorkers, Held, QaTypeOK
  <2>7. ASSUME NEW i \in Id, Deliver(i) PROVE QuietWorkers
    BY <2>7 DEF Deliver, QuietWorkers, Held
  <2> QED BY <2>1, <2>2, <2>3, <2>4, <2>5, <2>6, <2>7
<1> QED BY <1>1, <1>2, <1>3, UnchangedIsQuiet DEF Quiet

\* MissingRunner is quiet but for creating observations and queueing them; so are
\* WorkQueueMover and a restart of kvManagerd.
LEMMA ManagerQuiet ==
  ASSUME IInv, UNCHANGED <<inputVars, qaVars>>,
         \/ FindAllMissing \/ AllCreated \/ SetLastFindAllMissingRuntime
         \/ \E k \in Key : CreateObservationFails(k)
         \/ \E i \in Id : MissingBegin(i)
         \/ MissingSerializeError \/ MissingForeignKeyError
         \/ CleanDelete \/ CleanInsert \/ CleanCommit \/ ManagerRestart
  PROVE  Quiet
<1> USE DEF IInv, TypeInv, TypeOK
<1>1. QuietWorkers
  BY UnchangedIsQuiet
<1>2. UNCHANGED <<row, nextId, checked, unqueued>>
  BY DEF FindAllMissing, AllCreated, SetLastFindAllMissingRuntime, CreateObservationFails,
         MissingBegin, MissingSerializeError, MissingForeignKeyError, CleanDelete, CleanInsert,
         CleanCommit, ManagerRestart, storeVars, inputVars
<1>3. QuietEntries
  <2>1. CASE CleanCommit
    BY <2>1, KvStoreAssumption DEF CleanCommit, TooOld, QuietEntries, NoEntry, StoreTypeOK, EntryInv
  <2>2. CASE UNCHANGED workque
    BY <2>2, UnchangedIsQuiet
  <2> QED BY <2>1, <2>2
          DEF FindAllMissing, AllCreated, SetLastFindAllMissingRuntime, CreateObservationFails,
              MissingBegin, MissingSerializeError, MissingForeignKeyError, CleanDelete,
              CleanInsert, ManagerRestart, storeVars
<1>4. QuietThreads
  <2>1. CASE FindAllMissing \/ AllCreated \/ SetLastFindAllMissingRuntime
    BY <2>1 DEF FindAllMissing, AllCreated, SetLastFindAllMissingRuntime, QuietThreads, Handling,
                MissingInv
  <2>2. CASE \E k \in Key : CreateObservationFails(k)
    BY <2>2 DEF CreateObservationFails, QuietThreads, Handling, MissingInv
  <2>3. ASSUME NEW i \in Id, MissingBegin(i) PROVE QuietThreads
    BY <2>3, KvStoreAssumption DEF MissingBegin, QuietThreads, Handling, MissingInv, Id
  <2>4. CASE MissingSerializeError \/ MissingForeignKeyError
    BY <2>4 DEF MissingSerializeError, MissingForeignKeyError, QuietThreads, Handling, MissingInv,
                ManagerTypeOK, Id
  <2>5. CASE CleanDelete \/ CleanInsert \/ CleanCommit
    BY <2>5 DEF CleanDelete, CleanInsert, CleanCommit, mrVars, QuietThreads, Handling, MissingInv
  <2>6. CASE ManagerRestart
    BY <2>6 DEF ManagerRestart, QuietThreads, Handling
  <2> QED BY <2>1, <2>2, <2>3, <2>4, <2>5, <2>6
<1> QED BY <1>1, <1>2, <1>3, <1>4 DEF Quiet

\* Time passing for a processed entry is quiet.
LEMMA TimeQuiet == IInv /\ TimeStep => Quiet
<1> SUFFICES ASSUME IInv, TimeStep PROVE Quiet
  OBVIOUS
<1>1. QuietWorkers /\ QuietThreads
  BY UnchangedIsQuiet DEF IInv, TimeStep
<1>2. PICK i \in Id : QaStopAges(i)
  BY DEF TimeStep
<1>3. QuietEntries
  BY <1>2 DEF QaStopAges, QuietEntries, IInv, TypeInv, TypeOK, StoreTypeOK, Entry
<1>4. UNCHANGED <<row, nextId, checked, unqueued>>
  BY <1>2 DEF QaStopAges, TimeStep, inputVars
<1> QED BY <1>1, <1>3, <1>4 DEF Quiet

----------------------------------------------------------------------------
(* The actions that create, claim, check, release or finish an observation.  *)

\* The types of what the actions below read, in the form the proofs use them.
LEMMA TypeFacts ==
  ASSUME TypeInv
  PROVE  /\ nextId \in 1..(MaxId + 1)
         /\ \A k \in Key : row[k] \in Row /\ row[k].id \in 0..MaxId
         /\ \A i \in Id : workque[i] \in Entry
         /\ \A w \in Worker : Held(w) \subseteq Id /\ cur[w] \in 0..MaxId
         /\ Handling \subseteq Id /\ mrMissing \subseteq Id
         /\ mrCur \in 0..MaxId /\ completing \in 0..MaxId
<1>1. nextId \in 1..(MaxId + 1) /\ (\A k \in Key : row[k] \in Row /\ row[k].id \in 0..MaxId)
      /\ \A i \in Id : workque[i] \in Entry
  BY DEF TypeInv, TypeOK, StoreTypeOK, Row
<1>2. \A w \in Worker : Held(w) \subseteq Id /\ cur[w] \in 0..MaxId
  BY DEF TypeInv, TypeOK, QaTypeOK, Held, Id
<1>3. Handling \subseteq Id /\ mrMissing \subseteq Id /\ mrCur \in 0..MaxId
      /\ completing \in 0..MaxId
  BY DEF TypeInv, TypeOK, ManagerTypeOK, Handling, Id
<1> QED BY <1>1, <1>2, <1>3

\* A store by DataUpdateTransaction keeps the invariant: the new observationid is unknown to
\* everybody, and the old one goes from observations and workque together.
LEMMA StoreStep ==
  ASSUME IInv, TypeInv', UNCHANGED <<qaVars, managerVars>>,
         NEW k \in Key, NEW m \in Message, NEW f \in Filters, NEW q \in QaIds, NEW data \in Row,
         data.id = nextId, data.raw => ~OnlyHqcData(m) \/ row[k].raw,
         Store(k, m, f, q, data)
  PROVE  IInv'
<1> USE KvStoreAssumption DEF IInv
<1> DEFINE old == row[k].id
<1>t. /\ nextId \in Id /\ nextId' = nextId + 1
      /\ \A l \in Key : row[l].id \in 0..MaxId
      /\ \A w \in Worker : Held(w) \subseteq Id /\ cur[w] \in 0..MaxId
      /\ Handling \subseteq Id /\ mrMissing \subseteq Id
      /\ mrCur \in 0..MaxId /\ completing \in 0..MaxId
  BY TypeFacts DEF Store, Id
<1>u. /\ \A w \in Worker : Held(w)' = Held(w) /\ pc'[w] = pc[w] /\ cur'[w] = cur[w]
      /\ Handling' = Handling /\ mrMissing' = mrMissing /\ mrCur' = mrCur
      /\ completing' = completing /\ unsent' = unsent
  BY DEF qaVars, managerVars, mrVars, Held, Handling
<1>1. row'[k] = data /\ \A l \in Key : l # k => row'[l] = row[l]
  BY DEF Store, TypeInv, TypeOK, StoreTypeOK
<1>2. /\ workque'[nextId].on =>
            /\ ~workque'[nextId].process_start
            /\ workque'[nextId].qa_start = "null" /\ workque'[nextId].qa_stop = "null"
      /\ \A i \in Id : i # nextId /\ i # old => workque'[i] = workque[i]
      /\ old # 0 => ~workque'[old].on
  <2>1. ~workque[nextId].on
    BY <1>t DEF ForeignKeyInv, Current, FreshInv, Id
  <2>2. old # nextId
    BY <1>t DEF FreshInv, Id
  <2>3. CascadeDelete(old) \in [Id -> Entry]
    BY <1>t, RecordTypes DEF CascadeDelete, TypeInv, TypeOK, StoreTypeOK, Id
  <2>4. /\ \A i \in Id : i # old => CascadeDelete(old)[i] = workque[i]
        /\ old # 0 => ~CascadeDelete(old)[old].on
    BY <1>t DEF CascadeDelete, NoEntry, TypeInv, TypeOK, StoreTypeOK, Id
  <2>5. workque' = CascadeDelete(old)
        \/ workque' = [CascadeDelete(old) EXCEPT ![nextId] = NewEntry(FALSE, q)]
    BY DEF Store
  <2> QED BY <1>t, <2>1, <2>2, <2>3, <2>4, <2>5 DEF NewEntry, Id
<1>3. FreshInv'
  BY <1>t, <1>u, <1>1 DEF FreshInv, Id
<1>4. \A l \in Key : l # k /\ row[l].id # 0 => row[l].id # old /\ row[l].id # nextId
  BY <1>t DEF FreshInv, Id
<1>5. \A i \in Id : i # nextId /\ Current(i)' => Current(i) /\ i # old
  BY <1>t, <1>1, <1>4 DEF Current, Id
<1>6. ForeignKeyInv'
  <2> SUFFICES ASSUME NEW i \in Id, workque'[i].on PROVE \E l \in Key : row'[l].id = i
    BY DEF ForeignKeyInv, Current
  <2>1. CASE i = nextId
    BY <1>1, <2>1
  <2>2. CASE i # nextId
    BY <1>1, <1>2, <1>t, <2>2 DEF ForeignKeyInv, Current, Id
  <2> QED BY <2>1, <2>2
<1>7. EntryInv'
  BY <1>t, <1>2 DEF EntryInv, Id
<1>8. \A w \in Worker : nextId \notin Held(w)
  BY <1>t DEF FreshInv, Id
<1>9. ClaimInv'
  BY <1>t, <1>u, <1>2, <1>8 DEF ClaimInv, Id
<1>10. CompleteInv'
  <2>1. completing # nextId
    BY <1>t DEF FreshInv, Id
  <2> QED BY <1>t, <1>u, <1>2, <1>5, <2>1 DEF CompleteInv, Id
<1>11. MissingInv'
  <2>1. nextId \notin Handling
    BY <1>t DEF FreshInv, Handling, Id
  <2> QED BY <1>t, <1>u, <1>2, <2>1 DEF MissingInv, Id
<1>12. ExclusiveClaim'
  BY <1>u DEF ExclusiveClaim
<1>13. UncheckedInv'
  <2>1. unqueued \subseteq unqueued'
    BY DEF Store
  <2>2. ASSUME data.raw
        PROVE  \/ workque'[nextId].on /\ workque'[nextId].qa_stop = "null"
               \/ nextId \in unqueued'
    <3>1. CASE f.addToWorkQueue /\ ~Bypasses(m, old)
      <4>1. workque' = [CascadeDelete(old) EXCEPT ![nextId] = NewEntry(FALSE, q)]
        BY <3>1 DEF Store
      <4>2. CascadeDelete(old) \in [Id -> Entry]
        BY <1>t, RecordTypes DEF CascadeDelete, TypeInv, TypeOK, StoreTypeOK, Id
      <4>3. workque'[nextId] = NewEntry(FALSE, q)
        BY <1>t, <4>1, <4>2
      <4> QED BY <4>3 DEF NewEntry
    <3>2. CASE ~(f.addToWorkQueue /\ ~Bypasses(m, old))
      <4>1. ~f.addToWorkQueue \/ old \in unqueued
        BY <2>2, <3>2 DEF Bypasses, UncheckedInv, UncheckedIsQueued
      <4>2. unqueued' = unqueued \cup {nextId}
        BY <2>2, <3>2, <4>1, Zenon DEF Store
      <4> QED BY <4>2
    <3> QED BY <3>1, <3>2
  <2>3. UncheckedIsQueued'
    BY <1>t, <1>1, <1>2, <1>4, <2>1, <2>2 DEF UncheckedInv, UncheckedIsQueued, Pending, Id
  <2>4. \A l \in Key : row'[l].raw => row'[l].id # 0
    BY <1>t, <1>1 DEF UncheckedInv, Id
  <2>5. \A w \in Worker : pc[w] \in {"send", "mark"} => cur[w] \in Held(w)
    BY DEF TypeInv, WorkerInv, Held
  <2>6. \A w \in Worker, l \in Key :
           pc'[w] \in {"send", "mark"} /\ row'[l].id = cur'[w] => ~row'[l].raw
    <3> SUFFICES ASSUME NEW w \in Worker, NEW l \in Key, pc[w] \in {"send", "mark"},
                        row'[l].id = cur[w]
                 PROVE  ~row'[l].raw
      BY <1>u
    <3>1. cur[w] # nextId
      BY <1>8, <2>5
    <3>2. l # k /\ row'[l] = row[l]
      BY <1>1, <3>1
    <3> QED BY <3>2 DEF UncheckedInv
  <2> QED BY <2>3, <2>4, <2>6 DEF UncheckedInv
<1>14. FilledInv'
  BY <1>t, <1>u, <1>1, <1>2, <1>4, <1>8 DEF FilledInv, Id
<1>15. DoneInv'
  <2>1. checked' = checked
    BY DEF Store
  <2>2. DoneIsPublished'
    BY <1>t, <1>u, <1>1, <1>2, <1>4, <2>1
    DEF DoneInv, DoneIsPublished, Processed, HasContent, Id
  <2>3. \A w \in Worker : pc[w] = "mark" => cur[w] \in Held(w)
    BY DEF TypeInv, WorkerInv, Held
  <2> QED BY <1>u, <1>1, <1>8, <2>1, <2>2, <2>3 DEF DoneInv, HasContent
<1> QED BY <1>3, <1>6, <1>7, <1>9, <1>10, <1>11, <1>12, <1>13, <1>14, <1>15

\* createObservation_ of MissingRunner keeps the invariant: an empty observation under a
\* new observationid, which is not queued.
LEMMA CreateObservationStep ==
  ASSUME IInv, TypeInv', UNCHANGED <<inputVars, qaVars>>, NEW k \in Key, CreateObservation(k)
  PROVE  IInv'
<1> USE KvStoreAssumption DEF IInv
<1>t. /\ nextId \in Id /\ nextId' = nextId + 1
      /\ \A l \in Key : row[l].id \in 0..MaxId
      /\ \A w \in Worker : Held(w) \subseteq Id /\ cur[w] \in 0..MaxId
      /\ Handling \subseteq Id /\ mrMissing \subseteq Id
      /\ mrCur \in 0..MaxId /\ completing \in 0..MaxId
  BY TypeFacts DEF CreateObservation, Id
<1>u. /\ \A w \in Worker : Held(w)' = Held(w) /\ pc'[w] = pc[w] /\ cur'[w] = cur[w]
      /\ mrMissing' = mrMissing \cup {nextId} /\ mrCur' = mrCur /\ Handling' = Handling \cup {nextId}
      /\ UNCHANGED <<workque, completing, unsent, checked, unqueued>>
  BY DEF CreateObservation, inputVars, qaVars, Held, Handling
<1>1. /\ row'[k].id = nextId /\ ~row'[k].raw /\ ~row'[k].num /\ ~row'[k].txt
      /\ row[k].id = 0 /\ \A l \in Key : l # k => row'[l] = row[l]
  BY DEF CreateObservation, NoRow, TypeInv, TypeOK, StoreTypeOK
<1>2. ~workque[nextId].on /\ (\A w \in Worker : nextId \notin Held(w)) /\ nextId \notin Handling
  BY <1>t DEF ForeignKeyInv, Current, FreshInv, Handling, Id
<1>3. FreshInv'
  BY <1>t, <1>u, <1>1 DEF FreshInv, Id
<1>4. ForeignKeyInv'
  BY <1>t, <1>u, <1>1 DEF ForeignKeyInv, Current, Id
<1>5. EntryInv' /\ ClaimInv' /\ ExclusiveClaim'
  BY <1>u DEF EntryInv, ClaimInv, ExclusiveClaim
<1>6. CompleteInv'
  <2>1. completing # nextId
    BY <1>t DEF FreshInv, Id
  <2> QED BY <1>u, <1>1, <2>1 DEF CompleteInv, Current
<1>7. MissingInv'
  <2>1. mrCur # nextId
    BY <1>t DEF FreshInv, Id
  <2> QED BY <1>u, <1>2, <2>1 DEF MissingInv
<1>8. UncheckedInv'
  BY <1>u, <1>1 DEF UncheckedInv, UncheckedIsQueued, Pending
<1>9. FilledInv'
  BY <1>u, <1>1, <1>2 DEF FilledInv
<1>10. DoneInv'
  BY <1>u, <1>1 DEF DoneInv, DoneIsPublished, Processed, HasContent
<1> QED BY <1>3, <1>4, <1>5, <1>6, <1>7, <1>8, <1>9, <1>10

\* addMissingData keeps the invariant when it is applied to an existing observation that
\* is not released and that no worker holds.
LEMMA AddMissingDataStep ==
  ASSUME IInv, TypeInv', UNCHANGED <<inputVars, qaVars, nextId, checked>>,
         NEW i \in Id, AddMissingData(i), Current(i),
         workque[i].on => ~workque[i].process_start,
         \A w \in Worker : i \notin Held(w),
         Handling' \subseteq Handling \ {i}, mrCur' \notin mrMissing',
         completing' \in {0, completing}, completing' # i
  PROVE  IInv'
<1> USE KvStoreAssumption DEF IInv
<1>t. /\ nextId \in Nat \ {0} /\ \A l \in Key : row[l].id \in 0..MaxId
      /\ \A w \in Worker : Held(w) \subseteq Id /\ cur[w] \in 0..MaxId
      /\ Handling \subseteq Id /\ mrMissing' \subseteq Handling' /\ mrCur' \in Handling' \cup {0}
      /\ completing \in 0..MaxId
  BY TypeFacts DEF Id, Handling
<1>u. /\ \A w \in Worker : Held(w)' = Held(w) /\ pc'[w] = pc[w] /\ cur'[w] = cur[w]
      /\ UNCHANGED <<nextId, unsent, checked, unqueued>>
  BY DEF inputVars, qaVars, Held
<1>1. \A l \in Key : /\ row'[l].id = row[l].id
                     /\ row[l].id # i => row'[l] = row[l]
                     /\ row[l].id = i /\ l \in WholeHour /\ l \in Expected => row'[l].filled
  <2>1. row' = [l \in Key |-> IF row[l].id = i THEN WithMissingData(l) ELSE row[l]]
    BY DEF AddMissingData
  <2>2. \A l \in Key : /\ WithMissingData(l).id = row[l].id
                       /\ l \in WholeHour /\ l \in Expected => WithMissingData(l).filled
    BY TypeFacts DEF WithMissingData, Row
  <2> QED BY <2>1, <2>2
<1>2. /\ workque'[i].on /\ workque'[i].process_start
      /\ workque'[i].qa_start = "null" /\ workque'[i].qa_stop = "null"
      /\ \A j \in Id : j # i => workque'[j] = workque[j]
  BY DEF AddMissingData, NewEntry, TypeInv, TypeOK, StoreTypeOK
<1>3. \A j : Current(j)' <=> Current(j)
  BY <1>1 DEF Current
<1>4. FreshInv'
  <2>1. \A j \in Handling : j < nextId
    BY DEF FreshInv, Handling
  <2> QED BY <1>t, <1>u, <1>1, <2>1 DEF FreshInv
<1>5. ForeignKeyInv'
  BY <1>2, <1>3 DEF ForeignKeyInv
<1>6. EntryInv'
  BY <1>2 DEF EntryInv
<1>7. ClaimInv'
  BY <1>t, <1>u, <1>2 DEF ClaimInv
<1>8. CompleteInv'
  BY <1>t, <1>2, <1>3 DEF CompleteInv, Id
<1>9. MissingInv'
  BY <1>t, <1>u, <1>2 DEF MissingInv
<1>10. ExclusiveClaim'
  BY <1>u DEF ExclusiveClaim
<1>11. \A w \in Worker : pc[w] \in {"send", "mark"} => cur[w] # i
  BY DEF TypeInv, WorkerInv, Held
<1>12. UncheckedInv'
  <2>1. UncheckedIsQueued'
    BY <1>t, <1>u, <1>1, <1>2 DEF UncheckedInv, UncheckedIsQueued, Pending, Id
  <2>2. \A l \in Key : row'[l].raw => row'[l].id # 0
    BY <1>1 DEF UncheckedInv, Id
  <2>3. \A w \in Worker, l \in Key :
           pc'[w] \in {"send", "mark"} /\ row'[l].id = cur'[w] => ~row'[l].raw
    BY <1>u, <1>1, <1>11 DEF UncheckedInv
  <2> QED BY <2>1, <2>2, <2>3 DEF UncheckedInv
<1>13. FilledInv'
  BY <1>t, <1>u, <1>1, <1>2 DEF FilledInv, Id
<1>14. DoneInv'
  <2>1. DoneIsPublished'
    BY <1>t, <1>u, <1>1, <1>2 DEF DoneInv, DoneIsPublished, Processed, HasContent, Id
  <2> QED BY <1>u, <1>1, <1>11, <2>1 DEF DoneInv, HasContent
<1> QED BY <1>4, <1>5, <1>6, <1>7, <1>8, <1>9, <1>10, <1>12, <1>13, <1>14

\* ObservationComplete picks an entry and later, if its observation is still there,
\* completes and releases it; both keep the invariant.
LEMMA CompleteStep ==
  ASSUME IInv, TypeInv', UNCHANGED <<inputVars, qaVars>>,
         CompleteApply \/ \E i \in Id : CompleteSelect(i)
  PROVE  IInv'
<1> USE KvStoreAssumption DEF IInv
<1>1. CASE CompleteApply /\ Current(completing)
  <2>1. completing \in Id
    BY <1>1, TypeFacts DEF CompleteApply, Id
  <2>2. workque[completing].on /\ ~workque[completing].process_start
    BY <1>1 DEF CompleteApply, CompleteInv
  <2>3. \A w \in Worker : completing \notin Held(w)
    BY <2>2 DEF ClaimInv
  <2>4. Handling' = Handling /\ mrCur' \notin mrMissing' /\ completing' = 0
    BY <1>1 DEF CompleteApply, mrVars, Handling, MissingInv
  <2>5. completing \notin Handling
    BY <2>2 DEF MissingInv
  <2>6. AddMissingData(completing) /\ UNCHANGED <<nextId, checked>>
    BY <1>1 DEF CompleteApply
  <2> QED BY <1>1, <2>1, <2>2, <2>3, <2>4, <2>5, <2>6, AddMissingDataStep DEF Id
<1>2. CASE CompleteApply /\ ~Current(completing)
  <2>1. UNCHANGED <<row, workque, nextId, checked, unqueued>>
    BY <1>2 DEF CompleteApply, inputVars
  <2>2. QuietThreads
    BY <1>2 DEF CompleteApply, mrVars, QuietThreads, Handling, MissingInv
  <2> QED BY <2>1, <2>2, UnchangedIsQuiet, QuietStep DEF Quiet
<1>3. ASSUME NEW i \in Id, CompleteSelect(i) PROVE IInv'
  <2>u. /\ \A w \in Worker : Held(w)' = Held(w)
        /\ Handling' = Handling
        /\ UNCHANGED <<row, workque, nextId, checked, unqueued, unsent, pc, cur, mrMissing, mrCur>>
    BY <1>3 DEF CompleteSelect, storeVars, inputVars, qaVars, mrVars, Held, Handling
  <2>1. workque[i].on /\ ~workque[i].process_start /\ completing' = i
    BY <1>3 DEF CompleteSelect
  <2>2. FreshInv'
    <3>1. i < nextId
      BY <2>1 DEF ForeignKeyInv, Current, FreshInv
    <3> QED BY <2>u, <2>1, <3>1 DEF FreshInv
  <2>3. CompleteInv'
    BY <2>u, <2>1 DEF CompleteInv
  <2>4. ForeignKeyInv' /\ EntryInv' /\ ClaimInv' /\ MissingInv' /\ ExclusiveClaim'
    BY <2>u DEF ForeignKeyInv, Current, EntryInv, ClaimInv, MissingInv, ExclusiveClaim
  <2>5. UncheckedInv' /\ FilledInv' /\ DoneInv'
    BY <2>u DEF UncheckedInv, UncheckedIsQueued, Pending, FilledInv, DoneInv, DoneIsPublished,
                Processed, HasContent
  <2> QED BY <2>2, <2>3, <2>4, <2>5
<1> QED BY <1>1, <1>2, <1>3

\* MissingRunner queues an observation it has created, and keeps the invariant.
LEMMA MissingCommitStep ==
  ASSUME IInv, TypeInv', UNCHANGED <<inputVars, qaVars>>, MissingCommit
  PROVE  IInv'
<1> USE KvStoreAssumption DEF IInv
<1>1. mrCur \in Id /\ mrCur \in Handling
  BY TypeFacts DEF MissingCommit, TypeInv, MissingPcInv, Handling, Id
<1>2. ~workque[mrCur].on /\ \A w \in Worker : mrCur \notin Held(w)
  BY <1>1 DEF MissingInv
<1>3. Handling' \subseteq Handling \ {mrCur} /\ mrCur' \notin mrMissing'
  BY <1>1, TypeFacts DEF MissingCommit, Handling, MissingInv, Id
<1>4. AddMissingData(mrCur) /\ Current(mrCur) /\ UNCHANGED <<nextId, checked, completing>>
  BY DEF MissingCommit
<1>5. completing # mrCur
  BY <1>1, <1>2, <1>4 DEF CompleteInv, Id
<1> QED BY <1>1, <1>2, <1>3, <1>4, <1>5, AddMissingDataStep

----------------------------------------------------------------------------
(* The steps of a worker.                                                    *)

\* Claiming a batch keeps the invariant: what is ready, or has an old claim, is in nobody's
\* hands.
LEMMA SelectStep ==
  ASSUME IInv, TypeInv', UNCHANGED <<inputVars, managerVars>>,
         NEW w \in Worker, SelectDataForControl(w)
  PROVE  IInv'
<1> USE KvStoreAssumption DEF IInv
<1> DEFINE Claimed(S, i) ==
          /\ workque' = [j \in Id |-> IF j \in S
                                      THEN [workque[j] EXCEPT !.qa_start = "recent"]
                                      ELSE workque[j]]
          /\ cur' = [cur EXCEPT ![w] = i]
          /\ batch' = [batch EXCEPT ![w] = S \ {i}]
<1>0. PICK S \in Selections(w) : \E i \in S : Claimed(S, i)
  BY DEF SelectDataForControl
<1>1. PICK i \in S : Claimed(S, i)
  BY <1>0
<1>2. S \subseteq FailedData(w) \/ S \subseteq ReadyData(w)
  BY <1>0 DEF Selections, Limited, LatestData
<1>3. \A j \in S : /\ j \in Id /\ workque[j].on /\ workque[j].process_start
                   /\ workque[j].qa_start # "recent"
  BY <1>2 DEF FailedData, ReadyData, Pending, EntryInv
<1>t. /\ \A l \in Key : row[l].id \in 0..MaxId
      /\ \A v \in Worker : Held(v) \subseteq Id
      /\ Handling \subseteq Id /\ completing \in 0..MaxId
  BY TypeFacts
<1>4. \A j \in Id : /\ workque'[j].on = workque[j].on
                    /\ workque'[j].process_start = workque[j].process_start
                    /\ workque'[j].qa_stop = workque[j].qa_stop
                    /\ j \in S => workque'[j].qa_start = "recent"
                    /\ j \notin S => workque'[j] = workque[j]
  BY <1>1, TypeFacts DEF Entry
<1>5. Held(w)' \subseteq S /\ \A v \in Worker : v # w => Held(v)' = Held(v)
  BY <1>1 DEF Held, TypeInv, TypeOK, QaTypeOK
<1>6. \A v \in Worker : pc'[v] \in {"send", "mark"} => pc'[v] = pc[v] /\ cur'[v] = cur[v]
  <2>1. pc'[w] = "check" /\ \A v \in Worker : v # w => pc'[v] = pc[v]
    BY DEF SelectDataForControl, TypeInv, TypeOK, QaTypeOK
  <2>2. \A v \in Worker : v # w => cur'[v] = cur[v]
    BY <1>1 DEF TypeInv, TypeOK, QaTypeOK
  <2> QED BY <2>1, <2>2
<1>u. /\ UNCHANGED <<row, nextId, checked, unqueued, unsent, completing, mrMissing, mrCur>>
      /\ Handling' = Handling
  BY DEF SelectDataForControl, inputVars, managerVars, mrVars, Handling
<1>7. \A j \in S : j < nextId
  BY <1>3 DEF ForeignKeyInv, Current, FreshInv
<1>8. FreshInv'
  BY <1>5, <1>7, <1>u DEF FreshInv
<1>9. ForeignKeyInv' /\ EntryInv'
  BY <1>3, <1>4, <1>u DEF ForeignKeyInv, Current, EntryInv
<1>10. ClaimInv'
  <2> SUFFICES ASSUME NEW v \in Worker, NEW j \in Held(v)', workque'[j].on
               PROVE  /\ workque'[j].process_start
                      /\ workque'[j].qa_start # "null"
                      /\ SlowWorkers \/ workque'[j].qa_start = "recent"
    BY DEF ClaimInv
  <2>1. CASE j \in S
    BY <2>1, <1>3, <1>4
  <2>2. CASE j \notin S
    BY <2>2, <1>t, <1>4, <1>5 DEF ClaimInv
  <2> QED BY <2>1, <2>2
<1>11. CompleteInv'
  BY <1>t, <1>4, <1>u DEF CompleteInv, Current, Id
<1>12. MissingInv'
  <2>1. \A j \in S : j \notin Handling
    BY <1>3 DEF MissingInv
  <2> QED BY <1>t, <1>4, <1>5, <1>u, <2>1 DEF MissingInv
<1>13. ExclusiveClaim'
  <2>1. ASSUME ~SlowWorkers, NEW v \in Worker PROVE S \cap Held(v) = {}
    BY <2>1, <1>3 DEF ClaimInv
  <2> QED BY <1>5, <2>1 DEF ExclusiveClaim
<1>14. UncheckedInv'
  <2>1. UncheckedIsQueued'
    BY <1>t, <1>4, <1>u DEF UncheckedInv, UncheckedIsQueued, Pending, Id
  <2> QED BY <1>6, <1>u, <2>1 DEF UncheckedInv
<1>15. FilledInv'
  BY <1>t, <1>3, <1>4, <1>5, <1>u DEF FilledInv, Id
<1>16. DoneInv'
  <2>1. DoneIsPublished'
    BY <1>t, <1>4, <1>u DEF DoneInv, DoneIsPublished, Processed, HasContent, Id
  <2> QED BY <1>6, <1>u, <2>1 DEF DoneInv, HasContent
<1> QED BY <1>8, <1>9, <1>10, <1>11, <1>12, <1>13, <1>14, <1>15, <1>16

\* Running the checks keeps the invariant: the flags of one observation are written, and
\* a worker goes straight to markProcessDone only when there is nothing to send.
LEMMA RunChecksStep ==
  ASSUME IInv, TypeInv', UNCHANGED <<inputVars, managerVars>>, NEW w \in Worker, RunChecks(w)
  PROVE  IInv'
<1> USE DEF IInv
<1>u. /\ \A v \in Worker : Held(v)' = Held(v)
      /\ Handling' = Handling
      /\ UNCHANGED <<workque, nextId, checked, unqueued, unsent, cur, completing, mrMissing, mrCur>>
  BY DEF RunChecks, inputVars, managerVars, mrVars, Held, Handling
<1>1. \A k \in Key : /\ row'[k].id = row[k].id /\ row'[k].num = row[k].num
                     /\ row'[k].txt = row[k].txt /\ row'[k].filled = row[k].filled
                     /\ row'[k].raw => row[k].raw /\ row[k].id # cur[w]
  BY TypeFacts DEF RunChecks, Row
<1>2. /\ \A v \in Worker : v # w => pc'[v] = pc[v]
      /\ pc'[w] = "mark" => \A k \in Key : row[k].id = cur[w] => ~HasContent(k)
  BY DEF RunChecks, TypeInv, TypeOK, QaTypeOK
<1>3. FreshInv' /\ ForeignKeyInv' /\ CompleteInv'
  BY <1>u, <1>1 DEF FreshInv, ForeignKeyInv, CompleteInv, Current
<1>4. EntryInv' /\ ClaimInv' /\ MissingInv' /\ ExclusiveClaim'
  BY <1>u DEF EntryInv, ClaimInv, MissingInv, ExclusiveClaim
<1>5. UncheckedInv'
  BY <1>u, <1>1, <1>2 DEF UncheckedInv, UncheckedIsQueued, Pending
<1>6. FilledInv'
  BY <1>u, <1>1 DEF FilledInv
<1>7. DoneInv'
  BY <1>u, <1>1, <1>2 DEF DoneInv, DoneIsPublished, Processed, HasContent
<1> QED BY <1>3, <1>4, <1>5, <1>6, <1>7

\* sendToKafka keeps the invariant: a worker leaves it with a confirmation, or because it
\* is stopping.
LEMMA SendStep ==
  ASSUME IInv, TypeInv', UNCHANGED <<inputVars, managerVars>>, NEW w \in Worker,
         SendConfirmed(w) \/ SendUnconfirmed(w)
  PROVE  IInv'
<1> USE DEF IInv
<1>u. /\ \A v \in Worker : Held(v)' = Held(v)
      /\ Handling' = Handling
      /\ UNCHANGED <<workque, row, nextId, unqueued, cur, completing, mrMissing, mrCur>>
  BY DEF SendConfirmed, SendUnconfirmed, storeVars, inputVars, managerVars, mrVars, Held, Handling
<1>1. checked \subseteq checked' /\ unsent \subseteq unsent'
  BY DEF SendConfirmed, SendUnconfirmed, storeVars
<1>2. pc[w] = "send" /\ (pc'[w] = "mark" => cur[w] \in checked' \cup unsent')
  BY DEF SendConfirmed, SendUnconfirmed, TypeInv, TypeOK, QaTypeOK
<1>3. \A v \in Worker : v # w => pc'[v] = pc[v]
  BY DEF SendConfirmed, SendUnconfirmed, TypeInv, TypeOK, QaTypeOK
<1>4. FreshInv' /\ ForeignKeyInv' /\ CompleteInv'
  BY <1>u DEF FreshInv, ForeignKeyInv, CompleteInv, Current
<1>5. EntryInv' /\ ClaimInv' /\ MissingInv' /\ ExclusiveClaim'
  BY <1>u DEF EntryInv, ClaimInv, MissingInv, ExclusiveClaim
<1>6. UncheckedInv'
  BY <1>u, <1>2, <1>3 DEF UncheckedInv, UncheckedIsQueued, Pending
<1>7. FilledInv'
  BY <1>u DEF FilledInv
<1>8. DoneInv'
  BY <1>u, <1>1, <1>2, <1>3 DEF DoneInv, DoneIsPublished, Processed, HasContent
<1> QED BY <1>4, <1>5, <1>6, <1>7, <1>8

\* markProcessDone keeps the invariant: what it marks is checked and sent.
LEMMA MarkProcessDoneStep ==
  ASSUME IInv, TypeInv', UNCHANGED <<inputVars, managerVars>>, NEW w \in Worker,
         MarkProcessDone(w)
  PROVE  IInv'
<1> USE KvStoreAssumption DEF IInv
<1>t. cur[w] \in Id /\ cur[w] \in Held(w)
  BY TypeFacts DEF MarkProcessDone, TypeInv, WorkerInv, Held, Id
<1>u. /\ Handling' = Handling
      /\ UNCHANGED <<row, nextId, checked, unqueued, unsent, completing, mrMissing, mrCur>>
  BY DEF MarkProcessDone, inputVars, managerVars, mrVars, Handling
<1>1. \A j \in Id : /\ workque'[j].on = workque[j].on
                    /\ workque'[j].process_start = workque[j].process_start
                    /\ workque'[j].qa_start = workque[j].qa_start
                    /\ j # cur[w] => workque'[j] = workque[j]
  BY <1>t, TypeFacts DEF MarkProcessDone, Entry, TypeInv, TypeOK, StoreTypeOK
<1>2. /\ \A v \in Worker : Held(v)' \subseteq Held(v)
      /\ \A v \in Worker : pc'[v] \in {"send", "mark"} => pc'[v] = pc[v] /\ cur'[v] = cur[v]
  <2>1. batch' = batch /\ pc'[w] = "run" /\ cur'[w] = 0
    BY DEF MarkProcessDone, TypeInv, TypeOK, QaTypeOK
  <2>2. \A v \in Worker : v # w => pc'[v] = pc[v] /\ cur'[v] = cur[v]
    BY DEF MarkProcessDone, TypeInv, TypeOK, QaTypeOK
  <2> QED BY <2>1, <2>2 DEF Held
<1>3. /\ \A l \in Key : row[l].id \in 0..MaxId
      /\ \A v \in Worker : Held(v) \subseteq Id
      /\ Handling \subseteq Id /\ completing \in 0..MaxId
  BY TypeFacts
<1>4. \A l \in Key : row[l].id = cur[w] =>
           ~row[l].raw /\ (HasContent(l) => row[l].id \in checked \cup unsent)
  BY DEF MarkProcessDone, UncheckedInv, DoneInv
<1>5. FreshInv' /\ ForeignKeyInv'
  BY <1>u, <1>1, <1>2 DEF FreshInv, ForeignKeyInv, Current
<1>6. EntryInv'
  BY <1>t, <1>1 DEF EntryInv, ClaimInv
<1>7. ClaimInv'
  BY <1>1, <1>2, <1>3 DEF ClaimInv
<1>8. CompleteInv'
  BY <1>u, <1>1, <1>3 DEF CompleteInv, Current, Id
<1>9. MissingInv'
  BY <1>u, <1>1, <1>2, <1>3 DEF MissingInv
<1>10. ExclusiveClaim'
  BY <1>2 DEF ExclusiveClaim
<1>11. UncheckedInv'
  <2>1. UncheckedIsQueued'
    BY <1>u, <1>1, <1>3, <1>4 DEF UncheckedInv, UncheckedIsQueued, Pending, Id
  <2> QED BY <1>u, <1>2, <2>1 DEF UncheckedInv
<1>12. FilledInv'
  BY <1>u, <1>1, <1>2, <1>3 DEF FilledInv, Id
<1>13. DoneInv'
  <2>1. DoneIsPublished'
    BY <1>u, <1>1, <1>3, <1>4 DEF DoneInv, DoneIsPublished, Processed, HasContent, Id
  <2> QED BY <1>u, <1>2, <2>1 DEF DoneInv, HasContent
<1> QED BY <1>5, <1>6, <1>7, <1>8, <1>9, <1>10, <1>11, <1>12, <1>13

\* A claim getting old keeps the invariant: nobody holds it, or workers may be slow.
LEMMA ClaimAgesStep ==
  ASSUME IInv, TypeInv', UNCHANGED <<inputVars, managerVars>>, NEW i \in Id, ClaimAges(i)
  PROVE  IInv'
<1> USE KvStoreAssumption DEF IInv
<1>u. /\ \A v \in Worker : Held(v)' = Held(v)
      /\ Handling' = Handling
      /\ UNCHANGED <<row, nextId, checked, unqueued, unsent, pc, cur, completing, mrMissing, mrCur>>
  BY DEF ClaimAges, qaVars, inputVars, managerVars, mrVars, Held, Handling
<1>1. \A j \in Id : /\ workque'[j].on = workque[j].on
                    /\ workque'[j].process_start = workque[j].process_start
                    /\ workque'[j].qa_stop = workque[j].qa_stop
                    /\ workque'[j].qa_start = "null" <=> workque[j].qa_start = "null"
                    /\ j # i => workque'[j] = workque[j]
  BY TypeFacts DEF ClaimAges, Entry, TypeInv, TypeOK, StoreTypeOK
<1>2. SlowWorkers \/ \A v \in Worker : i \notin Held(v)
  BY DEF ClaimAges
<1>3. /\ \A l \in Key : row[l].id \in 0..MaxId
      /\ \A v \in Worker : Held(v) \subseteq Id
      /\ Handling \subseteq Id /\ completing \in 0..MaxId
  BY TypeFacts
<1>4. FreshInv' /\ ForeignKeyInv' /\ EntryInv'
  BY <1>u, <1>1 DEF FreshInv, ForeignKeyInv, Current, EntryInv
<1>5. ClaimInv'
  BY <1>u, <1>1, <1>2, <1>3 DEF ClaimInv
<1>6. CompleteInv' /\ MissingInv'
  BY <1>u, <1>1, <1>3 DEF CompleteInv, Current, MissingInv, Id
<1>7. ExclusiveClaim'
  BY <1>u DEF ExclusiveClaim
<1>8. UncheckedInv'
  BY <1>u, <1>1, <1>3 DEF UncheckedInv, UncheckedIsQueued, Pending, Id
<1>9. FilledInv'
  BY <1>u, <1>1, <1>3 DEF FilledInv, Id
<1>10. DoneInv'
  BY <1>u, <1>1, <1>3 DEF DoneInv, DoneIsPublished, Processed, HasContent, Id
<1> QED BY <1>4, <1>5, <1>6, <1>7, <1>8, <1>9, <1>10

----------------------------------------------------------------------------

\* INSERT, UPDATE and REPLACE are stores of a row with the new observationid, whose raw flag
\* comes from the message or from the old row.
LEMMA StoreCases ==
  ASSUME TypeInv, NEW k \in Key, NEW m \in Message, NEW f \in Filters, NEW q \in QaIds,
         Insert(k, m, f, q) \/ Update(k, m, f, q) \/ Replace(k, m, f, q)
  PROVE  \E data \in Row : /\ data.id = nextId
                           /\ data.raw => ~OnlyHqcData(m) \/ row[k].raw
                           /\ Store(k, m, f, q, data)
<1>1. nextId \in 0..MaxId /\ row[k] \in Row
  <2>1. nextId <= MaxId
    BY DEF Insert, Update, Replace, Store
  <2> QED BY <2>1, TypeFacts, KvStoreAssumption
<1>2. CASE Insert(k, m, f, q) \/ Replace(k, m, f, q)
  <2> DEFINE d == [id |-> nextId, num |-> m.num, txt |-> m.txt, raw |-> ~OnlyHqcData(m),
                   filled |-> FALSE]
  <2>1. d \in Row /\ d.id = nextId /\ (d.raw => ~OnlyHqcData(m))
    BY <1>1 DEF Row, Message, OnlyHqcData
  <2> QED BY <1>2, <2>1 DEF Insert, Replace
<1>3. CASE Update(k, m, f, q)
  <2> DEFINE d == [id |-> nextId, num |-> m.num \/ row[k].num, txt |-> m.txt \/ row[k].txt,
                   raw |-> ~OnlyHqcData(m) \/ row[k].raw, filled |-> row[k].filled]
  <2>1. d \in Row /\ d.id = nextId /\ (d.raw => ~OnlyHqcData(m) \/ row[k].raw)
    BY <1>1 DEF Row, Message, OnlyHqcData
  <2> QED BY <1>3, <2>1 DEF Update
<1> QED BY <1>2, <1>3

\* Every step of the system keeps the inductive invariant.
LEMMA IInvStep == IInv /\ [Next]_vars => IInv'
<1> SUFFICES ASSUME IInv, [Next]_vars PROVE IInv'
  OBVIOUS
<1>0. TypeInv /\ TypeInv'
  BY TypeInvStep DEF IInv
<1>q. ASSUME Quiet PROVE IInv'
  BY <1>0, <1>q, QuietStep
<1>1. CASE InputStep
  <2>1. UNCHANGED <<qaVars, managerVars>>
    BY <1>1 DEF InputStep
  <2>2. ASSUME NEW k \in Key, NEW m \in Message, NEW f \in Filters, NEW q \in QaIds,
               Insert(k, m, f, q) \/ Update(k, m, f, q) \/ Replace(k, m, f, q)
        PROVE  IInv'
    BY <1>0, <2>1, <2>2, StoreCases, StoreStep
  <2>3. CASE \/ \E k \in Key, m \in Message, f \in Filters : Duplicate(k, m, f)
             \/ \E i \in Id : PublishData(i) \/ PublishDropped(i)
    BY <2>1, <2>3, <1>q, InputQuiet
  <2> QED BY <1>1, <2>2, <2>3 DEF InputStep, InputNext
<1>2. CASE QaStep
  <2>1. UNCHANGED <<inputVars, managerVars>>
    BY <1>2 DEF QaStep
  <2>2. CASE \/ \E w \in Worker : \/ NextOfBatch(w) \/ ProcessingFails(w) \/ Stop(w) \/ Exit(w)
                                   \/ Crash(w) \/ Restart(w)
             \/ \E i \in Id : Deliver(i)
    BY <2>1, <2>2, <1>q, QaQuiet
  <2>3. ASSUME NEW w \in Worker, SelectDataForControl(w) PROVE IInv'
    BY <1>0, <2>1, <2>3, SelectStep
  <2>4. ASSUME NEW w \in Worker, RunChecks(w) PROVE IInv'
    BY <1>0, <2>1, <2>4, RunChecksStep
  <2>5. ASSUME NEW w \in Worker, SendConfirmed(w) \/ SendUnconfirmed(w) PROVE IInv'
    BY <1>0, <2>1, <2>5, SendStep
  <2>6. ASSUME NEW w \in Worker, MarkProcessDone(w) PROVE IInv'
    BY <1>0, <2>1, <2>6, MarkProcessDoneStep
  <2>7. ASSUME NEW i \in Id, ClaimAges(i) PROVE IInv'
    BY <1>0, <2>1, <2>7, ClaimAgesStep
  <2> QED BY <1>2, <2>2, <2>3, <2>4, <2>5, <2>6, <2>7 DEF QaStep, QaNext, WorkerStep
<1>3. CASE ManagerStep
  <2>1. UNCHANGED <<inputVars, qaVars>>
    BY <1>3 DEF ManagerStep
  <2>2. CASE \/ FindAllMissing \/ AllCreated \/ SetLastFindAllMissingRuntime
             \/ \E k \in Key : CreateObservationFails(k)
             \/ \E i \in Id : MissingBegin(i)
             \/ MissingSerializeError \/ MissingForeignKeyError
             \/ CleanDelete \/ CleanInsert \/ CleanCommit \/ ManagerRestart
    BY <2>1, <2>2, <1>q, ManagerQuiet
  <2>3. CASE CompleteApply \/ \E i \in Id : CompleteSelect(i)
    BY <1>0, <2>1, <2>3, CompleteStep
  <2>4. ASSUME NEW k \in Key, CreateObservation(k) PROVE IInv'
    BY <1>0, <2>1, <2>4, CreateObservationStep
  <2>5. CASE MissingCommit
    BY <1>0, <2>1, <2>5, MissingCommitStep
  <2> QED BY <1>3, <2>2, <2>3, <2>4, <2>5 DEF ManagerStep, ManagerNext
<1>4. CASE TimeStep
  BY <1>4, <1>q, TimeQuiet
<1>5. CASE UNCHANGED vars
  <2>1. UNCHANGED <<workque, row, nextId, checked, unqueued>>
    BY <1>5 DEF vars, storeVars, inputVars
  <2>2. QuietWorkers /\ QuietThreads
    BY <1>5, UnchangedIsQuiet DEF vars, IInv
  <2> QED BY <2>1, <2>2, <1>q, UnchangedIsQuiet DEF Quiet
<1> QED BY <1>1, <1>2, <1>3, <1>4, <1>5 DEF Next

\* The inductive invariant holds in every reachable state.
THEOREM Invariance == Spec => []IInv
  BY IInvInit, IInvStep, PTL DEF Spec

\* For any number of workers, stations and observations, no two kvQabased processes work on
\* one observation as long as no batch takes longer than the 10 minutes of a claim.
THEOREM ClaimsAreExclusive == Spec => []ExclusiveClaim
<1>1. IInv => ExclusiveClaim
  BY DEF IInv
<1> QED BY <1>1, Invariance, PTL

\* Unchecked data is queued in every reachable state, however input, HQC, kvManagerd and
\* kvQabased interleave.
THEOREM UncheckedStaysQueued == Spec => []UncheckedIsQueued
<1>1. IInv => UncheckedIsQueued
  BY DEF IInv, UncheckedInv
<1> QED BY <1>1, Invariance, PTL

\* kvQabased never checks an observation before its missing values are filled in.
THEOREM ChecksSeeCompleteData == Spec => []CheckedIsComplete
<1>1. IInv => CheckedIsComplete
  <2> SUFFICES ASSUME IInv, NEW w \in Worker, NEW k \in Key, cur[w] # 0, row[k].id = cur[w],
                      k \in WholeHour, k \in Expected
               PROVE  row[k].filled
    BY DEF CheckedIsComplete
  <2>1. row[k].id \in Held(w)
    BY DEF Held
  <2> QED BY <2>1 DEF IInv, FilledInv
<1> QED BY <1>1, Invariance, PTL

\* An observation that is marked as processed has been published, unless there was nothing
\* to publish or a stopping worker gave up.
THEOREM MarkedIsPublished == Spec => []DoneIsPublished
<1>1. IInv => DoneIsPublished
  BY DEF IInv, DoneInv
<1> QED BY <1>1, Invariance, PTL

----------------------------------------------------------------------------
(* The action property: why no writer of workque resets a claim.             *)

\* What a step may do to the claims.
ClaimsKept ==
    \A i \in Id : workque[i].on /\ workque[i].qa_start # "null" /\ workque'[i].on
                     => workque'[i].qa_start # "null"

\* addMissingData resets an entry that has no claim yet, or that does not exist.
LEMMA AddMissingDataKeepsClaims ==
  ASSUME IInv, NEW i \in Id, AddMissingData(i), workque[i].on => ~workque[i].process_start
  PROVE  ClaimsKept
<1>1. workque[i].on => workque[i].qa_start = "null"
  BY DEF IInv, EntryInv
<1>2. \A j \in Id : j # i => workque'[j] = workque[j]
  BY DEF AddMissingData, IInv, TypeInv, TypeOK, StoreTypeOK
<1> QED BY <1>1, <1>2 DEF ClaimsKept

\* No step of the system takes a claim back.
LEMMA ClaimsKeptStep == IInv /\ [Next]_vars => ClaimsKept
<1> SUFFICES ASSUME IInv, [Next]_vars PROVE ClaimsKept
  OBVIOUS
<1> USE KvStoreAssumption
<1>t. /\ TypeInv /\ workque \in [Id -> Entry] /\ nextId \in 1..(MaxId + 1)
      /\ \A k \in Key : row[k].id \in 0..MaxId
  BY TypeFacts DEF IInv, TypeInv, TypeOK, StoreTypeOK
<1>q. ASSUME QuietEntries PROVE ClaimsKept
  BY <1>q DEF QuietEntries, ClaimsKept
<1>1. ASSUME NEW k \in Key, NEW m \in Message, NEW f \in Filters, NEW q \in QaIds,
             NEW data, Store(k, m, f, q, data)
      PROVE  ClaimsKept
  <2>1. nextId \in Id /\ ~workque[nextId].on
    BY <1>1, <1>t DEF Store, IInv, ForeignKeyInv, Current, FreshInv, Id
  <2>2. \A i \in Id : CascadeDelete(row[k].id)[i].on => CascadeDelete(row[k].id)[i] = workque[i]
    BY <1>t DEF CascadeDelete, NoEntry, Id
  <2>3. CascadeDelete(row[k].id) \in [Id -> Entry]
    BY <1>t, RecordTypes DEF CascadeDelete, Id
  <2>4. workque' = CascadeDelete(row[k].id)
        \/ workque' = [CascadeDelete(row[k].id) EXCEPT ![nextId] = NewEntry(FALSE, q)]
    BY <1>1 DEF Store
  <2> QED BY <2>1, <2>2, <2>3, <2>4 DEF ClaimsKept
<1>2. CASE InputStep
  <2>1. ASSUME NEW k \in Key, NEW m \in Message, NEW f \in Filters, NEW q \in QaIds,
               Insert(k, m, f, q) \/ Update(k, m, f, q) \/ Replace(k, m, f, q)
        PROVE  ClaimsKept
    BY <2>1, <1>1, <1>t, StoreCases
  <2>2. CASE \/ \E k \in Key, m \in Message, f \in Filters : Duplicate(k, m, f)
             \/ \E i \in Id : PublishData(i) \/ PublishDropped(i)
    BY <2>2, <1>2, <1>q, InputQuiet DEF InputStep, Quiet
  <2> QED BY <1>2, <2>1, <2>2 DEF InputStep, InputNext
<1>3. CASE QaStep
  <2>1. CASE \/ \E w \in Worker : \/ NextOfBatch(w) \/ ProcessingFails(w) \/ Stop(w) \/ Exit(w)
                                   \/ Crash(w) \/ Restart(w)
             \/ \E i \in Id : Deliver(i)
    BY <2>1, <1>3, <1>q, QaQuiet DEF QaStep, Quiet
  <2>2. ASSUME NEW w \in Worker, SelectDataForControl(w) PROVE ClaimsKept
    BY <2>2, <1>t DEF SelectDataForControl, ClaimsKept, Entry
  <2>3. ASSUME NEW w \in Worker, RunChecks(w) \/ SendConfirmed(w) \/ SendUnconfirmed(w)
        PROVE  ClaimsKept
    BY <2>3, <1>q, UnchangedIsQuiet DEF RunChecks, SendConfirmed, SendUnconfirmed, storeVars
  <2>4. ASSUME NEW w \in Worker, MarkProcessDone(w) PROVE ClaimsKept
    BY <2>4, <1>t DEF MarkProcessDone, ClaimsKept, Entry
  <2>5. ASSUME NEW i \in Id, ClaimAges(i) PROVE ClaimsKept
    BY <2>5, <1>t DEF ClaimAges, ClaimsKept, Entry
  <2> QED BY <1>3, <2>1, <2>2, <2>3, <2>4, <2>5 DEF QaStep, QaNext, WorkerStep
<1>4. CASE ManagerStep
  <2>1. CASE \/ FindAllMissing \/ AllCreated \/ SetLastFindAllMissingRuntime
             \/ \E k \in Key : CreateObservationFails(k)
             \/ \E i \in Id : MissingBegin(i)
             \/ MissingSerializeError \/ MissingForeignKeyError
             \/ CleanDelete \/ CleanInsert \/ CleanCommit \/ ManagerRestart
    BY <2>1, <1>4, <1>q, ManagerQuiet DEF ManagerStep, Quiet
  <2>2. CASE CompleteApply
    <3>1. CASE Current(completing)
      <4>1. completing \in Id /\ AddMissingData(completing)
        BY <2>2, <3>1, <1>t, TypeFacts DEF CompleteApply, Id
      <4>2. ~workque[completing].process_start
        BY <2>2, <3>1 DEF CompleteApply, IInv, CompleteInv
      <4> QED BY <4>1, <4>2, AddMissingDataKeepsClaims
    <3>2. CASE ~Current(completing)
      BY <2>2, <3>2, <1>q, UnchangedIsQuiet DEF CompleteApply
    <3> QED BY <3>1, <3>2
  <2>3. CASE MissingCommit
    <3>1. mrCur \in Id /\ mrCur \in Handling
      BY <2>3, <1>t, TypeFacts DEF MissingCommit, TypeInv, MissingPcInv, Handling, Id
    <3>2. ~workque[mrCur].on
      BY <3>1 DEF IInv, MissingInv
    <3> QED BY <2>3, <3>1, <3>2, AddMissingDataKeepsClaims DEF MissingCommit
  <2>4. CASE (\E i \in Id : CompleteSelect(i)) \/ \E k \in Key : CreateObservation(k)
    BY <2>4, <1>q, UnchangedIsQuiet DEF CompleteSelect, CreateObservation, storeVars
  <2> QED BY <1>4, <2>1, <2>2, <2>3, <2>4 DEF ManagerStep, ManagerNext
<1>5. CASE TimeStep
  BY <1>5, <1>q, TimeQuiet DEF Quiet
<1>6. CASE UNCHANGED vars
  BY <1>6, <1>q, UnchangedIsQuiet DEF vars, storeVars
<1> QED BY <1>2, <1>3, <1>4, <1>5, <1>6 DEF Next

\* The claim a worker has on a workque row is never reset while the row is there, neither by
\* ObservationComplete or MissingRunner re-queueing it nor by a store.
THEOREM ClaimsAreKept == Spec => ClaimIsKept
<1>1. IInv /\ [Next]_vars => [ClaimsKept]_vars
  BY ClaimsKeptStep
<1>2. ClaimIsKept <=> [][ClaimsKept]_vars
  BY DEF ClaimIsKept, ClaimsKept
<1> QED BY <1>1, <1>2, Invariance, PTL DEF Spec
=============================================================================
