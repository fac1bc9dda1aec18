------------------------------ MODULE Kvalobs ------------------------------
(* The way of an observation through kvalobs: kvDataInputd, kvManagerd and  *)
(* kvQabased working on the shared tables, and the time that passes.        *)
EXTENDS DataInput, QaBase, Manager

vars == <<storeVars, inputVars, qaVars, managerVars>>

Init == StoreInit /\ InputInit /\ QaInit /\ ManagerInit

InputStep == InputNext /\ UNCHANGED <<qaVars, managerVars>>

QaStep == QaNext /\ UNCHANGED <<inputVars, managerVars>>

ManagerStep == ManagerNext /\ UNCHANGED <<inputVars, qaVars>>

\* An entry does not age 15 minutes within one transaction of WorkQueueMover.
TimeStep ==
    /\ \E i \in Id \ mvOld : QaStopAges(i)
    /\ UNCHANGED <<inputVars, qaVars, managerVars>>

Next == InputStep \/ QaStep \/ ManagerStep \/ TimeStep

Spec == Init /\ [][Next]_vars

(* Fairness: a live process is scheduled, a running thread of kvManagerd goes *)
(* on, and time passes.  Kafka answers some attempt of a worker that keeps    *)
(* sending.  Nothing is assumed of input, signals, crashes and restarts.      *)

CompleterStep ==
    /\ CompleteApply \/ \E i \in Id : CompleteSelect(i)
    /\ UNCHANGED <<inputVars, qaVars>>

MissingStep ==
    /\ \/ FindAllMissing \/ AllCreated
       \/ MissingCommit \/ MissingSerializeError \/ MissingForeignKeyError
       \/ SetLastFindAllMissingRuntime
       \/ \E k \in Key : CreateObservation(k) \/ CreateObservationFails(k)
       \/ \E i \in Id : MissingBegin(i)
    /\ UNCHANGED <<inputVars, qaVars>>

Fairness ==
    /\ \A w \in Worker : WF_vars(WorkerStep(w) /\ UNCHANGED <<inputVars, managerVars>>)
    /\ \A i \in Id : WF_vars(ClaimAges(i) /\ UNCHANGED <<inputVars, managerVars>>)
    /\ WF_vars(CompleterStep)
    /\ WF_vars(MissingStep)

FairSpec == Spec /\ Fairness

----------------------------------------------------------------------------
(* Safety *)

\* Type invariant of the composed system.
TypeOK == StoreTypeOK /\ InputTypeOK /\ QaTypeOK /\ ManagerTypeOK

\* No two kvQabased processes work on the same observation, as long as every worker
\* finishes a claimed batch within the 10 minutes after which selectFailedDataForControl
\* hands a claim to somebody else: claims are exclusive although ObservationComplete and
\* MissingRunner write to the same workque rows and input deletes them.
ExclusiveClaim ==
    SlowWorkers \/ \A v, w \in Worker : v # w => Held(v) \cap Held(w) = {}

\* Stored data that CheckRunner has not seen always has an unprocessed workque entry, over
\* every interleaving of updates, HQC bypasses, claims, crashes and clean-ups; only a
\* filter with add_to_work_queue = false keeps data off the queue.
UncheckedIsQueued ==
    \A k \in Key : row[k].raw => Pending(row[k].id) \/ row[k].id \in unqueued

\* kvQabased checks an observation only after ObservationComplete or MissingRunner has
\* filled in the values the station should have sent.
CheckedIsComplete ==
    \A w \in Worker, k \in Key :
        cur[w] # 0 /\ row[k].id = cur[w] /\ k \in WholeHour /\ k \in Expected => row[k].filled

\* An entry with qa_stop set belongs to data that is on the 'checked' topic, unless there
\* was nothing to send or a stopping worker gave up on Kafka.
DoneIsPublished ==
    \A k \in Key : row[k].id # 0 /\ Processed(row[k].id) /\ HasContent(k)
                     => row[k].id \in checked \cup unsent

\* Every stored observation that has data is queued, archived as processed, or on its way
\* to the 'checked' topic past kvQabased.
NothingForgotten ==
    \A k \in Key : row[k].num \/ row[k].txt =>
        \/ workque[row[k].id].on
        \/ workstatistik[row[k].id] > 0
        \/ row[k].id \in toPublish \cup checked \cup dropped

(* Action properties *)

\* A workque row whose qa_stop is set leaves the table only into workstatistik, whether
\* WorkQueueMover or a replacing store removes it.  The archived row stays there, as long as
\* no worker marks an entry that another one has taken over: that could make
\* WorkQueueMover archive an entry it does not delete, and drop the copy when the entry has
\* been replaced meanwhile.
ProcessedIsArchived ==
    [][\A i \in Id :
          (\/ Processed(i) /\ ~workque'[i].on
           \/ ~SlowWorkers /\ workstatistik[i] > 0 /\ ~workque[i].on)
              => workstatistik'[i] > 0]_vars

\* The claim of a worker is never taken back from under it: while the row is there,
\* qa_start does not become NULL again.
ClaimIsKept ==
    [][\A i \in Id : workque[i].on /\ workque[i].qa_start # "null" /\ workque'[i].on
                         => workque'[i].qa_start # "null"]_vars

(* Liveness *)

\* Every queued observation is processed or replaced, although workers crash, are stopped
\* or fail on it, as long as one worker that may take it stays alive.
PendingIsProcessed == \A i \in Id : Pending(i) ~> ~Pending(i)

\* A run of MissingRunner ends, except when input replaces an observation it has created
\* after a serialization error on that observation: retry stays true, the foreign key
\* error is caught, and addAllMissingData tries for ever.  (The model may also run out of
\* observationids.)
MissingRunEnds ==
    mrPc # "idle" ~> \/ mrPc = "idle"
                     \/ mrRetry /\ ~Current(mrCur)
                     \/ mrPc = "create" /\ nextId > MaxId
----------------------------------------------------------------------------
(* What comments and documentation of the repository say, and the code does *)
(* not keep.                                                                 *)

\* DataUpdateTransaction.cc, onlyHqcDataCheck, of data that bypasses kvQabased: "But the
\* data must be published on the 'checked' kafka queue."  So it is on its way there, or it
\* has come there, as long as kvQabased is not to handle it either.
BypassIsPublished ==
    \A k \in Key : (row[k].num \/ row[k].txt) /\ ~row[k].raw =>
        \/ workque[row[k].id].on
        \/ workstatistik[row[k].id] > 0
        \/ row[k].id \in toPublish \cup checked

\* DataUpdateTransaction.h: "it is only HQC only data that bypass kvQabase", and only
\* numeric elements carry the HQC flag.
OnlyHqcBypasses == \A k \in Key : row[k].id \in toPublish => row[k].num

\* DataUpdateTransaction.cc, checkWorkQue: when an unprocessed workque element goes away
\* with the data, "a new workque element is generated".
PendingIsRequeued ==
    [][\A k \in Key : row[k].id # 0 /\ Pending(row[k].id) /\ row'[k].id # row[k].id
                          => workque'[row'[k].id].on]_vars

\* KvalobsDatabaseAccess.h of kvManagerd: findAllMissing gets all stations that failed to
\* deliver; so once an hour is recorded as done, every expected observation has data or
\* has been queued.
MissingIsHandled ==
    hourDone => \A k \in Expected :
        row[k].id # 0 /\ \/ row[k].num \/ row[k].txt
                         \/ workque[row[k].id].on
                         \/ workstatistik[row[k].id] > 0
=============================================================================
