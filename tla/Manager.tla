------------------------------ MODULE Manager ------------------------------
(* kvManagerd, three threads on the shared tables: ObservationComplete fills *)
(* in missing values and releases queued observations to kvQabased;          *)
(* MissingRunner creates the observations that did not arrive for an hour;   *)
(* WorkQueueMover moves processed entries to workstatistik.                  *)
EXTENDS KvStore

CONSTANT CheckForMissingObs  \* configuration: does MissingRunner do anything?

ASSUME ManagerAssumption == CheckForMissingObs \in BOOLEAN

VARIABLES
    completing,  \* ObservationComplete: what nextDataToProcess returned, 0 for none
    mrPc,        \* MissingRunner: idle, create (findAllMissing), add, begun
    mrTodo,      \* keys the EXCEPT query found missing, not created yet
    mrMissing,   \* the list findAllMissing returns, not handled yet
    mrCur,       \* the element of it in hand, 0 for none
    mrSaw,       \* whether its observation was in the transaction's snapshot
    mrRetry,     \* the local variable retry of addAllMissingData
    hourDone,    \* key_val LastMissingRun covers the modelled hour
    mvPc,        \* WorkQueueMover: idle, deleted, inserted
    mvOld,       \* entries older than 15 minutes when its transaction began
    mvDel,       \* workstatistik rows its first statement deleted, uncommitted
    mvIns        \* workstatistik rows its second statement inserted, uncommitted

mrVars == <<mrPc, mrTodo, mrMissing, mrCur, mrSaw, mrRetry, hourDone>>
mvVars == <<mvPc, mvOld, mvDel, mvIns>>
managerVars == <<completing, mrVars, mvVars>>

ManagerTypeOK ==
    /\ completing \in 0..MaxId
    /\ mrPc \in {"idle", "create", "add", "begun"}
    /\ mrTodo \subseteq Key
    /\ mrMissing \subseteq Id
    /\ mrCur \in 0..MaxId
    /\ mrSaw \in BOOLEAN /\ mrRetry \in BOOLEAN /\ hourDone \in BOOLEAN
    /\ mvPc \in {"idle", "deleted", "inserted"}
    /\ mvOld \subseteq Id
    /\ mvDel \in [Id -> Nat]
    /\ mvIns \subseteq Id

ManagerInit ==
    /\ completing = 0
    /\ mrPc = "idle" /\ mrTodo = {} /\ mrMissing = {} /\ mrCur = 0
    /\ mrSaw = FALSE /\ mrRetry = FALSE /\ hourDone = FALSE
    /\ mvPc = "idle" /\ mvOld = {} /\ mvIns = {}
    /\ mvDel = [i \in Id |-> 0]

\* insertMissingDataQuery_: obsdata rows for what obs_pgm expects, at whole hours only.
WithMissingData(k) ==
    IF k \in WholeHour /\ k \in Expected
    THEN [row[k] EXCEPT !.num = TRUE, !.raw = TRUE, !.filled = TRUE]
    ELSE row[k]

\* Mutant: the new entry gets qa_id 0 instead of NULL.
AddMissingDataZeroId(i) ==
    /\ row' = [k \in Key |-> IF row[k].id = i THEN WithMissingData(k) ELSE row[k]]
    /\ workque' = [workque EXCEPT ![i] =
                      NewEntry(TRUE, IF workque[i].on THEN workque[i].qa_id ELSE 0)]

\* addMissingData on observation i: fill in the missing values, then insert the
\* workque row, or reset the one there is.
AddMissingData(i) ==
    /\ row' = [k \in Key |-> IF row[k].id = i THEN WithMissingData(k) ELSE row[k]]
    /\ workque' = [workque EXCEPT ![i] =
                      NewEntry(TRUE, IF workque[i].on THEN workque[i].qa_id ELSE -1)]

----------------------------------------------------------------------------
\* ObservationComplete

\* Mutant: process_start is not asked for.
CompleteSelectAny(i) ==
    /\ completing = 0
    /\ workque[i].on
    /\ completing' = i
    /\ UNCHANGED <<storeVars, mrVars, mvVars>>

\* nextDataToProcess
CompleteSelect(i) ==
    /\ completing = 0
    /\ workque[i].on /\ ~workque[i].process_start
    /\ completing' = i
    /\ UNCHANGED <<storeVars, mrVars, mvVars>>

\* The rest of the transaction.  READ COMMITTED: input may have replaced the observation
\* since; then the workque insert breaks the foreign key and everything is rolled back.
CompleteApply ==
    /\ completing # 0
    /\ completing' = 0
    /\ IF Current(completing) THEN AddMissingData(completing)
       ELSE UNCHANGED <<row, workque>>
    /\ UNCHANGED <<nextId, workstatistik, checked, faults, mrVars, mvVars>>

----------------------------------------------------------------------------
\* MissingRunner

\* qFindMissingStations_: expected and not in observations (the expected keys stand for
\* one type and one hour).
FindAllMissing ==
    /\ CheckForMissingObs /\ mrPc = "idle" /\ ~hourDone
    /\ mrPc' = "create"
    /\ mrTodo' = {k \in Expected : row[k].id = 0}
    /\ UNCHANGED <<storeVars, completing, mrMissing, mrCur, mrSaw, mrRetry, hourDone, mvVars>>

\* createObservation_, committed by itself.
CreateObservation(k) ==
    /\ mrPc = "create" /\ k \in mrTodo /\ row[k].id = 0
    /\ nextId <= MaxId
    /\ nextId' = nextId + 1
    /\ row' = [row EXCEPT ![k] = [NoRow EXCEPT !.id = nextId]]
    /\ mrTodo' = mrTodo \ {k}
    /\ mrMissing' = mrMissing \cup {nextId}
    /\ UNCHANGED <<workque, workstatistik, checked, faults, completing, mrPc, mrCur, mrSaw, mrRetry,
                   hourDone, mvVars>>

\* Input stored the observation after the query: SQLDuplicate leaves run(), the list of
\* the observations created so far is gone, and the next run starts over.
CreateObservationFails(k) ==
    /\ mrPc = "create" /\ k \in mrTodo /\ row[k].id # 0
    /\ mrPc' = "idle"
    /\ mrTodo' = {} /\ mrMissing' = {}
    /\ UNCHANGED <<storeVars, completing, mrCur, mrSaw, mrRetry, hourDone, mvVars>>

\* findAllMissing returns.
AllCreated ==
    /\ mrPc = "create" /\ mrTodo = {}
    /\ mrPc' = "add"
    /\ UNCHANGED <<storeVars, completing, mrTodo, mrMissing, mrCur, mrSaw, mrRetry, hourDone,
                   mvVars>>

\* The SERIALIZABLE transaction around addMissingData takes its snapshot; a new element
\* begins with retry = false, one that is retried does not.
MissingBegin(i) ==
    /\ mrPc = "add"
    /\ \/ mrCur = i
       \/ mrCur = 0 /\ i \in mrMissing
    /\ mrPc' = "begun"
    /\ mrCur' = i
    /\ mrMissing' = mrMissing \ {i}
    /\ mrSaw' = Current(i)
    /\ UNCHANGED <<storeVars, completing, mrTodo, mrRetry, hourDone, mvVars>>

\* addMissingData succeeds.
MissingCommit ==
    /\ mrPc = "begun" /\ mrSaw /\ Current(mrCur)
    /\ AddMissingData(mrCur)
    /\ mrPc' = "add" /\ mrCur' = 0 /\ mrRetry' = FALSE
    /\ UNCHANGED <<nextId, workstatistik, checked, faults, completing, mrTodo, mrMissing, mrSaw,
                   hourDone, mvVars>>

\* SQLSerializeError: the observation was deleted after the snapshot, or PostgreSQL saw a
\* dangerous structure among the serializable transactions.
MissingSerializeError ==
    /\ mrPc = "begun" /\ mrSaw
    /\ mrPc' = "add" /\ mrRetry' = TRUE
    /\ IF Current(mrCur) THEN Fault ELSE UNCHANGED faults
    /\ UNCHANGED <<nextId, row, workque, workstatistik, checked, completing, mrTodo, mrMissing,
                   mrCur, mrSaw, hourDone, mvVars>>

\* Mutant: every error is retried.
MissingAlwaysRetried ==
    /\ mrPc = "begun" /\ ~mrSaw
    /\ mrPc' = "add"
    /\ UNCHANGED <<storeVars, completing, mrTodo, mrMissing, mrCur, mrSaw, mrRetry, hourDone,
                   mvVars>>

\* The observation was gone before the snapshot: the workque row breaks the foreign key.
\* catch(std::exception) leaves retry as it was.
MissingForeignKeyError ==
    /\ mrPc = "begun" /\ ~mrSaw
    /\ mrPc' = "add"
    /\ mrCur' = IF mrRetry THEN mrCur ELSE 0
    /\ UNCHANGED <<storeVars, completing, mrTodo, mrMissing, mrSaw, mrRetry, hourDone, mvVars>>

\* setLastFindAllMissingRuntime
SetLastFindAllMissingRuntime ==
    /\ mrPc = "add" /\ mrCur = 0 /\ mrMissing = {}
    /\ mrPc' = "idle" /\ hourDone' = TRUE
    /\ UNCHANGED <<storeVars, completing, mrTodo, mrMissing, mrCur, mrSaw, mrRetry, mvVars>>

----------------------------------------------------------------------------
\* WorkQueueMover: cleanWorkQueue, three statements of one READ COMMITTED transaction;
\* now() is the start of the transaction, so no entry becomes too old on the way.

TooOld == {i \in mvOld : workque[i].on /\ workque[i].qa_stop = "old"}

CleanDelete ==
    /\ mvPc = "idle"
    /\ mvPc' = "deleted"
    /\ mvOld' = {i \in Id : workque[i].on /\ workque[i].qa_stop = "old"}
    /\ mvOld' # {}
    /\ mvDel' = [i \in Id |-> IF i \in mvOld' THEN workstatistik[i] ELSE 0]
    /\ UNCHANGED <<storeVars, completing, mrVars, mvIns>>

\* Mutant: the entries are deleted before they are copied.
CleanInsertTooLate ==
    /\ mvPc = "deleted"
    /\ mvPc' = "inserted"
    /\ mvIns' = {}
    /\ UNCHANGED <<storeVars, completing, mrVars, mvOld, mvDel>>

CleanInsert ==
    /\ mvPc = "deleted"
    /\ mvPc' = "inserted"
    /\ mvIns' = TooOld
    /\ UNCHANGED <<storeVars, completing, mrVars, mvOld, mvDel>>

\* The delete from workque and the commit.
CleanCommit ==
    /\ mvPc = "inserted"
    /\ mvPc' = "idle"
    /\ workque' = [i \in Id |-> IF i \in TooOld THEN NoEntry ELSE workque[i]]
    /\ workstatistik' = [i \in Id |-> workstatistik[i] - mvDel[i]
                                      + IF i \in mvIns THEN 1 ELSE 0]
    /\ mvOld' = {} /\ mvIns' = {}
    /\ mvDel' = [i \in Id |-> 0]
    /\ UNCHANGED <<nextId, row, checked, faults, completing, mrVars>>

----------------------------------------------------------------------------
\* kvManagerd dies and is started again: open transactions are rolled back, the list
\* of created observations is forgotten.
ManagerRestart ==
    /\ Fault
    /\ completing' = 0
    /\ mrPc' = "idle" /\ mrTodo' = {} /\ mrMissing' = {} /\ mrCur' = 0
    /\ mrSaw' = FALSE /\ mrRetry' = FALSE
    /\ mvPc' = "idle" /\ mvOld' = {} /\ mvIns' = {}
    /\ mvDel' = [i \in Id |-> 0]
    /\ UNCHANGED <<nextId, row, workque, workstatistik, checked, hourDone>>

ManagerNext ==
    \/ \E i \in Id : CompleteSelect(i) \/ MissingBegin(i)
    \/ CompleteApply
    \/ FindAllMissing
    \/ \E k \in Key : CreateObservation(k) \/ CreateObservationFails(k)
    \/ AllCreated \/ MissingCommit \/ MissingSerializeError \/ MissingForeignKeyError
    \/ SetLastFindAllMissingRuntime
    \/ CleanDelete \/ CleanInsert \/ CleanCommit
    \/ ManagerRestart
=============================================================================
