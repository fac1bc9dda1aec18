---------------------------- MODULE CheckRunner ----------------------------
(* kvQabased, CheckRunner: a worker checks one observation in a READ COMMITTED *)
(* transaction.  What it reads of obsdata is locked with FOR UPDATE, kept in   *)
(* CachedDatabaseAccess, modified in DelayedSaveDatabaseAccess and written     *)
(* when all checks have run.  Meanwhile other workers do the same with other   *)
(* observations of the station, and input replaces observations.               *)
EXTENDS Integers, FiniteSets

CONSTANTS
    Worker,          \* kvQabased processes
    Obs,             \* observations of one station: one for a typeid and an obstime
    obstime,         \* obstime[o], in minutes, say
    typeid,          \* typeid[o]; aggregated observations (typeid < 1) are not checked
    NChecks,         \* getChecks: the checks, in the order in which they run
    back,            \* back[c]: how far back check c reads (-firstTime of its signature)
    TextCheck,       \* the checks that read text data too (refobs)
    MaxId,           \* bound on observationids
    stored,          \* stored[o]: the id of o when the workers start, 0 if it is not there
    SerializeLimit,  \* serialization errors before newObservation gives up (256)
    AbortLimit,      \* aborted attempts before the final one (nRetry * nRetry = 9)
    MaxFaults        \* bound on errors of the database

ASSUME CheckRunnerAssumption ==
    /\ Obs # {} /\ "free" \notin Worker
    /\ obstime \in [Obs -> Int] /\ typeid \in [Obs -> Nat \ {0}]
    /\ NChecks \in Nat /\ back \in [1..NChecks -> Nat] /\ TextCheck \subseteq 1..NChecks
    /\ MaxId \in Nat /\ MaxFaults \in Nat
    /\ stored \in [Obs -> 0..MaxId]
    /\ \A o, p \in Obs : o # p /\ stored[o] # 0 => stored[o] # stored[p]
    /\ SerializeLimit \in Nat \ {0} /\ AbortLimit \in Nat

VARIABLES
    row,          \* observations and obsdata, as committed
    nextId,       \* the next observationid
    lock,         \* who has the lock of the row of obsdata
    done,         \* the ids whose check has ended (workque.qa_stop)
    pc,           \* where a worker is in newObservation
    job,          \* the observation it checks
    jobId,        \* and its observationid
    want,         \* ids of the rows that the running SELECT has still to lock
    got,          \* the rows that it has returned
    fetched,      \* fetchedData_: the id under which a row has been read, 0 if not
    fetchedText,  \* fetchedTextData_, the same for text data
    cache,        \* the values that were read
    span,         \* timeOffset of dataCache_, negated; -1 if nothing is cached
    data,         \* the rows in dataCache_
    textSpan,     \* the same of textDataCache_
    step,         \* the check that is next
    saved,        \* the rows in savedData_
    value,        \* and their marks
    serial,       \* serialization errors in a row
    aborts,       \* aborted attempts
    adrift,       \* the workers whose connection was lost and restored in mid-transaction
    written,      \* of these: the rows in savedData_ whose UPDATE is behind them
    out,          \* what complete has returned: rows as <<observation, id, marks>>
    faults        \* errors of the database so far

dbVars == <<row, nextId, lock>>
readVars == <<want, got, fetched, cache, span, data, textSpan>>
saveVars == <<saved, value>>
retryVars == <<serial, aborts>>
connVars == <<adrift, written>>
vars == <<dbVars, done, pc, job, jobId, readVars, fetchedText, step, saveVars, retryVars, connVars,
          out, faults>>

Id == 1..MaxId

\* The observations that a read of check data reaches from o.
Within(o, b) == {p \in Obs : obstime[p] <= obstime[o] /\ obstime[p] >= obstime[o] - b}

near == [o \in Obs |-> UNION {Within(o, back[c]) : c \in 1..NChecks}]

Atomic == INSTANCE AtomicChecks

Pc == {"idle", "pin", "params", "select", "fetch", "check", "query", "run", "complete", "commit"}

InTransaction(w) == pc[w] # "idle"

NoJob == CHOOSE o \in Obs : TRUE

NoIds == [o \in Obs |-> 0]

NoRow == [id |-> 0, marks |-> {}, hqc |-> FALSE]

\* resultfilter::filterTypeId_: of several types the wanted one, or the highest.
FilterType(S, t) ==
    LET types == {typeid[o] : o \in S}
        best  == IF t \in types THEN t ELSE CHOOSE u \in types : \A v \in types : v <= u
    IN  {o \in S : Cardinality(types) > 1 => typeid[o] = best}

CheckTypeOK ==
    /\ row \in [Obs -> Atomic!Row]
    /\ nextId \in 1..(MaxId + 1)
    /\ lock \in [Obs -> Worker \cup {"free"}]
    /\ done \subseteq Id
    /\ pc \in [Worker -> Pc] /\ job \in [Worker -> Obs] /\ jobId \in [Worker -> 0..MaxId]
    /\ want \in [Worker -> [Obs -> 0..MaxId]] /\ got \in [Worker -> SUBSET Obs]
    /\ fetched \in [Worker -> [Obs -> 0..MaxId]]
    /\ fetchedText \in [Worker -> [Obs -> 0..MaxId]]
    /\ cache \in [Worker -> [Obs -> Atomic!Row]] /\ data \in [Worker -> SUBSET Obs]
    /\ span \in [Worker -> Int] /\ textSpan \in [Worker -> Int]
    /\ step \in [Worker -> 1..(NChecks + 1)]
    /\ saved \in [Worker -> SUBSET Obs] /\ value \in [Worker -> [Obs -> SUBSET Atomic!Mark]]
    /\ serial \in [Worker -> 0..SerializeLimit] /\ aborts \in [Worker -> 0..AbortLimit]
    /\ adrift \subseteq Worker /\ written \in [Worker -> SUBSET Obs]
    /\ out \in [Worker -> SUBSET (Obs \X Id \X SUBSET Atomic!Mark)]
    /\ faults \in 0..MaxFaults

CheckInit ==
    /\ row = [o \in Obs |-> [id |-> stored[o], marks |-> {}, hqc |-> FALSE]]
    /\ nextId \in 1..(MaxId + 1) /\ \A o \in Obs : stored[o] < nextId
    /\ \A o \in Obs : nextId # 1 => \E p \in Obs : nextId = stored[p] + 1
    /\ lock = [o \in Obs |-> "free"] /\ done = {}
    /\ pc = [w \in Worker |-> "idle"]
    /\ job = [w \in Worker |-> NoJob] /\ jobId = [w \in Worker |-> 0]
    /\ want = [w \in Worker |-> NoIds] /\ got = [w \in Worker |-> {}]
    /\ fetched = [w \in Worker |-> NoIds] /\ fetchedText = [w \in Worker |-> NoIds]
    /\ cache = [w \in Worker |-> [o \in Obs |-> NoRow]] /\ data = [w \in Worker |-> {}]
    /\ span = [w \in Worker |-> -1] /\ textSpan = [w \in Worker |-> -1]
    /\ step = [w \in Worker |-> 1]
    /\ saved = [w \in Worker |-> {}] /\ value = [w \in Worker |-> [o \in Obs |-> {}]]
    /\ serial = [w \in Worker |-> 0] /\ aborts = [w \in Worker |-> 0]
    /\ adrift = {} /\ written = [w \in Worker |-> {}]
    /\ out = [w \in Worker |-> {}] /\ faults = 0

----------------------------------------------------------------------------
(* Input, as far as a check meets it: a store deletes the old row, for which   *)
(* it needs the row's lock, and inserts one with a new id.  Who waits for the  *)
(* row meanwhile finds it deleted.                                             *)

StoreObservation(o) ==
    /\ lock[o] = "free" /\ nextId <= MaxId
    /\ \E h \in BOOLEAN, m \in {{}, row[o].marks} :
          row' = [row EXCEPT ![o] = [id |-> nextId, marks |-> m, hqc |-> h]]
    /\ nextId' = nextId + 1
    /\ UNCHANGED <<lock, done, pc, job, jobId, readVars, fetchedText, step, saveVars, retryVars,
                   connVars, out, faults>>

----------------------------------------------------------------------------
(* newObservation and checkObservation. *)

\* The worker takes an entry of workque that nobody else has, and begins a transaction.
NewObservation(w, o) ==
    /\ pc[w] = "idle" /\ row[o].id # 0 /\ row[o].id \notin done
    /\ \A v \in Worker : jobId[v] # row[o].id
    /\ pc' = [pc EXCEPT ![w] = "pin"]
    /\ job' = [job EXCEPT ![w] = o] /\ jobId' = [jobId EXCEPT ![w] = row[o].id]
    /\ UNCHANGED <<dbVars, done, readVars, fetchedText, step, saveVars, retryVars, connVars, out,
                   faults>>

\* What goes with a transaction: the caches and savedData_ with their objects, and
\* fetchedData_, which beginTransaction clears.  It does not clear fetchedTextData_.
Forget(w) ==
    /\ want' = [want EXCEPT ![w] = NoIds] /\ got' = [got EXCEPT ![w] = {}]
    /\ fetched' = [fetched EXCEPT ![w] = NoIds]
    /\ cache' = [cache EXCEPT ![w] = [o \in Obs |-> NoRow]] /\ data' = [data EXCEPT ![w] = {}]
    /\ span' = [span EXCEPT ![w] = -1] /\ textSpan' = [textSpan EXCEPT ![w] = -1]
    /\ step' = [step EXCEPT ![w] = 1]
    /\ saved' = [saved EXCEPT ![w] = {}] /\ value' = [value EXCEPT ![w] = [o \in Obs |-> {}]]
    /\ adrift' = adrift \ {w} /\ written' = [written EXCEPT ![w] = {}]

\* The locks of w are free again.
Unlocked(w) == [o \in Obs |-> IF lock[o] = w THEN "free" ELSE lock[o]]

\* The row of the observation that is being checked is still there.
Here(w) == row[job[w]].id = jobId[w]

\* newObservation is left, with its local variables.
Idle(w) ==
    /\ pc' = [pc EXCEPT ![w] = "idle"]
    /\ job' = [job EXCEPT ![w] = NoJob] /\ jobId' = [jobId EXCEPT ![w] = 0]
    /\ serial' = [serial EXCEPT ![w] = 0] /\ aborts' = [aborts EXCEPT ![w] = 0]

\* newObservation returns: the locks are released; the result is sent and the entry
\* marked done, for which see QaBase.
Return(w) ==
    /\ Forget(w)
    /\ lock' = Unlocked(w)
    /\ done' = done \cup {jobId[w]}
    /\ out' = [out EXCEPT ![w] = {}]
    /\ Idle(w)
    /\ UNCHANGED <<nextId, fetchedText, faults>>

\* pin: remembers the id of the own row, without a lock.
Pin(w) ==
    /\ pc[w] = "pin" /\ Here(w)
    /\ fetched' = [fetched EXCEPT ![w][job[w]] = jobId[w]]
    /\ pc' = [pc EXCEPT ![w] = "params"]
    /\ UNCHANGED <<dbVars, done, job, jobId, want, got, cache, span, data, textSpan, fetchedText,
                   step, saveVars, retryVars, connVars, out, faults>>

\* "No data for observationid": the observation has been replaced.
PinFails(w) ==
    /\ pc[w] = "pin" /\ ~Here(w)
    /\ Return(w)
    /\ UNCHANGED row

\* The SELECT of getData starts: these are the rows in its snapshot.
Select(w, S) ==
    /\ want' = [want EXCEPT ![w] = [o \in Obs |-> IF o \in S THEN row[o].id ELSE 0]]
    /\ got' = [got EXCEPT ![w] = {}]

\* getParametersToCheck: the parameters of the row.
GetParametersToCheck(w) ==
    /\ pc[w] = "params" /\ Here(w)
    /\ pc' = [pc EXCEPT ![w] = "select"]
    /\ UNCHANGED <<dbVars, done, job, jobId, readVars, fetchedText, step, saveVars, retryVars,
                   connVars, out, faults>>

\* There are none when the row is gone, and none when the station has no row in obs_pgm,
\* which may be so at any time: then nothing is locked and no check is run.
NoParametersToCheck(w) ==
    /\ pc[w] = "params"
    /\ pc' = [pc EXCEPT ![w] = "complete"]
    /\ UNCHANGED <<dbVars, done, job, jobId, readVars, fetchedText, step, saveVars, retryVars,
                   connVars, out, faults>>

\* The data of these parameters is asked for by station and time: it may be that of an
\* observation that has replaced the pinned one.
SelectObservation(w) ==
    /\ pc[w] = "select"
    /\ Select(w, Within(job[w], 0))
    /\ pc' = [pc EXCEPT ![w] = "fetch"]
    /\ UNCHANGED <<dbVars, done, job, jobId, fetched, cache, span, data, textSpan, fetchedText, step,
                   saveVars, retryVars, connVars, out, faults>>

\* Mutant: getData without FOR UPDATE.
ReadWithoutLock(w, o) ==
    /\ pc[w] \in {"fetch", "query"} /\ want[w][o] # 0 /\ row[o].id = want[w][o]
    /\ UNCHANGED lock

\* FOR UPDATE: the lock of a row, if it is still the one of the snapshot.
LockRow(w, o) ==
    /\ pc[w] \in {"fetch", "query"} /\ want[w][o] # 0 /\ row[o].id = want[w][o]
    /\ lock[o] \in {"free", w}
    /\ lock' = [lock EXCEPT ![o] = w]

GetRow(w, o) ==
    /\ LockRow(w, o)
    /\ want' = [want EXCEPT ![w][o] = 0]
    /\ got' = [got EXCEPT ![w] = @ \cup {o}]
    /\ UNCHANGED <<row, nextId, done, pc, job, jobId, fetched, cache, span, data, textSpan,
                   fetchedText, step, saveVars, retryVars, connVars, out, faults>>

\* A row that was deleted after the snapshot is left out; its successor is not seen.
SkipRow(w, o) ==
    /\ pc[w] \in {"fetch", "query"} /\ want[w][o] # 0 /\ row[o].id # want[w][o]
    /\ want' = [want EXCEPT ![w][o] = 0]
    /\ UNCHANGED <<dbVars, done, pc, job, jobId, got, fetched, cache, span, data, textSpan,
                   fetchedText, step, saveVars, retryVars, connVars, out, faults>>

\* storeFetched: a row has been read under another id before.
Conflict(w) == \E o \in got[w] : fetched[w][o] \notin {0, row[o].id}

\* The end of a SELECT.  Locks last as long as the transaction; outside one they go with
\* the statement.
EndSelect(w) ==
    /\ got' = [got EXCEPT ![w] = {}]
    /\ lock' = IF w \in adrift THEN Unlocked(w) ELSE lock

\* storeFetched of the rows in S, and their values, which are as they were when locked.
StoreFetched(w, S) ==
    fetched' = [fetched EXCEPT ![w] = [o \in Obs |-> IF o \in S THEN row[o].id ELSE @[o]]]

\* dataCache_ takes the result.
CacheData(w, b) ==
    /\ StoreFetched(w, got[w])
    /\ cache' = [cache EXCEPT ![w] = [o \in Obs |-> IF o \in got[w] THEN row[o] ELSE @[o]]]
    /\ data' = [data EXCEPT ![w] = FilterType(got[w], typeid[job[w]])]
    /\ span' = [span EXCEPT ![w] = b]
    /\ EndSelect(w)

\* What complete adds for rows that are not in the list it is given.
CompleteOwn(w) == IF Here(w) THEN {<<job[w], jobId[w], row[job[w]].marks>>} ELSE {}

\* haveAnyHqcCorrectedElements
IsHqcCorrected(w) ==
    job[w] \in FilterType(got[w], typeid[job[w]]) /\ row[job[w]].hqc

\* The data of the observation has been fetched: reset its flags and save that.
FetchObservation(w) ==
    /\ pc[w] = "fetch" /\ want[w] = NoIds /\ ~Conflict(w) /\ ~IsHqcCorrected(w)
    /\ LET own == FilterType(got[w], typeid[job[w]]) \cap {job[w]}
       IN  /\ saved' = [saved EXCEPT ![w] = own]
           /\ pc' = [pc EXCEPT ![w] = IF own = {} THEN "complete" ELSE "check"]
    /\ CacheData(w, 0)
    /\ UNCHANGED <<row, nextId, done, job, jobId, want, textSpan, fetchedText, step, value,
                   retryVars, connVars, out, faults>>

\* The transaction is rolled back and the data is sent as it is.
HqcCorrected(w) ==
    /\ pc[w] = "fetch" /\ want[w] = NoIds /\ ~Conflict(w) /\ IsHqcCorrected(w)
    /\ Return(w)
    /\ UNCHANGED row

\* The next check: what it needs is in the cache, or is read now.
StartCheck(w) ==
    /\ pc[w] = "check" /\ step[w] <= NChecks
    /\ IF back[step[w]] <= span[w]
       THEN /\ pc' = [pc EXCEPT ![w] = "run"]
            /\ UNCHANGED <<want, got>>
       ELSE /\ Select(w, Within(job[w], back[step[w]]))
            /\ pc' = [pc EXCEPT ![w] = "query"]
    /\ UNCHANGED <<dbVars, done, job, jobId, fetched, cache, span, data, textSpan, fetchedText, step,
                   saveVars, retryVars, connVars, out, faults>>

\* getData returns.
GetData(w) ==
    /\ pc[w] = "query" /\ want[w] = NoIds /\ ~Conflict(w)
    /\ CacheData(w, back[step[w]])
    /\ pc' = [pc EXCEPT ![w] = "run"]
    /\ UNCHANGED <<row, nextId, done, job, jobId, want, textSpan, fetchedText, step, saveVars,
                   retryVars, connVars, out, faults>>

\* "obsid mismatch", in a check: it is logged and the check is left out; the cache is as
\* before.  Only a worker without its locks meets this.
SkipQuery(w) ==
    /\ pc[w] = "query" /\ want[w] = NoIds /\ Conflict(w)
    /\ \E S \in SUBSET {o \in got[w] : fetched[w][o] = 0} : StoreFetched(w, S)
    /\ EndSelect(w)
    /\ step' = [step EXCEPT ![w] = @ + 1]
    /\ pc' = [pc EXCEPT ![w] = "check"]
    /\ UNCHANGED <<row, nextId, done, job, jobId, want, cache, span, data, textSpan, fetchedText,
                   saveVars, retryVars, connVars, out, faults>>

\* populateRefObs_ reads text data, without a lock, unless it is in the cache.
ReadsText(w) == step[w] \in TextCheck /\ textSpan[w] < back[step[w]]

TextRead(w) == IF ReadsText(w) THEN {o \in Within(job[w], back[step[w]]) : row[o].id # 0} ELSE {}

TextConflict(w) == \E o \in TextRead(w) : fetchedText[w][o] \notin {0, row[o].id}

\* The marks of a row as the check sees them: DelayedSaveDatabaseAccess::getData.
Marks(w, o) == IF o \in saved[w] THEN value[w][o] ELSE cache[w][o].marks

\* Mutant: the modifications replace what is saved of the other rows.
MarkedAfresh(w, S) ==
    [o \in Obs |-> IF o \in S THEN {<<step[w], job[w]>>} ELSE value[w][o]]

\* savedData_ with the modifications of the check.
Marked(w, S) ==
    [o \in Obs |-> IF o \in S THEN Marks(w, o) \cup {<<step[w], job[w]>>} ELSE value[w][o]]

\* The script runs and flags some of what it has read.  A script that fails or lacks
\* model data or metadata flags nothing, and the next check follows.
RunCheck(w) ==
    /\ pc[w] = "run" /\ ~TextConflict(w)
    /\ fetchedText' = [fetchedText EXCEPT ![w] =
                          [o \in Obs |-> IF o \in TextRead(w) THEN row[o].id ELSE @[o]]]
    /\ textSpan' = [textSpan EXCEPT ![w] = IF ReadsText(w) THEN back[step[w]] ELSE @]
    /\ \E S \in SUBSET (data[w] \cap Within(job[w], back[step[w]])) :
          /\ saved' = [saved EXCEPT ![w] = @ \cup S]
          /\ value' = [value EXCEPT ![w] = Marked(w, S)]
    /\ step' = [step EXCEPT ![w] = @ + 1]
    /\ pc' = [pc EXCEPT ![w] = "check"]
    /\ UNCHANGED <<dbVars, done, job, jobId, want, got, fetched, cache, span, data, retryVars,
                   connVars, out, faults>>

\* "textdata obsid mismatch" is logged and the check is left out.  The rows before the
\* one that does not match have been stored.
SkipCheck(w) ==
    /\ pc[w] = "run" /\ TextConflict(w)
    /\ \E S \in SUBSET {o \in TextRead(w) : fetchedText[w][o] = 0} :
          fetchedText' = [fetchedText EXCEPT ![w] =
                             [o \in Obs |-> IF o \in S THEN row[o].id ELSE @[o]]]
    /\ step' = [step EXCEPT ![w] = @ + 1]
    /\ pc' = [pc EXCEPT ![w] = "check"]
    /\ UNCHANGED <<dbVars, done, job, jobId, readVars, saveVars, retryVars, connVars, out, faults>>

\* Mutant: only the own observation is handed on.
MessageOfOwn(w) ==
    {<<o, fetched[w][o], value[w][o]>> : o \in saved[w] \cap {job[w]}}

\* complete: everything that will be written, and the rest of the observation.
Message(w) ==
    {<<o, fetched[w][o], value[w][o]>> : o \in saved[w]}
        \cup (IF job[w] \in saved[w] THEN {} ELSE CompleteOwn(w))

Complete(w) ==
    /\ pc[w] = "complete" \/ (pc[w] = "check" /\ step[w] > NChecks)
    /\ out' = [out EXCEPT ![w] = Message(w)]
    /\ pc' = [pc EXCEPT ![w] = "commit"]
    /\ UNCHANGED <<dbVars, done, job, jobId, readVars, fetchedText, step, saveVars, retryVars,
                   connVars, faults>>

\* DelayedSaveDatabaseAccess::commit writes all that was saved and commits.  Each
\* UPDATE hits a row, since the rows are locked; otherwise write would throw.
Commit(w) ==
    /\ pc[w] = "commit" /\ w \notin adrift
    /\ \A o \in saved[w] : row[o].id = fetched[w][o]
    /\ row' = [o \in Obs |-> IF o \in saved[w] THEN [row[o] EXCEPT !.marks = value[w][o]] ELSE row[o]]
    /\ Return(w)

----------------------------------------------------------------------------
(* A connection that is lost in mid-transaction is restored by the driver,     *)
(* which repeats the statement and says nothing.  The transaction and its      *)
(* locks are gone: what follows runs statement by statement.                   *)

\* A SELECT is repeated from the start.  UPDATEs of commit have been rolled back, if the
\* worker had got that far: it does not repeat them.  Later losses change nothing more.
LoseConnection(w) ==
    /\ InTransaction(w) /\ w \notin adrift /\ faults < MaxFaults
    /\ faults' = faults + 1
    /\ adrift' = adrift \cup {w}
    /\ lock' = Unlocked(w)
    /\ want' = [want EXCEPT ![w] = NoIds] /\ got' = [got EXCEPT ![w] = {}]
    /\ pc' = [pc EXCEPT ![w] = IF @ = "fetch" THEN "select" ELSE IF @ = "query" THEN "check" ELSE @]
    /\ \E S \in SUBSET saved[w] :
          /\ pc[w] # "commit" => S = {}
          /\ written' = [written EXCEPT ![w] = S]
    /\ UNCHANGED <<row, nextId, done, job, jobId, fetched, cache, span, data, textSpan, fetchedText,
                   step, saveVars, retryVars, out>>

\* An UPDATE that commits itself.
WriteAdrift(w, o) ==
    /\ pc[w] = "commit" /\ w \in adrift /\ o \in saved[w] \ written[w]
    /\ lock[o] = "free" /\ row[o].id = fetched[w][o]
    /\ row' = [row EXCEPT ![o].marks = value[w][o]]
    /\ written' = [written EXCEPT ![w] = @ \cup {o}]
    /\ UNCHANGED <<nextId, lock, done, pc, job, jobId, readVars, fetchedText, step, saveVars,
                   retryVars, adrift, out, faults>>

\* END outside a transaction is a warning: newObservation returns as after a commit.
EndAdrift(w) ==
    /\ pc[w] = "commit" /\ w \in adrift /\ written[w] = saved[w]
    /\ Return(w)
    /\ UNCHANGED row

----------------------------------------------------------------------------
(* Errors.  AutoRollbackTransaction rolls back; newObservation tries again or  *)
(* throws, in which case the entry keeps its claim until it is old.            *)

Rollback(w) ==
    /\ Forget(w)
    /\ lock' = Unlocked(w)
    /\ out' = [out EXCEPT ![w] = {}]
    /\ UNCHANGED <<row, nextId, done, fetchedText>>

Throw(w) == Rollback(w) /\ Idle(w)

\* Mutant: serialization errors are not counted against the limit.
SerializeAlways(w) ==
    /\ Rollback(w)
    /\ serial' = [serial EXCEPT ![w] = @ + 1]
    /\ pc' = [pc EXCEPT ![w] = "pin"]
    /\ UNCHANGED <<job, jobId, aborts>>

\* SQLSerializeError: again at once, unless there have been too many or this was the
\* final attempt.
SerializeError(w) ==
    IF serial[w] + 1 < SerializeLimit /\ aborts[w] < AbortLimit
    THEN /\ Rollback(w)
         /\ serial' = [serial EXCEPT ![w] = @ + 1]
         /\ pc' = [pc EXCEPT ![w] = "pin"]
         /\ UNCHANGED <<job, jobId, aborts>>
    ELSE Throw(w)

\* SQLAborted: the next of the nRetry * nRetry attempts, or the final one.
Aborted(w) ==
    IF aborts[w] < AbortLimit
    THEN /\ Rollback(w)
         /\ aborts' = [aborts EXCEPT ![w] = @ + 1]
         /\ serial' = [serial EXCEPT ![w] = 0]
         /\ pc' = [pc EXCEPT ![w] = "pin"]
         /\ UNCHANGED <<job, jobId>>
    ELSE Throw(w)

\* An error of the database at any statement.  SQLNotConnected, when the connection cannot
\* be restored, is one that is thrown.
DatabaseError(w) ==
    /\ InTransaction(w) /\ faults < MaxFaults
    /\ faults' = faults + 1
    /\ SerializeError(w) \/ Aborted(w) \/ Throw(w)

Waits(w, v) == w # v /\ \E o \in Obs : want[w][o] # 0 /\ lock[o] = v

\* Mutant: nobody looks for deadlocks.
NoDeadlock(w) == FALSE

\* PostgreSQL finds a circle of waiting workers.
Deadlocked(w) ==
    \E S \in SUBSET Worker : w \in S /\ \A v \in S : \E u \in S : Waits(v, u)

DeadlockDetected(w) ==
    /\ Deadlocked(w)
    /\ SerializeError(w)
    /\ UNCHANGED faults

\* "obsid mismatch": the observation was replaced after it was pinned.
PinConflict(w) ==
    /\ pc[w] = "fetch" /\ want[w] = NoIds /\ Conflict(w)
    /\ Throw(w)
    /\ UNCHANGED faults

\* "Update statement did not affect exactly one row": it was replaced after it was read.
\* The UPDATEs before this one stay.
WriteFails(w) ==
    /\ pc[w] = "commit" /\ w \in adrift
    /\ \E o \in saved[w] \ written[w] : row[o].id # fetched[w][o]
    /\ Throw(w)
    /\ UNCHANGED faults

----------------------------------------------------------------------------
\* The steps of a worker that do not depend on something going wrong.
WorkerStep(w) ==
    \/ Pin(w) \/ PinFails(w) \/ GetParametersToCheck(w) \/ NoParametersToCheck(w)
    \/ SelectObservation(w)
    \/ \E o \in Obs : GetRow(w, o) \/ SkipRow(w, o)
    \/ FetchObservation(w) \/ HqcCorrected(w) \/ PinConflict(w)
    \/ StartCheck(w) \/ GetData(w) \/ SkipQuery(w) \/ RunCheck(w) \/ SkipCheck(w)
    \/ Complete(w) \/ Commit(w)
    \/ (\E o \in Obs : WriteAdrift(w, o)) \/ WriteFails(w) \/ EndAdrift(w)
    \/ DeadlockDetected(w)

CheckNext ==
    \/ \E o \in Obs : StoreObservation(o)
    \/ \E w \in Worker, o \in Obs : NewObservation(w, o)
    \/ \E w \in Worker : WorkerStep(w) \/ DatabaseError(w) \/ LoseConnection(w)

CheckSafety == CheckInit /\ [][CheckNext]_vars

\* A worker is scheduled, a lock that stays free is given to one who waits for it, and
\* a circle of waiting is found.
CheckSpec ==
    /\ CheckSafety
    /\ \A w \in Worker : WF_vars(WorkerStep(w))

----------------------------------------------------------------------------
(* Properties. *)

\* What a transaction has read of obsdata stays as it was read until the transaction
\* ends, under the id it was read with (getData's FOR UPDATE, storeFetched), unless the
\* worker's own connection is lost and restored meanwhile; another worker's does no harm.
\* This is what lets the checks be written at the end.
ReadsAreStable ==
    \A w \in Worker \ adrift, o \in Obs :
        /\ o \in got[w] => lock[o] = w
        /\ o \in data[w] \cup saved[w]
               => lock[o] = w /\ row[o] = cache[w][o] /\ fetched[w][o] = row[o].id

\* The checks of an observation are one atomic step on the data as it is when they are
\* committed: nobody's flags are overwritten unseen, and data that HQC has touched is
\* left alone (checkObservation as a whole).  Only while some worker goes on after its
\* connection was lost and restored in mid-transaction are there writes of single rows.
ChecksAreAtomic == Atomic!AtomicSpec

\* What newObservation returns, to be sent, is what the database holds when it has
\* committed, and no row that was changed is left out (complete, then commit).  Excepted
\* are a worker whose connection was lost and restored in mid-transaction, and, for the
\* first part, an observation of which nothing was to be checked: its rows were not locked.
MessageIsCommitted ==
    [][\A w \in Worker \ adrift :
          pc[w] = "commit" /\ jobId[w] \in done' \ done
              => /\ saved[w] # {} =>
                        \A m \in out[w] : row'[m[1]].id = m[2] /\ row'[m[1]].marks = m[3]
                 /\ \A o \in Obs : row'[o] # row[o] => <<o, row'[o].id, row'[o].marks>> \in out[w]]_vars

\* DatabaseAccess.h says of commit "Commit data to the data storage": when it has returned,
\* what was handed to it is there.
CommitStoresData ==
    [][\A w \in Worker :
          pc[w] = "commit" /\ jobId[w] \in done' \ done
              => \A o \in saved[w] : row'[o].id = fetched[w][o] /\ row'[o].marks = value[w][o]]_vars

\* A check that has begun comes to an end, with a result or an exception: workers that
\* wait for each other's rows do not do so for ever (retries of newObservation).
CheckEnds == \A w \in Worker : pc[w] = "pin" ~> pc[w] = "idle"

\* DatabaseAccess.h says of pin "Pins are cleared when you start a new transaction": a
\* transaction that has read no text data yet meets no text data under another id.
TextPinsAreCleared ==
    \A w \in Worker : pc[w] = "run" /\ textSpan[w] = -1 => ~TextConflict(w)
=============================================================================
