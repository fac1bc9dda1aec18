------------------------------- MODULE QaBase -------------------------------
(* kvQabased: worker processes that claim entries of workque in batches,    *)
(* check the observations, send the result to the 'checked' topic and mark  *)
(* the entry done.  A claim is qa_start; a claim without qa_stop that is    *)
(* older than 10 minutes is taken over by any worker that may.              *)
EXTENDS KvStore

CONSTANTS
    Worker,       \* kvQabased processes
    QaIdOf,       \* the id each was started with, -1 for none
    Mortal,       \* the workers that may crash or be stopped
    Recent,       \* the keys whose obstime lies in the last three hours
    SelectLimit,  \* select-for-control-count
    FailedLimit,  \* LIMIT of selectFailedDataForControl (10 in the code)
    SlowWorkers   \* may a worker sit on a claimed batch for more than 10 minutes?

ASSUME QaBaseAssumption ==
    /\ QaIdOf \in [Worker -> Int]
    /\ Mortal \subseteq Worker /\ Recent \subseteq Key
    /\ SelectLimit \in Nat \ {0} /\ FailedLimit \in Nat \ {0}
    /\ SlowWorkers \in BOOLEAN

VARIABLES
    pc,        \* where a worker is in NewDataListener::run
    cur,       \* the observation it is working on, 0 for none
    batch,     \* selectedForControl: claimed, not started
    stopping,  \* stopping_: SIGINT or SIGHUP has been received
    inflight,  \* sent to Kafka without an answer
    unsent     \* history: a stopping worker gave up sending them

qaVars == <<pc, cur, batch, stopping, inflight, unsent>>

Pc == {"run", "check", "send", "mark", "down"}

\* The entries a worker has claimed and not let go of.
Held(w) == batch[w] \cup ({cur[w]} \ {0})

\* (qa_id = own OR qa_id IS NULL); a process without an id takes every entry.
MayTake(w, i) == QaIdOf[w] > -1 => workque[i].qa_id \in {QaIdOf[w], -1}

\* Mutants: the age of the claim is not asked for; crashed checks are not selected.
FailedDataAnyAge(w) ==
    {i \in Id : Pending(i) /\ workque[i].qa_start # "null" /\ MayTake(w, i)}
FailedDataNever(w) == {}

FailedData(w) == {i \in Id : Pending(i) /\ workque[i].qa_start = "old" /\ MayTake(w, i)}

\* Mutant: process_start is not asked for.
ReadyDataUnreleased(w) ==
    {i \in Id : workque[i].on /\ workque[i].qa_start = "null" /\ MayTake(w, i)}

ReadyData(w) == {i \in Id : /\ workque[i].on /\ workque[i].process_start
                            /\ workque[i].qa_start = "null" /\ MayTake(w, i)}

LatestData(w) == {i \in ReadyData(w) : \E k \in Recent : row[k].id = i}

\* SELECT ... LIMIT n: that many of the rows, or all of them.
Limited(S, n) == {T \in SUBSET S :
                     Cardinality(T) = IF Cardinality(S) < n THEN Cardinality(S) ELSE n}

\* max(1, limit / 2)
OlderLimit == IF SelectLimit \div 2 = 0 THEN 1 ELSE SelectLimit \div 2

\* selectDataForControl: crashed checks first, then the latest, then older data.
Selections(w) ==
    IF FailedData(w) # {} THEN Limited(FailedData(w), FailedLimit)
    ELSE IF LatestData(w) # {} THEN Limited(LatestData(w), SelectLimit)
    ELSE Limited(ReadyData(w), OlderLimit)

\* What runChecks hands to sendToKafka: everything there is for an aggregated
\* observation, nothing for another one that has no numeric data (pin fails).
HasContent(k) == IF k \in Aggregated THEN row[k].num \/ row[k].txt ELSE row[k].num

QaTypeOK ==
    /\ pc \in [Worker -> Pc]
    /\ cur \in [Worker -> 0..MaxId]
    /\ batch \in [Worker -> SUBSET Id]
    /\ stopping \in [Worker -> BOOLEAN]
    /\ inflight \subseteq Id
    /\ unsent \subseteq Id

QaInit ==
    /\ pc = [w \in Worker |-> "run"]
    /\ cur = [w \in Worker |-> 0]
    /\ batch = [w \in Worker |-> {}]
    /\ stopping = [w \in Worker |-> FALSE]
    /\ inflight = {} /\ unsent = {}

\* Mutant: only the observation the worker starts with is claimed.
ClaimOne(w) ==
    /\ pc[w] = "run" /\ ~stopping[w] /\ batch[w] = {}
    /\ \E S \in Selections(w) \ {{}} : \E i \in S :
          /\ workque' = [workque EXCEPT ![i].qa_start = "recent"]
          /\ cur' = [cur EXCEPT ![w] = i]
          /\ batch' = [batch EXCEPT ![w] = S \ {i}]
    /\ pc' = [pc EXCEPT ![w] = "check"]
    /\ UNCHANGED <<faults, nextId, row, workstatistik, checked, stopping, inflight, unsent>>

\* fetchDataToProcess_: claim a batch in one SERIALIZABLE transaction and start with
\* one of it.  Nothing to claim: sleep and ask again.
SelectDataForControl(w) ==
    /\ pc[w] = "run" /\ ~stopping[w] /\ batch[w] = {}
    /\ \E S \in Selections(w) \ {{}} : \E i \in S :
          /\ workque' = [j \in Id |-> IF j \in S
                                      THEN [workque[j] EXCEPT !.qa_start = "recent"]
                                      ELSE workque[j]]
          /\ cur' = [cur EXCEPT ![w] = i]
          /\ batch' = [batch EXCEPT ![w] = S \ {i}]
    /\ pc' = [pc EXCEPT ![w] = "check"]
    /\ UNCHANGED <<faults, nextId, row, workstatistik, checked, stopping, inflight, unsent>>

\* fetchDataToProcess: take the next observation of the batch.
NextOfBatch(w) ==
    /\ pc[w] = "run" /\ ~stopping[w]
    /\ \E i \in batch[w] :
          /\ cur' = [cur EXCEPT ![w] = i]
          /\ batch' = [batch EXCEPT ![w] = @ \ {i}]
    /\ pc' = [pc EXCEPT ![w] = "check"]
    /\ UNCHANGED <<storeVars, stopping, inflight, unsent>>

\* Mutant: text data is never handed to Kafka.
RunChecksNumeric(w) ==
    /\ pc[w] = "check"
    /\ row' = [k \in Key |-> IF row[k].id = cur[w] THEN [row[k] EXCEPT !.raw = FALSE]
                             ELSE row[k]]
    /\ pc' = [pc EXCEPT ![w] = IF \E k \in Key : row[k].id = cur[w] /\ row[k].num
                               THEN "send" ELSE "mark"]
    /\ UNCHANGED <<faults, nextId, workque, workstatistik, checked, cur, batch, stopping,
                   inflight, unsent>>

\* runChecks: check the observation, store the flags and commit.  An observation that
\* input has replaced meanwhile has no data, and there is nothing to send.
RunChecks(w) ==
    /\ pc[w] = "check"
    /\ row' = [k \in Key |-> IF row[k].id = cur[w] THEN [row[k] EXCEPT !.raw = FALSE]
                             ELSE row[k]]
    /\ pc' = [pc EXCEPT ![w] = IF \E k \in Key : row[k].id = cur[w] /\ HasContent(k)
                               THEN "send" ELSE "mark"]
    /\ UNCHANGED <<faults, nextId, workque, workstatistik, checked, cur, batch, stopping,
                   inflight, unsent>>

\* The checks, the producer or marking throws: run() logs it, the entry keeps its claim.
ProcessingFails(w) ==
    /\ pc[w] \in {"check", "send", "mark"}
    /\ Fault
    /\ pc' = [pc EXCEPT ![w] = "run"]
    /\ cur' = [cur EXCEPT ![w] = 0]
    /\ UNCHANGED <<nextId, row, workque, workstatistik, checked, batch, stopping, inflight, unsent>>

\* sendToKafka: the broker confirms within the 2 seconds of catchup.
SendConfirmed(w) ==
    /\ pc[w] = "send"
    /\ checked' = checked \cup {cur[w]}
    /\ pc' = [pc EXCEPT ![w] = "mark"]
    /\ UNCHANGED <<faults, nextId, row, workque, workstatistik, cur, batch, stopping, inflight,
                   unsent>>

\* Mutant: one attempt is enough.
SendOnce(w) ==
    /\ pc[w] = "send"
    /\ inflight' = inflight \cup {cur[w]}
    /\ pc' = [pc EXCEPT ![w] = "mark"]
    /\ unsent' = IF stopping[w] THEN unsent \cup {cur[w]} ELSE unsent
    /\ UNCHANGED <<storeVars, cur, batch, stopping>>

\* sendToKafka: no confirmation.  The message may still arrive; a worker that is
\* stopping leaves the loop, another one sends again.
SendUnconfirmed(w) ==
    /\ pc[w] = "send"
    /\ inflight' = inflight \cup {cur[w]}
    /\ pc' = [pc EXCEPT ![w] = IF stopping[w] THEN "mark" ELSE "send"]
    /\ unsent' = IF stopping[w] THEN unsent \cup {cur[w]} ELSE unsent
    /\ UNCHANGED <<storeVars, cur, batch, stopping>>

\* A message without an answer is delivered after all, or never.
Deliver(i) ==
    /\ i \in inflight
    /\ inflight' = inflight \ {i}
    /\ checked' \in {checked, checked \cup {i}}
    /\ UNCHANGED <<faults, nextId, row, workque, workstatistik, pc, cur, batch, stopping,
                   unsent>>

\* Mutant: the whole batch is marked.
MarkBatchDone(w) ==
    /\ pc[w] = "mark"
    /\ workque' = [i \in Id |-> IF i \in Held(w) /\ workque[i].on
                                THEN [workque[i] EXCEPT !.qa_stop = "recent"]
                                ELSE workque[i]]
    /\ pc' = [pc EXCEPT ![w] = "run"]
    /\ cur' = [cur EXCEPT ![w] = 0]
    /\ UNCHANGED <<faults, nextId, row, workstatistik, checked, batch, stopping, inflight,
                   unsent>>

\* markProcessDone: UPDATE workque SET qa_stop; no row is left if input replaced the
\* observation.
MarkProcessDone(w) ==
    /\ pc[w] = "mark"
    /\ workque' = IF workque[cur[w]].on
                  THEN [workque EXCEPT ![cur[w]].qa_stop = "recent"] ELSE workque
    /\ pc' = [pc EXCEPT ![w] = "run"]
    /\ cur' = [cur EXCEPT ![w] = 0]
    /\ UNCHANGED <<faults, nextId, row, workstatistik, checked, batch, stopping, inflight,
                   unsent>>

\* SIGINT or SIGHUP.
Stop(w) ==
    /\ w \in Mortal /\ pc[w] # "down" /\ ~stopping[w]
    /\ Fault
    /\ stopping' = [stopping EXCEPT ![w] = TRUE]
    /\ UNCHANGED <<nextId, row, workque, workstatistik, checked, pc, cur, batch, inflight, unsent>>

\* run() leaves its loop; what is left of the batch keeps its claim.
Exit(w) ==
    /\ pc[w] = "run" /\ stopping[w]
    /\ pc' = [pc EXCEPT ![w] = "down"]
    /\ batch' = [batch EXCEPT ![w] = {}]
    /\ UNCHANGED <<storeVars, cur, stopping, inflight, unsent>>

\* The process dies, or gives up sending with exit(16).
Crash(w) ==
    /\ w \in Mortal /\ pc[w] # "down"
    /\ Fault
    /\ pc' = [pc EXCEPT ![w] = "down"]
    /\ cur' = [cur EXCEPT ![w] = 0]
    /\ batch' = [batch EXCEPT ![w] = {}]
    /\ UNCHANGED <<nextId, row, workque, workstatistik, checked, stopping, inflight, unsent>>

Restart(w) ==
    /\ pc[w] = "down"
    /\ pc' = [pc EXCEPT ![w] = "run"]
    /\ stopping' = [stopping EXCEPT ![w] = FALSE]
    /\ UNCHANGED <<storeVars, cur, batch, inflight, unsent>>

\* 10 minutes go by after an entry was claimed.
ClaimAges(i) ==
    /\ workque[i].on /\ workque[i].qa_start = "recent"
    /\ SlowWorkers \/ \A w \in Worker : i \notin Held(w)
    /\ workque' = [workque EXCEPT ![i].qa_start = "old"]
    /\ UNCHANGED <<faults, nextId, row, workstatistik, checked, qaVars>>

\* Every step a live worker takes by itself.
WorkerStep(w) ==
    \/ SelectDataForControl(w) \/ NextOfBatch(w) \/ RunChecks(w)
    \/ SendConfirmed(w) \/ MarkProcessDone(w) \/ Exit(w)

QaNext ==
    \/ \E w \in Worker :
          \/ WorkerStep(w) \/ SendUnconfirmed(w) \/ ProcessingFails(w)
          \/ Stop(w) \/ Crash(w) \/ Restart(w)
    \/ \E i \in Id : Deliver(i) \/ ClaimAges(i)
=============================================================================
