------------------------------ MODULE KvStore ------------------------------
(* What the kvalobs daemons share: the PostgreSQL tables observations,      *)
(* obsdata, obstextdata, workque and workstatistik, and the 'checked' Kafka *)
(* topic.  An observation key stands for (stationid, typeid, obstime), the  *)
(* unique key of observations; every store creates a new observationid, so  *)
(* an observationid also identifies the contents that were stored with it.  *)
EXTENDS Integers, FiniteSets

CONSTANTS
    Key,         \* observation keys (stationid, typeid, obstime)
    Aggregated,  \* the keys with typeid < 0: kvQabased runs no checks on them
    WholeHour,   \* the keys whose obstime has zero minutes and seconds
    Expected,    \* the keys obs_pgm says a station must report
    QaIds,       \* the qa_id values kvDataInputd hands out, -1 for none
    MaxId,       \* bound: how many observations are ever created
    MaxFaults    \* bound: crashes, stops and failures in one behaviour

ASSUME KvStoreAssumption ==
    /\ Aggregated \subseteq Key /\ WholeHour \subseteq Key
    /\ Expected \subseteq Key
    /\ QaIds \subseteq Int /\ -1 \in QaIds
    /\ MaxId \in Nat \ {0} /\ MaxFaults \in Nat

VARIABLES
    nextId,         \* the sequence behind observations.observationid
    row,            \* the observations row of a key, with a summary of its data
    workque,        \* table workque, by observationid
    workstatistik,  \* number of rows in table workstatistik, by observationid
    checked,        \* the observationids whose data is on the 'checked' topic
    faults          \* number of faults so far

storeVars == <<nextId, row, workque, workstatistik, checked, faults>>

Id == 1..MaxId

\* A timestamp column: NULL, or younger or older than the age the queries ask for
\* (10 minutes for qa_start, 15 minutes for qa_stop).
Stamp == {"null", "recent", "old"}

\* id = 0 when no observations row exists for the key; num and txt: there are
\* obsdata, obstextdata rows; raw: some of them have not been through CheckRunner;
\* filled: the missing values have been added.
Row == [id: 0..MaxId, num: BOOLEAN, txt: BOOLEAN, raw: BOOLEAN, filled: BOOLEAN]

NoRow == [id |-> 0, num |-> FALSE, txt |-> FALSE, raw |-> FALSE, filled |-> FALSE]

\* on: the row exists (UNIQUE(observationid) allows one).
Entry == [on: BOOLEAN, process_start: BOOLEAN, qa_start: Stamp, qa_stop: Stamp,
          qa_id: QaIds]

NoEntry == [on |-> FALSE, process_start |-> FALSE, qa_start |-> "null",
            qa_stop |-> "null", qa_id |-> -1]

\* A workque row as it is inserted: nobody has checked the data.
NewEntry(started, qaId) ==
    [on |-> TRUE, process_start |-> started, qa_start |-> "null",
     qa_stop |-> "null", qa_id |-> qaId]

Current(i) == \E k \in Key : row[k].id = i

\* Waiting for, or in, kvQabased.
Pending(i) == workque[i].on /\ workque[i].qa_stop = "null"

\* kvQabased has set qa_stop.
Processed(i) == workque[i].on /\ workque[i].qa_stop # "null"

StoreTypeOK ==
    /\ nextId \in 1..(MaxId + 1)
    /\ row \in [Key -> Row]
    /\ workque \in [Id -> Entry]
    /\ workstatistik \in [Id -> Nat]
    /\ checked \subseteq Id
    /\ faults \in 0..MaxFaults

StoreInit ==
    /\ nextId = 1
    /\ row = [k \in Key |-> NoRow]
    /\ workque = [i \in Id |-> NoEntry]
    /\ workstatistik = [i \in Id |-> 0]
    /\ checked = {} /\ faults = 0

\* Something goes wrong that the environment decides on.
Fault == faults < MaxFaults /\ faults' = faults + 1

\* 15 minutes go by after kvQabased finished with an entry.
QaStopAges(i) ==
    /\ workque[i].on /\ workque[i].qa_stop = "recent"
    /\ workque' = [workque EXCEPT ![i].qa_stop = "old"]
    /\ UNCHANGED <<nextId, row, workstatistik, checked, faults>>
=============================================================================
