----------------------------- MODULE DataInput -----------------------------
(* kvDataInputd: a decoder hands an observation to DataUpdateTransaction,   *)
(* which stores it, queues it for kvQabased or lets it bypass kvQabased;    *)
(* bypassing data is published by kvDataInputd itself.  The transaction     *)
(* runs REPEATABLE READ and is retried on a serialization error, so it is   *)
(* one atomic step here.                                                    *)
EXTENDS KvStore

\* How data comes in, for the station filters in use that have save_to_db set (data under
\* the others never reaches the database): the publish flag of the filter, and the
\* addToWorkQueue argument of addDataToDb.  Kldecoder passes the filter's flag there, its
\* do302 and the autoobs decoder pass nothing, which is true whatever the filter says,
\* and Kv2KvDecoder is true for data that is not checked.
CONSTANT Filters

ASSUME FiltersAssumption ==
    Filters \subseteq [publish: BOOLEAN, addToWorkQueue: BOOLEAN]

VARIABLES
    toPublish,  \* bypassing data kvDataInputd has stored and not yet published
    dropped,    \* history: bypassing data kvDataInputd lost before publishing it
    unqueued    \* history: stores whose unchecked data the decoder kept off workque

inputVars == <<toPublish, dropped, unqueued>>

\* What a message holds: numeric elements, all of them HQC-corrected or not, text.
Message == {m \in [num: BOOLEAN, hqc: BOOLEAN, txt: BOOLEAN] :
                (m.num \/ m.txt) /\ (m.hqc => m.num)}

\* onlyHqcDataCheck: no numeric element lacks the hqcDone flag.
OnlyHqcData(m) == m.num => m.hqc

\* Mutant: the processed entry is deleted without a copy.
NoCopyToWorkStatistik(old) == workstatistik

\* worqueToWorkStatistik: a processed entry is copied to workstatistik, unless a
\* row is there, before the entry is deleted.
WorqueToWorkStatistik(old) ==
    IF old # 0 /\ Processed(old) /\ workstatistik[old] = 0
    THEN [workstatistik EXCEPT ![old] = 1]
    ELSE workstatistik

\* DELETE FROM observations takes the workque row along (ON DELETE CASCADE).
CascadeDelete(old) ==
    IF old # 0 THEN [workque EXCEPT ![old] = NoEntry] ELSE workque

InputTypeOK ==
    /\ toPublish \subseteq Id
    /\ dropped \subseteq Id
    /\ unqueued \subseteq Id

InputInit == toPublish = {} /\ dropped = {} /\ unqueued = {}

\* Mutant: checkWorkQue is not called.
BypassesPending(m, old) == OnlyHqcData(m)

\* checkWorkQue: an unprocessed entry revokes the bypass.
Bypasses(m, old) == OnlyHqcData(m) /\ ~(old # 0 /\ Pending(old))

\* The common tail of INSERT, UPDATE and REPLACE: delete the old observation, insert
\* the new one with the given data, let updateWorkQue queue it or not, and keep what
\* bypasses kvQabased for publishing, if the filter has publish set.
Store(k, m, f, q, data) ==
    LET old    == row[k].id
        queued == f.addToWorkQueue /\ ~Bypasses(m, old)
    IN  /\ nextId <= MaxId
        /\ nextId' = nextId + 1
        /\ row' = [row EXCEPT ![k] = data]
        /\ workque' = IF queued
                      THEN [CascadeDelete(old) EXCEPT ![nextId] = NewEntry(FALSE, q)]
                      ELSE CascadeDelete(old)
        /\ workstatistik' = WorqueToWorkStatistik(old)
        /\ toPublish' = IF Bypasses(m, old) /\ f.publish
                        THEN toPublish \cup {nextId} ELSE toPublish
        /\ unqueued' = IF data.raw /\ ~queued /\ (~f.addToWorkQueue \/ old \in unqueued)
                       THEN unqueued \cup {nextId} ELSE unqueued
        /\ UNCHANGED <<checked, faults, dropped>>

\* No observation exists for the key.
Insert(k, m, f, q) ==
    /\ row[k].id = 0
    /\ Store(k, m, f, q, [id |-> nextId, num |-> m.num, txt |-> m.txt,
                          raw |-> ~OnlyHqcData(m), filled |-> FALSE])

\* DbUpdate: the new elements are merged into the old observation.
Update(k, m, f, q) ==
    /\ row[k].id # 0
    /\ Store(k, m, f, q, [id |-> nextId, num |-> m.num \/ row[k].num,
                          txt |-> m.txt \/ row[k].txt,
                          raw |-> ~OnlyHqcData(m) \/ row[k].raw,
                          filled |-> row[k].filled])

\* DbInsert of other data: the old observation is replaced.
Replace(k, m, f, q) ==
    /\ row[k].id # 0
    /\ Store(k, m, f, q, [id |-> nextId, num |-> m.num, txt |-> m.txt,
                          raw |-> ~OnlyHqcData(m), filled |-> FALSE])

\* isEqual: the data is in the database already; nothing is stored or published.
Duplicate(k, m, f) ==
    /\ row[k].id # 0
    /\ m.num => row[k].num
    /\ m.txt => row[k].txt
    /\ UNCHANGED <<storeVars, inputVars>>

\* The bypassing data reaches the 'checked' topic through the Kafka thread.
PublishData(i) ==
    /\ i \in toPublish
    /\ toPublish' = toPublish \ {i}
    /\ checked' = checked \cup {i}
    /\ UNCHANGED <<nextId, row, workque, workstatistik, faults, dropped, unqueued>>

\* The queue to the Kafka thread stays full for 4 seconds, or kvDataInputd dies:
\* the data is stored, and nobody will publish it.
PublishDropped(i) ==
    /\ i \in toPublish
    /\ toPublish' = toPublish \ {i}
    /\ dropped' = dropped \cup {i}
    /\ Fault
    /\ UNCHANGED <<nextId, row, workque, workstatistik, checked, unqueued>>

InputNext ==
    \/ \E k \in Key, m \in Message, f \in Filters, q \in QaIds :
          Insert(k, m, f, q) \/ Update(k, m, f, q) \/ Replace(k, m, f, q)
    \/ \E k \in Key, m \in Message, f \in Filters : Duplicate(k, m, f)
    \/ \E i \in Id : PublishData(i) \/ PublishDropped(i)
=============================================================================
