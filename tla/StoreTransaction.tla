-------------------------- MODULE StoreTransaction --------------------------
(* lib/dbdrivers, PGPimpel::perform and PGConnection::exec, with the           *)
(* statements of DataUpdateTransaction: decoder threads store messages for one *)
(* observation, each on its own connection, in REPEATABLE READ transactions    *)
(* that are tried again when PostgreSQL refuses them.                          *)
EXTENDS DataUpdate

CONSTANTS
    Thread,      \* decoder threads
    Messages,    \* the messages they may have
    InitDb,      \* the database when they start
    MaxRetry,    \* attempts that perform makes (20)
    MaxFaults    \* bound on errors of the database and lost connections

Db == [id : Nat, data : Data, entry : Entry, archived : SUBSET Nat]

\* An observation that is not there has no entry, and ids are used once.
ASSUME StoreAssumption ==
    /\ Messages \subseteq Message
    /\ InitDb \subseteq Db
    /\ \A d \in InitDb : /\ d.id = 0 => d.entry = "none"
                         /\ \A i \in d.archived : i <= d.id
    /\ MaxRetry \in Nat \ {0} /\ MaxFaults \in Nat
    /\ "free" \notin Thread

VARIABLES
    db,        \* committed: observation, data, workque and workstatistik
    nextId,    \* observations_observationid_seq
    lock,      \* who has changed rows of the observation in an open transaction
    tx,        \* whether a thread's connection is in a transaction
    view,      \* what the transaction sees: its snapshot with its own changes
    conn,      \* "up" or "lost"
    seq,       \* currval of the session, 0 if there is none
    pc,        \* the statement that is next
    msg,       \* newData, newTextData and the other arguments
    old,       \* oldObs
    newId,     \* newObs.observationid
    bypass,    \* onlyHqcData
    publish,   \* whether dataToPublish_ has data
    retry,     \* attempts left
    answer,    \* what perform has come to
    faults,    \* errors and lost connections so far
    lossless   \* no connection has been lost

serverVars == <<db, nextId, lock, tx, view, seq>>
localVars == <<old, newId, bypass, publish>>
vars == <<serverVars, conn, pc, msg, localVars, retry, answer, faults, lossless>>

\* A transaction that has only read is about to end; and what is published is what an
\* answered perform has left to publish.
Atomic == INSTANCE AtomicStore WITH
    same <- [t \in Thread |-> pc[t] = "end" /\ lock # t],
    publish <- [t \in Thread |-> answer[t] = "ok" /\ publish[t]]

Pc == {"begin", "read", "check", "archive", "delete", "insert", "currval", "data", "enqueue",
       "end", "stop"}

StoreTypeOK ==
    /\ db \in Db /\ nextId \in Nat /\ lock \in Thread \cup {"free"}
    /\ tx \in [Thread -> BOOLEAN] /\ view \in [Thread -> Db]
    /\ conn \in [Thread -> {"up", "lost"}] /\ seq \in [Thread -> Nat]
    /\ pc \in [Thread -> Pc] /\ msg \in [Thread -> Messages]
    /\ old \in [Thread -> Db] /\ newId \in [Thread -> Nat]
    /\ bypass \in [Thread -> BOOLEAN] /\ publish \in [Thread -> BOOLEAN]
    /\ retry \in [Thread -> 0..MaxRetry]
    /\ answer \in [Thread -> {"none", "ok", "failed"}]
    /\ faults \in 0..MaxFaults /\ lossless \in BOOLEAN

StoreInit ==
    /\ db \in InitDb /\ nextId = db.id + 1 /\ lock = "free"
    /\ tx = [t \in Thread |-> FALSE] /\ view = [t \in Thread |-> NoObservation]
    /\ conn = [t \in Thread |-> "up"] /\ seq = [t \in Thread |-> 0]
    /\ pc = [t \in Thread |-> "begin"] /\ msg \in [Thread -> Messages]
    /\ old = [t \in Thread |-> NoObservation] /\ newId = [t \in Thread |-> 0]
    /\ bypass = [t \in Thread |-> FALSE] /\ publish = [t \in Thread |-> FALSE]
    /\ retry = [t \in Thread |-> MaxRetry] /\ answer = [t \in Thread |-> "none"]
    /\ faults = 0 /\ lossless = TRUE

Goto(t, l) == pc' = [pc EXCEPT ![t] = l]

----------------------------------------------------------------------------
(* A statement.  On a connection that was lost and restored there is no        *)
(* transaction: the statement is one of its own.                               *)

At(t, l) == pc[t] = l /\ conn[t] = "up"

\* What a statement of t reads.
Sees(t) == IF tx[t] THEN view[t] ELSE db

\* A write waits for the rows that others have changed.
MayWrite(t) == lock \in {"free", t}

\* Mutant: READ COMMITTED.
ReadCommitted(t) == FALSE

\* REPEATABLE READ: the rows were changed after the snapshot was taken.
Outdated(t) == tx[t] /\ lock # t /\ db # view[t]

\* The effect of a write.
Writes(t, d) ==
    IF tx[t]
    THEN /\ view' = [view EXCEPT ![t] = d]
         /\ lock' = t
         /\ UNCHANGED db
    ELSE /\ db' = d
         /\ UNCHANGED <<view, lock>>

\* Mutant: the transaction is left open.
LeftOpen(t) ==
    /\ tx' = [tx EXCEPT ![t] = FALSE]
    /\ view' = [view EXCEPT ![t] = NoObservation]
    /\ UNCHANGED lock

\* The server forgets the transaction of t.
RolledBack(t) ==
    /\ tx' = [tx EXCEPT ![t] = FALSE]
    /\ view' = [view EXCEPT ![t] = NoObservation]
    /\ lock' = IF lock = t THEN "free" ELSE lock

\* oldObs and newObs are gone when operator() has ended.
Leave(t) ==
    /\ old' = [old EXCEPT ![t] = NoObservation]
    /\ newId' = [newId EXCEPT ![t] = 0]

\* The caller of perform gets an exception or an answer.
Return(t, a) ==
    /\ Goto(t, "stop")
    /\ answer' = [answer EXCEPT ![t] = a]

\* Rolled back, with n attempts left: onRetry, or onMaxRetry.
TryAgain(t, n) ==
    /\ RolledBack(t)
    /\ retry' = [retry EXCEPT ![t] = n]
    /\ IF n = 0 THEN Return(t, "failed") ELSE Goto(t, "begin") /\ UNCHANGED answer
    /\ Leave(t)
    /\ UNCHANGED <<db, nextId, seq, msg, bypass, publish>>

\* SQLSerializeError is not counted.
SerializeError(t) == TryAgain(t, retry[t])

\* Mutant: the attempts are counted up.
AbortedCountsUp(t) == TryAgain(t, retry[t] + 1)

\* SQLAborted
Aborted(t) == TryAgain(t, retry[t] - 1)

\* SQLUnrecoverable, and any other SQLException: SQLDuplicate, SQLNotConnected.
Unrecoverable(t) == TryAgain(t, 0)

----------------------------------------------------------------------------
(* perform and DataUpdateTransaction::operator(). *)

BeginTransaction(t) ==
    /\ At(t, "begin")
    /\ tx' = [tx EXCEPT ![t] = TRUE]
    /\ Goto(t, "read")
    /\ UNCHANGED <<db, nextId, lock, view, seq, conn, msg, localVars, retry, answer, faults, lossless>>

\* onlyHqcDataCheck, in each attempt.
OnlyHqcDataCheck(t) ==
    /\ bypass' = [bypass EXCEPT ![t] = OnlyHqcData(msg[t])]
    /\ publish' = [publish EXCEPT ![t] = OnlyHqcData(msg[t])]

\* The first SELECT takes the snapshot.
ReadOld(t) ==
    /\ view' = [view EXCEPT ![t] = IF tx[t] THEN db ELSE @]
    /\ old' = [old EXCEPT ![t] = db]

\* getFromDb finds nothing.
ReadNothing(t) ==
    /\ At(t, "read") /\ db.id = 0
    /\ OnlyHqcDataCheck(t) /\ ReadOld(t)
    /\ Goto(t, "insert")
    /\ UNCHANGED <<db, nextId, lock, tx, seq, conn, msg, newId, retry, answer, faults, lossless>>

\* The data is there already.
ReadDuplicate(t) ==
    /\ At(t, "read") /\ db.id # 0
    /\ \E left \in Left(db.data) : IsEqual(msg[t], db.data, left)
    /\ bypass' = [bypass EXCEPT ![t] = OnlyHqcData(msg[t])]
    /\ publish' = [publish EXCEPT ![t] = FALSE]
    /\ ReadOld(t)
    /\ Goto(t, "end")
    /\ UNCHANGED <<db, nextId, lock, tx, seq, conn, msg, newId, retry, answer, faults, lossless>>

\* updateObservation or replaceObservation.
ReadOther(t) ==
    /\ At(t, "read") /\ db.id # 0
    /\ \E left \in Left(db.data) : ~IsEqual(msg[t], db.data, left)
    /\ OnlyHqcDataCheck(t) /\ ReadOld(t)
    /\ Goto(t, "check")
    /\ UNCHANGED <<db, nextId, lock, tx, seq, conn, msg, newId, retry, answer, faults, lossless>>

\* checkWorkQue: an entry that is not processed is made anew.
CheckWorkQue(t) ==
    /\ At(t, "check")
    /\ LET unprocessed == Sees(t).id = old[t].id /\ Sees(t).entry \in Unprocessed
       IN  /\ bypass' = [bypass EXCEPT ![t] = @ /\ ~unprocessed]
           /\ publish' = [publish EXCEPT ![t] = @ /\ ~unprocessed]
           /\ Goto(t, IF unprocessed THEN "delete" ELSE "archive")
    /\ UNCHANGED <<serverVars, conn, msg, old, newId, retry, answer, faults, lossless>>

\* The entry that worqueToWorkStatistik finds.
Processed(t) == Sees(t).id = old[t].id /\ Sees(t).entry = "done"

\* worqueToWorkStatistik: one that is processed is moved to workstatistik.
WorqueToWorkStatistik(t) ==
    /\ At(t, "archive")
    /\ IF Processed(t)
       THEN /\ MayWrite(t) /\ ~Outdated(t)
            /\ Writes(t, [Sees(t) EXCEPT !.entry = "none", !.archived = @ \cup {old[t].id}])
       ELSE UNCHANGED <<db, view, lock>>
    /\ Goto(t, "delete")
    /\ UNCHANGED <<nextId, tx, seq, conn, msg, localVars, retry, answer, faults, lossless>>

\* DELETE FROM observations, with all that refers to it.
DeleteObservation(t) ==
    /\ At(t, "delete") /\ MayWrite(t) /\ ~Outdated(t)
    /\ IF Sees(t).id = old[t].id
       THEN Writes(t, [NoObservation EXCEPT !.archived = Sees(t).archived])
       ELSE UNCHANGED <<db, view, lock>>
    /\ Goto(t, "insert")
    /\ UNCHANGED <<nextId, tx, seq, conn, msg, localVars, retry, answer, faults, lossless>>

\* "could not serialize access".
ConcurrentUpdate(t) ==
    /\ At(t, "delete") \/ (At(t, "archive") /\ Processed(t))
    /\ MayWrite(t) /\ Outdated(t)
    /\ SerializeError(t)
    /\ UNCHANGED <<conn, faults, lossless>>

\* Somebody else's observation for the key is there, unseen or not.
KeyExists(t) == IF tx[t] /\ lock = t THEN view[t].id # 0 ELSE db.id # 0

\* INSERT INTO observations: a value of the sequence is used up in any case.
InsertObservation(t) ==
    /\ At(t, "insert") /\ MayWrite(t) /\ ~KeyExists(t)
    /\ Writes(t, [NoObservation EXCEPT !.id = nextId, !.archived = Sees(t).archived])
    /\ nextId' = nextId + 1
    /\ seq' = [seq EXCEPT ![t] = nextId]
    /\ Goto(t, "currval")
    /\ UNCHANGED <<tx, conn, msg, localVars, retry, answer, faults, lossless>>

\* SQLDuplicate: the observation has come in the meantime.
InsertDuplicate(t) ==
    /\ At(t, "insert") /\ MayWrite(t) /\ KeyExists(t)
    /\ Unrecoverable(t)
    /\ UNCHANGED <<conn, faults, lossless>>

\* currval of a session that has not used the sequence is an error.
CurrentObservationid(t) ==
    /\ At(t, "currval")
    /\ IF seq[t] = 0
       THEN Aborted(t)
       ELSE /\ newId' = [newId EXCEPT ![t] = seq[t]]
            /\ Goto(t, "data")
            /\ UNCHANGED <<serverVars, msg, old, bypass, publish, retry, answer>>
    /\ UNCHANGED <<conn, faults, lossless>>

\* A row that refers to an observation that is not there violates a foreign key.
InsertRow(t, d, next) ==
    IF Sees(t).id = newId[t]
    THEN /\ Writes(t, d)
         /\ Goto(t, next)
         /\ UNCHANGED <<nextId, tx, seq, msg, localVars, retry, answer>>
    ELSE Aborted(t)

\* INSERT INTO obsdata and obstextdata.
InsertData(t) ==
    /\ At(t, "data") /\ MayWrite(t)
    /\ InsertRow(t, [Sees(t) EXCEPT !.data = IF old[t].id = 0 THEN msg[t].data
                                             ELSE NewData(msg[t], old[t].data)], "enqueue")
    /\ UNCHANGED <<conn, faults, lossless>>

\* updateWorkQue
UpdateWorkQue(t) ==
    /\ At(t, "enqueue")
    /\ IF ~msg[t].addToWorkQueue \/ bypass[t]
       THEN Goto(t, "end") /\ UNCHANGED <<serverVars, msg, localVars, retry, answer>>
       ELSE MayWrite(t) /\ InsertRow(t, [Sees(t) EXCEPT !.entry = "open"], "end")
    /\ UNCHANGED <<conn, faults, lossless>>

\* onSuccess, then END.  Outside a transaction END is only warned about.
EndTransaction(t) ==
    /\ At(t, "end")
    /\ db' = IF tx[t] /\ lock = t THEN view[t] ELSE db
    /\ RolledBack(t)
    /\ Return(t, "ok") /\ Leave(t)
    /\ UNCHANGED <<nextId, seq, conn, msg, bypass, publish, retry, faults, lossless>>

----------------------------------------------------------------------------
(* Errors, lost connections, other processes. *)

\* An error of the database in a statement: a deadlock (40P01) is counted when 20
\* seconds have gone by.
DatabaseError(t) ==
    /\ pc[t] \notin {"begin", "stop"} /\ conn[t] = "up" /\ faults < MaxFaults
    /\ faults' = faults + 1
    /\ SerializeError(t) \/ Aborted(t) \/ Unrecoverable(t)
    /\ UNCHANGED <<conn, lossless>>

\* The connection is lost: the server rolls back, or has just committed.
LoseConnection(t) ==
    /\ pc[t] # "stop" /\ conn[t] = "up" /\ faults < MaxFaults
    /\ faults' = faults + 1 /\ lossless' = FALSE
    /\ conn' = [conn EXCEPT ![t] = "lost"]
    /\ RolledBack(t)
    /\ seq' = [seq EXCEPT ![t] = 0]
    /\ \/ UNCHANGED db
       \/ pc[t] = "end" /\ lock = t /\ db' = view[t]
    /\ UNCHANGED <<nextId, pc, msg, localVars, retry, answer>>

\* exec connects again and goes on with the statement.
TryReconnect(t) ==
    /\ pc[t] # "stop" /\ conn[t] = "lost"
    /\ conn' = [conn EXCEPT ![t] = "up"]
    /\ UNCHANGED <<serverVars, pc, msg, localVars, retry, answer, faults, lossless>>

\* SQLNotConnected; the connection may come back when perform rolls back.
ReconnectFails(t) ==
    /\ pc[t] # "stop" /\ conn[t] = "lost"
    /\ \/ Unrecoverable(t) /\ conn' \in {conn, [conn EXCEPT ![t] = "up"]}
       \/ pc[t] = "begin" /\ Aborted(t) /\ conn' = [conn EXCEPT ![t] = "up"]
    /\ UNCHANGED <<faults, lossless>>

\* kvQabased and kvManagerd change rows that are not locked.
Others ==
    /\ lock = "free"
    /\ db' \in Process(db)
    /\ UNCHANGED <<nextId, lock, tx, view, seq, conn, pc, msg, localVars, retry, answer, faults, lossless>>

ThreadStep(t) ==
    \/ BeginTransaction(t)
    \/ ReadNothing(t) \/ ReadDuplicate(t) \/ ReadOther(t)
    \/ CheckWorkQue(t) \/ WorqueToWorkStatistik(t) \/ DeleteObservation(t) \/ ConcurrentUpdate(t)
    \/ InsertObservation(t) \/ InsertDuplicate(t) \/ CurrentObservationid(t)
    \/ InsertData(t) \/ UpdateWorkQue(t) \/ EndTransaction(t)
    \/ TryReconnect(t) \/ ReconnectFails(t)

StoreNext ==
    \/ Others
    \/ \E t \in Thread : ThreadStep(t) \/ DatabaseError(t) \/ LoseConnection(t)

StoreSafety == StoreInit /\ [][StoreNext]_vars

\* A thread is scheduled, and a row lock that is free is given to who waits for it.
StoreSpec == StoreSafety /\ \A t \in Thread : WF_vars(ThreadStep(t))

----------------------------------------------------------------------------
(* Properties. *)

\* While connections last, a store takes place in one step: it is compared and merged
\* with the data that is there at that moment, its entry is made or its data published,
\* and perform says truly what has become of it (REPEATABLE READ, retries, locals that
\* are reset in each attempt).
StoresAreAtomic == Atomic!AtomicSpec

\* The values of m are in d, to a hundredth, and with DbInsert nothing else is but missing
\* values.
Holds(m, d) ==
    /\ \A p \in Present(m.data) : p \in Present(d) /\ d[p].orig - m.data[p].orig \in -1..1
    /\ m.mode = DbInsert => \A p \in Present(d) \ Present(m.data) : d[p].orig = Missing

\* While connections last, perform returns without an exception only if the message is in
\* the database, or was found there (a duplicate: isEqual).
OkMeansStored ==
    [][\A t \in Thread :
          answer[t] = "none" /\ answer'[t] = "ok" /\ lossless
              => Holds(msg[t], db'.data) \/ Holds(msg[t], old[t].data)]_vars

\* kvdb.h says of perform "If an transaction is attempted retry times without success the
\* transactions onMaxRetry is called", which throws: without an exception the message has
\* been stored, whatever became of the connection.
SuccessIsStored ==
    [][\A t \in Thread :
          answer[t] = "none" /\ answer'[t] = "ok"
              => Holds(msg[t], db'.data) \/ Holds(msg[t], old[t].data)]_vars

\* decoder.h says of addDataToDb that nothing is stored only if "the data already exist and
\* is equal to the data we are trying to insert": while connections last and perform returns
\* without an exception, each value of the message, and not one near it, is in the database
\* or was found there.
DuplicateIsEqual ==
    [][\A t \in Thread :
          answer[t] = "none" /\ answer'[t] = "ok" /\ lossless
              => \E d \in {db'.data, old[t].data} : \A p \in Present(msg[t].data) :
                    p \in Present(d) /\ d[p].orig = msg[t].data[p].orig]_vars

\* perform comes to an end, although serialization errors are not counted: each one
\* takes the commit of somebody else.
StoreEnds == \A t \in Thread : pc[t] = "begin" ~> pc[t] = "stop"
=============================================================================
