---------------------- MODULE StoreTransaction_proofs ----------------------
(* Proofs about StoreTransaction: as long as no connection is lost, perform    *)
(* stores a message in one step or not at all.                                 *)
EXTENDS StoreTransaction, TLAPS

\* The attempts are counted while perform runs.
RunInv(t) ==
    /\ pc[t] = "stop" <=> answer[t] # "none"
    /\ pc[t] # "stop" => retry[t] # 0

\* Ids come from the sequence.
Used(d) == d.id < nextId /\ \A i \in d.archived : i < nextId

DbInv ==
    /\ Used(db)
    /\ db.id = 0 => db.entry = "none"
    /\ \A t \in Thread : Used(view[t]) /\ Used(old[t])

\* What t has to write, as it follows from oldObs alone.
Archived(t) == old[t].archived \cup (IF old[t].entry = "done" THEN {old[t].id} ELSE {})

Passes(t) == OnlyHqcData(msg[t]) /\ ~(old[t].id # 0 /\ old[t].entry \in Unprocessed)

Result(t) == IF old[t].id = 0 THEN msg[t].data ELSE NewData(msg[t], old[t].data)

Built(t, i, d, e) == [id |-> i, data |-> d, entry |-> e, archived |-> Archived(t)]

Fresh(t, i) == i \in Nat /\ i > old[t].id /\ i \notin old[t].archived

Writing == {"archive", "delete", "insert", "currval", "data", "enqueue"}

\* The message is another one than the observation that was found.
Differs(t) == old[t].id # 0 => \E left \in Left(old[t].data) : ~IsEqual(msg[t], old[t].data, left)

\* Who holds the row lock has found the committed state in its snapshot.
LockInv(t) ==
    /\ conn[t] = "up"
    /\ tx[t] <=> pc[t] \notin {"begin", "stop"}
    /\ lock = t => pc[t] \in Writing \cup {"end"} /\ pc[t] # "archive" /\ db = old[t]

\* What operator() has decided.
DecideInv(t) ==
    /\ pc[t] = "check" => bypass[t] = OnlyHqcData(msg[t]) /\ publish[t] = OnlyHqcData(msg[t])
    /\ pc[t] \in {"check", "archive", "delete"} => old[t].id # 0
    /\ pc[t] \in {"check", "archive"} => view[t] = old[t]
    /\ pc[t] = "archive" => old[t].entry \notin Unprocessed
    /\ pc[t] \in Writing \cup {"check"} => Differs(t)
    /\ pc[t] \in Writing => bypass[t] = Passes(t) /\ publish[t] = Passes(t)
    /\ pc[t] = "end" => IF lock = t THEN Differs(t) /\ publish[t] = Passes(t) ELSE ~publish[t]

\* What it has written, in its transaction.
WriteInv(t) ==
    /\ pc[t] = "delete" =>
          IF lock = t
          THEN view[t] = [old[t] EXCEPT !.entry = "none", !.archived = Archived(t)]
          ELSE view[t] = old[t] /\ old[t].entry # "done"
    /\ pc[t] = "insert" =>
          IF lock = t
          THEN view[t] = Built(t, 0, NoData, "none") /\ old[t].id # 0
          ELSE old[t].id = 0 /\ old[t].entry = "none" /\ view[t] = old[t] /\ (db.id = 0 => db = old[t])
    /\ pc[t] = "currval" =>
          lock = t /\ Fresh(t, seq[t]) /\ view[t] = Built(t, seq[t], NoData, "none")
    /\ pc[t] = "data" =>
          lock = t /\ Fresh(t, newId[t]) /\ view[t] = Built(t, newId[t], NoData, "none")
    /\ pc[t] = "enqueue" =>
          lock = t /\ Fresh(t, newId[t]) /\ view[t] = Built(t, newId[t], Result(t), "none")
    /\ pc[t] = "end" /\ lock = t =>
          /\ Fresh(t, newId[t])
          /\ view[t] = Built(t, newId[t], Result(t),
                             IF msg[t].addToWorkQueue /\ ~Passes(t) THEN "open" ELSE "none")

TxInv(t) == LockInv(t) /\ DecideInv(t) /\ WriteInv(t)

StoreInv ==
    /\ StoreTypeOK
    /\ \A t \in Thread : RunInv(t)
    /\ lossless => DbInv /\ \A t \in Thread : TxInv(t)

----------------------------------------------------------------------------
(* Observations, as records *)

\* The data of a message, alone or merged with stored data, is data.
LEMMA MessageTypes ==
    ASSUME NEW m \in Messages
    PROVE  m.data \in Data /\ m.addToWorkQueue \in BOOLEAN /\ \A d \in Data : NewData(m, d) \in Data
  <1>1. m \in Message
    BY StoreAssumption
  <1>2. m.data \in Data /\ m.addToWorkQueue \in BOOLEAN
    BY <1>1 DEF Message
  <1> QED
    BY <1>2 DEF NewData, Merged, Data

\* The empty database is a database.
LEMMA NoObservationType == NoObservation \in Db /\ NoData \in Data
  BY DEF NoObservation, NoData, Db, Data, Entry

\* What a write makes of an observation.
LEMMA Moved ==
    ASSUME NEW d \in Db, NEW e, NEW a
    PROVE  [d EXCEPT !.entry = e, !.archived = a]
               = [id |-> d.id, data |-> d.data, entry |-> e, archived |-> a]
  <1>1. [d EXCEPT !.entry = e, !.archived = a] = [[d EXCEPT !.entry = e] EXCEPT !.archived = a]
    OBVIOUS
  <1>2. [d EXCEPT !.entry = e] = [id |-> d.id, data |-> d.data, entry |-> e, archived |-> d.archived]
    BY DEF Db
  <1>3. [[id |-> d.id, data |-> d.data, entry |-> e, archived |-> d.archived] EXCEPT !.archived = a]
            = [id |-> d.id, data |-> d.data, entry |-> e, archived |-> a]
    OBVIOUS
  <1> QED
    BY <1>1, <1>2, <1>3, Zenon

\* A record with one field changed, written out.
LEMMA Changes ==
    ASSUME NEW d \in Db
    PROVE  /\ \A e : [d EXCEPT !.entry = e]
                         = [id |-> d.id, data |-> d.data, entry |-> e, archived |-> d.archived]
           /\ \A x : [d EXCEPT !.data = x]
                         = [id |-> d.id, data |-> x, entry |-> d.entry, archived |-> d.archived]
  <1>1. ASSUME NEW e
        PROVE  [d EXCEPT !.entry = e]
                   = [id |-> d.id, data |-> d.data, entry |-> e, archived |-> d.archived]
    BY DEF Db
  <1>2. ASSUME NEW x
        PROVE  [d EXCEPT !.data = x]
                   = [id |-> d.id, data |-> x, entry |-> d.entry, archived |-> d.archived]
    BY DEF Db
  <1> QED
    BY <1>1, <1>2

\* The row is deleted, or there is a new one without data.
LEMMA Emptied ==
    ASSUME NEW i, NEW a
    PROVE  /\ [NoObservation EXCEPT !.archived = a]
                  = [id |-> 0, data |-> NoData, entry |-> "none", archived |-> a]
           /\ [NoObservation EXCEPT !.id = i, !.archived = a]
                  = [id |-> i, data |-> NoData, entry |-> "none", archived |-> a]
  <1>1. [NoObservation EXCEPT !.archived = a]
            = [id |-> 0, data |-> NoData, entry |-> "none", archived |-> a]
    BY DEF NoObservation
  <1>2. [NoObservation EXCEPT !.id = i, !.archived = a]
            = [[NoObservation EXCEPT !.id = i] EXCEPT !.archived = a]
    OBVIOUS
  <1>3. [NoObservation EXCEPT !.id = i]
            = [id |-> i, data |-> NoData, entry |-> "none", archived |-> {}]
    BY DEF NoObservation
  <1>4. [[id |-> i, data |-> NoData, entry |-> "none", archived |-> {}] EXCEPT !.archived = a]
            = [id |-> i, data |-> NoData, entry |-> "none", archived |-> a]
    OBVIOUS
  <1> QED
    BY <1>1, <1>2, <1>3, <1>4, Zenon

\* What the fields of an observation are.
LEMMA Fields ==
    ASSUME NEW d \in Db
    PROVE  d.id \in Nat /\ d.data \in Data /\ d.entry \in Entry /\ d.archived \in SUBSET Nat
  BY DEF Db

\* An observation from its fields.
LEMMA Record ==
    ASSUME NEW i \in Nat, NEW x \in Data, NEW e \in Entry, NEW a \in SUBSET Nat
    PROVE  [id |-> i, data |-> x, entry |-> e, archived |-> a] \in Db
  BY DEF Db

\* What the statements make of an observation is one again.
LEMMA ChangedTypes ==
    ASSUME NEW d \in Db
    PROVE  /\ \A e \in Entry, a \in SUBSET Nat : [d EXCEPT !.entry = e, !.archived = a] \in Db
           /\ \A e \in Entry : [d EXCEPT !.entry = e] \in Db
           /\ \A x \in Data : [d EXCEPT !.data = x] \in Db
           /\ \A a \in SUBSET Nat : [NoObservation EXCEPT !.archived = a] \in Db
           /\ \A i \in Nat, a \in SUBSET Nat : [NoObservation EXCEPT !.id = i, !.archived = a] \in Db
  <1>1. d.id \in Nat /\ d.data \in Data /\ d.entry \in Entry /\ d.archived \in SUBSET Nat
    BY Fields
  <1>2. ASSUME NEW e \in Entry, NEW a \in SUBSET Nat
        PROVE  [d EXCEPT !.entry = e, !.archived = a] \in Db
    <2>1. [id |-> d.id, data |-> d.data, entry |-> e, archived |-> a] \in Db
      BY <1>1, Record
    <2>2. [d EXCEPT !.entry = e, !.archived = a]
              = [id |-> d.id, data |-> d.data, entry |-> e, archived |-> a]
      BY Moved
    <2> QED
      BY <2>1, <2>2, Zenon
  <1>3. ASSUME NEW e \in Entry PROVE [d EXCEPT !.entry = e] \in Db
    <2>1. [id |-> d.id, data |-> d.data, entry |-> e, archived |-> d.archived] \in Db
      BY <1>1, Record
    <2> QED
      BY <2>1, Changes, Zenon
  <1>4. ASSUME NEW x \in Data PROVE [d EXCEPT !.data = x] \in Db
    <2>1. [id |-> d.id, data |-> x, entry |-> d.entry, archived |-> d.archived] \in Db
      BY <1>1, Record
    <2> QED
      BY <2>1, Changes, Zenon
  <1>5. ASSUME NEW i \in Nat, NEW a \in SUBSET Nat
        PROVE  /\ [NoObservation EXCEPT !.archived = a] \in Db
               /\ [NoObservation EXCEPT !.id = i, !.archived = a] \in Db
    <2>1. /\ [id |-> 0, data |-> NoData, entry |-> "none", archived |-> a] \in Db
          /\ [id |-> i, data |-> NoData, entry |-> "none", archived |-> a] \in Db
      BY NoObservationType, Record DEF Entry
    <2> QED
      BY <2>1, Emptied, Zenon
  <1>6. ASSUME NEW a \in SUBSET Nat PROVE [NoObservation EXCEPT !.archived = a] \in Db
    BY <1>5
  <1> QED
    BY <1>2, <1>3, <1>4, <1>5, <1>6

\* kvQabased and kvManagerd leave the id, and archive no other.
LEMMA ProcessKeeps ==
    ASSUME NEW d \in Db, NEW e \in Process(d)
    PROVE  e \in Db /\ e.id = d.id /\ d.entry # "none" /\ e.archived \subseteq d.archived \cup {d.id}
  <1>1. d.data \in Data /\ d.id \in Nat /\ d.archived \in SUBSET Nat
    BY Fields
  <1>2. CASE d.entry = "open" /\ e = [d EXCEPT !.entry = "claimed"]
    <2>1. e = [id |-> d.id, data |-> d.data, entry |-> "claimed", archived |-> d.archived]
      BY <1>2, Changes
    <2>2. e \in Db
      BY <1>1, <2>1, Record DEF Entry
    <2> QED
      BY <1>2, <2>1, <2>2
  <1>3. CASE d.entry = "claimed" /\ e = [d EXCEPT !.entry = "done"]
    <2>1. e = [id |-> d.id, data |-> d.data, entry |-> "done", archived |-> d.archived]
      BY <1>3, Changes
    <2>2. e \in Db
      BY <1>1, <2>1, Record DEF Entry
    <2> QED
      BY <1>3, <2>1, <2>2
  <1>4. CASE d.entry = "claimed" /\ e # [d EXCEPT !.entry = "done"]
    <2>1. PICK x : /\ x = [p \in Param |-> IF d.data[p].flags = "raw" /\ p \notin Text
                                           THEN [d.data[p] EXCEPT !.flags = "checked"]
                                           ELSE d.data[p]]
                   /\ e = [d EXCEPT !.data = x]
      BY <1>4 DEF Process
    <2>2. x \in Data
      <3>1. ASSUME NEW p \in Param, d.data[p].flags = "raw"
            PROVE  [d.data[p] EXCEPT !.flags = "checked"] \in Elem
        <4>1. d.data[p] \in Elem
          BY <1>1, <3>1 DEF Data, NoElem
        <4> QED
          BY <4>1 DEF Elem, Flag
      <3> QED
        BY <1>1, <2>1, <3>1 DEF Data
    <2>3. e = [id |-> d.id, data |-> x, entry |-> "claimed", archived |-> d.archived]
      BY <1>4, <2>1, Changes
    <2>4. e \in Db
      BY <1>1, <2>2, <2>3, Record DEF Entry
    <2> QED
      BY <1>4, <2>3, <2>4
  <1>5. CASE d.entry = "done" /\ e = [d EXCEPT !.entry = "none", !.archived = d.archived \cup {d.id}]
    <2>1. d.archived \cup {d.id} \in SUBSET Nat
      BY <1>1
    <2>2. e = [id |-> d.id, data |-> d.data, entry |-> "none", archived |-> d.archived \cup {d.id}]
      BY <1>5, Moved
    <2>3. e \in Db
      BY <1>1, <2>1, <2>2, Record DEF Entry
    <2> QED
      BY <1>5, <2>2, <2>3
  <1> QED
    BY <1>2, <1>3, <1>4, <1>5 DEF Process

----------------------------------------------------------------------------
(* Types *)

\* The variables of the server that a statement may change.
ServerTypes ==
    /\ db \in Db /\ lock \in Thread \cup {"free"}
    /\ tx \in [Thread -> BOOLEAN] /\ view \in [Thread -> Db]

\* A write keeps the types of the tables, locks and snapshots.
LEMMA WritesTypes ==
    ASSUME StoreTypeOK, NEW t \in Thread, NEW d \in Db, Writes(t, d), tx' = tx
    PROVE  ServerTypes'
  BY DEF Writes, StoreTypeOK, ServerTypes

\* What a statement sees is an observation, in a transaction or outside.
LEMMA SeesType ==
    ASSUME StoreTypeOK, NEW t \in Thread
    PROVE  Sees(t) \in Db
  BY DEF Sees, StoreTypeOK

\* A rollback keeps the types of the tables, locks and snapshots.
LEMMA RolledBackTypes ==
    ASSUME StoreTypeOK, NEW t \in Thread, RolledBack(t), db' \in Db
    PROVE  ServerTypes'
  BY NoObservationType DEF RolledBack, StoreTypeOK, ServerTypes

\* The tail of perform counts down to zero and no further.
LEMMA TryAgainTypes ==
    ASSUME StoreTypeOK, NEW t \in Thread, RunInv(t), pc[t] # "stop",
           SerializeError(t) \/ Aborted(t) \/ Unrecoverable(t),
           conn' \in [Thread -> {"up", "lost"}], faults' \in 0..MaxFaults, lossless' \in BOOLEAN
    PROVE  StoreTypeOK' /\ RunInv(t)'
  <1>1. PICK n \in 0..MaxRetry : TryAgain(t, n)
    <2>1. MaxRetry \in Nat /\ retry[t] \in 0..MaxRetry /\ retry[t] # 0
      BY StoreAssumption DEF StoreTypeOK, RunInv
    <2>2. retry[t] - 1 \in 0..MaxRetry /\ 0 \in 0..MaxRetry
      BY <2>1
    <2> QED
      BY <2>1, <2>2 DEF SerializeError, Aborted, Unrecoverable
  <1>2. ServerTypes'
    BY <1>1, RolledBackTypes DEF TryAgain, StoreTypeOK
  <1>3. /\ retry' \in [Thread -> 0..MaxRetry] /\ retry'[t] = n
        /\ old' \in [Thread -> Db] /\ newId' \in [Thread -> Nat]
    BY <1>1, NoObservationType DEF TryAgain, Leave, StoreTypeOK
  <1>4. CASE n = 0
    <2>1. /\ pc' = [pc EXCEPT ![t] = "stop"] /\ answer' = [answer EXCEPT ![t] = "failed"]
          /\ UNCHANGED <<nextId, seq, msg, bypass, publish>>
      BY <1>1, <1>4 DEF TryAgain, Return, Goto
    <2>2. pc' \in [Thread -> Pc] /\ answer' \in [Thread -> {"none", "ok", "failed"}]
      BY <2>1 DEF StoreTypeOK, Pc
    <2> QED
      BY <1>2, <1>3, <2>1, <2>2 DEF StoreTypeOK, ServerTypes, RunInv
  <1>5. CASE n # 0
    <2>1. /\ pc' = [pc EXCEPT ![t] = "begin"] /\ UNCHANGED answer
          /\ UNCHANGED <<nextId, seq, msg, bypass, publish>>
      BY <1>1, <1>5 DEF TryAgain, Goto
    <2>2. pc' \in [Thread -> Pc]
      BY <2>1 DEF StoreTypeOK, Pc
    <2> QED
      BY <1>2, <1>3, <1>5, <2>1, <2>2 DEF StoreTypeOK, ServerTypes, RunInv
  <1> QED
    BY <1>4, <1>5

\* The first SELECT.
LEMMA ReadTypes ==
    ASSUME StoreTypeOK, NEW t \in Thread, RunInv(t),
           ReadNothing(t) \/ ReadDuplicate(t) \/ ReadOther(t)
    PROVE  StoreTypeOK' /\ RunInv(t)'
  <1>1. bypass' \in [Thread -> BOOLEAN] /\ publish' \in [Thread -> BOOLEAN]
    <2>1. OnlyHqcData(msg[t]) \in BOOLEAN
      BY DEF OnlyHqcData
    <2> QED
      BY <2>1 DEF ReadNothing, ReadDuplicate, ReadOther, OnlyHqcDataCheck, StoreTypeOK
  <1>2. view' \in [Thread -> Db] /\ old' \in [Thread -> Db]
    BY DEF ReadNothing, ReadDuplicate, ReadOther, ReadOld, StoreTypeOK
  <1>3. pc' \in [Thread -> Pc] /\ pc[t] = "read" /\ pc'[t] # "stop"
    BY DEF ReadNothing, ReadDuplicate, ReadOther, Goto, At, StoreTypeOK, Pc
  <1>4. UNCHANGED <<db, nextId, lock, tx, seq, conn, msg, newId, retry, answer, faults, lossless>>
    BY DEF ReadNothing, ReadDuplicate, ReadOther
  <1> QED
    BY <1>1, <1>2, <1>3, <1>4 DEF StoreTypeOK, RunInv

\* InsertData and updateWorkQue, when the observation is there.
LEMMA InsertRowTypes ==
    ASSUME StoreTypeOK, NEW t \in Thread, RunInv(t), pc[t] # "stop", NEW d \in Db,
           NEW next \in Pc \ {"stop"}, InsertRow(t, d, next), UNCHANGED <<conn, faults, lossless>>
    PROVE  StoreTypeOK' /\ RunInv(t)'
  <1>1. CASE Sees(t).id = newId[t]
    <2>1. /\ Writes(t, d) /\ pc' = [pc EXCEPT ![t] = next]
          /\ UNCHANGED <<nextId, tx, seq, msg, localVars, retry, answer>>
      BY <1>1 DEF InsertRow, Goto
    <2>2. ServerTypes'
      BY <2>1, WritesTypes
    <2>3. pc' \in [Thread -> Pc] /\ pc'[t] # "stop"
      BY <2>1 DEF StoreTypeOK
    <2> QED
      BY <2>1, <2>2, <2>3 DEF StoreTypeOK, ServerTypes, RunInv, localVars
  <1>2. CASE Sees(t).id # newId[t]
    <2>1. Aborted(t)
      BY <1>2 DEF InsertRow
    <2> QED
      BY <2>1, TryAgainTypes DEF StoreTypeOK
  <1> QED
    BY <1>1, <1>2

\* RunInv of t speaks of t alone.
LEMMA RunKeeps ==
    ASSUME NEW t \in Thread, RunInv(t), pc'[t] = pc[t], answer'[t] = answer[t], retry'[t] = retry[t]
    PROVE  RunInv(t)'
  BY DEF RunInv

\* Every step of a thread keeps the types, and its attempts are counted.
LEMMA ThreadTypes ==
    ASSUME StoreTypeOK, NEW t \in Thread, RunInv(t),
           ThreadStep(t) \/ DatabaseError(t) \/ LoseConnection(t)
    PROVE  StoreTypeOK' /\ RunInv(t)'
  <1> USE DEF serverVars, localVars
  <1>1. CASE BeginTransaction(t)
    <2>1. tx' \in [Thread -> BOOLEAN] /\ pc' \in [Thread -> Pc] /\ pc[t] = "begin" /\ pc'[t] = "read"
      BY <1>1 DEF BeginTransaction, Goto, At, StoreTypeOK, Pc
    <2> QED
      BY <1>1, <2>1 DEF BeginTransaction, StoreTypeOK, RunInv
  <1>2. CASE ReadNothing(t) \/ ReadDuplicate(t) \/ ReadOther(t)
    BY <1>2, ReadTypes
  <1>3. CASE CheckWorkQue(t)
    <2>1. /\ bypass' \in [Thread -> BOOLEAN] /\ publish' \in [Thread -> BOOLEAN]
          /\ pc' \in [Thread -> Pc] /\ pc[t] = "check" /\ pc'[t] \in {"delete", "archive"}
      BY <1>3 DEF CheckWorkQue, Goto, At, StoreTypeOK, Pc
    <2> QED
      BY <1>3, <2>1 DEF CheckWorkQue, StoreTypeOK, RunInv
  <1>4. CASE WorqueToWorkStatistik(t)
    <2>1. pc' \in [Thread -> Pc] /\ pc[t] = "archive" /\ pc'[t] = "delete" /\ tx' = tx
      BY <1>4 DEF WorqueToWorkStatistik, Goto, At, StoreTypeOK, Pc
    <2>2. ServerTypes'
      <3>1. CASE Processed(t)
        <4>1. /\ Sees(t) \in Db /\ Sees(t).id \in Nat /\ Sees(t).data \in Data
              /\ Sees(t).archived \in SUBSET Nat /\ old[t].id \in Nat
          BY SeesType, Fields DEF StoreTypeOK
        <4>2. Sees(t).archived \cup {old[t].id} \in SUBSET Nat
          BY <4>1
        <4>3. [Sees(t) EXCEPT !.entry = "none", !.archived = Sees(t).archived \cup {old[t].id}] \in Db
          BY <4>1, <4>2, ChangedTypes DEF Entry
        <4>4. Writes(t, [Sees(t) EXCEPT !.entry = "none", !.archived = Sees(t).archived \cup {old[t].id}])
          BY <1>4, <3>1 DEF WorqueToWorkStatistik
        <4> QED
          BY <2>1, <4>3, <4>4, WritesTypes
      <3>2. CASE ~Processed(t)
        BY <1>4, <3>2 DEF WorqueToWorkStatistik, StoreTypeOK, ServerTypes
      <3> QED
        BY <3>1, <3>2
    <2> QED
      BY <1>4, <2>1, <2>2 DEF WorqueToWorkStatistik, StoreTypeOK, ServerTypes, RunInv
  <1>5. CASE DeleteObservation(t)
    <2>1. pc' \in [Thread -> Pc] /\ pc[t] = "delete" /\ pc'[t] = "insert" /\ tx' = tx
      BY <1>5 DEF DeleteObservation, Goto, At, StoreTypeOK, Pc
    <2>2. ServerTypes'
      <3>1. Sees(t).archived \in SUBSET Nat
        BY SeesType, Fields
      <3>2. [NoObservation EXCEPT !.archived = Sees(t).archived] \in Db
        BY <3>1, SeesType, ChangedTypes
      <3> QED
        BY <1>5, <2>1, <3>2, WritesTypes DEF DeleteObservation, StoreTypeOK, ServerTypes
    <2> QED
      BY <1>5, <2>1, <2>2 DEF DeleteObservation, StoreTypeOK, ServerTypes, RunInv
  <1>6. CASE ConcurrentUpdate(t) \/ InsertDuplicate(t)
    <2>1. /\ pc[t] # "stop" /\ (SerializeError(t) \/ Unrecoverable(t))
          /\ UNCHANGED <<conn, faults, lossless>>
      BY <1>6 DEF ConcurrentUpdate, InsertDuplicate, At
    <2> QED
      BY <2>1, TryAgainTypes DEF StoreTypeOK
  <1>7. CASE InsertObservation(t)
    <2>1. pc' \in [Thread -> Pc] /\ pc[t] = "insert" /\ pc'[t] = "currval" /\ tx' = tx
      BY <1>7 DEF InsertObservation, Goto, At, StoreTypeOK, Pc
    <2>2. seq' \in [Thread -> Nat] /\ nextId' \in Nat /\ nextId \in Nat
      BY <1>7 DEF InsertObservation, StoreTypeOK
    <2>3. ServerTypes'
      <3>1. Sees(t).archived \in SUBSET Nat
        BY SeesType, Fields
      <3>2. [NoObservation EXCEPT !.id = nextId, !.archived = Sees(t).archived] \in Db
        BY <2>2, <3>1, SeesType, ChangedTypes
      <3> QED
        BY <1>7, <2>1, <3>2, WritesTypes DEF InsertObservation
    <2> QED
      BY <1>7, <2>1, <2>2, <2>3 DEF InsertObservation, StoreTypeOK, ServerTypes, RunInv
  <1>8. CASE CurrentObservationid(t)
    <2>1. pc[t] = "currval" /\ UNCHANGED <<conn, faults, lossless>>
      BY <1>8 DEF CurrentObservationid, At
    <2>2. CASE seq[t] = 0
      <3>1. Aborted(t)
        BY <1>8, <2>2 DEF CurrentObservationid
      <3> QED
        BY <2>1, <3>1, TryAgainTypes DEF StoreTypeOK
    <2>3. CASE seq[t] # 0
      <3>1. /\ newId' = [newId EXCEPT ![t] = seq[t]] /\ pc' = [pc EXCEPT ![t] = "data"]
            /\ UNCHANGED <<serverVars, msg, old, bypass, publish, retry, answer>>
        BY <1>8, <2>3 DEF CurrentObservationid, Goto
      <3>2. newId' \in [Thread -> Nat] /\ pc' \in [Thread -> Pc] /\ pc'[t] = "data"
        BY <3>1 DEF StoreTypeOK, Pc
      <3> QED
        BY <2>1, <3>1, <3>2 DEF StoreTypeOK, RunInv
    <2> QED
      BY <2>2, <2>3
  <1>9. CASE InsertData(t)
    <2>1. PICK x : /\ x = IF old[t].id = 0 THEN msg[t].data ELSE NewData(msg[t], old[t].data)
                   /\ InsertRow(t, [Sees(t) EXCEPT !.data = x], "enqueue")
      BY <1>9 DEF InsertData
    <2>2. msg[t] \in Messages /\ old[t].data \in Data
      BY Fields DEF StoreTypeOK
    <2>3. x \in Data
      BY <2>1, <2>2, MessageTypes
    <2>4. [Sees(t) EXCEPT !.data = x] \in Db
      BY <2>3, SeesType, ChangedTypes
    <2>5. pc[t] = "data" /\ UNCHANGED <<conn, faults, lossless>> /\ "enqueue" \in Pc \ {"stop"}
      BY <1>9 DEF InsertData, At, Pc
    <2> QED
      BY <2>1, <2>4, <2>5, InsertRowTypes
  <1>10. CASE UpdateWorkQue(t)
    <2>1. pc[t] = "enqueue" /\ UNCHANGED <<conn, faults, lossless>> /\ "end" \in Pc \ {"stop"}
      BY <1>10 DEF UpdateWorkQue, At, Pc
    <2>2. CASE ~msg[t].addToWorkQueue \/ bypass[t]
      <3>1. pc' = [pc EXCEPT ![t] = "end"] /\ UNCHANGED <<serverVars, msg, localVars, retry, answer>>
        BY <1>10, <2>2 DEF UpdateWorkQue, Goto
      <3>2. pc' \in [Thread -> Pc] /\ pc'[t] = "end"
        BY <3>1 DEF StoreTypeOK, Pc
      <3> QED
        BY <2>1, <3>1, <3>2 DEF StoreTypeOK, RunInv
    <2>3. CASE ~(~msg[t].addToWorkQueue \/ bypass[t])
      <3>1. [Sees(t) EXCEPT !.entry = "open"] \in Db
        BY SeesType, ChangedTypes DEF Entry
      <3>2. InsertRow(t, [Sees(t) EXCEPT !.entry = "open"], "end")
        BY <1>10, <2>3 DEF UpdateWorkQue
      <3> QED
        BY <2>1, <3>1, <3>2, InsertRowTypes
    <2> QED
      BY <2>2, <2>3
  <1>11. CASE EndTransaction(t)
    <2>1. ServerTypes'
      BY <1>11, RolledBackTypes DEF EndTransaction, StoreTypeOK
    <2>2. /\ pc' \in [Thread -> Pc] /\ answer' \in [Thread -> {"none", "ok", "failed"}]
          /\ pc'[t] = "stop" /\ answer'[t] = "ok"
          /\ old' \in [Thread -> Db] /\ newId' \in [Thread -> Nat]
      BY <1>11, NoObservationType DEF EndTransaction, Return, Goto, Leave, StoreTypeOK, Pc
    <2> QED
      BY <1>11, <2>1, <2>2 DEF EndTransaction, StoreTypeOK, ServerTypes, RunInv
  <1>12. CASE TryReconnect(t)
    <2>1. conn' \in [Thread -> {"up", "lost"}]
      BY <1>12 DEF TryReconnect, StoreTypeOK
    <2> QED
      BY <1>12, <2>1 DEF TryReconnect, StoreTypeOK, RunInv
  <1>13. CASE ReconnectFails(t)
    <2>1. /\ pc[t] # "stop" /\ (Aborted(t) \/ Unrecoverable(t)) /\ UNCHANGED <<faults, lossless>>
          /\ conn' \in {conn, [conn EXCEPT ![t] = "up"]}
      BY <1>13 DEF ReconnectFails
    <2>2. conn' \in [Thread -> {"up", "lost"}]
      BY <2>1 DEF StoreTypeOK
    <2> QED
      BY <2>1, <2>2, TryAgainTypes DEF StoreTypeOK
  <1>14. CASE DatabaseError(t)
    <2>1. /\ pc[t] # "stop" /\ UNCHANGED <<conn, lossless>> /\ faults' \in 0..MaxFaults
          /\ (SerializeError(t) \/ Aborted(t) \/ Unrecoverable(t))
      BY <1>14, StoreAssumption DEF DatabaseError, StoreTypeOK
    <2> QED
      BY <2>1, TryAgainTypes DEF StoreTypeOK
  <1>15. CASE LoseConnection(t)
    <2>1. /\ faults' = faults + 1 /\ faults < MaxFaults /\ lossless' = FALSE
          /\ conn' = [conn EXCEPT ![t] = "lost"] /\ seq' = [seq EXCEPT ![t] = 0]
          /\ RolledBack(t) /\ (db' = db \/ db' = view[t])
      BY <1>15 DEF LoseConnection
    <2>2. faults' \in 0..MaxFaults
      BY <2>1, StoreAssumption DEF StoreTypeOK
    <2>3. conn' \in [Thread -> {"up", "lost"}] /\ seq' \in [Thread -> Nat] /\ db' \in Db
      BY <2>1 DEF StoreTypeOK
    <2>4. ServerTypes'
      BY <2>1, <2>3, RolledBackTypes
    <2> QED
      BY <1>15, <2>1, <2>2, <2>3, <2>4 DEF LoseConnection, StoreTypeOK, ServerTypes, RunInv
  <1> QED
    BY <1>1, <1>2, <1>3, <1>4, <1>5, <1>6, <1>7, <1>8, <1>9, <1>10, <1>11, <1>12, <1>13, <1>14,
       <1>15 DEF ThreadStep

\* The thread that does not move.
LEMMA OtherRuns ==
    ASSUME StoreTypeOK, NEW t \in Thread, NEW u \in Thread \ {t}, RunInv(u),
           ThreadStep(t) \/ DatabaseError(t) \/ LoseConnection(t)
    PROVE  RunInv(u)'
  <1> USE DEF serverVars, localVars
  <1>1. ASSUME NEW n, TryAgain(t, n)
        PROVE  pc'[u] = pc[u] /\ answer'[u] = answer[u] /\ retry'[u] = retry[u]
    BY <1>1 DEF TryAgain, Return, Goto, StoreTypeOK
  <1>2. CASE SerializeError(t) \/ Aborted(t) \/ Unrecoverable(t)
    BY <1>1, <1>2, RunKeeps DEF SerializeError, Aborted, Unrecoverable
  <1>3. CASE BeginTransaction(t) \/ ReadNothing(t) \/ ReadDuplicate(t) \/ ReadOther(t) \/ CheckWorkQue(t)
    BY <1>3, RunKeeps
    DEF BeginTransaction, ReadNothing, ReadDuplicate, ReadOther, CheckWorkQue, Goto, StoreTypeOK
  <1>4. CASE WorqueToWorkStatistik(t) \/ DeleteObservation(t) \/ InsertObservation(t)
    BY <1>4, RunKeeps DEF WorqueToWorkStatistik, DeleteObservation, InsertObservation, Goto, StoreTypeOK
  <1>5. CASE CurrentObservationid(t)
    BY <1>2, <1>5, RunKeeps DEF CurrentObservationid, Goto, StoreTypeOK
  <1>6. CASE InsertData(t) \/ UpdateWorkQue(t)
    BY <1>2, <1>6, RunKeeps DEF InsertData, UpdateWorkQue, InsertRow, Goto, StoreTypeOK
  <1>7. CASE EndTransaction(t)
    BY <1>7, RunKeeps DEF EndTransaction, Return, Goto, StoreTypeOK
  <1>8. CASE TryReconnect(t) \/ LoseConnection(t)
    BY <1>8, RunKeeps DEF TryReconnect, LoseConnection
  <1> QED
    BY <1>2, <1>3, <1>4, <1>5, <1>6, <1>7, <1>8
       DEF ThreadStep, DatabaseError, ConcurrentUpdate, InsertDuplicate, ReconnectFails

\* The part of the invariant that holds whatever becomes of the connections.
TypeInv == StoreTypeOK /\ \A t \in Thread : RunInv(t)

\* Every step keeps the types and the count of attempts.
LEMMA TypeStep == TypeInv /\ [StoreNext]_vars => TypeInv'
  <1> SUFFICES ASSUME TypeInv, [StoreNext]_vars PROVE TypeInv'
    OBVIOUS
  <1>1. ASSUME NEW t \in Thread, ThreadStep(t) \/ DatabaseError(t) \/ LoseConnection(t) PROVE TypeInv'
    <2>1. StoreTypeOK' /\ RunInv(t)'
      BY <1>1, ThreadTypes DEF TypeInv
    <2>2. \A u \in Thread \ {t} : RunInv(u)'
      BY <1>1, OtherRuns DEF TypeInv
    <2> QED
      BY <2>1, <2>2 DEF TypeInv
  <1>2. CASE Others
    <2>1. db' \in Db
      BY <1>2, ProcessKeeps DEF Others, TypeInv, StoreTypeOK
    <2> QED
      BY <1>2, <2>1 DEF Others, TypeInv, StoreTypeOK, RunInv, localVars
  <1>3. CASE UNCHANGED vars
    BY <1>3 DEF vars, serverVars, localVars, TypeInv, StoreTypeOK, RunInv
  <1> QED
    BY <1>1, <1>2, <1>3 DEF StoreNext

\* The types at the start.
LEMMA TypeInit == StoreInit => TypeInv
  <1> SUFFICES ASSUME StoreInit PROVE TypeInv
    OBVIOUS
  <1>1. db \in Db /\ nextId \in Nat
    BY StoreAssumption, Fields DEF StoreInit
  <1>2. /\ tx \in [Thread -> BOOLEAN] /\ view \in [Thread -> Db]
        /\ conn \in [Thread -> {"up", "lost"}] /\ seq \in [Thread -> Nat]
        /\ pc \in [Thread -> Pc] /\ msg \in [Thread -> Messages]
        /\ old \in [Thread -> Db] /\ newId \in [Thread -> Nat]
    BY NoObservationType DEF StoreInit, Pc
  <1>3. /\ bypass \in [Thread -> BOOLEAN] /\ publish \in [Thread -> BOOLEAN]
        /\ retry \in [Thread -> 0..MaxRetry] /\ answer \in [Thread -> {"none", "ok", "failed"}]
        /\ faults \in 0..MaxFaults /\ lossless \in BOOLEAN /\ lock \in Thread \cup {"free"}
    BY StoreAssumption DEF StoreInit
  <1> QED
    BY <1>1, <1>2, <1>3, StoreAssumption DEF TypeInv, StoreTypeOK, StoreInit, RunInv

\* The connections, the transactions and the local variables of perform and
\* DataUpdateTransaction keep their types, and perform never tries more often than it may.
THEOREM StoreTypeCorrect == StoreSafety => []StoreTypeOK
  <1>1. TypeInv => StoreTypeOK
    BY DEF TypeInv
  <1> QED
    BY <1>1, TypeInit, TypeStep, PTL DEF StoreSafety

----------------------------------------------------------------------------
(* A step of somebody else, while no connection is lost *)

\* The variables of u's connection and of its call of perform.
LocalsKept(u) ==
    /\ tx'[u] = tx[u] /\ view'[u] = view[u] /\ conn'[u] = conn[u] /\ seq'[u] = seq[u]
    /\ pc'[u] = pc[u] /\ msg'[u] = msg[u] /\ old'[u] = old[u] /\ newId'[u] = newId[u]
    /\ bypass'[u] = bypass[u] /\ publish'[u] = publish[u]

\* What u relies on: its lock stays with it and keeps others from the observation; and an
\* observation that somebody has stored is not removed again.
Undisturbed(u) ==
    /\ lock' = u <=> lock = u
    /\ lock = u => db' = db
    /\ db'.id = 0 => db' = db

\* What another thread does without touching the locked rows disturbs no transaction.
LEMMA OtherKeeps ==
    ASSUME NEW u \in Thread, TxInv(u), LocalsKept(u), Undisturbed(u)
    PROVE  TxInv(u)'
  <1>1. /\ Archived(u)' = Archived(u) /\ Passes(u)' = Passes(u) /\ Result(u)' = Result(u)
        /\ Differs(u)' = Differs(u)
    BY DEF LocalsKept, Archived, Passes, Result, Differs
  <1>2. \A i, d, e : Built(u, i, d, e)' = Built(u, i, d, e) /\ Fresh(u, i)' = Fresh(u, i)
    BY <1>1 DEF Built, Fresh, LocalsKept
  <1>3. LockInv(u)'
    BY DEF TxInv, LockInv, LocalsKept, Undisturbed
  <1>4. DecideInv(u)'
    BY <1>1 DEF TxInv, DecideInv, LocalsKept, Undisturbed
  <1>5. WriteInv(u)'
    <2>1. pc'[u] = pc[u] /\ view'[u] = view[u] /\ old'[u] = old[u] /\ (lock' = u <=> lock = u)
      BY DEF LocalsKept, Undisturbed
    <2>2. seq'[u] = seq[u] /\ newId'[u] = newId[u] /\ msg'[u] = msg[u] /\ (db'.id = 0 => db' = db)
      BY DEF LocalsKept, Undisturbed
    <2> QED
      BY <1>1, <1>2, <2>1, <2>2 DEF TxInv, WriteInv
  <1> QED
    BY <1>3, <1>4, <1>5 DEF TxInv

----------------------------------------------------------------------------
(* A step of the thread itself, while no connection is lost *)

\* What such a step keeps of the invariant, as far as t and the database go.
OwnInv(t) ==
    /\ TxInv(t)
    /\ Used(db) /\ (db.id = 0 => db.entry = "none")
    /\ Used(view[t]) /\ Used(old[t])

\* The sequence has been used for all that was stored, so it is past 0.
LEMMA Unused ==
    ASSUME StoreTypeOK, Used(db)
    PROVE  nextId \in Nat /\ 0 < nextId /\ Used(NoObservation)
  <1>1. db.id \in Nat /\ nextId \in Nat
    BY Fields DEF StoreTypeOK
  <1> QED
    BY <1>1 DEF Used, NoObservation

\* There is no transaction.
LEMMA OutsideTransaction ==
    ASSUME StoreTypeOK, NEW t \in Thread, conn[t] = "up", OwnInv(t), RolledBack(t), Leave(t), Used(db)',
           (db.id = 0 => db.entry = "none")', pc'[t] \in {"begin", "stop"},
           UNCHANGED <<conn, nextId>>
    PROVE  OwnInv(t)'
  <1>1. /\ tx'[t] = FALSE /\ view'[t] = NoObservation /\ old'[t] = NoObservation
        /\ lock' # t
    BY StoreAssumption DEF RolledBack, Leave, StoreTypeOK
  <1>2. Used(NoObservation)'
    BY Unused DEF OwnInv, Used
  <1>3. Used(view[t])' /\ Used(old[t])'
    BY <1>1, <1>2 DEF Used
  <1>4. LockInv(t)' /\ DecideInv(t)' /\ WriteInv(t)'
    BY <1>1 DEF LockInv, DecideInv, WriteInv, Writing
  <1> QED
    BY <1>3, <1>4 DEF OwnInv, TxInv

\* An attempt fails.
LEMMA TryAgainOwn ==
    ASSUME StoreTypeOK, NEW t \in Thread, OwnInv(t), conn' = conn,
           SerializeError(t) \/ Aborted(t) \/ Unrecoverable(t)
    PROVE  OwnInv(t)'
  <1>1. /\ RolledBack(t) /\ Leave(t) /\ UNCHANGED <<db, nextId>>
        /\ pc' \in {[pc EXCEPT ![t] = "begin"], [pc EXCEPT ![t] = "stop"]}
    BY DEF SerializeError, Aborted, Unrecoverable, TryAgain, Return, Goto
  <1>2. pc'[t] \in {"begin", "stop"}
    BY <1>1 DEF StoreTypeOK
  <1>3. Used(db)' /\ (db.id = 0 => db.entry = "none")' /\ conn[t] = "up"
    BY <1>1 DEF OwnInv, Used, TxInv, LockInv
  <1> QED
    BY <1>1, <1>2, <1>3, OutsideTransaction

\* BEGIN, the first SELECT and checkWorkQue.
LEMMA ReadOwn ==
    ASSUME StoreTypeOK, NEW t \in Thread, OwnInv(t),
           BeginTransaction(t) \/ ReadNothing(t) \/ ReadDuplicate(t) \/ ReadOther(t) \/ CheckWorkQue(t)
    PROVE  OwnInv(t)'
  <1> USE DEF serverVars, localVars
  <1>1. UNCHANGED <<db, nextId, lock, seq, conn, msg, newId>>
    BY DEF BeginTransaction, ReadNothing, ReadDuplicate, ReadOther, CheckWorkQue
  <1>2. Used(db)' /\ (db.id = 0 => db.entry = "none")'
    BY <1>1 DEF OwnInv, Used
  <1>3. CASE BeginTransaction(t)
    <2>1. pc[t] = "begin" /\ pc'[t] = "read" /\ tx'[t] = TRUE /\ UNCHANGED <<view, old, bypass, publish>>
      BY <1>3 DEF BeginTransaction, At, Goto, StoreTypeOK
    <2>2. LockInv(t)' /\ DecideInv(t)' /\ WriteInv(t)'
      BY <1>1, <2>1 DEF OwnInv, TxInv, LockInv, DecideInv, WriteInv, Writing
    <2>3. Used(view[t])' /\ Used(old[t])'
      BY <1>1, <2>1 DEF OwnInv, Used
    <2> QED
      BY <1>2, <2>2, <2>3 DEF OwnInv, TxInv
  <1>4. ASSUME ReadNothing(t) \/ ReadDuplicate(t) \/ ReadOther(t)
        PROVE  /\ pc[t] = "read" /\ tx[t] /\ tx'[t] /\ lock # t
               /\ view'[t] = db /\ old'[t] = db /\ Used(view[t])' /\ Used(old[t])'
    <2>1. pc[t] = "read" /\ ReadOld(t) /\ tx' = tx
      BY <1>4 DEF ReadNothing, ReadDuplicate, ReadOther, At
    <2>2. tx[t] /\ lock # t
      BY <2>1 DEF OwnInv, TxInv, LockInv, Writing
    <2>3. view'[t] = db /\ old'[t] = db
      BY <2>1, <2>2 DEF ReadOld, StoreTypeOK
    <2>4. Used(view[t])' /\ Used(old[t])'
      BY <1>1, <2>3 DEF OwnInv, Used
    <2> QED
      BY <2>1, <2>2, <2>3, <2>4
  <1>5. CASE ReadNothing(t)
    <2>1. /\ pc'[t] = "insert" /\ db.id = 0
          /\ bypass'[t] = OnlyHqcData(msg[t]) /\ publish'[t] = OnlyHqcData(msg[t])
      BY <1>5 DEF ReadNothing, OnlyHqcDataCheck, Goto, StoreTypeOK
    <2>2. Passes(t)' = OnlyHqcData(msg[t]) /\ Differs(t)'
      <3>1. OnlyHqcData(msg[t]) \in BOOLEAN
        BY DEF OnlyHqcData
      <3>2. old'[t].id = 0 /\ msg' = msg
        BY <1>1, <1>4, <1>5, <2>1
      <3> QED
        BY <3>1, <3>2 DEF Passes, Differs
    <2>3. LockInv(t)'
      BY <1>1, <1>4, <1>5, <2>1 DEF OwnInv, TxInv, LockInv
    <2>4. DecideInv(t)'
      BY <2>1, <2>2 DEF DecideInv
    <2>5. WriteInv(t)'
      BY <1>1, <1>4, <1>5, <2>1 DEF OwnInv, WriteInv
    <2> QED
      BY <1>2, <1>4, <1>5, <2>3, <2>4, <2>5 DEF OwnInv, TxInv
  <1>6. CASE ReadDuplicate(t)
    <2>1. pc'[t] = "end" /\ publish'[t] = FALSE
      BY <1>6 DEF ReadDuplicate, Goto, StoreTypeOK
    <2>2. LockInv(t)' /\ DecideInv(t)' /\ WriteInv(t)'
      BY <1>1, <1>4, <1>6, <2>1 DEF OwnInv, TxInv, LockInv, DecideInv, WriteInv, Writing
    <2> QED
      BY <1>2, <1>4, <1>6, <2>2 DEF OwnInv, TxInv
  <1>7. CASE ReadOther(t)
    <2>1. /\ pc'[t] = "check" /\ db.id # 0
          /\ bypass'[t] = OnlyHqcData(msg[t]) /\ publish'[t] = OnlyHqcData(msg[t])
          /\ \E left \in Left(db.data) : ~IsEqual(msg[t], db.data, left)
      BY <1>7 DEF ReadOther, OnlyHqcDataCheck, Goto, StoreTypeOK
    <2>2. Differs(t)'
      BY <1>1, <1>4, <1>7, <2>1 DEF Differs
    <2>3. LockInv(t)'
      BY <1>1, <1>4, <1>7, <2>1 DEF OwnInv, TxInv, LockInv
    <2>4. DecideInv(t)'
      BY <1>1, <1>4, <1>7, <2>1, <2>2 DEF DecideInv, Writing
    <2>5. WriteInv(t)'
      BY <2>1 DEF WriteInv
    <2> QED
      BY <1>2, <1>4, <1>7, <2>3, <2>4, <2>5 DEF OwnInv, TxInv
  <1>8. CASE CheckWorkQue(t)
    <2>1. pc[t] = "check" /\ UNCHANGED <<tx, view, old>>
      BY <1>8 DEF CheckWorkQue, At
    <2>2. tx[t] /\ view[t] = old[t] /\ old[t].id # 0 /\ lock # t /\ Sees(t) = old[t]
      BY <2>1 DEF OwnInv, TxInv, LockInv, DecideInv, Writing, Sees
    <2>3. /\ bypass'[t] = (bypass[t] /\ ~(old[t].entry \in Unprocessed))
          /\ publish'[t] = (publish[t] /\ ~(old[t].entry \in Unprocessed))
          /\ pc'[t] = IF old[t].entry \in Unprocessed THEN "delete" ELSE "archive"
      BY <1>8, <2>2 DEF CheckWorkQue, Goto, StoreTypeOK
    <2>4. Differs(t)' /\ bypass'[t] = Passes(t)' /\ publish'[t] = Passes(t)'
      BY <1>1, <2>1, <2>2, <2>3 DEF OwnInv, TxInv, DecideInv, Passes, Differs
    <2>5. LockInv(t)'
      BY <1>1, <2>1, <2>2, <2>3 DEF OwnInv, TxInv, LockInv
    <2>6. DecideInv(t)'
      BY <1>1, <2>1, <2>2, <2>3, <2>4 DEF DecideInv, Writing
    <2>7. WriteInv(t)'
      BY <1>1, <2>1, <2>2, <2>3 DEF WriteInv, Unprocessed
    <2>8. Used(view[t])' /\ Used(old[t])'
      BY <1>1, <2>1 DEF OwnInv, Used
    <2> QED
      BY <1>2, <2>5, <2>6, <2>7, <2>8 DEF OwnInv, TxInv
  <1> QED
    BY <1>3, <1>5, <1>6, <1>7, <1>8

\* A write in a transaction.
LEMMA WritesInTransaction ==
    ASSUME StoreTypeOK, NEW t \in Thread, tx[t], NEW d, Writes(t, d)
    PROVE  view'[t] = d /\ lock' = t /\ db' = db
  BY DEF Writes, StoreTypeOK

\* What follows from oldObs does not change with what is written.
LEMMA PlanKept ==
    ASSUME NEW t \in Thread, old'[t] = old[t], msg'[t] = msg[t]
    PROVE  /\ Archived(t)' = Archived(t) /\ Passes(t)' = Passes(t) /\ Result(t)' = Result(t)
           /\ Differs(t)' = Differs(t)
           /\ \A i, d, e : Built(t, i, d, e)' = Built(t, i, d, e) /\ Fresh(t, i)' = Fresh(t, i)
  <1>1. /\ Archived(t)' = Archived(t) /\ Passes(t)' = Passes(t) /\ Result(t)' = Result(t)
        /\ Differs(t)' = Differs(t)
    BY DEF Archived, Passes, Result, Differs
  <1> QED
    BY <1>1 DEF Built, Fresh

\* Of the ids in the transaction's data, the sequence has been used for all.
LEMMA BuiltIsUsed ==
    ASSUME NEW t \in Thread, NEW i, NEW d, NEW e, Used(old[t]), i < nextId
    PROVE  Used(Built(t, i, d, e))
  BY DEF Used, Built, Archived

\* worqueToWorkStatistik, DELETE and INSERT.
LEMMA WriteOwn ==
    ASSUME StoreTypeOK, NEW t \in Thread, OwnInv(t),
           WorqueToWorkStatistik(t) \/ DeleteObservation(t) \/ InsertObservation(t)
    PROVE  OwnInv(t)'
  <1> USE DEF serverVars, localVars
  <1>1. UNCHANGED <<tx, conn, msg, old, newId, bypass, publish>> /\ pc[t] \in {"archive", "delete", "insert"}
    BY DEF WorqueToWorkStatistik, DeleteObservation, InsertObservation, At
  <1>2. tx[t] /\ Sees(t) = view[t] /\ view[t] \in Db /\ old[t] \in Db /\ db \in Db /\ nextId \in Nat
    BY <1>1 DEF OwnInv, TxInv, LockInv, Sees, StoreTypeOK
  <1>3. /\ Archived(t)' = Archived(t) /\ Passes(t)' = Passes(t) /\ Differs(t)' = Differs(t)
        /\ \A i, d, e : Built(t, i, d, e)' = Built(t, i, d, e) /\ Fresh(t, i)' = Fresh(t, i)
    BY <1>1, PlanKept
  <1>4. Differs(t) /\ bypass[t] = Passes(t) /\ publish[t] = Passes(t)
    BY <1>1 DEF OwnInv, TxInv, DecideInv, Writing
  <1>5. ASSUME db' = db, nextId' \in {nextId, nextId + 1}
        PROVE  Used(db)' /\ (db.id = 0 => db.entry = "none")' /\ Used(old[t])'
    <2>1. \A i \in Nat : i < nextId => i < nextId'
      BY <1>2, <1>5
    <2>2. db.id \in Nat /\ db.archived \in SUBSET Nat /\ old[t].id \in Nat /\ old[t].archived \in SUBSET Nat
      BY <1>2, Fields
    <2> QED
      BY <1>1, <1>5, <2>1, <2>2 DEF OwnInv, Used
  <1>6. CASE WorqueToWorkStatistik(t)
    <2>1. /\ pc[t] = "archive" /\ pc'[t] = "delete" /\ nextId' = nextId
          /\ view[t] = old[t] /\ old[t].id # 0 /\ lock # t /\ old[t].entry \notin Unprocessed
      BY <1>6 DEF WorqueToWorkStatistik, At, Goto, StoreTypeOK, OwnInv, TxInv, LockInv, DecideInv
    <2>2. CASE old[t].entry = "done"
      <3>1. /\ Writes(t, [Sees(t) EXCEPT !.entry = "none", !.archived = @ \cup {old[t].id}])
            /\ ~Outdated(t)
        BY <1>2, <1>6, <2>1, <2>2 DEF WorqueToWorkStatistik, Processed
      <3>2. Archived(t) = old[t].archived \cup {old[t].id}
        BY <2>2 DEF Archived
      <3>3. /\ view'[t] = [old[t] EXCEPT !.entry = "none", !.archived = Archived(t)]
            /\ lock' = t /\ db' = db
        BY <1>2, <2>1, <3>1, <3>2, WritesInTransaction
      <3>4. db = old[t]
        BY <1>2, <2>1, <3>1 DEF Outdated
      <3>5. view'[t] = Built(t, old[t].id, old[t].data, "none")
        <4>1. [old[t] EXCEPT !.entry = "none", !.archived = Archived(t)]
                  = Built(t, old[t].id, old[t].data, "none")
          BY <1>2, Moved, Zenon DEF Built
        <4> QED
          BY <3>3, <4>1, Zenon
      <3>6. Used(view[t])'
        BY <2>1, <3>5, BuiltIsUsed DEF OwnInv, Used
      <3>7. LockInv(t)'
        BY <1>1, <1>2, <2>1, <3>3, <3>4 DEF OwnInv, TxInv, LockInv, Writing
      <3>8. DecideInv(t)'
        BY <1>1, <1>3, <1>4, <2>1 DEF DecideInv
      <3>9. WriteInv(t)'
        BY <1>1, <1>3, <2>1, <3>3 DEF WriteInv
      <3> QED
        BY <1>5, <2>1, <3>3, <3>6, <3>7, <3>8, <3>9 DEF OwnInv, TxInv
    <2>3. CASE old[t].entry # "done"
      <3>1. UNCHANGED <<db, view, lock>>
        BY <1>2, <1>6, <2>1, <2>3 DEF WorqueToWorkStatistik, Processed
      <3>2. LockInv(t)'
        BY <1>1, <1>2, <2>1, <3>1 DEF OwnInv, TxInv, LockInv
      <3>3. DecideInv(t)'
        BY <1>1, <1>3, <1>4, <2>1 DEF DecideInv
      <3>4. WriteInv(t)'
        BY <1>1, <2>1, <2>3, <3>1 DEF WriteInv
      <3>5. Used(view[t])'
        BY <2>1, <3>1 DEF OwnInv, Used
      <3> QED
        BY <1>5, <2>1, <3>1, <3>2, <3>3, <3>4, <3>5 DEF OwnInv, TxInv
    <2> QED
      BY <2>2, <2>3
  <1>7. CASE DeleteObservation(t)
    <2>1. /\ pc[t] = "delete" /\ pc'[t] = "insert" /\ nextId' = nextId /\ ~Outdated(t)
          /\ old[t].id # 0
      BY <1>7 DEF DeleteObservation, At, Goto, StoreTypeOK, OwnInv, TxInv, DecideInv
    <2>2. view[t].id = old[t].id /\ view[t].archived = Archived(t) /\ db = old[t]
      <3>1. CASE lock = t
        <4>1. view[t] = [old[t] EXCEPT !.entry = "none", !.archived = Archived(t)] /\ db = old[t]
          BY <2>1, <3>1 DEF OwnInv, TxInv, LockInv, WriteInv
        <4>2. view[t] = [id |-> old[t].id, data |-> old[t].data, entry |-> "none", archived |-> Archived(t)]
          <5>1. [old[t] EXCEPT !.entry = "none", !.archived = Archived(t)]
                    = [id |-> old[t].id, data |-> old[t].data, entry |-> "none", archived |-> Archived(t)]
            BY <1>2, Moved, Zenon
          <5> QED
            BY <4>1, <5>1, Zenon
        <4> QED
          BY <4>1, <4>2
      <3>2. CASE lock # t
        <4>1. view[t] = old[t] /\ old[t].entry # "done"
          BY <2>1, <3>2 DEF OwnInv, TxInv, WriteInv
        <4>2. db = view[t]
          BY <1>2, <2>1, <3>2 DEF Outdated
        <4>3. old[t].archived \in SUBSET Nat
          BY <1>2, Fields
        <4>4. Archived(t) = old[t].archived
          BY <4>1, <4>3 DEF Archived
        <4> QED
          BY <4>1, <4>2, <4>4
      <3> QED
        BY <3>1, <3>2
    <2>3. Writes(t, [NoObservation EXCEPT !.archived = view[t].archived])
      BY <1>2, <1>7, <2>2 DEF DeleteObservation
    <2>4. /\ view'[t] = [NoObservation EXCEPT !.archived = view[t].archived]
          /\ lock' = t /\ db' = db
      BY <1>2, <2>3, WritesInTransaction
    <2>5. view'[t] = Built(t, 0, NoData, "none")
      BY <2>2, <2>4, Emptied DEF Built
    <2>6. Used(view[t])'
      BY <2>1, <2>5, BuiltIsUsed, Unused DEF OwnInv, Used
    <2>7. LockInv(t)'
      BY <1>1, <1>2, <2>1, <2>2, <2>4 DEF OwnInv, TxInv, LockInv, Writing
    <2>8. DecideInv(t)'
      BY <1>1, <1>3, <1>4, <2>1 DEF DecideInv
    <2>9. WriteInv(t)'
      BY <1>1, <1>3, <2>1, <2>4, <2>5 DEF WriteInv
    <2> QED
      BY <1>5, <2>1, <2>4, <2>6, <2>7, <2>8, <2>9 DEF OwnInv, TxInv
  <1>8. CASE InsertObservation(t)
    <2>1. /\ pc[t] = "insert" /\ pc'[t] = "currval" /\ nextId' = nextId + 1 /\ ~KeyExists(t)
          /\ seq'[t] = nextId
          /\ Writes(t, [NoObservation EXCEPT !.id = nextId, !.archived = view[t].archived])
      BY <1>2, <1>8 DEF InsertObservation, At, Goto, StoreTypeOK
    <2>2. view[t].archived = Archived(t) /\ db = old[t]
      <3>1. CASE lock = t
        BY <2>1, <3>1 DEF OwnInv, TxInv, LockInv, WriteInv, Built
      <3>2. CASE lock # t
        <4>1. view[t] = old[t] /\ old[t].entry = "none" /\ db = old[t]
          BY <2>1, <3>2 DEF OwnInv, TxInv, WriteInv, KeyExists
        <4>2. old[t].archived \in SUBSET Nat
          BY <1>2, Fields
        <4> QED
          BY <4>1, <4>2 DEF Archived
      <3> QED
        BY <3>1, <3>2
    <2>3. /\ view'[t] = [NoObservation EXCEPT !.id = nextId, !.archived = view[t].archived]
          /\ lock' = t /\ db' = db
      BY <1>2, <2>1, WritesInTransaction
    <2>4. view'[t] = Built(t, nextId, NoData, "none")
      BY <2>2, <2>3, Emptied DEF Built
    <2>5. Fresh(t, nextId)
      <3>1. old[t].id \in Nat /\ old[t].archived \in SUBSET Nat
        BY <1>2, Fields
      <3> QED
        BY <1>2, <3>1 DEF OwnInv, Used, Fresh
    <2>6. Used(view[t])'
      <3>1. Used(db)' /\ Used(old[t])'
        BY <1>5, <2>1, <2>3
      <3>2. nextId < nextId'
        BY <1>2, <2>1
      <3>3. view'[t] = [id |-> nextId, data |-> NoData, entry |-> "none", archived |-> Archived(t)]
        BY <2>4 DEF Built
      <3>4. \A i \in Archived(t) : i < nextId'
        BY <1>1, <3>1 DEF Used, Archived
      <3> QED
        BY <3>2, <3>3, <3>4 DEF Used
    <2>7. LockInv(t)'
      BY <1>1, <1>2, <2>1, <2>2, <2>3 DEF OwnInv, TxInv, LockInv, Writing
    <2>8. DecideInv(t)'
      BY <1>1, <1>3, <1>4, <2>1 DEF DecideInv
    <2>9. WriteInv(t)'
      BY <1>1, <1>3, <2>1, <2>3, <2>4, <2>5 DEF WriteInv
    <2> QED
      BY <1>5, <2>1, <2>3, <2>6, <2>7, <2>8, <2>9 DEF OwnInv, TxInv
  <1> QED
    BY <1>6, <1>7, <1>8

\* currval, the data and the entry in workque.
LEMMA FillOwn ==
    ASSUME StoreTypeOK, NEW t \in Thread, OwnInv(t),
           CurrentObservationid(t) \/ InsertData(t) \/ UpdateWorkQue(t)
    PROVE  OwnInv(t)'
  <1> USE DEF serverVars, localVars
  <1>1. pc[t] \in {"currval", "data", "enqueue"} /\ conn' = conn
    BY DEF CurrentObservationid, InsertData, UpdateWorkQue, At
  <1>2. /\ tx[t] /\ Sees(t) = view[t] /\ lock = t /\ db = old[t]
        /\ Differs(t) /\ bypass[t] = Passes(t) /\ publish[t] = Passes(t)
    BY <1>1 DEF OwnInv, TxInv, LockInv, DecideInv, WriteInv, Sees, Writing
  <1>3. view[t] \in Db /\ msg[t] \in Messages
    BY DEF StoreTypeOK
  <1>4. CASE CurrentObservationid(t)
    <2>1. pc[t] = "currval" /\ Fresh(t, seq[t]) /\ view[t] = Built(t, seq[t], NoData, "none")
      BY <1>4 DEF CurrentObservationid, At, OwnInv, TxInv, WriteInv
    <2>2. seq[t] # 0
      <3>1. old[t].id \in Nat
        BY Fields DEF StoreTypeOK
      <3> QED
        BY <2>1, <3>1 DEF Fresh
    <2>3. /\ newId'[t] = seq[t] /\ pc'[t] = "data"
          /\ UNCHANGED <<serverVars, msg, old, bypass, publish>>
      BY <1>4, <2>2 DEF CurrentObservationid, Goto, StoreTypeOK
    <2>4. /\ Passes(t)' = Passes(t) /\ Differs(t)' = Differs(t)
          /\ \A i, d, e : Built(t, i, d, e)' = Built(t, i, d, e) /\ Fresh(t, i)' = Fresh(t, i)
      BY <2>3, PlanKept
    <2>5. LockInv(t)'
      BY <1>1, <1>2, <2>1, <2>3 DEF OwnInv, TxInv, LockInv, Writing
    <2>6. DecideInv(t)'
      BY <1>2, <2>3, <2>4 DEF DecideInv
    <2>7. WriteInv(t)'
      BY <1>2, <2>1, <2>3, <2>4 DEF WriteInv
    <2>8. Used(db)' /\ (db.id = 0 => db.entry = "none")' /\ Used(view[t])' /\ Used(old[t])'
      BY <2>3 DEF OwnInv, Used
    <2> QED
      BY <2>5, <2>6, <2>7, <2>8 DEF OwnInv, TxInv
  <1>5. CASE InsertData(t)
    <2>1. pc[t] = "data" /\ Fresh(t, newId[t]) /\ view[t] = Built(t, newId[t], NoData, "none")
      BY <1>5 DEF InsertData, At, OwnInv, TxInv, WriteInv
    <2>2. Sees(t).id = newId[t]
      BY <1>2, <2>1 DEF Built
    <2>3. InsertRow(t, [Sees(t) EXCEPT !.data = Result(t)], "enqueue")
      BY <1>5 DEF InsertData, Result
    <2>4. /\ Writes(t, [view[t] EXCEPT !.data = Result(t)]) /\ pc'[t] = "enqueue"
          /\ UNCHANGED <<nextId, tx, seq, msg, localVars>>
      BY <1>2, <2>2, <2>3 DEF InsertRow, Goto, StoreTypeOK
    <2>5. view'[t] = [view[t] EXCEPT !.data = Result(t)] /\ lock' = t /\ db' = db
      BY <1>2, <2>4, WritesInTransaction
    <2>6. view'[t] = Built(t, newId[t], Result(t), "none")
      BY <2>1, <2>5 DEF Built
    <2>7. /\ Passes(t)' = Passes(t) /\ Differs(t)' = Differs(t) /\ Result(t)' = Result(t)
          /\ \A i, d, e : Built(t, i, d, e)' = Built(t, i, d, e) /\ Fresh(t, i)' = Fresh(t, i)
      BY <2>4, PlanKept
    <2>8. LockInv(t)'
      BY <1>1, <1>2, <2>4, <2>5 DEF OwnInv, TxInv, LockInv, Writing
    <2>9. DecideInv(t)'
      BY <1>2, <2>4, <2>7 DEF DecideInv
    <2>10. WriteInv(t)'
      BY <2>1, <2>4, <2>5, <2>6, <2>7 DEF WriteInv
    <2>11. newId[t] < nextId
      BY <2>1 DEF OwnInv, Used, Built
    <2>12. Used(Built(t, newId[t], Result(t), "none"))
      BY <2>11, BuiltIsUsed DEF OwnInv
    <2>13. Used(db)' /\ (db.id = 0 => db.entry = "none")' /\ Used(view[t])' /\ Used(old[t])'
      BY <2>4, <2>5, <2>6, <2>12 DEF OwnInv, Used
    <2> QED
      BY <2>8, <2>9, <2>10, <2>13 DEF OwnInv, TxInv
  <1>6. CASE UpdateWorkQue(t)
    <2>1. pc[t] = "enqueue" /\ Fresh(t, newId[t]) /\ view[t] = Built(t, newId[t], Result(t), "none")
      BY <1>6 DEF UpdateWorkQue, At, OwnInv, TxInv, WriteInv
    <2>2. newId[t] < nextId
      BY <2>1 DEF OwnInv, Used, Built
    <2>3. PICK e : e = IF msg[t].addToWorkQueue /\ ~Passes(t) THEN "open" ELSE "none"
      OBVIOUS
    <2>4. /\ view'[t] = Built(t, newId[t], Result(t), e) /\ lock' = t /\ db' = db
          /\ pc'[t] = "end" /\ UNCHANGED <<nextId, tx, seq, msg, localVars>>
      <3>1. CASE ~msg[t].addToWorkQueue \/ bypass[t]
        <4>1. pc'[t] = "end" /\ UNCHANGED <<serverVars, msg, localVars>> /\ e = "none"
          BY <1>2, <1>6, <2>3, <3>1 DEF UpdateWorkQue, Goto, StoreTypeOK
        <4> QED
          BY <1>2, <2>1, <4>1
      <3>2. CASE ~(~msg[t].addToWorkQueue \/ bypass[t])
        <4>1. InsertRow(t, [Sees(t) EXCEPT !.entry = "open"], "end") /\ e = "open"
          BY <1>2, <1>6, <2>3, <3>2 DEF UpdateWorkQue
        <4>2. Sees(t).id = newId[t]
          BY <1>2, <2>1 DEF Built
        <4>3. /\ Writes(t, [view[t] EXCEPT !.entry = "open"]) /\ pc'[t] = "end"
              /\ UNCHANGED <<nextId, tx, seq, msg, localVars>>
          BY <1>2, <4>1, <4>2 DEF InsertRow, Goto, StoreTypeOK
        <4>4. view'[t] = [view[t] EXCEPT !.entry = "open"] /\ lock' = t /\ db' = db
          BY <1>2, <4>3, WritesInTransaction
        <4>5. view'[t] = Built(t, newId[t], Result(t), "open")
          BY <2>1, <4>4 DEF Built
        <4> QED
          BY <4>1, <4>3, <4>4, <4>5
      <3> QED
        BY <3>1, <3>2
    <2>5. /\ Passes(t)' = Passes(t) /\ Differs(t)' = Differs(t) /\ Result(t)' = Result(t)
          /\ \A i, d, f : Built(t, i, d, f)' = Built(t, i, d, f) /\ Fresh(t, i)' = Fresh(t, i)
      BY <2>4, PlanKept
    <2>6. LockInv(t)'
      BY <1>1, <1>2, <2>4 DEF OwnInv, TxInv, LockInv
    <2>7. DecideInv(t)'
      BY <1>2, <2>4, <2>5 DEF DecideInv, Writing
    <2>8. WriteInv(t)'
      BY <2>1, <2>3, <2>4, <2>5 DEF WriteInv
    <2>9. Used(Built(t, newId[t], Result(t), e))
      BY <2>2, BuiltIsUsed DEF OwnInv
    <2>10. Used(db)' /\ (db.id = 0 => db.entry = "none")' /\ Used(view[t])' /\ Used(old[t])'
      BY <2>4, <2>9 DEF OwnInv, Used
    <2> QED
      BY <2>6, <2>7, <2>8, <2>10 DEF OwnInv, TxInv
  <1> QED
    BY <1>4, <1>5, <1>6

\* What END commits is there, and its id is used.
LEMMA EndOwn ==
    ASSUME StoreTypeOK, NEW t \in Thread, OwnInv(t), EndTransaction(t)
    PROVE  OwnInv(t)' /\ (db' # db => db'.id # 0 /\ lock = t)
  <1>1. /\ pc[t] = "end" /\ conn[t] = "up" /\ pc'[t] = "stop" /\ UNCHANGED <<conn, nextId>>
        /\ db' = IF tx[t] /\ lock = t THEN view[t] ELSE db
        /\ RolledBack(t) /\ Leave(t)
    BY DEF EndTransaction, At, Return, Goto, StoreTypeOK
  <1>2. lock = t => view[t].id # 0
    <2>1. lock = t => Fresh(t, view[t].id)
      BY <1>1 DEF OwnInv, TxInv, WriteInv, Built
    <2>2. old[t].id \in Nat
      BY Fields DEF StoreTypeOK
    <2> QED
      BY <2>1, <2>2 DEF Fresh
  <1>3. Used(db)' /\ (db.id = 0 => db.entry = "none")'
    BY <1>1, <1>2 DEF OwnInv, Used
  <1> QED
    BY <1>1, <1>2, <1>3, OutsideTransaction

----------------------------------------------------------------------------
(* The invariant *)

\* The thread's own step: with the connection up, one of these.
LEMMA OwnStep ==
    ASSUME StoreTypeOK, NEW t \in Thread, OwnInv(t), ThreadStep(t) \/ DatabaseError(t)
    PROVE  OwnInv(t)'
  <1>1. conn[t] = "up"
    BY DEF OwnInv, TxInv, LockInv
  <1>2. CASE ConcurrentUpdate(t) \/ InsertDuplicate(t) \/ DatabaseError(t)
    <2>1. conn' = conn /\ (SerializeError(t) \/ Aborted(t) \/ Unrecoverable(t))
      BY <1>2 DEF ConcurrentUpdate, InsertDuplicate, DatabaseError
    <2> QED
      BY <2>1, TryAgainOwn
  <1>3. ~TryReconnect(t) /\ ~ReconnectFails(t)
    BY <1>1 DEF TryReconnect, ReconnectFails
  <1> QED
    BY <1>2, <1>3, ReadOwn, WriteOwn, FillOwn, EndOwn DEF ThreadStep

\* What other threads notice of it.
LEMMA Isolation ==
    ASSUME StoreTypeOK, NEW t \in Thread, NEW u \in Thread \ {t}, OwnInv(t),
           ThreadStep(t) \/ DatabaseError(t)
    PROVE  LocalsKept(u) /\ Undisturbed(u) /\ lossless' = lossless
  <1> USE DEF serverVars, localVars
  <1>1. conn[t] = "up" /\ (tx[t] <=> pc[t] \notin {"begin", "stop"})
    BY DEF OwnInv, TxInv, LockInv
  <1>2. ASSUME RolledBack(t)
        PROVE  tx'[u] = tx[u] /\ view'[u] = view[u] /\ (lock' = u <=> lock = u)
    BY <1>2, StoreAssumption DEF RolledBack, StoreTypeOK
  <1>3. ASSUME NEW d, MayWrite(t), tx[t], Writes(t, d)
        PROVE  view'[u] = view[u] /\ (lock' = u <=> lock = u) /\ db' = db
    BY <1>3, StoreAssumption DEF MayWrite, Writes, StoreTypeOK
  <1>4. ASSUME conn' = conn, SerializeError(t) \/ Aborted(t) \/ Unrecoverable(t)
        PROVE  LocalsKept(u) /\ Undisturbed(u)
    <2>1. PICK n : TryAgain(t, n)
      BY <1>4 DEF SerializeError, Aborted, Unrecoverable
    <2>2. /\ RolledBack(t) /\ Leave(t) /\ UNCHANGED <<db, seq, msg, bypass, publish>>
          /\ pc' \in {[pc EXCEPT ![t] = "begin"], [pc EXCEPT ![t] = "stop"]}
      BY <2>1 DEF TryAgain, Return, Goto
    <2>3. pc'[u] = pc[u] /\ old'[u] = old[u] /\ newId'[u] = newId[u]
      BY <2>2 DEF Leave, StoreTypeOK
    <2> QED
      BY <1>2, <1>4, <2>2, <2>3 DEF LocalsKept, Undisturbed
  <1>5. CASE ConcurrentUpdate(t) \/ InsertDuplicate(t) \/ DatabaseError(t)
    BY <1>4, <1>5 DEF ConcurrentUpdate, InsertDuplicate, DatabaseError
  <1>6. CASE BeginTransaction(t)
    BY <1>6 DEF BeginTransaction, Goto, StoreTypeOK, LocalsKept, Undisturbed
  <1>7. CASE ReadNothing(t) \/ ReadDuplicate(t) \/ ReadOther(t)
    <2>1. view'[u] = view[u] /\ old'[u] = old[u] /\ pc'[u] = pc[u]
      BY <1>7 DEF ReadNothing, ReadDuplicate, ReadOther, ReadOld, Goto, StoreTypeOK
    <2>2. bypass'[u] = bypass[u] /\ publish'[u] = publish[u]
      BY <1>7 DEF ReadNothing, ReadDuplicate, ReadOther, OnlyHqcDataCheck, StoreTypeOK
    <2>3. UNCHANGED <<db, lock, tx, seq, conn, msg, newId, lossless>>
      BY <1>7 DEF ReadNothing, ReadDuplicate, ReadOther
    <2> QED
      BY <2>1, <2>2, <2>3 DEF LocalsKept, Undisturbed
  <1>8. CASE CheckWorkQue(t)
    <2>1. bypass'[u] = bypass[u] /\ publish'[u] = publish[u] /\ pc'[u] = pc[u]
      BY <1>8 DEF CheckWorkQue, Goto, StoreTypeOK
    <2>2. UNCHANGED <<db, lock, tx, view, seq, conn, msg, old, newId, lossless>>
      BY <1>8 DEF CheckWorkQue
    <2> QED
      BY <2>1, <2>2 DEF LocalsKept, Undisturbed
  <1>9. CASE WorqueToWorkStatistik(t) \/ DeleteObservation(t) \/ InsertObservation(t)
    <2>1. tx[t] /\ pc'[u] = pc[u] /\ seq'[u] = seq[u]
      BY <1>1, <1>9 DEF WorqueToWorkStatistik, DeleteObservation, InsertObservation, Goto, At, StoreTypeOK
    <2>2. UNCHANGED <<tx, conn, msg, localVars, lossless>>
      BY <1>9 DEF WorqueToWorkStatistik, DeleteObservation, InsertObservation
    <2>3. view'[u] = view[u] /\ (lock' = u <=> lock = u) /\ db' = db
      BY <1>3, <1>9, <2>1 DEF WorqueToWorkStatistik, DeleteObservation, InsertObservation
    <2> QED
      BY <2>1, <2>2, <2>3 DEF LocalsKept, Undisturbed
  <1>10. CASE CurrentObservationid(t)
    <2>1. CASE seq[t] = 0
      BY <1>4, <1>10, <2>1 DEF CurrentObservationid
    <2>2. CASE seq[t] # 0
      <3>1. /\ newId'[u] = newId[u] /\ pc'[u] = pc[u]
            /\ UNCHANGED <<serverVars, conn, msg, old, bypass, publish, lossless>>
        BY <1>10, <2>2 DEF CurrentObservationid, Goto, StoreTypeOK
      <3> QED
        BY <3>1 DEF LocalsKept, Undisturbed
    <2> QED
      BY <2>1, <2>2
  <1>11. CASE InsertData(t) \/ UpdateWorkQue(t)
    <2>1. conn' = conn /\ lossless' = lossless /\ tx[t]
      BY <1>1, <1>11 DEF InsertData, UpdateWorkQue, At
    <2>2. ASSUME NEW d, NEW next, MayWrite(t), InsertRow(t, d, next)
          PROVE  LocalsKept(u) /\ Undisturbed(u)
      <3>1. CASE Sees(t).id = newId[t]
        <4>1. Writes(t, d) /\ pc'[u] = pc[u] /\ UNCHANGED <<tx, seq, msg, localVars>>
          BY <2>2, <3>1 DEF InsertRow, Goto, StoreTypeOK
        <4>2. view'[u] = view[u] /\ (lock' = u <=> lock = u) /\ db' = db
          BY <1>3, <2>1, <2>2, <4>1
        <4> QED
          BY <2>1, <4>1, <4>2 DEF LocalsKept, Undisturbed
      <3>2. CASE Sees(t).id # newId[t]
        BY <1>4, <2>1, <2>2, <3>2 DEF InsertRow
      <3> QED
        BY <3>1, <3>2
    <2>3. CASE UpdateWorkQue(t) /\ (~msg[t].addToWorkQueue \/ bypass[t])
      <3>1. pc'[u] = pc[u] /\ UNCHANGED <<serverVars, msg, localVars>>
        BY <2>3 DEF UpdateWorkQue, Goto, StoreTypeOK
      <3> QED
        BY <2>1, <3>1 DEF LocalsKept, Undisturbed
    <2> QED
      BY <1>11, <2>1, <2>2, <2>3 DEF InsertData, UpdateWorkQue
  <1>12. CASE EndTransaction(t)
    <2>1. /\ RolledBack(t) /\ Leave(t) /\ pc' = [pc EXCEPT ![t] = "stop"]
          /\ UNCHANGED <<seq, conn, msg, bypass, publish, lossless>>
      BY <1>12 DEF EndTransaction, Return, Goto
    <2>2. pc'[u] = pc[u] /\ old'[u] = old[u] /\ newId'[u] = newId[u]
      BY <2>1 DEF Leave, StoreTypeOK
    <2>3. db' # db => db'.id # 0 /\ lock = t
      BY <1>12, EndOwn
    <2> QED
      BY <1>2, <2>1, <2>2, <2>3 DEF LocalsKept, Undisturbed
  <1>13. ~TryReconnect(t) /\ ~ReconnectFails(t)
    BY <1>1 DEF TryReconnect, ReconnectFails
  <1> QED
    BY <1>5, <1>6, <1>7, <1>8, <1>9, <1>10, <1>11, <1>12, <1>13 DEF ThreadStep

\* Once a connection has been lost nothing is said any more.
LEMMA NeverLossless == StoreNext /\ lossless' => lossless /\ \A t \in Thread : ~LoseConnection(t)
  BY DEF StoreNext, Others, ThreadStep, DatabaseError, LoseConnection, BeginTransaction, ReadNothing,
         ReadDuplicate, ReadOther, CheckWorkQue, WorqueToWorkStatistik, DeleteObservation,
         ConcurrentUpdate, InsertObservation, InsertDuplicate, CurrentObservationid, InsertData,
         UpdateWorkQue, EndTransaction, TryReconnect, ReconnectFails

\* At the start every thread is about to begin.
LEMMA StoreInitInv == StoreInit => StoreInv
  <1> SUFFICES ASSUME StoreInit PROVE StoreInv
    OBVIOUS
  <1>1. TypeInv
    BY TypeInit
  <1>2. db \in InitDb /\ db \in Db /\ nextId = db.id + 1
    BY StoreAssumption DEF StoreInit
  <1>3. db.id \in Nat /\ db.archived \in SUBSET Nat /\ (db.id = 0 => db.entry = "none")
    BY <1>2, Fields, StoreAssumption
  <1>4. \A i \in db.archived : i <= db.id
    BY <1>2, StoreAssumption
  <1>5. Used(db)
    BY <1>2, <1>3, <1>4 DEF Used
  <1>6. Used(NoObservation)
    BY <1>1, <1>5, Unused DEF TypeInv
  <1>7. DbInv
    BY <1>3, <1>5, <1>6 DEF DbInv, StoreInit
  <1>8. ASSUME NEW t \in Thread PROVE TxInv(t)
    <2>1. pc[t] = "begin" /\ conn[t] = "up" /\ ~tx[t] /\ lock # t
      BY StoreAssumption DEF StoreInit
    <2> QED
      BY <2>1 DEF TxInv, LockInv, DecideInv, WriteInv, Writing
  <1> QED
    BY <1>1, <1>7, <1>8 DEF StoreInv, TypeInv

\* Every step of a thread, of the database and of the other daemons keeps the invariant.
LEMMA StoreStepInv == StoreInv /\ [StoreNext]_vars => StoreInv'
  <1> SUFFICES ASSUME StoreInv, [StoreNext]_vars PROVE StoreInv'
    OBVIOUS
  <1>1. TypeInv /\ TypeInv'
    BY TypeStep DEF StoreInv, TypeInv
  <1>2. SUFFICES ASSUME lossless' PROVE DbInv' /\ \A u \in Thread : TxInv(u)'
    BY <1>1 DEF StoreInv, TypeInv
  <1>3. StoreTypeOK
    BY DEF StoreInv
  <1>4. CASE UNCHANGED vars
    <2>1. DbInv /\ \A u \in Thread : TxInv(u)
      BY <1>2, <1>4 DEF StoreInv, vars
    <2>2. \A u \in Thread : LocalsKept(u) /\ Undisturbed(u)
      BY <1>4 DEF vars, serverVars, localVars, LocalsKept, Undisturbed
    <2>3. DbInv'
      BY <1>4, <2>1 DEF vars, serverVars, localVars, DbInv, Used
    <2> QED
      BY <2>1, <2>2, <2>3, OtherKeeps
  <1>5. CASE StoreNext
    <2>1. DbInv /\ (\A u \in Thread : TxInv(u)) /\ \A t \in Thread : ~LoseConnection(t)
      BY <1>2, <1>5, NeverLossless DEF StoreInv
    <2>2. ASSUME NEW t \in Thread, ThreadStep(t) \/ DatabaseError(t)
          PROVE  DbInv' /\ \A u \in Thread : TxInv(u)'
      <3>1. OwnInv(t)
        BY <2>1 DEF OwnInv, DbInv
      <3>2. OwnInv(t)'
        BY <1>3, <2>2, <3>1, OwnStep
      <3>3. \A u \in Thread \ {t} : LocalsKept(u) /\ Undisturbed(u)
        BY <1>3, <2>2, <3>1, Isolation
      <3>4. \A u \in Thread : TxInv(u)'
        BY <2>1, <3>2, <3>3, OtherKeeps DEF OwnInv
      <3>5. nextId \in Nat /\ nextId' \in {nextId, nextId + 1}
        <4>1. ASSUME SerializeError(t) \/ Aborted(t) \/ Unrecoverable(t) PROVE nextId' = nextId
          BY <4>1 DEF SerializeError, Aborted, Unrecoverable, TryAgain
        <4> QED
          BY <1>3, <2>2, <4>1
             DEF StoreTypeOK, ThreadStep, DatabaseError, BeginTransaction, ReadNothing, ReadDuplicate,
                 ReadOther, CheckWorkQue, WorqueToWorkStatistik, DeleteObservation, ConcurrentUpdate,
                 InsertObservation, InsertDuplicate, CurrentObservationid, InsertData, InsertRow,
                 UpdateWorkQue, EndTransaction, TryReconnect, ReconnectFails, serverVars
      <3>6. ASSUME NEW u \in Thread \ {t} PROVE Used(view[u])' /\ Used(old[u])'
        <4>1. Used(view[u]) /\ Used(old[u]) /\ view'[u] = view[u] /\ old'[u] = old[u]
          BY <2>1, <3>3 DEF DbInv, LocalsKept
        <4>2. /\ view[u].id \in Nat /\ view[u].archived \in SUBSET Nat
              /\ old[u].id \in Nat /\ old[u].archived \in SUBSET Nat
          BY <1>3, Fields DEF StoreTypeOK
        <4>3. \A i \in Nat : i < nextId => i < nextId'
          BY <3>5
        <4> QED
          BY <4>1, <4>2, <4>3 DEF Used
      <3>7. DbInv'
        BY <3>2, <3>6 DEF OwnInv, DbInv
      <3> QED
        BY <3>4, <3>7
    <2>3. CASE Others
      <3>1. /\ lock = "free" /\ db' \in Process(db) /\ db \in Db
            /\ UNCHANGED <<nextId, lock, tx, view, seq, conn, pc, msg, localVars>>
        BY <1>3, <2>3 DEF Others, StoreTypeOK
      <3>2. /\ db' \in Db /\ db'.id = db.id /\ db.entry # "none"
            /\ db'.archived \subseteq db.archived \cup {db.id}
        BY <3>1, ProcessKeeps
      <3>3. db.id # 0
        BY <2>1, <3>2 DEF DbInv
      <3>4. DbInv'
        BY <2>1, <3>1, <3>2, <3>3 DEF DbInv, Used, localVars
      <3>5. ASSUME NEW u \in Thread PROVE LocalsKept(u) /\ Undisturbed(u)
        BY <3>1, <3>2, <3>3, StoreAssumption DEF LocalsKept, Undisturbed, localVars
      <3> QED
        BY <2>1, <3>4, <3>5, OtherKeeps
    <2> QED
      BY <1>5, <2>1, <2>2, <2>3 DEF StoreNext
  <1> QED
    BY <1>4, <1>5

----------------------------------------------------------------------------
(* Refinement: the variables of AtomicStore that StoreTransaction has no like of *)

Same == [t \in Thread |-> pc[t] = "end" /\ lock # t]

Published == [t \in Thread |-> answer[t] = "ok" /\ publish[t]]

\* Of these, a step of t changes those of t.
LEMMA OthersMapped ==
    ASSUME NEW t \in Thread,
           \A u \in Thread \ {t} : LocalsKept(u) /\ Undisturbed(u) /\ answer'[u] = answer[u]
    PROVE  /\ Same' = [Same EXCEPT ![t] = pc'[t] = "end" /\ lock' # t]
           /\ Published' = [Published EXCEPT ![t] = answer'[t] = "ok" /\ publish'[t]]
  BY DEF Same, Published, LocalsKept, Undisturbed

\* A step of one thread leaves the answers of the others alone.
LEMMA OthersAnswer ==
    ASSUME StoreTypeOK, NEW t \in Thread, ThreadStep(t) \/ DatabaseError(t), NEW u \in Thread \ {t}
    PROVE  answer'[u] = answer[u]
  <1> USE DEF serverVars, localVars
  <1>1. ASSUME SerializeError(t) \/ Aborted(t) \/ Unrecoverable(t) PROVE answer'[u] = answer[u]
    BY <1>1 DEF SerializeError, Aborted, Unrecoverable, TryAgain, Return, StoreTypeOK
  <1>2. CASE EndTransaction(t)
    BY <1>2 DEF EndTransaction, Return, StoreTypeOK
  <1> QED
    BY <1>1, <1>2
       DEF ThreadStep, DatabaseError, BeginTransaction, ReadNothing, ReadDuplicate, ReadOther,
           CheckWorkQue, WorqueToWorkStatistik, DeleteObservation, ConcurrentUpdate,
           InsertObservation, InsertDuplicate, CurrentObservationid, InsertData, InsertRow,
           UpdateWorkQue, TryReconnect, ReconnectFails

\* A step that AtomicStore does not see.
LEMMA Invisible ==
    ASSUME NEW t \in Thread,
           \A u \in Thread \ {t} : LocalsKept(u) /\ Undisturbed(u) /\ answer'[u] = answer[u],
           UNCHANGED <<db, msg, answer, lossless>>, answer[t] = "none",
           (pc'[t] = "end" /\ lock' # t) <=> (pc[t] = "end" /\ lock # t)
    PROVE  UNCHANGED Atomic!atomicVars
  <1>1. Same' = Same /\ Published' = Published
    BY OthersMapped DEF Same, Published
  <1> QED
    BY <1>1 DEF Atomic!atomicVars, Same, Published

\* An attempt that fails is no step of the store, or the last one.
LEMMA FailureMaps ==
    ASSUME StoreTypeOK, NEW t \in Thread,
           \A u \in Thread \ {t} : LocalsKept(u) /\ Undisturbed(u) /\ answer'[u] = answer[u],
           RunInv(t), pc[t] # "stop", lossless' = lossless,
           SerializeError(t) \/ Aborted(t) \/ Unrecoverable(t)
    PROVE  Atomic!TryAgain(t) \/ Atomic!Refuse(t) \/ UNCHANGED Atomic!atomicVars
  <1>1. PICK n : TryAgain(t, n)
    BY DEF SerializeError, Aborted, Unrecoverable
  <1>2. answer[t] = "none" /\ UNCHANGED <<db, msg>> /\ pc'[t] \in {"begin", "stop"}
    BY <1>1 DEF RunInv, TryAgain, Return, Goto, StoreTypeOK
  <1>3. /\ Same' = [Same EXCEPT ![t] = FALSE]
        /\ Published' = [Published EXCEPT ![t] = answer'[t] = "ok" /\ publish'[t]]
        /\ Published[t] = FALSE
    BY <1>2, OthersMapped DEF Published
  <1>4. CASE n = 0
    <2>1. answer' = [answer EXCEPT ![t] = "failed"]
      BY <1>1, <1>4 DEF TryAgain, Return
    <2>2. answer'[t] = "failed"
      BY <2>1 DEF StoreTypeOK
    <2>3. Published' = Published
      BY <1>3, <2>2 DEF Published
    <2> QED
      BY <1>2, <1>3, <2>1, <2>3 DEF Atomic!Refuse, Same, Published
  <1>5. CASE n # 0
    <2>1. answer' = answer
      BY <1>1, <1>5 DEF TryAgain
    <2>2. Published' = Published
      BY <1>2, <1>3, <2>1 DEF Published
    <2>3. CASE pc[t] = "end" /\ lock # t
      <3>1. Same[t] = TRUE
        BY <2>3 DEF Same
      <3> QED
        BY <1>2, <1>3, <2>1, <2>2, <3>1 DEF Atomic!TryAgain, Same, Published
    <2>4. CASE ~(pc[t] = "end" /\ lock # t)
      BY <1>2, <2>1, <2>4, Invisible
    <2> QED
      BY <2>3, <2>4
  <1> QED
    BY <1>4, <1>5

\* END: what was read is what is there, so the message is stored now.
LEMMA CommitMaps ==
    ASSUME StoreTypeOK, NEW t \in Thread,
           \A u \in Thread \ {t} : LocalsKept(u) /\ Undisturbed(u) /\ answer'[u] = answer[u],
           RunInv(t), OwnInv(t), EndTransaction(t), lock = t
    PROVE  Atomic!New(t)
  <1>1. /\ pc[t] = "end" /\ db' = view[t] /\ answer' = [answer EXCEPT ![t] = "ok"] /\ answer[t] = "none"
        /\ pc'[t] = "stop" /\ answer'[t] = "ok" /\ UNCHANGED <<msg, publish, lossless>>
    BY DEF EndTransaction, At, Return, Goto, StoreTypeOK, RunInv, OwnInv, TxInv, LockInv
  <1>2. /\ db = old[t] /\ Fresh(t, newId[t]) /\ Differs(t) /\ publish[t] = Passes(t)
        /\ view[t] = Built(t, newId[t], Result(t),
                           IF msg[t].addToWorkQueue /\ ~Passes(t) THEN "open" ELSE "none")
    BY <1>1 DEF OwnInv, TxInv, LockInv, DecideInv, WriteInv
  <1>3. /\ Same' = Same
        /\ Published' = [Published EXCEPT ![t] = publish[t]]
    <2>1. Same' = [Same EXCEPT ![t] = pc'[t] = "end" /\ lock' # t]
      BY OthersMapped
    <2>2. Published' = [Published EXCEPT ![t] = answer'[t] = "ok" /\ publish'[t]]
      BY OthersMapped
    <2>3. Same[t] = FALSE /\ (pc'[t] = "end" /\ lock' # t) = FALSE
      BY <1>1 DEF Same
    <2>4. publish[t] \in BOOLEAN
      BY DEF StoreTypeOK
    <2>5. (answer'[t] = "ok" /\ publish'[t]) = publish[t]
      BY <1>1, <2>4
    <2> QED
      BY <2>1, <2>2, <2>3, <2>5 DEF Same
  <1>4. db'.id = newId[t]
    BY <1>1, <1>2 DEF Built
  <1>5. db'.id \in Nat /\ db'.id > db.id /\ db'.id \notin db.archived
    BY <1>2, <1>4 DEF Fresh
  <1>6. db' = [id       |-> db'.id,
               data     |-> IF db.id = 0 THEN msg[t].data ELSE NewData(msg[t], db.data),
               entry    |-> IF msg[t].addToWorkQueue
                                   /\ ~(OnlyHqcData(msg[t]) /\ ~(db.id # 0 /\ db.entry \in Unprocessed))
                            THEN "open" ELSE "none",
               archived |-> db.archived \cup (IF db.entry = "done" THEN {db.id} ELSE {})]
    BY <1>1, <1>2, <1>4 DEF Built, Result, Passes, Archived
  <1>7. Published' = [Published EXCEPT ![t] =
                          OnlyHqcData(msg[t]) /\ ~(db.id # 0 /\ db.entry \in Unprocessed)]
    BY <1>2, <1>3 DEF Passes
  <1>8. Atomic!Stored(t, db'.id)
    BY <1>6, <1>7 DEF Atomic!Stored, Published
  <1>9. db.id # 0 => \E left \in Left(db.data) : ~IsEqual(msg[t], db.data, left)
    BY <1>2 DEF Differs
  <1> QED
    BY <1>1, <1>3, <1>5, <1>8, <1>9 DEF Atomic!New, Same

\* A duplicate is found, and later answered.
LEMMA DuplicateMaps ==
    ASSUME StoreTypeOK, NEW t \in Thread,
           \A u \in Thread \ {t} : LocalsKept(u) /\ Undisturbed(u) /\ answer'[u] = answer[u],
           RunInv(t), OwnInv(t), ReadDuplicate(t) \/ (EndTransaction(t) /\ lock # t)
    PROVE  Atomic!Compare(t) \/ Atomic!Duplicate(t)
  <1>1. answer[t] = "none"
    BY DEF ReadDuplicate, EndTransaction, At, RunInv
  <1>2. CASE ReadDuplicate(t)
    <2>1. /\ pc[t] = "read" /\ pc'[t] = "end" /\ db.id # 0 /\ lock' = lock
          /\ \E left \in Left(db.data) : IsEqual(msg[t], db.data, left)
          /\ UNCHANGED <<db, msg, answer, lossless>>
      BY <1>2 DEF ReadDuplicate, At, Goto, StoreTypeOK
    <2>2. lock # t
      BY <2>1 DEF OwnInv, TxInv, LockInv, Writing
    <2>3. Same' = [Same EXCEPT ![t] = TRUE]
      BY <2>1, <2>2, OthersMapped
    <2>4. Published' = Published
      BY <1>1, <2>1, OthersMapped DEF Published
    <2> QED
      BY <1>1, <2>1, <2>3, <2>4 DEF Atomic!Compare, Same, Published
  <1>3. CASE EndTransaction(t) /\ lock # t
    <2>1. /\ pc[t] = "end" /\ db' = db /\ answer' = [answer EXCEPT ![t] = "ok"]
          /\ pc'[t] = "stop" /\ UNCHANGED <<msg, publish, lossless>>
      BY <1>3 DEF EndTransaction, At, Return, Goto, StoreTypeOK
    <2>2. ~publish[t]
      BY <1>3, <2>1 DEF OwnInv, TxInv, DecideInv
    <2>3. Same' = [Same EXCEPT ![t] = FALSE] /\ Same[t] = TRUE
      BY <1>3, <2>1, OthersMapped DEF Same
    <2>4. Published' = Published
      BY <1>1, <2>1, <2>2, OthersMapped DEF Published
    <2> QED
      BY <1>1, <2>1, <2>3, <2>4 DEF Atomic!Duplicate, Same, Published
  <1> QED
    BY <1>2, <1>3

\* The statements in between.
LEMMA StatementMaps ==
    ASSUME StoreTypeOK, NEW t \in Thread,
           \A u \in Thread \ {t} : LocalsKept(u) /\ Undisturbed(u) /\ answer'[u] = answer[u],
           RunInv(t), OwnInv(t),
           \/ BeginTransaction(t) \/ ReadNothing(t) \/ ReadOther(t) \/ CheckWorkQue(t)
           \/ WorqueToWorkStatistik(t) \/ DeleteObservation(t) \/ InsertObservation(t)
           \/ CurrentObservationid(t) \/ InsertData(t) \/ UpdateWorkQue(t)
    PROVE  UNCHANGED Atomic!atomicVars
  <1> USE DEF serverVars, localVars
  <1>1. pc[t] \notin {"stop", "end"} /\ answer[t] = "none" /\ lossless' = lossless
    BY DEF BeginTransaction, ReadNothing, ReadOther, CheckWorkQue, WorqueToWorkStatistik,
           DeleteObservation, InsertObservation, CurrentObservationid, InsertData, UpdateWorkQue,
           At, RunInv
  <1>2. /\ tx[t] <=> pc[t] # "begin"
        /\ pc[t] = "currval" => seq[t] # 0
        /\ pc[t] \in {"data", "enqueue"} => Sees(t).id = newId[t] /\ lock = t
    <2>1. tx[t] <=> pc[t] # "begin"
      BY <1>1 DEF OwnInv, TxInv, LockInv
    <2>2. old[t].id \in Nat
      BY Fields DEF StoreTypeOK
    <2>3. pc[t] = "currval" => seq[t] # 0
      BY <2>2 DEF OwnInv, TxInv, WriteInv, Fresh
    <2>4. pc[t] \in {"data", "enqueue"} => Sees(t).id = newId[t] /\ lock = t
      BY <2>1 DEF OwnInv, TxInv, WriteInv, Sees, Built
    <2> QED
      BY <2>1, <2>3, <2>4
  <1>3. ASSUME NEW d, tx[t], Writes(t, d) PROVE db' = db /\ lock' = t
    BY <1>3, WritesInTransaction
  <1>4. CASE BeginTransaction(t) \/ ReadNothing(t) \/ ReadOther(t) \/ CheckWorkQue(t)
    <2>1. pc'[t] # "end" /\ UNCHANGED <<db, msg, answer>>
      BY <1>4 DEF BeginTransaction, ReadNothing, ReadOther, CheckWorkQue, Goto, StoreTypeOK
    <2> QED
      BY <1>1, <2>1, Invisible
  <1>5. CASE WorqueToWorkStatistik(t) \/ DeleteObservation(t) \/ InsertObservation(t)
    <2>1. pc'[t] # "end" /\ UNCHANGED <<msg, answer>> /\ tx[t]
      BY <1>2, <1>5 DEF WorqueToWorkStatistik, DeleteObservation, InsertObservation, At, Goto, StoreTypeOK
    <2>2. db' = db
      BY <1>3, <1>5, <2>1 DEF WorqueToWorkStatistik, DeleteObservation, InsertObservation
    <2> QED
      BY <1>1, <2>1, <2>2, Invisible
  <1>6. CASE CurrentObservationid(t)
    <2>1. pc'[t] = "data" /\ UNCHANGED <<db, msg, answer>>
      BY <1>2, <1>6 DEF CurrentObservationid, At, Goto, StoreTypeOK
    <2> QED
      BY <1>1, <2>1, Invisible
  <1>7. CASE InsertData(t)
    <2>1. pc[t] = "data" /\ tx[t] /\ Sees(t).id = newId[t]
      BY <1>2, <1>7 DEF InsertData, At
    <2>2. (\E d : Writes(t, d)) /\ pc'[t] = "enqueue" /\ UNCHANGED <<msg, answer>>
      BY <1>7, <2>1 DEF InsertData, InsertRow, Goto, StoreTypeOK
    <2>3. db' = db
      BY <1>3, <2>1, <2>2
    <2> QED
      BY <1>1, <2>2, <2>3, Invisible
  <1>8. CASE UpdateWorkQue(t)
    <2>1. pc[t] = "enqueue" /\ tx[t] /\ Sees(t).id = newId[t] /\ lock = t
      BY <1>2, <1>8 DEF UpdateWorkQue, At
    <2>2. UNCHANGED <<msg, answer>> /\ ((\E d : Writes(t, d)) \/ UNCHANGED <<db, lock>>)
      BY <1>8, <2>1 DEF UpdateWorkQue, InsertRow
    <2>3. db' = db /\ lock' = t
      BY <1>3, <2>1, <2>2
    <2> QED
      BY <1>1, <2>2, <2>3, Invisible
  <1> QED
    BY <1>4, <1>5, <1>6, <1>7, <1>8

\* perform implements AtomicStore while connections last: whatever reads, retries, waits and
\* rollbacks come in between, each message is compared, merged, stored and queued in one
\* step on the data that is there, or not at all, and the caller learns which.
THEOREM StoresTakeEffectAtOnce == StoreSafety => StoresAreAtomic
  <1>1. StoreInit => Atomic!AtomicInit
    <2> SUFFICES ASSUME StoreInit PROVE Atomic!AtomicInit
      OBVIOUS
    <2>1. Same = [t \in Thread |-> FALSE] /\ Published = [t \in Thread |-> FALSE]
      BY DEF StoreInit, Same, Published
    <2>2. msg \in [Thread -> Message]
      BY StoreAssumption DEF StoreInit
    <2> QED
      BY <2>1, <2>2 DEF StoreInit, Atomic!AtomicInit, Same, Published
  <1>2. StoreInv /\ [StoreNext]_vars => [Atomic!AtomicNext]_(Atomic!atomicVars)
    <2> SUFFICES ASSUME StoreInv, [StoreNext]_vars
                 PROVE  Atomic!AtomicNext \/ UNCHANGED Atomic!atomicVars
      OBVIOUS
    <2>1. CASE UNCHANGED vars
      BY <2>1 DEF vars, serverVars, localVars, Atomic!atomicVars
    <2>2. CASE ~lossless'
      BY <2>2 DEF Atomic!AtomicNext, Atomic!Lost
    <2>3. CASE Others
      BY <2>3 DEF Others, localVars, Atomic!AtomicNext, Atomic!Others
    <2>4. ASSUME lossless', StoreNext, NEW t \in Thread, ThreadStep(t) \/ DatabaseError(t)
          PROVE  Atomic!AtomicNext \/ UNCHANGED Atomic!atomicVars
      <3>1. StoreTypeOK /\ RunInv(t) /\ OwnInv(t)
        BY <2>4, NeverLossless DEF StoreInv, DbInv, OwnInv
      <3>2. \A u \in Thread \ {t} : LocalsKept(u) /\ Undisturbed(u) /\ answer'[u] = answer[u]
        BY <2>4, <3>1, Isolation, OthersAnswer
      <3>3. lossless' = lossless
        BY <2>4, NeverLossless DEF StoreInv, StoreTypeOK
      <3>4. CASE ConcurrentUpdate(t) \/ InsertDuplicate(t) \/ DatabaseError(t)
        <4>1. pc[t] # "stop" /\ (SerializeError(t) \/ Aborted(t) \/ Unrecoverable(t))
          BY <3>4 DEF ConcurrentUpdate, InsertDuplicate, DatabaseError, At
        <4> QED
          BY <3>1, <3>2, <3>3, <4>1, FailureMaps DEF Atomic!AtomicNext
      <3>5. CASE EndTransaction(t) /\ lock = t
        BY <3>1, <3>2, <3>5, CommitMaps DEF Atomic!AtomicNext
      <3>6. CASE ReadDuplicate(t) \/ (EndTransaction(t) /\ lock # t)
        BY <3>1, <3>2, <3>6, DuplicateMaps DEF Atomic!AtomicNext
      <3>7. ~TryReconnect(t) /\ ~ReconnectFails(t)
        BY <3>1 DEF OwnInv, TxInv, LockInv, TryReconnect, ReconnectFails
      <3> QED
        BY <2>4, <3>1, <3>2, <3>4, <3>5, <3>6, <3>7, StatementMaps DEF ThreadStep
    <2> QED
      BY <2>1, <2>2, <2>3, <2>4, NeverLossless DEF StoreNext
  <1>3. StoreInit => StoreInv
    BY StoreInitInv
  <1>4. StoreInv /\ [StoreNext]_vars => StoreInv'
    BY StoreStepInv
  <1> QED
    BY <1>1, <1>2, <1>3, <1>4, PTL DEF StoreSafety, StoresAreAtomic, Atomic!AtomicSpec
=============================================================================
