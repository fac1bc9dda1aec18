---------------------------- MODULE AtomicStore ----------------------------
(* What kvDataInputd relies on when it calls perform: a message is compared    *)
(* with the observation, stored and queued in one step, or not at all, and the *)
(* answer says which.                                                          *)
EXTENDS Naturals

CONSTANTS
    Thread,           \* decoder threads, each with one message
    InitDb,           \* the database when they start
    Message,          \* what is stored
    Left(_),          \* how the comparison with old data may go: see DataUpdate,
    IsEqual(_, _, _), \* whether it finds a message there,
    NewData(_, _),    \* and what is made of both if not
    OnlyHqcData(_),   \* whether a message passes by kvQabased
    Unprocessed,      \* the entries of workque that kvQabased has still to do
    Process(_)        \* what other processes do

VARIABLES
    db,       \* the committed state of the observation
    msg,      \* the message of a thread
    same,     \* the message has been found in the database
    answer,   \* what perform has come to: "none" while it runs
    publish,  \* whether there is data to publish past kvQabased
    lossless  \* no connection has been lost

atomicVars == <<db, msg, same, answer, publish, lossless>>

\* A new observation in place of the old one, if there is one.
Stored(t, id) ==
    LET m       == msg[t]
        pending == db.id # 0 /\ db.entry \in Unprocessed
        passes  == OnlyHqcData(m) /\ ~pending
    IN  /\ db' = [id       |-> id,
                  data     |-> IF db.id = 0 THEN m.data ELSE NewData(m, db.data),
                  entry    |-> IF m.addToWorkQueue /\ ~passes THEN "open" ELSE "none",
                  archived |-> db.archived \cup (IF db.entry = "done" THEN {db.id} ELSE {})]
        /\ publish' = [publish EXCEPT ![t] = passes]

New(t) ==
    /\ answer[t] = "none"
    /\ answer' = [answer EXCEPT ![t] = "ok"]
    /\ db'.id \in Nat /\ db'.id > db.id /\ db'.id \notin db.archived
    /\ Stored(t, db'.id)
    /\ db.id # 0 => \E left \in Left(db.data) : ~IsEqual(msg[t], db.data, left)
    /\ UNCHANGED <<msg, same, lossless>>

\* A duplicate: it changes nothing; others may store before it is answered.
Compare(t) ==
    /\ answer[t] = "none" /\ db.id # 0
    /\ same' = [same EXCEPT ![t] = TRUE]
    /\ \E left \in Left(db.data) : IsEqual(msg[t], db.data, left)
    /\ UNCHANGED <<db, msg, answer, publish, lossless>>

Duplicate(t) ==
    /\ answer[t] = "none" /\ same[t]
    /\ same' = [same EXCEPT ![t] = FALSE]
    /\ answer' = [answer EXCEPT ![t] = "ok"]
    /\ UNCHANGED <<db, msg, publish, lossless>>

\* The attempt fails, or all of them.
TryAgain(t) ==
    /\ answer[t] = "none" /\ same[t]
    /\ same' = [same EXCEPT ![t] = FALSE]
    /\ UNCHANGED <<db, msg, answer, publish, lossless>>

Refuse(t) ==
    /\ answer[t] = "none"
    /\ same' = [same EXCEPT ![t] = FALSE]
    /\ answer' = [answer EXCEPT ![t] = "failed"]
    /\ UNCHANGED <<db, msg, publish, lossless>>

Others ==
    /\ db' \in Process(db)
    /\ UNCHANGED <<msg, same, answer, publish, lossless>>

\* When connections are lost nothing is promised.
Lost == ~lossless'

AtomicInit ==
    /\ db \in InitDb /\ msg \in [Thread -> Message]
    /\ same = [t \in Thread |-> FALSE]
    /\ answer = [t \in Thread |-> "none"] /\ publish = [t \in Thread |-> FALSE]
    /\ lossless = TRUE

AtomicNext ==
    \/ Lost
    \/ Others
    \/ \E t \in Thread : New(t) \/ Compare(t) \/ Duplicate(t) \/ TryAgain(t) \/ Refuse(t)

AtomicSpec == AtomicInit /\ [][AtomicNext]_atomicVars
=============================================================================
