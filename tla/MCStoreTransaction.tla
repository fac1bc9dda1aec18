------------------------- MODULE MCStoreTransaction -------------------------
(* Instances of StoreTransaction for TLC: numeric elements p, q and a text     *)
(* element x.                                                                  *)
EXTENDS StoreTransaction, TLC

CONSTANTS p, q, x, t1, t2

Msg(d, mode, test, queue) ==
    [data |-> [k \in Param |-> IF k \in DOMAIN d THEN d[k] ELSE NoElem],
     mode |-> mode, test |-> test, addToWorkQueue |-> queue]

V(o, f) == [orig |-> o, flags |-> f]

Values == {0, -1, 150, Missing}

\* Data of a station with text, part of it that a filter keeps off the queue, and an update
\* of HQC that differs in a hundredth.
StoreMessages ==
    {Msg(p :> V(0, "raw") @@ q :> V(150, "raw") @@ x :> V(150, "raw"), DbInsert, "Complete", TRUE),
     Msg(q :> V(150, "raw"), DbInsert, "Partial", FALSE),
     Msg(p :> V(-1, "hqc"), DbUpdate, "Partial", TRUE)}

Received(m) ==
    [id |-> 1, data |-> m.data, archived |-> {},
     entry |-> IF m.addToWorkQueue /\ ~OnlyHqcData(m) THEN "open" ELSE "none"]

\* Nothing, and data that has just come, one of its values missing.
StoreDb ==
    {NoObservation,
     Received(Msg(p :> V(Missing, "raw") @@ q :> V(150, "raw"), DbInsert, "Partial", TRUE))}
=============================================================================
