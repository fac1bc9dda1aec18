----------------------------- MODULE DataUpdate -----------------------------
(* lib/decoder, DataUpdateTransaction: what is compared and what is merged    *)
(* when a decoded message meets an observation that is in the database.  The  *)
(* database is seen from one observation (stationid, typeid, obstime).        *)
EXTENDS Integers, FiniteSets, Sequences, SequencesExt

CONSTANTS
    Param,    \* what identifies an element: paramid, sensor and level
    Text,     \* the ones that are text data
    Orig      \* original values: hundredths for numeric data

\* The value that stands for missing data, -32767.
Missing == -3276700

Flag == {"raw", "checked", "hqc"}

ASSUME DataUpdateAssumption ==
    /\ IsFiniteSet(Param) /\ Text \subseteq Param
    /\ Orig \subseteq Int

\* An element: its original value, and in one its corrected value and flags.
Elem == [orig : Orig, flags : Flag]

NoElem == [orig |-> 0, flags |-> "none"]

Data == [Param -> Elem \cup {NoElem}]

NoData == [p \in Param |-> NoElem]

Present(d) == {p \in Param : d[p] # NoElem}

DbInsert == "DbInsert"
DbUpdate == "DbUpdate"

\* A call of addDataToDb: with DbUpdate the data is added to what is there, with
\* DbInsert it replaces it.
Message == [data : Data \ {NoData}, mode : {DbInsert, DbUpdate},
            test : {"Complete", "Partial"}, addToWorkQueue : BOOLEAN]

----------------------------------------------------------------------------
(* Comparing. *)

\* static_cast<int>((v + 0.005) * 100) cuts towards zero.
Rounded(n) == IF n >= 0 THEN n ELSE n + 1

SameOriginal(p, e, f) ==
    IF p \in Text THEN e.orig = f.orig ELSE Rounded(e.orig) = Rounded(f.orig)

SameSize(new, old) ==
    /\ Cardinality(Present(new) \cap Text) = Cardinality(Present(old) \cap Text)
    /\ Cardinality(Present(new) \ Text) = Cardinality(Present(old) \ Text)

\* Mutant: with DbInsert the sizes are not compared.
PartialIsEqualAnySize(new, old, replace) ==
    \A p \in Present(new) : p \in Present(old) /\ SameOriginal(p, new[p], old[p])

PartialIsEqual(new, old, replace) ==
    /\ replace => SameSize(new, old)
    /\ \A p \in Present(new) : p \in Present(old) /\ SameOriginal(p, new[p], old[p])

CompleteIsEqual(new, old, replace) ==
    /\ PartialIsEqual(new, old, replace)
    /\ \A p \in Present(new) \ Text : new[p].flags = old[p].flags

\* What the loop over the missing values erases when it comes to the first element of s:
\* after an erase, ++ skips the next element.
Erased(d, s) ==
    LET erased[i \in 0..Len(s)] == i # 0 /\ d[s[i]].orig = Missing /\ ~erased[i - 1]
    IN  {s[i] : i \in {j \in 1..Len(s) : erased[j]}}

\* What it leaves.  When it erases the last element ++ goes past end(), in libstdc++ to the
\* first one.
EraseMissing(d, s) ==
    LET Pass(u) == SelectSeq(u, LAMBDA p : p \notin Erased(d, u))
        left[u \in Seq(Param)] ==
            IF u # <<>> /\ Last(u) \in Erased(d, u) THEN left[Pass(u)] ELSE Pass(u)
    IN  left[s]

\* The numeric elements that the loop may leave: the SELECT asks for no order.
Left(d) == {Range(EraseMissing(d, s)) : s \in SetToSeqs(Present(d) \ Text)}

WithoutMissing(d, left) == [p \in Param |-> IF p \in Text \cup left THEN d[p] ELSE NoElem]

\* left: what is left of the old data for the second test.
IsEqual(m, old, left) ==
    LET replace == m.mode = DbInsert
    IN  IF m.test = "Complete"
        THEN CompleteIsEqual(m.data, old, replace)
        ELSE \/ PartialIsEqual(m.data, old, replace)
             \/ PartialIsEqual(m.data, WithoutMissing(old, left), replace)

----------------------------------------------------------------------------
(* Merging. *)

\* updateObservation: the old elements that the message does not have are kept.
Merged(m, old) == [p \in Param |-> IF p \in Present(m.data) THEN m.data[p] ELSE old[p]]

NewData(m, old) == IF m.mode = DbUpdate THEN Merged(m, old) ELSE m.data

\* onlyHqcDataCheck
OnlyHqcData(m) == \A p \in Present(m.data) \ Text : m.data[p].flags = "hqc"

----------------------------------------------------------------------------
(* The database, as far as it is about the observation: its id (0 if it is not *)
(* there) and data, its entry in workque and the ids in workstatistik.         *)

Entry == {"none", "open", "claimed", "done"}

Unprocessed == {"open", "claimed"}

NoObservation == [id |-> 0, data |-> NoData, entry |-> "none", archived |-> {}]

\* What the other processes do to an observation that is in the database: kvQabased
\* claims and checks it and marks it done, kvManagerd moves the entry.
Process(d) ==
    (IF d.entry = "open" THEN {[d EXCEPT !.entry = "claimed"]} ELSE {})
    \cup (IF d.entry = "claimed"
          THEN {[d EXCEPT !.entry = "done"],
                [d EXCEPT !.data = [p \in Param |-> IF @[p].flags = "raw" /\ p \notin Text
                                                    THEN [@[p] EXCEPT !.flags = "checked"]
                                                    ELSE @[p]]]}
          ELSE {})
    \cup (IF d.entry = "done" THEN {[d EXCEPT !.entry = "none", !.archived = @ \cup {d.id}]}
          ELSE {})
=============================================================================
