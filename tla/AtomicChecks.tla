---------------------------- MODULE AtomicChecks ----------------------------
(* What CheckRunner promises about the data it checks: the checks of an       *)
(* observation take place in one step, on the data as it is at that moment.   *)
(* Nothing that another process has written is overwritten unseen, unless by  *)
(* a worker whose transaction was lost with its connection.                   *)
EXTENDS Naturals

CONSTANTS
    Obs,      \* observations of a station: a typeid and an obstime
    NChecks,  \* the checks have numbers 1..NChecks
    MaxId,    \* bound on observationids
    stored,   \* the ids at the start
    near      \* near[o]: the observations a check of o may flag

VARIABLES
    row,    \* the committed data of each observation
    adrift  \* the workers that go on without a transaction

\* A mark stands for what a check of an observation has done to a row: flags,
\* cfailed and corrected value.
Mark == (1..NChecks) \X Obs

MarksBy(o) == (1..NChecks) \X {o}

Row == [id : 0..MaxId, marks : SUBSET Mark, hqc : BOOLEAN]

AtomicInit == row = [o \in Obs |-> [id |-> stored[o], marks |-> {}, hqc |-> FALSE]]

\* Input stores an observation, under an id that is new.
Stored(o) ==
    /\ \A p \in Obs : row[p].id < row'[o].id
    /\ \A p \in Obs \ {o} : row'[p] = row[p]

\* The checks of o: its own data has the marks of this run alone; to other data
\* marks are added.  Data that HQC has touched is not checked.
Checked(o) ==
    /\ row[o].id # 0 /\ ~row[o].hqc
    /\ \E m \in SUBSET MarksBy(o) : row'[o] = [row[o] EXCEPT !.marks = m]
    /\ \A p \in Obs \ {o} :
          \E m \in SUBSET MarksBy(o) :
              /\ p \notin near[o] => m = {}
              /\ row'[p] = [row[p] EXCEPT !.marks = @ \cup m]

\* A worker that has lost its transaction writes a row.
StrayWrite(o) ==
    /\ adrift # {}
    /\ \E m \in SUBSET Mark : row' = [row EXCEPT ![o].marks = m]

AtomicNext == \E o \in Obs : Stored(o) \/ Checked(o) \/ StrayWrite(o)

AtomicSpec == AtomicInit /\ [][AtomicNext]_row
=============================================================================
