----------------------------- MODULE MCKvalobs -----------------------------
(* Instances of Kvalobs for TLC. *)
EXTENDS Kvalobs, TLC

CONSTANTS k1, k2, w1, w2

\* What StationFilters falls back to when no filter matches.
DefaultFilter == {[publish |-> TRUE, addToWorkQueue |-> TRUE]}

OnlyUnassigned == {-1}

NoQaIds == [w \in Worker |-> -1]

\* A filter that was given a name, and no 'publish' or 'add_to_work_queue'.
NamedFilter == {[publish |-> FALSE, addToWorkQueue |-> TRUE]}

\* "Publish the observation and add it to the database, but no entries in the workque."
PublishFilter == {[publish |-> TRUE, addToWorkQueue |-> FALSE]}

MixedFilters == DefaultFilter \cup PublishFilter

\* One worker serves qa_id 1, another one was started without an id.
AssignedOne == {-1, 1}

OneHasId == [w \in Worker |-> IF w = w1 THEN 1 ELSE -1]
=============================================================================
