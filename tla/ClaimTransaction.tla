-------------------------- MODULE ClaimTransaction --------------------------
(* The claim of kvQabased statement by statement, which is one step in       *)
(* QaBase: NewDataListener's own connection, the transactionInProgress_ flag *)
(* beside it and the transaction on the server, which the driver loses       *)
(* without a word when it reconnects.  Claims that have grown old are left   *)
(* to QaBase: here an entry is ready, claimed or done.                       *)
EXTENDS Naturals, FiniteSets

CONSTANTS
    Worker,     \* kvQabased processes
    Entry,      \* rows of workque with process_start set
    MaxFaults   \* bound: lost connections and statements that fail

ASSUME ClaimAssumption == MaxFaults \in Nat

VARIABLES
    qaStart,    \* entries with qa_start set, committed
    qaStop,     \* entries with qa_stop set, committed
    pc,         \* where a worker is
    flag,       \* transactionInProgress_
    own,        \* needOwnTransaction of the claim it is in
    server,     \* the transaction of its connection on the server
    selected,   \* obs of selectDataForControl
    locked,     \* entries its transaction has updated and not committed
    stale,      \* entries others have changed since its transaction's snapshot
    held,       \* what it has claimed and not marked: the observation and the batch
    bare,       \* history: entries of claims that ended without a transaction
    faults      \* number of faults so far

tableVars == <<qaStart, qaStop>>
claimVars == <<tableVars, pc, flag, own, server, selected, locked, stale, held, bare, faults>>

ClaimTypeOK ==
    /\ qaStart \subseteq Entry /\ qaStop \subseteq Entry
    /\ pc \in [Worker -> {"run", "select", "update", "commit", "mark"}]
    /\ flag \in [Worker -> BOOLEAN] /\ own \in [Worker -> BOOLEAN]
    /\ server \in [Worker -> {"none", "serializable", "aborted"}]
    /\ selected \in [Worker -> SUBSET Entry] /\ locked \in [Worker -> SUBSET Entry]
    /\ stale \in [Worker -> SUBSET Entry]
    /\ held \in [Worker -> SUBSET Entry]
    /\ bare \subseteq Entry
    /\ faults \in 0..MaxFaults

ClaimInit ==
    /\ qaStart = {} /\ qaStop = {}
    /\ pc = [w \in Worker |-> "run"]
    /\ flag = [w \in Worker |-> FALSE] /\ own = [w \in Worker |-> FALSE]
    /\ server = [w \in Worker |-> "none"]
    /\ selected = [w \in Worker |-> {}] /\ locked = [w \in Worker |-> {}]
    /\ stale = [w \in Worker |-> {}]
    /\ held = [w \in Worker |-> {}]
    /\ bare = {} /\ faults = 0

ClaimFault == faults < MaxFaults /\ faults' = faults + 1

Put(f, w, x) == [f EXCEPT ![w] = x]

\* A commit of S is news to every transaction that has its snapshot.
Publish(S) == stale' = [w \in Worker |-> stale[w] \cup S]

\* The server forgets the transaction of w.
EndOnServer(w) ==
    /\ server' = Put(server, w, "none")
    /\ locked' = Put(locked, w, {})

----------------------------------------------------------------------------
\* fetchDataToProcess_ and selectDataForControl

\* No transaction in progress: a SERIALIZABLE one is started, otherwise the claim goes on
\* in what there is.
BeginClaim(w) ==
    /\ pc[w] = "run" /\ held[w] = {}
    /\ own' = Put(own, w, ~flag[w])
    /\ flag' = Put(flag, w, TRUE)
    /\ server' = IF flag[w] THEN server ELSE Put(server, w, "serializable")
    /\ pc' = Put(pc, w, "select")
    /\ UNCHANGED <<tableVars, selected, locked, stale, held, bare, faults>>

\* One of the three SELECTs finds ready entries; the snapshot of the transaction is taken.
SelectEntries(w) ==
    /\ pc[w] = "select" /\ server[w] # "aborted"
    /\ \E S \in SUBSET (Entry \ qaStart) : S # {} /\ selected' = Put(selected, w, S)
    /\ stale' = Put(stale, w, {})
    /\ pc' = Put(pc, w, "update")
    /\ UNCHANGED <<tableVars, flag, own, server, locked, held, bare, faults>>

\* Nothing to claim: commit a transaction of one's own.
SelectNothing(w) ==
    /\ pc[w] = "select" /\ server[w] # "aborted" /\ qaStart = Entry
    /\ flag' = Put(flag, w, ~own[w])
    /\ EndOnServer(w)
    /\ pc' = Put(pc, w, "run")
    /\ UNCHANGED <<tableVars, own, selected, stale, held, bare, faults>>

\* Nobody else has updated the entries of w and not yet committed.
Unlocked(w) == \A v \in Worker \ {w} : locked[v] \cap selected[w] = {}

\* Mutant: the isolation level is READ COMMITTED.
UpdateCommitted(w) ==
    /\ pc[w] = "update" /\ server[w] = "serializable"
    /\ Unlocked(w)
    /\ locked' = Put(locked, w, selected[w])
    /\ pc' = Put(pc, w, "commit")
    /\ UNCHANGED <<tableVars, flag, own, server, selected, stale, held, bare, faults>>

\* UPDATE workque SET qa_start for all of them.  A serializable transaction may not update
\* what has changed since its snapshot.
UpdateEntries(w) ==
    /\ pc[w] = "update" /\ server[w] = "serializable"
    /\ Unlocked(w) /\ selected[w] \cap stale[w] = {}
    /\ locked' = Put(locked, w, selected[w])
    /\ pc' = Put(pc, w, "commit")
    /\ UNCHANGED <<tableVars, flag, own, server, selected, stale, held, bare, faults>>

\* Without a transaction the same statement asks nothing and commits at once.
UpdateBare(w) ==
    /\ pc[w] = "update" /\ server[w] = "none"
    /\ Unlocked(w)
    /\ qaStart' = qaStart \cup selected[w]
    /\ Publish(selected[w])
    /\ pc' = Put(pc, w, "commit")
    /\ UNCHANGED <<qaStop, flag, own, server, selected, locked, held, bare, faults>>

\* END, if the transaction is one's own; only a warning when the server has none.
CommitClaim(w) ==
    /\ pc[w] = "commit"
    /\ qaStart' = qaStart \cup locked[w]
    /\ Publish(locked[w])
    /\ bare' = IF server[w] = "none" THEN bare \cup selected[w] ELSE bare
    /\ flag' = Put(flag, w, ~own[w])
    /\ EndOnServer(w)
    /\ held' = Put(held, w, selected[w])
    /\ pc' = Put(pc, w, "run")
    /\ UNCHANGED <<qaStop, own, selected, faults>>

\* A serialization error, or the error of an aborted transaction: roll back and retry.
RetryClaim(w) ==
    /\ \/ pc[w] \in {"select", "update", "commit"} /\ server[w] = "serializable"
       \/ pc[w] = "select" /\ server[w] = "aborted"
    /\ flag' = Put(flag, w, FALSE)
    /\ EndOnServer(w)
    /\ pc' = Put(pc, w, "run")
    /\ UNCHANGED <<tableVars, own, selected, stale, held, bare, faults>>

\* The connection is gone and cannot be had back: the claim throws, and unless it has come
\* back by then so does the rollback of the handler, and the flag stays.  The server may
\* have executed the END.
ClaimThrows(w) ==
    /\ pc[w] \in {"select", "update", "commit"}
    /\ ClaimFault
    /\ \E S \in {{}, locked[w]} : qaStart' = qaStart \cup S /\ Publish(S)
    /\ flag' \in {flag, Put(flag, w, FALSE)}
    /\ EndOnServer(w)
    /\ pc' = Put(pc, w, "run")
    /\ UNCHANGED <<qaStop, own, selected, held, bare>>

\* The connection is lost between two statements; the next one reconnects and goes on.
ClaimLosesConnection(w) ==
    /\ server[w] # "none"
    /\ ClaimFault
    /\ EndOnServer(w)
    /\ UNCHANGED <<tableVars, pc, flag, own, selected, stale, held, bare>>

----------------------------------------------------------------------------
\* runChecks and markProcessDone

\* runChecks begins a transaction on this connection and commits it.  (The checks have
\* another one: CheckRunner.)
RunTheChecks(w) ==
    /\ pc[w] = "run" /\ held[w] # {} /\ server[w] # "aborted"
    /\ flag' = Put(flag, w, FALSE)
    /\ pc' = Put(pc, w, "mark")
    /\ UNCHANGED <<tableVars, own, server, selected, locked, stale, held, bare, faults>>

\* An observation leaves the worker.
LetGo(w, e) == e \in held[w] /\ held' = Put(held, w, held[w] \ {e})

\* In an aborted transaction BEGIN fails, and the handler rolls back.
BeginFails(w) ==
    /\ pc[w] = "run" /\ server[w] = "aborted"
    /\ \E e \in Entry : LetGo(w, e)
    /\ flag' = Put(flag, w, FALSE)
    /\ EndOnServer(w)
    /\ UNCHANGED <<tableVars, pc, own, selected, stale, bare, faults>>

\* The checks throw and the handler rolls back; if the connection is gone the rollback
\* throws too.
RunChecksThrows(w) ==
    /\ pc[w] = "run" /\ server[w] = "none"
    /\ ClaimFault
    /\ \E e \in Entry : LetGo(w, e)
    /\ \E b \in BOOLEAN : flag' = Put(flag, w, b)
    /\ UNCHANGED <<tableVars, pc, own, server, selected, locked, stale, bare>>

\* BEGIN, UPDATE workque SET qa_stop, END, again after a serialization error.
MarkDone(w) ==
    /\ pc[w] = "mark"
    /\ \E e \in Entry : LetGo(w, e) /\ qaStop' = qaStop \cup {e}
    /\ flag' = Put(flag, w, FALSE)
    /\ pc' = Put(pc, w, "run")
    /\ UNCHANGED <<qaStart, own, server, selected, locked, stale, bare, faults>>

\* Another error is not caught in markProcessDone: the flag stays set, with an
\* aborted transaction on the server or none at all.
MarkFails(w) ==
    /\ pc[w] = "mark"
    /\ ClaimFault
    /\ \E e \in Entry : LetGo(w, e) /\ qaStop' \in {qaStop, qaStop \cup {e}}
    /\ flag' = Put(flag, w, TRUE)
    /\ \E x \in {"aborted", "none"} : server' = Put(server, w, x)
    /\ pc' = Put(pc, w, "run")
    /\ UNCHANGED <<qaStart, own, selected, locked, stale, bare>>

ClaimNext ==
    \E w \in Worker :
        \/ BeginClaim(w) \/ SelectEntries(w) \/ SelectNothing(w)
        \/ UpdateEntries(w) \/ UpdateBare(w) \/ CommitClaim(w) \/ RetryClaim(w)
        \/ ClaimThrows(w) \/ ClaimLosesConnection(w)
        \/ RunTheChecks(w) \/ BeginFails(w) \/ RunChecksThrows(w)
        \/ MarkDone(w) \/ MarkFails(w)

ClaimSpec == ClaimInit /\ [][ClaimNext]_claimVars

----------------------------------------------------------------------------
(* Properties *)

\* An observation is checked by one worker: no two hold the same entry, and none holds one
\* that is marked done, however their claims interleave and whichever of them fail or are
\* retried.  Excepted are the entries of a claim that lost its transaction on the way, or
\* never had one.
ClaimIsExclusive ==
    /\ \A w, v \in Worker : w # v => held[w] \cap held[v] \subseteq bare
    /\ \A w \in Worker : held[w] \cap qaStop \subseteq bare

\* DatabaseAccess.h, selectDataForControl: "Note that this function does _not_ need a
\* transaction to be running - and it should not have one."
SelectHasNoTransaction == \A w \in Worker : pc[w] = "select" => own[w]
=============================================================================
