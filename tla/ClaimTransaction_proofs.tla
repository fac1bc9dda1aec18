---------------------- MODULE ClaimTransaction_proofs ----------------------
(* That the SERIALIZABLE claims of kvQabased are exclusive, for any number   *)
(* of workers, entries and faults.  The reason is in two places: a           *)
(* transaction that has not yet updated its entries knows (stale) which of   *)
(* them are claimed by now, and one that has keeps everybody else off them.  *)
EXTENDS ClaimTransaction, TLAPS

\* The claims on the way.
PendingInv ==
    /\ \A w \in Worker : pc[w] = "update" /\ server[w] = "serializable"
                            => selected[w] \cap qaStart \subseteq stale[w]
    /\ \A w \in Worker : pc[w] = "commit" /\ server[w] = "serializable"
                            => locked[w] = selected[w] /\ selected[w] \cap qaStart = {}
    /\ \A w \in Worker : locked[w] # {} => pc[w] = "commit" /\ server[w] = "serializable"
    /\ \A w, v \in Worker : w # v => locked[w] \cap locked[v] = {}

\* The claims that are made.
MadeInv ==
    /\ \A w \in Worker : held[w] \subseteq qaStart \cup bare
    /\ qaStop \subseteq qaStart \cup bare

ExclusiveInv == ClaimTypeOK /\ PendingInv /\ MadeInv /\ ClaimIsExclusive

\* At the start nothing is claimed.
LEMMA ExclusiveInit == ClaimInit => ExclusiveInv
  <1> SUFFICES ASSUME ClaimInit PROVE ExclusiveInv
    OBVIOUS
  <1>1. ClaimTypeOK
    BY ClaimAssumption DEF ClaimInit, ClaimTypeOK
  <1>2. PendingInv /\ MadeInv /\ ClaimIsExclusive
    BY DEF ClaimInit, PendingInv, MadeInv, ClaimIsExclusive
  <1> QED
    BY <1>1, <1>2 DEF ExclusiveInv

\* A fault stays within its bound.
LEMMA FaultType ==
    ASSUME faults \in 0..MaxFaults, ClaimFault
    PROVE  faults' \in 0..MaxFaults
  BY ClaimAssumption DEF ClaimFault

\* Every step of a worker keeps the types.
LEMMA TypeStep ==
    ASSUME ClaimTypeOK, ClaimNext
    PROVE  ClaimTypeOK'
  <1> PICK w \in Worker :
        \/ BeginClaim(w) \/ SelectEntries(w) \/ SelectNothing(w)
        \/ UpdateEntries(w) \/ UpdateBare(w) \/ CommitClaim(w) \/ RetryClaim(w)
        \/ ClaimThrows(w) \/ ClaimLosesConnection(w)
        \/ RunTheChecks(w) \/ BeginFails(w) \/ RunChecksThrows(w)
        \/ MarkDone(w) \/ MarkFails(w)
    BY DEF ClaimNext
  <1> USE DEF ClaimTypeOK, Put, EndOnServer, Publish, tableVars
  <1>1. CASE BeginClaim(w)
    <2>1. (~flag[w]) \in BOOLEAN
      OBVIOUS
    <2>2. own' \in [Worker -> BOOLEAN] /\ flag' \in [Worker -> BOOLEAN]
      BY <1>1, <2>1 DEF BeginClaim
    <2> QED
      BY <1>1, <2>2 DEF BeginClaim
  <1>2. CASE SelectEntries(w)
    BY <1>2 DEF SelectEntries
  <1>3. CASE SelectNothing(w)
    <2>1. (~own[w]) \in BOOLEAN
      OBVIOUS
    <2>2. flag' \in [Worker -> BOOLEAN]
      BY <1>3, <2>1 DEF SelectNothing
    <2> QED
      BY <1>3, <2>2 DEF SelectNothing
  <1>4. CASE UpdateEntries(w)
    BY <1>4 DEF UpdateEntries
  <1>5. CASE UpdateBare(w)
    BY <1>5 DEF UpdateBare
  <1>6. CASE CommitClaim(w)
    <2>1. (~own[w]) \in BOOLEAN
      OBVIOUS
    <2>2. flag' \in [Worker -> BOOLEAN]
      BY <1>6, <2>1 DEF CommitClaim
    <2>3. qaStart' \subseteq Entry /\ bare' \subseteq Entry /\ held' \in [Worker -> SUBSET Entry]
      BY <1>6 DEF CommitClaim
    <2>4. stale' \in [Worker -> SUBSET Entry]
      BY <1>6 DEF CommitClaim
    <2> QED
      BY <1>6, <2>2, <2>3, <2>4 DEF CommitClaim
  <1>7. CASE RetryClaim(w)
    BY <1>7 DEF RetryClaim
  <1>8. CASE ClaimThrows(w)
    <2>1. faults' \in 0..MaxFaults
      BY <1>8, FaultType DEF ClaimThrows
    <2>2. qaStart' \subseteq Entry /\ stale' \in [Worker -> SUBSET Entry]
      BY <1>8 DEF ClaimThrows
    <2> QED
      BY <1>8, <2>1, <2>2 DEF ClaimThrows
  <1>9. CASE ClaimLosesConnection(w)
    BY <1>9, FaultType DEF ClaimLosesConnection
  <1>10. CASE RunTheChecks(w)
    BY <1>10 DEF RunTheChecks
  <1>11. CASE BeginFails(w)
    BY <1>11 DEF BeginFails, LetGo
  <1>12. CASE RunChecksThrows(w)
    BY <1>12, FaultType DEF RunChecksThrows, LetGo
  <1>13. CASE MarkDone(w)
    BY <1>13 DEF MarkDone, LetGo
  <1>14. CASE MarkFails(w)
    <2>1. faults' \in 0..MaxFaults
      BY <1>14, FaultType DEF MarkFails
    <2>2. qaStop' \subseteq Entry /\ held' \in [Worker -> SUBSET Entry]
      BY <1>14 DEF MarkFails, LetGo
    <2>3. server' \in [Worker -> {"none", "serializable", "aborted"}]
      BY <1>14 DEF MarkFails
    <2> QED
      BY <1>14, <2>1, <2>2, <2>3 DEF MarkFails
  <1> QED
    BY <1>1, <1>2, <1>3, <1>4, <1>5, <1>6, <1>7, <1>8, <1>9, <1>10, <1>11, <1>12, <1>13, <1>14

----------------------------------------------------------------------------
(* Claims on the way *)

\* A worker whose transaction is over, or has not begun, has no claim on the way.
LEMMA EndKeepsPending ==
    ASSUME ClaimTypeOK, PendingInv, NEW w \in Worker,
           \A v \in Worker \ {w} :
              /\ pc'[v] = pc[v] /\ server'[v] = server[v]
              /\ selected'[v] = selected[v] /\ locked'[v] = locked[v] /\ stale'[v] = stale[v],
           locked'[w] = {}, pc'[w] \notin {"update", "commit"} \/ server'[w] # "serializable",
           qaStart' = qaStart
    PROVE  PendingInv'
  BY DEF PendingInv

\* A commit of entries that nobody else has locked is news to the others.
LEMMA NewsKeepsPending ==
    ASSUME ClaimTypeOK, PendingInv, NEW w \in Worker, NEW S \in SUBSET Entry,
           \A v \in Worker \ {w} :
              /\ pc'[v] = pc[v] /\ server'[v] = server[v]
              /\ selected'[v] = selected[v] /\ locked'[v] = locked[v]
              /\ stale'[v] = stale[v] \cup S /\ locked[v] \cap S = {},
           locked'[w] = {}, pc'[w] \notin {"update", "commit"} \/ server'[w] # "serializable",
           qaStart' = qaStart \cup S
    PROVE  PendingInv'
  <1>1. ASSUME NEW v \in Worker, pc'[v] = "update", server'[v] = "serializable"
        PROVE  selected'[v] \cap qaStart' \subseteq stale'[v]
    BY <1>1 DEF PendingInv
  <1>2. ASSUME NEW v \in Worker, pc'[v] = "commit", server'[v] = "serializable"
        PROVE  locked'[v] = selected'[v] /\ selected'[v] \cap qaStart' = {}
    BY <1>2 DEF PendingInv
  <1>3. \A v \in Worker : locked'[v] # {} => pc'[v] = "commit" /\ server'[v] = "serializable"
    BY DEF PendingInv
  <1>4. \A u, v \in Worker : u # v => locked'[u] \cap locked'[v] = {}
    BY DEF PendingInv
  <1> QED
    BY <1>1, <1>2, <1>3, <1>4 DEF PendingInv

\* Every step keeps what is known of the claims on the way.
LEMMA PendingStep ==
    ASSUME ClaimTypeOK, PendingInv, NEW w \in Worker,
        \/ BeginClaim(w) \/ SelectEntries(w) \/ SelectNothing(w)
        \/ UpdateEntries(w) \/ UpdateBare(w) \/ CommitClaim(w) \/ RetryClaim(w)
        \/ ClaimThrows(w) \/ ClaimLosesConnection(w)
        \/ RunTheChecks(w) \/ BeginFails(w) \/ RunChecksThrows(w)
        \/ MarkDone(w) \/ MarkFails(w)
    PROVE  PendingInv'
  <1> USE DEF Put, EndOnServer, Publish, tableVars
  <1>1. pc[w] # "commit" \/ server[w] # "serializable" => locked[w] = {}
    BY DEF PendingInv
  <1>2. CASE BeginClaim(w)
    BY <1>1, <1>2, EndKeepsPending DEF BeginClaim, ClaimTypeOK
  <1>3. CASE SelectEntries(w)
    <2>1. PICK S \in SUBSET (Entry \ qaStart) : selected' = [selected EXCEPT ![w] = S]
      BY <1>3 DEF SelectEntries
    <2>2. /\ pc' = [pc EXCEPT ![w] = "update"] /\ stale' = [stale EXCEPT ![w] = {}]
          /\ UNCHANGED <<qaStart, server, locked>> /\ pc[w] = "select"
      BY <1>3 DEF SelectEntries
    <2> QED
      BY <1>1, <2>1, <2>2 DEF PendingInv, ClaimTypeOK
  <1>4. CASE SelectNothing(w) \/ RetryClaim(w)
    BY <1>4, EndKeepsPending DEF SelectNothing, RetryClaim, ClaimTypeOK
  <1>5. CASE UpdateEntries(w)
    <2>1. /\ pc' = [pc EXCEPT ![w] = "commit"] /\ locked' = [locked EXCEPT ![w] = selected[w]]
          /\ UNCHANGED <<qaStart, server, selected, stale>>
          /\ pc[w] = "update" /\ server[w] = "serializable"
          /\ \A v \in Worker \ {w} : locked[v] \cap selected[w] = {}
          /\ selected[w] \cap stale[w] = {}
      BY <1>5 DEF UpdateEntries, Unlocked
    <2>2. selected[w] \cap qaStart = {}
      BY <2>1 DEF PendingInv
    <2> QED
      BY <2>1, <2>2 DEF PendingInv, ClaimTypeOK
  <1>6. CASE UpdateBare(w)
    <2>1. selected[w] \in SUBSET Entry
      BY DEF ClaimTypeOK
    <2>2. /\ qaStart' = qaStart \cup selected[w] /\ locked' = locked /\ server' = server
          /\ server[w] = "none" /\ selected' = selected
          /\ \A v \in Worker \ {w} :
                /\ pc'[v] = pc[v] /\ stale'[v] = stale[v] \cup selected[w]
                /\ locked[v] \cap selected[w] = {}
      BY <1>6 DEF UpdateBare, Unlocked, ClaimTypeOK
    <2> QED
      BY <1>1, <2>1, <2>2, NewsKeepsPending
  <1>7. CASE CommitClaim(w)
    <2>1. locked[w] \in SUBSET Entry
      BY DEF ClaimTypeOK
    <2>2. /\ qaStart' = qaStart \cup locked[w] /\ locked'[w] = {} /\ server'[w] = "none"
          /\ selected' = selected
          /\ \A v \in Worker \ {w} :
                /\ pc'[v] = pc[v] /\ server'[v] = server[v] /\ locked'[v] = locked[v]
                /\ stale'[v] = stale[v] \cup locked[w]
      BY <1>7 DEF CommitClaim, ClaimTypeOK
    <2>3. \A v \in Worker \ {w} : locked[v] \cap locked[w] = {}
      BY DEF PendingInv
    <2> QED
      BY <2>1, <2>2, <2>3, NewsKeepsPending
  <1>8. CASE ClaimThrows(w)
    <2>1. PICK S \in {{}, locked[w]} :
             qaStart' = qaStart \cup S /\ stale' = [v \in Worker |-> stale[v] \cup S]
      BY <1>8 DEF ClaimThrows
    <2>2. S \in SUBSET Entry
      BY DEF ClaimTypeOK
    <2>3. /\ locked'[w] = {} /\ server'[w] = "none" /\ selected' = selected
          /\ \A v \in Worker \ {w} :
                /\ pc'[v] = pc[v] /\ server'[v] = server[v] /\ locked'[v] = locked[v]
                /\ stale'[v] = stale[v] \cup S
      BY <1>8, <2>1 DEF ClaimThrows, ClaimTypeOK
    <2>4. \A v \in Worker \ {w} : locked[v] \cap S = {}
      BY DEF PendingInv
    <2> QED
      BY <2>1, <2>2, <2>3, <2>4, NewsKeepsPending
  <1>9. CASE ClaimLosesConnection(w)
    BY <1>9, EndKeepsPending DEF ClaimLosesConnection, ClaimTypeOK
  <1>10. CASE RunTheChecks(w) \/ BeginFails(w)
    BY <1>1, <1>10, EndKeepsPending DEF RunTheChecks, BeginFails, ClaimTypeOK
  <1>11. CASE RunChecksThrows(w) \/ MarkDone(w)
    BY <1>1, <1>11, EndKeepsPending DEF RunChecksThrows, MarkDone, ClaimTypeOK
  <1>12. CASE MarkFails(w)
    BY <1>1, <1>12, EndKeepsPending DEF MarkFails, ClaimTypeOK
  <1> QED
    BY <1>2, <1>3, <1>4, <1>5, <1>6, <1>7, <1>8, <1>9, <1>10, <1>11, <1>12

----------------------------------------------------------------------------
(* Claims that are made *)

\* A step in which claims are only let go, and only what is let go is marked.
LEMMA LetGoKeepsClaims ==
    ASSUME ClaimTypeOK, MadeInv, ClaimIsExclusive, NEW w \in Worker, NEW S \in SUBSET held[w],
           \A v \in Worker : held'[v] = IF v = w THEN held[v] \ S ELSE held[v],
           qaStart \subseteq qaStart', bare' = bare,
           qaStop' = qaStop \/ qaStop' = qaStop \cup S
    PROVE  MadeInv' /\ ClaimIsExclusive'
  BY DEF MadeInv, ClaimIsExclusive

\* A claim that ends without a transaction excepts its entries, one that ends with it has
\* entries nobody else had claimed.
LEMMA CommitKeepsClaims ==
    ASSUME ClaimTypeOK, PendingInv, MadeInv, ClaimIsExclusive, NEW w \in Worker, CommitClaim(w),
           server[w] # "aborted"
    PROVE  MadeInv' /\ ClaimIsExclusive'
  <1>1. /\ \A v \in Worker : held'[v] = IF v = w THEN selected[w] ELSE held[v]
        /\ qaStart' = qaStart \cup locked[w] /\ qaStop' = qaStop
        /\ bare' = IF server[w] = "none" THEN bare \cup selected[w] ELSE bare
    BY DEF CommitClaim, Put, ClaimTypeOK
  <1>2. CASE server[w] = "none"
    BY <1>1, <1>2 DEF MadeInv, ClaimIsExclusive
  <1>3. CASE server[w] = "serializable"
    <2>1. locked[w] = selected[w] /\ selected[w] \cap qaStart = {}
      BY <1>3 DEF CommitClaim, PendingInv
    <2>2. \A v \in Worker : held[v] \cap selected[w] \subseteq bare
      BY <2>1 DEF MadeInv
    <2>3. qaStop \cap selected[w] \subseteq bare
      BY <2>1 DEF MadeInv
    <2> QED
      BY <1>1, <1>3, <2>1, <2>2, <2>3 DEF MadeInv, ClaimIsExclusive
  <1> QED
    BY <1>2, <1>3 DEF ClaimTypeOK

\* Only at rest is the transaction of a connection an aborted one, and in the claim that
\* follows before its first statement.
AbortedInv == \A w \in Worker : server[w] = "aborted" => pc[w] \in {"run", "select"}

LEMMA AbortedStep ==
    ASSUME ClaimTypeOK, AbortedInv, [ClaimNext]_claimVars
    PROVE  AbortedInv'
  <1> USE DEF Put, EndOnServer, ClaimTypeOK, AbortedInv
  <1>1. CASE UNCHANGED claimVars
    BY <1>1 DEF claimVars
  <1>2. ASSUME NEW w \in Worker, BeginClaim(w) \/ SelectEntries(w) \/ SelectNothing(w)
        PROVE  AbortedInv'
    BY <1>2 DEF BeginClaim, SelectEntries, SelectNothing
  <1>3. ASSUME NEW w \in Worker, UpdateEntries(w) \/ UpdateBare(w) \/ CommitClaim(w)
        PROVE  AbortedInv'
    BY <1>3 DEF UpdateEntries, UpdateBare, CommitClaim
  <1>4. ASSUME NEW w \in Worker, RetryClaim(w) \/ ClaimThrows(w) \/ ClaimLosesConnection(w)
        PROVE  AbortedInv'
    BY <1>4 DEF RetryClaim, ClaimThrows, ClaimLosesConnection
  <1>5. ASSUME NEW w \in Worker, RunTheChecks(w) \/ BeginFails(w) \/ RunChecksThrows(w)
        PROVE  AbortedInv'
    BY <1>5 DEF RunTheChecks, BeginFails, RunChecksThrows
  <1>6. ASSUME NEW w \in Worker, MarkDone(w) \/ MarkFails(w)
        PROVE  AbortedInv'
    BY <1>6 DEF MarkDone, MarkFails
  <1> QED
    BY <1>1, <1>2, <1>3, <1>4, <1>5, <1>6 DEF ClaimNext

\* Every step keeps the claims exclusive.
LEMMA ExclusiveStep == AbortedInv /\ ExclusiveInv /\ [ClaimNext]_claimVars => ExclusiveInv'
  <1> SUFFICES ASSUME AbortedInv, ExclusiveInv, [ClaimNext]_claimVars PROVE ExclusiveInv'
    OBVIOUS
  <1> USE DEF Put, ClaimTypeOK
  <1>1. CASE UNCHANGED claimVars
    BY <1>1 DEF claimVars, tableVars, ExclusiveInv, PendingInv, MadeInv, ClaimIsExclusive
  <1>2. CASE ClaimNext
    <2>1. ClaimTypeOK'
      BY <1>2, TypeStep DEF ExclusiveInv
    <2>2. PendingInv'
      BY <1>2, PendingStep DEF ClaimNext, ExclusiveInv
    <2>3. MadeInv' /\ ClaimIsExclusive'
      <3> USE DEF tableVars, ExclusiveInv
      <3>1. ASSUME NEW w \in Worker, CommitClaim(w)
            PROVE  MadeInv' /\ ClaimIsExclusive'
        <4>1. server[w] # "aborted"
          BY <3>1 DEF CommitClaim, AbortedInv
        <4> QED
          BY <3>1, <4>1, CommitKeepsClaims
      <3>2. ASSUME held' = held, qaStop' = qaStop, bare' = bare, qaStart \subseteq qaStart'
            PROVE  MadeInv' /\ ClaimIsExclusive'
        BY <3>2 DEF MadeInv, ClaimIsExclusive
      <3>3. ASSUME NEW w \in Worker, BeginClaim(w) \/ SelectEntries(w) \/ SelectNothing(w)
            PROVE  MadeInv' /\ ClaimIsExclusive'
        BY <3>2, <3>3 DEF BeginClaim, SelectEntries, SelectNothing
      <3>4. ASSUME NEW w \in Worker, UpdateEntries(w) \/ UpdateBare(w) \/ RetryClaim(w)
            PROVE  MadeInv' /\ ClaimIsExclusive'
        <4>1. qaStart \subseteq qaStart' /\ UNCHANGED <<held, qaStop, bare>>
          BY <3>4 DEF UpdateEntries, UpdateBare, RetryClaim
        <4> QED
          BY <3>2, <4>1
      <3>5. ASSUME NEW w \in Worker,
                   ClaimThrows(w) \/ ClaimLosesConnection(w) \/ RunTheChecks(w)
            PROVE  MadeInv' /\ ClaimIsExclusive'
        <4>1. qaStart \subseteq qaStart' /\ UNCHANGED <<held, qaStop, bare>>
          BY <3>5 DEF ClaimThrows, ClaimLosesConnection, RunTheChecks
        <4> QED
          BY <3>2, <4>1
      <3>6. ASSUME NEW w \in Worker, NEW e \in Entry, LetGo(w, e), qaStart' = qaStart,
                   bare' = bare, qaStop' = qaStop \/ qaStop' = qaStop \cup {e}
            PROVE  MadeInv' /\ ClaimIsExclusive'
        <4>1. {e} \in SUBSET held[w]
          BY <3>6 DEF LetGo
        <4>2. \A v \in Worker : held'[v] = IF v = w THEN held[v] \ {e} ELSE held[v]
          BY <3>6 DEF LetGo
        <4> QED
          BY <3>6, <4>1, <4>2, LetGoKeepsClaims
      <3>7. ASSUME NEW w \in Worker, BeginFails(w) \/ RunChecksThrows(w)
            PROVE  MadeInv' /\ ClaimIsExclusive'
        BY <3>6, <3>7 DEF BeginFails, RunChecksThrows
      <3>8. ASSUME NEW w \in Worker, MarkDone(w) \/ MarkFails(w)
            PROVE  MadeInv' /\ ClaimIsExclusive'
        BY <3>6, <3>8 DEF MarkDone, MarkFails
      <3> QED
        BY <1>2, <3>1, <3>3, <3>4, <3>5, <3>7, <3>8 DEF ClaimNext
    <2> QED
      BY <2>1, <2>2, <2>3 DEF ExclusiveInv
  <1> QED
    BY <1>1, <1>2

\* For any number of kvQabased processes and entries, selectDataForControl gives an entry to
\* one of them, as long as its transaction is not lost on the way: what QaBase takes for
\* granted when it makes the claim one step.
THEOREM ClaimsAreExclusive == ClaimSpec => []ClaimIsExclusive
  <1>1. ClaimInit => AbortedInv
    BY DEF ClaimInit, AbortedInv
  <1>2. ExclusiveInv => ClaimIsExclusive /\ ClaimTypeOK
    BY DEF ExclusiveInv
  <1>3. ExclusiveInv /\ AbortedInv /\ [ClaimNext]_claimVars => AbortedInv'
    BY AbortedStep DEF ExclusiveInv
  <1> QED
    BY <1>1, <1>2, <1>3, ExclusiveInit, ExclusiveStep, PTL DEF ClaimSpec
=============================================================================
