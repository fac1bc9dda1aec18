------------------------- MODULE CheckRunner_proofs -------------------------
(* Proofs about CheckRunner: what a transaction has read stays as it is, so    *)
(* that its checks amount to one step on the data as it is at the commit.  A   *)
(* worker that has lost its transaction disturbs no other worker's reads.      *)
EXTENDS CheckRunner, TLAPS

Early == {"idle", "pin", "params", "select"}

Checking == {"check", "query", "run"}

Ending == {"complete", "commit"}

\* Observationids grow, and two workers never check the same id.
IdInv ==
    /\ \A o \in Obs : row[o].id < nextId
    /\ \A w \in Worker : jobId[w] < nextId
    /\ \A v, w \in Worker : v # w /\ jobId[v] # 0 => jobId[v] # jobId[w]

\* What there is at each place of newObservation, with or without a transaction.
PhaseInv(w) ==
    /\ pc[w] = "idle" <=> jobId[w] = 0
    /\ pc[w] = "idle" => w \notin adrift
    /\ pc[w] \notin {"fetch", "query"} => got[w] = {} /\ want[w] = NoIds
    /\ pc[w] \in {"idle", "pin"} => fetched[w] = NoIds
    /\ pc[w] \in {"params", "select", "fetch"} => \A o \in Obs \ {job[w]} : fetched[w][o] = 0
    /\ pc[w] \in Early \cup {"fetch"} => data[w] = {} /\ saved[w] = {} /\ value[w] = [o \in Obs |-> {}]
    /\ pc[w] \in {"query", "run"} => step[w] <= NChecks
    /\ pc[w] \in Checking => job[w] \in saved[w]
    /\ pc[w] \in Ending /\ job[w] \notin saved[w] => saved[w] = {}
    /\ pc[w] = "commit" /\ job[w] \in saved[w]
           => out[w] = {<<o, fetched[w][o], value[w][o]>> : o \in saved[w]}

\* The rows of the running SELECT are locked.  In a transaction, rows that were read stay
\* locked and unchanged, and pins and reads agree after the fetch.
ReadInv(w) ==
    \A o \in Obs :
        /\ o \in got[w] => lock[o] = w /\ row[o].id # 0
        /\ o \in data[w] \cup saved[w] => fetched[w][o] # 0
        /\ w \notin adrift =>
              /\ o \in data[w] \cup saved[w]
                     => lock[o] = w /\ row[o] = cache[w][o] /\ fetched[w][o] = row[o].id
              /\ pc[w] \in Checking /\ fetched[w][o] # 0 => lock[o] = w /\ row[o].id = fetched[w][o]

\* What will be written in a transaction: the own row with the marks of this run alone,
\* rows nearby with marks added.
SaveInv(w) ==
    w \notin adrift =>
        /\ job[w] \in saved[w]
               => value[w][job[w]] \subseteq Atomic!MarksBy(job[w]) /\ ~cache[w][job[w]].hqc
        /\ \A o \in saved[w] \ {job[w]} :
              /\ o \in near[job[w]]
              /\ \E m \in SUBSET Atomic!MarksBy(job[w]) : value[w][o] = cache[w][o].marks \cup m

WorkerInv(w) == PhaseInv(w) /\ ReadInv(w) /\ SaveInv(w)

CheckInv == CheckTypeOK /\ IdInv /\ \A w \in Worker : WorkerInv(w)

----------------------------------------------------------------------------
(* Types *)

\* There is an observation, and nothing is flagged in a row that has not been read.
LEMMA ConstantFacts ==
    /\ NoJob \in Obs /\ NoIds \in [Obs -> 0..MaxId]
    /\ NoRow \in Atomic!Row
    /\ MaxId \in Nat /\ NChecks \in Nat /\ MaxFaults \in Nat
    /\ SerializeLimit \in Nat \ {0} /\ AbortLimit \in Nat
    /\ "free" \notin Worker
  <1>1. NoJob \in Obs
    BY CheckRunnerAssumption DEF NoJob
  <1>2. NoRow \in Atomic!Row /\ NoIds \in [Obs -> 0..MaxId]
    BY CheckRunnerAssumption DEF NoRow, NoIds, Atomic!Row
  <1> QED
    BY <1>1, <1>2, CheckRunnerAssumption

\* The caches and what was saved are forgotten.
ForgottenTypes ==
    /\ want \in [Worker -> [Obs -> 0..MaxId]] /\ got \in [Worker -> SUBSET Obs]
    /\ fetched \in [Worker -> [Obs -> 0..MaxId]]
    /\ cache \in [Worker -> [Obs -> Atomic!Row]] /\ data \in [Worker -> SUBSET Obs]
    /\ span \in [Worker -> Int] /\ textSpan \in [Worker -> Int]
    /\ step \in [Worker -> 1..(NChecks + 1)]
    /\ saved \in [Worker -> SUBSET Obs] /\ value \in [Worker -> [Obs -> SUBSET Atomic!Mark]]
    /\ adrift \subseteq Worker /\ written \in [Worker -> SUBSET Obs]

\* Forgetting keeps the types of what is forgotten.
LEMMA ForgetTypes ==
    ASSUME CheckTypeOK, NEW w \in Worker, Forget(w)
    PROVE  ForgottenTypes'
  <1>1. want' \in [Worker -> [Obs -> 0..MaxId]] /\ got' \in [Worker -> SUBSET Obs]
    BY ConstantFacts DEF CheckTypeOK, Forget
  <1>2. fetched' \in [Worker -> [Obs -> 0..MaxId]] /\ data' \in [Worker -> SUBSET Obs]
    BY ConstantFacts DEF CheckTypeOK, Forget
  <1>3. cache' \in [Worker -> [Obs -> Atomic!Row]]
    BY ConstantFacts DEF CheckTypeOK, Forget
  <1>4. span' \in [Worker -> Int] /\ textSpan' \in [Worker -> Int]
    BY DEF CheckTypeOK, Forget
  <1>5. step' \in [Worker -> 1..(NChecks + 1)] /\ saved' \in [Worker -> SUBSET Obs]
    BY ConstantFacts DEF CheckTypeOK, Forget
  <1>6. value' \in [Worker -> [Obs -> SUBSET Atomic!Mark]]
    BY DEF CheckTypeOK, Forget
  <1>7. adrift' \subseteq Worker /\ written' \in [Worker -> SUBSET Obs]
    BY DEF CheckTypeOK, Forget
  <1> QED
    BY <1>1, <1>2, <1>3, <1>4, <1>5, <1>6, <1>7 DEF ForgottenTypes

\* The end of a transaction, with or without a result.
LEMMA EndTypes ==
    ASSUME CheckTypeOK, NEW w \in Worker, Forget(w), lock' = Unlocked(w),
           out' = [out EXCEPT ![w] = {}], nextId' = nextId, fetchedText' = fetchedText,
           row' \in [Obs -> Atomic!Row], done' \subseteq Id, faults' \in 0..MaxFaults,
           pc' \in [Worker -> Pc], job' \in [Worker -> Obs], jobId' \in [Worker -> 0..MaxId],
           serial' \in [Worker -> 0..SerializeLimit], aborts' \in [Worker -> 0..AbortLimit]
    PROVE  CheckTypeOK'
  <1>1. ForgottenTypes'
    BY ForgetTypes
  <1>2. lock' \in [Obs -> Worker \cup {"free"}]
    BY DEF CheckTypeOK, Unlocked
  <1>3. out' \in [Worker -> SUBSET (Obs \X Id \X SUBSET Atomic!Mark)]
    BY DEF CheckTypeOK
  <1>4. nextId' \in 1..(MaxId + 1) /\ fetchedText' \in [Worker -> [Obs -> 0..MaxId]]
    BY DEF CheckTypeOK
  <1> QED
    BY <1>1, <1>2, <1>3, <1>4 DEF CheckTypeOK, ForgottenTypes

\* newObservation is left.
LEMMA IdleTypes ==
    ASSUME CheckTypeOK, NEW w \in Worker, Idle(w)
    PROVE  /\ pc' \in [Worker -> Pc] /\ job' \in [Worker -> Obs] /\ jobId' \in [Worker -> 0..MaxId]
           /\ serial' \in [Worker -> 0..SerializeLimit] /\ aborts' \in [Worker -> 0..AbortLimit]
  BY ConstantFacts DEF CheckTypeOK, Idle, Pc

\* Rollback, followed by the next attempt or an exception.
LEMMA RetryTypes ==
    ASSUME CheckTypeOK, NEW w \in Worker, faults' \in 0..MaxFaults,
           SerializeError(w) \/ Aborted(w) \/ Throw(w)
    PROVE  CheckTypeOK'
  <1>1. ASSUME Rollback(w), pc' \in [Worker -> Pc], job' \in [Worker -> Obs],
               jobId' \in [Worker -> 0..MaxId],
               serial' \in [Worker -> 0..SerializeLimit], aborts' \in [Worker -> 0..AbortLimit]
        PROVE  CheckTypeOK'
    <2>1. row' \in [Obs -> Atomic!Row] /\ done' \subseteq Id
      BY <1>1 DEF Rollback, CheckTypeOK
    <2> QED
      BY <1>1, <2>1, EndTypes DEF Rollback
  <1>2. CASE Throw(w)
    BY <1>1, <1>2, IdleTypes DEF Throw
  <1>3. CASE SerializeError(w) /\ ~Throw(w)
    <2>1. /\ serial[w] + 1 < SerializeLimit /\ Rollback(w)
          /\ serial' = [serial EXCEPT ![w] = @ + 1] /\ pc' = [pc EXCEPT ![w] = "pin"]
          /\ UNCHANGED <<job, jobId, aborts>>
      BY <1>3 DEF SerializeError
    <2> QED
      BY <1>1, <2>1, ConstantFacts DEF CheckTypeOK, Pc
  <1>4. CASE Aborted(w) /\ ~Throw(w)
    <2>1. /\ aborts[w] < AbortLimit /\ Rollback(w)
          /\ aborts' = [aborts EXCEPT ![w] = @ + 1] /\ serial' = [serial EXCEPT ![w] = 0]
          /\ pc' = [pc EXCEPT ![w] = "pin"] /\ UNCHANGED <<job, jobId>>
      BY <1>4 DEF Aborted
    <2> QED
      BY <1>1, <2>1, ConstantFacts DEF CheckTypeOK, Pc
  <1> QED
    BY <1>2, <1>3, <1>4

\* Every step keeps the types.  A script flags as one of the checks, and what is written or
\* handed on has an observationid: for this the rest of the invariant is needed.
LEMMA TypeStep == CheckInv /\ [CheckNext]_vars => CheckTypeOK'
  <1> SUFFICES ASSUME CheckInv, [CheckNext]_vars PROVE CheckTypeOK'
    OBVIOUS
  <1> USE DEF dbVars, readVars, saveVars, retryVars, connVars
  <1>1. CheckTypeOK
    BY DEF CheckInv
  <1>2. ASSUME NEW o \in Obs, StoreObservation(o) PROVE CheckTypeOK'
    <2>1. PICK h \in BOOLEAN, m \in {{}, row[o].marks} :
              row' = [row EXCEPT ![o] = [id |-> nextId, marks |-> m, hqc |-> h]]
      BY <1>2 DEF StoreObservation
    <2>2. [id |-> nextId, marks |-> m, hqc |-> h] \in Atomic!Row
      BY <1>1, <1>2 DEF StoreObservation, CheckTypeOK, Atomic!Row
    <2>3. row' \in [Obs -> Atomic!Row] /\ nextId' \in 1..(MaxId + 1)
      BY <1>1, <1>2, <2>1, <2>2, ConstantFacts DEF StoreObservation, CheckTypeOK
    <2> QED
      BY <1>1, <1>2, <2>3 DEF StoreObservation, CheckTypeOK
  <1>3. ASSUME NEW w \in Worker, NEW o \in Obs, NewObservation(w, o) PROVE CheckTypeOK'
    BY <1>1, <1>3 DEF NewObservation, CheckTypeOK, Pc, Atomic!Row
  <1>4. ASSUME NEW w \in Worker, Pin(w) PROVE CheckTypeOK'
    <2>1. fetched' \in [Worker -> [Obs -> 0..MaxId]] /\ pc' \in [Worker -> Pc]
      BY <1>1, <1>4 DEF Pin, CheckTypeOK, Pc
    <2> QED
      BY <1>1, <1>4, <2>1 DEF Pin, CheckTypeOK
  <1>5. ASSUME NEW w \in Worker, Return(w), row' \in [Obs -> Atomic!Row], pc[w] # "idle"
        PROVE  CheckTypeOK'
    <2>1. jobId[w] \in Id
      BY <1>1, <1>5, ConstantFacts DEF CheckTypeOK, CheckInv, WorkerInv, PhaseInv, Id
    <2>2. done' \subseteq Id
      BY <1>1, <1>5, <2>1 DEF Return, CheckTypeOK
    <2> QED
      BY <1>1, <1>5, <2>2, EndTypes, IdleTypes DEF Return, CheckTypeOK
  <1>6. ASSUME NEW w \in Worker, PinFails(w) \/ HqcCorrected(w) \/ EndAdrift(w) PROVE CheckTypeOK'
    BY <1>1, <1>5, <1>6 DEF PinFails, HqcCorrected, EndAdrift, CheckTypeOK
  <1>7. ASSUME NEW w \in Worker, GetParametersToCheck(w) \/ NoParametersToCheck(w) PROVE CheckTypeOK'
    BY <1>1, <1>7 DEF GetParametersToCheck, NoParametersToCheck, CheckTypeOK, Pc
  <1>8. ASSUME NEW w \in Worker, NEW S, Select(w, S)
        PROVE  want' \in [Worker -> [Obs -> 0..MaxId]] /\ got' \in [Worker -> SUBSET Obs]
    <2>1. [o \in Obs |-> IF o \in S THEN row[o].id ELSE 0] \in [Obs -> 0..MaxId]
      BY <1>1, ConstantFacts DEF CheckTypeOK, Atomic!Row
    <2> QED
      BY <1>1, <1>8, <2>1 DEF Select, CheckTypeOK
  <1>9. ASSUME NEW w \in Worker, SelectObservation(w) PROVE CheckTypeOK'
    <2>1. want' \in [Worker -> [Obs -> 0..MaxId]] /\ got' \in [Worker -> SUBSET Obs]
      BY <1>8, <1>9 DEF SelectObservation
    <2> QED
      BY <1>1, <1>9, <2>1 DEF SelectObservation, CheckTypeOK, Pc
  <1>10. ASSUME NEW w \in Worker, StartCheck(w) PROVE CheckTypeOK'
    <2>1. want' \in [Worker -> [Obs -> 0..MaxId]] /\ got' \in [Worker -> SUBSET Obs]
      BY <1>1, <1>8, <1>10 DEF StartCheck, CheckTypeOK
    <2> QED
      BY <1>1, <1>10, <2>1 DEF StartCheck, CheckTypeOK, Pc
  <1>11. ASSUME NEW w \in Worker, NEW o \in Obs, GetRow(w, o) PROVE CheckTypeOK'
    <2>1. /\ want' \in [Worker -> [Obs -> 0..MaxId]] /\ got' \in [Worker -> SUBSET Obs]
          /\ lock' \in [Obs -> Worker \cup {"free"}]
      BY <1>1, <1>11, ConstantFacts DEF GetRow, LockRow, CheckTypeOK
    <2> QED
      BY <1>1, <1>11, <2>1 DEF GetRow, CheckTypeOK
  <1>12. ASSUME NEW w \in Worker, NEW o \in Obs, SkipRow(w, o) PROVE CheckTypeOK'
    <2>1. want' \in [Worker -> [Obs -> 0..MaxId]]
      BY <1>1, <1>12, ConstantFacts DEF SkipRow, CheckTypeOK
    <2> QED
      BY <1>1, <1>12, <2>1 DEF SkipRow, CheckTypeOK
  <1>22. ASSUME NEW w \in Worker, EndSelect(w)
         PROVE  got' \in [Worker -> SUBSET Obs] /\ lock' \in [Obs -> Worker \cup {"free"}]
    BY <1>1, <1>22 DEF EndSelect, Unlocked, CheckTypeOK
  <1>23. ASSUME NEW w \in Worker, NEW S, StoreFetched(w, S)
         PROVE  fetched' \in [Worker -> [Obs -> 0..MaxId]]
    <2>1. [o \in Obs |-> IF o \in S THEN row[o].id ELSE fetched[w][o]] \in [Obs -> 0..MaxId]
      BY <1>1, ConstantFacts DEF CheckTypeOK, Atomic!Row
    <2> QED
      BY <1>1, <1>23, <2>1 DEF StoreFetched, CheckTypeOK
  <1>13. ASSUME NEW w \in Worker, NEW b \in Int, CacheData(w, b)
         PROVE  /\ fetched' \in [Worker -> [Obs -> 0..MaxId]] /\ data' \in [Worker -> SUBSET Obs]
                /\ span' \in [Worker -> Int] /\ cache' \in [Worker -> [Obs -> Atomic!Row]]
                /\ got' \in [Worker -> SUBSET Obs] /\ lock' \in [Obs -> Worker \cup {"free"}]
    <2>1. fetched' \in [Worker -> [Obs -> 0..MaxId]]
      BY <1>13, <1>23 DEF CacheData
    <2>2. FilterType(got[w], typeid[job[w]]) \subseteq Obs
      BY <1>1 DEF FilterType, CheckTypeOK
    <2>3. cache' \in [Worker -> [Obs -> Atomic!Row]]
      <3>1. [o \in Obs |-> IF o \in got[w] THEN row[o] ELSE cache[w][o]] \in [Obs -> Atomic!Row]
        BY <1>1 DEF CheckTypeOK
      <3> QED
        BY <1>1, <1>13, <3>1 DEF CacheData, CheckTypeOK
    <2>4. data' \in [Worker -> SUBSET Obs] /\ span' \in [Worker -> Int]
      BY <1>1, <1>13, <2>2 DEF CacheData, CheckTypeOK
    <2> QED
      BY <1>13, <1>22, <2>1, <2>3, <2>4 DEF CacheData
  <1>14. ASSUME NEW w \in Worker, FetchObservation(w) PROVE CheckTypeOK'
    <2>1. /\ fetched' \in [Worker -> [Obs -> 0..MaxId]] /\ data' \in [Worker -> SUBSET Obs]
          /\ span' \in [Worker -> Int] /\ cache' \in [Worker -> [Obs -> Atomic!Row]]
          /\ got' \in [Worker -> SUBSET Obs] /\ lock' \in [Obs -> Worker \cup {"free"}]
      BY <1>13, <1>14 DEF FetchObservation
    <2>2. saved' \in [Worker -> SUBSET Obs] /\ pc' \in [Worker -> Pc]
      BY <1>1, <1>14 DEF FetchObservation, CheckTypeOK, Pc
    <2> QED
      BY <1>1, <1>14, <2>1, <2>2 DEF FetchObservation, CheckTypeOK
  <1>15. ASSUME NEW w \in Worker, GetData(w) PROVE CheckTypeOK'
    <2>1. step[w] \in 1..NChecks
      BY <1>1, <1>15, ConstantFacts DEF GetData, CheckTypeOK, CheckInv, WorkerInv, PhaseInv
    <2>2. back[step[w]] \in Int
      BY <2>1, CheckRunnerAssumption
    <2>3. /\ fetched' \in [Worker -> [Obs -> 0..MaxId]] /\ data' \in [Worker -> SUBSET Obs]
          /\ span' \in [Worker -> Int] /\ cache' \in [Worker -> [Obs -> Atomic!Row]]
          /\ got' \in [Worker -> SUBSET Obs] /\ lock' \in [Obs -> Worker \cup {"free"}]
      BY <1>13, <1>15, <2>2 DEF GetData
    <2> QED
      BY <1>1, <1>15, <2>3 DEF GetData, CheckTypeOK, Pc
  <1>16. ASSUME NEW w \in Worker, RunCheck(w) PROVE CheckTypeOK'
    <2>1. step[w] \in 1..NChecks
      BY <1>1, <1>16, ConstantFacts DEF RunCheck, CheckTypeOK, CheckInv, WorkerInv, PhaseInv
    <2>2. back[step[w]] \in Int
      BY <2>1, CheckRunnerAssumption
    <2>3. PICK S \in SUBSET (data[w] \cap Within(job[w], back[step[w]])) :
              /\ saved' = [saved EXCEPT ![w] = @ \cup S]
              /\ value' = [value EXCEPT ![w] = Marked(w, S)]
      BY <1>16 DEF RunCheck
    <2>4. <<step[w], job[w]>> \in Atomic!Mark
      BY <1>1, <2>1 DEF CheckTypeOK, Atomic!Mark
    <2>5. \A o \in Obs : Marks(w, o) \in SUBSET Atomic!Mark
      BY <1>1 DEF CheckTypeOK, Marks, Atomic!Row
    <2>6. Marked(w, S) \in [Obs -> SUBSET Atomic!Mark]
      <3>1. \A o \in Obs : Marks(w, o) \cup {<<step[w], job[w]>>} \in SUBSET Atomic!Mark
        BY <2>4, <2>5
      <3>2. \A o \in Obs : value[w][o] \in SUBSET Atomic!Mark
        BY <1>1 DEF CheckTypeOK
      <3> QED
        BY <3>1, <3>2 DEF Marked
    <2>7. saved' \in [Worker -> SUBSET Obs] /\ value' \in [Worker -> [Obs -> SUBSET Atomic!Mark]]
      BY <1>1, <2>3, <2>6 DEF CheckTypeOK
    <2>8. step' \in [Worker -> 1..(NChecks + 1)] /\ pc' \in [Worker -> Pc]
      BY <1>1, <1>16, <2>1, ConstantFacts DEF CheckTypeOK, RunCheck, Pc
    <2>9. textSpan' \in [Worker -> Int]
      BY <1>1, <1>16, <2>2 DEF CheckTypeOK, RunCheck
    <2>10. [o \in Obs |-> IF o \in TextRead(w) THEN row[o].id ELSE fetchedText[w][o]] \in [Obs -> 0..MaxId]
      BY <1>1 DEF CheckTypeOK, Atomic!Row
    <2>11. fetchedText' \in [Worker -> [Obs -> 0..MaxId]]
      BY <1>1, <1>16, <2>10 DEF CheckTypeOK, RunCheck
    <2> QED
      BY <1>1, <1>16, <2>7, <2>8, <2>9, <2>11 DEF RunCheck, CheckTypeOK
  <1>17. ASSUME NEW w \in Worker, SkipCheck(w) PROVE CheckTypeOK'
    <2>1. step[w] \in 1..NChecks
      BY <1>1, <1>17, ConstantFacts DEF SkipCheck, CheckTypeOK, CheckInv, WorkerInv, PhaseInv
    <2>2. step' \in [Worker -> 1..(NChecks + 1)] /\ pc' \in [Worker -> Pc]
      BY <1>1, <1>17, <2>1, ConstantFacts DEF CheckTypeOK, SkipCheck, Pc
    <2>3. PICK S : fetchedText' = [fetchedText EXCEPT ![w] =
                                      [o \in Obs |-> IF o \in S THEN row[o].id ELSE @[o]]]
      BY <1>17 DEF SkipCheck
    <2>4. [o \in Obs |-> IF o \in S THEN row[o].id ELSE fetchedText[w][o]] \in [Obs -> 0..MaxId]
      BY <1>1 DEF CheckTypeOK, Atomic!Row
    <2>5. fetchedText' \in [Worker -> [Obs -> 0..MaxId]]
      BY <1>1, <2>3, <2>4 DEF CheckTypeOK
    <2> QED
      BY <1>1, <1>17, <2>2, <2>5 DEF SkipCheck, CheckTypeOK
  <1>24. ASSUME NEW w \in Worker, SkipQuery(w) PROVE CheckTypeOK'
    <2>1. step[w] \in 1..NChecks
      BY <1>1, <1>24, ConstantFacts DEF SkipQuery, CheckTypeOK, CheckInv, WorkerInv, PhaseInv
    <2>2. step' \in [Worker -> 1..(NChecks + 1)] /\ pc' \in [Worker -> Pc]
      BY <1>1, <1>24, <2>1, ConstantFacts DEF CheckTypeOK, SkipQuery, Pc
    <2>3. fetched' \in [Worker -> [Obs -> 0..MaxId]]
      BY <1>23, <1>24 DEF SkipQuery
    <2>4. got' \in [Worker -> SUBSET Obs] /\ lock' \in [Obs -> Worker \cup {"free"}]
      BY <1>22, <1>24 DEF SkipQuery
    <2> QED
      BY <1>1, <1>24, <2>2, <2>3, <2>4 DEF SkipQuery, CheckTypeOK
  <1>18. ASSUME NEW w \in Worker, Complete(w) PROVE CheckTypeOK'
    <2>1. \A o \in saved[w] : fetched[w][o] \in Id
      BY <1>1 DEF CheckTypeOK, CheckInv, WorkerInv, ReadInv, Atomic!Row, Id
    <2>2. jobId[w] \in Id
      BY <1>1, <1>18 DEF CheckTypeOK, Complete, CheckInv, WorkerInv, PhaseInv, Id
    <2>3. CompleteOwn(w) \subseteq Obs \X Id \X SUBSET Atomic!Mark
      BY <1>1, <2>2 DEF CompleteOwn, CheckTypeOK, Atomic!Row
    <2>4. Message(w) \subseteq Obs \X Id \X SUBSET Atomic!Mark
      BY <1>1, <2>1, <2>3 DEF Message, CheckTypeOK
    <2> QED
      BY <1>1, <1>18, <2>4 DEF Complete, CheckTypeOK, Pc
  <1>19. ASSUME NEW w \in Worker, Commit(w) PROVE CheckTypeOK'
    <2>1. row' \in [Obs -> Atomic!Row]
      <3>1. ASSUME NEW o \in Obs PROVE [row[o] EXCEPT !.marks = value[w][o]] \in Atomic!Row
        <4>1. row[o] \in Atomic!Row /\ value[w][o] \in SUBSET Atomic!Mark
          BY <1>1 DEF CheckTypeOK
        <4> QED
          BY <4>1 DEF Atomic!Row
      <3> QED
        BY <1>1, <1>19, <3>1 DEF Commit, CheckTypeOK
    <2> QED
      BY <1>5, <1>19, <2>1 DEF Commit
  <1>25. ASSUME NEW w \in Worker, NEW o \in Obs, WriteAdrift(w, o) PROVE CheckTypeOK'
    <2>1. [row[o] EXCEPT !.marks = value[w][o]] \in Atomic!Row
      <3>1. row[o] \in Atomic!Row /\ value[w][o] \in SUBSET Atomic!Mark
        BY <1>1 DEF CheckTypeOK
      <3> QED
        BY <3>1 DEF Atomic!Row
    <2>2. row' \in [Obs -> Atomic!Row]
      BY <1>1, <1>25, <2>1 DEF WriteAdrift, CheckTypeOK
    <2>3. written' \in [Worker -> SUBSET Obs]
      BY <1>1, <1>25 DEF WriteAdrift, CheckTypeOK
    <2> QED
      BY <1>1, <1>25, <2>2, <2>3 DEF WriteAdrift, CheckTypeOK
  <1>26. ASSUME NEW w \in Worker, LoseConnection(w) PROVE CheckTypeOK'
    <2>1. /\ want' \in [Worker -> [Obs -> 0..MaxId]] /\ got' \in [Worker -> SUBSET Obs]
          /\ lock' \in [Obs -> Worker \cup {"free"}]
      BY <1>1, <1>26, ConstantFacts DEF LoseConnection, Unlocked, CheckTypeOK
    <2>2. pc' \in [Worker -> Pc] /\ faults' \in 0..MaxFaults
      BY <1>1, <1>26, ConstantFacts DEF LoseConnection, CheckTypeOK, Pc
    <2>3. adrift' \subseteq Worker /\ written' \in [Worker -> SUBSET Obs]
      BY <1>1, <1>26 DEF LoseConnection, CheckTypeOK
    <2> QED
      BY <1>1, <1>26, <2>1, <2>2, <2>3 DEF LoseConnection, CheckTypeOK
  <1>20. ASSUME NEW w \in Worker,
                DatabaseError(w) \/ DeadlockDetected(w) \/ PinConflict(w) \/ WriteFails(w)
         PROVE  CheckTypeOK'
    BY <1>1, <1>20, RetryTypes, ConstantFacts
       DEF DatabaseError, DeadlockDetected, PinConflict, WriteFails, CheckTypeOK
  <1>21. CASE UNCHANGED vars
    BY <1>1, <1>21 DEF vars, CheckTypeOK
  <1> QED
    BY <1>2, <1>3, <1>4, <1>6, <1>7, <1>9, <1>10, <1>11, <1>12, <1>14, <1>15, <1>16, <1>17,
       <1>18, <1>19, <1>20, <1>21, <1>24, <1>25, <1>26 DEF CheckNext, WorkerStep

----------------------------------------------------------------------------
(* A step of somebody else *)

\* The variables of v's process, as far as the invariant speaks of them.
LocalsKept(v) ==
    /\ pc'[v] = pc[v] /\ job'[v] = job[v] /\ jobId'[v] = jobId[v]
    /\ want'[v] = want[v] /\ got'[v] = got[v] /\ fetched'[v] = fetched[v] /\ cache'[v] = cache[v]
    /\ data'[v] = data[v] /\ step'[v] = step[v]
    /\ saved'[v] = saved[v] /\ value'[v] = value[v] /\ out'[v] = out[v]
    /\ v \in adrift' <=> v \in adrift

\* A row that v has not locked may change.
LEMMA OtherKeeps ==
    ASSUME CheckInv, NEW v \in Worker, LocalsKept(v),
           \A o \in Obs : lock[o] = v => lock'[o] = v /\ row'[o] = row[o]
    PROVE  WorkerInv(v)'
  <1>1. CheckTypeOK /\ WorkerInv(v)
    BY DEF CheckInv
  <1>4. PhaseInv(v)'
    <2>1. PhaseInv(v)
      BY <1>1 DEF WorkerInv
    <2> QED
      BY <2>1 DEF LocalsKept, PhaseInv
  <1>5. ReadInv(v)'
    <2> SUFFICES ASSUME NEW o \in Obs
                 PROVE  /\ o \in got[v] => lock'[o] = v /\ row'[o].id # 0
                        /\ o \in data[v] \cup saved[v] => fetched[v][o] # 0
                        /\ v \notin adrift =>
                              /\ o \in data[v] \cup saved[v]
                                    => /\ lock'[o] = v /\ row'[o] = cache[v][o]
                                       /\ fetched[v][o] = row'[o].id
                              /\ pc[v] \in Checking /\ fetched[v][o] # 0
                                    => lock'[o] = v /\ row'[o].id = fetched[v][o]
      BY DEF LocalsKept, ReadInv
    <2> QED
      BY <1>1 DEF WorkerInv, ReadInv
  <1>6. SaveInv(v)'
    <2>1. SaveInv(v)
      BY <1>1 DEF WorkerInv
    <2>2. /\ pc'[v] = pc[v] /\ job'[v] = job[v] /\ fetched'[v] = fetched[v] /\ cache'[v] = cache[v]
          /\ saved'[v] = saved[v] /\ value'[v] = value[v] /\ (v \in adrift' <=> v \in adrift)
      BY DEF LocalsKept
    <2> QED
      BY <2>1, <2>2 DEF SaveInv
  <1> QED
    BY <1>4, <1>5, <1>6 DEF WorkerInv

----------------------------------------------------------------------------
(* A step of the worker itself *)

\* A transaction that has not read anything.
LEMMA FreshWorker ==
    ASSUME CheckTypeOK, NEW w \in Worker, Forget(w),
           pc' \in [Worker -> Pc], pc'[w] \in {"idle", "pin"}, pc'[w] = "idle" <=> jobId'[w] = 0
    PROVE  WorkerInv(w)'
  <1>1. /\ want'[w] = NoIds /\ got'[w] = {} /\ fetched'[w] = NoIds /\ data'[w] = {}
        /\ saved'[w] = {} /\ value'[w] = [o \in Obs |-> {}] /\ w \notin adrift'
    BY DEF Forget, CheckTypeOK
  <1>2. PhaseInv(w)'
    BY <1>1 DEF PhaseInv, Checking, Ending
  <1>3. ReadInv(w)'
    BY <1>1 DEF ReadInv, Checking, Ending
  <1>4. SaveInv(w)'
    BY <1>1 DEF SaveInv
  <1> QED
    BY <1>2, <1>3, <1>4 DEF WorkerInv

\* The filter keeps the observation whose type is asked for, if it was read.
LEMMA FilterKeeps ==
    ASSUME NEW S \in SUBSET Obs, NEW o \in Obs
    PROVE  /\ FilterType(S, typeid[o]) \subseteq S
           /\ o \in S => o \in FilterType(S, typeid[o])
  BY DEF FilterType

\* The beginning, up to the first SELECT.
LEMMA EarlySteps ==
    ASSUME CheckInv, NEW w \in Worker,
           (\E o \in Obs : NewObservation(w, o)) \/ Pin(w) \/ GetParametersToCheck(w)
               \/ NoParametersToCheck(w) \/ SelectObservation(w)
    PROVE  WorkerInv(w)'
  <1> USE DEF dbVars, readVars, saveVars, retryVars, connVars
  <1>1. CheckTypeOK /\ PhaseInv(w) /\ ReadInv(w) /\ SaveInv(w)
    BY DEF CheckInv, WorkerInv
  <1>2. ASSUME NEW o \in Obs, NewObservation(w, o) PROVE WorkerInv(w)'
    <2>1. /\ pc[w] = "idle" /\ pc'[w] = "pin" /\ jobId'[w] # 0
          /\ UNCHANGED <<want, got, fetched, data, saved, value, adrift>>
      BY <1>1, <1>2 DEF NewObservation, CheckTypeOK
    <2>2. PhaseInv(w)'
      BY <1>1, <2>1 DEF PhaseInv, Early, Checking, Ending
    <2>3. ReadInv(w)'
      BY <1>1, <2>1 DEF PhaseInv, ReadInv, Early, Checking, Ending
    <2>4. SaveInv(w)'
      BY <1>1, <2>1 DEF PhaseInv, SaveInv, Early
    <2> QED
      BY <2>2, <2>3, <2>4 DEF WorkerInv
  <1>3. CASE Pin(w)
    <2>1. /\ pc[w] = "pin" /\ pc'[w] = "params"
          /\ \A o \in Obs \ {job[w]} : fetched'[w][o] = fetched[w][o]
          /\ UNCHANGED <<job, jobId, want, got, data, saved, value, adrift>>
      BY <1>1, <1>3 DEF Pin, CheckTypeOK
    <2>2. PhaseInv(w)'
      BY <1>1, <2>1 DEF PhaseInv, Early, Checking, Ending, NoIds
    <2>3. ReadInv(w)'
      BY <1>1, <2>1 DEF PhaseInv, ReadInv, Early, Checking, Ending
    <2>4. SaveInv(w)'
      BY <1>1, <2>1 DEF PhaseInv, SaveInv, Early
    <2> QED
      BY <2>2, <2>3, <2>4 DEF WorkerInv
  <1>4. CASE GetParametersToCheck(w) \/ NoParametersToCheck(w)
    <2>1. /\ pc[w] = "params" /\ pc'[w] \in {"select", "complete"}
          /\ UNCHANGED <<row, job, jobId, want, got, fetched, data, saved, value, adrift>>
      BY <1>1, <1>4 DEF GetParametersToCheck, NoParametersToCheck, CheckTypeOK
    <2>2. PhaseInv(w)'
      BY <1>1, <2>1 DEF PhaseInv, Early, Checking, Ending
    <2>3. ReadInv(w)'
      BY <1>1, <2>1 DEF PhaseInv, ReadInv, Early, Checking, Ending
    <2>4. SaveInv(w)'
      BY <1>1, <2>1 DEF PhaseInv, SaveInv, Early
    <2> QED
      BY <2>2, <2>3, <2>4 DEF WorkerInv
  <1>5. CASE SelectObservation(w)
    <2>1. /\ pc[w] = "select" /\ pc'[w] = "fetch" /\ got'[w] = {}
          /\ UNCHANGED <<row, job, jobId, fetched, data, saved, value, adrift>>
      BY <1>1, <1>5 DEF SelectObservation, Select, CheckTypeOK
    <2>2. PhaseInv(w)'
      BY <1>1, <2>1 DEF PhaseInv, Early, Checking, Ending
    <2>3. ReadInv(w)'
      BY <1>1, <2>1 DEF PhaseInv, ReadInv, Early, Checking, Ending
    <2>4. SaveInv(w)'
      BY <1>1, <2>1 DEF PhaseInv, SaveInv, Early
    <2> QED
      BY <2>2, <2>3, <2>4 DEF WorkerInv
  <1> QED
    BY <1>2, <1>3, <1>4, <1>5

\* The rows of a SELECT.
LEMMA RowSteps ==
    ASSUME CheckInv, NEW w \in Worker, NEW p \in Obs, GetRow(w, p) \/ SkipRow(w, p)
    PROVE  WorkerInv(w)'
  <1> USE DEF dbVars, readVars, saveVars, retryVars, connVars
  <1>1. CheckTypeOK /\ PhaseInv(w) /\ ReadInv(w) /\ SaveInv(w)
    BY DEF CheckInv, WorkerInv
  <1>2. CASE GetRow(w, p)
    <2>1. /\ pc[w] \in {"fetch", "query"} /\ row[p].id # 0
          /\ UNCHANGED <<row, pc, job, jobId, fetched, cache, data, step, saved, value, adrift, out>>
      BY <1>2 DEF GetRow, LockRow
    <2>2. /\ lock'[p] = w /\ \A o \in Obs : lock[o] = w => lock'[o] = w
          /\ got'[w] = got[w] \cup {p}
      BY <1>1, <1>2 DEF GetRow, LockRow, CheckTypeOK
    <2>3. PhaseInv(w)'
      BY <1>1, <2>1 DEF PhaseInv, Early, Checking, Ending
    <2>4. ReadInv(w)'
      BY <1>1, <2>1, <2>2 DEF ReadInv
    <2>5. SaveInv(w)'
      BY <1>1, <2>1 DEF SaveInv
    <2> QED
      BY <2>3, <2>4, <2>5 DEF WorkerInv
  <1>3. CASE SkipRow(w, p)
    <2>1. /\ pc[w] \in {"fetch", "query"}
          /\ UNCHANGED <<row, lock, pc, job, jobId, got, cache, fetched, data, step, saved, value,
                         adrift, out>>
      BY <1>3 DEF SkipRow
    <2>2. PhaseInv(w)'
      BY <1>1, <2>1 DEF PhaseInv, Early, Checking, Ending
    <2>3. ReadInv(w)' /\ SaveInv(w)'
      BY <1>1, <2>1 DEF ReadInv, SaveInv
    <2> QED
      BY <2>2, <2>3 DEF WorkerInv
  <1> QED
    BY <1>2, <1>3

\* The end of getData, for the observation and for a check.  In a transaction a row that is
\* read again has not changed since it was locked.
LEMMA DataSteps ==
    ASSUME CheckInv, NEW w \in Worker,
           FetchObservation(w) \/ StartCheck(w) \/ GetData(w) \/ SkipQuery(w)
    PROVE  WorkerInv(w)'
  <1> USE DEF dbVars, readVars, saveVars, retryVars, connVars
  <1>1. CheckTypeOK /\ PhaseInv(w) /\ ReadInv(w) /\ SaveInv(w)
    BY DEF CheckInv, WorkerInv
  <1>2. job[w] \in Obs /\ got[w] \in SUBSET Obs
    BY <1>1 DEF CheckTypeOK
  <1>3. /\ FilterType(got[w], typeid[job[w]]) \subseteq got[w]
        /\ job[w] \in got[w] => job[w] \in FilterType(got[w], typeid[job[w]])
    BY <1>2, FilterKeeps
  <1>4. ASSUME NEW b, CacheData(w, b)
        PROVE  /\ data'[w] = FilterType(got[w], typeid[job[w]]) /\ got'[w] = {}
               /\ \A o \in Obs : fetched'[w][o] = IF o \in got[w] THEN row[o].id ELSE fetched[w][o]
               /\ \A o \in Obs : cache'[w][o] = IF o \in got[w] THEN row[o] ELSE cache[w][o]
               /\ w \notin adrift => lock' = lock
    <2>1. data'[w] = FilterType(got[w], typeid[job[w]]) /\ got'[w] = {} /\ (w \notin adrift => lock' = lock)
      BY <1>1, <1>4 DEF CacheData, EndSelect, CheckTypeOK
    <2>2. \A o \in Obs : fetched'[w][o] = IF o \in got[w] THEN row[o].id ELSE fetched[w][o]
      BY <1>1, <1>4 DEF CacheData, StoreFetched, CheckTypeOK
    <2>3. \A o \in Obs : cache'[w][o] = IF o \in got[w] THEN row[o] ELSE cache[w][o]
      BY <1>1, <1>4 DEF CacheData, CheckTypeOK
    <2> QED
      BY <2>1, <2>2, <2>3
  <1>5. CASE FetchObservation(w)
    <2>1. PICK own : /\ own = FilterType(got[w], typeid[job[w]]) \cap {job[w]}
                     /\ saved'[w] = own
                     /\ pc'[w] = IF own = {} THEN "complete" ELSE "check"
      BY <1>1, <1>5 DEF FetchObservation, CheckTypeOK
    <2>2. /\ pc[w] = "fetch" /\ want[w] = NoIds /\ ~IsHqcCorrected(w)
          /\ UNCHANGED <<row, job, jobId, want, value, adrift, out>>
      BY <1>5 DEF FetchObservation
    <2>3. CacheData(w, 0)
      BY <1>5 DEF FetchObservation
    <2>4. value[w] = [o \in Obs |-> {}] /\ \A o \in Obs \ {job[w]} : fetched[w][o] = 0
      BY <1>1, <2>2 DEF PhaseInv
    <2>5. PhaseInv(w)'
      BY <1>1, <1>4, <2>1, <2>2, <2>3 DEF PhaseInv, Early, Checking, Ending
    <2>6. ReadInv(w)'
      <3>1. data'[w] \cup saved'[w] \subseteq got[w] /\ got'[w] = {}
        BY <1>3, <1>4, <2>1, <2>3
      <3>2. pc'[w] \in Checking => job[w] \in got[w]
        BY <1>3, <2>1 DEF Checking
      <3>3. \A o \in Obs : /\ fetched'[w][o] = IF o \in got[w] THEN row[o].id ELSE fetched[w][o]
                           /\ cache'[w][o] = IF o \in got[w] THEN row[o] ELSE cache[w][o]
        BY <1>4, <2>3
      <3>4. row' = row /\ (w \in adrift' <=> w \in adrift) /\ (w \notin adrift => lock' = lock)
        BY <1>4, <2>2, <2>3
      <3> QED
        BY <1>1, <2>4, <3>1, <3>2, <3>3, <3>4 DEF ReadInv
    <2>7. SaveInv(w)'
      <3>1. saved'[w] \subseteq {job[w]} /\ value[w][job[w]] = {}
        BY <1>2, <2>1, <2>4
      <3>2. job[w] \in saved'[w] => ~cache'[w][job[w]].hqc
        BY <1>2, <1>3, <1>4, <2>1, <2>2, <2>3 DEF IsHqcCorrected
      <3> QED
        BY <2>2, <3>1, <3>2 DEF SaveInv
    <2> QED
      BY <2>5, <2>6, <2>7 DEF WorkerInv
  <1>6. CASE StartCheck(w)
    <2>1. /\ pc[w] = "check" /\ step[w] <= NChecks
          /\ \/ pc'[w] = "run" /\ UNCHANGED <<want, got>>
             \/ pc'[w] = "query"
          /\ got'[w] \in {got[w], {}}
          /\ UNCHANGED <<row, lock, job, jobId, fetched, cache, data, step, saved, value, adrift, out>>
      BY <1>1, <1>6 DEF StartCheck, Select, CheckTypeOK
    <2>2. PhaseInv(w)'
      BY <1>1, <2>1 DEF PhaseInv, Early, Checking, Ending
    <2>3. ReadInv(w)'
      BY <1>1, <2>1 DEF ReadInv, Checking
    <2>4. SaveInv(w)'
      BY <1>1, <2>1 DEF SaveInv
    <2> QED
      BY <2>2, <2>3, <2>4 DEF WorkerInv
  <1>7. CASE GetData(w)
    <2>1. /\ pc[w] = "query" /\ want[w] = NoIds /\ pc'[w] = "run" /\ ~Conflict(w)
          /\ UNCHANGED <<row, job, jobId, want, step, saved, value, adrift, out>>
      BY <1>1, <1>7 DEF GetData, CheckTypeOK
    <2>2. CacheData(w, back[step[w]])
      BY <1>7 DEF GetData
    <2>3. data'[w] \subseteq got[w] /\ got'[w] = {} /\ (w \notin adrift => lock' = lock)
      BY <1>3, <1>4, <2>2
    <2>4. \A o \in Obs : /\ fetched'[w][o] = IF o \in got[w] THEN row[o].id ELSE fetched[w][o]
                         /\ cache'[w][o] = IF o \in got[w] THEN row[o] ELSE cache[w][o]
      BY <1>4, <2>2
    <2>5. PhaseInv(w)'
      BY <1>1, <2>1, <2>3 DEF PhaseInv, Early, Checking, Ending
    <2>6. ReadInv(w)'
      BY <1>1, <2>1, <2>3, <2>4 DEF ReadInv, Checking
    <2>7. SaveInv(w)'
      <3>1. w \notin adrift => \A o \in saved[w] : cache'[w][o] = cache[w][o]
        BY <1>1, <2>4 DEF ReadInv, CheckTypeOK
      <3> QED
        BY <1>1, <2>1, <3>1 DEF SaveInv
    <2> QED
      BY <2>5, <2>6, <2>7 DEF WorkerInv
  <1>8. CASE SkipQuery(w)
    <2>1. /\ pc[w] = "query" /\ want[w] = NoIds /\ pc'[w] = "check" /\ got'[w] = {}
          /\ w \notin adrift => lock' = lock
          /\ UNCHANGED <<row, job, jobId, want, cache, data, saved, value, adrift, out>>
      BY <1>1, <1>8 DEF SkipQuery, EndSelect, CheckTypeOK
    <2>2. PICK S \in SUBSET {o \in got[w] : fetched[w][o] = 0} : StoreFetched(w, S)
      BY <1>8 DEF SkipQuery
    <2>3. \A o \in Obs : fetched'[w][o] = IF o \in S THEN row[o].id ELSE fetched[w][o]
      BY <1>1, <2>2 DEF StoreFetched, CheckTypeOK
    <2>4. PhaseInv(w)'
      BY <1>1, <2>1 DEF PhaseInv, Early, Checking, Ending
    <2>5. ReadInv(w)'
      BY <1>1, <2>1, <2>2, <2>3 DEF ReadInv, Checking
    <2>6. SaveInv(w)'
      BY <1>1, <2>1 DEF SaveInv
    <2> QED
      BY <2>4, <2>5, <2>6 DEF WorkerInv
  <1> QED
    BY <1>5, <1>6, <1>7, <1>8

\* A check runs or is left out.
LEMMA RunSteps ==
    ASSUME CheckInv, NEW w \in Worker, RunCheck(w) \/ SkipCheck(w)
    PROVE  WorkerInv(w)'
  <1> USE DEF dbVars, readVars, saveVars, retryVars, connVars
  <1>1. CheckTypeOK /\ PhaseInv(w) /\ ReadInv(w) /\ SaveInv(w)
    BY DEF CheckInv, WorkerInv
  <1>2. CASE RunCheck(w)
    <2>1. /\ pc[w] = "run" /\ pc'[w] = "check"
          /\ UNCHANGED <<row, lock, job, jobId, want, got, fetched, cache, data, adrift, out>>
      BY <1>1, <1>2 DEF RunCheck, CheckTypeOK
    <2>2. PICK S \in SUBSET (data[w] \cap Within(job[w], back[step[w]])) :
              saved'[w] = saved[w] \cup S /\ value'[w] = Marked(w, S)
      BY <1>1, <1>2 DEF RunCheck, CheckTypeOK
    <2>3. step[w] \in 1..NChecks /\ job[w] \in Obs /\ job[w] \in saved[w]
      BY <1>1, <2>1, ConstantFacts DEF PhaseInv, CheckTypeOK, Checking
    <2>4. <<step[w], job[w]>> \in Atomic!MarksBy(job[w])
      BY <2>3 DEF Atomic!MarksBy
    <2>5. Within(job[w], back[step[w]]) \subseteq near[job[w]]
      BY <2>3 DEF near
    <2>6. PhaseInv(w)'
      BY <1>1, <2>1, <2>2 DEF PhaseInv, Early, Checking, Ending
    <2>7. ReadInv(w)'
      BY <1>1, <2>1, <2>2 DEF ReadInv, Checking, Ending
    <2>8. SaveInv(w)'
      <3> SUFFICES ASSUME w \notin adrift PROVE SaveInv(w)'
        BY <2>1 DEF SaveInv
      <3>1. value'[w][job[w]] \subseteq Atomic!MarksBy(job[w])
        BY <1>1, <2>2, <2>3, <2>4 DEF SaveInv, Marked, Marks
      <3>2. ASSUME NEW o \in saved'[w] \ {job[w]}
            PROVE  /\ o \in near[job[w]]
                   /\ \E m \in SUBSET Atomic!MarksBy(job[w]) : value'[w][o] = cache[w][o].marks \cup m
        <4>1. o \in Obs
          BY <1>1, <2>2, <3>2 DEF CheckTypeOK
        <4>2. o \in near[job[w]]
          BY <1>1, <2>2, <2>5, <3>2 DEF SaveInv
        <4>3. PICK k \in SUBSET Atomic!MarksBy(job[w]) : Marks(w, o) = cache[w][o].marks \cup k
          <5>1. CASE o \in saved[w]
            BY <1>1, <3>2, <5>1 DEF SaveInv, Marks
          <5>2. CASE o \notin saved[w]
            <6>1. cache[w][o].marks \in SUBSET Atomic!Mark
              BY <1>1, <4>1 DEF CheckTypeOK, Atomic!Row
            <6>2. Marks(w, o) = cache[w][o].marks \cup {} /\ {} \in SUBSET Atomic!MarksBy(job[w])
              BY <5>2, <6>1 DEF Marks
            <6> QED
              BY <6>2
          <5> QED
            BY <5>1, <5>2
        <4>4. CASE o \in S
          <5>1. k \cup {<<step[w], job[w]>>} \in SUBSET Atomic!MarksBy(job[w])
            BY <2>4
          <5>2. value'[w][o] = cache[w][o].marks \cup (k \cup {<<step[w], job[w]>>})
            BY <2>2, <4>1, <4>3, <4>4 DEF Marked
          <5> QED
            BY <4>2, <5>1, <5>2
        <4>5. CASE o \notin S
          BY <2>2, <3>2, <4>1, <4>2, <4>3, <4>5 DEF Marked, Marks
        <4> QED
          BY <4>4, <4>5
      <3> QED
        BY <1>1, <2>1, <2>3, <3>1, <3>2 DEF SaveInv
    <2> QED
      BY <2>6, <2>7, <2>8 DEF WorkerInv
  <1>3. CASE SkipCheck(w)
    <2>1. /\ pc[w] = "run" /\ pc'[w] = "check"
          /\ UNCHANGED <<row, lock, job, jobId, want, got, fetched, cache, data, saved, value,
                         adrift, out>>
      BY <1>1, <1>3 DEF SkipCheck, CheckTypeOK
    <2>2. PhaseInv(w)'
      BY <1>1, <2>1 DEF PhaseInv, Early, Checking, Ending
    <2>3. ReadInv(w)'
      BY <1>1, <2>1 DEF ReadInv, Checking, Ending
    <2>4. SaveInv(w)'
      BY <1>1, <2>1 DEF SaveInv
    <2> QED
      BY <2>2, <2>3, <2>4 DEF WorkerInv
  <1> QED
    BY <1>2, <1>3

\* complete, commit and every other end of a transaction.
LEMMA EndSteps ==
    ASSUME CheckInv, NEW w \in Worker,
           Complete(w) \/ Commit(w) \/ PinFails(w) \/ HqcCorrected(w) \/ EndAdrift(w)
               \/ SerializeError(w) \/ Aborted(w) \/ Throw(w), pc[w] # "idle"
    PROVE  WorkerInv(w)'
  <1> USE DEF dbVars, readVars, saveVars, retryVars, connVars
  <1>1. CheckTypeOK /\ PhaseInv(w) /\ ReadInv(w) /\ SaveInv(w)
    BY DEF CheckInv, WorkerInv
  <1>2. CASE Complete(w)
    <2>1. /\ pc[w] \in {"complete", "check"} /\ pc'[w] = "commit" /\ out'[w] = Message(w)
          /\ UNCHANGED <<row, lock, job, jobId, want, got, fetched, cache, data, step, saved, value,
                         adrift>>
      BY <1>1, <1>2 DEF Complete, CheckTypeOK
    <2>2. job[w] \in saved[w] => Message(w) = {<<o, fetched[w][o], value[w][o]>> : o \in saved[w]}
      BY DEF Message
    <2>3. PhaseInv(w)'
      <3>1. job[w] \in saved[w] => out'[w] = {<<o, fetched'[w][o], value'[w][o]>> : o \in saved'[w]}
        BY <2>1, <2>2
      <3> QED
        BY <1>1, <2>1, <3>1 DEF PhaseInv, Early, Checking, Ending
    <2>4. ReadInv(w)'
      BY <1>1, <2>1 DEF ReadInv, Checking
    <2>5. SaveInv(w)'
      BY <1>1, <2>1 DEF SaveInv
    <2> QED
      BY <2>3, <2>4, <2>5 DEF WorkerInv
  <1>3. ASSUME Forget(w), Idle(w) PROVE WorkerInv(w)'
    <2>1. pc' \in [Worker -> Pc] /\ pc'[w] = "idle" /\ jobId'[w] = 0
      BY <1>1, <1>3, IdleTypes DEF Idle, CheckTypeOK
    <2> QED
      BY <1>1, <1>3, <2>1, FreshWorker
  <1>4. CASE Commit(w) \/ PinFails(w) \/ HqcCorrected(w) \/ EndAdrift(w)
    BY <1>3, <1>4 DEF Commit, PinFails, HqcCorrected, EndAdrift, Return
  <1>5. CASE Throw(w)
    BY <1>3, <1>5 DEF Throw, Rollback
  <1>6. CASE (SerializeError(w) \/ Aborted(w)) /\ ~Throw(w)
    <2>1. Forget(w) /\ pc' = [pc EXCEPT ![w] = "pin"] /\ jobId' = jobId
      BY <1>6 DEF SerializeError, Aborted, Rollback
    <2>2. pc' \in [Worker -> Pc] /\ pc'[w] = "pin" /\ jobId'[w] # 0
      BY <1>1, <2>1 DEF CheckTypeOK, PhaseInv, Pc
    <2> QED
      BY <1>1, <2>1, <2>2, FreshWorker
  <1> QED
    BY <1>2, <1>4, <1>5, <1>6

\* The connection is lost, or a row is written without a transaction.
LEMMA AdriftSteps ==
    ASSUME CheckInv, NEW w \in Worker, LoseConnection(w) \/ \E o \in Obs : WriteAdrift(w, o)
    PROVE  WorkerInv(w)'
  <1> USE DEF dbVars, readVars, saveVars, retryVars, connVars
  <1>1. CheckTypeOK /\ PhaseInv(w) /\ ReadInv(w)
    BY DEF CheckInv, WorkerInv
  <1>2. CASE LoseConnection(w)
    <2>1. /\ w \in adrift' /\ want'[w] = NoIds /\ got'[w] = {} /\ pc[w] # "idle"
          /\ pc'[w] = IF pc[w] = "fetch" THEN "select" ELSE IF pc[w] = "query" THEN "check" ELSE pc[w]
          /\ UNCHANGED <<row, job, jobId, fetched, data, step, saved, value, out>>
      BY <1>1, <1>2 DEF LoseConnection, InTransaction, CheckTypeOK
    <2>2. PhaseInv(w)'
      BY <1>1, <2>1 DEF PhaseInv, Early, Checking, Ending
    <2>3. ReadInv(w)' /\ SaveInv(w)'
      BY <1>1, <2>1 DEF ReadInv, SaveInv
    <2> QED
      BY <2>2, <2>3 DEF WorkerInv
  <1>3. ASSUME NEW o \in Obs, WriteAdrift(w, o) PROVE WorkerInv(w)'
    <2>1. /\ pc[w] = "commit" /\ w \in adrift'
          /\ UNCHANGED <<pc, job, jobId, want, got, fetched, data, step, saved, value, adrift, out>>
      BY <1>3 DEF WriteAdrift
    <2>2. PhaseInv(w)'
      BY <1>1, <2>1 DEF PhaseInv, Early, Checking, Ending
    <2>3. ReadInv(w)' /\ SaveInv(w)'
      BY <1>1, <2>1 DEF PhaseInv, ReadInv, SaveInv
    <2> QED
      BY <2>2, <2>3 DEF WorkerInv
  <1> QED
    BY <1>2, <1>3

\* Who waits in a circle has begun a transaction.
LEMMA DeadlockedIsActive ==
    ASSUME CheckInv, NEW w \in Worker, Deadlocked(w)
    PROVE  pc[w] # "idle"
  <1>1. PICK v \in Worker, o \in Obs : want[w][o] # 0
    BY DEF Deadlocked, Waits
  <1> QED
    BY <1>1 DEF CheckInv, WorkerInv, PhaseInv, Early, NoIds

\* A step of w's process or of its connection.
StepOf(w) ==
    WorkerStep(w) \/ DatabaseError(w) \/ LoseConnection(w) \/ \E o \in Obs : NewObservation(w, o)

\* What a step of w leaves alone: the variables of other workers, and the rows that they
\* have locked.
LEMMA Isolation ==
    ASSUME CheckInv, NEW w \in Worker, NEW v \in Worker \ {w}, StepOf(w)
    PROVE  /\ LocalsKept(v)
           /\ \A o \in Obs : lock[o] = v => lock'[o] = v /\ row'[o] = row[o]
  <1> USE DEF dbVars, readVars, saveVars, retryVars, connVars
  <1>1. CheckTypeOK /\ ReadInv(w)
    BY DEF CheckInv, WorkerInv
  <1>2. ASSUME Forget(w), lock' = Unlocked(w), out' = [out EXCEPT ![w] = {}],
               pc' \in {[pc EXCEPT ![w] = "idle"], [pc EXCEPT ![w] = "pin"]},
               job' \in {job, [job EXCEPT ![w] = NoJob]},
               jobId' \in {jobId, [jobId EXCEPT ![w] = 0]}
        PROVE  LocalsKept(v) /\ \A o \in Obs : lock[o] = v => lock'[o] = v
    <2>1. LocalsKept(v)
      <3>1. pc'[v] = pc[v] /\ job'[v] = job[v] /\ jobId'[v] = jobId[v] /\ out'[v] = out[v]
        BY <1>1, <1>2 DEF CheckTypeOK
      <3>2. /\ want'[v] = want[v] /\ got'[v] = got[v] /\ fetched'[v] = fetched[v] /\ cache'[v] = cache[v]
            /\ data'[v] = data[v] /\ step'[v] = step[v] /\ saved'[v] = saved[v] /\ value'[v] = value[v]
            /\ v \in adrift' <=> v \in adrift
        BY <1>1, <1>2 DEF CheckTypeOK, Forget
      <3> QED
        BY <3>1, <3>2 DEF LocalsKept
    <2> QED
      BY <1>2, <2>1 DEF Unlocked
  <1>3. CASE Commit(w)
    <2>1. LocalsKept(v) /\ \A o \in Obs : lock[o] = v => lock'[o] = v
      BY <1>2, <1>3 DEF Commit, Return, Idle
    <2>2. \A o \in Obs : lock[o] = v => row'[o] = row[o]
      BY <1>1, <1>3 DEF Commit, ReadInv
    <2> QED
      BY <2>1, <2>2
  <1>4. CASE PinFails(w) \/ HqcCorrected(w) \/ EndAdrift(w)
    BY <1>2, <1>4 DEF PinFails, HqcCorrected, EndAdrift, Return, Idle
  <1>5. CASE DatabaseError(w) \/ DeadlockDetected(w) \/ PinConflict(w) \/ WriteFails(w)
    <2>1. SerializeError(w) \/ Aborted(w) \/ Throw(w)
      BY <1>5 DEF DatabaseError, DeadlockDetected, PinConflict, WriteFails
    <2>2. /\ Rollback(w)
          /\ pc' \in {[pc EXCEPT ![w] = "idle"], [pc EXCEPT ![w] = "pin"]}
          /\ job' \in {job, [job EXCEPT ![w] = NoJob]}
          /\ jobId' \in {jobId, [jobId EXCEPT ![w] = 0]}
      BY <2>1 DEF SerializeError, Aborted, Throw, Idle
    <2> QED
      BY <1>2, <2>2 DEF Rollback
  <1>6. ASSUME NEW o \in Obs, GetRow(w, o) \/ SkipRow(w, o) \/ NewObservation(w, o)
        PROVE  /\ LocalsKept(v)
               /\ \A q \in Obs : lock[q] = v => lock'[q] = v
               /\ row' = row
    <2>1. CASE GetRow(w, o)
      <3>1. \A q \in Obs : lock[q] = v => lock'[q] = v
        BY <1>1, <2>1, ConstantFacts DEF GetRow, LockRow, CheckTypeOK
      <3>2. want'[v] = want[v] /\ got'[v] = got[v]
        BY <1>1, <2>1 DEF GetRow, CheckTypeOK
      <3> QED
        BY <2>1, <3>1, <3>2 DEF GetRow, LocalsKept
    <2>2. CASE SkipRow(w, o)
      <3>1. want'[v] = want[v]
        BY <1>1, <2>2 DEF SkipRow, CheckTypeOK
      <3> QED
        BY <2>2, <3>1 DEF SkipRow, LocalsKept
    <2>3. CASE NewObservation(w, o)
      BY <1>1, <2>3 DEF NewObservation, CheckTypeOK, LocalsKept
    <2> QED
      BY <1>6, <2>1, <2>2, <2>3
  <1>7. CASE Pin(w) \/ GetParametersToCheck(w) \/ NoParametersToCheck(w) \/ SelectObservation(w)
    BY <1>1, <1>7 DEF Pin, GetParametersToCheck, NoParametersToCheck, SelectObservation, Select,
                      CheckTypeOK, LocalsKept
  <1>12. ASSUME EndSelect(w)
         PROVE  got'[v] = got[v] /\ \A o \in Obs : lock[o] = v => lock'[o] = v
    BY <1>1, <1>12 DEF EndSelect, Unlocked, CheckTypeOK
  <1>13. ASSUME NEW b, CacheData(w, b)
         PROVE  /\ got'[v] = got[v] /\ \A o \in Obs : lock[o] = v => lock'[o] = v
                /\ fetched'[v] = fetched[v] /\ cache'[v] = cache[v] /\ data'[v] = data[v]
    <2>1. fetched'[v] = fetched[v] /\ cache'[v] = cache[v] /\ data'[v] = data[v]
      BY <1>1, <1>13 DEF CacheData, StoreFetched, CheckTypeOK
    <2> QED
      BY <1>12, <1>13, <2>1 DEF CacheData
  <1>8. CASE FetchObservation(w)
    <2>1. saved'[v] = saved[v] /\ pc'[v] = pc[v]
      BY <1>1, <1>8 DEF FetchObservation, CheckTypeOK
    <2>2. /\ got'[v] = got[v] /\ \A o \in Obs : lock[o] = v => lock'[o] = v
          /\ fetched'[v] = fetched[v] /\ cache'[v] = cache[v] /\ data'[v] = data[v]
      BY <1>8, <1>13 DEF FetchObservation
    <2> QED
      BY <1>8, <2>1, <2>2 DEF FetchObservation, LocalsKept
  <1>9. CASE StartCheck(w)
    <2>1. pc'[v] = pc[v] /\ want'[v] = want[v] /\ got'[v] = got[v]
      BY <1>1, <1>9 DEF StartCheck, Select, CheckTypeOK
    <2> QED
      BY <1>9, <2>1 DEF StartCheck, LocalsKept
  <1>14. CASE GetData(w)
    <2>1. pc'[v] = pc[v]
      BY <1>1, <1>14 DEF GetData, CheckTypeOK
    <2>2. /\ got'[v] = got[v] /\ \A o \in Obs : lock[o] = v => lock'[o] = v
          /\ fetched'[v] = fetched[v] /\ cache'[v] = cache[v] /\ data'[v] = data[v]
      BY <1>13, <1>14 DEF GetData
    <2> QED
      BY <1>14, <2>1, <2>2 DEF GetData, LocalsKept
  <1>15. CASE SkipQuery(w)
    <2>1. pc'[v] = pc[v] /\ step'[v] = step[v] /\ fetched'[v] = fetched[v]
      BY <1>1, <1>15 DEF SkipQuery, StoreFetched, CheckTypeOK
    <2>2. got'[v] = got[v] /\ \A o \in Obs : lock[o] = v => lock'[o] = v
      BY <1>12, <1>15 DEF SkipQuery
    <2> QED
      BY <1>15, <2>1, <2>2 DEF SkipQuery, LocalsKept
  <1>16. CASE LoseConnection(w)
    <2>1. /\ pc'[v] = pc[v] /\ want'[v] = want[v] /\ got'[v] = got[v]
          /\ v \in adrift' <=> v \in adrift
          /\ \A o \in Obs : lock[o] = v => lock'[o] = v
      BY <1>1, <1>16 DEF LoseConnection, Unlocked, CheckTypeOK
    <2> QED
      BY <1>16, <2>1 DEF LoseConnection, LocalsKept
  <1>17. ASSUME NEW p \in Obs, WriteAdrift(w, p)
         PROVE  LocalsKept(v) /\ \A o \in Obs : lock[o] = v => lock'[o] = v /\ row'[o] = row[o]
    <2>1. \A o \in Obs \ {p} : row'[o] = row[o]
      BY <1>1, <1>17 DEF WriteAdrift, CheckTypeOK
    <2>2. lock' = lock /\ lock[p] # v
      BY <1>17, ConstantFacts DEF WriteAdrift
    <2> QED
      BY <1>17, <2>1, <2>2 DEF WriteAdrift, LocalsKept
  <1>10. CASE RunCheck(w) \/ SkipCheck(w)
    <2>1. pc'[v] = pc[v] /\ step'[v] = step[v]
      BY <1>1, <1>10 DEF RunCheck, SkipCheck, CheckTypeOK
    <2>2. saved'[v] = saved[v] /\ value'[v] = value[v]
      BY <1>1, <1>10 DEF RunCheck, SkipCheck, CheckTypeOK
    <2> QED
      BY <1>10, <2>1, <2>2 DEF RunCheck, SkipCheck, LocalsKept
  <1>11. CASE Complete(w)
    BY <1>1, <1>11 DEF Complete, CheckTypeOK, LocalsKept
  <1> QED
    BY <1>3, <1>4, <1>5, <1>6, <1>7, <1>8, <1>9, <1>10, <1>11, <1>14, <1>15, <1>16, <1>17
       DEF StepOf, WorkerStep

\* Only commit writes, or a worker without its transaction a single row, and the observationids
\* are kept; a worker keeps its own, gives it up, or takes one that nobody has.
LEMMA IdSteps ==
    ASSUME CheckInv, NEW w \in Worker, StepOf(w)
    PROVE  /\ \/ Commit(w) \/ row' = row
              \/ /\ w \in adrift
                 /\ \E o \in Obs : row' = [row EXCEPT ![o].marks = value[w][o]]
           /\ \A o \in Obs : row'[o].id = row[o].id
           /\ nextId' = nextId
           /\ \/ jobId'[w] \in {jobId[w], 0}
              \/ \E o \in Obs : /\ jobId'[w] = row[o].id
                                /\ \A v \in Worker : jobId[v] # row[o].id
  <1> USE DEF dbVars, readVars, saveVars, retryVars, connVars
  <1>1. CheckTypeOK /\ ReadInv(w)
    BY DEF CheckInv, WorkerInv
  <1>2. CASE Commit(w)
    <2>1. \A o \in Obs : row[o] \in Atomic!Row
      BY <1>1 DEF CheckTypeOK
    <2>2. \A o \in Obs : [row[o] EXCEPT !.marks = value[w][o]].id = row[o].id
      BY <2>1 DEF Atomic!Row
    <2>3. \A o \in Obs : row'[o].id = row[o].id
      BY <1>2, <2>2 DEF Commit
    <2>4. jobId'[w] = 0 /\ nextId' = nextId
      BY <1>1, <1>2 DEF Commit, Return, Idle, CheckTypeOK
    <2> QED
      BY <1>2, <2>3, <2>4
  <1>3. CASE PinFails(w) \/ HqcCorrected(w) \/ EndAdrift(w)
    BY <1>1, <1>3 DEF PinFails, HqcCorrected, EndAdrift, Return, Idle, CheckTypeOK
  <1>4. CASE DatabaseError(w) \/ DeadlockDetected(w) \/ PinConflict(w) \/ WriteFails(w)
    <2>1. Rollback(w) /\ jobId' \in {jobId, [jobId EXCEPT ![w] = 0]}
      BY <1>4 DEF DatabaseError, DeadlockDetected, PinConflict, WriteFails, SerializeError, Aborted,
                  Throw, Idle
    <2> QED
      BY <1>1, <2>1 DEF Rollback, CheckTypeOK
  <1>5. CASE \E o \in Obs : GetRow(w, o) \/ SkipRow(w, o)
    BY <1>5 DEF GetRow, SkipRow
  <1>6. CASE \E o \in Obs : NewObservation(w, o)
    BY <1>1, <1>6 DEF NewObservation, CheckTypeOK
  <1>7. CASE Pin(w) \/ GetParametersToCheck(w) \/ NoParametersToCheck(w) \/ SelectObservation(w)
             \/ FetchObservation(w)
    BY <1>7 DEF Pin, GetParametersToCheck, NoParametersToCheck, SelectObservation, FetchObservation
  <1>8. CASE StartCheck(w) \/ GetData(w) \/ SkipQuery(w) \/ RunCheck(w) \/ SkipCheck(w) \/ Complete(w)
             \/ LoseConnection(w)
    BY <1>8 DEF StartCheck, GetData, SkipQuery, RunCheck, SkipCheck, Complete, LoseConnection
  <1>9. ASSUME NEW p \in Obs, WriteAdrift(w, p)
        PROVE  /\ w \in adrift /\ \E o \in Obs : row' = [row EXCEPT ![o].marks = value[w][o]]
               /\ \A o \in Obs : row'[o].id = row[o].id
               /\ nextId' = nextId /\ jobId'[w] = jobId[w]
    <2>1. [row[p] EXCEPT !.marks = value[w][p]].id = row[p].id
      BY <1>1 DEF CheckTypeOK, Atomic!Row
    <2> QED
      BY <1>1, <1>9, <2>1 DEF WriteAdrift, CheckTypeOK
  <1> QED
    BY <1>2, <1>3, <1>4, <1>5, <1>6, <1>7, <1>8, <1>9 DEF StepOf, WorkerStep

\* Ids grow and are nobody else's.
LEMMA IdStep == CheckInv /\ [CheckNext]_vars => IdInv'
  <1> SUFFICES ASSUME CheckInv, [CheckNext]_vars PROVE IdInv'
    OBVIOUS
  <1> USE DEF dbVars
  <1>1. CheckTypeOK /\ IdInv
    BY DEF CheckInv
  <1>2. /\ nextId \in Int /\ \A o \in Obs : row[o].id \in Int
        /\ \A w \in Worker : jobId[w] \in Int
    BY <1>1, ConstantFacts DEF CheckTypeOK, Atomic!Row
  <1>3. ASSUME NEW p \in Obs, StoreObservation(p) PROVE IdInv'
    <2>1. row'[p].id = nextId /\ \A o \in Obs \ {p} : row'[o] = row[o]
      BY <1>1, <1>3 DEF StoreObservation, CheckTypeOK
    <2>2. nextId' = nextId + 1 /\ jobId' = jobId
      BY <1>3 DEF StoreObservation
    <2> QED
      BY <1>1, <1>2, <2>1, <2>2 DEF IdInv
  <1>4. ASSUME NEW w \in Worker, StepOf(w) PROVE IdInv'
    <2>1. /\ \A o \in Obs : row'[o].id = row[o].id
          /\ nextId' = nextId
          /\ \/ jobId'[w] \in {jobId[w], 0}
             \/ \E o \in Obs : jobId'[w] = row[o].id /\ \A v \in Worker : jobId[v] # row[o].id
      BY <1>4, IdSteps
    <2>2. \A v \in Worker \ {w} : jobId'[v] = jobId[v]
      BY <1>4, Isolation DEF LocalsKept
    <2>3. 0 < nextId
      BY <1>1, ConstantFacts DEF CheckTypeOK
    <2> QED
      BY <1>1, <1>2, <2>1, <2>2, <2>3 DEF IdInv
  <1>5. CASE UNCHANGED vars
    BY <1>1, <1>5 DEF vars, IdInv
  <1> QED
    BY <1>3, <1>4, <1>5 DEF CheckNext, StepOf

\* At the start nobody has read or saved anything.
LEMMA CheckInitInv == CheckInit => CheckInv
  <1> SUFFICES ASSUME CheckInit PROVE CheckInv
    OBVIOUS
  <1>1. \A o \in Obs : [id |-> stored[o], marks |-> {}, hqc |-> FALSE] \in Atomic!Row
    BY CheckRunnerAssumption DEF Atomic!Row
  <1>2. CheckTypeOK
    <2>1. row \in [Obs -> Atomic!Row] /\ cache \in [Worker -> [Obs -> Atomic!Row]]
      BY <1>1, ConstantFacts DEF CheckInit
    <2>2. pc \in [Worker -> Pc] /\ lock \in [Obs -> Worker \cup {"free"}]
      BY DEF CheckInit, Pc
    <2>3. /\ job \in [Worker -> Obs] /\ jobId \in [Worker -> 0..MaxId]
          /\ want \in [Worker -> [Obs -> 0..MaxId]] /\ got \in [Worker -> SUBSET Obs]
          /\ fetched \in [Worker -> [Obs -> 0..MaxId]]
          /\ fetchedText \in [Worker -> [Obs -> 0..MaxId]]
      BY ConstantFacts DEF CheckInit
    <2>4. /\ data \in [Worker -> SUBSET Obs]
          /\ span \in [Worker -> Int] /\ textSpan \in [Worker -> Int]
          /\ step \in [Worker -> 1..(NChecks + 1)]
          /\ saved \in [Worker -> SUBSET Obs] /\ value \in [Worker -> [Obs -> SUBSET Atomic!Mark]]
      BY ConstantFacts DEF CheckInit
    <2>5. /\ nextId \in 1..(MaxId + 1) /\ done \subseteq Id
          /\ serial \in [Worker -> 0..SerializeLimit] /\ aborts \in [Worker -> 0..AbortLimit]
          /\ adrift \subseteq Worker /\ written \in [Worker -> SUBSET Obs]
          /\ out \in [Worker -> SUBSET (Obs \X Id \X SUBSET Atomic!Mark)]
          /\ faults \in 0..MaxFaults
      BY ConstantFacts DEF CheckInit
    <2> QED
      BY <2>1, <2>2, <2>3, <2>4, <2>5 DEF CheckTypeOK
  <1>3. IdInv
    BY <1>2, ConstantFacts DEF CheckInit, IdInv, CheckTypeOK
  <1>4. ASSUME NEW w \in Worker PROVE WorkerInv(w)
    <2>1. /\ pc[w] = "idle" /\ jobId[w] = 0 /\ want[w] = NoIds /\ got[w] = {} /\ fetched[w] = NoIds
          /\ data[w] = {} /\ saved[w] = {} /\ value[w] = [o \in Obs |-> {}] /\ w \notin adrift
      BY DEF CheckInit
    <2>2. PhaseInv(w)
      BY <2>1 DEF PhaseInv, Checking, Ending
    <2>3. ReadInv(w)
      BY <2>1 DEF ReadInv, Checking, Ending
    <2>4. SaveInv(w)
      BY <2>1 DEF SaveInv
    <2> QED
      BY <2>2, <2>3, <2>4 DEF WorkerInv
  <1> QED
    BY <1>2, <1>3, <1>4 DEF CheckInv

\* Every step of a worker, of input and of the database keeps the invariant.
LEMMA CheckStepInv == CheckInv /\ [CheckNext]_vars => CheckInv'
  <1> SUFFICES ASSUME CheckInv, [CheckNext]_vars PROVE CheckInv'
    OBVIOUS
  <1>1. CheckTypeOK' /\ IdInv'
    BY TypeStep, IdStep
  <1>2. ASSUME NEW p \in Obs, StoreObservation(p), NEW v \in Worker PROVE WorkerInv(v)'
    <2>1. CheckTypeOK
      BY DEF CheckInv
    <2>2. lock' = lock /\ lock[p] # v /\ row'[p].id = nextId /\ \A o \in Obs \ {p} : row'[o] = row[o]
      BY <1>2, <2>1, ConstantFacts DEF StoreObservation, CheckTypeOK
    <2>3. LocalsKept(v)
      BY <1>2 DEF StoreObservation, LocalsKept, readVars, saveVars, connVars
    <2> QED
      BY <2>2, <2>3, OtherKeeps
  <1>3. ASSUME NEW w \in Worker, NEW v \in Worker, StepOf(w) PROVE WorkerInv(v)'
    <2>1. CASE v # w
      <3>1. /\ LocalsKept(v)
            /\ \A o \in Obs : lock[o] = v => lock'[o] = v /\ row'[o] = row[o]
        BY <1>3, <2>1, Isolation
      <3> QED
        BY <3>1, OtherKeeps
    <2>2. CASE v = w
      <3>1. CASE DatabaseError(w) \/ DeadlockDetected(w) \/ PinConflict(w) \/ WriteFails(w)
        <4>1. SerializeError(w) \/ Aborted(w) \/ Throw(w)
          BY <3>1 DEF DatabaseError, DeadlockDetected, PinConflict, WriteFails
        <4>2. pc[w] # "idle"
          BY <3>1, DeadlockedIsActive
             DEF DatabaseError, DeadlockDetected, PinConflict, WriteFails, InTransaction
        <4> QED
          BY <2>2, <4>1, <4>2, EndSteps
      <3>2. CASE Complete(w) \/ Commit(w) \/ PinFails(w) \/ HqcCorrected(w) \/ EndAdrift(w)
        <4>1. pc[w] # "idle"
          BY <3>2 DEF Complete, Commit, PinFails, HqcCorrected, EndAdrift
        <4> QED
          BY <2>2, <3>2, <4>1, EndSteps
      <3> QED
        BY <1>3, <2>2, <3>1, <3>2, EarlySteps, RowSteps, DataSteps, RunSteps, AdriftSteps
           DEF StepOf, WorkerStep
    <2> QED
      BY <2>1, <2>2
  <1>4. CASE UNCHANGED vars
    <2>1. ASSUME NEW v \in Worker PROVE WorkerInv(v)'
      <3>1. LocalsKept(v)
        BY <1>4 DEF vars, LocalsKept, readVars, saveVars, connVars
      <3>2. row' = row /\ lock' = lock
        BY <1>4 DEF vars, dbVars
      <3> QED
        BY <3>1, <3>2, OtherKeeps
    <2> QED
      BY <1>1, <2>1 DEF CheckInv
  <1> QED
    BY <1>1, <1>2, <1>3, <1>4 DEF CheckInv, CheckNext, StepOf

----------------------------------------------------------------------------
(* Theorems *)

\* The invariant holds of every state of every run.
THEOREM CheckInvariance == CheckSafety => []CheckInv
  <1>1. CheckInit => CheckInv
    BY CheckInitInv
  <1>2. CheckInv /\ [CheckNext]_vars => CheckInv'
    BY CheckStepInv
  <1> QED
    BY <1>1, <1>2, PTL DEF CheckSafety

\* The variables of newObservation, of the caches and of the database keep their types.
THEOREM CheckTypeCorrect == CheckSafety => []CheckTypeOK
  <1>1. CheckInv => CheckTypeOK
    BY DEF CheckInv
  <1> QED
    BY <1>1, CheckInvariance, PTL

\* What a transaction has read of obsdata stays as it was read, under the id it was read
\* with, until the transaction ends: for any number of workers, observations and checks,
\* and however reads, stores, errors and other workers' lost connections interleave.
THEOREM ReadsStayStable == CheckSafety => []ReadsAreStable
  <1>1. CheckInv => ReadsAreStable
    BY DEF CheckInv, WorkerInv, ReadInv, ReadsAreStable
  <1> QED
    BY <1>1, CheckInvariance, PTL

\* What commit does to the rows, and what the message says of them.
LEMMA CommitWrites ==
    ASSUME CheckInv, NEW w \in Worker, Commit(w)
    PROVE  /\ \A o \in saved[w] : /\ row'[o] = [row[o] EXCEPT !.marks = value[w][o]]
                                  /\ row'[o].id = fetched[w][o] /\ row'[o].marks = value[w][o]
           /\ \A o \in Obs \ saved[w] : row'[o] = row[o]
  <1>1. CheckTypeOK
    BY DEF CheckInv
  <1>2. \A o \in saved[w] : o \in Obs /\ row[o] \in Atomic!Row
    BY <1>1 DEF CheckTypeOK
  <1>3. /\ \A o \in saved[w] : row'[o] = [row[o] EXCEPT !.marks = value[w][o]] /\ row[o].id = fetched[w][o]
        /\ \A o \in Obs \ saved[w] : row'[o] = row[o]
    BY <1>2 DEF Commit
  <1>4. \A o \in saved[w] : /\ [row[o] EXCEPT !.marks = value[w][o]].id = row[o].id
                            /\ [row[o] EXCEPT !.marks = value[w][o]].marks = value[w][o]
    BY <1>2 DEF Atomic!Row
  <1> QED
    BY <1>3, <1>4

\* The checks that a worker commits are those of AtomicChecks on the rows as they are at the
\* commit: reads have stayed stable, so what was computed from them is up to date.
LEMMA CommitIsChecked ==
    ASSUME CheckInv, NEW w \in Worker, Commit(w)
    PROVE  Atomic!Checked(job[w]) \/ row' = row
  <1>1. CheckTypeOK /\ PhaseInv(w) /\ ReadInv(w) /\ SaveInv(w) /\ w \notin adrift
    BY DEF CheckInv, WorkerInv, Commit
  <1>2. job[w] \in Obs /\ saved[w] \subseteq Obs /\ row \in [Obs -> Atomic!Row]
    BY <1>1 DEF CheckTypeOK
  <1>3. CASE job[w] \notin saved[w]
    <2>1. saved[w] = {}
      BY <1>1, <1>3 DEF Commit, PhaseInv, Ending
    <2>2. row' = [o \in Obs |-> row[o]]
      BY <2>1 DEF Commit
    <2> QED
      BY <1>2, <2>2
  <1>4. CASE job[w] \in saved[w]
    <2>1. row[job[w]].id # 0 /\ ~row[job[w]].hqc
      BY <1>1, <1>2, <1>4 DEF ReadInv, SaveInv
    <2>2. /\ row'[job[w]] = [row[job[w]] EXCEPT !.marks = value[w][job[w]]]
          /\ value[w][job[w]] \in SUBSET Atomic!MarksBy(job[w])
      BY <1>1, <1>4, CommitWrites DEF SaveInv
    <2>3. ASSUME NEW p \in Obs \ {job[w]}
          PROVE  \E m \in SUBSET Atomic!MarksBy(job[w]) :
                     /\ p \notin near[job[w]] => m = {}
                     /\ row'[p] = [row[p] EXCEPT !.marks = row[p].marks \cup m]
      <3>1. CASE p \in saved[w]
        <4>1. PICK m \in SUBSET Atomic!MarksBy(job[w]) : value[w][p] = cache[w][p].marks \cup m
          BY <1>1, <3>1 DEF SaveInv
        <4>2. p \in near[job[w]] /\ cache[w][p] = row[p]
          BY <1>1, <3>1 DEF SaveInv, ReadInv
        <4>3. row'[p] = [row[p] EXCEPT !.marks = value[w][p]]
          BY <3>1, CommitWrites
        <4> QED
          BY <4>1, <4>2, <4>3
      <3>2. CASE p \notin saved[w]
        <4>1. row'[p] = row[p]
          BY <3>2, CommitWrites
        <4>2. row[p] \in Atomic!Row
          BY <1>2
        <4>3. row[p] = [row[p] EXCEPT !.marks = row[p].marks \cup {}]
          BY <4>2 DEF Atomic!Row
        <4> QED
          BY <4>1, <4>3
      <3> QED
        BY <3>1, <3>2
    <2> QED
      BY <2>1, <2>2, <2>3 DEF Atomic!Checked
  <1> QED
    BY <1>3, <1>4

\* CheckRunner implements AtomicChecks: each check takes effect at once, on the data as it is
\* then, although it reads, waits, computes and writes in many steps among other workers,
\* stores and rollbacks; the exception are single rows that a worker writes after its
\* connection was lost and restored in mid-transaction.
THEOREM ChecksTakeEffectAtOnce == CheckSafety => ChecksAreAtomic
  <1>1. CheckInit => Atomic!AtomicInit
    BY DEF CheckInit, Atomic!AtomicInit
  <1>2. CheckInv /\ [CheckNext]_vars => [Atomic!AtomicNext]_row
    <2> SUFFICES ASSUME CheckInv, [CheckNext]_vars PROVE Atomic!AtomicNext \/ row' = row
      OBVIOUS
    <2>1. CheckTypeOK /\ IdInv
      BY DEF CheckInv
    <2>2. ASSUME NEW p \in Obs, StoreObservation(p) PROVE Atomic!Stored(p)
      <3>1. row'[p].id = nextId /\ \A o \in Obs \ {p} : row'[o] = row[o]
        BY <2>1, <2>2 DEF StoreObservation, CheckTypeOK
      <3> QED
        BY <2>1, <3>1 DEF IdInv, Atomic!Stored
    <2>3. ASSUME NEW w \in Worker, StepOf(w) PROVE Atomic!AtomicNext \/ row' = row
      <3>1. CASE Commit(w)
        <4>1. job[w] \in Obs
          BY <2>1 DEF CheckTypeOK
        <4> QED
          BY <3>1, <4>1, CommitIsChecked DEF Atomic!AtomicNext
      <3>2. ASSUME w \in adrift, NEW o \in Obs, row' = [row EXCEPT ![o].marks = value[w][o]]
            PROVE  Atomic!StrayWrite(o)
        <4>1. value[w][o] \in SUBSET Atomic!Mark /\ adrift # {}
          BY <2>1, <3>2 DEF CheckTypeOK
        <4> QED
          BY <3>2, <4>1 DEF Atomic!StrayWrite
      <3> QED
        BY <2>3, <3>1, <3>2, IdSteps DEF Atomic!AtomicNext
    <2>4. CASE UNCHANGED vars
      BY <2>4 DEF vars, dbVars
    <2> QED
      BY <2>2, <2>3, <2>4 DEF CheckNext, StepOf, Atomic!AtomicNext
  <1> QED
    BY <1>1, <1>2, CheckInvariance, PTL DEF CheckSafety, ChecksAreAtomic, Atomic!AtomicSpec

\* The entries that a step marks done.
LEMMA DoneByReturn ==
    ASSUME CheckInv, NEW w \in Worker \ adrift, pc[w] = "commit", CheckNext,
           jobId[w] \in done' \ done
    PROVE  Commit(w)
  <1> USE DEF dbVars, readVars, saveVars, retryVars, connVars
  <1>1. PICK v \in Worker : Commit(v) \/ PinFails(v) \/ HqcCorrected(v) \/ EndAdrift(v)
    <2>1. done' # done
      OBVIOUS
    <2>2. ~\E o \in Obs : StoreObservation(o)
      BY <2>1 DEF StoreObservation
    <2>3. ~\E v \in Worker, o \in Obs :
              NewObservation(v, o) \/ GetRow(v, o) \/ SkipRow(v, o) \/ WriteAdrift(v, o)
      BY <2>1 DEF NewObservation, GetRow, SkipRow, WriteAdrift
    <2>4. ~\E v \in Worker : DatabaseError(v) \/ DeadlockDetected(v) \/ PinConflict(v) \/ WriteFails(v)
      BY <2>1 DEF DatabaseError, DeadlockDetected, PinConflict, WriteFails, SerializeError, Aborted,
                  Throw, Rollback
    <2>5. ~\E v \in Worker : Pin(v) \/ GetParametersToCheck(v) \/ NoParametersToCheck(v)
                                 \/ SelectObservation(v) \/ FetchObservation(v) \/ LoseConnection(v)
      BY <2>1 DEF Pin, GetParametersToCheck, NoParametersToCheck, SelectObservation,
                  FetchObservation, LoseConnection
    <2>6. ~\E v \in Worker : StartCheck(v) \/ GetData(v) \/ SkipQuery(v) \/ RunCheck(v) \/ SkipCheck(v)
                                 \/ Complete(v)
      BY <2>1 DEF StartCheck, GetData, SkipQuery, RunCheck, SkipCheck, Complete
    <2> QED
      BY <2>2, <2>3, <2>4, <2>5, <2>6 DEF CheckNext, WorkerStep
  <1>2. jobId[w] = jobId[v]
    BY <1>1 DEF Commit, PinFails, HqcCorrected, EndAdrift, Return
  <1>3. jobId[w] # 0
    BY DEF CheckInv, WorkerInv, PhaseInv
  <1>4. v = w
    BY <1>2, <1>3 DEF CheckInv, IdInv
  <1> QED
    BY <1>1, <1>4 DEF PinFails, HqcCorrected, EndAdrift

\* What is sent is what the database holds when the transaction has been committed, unless
\* nothing of the observation was to be checked, and no row that it changed is left out: for
\* every worker that has not lost its connection.
THEOREM MessagesAreCommitted == CheckSafety => MessageIsCommitted
  <1> DEFINE Told(w) ==
          /\ saved[w] # {} => \A m \in out[w] : row'[m[1]].id = m[2] /\ row'[m[1]].marks = m[3]
          /\ \A o \in Obs : row'[o] # row[o] => <<o, row'[o].id, row'[o].marks>> \in out[w]
  <1>1. ASSUME CheckInv, CheckNext, NEW w \in Worker \ adrift, pc[w] = "commit",
               jobId[w] \in done' \ done
        PROVE  Told(w)
    <2>1. Commit(w)
      BY <1>1, DoneByReturn
    <2>2. saved[w] # {} => out[w] = {<<o, fetched[w][o], value[w][o]>> : o \in saved[w]}
      BY <1>1 DEF CheckInv, WorkerInv, PhaseInv, Ending
    <2>3. ASSUME saved[w] # {}, NEW m \in out[w] PROVE row'[m[1]].id = m[2] /\ row'[m[1]].marks = m[3]
      <3>1. PICK o \in saved[w] : m = <<o, fetched[w][o], value[w][o]>>
        BY <2>2, <2>3
      <3>2. row'[o].id = fetched[w][o] /\ row'[o].marks = value[w][o]
        BY <1>1, <2>1, CommitWrites
      <3> QED
        BY <3>1, <3>2
    <2>4. ASSUME NEW o \in Obs, row'[o] # row[o] PROVE <<o, row'[o].id, row'[o].marks>> \in out[w]
      <3>1. o \in saved[w]
        BY <1>1, <2>1, <2>4, CommitWrites
      <3>2. row'[o].id = fetched[w][o] /\ row'[o].marks = value[w][o]
        BY <1>1, <2>1, <3>1, CommitWrites
      <3> QED
        BY <2>2, <3>1, <3>2
    <2> QED
      BY <2>3, <2>4
  <1>2. CheckInv /\ [CheckNext]_vars
          => [\A w \in Worker \ adrift : pc[w] = "commit" /\ jobId[w] \in done' \ done => Told(w)]_vars
    BY <1>1
  <1> QED
    BY <1>2, CheckInvariance, PTL DEF CheckSafety, MessageIsCommitted
=============================================================================
