------------------------ MODULE InputService_proofs ------------------------
(* Proofs about InputService.  The state splits in two: the connections,     *)
(* with the place in newObservation that says which of them a request holds, *)
(* and the commands in queue, threads and result queues.                     *)
EXTENDS InputService, FiniteSetTheorems, SequenceTheorems, TLAPS

\* The places of newObservation at which the request has a connection.
Connected ==
    {"lock", "params", "query", "refree", "find", "reject", "execute", "wait", "free"}

\* Which requests hold a connection for their command, and for registerParams.
HolderInv ==
    /\ \A r \in Http : con[r] # 0 <=> pc[r] \in Connected
    /\ \A r \in Http : paramCon[r] # 0 <=> pc[r] \in {"query", "refree"}

PlaceInv ==
    /\ free \subseteq Con /\ nFree \in Int
    /\ con \in [Http -> 0..NCon] /\ paramCon \in [Http -> 0..NCon]
    /\ pc \in [Http -> ServicePc]
    /\ HolderInv

\* The catch-all handler leaves its trace, and nobody else comes to its second half.
RefreedInv == ~refreed => \A r \in Http : pc[r] # "refree"

\* PlaceInv holds always, the books are right until registerParams frees one twice.
ConnectionInv == PlaceInv /\ CacheIsExact

\* A command in the queue is there once, has no result and nobody runs it; a result is
\* there only for a request that waits; a thread ends only when the queue is empty for good.
QueueInv ==
    /\ \A i \in 1..Len(queue) : pc[queue[i]] = "wait" /\ result[queue[i]] = "none"
    /\ \A i, j \in 1..Len(queue) : i # j => queue[i] # queue[j]
    /\ \A i \in 1..Len(queue), d \in Thread : queue[i] \notin running[d]
    /\ \A r \in Http : result[r] # "none" => pc[r] = "wait"
    /\ gone # {} => suspended /\ queue = <<>>

CommandTypes ==
    /\ pc \in [Http -> ServicePc]
    /\ result \in [Http -> {"none", "redirect", "done"}]
    /\ queue \in Seq(Http)
    /\ running \in [Thread -> SUBSET Http]
    /\ \A d \in Thread : \A r, s \in running[d] : r = s

CommandInv == CommandTypes /\ QueueInv /\ CommandIsAlive /\ CommandIsServed

----------------------------------------------------------------------------
(* Facts about sets of connections and about queues *)

\* Taking one connection out of a set of them, or putting one back, counts as one.
LEMMA ConnectionCount ==
    ASSUME NEW S \in SUBSET Con, NEW c \in Con
    PROVE  /\ Cardinality(S) \in Nat
           /\ c \in S => Cardinality(S \ {c}) = Cardinality(S) - 1
           /\ c \notin S => Cardinality(S \cup {c}) = Cardinality(S) + 1
  <1>1. IsFiniteSet(1..NCon)
    BY InputServiceAssumption, FS_Interval
  <1>2. IsFiniteSet(S)
    BY <1>1, FS_Subset DEF Con
  <1> QED
    BY <1>2, FS_CardinalityType, FS_AddElement, FS_RemoveElement

\* Erasing one place of a queue moves the places behind it up.
LEMMA RemoveAtFacts ==
    ASSUME NEW S, NEW q \in Seq(S), NEW i \in 1..Len(q)
    PROVE  /\ RemoveAt(q, i) \in Seq(S)
           /\ Len(RemoveAt(q, i)) = Len(q) - 1
           /\ \A j \in 1..(Len(q) - 1) : RemoveAt(q, i)[j] = IF j < i THEN q[j] ELSE q[j + 1]
  <1> DEFINE a == SubSeq(q, 1, i - 1)
             b == SubSeq(q, i + 1, Len(q))
  <1>1. /\ a \in Seq(S) /\ Len(a) = i - 1
        /\ \A j \in 1..(i - 1) : a[j] = q[j]
    OBVIOUS
  <1>2. /\ b \in Seq(S) /\ Len(b) = Len(q) - i
        /\ \A j \in 1..(Len(q) - i) : b[j] = q[i + j]
    OBVIOUS
  <1>3. RemoveAt(q, i) = a \o b
    BY DEF RemoveAt
  <1> HIDE DEF a, b
  <1>4. /\ a \o b \in Seq(S)
        /\ Len(a \o b) = Len(a) + Len(b)
        /\ \A j \in 1..(Len(a) + Len(b)) :
              (a \o b)[j] = IF j <= Len(a) THEN a[j] ELSE b[j - Len(a)]
    BY <1>1, <1>2, ConcatProperties
  <1>5. ASSUME NEW j \in 1..(Len(q) - 1)
        PROVE  (a \o b)[j] = IF j < i THEN q[j] ELSE q[j + 1]
    <2>1. CASE j < i
      BY <1>1, <1>2, <1>4, <2>1
    <2>2. CASE ~(j < i)
      <3>1. (a \o b)[j] = b[j - (i - 1)] /\ j - (i - 1) \in 1..(Len(q) - i)
        BY <1>1, <1>2, <1>4, <2>2
      <3> QED
        BY <1>2, <2>2, <3>1
    <2> QED
      BY <2>1, <2>2
  <1> QED
    BY <1>1, <1>2, <1>3, <1>4, <1>5

----------------------------------------------------------------------------
(* Connections *)

\* At the start every connection is free.
LEMMA ConnectionInit == ServiceInit => ConnectionInv
  <1> SUFFICES ASSUME ServiceInit PROVE ConnectionInv
    OBVIOUS
  <1>1. Cardinality(1..NCon) = NCon
    BY InputServiceAssumption, FS_Interval
  <1>2. free \subseteq Con /\ nFree \in Int /\ nFree = Cardinality(free)
    BY <1>1, InputServiceAssumption DEF ServiceInit, Con
  <1>3. con \in [Http -> 0..NCon] /\ paramCon \in [Http -> 0..NCon]
    BY InputServiceAssumption DEF ServiceInit
  <1>4. pc \in [Http -> ServicePc] /\ HolderInv
    BY DEF ServiceInit, ServicePc, HolderInv, Connected
  <1>5. \A r \in Http : Uses(r) = {} /\ con[r] = 0
    BY DEF ServiceInit, Uses
  <1> QED
    BY <1>2, <1>3, <1>4, <1>5 DEF ConnectionInv, PlaceInv, CacheIsExact

\* A step that moves one request and leaves the connections alone.
LEMMA MoveKeepsConnections ==
    ASSUME ConnectionInv, NEW r \in Http, NEW where \in ServicePc \ {"query", "refree"},
           pc' = [pc EXCEPT ![r] = where], pc[r] \notin {"query", "refree"},
           pc[r] \in Connected <=> where \in Connected,
           UNCHANGED <<free, nFree, con, paramCon>>
    PROVE  ConnectionInv'
  <1>1. pc' \in [Http -> ServicePc]
    BY DEF ConnectionInv, PlaceInv
  <1>2. HolderInv'
    BY DEF ConnectionInv, PlaceInv, HolderInv
  <1>3. CacheIsExact'
    BY DEF ConnectionInv, PlaceInv, CacheIsExact, Uses
  <1> QED
    BY <1>1, <1>2, <1>3 DEF ConnectionInv, PlaceInv

\* findFreeConnection for a command.
LEMMA TakeForCommand ==
    ASSUME ConnectionInv, NEW r \in Http, FindFreeConnection(r)
    PROVE  ConnectionInv'
  <1> PICK c \in Con : TakeConnection(c) /\ con' = [con EXCEPT ![r] = c]
    BY DEF FindFreeConnection
  <1>1. c \in free /\ free' = free \ {c} /\ nFree' = nFree - 1 /\ c \in 1..NCon
    BY DEF TakeConnection, IsFirstFree, Con
  <1>2. pc[r] = "connect" /\ pc' = [pc EXCEPT ![r] = "lock"] /\ paramCon' = paramCon
    BY DEF FindFreeConnection, Goto
  <1>3. con[r] = 0 /\ paramCon[r] = 0
    BY <1>2 DEF ConnectionInv, PlaceInv, HolderInv, Connected
  <1>4. free' \subseteq Con /\ nFree' \in Int /\ nFree' = Cardinality(free')
    BY <1>1, ConnectionCount DEF ConnectionInv, PlaceInv, CacheIsExact
  <1>5. con' \in [Http -> 0..NCon] /\ pc' \in [Http -> ServicePc] /\ HolderInv'
    BY <1>1, <1>2, InputServiceAssumption
       DEF ConnectionInv, PlaceInv, HolderInv, Connected, ServicePc
  <1>6. Uses(r)' = {c} /\ \A s \in Http \ {r} : Uses(s)' = Uses(s) /\ con'[s] = con[s]
    BY <1>1, <1>2, <1>3, InputServiceAssumption DEF Uses, ConnectionInv, PlaceInv
  <1>7. con'[r] # paramCon'[r]
    BY <1>1, <1>2, <1>3 DEF ConnectionInv, PlaceInv
  <1>8. \A s \in Http : c \notin Uses(s)
    BY <1>1 DEF ConnectionInv, PlaceInv, CacheIsExact
  <1>9. \A s, t \in Http : s # t => Uses(s)' \cap Uses(t)' = {}
    BY <1>6, <1>8 DEF ConnectionInv, PlaceInv, CacheIsExact
  <1>10. \A s \in Http : Uses(s)' \cap free' = {}
    BY <1>1, <1>6 DEF ConnectionInv, PlaceInv, CacheIsExact
  <1>11. \A s \in Http : con'[s] # 0 => con'[s] # paramCon'[s]
    BY <1>2, <1>6, <1>7 DEF ConnectionInv, PlaceInv, CacheIsExact
  <1> QED
    BY <1>2, <1>4, <1>5, <1>9, <1>10, <1>11 DEF ConnectionInv, PlaceInv, CacheIsExact

\* findFreeConnection in registerParams: the request has two connections for a while.
LEMMA TakeForParams ==
    ASSUME ConnectionInv, NEW r \in Http, ParamsConnection(r)
    PROVE  ConnectionInv'
  <1> PICK c \in Con : TakeConnection(c) /\ paramCon' = [paramCon EXCEPT ![r] = c]
    BY DEF ParamsConnection
  <1>1. c \in free /\ free' = free \ {c} /\ nFree' = nFree - 1 /\ c \in 1..NCon
    BY DEF TakeConnection, IsFirstFree, Con
  <1>2. pc[r] = "params" /\ pc' = [pc EXCEPT ![r] = "query"] /\ con' = con
    BY DEF ParamsConnection, Goto
  <1>3. con[r] # 0 /\ paramCon[r] = 0
    BY <1>2 DEF ConnectionInv, PlaceInv, HolderInv, Connected
  <1>4. free' \subseteq Con /\ nFree' \in Int /\ nFree' = Cardinality(free')
    BY <1>1, ConnectionCount DEF ConnectionInv, PlaceInv, CacheIsExact
  <1>5. paramCon' \in [Http -> 0..NCon] /\ pc' \in [Http -> ServicePc] /\ HolderInv'
    BY <1>1, <1>2, InputServiceAssumption
       DEF ConnectionInv, PlaceInv, HolderInv, Connected, ServicePc
  <1>6. /\ Uses(r)' = Uses(r) \cup {c}
        /\ \A s \in Http \ {r} : Uses(s)' = Uses(s) /\ paramCon'[s] = paramCon[s]
    BY <1>1, <1>2, <1>3, InputServiceAssumption DEF Uses, ConnectionInv, PlaceInv
  <1>7. \A s \in Http : c \notin Uses(s)
    BY <1>1 DEF ConnectionInv, PlaceInv, CacheIsExact
  <1>8. con'[r] # paramCon'[r]
    BY <1>1, <1>2, <1>3, <1>7 DEF ConnectionInv, PlaceInv, Uses
  <1>9. \A s, t \in Http : s # t => Uses(s)' \cap Uses(t)' = {}
    BY <1>6, <1>7 DEF ConnectionInv, PlaceInv, CacheIsExact
  <1>10. \A s \in Http : Uses(s)' \cap free' = {}
    BY <1>1, <1>6 DEF ConnectionInv, PlaceInv, CacheIsExact
  <1>11. \A s \in Http : con'[s] # 0 => con'[s] # paramCon'[s]
    BY <1>2, <1>6, <1>8 DEF ConnectionInv, PlaceInv, CacheIsExact
  <1> QED
    BY <1>2, <1>4, <1>5, <1>9, <1>10, <1>11 DEF ConnectionInv, PlaceInv, CacheIsExact

\* freeConnection of the command's connection, when the request is rejected or answered.
LEMMA GiveBackFromCommand ==
    ASSUME ConnectionInv, NEW r \in Http, NEW where \in {"idle", "unref"},
           pc[r] \in {"reject", "free"}, pc' = [pc EXCEPT ![r] = where],
           FreeConnection(con[r]), con' = [con EXCEPT ![r] = 0], paramCon' = paramCon
    PROVE  ConnectionInv'
  <1> DEFINE c == con[r]
  <1>1. c \in Con /\ c # 0 /\ paramCon[r] = 0
    BY InputServiceAssumption DEF ConnectionInv, PlaceInv, HolderInv, Connected, Con
  <1>2. Uses(r) = {c}
    BY <1>1 DEF Uses
  <1>3. c \notin free /\ free' = free \cup {c} /\ nFree' = nFree + 1
    BY <1>2 DEF ConnectionInv, PlaceInv, CacheIsExact, FreeConnection
  <1>4. free' \subseteq Con /\ nFree' \in Int /\ nFree' = Cardinality(free')
    BY <1>1, <1>3, ConnectionCount DEF ConnectionInv, PlaceInv, CacheIsExact
  <1>5. con' \in [Http -> 0..NCon] /\ pc' \in [Http -> ServicePc] /\ HolderInv'
    BY InputServiceAssumption DEF ConnectionInv, PlaceInv, HolderInv, Connected, ServicePc
  <1>6. Uses(r)' = {} /\ \A s \in Http \ {r} : Uses(s)' = Uses(s) /\ con'[s] = con[s]
    BY <1>1 DEF Uses, ConnectionInv, PlaceInv
  <1>7. \A s \in Http \ {r} : c \notin Uses(s)
    BY <1>2 DEF ConnectionInv, PlaceInv, CacheIsExact
  <1>8. \A s, t \in Http : s # t => Uses(s)' \cap Uses(t)' = {}
    BY <1>6 DEF ConnectionInv, PlaceInv, CacheIsExact
  <1>9. \A s \in Http : Uses(s)' \cap free' = {}
    BY <1>3, <1>6, <1>7 DEF ConnectionInv, PlaceInv, CacheIsExact
  <1>10. \A s \in Http : con'[s] # 0 => con'[s] # paramCon'[s]
    BY <1>6 DEF ConnectionInv, PlaceInv, CacheIsExact
  <1> QED
    BY <1>4, <1>5, <1>8, <1>9, <1>10 DEF ConnectionInv, PlaceInv, CacheIsExact

\* freeConnection at the end of registerParams.
LEMMA GiveBackFromParams ==
    ASSUME ConnectionInv, NEW r \in Http, ParamsQuery(r)
    PROVE  ConnectionInv'
  <1> DEFINE c == paramCon[r]
  <1>1. /\ pc[r] = "query" /\ pc' = [pc EXCEPT ![r] = "find"]
        /\ paramCon' = [paramCon EXCEPT ![r] = 0] /\ con' = con
    BY DEF ParamsQuery, Goto
  <1>2. c \in Con /\ c # 0 /\ con[r] # c
    BY <1>1, InputServiceAssumption
       DEF ConnectionInv, PlaceInv, HolderInv, Connected, Con, CacheIsExact
  <1>3. c \in Uses(r)
    BY <1>2 DEF Uses
  <1>4. c \notin free /\ free' = free \cup {c} /\ nFree' = nFree + 1
    BY <1>3 DEF ConnectionInv, PlaceInv, CacheIsExact, FreeConnection, ParamsQuery
  <1>5. free' \subseteq Con /\ nFree' \in Int /\ nFree' = Cardinality(free')
    BY <1>2, <1>4, ConnectionCount DEF ConnectionInv, PlaceInv, CacheIsExact
  <1>6. paramCon' \in [Http -> 0..NCon] /\ pc' \in [Http -> ServicePc] /\ HolderInv'
    BY <1>1, InputServiceAssumption DEF ConnectionInv, PlaceInv, HolderInv, Connected, ServicePc
  <1>7. Uses(r)' = Uses(r) \ {c} /\ \A s \in Http \ {r} : Uses(s)' = Uses(s)
    BY <1>1, <1>2 DEF Uses, ConnectionInv, PlaceInv
  <1>8. \A s \in Http \ {r} : c \notin Uses(s)
    BY <1>3 DEF ConnectionInv, PlaceInv, CacheIsExact
  <1>9. \A s, t \in Http : s # t => Uses(s)' \cap Uses(t)' = {}
    BY <1>7 DEF ConnectionInv, PlaceInv, CacheIsExact
  <1>10. \A s \in Http : Uses(s)' \cap free' = {}
    BY <1>4, <1>7, <1>8 DEF ConnectionInv, PlaceInv, CacheIsExact
  <1>11. \A s \in Http : con'[s] # 0 => con'[s] # paramCon'[s]
    BY <1>1 DEF ConnectionInv, PlaceInv, CacheIsExact
  <1> QED
    BY <1>1, <1>5, <1>6, <1>9, <1>10, <1>11 DEF ConnectionInv, PlaceInv, CacheIsExact

\* A connection that is lost has no user, and is not free either.
LEMMA ForgetKeepsConnections ==
    ASSUME ConnectionInv, NEW r \in Http, pc[r] \notin {"query", "refree"},
           pc' = [pc EXCEPT ![r] = "idle"],
           con' = [con EXCEPT ![r] = 0], UNCHANGED <<free, nFree, paramCon>>
    PROVE  ConnectionInv'
  <1>1. con' \in [Http -> 0..NCon] /\ pc' \in [Http -> ServicePc] /\ HolderInv'
    BY InputServiceAssumption DEF ConnectionInv, PlaceInv, HolderInv, Connected, ServicePc
  <1>2. \A s \in Http : Uses(s)' \subseteq Uses(s)
    BY DEF Uses, ConnectionInv, PlaceInv
  <1>3. \A s \in Http : con'[s] # 0 => con'[s] # paramCon'[s]
    BY DEF ConnectionInv, PlaceInv, CacheIsExact
  <1> QED
    BY <1>1, <1>2, <1>3 DEF ConnectionInv, PlaceInv, CacheIsExact

\* A counter that is right never promises a connection that is not there.
LEMMA CounterIsTrue ==
    ASSUME ConnectionInv
    PROVE  ~NoneIsFree
  BY FS_EmptySet DEF ConnectionInv, CacheIsExact, NoneIsFree

\* A step that is not one of the two of registerParams' catch-all handler keeps the books
\* of the connections.
LEMMA ConnectionStep ==
    ASSUME ConnectionInv, RefreedInv, [ServiceNext]_serviceVars, ~refreed'
    PROVE  ConnectionInv'
  <1> USE DEF cacheVars, requestVars, Goto
  <1>1. ASSUME UNCHANGED <<free, nFree, con, paramCon, pc>>
        PROVE  ConnectionInv'
    BY <1>1 DEF ConnectionInv, PlaceInv, HolderInv, CacheIsExact, Uses
  <1>2. ASSUME NEW r \in Http, RenderPost(r) \/ LockMutex(r) \/ FindDecoder(r) \/ Execute(r)
        PROVE  ConnectionInv'
    <2>1. CASE RenderPost(r)
      BY <2>1, MoveKeepsConnections DEF RenderPost, Connected, ServicePc
    <2>2. CASE LockMutex(r)
      BY <2>2, MoveKeepsConnections DEF LockMutex, Connected, ServicePc
    <2>3. CASE FindDecoder(r)
      BY <2>3, MoveKeepsConnections DEF FindDecoder, Connected, ServicePc
    <2>4. CASE Execute(r)
      BY <2>4, MoveKeepsConnections DEF Execute, Connected, ServicePc
    <2> QED
      BY <1>2, <2>1, <2>2, <2>3, <2>4
  <1>3. ASSUME NEW r \in Http,
               ExecuteSuspended(r) \/ RemoveCommand(r) \/ TakeResult(r) \/ ReleaseDecoder(r)
        PROVE  ConnectionInv'
    <2>1. CASE ExecuteSuspended(r)
      BY <2>1, MoveKeepsConnections DEF ExecuteSuspended, Connected, ServicePc
    <2>2. CASE RemoveCommand(r)
      BY <2>2, MoveKeepsConnections DEF RemoveCommand, Connected, ServicePc
    <2>3. CASE TakeResult(r)
      BY <2>3, MoveKeepsConnections DEF TakeResult, Connected, ServicePc
    <2>4. CASE ReleaseDecoder(r)
      BY <2>4, MoveKeepsConnections DEF ReleaseDecoder, Connected, ServicePc
    <2> QED
      BY <1>3, <2>1, <2>2, <2>3, <2>4
  <1>4. ASSUME NEW r \in Http, RejectRequest(r) \/ ReleaseConnection(r)
        PROVE  ConnectionInv'
    <2>1. CASE RejectRequest(r)
      BY <2>1, GiveBackFromCommand DEF RejectRequest
    <2>2. CASE ReleaseConnection(r)
      BY <2>2, GiveBackFromCommand DEF ReleaseConnection
    <2> QED
      BY <1>4, <2>1, <2>2
  <1>5. ASSUME NEW r \in Http, FindDecoderThrows(r) \/ TooManyRedirects(r)
        PROVE  ConnectionInv'
    <2>1. CASE FindDecoderThrows(r)
      BY <2>1, ForgetKeepsConnections DEF FindDecoderThrows
    <2>2. CASE TooManyRedirects(r)
      BY <2>2, ForgetKeepsConnections DEF TooManyRedirects
    <2> QED
      BY <1>5, <2>1, <2>2
  <1>6. ASSUME NEW d \in Thread, ThreadStep(d)
        PROVE  UNCHANGED <<free, nFree, con, paramCon, pc>>
    BY <1>6 DEF ThreadStep, ThreadGet, Decode, ThreadExit
  <1>7. ASSUME MainStep \/ SigTerm \/ HourPasses \/ UNCHANGED serviceVars
        PROVE  UNCHANGED <<free, nFree, con, paramCon, pc>>
    BY <1>7 DEF MainStep, StopWebserver, Shutdown, WaitForTermination, SigTerm, HourPasses,
               serviceVars
  <1>8. ASSUME NEW r \in Http, NoDbConnection(r) \/ NoParamsConnection(r)
        PROVE  FALSE
    BY <1>8, CounterIsTrue DEF NoDbConnection, NoParamsConnection
  <1>9. ASSUME NEW r \in Http, FreeParamsConnection(r) \/ ParamsQueryThrows(r)
        PROVE  ConnectionInv'
    <2>1. CASE ParamsQueryThrows(r)
      BY <2>1 DEF ParamsQueryThrows
    <2>2. CASE FreeParamsConnection(r)
      <3>1. pc[r] = "refree" /\ ~refreed
        BY <2>2 DEF FreeParamsConnection
      <3> QED
        BY <3>1 DEF RefreedInv
    <2> QED
      BY <1>9, <2>1, <2>2
  <1>10. ASSUME NEW r \in Http, RequestStep(r)
         PROVE  ConnectionInv'
    BY <1>2, <1>3, <1>4, <1>5, <1>8, <1>9, <1>10, TakeForCommand, TakeForParams,
       GiveBackFromParams DEF RequestStep
  <1> QED
    BY <1>1, <1>2, <1>5, <1>6, <1>7, <1>9, <1>10 DEF ServiceNext, Ended

\* A request that takes or gives back a connection, or moves, knows what it holds.
LEMMA PlaceStep == PlaceInv /\ [ServiceNext]_serviceVars => PlaceInv'
  <1> SUFFICES ASSUME PlaceInv, [ServiceNext]_serviceVars PROVE PlaceInv'
    OBVIOUS
  <1> USE DEF cacheVars, requestVars, Goto
  <1>1. ASSUME UNCHANGED <<free, nFree, con, paramCon, pc>>
        PROVE  PlaceInv'
    BY <1>1 DEF PlaceInv, HolderInv
  <1>2. ASSUME NEW d \in Thread, ThreadStep(d)
        PROVE  UNCHANGED <<free, nFree, con, paramCon, pc>>
    BY <1>2 DEF ThreadStep, ThreadGet, Decode, ThreadExit
  <1>3. ASSUME MainStep \/ SigTerm \/ HourPasses \/ UNCHANGED serviceVars
        PROVE  UNCHANGED <<free, nFree, con, paramCon, pc>>
    BY <1>3 DEF MainStep, StopWebserver, Shutdown, WaitForTermination, SigTerm, HourPasses,
               serviceVars
  <1>4. ASSUME NEW r \in Http, NEW where \in ServicePc \ {"query", "refree"},
               pc' = [pc EXCEPT ![r] = where], pc[r] \notin {"query", "refree"},
               pc[r] \in Connected <=> where \in Connected,
               free' = free, nFree' \in Int, UNCHANGED <<con, paramCon>>
        PROVE  PlaceInv'
    <2>1. pc' \in [Http -> ServicePc]
      BY <1>4 DEF PlaceInv
    <2>2. HolderInv'
      BY <1>4 DEF PlaceInv, HolderInv
    <2> QED
      BY <1>4, <2>1, <2>2 DEF PlaceInv
  <1>5. ASSUME NEW r \in Http, RenderPost(r) \/ NoDbConnection(r) \/ LockMutex(r)
        PROVE  PlaceInv'
    BY <1>4, <1>5 DEF RenderPost, NoDbConnection, LockMutex, NoneIsFree, Connected, ServicePc,
                      PlaceInv
  <1>6. ASSUME NEW r \in Http,
               NoParamsConnection(r) \/ FindDecoder(r) \/ Execute(r) \/ ExecuteSuspended(r)
        PROVE  PlaceInv'
    <2>1. CASE NoParamsConnection(r)
      <3>1. /\ pc[r] = "params" /\ pc' = [pc EXCEPT ![r] = "find"]
            /\ free' = free /\ nFree' = 0 /\ UNCHANGED <<con, paramCon>>
        BY <2>1 DEF NoParamsConnection, NoneIsFree
      <3> QED
        <4>1. "find" \in ServicePc \ {"query", "refree"} /\ "find" \in Connected
          BY DEF Connected, ServicePc
        <4>2. pc[r] \notin {"query", "refree"} /\ pc[r] \in Connected /\ nFree' \in Int
          BY <3>1 DEF Connected
        <4> QED
          BY <1>4, <3>1, <4>1, <4>2
    <2>2. CASE FindDecoder(r)
      BY <1>4, <2>2 DEF FindDecoder, Connected, ServicePc, PlaceInv
    <2>3. CASE Execute(r) \/ ExecuteSuspended(r)
      BY <1>4, <2>3 DEF Execute, ExecuteSuspended, Connected, ServicePc, PlaceInv
    <2> QED
      BY <1>6, <2>1, <2>2, <2>3
  <1>7. ASSUME NEW r \in Http, RemoveCommand(r) \/ TakeResult(r) \/ ReleaseDecoder(r)
        PROVE  PlaceInv'
    <2>1. CASE RemoveCommand(r)
      BY <1>4, <2>1 DEF RemoveCommand, Connected, ServicePc, PlaceInv
    <2>2. CASE TakeResult(r)
      BY <1>4, <2>2 DEF TakeResult, Connected, ServicePc, PlaceInv
    <2>3. CASE ReleaseDecoder(r)
      BY <1>4, <2>3 DEF ReleaseDecoder, Connected, ServicePc, PlaceInv
    <2> QED
      BY <1>7, <2>1, <2>2, <2>3
  <1>8. ASSUME NEW c \in Con, TakeConnection(c)
        PROVE  free' \subseteq Con /\ nFree' \in Int /\ c \in 0..NCon /\ c # 0
    BY <1>8, InputServiceAssumption DEF TakeConnection, PlaceInv, Con
  <1>9. ASSUME NEW c \in Con, FreeConnection(c)
        PROVE  free' \subseteq Con /\ nFree' \in Int
    BY <1>9 DEF FreeConnection, PlaceInv
  <1>10. ASSUME NEW r \in Http
         PROVE  /\ con[r] # 0 => con[r] \in Con
                /\ paramCon[r] # 0 => paramCon[r] \in Con
    BY InputServiceAssumption DEF PlaceInv, Con
  <1>11. ASSUME NEW r \in Http, FindFreeConnection(r)
         PROVE  PlaceInv'
    <2>1. PICK c \in Con : TakeConnection(c) /\ con' = [con EXCEPT ![r] = c]
      BY <1>11 DEF FindFreeConnection
    <2>2. con' \in [Http -> 0..NCon] /\ pc' \in [Http -> ServicePc] /\ HolderInv'
      BY <1>8, <1>11, <2>1 DEF FindFreeConnection, PlaceInv, HolderInv, Connected, ServicePc
    <2> QED
      BY <1>8, <1>11, <2>1, <2>2 DEF FindFreeConnection, PlaceInv
  <1>12. ASSUME NEW r \in Http, ParamsConnection(r)
         PROVE  PlaceInv'
    <2>1. PICK c \in Con : TakeConnection(c) /\ paramCon' = [paramCon EXCEPT ![r] = c]
      BY <1>12 DEF ParamsConnection
    <2>2. paramCon' \in [Http -> 0..NCon] /\ pc' \in [Http -> ServicePc] /\ HolderInv'
      BY <1>8, <1>12, <2>1 DEF ParamsConnection, PlaceInv, HolderInv, Connected, ServicePc
    <2> QED
      BY <1>8, <1>12, <2>1, <2>2 DEF ParamsConnection, PlaceInv
  <1>13. ASSUME NEW r \in Http, ParamsQuery(r) \/ FreeParamsConnection(r)
         PROVE  PlaceInv'
    <2>1. /\ pc[r] \in {"query", "refree"} /\ pc' = [pc EXCEPT ![r] = "find"]
          /\ FreeConnection(paramCon[r]) /\ paramCon' = [paramCon EXCEPT ![r] = 0]
          /\ con' = con
      BY <1>13 DEF ParamsQuery, FreeParamsConnection
    <2>2. paramCon[r] \in Con
      BY <1>10, <2>1 DEF PlaceInv, HolderInv
    <2>3. paramCon' \in [Http -> 0..NCon] /\ pc' \in [Http -> ServicePc] /\ HolderInv'
      BY <2>1, InputServiceAssumption DEF PlaceInv, HolderInv, Connected, ServicePc
    <2> QED
      BY <1>9, <2>1, <2>2, <2>3 DEF PlaceInv
  <1>14. ASSUME NEW r \in Http, ParamsQueryThrows(r)
         PROVE  PlaceInv'
    <2>1. /\ pc[r] = "query" /\ pc' = [pc EXCEPT ![r] = "refree"]
          /\ FreeConnection(paramCon[r]) /\ paramCon' = paramCon /\ con' = con
      BY <1>14 DEF ParamsQueryThrows
    <2>2. paramCon[r] \in Con
      BY <1>10, <2>1 DEF PlaceInv, HolderInv
    <2>3. pc' \in [Http -> ServicePc] /\ HolderInv'
      BY <2>1 DEF PlaceInv, HolderInv, Connected, ServicePc
    <2> QED
      BY <1>9, <2>1, <2>2, <2>3 DEF PlaceInv
  <1>15. ASSUME NEW r \in Http, RejectRequest(r) \/ ReleaseConnection(r)
         PROVE  PlaceInv'
    <2>1. /\ pc[r] \in {"reject", "free"}
          /\ \E where \in {"idle", "unref"} : pc' = [pc EXCEPT ![r] = where]
          /\ FreeConnection(con[r]) /\ con' = [con EXCEPT ![r] = 0] /\ paramCon' = paramCon
      BY <1>15 DEF RejectRequest, ReleaseConnection
    <2>2. con[r] \in Con
      BY <1>10, <2>1 DEF PlaceInv, HolderInv, Connected
    <2>3. con' \in [Http -> 0..NCon] /\ pc' \in [Http -> ServicePc] /\ HolderInv'
      BY <2>1, InputServiceAssumption DEF PlaceInv, HolderInv, Connected, ServicePc
    <2> QED
      BY <1>9, <2>1, <2>2, <2>3 DEF PlaceInv
  <1>16. ASSUME NEW r \in Http, FindDecoderThrows(r) \/ TooManyRedirects(r)
         PROVE  PlaceInv'
    <2>1. /\ pc[r] \notin {"query", "refree"} /\ pc' = [pc EXCEPT ![r] = "idle"]
          /\ con' = [con EXCEPT ![r] = 0] /\ UNCHANGED <<free, nFree, paramCon>>
      BY <1>16 DEF FindDecoderThrows, TooManyRedirects
    <2>2. con' \in [Http -> 0..NCon] /\ pc' \in [Http -> ServicePc] /\ HolderInv'
      BY <2>1, InputServiceAssumption DEF PlaceInv, HolderInv, Connected, ServicePc
    <2> QED
      BY <2>1, <2>2 DEF PlaceInv
  <1>17. ASSUME NEW r \in Http, RequestStep(r)
         PROVE  PlaceInv'
    BY <1>5, <1>6, <1>7, <1>11, <1>12, <1>13, <1>15, <1>16, <1>17 DEF RequestStep
  <1> QED
    BY <1>1, <1>2, <1>3, <1>5, <1>14, <1>16, <1>17 DEF ServiceNext, Ended

\* The trace of the catch-all handler is there for good.
LEMMA RefreedStep ==
    ASSUME pc \in [Http -> ServicePc], RefreedInv, [ServiceNext]_serviceVars
    PROVE  RefreedInv' /\ (~refreed' => ~refreed)
  <1> USE DEF paramsVars, requestVars, Goto, RefreedInv
  <1>1. ASSUME NEW r \in Http, ParamsQueryThrows(r)
        PROVE  refreed'
    BY <1>1 DEF ParamsQueryThrows
  <1>2. ASSUME NEW r \in Http, NEW where \in ServicePc \ {"refree"},
               pc' = [pc EXCEPT ![r] = where], refreed' = refreed
        PROVE  RefreedInv' /\ (~refreed' => ~refreed)
    BY <1>2
  <1>3. ASSUME NEW r \in Http, RenderPost(r) \/ FindDecoderThrows(r)
        PROVE  RefreedInv' /\ (~refreed' => ~refreed)
    BY <1>2, <1>3 DEF RenderPost, FindDecoderThrows, ServicePc
  <1>4. ASSUME NEW r \in Http, RequestStep(r)
        PROVE  RefreedInv' /\ (~refreed' => ~refreed)
    <2>1. refreed' = refreed /\ \E where \in ServicePc \ {"refree"} :
              pc' = [pc EXCEPT ![r] = where]
      <3> USE DEF ServicePc
      <3>1. CASE FindFreeConnection(r) \/ NoDbConnection(r) \/ LockMutex(r)
        BY <3>1 DEF FindFreeConnection, NoDbConnection, LockMutex
      <3>2. CASE ParamsConnection(r) \/ NoParamsConnection(r)
        BY <3>2 DEF ParamsConnection, NoParamsConnection
      <3>3. CASE ParamsQuery(r) \/ FreeParamsConnection(r)
        BY <3>3 DEF ParamsQuery, FreeParamsConnection
      <3>4. CASE FindDecoder(r) \/ RejectRequest(r)
        BY <3>4 DEF FindDecoder, RejectRequest
      <3>5. CASE Execute(r) \/ ExecuteSuspended(r) \/ RemoveCommand(r)
        BY <3>5 DEF Execute, ExecuteSuspended, RemoveCommand
      <3>6. CASE TakeResult(r) \/ TooManyRedirects(r)
        BY <3>6 DEF TakeResult, TooManyRedirects
      <3>7. CASE ReleaseConnection(r) \/ ReleaseDecoder(r)
        BY <3>7 DEF ReleaseConnection, ReleaseDecoder
      <3> QED
        BY <1>4, <3>1, <3>2, <3>3, <3>4, <3>5, <3>6, <3>7 DEF RequestStep
    <2> QED
      BY <1>2, <2>1
  <1>5. ASSUME NEW d \in Thread, ThreadStep(d)
        PROVE  UNCHANGED <<pc, refreed>>
    BY <1>5 DEF ThreadStep, ThreadGet, Decode, ThreadExit
  <1>6. ASSUME MainStep \/ SigTerm \/ HourPasses \/ UNCHANGED serviceVars
        PROVE  UNCHANGED <<pc, refreed>>
    BY <1>6 DEF MainStep, StopWebserver, Shutdown, WaitForTermination, SigTerm, HourPasses,
               serviceVars
  <1> QED
    BY <1>1, <1>3, <1>4, <1>5, <1>6 DEF ServiceNext, Ended

\* What each request holds is known always; the books are right until the catch-all handler
\* of registerParams has run.
BooksInv == PlaceInv /\ RefreedInv /\ ConnectionHasOneUser

LEMMA BooksInit == ServiceInit => BooksInv
  BY ConnectionInit DEF ServiceInit, BooksInv, ConnectionInv, RefreedInv, ConnectionHasOneUser

LEMMA BooksStep == BooksInv /\ [ServiceNext]_serviceVars => BooksInv'
  <1> SUFFICES ASSUME BooksInv, [ServiceNext]_serviceVars PROVE BooksInv'
    OBVIOUS
  <1>1. PlaceInv'
    BY PlaceStep DEF BooksInv
  <1>2. RefreedInv' /\ (~refreed' => ~refreed)
    BY RefreedStep DEF BooksInv, PlaceInv
  <1>3. ASSUME ~refreed' PROVE CacheIsExact'
    BY <1>2, <1>3, ConnectionStep DEF BooksInv, ConnectionInv, ConnectionHasOneUser
  <1> QED
    BY <1>1, <1>2, <1>3 DEF BooksInv, ConnectionHasOneUser

\* For any number of HTTP threads and connections, and as long as the catch-all handler of
\* registerParams has not run, a connection has one user at a time and
\* findFreeConnection's counter is exact, although create, registerParams and
\* releaseDecodeCommand free connections with and without the mutex.
THEOREM ConnectionsAreExclusive == ServiceSpec => []ConnectionHasOneUser
  <1>1. BooksInv => ConnectionHasOneUser
    BY DEF BooksInv
  <1> QED
    BY <1>1, BooksInit, BooksStep, PTL DEF ServiceSpec

----------------------------------------------------------------------------
(* Commands *)

\* At the start there are no commands.
LEMMA CommandInit == ServiceInit => CommandInv
  <1> SUFFICES ASSUME ServiceInit PROVE CommandInv
    OBVIOUS
  <1>1. CommandTypes
    BY DEF ServiceInit, CommandTypes, ServicePc
  <1>2. QueueInv /\ CommandIsAlive /\ CommandIsServed
    BY DEF ServiceInit, QueueInv, CommandIsAlive, CommandIsServed
  <1> QED
    BY <1>1, <1>2 DEF CommandInv

\* A step that moves a request that neither waits nor begins to.
LEMMA MoveKeepsCommands ==
    ASSUME CommandInv, NEW r \in Http, NEW where \in ServicePc \ {"wait"},
           pc' = [pc EXCEPT ![r] = where], pc[r] # "wait",
           UNCHANGED <<result, queue, running, gone, suspended>>
    PROVE  CommandInv'
  <1>1. CommandTypes'
    BY DEF CommandInv, CommandTypes
  <1>2. \A s \in Http : pc[s] = "wait" <=> pc'[s] = "wait"
    BY DEF CommandInv, CommandTypes
  <1>3. \A i \in 1..Len(queue) : queue[i] \in Http
    BY DEF CommandInv, CommandTypes
  <1>4. QueueInv'
    BY <1>2, <1>3 DEF CommandInv, QueueInv
  <1>5. CommandIsAlive' /\ CommandIsServed'
    BY <1>2 DEF CommandInv, CommandIsAlive, CommandIsServed
  <1> QED
    BY <1>1, <1>4, <1>5 DEF CommandInv

\* decodeExecute puts a new command into the queue.
LEMMA ExecuteKeepsCommands ==
    ASSUME CommandInv, NEW r \in Http, Execute(r)
    PROVE  CommandInv'
  <1> DEFINE n == Len(queue)
  <1>1. /\ pc[r] = "execute" /\ pc' = [pc EXCEPT ![r] = "wait"] /\ ~suspended
        /\ queue' = Append(queue, r) /\ UNCHANGED <<result, running, gone, suspended>>
    BY DEF Execute, Goto
  <1>2. /\ queue' \in Seq(Http) /\ Len(queue') = n + 1 /\ n \in Nat
        /\ \A i \in 1..n : queue'[i] = queue[i] /\ queue[i] \in Http
        /\ queue'[n + 1] = r
    BY <1>1, AppendProperties DEF CommandInv, CommandTypes
  <1>3. CommandTypes'
    BY <1>1, <1>2 DEF CommandInv, CommandTypes, ServicePc
  <1>4. \A s \in Http : s # r => pc'[s] = pc[s]
    BY <1>1 DEF CommandInv, CommandTypes
  <1>5. \A i \in 1..n : queue[i] # r
    BY <1>1, <1>2 DEF CommandInv, QueueInv
  <1>6. \A d \in Thread : r \notin running[d]
    BY <1>1 DEF CommandInv, CommandIsAlive
  <1>7. result[r] = "none" /\ pc'[r] = "wait"
    BY <1>1 DEF CommandInv, CommandTypes, QueueInv
  <1>8. gone = {}
    BY <1>1 DEF CommandInv, QueueInv
  <1>9. \A i \in 1..Len(queue') : i \in 1..n \/ i = n + 1
    BY <1>2
  <1>10. QueueInv'
    <2>1. \A i \in 1..Len(queue') : pc'[queue'[i]] = "wait" /\ result'[queue'[i]] = "none"
      BY <1>1, <1>2, <1>4, <1>5, <1>7, <1>9 DEF CommandInv, QueueInv
    <2>2. \A i, j \in 1..Len(queue') : i # j => queue'[i] # queue'[j]
      BY <1>2, <1>5, <1>9 DEF CommandInv, QueueInv
    <2>3. \A i \in 1..Len(queue'), d \in Thread : queue'[i] \notin running'[d]
      BY <1>1, <1>2, <1>6, <1>9 DEF CommandInv, QueueInv
    <2>4. \A s \in Http : result'[s] # "none" => pc'[s] = "wait"
      BY <1>1, <1>4, <1>7 DEF CommandInv, QueueInv
    <2> QED
      BY <1>1, <1>8, <2>1, <2>2, <2>3, <2>4 DEF QueueInv
  <1>11. CommandIsAlive'
    BY <1>1, <1>4, <1>6 DEF CommandInv, CommandIsAlive
  <1>12. CommandIsServed'
    <2>1. gone # Thread
      BY <1>8, InputServiceAssumption DEF Thread
    <2>2. \A s \in Http : (\E i \in DOMAIN queue : queue[i] = s)
                             => \E i \in DOMAIN queue' : queue'[i] = s
      BY <1>2 DEF CommandInv, CommandTypes
    <2>3. \E i \in DOMAIN queue' : queue'[i] = r
      BY <1>2
    <2> QED
      BY <1>1, <1>4, <2>1, <2>2, <2>3 DEF CommandInv, CommandIsServed
  <1> QED
    BY <1>3, <1>10, <1>11, <1>12 DEF CommandInv

\* In shutdown a request takes its command out of the queue again.
LEMMA RemoveKeepsCommands ==
    ASSUME CommandInv, NEW r \in Http, RemoveCommand(r)
    PROVE  CommandInv'
  <1> PICK k \in DOMAIN queue : queue[k] = r /\ queue' = RemoveAt(queue, k)
    BY DEF RemoveCommand
  <1> DEFINE n == Len(queue)
             old(i) == IF i < k THEN i ELSE i + 1
  <1>1. /\ pc[r] = "wait" /\ pc' = [pc EXCEPT ![r] = "free"] /\ result[r] = "none"
        /\ UNCHANGED <<result, running, gone, suspended>>
    BY DEF RemoveCommand, Goto
  <1>2. queue \in Seq(Http) /\ n \in Nat /\ k \in 1..n /\ \A i \in 1..n : queue[i] \in Http
    BY DEF CommandInv, CommandTypes
  <1>3. /\ queue' \in Seq(Http) /\ Len(queue') = n - 1
        /\ \A i \in 1..(n - 1) : queue'[i] = queue[old(i)]
    BY <1>2, RemoveAtFacts
  <1>4. /\ \A i \in 1..(n - 1) : old(i) \in 1..n /\ old(i) # k
        /\ \A i, j \in 1..(n - 1) : i # j => old(i) # old(j)
        /\ \A m \in 1..n : m # k => \E i \in 1..(n - 1) : old(i) = m
    <2>1. ASSUME NEW m \in 1..n, m # k PROVE \E i \in 1..(n - 1) : old(i) = m
      <3>1. CASE m < k
        BY <1>2, <2>1, <3>1
      <3>2. CASE m > k
        <4>1. m - 1 \in 1..(n - 1) /\ old(m - 1) = m
          BY <1>2, <2>1, <3>2
        <4> QED
          BY <4>1
      <3> QED
        BY <1>2, <2>1, <3>1, <3>2
    <2> QED
      BY <1>2, <2>1
  <1> HIDE DEF old
  <1>5. CommandTypes'
    BY <1>1, <1>3 DEF CommandInv, CommandTypes, ServicePc
  <1>6. \A s \in Http : s # r => pc'[s] = pc[s]
    BY <1>1 DEF CommandInv, CommandTypes
  <1>7. \A i \in 1..(n - 1) : queue'[i] # r /\ queue'[i] \in Http
    BY <1>2, <1>3, <1>4 DEF CommandInv, QueueInv
  <1>8. \A d \in Thread : r \notin running[d]
    BY <1>2 DEF CommandInv, QueueInv
  <1>9. QueueInv'
    <2>1. \A i \in 1..Len(queue') : pc'[queue'[i]] = "wait" /\ result'[queue'[i]] = "none"
      BY <1>1, <1>3, <1>4, <1>6, <1>7 DEF CommandInv, QueueInv
    <2>2. ASSUME NEW i \in 1..Len(queue'), NEW j \in 1..Len(queue'), i # j
          PROVE  queue'[i] # queue'[j]
      <3>1. i \in 1..(n - 1) /\ j \in 1..(n - 1)
        BY <1>3
      <3>2. queue'[i] = queue[old(i)] /\ queue'[j] = queue[old(j)]
        BY <1>3, <3>1
      <3>3. old(i) \in 1..n /\ old(j) \in 1..n /\ old(i) # old(j)
        BY <1>4, <2>2, <3>1
      <3>4. \A x, y \in 1..n : x # y => queue[x] # queue[y]
        BY DEF CommandInv, QueueInv
      <3> QED
        BY <3>2, <3>3, <3>4
    <2>3. ASSUME NEW i \in 1..Len(queue'), NEW d \in Thread
          PROVE  queue'[i] \notin running'[d]
      <3>1. i \in 1..(n - 1)
        BY <1>3
      <3>2. queue'[i] = queue[old(i)] /\ old(i) \in 1..n
        BY <1>3, <1>4, <3>1
      <3>3. \A x \in 1..n : queue[x] \notin running[d]
        BY DEF CommandInv, QueueInv
      <3> QED
        BY <1>1, <3>2, <3>3
    <2>4. \A s \in Http : result'[s] # "none" => pc'[s] = "wait"
      BY <1>1, <1>6 DEF CommandInv, QueueInv
    <2>5. gone = {}
      BY <1>2 DEF CommandInv, QueueInv
    <2> QED
      BY <1>1, <2>1, <2>2, <2>3, <2>4, <2>5 DEF QueueInv
  <1>10. CommandIsAlive'
    BY <1>1, <1>6, <1>8 DEF CommandInv, CommandIsAlive
  <1>11. CommandIsServed'
    <2>1. ASSUME NEW s \in Http, s # r, NEW m \in DOMAIN queue, queue[m] = s
          PROVE  \E i \in DOMAIN queue' : queue'[i] = s
      <3>1. m \in 1..n /\ m # k
        BY <1>2, <2>1
      <3>2. PICK i \in 1..(n - 1) : old(i) = m
        BY <1>4, <3>1
      <3>3. i \in DOMAIN queue' /\ queue'[i] = s
        BY <1>3, <2>1, <3>2
      <3> QED
        BY <3>3
    <2>2. pc'[r] # "wait"
      BY <1>1 DEF CommandInv, CommandTypes
    <2> QED
      BY <1>1, <1>6, <2>1, <2>2 DEF CommandInv, CommandIsServed
  <1> QED
    BY <1>5, <1>9, <1>10, <1>11 DEF CommandInv

\* wait returns: the command is back, whether the request goes on or throws.
LEMMA ResultKeepsCommands ==
    ASSUME CommandInv, NEW r \in Http, NEW where \in {"free", "idle"},
           pc[r] = "wait", result[r] # "none",
           pc' = [pc EXCEPT ![r] = where], result' = [result EXCEPT ![r] = "none"],
           UNCHANGED <<queue, running, gone, suspended>>
    PROVE  CommandInv'
  <1>1. CommandTypes'
    BY DEF CommandInv, CommandTypes, ServicePc
  <1>2. /\ \A s \in Http : s # r => pc'[s] = pc[s] /\ result'[s] = result[s]
        /\ pc'[r] # "wait" /\ result'[r] = "none"
    BY DEF CommandInv, CommandTypes
  <1>3. \A i \in 1..Len(queue) : queue[i] # r /\ queue[i] \in Http
    BY DEF CommandInv, CommandTypes, QueueInv
  <1>4. \A d \in Thread : r \notin running[d]
    BY DEF CommandInv, CommandIsAlive
  <1>5. QueueInv'
    BY <1>2, <1>3 DEF CommandInv, QueueInv
  <1>6. CommandIsAlive'
    BY <1>2, <1>4 DEF CommandInv, CommandIsAlive
  <1>7. CommandIsServed'
    BY <1>2 DEF CommandInv, CommandIsServed
  <1> QED
    BY <1>1, <1>5, <1>6, <1>7 DEF CommandInv

\* A thread takes the first command of the queue.
LEMMA ThreadGetKeepsCommands ==
    ASSUME CommandInv, NEW d \in Thread, ThreadGet(d)
    PROVE  CommandInv'
  <1> DEFINE n == Len(queue)
             h == Head(queue)
  <1>1. /\ running[d] = {} /\ queue # <<>> /\ running' = [running EXCEPT ![d] = {h}]
        /\ queue' = Tail(queue) /\ UNCHANGED <<pc, result, gone, suspended>>
    BY DEF ThreadGet, requestVars
  <1>2. /\ queue \in Seq(Http) /\ n \in Nat /\ n > 0 /\ h = queue[1] /\ h \in Http
        /\ \A i \in 1..n : queue[i] \in Http
    BY <1>1 DEF CommandInv, CommandTypes
  <1>3. /\ queue' \in Seq(Http) /\ Len(queue') = n - 1
        /\ \A i \in 1..(n - 1) : queue'[i] = queue[i + 1]
    BY <1>1, <1>2, HeadTailProperties
  <1>4. /\ running' \in [Thread -> SUBSET Http] /\ running'[d] = {h}
        /\ \A e \in Thread : e # d => running'[e] = running[e]
    BY <1>1, <1>2 DEF CommandInv, CommandTypes
  <1>5. CommandTypes'
    BY <1>1, <1>3, <1>4 DEF CommandInv, CommandTypes
  <1>6. pc[h] = "wait" /\ result[h] = "none" /\ \A e \in Thread : h \notin running[e]
    BY <1>2 DEF CommandInv, QueueInv
  <1>7. \A i \in 1..(n - 1) : queue'[i] # h /\ i + 1 \in 1..n
    BY <1>2, <1>3 DEF CommandInv, QueueInv
  <1>8. QueueInv'
    <2>1. \A i \in 1..Len(queue') : pc'[queue'[i]] = "wait" /\ result'[queue'[i]] = "none"
      BY <1>1, <1>3, <1>7 DEF CommandInv, QueueInv
    <2>2. \A i, j \in 1..Len(queue') : i # j => queue'[i] # queue'[j]
      <3>1. ASSUME NEW i \in 1..(n - 1), NEW j \in 1..(n - 1), i # j
            PROVE  queue'[i] # queue'[j]
        <4>1. i + 1 \in 1..n /\ j + 1 \in 1..n /\ i + 1 # j + 1
          BY <1>2, <3>1
        <4>2. queue[i + 1] # queue[j + 1]
          BY <4>1 DEF CommandInv, QueueInv
        <4> QED
          BY <1>3, <4>2
      <3> QED
        BY <1>3, <3>1
    <2>3. \A i \in 1..Len(queue'), e \in Thread : queue'[i] \notin running'[e]
      BY <1>3, <1>4, <1>7 DEF CommandInv, QueueInv
    <2>4. gone = {}
      BY <1>1 DEF CommandInv, QueueInv
    <2> QED
      BY <1>1, <2>1, <2>2, <2>3, <2>4 DEF CommandInv, QueueInv
  <1>9. CommandIsAlive'
    BY <1>1, <1>4, <1>6 DEF CommandInv, CommandIsAlive
  <1>10. CommandIsServed'
    <2>1. ASSUME NEW s \in Http, NEW m \in DOMAIN queue, queue[m] = s
          PROVE  s \in running'[d] \/ \E i \in DOMAIN queue' : queue'[i] = s
      <3>1. CASE m = 1
        BY <1>2, <1>4, <2>1, <3>1
      <3>2. CASE m # 1
        <4>1. m \in 2..n
          BY <1>2, <3>2
        <4>2. m - 1 \in DOMAIN queue' /\ queue'[m - 1] = s
          BY <1>2, <1>3, <2>1, <4>1
        <4> QED
          BY <4>2
      <3> QED
        BY <3>1, <3>2
    <2>2. \A s \in Http, e \in Thread : s \in running[e] => s \in running'[e]
      BY <1>1, <1>4
    <2> QED
      BY <1>1, <2>1, <2>2 DEF CommandInv, CommandIsServed
  <1> QED
    BY <1>5, <1>8, <1>9, <1>10 DEF CommandInv

\* DecodeCommand::run and signal.
LEMMA DecodeKeepsCommands ==
    ASSUME CommandInv, NEW d \in Thread, Decode(d)
    PROVE  CommandInv'
  <1> PICK r \in running[d], res \in {"done", "redirect"} :
        /\ result' = [result EXCEPT ![r] = res]
        /\ running' = [running EXCEPT ![d] = {}]
        /\ UNCHANGED <<pc, queue, gone, suspended>>
    BY DEF Decode
  <1>1. r \in Http /\ pc[r] = "wait"
    BY DEF CommandInv, CommandTypes, CommandIsAlive
  <1>2. /\ running' \in [Thread -> SUBSET Http] /\ running'[d] = {}
        /\ \A e \in Thread : e # d => running'[e] = running[e] /\ r \notin running[e]
    BY <1>1 DEF CommandInv, CommandTypes, CommandIsAlive
  <1>3. result'[r] = res /\ \A s \in Http : s # r => result'[s] = result[s]
    BY <1>1 DEF CommandInv, CommandTypes
  <1>4. CommandTypes'
    BY <1>1, <1>2 DEF CommandInv, CommandTypes
  <1>5. \A i \in 1..Len(queue) : queue[i] # r /\ queue[i] \in Http
    BY DEF CommandInv, CommandTypes, QueueInv
  <1>6. QueueInv'
    <2>1. \A i \in 1..Len(queue) : result'[queue[i]] = "none"
      BY <1>3, <1>5 DEF CommandInv, QueueInv
    <2>2. \A i \in 1..Len(queue), e \in Thread : queue[i] \notin running'[e]
      BY <1>2 DEF CommandInv, QueueInv
    <2>3. \A s \in Http : result'[s] # "none" => pc[s] = "wait"
      BY <1>1, <1>3 DEF CommandInv, QueueInv
    <2> QED
      BY <2>1, <2>2, <2>3 DEF CommandInv, QueueInv
  <1>7. CommandIsAlive'
    BY <1>1, <1>2, <1>3 DEF CommandInv, CommandIsAlive
  <1>8. CommandIsServed'
    <2>1. ASSUME NEW s \in Http, s # r, s \in running[d] PROVE FALSE
      BY <2>1 DEF CommandInv, CommandTypes
    <2> QED
      BY <1>2, <1>3, <2>1 DEF CommandInv, CommandIsServed
  <1> QED
    BY <1>4, <1>6, <1>7, <1>8 DEF CommandInv

\* A thread ends after it has drained the queue.
LEMMA ThreadExitKeepsCommands ==
    ASSUME CommandInv, NEW d \in Thread, ThreadExit(d)
    PROVE  CommandInv'
  <1>1. /\ suspended /\ queue = <<>> /\ gone' = gone \cup {d}
        /\ UNCHANGED <<pc, result, queue, running, suspended>>
    BY DEF ThreadExit, requestVars
  <1>2. CommandTypes' /\ QueueInv' /\ CommandIsAlive'
    BY <1>1 DEF CommandInv, CommandTypes, QueueInv, CommandIsAlive
  <1>3. CommandIsServed'
    BY <1>1 DEF CommandInv, CommandIsServed
  <1> QED
    BY <1>2, <1>3 DEF CommandInv

\* Every step keeps the commands in order.
LEMMA CommandStep == CommandInv /\ [ServiceNext]_serviceVars => CommandInv'
  <1> SUFFICES ASSUME CommandInv, [ServiceNext]_serviceVars PROVE CommandInv'
    OBVIOUS
  <1> USE DEF cacheVars, requestVars, poolVars, Goto
  <1>1. ASSUME UNCHANGED <<pc, result, queue, running, gone>>, suspended => suspended'
        PROVE  CommandInv'
    BY <1>1 DEF CommandInv, CommandTypes, QueueInv, CommandIsAlive, CommandIsServed
  <1>2. ASSUME NEW r \in Http, RenderPost(r) \/ FindFreeConnection(r) \/ LockMutex(r)
        PROVE  CommandInv'
    <2>1. CASE RenderPost(r)
      BY <2>1, MoveKeepsCommands DEF RenderPost, ServicePc
    <2>2. CASE FindFreeConnection(r)
      BY <2>2, MoveKeepsCommands DEF FindFreeConnection, ServicePc
    <2>3. CASE LockMutex(r)
      BY <2>3, MoveKeepsCommands DEF LockMutex, ServicePc
    <2> QED
      BY <1>2, <2>1, <2>2, <2>3
  <1>10. ASSUME NEW r \in Http, NoDbConnection(r) \/ NoParamsConnection(r)
         PROVE  CommandInv'
    <2>1. CASE NoDbConnection(r)
      BY <2>1, MoveKeepsCommands DEF NoDbConnection, ServicePc
    <2>2. CASE NoParamsConnection(r)
      BY <2>2, MoveKeepsCommands DEF NoParamsConnection, ServicePc
    <2> QED
      BY <1>10, <2>1, <2>2
  <1>11. ASSUME NEW r \in Http, ParamsQueryThrows(r) \/ FreeParamsConnection(r)
         PROVE  CommandInv'
    <2>1. CASE ParamsQueryThrows(r)
      BY <2>1, MoveKeepsCommands DEF ParamsQueryThrows, ServicePc
    <2>2. CASE FreeParamsConnection(r)
      BY <2>2, MoveKeepsCommands DEF FreeParamsConnection, ServicePc
    <2> QED
      BY <1>11, <2>1, <2>2
  <1>3. ASSUME NEW r \in Http, ParamsConnection(r) \/ ParamsQuery(r) \/ FindDecoder(r)
        PROVE  CommandInv'
    <2>1. CASE ParamsConnection(r)
      BY <2>1, MoveKeepsCommands DEF ParamsConnection, ServicePc
    <2>2. CASE ParamsQuery(r)
      BY <2>2, MoveKeepsCommands DEF ParamsQuery, ServicePc
    <2>3. CASE FindDecoder(r)
      BY <2>3, MoveKeepsCommands DEF FindDecoder, ServicePc
    <2> QED
      BY <1>3, <2>1, <2>2, <2>3
  <1>4. ASSUME NEW r \in Http, FindDecoderThrows(r) \/ RejectRequest(r) \/ ExecuteSuspended(r)
        PROVE  CommandInv'
    <2>1. CASE FindDecoderThrows(r)
      BY <2>1, MoveKeepsCommands DEF FindDecoderThrows, ServicePc
    <2>2. CASE RejectRequest(r)
      BY <2>2, MoveKeepsCommands DEF RejectRequest, ServicePc
    <2>3. CASE ExecuteSuspended(r)
      BY <2>3, MoveKeepsCommands DEF ExecuteSuspended, ServicePc
    <2> QED
      BY <1>4, <2>1, <2>2, <2>3
  <1>5. ASSUME NEW r \in Http, ReleaseConnection(r) \/ ReleaseDecoder(r)
        PROVE  CommandInv'
    <2>1. CASE ReleaseConnection(r)
      BY <2>1, MoveKeepsCommands DEF ReleaseConnection, ServicePc
    <2>2. CASE ReleaseDecoder(r)
      BY <2>2, MoveKeepsCommands DEF ReleaseDecoder, ServicePc
    <2> QED
      BY <1>5, <2>1, <2>2
  <1>6. ASSUME NEW r \in Http, TakeResult(r) \/ TooManyRedirects(r)
        PROVE  CommandInv'
    <2>1. CASE TakeResult(r)
      BY <2>1, ResultKeepsCommands DEF TakeResult
    <2>2. CASE TooManyRedirects(r)
      BY <2>2, ResultKeepsCommands DEF TooManyRedirects
    <2> QED
      BY <1>6, <2>1, <2>2
  <1>7. ASSUME MainStep \/ SigTerm \/ HourPasses \/ UNCHANGED serviceVars
        PROVE  CommandInv'
    BY <1>1, <1>7 DEF MainStep, StopWebserver, Shutdown, WaitForTermination, SigTerm, HourPasses,
                     serviceVars
  <1>8. ASSUME NEW r \in Http, RequestStep(r)
        PROVE  CommandInv'
    BY <1>2, <1>3, <1>4, <1>5, <1>6, <1>8, <1>10, <1>11, ExecuteKeepsCommands, RemoveKeepsCommands
       DEF RequestStep
  <1>9. ASSUME NEW d \in Thread, ThreadStep(d)
        PROVE  CommandInv'
    BY <1>9, ThreadGetKeepsCommands, DecodeKeepsCommands, ThreadExitKeepsCommands DEF ThreadStep
  <1> QED
    BY <1>2, <1>4, <1>7, <1>8, <1>9, <1>11 DEF ServiceNext, Ended

\* DecoderExecutor never runs a command whose request is gone, or one command twice, also
\* while requests take their commands back in shutdown.
THEOREM CommandsAreAlive == ServiceSpec => []CommandIsAlive
  <1>1. CommandInv => CommandIsAlive
    BY DEF CommandInv
  <1> QED
    BY <1>1, CommandInit, CommandStep, PTL DEF ServiceSpec

\* A request that waits in decodeExecute has a command that is done, in work, or queued
\* with a thread left: the pool drains its queue before its threads end.
THEOREM CommandsAreServed == ServiceSpec => []CommandIsServed
  <1>1. CommandInv => CommandIsServed
    BY DEF CommandInv
  <1> QED
    BY <1>1, CommandInit, CommandStep, PTL DEF ServiceSpec

----------------------------------------------------------------------------
(* The mutex, the queue's room and the types *)

Critical == {"params", "query", "refree", "find"}

\* DataSrcApp::mutex is held by the request that is between taking it in create and
\* leaving findDecoder, so the parameters and the decoder factories have one user.
MutexInv ==
    /\ \A r \in Http : r \in mutex <=> pc[r] \in Critical
    /\ \A r, s \in mutex : r = s

\* The part of the state that neither PlaceInv nor CommandInv describes.
RestTypes ==
    /\ mutex \subseteq Http /\ paramsDue \in BOOLEAN /\ refreed \in BOOLEAN
    /\ redirects \in [Http -> 0..(RedirectLimit + 1)] /\ again \in [Http -> BOOLEAN]
    /\ suspended \in BOOLEAN /\ gone \subseteq Thread
    /\ sigTerm \in BOOLEAN /\ main \in {"serve", "stopped", "joining", "down"}
    /\ requests \in 0..MaxRequests /\ mishaps \in 0..MaxMishaps

\* A mishap stays within its bound.
LEMMA MishapType ==
    ASSUME mishaps \in 0..MaxMishaps, Mishap \/ UNCHANGED mishaps
    PROVE  mishaps' \in 0..MaxMishaps
  BY InputServiceAssumption DEF Mishap

\* A step of a request keeps these types; redirectCount passes the limit by one at most.
LEMMA RequestTypes ==
    ASSUME RestTypes, NEW r \in Http,
           RenderPost(r) \/ RequestStep(r) \/ ParamsQueryThrows(r) \/ FindDecoderThrows(r)
    PROVE  RestTypes'
  <1> USE DEF mainVars, boundVars, poolVars, paramsVars
  <1>1. CASE RenderPost(r)
    BY <1>1, InputServiceAssumption DEF RenderPost, RestTypes
  <1>2. CASE FindDecoderThrows(r)
    BY <1>2, MishapType DEF FindDecoderThrows, RestTypes
  <1>3. CASE LockMutex(r)
    BY <1>3 DEF LockMutex, RestTypes
  <1>4. CASE ParamsQuery(r) \/ FreeParamsConnection(r)
    BY <1>4 DEF ParamsQuery, FreeParamsConnection, RestTypes
  <1>9. CASE ParamsQueryThrows(r)
    BY <1>9, MishapType DEF ParamsQueryThrows, RestTypes
  <1>5. CASE FindDecoder(r)
    BY <1>5 DEF FindDecoder, RestTypes
  <1>6. CASE TakeResult(r)
    <2>1. redirects' \in [Http -> 0..(RedirectLimit + 1)]
      BY <1>6, InputServiceAssumption DEF TakeResult, RestTypes
    <2>2. (result[r] = "redirect") \in BOOLEAN
      OBVIOUS
    <2>3. again' \in [Http -> BOOLEAN]
      BY <1>6, <2>2 DEF TakeResult, RestTypes
    <2> QED
      BY <1>6, <2>1, <2>3 DEF TakeResult, RestTypes
  <1>7. CASE ReleaseDecoder(r)
    BY <1>7 DEF ReleaseDecoder, RestTypes
  <1>8. CASE \/ FindFreeConnection(r) \/ NoDbConnection(r) \/ ParamsConnection(r)
             \/ NoParamsConnection(r) \/ RejectRequest(r)
             \/ Execute(r) \/ ExecuteSuspended(r) \/ RemoveCommand(r)
             \/ TooManyRedirects(r) \/ ReleaseConnection(r)
    <2>1. UNCHANGED <<mutex, paramsDue, refreed, redirects, again, suspended, gone, sigTerm,
                      main, requests, mishaps>>
      BY <1>8 DEF FindFreeConnection, NoDbConnection, ParamsConnection, NoParamsConnection,
                  RejectRequest, Execute,
                  ExecuteSuspended, RemoveCommand, TooManyRedirects, ReleaseConnection
    <2> QED
      BY <2>1 DEF RestTypes
  <1> QED
    BY <1>1, <1>2, <1>3, <1>4, <1>5, <1>6, <1>7, <1>8, <1>9 DEF RequestStep

\* So does every step.
LEMMA RestStep == RestTypes /\ [ServiceNext]_serviceVars => RestTypes'
  <1> SUFFICES ASSUME RestTypes, [ServiceNext]_serviceVars PROVE RestTypes'
    OBVIOUS
  <1> USE DEF mainVars, boundVars, poolVars, requestVars, paramsVars
  <1>1. ASSUME NEW d \in Thread, ThreadStep(d)
        PROVE  RestTypes'
    <2>1. CASE ThreadGet(d)
      BY <2>1 DEF ThreadGet, RestTypes
    <2>2. CASE Decode(d)
      <3>1. Mishap \/ UNCHANGED mishaps
        BY <2>2 DEF Decode
      <3>2. UNCHANGED <<mutex, paramsDue, refreed, redirects, again, suspended, gone, sigTerm,
                        main, requests>>
        BY <2>2 DEF Decode
      <3> QED
        BY <3>1, <3>2, MishapType DEF RestTypes
    <2>3. CASE ThreadExit(d)
      BY <2>3 DEF ThreadExit, RestTypes
    <2> QED
      BY <1>1, <2>1, <2>2, <2>3 DEF ThreadStep
  <1>2. CASE StopWebserver
    <2>1. Mishap \/ UNCHANGED mishaps
      BY <1>2 DEF StopWebserver
    <2> QED
      BY <1>2, <2>1, MishapType DEF StopWebserver, RestTypes
  <1>3. CASE Shutdown \/ WaitForTermination \/ SigTerm \/ HourPasses
    BY <1>3 DEF Shutdown, WaitForTermination, SigTerm, HourPasses, RestTypes
  <1>4. CASE UNCHANGED serviceVars
    BY <1>4 DEF serviceVars, RestTypes
  <1> QED
    BY <1>1, <1>2, <1>3, <1>4, RequestTypes DEF ServiceNext, MainStep, Ended

\* Every variable of the request service keeps its type, for any number of threads,
\* connections and requests.
THEOREM ServiceTypeCorrect == ServiceSpec => []ServiceTypeOK
  <1>1. ServiceInit => RestTypes
    <2> SUFFICES ASSUME ServiceInit PROVE RestTypes
      OBVIOUS
    <2>1. redirects \in [Http -> 0..(RedirectLimit + 1)]
      BY InputServiceAssumption DEF ServiceInit
    <2>2. again \in [Http -> BOOLEAN]
      BY DEF ServiceInit
    <2>3. requests \in 0..MaxRequests /\ mishaps \in 0..MaxMishaps
      BY InputServiceAssumption DEF ServiceInit
    <2> QED
      BY <2>1, <2>2, <2>3 DEF ServiceInit, RestTypes
  <1>2. BooksInv /\ CommandInv /\ RestTypes => ServiceTypeOK
    BY DEF BooksInv, PlaceInv, CommandInv, CommandTypes, RestTypes, ServiceTypeOK
  <1> QED
    BY <1>1, <1>2, BooksInit, BooksStep, CommandInit, CommandStep, RestStep, PTL
       DEF ServiceSpec

\* A request that moves between two places outside the critical section, or two inside it.
LEMMA MoveKeepsMutex ==
    ASSUME pc \in [Http -> ServicePc], MutexInv, NEW r \in Http, NEW where,
           pc' = [pc EXCEPT ![r] = where], mutex' = mutex,
           pc[r] \in Critical <=> where \in Critical
    PROVE  MutexInv'
  BY DEF MutexInv

\* A request that leaves the critical section releases the mutex, and was its only holder.
LEMMA UnlockKeepsMutex ==
    ASSUME pc \in [Http -> ServicePc], MutexInv, NEW r \in Http,
           NEW where \in {"execute", "reject", "idle"},
           pc[r] = "find", pc' = [pc EXCEPT ![r] = where], mutex' = {}
    PROVE  MutexInv'
  <1>1. \A s \in Http : s # r => s \notin mutex
    BY DEF MutexInv, Critical
  <1>2. \A s \in Http : pc'[s] \notin Critical
    BY <1>1 DEF MutexInv, Critical
  <1> QED
    BY <1>2 DEF MutexInv

\* Every step keeps the mutex with the request in the critical section.
LEMMA MutexStep ==
    ASSUME pc \in [Http -> ServicePc], MutexInv, [ServiceNext]_serviceVars
    PROVE  MutexInv'
  <1> USE DEF cacheVars, requestVars, Goto
  <1>1. ASSUME NEW r \in Http, RenderPost(r) \/ RequestStep(r) \/ ParamsQueryThrows(r)
                                 \/ FindDecoderThrows(r)
        PROVE  MutexInv'
    <2>1. CASE LockMutex(r)
      BY <2>1 DEF LockMutex, MutexInv, Critical
    <2>2. CASE FindDecoder(r)
      BY <2>2, UnlockKeepsMutex DEF FindDecoder
    <2>3. CASE FindDecoderThrows(r)
      BY <2>3, UnlockKeepsMutex DEF FindDecoderThrows
    <2>4. CASE ParamsConnection(r) \/ NoParamsConnection(r) \/ ParamsQuery(r)
      BY <2>4, MoveKeepsMutex DEF ParamsConnection, NoParamsConnection, ParamsQuery, Critical
    <2>10. CASE ParamsQueryThrows(r) \/ FreeParamsConnection(r)
      BY <2>10, MoveKeepsMutex DEF ParamsQueryThrows, FreeParamsConnection, Critical
    <2>5. CASE \/ RenderPost(r) \/ FindFreeConnection(r) \/ NoDbConnection(r)
               \/ RejectRequest(r)
      BY <2>5, MoveKeepsMutex DEF RenderPost, FindFreeConnection, NoDbConnection, RejectRequest,
                                  Critical
    <2>6. CASE Execute(r) \/ ExecuteSuspended(r) \/ RemoveCommand(r)
      BY <2>6, MoveKeepsMutex DEF Execute, ExecuteSuspended, RemoveCommand, Critical
    <2>7. CASE TakeResult(r) \/ TooManyRedirects(r)
      BY <2>7, MoveKeepsMutex DEF TakeResult, TooManyRedirects, Critical
    <2>8. CASE ReleaseConnection(r)
      BY <2>8, MoveKeepsMutex DEF ReleaseConnection, Critical
    <2>9. CASE ReleaseDecoder(r)
      BY <2>9, MoveKeepsMutex DEF ReleaseDecoder, Critical
    <2> QED
      BY <1>1, <2>1, <2>2, <2>3, <2>4, <2>5, <2>6, <2>7, <2>8, <2>9, <2>10
         DEF RequestStep
  <1>2. ASSUME UNCHANGED <<pc, mutex>>
        PROVE  MutexInv'
    BY <1>2 DEF MutexInv
  <1>3. ASSUME NEW d \in Thread, ThreadStep(d)
        PROVE  UNCHANGED <<pc, mutex>>
    BY <1>3 DEF ThreadStep, ThreadGet, Decode, ThreadExit
  <1>4. ASSUME MainStep \/ SigTerm \/ HourPasses \/ UNCHANGED serviceVars
        PROVE  UNCHANGED <<pc, mutex>>
    BY <1>4 DEF MainStep, StopWebserver, Shutdown, WaitForTermination, SigTerm, HourPasses,
               serviceVars
  <1> QED
    BY <1>1, <1>2, <1>3, <1>4 DEF ServiceNext, Ended

\* registerParams and findDecoder run in one HTTP thread at a time: the exceptions and
\* early returns of create leave no second holder and no mutex behind.
THEOREM DecoderLookupIsExclusive == ServiceSpec => []MutexInv
  <1>1. ServiceInit => MutexInv
    BY DEF ServiceInit, MutexInv, Critical
  <1>2. BooksInv /\ MutexInv /\ [ServiceNext]_serviceVars => MutexInv'
    BY MutexStep DEF BooksInv, PlaceInv
  <1> QED
    BY <1>1, <1>2, BooksInit, BooksStep, PTL DEF ServiceSpec

\* decodeExecute never meets a full queue: every queued command has a connection of its
\* own, and the queue of DecoderExecutor takes two commands for every connection.  (Until
\* the catch-all handler of registerParams has run and two commands share a connection.)
QueueHasRoom == ~refreed => Len(queue) <= NCon

\* The queued commands have different connections, so there are at most NCon of them.
LEMMA QueueFitsConnections ==
    ASSUME ConnectionInv, CommandInv
    PROVE  Len(queue) <= NCon
  <1> DEFINE n == Len(queue)
             f == [i \in 1..n |-> con[queue[i]]]
  <1>1. n \in Nat /\ \A i \in 1..n : queue[i] \in Http /\ pc[queue[i]] = "wait"
    BY DEF CommandInv, CommandTypes, QueueInv
  <1>2. \A i \in 1..n : con[queue[i]] \in Con /\ con[queue[i]] \in Uses(queue[i])
    BY <1>1, InputServiceAssumption DEF ConnectionInv, PlaceInv, HolderInv, Connected, Con, Uses
  <1>3. \A i, j \in 1..n : i # j => con[queue[i]] # con[queue[j]]
    <2>1. \A i, j \in 1..n : i # j => queue[i] # queue[j]
      BY DEF CommandInv, QueueInv
    <2>2. \A r, s \in Http : r # s => Uses(r) \cap Uses(s) = {}
      BY DEF ConnectionInv, CacheIsExact
    <2> QED
      BY <1>1, <1>2, <2>1, <2>2
  <1>4. f \in Injection(1..n, Con)
    BY <1>2, <1>3 DEF Injection, IsInjective
  <1>5. Cardinality(1..n) = n /\ IsFiniteSet(Con) /\ Cardinality(Con) = NCon
    <2>1. \A m \in Nat : Cardinality(1..m) = m
      <3>1. ASSUME NEW m \in Nat PROVE Cardinality(1..m) = m
        BY FS_Interval
      <3> QED
        BY <3>1
    <2>2. IsFiniteSet(1..NCon) /\ Cardinality(1..NCon) = NCon
      BY InputServiceAssumption, FS_Interval
    <2> QED
      BY <1>1, <2>1, <2>2 DEF Con
  <1>6. Cardinality(1..n) <= Cardinality(Con)
    BY <1>4, <1>5, FS_Injection
  <1> QED
    BY <1>5, <1>6

\* The guard of Execute on the length of the queue never makes a request wait, as long as
\* no connection has been freed twice.
THEOREM QueueNeverFills == ServiceSpec => []QueueHasRoom
  <1>1. BooksInv /\ CommandInv => QueueHasRoom
    BY QueueFitsConnections DEF BooksInv, ConnectionInv, ConnectionHasOneUser, QueueHasRoom
  <1> QED
    BY <1>1, BooksInit, BooksStep, CommandInit, CommandStep, PTL DEF ServiceSpec
=============================================================================
