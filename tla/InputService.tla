---------------------------- MODULE InputService ----------------------------
(* kvDataInputd as a service: HTTP threads turn a request into a             *)
(* DecodeCommand, which needs a database connection from ConnectionCache and *)
(* the mutex of DataSrcApp, hand it to the threads of DecoderExecutor, wait  *)
(* for the result and follow redirects; SIGTERM shuts it all down.           *)
(* A thread serves one request at a time, and a request has one command at a *)
(* time, so the HTTP thread stands for its request and its command.          *)
EXTENDS Integers, FiniteSets, SequencesExt

CONSTANTS
    Http,           \* HTTP threads (5 by default)
    NCon,           \* nWorkerThreads: database connections and decoder threads (3)
    RedirectLimit,  \* redirectCount above this is too many (5 in the code)
    LookupMayThrow, \* may a decoder factory throw?
    MaxRequests,    \* bound: requests in one behaviour
    MaxMishaps      \* bound: exceptions in create, endless redirects, SIGABRTs

ASSUME InputServiceAssumption ==
    /\ IsFiniteSet(Http)
    /\ NCon \in Nat \ {0} /\ RedirectLimit \in Nat
    /\ LookupMayThrow \in BOOLEAN
    /\ MaxRequests \in Nat /\ MaxMishaps \in Nat

VARIABLES
    free,       \* ConnectionCache: the connections marked as free
    nFree,      \* ConnectionCache: the counter findFreeConnection waits on
    mutex,      \* DataSrcApp::mutex: {} or the thread that holds it
    paramsDue,  \* the hour of nextParamCheckTime has come
    refreed,    \* history: registerParams has met an exception it does not know
    pc,         \* where an HTTP thread is in newObservation
    con,        \* the connection of its command, 0 for none
    paramCon,   \* the connection registerParams holds for it, 0 for none
    redirects,  \* redirectCount
    again,      \* redirect: another round of the loop follows
    result,     \* resQue of its command: empty, or the result of the decoder
    queue,      \* runQueue of the thread pool
    suspended,  \* runQueue.suspended
    running,    \* the command a decoder thread is working on, {} for none
    gone,       \* decoder threads that have ended
    sigTerm,    \* SIGTERM has been received
    main,       \* where main() is
    requests,   \* number of requests so far
    mishaps     \* number of mishaps so far

cacheVars == <<free, nFree>>
paramsVars == <<paramsDue, refreed>>
poolVars == <<queue, suspended, running, gone>>
mainVars == <<sigTerm, main>>
requestVars == <<pc, con, paramCon, redirects, again, result>>
boundVars == <<requests, mishaps>>
serviceVars == <<cacheVars, mutex, paramsVars, requestVars, poolVars, mainVars, boundVars>>

Con == 1..NCon
Thread == 1..NCon

ServicePc == {"idle", "connect", "lock", "params", "query", "refree", "find",
              "reject", "execute", "wait", "free", "unref"}

ServiceTypeOK ==
    /\ free \subseteq Con /\ nFree \in Int
    /\ mutex \subseteq Http
    /\ paramsDue \in BOOLEAN /\ refreed \in BOOLEAN
    /\ pc \in [Http -> ServicePc]
    /\ con \in [Http -> 0..NCon] /\ paramCon \in [Http -> 0..NCon]
    /\ redirects \in [Http -> 0..(RedirectLimit + 1)]
    /\ again \in [Http -> BOOLEAN]
    /\ result \in [Http -> {"none", "redirect", "done"}]
    /\ queue \in Seq(Http) /\ suspended \in BOOLEAN
    /\ running \in [Thread -> SUBSET Http]
    /\ gone \subseteq Thread
    /\ sigTerm \in BOOLEAN
    /\ main \in {"serve", "stopped", "joining", "down"}
    /\ requests \in 0..MaxRequests /\ mishaps \in 0..MaxMishaps

\* registerDb has filled the cache, registerParams has run once, the threads are up.
ServiceInit ==
    /\ free = Con /\ nFree = NCon
    /\ mutex = {} /\ paramsDue = FALSE /\ refreed = FALSE
    /\ pc = [r \in Http |-> "idle"]
    /\ con = [r \in Http |-> 0] /\ paramCon = [r \in Http |-> 0]
    /\ redirects = [r \in Http |-> 0]
    /\ again = [r \in Http |-> FALSE]
    /\ result = [r \in Http |-> "none"]
    /\ queue = <<>> /\ suspended = FALSE
    /\ running = [d \in Thread |-> {}] /\ gone = {}
    /\ sigTerm = FALSE /\ main = "serve"
    /\ requests = 0 /\ mishaps = 0

Mishap == mishaps < MaxMishaps /\ mishaps' = mishaps + 1

Goto(r, where) == pc' = [pc EXCEPT ![r] = where]

\* findFreeConnection: wait for nFree > 0, take the first free connection of the map.
IsFirstFree(c) == c \in free /\ \A d \in free : c <= d

TakeConnection(c) ==
    /\ nFree > 0 /\ IsFirstFree(c)
    /\ free' = free \ {c}
    /\ nFree' = nFree - 1

\* Mutant: a connection is counted twice.
FreeConnectionTwice(c) ==
    /\ free' = free \cup {c}
    /\ nFree' = nFree + 2

\* freeConnection counts up, whether the connection was in use or not.
FreeConnection(c) ==
    /\ free' = free \cup {c}
    /\ nFree' = nFree + 1

\* nFree promises a connection and there is none: nullptr, and the counter starts over.
NoneIsFree ==
    /\ nFree > 0 /\ free = {}
    /\ nFree' = 0 /\ UNCHANGED free

----------------------------------------------------------------------------
\* create: a connection, then the decoder under the mutex

\* render_POST; in shutdown the answer is 503 at once.
RenderPost(r) ==
    /\ pc[r] = "idle" /\ ~sigTerm
    /\ requests < MaxRequests /\ requests' = requests + 1
    /\ Goto(r, "connect")
    /\ redirects' = [redirects EXCEPT ![r] = 0]
    /\ UNCHANGED <<cacheVars, mutex, paramsVars, con, paramCon, again, result, poolVars,
                   mainVars, mishaps>>

FindFreeConnection(r) ==
    /\ pc[r] = "connect"
    /\ \E c \in Con : TakeConnection(c) /\ con' = [con EXCEPT ![r] = c]
    /\ Goto(r, "lock")
    /\ UNCHANGED <<mutex, paramsVars, paramCon, redirects, again, result, poolVars, mainVars,
                   boundVars>>

\* NoDbConnection: create answers at once.
NoDbConnection(r) ==
    /\ pc[r] = "connect"
    /\ NoneIsFree
    /\ Goto(r, "idle")
    /\ UNCHANGED <<mutex, paramsVars, con, paramCon, redirects, again, result, poolVars,
                   mainVars, boundVars>>

\* The mutex is taken, and registerParams looks at the time.
LockMutex(r) ==
    /\ pc[r] = "lock" /\ mutex = {}
    /\ mutex' = {r}
    /\ Goto(r, IF paramsDue THEN "params" ELSE "find")
    /\ UNCHANGED <<cacheVars, paramsVars, con, paramCon, redirects, again, result, poolVars,
                   mainVars, boundVars>>

\* registerParams takes a connection of its own, the mutex held.
ParamsConnection(r) ==
    /\ pc[r] = "params"
    /\ \E c \in Con : TakeConnection(c) /\ paramCon' = [paramCon EXCEPT ![r] = c]
    /\ Goto(r, "query")
    /\ UNCHANGED <<mutex, paramsVars, con, redirects, again, result, poolVars, mainVars,
                   boundVars>>

\* registerParams returns, the parameters as they were and the next check still due.
NoParamsConnection(r) ==
    /\ pc[r] = "params"
    /\ NoneIsFree
    /\ Goto(r, "find")
    /\ UNCHANGED <<mutex, paramsVars, con, paramCon, redirects, again, result, poolVars,
                   mainVars, boundVars>>

\* The parameters are read, or an SQLException leaves the next check due.
ParamsQuery(r) ==
    /\ pc[r] = "query"
    /\ FreeConnection(paramCon[r])
    /\ paramCon' = [paramCon EXCEPT ![r] = 0]
    /\ paramsDue' \in BOOLEAN
    /\ Goto(r, "find")
    /\ UNCHANGED <<mutex, refreed, con, redirects, again, result, poolVars, mainVars,
                   boundVars>>

\* The handler of any other exception frees the connection and does not return, ...
ParamsQueryThrows(r) ==
    /\ pc[r] = "query"
    /\ Mishap
    /\ FreeConnection(paramCon[r])
    /\ refreed' = TRUE
    /\ Goto(r, "refree")
    /\ UNCHANGED <<mutex, paramsDue, con, paramCon, redirects, again, result, poolVars,
                   mainVars, requests>>

\* ... so it is freed again, whoever has found it in the meantime.
FreeParamsConnection(r) ==
    /\ pc[r] = "refree"
    /\ FreeConnection(paramCon[r])
    /\ paramCon' = [paramCon EXCEPT ![r] = 0]
    /\ paramsDue' = FALSE
    /\ Goto(r, "find")
    /\ UNCHANGED <<mutex, refreed, con, redirects, again, result, poolVars, mainVars,
                   boundVars>>

\* findDecoder knows the observation type, or not; the mutex is released.
FindDecoder(r) ==
    /\ pc[r] = "find"
    /\ mutex' = {}
    /\ \E where \in {"execute", "reject"} : Goto(r, where)
    /\ UNCHANGED <<cacheVars, paramsVars, con, paramCon, redirects, again, result, poolVars,
                   mainVars, boundVars>>

\* An exception leaves create; getDecoder catches it, nobody frees the connection.
FindDecoderThrows(r) ==
    /\ pc[r] = "find" /\ LookupMayThrow
    /\ Mishap
    /\ mutex' = {}
    /\ con' = [con EXCEPT ![r] = 0]
    /\ Goto(r, "idle")
    /\ UNCHANGED <<cacheVars, paramsVars, paramCon, redirects, again, result, poolVars, mainVars,
                   requests>>

\* Mutant: the answer without a decoder forgets the connection.
RejectRequestKeeping(r) ==
    /\ pc[r] = "reject"
    /\ con' = [con EXCEPT ![r] = 0]
    /\ Goto(r, "idle")
    /\ UNCHANGED <<cacheVars, mutex, paramsVars, paramCon, redirects, again, result, poolVars,
                   mainVars, boundVars>>

\* NoDecoder
RejectRequest(r) ==
    /\ pc[r] = "reject"
    /\ FreeConnection(con[r])
    /\ con' = [con EXCEPT ![r] = 0]
    /\ Goto(r, "idle")
    /\ UNCHANGED <<mutex, paramsVars, paramCon, redirects, again, result, poolVars, mainVars,
                   boundVars>>

----------------------------------------------------------------------------
\* decodeExecute and the rest of newObservation

\* The command goes to the queue when there is room: it takes two commands for every
\* connection.
Execute(r) ==
    /\ pc[r] = "execute" /\ ~suspended /\ Len(queue) < 2 * NCon
    /\ queue' = Append(queue, r)
    /\ Goto(r, "wait")
    /\ UNCHANGED <<cacheVars, mutex, paramsVars, con, paramCon, redirects, again, result,
                   suspended, running, gone, mainVars, boundVars>>

\* QueueSuspended
ExecuteSuspended(r) ==
    /\ pc[r] = "execute" /\ suspended
    /\ Goto(r, "free")
    /\ UNCHANGED <<cacheVars, mutex, paramsVars, con, paramCon, redirects, again, result,
                   poolVars, mainVars, boundVars>>

\* Mutant: the command is given up in shutdown, wherever it is.
AbandonCommand(r) ==
    /\ pc[r] = "wait" /\ result[r] = "none" /\ sigTerm
    /\ queue' = SelectSeq(queue, LAMBDA q : q # r)
    /\ Goto(r, "free")
    /\ UNCHANGED <<cacheVars, mutex, paramsVars, con, paramCon, redirects, again, result,
                   suspended, running, gone, mainVars, boundVars>>

\* Mutant: the command is queued again instead of given up.
RequeueCommand(r) ==
    /\ pc[r] = "wait" /\ result[r] = "none" /\ sigTerm
    /\ \E i \in DOMAIN queue : queue[i] = r /\ queue' = RemoveAt(queue, i)
    /\ Goto(r, "execute")
    /\ UNCHANGED <<cacheVars, mutex, paramsVars, con, paramCon, redirects, again, result,
                   suspended, running, gone, mainVars, boundVars>>

\* The wait times out in shutdown and the command is still in the queue.
RemoveCommand(r) ==
    /\ pc[r] = "wait" /\ result[r] = "none" /\ sigTerm
    /\ \E i \in DOMAIN queue : queue[i] = r /\ queue' = RemoveAt(queue, i)
    /\ Goto(r, "free")
    /\ UNCHANGED <<cacheVars, mutex, paramsVars, con, paramCon, redirects, again, result,
                   suspended, running, gone, mainVars, boundVars>>

\* Mutant: the redirects are not counted against the limit.
TakeAnyResult(r) ==
    /\ pc[r] = "wait" /\ result[r] # "none"
    /\ again' = [again EXCEPT ![r] = result[r] = "redirect"]
    /\ redirects' = [redirects EXCEPT ![r] = IF result[r] = "redirect" THEN @ + 1 ELSE @]
    /\ result' = [result EXCEPT ![r] = "none"]
    /\ Goto(r, "free")
    /\ UNCHANGED <<cacheVars, mutex, paramsVars, con, paramCon, poolVars, mainVars, boundVars>>

\* The result is there: answer the request, or follow the redirect.
TakeResult(r) ==
    /\ pc[r] = "wait" /\ result[r] # "none"
    /\ result[r] = "redirect" => redirects[r] <= RedirectLimit
    /\ again' = [again EXCEPT ![r] = result[r] = "redirect"]
    /\ redirects' = [redirects EXCEPT ![r] = IF result[r] = "redirect" THEN @ + 1 ELSE @]
    /\ result' = [result EXCEPT ![r] = "none"]
    /\ Goto(r, "free")
    /\ UNCHANGED <<cacheVars, mutex, paramsVars, con, paramCon, poolVars, mainVars, boundVars>>

\* newObservation throws and forgets the command with its connection.
TooManyRedirects(r) ==
    /\ pc[r] = "wait" /\ result[r] = "redirect" /\ redirects[r] > RedirectLimit
    /\ con' = [con EXCEPT ![r] = 0]
    /\ result' = [result EXCEPT ![r] = "none"]
    /\ Goto(r, "idle")
    /\ UNCHANGED <<cacheVars, mutex, paramsVars, paramCon, redirects, again, poolVars, mainVars,
                   boundVars>>

\* releaseDecodeCommand: first the connection, ...
ReleaseConnection(r) ==
    /\ pc[r] = "free"
    /\ FreeConnection(con[r])
    /\ con' = [con EXCEPT ![r] = 0]
    /\ Goto(r, "unref")
    /\ UNCHANGED <<mutex, paramsVars, paramCon, redirects, again, result, poolVars, mainVars,
                   boundVars>>

\* ... then the decoder, under the mutex; the loop starts over with redirect = false.
ReleaseDecoder(r) ==
    /\ pc[r] = "unref" /\ mutex = {}
    /\ Goto(r, IF again[r] THEN "connect" ELSE "idle")
    /\ again' = [again EXCEPT ![r] = FALSE]
    /\ UNCHANGED <<cacheVars, mutex, paramsVars, con, paramCon, redirects, result, poolVars,
                   mainVars, boundVars>>

----------------------------------------------------------------------------
\* The threads of the pool: runnerProc

\* get, and after suspend the same by getAfterSuspend until the queue is empty.
ThreadGet(d) ==
    /\ d \notin gone /\ running[d] = {} /\ queue # <<>>
    /\ running' = [running EXCEPT ![d] = {Head(queue)}]
    /\ queue' = Tail(queue)
    /\ UNCHANGED <<cacheVars, mutex, paramsVars, requestVars, suspended, gone, mainVars,
                   boundVars>>

\* DecodeCommand::run and, in afterExecute, signal.  A redirect after too many of them
\* is a mishap of the message.
Decode(d) ==
    \E r \in running[d], res \in {"done", "redirect"} :
        /\ IF res = "redirect" /\ redirects[r] > RedirectLimit THEN Mishap
           ELSE UNCHANGED mishaps
        /\ result' = [result EXCEPT ![r] = res]
        /\ running' = [running EXCEPT ![d] = {}]
        /\ UNCHANGED <<cacheVars, mutex, paramsVars, pc, con, paramCon, redirects, again, queue,
                       suspended, gone, mainVars, requests>>

\* Mutant: a suspended thread leaves what is queued.
ThreadExitEarly(d) ==
    /\ d \notin gone /\ running[d] = {} /\ suspended
    /\ gone' = gone \cup {d}
    /\ UNCHANGED <<cacheVars, mutex, paramsVars, requestVars, queue, suspended, running,
                   mainVars, boundVars>>

ThreadExit(d) ==
    /\ d \notin gone /\ running[d] = {} /\ suspended /\ queue = <<>>
    /\ gone' = gone \cup {d}
    /\ UNCHANGED <<cacheVars, mutex, paramsVars, requestVars, queue, suspended, running,
                   mainVars, boundVars>>

----------------------------------------------------------------------------
\* main() and the clock

HourPasses ==
    /\ ~paramsDue
    /\ paramsDue' = TRUE
    /\ UNCHANGED <<cacheVars, mutex, refreed, requestVars, poolVars, mainVars, boundVars>>

SigTerm ==
    /\ ~sigTerm
    /\ sigTerm' = TRUE
    /\ UNCHANGED <<cacheVars, mutex, paramsVars, requestVars, poolVars, main, boundVars>>

\* ws.stop() returns when the HTTP threads have ended, or main() jumps out of it on a
\* SIGABRT.
StopWebserver ==
    /\ main = "serve" /\ sigTerm
    /\ IF \A r \in Http : pc[r] = "idle" THEN UNCHANGED mishaps ELSE Mishap
    /\ main' = "stopped"
    /\ UNCHANGED <<cacheVars, mutex, paramsVars, requestVars, poolVars, sigTerm, requests>>

\* DataSrcApp::shutdown suspends the queue ...
Shutdown ==
    /\ main = "stopped"
    /\ suspended' = TRUE
    /\ main' = "joining"
    /\ UNCHANGED <<cacheVars, mutex, paramsVars, requestVars, queue, running, gone, sigTerm,
                   boundVars>>

\* ... and joins the threads; main() returns.
WaitForTermination ==
    /\ main = "joining" /\ gone = Thread
    /\ main' = "down"
    /\ UNCHANGED <<cacheVars, mutex, paramsVars, requestVars, poolVars, sigTerm, boundVars>>

RequestStep(r) ==
    \/ FindFreeConnection(r) \/ NoDbConnection(r) \/ LockMutex(r)
    \/ ParamsConnection(r) \/ NoParamsConnection(r) \/ ParamsQuery(r)
    \/ FreeParamsConnection(r)
    \/ FindDecoder(r) \/ RejectRequest(r)
    \/ Execute(r) \/ ExecuteSuspended(r) \/ RemoveCommand(r)
    \/ TakeResult(r) \/ TooManyRedirects(r)
    \/ ReleaseConnection(r) \/ ReleaseDecoder(r)

ThreadStep(d) == ThreadGet(d) \/ Decode(d) \/ ThreadExit(d)

MainStep == StopWebserver \/ Shutdown \/ WaitForTermination

\* Nothing happens in a process that has ended.
Ended == main = "down" /\ UNCHANGED serviceVars

ServiceNext ==
    \/ /\ main # "down"
       /\ \/ \E r \in Http : RenderPost(r) \/ RequestStep(r)
                            \/ ParamsQueryThrows(r) \/ FindDecoderThrows(r)
          \/ \E d \in Thread : ThreadStep(d)
          \/ MainStep \/ SigTerm \/ HourPasses
    \/ Ended

ServiceSpec == ServiceInit /\ [][ServiceNext]_serviceVars

\* Every thread of the process is scheduled.
ServiceFairSpec ==
    /\ ServiceSpec
    /\ \A r \in Http : WF_serviceVars(main # "down" /\ RequestStep(r))
    /\ \A d \in Thread : WF_serviceVars(main # "down" /\ ThreadStep(d))
    /\ WF_serviceVars(main # "down" /\ MainStep)

----------------------------------------------------------------------------
(* Properties *)

\* The connections a request has taken from the cache and not given back.
Uses(r) == {con[r], paramCon[r]} \ {0}

\* A connection has one user at a time, a connection in use is not marked as free, and
\* the counter that findFreeConnection trusts is the number of free ones.
CacheIsExact ==
    /\ \A r, s \in Http : r # s => Uses(r) \cap Uses(s) = {}
    /\ \A r \in Http : con[r] # 0 => con[r] # paramCon[r]
    /\ \A r \in Http : Uses(r) \cap free = {}
    /\ nFree = Cardinality(free)

\* The cache is exact whatever path of create and newObservation gave the connections
\* back, one excepted: until the catch-all handler of registerParams has run, which frees
\* a connection twice.
ConnectionHasOneUser == ~refreed => CacheIsExact

\* ConnectionCache.h, findFreeConnection: "find a unused connection in the cache and
\* return it."  Two requests never decode with the same connection.
FoundIsUnused == \A r, s \in Http : r # s /\ con[r] # 0 => con[r] # con[s]

\* A decoder thread works only on commands whose request still waits for them, and no two
\* threads on the same one: a request that is answered in shutdown has its command back.
CommandIsAlive ==
    /\ \A d \in Thread, r \in Http : r \in running[d] => pc[r] = "wait" /\ result[r] = "none"
    /\ \A d, e \in Thread : d # e => running[d] \cap running[e] = {}

\* A waiting request gets its answer from somebody: its command is done, or in the hands of
\* a thread, or in the queue while a thread is left to take it.
CommandIsServed ==
    \A r \in Http : pc[r] = "wait" =>
        \/ result[r] # "none"
        \/ \E d \in Thread : r \in running[d]
        \/ (\E i \in DOMAIN queue : queue[i] = r) /\ gone # Thread

\* Every request is answered, also in shutdown, as long as there are more connections than
\* HTTP threads and lost connections.
RequestIsAnswered == \A r \in Http : pc[r] # "idle" ~> pc[r] = "idle" \/ main = "down"

\* SIGTERM ends the process.
ShutdownCompletes == sigTerm ~> main = "down"

\* DataSrcApp.h: create gives up "if no connection is made available in the time limit".
CreateReturns ==
    \A r \in Http : pc[r] \in {"connect", "lock", "params"}
                        ~> pc[r] \notin {"connect", "lock", "params"}

\* ConnectionCache.h: a connection that is not needed any more "must be marked as ready
\* for reuse by a call to freeConnection".
ConnectionsAreReturned == \A c \in Con \ free : \E r \in Http : c \in Uses(r)
=============================================================================
