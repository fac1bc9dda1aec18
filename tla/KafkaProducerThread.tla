------------------------ MODULE KafkaProducerThread ------------------------
(* lib/kvsubscribe, KafkaProducerThread with the BlockingQueuePtr of           *)
(* lib/miutil: threads of kvDataInputd post commands on a bounded queue, one   *)
(* thread hands them to librdkafka and passes on its delivery reports, and     *)
(* shutdown suspends the queue and drains it.                                  *)
EXTENDS Naturals, FiniteSets, Sequences, SequencesExt

CONSTANTS
    Cmd,         \* commands, each posted once
    NoCmd,       \* a null pointer
    QueueSize,   \* maxSize of the queue (50)
    BufferSize   \* messages that librdkafka takes before reports are fetched

ASSUME ProducerAssumption ==
    /\ IsFiniteSet(Cmd) /\ NoCmd \notin Cmd
    /\ QueueSize \in Nat \ {0} /\ BufferSize \in Nat \ {0}

VARIABLES
    post,        \* what has become of timedAdd
    queue,       \* dataQueue
    suspended,   \* the queue's flag
    pc,          \* where the kafka thread is
    hand,        \* the command that it has taken
    waitingAck,  \* commands that are sent
    sent,        \* what librdkafka does with a message
    topic,       \* messages in the topic
    report,      \* onSuccess or onError has been called
    lost,        \* commands that produce refused
    main         \* DataSrcApp::shutdown

postVars == <<post, queue, suspended>>
threadVars == <<pc, hand, waitingAck, report, lost>>
kafkaVars == <<sent, topic>>
vars == <<postVars, threadVars, kafkaVars, main>>

Pc == {"catchup", "get", "wait", "send", "drain", "drainSend", "flush", "exit", "undefined"}

ProducerTypeOK ==
    /\ post \in [Cmd -> {"new", "waits", "accepted", "refused"}]
    /\ queue \in Seq(Cmd) /\ Len(queue) <= QueueSize
    /\ suspended \in BOOLEAN /\ pc \in Pc /\ hand \in Cmd \cup {NoCmd}
    /\ waitingAck \subseteq Cmd /\ topic \subseteq Cmd /\ lost \subseteq Cmd
    /\ sent \in [Cmd -> {"none", "sent", "delivered", "failed"}]
    /\ report \in [Cmd -> {"none", "success", "error"}]
    /\ main \in {"runs", "joins", "joined", "detached", "gone"}

ProducerInit ==
    /\ post = [c \in Cmd |-> "new"] /\ queue = <<>> /\ suspended = FALSE
    /\ pc = "catchup" /\ hand = NoCmd /\ waitingAck = {}
    /\ sent = [c \in Cmd |-> "none"] /\ topic = {}
    /\ report = [c \in Cmd |-> "none"] /\ lost = {}
    /\ main = "runs"

\* The process runs: it has not ended, and has not done what is undefined.
Alive == main # "gone" /\ pc # "undefined"

----------------------------------------------------------------------------
(* postOnRawQue and publishData: timedAdd, for 4 seconds.  Whoever posts       *)
(* deletes the command if timedAdd throws.                                     *)

\* Mutant: one too many.
HasRoomForOneMore == Len(queue) <= QueueSize

HasRoom == Len(queue) < QueueSize

Pushed(c) ==
    /\ ~suspended /\ HasRoom
    /\ queue' = Append(queue, c)
    /\ post' = [post EXCEPT ![c] = "accepted"]

Refused(c) ==
    /\ post' = [post EXCEPT ![c] = "refused"]
    /\ UNCHANGED queue

TimedAdd(c) ==
    /\ Alive /\ post[c] = "new"
    /\ \/ Pushed(c)
       \/ suspended /\ Refused(c)
       \/ /\ ~suspended /\ ~HasRoom
          /\ post' = [post EXCEPT ![c] = "waits"]
          /\ UNCHANGED queue
    /\ UNCHANGED <<suspended, threadVars, kafkaVars, main>>

\* Woken up because there is room or because the queue is suspended, or the time is up.
TimedAddEnds(c) ==
    /\ Alive /\ post[c] = "waits"
    /\ \/ Pushed(c)
       \/ suspended /\ Refused(c)
       \/ ~suspended /\ ~HasRoom /\ Refused(c)
    /\ UNCHANGED <<suspended, threadVars, kafkaVars, main>>

----------------------------------------------------------------------------
(* The kafka thread: run and drainQue. *)

Goto(l) == pc' = l

\* poll calls dr_cb for the reports that have come.
Reports == {c \in Cmd : sent[c] \in {"delivered", "failed"}}

Catchup ==
    /\ sent' = [c \in Cmd |-> IF c \in Reports THEN "none" ELSE sent[c]]
    /\ waitingAck' = waitingAck \ Reports
    /\ report' = [c \in Cmd |->
                     IF c \notin Reports \cap waitingAck THEN report[c]
                     ELSE IF sent[c] = "delivered" THEN "success" ELSE "error"]
    /\ UNCHANGED <<topic, hand, lost, postVars, main>>

CatchupInRun == Alive /\ pc = "catchup" /\ Catchup /\ Goto("get")

\* Mutant: front without pop_front.
FrontOnly(l) ==
    /\ hand' = Head(queue) /\ UNCHANGED queue
    /\ Goto(l)

\* front and pop_front
Pop(l) ==
    /\ hand' = Head(queue) /\ queue' = Tail(queue)
    /\ Goto(l)

\* The queue is tried before waiting only if it is not suspended, afterwards in any case.
TimedGet ==
    /\ Alive /\ queue # <<>>
    /\ pc = "wait" \/ (pc = "get" /\ ~suspended)
    /\ Pop("send")
    /\ UNCHANGED <<post, suspended, waitingAck, report, lost, kafkaVars, main>>

TimedGetWaits ==
    /\ Alive /\ pc = "get" /\ ~suspended /\ queue = <<>>
    /\ Goto("wait")
    /\ UNCHANGED <<hand, waitingAck, report, lost, postVars, kafkaVars, main>>

\* Mutant: waiting has no end.
WaitsForever == FALSE

\* A null pointer after half a second: there is nothing to send.
TimedGetTimeout ==
    /\ Alive /\ pc = "wait" /\ ~suspended /\ queue = <<>>
    /\ Goto("catchup")
    /\ UNCHANGED <<hand, waitingAck, report, lost, postVars, kafkaVars, main>>

\* Woken up by suspend: front and pop_front of a deque that is empty.
TimedGetUndefined ==
    /\ Alive /\ pc = "wait" /\ suspended /\ queue = <<>>
    /\ Goto("undefined")
    /\ UNCHANGED <<hand, waitingAck, report, lost, postVars, kafkaVars, main>>

\* QueueSuspended ends the loop.
TimedGetSuspended ==
    /\ Alive /\ pc = "get" /\ suspended
    /\ Goto("drain")
    /\ UNCHANGED <<hand, waitingAck, report, lost, postVars, kafkaVars, main>>

\* librdkafka has room: a message counts until its report has been fetched.
Takes == Cardinality({c \in Cmd : sent[c] # "none"}) < BufferSize

\* produce, onSend, waitingAck.
Send(from, to) ==
    /\ Alive /\ pc = from /\ Takes
    /\ sent' = [sent EXCEPT ![hand] = "sent"]
    /\ waitingAck' = waitingAck \cup {hand}
    /\ hand' = NoCmd
    /\ Goto(to)
    /\ UNCHANGED <<report, lost, topic, postVars, main>>

\* produce refuses, for want of room or for another reason (the message is too large):
\* the exception is caught, and nobody has the command any more.
SendFails(from, to) ==
    /\ Alive /\ pc = from
    /\ lost' = lost \cup {hand}
    /\ hand' = NoCmd
    /\ Goto(to)
    /\ UNCHANGED <<report, waitingAck, postVars, kafkaVars, main>>

\* getAfterSuspend
Drain ==
    /\ Alive /\ pc = "drain" /\ queue # <<>>
    /\ Pop("drainSend")
    /\ UNCHANGED <<post, suspended, waitingAck, report, lost, kafkaVars, main>>

DrainEnds ==
    /\ Alive /\ pc = "drain" /\ queue = <<>>
    /\ Goto("flush")
    /\ UNCHANGED <<hand, waitingAck, report, lost, postVars, kafkaVars, main>>

\* Mutant: reports are not waited for.
FlushedAtOnce == TRUE

Flushed == waitingAck = {}

CatchupInFlush == Alive /\ pc = "flush" /\ ~Flushed /\ Catchup /\ UNCHANGED pc

Exit ==
    /\ Alive /\ pc = "flush" /\ Flushed
    /\ Goto("exit")
    /\ UNCHANGED <<hand, waitingAck, report, lost, postVars, kafkaVars, main>>

ThreadStep ==
    \/ CatchupInRun \/ TimedGet \/ TimedGetWaits \/ TimedGetTimeout
    \/ TimedGetUndefined \/ TimedGetSuspended
    \/ Send("send", "catchup") \/ SendFails("send", "catchup")
    \/ Drain \/ DrainEnds
    \/ Send("drainSend", "drain") \/ SendFails("drainSend", "flush")
    \/ CatchupInFlush \/ Exit

----------------------------------------------------------------------------
(* librdkafka and the broker, as the code uses them. *)

Delivered(c) ==
    /\ sent' = [sent EXCEPT ![c] = "delivered"]
    /\ topic' = topic \cup {c}

\* After message.timeout.ms; an acknowledgement that was lost counts as a failure too.
NotDelivered(c) ==
    /\ sent' = [sent EXCEPT ![c] = "failed"]
    /\ topic' \in {topic, topic \cup {c}}

Deliver(c) ==
    /\ Alive /\ sent[c] = "sent"
    /\ Delivered(c) \/ NotDelivered(c)
    /\ UNCHANGED <<postVars, threadVars, main>>

----------------------------------------------------------------------------
(* DataSrcApp::shutdown. *)

Shutdown ==
    /\ Alive /\ main = "runs"
    /\ suspended' = TRUE
    /\ main' = "joins"
    /\ UNCHANGED <<post, queue, threadVars, kafkaVars>>

Join ==
    /\ Alive /\ main = "joins" /\ pc = "exit"
    /\ main' = "joined"
    /\ UNCHANGED <<postVars, threadVars, kafkaVars>>

\* QueueTimeout after 60 seconds
Detach ==
    /\ Alive /\ main = "joins" /\ pc # "exit"
    /\ main' = "detached"
    /\ UNCHANGED <<postVars, threadVars, kafkaVars>>

\* main returns
Return ==
    /\ Alive /\ main \in {"joined", "detached"}
    /\ main' = "gone"
    /\ UNCHANGED <<postVars, threadVars, kafkaVars>>

ProducerNext ==
    \/ ThreadStep
    \/ \E c \in Cmd : TimedAdd(c) \/ TimedAddEnds(c) \/ Deliver(c)
    \/ Shutdown \/ Join \/ Detach \/ Return

ProducerSafety == ProducerInit /\ [][ProducerNext]_vars

\* The kafka thread runs, and librdkafka reports every message in the end.
ProducerSpec ==
    /\ ProducerSafety
    /\ WF_vars(ThreadStep)
    /\ \A c \in Cmd : WF_vars(Deliver(c))

----------------------------------------------------------------------------
(* Properties. *)

\* Who has a command: the one who posts it (until he deletes it), the queue, the kafka
\* thread, waitingAck, nobody after its report, nobody when produce has refused it.
Holder == {"caller", "queue", "thread", "waitingAck", "reported", "lost"}

Has(h, c) ==
    CASE h = "caller"     -> post[c] # "accepted"
      [] h = "queue"      -> c \in Range(queue)
      [] h = "thread"     -> hand = c
      [] h = "waitingAck" -> c \in waitingAck
      [] h = "reported"   -> report[c] # "none"
      [] h = "lost"       -> c \in lost

\* Commands are plain pointers up to waitingAck: each has one holder at any time, so that
\* none is deleted twice, sent after its deletion or after timedAdd has thrown, or reported
\* twice (timedAdd and release, front and pop_front, getWaitingMessage).
OwnedOnce ==
    \A c \in Cmd : \E h \in Holder : {k \in Holder : Has(k, c)} = {h}

\* When the thread has ended, every command that was accepted has been reported, and truly
\* so if it was a success, except those that produce refused and what was in the queue when
\* it refused one while draining; none is accepted after that (suspend, drainQue).
ExitIsClean ==
    pc = "exit" =>
        /\ \A c \in Cmd : post[c] = "accepted" /\ report[c] = "none"
                              => c \in lost \/ (lost # {} /\ c \in Range(queue))
        /\ \A c \in Cmd : report[c] = "success" => c \in topic

\* An accepted command is reported in the end, also when no other command comes, unless
\* produce refuses it, the thread ends first, or the process does (the half second of
\* timedGet, the loop around catchup).
AcceptedIsReported ==
    \A c \in Cmd : post[c] = "accepted" ~> (report[c] # "none" \/ c \in lost \/ pc = "exit" \/ ~Alive)

\* blockingqueue.h says of timedGet "@throws QueueAuspended, QueueTimeout": a thread that
\* waits when the queue is suspended gets the exception, never the front of an empty queue.
SuspendIsThrown == pc # "undefined"
=============================================================================
