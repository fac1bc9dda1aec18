--------------------- MODULE KafkaProducerThread_proofs ---------------------
(* Proofs about KafkaProducerThread: a command is in one place at any time,    *)
(* and nothing that was accepted is left unreported without a trace.           *)
EXTENDS KafkaProducerThread, SequenceTheorems, TLAPS

\* The kafka thread has a command in hand from timedGet or getAfterSuspend to produce.
HandInv == hand # NoCmd <=> pc \in {"send", "drainSend"}

\* librdkafka has what waits for a report; success means that the message is in the topic.
SentInv ==
    \A c \in Cmd :
        /\ sent[c] # "none" <=> c \in waitingAck
        /\ sent[c] = "delivered" \/ report[c] = "success" => c \in topic

\* The queue is left behind only when it is suspended, and with something in it only when
\* produce has refused a command.
DrainInv ==
    /\ pc \in {"drain", "drainSend", "flush", "exit"} => suspended
    /\ pc \in {"flush", "exit"} /\ queue # <<>> => lost # {}
    /\ pc = "exit" => waitingAck = {}

\* A command is in the queue once.
QueueInv == \A i, j \in 1..Len(queue) : i # j => queue[i] # queue[j]

ProducerInv == ProducerTypeOK /\ HandInv /\ SentInv /\ DrainInv /\ QueueInv /\ OwnedOnce
----------------------------------------------------------------------------
(* The queue *)

\* Append adds a command at the end of the queue.
LEMMA AppendFacts ==
    ASSUME NEW q \in Seq(Cmd), NEW c \in Cmd
    PROVE  /\ Append(q, c) \in Seq(Cmd) /\ Len(Append(q, c)) = Len(q) + 1
           /\ Range(Append(q, c)) = Range(q) \cup {c}
           /\ c \notin Range(q) /\ (\A i, j \in 1..Len(q) : i # j => q[i] # q[j])
                => \A i, j \in 1..(Len(q) + 1) : i # j => Append(q, c)[i] # Append(q, c)[j]
  <1>1. /\ Append(q, c) \in Seq(Cmd) /\ Len(Append(q, c)) = Len(q) + 1
        /\ \A i \in 1..Len(q) : Append(q, c)[i] = q[i]
        /\ Append(q, c)[Len(q) + 1] = c
        /\ Len(q) \in Nat /\ DOMAIN q = 1..Len(q)
        /\ DOMAIN Append(q, c) = 1..(Len(q) + 1)
    OBVIOUS
  <1>2. \A i \in 1..(Len(q) + 1) : i \in 1..Len(q) \/ i = Len(q) + 1
    BY <1>1
  <1>3. Range(Append(q, c)) = Range(q) \cup {c}
    BY <1>1, <1>2 DEF Range
  <1> QED
    BY <1>1, <1>2, <1>3 DEF Range

\* front and pop_front take a command that is in the queue once.
LEMMA PopFacts ==
    ASSUME NEW q \in Seq(Cmd), q # <<>>, \A i, j \in 1..Len(q) : i # j => q[i] # q[j]
    PROVE  /\ Head(q) \in Cmd /\ Head(q) \in Range(q)
           /\ Tail(q) \in Seq(Cmd) /\ Len(Tail(q)) = Len(q) - 1 /\ Len(q) \in Nat
           /\ Range(Tail(q)) = Range(q) \ {Head(q)}
           /\ \A i, j \in 1..Len(Tail(q)) : i # j => Tail(q)[i] # Tail(q)[j]
  <1>1. /\ Tail(q) \in Seq(Cmd) /\ Len(Tail(q)) = Len(q) - 1
        /\ \A i \in 1..(Len(q) - 1) : Tail(q)[i] = q[i + 1]
        /\ Head(q) = q[1] /\ Len(q) \in Nat /\ 1 \in 1..Len(q)
        /\ DOMAIN q = 1..Len(q) /\ DOMAIN Tail(q) = 1..(Len(q) - 1)
        /\ q[1] \in Cmd
    OBVIOUS
  <1>2. Range(Tail(q)) \subseteq Range(q) \ {Head(q)}
    BY <1>1 DEF Range
  <1>3. ASSUME NEW i \in 1..Len(q), i # 1
        PROVE  q[i] \in Range(Tail(q))
    <2>1. i - 1 \in 1..(Len(q) - 1) /\ Tail(q)[i - 1] = q[i]
      BY <1>1, <1>3
    <2> QED
      BY <1>1, <2>1 DEF Range
  <1>4. Range(q) \ {Head(q)} \subseteq Range(Tail(q))
    BY <1>1, <1>3 DEF Range
  <1>5. \A i, j \in 1..Len(Tail(q)) : i # j => Tail(q)[i] # Tail(q)[j]
    BY <1>1
  <1>6. Head(q) \in Range(q)
    BY <1>1 DEF Range
  <1> QED
    BY <1>1, <1>2, <1>4, <1>5, <1>6

----------------------------------------------------------------------------
(* Who has a command *)

\* h has the command, and nobody else.
Sole(h, c) == \A k \in Holder : Has(k, c) <=> k = h

\* The six places a command can be in.
LEMMA HasFacts ==
    ASSUME NEW c \in Cmd
    PROVE  /\ Has("caller", c) <=> post[c] # "accepted"
           /\ Has("queue", c) <=> c \in Range(queue)
           /\ Has("thread", c) <=> hand = c
           /\ Has("waitingAck", c) <=> c \in waitingAck
           /\ Has("reported", c) <=> report[c] # "none"
           /\ Has("lost", c) <=> c \in lost
  BY DEF Has

\* OwnedOnce says that each command has a sole holder.
LEMMA OwnedOnceIsSole == OwnedOnce <=> \A c \in Cmd : \E h \in Holder : Sole(h, c)
  <1>1. ASSUME NEW c \in Cmd, NEW h \in Holder
        PROVE  {k \in Holder : Has(k, c)} = {h} <=> Sole(h, c)
    BY DEF Sole
  <1> QED
    BY <1>1 DEF OwnedOnce

\* A step keeps a command where it is, or moves it to one new place.
LEMMA OwnedOnceStep ==
    ASSUME OwnedOnce,
           \A c \in Cmd : (\A k \in Holder : Has(k, c)' <=> Has(k, c)) \/ \E h \in Holder : Sole(h, c)'
    PROVE  OwnedOnce'
  <1>1. \A c \in Cmd : \E h \in Holder : Sole(h, c)
    BY OwnedOnceIsSole
  <1>2. \A c \in Cmd : \E h \in Holder : Sole(h, c)'
    BY <1>1 DEF Sole
  <1>3. ASSUME NEW c \in Cmd, NEW h \in Holder, Sole(h, c)'
        PROVE  {k \in Holder : Has(k, c)'} = {h}
    BY <1>3 DEF Sole
  <1> QED
    BY <1>2, <1>3 DEF OwnedOnce

\* Whoever has a command is its sole holder.
LEMMA HolderIsSole ==
    ASSUME OwnedOnce, NEW c \in Cmd, NEW h \in Holder, Has(h, c)
    PROVE  Sole(h, c)
  BY OwnedOnceIsSole DEF Sole

----------------------------------------------------------------------------
(* Steps *)

\* timedAdd pushes a command that only its caller has.
LEMMA PushedStep ==
    ASSUME ProducerInv, NEW c \in Cmd, post[c] \in {"new", "waits"}, Pushed(c),
           UNCHANGED <<suspended, threadVars, kafkaVars, main>>
    PROVE  ProducerInv'
  <1>1. /\ ~suspended /\ Len(queue) < QueueSize /\ queue' = Append(queue, c)
        /\ post' = [post EXCEPT ![c] = "accepted"]
        /\ UNCHANGED <<suspended, pc, hand, waitingAck, report, lost, sent, topic, main>>
    BY DEF Pushed, HasRoom, threadVars, kafkaVars
  <1>2. Sole("caller", c)
    BY HolderIsSole DEF ProducerInv, Has, Holder
  <1>3. c \notin Range(queue) /\ hand # c /\ c \notin waitingAck /\ report[c] = "none" /\ c \notin lost
    BY <1>2 DEF Sole, Has, Holder
  <1>4. Range(queue') = Range(queue) \cup {c}
    BY <1>1, AppendFacts DEF ProducerInv, ProducerTypeOK
  <1>5. ProducerTypeOK'
    BY <1>1, AppendFacts, ProducerAssumption DEF ProducerInv, ProducerTypeOK
  <1>6. HandInv' /\ SentInv' /\ DrainInv'
    BY <1>1 DEF ProducerInv, HandInv, SentInv, DrainInv
  <1>7. QueueInv'
    BY <1>1, <1>3, AppendFacts DEF ProducerInv, ProducerTypeOK, QueueInv
  <1>8. Sole("queue", c)'
    BY <1>1, <1>3, <1>4 DEF Sole, Has, Holder, ProducerInv, ProducerTypeOK
  <1>9. ASSUME NEW d \in Cmd, d # c, NEW k \in Holder
        PROVE  Has(k, d)' <=> Has(k, d)
    BY <1>1, <1>4, <1>9 DEF Has, Holder, ProducerInv, ProducerTypeOK
  <1>10. OwnedOnce'
    BY <1>8, <1>9, OwnedOnceStep DEF ProducerInv, Holder
  <1> QED
    BY <1>5, <1>6, <1>7, <1>10 DEF ProducerInv

\* timedAdd waits or throws: the caller keeps the command.
LEMMA NotPushedStep ==
    ASSUME ProducerInv, NEW c \in Cmd, post[c] \in {"new", "waits"},
           NEW a \in {"waits", "refused"}, post' = [post EXCEPT ![c] = a],
           UNCHANGED <<queue, suspended, threadVars, kafkaVars, main>>
    PROVE  ProducerInv'
  <1>1. UNCHANGED <<queue, suspended, pc, hand, waitingAck, report, lost, sent, topic, main>>
    BY DEF threadVars, kafkaVars
  <1>2. ProducerTypeOK'
    BY <1>1 DEF ProducerInv, ProducerTypeOK
  <1>3. HandInv' /\ SentInv' /\ DrainInv' /\ QueueInv'
    BY <1>1 DEF ProducerInv, HandInv, SentInv, DrainInv, QueueInv
  <1>4. ASSUME NEW d \in Cmd, NEW k \in Holder
        PROVE  Has(k, d)' <=> Has(k, d)
    BY <1>1 DEF Has, Holder, ProducerInv, ProducerTypeOK
  <1>5. OwnedOnce'
    BY <1>4, OwnedOnceStep DEF ProducerInv
  <1> QED
    BY <1>2, <1>3, <1>5 DEF ProducerInv

\* catchup: what librdkafka reports leaves waitingAck and is reported, once.
LEMMA CatchupStep ==
    ASSUME ProducerInv, Catchup, \/ pc = "catchup" /\ pc' = "get"
                                 \/ pc = "flush" /\ pc' = pc
    PROVE  ProducerInv'
  <1>1. /\ sent' = [c \in Cmd |-> IF c \in Reports THEN "none" ELSE sent[c]]
        /\ waitingAck' = waitingAck \ Reports
        /\ report' = [c \in Cmd |->
                         IF c \notin Reports \cap waitingAck THEN report[c]
                         ELSE IF sent[c] = "delivered" THEN "success" ELSE "error"]
        /\ UNCHANGED <<topic, hand, lost, post, queue, suspended, main>>
    BY DEF Catchup, postVars
  <1>2. \A c \in Cmd : c \in Reports <=> sent[c] \in {"delivered", "failed"}
    BY DEF Reports
  <1>3. \A c \in Cmd : c \in Reports => c \in waitingAck
    BY <1>2 DEF ProducerInv, SentInv
  <1>4. ProducerTypeOK'
    BY <1>1 DEF ProducerInv, ProducerTypeOK, Pc
  <1>5. HandInv' /\ DrainInv' /\ QueueInv'
    BY <1>1 DEF ProducerInv, HandInv, DrainInv, QueueInv
  <1>6. SentInv'
    BY <1>1, <1>2, <1>3 DEF ProducerInv, ProducerTypeOK, SentInv
  <1>7. ASSUME NEW c \in Cmd, c \in Reports
        PROVE  Sole("reported", c)'
    <2>1. Sole("waitingAck", c)
      BY <1>3, <1>7, HolderIsSole DEF ProducerInv, Has, Holder
    <2>2. post[c] = "accepted" /\ c \notin Range(queue) /\ hand # c /\ c \notin lost
      BY <2>1 DEF Sole, Has, Holder
    <2>3. post'[c] = "accepted" /\ c \notin Range(queue') /\ hand' # c /\ c \notin lost'
          /\ c \notin waitingAck' /\ report'[c] # "none"
      BY <1>1, <1>3, <1>7, <2>2
    <2> QED
      BY <2>3 DEF Sole, Has, Holder
  <1>8. ASSUME NEW c \in Cmd, c \notin Reports, NEW k \in Holder
        PROVE  Has(k, c)' <=> Has(k, c)
    BY <1>1, <1>8 DEF Has, Holder
  <1>9. OwnedOnce'
    BY <1>7, <1>8, OwnedOnceStep DEF ProducerInv, Holder
  <1> QED
    BY <1>4, <1>5, <1>6, <1>9 DEF ProducerInv

\* front and pop_front, in timedGet and in getAfterSuspend.
LEMMA PopStep ==
    ASSUME ProducerInv, queue # <<>>, NEW l \in {"send", "drainSend"}, Pop(l),
           \/ pc \in {"get", "wait"} /\ l = "send"
           \/ pc = "drain",
           UNCHANGED <<post, suspended, waitingAck, report, lost, kafkaVars, main>>
    PROVE  ProducerInv'
  <1> PICK c \in Cmd : c = Head(queue)
    BY PopFacts DEF ProducerInv, ProducerTypeOK, QueueInv
  <1>1. /\ hand' = c /\ queue' = Tail(queue) /\ pc' = l
        /\ UNCHANGED <<post, suspended, waitingAck, report, lost, sent, topic, main>>
    BY DEF Pop, Goto, kafkaVars
  <1>2. /\ c \in Cmd /\ c \in Range(queue) /\ Range(queue') = Range(queue) \ {c}
        /\ queue' \in Seq(Cmd) /\ Len(queue') = Len(queue) - 1 /\ Len(queue) \in Nat
        /\ \A i, j \in 1..Len(queue') : i # j => queue'[i] # queue'[j]
    BY <1>1, PopFacts DEF ProducerInv, ProducerTypeOK, QueueInv
  <1>3. Sole("queue", c)
    BY <1>2, HolderIsSole DEF ProducerInv, Has, Holder
  <1>4. post[c] = "accepted" /\ c \notin waitingAck /\ report[c] = "none" /\ c \notin lost
    BY <1>3 DEF Sole, Has, Holder
  <1>5. hand = NoCmd
    BY DEF ProducerInv, HandInv
  <1>6. ProducerTypeOK'
    BY <1>1, <1>2, ProducerAssumption DEF ProducerInv, ProducerTypeOK, Pc
  <1>7. HandInv'
    BY <1>1, <1>2, ProducerAssumption DEF HandInv
  <1>8. SentInv' /\ DrainInv' /\ QueueInv'
    BY <1>1, <1>2 DEF ProducerInv, SentInv, DrainInv, QueueInv
  <1>9. Sole("thread", c)'
    BY <1>1, <1>2, <1>4 DEF Sole, Has, Holder
  <1>10. ASSUME NEW d \in Cmd, d # c, NEW k \in Holder
         PROVE  Has(k, d)' <=> Has(k, d)
    BY <1>1, <1>2, <1>5, <1>10, ProducerAssumption DEF Has, Holder
  <1>11. OwnedOnce'
    BY <1>9, <1>10, OwnedOnceStep DEF ProducerInv, Holder
  <1> QED
    BY <1>6, <1>7, <1>8, <1>11 DEF ProducerInv

\* produce takes the command, and onSend puts it into waitingAck.
LEMMA SendStep ==
    ASSUME ProducerInv, Send("send", "catchup") \/ Send("drainSend", "drain")
    PROVE  ProducerInv'
  <1> PICK c \in Cmd : c = hand
    BY DEF ProducerInv, ProducerTypeOK, HandInv, Send
  <1>1. /\ (pc = "send" /\ pc' = "catchup") \/ (pc = "drainSend" /\ pc' = "drain")
        /\ hand' = NoCmd
        /\ sent' = [sent EXCEPT ![c] = "sent"] /\ waitingAck' = waitingAck \cup {c}
        /\ UNCHANGED <<report, lost, topic, post, queue, suspended, main>>
    BY DEF Send, Goto, postVars
  <1>2. Sole("thread", c)
    BY HolderIsSole DEF ProducerInv, Has, Holder
  <1>3. post[c] = "accepted" /\ c \notin Range(queue) /\ report[c] = "none" /\ c \notin lost
    BY <1>2 DEF Sole, Has, Holder
  <1>4. ProducerTypeOK'
    BY <1>1 DEF ProducerInv, ProducerTypeOK, Pc
  <1>5. HandInv' /\ DrainInv' /\ QueueInv'
    BY <1>1 DEF ProducerInv, HandInv, DrainInv, QueueInv
  <1>6. SentInv'
    BY <1>1, <1>3 DEF ProducerInv, ProducerTypeOK, SentInv
  <1>7. Sole("waitingAck", c)'
    BY <1>1, <1>3, ProducerAssumption DEF Sole, Has, Holder
  <1>8. ASSUME NEW d \in Cmd, d # c, NEW k \in Holder
        PROVE  Has(k, d)' <=> Has(k, d)
    BY <1>1, <1>8, ProducerAssumption DEF Has, Holder
  <1>9. OwnedOnce'
    BY <1>7, <1>8, OwnedOnceStep DEF ProducerInv, Holder
  <1> QED
    BY <1>4, <1>5, <1>6, <1>9 DEF ProducerInv

\* produce refuses the command: it is lost, and the queue is left when it is being drained.
LEMMA SendFailsStep ==
    ASSUME ProducerInv, SendFails("send", "catchup") \/ SendFails("drainSend", "flush")
    PROVE  ProducerInv'
  <1> PICK c \in Cmd : c = hand
    BY DEF ProducerInv, ProducerTypeOK, HandInv, SendFails
  <1>1. /\ (pc = "send" /\ pc' = "catchup") \/ (pc = "drainSend" /\ pc' = "flush")
        /\ hand' = NoCmd /\ lost' = lost \cup {c}
        /\ UNCHANGED <<report, waitingAck, sent, topic, post, queue, suspended, main>>
    BY DEF SendFails, Goto, postVars, kafkaVars
  <1>2. Sole("thread", c)
    BY HolderIsSole DEF ProducerInv, Has, Holder
  <1>3. post[c] = "accepted" /\ c \notin Range(queue) /\ report[c] = "none" /\ c \notin waitingAck
    BY <1>2 DEF Sole, Has, Holder
  <1>4. ProducerTypeOK'
    BY <1>1 DEF ProducerInv, ProducerTypeOK, Pc
  <1>5. HandInv' /\ SentInv' /\ DrainInv' /\ QueueInv'
    BY <1>1 DEF ProducerInv, HandInv, SentInv, DrainInv, QueueInv
  <1>6. Sole("lost", c)'
    BY <1>1, <1>3, ProducerAssumption DEF Sole, Has, Holder
  <1>7. ASSUME NEW d \in Cmd, d # c, NEW k \in Holder
        PROVE  Has(k, d)' <=> Has(k, d)
    BY <1>1, <1>7, ProducerAssumption DEF Has, Holder
  <1>8. OwnedOnce'
    BY <1>6, <1>7, OwnedOnceStep DEF ProducerInv, Holder
  <1> QED
    BY <1>4, <1>5, <1>8 DEF ProducerInv

\* librdkafka delivers a message or gives it up.
LEMMA DeliverStep ==
    ASSUME ProducerInv, NEW c \in Cmd, Deliver(c)
    PROVE  ProducerInv'
  <1>1. /\ sent[c] = "sent"
        /\ \/ sent' = [sent EXCEPT ![c] = "delivered"] /\ topic' = topic \cup {c}
           \/ sent' = [sent EXCEPT ![c] = "failed"] /\ topic' \in {topic, topic \cup {c}}
        /\ UNCHANGED <<post, queue, suspended, pc, hand, waitingAck, report, lost, main>>
    BY DEF Deliver, Delivered, NotDelivered, postVars, threadVars
  <1>2. ProducerTypeOK'
    BY <1>1 DEF ProducerInv, ProducerTypeOK
  <1>3. HandInv' /\ DrainInv' /\ QueueInv'
    BY <1>1 DEF ProducerInv, HandInv, DrainInv, QueueInv
  <1>4. SentInv'
    BY <1>1 DEF ProducerInv, ProducerTypeOK, SentInv
  <1>5. OwnedOnce'
    BY <1>1, OwnedOnceStep DEF ProducerInv, Has
  <1> QED
    BY <1>2, <1>3, <1>4, <1>5 DEF ProducerInv

\* The thread goes on and has done nothing to a command, or shutdown does.
LEMMA QuietStep ==
    ASSUME ProducerInv,
           \/ TimedGetWaits \/ TimedGetTimeout \/ TimedGetUndefined \/ TimedGetSuspended
           \/ DrainEnds \/ Exit \/ Shutdown \/ Join \/ Detach \/ Return \/ UNCHANGED vars
    PROVE  ProducerInv'
  <1> USE DEF Goto, postVars, threadVars, kafkaVars
  <1>1. UNCHANGED <<post, queue, hand, waitingAck, report, lost, sent, topic>>
    BY DEF TimedGetWaits, TimedGetTimeout, TimedGetUndefined, TimedGetSuspended, DrainEnds, Exit,
           Shutdown, Join, Detach, Return, vars
  <1>2. ProducerTypeOK'
    BY DEF ProducerInv, ProducerTypeOK, Pc, TimedGetWaits, TimedGetTimeout, TimedGetUndefined,
           TimedGetSuspended, DrainEnds, Exit, Shutdown, Join, Detach, Return, vars
  <1>3. HandInv'
    BY DEF ProducerInv, HandInv, TimedGetWaits, TimedGetTimeout, TimedGetUndefined,
           TimedGetSuspended, DrainEnds, Exit, Shutdown, Join, Detach, Return, vars
  <1>4. DrainInv'
    BY DEF ProducerInv, DrainInv, TimedGetWaits, TimedGetTimeout, TimedGetUndefined,
           TimedGetSuspended, DrainEnds, Exit, Flushed, Shutdown, Join, Detach, Return, vars
  <1>5. SentInv' /\ QueueInv'
    BY <1>1 DEF ProducerInv, SentInv, QueueInv
  <1>6. OwnedOnce'
    BY <1>1, OwnedOnceStep DEF ProducerInv, Has
  <1> QED
    BY <1>2, <1>3, <1>4, <1>5, <1>6 DEF ProducerInv

----------------------------------------------------------------------------
(* Theorems *)

\* At the start every command is its caller's.
LEMMA ProducerInvInit == ProducerInit => ProducerInv
  <1> SUFFICES ASSUME ProducerInit PROVE ProducerInv
    OBVIOUS
  <1>1. Len(queue) = 0 /\ queue \in Seq(Cmd) /\ Range(queue) = {}
    BY DEF ProducerInit, Range
  <1>2. ProducerTypeOK
    <2>1. queue \in Seq(Cmd) /\ Len(queue) <= QueueSize
      BY <1>1, ProducerAssumption
    <2> QED
      BY <2>1 DEF ProducerInit, ProducerTypeOK, Pc
  <1>3. HandInv /\ SentInv /\ DrainInv
    BY DEF ProducerInit, HandInv, SentInv, DrainInv
  <1>4. QueueInv
    BY <1>1 DEF QueueInv
  <1>5. ASSUME NEW c \in Cmd PROVE Sole("caller", c)
    BY <1>1, ProducerAssumption DEF ProducerInit, Sole, Has, Holder
  <1>6. OwnedOnce
    BY <1>5, OwnedOnceIsSole DEF Holder
  <1> QED
    BY <1>2, <1>3, <1>4, <1>6 DEF ProducerInv

\* Every step keeps the invariant.
LEMMA ProducerInvStep == ProducerInv /\ [ProducerNext]_vars => ProducerInv'
  <1> SUFFICES ASSUME ProducerInv, [ProducerNext]_vars PROVE ProducerInv'
    OBVIOUS
  <1>1. ASSUME NEW c \in Cmd, TimedAdd(c) \/ TimedAddEnds(c)
        PROVE  ProducerInv'
    <2>1. CASE Pushed(c)
      BY <1>1, <2>1, PushedStep DEF TimedAdd, TimedAddEnds
    <2>2. CASE ~Pushed(c)
      BY <1>1, <2>2, NotPushedStep DEF TimedAdd, TimedAddEnds, Refused
    <2> QED
      BY <2>1, <2>2
  <1>2. ASSUME CatchupInRun \/ CatchupInFlush
        PROVE  ProducerInv'
    BY <1>2, CatchupStep DEF CatchupInRun, CatchupInFlush, Goto
  <1>3. ASSUME TimedGet \/ Drain
        PROVE  ProducerInv'
    <2>1. CASE TimedGet
      BY <2>1, PopStep DEF TimedGet
    <2>2. CASE Drain
      BY <2>2, PopStep DEF Drain
    <2> QED
      BY <1>3, <2>1, <2>2
  <1> QED
    BY <1>1, <1>2, <1>3, SendStep, SendFailsStep, DeliverStep, QuietStep
       DEF ProducerNext, ThreadStep

\* For any number of commands and any size of queue and buffer: the variables keep their
\* types, the queue its maximal size among them (HasRoom in timedAdd).
THEOREM ProducerTypeCorrect == ProducerSafety => []ProducerTypeOK
  <1>1. ProducerInv => ProducerTypeOK
    BY DEF ProducerInv
  <1> QED
    BY <1>1, ProducerInvInit, ProducerInvStep, PTL DEF ProducerSafety

\* A command has one holder at any time: the plain pointers that go from postOnRawQue through
\* the queue and the kafka thread to waitingAck are neither shared nor dropped on the way.
THEOREM CommandsAreOwnedOnce == ProducerSafety => []OwnedOnce
  <1>1. ProducerInv => OwnedOnce
    BY DEF ProducerInv
  <1> QED
    BY <1>1, ProducerInvInit, ProducerInvStep, PTL DEF ProducerSafety

\* When run() has ended, what was accepted has been reported, but for what produce refused
\* and what was behind it in the queue; and a reported success is true.
THEOREM ExitsAreClean == ProducerSafety => []ExitIsClean
  <1>1. ProducerInv => ExitIsClean
    <2> SUFFICES ASSUME ProducerInv, pc = "exit"
                 PROVE  /\ \A c \in Cmd : post[c] = "accepted" /\ report[c] = "none"
                              => c \in lost \/ (lost # {} /\ c \in Range(queue))
                        /\ \A c \in Cmd : report[c] = "success" => c \in topic
      BY DEF ExitIsClean
    <2>1. \A c \in Cmd : report[c] = "success" => c \in topic
      BY DEF ProducerInv, SentInv
    <2>2. hand = NoCmd /\ waitingAck = {} /\ (queue # <<>> => lost # {})
      BY DEF ProducerInv, HandInv, DrainInv
    <2>3. ASSUME NEW c \in Cmd, post[c] = "accepted", report[c] = "none"
          PROVE  c \in lost \/ c \in Range(queue)
      <3>1. \E h \in Holder : Has(h, c)
        BY OwnedOnceIsSole DEF ProducerInv, Sole
      <3> QED
        BY <2>2, <2>3, <3>1, ProducerAssumption DEF Has, Holder
    <2>4. queue = <<>> => Range(queue) = {}
      BY DEF Range
    <2> QED
      BY <2>1, <2>2, <2>3, <2>4
  <1> QED
    BY <1>1, ProducerInvInit, ProducerInvStep, PTL DEF ProducerSafety
=============================================================================
