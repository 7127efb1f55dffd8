------------------------------ MODULE MemoryMQ ------------------------------
(***************************************************************************)
(* The in-memory message queue of mq/memory/memory.go, for one topic name. *)
(*                                                                         *)
(* A topic is an object with a log and a notification channel of capacity  *)
(* one per partition; DeleteTopics forgets the object, while producers and *)
(* consumers keep the one they were created with.  Topic objects are       *)
(* numbered in the order of their creation.  A consumer reads all the      *)
(* partitions of its topic: its poll goroutine copies what is new into the *)
(* buffered channel msgCh, from which any number of callers receive.       *)
(*                                                                         *)
(* A Send appends under the partition's lock and notifies after it; it     *)
(* holds its producer's read lock throughout, so that Close waits for it.  *)
(* Messages are distinct objects, numbered in the order they are appended. *)
(***************************************************************************)
EXTENDS Integers, Sequences

CONSTANTS
    Producers, Consumers,
    PartitionCounts,    \* the partition counts CreateTopic is called with
    DefaultPartitions,  \* defaultPartitions
    ChanSize,           \* defaultChanSize
    Hashes,             \* the hashes of the message keys, 0 for no key
    Explicit,           \* the partitions SendWithPartition is called with
    MaxInt,             \* the largest int
    MaxParts,           \* bound: partitions of a topic
    MaxTopics,          \* bound: topic objects in a behaviour
    MaxMsgs             \* bound: messages in a behaviour

ASSUME MQAssumption ==
    /\ MaxParts \in Nat \ {0}
    /\ PartitionCounts \subseteq 1..MaxParts
    /\ DefaultPartitions \in 1..MaxParts
    /\ ChanSize \in Nat \ {0}
    /\ MaxInt \in Nat
    /\ Hashes \subseteq (0 - MaxInt - 1)..MaxInt
    /\ Explicit \subseteq Int
    /\ MaxTopics \in Nat /\ MaxMsgs \in Nat

NoTopic == 0
Topics == 1..MaxTopics
Parts == 0..(MaxParts - 1)

VARIABLES
    phase,      \* "open"; "closing" while Close closes producers; "closed"
    current,    \* the topic object registered under the name
    deleted,    \* DeleteTopics has been called
    parts,      \* number of partitions of each topic object created
    log,        \* log[t][i]: the messages of partition i
    notify,     \* topics whose partition 0 has a notification waiting
    sent,       \* messages appended so far
    ptopic, pclosed,   \* each producer's topic object, and whether it is closed
    inflight,   \* sends that have appended and not yet notified
    ctopic, cclosed,   \* each consumer's topic object, and whether it is closed
    offsets,    \* each consumer's offset per partition
    poll,       \* step of each poll goroutine
    at, batch,  \* its position in pullAll: partition, messages still to push
    msgCh,      \* contents of each consumer's channel
    consumed,   \* what each consumer's callers have received
    reading     \* consumers whose callers still receive

mq == <<phase, current, deleted, parts>>
store == <<log, notify, sent>>
prods == <<ptopic, pclosed, inflight>>
pull == <<offsets, poll, at, batch>>
cons == <<ctopic, cclosed, pull, msgCh, consumed, reading>>
queueVars == <<mq, store, prods, cons>>

QueueInit ==
    /\ phase = "open" /\ current = NoTopic /\ deleted = FALSE /\ parts = <<>>
    /\ log = [t \in Topics |-> [i \in Parts |-> <<>>]]
    /\ notify = {}
    /\ sent = 0
    /\ ptopic = [p \in Producers |-> NoTopic]
    /\ pclosed = [p \in Producers |-> FALSE]
    /\ inflight = {}
    /\ ctopic = [c \in Consumers |-> NoTopic]
    /\ cclosed = [c \in Consumers |-> FALSE]
    /\ offsets = [c \in Consumers |-> [i \in Parts |-> 0]]
    /\ poll = [c \in Consumers |-> "none"]
    /\ at = [c \in Consumers |-> 0]
    /\ batch = [c \in Consumers |-> <<>>]
    /\ msgCh = [c \in Consumers |-> <<>>]
    /\ consumed = [c \in Consumers |-> <<>>]
    /\ reading = Consumers

-----------------------------------------------------------------------------
(* The queue itself: every operation holds MemoryMQ.mu. *)

\* CreateTopic of a name that is already registered changes nothing.
CreateTopic(n) ==
    /\ phase = "open"
    /\ current = NoTopic
    /\ Len(parts) < MaxTopics
    /\ parts' = Append(parts, n)
    /\ current' = Len(parts) + 1
    /\ UNCHANGED <<phase, deleted, store, prods, cons>>

DeleteTopics ==
    /\ phase = "open"
    /\ current' = NoTopic
    /\ deleted' = TRUE
    /\ UNCHANGED <<phase, parts, store, prods, cons>>

\* The registered topic, or a new one with the default number of partitions.
GetOrCreateTopic ==
    IF current # NoTopic
      THEN UNCHANGED <<current, parts>>
      ELSE /\ Len(parts) < MaxTopics
           /\ parts' = Append(parts, DefaultPartitions)
           /\ current' = Len(parts) + 1

NewProducer(p) ==
    /\ phase = "open"
    /\ ptopic[p] = NoTopic
    /\ GetOrCreateTopic
    /\ ptopic' = [ptopic EXCEPT ![p] = current']
    /\ UNCHANGED <<phase, deleted, store, pclosed, inflight, cons>>

\* newMemoryConsumer starts the poll goroutine, with every offset zero.
NewConsumer(c) ==
    /\ phase = "open"
    /\ ctopic[c] = NoTopic
    /\ GetOrCreateTopic
    /\ ctopic' = [ctopic EXCEPT ![c] = current']
    /\ poll' = [poll EXCEPT ![c] = "select"]
    /\ UNCHANGED <<phase, deleted, store, prods, cclosed, offsets, at, batch, msgCh, consumed,
                   reading>>

\* Close marks the queue closed and closes its producers one after the other...
Close ==
    /\ phase = "open"
    /\ phase' = "closing"
    /\ UNCHANGED <<current, deleted, parts, store, prods, cons>>

\* ... waiting for their sends, and then its consumers.
CloseConsumers ==
    /\ phase = "closing"
    /\ \A p \in Producers : ptopic[p] # NoTopic => pclosed[p]
    /\ inflight = {}
    /\ phase' = "closed"
    /\ cclosed' = [c \in Consumers |-> cclosed[c] \/ ctopic[c] # NoTopic]
    /\ UNCHANGED <<current, deleted, parts, store, prods, ctopic, pull, msgCh, consumed, reading>>

-----------------------------------------------------------------------------
(* Producers. *)

\* MemoryProducer.Close, called by its user or by the queue's Close: from the
\* moment it waits for the write lock, no further Send gets the read lock.
ProducerClose(p) ==
    /\ ptopic[p] # NoTopic
    /\ ~pclosed[p]
    /\ pclosed' = [pclosed EXCEPT ![p] = TRUE]
    /\ UNCHANGED <<mq, store, ptopic, inflight, cons>>

MinInt == 0 - MaxInt - 1

\* selectPartition: the key's hash modulo the number of partitions.  The absolute
\* value of the smallest int is itself, and Go's remainder has the dividend's sign.
SelectPartition(h, n) ==
    IF h = MinInt THEN 0 - ((0 - h) % n) ELSE (IF h < 0 THEN 0 - h ELSE h) % n

\* Mutant: the end of the range is off by one.
MutClamp(i, n) == IF i < 0 \/ i > n THEN 0 ELSE i

\* append sends a partition that does not exist to partition 0.
Clamp(i, n) == IF i < 0 \/ i >= n THEN 0 ELSE i

\* Mutant: a closed producer still sends.
MutSendTo(p, i) ==
    LET t == ptopic[p]
        m == [part |-> i, off |-> Len(log[t][i]), id |-> sent + 1] IN
    /\ sent < MaxMsgs
    /\ sent' = sent + 1
    /\ log' = [log EXCEPT ![t][i] = Append(@, m)]
    /\ inflight' = inflight \cup {[prod |-> p, msg |-> m]}
    /\ UNCHANGED <<mq, notify, ptopic, pclosed, cons>>

\* memTopic.append up to the unlock: the message learns its partition and offset.
SendTo(p, i) ==
    LET t == ptopic[p]
        m == [part |-> i, off |-> Len(log[t][i]), id |-> sent + 1] IN
    /\ ~pclosed[p]
    /\ sent < MaxMsgs
    /\ sent' = sent + 1
    /\ log' = [log EXCEPT ![t][i] = Append(@, m)]
    /\ inflight' = inflight \cup {[prod |-> p, msg |-> m]}
    /\ UNCHANGED <<mq, notify, ptopic, pclosed, cons>>

Send(p) ==
    /\ ptopic[p] # NoTopic
    /\ \E h \in Hashes :
          LET n == parts[ptopic[p]] IN SendTo(p, Clamp(SelectPartition(h, n), n))

SendWithPartition(p) ==
    /\ ptopic[p] # NoTopic
    /\ \E i \in Explicit : SendTo(p, Clamp(i, parts[ptopic[p]]))

\* The rest of append: a notification, dropped if one is already waiting.  Nobody
\* receives from the channels of the other partitions.
SendNotify(s) ==
    /\ s \in inflight
    /\ inflight' = inflight \ {s}
    /\ notify' = IF s.msg.part = 0 THEN notify \cup {ptopic[s.prod]} ELSE notify
    /\ UNCHANGED <<mq, log, sent, ptopic, pclosed, cons>>

-----------------------------------------------------------------------------
(* The poll goroutine of consumer c. *)

\* pullAll arrives at partition i: memPartition.get copies what is past the offset.
\* What producers append before the copy, they append before this step.
Get(c, i) ==
    LET l == log[ctopic[c]][i] IN
    /\ poll' = [poll EXCEPT ![c] = "pull"]
    /\ at' = [at EXCEPT ![c] = i]
    /\ batch' = [batch EXCEPT ![c] = SubSeq(l, offsets[c][i] + 1, Len(l))]

\* Mutant: poll relies on notifications alone.
MutPollTick(c) == poll[c] = "select" /\ FALSE /\ UNCHANGED queueVars

\* The ticker fires; select may take it although the consumer is closed.
PollTick(c) ==
    /\ poll[c] = "select"
    /\ Get(c, 0)
    /\ UNCHANGED <<mq, store, prods, ctopic, cclosed, offsets, msgCh, consumed, reading>>

\* anyNotify is the channel of partition 0, shared by all consumers of the topic.
PollNotify(c) ==
    /\ poll[c] = "select"
    /\ ctopic[c] \in notify
    /\ notify' = notify \ {ctopic[c]}
    /\ Get(c, 0)
    /\ UNCHANGED <<mq, log, sent, prods, ctopic, cclosed, offsets, msgCh, consumed, reading>>

\* closeCtx is done: msgCh is closed, and what it still holds can be received.
PollDone(c) ==
    /\ poll[c] = "select"
    /\ cclosed[c]
    /\ poll' = [poll EXCEPT ![c] = "gone"]
    /\ UNCHANGED <<mq, store, prods, ctopic, cclosed, offsets, at, batch, msgCh, consumed, reading>>

PullReturns(c) ==
    /\ poll' = [poll EXCEPT ![c] = "select"]
    /\ at' = [at EXCEPT ![c] = 0]
    /\ batch' = [batch EXCEPT ![c] = <<>>]

\* The copy is pushed: on to the next partition.
PullNext(c) ==
    /\ poll[c] = "pull"
    /\ batch[c] = <<>>
    /\ IF at[c] + 1 < parts[ctopic[c]] THEN Get(c, at[c] + 1) ELSE PullReturns(c)
    /\ UNCHANGED <<mq, store, prods, ctopic, cclosed, offsets, msgCh, consumed, reading>>

\* Mutant: the offset stays behind.
MutPullPush(c) ==
    /\ poll[c] = "pull"
    /\ batch[c] # <<>>
    /\ Len(msgCh[c]) < ChanSize
    /\ msgCh' = [msgCh EXCEPT ![c] = Append(@, Head(batch[c]))]
    /\ batch' = [batch EXCEPT ![c] = Tail(@)]
    /\ UNCHANGED <<mq, store, prods, ctopic, cclosed, offsets, poll, at, consumed, reading>>

\* msgCh <- msg; offsets[i]++
PullPush(c) ==
    /\ poll[c] = "pull"
    /\ batch[c] # <<>>
    /\ Len(msgCh[c]) < ChanSize
    /\ msgCh' = [msgCh EXCEPT ![c] = Append(@, Head(batch[c]))]
    /\ offsets' = [offsets EXCEPT ![c][at[c]] = @ + 1]
    /\ batch' = [batch EXCEPT ![c] = Tail(@)]
    /\ UNCHANGED <<mq, store, prods, ctopic, cclosed, poll, at, consumed, reading>>

\* Mutant: the push does not watch closeCtx.
MutPullClosed(c) == poll[c] = "pull" /\ FALSE /\ UNCHANGED queueVars

\* closeCtx is done: pullAll returns and the rest of the copy is forgotten.
PullClosed(c) ==
    /\ poll[c] = "pull"
    /\ batch[c] # <<>>
    /\ cclosed[c]
    /\ PullReturns(c)
    /\ UNCHANGED <<mq, store, prods, ctopic, cclosed, offsets, msgCh, consumed, reading>>

Poll(c) == \/ PollTick(c) \/ PollNotify(c) \/ PollDone(c)
           \/ PullNext(c) \/ PullPush(c) \/ PullClosed(c)

-----------------------------------------------------------------------------
(* The callers of consumer c. *)

\* Consume, or a receive from ConsumeChan's channel.
Consume(c) ==
    /\ c \in reading
    /\ msgCh[c] # <<>>
    /\ consumed' = [consumed EXCEPT ![c] = Append(@, Head(msgCh[c]))]
    /\ msgCh' = [msgCh EXCEPT ![c] = Tail(@)]
    /\ UNCHANGED <<mq, store, prods, ctopic, cclosed, pull, reading>>

\* The callers have gone.
StopReading(c) ==
    /\ ctopic[c] # NoTopic
    /\ c \in reading
    /\ reading' = reading \ {c}
    /\ UNCHANGED <<mq, store, prods, ctopic, cclosed, pull, msgCh, consumed>>

ConsumerClose(c) ==
    /\ ctopic[c] # NoTopic
    /\ ~cclosed[c]
    /\ cclosed' = [cclosed EXCEPT ![c] = TRUE]
    /\ UNCHANGED <<mq, store, prods, ctopic, pull, msgCh, consumed, reading>>

-----------------------------------------------------------------------------
QueueNext ==
    \/ \E n \in PartitionCounts : CreateTopic(n)
    \/ DeleteTopics \/ Close \/ CloseConsumers
    \/ \E p \in Producers : NewProducer(p) \/ ProducerClose(p) \/ Send(p) \/ SendWithPartition(p)
    \/ \E s \in inflight : SendNotify(s)
    \/ \E c \in Consumers : \/ NewConsumer(c) \/ Poll(c)
                            \/ Consume(c) \/ StopReading(c) \/ ConsumerClose(c)

QueueSpec == QueueInit /\ [][QueueNext]_queueVars

\* select picks at random among the ready cases, so a case that stays ready is
\* taken in the end; callers that are still there receive.
QueueFairness ==
    /\ \A c \in Consumers :
        /\ WF_queueVars(PollTick(c)) /\ WF_queueVars(PullNext(c)) /\ WF_queueVars(PullPush(c))
        /\ WF_queueVars(Consume(c))
    /\ SF_queueVars(\E c \in Consumers : PollDone(c))
    /\ SF_queueVars(\E c \in Consumers : PullClosed(c))


-----------------------------------------------------------------------------
\* A message as its producer left it: its partition, its offset, its identity.
Message == [part : Parts, off : Nat, id : Nat]

\* No message is on a partition its topic does not have, no channel beyond its buffer.
QueueTypeOK ==
    /\ phase \in {"open", "closing", "closed"}
    /\ current \in 0..Len(parts)
    /\ deleted \in BOOLEAN
    /\ parts \in Seq(1..MaxParts) /\ Len(parts) <= MaxTopics
    /\ log \in [Topics -> [Parts -> Seq(Message)]]
    /\ \A t \in Topics, i \in Parts :
          log[t][i] # <<>> => t <= Len(parts) /\ i < parts[t]
    /\ notify \subseteq Topics
    /\ sent \in Nat
    /\ ptopic \in [Producers -> 0..Len(parts)]
    /\ pclosed \in [Producers -> BOOLEAN]
    /\ inflight \subseteq [prod : {p \in Producers : ptopic[p] # NoTopic}, msg : Message]
    /\ ctopic \in [Consumers -> 0..Len(parts)]
    /\ cclosed \in [Consumers -> BOOLEAN]
    /\ offsets \in [Consumers -> [Parts -> Nat]]
    /\ poll \in [Consumers -> {"none", "select", "pull", "gone"}]
    /\ at \in [Consumers -> Parts]
    /\ batch \in [Consumers -> Seq(Message)]
    /\ msgCh \in [Consumers -> Seq(Message)] /\ \A c \in Consumers : Len(msgCh[c]) <= ChanSize
    /\ consumed \in [Consumers -> Seq(Message)]
    /\ reading \subseteq Consumers

\* Everything consumer c has delivered or is about to deliver, in order.
Stream(c) == consumed[c] \o msgCh[c]

\* Within a partition a consumer delivers every message once and in order, without
\* a gap, however its pulls interleave with producers, full channels and Close:
\* each message it delivers is the one its topic's log has at that offset, comes
\* after the one before it and is not repeated.
DeliveredInOrder ==
    \A c \in Consumers : \A k \in 1..Len(Stream(c)) :
        LET m == Stream(c)[k] IN
        /\ m.off < Len(log[ctopic[c]][m.part]) /\ log[ctopic[c]][m.part][m.off + 1] = m
        /\ m.off > 0 => \E j \in 1..(k - 1) :
              Stream(c)[j].part = m.part /\ Stream(c)[j].off = m.off - 1
        /\ \A j \in 1..(k - 1) : Stream(c)[j] # m

\* The queue without its machinery.
Promise == INSTANCE QueuePromise WITH topic <- ctopic, received <- consumed, closed <- (phase = "closed"),
                                      Sizes <- 1..MaxParts, Ids <- 1..MaxMsgs

\* The poll goroutines, their copies and channels, the shared notification and the
\* locks of Close implement the promise of mq.go: however sends, pulls and Close
\* interleave, a message is added to a log that exists and only before Close
\* returns, and what Consume hands out is, of each partition, the next message.
KeepsQueuePromise == Promise!PSpec

\* Unless DeleteTopics is called, all producers and consumers of the name share one
\* topic, whichever of CreateTopic, Producer and Consumer came first.
OneTopicUntilDeleted ==
    ~deleted => /\ \A p \in Producers : ptopic[p] \in {NoTopic, current}
                /\ \A c \in Consumers : ctopic[c] \in {NoTopic, current}

\* Once Close has returned nothing is appended any more, not even by a send that
\* was under way.
NothingAfterClose == [][phase = "closed" => UNCHANGED <<log, inflight>>]_queueVars

\* Consumer c has received everything its topic holds.
CaughtUp(c) ==
    ctopic[c] # NoTopic => \A i \in Parts : \A k \in 1..Len(log[ctopic[c]][i]) :
        \E j \in 1..Len(consumed[c]) : consumed[c][j].part = i /\ consumed[c][j].off = k - 1

\* Every message reaches every consumer of its topic whose callers keep receiving,
\* on whichever partition it is and whoever took the notification: sooner or later
\* the consumer has caught up.
EventuallyDelivered == \A c \in Consumers : []<>(CaughtUp(c) \/ cclosed[c] \/ c \notin reading)

\* The poll goroutine of a closed consumer ends, even if it is blocked on a full
\* channel nobody receives from.
PollersEnd == \A c \in Consumers : cclosed[c] ~> poll[c] = "gone"
=============================================================================
