--------------------------- MODULE MemoryMQProofs ---------------------------
(***************************************************************************)
(* Theorems about the in-memory queue, for any number of producers,        *)
(* consumers, topics, partitions and messages.                             *)
(***************************************************************************)
EXTENDS MemoryMQ, SequenceTheorems, TLAPS

\* A poll goroutine has a topic: newMemoryConsumer starts it with one.
PollerHasTopic == \A c \in Consumers : poll[c] # "none" => ctopic[c] # NoTopic

\* TypeOK by component.
TypeQueue ==
    /\ phase \in {"open", "closing", "closed"}
    /\ current \in 0..Len(parts)
    /\ deleted \in BOOLEAN
    /\ parts \in Seq(1..MaxParts) /\ Len(parts) <= MaxTopics

TypeStore ==
    /\ log \in [Topics -> [Parts -> Seq(Message)]]
    /\ \A t \in Topics, i \in Parts :
          log[t][i] # <<>> => t <= Len(parts) /\ i < parts[t]
    /\ notify \subseteq Topics
    /\ sent \in Nat

TypeProducers ==
    /\ ptopic \in [Producers -> 0..Len(parts)]
    /\ pclosed \in [Producers -> BOOLEAN]
    /\ inflight \subseteq [prod : {p \in Producers : ptopic[p] # NoTopic}, msg : Message]

TypeConsumers ==
    /\ ctopic \in [Consumers -> 0..Len(parts)]
    /\ cclosed \in [Consumers -> BOOLEAN]
    /\ reading \subseteq Consumers

TypePull ==
    /\ offsets \in [Consumers -> [Parts -> Nat]]
    /\ poll \in [Consumers -> {"none", "select", "pull", "gone"}]
    /\ at \in [Consumers -> Parts]
    /\ batch \in [Consumers -> Seq(Message)]

TypeChannels ==
    /\ msgCh \in [Consumers -> Seq(Message)] /\ \A c \in Consumers : Len(msgCh[c]) <= ChanSize
    /\ consumed \in [Consumers -> Seq(Message)]

TypeInv == /\ TypeQueue /\ TypeStore /\ TypeProducers
           /\ TypeConsumers /\ TypePull /\ TypeChannels /\ PollerHasTopic

\* The parts are TypeOK.
LEMMA TypeInvIsTypeOK == TypeInv <=> QueueTypeOK /\ PollerHasTopic
  BY Zenon DEF TypeInv, QueueTypeOK, TypeQueue, TypeStore, TypeProducers, TypeConsumers, TypePull,
     TypeChannels

\* append stores a message on a partition that its topic has.
LEMMA ClampInRange ==
    ASSUME NEW i \in Int, NEW n \in Nat \ {0}
    PROVE  Clamp(i, n) \in 0..(n - 1)
  BY DEF Clamp

\* selectPartition returns an int.
LEMMA SelectPartitionInt ==
    ASSUME NEW h \in Hashes, NEW n \in Nat \ {0}
    PROVE  SelectPartition(h, n) \in Int
  BY MQAssumption DEF SelectPartition, MinInt

\* get copies messages.
LEMMA CopyIsMessages ==
    ASSUME NEW l \in Seq(Message), NEW o \in Nat
    PROVE  SubSeq(l, o + 1, Len(l)) \in Seq(Message)
<1>1. \A k \in (o + 1)..Len(l) : l[k] \in Message
  BY LenProperties, ElementOfSeq
<1> QED BY <1>1, SubSeqProperties

-----------------------------------------------------------------------------
\* A part of the types is kept by a step that leaves its variables alone.
LEMMA Frame ==
    ASSUME TypeInv
    PROVE  /\ UNCHANGED <<phase, current, deleted, parts>> => TypeQueue'
           /\ UNCHANGED <<log, notify, sent, parts>> => TypeStore'
           /\ UNCHANGED <<ptopic, pclosed, inflight, parts>> => TypeProducers'
           /\ UNCHANGED <<ctopic, cclosed, reading, parts>> => TypeConsumers'
           /\ UNCHANGED <<offsets, poll, at, batch>> => TypePull'
           /\ UNCHANGED <<msgCh, consumed>> => TypeChannels'
           /\ UNCHANGED <<poll, ctopic>> => PollerHasTopic'
  BY Zenon DEF TypeInv, TypeQueue, TypeStore, TypeProducers, TypeConsumers, TypePull,
     TypeChannels, PollerHasTopic

\* A topic more keeps the types of those who have one.
LEMMA MoreTopics ==
    ASSUME TypeInv, NEW n \in 1..MaxParts, Len(parts) < MaxTopics, parts' = Append(parts, n)
    PROVE  /\ parts' \in Seq(1..MaxParts)
           /\ Len(parts') = Len(parts) + 1 /\ Len(parts') <= MaxTopics /\ Len(parts) \in Nat
           /\ \A t \in 1..Len(parts) : parts'[t] = parts[t]
           /\ UNCHANGED <<log, notify, sent>> => TypeStore'
           /\ UNCHANGED <<ptopic, pclosed, inflight>> => TypeProducers'
           /\ UNCHANGED <<ctopic, cclosed, reading>> => TypeConsumers'
<1>1. parts \in Seq(1..MaxParts) /\ Len(parts) \in Nat /\ MaxTopics \in Nat
  BY MQAssumption DEF TypeInv, TypeQueue
<1>2. parts' \in Seq(1..MaxParts) /\ Len(parts') = Len(parts) + 1 /\ Len(parts') <= MaxTopics
      /\ \A t \in 1..Len(parts) : parts'[t] = parts[t]
  BY <1>1
<1>3. ASSUME UNCHANGED <<log, notify, sent>> PROVE TypeStore'
  <2>1. \A t \in Topics, i \in Parts : log[t][i] # <<>> => t <= Len(parts) /\ i < parts[t]
    BY DEF TypeInv, TypeStore
  <2>2. \A t \in Topics, i \in Parts : log[t][i] # <<>> => t <= Len(parts') /\ i < parts'[t]
    BY <1>1, <1>2, <2>1 DEF Topics
  <2>3. QED
    BY Zenon, <1>3, <2>2 DEF TypeInv, TypeStore
<1>4. UNCHANGED <<ptopic, pclosed, inflight>> => TypeProducers'
  BY <1>1, <1>2 DEF TypeInv, TypeProducers
<1>5. UNCHANGED <<ctopic, cclosed, reading>> => TypeConsumers'
  BY <1>1, <1>2 DEF TypeInv, TypeConsumers
<1>6. QED
  BY <1>1, <1>2, <1>3, <1>4, <1>5

\* A topic object's number of partitions.
LEMMA PartsOf ==
    ASSUME TypeInv, NEW t \in 0..Len(parts), t # NoTopic
    PROVE  t \in Topics /\ parts[t] \in 1..MaxParts /\ parts[t] \in Nat \ {0} /\ t \in 1..Len(parts)
  BY MQAssumption DEF TypeInv, TypeQueue, Topics, NoTopic

\* getOrCreateTopic yields a registered topic.
LEMMA GetOrCreate ==
    ASSUME TypeInv, GetOrCreateTopic, UNCHANGED <<phase, deleted>>
    PROVE  /\ TypeQueue' /\ current' \in 1..Len(parts')
           /\ UNCHANGED <<log, notify, sent>> => TypeStore'
           /\ UNCHANGED <<ptopic, pclosed, inflight>> => TypeProducers'
           /\ UNCHANGED <<ctopic, cclosed, reading>> => TypeConsumers'
           /\ ptopic \in [Producers -> 0..Len(parts')]
           /\ ctopic \in [Consumers -> 0..Len(parts')]
<1>1. CASE current # NoTopic
  <2>1. UNCHANGED <<current, parts>>
    BY <1>1 DEF GetOrCreateTopic
  <2>2. current \in 1..Len(parts)
    BY <1>1 DEF TypeInv, TypeQueue, NoTopic
  <2>3. TypeQueue' /\ current' \in 1..Len(parts')
    BY Zenon, <2>1, <2>2 DEF TypeInv, TypeQueue
  <2>4. QED
    BY Zenon, <2>1, <2>3 DEF TypeInv, TypeStore, TypeProducers, TypeConsumers
<1>2. CASE current = NoTopic
  <2>1. Len(parts) < MaxTopics /\ parts' = Append(parts, DefaultPartitions) /\ current' = Len(parts) + 1
    BY <1>2 DEF GetOrCreateTopic
  <2>2. DefaultPartitions \in 1..MaxParts
    BY MQAssumption
  <2>3. /\ parts' \in Seq(1..MaxParts)
        /\ Len(parts') = Len(parts) + 1 /\ Len(parts') <= MaxTopics /\ Len(parts) \in Nat
    BY <2>1, <2>2, MoreTopics
  <2>4. /\ UNCHANGED <<log, notify, sent>> => TypeStore'
        /\ UNCHANGED <<ptopic, pclosed, inflight>> => TypeProducers'
        /\ UNCHANGED <<ctopic, cclosed, reading>> => TypeConsumers'
    BY <2>1, <2>2, MoreTopics
  <2>5. ptopic \in [Producers -> 0..Len(parts')] /\ ctopic \in [Consumers -> 0..Len(parts')]
    BY <2>3 DEF TypeInv, TypeProducers, TypeConsumers
  <2>6. TypeQueue' /\ current' \in 1..Len(parts')
    BY <2>1, <2>3 DEF TypeInv, TypeQueue
  <2>7. QED
    BY <2>4, <2>5, <2>6
<1>3. QED
  BY <1>1, <1>2

\* pullAll arriving at a partition keeps the poll goroutine's types.
LEMMA GetTypes ==
    ASSUME TypeInv, NEW c \in Consumers, NEW i \in Parts, poll[c] # "none", Get(c, i),
           UNCHANGED <<offsets, ctopic>>
    PROVE  TypePull' /\ PollerHasTopic'
<1>1. ctopic[c] \in Topics
  BY PartsOf DEF TypeInv, TypeConsumers, PollerHasTopic
<1>2. log[ctopic[c]][i] \in Seq(Message) /\ offsets[c][i] \in Nat
  BY <1>1 DEF TypeInv, TypeStore, TypePull
<1>3. SubSeq(log[ctopic[c]][i], offsets[c][i] + 1, Len(log[ctopic[c]][i])) \in Seq(Message)
  BY <1>2, CopyIsMessages
<1>4. TypePull'
  BY <1>3 DEF TypeInv, TypePull, Get
<1>5. PollerHasTopic'
  BY DEF TypeInv, TypePull, PollerHasTopic, Get
<1>6. QED
  BY <1>4, <1>5

\* SendTo keeps the types when it is given the partition append chooses.
LEMMA SendToTypes ==
    ASSUME TypeInv, NEW p \in Producers, NEW j \in Int, ptopic[p] # NoTopic,
           SendTo(p, Clamp(j, parts[ptopic[p]]))
    PROVE  TypeInv'
<1> DEFINE t == ptopic[p]
           i == Clamp(j, parts[t])
           m == [part |-> i, off |-> Len(log[t][i]), id |-> sent + 1]
<1>1. t \in Topics /\ parts[t] \in Nat \ {0} /\ parts[t] <= MaxParts /\ t <= Len(parts)
  BY PartsOf, MQAssumption DEF TypeInv, TypeProducers
<1>2. i \in 0..(parts[t] - 1)
  BY <1>1, ClampInRange
<1>3. i \in Parts /\ i < parts[t] /\ i \in Nat
  BY <1>1, <1>2, MQAssumption DEF Parts
<1>4. log[t][i] \in Seq(Message) /\ sent \in Nat
  BY <1>1, <1>3 DEF TypeInv, TypeStore
<1>5. m \in Message
  BY <1>3, <1>4 DEF Message
<1>6. /\ log' = [log EXCEPT ![t][i] = Append(@, m)]
      /\ inflight' = inflight \cup {[prod |-> p, msg |-> m]}
      /\ sent' = sent + 1
      /\ UNCHANGED <<mq, notify, ptopic, pclosed, cons>>
  BY DEF SendTo
<1>7. Append(log[t][i], m) \in Seq(Message)
  BY <1>4, <1>5
<1> HIDE DEF m, i, t
<1>8. TypeStore'
  <2>1. log \in [Topics -> [Parts -> Seq(Message)]]
    BY DEF TypeInv, TypeStore
  <2>2. log' \in [Topics -> [Parts -> Seq(Message)]]
    BY <1>1, <1>3, <1>6, <1>7, <2>1
  <2>3. ASSUME NEW u \in Topics, NEW k \in Parts, log'[u][k] # <<>>
        PROVE  u <= Len(parts) /\ k < parts[u]
    <3>1. CASE u = t /\ k = i
      BY <1>1, <1>3, <3>1
    <3>2. CASE ~(u = t /\ k = i)
      <4>1. log'[u][k] = log[u][k]
        BY <1>6, <2>1, <3>2
      <4>2. QED
        BY <2>3, <4>1 DEF TypeInv, TypeStore
    <3>3. QED
      BY <3>1, <3>2
  <2>4. UNCHANGED <<parts, notify>>
    BY <1>6 DEF mq
  <2>5. sent' \in Nat
    BY <1>4, <1>6
  <2>6. QED
    BY Zenon, <2>2, <2>3, <2>4, <2>5 DEF TypeInv, TypeStore
<1>9. TypeProducers'
  <2>1. [prod |-> p, msg |-> m] \in [prod : {q \in Producers : ptopic[q] # NoTopic}, msg : Message]
    BY <1>5
  <2>2. UNCHANGED <<parts, ptopic, pclosed>>
    BY <1>6 DEF mq
  <2>3. QED
    BY Zenon, <1>6, <2>1, <2>2 DEF TypeInv, TypeProducers
<1>10. TypeQueue' /\ TypeConsumers' /\ TypePull' /\ TypeChannels' /\ PollerHasTopic'
  <2>1. UNCHANGED <<mq, cons>>
    BY <1>6
  <2>2. QED
    BY <2>1, Frame DEF mq, cons, pull
<1>11. QED
  BY <1>8, <1>9, <1>10 DEF TypeInv

-----------------------------------------------------------------------------
\* Every step of the queue, its producers and its consumers keeps the types.
LEMMA TypeStep ==
    ASSUME TypeInv, [QueueNext]_queueVars
    PROVE  TypeInv'
<1> USE DEF mq, store, prods, pull, cons
<1>1. ASSUME NEW n \in PartitionCounts, CreateTopic(n) PROVE TypeInv'
  <2>1. n \in 1..MaxParts /\ Len(parts) < MaxTopics /\ parts' = Append(parts, n)
    BY <1>1, MQAssumption DEF CreateTopic
  <2>2. TypeQueue'
    BY <1>1, <2>1, MoreTopics DEF CreateTopic, TypeInv, TypeQueue
  <2>3. TypeStore' /\ TypeProducers' /\ TypeConsumers'
    BY <1>1, <2>1, MoreTopics DEF CreateTopic
  <2>4. QED
    BY <1>1, <2>2, <2>3, Frame DEF CreateTopic, TypeInv
<1>2. CASE DeleteTopics
  <2>1. TypeQueue'
    BY <1>2 DEF DeleteTopics, TypeInv, TypeQueue, NoTopic
  <2>2. QED
    BY <1>2, <2>1, Frame DEF DeleteTopics, TypeInv
<1>3. CASE Close
  <2>1. TypeQueue'
    BY <1>3 DEF Close, TypeInv, TypeQueue
  <2>2. QED
    BY <1>3, <2>1, Frame DEF Close, TypeInv
<1>4. CASE CloseConsumers
  <2>1. TypeQueue'
    BY <1>4 DEF CloseConsumers, TypeInv, TypeQueue
  <2>2. TypeConsumers'
    BY <1>4 DEF CloseConsumers, TypeInv, TypeConsumers
  <2>3. QED
    BY <1>4, <2>1, <2>2, Frame DEF CloseConsumers, TypeInv
<1>5. ASSUME NEW p \in Producers, NewProducer(p) PROVE TypeInv'
  <2>1. TypeQueue' /\ TypeStore' /\ TypeConsumers' /\ current' \in 1..Len(parts')
        /\ ptopic \in [Producers -> 0..Len(parts')]
    BY <1>5, GetOrCreate DEF NewProducer
  <2>2. ptopic' = [ptopic EXCEPT ![p] = current'] /\ current' \in 0..Len(parts') /\ current' # NoTopic
    BY <1>5, <2>1 DEF NewProducer, NoTopic, TypeInv, TypeQueue
  <2>3. TypeProducers'
    BY <1>5, <2>1, <2>2 DEF NewProducer, TypeInv, TypeProducers
  <2>4. QED
    BY <1>5, <2>1, <2>3, Frame DEF NewProducer, TypeInv
<1>6. ASSUME NEW p \in Producers, ProducerClose(p) PROVE TypeInv'
  <2>1. TypeProducers'
    BY <1>6 DEF ProducerClose, TypeInv, TypeProducers
  <2>2. QED
    BY <1>6, <2>1, Frame DEF ProducerClose, TypeInv
<1>7. ASSUME NEW p \in Producers, Send(p) PROVE TypeInv'
  <2>1. PICK h \in Hashes :
          SendTo(p, Clamp(SelectPartition(h, parts[ptopic[p]]), parts[ptopic[p]]))
    BY <1>7 DEF Send
  <2>2. ptopic[p] # NoTopic /\ parts[ptopic[p]] \in Nat \ {0}
    BY <1>7, PartsOf DEF Send, TypeInv, TypeProducers
  <2>3. SelectPartition(h, parts[ptopic[p]]) \in Int
    BY <2>2, SelectPartitionInt
  <2>4. QED
    BY <2>1, <2>2, <2>3, SendToTypes
<1>8. ASSUME NEW p \in Producers, SendWithPartition(p) PROVE TypeInv'
  <2>1. PICK j \in Explicit : SendTo(p, Clamp(j, parts[ptopic[p]]))
    BY <1>8 DEF SendWithPartition
  <2>2. ptopic[p] # NoTopic /\ j \in Int
    BY <1>8, MQAssumption DEF SendWithPartition
  <2>3. QED
    BY <2>1, <2>2, SendToTypes
<1>9. ASSUME NEW s \in inflight, SendNotify(s) PROVE TypeInv'
  <2>1. s.prod \in Producers /\ ptopic[s.prod] # NoTopic
    BY DEF TypeInv, TypeProducers
  <2>2. ptopic[s.prod] \in Topics
    BY <2>1, PartsOf DEF TypeInv, TypeProducers
  <2>3. TypeStore'
    BY <1>9, <2>2 DEF SendNotify, TypeInv, TypeStore
  <2>4. TypeProducers'
    BY <1>9 DEF SendNotify, TypeInv, TypeProducers
  <2>5. QED
    BY <1>9, <2>3, <2>4, Frame DEF SendNotify, TypeInv
<1>10. ASSUME NEW c \in Consumers, NewConsumer(c) PROVE TypeInv'
  <2>1. TypeQueue' /\ TypeStore' /\ TypeProducers' /\ current' \in 1..Len(parts')
        /\ ctopic \in [Consumers -> 0..Len(parts')]
    BY <1>10, GetOrCreate DEF NewConsumer
  <2>2. ctopic' = [ctopic EXCEPT ![c] = current'] /\ current' \in 0..Len(parts') /\ current' # NoTopic
    BY <1>10, <2>1 DEF NewConsumer, NoTopic, TypeInv, TypeQueue
  <2>3. TypeConsumers'
    BY <1>10, <2>1, <2>2 DEF NewConsumer, TypeInv, TypeConsumers
  <2>4. TypePull'
    BY <1>10 DEF NewConsumer, TypeInv, TypePull
  <2>5. PollerHasTopic'
    BY <1>10, <2>2 DEF NewConsumer, TypeInv, TypePull, TypeConsumers, PollerHasTopic
  <2>6. QED
    BY <1>10, <2>1, <2>3, <2>4, <2>5, Frame DEF NewConsumer, TypeInv
<1>11. 0 \in Parts
  BY MQAssumption DEF Parts
<1>12. ASSUME NEW c \in Consumers, PollTick(c) PROVE TypeInv'
  <2>1. TypePull' /\ PollerHasTopic'
    BY <1>11, <1>12, GetTypes DEF PollTick
  <2>2. QED
    BY <1>12, <2>1, Frame DEF PollTick, TypeInv
<1>13. ASSUME NEW c \in Consumers, PollNotify(c) PROVE TypeInv'
  <2>1. TypePull' /\ PollerHasTopic'
    BY <1>11, <1>13, GetTypes DEF PollNotify
  <2>2. TypeStore'
    BY <1>13 DEF PollNotify, TypeInv, TypeStore
  <2>3. QED
    BY <1>13, <2>1, <2>2, Frame DEF PollNotify, TypeInv
<1>14. ASSUME NEW c \in Consumers, PollDone(c) PROVE TypeInv'
  <2>1. TypePull' /\ PollerHasTopic'
    BY <1>14 DEF PollDone, TypeInv, TypePull, PollerHasTopic
  <2>2. QED
    BY <1>14, <2>1, Frame DEF PollDone, TypeInv
<1>15. ASSUME NEW c \in Consumers, poll[c] # "none", PullReturns(c), UNCHANGED <<offsets, ctopic>>
       PROVE  TypePull' /\ PollerHasTopic'
  <2>1. <<>> \in Seq(Message)
    OBVIOUS
  <2>2. QED
    BY <1>11, <1>15, <2>1 DEF PullReturns, TypeInv, TypePull, PollerHasTopic
<1>16. ASSUME NEW c \in Consumers, PullNext(c) PROVE TypeInv'
  <2>1. TypePull' /\ PollerHasTopic'
    <3>1. CASE at[c] + 1 < parts[ctopic[c]]
      <4>1. parts[ctopic[c]] \in 1..MaxParts
        BY <1>16, PartsOf DEF PullNext, TypeInv, TypeConsumers, PollerHasTopic
      <4>2. at[c] + 1 \in Parts
        BY <3>1, <4>1, MQAssumption DEF Parts, TypeInv, TypePull
      <4>3. QED
        BY <1>16, <3>1, <4>2, GetTypes DEF PullNext
    <3>2. CASE ~(at[c] + 1 < parts[ctopic[c]])
      BY <1>15, <1>16, <3>2 DEF PullNext
    <3>3. QED
      BY <3>1, <3>2
  <2>2. QED
    BY <1>16, <2>1, Frame DEF PullNext, TypeInv
<1>17. ASSUME NEW c \in Consumers, PullPush(c) PROVE TypeInv'
  <2>1. batch[c] \in Seq(Message) /\ msgCh[c] \in Seq(Message) /\ batch[c] # <<>>
        /\ Len(msgCh[c]) < ChanSize
    BY <1>17 DEF PullPush, TypeInv, TypePull, TypeChannels
  <2>2. Head(batch[c]) \in Message /\ Tail(batch[c]) \in Seq(Message)
    BY <2>1
  <2>3. TypePull'
    BY <1>17, <2>2 DEF PullPush, TypeInv, TypePull
  <2>4. Append(msgCh[c], Head(batch[c])) \in Seq(Message)
        /\ Len(Append(msgCh[c], Head(batch[c]))) <= ChanSize
    BY <2>1, <2>2, MQAssumption
  <2>5. TypeChannels'
    BY <1>17, <2>4 DEF PullPush, TypeInv, TypeChannels
  <2>6. QED
    BY <1>17, <2>3, <2>5, Frame DEF PullPush, TypeInv
<1>18. ASSUME NEW c \in Consumers, PullClosed(c) PROVE TypeInv'
  <2>1. TypePull' /\ PollerHasTopic'
    BY <1>15, <1>18 DEF PullClosed
  <2>2. QED
    BY <1>18, <2>1, Frame DEF PullClosed, TypeInv
<1>19. ASSUME NEW c \in Consumers, Consume(c) PROVE TypeInv'
  <2>1. msgCh[c] \in Seq(Message) /\ consumed[c] \in Seq(Message) /\ msgCh[c] # <<>>
        /\ Len(msgCh[c]) <= ChanSize
    BY <1>19 DEF Consume, TypeInv, TypeChannels
  <2>2. /\ Append(consumed[c], Head(msgCh[c])) \in Seq(Message)
        /\ Tail(msgCh[c]) \in Seq(Message) /\ Len(Tail(msgCh[c])) <= ChanSize
    BY <2>1, MQAssumption
  <2>3. TypeChannels'
    BY <1>19, <2>2 DEF Consume, TypeInv, TypeChannels
  <2>4. QED
    BY <1>19, <2>3, Frame DEF Consume, TypeInv
<1>20. ASSUME NEW c \in Consumers, StopReading(c) PROVE TypeInv'
  <2>1. TypeConsumers'
    BY <1>20 DEF StopReading, TypeInv, TypeConsumers
  <2>2. QED
    BY <1>20, <2>1, Frame DEF StopReading, TypeInv
<1>21. ASSUME NEW c \in Consumers, ConsumerClose(c) PROVE TypeInv'
  <2>1. TypeConsumers'
    BY <1>21 DEF ConsumerClose, TypeInv, TypeConsumers
  <2>2. QED
    BY <1>21, <2>1, Frame DEF ConsumerClose, TypeInv
<1>22. CASE UNCHANGED queueVars
  BY <1>22, Frame DEF queueVars, TypeInv
<1>23. QED
  BY <1>1, <1>2, <1>3, <1>4, <1>5, <1>6, <1>7, <1>8, <1>9, <1>10, <1>12, <1>13, <1>14,
     <1>16, <1>17, <1>18, <1>19, <1>20, <1>21, <1>22 DEF QueueNext, Poll

\* The queue starts empty.
LEMMA TypeInit == QueueInit => TypeInv
<1> SUFFICES ASSUME QueueInit PROVE TypeInv
  OBVIOUS
<1> USE MQAssumption DEF QueueInit, NoTopic
<1>1. TypeQueue
  <2>1. parts \in Seq(1..MaxParts) /\ Len(parts) = 0
    OBVIOUS
  <2>2. current \in 0..Len(parts) /\ Len(parts) <= MaxTopics
    BY <2>1
  <2>3. QED
    BY Zenon, <2>1, <2>2 DEF TypeQueue
<1>2. TypeStore
  BY DEF TypeStore, Topics
<1>3. TypeProducers
  BY DEF TypeProducers
<1>4. TypeConsumers
  BY DEF TypeConsumers
<1>5. TypePull
  BY DEF TypePull, Parts
<1>6. TypeChannels
  BY DEF TypeChannels
<1>7. PollerHasTopic
  BY DEF PollerHasTopic
<1>8. QED
  BY <1>1, <1>2, <1>3, <1>4, <1>5, <1>6, <1>7 DEF TypeInv

\* For every number of producers, consumers and partitions, no message is stored on a
\* partition its topic lacks and no consumer's channel exceeds its buffer.
THEOREM TypeCorrect == QueueSpec => []QueueTypeOK
<1>1. QueueSpec => []TypeInv
  BY TypeInit, TypeStep, PTL DEF QueueSpec
<1>2. QED
  BY <1>1, TypeInvIsTypeOK, PTL

-----------------------------------------------------------------------------

\* Unless a topic is deleted, producers and consumers of a name share one topic object.
THEOREM OneTopic == QueueSpec => []OneTopicUntilDeleted
<1>1. QueueInit => OneTopicUntilDeleted
  BY DEF QueueInit, OneTopicUntilDeleted
<1>2. ASSUME TypeInv, OneTopicUntilDeleted, [QueueNext]_queueVars
      PROVE  OneTopicUntilDeleted'
  <2> USE <1>2 DEF OneTopicUntilDeleted, mq, store, prods, pull, cons
  <2>1. ptopic \in [Producers -> 0..Len(parts)] /\ ctopic \in [Consumers -> 0..Len(parts)]
    BY DEF TypeInv, TypeProducers, TypeConsumers
  <2>2. ASSUME NEW n \in PartitionCounts, CreateTopic(n) PROVE OneTopicUntilDeleted'
    BY <2>2 DEF CreateTopic
  <2>3. CASE DeleteTopics
    BY <2>3 DEF DeleteTopics
  <2>4. ASSUME NEW p \in Producers, NewProducer(p) PROVE OneTopicUntilDeleted'
    BY <2>1, <2>4 DEF NewProducer, GetOrCreateTopic
  <2>5. ASSUME NEW c \in Consumers, NewConsumer(c) PROVE OneTopicUntilDeleted'
    BY <2>1, <2>5 DEF NewConsumer, GetOrCreateTopic
  <2>6. CASE UNCHANGED <<deleted, current, ptopic, ctopic>>
    BY <2>6
  <2> HIDE DEF OneTopicUntilDeleted
  <2>7. CASE Close \/ CloseConsumers \/ \E s \in inflight : SendNotify(s)
    BY <2>6, <2>7 DEF Close, CloseConsumers, SendNotify
  <2>8. ASSUME NEW p \in Producers, ProducerClose(p) \/ Send(p) \/ SendWithPartition(p)
        PROVE  OneTopicUntilDeleted'
    BY <2>6, <2>8 DEF ProducerClose, Send, SendWithPartition, SendTo
  <2>9. ASSUME NEW c \in Consumers, Poll(c) \/ Consume(c) \/ StopReading(c) \/ ConsumerClose(c)
        PROVE  OneTopicUntilDeleted'
    BY <2>6, <2>9 DEF Poll, PollTick, PollNotify, PollDone, PullNext, PullPush, PullClosed,
       Consume, StopReading, ConsumerClose
  <2>10. CASE UNCHANGED queueVars
    BY <2>6, <2>10 DEF queueVars
  <2>11. QED
    BY <1>2, <2>2, <2>3, <2>4, <2>5, <2>7, <2>8, <2>9, <2>10 DEF QueueNext
<1>3. QED
  BY <1>1, <1>2, TypeInit, TypeStep, PTL DEF QueueSpec

\* When Close has returned every producer is closed and no send is under way.
Quiet == phase = "closed" => /\ \A p \in Producers : ptopic[p] # NoTopic => pclosed[p]
                             /\ inflight = {}

\* A step from a quiet queue leaves it quiet.
LEMMA QuietStep ==
    ASSUME TypeInv, Quiet, [QueueNext]_queueVars
    PROVE  Quiet' /\ (phase = "closed" => UNCHANGED <<log, inflight>>)
<1> USE DEF Quiet, mq, store, prods, pull, cons
<1> DEFINE Goal == Quiet' /\ (phase = "closed" => UNCHANGED <<log, inflight>>)
<1>1. CASE Close \/ \E n \in PartitionCounts : CreateTopic(n)
  BY <1>1 DEF Close, CreateTopic
<1>2. CASE DeleteTopics
  BY <1>2 DEF DeleteTopics
<1>3. CASE CloseConsumers
  BY <1>3 DEF CloseConsumers
<1>4. ASSUME NEW p \in Producers, NewProducer(p) PROVE Goal
  BY <1>4 DEF NewProducer
<1>5. ASSUME NEW p \in Producers, ProducerClose(p) PROVE Goal
  <2>1. pclosed \in [Producers -> BOOLEAN]
    BY DEF TypeInv, TypeProducers
  <2>2. QED
    BY Zenon, <1>5, <2>1 DEF ProducerClose
<1>6. ASSUME NEW p \in Producers, Send(p) \/ SendWithPartition(p) PROVE Goal
  BY <1>6 DEF Send, SendWithPartition, SendTo
<1>7. ASSUME NEW s \in inflight, SendNotify(s) PROVE Goal
  BY <1>7 DEF SendNotify
<1>8. CASE UNCHANGED <<phase, ptopic, pclosed, inflight, log>>
  BY <1>8
<1> HIDE DEF Goal, Quiet
<1>9. ASSUME NEW c \in Consumers,
             NewConsumer(c) \/ Poll(c) \/ Consume(c) \/ StopReading(c) \/ ConsumerClose(c)
      PROVE  Goal
  BY <1>8, <1>9 DEF NewConsumer, Poll, PollTick, PollNotify, PollDone, PullNext, PullPush,
     PullClosed, Consume, StopReading, ConsumerClose, Goal
<1>10. CASE UNCHANGED queueVars
  BY <1>8, <1>10 DEF queueVars, Goal
<1>11. QED
  BY <1>1, <1>2, <1>3, <1>4, <1>5, <1>6, <1>7, <1>9, <1>10 DEF QueueNext, Goal

\* Once Close has returned, no producer, however many there are, appends a message.
THEOREM CloseIsFinal == QueueSpec => NothingAfterClose
<1>1. QueueInit => Quiet
  BY DEF QueueInit, Quiet
<1>2. TypeInv /\ Quiet /\ [QueueNext]_queueVars => [phase = "closed" => UNCHANGED <<log, inflight>>]_queueVars
  BY QuietStep
<1>3. QED
  BY <1>1, <1>2, QuietStep, TypeInit, TypeStep, PTL DEF QueueSpec, NothingAfterClose

-----------------------------------------------------------------------------
(* Delivery. *)

\* A message carries the partition and the offset it is stored at.
Numbered == \A t \in Topics, i \in Parts : \A k \in 1..Len(log[t][i]) :
                log[t][i][k].part = i /\ log[t][i][k].off = k - 1

\* A consumer that has not been created has done nothing.
Fresh(c) == ctopic[c] = NoTopic => /\ consumed[c] = <<>> /\ msgCh[c] = <<>> /\ batch[c] = <<>>
                                /\ \A i \in Parts : offsets[c][i] = 0

\* What is left of the copy is what the log holds past the offset.
Copied(c) == \A k \in 1..Len(batch[c]) :
                LET o == offsets[c][at[c]] + k IN
                o <= Len(log[ctopic[c]][at[c]]) /\ batch[c][k] = log[ctopic[c]][at[c]][o]

\* What has been delivered is what the log holds before the offset...
Before(c) == \A k \in 1..Len(Stream(c)) :
                LET m == Stream(c)[k] IN
                /\ m.off < offsets[c][m.part]
                /\ m.off < Len(log[ctopic[c]][m.part])
                /\ log[ctopic[c]][m.part][m.off + 1] = m

\* ... all of it...
Complete(c) == \A i \in Parts : \A d \in 0..(offsets[c][i] - 1) :
                  \E k \in 1..Len(Stream(c)) : Stream(c)[k].part = i /\ Stream(c)[k].off = d

\* ... in order and once.
Ordered(c) == \A k \in 1..Len(Stream(c)) :
                LET m == Stream(c)[k] IN
                /\ m.off > 0 => \E j \in 1..(k - 1) :
                      Stream(c)[j].part = m.part /\ Stream(c)[j].off = m.off - 1
                /\ \A j \in 1..(k - 1) : Stream(c)[j] # m

ConsumerInv(c) == Fresh(c) /\ Copied(c) /\ Before(c) /\ Complete(c) /\ Ordered(c)

Delivery == Numbered /\ \A c \in Consumers : ConsumerInv(c)

\* The invariant says what DeliveredInOrder says, and more.
LEMMA DeliveryImplies == Delivery => DeliveredInOrder
  BY DEF Delivery, ConsumerInv, Before, Ordered, DeliveredInOrder

\* The stream is a sequence of messages.
LEMMA StreamType ==
    ASSUME TypeInv, NEW c \in Consumers
    PROVE  /\ consumed[c] \in Seq(Message) /\ msgCh[c] \in Seq(Message)
           /\ Stream(c) \in Seq(Message)
  BY DEF TypeInv, TypeChannels, Stream

\* What an existing consumer reads of: a topic's logs and its own pull.
LEMMA ReaderTypes ==
    ASSUME TypeInv, NEW c \in Consumers, ctopic[c] # NoTopic
    PROVE  /\ ctopic[c] \in Topics
           /\ \A i \in Parts : log[ctopic[c]][i] \in Seq(Message) /\ offsets[c][i] \in Nat
           /\ at[c] \in Parts
           /\ batch[c] \in Seq(Message)
<1>1. ctopic[c] \in Topics
  BY PartsOf DEF TypeInv, TypeConsumers
<1>2. QED
  BY <1>1 DEF TypeInv, TypeStore, TypePull

\* A step that leaves a consumer without messages, copy and offsets establishes its
\* invariant.
LEMMA FreshInv ==
    ASSUME NEW c \in Consumers, consumed'[c] = <<>>, msgCh'[c] = <<>>, batch'[c] = <<>>,
           \A i \in Parts : offsets'[c][i] = 0
    PROVE  ConsumerInv(c)'
<1>1. Stream(c)' = <<>> /\ Len(Stream(c)') = 0 /\ Len(batch'[c]) = 0
  BY DEF Stream
<1>2. Fresh(c)' /\ Copied(c)' /\ Before(c)' /\ Ordered(c)'
  BY <1>1 DEF Fresh, Copied, Before, Ordered
<1>3. Complete(c)'
  BY <1>1 DEF Complete
<1>4. QED
  BY <1>2, <1>3 DEF ConsumerInv

\* Steps that a consumer does not notice keep its invariant.
LEMMA ConsumerFrame ==
    ASSUME NEW c \in Consumers, ConsumerInv(c),
           UNCHANGED <<log, ctopic[c], consumed[c], msgCh[c], batch[c], at[c], offsets[c]>>
    PROVE  ConsumerInv(c)'
<1>1. Stream(c)' = Stream(c)
  BY DEF Stream
<1>2. Fresh(c)'
  BY DEF ConsumerInv, Fresh
<1>3. Copied(c)'
  BY DEF ConsumerInv, Copied
<1>4. Before(c)'
  BY <1>1 DEF ConsumerInv, Before
<1>5. Complete(c)'
  BY <1>1 DEF ConsumerInv, Complete
<1>6. Ordered(c)'
  BY <1>1 DEF ConsumerInv, Ordered
<1>7. QED
  BY <1>2, <1>3, <1>4, <1>5, <1>6 DEF ConsumerInv

\* A send only adds to the end of one log, and numbers what it adds.
LEMMA SendGrows ==
    ASSUME TypeInv, Numbered, NEW p \in Producers, NEW j \in Int, ptopic[p] # NoTopic,
           SendTo(p, Clamp(j, parts[ptopic[p]]))
    PROVE  /\ Numbered'
           /\ \A t \in Topics, i \in Parts :
                 /\ Len(log[t][i]) <= Len(log'[t][i])
                 /\ \A k \in 1..Len(log[t][i]) : log'[t][i][k] = log[t][i][k]
<1> DEFINE t == ptopic[p]
           i == Clamp(j, parts[t])
           m == [part |-> i, off |-> Len(log[t][i]), id |-> sent + 1]
<1>1. t \in Topics /\ parts[t] \in Nat \ {0} /\ parts[t] <= MaxParts
  BY PartsOf, MQAssumption DEF TypeInv, TypeProducers
<1>2. i \in 0..(parts[t] - 1)
  BY <1>1, ClampInRange
<1>3. i \in Parts
  BY <1>1, <1>2, MQAssumption DEF Parts
<1>4. log \in [Topics -> [Parts -> Seq(Message)]]
  BY DEF TypeInv, TypeStore
<1>5. log' = [log EXCEPT ![t][i] = Append(log[t][i], m)]
  BY DEF SendTo
<1>6. m.part = i /\ m.off = Len(log[t][i])
  OBVIOUS
<1> HIDE DEF m, i, t
<1>7. ASSUME NEW u \in Topics, NEW q \in Parts
      PROVE  /\ Len(log[u][q]) <= Len(log'[u][q])
             /\ \A k \in 1..Len(log[u][q]) : log'[u][q][k] = log[u][q][k]
             /\ \A k \in 1..Len(log'[u][q]) : log'[u][q][k].part = q /\ log'[u][q][k].off = k - 1
  <2>1. CASE u = t /\ q = i
    <3>1. log'[u][q] = Append(log[u][q], m) /\ log[u][q] \in Seq(Message)
      BY <1>1, <1>3, <1>4, <1>5, <2>1
    <3>2. /\ Len(log'[u][q]) = Len(log[u][q]) + 1 /\ Len(log[u][q]) \in Nat
          /\ \A k \in 1..Len(log[u][q]) : log'[u][q][k] = log[u][q][k]
          /\ log'[u][q][Len(log[u][q]) + 1] = m
      BY <3>1, AppendProperties, LenProperties
    <3>3. \A k \in 1..Len(log[u][q]) : log[u][q][k].part = q /\ log[u][q][k].off = k - 1
      BY DEF Numbered
    <3>4. ASSUME NEW k \in 1..Len(log'[u][q])
          PROVE  log'[u][q][k].part = q /\ log'[u][q][k].off = k - 1
      <4>1. CASE k = Len(log[u][q]) + 1
        BY <1>6, <2>1, <3>2, <4>1
      <4>2. CASE k # Len(log[u][q]) + 1
        <5>1. k \in 1..Len(log[u][q])
          BY <3>2, <4>2
        <5>2. QED
          BY <3>2, <3>3, <5>1
      <4>3. QED
        BY <4>1, <4>2
    <3>5. Len(log[u][q]) <= Len(log'[u][q])
      BY <3>2
    <3>6. QED
      BY Zenon, <3>2, <3>4, <3>5
  <2>2. CASE ~(u = t /\ q = i)
    <3>1. log'[u][q] = log[u][q] /\ log[u][q] \in Seq(Message)
      BY <1>4, <1>5, <2>2
    <3>2. Len(log[u][q]) \in Nat
      BY <3>1, LenProperties
    <3>3. QED
      BY <3>1, <3>2 DEF Numbered
  <2>3. QED
    BY <2>1, <2>2
<1>8. QED
  BY <1>7 DEF Numbered

\* A consumer does not mind its log growing.
LEMMA ConsumerGrows ==
    ASSUME TypeInv, NEW c \in Consumers, ConsumerInv(c),
           \A t \in Topics, i \in Parts :
              /\ Len(log[t][i]) <= Len(log'[t][i])
              /\ \A k \in 1..Len(log[t][i]) : log'[t][i][k] = log[t][i][k],
           log' \in [Topics -> [Parts -> Seq(Message)]],
           UNCHANGED <<ctopic, consumed, msgCh, batch, at, offsets>>
    PROVE  ConsumerInv(c)'
<1>1. CASE ctopic[c] = NoTopic
  <2>1. consumed[c] = <<>> /\ msgCh[c] = <<>> /\ batch[c] = <<>> /\ \A i \in Parts : offsets[c][i] = 0
    BY <1>1 DEF ConsumerInv, Fresh
  <2>2. QED
    BY <2>1, FreshInv
<1>2. CASE ctopic[c] # NoTopic
  <2>1. Stream(c)' = Stream(c)
    BY DEF Stream
  <2>2. /\ ctopic[c] \in Topics
        /\ at[c] \in Parts /\ batch[c] \in Seq(Message)
        /\ \A i \in Parts : log[ctopic[c]][i] \in Seq(Message) /\ offsets[c][i] \in Nat
    BY <1>2, ReaderTypes
  <2>3. \A i \in Parts : Len(log[ctopic[c]][i]) \in Nat /\ Len(log'[ctopic[c]][i]) \in Nat
    BY <2>2, LenProperties
  <2>4. Fresh(c)' /\ Complete(c)' /\ Ordered(c)'
    BY <1>2, <2>1 DEF ConsumerInv, Fresh, Complete, Ordered
  <2>5. Copied(c)'
    <3> DEFINE l == log[ctopic[c]][at[c]]
               o == offsets[c][at[c]]
    <3>1. /\ o \in Nat /\ Len(l) \in Nat /\ Len(log'[ctopic[c]][at[c]]) \in Nat
          /\ Len(l) <= Len(log'[ctopic[c]][at[c]])
          /\ \A k \in 1..Len(l) : log'[ctopic[c]][at[c]][k] = l[k]
      BY <2>2, <2>3
    <3>2. \A k \in 1..Len(batch[c]) : o + k <= Len(l) /\ batch[c][k] = l[o + k]
      BY DEF ConsumerInv, Copied
    <3>3. Len(batch[c]) \in Nat
      BY <2>2, LenProperties
    <3> HIDE DEF l, o
    <3>4. \A k \in 1..Len(batch[c]) : /\ o + k <= Len(log'[ctopic[c]][at[c]])
                                      /\ batch[c][k] = log'[ctopic[c]][at[c]][o + k]
      BY <3>1, <3>2, <3>3
    <3>5. QED
      BY <3>4 DEF Copied, l, o
  <2>6. Before(c)'
    <3>1. ASSUME NEW k \in 1..Len(Stream(c)) PROVE Stream(c)[k].part \in Parts /\ Stream(c)[k].off \in Nat
      <4>1. Stream(c)[k] \in Message
        BY StreamType, ElementOfSeq
      <4>2. QED
        BY <4>1 DEF Message
    <3>2. ASSUME NEW k \in 1..Len(Stream(c)), NEW m, m = Stream(c)[k]
          PROVE  /\ m.off < offsets[c][m.part]
                 /\ m.off < Len(log'[ctopic[c]][m.part])
                 /\ log'[ctopic[c]][m.part][m.off + 1] = m
      <4>1. m.part \in Parts /\ m.off \in Nat
        BY <3>1, <3>2
      <4>2. /\ m.off < offsets[c][m.part]
            /\ m.off < Len(log[ctopic[c]][m.part])
            /\ log[ctopic[c]][m.part][m.off + 1] = m
        BY <3>2 DEF ConsumerInv, Before
      <4>3. m.off + 1 \in 1..Len(log[ctopic[c]][m.part])
        BY <2>3, <4>1, <4>2
      <4>4. /\ log'[ctopic[c]][m.part][m.off + 1] = log[ctopic[c]][m.part][m.off + 1]
            /\ Len(log[ctopic[c]][m.part]) <= Len(log'[ctopic[c]][m.part])
        BY <2>2, <4>1, <4>3
      <4>5. m.off < Len(log'[ctopic[c]][m.part])
        <5>1. Len(log[ctopic[c]][m.part]) \in Nat /\ Len(log'[ctopic[c]][m.part]) \in Nat
          BY <2>3, <4>1
        <5>2. QED
          BY <4>1, <4>2, <4>4, <5>1
      <4>6. QED
        BY <4>2, <4>4, <4>5
    <3>3. QED
      BY <2>1, <3>2 DEF Before
  <2>7. QED
    BY <2>4, <2>5, <2>6 DEF ConsumerInv
<1>3. QED
  BY <1>1, <1>2

\* pullAll's copy is what the log holds past the offset.
LEMMA GetCopies ==
    ASSUME TypeInv, NEW c \in Consumers, NEW i \in Parts, ctopic[c] # NoTopic, ConsumerInv(c), Get(c, i),
           UNCHANGED <<log, ctopic, consumed, msgCh, offsets>>
    PROVE  ConsumerInv(c)'
<1> DEFINE l == log[ctopic[c]][i]
           o == offsets[c][i]
<1>1. l \in Seq(Message) /\ o \in Nat
  BY ReaderTypes
<1>2. Len(l) \in Nat /\ \A k \in 1..Len(l) : l[k] \in Message
  BY <1>1, LenProperties, ElementOfSeq
<1>3. batch'[c] = SubSeq(l, o + 1, Len(l)) /\ at'[c] = i
  BY DEF Get, TypeInv, TypePull
<1> HIDE DEF l, o
<1>4. /\ Len(SubSeq(l, o + 1, Len(l))) = IF o + 1 <= Len(l) THEN Len(l) - (o + 1) + 1 ELSE 0
      /\ \A k \in 1..(Len(l) - (o + 1) + 1) : SubSeq(l, o + 1, Len(l))[k] = l[(o + 1) + k - 1]
  BY <1>1, <1>2, SubSeqProperties
<1>5. \A k \in 1..Len(batch'[c]) : o + k <= Len(l) /\ batch'[c][k] = l[o + k]
  BY <1>1, <1>2, <1>3, <1>4
<1>6. Copied(c)'
  BY <1>3, <1>5 DEF Copied, l, o
<1>7. Stream(c)' = Stream(c)
  BY DEF Stream
<1>8. Fresh(c)' /\ Before(c)' /\ Complete(c)' /\ Ordered(c)'
  BY <1>7 DEF ConsumerInv, Fresh, Before, Complete, Ordered
<1>9. QED
  BY <1>6, <1>8 DEF ConsumerInv

\* Forgetting the rest of the copy loses nothing: the offset says where to resume.
LEMMA ReturnForgets ==
    ASSUME TypeInv, NEW c \in Consumers, ConsumerInv(c), PullReturns(c),
           UNCHANGED <<log, ctopic, consumed, msgCh, offsets>>
    PROVE  ConsumerInv(c)'
<1>1. batch'[c] = <<>> /\ Len(batch'[c]) = 0
  BY DEF PullReturns, TypeInv, TypePull
<1>2. Stream(c)' = Stream(c)
  BY DEF Stream
<1>3. Copied(c)'
  BY <1>1 DEF Copied
<1>4. Fresh(c)' /\ Before(c)' /\ Complete(c)' /\ Ordered(c)'
  BY <1>1, <1>2 DEF ConsumerInv, Fresh, Before, Complete, Ordered
<1>5. QED
  BY <1>3, <1>4 DEF ConsumerInv

\* A receive moves a message from the channel to the callers: the stream is the same.
LEMMA ConsumeKeepsStream ==
    ASSUME TypeInv, NEW c \in Consumers, Consume(c)
    PROVE  Stream(c)' = Stream(c)
<1> DEFINE a == consumed[c]
           b == msgCh[c]
<1>1. a \in Seq(Message) /\ b \in Seq(Message) /\ b # <<>>
  BY StreamType DEF Consume
<1>2. consumed'[c] = Append(a, Head(b)) /\ msgCh'[c] = Tail(b)
  BY DEF Consume, TypeInv, TypeChannels
<1> HIDE DEF a, b
<1>3. Append(a, Head(b)) \o Tail(b) = a \o b
  BY <1>1
<1>4. QED
  BY <1>2, <1>3 DEF Stream, a, b

\* A push appends the head of the copy to the stream.
LEMMA PushAppends ==
    ASSUME TypeInv, NEW c \in Consumers, PullPush(c)
    PROVE  Stream(c)' = Append(Stream(c), Head(batch[c]))
<1> DEFINE a == consumed[c]
           b == msgCh[c]
           m == Head(batch[c])
<1>1. a \in Seq(Message) /\ b \in Seq(Message) /\ m \in Message
  BY StreamType DEF PullPush, TypeInv, TypePull
<1>2. consumed'[c] = a /\ msgCh'[c] = Append(b, m)
  BY DEF PullPush, TypeInv, TypeChannels
<1> HIDE DEF a, b, m
<1>3. a \o Append(b, m) = Append(a \o b, m)
  BY <1>1
<1>4. QED
  BY <1>2, <1>3 DEF Stream, a, b, m

\* The message pushed is the one at the offset: its predecessor is in the stream and it
\* is not.
LEMMA PushInOrder ==
    ASSUME TypeInv, Numbered, NEW c \in Consumers, ConsumerInv(c), PullPush(c)
    PROVE  ConsumerInv(c)'
<1> DEFINE S == Stream(c)
           T == Stream(c)'
           m == Head(batch[c])
           i == at[c]
           o == offsets[c][i]
           L(k) == log[ctopic[c]][k]
<1>1. ctopic[c] # NoTopic /\ batch[c] # <<>> /\ UNCHANGED <<log, ctopic, at>>
  BY DEF PullPush, TypeInv, PollerHasTopic, store
<1>2. /\ ctopic[c] \in Topics /\ i \in Parts /\ batch[c] \in Seq(Message)
      /\ \A k \in Parts : L(k) \in Seq(Message) /\ offsets[c][k] \in Nat /\ Len(L(k)) \in Nat
  BY <1>1, ReaderTypes, LenProperties
<1>3. m = batch[c][1] /\ m \in Message /\ Len(batch[c]) \in Nat \ {0}
      /\ Len(Tail(batch[c])) = Len(batch[c]) - 1
      /\ \A k \in 1..(Len(batch[c]) - 1) : Tail(batch[c])[k] = batch[c][k + 1]
  BY <1>1, <1>2
<1>4. o + 1 <= Len(L(i)) /\ m = L(i)[o + 1]
  BY <1>3 DEF ConsumerInv, Copied
<1>5. o \in Nat /\ o + 1 \in 1..Len(L(i))
  BY <1>2, <1>4
<1>6. m.part = i /\ m.off = o
  <2>1. L(i)[o + 1].part = i /\ L(i)[o + 1].off = (o + 1) - 1
    BY <1>2, <1>5 DEF Numbered
  <2> HIDE DEF L, i, o, m
  <2>2. QED
    BY <1>4, <1>5, <2>1
<1>7. /\ offsets'[c][i] = o + 1
      /\ \A k \in Parts : k # i => offsets'[c][k] = offsets[c][k]
      /\ batch'[c] = Tail(batch[c])
  BY <1>2 DEF PullPush, TypeInv, TypePull
<1>8. /\ S \in Seq(Message) /\ T = Append(S, m)
      /\ Len(S) \in Nat /\ Len(T) = Len(S) + 1
      /\ \A k \in 1..Len(S) : T[k] = S[k]
      /\ T[Len(S) + 1] = m
  <2>1. S \in Seq(Message) /\ T = Append(S, m)
    BY StreamType, PushAppends
  <2> HIDE DEF S, T, m
  <2>2. QED
    BY <1>3, <2>1, LenProperties, AppendProperties
<1>9. \A k \in 1..Len(S) : S[k].part \in Parts /\ S[k].off \in Nat
  <2>1. \A k \in 1..Len(S) : S[k] \in Message
    BY <1>8, ElementOfSeq
  <2>2. QED
    BY <2>1 DEF Message
<1>10. /\ \A k \in 1..Len(S) : /\ S[k].off < offsets[c][S[k].part]
                               /\ S[k].off < Len(L(S[k].part))
                               /\ L(S[k].part)[S[k].off + 1] = S[k]
       /\ \A q \in Parts : \A d \in 0..(offsets[c][q] - 1) :
             \E k \in 1..Len(S) : S[k].part = q /\ S[k].off = d
       /\ \A k \in 1..Len(S) :
             /\ S[k].off > 0 => \E j \in 1..(k - 1) : S[j].part = S[k].part /\ S[j].off = S[k].off - 1
             /\ \A j \in 1..(k - 1) : S[j] # S[k]
  BY DEF ConsumerInv, Before, Complete, Ordered
<1>11. \A k \in 1..Len(batch[c]) : o + k <= Len(L(i)) /\ batch[c][k] = L(i)[o + k]
  BY DEF ConsumerInv, Copied
<1>12. Fresh(c)'
  BY <1>1 DEF Fresh
<1>13. Copied(c)'
  <2>1. ASSUME NEW k \in 1..(Len(batch[c]) - 1)
        PROVE  (o + 1) + k <= Len(L(i)) /\ batch'[c][k] = L(i)[(o + 1) + k]
    <3>1. k + 1 \in 1..Len(batch[c]) /\ (o + 1) + k = o + (k + 1)
      <4> HIDE DEF o, m, L, i
      <4>1. QED
        BY <1>3, <1>5
    <3>2. batch'[c][k] = batch[c][k + 1]
      BY <1>3, <1>7
    <3>3. o + (k + 1) <= Len(L(i)) /\ batch[c][k + 1] = L(i)[o + (k + 1)]
      BY <1>11, <3>1
    <3> HIDE DEF L, o, i
    <3>4. QED
      BY <3>1, <3>2, <3>3
  <2>2. Len(batch'[c]) = Len(batch[c]) - 1
    BY <1>3, <1>7
  <2>3. QED
    BY <1>1, <1>7, <2>1, <2>2 DEF Copied
<1> HIDE DEF S, T, m, o, i
<1>14. Before(c)'
  <2>1. ASSUME NEW k \in 1..Len(T)
        PROVE  /\ T[k].off < offsets'[c][T[k].part]
               /\ T[k].off < Len(L(T[k].part))
               /\ L(T[k].part)[T[k].off + 1] = T[k]
    <3>1. CASE k = Len(S) + 1
      <4>1. T[k] = m
        BY <1>8, <3>1
      <4>2. o < o + 1 /\ o < Len(L(i))
        BY <1>5
      <4>3. QED
        BY <1>4, <1>6, <1>7, <4>1, <4>2
    <3>2. CASE k # Len(S) + 1
      <4>1. k \in 1..Len(S) /\ T[k] = S[k]
        BY <1>8, <3>2
      <4>2. S[k].part \in Parts /\ S[k].off \in Nat
        BY <1>9, <4>1
      <4>3. offsets[c][S[k].part] \in Nat /\ S[k].off < offsets[c][S[k].part]
        BY <1>2, <1>10, <4>1, <4>2
      <4>4. S[k].off < offsets'[c][S[k].part]
        <5>1. CASE S[k].part = i
          BY <1>5, <1>7, <4>2, <4>3, <5>1 DEF o
        <5>2. CASE S[k].part # i
          BY <1>7, <4>2, <4>3, <5>2
        <5>3. QED
          BY <5>1, <5>2
      <4>5. QED
        BY <1>10, <4>1, <4>4
    <3>3. QED
      BY <3>1, <3>2
  <2>2. QED
    BY <1>1, <2>1 DEF Before, T
<1>15. Complete(c)'
  <2>1. ASSUME NEW q \in Parts, NEW d \in 0..(offsets'[c][q] - 1)
        PROVE  \E k \in 1..Len(T) : T[k].part = q /\ T[k].off = d
    <3>1. CASE q = i /\ d = o
      <4>1. Len(S) + 1 \in 1..Len(T)
        BY <1>8
      <4>2. QED
        BY <1>6, <1>8, <3>1, <4>1
    <3>2. CASE ~(q = i /\ d = o)
      <4>1. d \in 0..(offsets[c][q] - 1)
        <5>1. CASE q = i
          BY <1>5, <1>7, <3>2, <5>1 DEF o
        <5>2. CASE q # i
          BY <1>7, <5>2
        <5>3. QED
          BY <5>1, <5>2
      <4>2. PICK k \in 1..Len(S) : S[k].part = q /\ S[k].off = d
        BY <1>10, <4>1
      <4>3. k \in 1..Len(T) /\ T[k] = S[k]
        BY <1>8
      <4>4. QED
        BY <4>2, <4>3
    <3>3. QED
      BY <3>1, <3>2
  <2>2. QED
    BY <2>1 DEF Complete, T
<1>16. Ordered(c)'
  <2>1. ASSUME NEW k \in 1..Len(T)
        PROVE  /\ T[k].off > 0 => \E j \in 1..(k - 1) :
                     T[j].part = T[k].part /\ T[j].off = T[k].off - 1
               /\ \A j \in 1..(k - 1) : T[j] # T[k]
    <3>1. CASE k = Len(S) + 1
      <4>1. T[k] = m /\ 1..(k - 1) = 1..Len(S) /\ \A j \in 1..Len(S) : T[j] = S[j]
        BY <1>8, <3>1
      <4>2. ASSUME o > 0
            PROVE  \E j \in 1..Len(S) : S[j].part = i /\ S[j].off = o - 1
        <5>1. i \in Parts /\ o - 1 \in 0..(offsets[c][i] - 1)
          BY <1>2, <1>5, <4>2 DEF o, i
        <5>2. QED
          BY <1>10, <5>1
      <4>3. ASSUME NEW j \in 1..Len(S), S[j] = m PROVE FALSE
        <5>1. o < offsets[c][i]
          BY <1>6, <1>10, <4>3
        <5>2. QED
          BY <1>5, <5>1 DEF o
      <4>4. QED
        BY <1>6, <4>1, <4>2, <4>3
    <3>2. CASE k # Len(S) + 1
      <4>1. k \in 1..Len(S) /\ T[k] = S[k] /\ \A j \in 1..(k - 1) : T[j] = S[j]
        BY <1>8, <3>2
      <4>2. QED
        BY <1>10, <4>1
    <3>3. QED
      BY <3>1, <3>2
  <2>2. QED
    BY <2>1 DEF Ordered, T
<1>17. QED
  BY <1>12, <1>13, <1>14, <1>15, <1>16 DEF ConsumerInv

\* A step of consumer c is not noticed by the others.
LEMMA OthersKept ==
    ASSUME TypeInv, Delivery, NEW c \in Consumers, ConsumerInv(c)', UNCHANGED log,
           NewConsumer(c) \/ Poll(c) \/ Consume(c)
    PROVE  Delivery'
<1>1. ASSUME NEW d \in Consumers, d # c PROVE ConsumerInv(d)'
  <2>1. UNCHANGED <<ctopic[d], consumed[d], msgCh[d], batch[d], at[d], offsets[d]>>
    <3> USE <1>1 DEF TypeInv, TypeConsumers, TypePull, TypeChannels, pull
    <3>1. CASE NewConsumer(c)
      BY <3>1 DEF NewConsumer
    <3>2. CASE PollTick(c) \/ PollNotify(c) \/ PollDone(c)
      BY <3>2 DEF PollTick, PollNotify, PollDone, Get
    <3>3. CASE PullNext(c) \/ PullClosed(c)
      BY <3>3 DEF PullNext, PullClosed, Get, PullReturns
    <3>4. CASE PullPush(c)
      BY <3>4 DEF PullPush
    <3>5. CASE Consume(c)
      BY <3>5 DEF Consume
    <3>6. QED
      BY <3>1, <3>2, <3>3, <3>4, <3>5 DEF Poll
  <2>2. ConsumerInv(d)
    BY DEF Delivery
  <2>3. QED
    BY <2>1, <2>2, ConsumerFrame
<1>2. Numbered'
  BY DEF Delivery, Numbered
<1>3. QED
  BY <1>1, <1>2 DEF Delivery

\* Every step keeps the delivery invariant.
LEMMA DeliveryStep ==
    ASSUME TypeInv, TypeInv', Delivery, [QueueNext]_queueVars
    PROVE  Delivery'
<1> USE DEF mq, store, prods, pull, cons
<1>1. ASSUME UNCHANGED <<log, ctopic, consumed, msgCh, batch, at, offsets>> PROVE Delivery'
  <2>1. ASSUME NEW c \in Consumers PROVE ConsumerInv(c)'
    BY <1>1, ConsumerFrame DEF Delivery
  <2>2. Numbered'
    BY <1>1 DEF Delivery, Numbered
  <2>3. QED
    BY <2>1, <2>2 DEF Delivery
<1>2. CASE DeleteTopics \/ Close \/ CloseConsumers \/ \E n \in PartitionCounts : CreateTopic(n)
  BY <1>1, <1>2 DEF DeleteTopics, Close, CloseConsumers, CreateTopic
<1>3. ASSUME NEW p \in Producers, NewProducer(p) \/ ProducerClose(p) PROVE Delivery'
  BY <1>1, <1>3 DEF NewProducer, ProducerClose
<1>4. CASE \E s \in inflight : SendNotify(s)
  BY <1>1, <1>4 DEF SendNotify
<1>5. ASSUME NEW p \in Producers, NEW j \in Int, ptopic[p] # NoTopic,
             SendTo(p, Clamp(j, parts[ptopic[p]]))
      PROVE  Delivery'
  <2>1. /\ Numbered'
        /\ \A t \in Topics, i \in Parts :
              /\ Len(log[t][i]) <= Len(log'[t][i])
              /\ \A k \in 1..Len(log[t][i]) : log'[t][i][k] = log[t][i][k]
    BY <1>5, SendGrows DEF Delivery
  <2>2. UNCHANGED <<ctopic, consumed, msgCh, batch, at, offsets>>
    BY <1>5 DEF SendTo
  <2>3. log' \in [Topics -> [Parts -> Seq(Message)]]
    BY Zenon DEF TypeInv, TypeStore, Message, Topics, Parts
  <2>4. ASSUME NEW c \in Consumers PROVE ConsumerInv(c)'
    <3>1. ConsumerInv(c)
      BY DEF Delivery
    <3>2. QED
      BY <2>1, <2>2, <2>3, <3>1, ConsumerGrows
  <2>5. QED
    BY <2>1, <2>4 DEF Delivery
<1>6. ASSUME NEW p \in Producers, Send(p) PROVE Delivery'
  <2>1. PICK h \in Hashes :
          SendTo(p, Clamp(SelectPartition(h, parts[ptopic[p]]), parts[ptopic[p]]))
    BY <1>6 DEF Send
  <2>2. ptopic[p] # NoTopic /\ parts[ptopic[p]] \in Nat \ {0}
    BY <1>6, PartsOf DEF Send, TypeInv, TypeProducers
  <2>3. SelectPartition(h, parts[ptopic[p]]) \in Int
    BY <2>2, SelectPartitionInt
  <2>4. QED
    BY <1>5, <2>1, <2>2, <2>3
<1>7. ASSUME NEW p \in Producers, SendWithPartition(p) PROVE Delivery'
  <2>1. PICK j \in Explicit : SendTo(p, Clamp(j, parts[ptopic[p]]))
    BY <1>7 DEF SendWithPartition
  <2>2. ptopic[p] # NoTopic /\ j \in Int
    BY <1>7, MQAssumption DEF SendWithPartition
  <2>3. QED
    BY <1>5, <2>1, <2>2
<1>8. ASSUME NEW c \in Consumers PROVE ConsumerInv(c) /\ Numbered
  BY DEF Delivery
<1>9. ASSUME NEW c \in Consumers, NewConsumer(c) PROVE Delivery'
  <2>1. UNCHANGED <<log, consumed, msgCh, batch, offsets>> /\ ctopic[c] = NoTopic
    BY <1>9 DEF NewConsumer
  <2>2. consumed[c] = <<>> /\ msgCh[c] = <<>> /\ batch[c] = <<>> /\ \A i \in Parts : offsets[c][i] = 0
    BY <1>8, <2>1 DEF ConsumerInv, Fresh
  <2>3. ConsumerInv(c)'
    BY <2>1, <2>2, FreshInv
  <2>4. QED
    BY <1>9, <2>1, <2>3, OthersKept
<1>10. 0 \in Parts
  BY MQAssumption DEF Parts
<1>11. ASSUME NEW c \in Consumers, PollTick(c) \/ PollNotify(c) PROVE Delivery'
  <2>1. Get(c, 0) /\ ctopic[c] # NoTopic /\ UNCHANGED <<log, ctopic, consumed, msgCh, offsets>>
    BY <1>11 DEF PollTick, PollNotify, TypeInv, PollerHasTopic
  <2>2. ConsumerInv(c)'
    BY <1>8, <1>10, <2>1, GetCopies
  <2>3. QED
    BY <1>11, <2>1, <2>2, OthersKept DEF Poll
<1>12. ASSUME NEW c \in Consumers, PollDone(c) PROVE Delivery'
  BY <1>1, <1>12 DEF PollDone
<1>13. ASSUME NEW c \in Consumers, PullNext(c) PROVE Delivery'
  <2>1. ctopic[c] # NoTopic /\ UNCHANGED <<log, ctopic, consumed, msgCh, offsets>>
    BY <1>13 DEF PullNext, TypeInv, PollerHasTopic
  <2>2. CASE at[c] + 1 < parts[ctopic[c]]
    <3>1. parts[ctopic[c]] \in 1..MaxParts
      BY <2>1, PartsOf DEF TypeInv, TypeConsumers
    <3>2. at[c] + 1 \in Parts
      <4>1. at[c] \in Parts
        BY Zenon DEF TypeInv, TypePull
      <4>2. QED
        BY <2>2, <3>1, <4>1, MQAssumption DEF Parts
    <3>3. ConsumerInv(c)'
      BY <1>8, <1>13, <2>1, <2>2, <3>2, GetCopies DEF PullNext
    <3>4. QED
      BY <1>13, <2>1, <3>3, OthersKept DEF Poll
  <2>3. CASE ~(at[c] + 1 < parts[ctopic[c]])
    <3>1. PullReturns(c)
      BY <1>13, <2>3 DEF PullNext
    <3>2. ConsumerInv(c)'
      BY <1>8, <2>1, <3>1, ReturnForgets
    <3>3. QED
      BY <1>13, <2>1, <3>2, OthersKept DEF Poll
  <2>4. QED
    BY <2>2, <2>3
<1>14. ASSUME NEW c \in Consumers, PullPush(c) PROVE Delivery'
  <2>1. ConsumerInv(c)' /\ UNCHANGED log
    BY <1>8, <1>14, PushInOrder DEF PullPush
  <2>2. QED
    BY <1>14, <2>1, OthersKept DEF Poll
<1>15. ASSUME NEW c \in Consumers, PullClosed(c) PROVE Delivery'
  <2>1. PullReturns(c) /\ UNCHANGED <<log, ctopic, consumed, msgCh, offsets>>
    BY <1>15 DEF PullClosed
  <2>2. ConsumerInv(c)'
    BY <1>8, <2>1, ReturnForgets
  <2>3. QED
    BY <1>15, <2>1, <2>2, OthersKept DEF Poll
<1>16. ASSUME NEW c \in Consumers, Consume(c) PROVE Delivery'
  <2>1. UNCHANGED <<log, ctopic, batch, at, offsets>> /\ Stream(c)' = Stream(c) /\ msgCh[c] # <<>>
    BY <1>16, ConsumeKeepsStream DEF Consume
  <2>2. ctopic[c] # NoTopic
    BY <1>8, <2>1 DEF ConsumerInv, Fresh
  <2>3. Fresh(c)' /\ Copied(c)' /\ Before(c)' /\ Complete(c)' /\ Ordered(c)'
    BY <1>8, <2>1, <2>2 DEF ConsumerInv, Fresh, Copied, Before, Complete, Ordered
  <2>4. QED
    BY <1>16, <2>1, <2>3, OthersKept DEF ConsumerInv
<1>17. ASSUME NEW c \in Consumers, StopReading(c) \/ ConsumerClose(c) PROVE Delivery'
  BY <1>1, <1>17 DEF StopReading, ConsumerClose
<1>18. CASE UNCHANGED queueVars
  BY <1>1, <1>18 DEF queueVars
<1>19. QED
  BY <1>2, <1>3, <1>4, <1>6, <1>7, <1>9, <1>11, <1>12, <1>13, <1>14, <1>15, <1>16, <1>17, <1>18
     DEF QueueNext, Poll

\* At the start nothing is stored, copied or delivered.
LEMMA DeliveryInit == QueueInit => Delivery
<1> SUFFICES ASSUME QueueInit PROVE Delivery
  OBVIOUS
<1>1. Numbered
  BY DEF QueueInit, Numbered
<1>2. ASSUME NEW c \in Consumers PROVE ConsumerInv(c)
  <2>1. Stream(c) = <<>> /\ Len(Stream(c)) = 0 /\ batch[c] = <<>>
        /\ \A i \in Parts : offsets[c][i] = 0
    BY DEF QueueInit, Stream
  <2>2. Fresh(c)
    BY DEF QueueInit, Fresh
  <2>3. Copied(c) /\ Before(c) /\ Ordered(c)
    BY <2>1 DEF Copied, Before, Ordered
  <2>4. Complete(c)
    BY <2>1 DEF Complete
  <2>5. QED
    BY <2>2, <2>3, <2>4 DEF ConsumerInv
<1>3. QED
  BY <1>1, <1>2 DEF Delivery

\* For every number of producers, consumers, partitions, topics and messages and every
\* channel size, a consumer delivers the messages of each partition once, in order and
\* without a gap.
THEOREM DeliveryInOrder == QueueSpec => []DeliveredInOrder
<1>1. QueueSpec => []TypeInv
  BY TypeInit, TypeStep, PTL DEF QueueSpec
<1>2. QueueSpec => []Delivery
  BY <1>1, DeliveryInit, DeliveryStep, PTL DEF QueueSpec
<1>3. QED
  BY <1>2, DeliveryImplies, PTL

-----------------------------------------------------------------------------
(* The promise of mq.go. *)

\* Messages are numbered in the order they are appended.
Used == \A t \in Topics, i \in Parts : \A k \in 1..Len(log[t][i]) : log[t][i][k].id <= sent

\* SendTo is the promise's publication, of a message with a new number.
LEMMA SendPublishes ==
    ASSUME TypeInv, Used, Quiet, NEW p \in Producers, NEW j \in Int, ptopic[p] # NoTopic,
           SendTo(p, Clamp(j, parts[ptopic[p]]))
    PROVE  Used' /\ Promise!PPublish
<1> DEFINE t == ptopic[p]
           i == Clamp(j, parts[t])
           m == [part |-> i, off |-> Len(log[t][i]), id |-> sent + 1]
<1>1. t \in Topics /\ parts[t] \in Nat \ {0} /\ parts[t] <= MaxParts /\ t <= Len(parts)
  BY PartsOf, MQAssumption DEF TypeInv, TypeProducers
<1>2. i \in 0..(parts[t] - 1)
  BY <1>1, ClampInRange
<1>3. i \in Parts /\ i < parts[t]
  BY <1>1, <1>2, MQAssumption DEF Parts
<1>4. log \in [Topics -> [Parts -> Seq(Message)]] /\ sent \in Nat
  BY DEF TypeInv, TypeStore
<1>5. /\ log' = [log EXCEPT ![t][i] = Append(log[t][i], m)] /\ sent' = sent + 1 /\ sent < MaxMsgs
      /\ ~pclosed[p] /\ UNCHANGED <<phase, parts, ctopic, consumed, reading>>
  BY DEF SendTo, mq, cons
<1>6. m.id = sent + 1 /\ sent + 1 \in 1..MaxMsgs
  BY <1>4, <1>5, MQAssumption
<1>7. \A u \in Topics, q \in Parts : \A k \in 1..Len(log[u][q]) : log[u][q][k].id \in Nat /\ log[u][q][k].id <= sent
  <2> SUFFICES ASSUME NEW u \in Topics, NEW q \in Parts, NEW k \in 1..Len(log[u][q])
               PROVE  log[u][q][k].id \in Nat /\ log[u][q][k].id <= sent
    OBVIOUS
  <2>1. log[u][q] \in Seq(Message)
    BY <1>4
  <2>2. log[u][q][k] \in Message
    BY <2>1, ElementOfSeq
  <2>3. log[u][q][k].id \in Nat
    BY <2>2 DEF Message
  <2> QED  BY <2>3 DEF Used
<1>8. Used'
  <2> HIDE DEF m, i, t
  <2> SUFFICES ASSUME NEW u \in Topics, NEW q \in Parts, NEW k \in 1..Len(log'[u][q])
               PROVE  log'[u][q][k].id <= sent'
    BY DEF Used
  <2>1. CASE u = t /\ q = i
    <3>1. log'[u][q] = Append(log[u][q], m) /\ log[u][q] \in Seq(Message)
      BY <1>1, <1>3, <1>4, <1>5, <2>1
    <3>2. /\ Len(log'[u][q]) = Len(log[u][q]) + 1 /\ Len(log[u][q]) \in Nat
          /\ \A n \in 1..Len(log[u][q]) : log'[u][q][n] = log[u][q][n]
          /\ log'[u][q][Len(log[u][q]) + 1] = m
      BY <3>1, AppendProperties, LenProperties
    <3>3. CASE k = Len(log[u][q]) + 1
      BY <1>4, <1>5, <1>6, <3>2, <3>3
    <3>4. CASE k # Len(log[u][q]) + 1
      <4>1. k \in 1..Len(log[u][q])
        BY <3>2, <3>4
      <4> QED  BY <1>4, <1>5, <1>7, <3>2, <4>1
    <3> QED  BY <3>3, <3>4
  <2>2. CASE ~(u = t /\ q = i)
    <3>1. log'[u][q] = log[u][q]
      BY <1>4, <1>5, <2>2
    <3>2. k \in 1..Len(log[u][q]) /\ log'[u][q][k] = log[u][q][k]
      BY <3>1
    <3>3. log[u][q][k].id \in Nat /\ log[u][q][k].id <= sent
      BY <1>7, <3>2
    <3> QED  BY <1>4, <1>5, <3>2, <3>3
  <2> QED  BY <2>1, <2>2
<1>9. \A u \in Topics, q \in Parts : \A k \in 1..Len(log[u][q]) : log[u][q][k].id # sent + 1
  BY <1>4, <1>7
<1>10. phase # "closed"
  BY <1>5 DEF Quiet
<1>11. UNCHANGED <<parts, ctopic, consumed, reading, phase>>
  BY <1>5
<1>12. \E u \in Topics, q \in Parts, id \in 1..MaxMsgs :
          /\ u <= Len(parts) /\ q < parts[u]
          /\ \A v \in Topics, n \in Parts : \A k \in 1..Len(log[v][n]) : log[v][n][k].id # id
          /\ log' = [log EXCEPT ![u][q] = Append(@, [part |-> q, off |-> Len(log[u][q]), id |-> id])]
  <2>1. log' = [log EXCEPT ![t][i] = Append(@, [part |-> i, off |-> Len(log[t][i]), id |-> sent + 1])]
    BY <1>5
  <2> HIDE DEF i, t
  <2> QED  BY <1>1, <1>3, <1>6, <1>9, <2>1
<1> QED
  BY <1>8, <1>10, <1>11, <1>12 DEF Promise!PPublish

\* Consume is the promise's delivery of the next message of a partition.
LEMMA ConsumeDelivers ==
    ASSUME TypeInv, Delivery, NEW c \in Consumers, Consume(c)
    PROVE  Promise!PDeliver(c)
<1> DEFINE a == consumed[c]
           b == msgCh[c]
           m == Head(b)
           n == Len(a) + 1
           t == ctopic[c]
           got == {consumed[c][j] : j \in 1..Len(consumed[c])}
<1>1. a \in Seq(Message) /\ b \in Seq(Message) /\ b # <<>> /\ Stream(c) = a \o b
  BY StreamType DEF Consume, Stream
<1>2. /\ consumed' = [consumed EXCEPT ![c] = Append(@, m)] /\ c \in reading
      /\ UNCHANGED <<parts, log, ctopic, reading, phase>>
  BY DEF Consume, mq, store
<1>3. t # NoTopic /\ Before(c) /\ Ordered(c) /\ Numbered
  <2>1. ConsumerInv(c) /\ Numbered
    BY DEF Delivery
  <2> QED  BY <1>1, <2>1 DEF ConsumerInv, Fresh
<1>4. \A i \in Parts : log[t][i] \in Seq(Message)
  BY <1>3, ReaderTypes
<1>5. /\ Len(a) \in Nat /\ Len(b) \in Nat \ {0} /\ Len(Stream(c)) = Len(a) + Len(b)
      /\ \A j \in 1..Len(a) : Stream(c)[j] = a[j]
      /\ Stream(c)[n] = m /\ m \in Message
  <2> HIDE DEF a, b
  <2>1. Len(a) \in Nat /\ Len(b) \in Nat \ {0}
    BY <1>1, LenProperties, EmptySeq
  <2>2. /\ Len(Stream(c)) = Len(a) + Len(b)
        /\ \A j \in 1..Len(a) : Stream(c)[j] = a[j]
        /\ Stream(c)[n] = b[1]
    BY <1>1, <2>1, ConcatProperties
  <2>3. m = b[1] /\ m \in Message
    BY <1>1, <2>1, HeadTailProperties
  <2> QED  BY <2>1, <2>2, <2>3
<1>6. n \in 1..Len(Stream(c))
  <2>1. Len(a) \in Nat /\ Len(b) \in Nat \ {0} /\ Len(Stream(c)) = Len(a) + Len(b)
    BY <1>5
  <2> HIDE DEF a, b
  <2> QED  BY <2>1
<1>7. m.part \in Parts /\ m.off \in Nat
  BY <1>5 DEF Message
<1> HIDE DEF a, b, m, n, t
<1>8. m.off < Len(log[t][m.part]) /\ log[t][m.part][m.off + 1] = m
  BY <1>3, <1>5, <1>6 DEF Before, t
<1>9. m.off = 0 \/ log[t][m.part][m.off] \in got
  <2> SUFFICES ASSUME m.off # 0 PROVE log[t][m.part][m.off] \in got
    OBVIOUS
  <2>1. PICK j \in 1..(n - 1) : Stream(c)[j].part = m.part /\ Stream(c)[j].off = m.off - 1
    BY <1>3, <1>5, <1>6, <1>7 DEF Ordered
  <2>2. j \in 1..Len(a) /\ j \in 1..Len(Stream(c)) /\ Stream(c)[j] = a[j]
    BY <1>5 DEF n
  <2>3. log[t][m.part][m.off - 1 + 1] = a[j]
    BY <1>3, <2>1, <2>2 DEF Before, t
  <2>4. m.off - 1 + 1 = m.off
    BY <1>7
  <2> QED  BY <2>2, <2>3, <2>4 DEF a
<1>10. m \notin got
  <2>1. \A j \in 1..(n - 1) : Stream(c)[j] # m
    BY <1>3, <1>5, <1>6 DEF Ordered
  <2>2. \A j \in 1..Len(a) : a[j] # m
    BY <1>5, <2>1 DEF n
  <2> QED  BY <2>2 DEF a
<1> DEFINE k == m.off + 1
<1>11. k \in 1..Len(log[t][m.part]) /\ (k = 1 \/ log[t][m.part][k - 1] \in got) /\ log[t][m.part][k] = m
  <2>1. Len(log[t][m.part]) \in Nat
    BY <1>4, <1>7, LenProperties
  <2>2. k \in 1..Len(log[t][m.part])
    BY <1>7, <1>8, <2>1
  <2>3. k - 1 = m.off
    BY <1>7
  <2>4. k = 1 <=> m.off = 0
    BY <1>7
  <2> QED  BY <1>8, <1>9, <2>2, <2>3, <2>4
<1>12. \E x \in Parts : \E y \in 1..Len(log[ctopic[c]][x]) :
         /\ y = 1 \/ log[ctopic[c]][x][y - 1] \in got
         /\ log[ctopic[c]][x][y] \notin got
         /\ consumed' = [consumed EXCEPT ![c] = Append(@, log[ctopic[c]][x][y])]
  <2> HIDE DEF got, k
  <2>1. consumed' = [consumed EXCEPT ![c] = Append(@, log[t][m.part][k])] /\ log[t][m.part][k] \notin got
    BY <1>2, <1>10, <1>11
  <2> QED  BY <1>7, <1>11, <2>1 DEF t
<1> QED
  BY <1>2, <1>3, <1>12 DEF Promise!PDeliver, t, NoTopic

\* Every step of the queue is one of the promise, or one that its users do not see.
LEMMA StepKeepsPromise ==
    ASSUME TypeInv, TypeInv', Delivery, Quiet, Used, [QueueNext]_queueVars
    PROVE  Used' /\ [Promise!PNext]_(Promise!promise)
<1> USE DEF mq, store, prods, pull, cons
<1>1. ASSUME UNCHANGED <<log, sent>> PROVE Used'
  BY <1>1 DEF Used
<1>2. ASSUME UNCHANGED <<parts, log, ctopic, consumed, reading>>, (phase = "closed") = (phase' = "closed")
      PROVE  UNCHANGED Promise!promise
  BY <1>2 DEF Promise!promise
<1>3. ASSUME NEW n \in PartitionCounts, CreateTopic(n) PROVE Used' /\ [Promise!PNext]_(Promise!promise)
  <2>1. n \in 1..MaxParts /\ parts' = Append(parts, n)
    BY <1>3, MQAssumption DEF CreateTopic
  <2>2. Promise!PCreate
    BY <1>3, <2>1 DEF CreateTopic, Promise!PCreate, Promise!NewTopic
  <2> QED  BY <1>1, <1>3, <2>2 DEF CreateTopic, Promise!PNext
<1>4. CASE DeleteTopics \/ Close
  BY <1>1, <1>2, <1>4 DEF DeleteTopics, Close
<1>5. CASE CloseConsumers
  <2>1. Promise!PClose
    BY <1>5 DEF CloseConsumers, Promise!PClose
  <2> QED  BY <1>1, <1>5, <2>1 DEF CloseConsumers, Promise!PNext
<1>6. ASSUME GetOrCreateTopic PROVE UNCHANGED parts \/ Promise!NewTopic
  BY <1>6, MQAssumption DEF GetOrCreateTopic, Promise!NewTopic
<1>7. ASSUME NEW p \in Producers, NewProducer(p) PROVE Used' /\ [Promise!PNext]_(Promise!promise)
  <2>1. phase = "open" /\ GetOrCreateTopic /\ UNCHANGED <<phase, log, sent, ctopic, consumed, reading>>
    BY <1>7 DEF NewProducer
  <2>2. CASE UNCHANGED parts
    BY <1>1, <1>2, <2>1, <2>2
  <2>3. CASE Promise!NewTopic
    <3>1. Promise!PCreate
      BY <2>1, <2>3 DEF Promise!PCreate
    <3> QED  BY <1>1, <2>1, <3>1 DEF Promise!PNext
  <2> QED  BY <1>6, <2>1, <2>2, <2>3
<1>8. ASSUME NEW p \in Producers, ProducerClose(p) PROVE Used' /\ [Promise!PNext]_(Promise!promise)
  BY <1>1, <1>2, <1>8 DEF ProducerClose
<1>9. ASSUME NEW s \in inflight, SendNotify(s) PROVE Used' /\ [Promise!PNext]_(Promise!promise)
  BY <1>1, <1>2, <1>9 DEF SendNotify
<1>10. ASSUME NEW p \in Producers, Send(p) \/ SendWithPartition(p) PROVE Used' /\ [Promise!PNext]_(Promise!promise)
  <2>1. ptopic[p] # NoTopic
    BY <1>10 DEF Send, SendWithPartition
  <2>2. parts[ptopic[p]] \in Nat \ {0}
    BY <2>1, PartsOf DEF TypeInv, TypeProducers
  <2>3. PICK j \in Int : SendTo(p, Clamp(j, parts[ptopic[p]]))
    <3>1. CASE Send(p)
      <4>1. PICK h \in Hashes : SendTo(p, Clamp(SelectPartition(h, parts[ptopic[p]]), parts[ptopic[p]]))
        BY <3>1 DEF Send
      <4>2. SelectPartition(h, parts[ptopic[p]]) \in Int
        BY <2>2, SelectPartitionInt
      <4> QED  BY <4>1, <4>2
    <3>2. CASE SendWithPartition(p)
      BY <3>2, MQAssumption DEF SendWithPartition
    <3> QED  BY <1>10, <3>1, <3>2
  <2>4. Used' /\ Promise!PPublish
    BY <2>1, <2>3, SendPublishes
  <2> QED  BY <2>4 DEF Promise!PNext
<1>11. ASSUME NEW c \in Consumers, NewConsumer(c) PROVE Used' /\ [Promise!PNext]_(Promise!promise)
  <2>1. /\ phase = "open" /\ ctopic[c] = NoTopic /\ GetOrCreateTopic
        /\ ctopic' = [ctopic EXCEPT ![c] = current']
        /\ UNCHANGED <<phase, deleted, log, sent, consumed, reading>>
    BY <1>11 DEF NewConsumer
  <2>2. current' \in 1..Len(parts')
    BY <2>1, GetOrCreate
  <2>3. Promise!NewTopic \/ UNCHANGED parts
    BY <1>6, <2>1
  <2>4. Promise!PSubscribe(c)
    BY <2>1, <2>2, <2>3 DEF Promise!PSubscribe, NoTopic
  <2> QED  BY <1>1, <2>1, <2>4 DEF Promise!PNext
<1>12. ASSUME NEW c \in Consumers, Poll(c) \/ ConsumerClose(c) PROVE Used' /\ [Promise!PNext]_(Promise!promise)
  <2>1. UNCHANGED <<phase, parts, log, sent, ctopic, consumed, reading>>
    BY <1>12 DEF Poll, PollTick, PollNotify, PollDone, PullNext, PullPush, PullClosed, ConsumerClose
  <2> QED  BY <1>1, <1>2, <2>1
<1>13. ASSUME NEW c \in Consumers, Consume(c) PROVE Used' /\ [Promise!PNext]_(Promise!promise)
  <2>1. Promise!PDeliver(c)
    BY <1>13, ConsumeDelivers
  <2> QED  BY <1>1, <1>13, <2>1 DEF Consume, Promise!PNext
<1>14. ASSUME NEW c \in Consumers, StopReading(c) PROVE Used' /\ [Promise!PNext]_(Promise!promise)
  <2>1. Promise!PLeave(c)
    BY <1>14 DEF StopReading, Promise!PLeave
  <2> QED  BY <1>1, <1>14, <2>1 DEF StopReading, Promise!PNext
<1>15. CASE UNCHANGED queueVars
  BY <1>1, <1>2, <1>15 DEF queueVars
<1> QED
  BY <1>3, <1>4, <1>5, <1>7, <1>8, <1>9, <1>10, <1>11, <1>12, <1>13, <1>14, <1>15 DEF QueueNext

\* For every number of producers, consumers, partitions, topics and messages and every
\* channel size, the in-memory queue implements QueuePromise: messages are added only
\* to logs that exist and never after Close has returned, and what Consume hands out
\* is, of each partition, the next message, and each one once.
THEOREM QueueKeepsPromise == QueueSpec => KeepsQueuePromise
<1>1. QueueInit => TypeInv /\ Delivery /\ Quiet /\ Used /\ Promise!PInit
  <2> SUFFICES ASSUME QueueInit PROVE TypeInv /\ Delivery /\ Quiet /\ Used /\ Promise!PInit
    OBVIOUS
  <2>1. Quiet
    BY DEF QueueInit, Quiet
  <2>2. Used
    BY DEF QueueInit, Used
  <2>3. Promise!PInit
    BY DEF QueueInit, Promise!PInit, NoTopic
  <2> QED  BY <2>1, <2>2, <2>3, TypeInit, DeliveryInit
<1>2. TypeInv /\ Delivery /\ Quiet /\ Used /\ [QueueNext]_queueVars
        => TypeInv' /\ Delivery' /\ Quiet' /\ Used' /\ [Promise!PNext]_(Promise!promise)
  BY TypeStep, DeliveryStep, QuietStep, StepKeepsPromise
<1> QED
  BY <1>1, <1>2, PTL DEF QueueSpec, KeepsQueuePromise, Promise!PSpec
=============================================================================
