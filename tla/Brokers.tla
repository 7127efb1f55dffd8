------------------------------- MODULE Brokers -------------------------------
(***************************************************************************)
(* The clients of Kafka and RabbitMQ behind the mq.MQ interface, with one  *)
(* topic and one consumer.  The run goroutine of a consumer moves messages *)
(* from the broker into a channel, and tells the broker (MarkMessage, Ack)  *)
(* once they are in the channel, before anybody has read them.  A Kafka    *)
(* session ends with a rebalance and the next one starts from the committed *)
(* offset; RabbitMQ delivers again what was not acknowledged.  The process *)
(* may crash and start again.                                              *)
(***************************************************************************)
EXTENDS Integers, Sequences, FiniteSets

CONSTANTS
    ChanSize,       \* msgChanSize: 1000
    MaxSent,        \* bound: messages sent
    MaxBreaks       \* bound: rebalances, lost connections and crashes

ASSUME BrokerAssumption == ChanSize \in Nat \ {0} /\ MaxSent \in Nat /\ MaxBreaks \in Nat

VARIABLES
    broker,     \* "kafka" or "rabbitmq"
    mqClosed,   \* closed of KafkaMQ or RabbitMQ
    producerUp, \* "none", "open" or "closed"
    sends,      \* messages given to Send so far
    topicLog,   \* what the broker stored, in order
    confirmed,  \* messages for which Send returned no error
    marked,     \* Kafka: the offset marked in this session
    committed,  \* Kafka: the offset committed
    cursor,     \* the next position of topicLog to deliver
    acked,      \* RabbitMQ: positions acknowledged
    returned,   \* RabbitMQ: positions put back into the queue
    runner,     \* the run goroutine: its step and the position it holds
    session,    \* the claim or delivery channel: "up" or "down"
    msgCh,      \* the channel, positions of topicLog
    readCh,     \* what the application received
    lost,       \* positions in the channel at a crash
    breaks

brokerVars == <<broker, mqClosed, producerUp, sends, topicLog, confirmed, marked, committed, cursor, acked,
                returned, runner, session, msgCh, readCh, lost, breaks>>

writerVars == <<broker, mqClosed, producerUp, sends, topicLog, confirmed>>
readerVars == <<marked, committed, cursor, acked, returned, runner, session, msgCh, readCh, lost>>

Ended == [at |-> "none", pos |-> 0]

BrokerInit ==
    /\ broker \in {"kafka", "rabbitmq"}
    /\ mqClosed = FALSE /\ producerUp = "none" /\ sends = 0 /\ topicLog = <<>> /\ confirmed = {}
    /\ marked = 0 /\ committed = 0 /\ cursor = 1
    /\ acked = {} /\ returned = {}
    /\ runner = Ended /\ session = "down"
    /\ msgCh = <<>> /\ readCh = <<>> /\ lost = {} /\ breaks = 0

Break == breaks < MaxBreaks /\ breaks' = breaks + 1

----------------------------------------------------------------------------
(* MQ and producer *)

OpenProducer ==
    /\ ~mqClosed /\ producerUp = "none" /\ producerUp' = "open"
    /\ UNCHANGED <<broker, mqClosed, sends, topicLog, confirmed, readerVars, breaks>>

KafkaProducer == broker = "kafka" /\ OpenProducer
RabbitProducer == broker = "rabbitmq" /\ OpenProducer

\* One call of Send: whether the broker stored the message, and what Send said.
Answered(stored, ok) ==
    /\ producerUp = "open" /\ sends < MaxSent
    /\ sends' = sends + 1
    /\ topicLog' = IF stored THEN Append(topicLog, sends + 1) ELSE topicLog
    /\ confirmed' = IF ok THEN confirmed \union {sends + 1} ELSE confirmed
    /\ UNCHANGED <<broker, mqClosed, producerUp, readerVars, breaks>>

\* Kafka confirms what all replicas stored; a Send that fails may have been stored.
Send(stored, ok) == broker = "kafka" /\ (ok => stored) /\ Answered(stored, ok)

\* RabbitMQ is asked for no confirmation: a publish that succeeds may be lost.
PublishWithContext(stored, ok) == broker = "rabbitmq" /\ Answered(stored, ok)

\* Close closes the producers, then cancels the consumers, once.
MQClose ==
    /\ ~mqClosed /\ mqClosed' = TRUE
    /\ producerUp' = IF producerUp = "open" THEN "closed" ELSE producerUp
    /\ UNCHANGED <<broker, sends, topicLog, confirmed, readerVars, breaks>>

KafkaMQClose == broker = "kafka" /\ MQClose
RabbitMQClose == broker = "rabbitmq" /\ MQClose

----------------------------------------------------------------------------
(* Consumer *)

\* Consumer starts run ...
StartConsumer(position) ==
    /\ ~mqClosed /\ runner.at = "none"
    /\ runner' = [at |-> "receive", pos |-> 0] /\ session' = "up"
    /\ cursor' = position /\ marked' = committed
    /\ UNCHANGED <<writerVars, committed, acked, returned, msgCh, readCh, lost, breaks>>

\* ... which in Kafka joins from the committed offset.
KafkaConsumer == broker = "kafka" /\ StartConsumer(committed + 1)
RabbitConsumer == broker = "rabbitmq" /\ StartConsumer(cursor)

MutReceiveClaim ==
    /\ broker = "kafka" /\ runner.at = "receive" /\ session = "up" /\ cursor <= Len(topicLog)
    /\ runner' = [at |-> "push", pos |-> cursor] /\ cursor' = cursor + 1 /\ marked' = cursor
    /\ UNCHANGED <<writerVars, committed, acked, returned, session, msgCh, readCh, lost, breaks>>

\* ConsumeClaim takes the next message of the claim.
ReceiveClaim ==
    /\ broker = "kafka" /\ runner.at = "receive" /\ session = "up" /\ cursor <= Len(topicLog)
    /\ runner' = [at |-> "push", pos |-> cursor] /\ cursor' = cursor + 1
    /\ UNCHANGED <<writerVars, marked, committed, acked, returned, session, msgCh, readCh, lost, breaks>>

\* RabbitMQ delivers what was put back before the rest of the queue.
Least(S) == CHOOSE x \in S : \A y \in S : x <= y

ReceiveDelivery ==
    /\ broker = "rabbitmq" /\ runner.at = "receive" /\ session = "up"
    /\ \/ /\ returned # {}
          /\ runner' = [at |-> "push", pos |-> Least(returned)]
          /\ returned' = returned \ {Least(returned)} /\ UNCHANGED cursor
       \/ /\ returned = {} /\ cursor <= Len(topicLog)
          /\ runner' = [at |-> "push", pos |-> cursor]
          /\ cursor' = cursor + 1 /\ UNCHANGED returned
    /\ UNCHANGED <<writerVars, marked, committed, acked, session, msgCh, readCh, lost, breaks>>

\* The channel takes the message ...
PushChannel ==
    /\ runner.at = "push" /\ Len(msgCh) < ChanSize
    /\ msgCh' = Append(msgCh, runner.pos)
    /\ runner' = [runner EXCEPT !.at = "mark"]
    /\ UNCHANGED <<writerVars, marked, committed, cursor, acked, returned, session, readCh, lost, breaks>>

\* ... and the broker is told.
MarkMessage ==
    /\ broker = "kafka" /\ runner.at = "mark"
    /\ marked' = runner.pos
    /\ runner' = [at |-> "receive", pos |-> 0]
    /\ UNCHANGED <<writerVars, committed, cursor, acked, returned, session, msgCh, readCh, lost, breaks>>

\* The error of Ack is dropped: on a lost connection the message has been put back.
Ack ==
    /\ broker = "rabbitmq" /\ runner.at = "mark"
    /\ acked' = IF session = "up" THEN acked \union {runner.pos} ELSE acked
    /\ returned' = IF session = "up" THEN returned ELSE returned \union {runner.pos}
    /\ runner' = [at |-> "receive", pos |-> 0]
    /\ UNCHANGED <<writerVars, marked, committed, cursor, session, msgCh, readCh, lost, breaks>>

\* Closed while the channel is full: Kafka leaves the message unmarked ...
ClaimCancelled ==
    /\ broker = "kafka" /\ runner.at = "push" /\ mqClosed
    /\ runner' = [at |-> "gone", pos |-> 0]
    /\ committed' \in {committed, marked}
    /\ UNCHANGED <<writerVars, marked, cursor, acked, returned, session, msgCh, readCh, lost, breaks>>

\* ... RabbitMQ puts it back.
Nack ==
    /\ broker = "rabbitmq" /\ runner.at = "push" /\ mqClosed
    /\ returned' = returned \union {runner.pos}
    /\ runner' = [at |-> "gone", pos |-> 0]
    /\ UNCHANGED <<writerVars, marked, committed, cursor, acked, session, msgCh, readCh, lost, breaks>>

\* Close of the consumer, after the cancel: the group or the connection.
ConsumerClose ==
    /\ mqClosed /\ session = "up" /\ session' = "down"
    /\ UNCHANGED <<writerVars, marked, committed, cursor, acked, returned, runner, msgCh, readCh, lost, breaks>>

KafkaConsumerClose == broker = "kafka" /\ ConsumerClose
RabbitConsumerClose == broker = "rabbitmq" /\ ConsumerClose

\* run ends: closed, or an error of Consume; what was marked is committed, or
\* that fails.
KafkaRunEnds ==
    /\ broker = "kafka" /\ runner.at = "receive" /\ (mqClosed \/ session = "down")
    /\ runner' = [at |-> "gone", pos |-> 0]
    /\ committed' \in {committed, marked}
    /\ UNCHANGED <<writerVars, marked, cursor, acked, returned, session, msgCh, readCh, lost, breaks>>

\* run ends: closed, or the delivery channel is.
RabbitRunEnds ==
    /\ broker = "rabbitmq" /\ runner.at = "receive" /\ (mqClosed \/ session = "down")
    /\ runner' = [at |-> "gone", pos |-> 0]
    /\ UNCHANGED <<writerVars, marked, committed, cursor, acked, returned, session, msgCh, readCh, lost, breaks>>

\* The session is over; a message held by run is not let go of for that.
SessionEnds ==
    /\ session = "up" /\ Break /\ session' = "down"
    /\ UNCHANGED <<writerVars, marked, committed, cursor, acked, returned, runner, msgCh, readCh, lost>>

\* Kafka: the claim returns, what was marked is committed, or that fails, and
\* run joins again.
Rejoin(ok) ==
    /\ broker = "kafka" /\ runner.at = "receive" /\ session = "down" /\ ~mqClosed
    /\ committed' = IF ok THEN marked ELSE committed
    /\ marked' = committed' /\ cursor' = committed' + 1
    /\ session' = "up"
    /\ UNCHANGED <<writerVars, acked, returned, runner, msgCh, readCh, lost, breaks>>

AutoCommit ==
    /\ broker = "kafka" /\ session = "up" /\ committed # marked
    /\ committed' = marked
    /\ UNCHANGED <<writerVars, marked, cursor, acked, returned, runner, session, msgCh, readCh, lost, breaks>>

\* Consume and ConsumeChan; the channel is closed when run ends, not emptied.
ConsumeChan ==
    /\ msgCh # <<>>
    /\ readCh' = Append(readCh, Head(msgCh)) /\ msgCh' = Tail(msgCh)
    /\ UNCHANGED <<writerVars, marked, committed, cursor, acked, returned, runner, session, lost, breaks>>

\* The process starts again: the channel is lost, and so is what run held.
Crash ==
    /\ Break
    /\ lost' = lost \union {msgCh[i] : i \in 1..Len(msgCh)} /\ msgCh' = <<>>
    /\ returned' = IF broker = "rabbitmq" THEN (1..(cursor - 1)) \ acked ELSE {}
    /\ runner' = Ended /\ session' = "down" /\ producerUp' = "none" /\ mqClosed' = FALSE
    /\ marked' = committed
    /\ UNCHANGED <<broker, sends, topicLog, confirmed, committed, cursor, acked, readCh>>

BrokerNext ==
    \/ KafkaProducer \/ RabbitProducer \/ KafkaMQClose \/ RabbitMQClose
    \/ KafkaConsumer \/ RabbitConsumer \/ KafkaConsumerClose \/ RabbitConsumerClose
    \/ ReceiveClaim \/ ReceiveDelivery \/ PushChannel \/ MarkMessage \/ Ack
    \/ ClaimCancelled \/ Nack \/ KafkaRunEnds \/ RabbitRunEnds
    \/ SessionEnds \/ AutoCommit \/ ConsumeChan \/ Crash
    \/ \E stored, ok \in BOOLEAN : Send(stored, ok) \/ PublishWithContext(stored, ok)
    \/ \E ok \in BOOLEAN : Rejoin(ok)

----------------------------------------------------------------------------
\* What the broker will not deliver again.
Settled == IF broker = "kafka" THEN 1..committed ELSE acked

Elements(s) == {s[i] : i \in 1..Len(s)}

\* Nothing is skipped: a message that the broker will not deliver again has been
\* put into the channel, through rebalances, lost connections, closes on a full
\* channel and crashes; it is read, still in the channel, or was in the channel
\* of a process that crashed.  Without such a break every message arrives once
\* and in order.
NothingSkipped ==
    /\ Settled \subseteq Elements(readCh) \union Elements(msgCh) \union lost
    /\ breaks = 0 => \A i \in 1..(Len(readCh) + Len(msgCh)) : (readCh \o msgCh)[i] = i
    /\ broker = "kafka" => confirmed \subseteq Elements(topicLog)
=============================================================================
