---------------------------- MODULE QueuePromise ----------------------------
(***************************************************************************)
(* What a message queue promises its users (the interfaces MQ, Producer    *)
(* and Consumer of mq/mq.go), without poll goroutines, channels, offsets   *)
(* and notifications: a topic is a number of logs; a message is added at   *)
(* the end of a log that exists, and never after Close has returned; and a *)
(* consumer receives, of each log, the next message and each one once.     *)
(***************************************************************************)
EXTENDS Naturals, Sequences

CONSTANTS
    Consumers,
    Topics, Parts,  \* the numbers of the topics and of their partitions
    Sizes,          \* the numbers of partitions that topics have
    Ids             \* what tells messages apart

VARIABLES
    parts,          \* the number of partitions of each topic created
    log,            \* log[t][i]: the messages of partition i
    topic,          \* the topic of each consumer, 0 before it is created
    received,       \* what each consumer's callers have received
    reading,        \* consumers whose callers still receive
    closed          \* Close has returned

promise == <<parts, log, topic, received, reading, closed>>

PInit ==
    /\ parts = <<>> /\ log = [t \in Topics |-> [i \in Parts |-> <<>>]]
    /\ topic = [c \in Consumers |-> 0] /\ received = [c \in Consumers |-> <<>>]
    /\ reading = Consumers /\ closed = FALSE

\* A topic is created by name, or by its first producer or consumer.
NewTopic == \E n \in Sizes : parts' = Append(parts, n)

PCreate == ~closed /\ NewTopic /\ UNCHANGED <<log, topic, received, reading, closed>>

PSubscribe(c) ==
    /\ ~closed /\ topic[c] = 0
    /\ NewTopic \/ UNCHANGED parts
    /\ \E t \in 1..Len(parts') : topic' = [topic EXCEPT ![c] = t]
    /\ UNCHANGED <<log, received, reading, closed>>

\* A message that is in no log is added at the end of a log that exists.
PPublish ==
    /\ ~closed
    /\ \E t \in Topics, i \in Parts, id \in Ids :
          /\ t <= Len(parts) /\ i < parts[t]
          /\ \A u \in Topics, j \in Parts : \A k \in 1..Len(log[u][j]) : log[u][j][k].id # id
          /\ log' = [log EXCEPT ![t][i] = Append(@, [part |-> i, off |-> Len(log[t][i]), id |-> id])]
    /\ UNCHANGED <<parts, topic, received, reading, closed>>

\* The next message of a partition: the first one, or the one after a message that
\* the consumer has received; not one it has received.
PDeliver(c) ==
    LET got == {received[c][j] : j \in 1..Len(received[c])} IN
    /\ c \in reading /\ topic[c] # 0
    /\ \E i \in Parts : \E k \in 1..Len(log[topic[c]][i]) :
          /\ k = 1 \/ log[topic[c]][i][k - 1] \in got
          /\ log[topic[c]][i][k] \notin got
          /\ received' = [received EXCEPT ![c] = Append(@, log[topic[c]][i][k])]
    /\ UNCHANGED <<parts, log, topic, reading, closed>>

PLeave(c) == reading' = reading \ {c} /\ UNCHANGED <<parts, log, topic, received, closed>>

PClose == closed' = TRUE /\ UNCHANGED <<parts, log, topic, received, reading>>

PNext ==
    \/ PCreate \/ PPublish \/ PClose
    \/ \E c \in Consumers : PSubscribe(c) \/ PDeliver(c) \/ PLeave(c)

PSpec == PInit /\ [][PNext]_promise
=============================================================================
