----------------------------- MODULE DelayQueue -----------------------------
(***************************************************************************)
(* The delay queues of delayqueue/delayqueue.go: RedisDelayQueue, a sorted *)
(* set scored with the execution time, and MemoryDelayQueue, a slice.      *)
(* Both share the shape of Start, Stop and the consumer loop.              *)
(*                                                                         *)
(* Start publishes running under the lock and sets cancel after it; Stop   *)
(* calls cancel under the lock and then waits for the consumers.           *)
(* Consumers are numbered in the order Start creates them, and a           *)
(* consumer's number also names its context.                               *)
(***************************************************************************)
EXTENDS Integers, Sequences, FiniteSets

CONSTANTS
    DelayMessages,  \* records [id, topic, delay, exec, body]: exec the ExecTime
                    \* the caller set, 0 for none, and body a sequence of the
                    \* pieces between the colons of the message body
    DelayTopics,
    Controllers,    \* goroutines that call Start and Stop
    PollSize,
    Second,         \* clock units in a second
    DateBase,       \* what a date written as yyyymmddhhmmss exceeds a clock by
    MaxConsumers,   \* bound: consumers started
    MaxDelayTime    \* bound: the clock

ASSUME DelayAssumption ==
    /\ \A m \in DelayMessages : m.topic \in DelayTopics /\ m.delay \in Nat /\ m.exec \in Nat /\ Len(m.body) > 0
    /\ \A m, n \in DelayMessages : m.id = n.id => m = n    \* a message is told by its ID
    /\ PollSize \in Nat \ {0} /\ Second \in Nat \ {0} /\ DateBase > MaxDelayTime
    /\ MaxConsumers \in Nat /\ MaxDelayTime \in Nat \ {0}

VARIABLES
    backend,    \* "redis" or "memory"
    clock,      \* time.Now().UnixMilli()
    unpushed,   \* messages not yet pushed
    queue,      \* the messages waiting, with their ExecTime
    topics,     \* topics that have a handler
    running, cancelOf,    \* the fields of the queue, 0 for a nil cancel
    stuck,      \* q.mu was left locked by a panic
    control,    \* step of each controller
    consumer,   \* each consumer's step, the now of its poll, the pops left
    ended,      \* contexts cancelled
    handed      \* history: what the handlers were called with, and when

delayVars == <<backend, clock, unpushed, queue, topics, running, cancelOf, stuck, control, consumer, ended, handed>>

Asleep == [at |-> "none", now |-> 0, left |-> 0]

DelayInit ==
    /\ backend \in {"redis", "memory"}
    /\ clock = 1
    /\ unpushed = DelayMessages /\ queue = {} /\ topics = {}
    /\ running = FALSE /\ cancelOf = 0 /\ stuck = FALSE
    /\ control = [c \in Controllers |-> "idle"]
    /\ consumer = [k \in 1..MaxConsumers |-> Asleep]
    /\ ended = {} /\ handed = <<>>

Started == {k \in DOMAIN consumer : consumer[k].at # "none"}
Alive == {k \in Started : consumer[k].at # "done"}

----------------------------------------------------------------------------
\* The ExecTime Push stores: a delay goes before the caller's, and only the
\* memory queue replaces a zero by now.
ExecTime(m) ==
    IF m.delay > 0 THEN clock + m.delay
    ELSE IF backend = "memory" /\ m.exec = 0 THEN clock ELSE m.exec

Push(m) ==
    /\ m \in unpushed
    /\ backend = "memory" => ~stuck
    /\ unpushed' = unpushed \ {m}
    /\ queue' = queue \union {[msg |-> m, exec |-> ExecTime(m)]}
    /\ UNCHANGED <<backend, clock, topics, running, cancelOf, stuck, control, consumer, ended, handed>>

RegisterHandler(t) ==
    /\ ~stuck /\ t \notin topics
    /\ topics' = topics \union {t}
    /\ UNCHANGED <<backend, clock, unpushed, queue, running, cancelOf, stuck, control, consumer, ended, handed>>

StartPublish(c) ==
    /\ control[c] = "idle" /\ ~stuck
    /\ ~running /\ Cardinality(Started) + Cardinality({d \in Controllers : control[d] = "start"}) < MaxConsumers
    /\ running' = TRUE
    /\ control' = [control EXCEPT ![c] = "start"]
    /\ UNCHANGED <<backend, clock, unpushed, queue, topics, cancelOf, stuck, consumer, ended, handed>>

StartSpawn(c) ==
    LET k == Cardinality(Started) + 1 IN
    /\ control[c] = "start"
    /\ control' = [control EXCEPT ![c] = "idle"]
    /\ cancelOf' = k
    /\ consumer' = [consumer EXCEPT ![k] = [Asleep EXCEPT !.at = "select"]]
    /\ UNCHANGED <<backend, clock, unpushed, queue, topics, running, stuck, ended, handed>>

\* A nil cancel panics between Lock and Unlock.
StopCancel(c) ==
    /\ control[c] = "idle" /\ ~stuck
    /\ running
    /\ running' = FALSE
    /\ IF cancelOf = 0
       THEN stuck' = TRUE /\ control' = [control EXCEPT ![c] = "panicked"] /\ UNCHANGED ended
       ELSE ended' = ended \union {cancelOf} /\ control' = [control EXCEPT ![c] = "wait"] /\ UNCHANGED stuck
    /\ UNCHANGED <<backend, clock, unpushed, queue, topics, cancelOf, consumer, handed>>

StopReturn(c) ==
    /\ control[c] = "wait" /\ Alive = {}
    /\ control' = [control EXCEPT ![c] = "idle"]
    /\ UNCHANGED <<backend, clock, unpushed, queue, topics, running, cancelOf, stuck, consumer, ended, handed>>

----------------------------------------------------------------------------
ConsumeDone(k) ==
    /\ consumer[k].at = "select" /\ k \in ended
    /\ consumer' = [consumer EXCEPT ![k].at = "done"]
    /\ UNCHANGED <<backend, clock, unpushed, queue, topics, running, cancelOf, stuck, control, ended, handed>>

\* MemoryDelayQueue.poll, under the lock: a message without a handler is dropped.
PollMemory(k) ==
    LET due == {q \in queue : q.exec <= clock}
        served == {q \in due : q.msg.topic \in topics}
    IN
    /\ backend = "memory" /\ ~stuck
    /\ consumer[k].at = "select"
    /\ queue' = queue \ due
    /\ \E order \in [1..Cardinality(served) -> served] :
        /\ \A q \in served : \E i \in DOMAIN order : order[i] = q
        /\ handed' = handed \o [i \in DOMAIN order |-> [msg |-> order[i].msg, at |-> clock, exec |-> order[i].exec]]
    /\ UNCHANGED <<backend, clock, unpushed, topics, running, cancelOf, stuck, control, consumer, ended>>

\* formatInt64 writes a time as the digits of its date and time, a number far
\* above every score.
FormatInt64(n) == DateBase + n \div Second

\* splitMessage stops at the third colon: of a body with a colon only the first
\* piece comes back, and the rest makes the time unreadable: the zero time, long
\* before 1970.
Decode(q) ==
    [id |-> q.msg.id, topic |-> q.msg.topic, delay |-> 0, body |-> <<Head(q.msg.body)>>,
     exec |-> IF Len(q.msg.body) = 1 THEN (q.exec \div Second) * Second ELSE -1]

\* poll: ZRANGEBYSCORE answers at most PollSize members, of which only the
\* number is used.
PollRange(k) ==
    /\ backend = "redis" /\ consumer[k].at = "select"
    /\ k \notin ended
    /\ LET found == Cardinality({q \in queue : q.exec <= FormatInt64(clock)}) IN
       consumer' = [consumer EXCEPT ![k] = [at |-> IF found = 0 THEN "select" ELSE "pop", now |-> clock,
                                            left |-> IF found < PollSize THEN found ELSE PollSize]]
    /\ UNCHANGED <<backend, clock, unpushed, queue, topics, running, cancelOf, stuck, control, ended, handed>>

MutNextPop(k) ==
    [consumer EXCEPT ![k] = [at |-> IF @.left = 0 THEN "select" ELSE "pop", now |-> @.now, left |-> @.left - 1]]

NextPop(k) ==
    [consumer EXCEPT ![k] = [at |-> IF @.left = 1 THEN "select" ELSE "pop", now |-> @.now, left |-> @.left - 1]]

\* The members the script finds: those whose score is exactly now.
Poppable(k) == {q \in queue : q.exec = consumer[k].now}

\* The script answers nil, or the call fails before it runs: always once the
\* context has ended, and at any time when the network does.
PopNothing(k) ==
    /\ consumer[k].at = "pop"
    /\ consumer' = NextPop(k)
    /\ UNCHANGED <<backend, clock, unpushed, queue, topics, running, cancelOf, stuck, control, ended, handed>>

MutPop(k) ==
    /\ consumer[k].at = "pop" /\ k \notin ended
    /\ \E q \in Poppable(k) :
        /\ UNCHANGED queue
        /\ IF stuck
           THEN consumer' = [consumer EXCEPT ![k].at = "blocked"] /\ UNCHANGED handed
           ELSE /\ consumer' = NextPop(k)
                /\ \/ /\ q.msg.topic \in topics
                      /\ handed' = Append(handed, [msg |-> Decode(q), at |-> clock, exec |-> q.exec])
                   \/ UNCHANGED handed
    /\ UNCHANGED <<backend, clock, unpushed, topics, running, cancelOf, stuck, control, ended>>

\* The script removes a member; its reply may be lost, its topic may have no
\* handler, and handleMessage waits for ever on a lock left behind.
Pop(k) ==
    /\ consumer[k].at = "pop" /\ k \notin ended
    /\ \E q \in Poppable(k) :
        /\ queue' = queue \ {q}
        /\ IF stuck
           THEN consumer' = [consumer EXCEPT ![k].at = "blocked"] /\ UNCHANGED handed
           ELSE /\ consumer' = NextPop(k)
                /\ \/ /\ q.msg.topic \in topics
                      /\ handed' = Append(handed, [msg |-> Decode(q), at |-> clock, exec |-> q.exec])
                   \/ UNCHANGED handed
    /\ UNCHANGED <<backend, clock, unpushed, topics, running, cancelOf, stuck, control, ended>>

DelayTick ==
    /\ clock < MaxDelayTime
    /\ clock' = clock + 1
    /\ UNCHANGED <<backend, unpushed, queue, topics, running, cancelOf, stuck, control, consumer, ended, handed>>

Consume(k) == ConsumeDone(k) \/ PollMemory(k) \/ PollRange(k) \/ PopNothing(k) \/ Pop(k)

DelayNext ==
    \/ \E m \in DelayMessages : Push(m)
    \/ \E t \in DelayTopics : RegisterHandler(t)
    \/ \E c \in Controllers : StartPublish(c) \/ StartSpawn(c) \/ StopCancel(c) \/ StopReturn(c)
    \/ \E k \in DOMAIN consumer : Consume(k)
    \/ DelayTick

DelaySpec == DelayInit /\ [][DelayNext]_delayVars

DelayTypeOK ==
    /\ clock \in 1..MaxDelayTime
    /\ \A q \in queue : q.msg \in DelayMessages /\ q.msg \notin unpushed
    /\ topics \subseteq DelayTopics
    /\ cancelOf \in {0} \union Started /\ ended \subseteq Started
    /\ \A k \in DOMAIN consumer : consumer[k].left \in 0..PollSize

\* A delayed message reaches its handler at most once and never before its
\* execution time, with the consumers that overlapping calls of Start and Stop
\* leave behind, lost replies and polls that outlive their context.
DelayedOnceAndNotEarly ==
    \A i, j \in DOMAIN handed :
        /\ handed[i].at >= handed[i].exec
        /\ handed[i].msg.id = handed[j].msg.id => i = j
=============================================================================
