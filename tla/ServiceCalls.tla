---------------------------- MODULE ServiceCalls ----------------------------
(***************************************************************************)
(* Calls to a service: loadbalance chooses an instance from the list of     *)
(* discovery, TransportPool hands out the transport of the host, and the   *)
(* client of ghttp sends the request, again after an error or a 5xx.       *)
(* Instances join and leave the list while calls are under way.            *)
(***************************************************************************)
EXTENDS Integers, Sequences, FiniteSets

NodeLists == INSTANCE SequencesExt

CONSTANTS
    Nodes,
    Weight,         \* weight of an instance; 0 and less count as 1
    Positions,      \* the virtual nodes of an instance on the hash ring
    RingSize,       \* hashes are 0..RingSize-1
    Clients,        \* goroutines that call the service
    CounterModulus, \* 2^64 in the code
    MaxRetry,
    MaxCalls,       \* bound: calls
    MaxLists        \* bound: changes of the list

ASSUME CallsAssumption ==
    /\ MaxRetry \in Nat /\ MaxCalls \in Nat /\ MaxLists \in Nat /\ CounterModulus \in Nat \ {0}
    /\ RingSize \in Nat \ {0} /\ IsFiniteSet(Nodes) /\ IsFiniteSet(Clients)
    /\ \A n \in Nodes : Weight[n] \in Int /\ Positions[n] # {} /\ Positions[n] \subseteq 0..(RingSize - 1)

VARIABLES
    balancer,   \* "round-robin", "weighted", "random", "least" or "hash"
    list,       \* the instances discovery answers, in order
    lists,      \* changes of the list so far
    turn,       \* counter of RoundRobin and ConsistentHash
    currentWeight, \* state of WeightedRoundRobin, for the instances in it
    connections,\* connections of LeastConnections
    transport,  \* transports[host], 0 before it is created
    transports, \* transports created so far
    callOf,     \* each goroutine's call
    calls,      \* calls begun
    picks       \* history: selections of each instance since the list changed

callVars == <<balancer, list, lists, turn, currentWeight, connections, transport, transports, callOf, calls, picks>>

\* A call: its step, instance, transport, attempts made, and whether its
\* response has a body to close.
NoCall == [at |-> "idle", inst |-> CHOOSE n \in Nodes : TRUE, via |-> 0, attempts |-> 0, open |-> 0]

CallsInit ==
    /\ balancer \in {"round-robin", "weighted", "random", "least", "hash"}
    /\ list = NodeLists!SetToSeq(Nodes) /\ lists = 0
    /\ turn = 0 /\ currentWeight = [n \in {} |-> 0]
    /\ connections = [n \in Nodes |-> 0]
    /\ transport = 0 /\ transports = 0
    /\ callOf = [c \in Clients |-> NoCall] /\ calls = 0
    /\ picks = [n \in Nodes |-> 0]

----------------------------------------------------------------------------
(* The choices of the balancers *)

Members == {list[k] : k \in 1..Len(list)}

RoundRobin == {list[(turn % Len(list)) + 1]}

\* WeightedRoundRobin: instances that left are forgotten, the others gain their
\* weight, and the first with the most is selected and pays the total.
WeightOf(n) == IF Weight[n] <= 0 THEN 1 ELSE Weight[n]
Gained(n) == (IF n \in DOMAIN currentWeight THEN currentWeight[n] ELSE 0) + WeightOf(n)
Heaviest ==
    list[CHOOSE k \in 1..Len(list) :
            /\ \A j \in 1..Len(list) : Gained(list[j]) <= Gained(list[k])
            /\ \A j \in 1..(k - 1) : Gained(list[j]) < Gained(list[k])]
Units(S) == UNION {{n} \X (1..WeightOf(n)) : n \in S}     \* the weights of S, unit by unit
TotalWeight == Cardinality(Units(Members))
WeightsAfter == [n \in Members |-> IF n = Heaviest THEN Gained(n) - TotalWeight ELSE Gained(n)]

\* LeastConnections: the first with the fewest.
LeastUsed ==
    list[CHOOSE k \in 1..Len(list) :
            /\ \A j \in 1..Len(list) : connections[list[j]] >= connections[list[k]]
            /\ \A j \in 1..(k - 1) : connections[list[j]] > connections[list[k]]]

\* ConsistentHash: the first virtual node at or after the hash, or the first of
\* all.  The sort is not stable: any of two that collide.
SelectByKey(h) ==
    LET ring == UNION {Positions[n] : n \in Members}
        after == {p \in ring : p >= h}
        Least(S) == CHOOSE p \in S : \A q \in S : p <= q
        at == Least(IF after = {} THEN ring ELSE after)
    IN  {n \in Members : at \in Positions[n]}

Chosen ==
    CASE balancer = "round-robin" -> RoundRobin
      [] balancer = "weighted" -> {Heaviest}
      [] balancer = "random" -> Members
      [] balancer = "least" -> {LeastUsed}
      [] balancer = "hash" -> UNION {SelectByKey(h) : h \in 0..(RingSize - 1)}

----------------------------------------------------------------------------
\* Select answers ErrNoInstance for an empty list, and the call ends.
Select(c) ==
    /\ callOf[c].at = "idle" /\ calls < MaxCalls /\ calls' = calls + 1
    /\ IF list = <<>> THEN UNCHANGED <<turn, currentWeight, connections, callOf, picks>>
       ELSE \E n \in Chosen :
            /\ callOf' = [callOf EXCEPT ![c] = [NoCall EXCEPT !.at = "pool", !.inst = n]]
            /\ turn' = IF balancer \in {"round-robin", "hash"} THEN (turn + 1) % CounterModulus ELSE turn
            /\ currentWeight' = IF balancer = "weighted" THEN WeightsAfter ELSE currentWeight
            /\ connections' = IF balancer = "least" THEN [connections EXCEPT ![n] = @ + 1] ELSE connections
            /\ picks' = [picks EXCEPT ![n] = @ + 1]
    /\ UNCHANGED <<balancer, list, lists, transport, transports>>

\* Discovery answers another list.
ListChanges(s) ==
    /\ lists < MaxLists /\ lists' = lists + 1
    /\ list' = s /\ s # list
    /\ picks' = [n \in Nodes |-> 0]
    /\ UNCHANGED <<balancer, turn, currentWeight, connections, transport, transports, callOf, calls>>

\* TransportPool.Get: a look under the read lock ...
PoolRead(c) ==
    /\ callOf[c].at = "pool"
    /\ callOf' = [callOf EXCEPT ![c].at = IF transport # 0 THEN "send" ELSE "create", ![c].via = transport]
    /\ UNCHANGED <<balancer, list, lists, turn, currentWeight, connections, transport, transports, calls, picks>>

\* ... and a second one under the write lock.
MutDoubleCheck == 0

DoubleCheck == transport

PoolCreate(c) ==
    /\ callOf[c].at = "create"
    /\ IF DoubleCheck # 0 THEN UNCHANGED <<transport, transports>>
       ELSE transports' = transports + 1 /\ transport' = transports + 1
    /\ callOf' = [callOf EXCEPT ![c].at = "send", ![c].via = transport']
    /\ UNCHANGED <<balancer, list, lists, turn, currentWeight, connections, calls, picks>>

\* Do: a response below 500 ends the loop, and so does the last attempt.  The
\* body of a 5xx that is tried again is not closed.
Do(c, outcome) ==
    LET last == outcome = "ok" \/ callOf[c].attempts = MaxRetry IN
    /\ callOf[c].at = "send"
    /\ callOf' = [callOf EXCEPT ![c].at = IF last THEN outcome ELSE "send",
                                ![c].attempts = @ + 1,
                                ![c].open = IF outcome = "error" THEN @ ELSE @ + 1]
    /\ UNCHANGED <<balancer, list, lists, turn, currentWeight, connections, transport, transports, calls, picks>>

\* Get, Post and the others close the body they decode, or leave it to the caller,
\* who closes it; ParseResponse closes it for every status.
Parse(c) ==
    /\ callOf[c].at \in {"ok", "5xx", "error"}
    /\ callOf' = [callOf EXCEPT ![c].at = "release", ![c].open = IF callOf[c].at = "error" THEN @ ELSE @ - 1]
    /\ UNCHANGED <<balancer, list, lists, turn, currentWeight, connections, transport, transports, calls, picks>>

Release(c) ==
    /\ callOf[c].at = "release"
    /\ connections' = IF connections[callOf[c].inst] > 0
                      THEN [connections EXCEPT ![callOf[c].inst] = @ - 1] ELSE connections
    /\ callOf' = [callOf EXCEPT ![c] = NoCall]
    /\ UNCHANGED <<balancer, list, lists, turn, currentWeight, transport, transports, calls, picks>>

CallsNext ==
    \/ \E c \in Clients :
        \/ Select(c) \/ PoolRead(c) \/ PoolCreate(c) \/ Parse(c) \/ Release(c)
        \/ \E outcome \in {"ok", "5xx", "error"} : Do(c, outcome)
    \/ \E S \in SUBSET Nodes : ListChanges(NodeLists!SetToSeq(S))

----------------------------------------------------------------------------
Busy(n) == Cardinality({c \in Clients : callOf[c].at # "idle" /\ callOf[c].inst = n})
Bodies(c) == callOf[c].open

ConnectionsCounted == balancer = "least" => \A n \in Nodes : connections[n] = Busy(n)

WeightsBounded ==
    LET bound == 2 * (Cardinality(Nodes) - 1) * Cardinality(Units(Nodes))
    IN  \A n \in DOMAIN currentWeight : currentWeight[n] \in (0 - bound)..bound

TurnsFair == balancer = "round-robin" /\ calls < CounterModulus => \A n, m \in Members : picks[n] - picks[m] <= 1

OneTransport ==
    \A c \in Clients : callOf[c].at \in {"send", "ok", "5xx", "error", "release"} => callOf[c].via = transport

RetriesBounded ==
    \A c \in Clients : callOf[c].attempts <= MaxRetry + 1 /\ (callOf[c].at = "release" => Bodies(c) \in 0..MaxRetry)

\* Whatever joins, leaves or fails while calls overlap: LeastConnections counts
\* exactly the calls under way; the weights of WeightedRoundRobin do not run away
\* however often the list changes, and stay within twice the total of all weights
\* for each other instance, so that none is preferred or starved for long;
\* RoundRobin serves nobody twice more than another until its counter wraps; all
\* calls use the one transport of the host; and a finished call leaves no more
\* bodies open than 5xx answers it has retried.
CallsAccounted == ConnectionsCounted /\ WeightsBounded /\ TurnsFair /\ OneTransport /\ RetriesBounded
=============================================================================
