------------------------------ MODULE Snowflake ------------------------------
(***************************************************************************)
(* The ID generators of snowflake/snowflake.go.                            *)
(*                                                                         *)
(* Each instance of the service has one Generator with a configured node   *)
(* ID and reads the wall clock of its machine, in milliseconds since the   *)
(* epoch.  The clock may be set back, and an instance may be restarted,    *)
(* which forgets timestamp and sequence.  Generate holds the generator's   *)
(* mutex from its first to its last line, so a call is one action, except  *)
(* that it sleeps, mutex held, when the sequence of a millisecond runs out.*)
(***************************************************************************)
EXTENDS Integers, Sequences

CONSTANTS
    Instances,    \* running instances
    NodeID,       \* the node ID each instance passes to New
    maxNodeID,    \* 2^10 - 1 in the code
    maxSequence,  \* 2^12 - 1 in the code
    MaxClock,     \* bound: milliseconds since the epoch
    MaxIDs,       \* bound: IDs generated in a behaviour
    MaxRestarts   \* bound: restarts of an instance

ASSUME NodeAssumption ==
    /\ maxNodeID \in Nat
    /\ maxSequence \in Nat
    /\ NodeID \in [Instances -> 0..maxNodeID]
    /\ \A i, j \in Instances : NodeID[i] = NodeID[j] => i = j
    /\ MaxClock \in Nat /\ MaxIDs \in Nat /\ MaxRestarts \in Nat

VARIABLES
    wallClock,      \* wall clock of each instance's machine
    timestamp,  \* Generator.timestamp
    sequence,   \* Generator.sequence
    waiting,    \* instances whose Generate is in waitNextMillis
    life,       \* number of restarts of each instance
    issued      \* every ID returned so far, in order

snowflakeVars == <<wallClock, timestamp, sequence, waiting, life, issued>>

\* New: node IDs outside 0..maxNodeID and an epoch in the future are refused.
SnowflakeInit ==
    /\ wallClock \in [Instances -> 0..MaxClock]
    /\ timestamp = [i \in Instances |-> 0]
    /\ sequence = [i \in Instances |-> 0]
    /\ waiting = {}
    /\ life = [i \in Instances |-> 0]
    /\ issued = <<>>

\* Mutant: the node ID is shifted too little and runs into the sequence.
MutPack(id) == (id.ts * (maxNodeID + 1) + id.node) * maxSequence + id.seq

\* now << timestampShift | nodeID << nodeIDShift | sequence
Pack(id) == (id.ts * (maxNodeID + 1) + id.node) * (maxSequence + 1) + id.seq

\* Parse: shifts and masks.
ParseID(n) ==
    [ts   |-> n \div ((maxSequence + 1) * (maxNodeID + 1)),
     node |-> (n \div (maxSequence + 1)) % (maxNodeID + 1),
     seq  |-> n % (maxSequence + 1)]

\* The tail of Generate: the timestamp is stored and the ID composed.
Issue(i, now, seq) ==
    /\ timestamp' = [timestamp EXCEPT ![i] = now]
    /\ sequence' = [sequence EXCEPT ![i] = seq]
    /\ issued' = Append(issued, [inst |-> i, life |-> life[i], ts |-> now,
                                 node |-> NodeID[i], seq |-> seq])

CanGenerate(i) == i \notin waiting /\ Len(issued) < MaxIDs

\* Mutant: a clock that was set back is trusted.
MutGenerateNewMillis(i) ==
    /\ CanGenerate(i)
    /\ wallClock[i] # timestamp[i]
    /\ Issue(i, wallClock[i], 0)
    /\ UNCHANGED <<wallClock, waiting, life>>

\* A later millisecond; a clock behind the timestamp is ErrClockMovedBack instead.
GenerateNewMillis(i) ==
    /\ CanGenerate(i)
    /\ wallClock[i] > timestamp[i]
    /\ Issue(i, wallClock[i], 0)
    /\ UNCHANGED <<wallClock, waiting, life>>

\* The same millisecond again: the next sequence number, if there is one.
GenerateSameMillis(i) ==
    /\ CanGenerate(i)
    /\ wallClock[i] = timestamp[i]
    /\ (sequence[i] + 1) % (maxSequence + 1) # 0
    /\ Issue(i, wallClock[i], sequence[i] + 1)
    /\ UNCHANGED <<wallClock, waiting, life>>

\* The sequence overflows: it is zero from here on, and Generate sleeps.
GenerateOverflow(i) ==
    /\ CanGenerate(i)
    /\ wallClock[i] = timestamp[i]
    /\ (sequence[i] + 1) % (maxSequence + 1) = 0
    /\ sequence' = [sequence EXCEPT ![i] = 0]
    /\ waiting' = waiting \cup {i}
    /\ UNCHANGED <<wallClock, timestamp, life, issued>>

\* Mutant: the loop ends when the clock is no longer behind.
MutWaitNextMillis(i) ==
    /\ i \in waiting
    /\ wallClock[i] >= timestamp[i]
    /\ Issue(i, wallClock[i], 0)
    /\ waiting' = waiting \ {i}
    /\ UNCHANGED <<wallClock, life>>

\* waitNextMillis sees a clock past the last timestamp; Generate returns.
WaitNextMillis(i) ==
    /\ i \in waiting
    /\ wallClock[i] > timestamp[i]
    /\ Issue(i, wallClock[i], 0)
    /\ waiting' = waiting \ {i}
    /\ UNCHANGED <<wallClock, life>>

-----------------------------------------------------------------------------
\* The wall clock goes on, or is set to any value by an administrator or NTP.
SetClock(i) ==
    /\ \E now \in 0..MaxClock : wallClock' = [wallClock EXCEPT ![i] = now]
    /\ UNCHANGED <<timestamp, sequence, waiting, life, issued>>

\* The process dies and New makes another generator with the same node ID.
Restart(i) ==
    /\ life[i] < MaxRestarts
    /\ life' = [life EXCEPT ![i] = @ + 1]
    /\ timestamp' = [timestamp EXCEPT ![i] = 0]
    /\ sequence' = [sequence EXCEPT ![i] = 0]
    /\ waiting' = waiting \ {i}
    /\ UNCHANGED <<wallClock, issued>>

SnowflakeNext ==
    \E i \in Instances :
        \/ GenerateNewMillis(i)
        \/ GenerateSameMillis(i)
        \/ GenerateOverflow(i)
        \/ WaitNextMillis(i)
        \/ SetClock(i)
        \/ Restart(i)

SnowflakeSpec == SnowflakeInit /\ [][SnowflakeNext]_snowflakeVars

-----------------------------------------------------------------------------
ID == [inst : Instances, life : Nat, ts : Nat, node : 0..maxNodeID, seq : 0..maxSequence]

SnowflakeTypeOK ==
    /\ wallClock \in [Instances -> Nat]
    /\ timestamp \in [Instances -> Nat]
    /\ sequence \in [Instances -> 0..maxSequence]
    /\ waiting \subseteq Instances
    /\ life \in [Instances -> Nat]
    /\ issued \in Seq(ID)

SameGenerator(x, y) == x.inst = y.inst /\ x.life = y.life

\* Generate returns unique IDs, as 64-bit numbers, however the clocks of the
\* instances jump and whatever the sequence overflows: two equal IDs can only come
\* from one instance before and after a restart, which forgets the timestamp.
Unique ==
    \A j, k \in 1..Len(issued) : j < k /\ Pack(issued[j]) = Pack(issued[k]) =>
        /\ issued[j].inst = issued[k].inst
        /\ issued[j].life # issued[k].life

\* The IDs of one generator increase, so they sort by creation.
Increasing ==
    \A j, k \in 1..Len(issued) : j < k /\ SameGenerator(issued[j], issued[k]) =>
        Pack(issued[j]) < Pack(issued[k])

\* Parse recovers the three parts of every ID that Generate composed.
ParseInvertsGenerate ==
    \A k \in 1..Len(issued) :
        ParseID(Pack(issued[k])) = [ts |-> issued[k].ts, node |-> issued[k].node,
                                  seq |-> issued[k].seq]
=============================================================================
