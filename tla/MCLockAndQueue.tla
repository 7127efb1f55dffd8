--------------------------- MODULE MCLockAndQueue ---------------------------
(* A lock, and beside it a message queue: keys that hash to nothing, to an *)
(* odd number and to the smallest int; a partition that does not exist; one *)
(* consumer with two generations of the topic and two messages, or two      *)
(* consumers that share one message and its notification.                   *)
EXTENDS MCRedisLock, MemoryMQ

MCHashes == {0, 3, MinInt}
MCExplicit == {1, -1}

VARIABLE group

First == CHOOSE c \in Consumers : TRUE

\* Limits only what the application does: no fair action is cut off.
Scope ==
    \/ \A c \in Consumers \ {First} : ctopic'[c] = NoTopic
    \/ /\ ctopic'[First] # NoTopic /\ Len(parts') <= 1 /\ sent' <= 1
       /\ phase' = "open" /\ ~deleted' /\ reading' = Consumers /\ \A c \in Consumers : ~cclosed'[c]

MCInit == group \in {"lock", "queue"} /\ LockInit /\ QueueInit

MCNext ==
    \/ group = "lock" /\ LockNext /\ UNCHANGED <<group, queueVars>>
    \/ group = "queue" /\ QueueNext /\ Scope /\ UNCHANGED <<group, lockVars>>

\* The one that is left as it starts enables nothing the fairness speaks of.
MCSpec ==
    /\ MCInit /\ [][MCNext]_<<group, lockVars, queueVars>>
    /\ LockFairness /\ QueueFairness
=============================================================================
