------------------------------ MODULE RedisLock ------------------------------
(***************************************************************************)
(* The distributed lock of lock/redis/redis.go on one key.                 *)
(*                                                                         *)
(* Several processes, each with one RedisLocker and several goroutines,    *)
(* share a Redis server.  The server holds the key's value or nothing; its *)
(* commands (SETNX, the two Lua scripts, expiry) are atomic.  Everything a *)
(* goroutine does between two commands or two critical sections of a mutex *)
(* interleaves with everyone else.  A lock value is random in the code; a  *)
(* token, numbered in the order SETNX succeeded, stands for it here.       *)
(*                                                                         *)
(* Note that lockValues and watchdogMap are keyed by the lock key only:    *)
(* they belong to the process, not to the goroutine that holds the lock.   *)
(***************************************************************************)
EXTENDS Naturals, Sequences

CONSTANTS
    Goroutines,   \* goroutines that use the lock
    Procs,        \* processes
    ProcOf,       \* the process of each goroutine
    MaxTokens     \* bound: successful acquisitions in a behaviour

ASSUME LockAssumption ==
    /\ ProcOf \in [Goroutines -> Procs]
    /\ MaxTokens \in Nat

None == 0
Tokens == 1..MaxTokens

VARIABLES
    redis,        \* the token stored under the key, or None
    owner,        \* owner[t]: the goroutine whose SETNX stored token t
    expired,      \* tokens whose key Redis expired
    lockValues,   \* per process: the token stored locally
    watchdogMap,  \* per process: the token of the registered watchdog
    wd,           \* wd[t]: step of the watchdog started for token t
    wdVal,        \* wdVal[t]: the value that watchdog's Extend has read
    cancelled,    \* watchdogs whose context is cancelled
    pc,           \* step of each goroutine
    tok,          \* the token each goroutine acquired
    val           \* the value each goroutine's Unlock has read

server == <<redis, owner, expired>>
dogs == <<watchdogMap, wd, wdVal, cancelled>>
lockVars == <<server, lockValues, dogs, pc, tok, val>>

LockInit ==
    /\ redis = None
    /\ owner = <<>>
    /\ expired = {}
    /\ lockValues = [p \in Procs |-> None]
    /\ watchdogMap = [p \in Procs |-> None]
    /\ wd = [t \in Tokens |-> "none"]
    /\ wdVal = [t \in Tokens |-> None]
    /\ cancelled = {}
    /\ pc = [g \in Goroutines |-> "idle"]
    /\ tok = [g \in Goroutines |-> None]
    /\ val = [g \in Goroutines |-> None]

Goto(g, step) == pc' = [pc EXCEPT ![g] = step]

\* TryLock, Lock or Unlock returns: its local variables are gone.
Return(g) ==
    /\ Goto(g, "idle")
    /\ tok' = [tok EXCEPT ![g] = None]
    /\ val' = [val EXCEPT ![g] = None]

-----------------------------------------------------------------------------
\* The server executes SET key token NX PX ttl for goroutine g.
SetNX(g) ==
    /\ redis = None
    /\ Len(owner) < MaxTokens
    /\ owner' = Append(owner, g)
    /\ redis' = Len(owner) + 1
    /\ UNCHANGED expired

\* Mutant: the value is stored whether or not SETNX succeeded.
MutAcquire(g) ==
    /\ pc[g] = "idle"
    /\ Len(owner) < MaxTokens
    /\ SetNX(g) \/ (redis # None /\ UNCHANGED server)
    /\ tok' = [tok EXCEPT ![g] = Len(owner) + 1]
    /\ Goto(g, "store")
    /\ UNCHANGED <<lockValues, dogs, val>>

\* TryLock, or one turn of Lock's ticker loop: SETNX succeeds.  A turn that finds
\* the key taken, a Lock that times out and a command that fails without reaching
\* the server leave everything as it was.
Acquire(g) ==
    /\ pc[g] = "idle"
    /\ SetNX(g)
    /\ tok' = [tok EXCEPT ![g] = Len(owner) + 1]
    /\ Goto(g, "store")
    /\ UNCHANGED <<lockValues, dogs, val>>

\* The server executes SETNX, but the reply is lost: TryLock and Lock return the
\* error and forget the value.
AcquireReplyLost(g) ==
    /\ pc[g] = "idle"
    /\ SetNX(g)
    /\ UNCHANGED <<lockValues, dogs, pc, tok, val>>

\* storeLockValue; then TryLock and a Lock without watchdog return.
StoreLockValue(g) ==
    /\ pc[g] = "store"
    /\ lockValues' = [lockValues EXCEPT ![ProcOf[g]] = tok[g]]
    /\ \E next \in {"locked", "watch"} : Goto(g, next)
    /\ UNCHANGED <<server, dogs, tok, val>>

\* Mutant: startWatchdog registers the new watchdog without stopping the old one.
MutStartWatchdog(g) ==
    /\ pc[g] = "watch"
    /\ watchdogMap' = [watchdogMap EXCEPT ![ProcOf[g]] = tok[g]]
    /\ wd' = [wd EXCEPT ![tok[g]] = "waiting"]
    /\ Goto(g, "locked")
    /\ UNCHANGED <<server, lockValues, wdVal, cancelled, tok, val>>

\* startWatchdog, under watchdogMu: the registered watchdog, if any, is cancelled.
StartWatchdog(g) ==
    /\ pc[g] = "watch"
    /\ cancelled' = cancelled \cup ({watchdogMap[ProcOf[g]]} \ {None})
    /\ watchdogMap' = [watchdogMap EXCEPT ![ProcOf[g]] = tok[g]]
    /\ wd' = [wd EXCEPT ![tok[g]] = "waiting"]
    /\ Goto(g, "locked")
    /\ UNCHANGED <<server, lockValues, wdVal, tok, val>>

-----------------------------------------------------------------------------
\* stopWatchdog(key), under watchdogMu: whatever watchdog is registered.
StopWatchdog(p) ==
    /\ cancelled' = cancelled \cup ({watchdogMap[p]} \ {None})
    /\ watchdogMap' = [watchdogMap EXCEPT ![p] = None]

\* Mutant: Unlock leaves the watchdog running.
MutUnlockStop(g) ==
    /\ pc[g] \in {"locked", "unlockFailed"}
    /\ Goto(g, IF pc[g] = "locked" THEN "getValue" ELSE "getValueAgain")
    /\ UNCHANGED <<server, lockValues, dogs, tok, val>>

\* Unlock is called by a goroutine that has acquired the lock, once more if a
\* first call ended with an error of the Redis client.
UnlockStop(g) ==
    /\ pc[g] \in {"locked", "unlockFailed"}
    /\ StopWatchdog(ProcOf[g])
    /\ Goto(g, IF pc[g] = "locked" THEN "getValue" ELSE "getValueAgain")
    /\ UNCHANGED <<server, lockValues, wd, wdVal, tok, val>>

\* getLockValue; an empty value ends Unlock with ErrLockNotHeld.
UnlockGetValue(g) ==
    /\ pc[g] \in {"getValue", "getValueAgain"}
    /\ IF lockValues[ProcOf[g]] = None
         THEN Return(g)
         ELSE /\ val' = [val EXCEPT ![g] = lockValues[ProcOf[g]]]
              /\ Goto(g, IF pc[g] = "getValue" THEN "eval" ELSE "evalAgain")
              /\ UNCHANGED tok
    /\ UNCHANGED <<server, lockValues, dogs>>

\* Mutant: DEL without the comparison.
MutDelIfEqual(v) == redis' = None

\* The Lua script of Unlock.
DelIfEqual(v) == redis' = IF redis = v THEN None ELSE redis

\* The reply of the script arrives, or the command fails, before or after the
\* server has run the script.
UnlockEval(g) ==
    /\ pc[g] \in {"eval", "evalAgain"}
    /\ \/ DelIfEqual(val[g]) /\ \E next \in {"forget", "unlockFailed"} : Goto(g, next)
       \/ UNCHANGED redis /\ Goto(g, "unlockFailed")
    /\ UNCHANGED <<owner, expired, lockValues, dogs, tok, val>>

\* deleteLockValue: whatever value is stored now.
UnlockForget(g) ==
    /\ pc[g] = "forget"
    /\ lockValues' = [lockValues EXCEPT ![ProcOf[g]] = None]
    /\ Return(g)
    /\ UNCHANGED <<server, dogs>>

\* The caller gives up after a failed Unlock and leaves the key to its TTL.
Abandon(g) ==
    /\ pc[g] = "unlockFailed"
    /\ Return(g)
    /\ UNCHANGED <<server, lockValues, dogs>>

-----------------------------------------------------------------------------
\* The watchdog's ticker fires and Extend reads the local value.  select chooses
\* freely when the context is done as well, so a cancelled watchdog may tick.
WatchdogTick(t) ==
    /\ wd[t] = "waiting"
    /\ wdVal' = [wdVal EXCEPT ![t] = lockValues[ProcOf[owner[t]]]]
    /\ wd' = [wd EXCEPT ![t] = IF wdVal'[t] = None THEN "failed" ELSE "extending"]
    /\ UNCHANGED <<server, lockValues, watchdogMap, cancelled, pc, tok, val>>

\* Extend's Lua script renews the TTL of the key if it holds the value that was
\* read, and fails otherwise; the command itself may fail too.
WatchdogExtend(t) ==
    /\ wd[t] = "extending"
    /\ \E next \in {"failed"} \cup (IF redis = wdVal[t] THEN {"waiting"} ELSE {}) :
          wd' = [wd EXCEPT ![t] = next]
    /\ wdVal' = [wdVal EXCEPT ![t] = None]
    /\ UNCHANGED <<server, lockValues, watchdogMap, cancelled, pc, tok, val>>

\* After an error the watchdog calls stopWatchdog(key) and returns.
WatchdogFail(t) ==
    /\ wd[t] = "failed"
    /\ StopWatchdog(ProcOf[owner[t]])
    /\ wd' = [wd EXCEPT ![t] = "gone"]
    /\ UNCHANGED <<server, lockValues, wdVal, pc, tok, val>>

WatchdogDone(t) ==
    /\ wd[t] = "waiting"
    /\ t \in cancelled
    /\ wd' = [wd EXCEPT ![t] = "gone"]
    /\ UNCHANGED <<server, lockValues, watchdogMap, wdVal, cancelled, pc, tok, val>>

-----------------------------------------------------------------------------
\* A live watchdog that renews the key before its TTL runs out.
Renewed(t) ==
    LET p == ProcOf[owner[t]] IN
        /\ lockValues[p] = t
        /\ watchdogMap[p] # None
        /\ wd[watchdogMap[p]] \in {"waiting", "extending"}

\* The TTL of the key runs out: because nobody renews it, or because a pause or a
\* partition outlasts it.
Expire ==
    /\ redis # None
    /\ expired' = expired \cup {redis}
    /\ redis' = None
    /\ UNCHANGED <<owner, lockValues, dogs, pc, tok, val>>

\* Process p dies, with its goroutines and watchdogs, and starts again.
Crash(p) ==
    /\ lockValues' = [lockValues EXCEPT ![p] = None]
    /\ watchdogMap' = [watchdogMap EXCEPT ![p] = None]
    /\ wd' = [t \in Tokens |->
                IF t \in DOMAIN owner /\ ProcOf[owner[t]] = p /\ wd[t] # "none"
                  THEN "gone" ELSE wd[t]]
    /\ pc' = [g \in Goroutines |-> IF ProcOf[g] = p THEN "idle" ELSE pc[g]]
    /\ wdVal' = [t \in Tokens |-> IF wd'[t] = "gone" THEN None ELSE wdVal[t]]
    /\ tok' = [g \in Goroutines |-> IF ProcOf[g] = p THEN None ELSE tok[g]]
    /\ val' = [g \in Goroutines |-> IF ProcOf[g] = p THEN None ELSE val[g]]
    /\ UNCHANGED <<server, cancelled>>

Client(g) ==
    \/ Acquire(g)
    \/ AcquireReplyLost(g)
    \/ StoreLockValue(g)
    \/ StartWatchdog(g)
    \/ UnlockStop(g)
    \/ UnlockGetValue(g)
    \/ UnlockEval(g)
    \/ UnlockForget(g)
    \/ Abandon(g)

Watchdog(t) == WatchdogTick(t) \/ WatchdogExtend(t) \/ WatchdogFail(t) \/ WatchdogDone(t)

LockNext ==
    \/ \E g \in Goroutines : Client(g)
    \/ \E t \in Tokens : Watchdog(t)
    \/ \E p \in Procs : Crash(p)
    \/ Expire

LockSpec == LockInit /\ [][LockNext]_lockVars

\* A key that nobody renews expires, by Redis's own clock.
ExpireUnrenewed == redis # None /\ ~Renewed(redis) /\ Expire

\* The goroutines of a watchdog keep running.
LockFairness ==
    /\ WF_lockVars(ExpireUnrenewed)
    /\ \A t \in Tokens : WF_lockVars(Watchdog(t))

-----------------------------------------------------------------------------
ClientSteps == {"idle", "store", "watch", "locked", "getValue", "eval", "forget",
                "unlockFailed", "getValueAgain", "evalAgain"}
DogSteps == {"none", "waiting", "extending", "failed", "gone"}

\* Tokens that some SETNX has stored so far.
Minted == 1..Len(owner)

\* Types; every token anyone remembers is one that SETNX has stored, whoever's
\* reply was lost and whatever was retried.
LockTypeOK ==
    /\ owner \in Seq(Goroutines) /\ Len(owner) <= MaxTokens
    /\ redis \in Minted \cup {None}
    /\ expired \subseteq Minted
    /\ lockValues \in [Procs -> Minted \cup {None}]
    /\ watchdogMap \in [Procs -> Minted \cup {None}]
    /\ wd \in [Tokens -> DogSteps]
    /\ \A t \in Tokens : wd[t] # "none" => t \in Minted
    /\ wdVal \in [Tokens -> Minted \cup {None}]
    /\ cancelled \subseteq Minted
    /\ pc \in [Goroutines -> ClientSteps]
    /\ tok \in [Goroutines -> Minted \cup {None}]
    /\ val \in [Goroutines -> Minted \cup {None}]

\* Between the SETNX that succeeded and the DEL of its own Unlock.
Holds(g) == pc[g] \in {"store", "watch", "locked", "getValue", "eval"}

Alone(g) == \A h \in Goroutines : ProcOf[h] = ProcOf[g] => h = g

\* Unless its TTL ran out, the lock of a goroutine stays in Redis until that
\* goroutine's own Unlock deletes it: no lost reply, failed or repeated Unlock,
\* crash or watchdog of another process takes it away.  Stated for goroutines
\* that are the only user of the lock in their process.
HolderProtected ==
    \A g \in Goroutines :
        Holds(g) /\ Alone(g) => redis = tok[g] \/ tok[g] \in expired

\* The comment in Unlock: only the client that holds the lock can release it.
OnlyHolderUnlocks ==
    \A g \in Goroutines : Holds(g) => redis = tok[g] \/ tok[g] \in expired

\* Whatever the local maps have become, a key is only ever deleted by its TTL or by
\* an Unlock of the process that stored it: the token comparison in the script
\* protects every other process.
ReleasedByOwnProcess ==
    [][redis # None /\ redis' # redis =>
          \/ redis \in expired'
          \/ \E g \in Goroutines : /\ ProcOf[g] = ProcOf[owner[redis]]
                                   /\ pc[g] \in {"eval", "evalAgain"}
                                   /\ pc'[g] # pc[g]]_lockVars

Running(t) == wd[t] \in {"waiting", "extending", "failed"}

\* No watchdog is orphaned: a running watchdog whose context is not cancelled is
\* the registered one, so that the next Unlock can stop it.
NoOrphanWatchdog ==
    \A t \in Tokens : Running(t) /\ t \notin cancelled =>
        watchdogMap[ProcOf[owner[t]]] = t

\* A key whose process has given it up, by a crash, a lost reply or a failed Unlock,
\* does not stay locked for ever: no leaked watchdog keeps renewing it.
AbandonedLockFreed ==
    \A t \in Tokens :
        redis = t /\ ~(\E g \in Goroutines : Holds(g) /\ ProcOf[g] = ProcOf[owner[t]])
            ~> redis # t
=============================================================================
