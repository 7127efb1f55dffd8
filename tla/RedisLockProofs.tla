--------------------------- MODULE RedisLockProofs ---------------------------
(***************************************************************************)
(* Theorems about RedisLock for every number of processes, goroutines and  *)
(* acquisitions.                                                           *)
(***************************************************************************)
EXTENDS RedisLock, TLAPS

\* Every command and local step keeps the types and remembers only minted tokens.
LEMMA TypePreserved ==
    ASSUME LockTypeOK, [LockNext]_lockVars
    PROVE  LockTypeOK'
<1> USE LockAssumption DEF LockTypeOK, Minted, Tokens, None, ClientSteps, DogSteps, Goto, server, dogs
<1>1. ASSUME NEW g \in Goroutines, Client(g) PROVE LockTypeOK'
  <2>1. CASE Acquire(g)
    BY <2>1 DEF Acquire, SetNX
  <2>2. CASE AcquireReplyLost(g)
    BY <2>2 DEF AcquireReplyLost, SetNX
  <2>3. CASE StoreLockValue(g)
    BY <2>3 DEF StoreLockValue
  <2>4. CASE StartWatchdog(g)
    <3>1. tok[g] \in Minted \cup {None} /\ watchdogMap[ProcOf[g]] \in Minted \cup {None}
      OBVIOUS
    <3>2. cancelled' \subseteq Minted /\ watchdogMap' \in [Procs -> Minted \cup {None}]
      BY <2>4, <3>1 DEF StartWatchdog
    <3>3. wd' \in [Tokens -> DogSteps] /\ \A t \in Tokens : wd'[t] # "none" => t \in Minted
      <4>1. wd' \in [Tokens -> DogSteps]
        BY <2>4 DEF StartWatchdog
      <4>2. ASSUME NEW t \in Tokens, wd'[t] # "none" PROVE t \in Minted
        <5>1. CASE t = tok[g]
          BY <3>1, <5>1
        <5>2. CASE t # tok[g]
          BY <2>4, <4>2, <5>2 DEF StartWatchdog
        <5>3. QED
          BY <5>1, <5>2
      <4>3. QED
        BY <4>1, <4>2
    <3>4. pc' \in [Goroutines -> ClientSteps]
      BY <2>4 DEF StartWatchdog
    <3>5. UNCHANGED <<redis, owner, expired, lockValues, wdVal, tok, val>>
      BY <2>4 DEF StartWatchdog
    <3>6. QED
      BY <3>2, <3>3, <3>4, <3>5
  <2>5. CASE UnlockStop(g)
    BY <2>5 DEF UnlockStop, StopWatchdog
  <2>6. CASE UnlockGetValue(g)
    BY <2>6, ZenonT(40) DEF UnlockGetValue, Return
  <2>7. CASE UnlockEval(g)
    BY <2>7 DEF UnlockEval, DelIfEqual
  <2>8. CASE UnlockForget(g)
    BY <2>8 DEF UnlockForget, Return
  <2>9. CASE Abandon(g)
    BY <2>9 DEF Abandon, Return
  <2>10. QED
    BY <1>1, <2>1, <2>2, <2>3, <2>4, <2>5, <2>6, <2>7, <2>8, <2>9 DEF Client
<1>2. ASSUME NEW t \in Tokens, Watchdog(t) PROVE LockTypeOK'
  <2>1. CASE WatchdogTick(t)
    BY <2>1 DEF WatchdogTick
  <2>2. CASE WatchdogExtend(t)
    BY <2>2 DEF WatchdogExtend
  <2>3. CASE WatchdogFail(t)
    <3>1. t \in Minted
      BY <2>3 DEF WatchdogFail
    <3>2. ProcOf[owner[t]] \in Procs
      BY <3>1
    <3>3. watchdogMap[ProcOf[owner[t]]] \in Minted \cup {None}
      BY <3>2
    <3>4. cancelled' \subseteq Minted /\ watchdogMap' \in [Procs -> Minted \cup {None}]
      BY <2>3, <3>3 DEF WatchdogFail, StopWatchdog
    <3>5. wd' \in [Tokens -> DogSteps] /\ \A u \in Tokens : wd'[u] # "none" => u \in Minted
      BY <2>3, <3>1 DEF WatchdogFail
    <3>6. UNCHANGED <<redis, owner, expired, lockValues, wdVal, pc, tok, val>>
      BY <2>3 DEF WatchdogFail
    <3>7. QED
      BY <3>4, <3>5, <3>6
  <2>4. CASE WatchdogDone(t)
    BY <2>4 DEF WatchdogDone
  <2>5. QED
    BY <1>2, <2>1, <2>2, <2>3, <2>4 DEF Watchdog
<1>3. ASSUME NEW p \in Procs, Crash(p) PROVE LockTypeOK'
  BY <1>3 DEF Crash
<1>4. CASE Expire
  BY <1>4 DEF Expire
<1>5. CASE UNCHANGED lockVars
  BY <1>5 DEF lockVars
<1>6. QED
  BY <1>1, <1>2, <1>3, <1>4, <1>5 DEF LockNext

\* Types, and no token is remembered that no SETNX stored, through lost replies,
\* retries and crashes.
THEOREM TypeCorrect == LockSpec => []LockTypeOK
<1>1. LockInit => LockTypeOK
  BY LockAssumption DEF LockInit, LockTypeOK, Minted, Tokens, None, ClientSteps, DogSteps
<1>2. QED
  BY <1>1, TypePreserved, PTL DEF LockSpec

-----------------------------------------------------------------------------
\* The strengthening: a token found in a process, in its lockValues or in the hand
\* of an Unlock, was minted by that process; the one a goroutine acquired, by itself.
LocalTokensOwned ==
    /\ \A p \in Procs : lockValues[p] # None => ProcOf[owner[lockValues[p]]] = p
    /\ \A g \in Goroutines : val[g] # None => ProcOf[owner[val[g]]] = ProcOf[g]
    /\ \A g \in Goroutines : tok[g] # None => owner[tok[g]] = g
    /\ \A g \in Goroutines : pc[g] # "idle" => tok[g] # None

\* owner only grows, so a token keeps its owner.
LEMMA OwnerStable ==
    ASSUME LockTypeOK, [LockNext]_lockVars
    PROVE  \A t \in Minted : t \in Minted' /\ owner'[t] = owner[t]
<1> USE DEF server
<1>1. ASSUME NEW g \in Goroutines, Acquire(g) \/ AcquireReplyLost(g)
      PROVE  owner' = Append(owner, g)
  BY <1>1 DEF Acquire, AcquireReplyLost, SetNX
<1>2. ASSUME NEW g \in Goroutines, Client(g), ~Acquire(g), ~AcquireReplyLost(g)
      PROVE  owner' = owner
  BY <1>2 DEF Client, StoreLockValue, StartWatchdog, UnlockStop, UnlockGetValue, UnlockEval,
              UnlockForget, Abandon
<1>3. ASSUME NEW t \in Tokens, Watchdog(t) PROVE owner' = owner
  BY <1>3 DEF Watchdog, WatchdogTick, WatchdogExtend, WatchdogFail, WatchdogDone
<1>4. ASSUME NEW p \in Procs, Crash(p) PROVE owner' = owner
  BY <1>4 DEF Crash
<1>5. ASSUME Expire \/ UNCHANGED lockVars PROVE owner' = owner
  BY <1>5 DEF Expire, lockVars
<1>6. owner' = owner \/ \E g \in Goroutines : owner' = Append(owner, g)
  <2>1. ASSUME NEW g \in Goroutines, Client(g)
        PROVE  owner' = owner \/ \E h \in Goroutines : owner' = Append(owner, h)
    BY <1>1, <1>2, <2>1
  <2>2. QED
    BY <2>1, <1>3, <1>4, <1>5 DEF LockNext
<1>7. CASE owner' = owner
  BY <1>7 DEF Minted
<1>8. ASSUME NEW g \in Goroutines, owner' = Append(owner, g)
      PROVE  \A t \in Minted : t \in Minted' /\ owner'[t] = owner[t]
  <2>1. owner \in Seq(Goroutines)
    BY DEF LockTypeOK
  <2>2. Len(owner') = Len(owner) + 1
    BY <1>8, <2>1
  <2>3. QED
    BY <1>8, <2>1, <2>2 DEF Minted
<1>9. QED
  BY <1>6, <1>7, <1>8

LEMMA OwnedPreserved ==
    ASSUME LockTypeOK, LocalTokensOwned, [LockNext]_lockVars
    PROVE  LocalTokensOwned'
<1> USE LockAssumption DEF LockTypeOK, LocalTokensOwned, Minted, None, Goto, server, dogs
<1>0. \A t \in Minted : owner'[t] = owner[t]
  BY OwnerStable
<1>a. \A p \in Procs : lockValues[p] # None => owner'[lockValues[p]] = owner[lockValues[p]]
  BY <1>0
<1>b. \A g \in Goroutines :
          /\ val[g] # None => owner'[val[g]] = owner[val[g]]
          /\ tok[g] # None => owner'[tok[g]] = owner[tok[g]]
  BY <1>0
<1>c. ASSUME UNCHANGED <<lockValues, val>>
      PROVE  /\ \A p \in Procs : lockValues'[p] # None => ProcOf[owner'[lockValues'[p]]] = p
             /\ \A h \in Goroutines : val'[h] # None => ProcOf[owner'[val'[h]]] = ProcOf[h]
  <2>1. lockValues' = lockValues /\ val' = val
    BY <1>c
  <2>2. ASSUME NEW h \in Goroutines, val[h] # None PROVE ProcOf[owner'[val[h]]] = ProcOf[h]
    <3>1. owner'[val[h]] = owner[val[h]]
      BY <1>b, <2>2
    <3>2. ProcOf[owner[val[h]]] = ProcOf[h]
      BY <2>2
    <3>3. QED
      BY <3>1, <3>2
  <2>3. QED
    BY <1>a, <2>1, <2>2
<1>1. ASSUME NEW g \in Goroutines, Client(g) PROVE LocalTokensOwned'
  <2>1. CASE Acquire(g)
    <3>1. owner' = Append(owner, g) /\ tok' = [tok EXCEPT ![g] = Len(owner) + 1]
      BY <2>1 DEF Acquire, SetNX
    <3>2. owner'[Len(owner) + 1] = g
      BY <3>1
    <3>3. UNCHANGED <<lockValues, val>> /\ pc' = [pc EXCEPT ![g] = "store"]
      BY <2>1 DEF Acquire
    <3>4. \A h \in Goroutines : tok'[h] # None => owner'[tok'[h]] = h
      BY <1>0, <3>1, <3>2
    <3>5. \A h \in Goroutines : pc'[h] # "idle" => tok'[h] # None
      BY <3>1, <3>3
    <3>6. QED
      BY <1>c, <3>3, <3>4, <3>5
  <2>2. CASE AcquireReplyLost(g)
    <3>1. UNCHANGED <<lockValues, pc, tok, val>>
      BY <2>2 DEF AcquireReplyLost
    <3>2. \A h \in Goroutines : tok'[h] # None => owner'[tok'[h]] = h
      BY <1>b, <3>1
    <3>3. \A h \in Goroutines : pc'[h] # "idle" => tok'[h] # None
      BY <3>1
    <3>4. QED
      BY <1>c, <3>1, <3>2, <3>3
  <2>3. CASE StoreLockValue(g)
    BY <1>a, <1>b, <2>3 DEF StoreLockValue
  <2>4. CASE StartWatchdog(g)
    BY <1>a, <1>b, <2>4 DEF StartWatchdog
  <2>5. CASE UnlockStop(g)
    BY <1>a, <1>b, <2>5 DEF UnlockStop
  <2>6. CASE UnlockGetValue(g)
    <3>1. CASE lockValues[ProcOf[g]] = None
      <4>1. /\ UNCHANGED <<owner, lockValues>>
            /\ pc' = [pc EXCEPT ![g] = "idle"]
            /\ tok' = [tok EXCEPT ![g] = None]
            /\ val' = [val EXCEPT ![g] = None]
        BY <2>6, <3>1 DEF UnlockGetValue, Return
      <4>2. QED
        BY <4>1
    <3>2. CASE lockValues[ProcOf[g]] # None
      BY <1>a, <1>b, <2>6, <3>2 DEF UnlockGetValue
    <3>3. QED
      BY <3>1, <3>2
  <2>7. CASE UnlockEval(g)
    BY <1>a, <1>b, <2>7 DEF UnlockEval
  <2>8. CASE UnlockForget(g)
    BY <1>a, <1>b, <2>8 DEF UnlockForget, Return
  <2>9. CASE Abandon(g)
    BY <1>a, <1>b, <2>9 DEF Abandon, Return
  <2>10. QED
    BY <1>1, <2>1, <2>2, <2>3, <2>4, <2>5, <2>6, <2>7, <2>8, <2>9 DEF Client
<1>2. ASSUME NEW t \in Tokens, Watchdog(t) PROVE LocalTokensOwned'
  BY <1>a, <1>b, <1>2 DEF Watchdog, WatchdogTick, WatchdogExtend, WatchdogFail, WatchdogDone
<1>3. ASSUME NEW p \in Procs, Crash(p) PROVE LocalTokensOwned'
  BY <1>a, <1>b, <1>3 DEF Crash
<1>4. CASE Expire \/ UNCHANGED lockVars
  BY <1>a, <1>b, <1>4 DEF Expire, lockVars
<1>5. QED
  BY <1>1, <1>2, <1>3, <1>4 DEF LockNext

\* LocalTokensOwned is an invariant: storeLockValue and getLockValue never bring a
\* token of another process into reach of Unlock's script.
THEOREM TokensOwned == LockSpec => []LocalTokensOwned
<1>1. LockInit => LocalTokensOwned
  BY DEF LockInit, LocalTokensOwned, None
<1>2. QED
  BY <1>1, OwnedPreserved, TypeCorrect, PTL DEF LockSpec

-----------------------------------------------------------------------------
\* What a step may do to the key: nothing, store a token when there is none,
\* expire it, or delete it in Unlock's script.
LEMMA RedisSteps ==
    ASSUME LockTypeOK, [LockNext]_lockVars
    PROVE  \/ redis' = redis
           \/ redis = None
           \/ redis' = None /\ redis \in expired'
           \/ \E g \in Goroutines : /\ UnlockEval(g)
                                   /\ redis = val[g]
                                   /\ redis' = None
<1> USE DEF server
<1>1. ASSUME NEW g \in Goroutines, Client(g), ~UnlockEval(g)
      PROVE  redis' = redis \/ redis = None
  BY <1>1 DEF Client, Acquire, AcquireReplyLost, SetNX, StoreLockValue, StartWatchdog, UnlockStop,
              UnlockGetValue, UnlockForget, Abandon
<1>2. ASSUME NEW g \in Goroutines, UnlockEval(g)
      PROVE  redis' = redis \/ (redis = val[g] /\ redis' = None)
  BY <1>2 DEF UnlockEval, DelIfEqual
<1>3. ASSUME NEW t \in Tokens, Watchdog(t) PROVE redis' = redis
  BY <1>3 DEF Watchdog, WatchdogTick, WatchdogExtend, WatchdogFail, WatchdogDone
<1>4. ASSUME NEW p \in Procs, Crash(p) PROVE redis' = redis
  BY <1>4 DEF Crash
<1>5. ASSUME Expire PROVE redis' = None /\ redis \in expired'
  BY <1>5 DEF Expire
<1>6. ASSUME UNCHANGED lockVars PROVE redis' = redis
  BY <1>6 DEF lockVars
<1>7. QED
  BY <1>1, <1>2, <1>3, <1>4, <1>5, <1>6 DEF LockNext

\* A key is deleted only by its TTL or by an Unlock of the process that stored it.
THEOREM KeysReleasedByOwnProcess == LockSpec => ReleasedByOwnProcess
<1> DEFINE Released ==
      redis # None /\ redis' # redis =>
          \/ redis \in expired'
          \/ \E g \in Goroutines : /\ ProcOf[g] = ProcOf[owner[redis]]
                                   /\ pc[g] \in {"eval", "evalAgain"}
                                   /\ pc'[g] # pc[g]
<1>1. LockTypeOK /\ LocalTokensOwned /\ [LockNext]_lockVars => [Released]_lockVars
  <2> SUFFICES ASSUME LockTypeOK, LocalTokensOwned, [LockNext]_lockVars, redis # None, redis' # redis,
                      redis \notin expired'
               PROVE  \E g \in Goroutines : /\ ProcOf[g] = ProcOf[owner[redis]]
                                           /\ pc[g] \in {"eval", "evalAgain"}
                                           /\ pc'[g] # pc[g]
    OBVIOUS
  <2>1. PICK g \in Goroutines : UnlockEval(g) /\ redis = val[g]
    BY RedisSteps
  <2>2. ProcOf[owner[redis]] = ProcOf[g]
    BY <2>1 DEF LocalTokensOwned
  <2>3. pc[g] \in {"eval", "evalAgain"} /\ pc'[g] # pc[g]
    BY <2>1 DEF UnlockEval, Goto, LockTypeOK
  <2>4. QED
    BY <2>2, <2>3
<1>2. QED
  BY <1>1, TypeCorrect, TokensOwned, PTL DEF LockSpec, ReleasedByOwnProcess

\* Where a goroutine can be when it holds the lock after a step.
LEMMA HoldsSteps ==
    ASSUME LockTypeOK, [LockNext]_lockVars, NEW g \in Goroutines, Holds(g)'
    PROVE  Acquire(g) \/ (Holds(g) /\ tok'[g] = tok[g])
<1> USE DEF LockTypeOK, Holds, Goto, server, dogs
<1>1. ASSUME NEW h \in Goroutines, Client(h)
      PROVE  Acquire(g) \/ (Holds(g) /\ tok'[g] = tok[g])
  <2>1. CASE Acquire(h)
    BY <2>1 DEF Acquire
  <2>2. CASE AcquireReplyLost(h) \/ StoreLockValue(h) \/ StartWatchdog(h)
    BY <2>2 DEF AcquireReplyLost, StoreLockValue, StartWatchdog
  <2>3. CASE UnlockStop(h)
    BY <2>3 DEF UnlockStop
  <2>4. CASE UnlockGetValue(h)
    BY <2>4 DEF UnlockGetValue, Return
  <2>5. CASE UnlockEval(h)
    BY <2>5 DEF UnlockEval
  <2>6. CASE UnlockForget(h) \/ Abandon(h)
    BY <2>6 DEF UnlockForget, Abandon, Return
  <2>7. QED
    BY <1>1, <2>1, <2>2, <2>3, <2>4, <2>5, <2>6 DEF Client
<1>2. ASSUME NEW t \in Tokens, Watchdog(t) PROVE Holds(g) /\ tok'[g] = tok[g]
  BY <1>2 DEF Watchdog, WatchdogTick, WatchdogExtend, WatchdogFail, WatchdogDone
<1>3. ASSUME NEW p \in Procs, Crash(p) PROVE Holds(g) /\ tok'[g] = tok[g]
  BY <1>3 DEF Crash
<1>4. ASSUME Expire \/ UNCHANGED lockVars PROVE Holds(g) /\ tok'[g] = tok[g]
  BY <1>4 DEF Expire, lockVars
<1>5. QED
  BY <1>1, <1>2, <1>3, <1>4 DEF LockNext

\* Redis only ever adds to the expired tokens.
LEMMA ExpiredGrows ==
    ASSUME LockTypeOK, [LockNext]_lockVars
    PROVE  expired \subseteq expired'
<1> USE DEF server
<1>1. ASSUME NEW g \in Goroutines, Client(g) PROVE expired' = expired
  BY <1>1 DEF Client, Acquire, AcquireReplyLost, SetNX, StoreLockValue, StartWatchdog, UnlockStop,
              UnlockGetValue, UnlockEval, UnlockForget, Abandon
<1>2. ASSUME NEW t \in Tokens, Watchdog(t) PROVE expired' = expired
  BY <1>2 DEF Watchdog, WatchdogTick, WatchdogExtend, WatchdogFail, WatchdogDone
<1>3. ASSUME NEW p \in Procs, Crash(p) PROVE expired' = expired
  BY <1>3 DEF Crash
<1>4. ASSUME Expire \/ UNCHANGED lockVars PROVE expired \subseteq expired'
  BY <1>4 DEF Expire, lockVars
<1>5. QED
  BY <1>1, <1>2, <1>3, <1>4 DEF LockNext

\* Mutual exclusion between processes, up to the TTL: HolderProtected for every
\* number of processes, goroutines and acquisitions.
THEOREM LockHeldUntilReleased == LockSpec => []HolderProtected
<1>1. LockInit => HolderProtected
  BY DEF LockInit, HolderProtected, Holds
<1>2. LockTypeOK /\ LocalTokensOwned /\ HolderProtected /\ [LockNext]_lockVars => HolderProtected'
  <2> SUFFICES ASSUME LockTypeOK, LocalTokensOwned, HolderProtected, [LockNext]_lockVars,
                      NEW g \in Goroutines, Holds(g)', Alone(g)
               PROVE  redis' = tok'[g] \/ tok'[g] \in expired'
    BY DEF HolderProtected, Alone
  <2>1. CASE Acquire(g)
    BY <2>1 DEF Acquire, SetNX, LockTypeOK
  <2>2. CASE Holds(g) /\ tok'[g] = tok[g]
    <3>1. tok[g] # None
      BY <2>2 DEF LocalTokensOwned, Holds
    <3>2. redis = tok[g] \/ tok[g] \in expired
      BY <2>2 DEF HolderProtected
    <3>3. CASE tok[g] \in expired
      BY <2>2, <3>3, ExpiredGrows
    <3>4. CASE redis = tok[g]
      <4>1. CASE redis' = redis \/ redis \in expired'
        BY <2>2, <3>4, <4>1
      <4>2. ASSUME NEW h \in Goroutines, UnlockEval(h), redis = val[h]
            PROVE  FALSE
        <5>1. ProcOf[h] = ProcOf[g]
          <6>1. val[h] # None /\ owner[val[h]] = g
            BY <3>1, <3>4, <4>2 DEF LocalTokensOwned
          <6>2. QED
            BY <6>1 DEF LocalTokensOwned
        <5>2. h = g
          BY <5>1 DEF Alone
        <5>3. pc'[g] \in {"forget", "unlockFailed"}
          BY <4>2, <5>2 DEF UnlockEval, Goto, LockTypeOK
        <5>4. QED
          BY <5>3 DEF Holds
      <4>3. QED
        BY <3>1, <3>4, <4>1, <4>2, RedisSteps
    <3>5. QED
      BY <3>2, <3>3, <3>4
  <2>3. QED
    BY <2>1, <2>2, HoldsSteps
<1>3. QED
  BY <1>1, <1>2, TypeCorrect, TokensOwned, PTL DEF LockSpec

\* Of two goroutines that are each the only user of the lock in their process, both
\* between Lock and Unlock, one has outlived its TTL.
MutualExclusion ==
    \A g, h \in Goroutines :
        g # h /\ Alone(g) /\ Alone(h) /\ Holds(g) /\ Holds(h) => tok[g] \in expired \/ tok[h] \in expired

\* The critical sections of such goroutines overlap only after an expiry, for every
\* number of processes and acquisitions and whatever replies are lost: their tokens
\* differ, and Redis holds one of them.
THEOREM CriticalSectionsExclusive == LockSpec => []MutualExclusion
<1>1. LocalTokensOwned /\ HolderProtected => MutualExclusion
  <2> SUFFICES ASSUME LocalTokensOwned, HolderProtected, NEW g \in Goroutines, NEW h \in Goroutines,
                      g # h, Alone(g), Alone(h), Holds(g), Holds(h)
               PROVE  tok[g] \in expired \/ tok[h] \in expired
    BY DEF MutualExclusion
  <2>1. tok[g] # None /\ tok[h] # None
    BY DEF LocalTokensOwned, Holds
  <2>2. tok[g] # tok[h]
    BY <2>1 DEF LocalTokensOwned
  <2>3. QED
    BY <2>2 DEF HolderProtected
<1>2. QED
  BY <1>1, TokensOwned, LockHeldUntilReleased, PTL

-----------------------------------------------------------------------------
\* After stopWatchdog, startWatchdog, a watchdog's exit or a crash, every running
\* watchdog that is not cancelled is still the registered one of its process.
THEOREM WatchdogsRegistered == LockSpec => []NoOrphanWatchdog
<1>1. LockInit => NoOrphanWatchdog
  BY DEF LockInit, NoOrphanWatchdog, Running
<1>2. LockTypeOK /\ LocalTokensOwned /\ NoOrphanWatchdog /\ [LockNext]_lockVars => NoOrphanWatchdog'
  <2> SUFFICES ASSUME LockTypeOK, LocalTokensOwned, NoOrphanWatchdog, [LockNext]_lockVars,
                      NEW t \in Tokens, Running(t)', t \notin cancelled'
               PROVE  watchdogMap'[ProcOf[owner'[t]]] = t
    BY DEF NoOrphanWatchdog
  <2> USE DEF Running, DogSteps, server, dogs
  <2>1. ASSUME t \in Minted PROVE owner'[t] = owner[t] /\ ProcOf[owner[t]] \in Procs
    <3>1. owner'[t] = owner[t]
      BY <2>1, OwnerStable
    <3>2. owner[t] \in Goroutines
      BY <2>1 DEF LockTypeOK, Minted
    <3>3. QED
      BY <3>1, <3>2, LockAssumption
  <2>2. ASSUME Running(t) PROVE t \in Minted
    BY <2>2 DEF LockTypeOK
  <2>3. ASSUME UNCHANGED <<watchdogMap, wd, cancelled>>
        PROVE  watchdogMap'[ProcOf[owner'[t]]] = t
    <3>1. Running(t) /\ t \notin cancelled
      BY <2>3
    <3>2. QED
      BY <2>1, <2>2, <2>3, <3>1 DEF NoOrphanWatchdog
  <2>4. ASSUME NEW p \in Procs, StopWatchdog(p), Running(t)
        PROVE  watchdogMap'[ProcOf[owner'[t]]] = t
    <3>1. t \notin cancelled
      BY <2>4 DEF StopWatchdog
    <3>2. watchdogMap[ProcOf[owner[t]]] = t
      BY <2>4, <3>1 DEF NoOrphanWatchdog
    <3>3. t # None
      BY DEF Tokens, None
    <3>4. ProcOf[owner[t]] # p
      BY <2>4, <3>2, <3>3 DEF StopWatchdog
    <3>5. QED
      BY <2>1, <2>2, <2>4, <3>2, <3>4 DEF StopWatchdog, LockTypeOK
  <2>5. ASSUME NEW g \in Goroutines, StartWatchdog(g)
        PROVE  watchdogMap'[ProcOf[owner'[t]]] = t
    <3>1. tok[g] # None /\ tok[g] \in Minted /\ owner[tok[g]] = g
      BY <2>5 DEF StartWatchdog, LocalTokensOwned, LockTypeOK
    <3>2. ProcOf[g] \in Procs /\ watchdogMap'[ProcOf[g]] = tok[g]
      BY <2>5, LockAssumption DEF StartWatchdog, LockTypeOK
    <3>3. CASE t = tok[g]
      BY <2>1, <3>1, <3>2, <3>3
    <3>4. CASE t # tok[g]
      <4>1. Running(t) /\ t \notin cancelled
        BY <2>5, <3>4 DEF StartWatchdog, LockTypeOK
      <4>2. watchdogMap[ProcOf[owner[t]]] = t /\ t # None
        BY <4>1 DEF NoOrphanWatchdog, Tokens, None
      <4>3. ProcOf[owner[t]] # ProcOf[g]
        BY <2>5, <4>2 DEF StartWatchdog
      <4>4. QED
        BY <2>1, <2>2, <2>5, <4>1, <4>2, <4>3 DEF StartWatchdog, LockTypeOK
    <3>5. QED
      BY <3>3, <3>4
  <2>6. ASSUME NEW g \in Goroutines, Client(g), ~StartWatchdog(g), ~UnlockStop(g)
        PROVE  UNCHANGED <<watchdogMap, wd, cancelled>>
    BY <2>6 DEF Client, Acquire, AcquireReplyLost, StoreLockValue, UnlockGetValue, UnlockEval,
                UnlockForget, Abandon
  <2>7. ASSUME NEW g \in Goroutines, UnlockStop(g)
        PROVE  watchdogMap'[ProcOf[owner'[t]]] = t
    <3>1. ProcOf[g] \in Procs /\ StopWatchdog(ProcOf[g]) /\ Running(t)
      BY <2>7, LockAssumption DEF UnlockStop
    <3>2. QED
      BY <2>4, <3>1
  <2>8. ASSUME NEW u \in Tokens, WatchdogFail(u)
        PROVE  watchdogMap'[ProcOf[owner'[t]]] = t
    <3>1. u \in Minted /\ owner[u] \in Goroutines
      BY <2>8 DEF WatchdogFail, LockTypeOK, Minted
    <3>2. ProcOf[owner[u]] \in Procs /\ StopWatchdog(ProcOf[owner[u]]) /\ Running(t)
      BY <2>8, <3>1, LockAssumption DEF WatchdogFail, LockTypeOK
    <3>3. QED
      BY <2>4, <3>2
  <2>9. ASSUME NEW u \in Tokens, WatchdogTick(u) \/ WatchdogExtend(u) \/ WatchdogDone(u)
        PROVE  watchdogMap'[ProcOf[owner'[t]]] = t
    <3>1. UNCHANGED <<watchdogMap, cancelled, owner>> /\ Running(t)
      BY <2>9 DEF WatchdogTick, WatchdogExtend, WatchdogDone, LockTypeOK
    <3>2. QED
      BY <3>1 DEF NoOrphanWatchdog
  <2>10. ASSUME NEW p \in Procs, Crash(p)
         PROVE  watchdogMap'[ProcOf[owner'[t]]] = t
    <3>1. Running(t) /\ t \notin cancelled
      BY <2>10 DEF Crash, LockTypeOK
    <3>2. t \in DOMAIN owner /\ ProcOf[owner[t]] # p
      <4>1. t \in DOMAIN owner
        BY <2>2, <3>1 DEF LockTypeOK, Minted
      <4>2. QED
        BY <2>10, <3>1, <4>1 DEF Crash
    <3>3. QED
      BY <2>1, <2>2, <2>10, <3>1, <3>2 DEF Crash, NoOrphanWatchdog, LockTypeOK
  <2>11. ASSUME Expire \/ UNCHANGED lockVars
         PROVE  UNCHANGED <<watchdogMap, wd, cancelled>>
    BY <2>11 DEF Expire, lockVars
  <2>12. QED
    BY <2>3, <2>5, <2>6, <2>7, <2>8, <2>9, <2>10, <2>11 DEF LockNext, Watchdog
<1>3. QED
  BY <1>1, <1>2, TypeCorrect, TokensOwned, PTL DEF LockSpec
=============================================================================
