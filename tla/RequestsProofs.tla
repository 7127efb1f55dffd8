--------------------------- MODULE RequestsProofs ---------------------------
(***************************************************************************)
(* What holds in the composition Requests: of sessions for every number of *)
(* sessions and requests and every lifetime, of the chain of middlewares   *)
(* for every number of requests, pooled contexts and admissions, of the    *)
(* chain of services a request is passed along, and of the rate limiters   *)
(* for every rate and window.                                              *)
(***************************************************************************)
EXTENDS Requests, FiniteSetTheorems, SequenceTheorems, TLAPS

----------------------------------------------------------------------------
(* Sessions *)

OnSession == {"lookup", "touch", "evict", "got", "session", "expire", "del", "renew"}
SessionSteps == OnSession \union {"idle", "claims", "handler"}

Issued(S) == S \subseteq Sids /\ \A s \in S : s <= issued

StoreTypes ==
    /\ store \in {"memory", "redis"} /\ time \in Nat /\ issued \in Nat /\ issued <= MaxSessions
    /\ Issued(stored) /\ Issued(destroyed) /\ revived \subseteq destroyed
    /\ expireTime \in [Sids -> Int] /\ assured \in [Sids -> Nat]
    /\ hash \in [Sids -> SUBSET {"user_id", "role", "note"}]

CleanerTypes ==
    /\ cleaner \in [at : {"idle", "collected", "locked"}, now : Nat, ids : SUBSET Sids, doomed : SUBSET Sids]
    /\ cleaner.now <= time /\ Issued(cleaner.ids) /\ Issued(cleaner.doomed)

RequestTypes ==
    /\ req \in [Handlers -> [at : SessionSteps, sid : Sids \union {0}, late : BOOLEAN]]
    /\ \A h \in Handlers : req[h].at \in OnSession => req[h].sid \in Sids /\ req[h].sid <= issued

Types == StoreTypes /\ CleanerTypes /\ RequestTypes

\* A session that has to be found is in the map, its expiry is no earlier, and
\* nobody is about to remove it.
Kept ==
    \A s \in Sids : assured[s] > 0 =>
        /\ s <= issued
        /\ assured[s] <= expireTime[s] /\ assured[s] <= time + SessionLife
        /\ time <= assured[s] => s \in stored /\ ~Doomed(s)

\* A destroyed session that was not revived cannot be found, nor can a request
\* that began after the Destroy renew it; in Redis it never has its user again.
Out ==
    /\ \A s \in destroyed :
        /\ store = "memory" /\ s \in stored \ revived => time > expireTime[s]
        /\ store = "redis" => "user_id" \notin hash[s] /\ (s \notin revived => hash[s] = {})
    /\ \A h \in Handlers :
        /\ req[h].at \in OnSession /\ req[h].late => req[h].sid \in destroyed
        /\ req[h].at \in {"touch", "evict"} => store = "memory"
        /\ req[h].at = "touch" /\ req[h].late /\ req[h].sid \notin revived => time > expireTime[req[h].sid]
        /\ req[h].at = "got" /\ req[h].late => req[h].sid \in revived

SessionInv == Types /\ Kept /\ Out

----------------------------------------------------------------------------
\* The steps of Requests that are not the sessions' leave their state alone.
LEMMA SessionStep ==
    ASSUME [RequestsNext]_requestVars
    PROVE  [SessionNext]_sessionVars
BY DEF RequestsNext, requestVars, sessionVars

\* Sessions are numbered from one.
LEMMA SidsNumbers ==
    /\ Sids \subseteq Nat /\ 0 \notin Sids
    /\ issued \in Nat /\ issued < MaxSessions => issued + 1 \in Sids
    /\ \A s \in 1..issued : issued \in Nat => s \in Nat /\ s <= issued
BY SessionAssumption DEF Sids

\* Early changes nothing but late, and sets it for no request.
LEMMA EarlyShape ==
    ASSUME NEW r \in [Handlers -> [at : SessionSteps, sid : Sids \union {0}, late : BOOLEAN]], NEW s
    PROVE  /\ Early(r, s) \in [Handlers -> [at : SessionSteps, sid : Sids \union {0}, late : BOOLEAN]]
           /\ \A g \in Handlers : /\ Early(r, s)[g].at = r[g].at /\ Early(r, s)[g].sid = r[g].sid
                                  /\ Early(r, s)[g].late => r[g].late /\ r[g].sid # s
BY DEF Early

\* Every step keeps the types of what is stored.
LEMMA StoreTypesPreserved ==
    ASSUME StoreTypes, CleanerTypes, RequestTypes, [SessionNext]_sessionVars
    PROVE  StoreTypes'
<1> USE SessionAssumption, SidsNumbers DEF StoreTypes, RequestTypes, SessionSteps, OnSession, Issued, CleanerTypes
<1>1. CASE NewSessionMemory
  BY <1>1 DEF NewSessionMemory, TokenPair, MapFree
<1>2. CASE NewSessionRedis
  BY <1>2 DEF NewSessionRedis, TokenPair
<1>3. CASE SessionTick
  BY <1>3 DEF SessionTick
<1>4. ASSUME NEW h \in Handlers, NEW s \in Sids, NEW kind \in {"access", "refresh"}, Middleware(h, s, kind)
       PROVE  StoreTypes'
  BY <1>4 DEF Middleware, Request, Verified
<1>5. ASSUME NEW h \in Handlers, NEW s \in Sids, NEW kind \in {"access", "refresh"}, OptionalMiddleware(h, s, kind)
       PROVE  StoreTypes'
  BY <1>5 DEF OptionalMiddleware, Request, IdleRequest, Verified
<1>6. ASSUME NEW h \in Handlers, NEW s \in Sids, NEW kind \in {"access", "refresh"}, DestroyMemory(h, s, kind)
       PROVE  StoreTypes'
  BY <1>6 DEF DestroyMemory, Early, MapFree
<1>7. ASSUME NEW h \in Handlers, NEW s \in Sids, NEW kind \in {"access", "refresh"}, DestroyRedis(h, s, kind)
       PROVE  StoreTypes'
  BY <1>7 DEF DestroyRedis, Request
<1>8. ASSUME NEW h \in Handlers, NEW s \in Sids, NEW kind \in {"access", "refresh"}, RenewCheck(h, s, kind)
       PROVE  StoreTypes'
  BY <1>8 DEF RenewCheck, Request
<1>9. ASSUME NEW h \in Handlers, GetLookup(h) PROVE StoreTypes'
  BY <1>9 DEF GetLookup
<1>10. ASSUME NEW h \in Handlers, GetTouch(h) PROVE StoreTypes'
  BY <1>10 DEF GetTouch
<1>11. ASSUME NEW h \in Handlers, GetEvict(h) PROVE StoreTypes'
  BY <1>11 DEF GetEvict
<1>12. ASSUME NEW h \in Handlers, GetExists(h) PROVE StoreTypes'
  BY <1>12 DEF GetExists
<1>13. ASSUME NEW h \in Handlers, EnsureUserContext(h) PROVE StoreTypes'
  BY <1>13 DEF EnsureUserContext
<1>14. ASSUME NEW h \in Handlers, HandlerEnds(h) PROVE StoreTypes'
  BY <1>14 DEF HandlerEnds, IdleRequest
<1>15. ASSUME NEW h \in Handlers, SetHash(h) PROVE StoreTypes'
  BY <1>15 DEF SetHash, Fields, Live, Revive
<1>16. ASSUME NEW h \in Handlers, SetExpire(h) PROVE StoreTypes'
  BY <1>16 DEF SetExpire, Extended, IdleRequest
<1>17. ASSUME NEW h \in Handlers, DelField(h) PROVE StoreTypes'
  BY <1>17 DEF DelField, IdleRequest, Fields, Live
<1>18. ASSUME NEW h \in Handlers, SessionDestroy(h) PROVE StoreTypes'
  BY <1>18 DEF SessionDestroy, Early, IdleRequest
<1>19. ASSUME NEW h \in Handlers, RenewWrite(h) PROVE StoreTypes'
  <2>1. CASE store = "memory"
    <3>1. req[h].sid \in Sids /\ time + SessionLife \in Int
      BY <1>19 DEF RenewWrite
    <3>2. expireTime' \in [Sids -> Int]
      BY <1>19, <2>1, <3>1 DEF RenewWrite
    <3>3. revived' \subseteq destroyed
      <4>1. revived' = Revive(req[h].sid)
        BY <1>19, <2>1 DEF RenewWrite
      <4>2. Revive(req[h].sid) \subseteq destroyed
        BY DEF Revive
      <4>3. QED
        BY <4>1, <4>2
    <3>4. QED
      BY <1>19, <3>2, <3>3 DEF RenewWrite
  <2>2. CASE store # "memory"
    BY <1>19, <2>2 DEF RenewWrite
  <2>3. QED
    BY <2>1, <2>2
<1>20. CASE CleanCollect
  BY <1>20 DEF CleanCollect
<1>21. CASE CleanLock
  BY <1>21 DEF CleanLock
<1>22. CASE CleanDelete
  BY <1>22 DEF CleanDelete
<1>23. CASE CleanUnlock
  BY <1>23 DEF CleanUnlock
<1>24. ASSUME NEW s \in Sids, CleanRecheck(s) PROVE StoreTypes'
  BY <1>24 DEF CleanRecheck, StillExpired
<1>25. CASE UNCHANGED sessionVars
  BY <1>25 DEF sessionVars
<1>26. QED
  BY <1>1, <1>2, <1>3, <1>4, <1>5, <1>6, <1>7, <1>8, <1>9, <1>10, <1>11, <1>12, <1>13,
     <1>14, <1>15, <1>16, <1>17, <1>18, <1>19, <1>20, <1>21, <1>22, <1>23, <1>24, <1>25 DEF SessionNext

\* Every step keeps the types of the cleanup goroutine.
LEMMA CleanerTypesPreserved ==
    ASSUME StoreTypes, CleanerTypes, RequestTypes, [SessionNext]_sessionVars
    PROVE  CleanerTypes'
<1> USE SessionAssumption, SidsNumbers DEF StoreTypes, CleanerTypes, Issued
<1>1. CASE NewSessionMemory
  BY <1>1 DEF NewSessionMemory, TokenPair, MapFree
<1>2. CASE NewSessionRedis
  BY <1>2 DEF NewSessionRedis, TokenPair
<1>3. CASE SessionTick
  BY <1>3 DEF SessionTick
<1>4. ASSUME NEW h \in Handlers, NEW s \in Sids, NEW kind \in {"access", "refresh"}, Middleware(h, s, kind)
       PROVE  CleanerTypes'
  BY <1>4 DEF Middleware, Request, Verified
<1>5. ASSUME NEW h \in Handlers, NEW s \in Sids, NEW kind \in {"access", "refresh"}, OptionalMiddleware(h, s, kind)
       PROVE  CleanerTypes'
  BY <1>5 DEF OptionalMiddleware, Request, IdleRequest, Verified
<1>6. ASSUME NEW h \in Handlers, NEW s \in Sids, NEW kind \in {"access", "refresh"}, DestroyMemory(h, s, kind)
       PROVE  CleanerTypes'
  BY <1>6 DEF DestroyMemory, Early, MapFree
<1>7. ASSUME NEW h \in Handlers, NEW s \in Sids, NEW kind \in {"access", "refresh"}, DestroyRedis(h, s, kind)
       PROVE  CleanerTypes'
  BY <1>7 DEF DestroyRedis, Request
<1>8. ASSUME NEW h \in Handlers, NEW s \in Sids, NEW kind \in {"access", "refresh"}, RenewCheck(h, s, kind)
       PROVE  CleanerTypes'
  BY <1>8 DEF RenewCheck, Request
<1>9. ASSUME NEW h \in Handlers, GetLookup(h) PROVE CleanerTypes'
  BY <1>9 DEF GetLookup
<1>10. ASSUME NEW h \in Handlers, GetTouch(h) PROVE CleanerTypes'
  BY <1>10 DEF GetTouch
<1>11. ASSUME NEW h \in Handlers, GetEvict(h) PROVE CleanerTypes'
  BY <1>11 DEF GetEvict
<1>12. ASSUME NEW h \in Handlers, GetExists(h) PROVE CleanerTypes'
  BY <1>12 DEF GetExists
<1>13. ASSUME NEW h \in Handlers, EnsureUserContext(h) PROVE CleanerTypes'
  BY <1>13 DEF EnsureUserContext
<1>14. ASSUME NEW h \in Handlers, HandlerEnds(h) PROVE CleanerTypes'
  BY <1>14 DEF HandlerEnds, IdleRequest
<1>15. ASSUME NEW h \in Handlers, SetHash(h) PROVE CleanerTypes'
  BY <1>15 DEF SetHash, Fields, Live, Revive
<1>16. ASSUME NEW h \in Handlers, SetExpire(h) PROVE CleanerTypes'
  BY <1>16 DEF SetExpire, Extended, IdleRequest
<1>17. ASSUME NEW h \in Handlers, DelField(h) PROVE CleanerTypes'
  BY <1>17 DEF DelField, IdleRequest, Fields, Live
<1>18. ASSUME NEW h \in Handlers, SessionDestroy(h) PROVE CleanerTypes'
  BY <1>18 DEF SessionDestroy, Early, IdleRequest
<1>19. ASSUME NEW h \in Handlers, RenewWrite(h) PROVE CleanerTypes'
  BY <1>19 DEF RenewWrite, Extended, IdleRequest, Revive
<1>20. CASE CleanCollect
  <2> DEFINE ids == {s \in stored : time > expireTime[s]}
  <2>1. cleaner' = [at |-> "collected", now |-> time, ids |-> ids, doomed |-> {}] /\ UNCHANGED <<time, issued>>
    BY <1>20 DEF CleanCollect
  <2>2. ids \subseteq stored
    OBVIOUS
  <2> HIDE DEF ids
  <2>3. QED
    BY <2>1, <2>2
<1>21. CASE CleanLock
  BY <1>21 DEF CleanLock
<1>22. CASE CleanDelete
  BY <1>22 DEF CleanDelete
<1>23. CASE CleanUnlock
  BY <1>23 DEF CleanUnlock
<1>24. ASSUME NEW s \in Sids, CleanRecheck(s) PROVE CleanerTypes'
  BY <1>24 DEF CleanRecheck, StillExpired
<1>25. CASE UNCHANGED sessionVars
  BY <1>25 DEF sessionVars
<1>26. QED
  BY <1>1, <1>2, <1>3, <1>4, <1>5, <1>6, <1>7, <1>8, <1>9, <1>10, <1>11, <1>12, <1>13,
     <1>14, <1>15, <1>16, <1>17, <1>18, <1>19, <1>20, <1>21, <1>22, <1>23, <1>24, <1>25 DEF SessionNext

\* Every step keeps the types of the requests.
LEMMA RequestTypesPreserved ==
    ASSUME StoreTypes, CleanerTypes, RequestTypes, [SessionNext]_sessionVars
    PROVE  RequestTypes'
<1> USE SessionAssumption, SidsNumbers DEF StoreTypes, RequestTypes, SessionSteps, OnSession
<1>1. CASE NewSessionMemory
  <2>1. req' = req /\ issued' = issued + 1
    BY <1>1 DEF NewSessionMemory
  <2>2. ASSUME NEW h \in Handlers, req[h].at \in OnSession PROVE req[h].sid <= issued + 1
    <3>1. req[h].sid \in Nat /\ req[h].sid <= issued
      BY <2>2
    <3>2. QED
      BY <3>1
  <2>3. QED
    BY <2>1, <2>2
<1>2. CASE NewSessionRedis
  <2>1. req' = req /\ issued' = issued + 1
    BY <1>2 DEF NewSessionRedis
  <2>2. ASSUME NEW h \in Handlers, req[h].at \in OnSession PROVE req[h].sid <= issued + 1
    <3>1. req[h].sid \in Nat /\ req[h].sid <= issued
      BY <2>2
    <3>2. QED
      BY <3>1
  <2>3. QED
    BY <2>1, <2>2
<1>3. CASE SessionTick
  BY <1>3 DEF SessionTick
<1>4. ASSUME NEW h \in Handlers, NEW s \in Sids, NEW kind \in {"access", "refresh"}, Middleware(h, s, kind)
       PROVE  RequestTypes'
  BY <1>4 DEF Middleware, Request, Verified
<1>5. ASSUME NEW h \in Handlers, NEW s \in Sids, NEW kind \in {"access", "refresh"}, OptionalMiddleware(h, s, kind)
       PROVE  RequestTypes'
  <2>1. CASE Verified(s, kind)
    BY <1>5, <2>1 DEF OptionalMiddleware, Request
  <2>2. CASE ~Verified(s, kind)
    BY <1>5, <2>2 DEF OptionalMiddleware, IdleRequest
  <2>3. QED
    BY <2>1, <2>2
<1>6. ASSUME NEW h \in Handlers, NEW s \in Sids, NEW kind \in {"access", "refresh"}, DestroyMemory(h, s, kind)
       PROVE  RequestTypes'
  BY <1>6, EarlyShape DEF DestroyMemory
<1>7. ASSUME NEW h \in Handlers, NEW s \in Sids, NEW kind \in {"access", "refresh"}, DestroyRedis(h, s, kind)
       PROVE  RequestTypes'
  BY <1>7 DEF DestroyRedis, Request
<1>8. ASSUME NEW h \in Handlers, NEW s \in Sids, NEW kind \in {"access", "refresh"}, RenewCheck(h, s, kind)
       PROVE  RequestTypes'
  BY <1>8 DEF RenewCheck, Request
<1>9. ASSUME NEW h \in Handlers, GetLookup(h) PROVE RequestTypes'
  BY <1>9 DEF GetLookup
<1>10. ASSUME NEW h \in Handlers, GetTouch(h) PROVE RequestTypes'
  BY <1>10 DEF GetTouch
<1>11. ASSUME NEW h \in Handlers, GetEvict(h) PROVE RequestTypes'
  BY <1>11 DEF GetEvict
<1>12. ASSUME NEW h \in Handlers, GetExists(h) PROVE RequestTypes'
  BY <1>12, SMTT(30) DEF GetExists
<1>13. ASSUME NEW h \in Handlers, EnsureUserContext(h) PROVE RequestTypes'
  BY <1>13 DEF EnsureUserContext
<1>14. ASSUME NEW h \in Handlers, HandlerEnds(h) PROVE RequestTypes'
  BY <1>14 DEF HandlerEnds, IdleRequest
<1>15. ASSUME NEW h \in Handlers, SetHash(h) PROVE RequestTypes'
  BY <1>15 DEF SetHash, Fields, Live, Revive
<1>16. ASSUME NEW h \in Handlers, SetExpire(h) PROVE RequestTypes'
  BY <1>16 DEF SetExpire, Extended, IdleRequest
<1>17. ASSUME NEW h \in Handlers, DelField(h) PROVE RequestTypes'
  BY <1>17 DEF DelField, IdleRequest, Fields, Live
<1>18. ASSUME NEW h \in Handlers, SessionDestroy(h) PROVE RequestTypes'
  <2> DEFINE r == [req EXCEPT ![h] = IdleRequest]
  <2>1. r \in [Handlers -> [at : SessionSteps, sid : Sids \union {0}, late : BOOLEAN]]
    BY DEF IdleRequest
  <2>2. \A g \in Handlers : r[g].at \in OnSession => r[g].sid \in Sids /\ r[g].sid <= issued
    BY DEF IdleRequest
  <2>3. req' = Early(r, req[h].sid) /\ issued' = issued
    BY <1>18 DEF SessionDestroy
  <2> HIDE DEF r
  <2>4. QED
    BY <2>1, <2>2, <2>3, EarlyShape
<1>19. ASSUME NEW h \in Handlers, RenewWrite(h) PROVE RequestTypes'
  BY <1>19 DEF RenewWrite, Extended, IdleRequest, Revive
<1>20. CASE CleanCollect
  BY <1>20 DEF CleanCollect
<1>21. CASE CleanLock
  BY <1>21 DEF CleanLock
<1>22. CASE CleanDelete
  BY <1>22 DEF CleanDelete
<1>23. CASE CleanUnlock
  BY <1>23 DEF CleanUnlock
<1>24. ASSUME NEW s \in Sids, CleanRecheck(s) PROVE RequestTypes'
  BY <1>24 DEF CleanRecheck, StillExpired
<1>25. CASE UNCHANGED sessionVars
  BY <1>25 DEF sessionVars
<1>26. QED
  BY <1>1, <1>2, <1>3, <1>4, <1>5, <1>6, <1>7, <1>8, <1>9, <1>10, <1>11, <1>12, <1>13,
     <1>14, <1>15, <1>16, <1>17, <1>18, <1>19, <1>20, <1>21, <1>22, <1>23, <1>24, <1>25 DEF SessionNext

\* No step gives up a session that has to be found: what removes a session from the
\* map had found it expired, and time only moves on.
LEMMA KeptPreserved ==
    ASSUME Types, Kept, [SessionNext]_sessionVars
    PROVE  Kept'
<1> USE SessionAssumption, SidsNumbers DEF Types, StoreTypes, CleanerTypes, RequestTypes, Issued, SessionSteps, OnSession, Kept, Doomed
<1>1. CASE NewSessionMemory
  BY <1>1 DEF NewSessionMemory, TokenPair, MapFree
<1>2. CASE NewSessionRedis
  BY <1>2 DEF NewSessionRedis, TokenPair
<1>3. CASE SessionTick
  BY <1>3 DEF SessionTick
<1>4. ASSUME NEW h \in Handlers, NEW s \in Sids, NEW kind \in {"access", "refresh"}, Middleware(h, s, kind)
       PROVE  Kept'
  BY <1>4 DEF Middleware, Request, Verified
<1>5. ASSUME NEW h \in Handlers, NEW s \in Sids, NEW kind \in {"access", "refresh"}, OptionalMiddleware(h, s, kind)
       PROVE  Kept'
  BY <1>5 DEF OptionalMiddleware, Request, IdleRequest, Verified
<1>6. ASSUME NEW h \in Handlers, NEW s \in Sids, NEW kind \in {"access", "refresh"}, DestroyMemory(h, s, kind)
       PROVE  Kept'
  BY <1>6, EarlyShape DEF DestroyMemory
<1>7. ASSUME NEW h \in Handlers, NEW s \in Sids, NEW kind \in {"access", "refresh"}, DestroyRedis(h, s, kind)
       PROVE  Kept'
  BY <1>7 DEF DestroyRedis, Request
<1>8. ASSUME NEW h \in Handlers, NEW s \in Sids, NEW kind \in {"access", "refresh"}, RenewCheck(h, s, kind)
       PROVE  Kept'
  BY <1>8 DEF RenewCheck, Request
<1>9. ASSUME NEW h \in Handlers, GetLookup(h) PROVE Kept'
  BY <1>9 DEF GetLookup
<1>10. ASSUME NEW h \in Handlers, GetTouch(h) PROVE Kept'
  BY <1>10 DEF GetTouch
<1>11. ASSUME NEW h \in Handlers, GetEvict(h) PROVE Kept'
  BY <1>11 DEF GetEvict
<1>12. ASSUME NEW h \in Handlers, GetExists(h) PROVE Kept'
  BY <1>12 DEF GetExists
<1>13. ASSUME NEW h \in Handlers, EnsureUserContext(h) PROVE Kept'
  BY <1>13 DEF EnsureUserContext
<1>14. ASSUME NEW h \in Handlers, HandlerEnds(h) PROVE Kept'
  BY <1>14 DEF HandlerEnds, IdleRequest
<1>15. ASSUME NEW h \in Handlers, SetHash(h) PROVE Kept'
  BY <1>15 DEF SetHash, Fields, Live, Revive
<1>16. ASSUME NEW h \in Handlers, SetExpire(h) PROVE Kept'
  BY <1>16 DEF SetExpire, Extended, IdleRequest
<1>17. ASSUME NEW h \in Handlers, DelField(h) PROVE Kept'
  BY <1>17 DEF DelField, IdleRequest, Fields, Live
<1>18. ASSUME NEW h \in Handlers, SessionDestroy(h) PROVE Kept'
  BY <1>18 DEF SessionDestroy, Early, IdleRequest
<1>19. ASSUME NEW h \in Handlers, RenewWrite(h) PROVE Kept'
  BY <1>19 DEF RenewWrite, Extended, IdleRequest, Revive
<1>20. CASE CleanCollect
  BY <1>20 DEF CleanCollect
<1>21. CASE CleanLock
  BY <1>21 DEF CleanLock
<1>22. CASE CleanDelete
  BY <1>22 DEF CleanDelete
<1>23. CASE CleanUnlock
  BY <1>23 DEF CleanUnlock
<1>24. ASSUME NEW s \in Sids, CleanRecheck(s) PROVE Kept'
  BY <1>24 DEF CleanRecheck, StillExpired
<1>25. CASE UNCHANGED sessionVars
  BY <1>25 DEF sessionVars
<1> HIDE DEF Types, StoreTypes, CleanerTypes, RequestTypes, Issued, SessionSteps, OnSession, Kept, Doomed
<1>26. QED
  BY <1>1, <1>2, <1>3, <1>4, <1>5, <1>6, <1>7, <1>8, <1>9, <1>10, <1>11, <1>12, <1>13,
     <1>14, <1>15, <1>16, <1>17, <1>18, <1>19, <1>20, <1>21, <1>22, <1>23, <1>24, <1>25 DEF SessionNext

\* No step lets a request that began after a Destroy find the session again, except
\* through the writes that revive it.
LEMMA OutPreserved ==
    ASSUME Types, Out, [SessionNext]_sessionVars
    PROVE  Out'
<1> USE SessionAssumption, SidsNumbers DEF Types, StoreTypes, CleanerTypes, RequestTypes, Issued, SessionSteps, OnSession, Out
<1>1. CASE NewSessionMemory
  BY <1>1 DEF NewSessionMemory, TokenPair, MapFree
<1>2. CASE NewSessionRedis
  BY <1>2 DEF NewSessionRedis, TokenPair
<1>3. CASE SessionTick
  <2>1. time' = time + 1 /\ UNCHANGED <<store, stored, hash, expireTime, destroyed, revived, req>>
    BY <1>3 DEF SessionTick
  <2>2. \A s \in Sids : time > expireTime[s] => time + 1 > expireTime[s]
    OBVIOUS
  <2>3. QED
    BY <2>1, <2>2
<1>4. ASSUME NEW h \in Handlers, NEW s \in Sids, NEW kind \in {"access", "refresh"}, Middleware(h, s, kind)
       PROVE  Out'
  BY <1>4 DEF Middleware, Request, Verified
<1>5. ASSUME NEW h \in Handlers, NEW s \in Sids, NEW kind \in {"access", "refresh"}, OptionalMiddleware(h, s, kind)
       PROVE  Out'
  BY <1>5 DEF OptionalMiddleware, Request, IdleRequest, Verified
<1>6. ASSUME NEW h \in Handlers, NEW s \in Sids, NEW kind \in {"access", "refresh"}, DestroyMemory(h, s, kind)
       PROVE  Out'
  BY <1>6 DEF DestroyMemory, Early, MapFree
<1>7. ASSUME NEW h \in Handlers, NEW s \in Sids, NEW kind \in {"access", "refresh"}, DestroyRedis(h, s, kind)
       PROVE  Out'
  BY <1>7 DEF DestroyRedis, Request
<1>8. ASSUME NEW h \in Handlers, NEW s \in Sids, NEW kind \in {"access", "refresh"}, RenewCheck(h, s, kind)
       PROVE  Out'
  BY <1>8 DEF RenewCheck, Request
<1>9. ASSUME NEW h \in Handlers, GetLookup(h) PROVE Out'
  BY <1>9 DEF GetLookup
<1>10. ASSUME NEW h \in Handlers, GetTouch(h) PROVE Out'
  BY <1>10 DEF GetTouch
<1>11. ASSUME NEW h \in Handlers, GetEvict(h) PROVE Out'
  BY <1>11 DEF GetEvict
<1>12. ASSUME NEW h \in Handlers, GetExists(h) PROVE Out'
  BY <1>12 DEF GetExists, Live
<1>13. ASSUME NEW h \in Handlers, EnsureUserContext(h) PROVE Out'
  BY <1>13 DEF EnsureUserContext
<1>14. ASSUME NEW h \in Handlers, HandlerEnds(h) PROVE Out'
  BY <1>14 DEF HandlerEnds, IdleRequest
<1>15. ASSUME NEW h \in Handlers, SetHash(h) PROVE Out'
  BY <1>15 DEF SetHash, Fields, Live, Revive
<1>16. ASSUME NEW h \in Handlers, SetExpire(h) PROVE Out'
  BY <1>16 DEF SetExpire, Extended, IdleRequest
<1>17. ASSUME NEW h \in Handlers, DelField(h) PROVE Out'
  BY <1>17 DEF DelField, IdleRequest, Fields, Live
<1>18. ASSUME NEW h \in Handlers, SessionDestroy(h) PROVE Out'
  BY <1>18 DEF SessionDestroy, Early, IdleRequest
<1>19. ASSUME NEW h \in Handlers, RenewWrite(h) PROVE Out'
  BY <1>19, ZenonT(40) DEF RenewWrite, Extended, IdleRequest, Revive
<1>20. CASE CleanCollect
  BY <1>20 DEF CleanCollect
<1>21. CASE CleanLock
  BY <1>21 DEF CleanLock
<1>22. CASE CleanDelete
  BY <1>22 DEF CleanDelete
<1>23. CASE CleanUnlock
  BY <1>23 DEF CleanUnlock
<1>24. ASSUME NEW s \in Sids, CleanRecheck(s) PROVE Out'
  BY <1>24 DEF CleanRecheck, StillExpired
<1>25. CASE UNCHANGED sessionVars
  BY <1>25 DEF sessionVars
<1> HIDE DEF Types, StoreTypes, CleanerTypes, RequestTypes, Issued, SessionSteps, OnSession, Out
<1>26. QED
  BY <1>1, <1>2, <1>3, <1>4, <1>5, <1>6, <1>7, <1>8, <1>9, <1>10, <1>11, <1>12, <1>13,
     <1>14, <1>15, <1>16, <1>17, <1>18, <1>19, <1>20, <1>21, <1>22, <1>23, <1>24, <1>25 DEF SessionNext

\* Nothing is stored, and nobody has asked for anything.
LEMMA SessionStarts ==
    ASSUME SessionInit
    PROVE  SessionInv
<1> USE SessionAssumption DEF SessionInit
<1>1. Types
  BY SidsNumbers DEF Types, StoreTypes, CleanerTypes, RequestTypes, Issued, SessionSteps, OnSession, IdleRequest
<1>2. Kept /\ Out
  BY DEF Kept, Out, Sids, IdleRequest, OnSession
<1>3. QED
  BY <1>1, <1>2 DEF SessionInv

\* SessionInv is an invariant of Requests.
LEMMA SessionInvariant == RequestsSpec => []SessionInv
<1>1. RequestsInit => SessionInv
  BY SessionStarts DEF RequestsInit
<1>2. SessionInv /\ [RequestsNext]_requestVars => SessionInv'
  BY SessionStep, StoreTypesPreserved, CleanerTypesPreserved, RequestTypesPreserved, KeptPreserved, OutPreserved DEF SessionInv, Types
<1>3. QED
  BY <1>1, <1>2, PTL DEF RequestsSpec

\* A session that Get renewed stays in the map until it expires again, for any
\* number of requests, sessions and passes of cleanExpiredSessions.
THEOREM RenewalsKept == RequestsSpec => []RenewalNotLost
<1>1. SessionInv => RenewalNotLost
  <2> SUFFICES ASSUME SessionInv, NEW s \in 1..issued, time <= assured[s], assured[s] > 0
               PROVE  s \in stored
    BY DEF RenewalNotLost
  <2>1. s \in Sids
    BY SessionAssumption DEF SessionInv, Types, StoreTypes, Sids
  <2>2. QED
    BY <2>1 DEF SessionInv, Kept
<1>2. QED
  BY <1>1, SessionInvariant, PTL

\* A request that begins after a Destroy does not find the session, except one
\* that RenewToken or Set has revived; in Redis that one has no user.
THEOREM DestroyedSessionsStayOut == RequestsSpec => []DestroyedStaysOut
<1>1. SessionInv => DestroyedStaysOut
  BY DEF SessionInv, Types, StoreTypes, RequestTypes, Out, DestroyedStaysOut, OnSession, Fields
<1>2. QED
  BY <1>1, SessionInvariant, PTL

\* The rest of the types: the clock's bound, the times to live in Redis, and that a
\* request never has a session that was not issued, also where it no longer uses it.
SessionBounds ==
    /\ time <= MaxTime /\ ttl \in [Sids -> Int]
    /\ \A h \in Handlers : req[h].sid <= issued

\* Every step keeps the bounds.
LEMMA SessionBoundsPreserved ==
    ASSUME Types, SessionBounds, [SessionNext]_sessionVars
    PROVE  SessionBounds'
<1>0. Sids \union {0} \subseteq Nat
  BY SidsNumbers
<1> USE SessionAssumption, SidsNumbers DEF Types, StoreTypes, RequestTypes, SessionSteps, OnSession, SessionBounds
<1>1. CASE NewSessionMemory
  <2>1. req' = req /\ issued' = issued + 1 /\ time' = time
    BY <1>1 DEF NewSessionMemory
  <2>2. ASSUME NEW h \in Handlers PROVE req[h].sid <= issued + 1
    <3>1. req[h].sid \in Nat /\ req[h].sid <= issued
      <4>1. req[h].sid \in Sids \union {0}
        OBVIOUS
      <4>2. req[h].sid \in Nat
        BY ONLY <1>0, <4>1
      <4> QED
        BY <4>2 DEF SessionBounds
    <3> QED
      BY <3>1
  <2>3. ttl' \in [Sids -> Int]
    BY <1>1 DEF NewSessionMemory
  <2> QED
    BY <2>1, <2>2, <2>3
<1>2. CASE NewSessionRedis
  <2>1. req' = req /\ issued' = issued + 1 /\ time' = time
    BY <1>2 DEF NewSessionRedis
  <2>2. ASSUME NEW h \in Handlers PROVE req[h].sid <= issued + 1
    <3>1. req[h].sid \in Nat /\ req[h].sid <= issued
      <4>1. req[h].sid \in Sids \union {0}
        OBVIOUS
      <4>2. req[h].sid \in Nat
        BY ONLY <1>0, <4>1
      <4> QED
        BY <4>2 DEF SessionBounds
    <3> QED
      BY <3>1
  <2>3. ttl' \in [Sids -> Int]
    BY <1>2 DEF NewSessionRedis
  <2> QED
    BY <2>1, <2>2, <2>3
<1>3. CASE SessionTick
  BY <1>3 DEF SessionTick
<1>4. ASSUME NEW h \in Handlers, NEW s \in Sids, NEW kind \in {"access", "refresh"}, Middleware(h, s, kind) PROVE SessionBounds'
  BY <1>4 DEF Middleware, Request
<1>5. ASSUME NEW h \in Handlers, NEW s \in Sids, NEW kind \in {"access", "refresh"}, OptionalMiddleware(h, s, kind) PROVE SessionBounds'
  <2>1. CASE Verified(s, kind)
    BY <1>5, <2>1 DEF OptionalMiddleware, Request
  <2>2. CASE ~Verified(s, kind)
    BY <1>5, <2>2 DEF OptionalMiddleware, IdleRequest
  <2> QED
    BY <2>1, <2>2
<1>6. ASSUME NEW h \in Handlers, NEW s \in Sids, NEW kind \in {"access", "refresh"}, DestroyMemory(h, s, kind) PROVE SessionBounds'
  BY <1>6, EarlyShape DEF DestroyMemory
<1>7. ASSUME NEW h \in Handlers, NEW s \in Sids, NEW kind \in {"access", "refresh"}, DestroyRedis(h, s, kind) PROVE SessionBounds'
  BY <1>7 DEF DestroyRedis, Request
<1>8. ASSUME NEW h \in Handlers, NEW s \in Sids, NEW kind \in {"access", "refresh"}, RenewCheck(h, s, kind) PROVE SessionBounds'
  BY <1>8 DEF RenewCheck, Request
<1>9. ASSUME NEW h \in Handlers, GetLookup(h) PROVE SessionBounds'
  BY <1>9 DEF GetLookup
<1>10. ASSUME NEW h \in Handlers, GetTouch(h) PROVE SessionBounds'
  BY <1>10 DEF GetTouch
<1>11. ASSUME NEW h \in Handlers, GetEvict(h) PROVE SessionBounds'
  BY <1>11 DEF GetEvict
<1>12. ASSUME NEW h \in Handlers, GetExists(h) PROVE SessionBounds'
  BY <1>12 DEF GetExists
<1>13. ASSUME NEW h \in Handlers, EnsureUserContext(h) PROVE SessionBounds'
  BY <1>13 DEF EnsureUserContext
<1>14. ASSUME NEW h \in Handlers, HandlerEnds(h) PROVE SessionBounds'
  BY <1>14 DEF HandlerEnds, IdleRequest
<1>15. ASSUME NEW h \in Handlers, SetHash(h) PROVE SessionBounds'
  BY <1>15 DEF SetHash, NoTTL
<1>16. ASSUME NEW h \in Handlers, SetExpire(h) PROVE SessionBounds'
  BY <1>16 DEF SetExpire, Extended, IdleRequest
<1>17. ASSUME NEW h \in Handlers, DelField(h) PROVE SessionBounds'
  BY <1>17 DEF DelField, IdleRequest
<1>18. ASSUME NEW h \in Handlers, SessionDestroy(h) PROVE SessionBounds'
  <2> DEFINE r == [req EXCEPT ![h] = IdleRequest]
  <2>1. r \in [Handlers -> [at : SessionSteps, sid : Sids \union {0}, late : BOOLEAN]]
    BY DEF IdleRequest
  <2>2. \A g \in Handlers : r[g].sid <= issued
    BY DEF IdleRequest
  <2>3. req' = Early(r, req[h].sid) /\ UNCHANGED <<issued, time, ttl>>
    BY <1>18 DEF SessionDestroy
  <2> HIDE DEF r
  <2> QED
    BY <2>1, <2>2, <2>3, EarlyShape
<1>19. ASSUME NEW h \in Handlers, RenewWrite(h) PROVE SessionBounds'
  BY <1>19 DEF RenewWrite, Extended, IdleRequest
<1>20. CASE CleanCollect
  BY <1>20 DEF CleanCollect
<1>21. CASE CleanLock
  BY <1>21 DEF CleanLock
<1>22. CASE CleanDelete
  BY <1>22 DEF CleanDelete
<1>23. CASE CleanUnlock
  BY <1>23 DEF CleanUnlock
<1>24. ASSUME NEW s \in Sids, CleanRecheck(s) PROVE SessionBounds'
  BY <1>24 DEF CleanRecheck
<1>25. CASE UNCHANGED sessionVars
  BY <1>25 DEF sessionVars
<1> QED
  BY <1>1, <1>2, <1>3, <1>4, <1>5, <1>6, <1>7, <1>8, <1>9, <1>10, <1>11, <1>12, <1>13, <1>14, <1>15, <1>16, <1>17, <1>18, <1>19, <1>20, <1>21, <1>22, <1>23, <1>24, <1>25 DEF SessionNext

\* The type invariant of sessions, in the composition Requests.
LEMMA SessionTypesHold == RequestsSpec => []SessionTypeOK
<1>1. RequestsInit => SessionBounds
  BY SessionAssumption DEF RequestsInit, SessionInit, SessionBounds, IdleRequest, NoTTL
<1>2. SessionInv /\ SessionBounds /\ [RequestsNext]_requestVars => SessionBounds'
  BY SessionStep, SessionBoundsPreserved DEF SessionInv
<1>3. SessionInv /\ SessionBounds => SessionTypeOK
  <2> SUFFICES ASSUME SessionInv, SessionBounds PROVE SessionTypeOK
    OBVIOUS
  <2> USE SessionAssumption, SidsNumbers DEF SessionInv, Types, SessionBounds, Sids
  <2>1. time \in 0..MaxTime /\ issued \in 0..MaxSessions /\ stored \subseteq 1..issued
    BY DEF StoreTypes, Issued
  <2>2. \A h \in Handlers : req[h].sid \in 0..issued
    BY DEF StoreTypes, RequestTypes
  <2>3. \A s \in Sids : hash[s] \subseteq {"user_id", "role", "note"} /\ ttl[s] \in Int
    BY DEF StoreTypes
  <2>4. cleaner.ids \union cleaner.doomed \subseteq 1..issued
    BY DEF CleanerTypes, Issued, StoreTypes
  <2> QED
    BY <2>1, <2>2, <2>3, <2>4 DEF SessionTypeOK
<1> QED
  BY <1>1, <1>2, <1>3, SessionInvariant, PTL DEF RequestsSpec

----------------------------------------------------------------------------
(* The chain of middlewares *)

ThreadSteps ==
    {"none", "next", "active", "filter", "timeout", "handler", "select", "return", "panic", "done", "panicked"}
Middlewares == {"active", "filter", "timeout"}

ThreadStates ==
    [at : ThreadSteps, on : Contexts \union {Nobody}, for : Calls \union {Nobody},
     frames : Seq(Middlewares), child : Goroutines \union {Nobody}]

PipelineTypes ==
    /\ call \in [Calls -> [at : {"new", "serving", "answered"}, attr : Attributes]]
    /\ owner \in [Contexts -> Calls \union {Nobody}] /\ index \in [Contexts -> 0..End]
    /\ thread \in [Threads -> ThreadStates]
    /\ gauge \in [{"active", "filter"} -> Int]
    /\ timedOut \subseteq Calls /\ haunted \subseteq Calls /\ spoiled \subseteq Calls
    /\ ran \in [Calls -> 0..2]

\* A goroutine has a context; one that serves another request haunts it, and was
\* left behind by a deadline unless it is haunted itself.
HostedBy(T) ==
    /\ T.on \in Contexts /\ T.for \in Calls /\ owner[T.on] \in Calls /\ call[T.for].at # "new"
    /\ owner[T.on] = T.for \/ (owner[T.on] \in haunted /\ T.for \in haunted \union timedOut)

\* The depth of the loops.
Deep(T) ==
    /\ Len(T.frames) <= MaxDepth
    /\ T.at \in {"active", "filter", "timeout", "handler"} => Len(T.frames) < MaxDepth
    /\ T.at = "select" => T.child \in Goroutines

Hosted ==
    \A t \in Threads :
        /\ Alive(t) => HostedBy(thread[t])
        /\ ~Alive(t) => thread[t].frames = <<>>
        /\ Deep(thread[t])

\* The goroutine of the request itself.
Served ==
    /\ \A r \in Calls :
        /\ call[r].at = "new" => thread[r].at = "none" /\ ran[r] = 0
        /\ call[r].at = "serving" => Alive(r) /\ thread[r].for = r /\ owner[thread[r].on] = r
        /\ call[r].at = "answered" => ~Alive(r)
    /\ \A k \in Contexts : owner[k] \in Calls => call[owner[k]].at # "new"
    /\ \A k, j \in Contexts : owner[k] \in Calls /\ owner[k] = owner[j] => k = j

\* Where the goroutine t may be while the index of its context is i.
Fits(t, T, i) ==
    /\ T.at = "active" => i = 1 /\ T.frames = <<>>
    /\ T.at = "filter" => i = 2
    /\ T.at = "timeout" => i = 3
    /\ T.at = "select" => i >= 3
    /\ T.at \in {"handler", "return", "panic"} => i >= 4
    /\ T.at = "next" /\ i = 0 => T.frames = <<>>
    /\ T.at = "next" /\ i = 2 => Admitted(call[T.for].attr)
    /\ t \in Calls /\ (T.at \in {"filter", "timeout", "handler", "select"} \/ (T.at = "next" /\ i \in 1..3))
         => T.frames # <<>> /\ T.frames[1] = "active"
    /\ t \in Goroutines => i >= 3 /\ T.at \notin {"active", "filter", "timeout", "select"}

\* The chain of a request that is not haunted is run once, in order.
InOrder(k) ==
    /\ index[k] <= 3 => ran[owner[k]] = 0
    /\ index[k] \in {3, 4} => Admitted(call[owner[k]].attr)
    /\ \A t \in Threads : Alive(t) /\ thread[t].on = k => Fits(t, thread[t], index[k])

\* Its goroutine is the one it waits for, or met a deadline.
Joined(k) ==
    /\ \A g \in Goroutines : Alive(g) /\ thread[g].on = k =>
          \/ thread[owner[k]].at = "select" /\ thread[owner[k]].child = g
          \/ owner[k] \in timedOut /\ index[k] = End
    /\ thread[owner[k]].at = "select" =>
          /\ thread[thread[owner[k]].child].at # "none"
          /\ Alive(thread[owner[k]].child) => thread[thread[owner[k]].child].on = k
          /\ ~Alive(thread[owner[k]].child) => index[k] >= 4

Unhaunted == {k \in Contexts : owner[k] \in Calls \ haunted}

Chained == \A k \in Unhaunted : InOrder(k) /\ Joined(k)

Answers ==
    /\ haunted # {} => timedOut # {}
    /\ spoiled \subseteq haunted
    /\ \A r \in Calls \ haunted : ran[r] = 0 \/ (ran[r] = 1 /\ Admitted(call[r].attr))

ServingInv == PipelineTypes /\ Hosted /\ Served /\ Chained /\ Answers

\* What is past activelimit: it stays until its turn to leave.
Busy == {p \in Inside("active") : ~(p[2] = Len(thread[p[1]].frames) /\ thread[p[1]].at = "return")}

GaugesExact ==
    /\ \A f \in {"active", "filter"} : gauge[f] = Cardinality(Inside(f))
    /\ Cardinality(Busy) <= MaxActive

PipelineInv == ServingInv /\ GaugesExact

\* The chain has four members.
LEMMA ChainIs ==
    /\ End = 5 /\ Chain[1] = "active" /\ Chain[2] = "filter" /\ Chain[3] = "timeout" /\ Chain[4] = "handler"
BY DEF End, Chain

\* A goroutine that has not begun, and one that has ended.
LEMMA NoThreads ==
    /\ NoThread \in ThreadStates /\ NoThread.at = "none" /\ NoThread.frames = <<>>
    /\ \A how \in {"done", "panicked"} :
        [NoThread EXCEPT !.at = how] \in ThreadStates /\ [NoThread EXCEPT !.at = how].at = how /\ [NoThread EXCEPT !.at = how].frames = <<>>
    /\ \A k \in Contexts, r \in Calls :
        LET T == [NoThread EXCEPT !.at = "next", !.on = k, !.for = r] IN
        T \in ThreadStates /\ T.at = "next" /\ T.on = k /\ T.for = r /\ T.frames = <<>> /\ T.child = Nobody
<1>1. <<>> \in Seq(Middlewares)
  OBVIOUS
<1> QED  BY <1>1 DEF NoThread, ThreadStates, ThreadSteps

\* The fields of a goroutine.
LEMMA ThreadFields ==
    ASSUME PipelineTypes, NEW t \in Threads
    PROVE  /\ thread[t] \in ThreadStates /\ thread[t].at \in ThreadSteps
           /\ thread[t].frames \in Seq(Middlewares) /\ Len(thread[t].frames) \in Nat
BY DEF PipelineTypes, ThreadStates

\* One goroutine goes on.
LEMMA Moving ==
    ASSUME PipelineTypes, NEW t \in Threads, NEW T \in ThreadStates, thread' = [thread EXCEPT ![t] = T]
    PROVE  /\ thread' \in [Threads -> ThreadStates] /\ thread'[t] = T
           /\ \A u \in Threads : u # t => thread'[u] = thread[u]
BY DEF PipelineTypes

\* A call begins no goroutine but its own.
LEMMA CallsApart == Calls \subseteq Threads /\ Goroutines \subseteq Threads /\ \A r \in Calls : r \notin Goroutines /\ r # Nobody
BY PipelineAssumption DEF Threads

\* The goroutine t goes on as T, and the index of its context becomes i.
GoesOn(t, T, i) ==
    /\ Alive(t) /\ T \in ThreadStates /\ T.at \notin {"none", "done", "panicked", "select"}
    /\ T.on = thread[t].on /\ T.for = thread[t].for /\ Deep(T)
    /\ thread' = [thread EXCEPT ![t] = T]
    /\ i \in 0..End /\ index' = [index EXCEPT ![thread[t].on] = i]
    /\ timedOut \subseteq timedOut' /\ timedOut' \subseteq Calls
    /\ UNCHANGED <<call, owner, haunted>>

\* It goes on with the chain of a request that is not haunted.
InTurn(t, T, i) ==
    LET k == thread[t].on r == owner[k] IN
    /\ i >= index[k]
    /\ i <= 3 => ran'[r] = 0
    /\ i \in {3, 4} => Admitted(call[r].attr)
    /\ Fits(t, T, i)
    /\ thread[t].at = "select" => ~Alive(thread[t].child) \/ (i = End /\ r \in timedOut')

\* The host of a goroutine.
LEMMA HostFields ==
    ASSUME Hosted, NEW t \in Threads, Alive(t)
    PROVE  /\ thread[t].on \in Contexts /\ thread[t].for \in Calls /\ owner[thread[t].on] \in Calls
           /\ thread[t].for = owner[thread[t].on] \/ owner[thread[t].on] \in haunted
BY DEF Hosted, HostedBy

\* Whoever goes on keeps its context.
LEMMA GoesOnHosted ==
    ASSUME PipelineTypes, Hosted, Served, NEW t \in Threads, NEW T, NEW i, GoesOn(t, T, i),
           \A r \in Calls : ran'[r] # ran[r] => r = owner[thread[t].on]
    PROVE  /\ Hosted' /\ Served' /\ thread' \in [Threads -> ThreadStates] /\ index' \in [Contexts -> 0..End]
<1>1. /\ thread' \in [Threads -> ThreadStates] /\ thread'[t] = T
      /\ \A u \in Threads : u # t => thread'[u] = thread[u]
  BY Moving DEF GoesOn
<1>2. index' \in [Contexts -> 0..End]
  BY HostFields DEF GoesOn, PipelineTypes
<1>3. \A u \in Threads : Alive(u)' <=> Alive(u)
  BY <1>1 DEF Alive, GoesOn
<1>4. Hosted'
  <2> SUFFICES ASSUME NEW u \in Threads
               PROVE  /\ Alive(u)' => HostedBy(thread[u])'
                      /\ ~Alive(u)' => thread'[u].frames = <<>>
                      /\ Deep(thread'[u])
    BY DEF Hosted, Deep
  <2>1. CASE u # t
    BY <1>1, <1>3, <2>1 DEF Hosted, HostedBy, GoesOn
  <2>2. CASE u = t
    <3>1. HostedBy(thread[t]) /\ Alive(t)' /\ thread'[t] = T /\ Deep(T)
      BY <1>1, <1>3 DEF Hosted, GoesOn
    <3>2. HostedBy(T)'
      BY <3>1 DEF HostedBy, GoesOn
    <3> QED  BY <2>2, <3>1, <3>2
  <2> QED  BY <2>1, <2>2
<1>5. Served'
  <2>1. UNCHANGED <<call, owner>> /\ T.on = thread[t].on /\ T.for = thread[t].for
    BY DEF GoesOn
  <2>2. ASSUME NEW r \in Calls
        PROVE  /\ call'[r].at = "new" => thread'[r].at = "none" /\ ran'[r] = 0
               /\ call'[r].at = "serving" => Alive(r)' /\ thread'[r].for = r /\ owner'[thread'[r].on] = r
               /\ call'[r].at = "answered" => ~Alive(r)'
    <3>0. r \in Threads
      BY CallsApart
    <3>1. call[r].at = "new" => ~Alive(r) /\ r # owner[thread[t].on]
      BY HostFields DEF Served, GoesOn, Alive
    <3>2. call[r].at = "new" => r # t /\ ran'[r] = ran[r]
      BY <3>1 DEF GoesOn
    <3>3. thread'[r].on = thread[r].on /\ thread'[r].for = thread[r].for
      BY <1>1, <2>1, <3>0
    <3> QED  BY <1>1, <1>3, <2>1, <3>0, <3>2, <3>3 DEF Served
  <2> QED  BY <2>1, <2>2 DEF Served
<1> QED  BY <1>1, <1>2, <1>4, <1>5

\* The goroutine of a request is alone among them on its context.
LEMMA OneMain ==
    ASSUME PipelineTypes, Hosted, Served, NEW k \in Unhaunted, NEW r \in Calls, Alive(r), thread[r].on = k
    PROVE  r = owner[k]
<1>1. r \in Threads
  BY CallsApart
<1>2. call[r].at = "serving"
  BY DEF PipelineTypes, Served, Alive
<1> QED  BY <1>2 DEF Served

\* Whoever goes on in its turn keeps the order.
LEMMA GoesOnChained ==
    ASSUME PipelineTypes, Hosted, Served, Chained, NEW t \in Threads, NEW T, NEW i, GoesOn(t, T, i),
           \A r \in Calls : ran'[r] # ran[r] => r = owner[thread[t].on],
           thread[t].on \in Unhaunted => InTurn(t, T, i)
    PROVE  Chained'
<1> DEFINE k == thread[t].on
<1>0. /\ thread'[t] = T /\ \A u \in Threads : u # t => thread'[u] = thread[u]
      /\ \A u \in Threads : (Alive(u)' <=> Alive(u)) /\ thread'[u].on = thread[u].on
  <2>1. thread'[t] = T /\ \A u \in Threads : u # t => thread'[u] = thread[u]
    BY Moving DEF GoesOn
  <2> QED  BY <2>1 DEF Alive, GoesOn
<1>1. /\ UNCHANGED <<call, owner, haunted>> /\ Unhaunted' = Unhaunted /\ timedOut \subseteq timedOut'
      /\ k \in Contexts /\ index'[k] = i /\ \A j \in Contexts : j # k => index'[j] = index[j]
  BY HostFields DEF GoesOn, Unhaunted, PipelineTypes
<1> SUFFICES ASSUME NEW j \in Unhaunted PROVE InOrder(j)' /\ Joined(j)'
  BY <1>1 DEF Chained
<1>2. j \in Contexts /\ owner[j] \in Calls /\ owner[j] \in Threads /\ InOrder(j) /\ Joined(j)
  BY CallsApart DEF Unhaunted, Chained
<1>3. CASE j # k
  <2>1. index'[j] = index[j] /\ owner[j] # owner[k] /\ ran'[owner[j]] = ran[owner[j]] /\ owner'[j] = owner[j]
    BY <1>1, <1>2, <1>3 DEF Served
  <2>2. ASSUME NEW u \in Threads, Alive(u), thread[u].on = j PROVE thread'[u] = thread[u]
    BY <1>0, <1>3, <2>2
  <2>3. InOrder(j)'
    <3> SUFFICES ASSUME NEW u \in Threads, Alive(u)', thread'[u].on = j PROVE Fits(u, thread[u], index[j])'
      BY <1>1, <1>2, <2>1 DEF InOrder
    <3>1. Alive(u) /\ thread[u].on = j
      BY <1>0
    <3>2. Fits(u, thread[u], index[j]) /\ thread'[u] = thread[u]
      BY <1>2, <2>2, <3>1 DEF InOrder
    <3> QED  BY <1>1, <2>1, <3>2 DEF Fits
  <2>5. thread'[owner[j]] = thread[owner[j]] /\ owner[j] # t
    <3>1. Alive(t)
      BY DEF GoesOn
    <3>2. owner[j] = t => thread[t].on = j
      <4>1. owner[j] = t => call[t].at = "serving" /\ thread[t].on \in Contexts
        BY <1>1, <1>2, <3>1 DEF PipelineTypes, Served, Alive
      <4> QED  BY <1>2, <4>1 DEF Served
    <3> QED  BY <1>0, <1>2, <1>3, <3>2
  <2>6. Joined(j)'
    <3>1. ASSUME NEW g \in Goroutines, Alive(g)', thread'[g].on = j
          PROVE  \/ thread'[owner'[j]].at = "select" /\ thread'[owner'[j]].child = g
                 \/ owner'[j] \in timedOut' /\ index'[j] = End
      BY <1>0, <1>1, <1>2, <2>1, <2>5, <3>1, CallsApart DEF Joined
    <3>2. ASSUME NEW c, c = thread'[owner[j]].child, thread'[owner[j]].at = "select"
          PROVE  /\ thread'[c].at # "none" /\ (Alive(c)' => thread'[c].on = j) /\ (~Alive(c)' => index'[j] >= 4)
      <4>1. thread[owner[j]].child = c /\ thread[owner[j]].at = "select" /\ c \in Threads
        BY <1>2, <2>5, <3>2, CallsApart DEF Hosted, Deep
      <4>2. thread[c].at # "none" /\ (Alive(c) => thread[c].on = j) /\ (~Alive(c) => index[j] >= 4)
        BY <1>2, <4>1 DEF Joined
      <4>3. thread'[c].at # "none"
        BY <1>0, <4>1, <4>2 DEF GoesOn
      <4> QED  BY <1>0, <2>1, <4>1, <4>2, <4>3
    <3> QED  BY <2>1, <3>1, <3>2 DEF Joined
  <2> QED  BY <2>3, <2>6
<1>4. CASE j = k
  <2> DEFINE r == owner[k]
  <2>0. InTurn(t, T, i) /\ index'[k] = i /\ owner'[k] = r /\ r \in Calls /\ index[k] \in 0..5 /\ i \in 0..5 /\ i >= index[k]
    BY <1>1, <1>2, <1>4, ChainIs DEF GoesOn, InTurn, PipelineTypes
  <2>1. ASSUME NEW u \in Threads, Alive(u), thread[u].on = k, u # t PROVE Fits(u, thread[u], i)
    <3>1. Fits(u, thread[u], index[k])
      BY <1>2, <1>4, <2>1 DEF InOrder
    <3>2. CASE u \in Goroutines
      BY <2>0, <3>1, <3>2, CallsApart DEF Fits
    <3>3. CASE u \in Calls
      <4>1. u = r /\ t \notin Calls
        BY <1>4, <2>1, <3>3, OneMain DEF GoesOn
      <4>2. t \in Goroutines /\ Alive(t)
        BY <4>1 DEF Threads, GoesOn
      <4>3. thread[u].at = "select" \/ index[k] = End
        BY <1>2, <1>4, <4>1, <4>2 DEF Joined
      <4>4. CASE index[k] = End
        <5>1. i = index[k]
          BY <2>0, <4>4, ChainIs
        <5> QED  BY <3>1, <5>1
      <4>5. CASE thread[u].at = "select"
        BY <2>0, <3>1, <4>5 DEF Fits
      <4> QED  BY <4>3, <4>4, <4>5
    <3> QED  BY <3>2, <3>3 DEF Threads
  <2>2. InOrder(j)'
    <3>1. ASSUME NEW u \in Threads, Alive(u)', thread'[u].on = k PROVE Fits(u, thread[u], index[j])'
      <4>1. CASE u = t
        BY <1>0, <1>1, <1>4, <2>0, <4>1 DEF InTurn, Fits
      <4>2. CASE u # t
        <5>1. Alive(u) /\ thread[u].on = k /\ thread'[u] = thread[u]
          BY <1>0, <3>1, <4>2
        <5>2. Fits(u, thread[u], i)
          BY <2>1, <4>2, <5>1
        <5> QED  BY <1>1, <1>4, <5>1, <5>2 DEF Fits
      <4> QED  BY <4>1, <4>2
    <3>2. (i <= 3 => ran'[r] = 0) /\ (i \in {3, 4} => Admitted(call[r].attr))
      BY <2>0 DEF InTurn
    <3> QED  BY <1>1, <1>4, <2>0, <3>1, <3>2 DEF InOrder
  <2>3. thread'[r] = thread[r] \/ r = t
    BY <1>0, <2>0, CallsApart
  <2>4. ASSUME NEW g \in Goroutines, Alive(g)', thread'[g].on = k
        PROVE  \/ thread'[r].at = "select" /\ thread'[r].child = g
               \/ r \in timedOut' /\ index'[k] = End
    <3>1. Alive(g) /\ thread[g].on = k /\ g \in Threads
      BY <1>0, <2>4, CallsApart
    <3>2. \/ thread[r].at = "select" /\ thread[r].child = g
          \/ r \in timedOut /\ index[k] = End
      BY <1>2, <1>4, <3>1 DEF Joined
    <3>3. CASE r \in timedOut /\ index[k] = End
      BY <1>1, <2>0, <3>3, ChainIs
    <3>4. CASE thread[r].at = "select" /\ thread[r].child = g /\ r # t
      BY <2>3, <3>4
    <3>5. CASE thread[r].at = "select" /\ thread[r].child = g /\ r = t
      BY <2>0, <3>1, <3>5 DEF InTurn
    <3> QED  BY <3>2, <3>3, <3>4, <3>5
  <2>5. ASSUME NEW c, c = thread'[r].child, thread'[r].at = "select"
        PROVE  /\ thread'[c].at # "none" /\ (Alive(c)' => thread'[c].on = k) /\ (~Alive(c)' => index'[k] >= 4)
    <3>1. r # t /\ thread'[r] = thread[r] /\ c = thread[r].child
      BY <1>0, <2>3, <2>5 DEF GoesOn
    <3>2. c \in Threads
      BY <2>0, <2>5, <3>1, CallsApart DEF Hosted, Deep
    <3>3. thread[c].at # "none" /\ (Alive(c) => thread[c].on = k) /\ (~Alive(c) => index[k] >= 4)
      BY <1>2, <1>4, <2>5, <3>1 DEF Joined
    <3>4. thread'[c].at # "none"
      BY <1>0, <3>2, <3>3 DEF GoesOn
    <3>5. index[k] >= 4 => index'[k] >= 4
      BY <2>0
    <3> QED  BY <1>0, <3>1, <3>2, <3>3, <3>4, <3>5
  <2>6. Joined(j)'
    BY <1>4, <2>0, <2>4, <2>5 DEF Joined
  <2> QED  BY <1>4, <2>2, <2>6
<1> QED  BY <1>3, <1>4

\* The last frame of a goroutine is taken off.
LEMMA FrameOff ==
    ASSUME NEW s \in Seq(Middlewares), s # <<>>
    PROVE  LET p == SubSeq(s, 1, Len(s) - 1) IN
           /\ p \in Seq(Middlewares) /\ Len(p) = Len(s) - 1 /\ Len(s) >= 1 /\ \A n \in 1..(Len(s) - 1) : p[n] = s[n]
<1>1. Len(s) \in Nat /\ Len(s) >= 1 /\ \A n \in 1..(Len(s) - 1) : s[n] \in Middlewares
  BY EmptySeq, LenProperties, ElementOfSeq
<1> DEFINE m == Len(s) - 1
           p == SubSeq(s, 1, m)
<1>2. m \in Nat /\ 1 \in Int /\ \A n \in 1..m : s[n] \in Middlewares
  BY <1>1
<1> HIDE DEF m
<1>3. /\ p \in Seq(Middlewares) /\ Len(p) = (IF 1 <= m THEN m - 1 + 1 ELSE 0)
      /\ \A n \in 1..(m - 1 + 1) : p[n] = s[1 + n - 1]
  BY <1>2, SubSeqProperties
<1>4. Len(p) = m /\ \A n \in 1..m : p[n] = s[n]
  BY <1>2, <1>3
<1> QED  BY <1>1, <1>3, <1>4 DEF m

\* One is put on.
LEMMA FrameOn ==
    ASSUME NEW s \in Seq(Middlewares), NEW f \in Middlewares
    PROVE  LET p == Append(s, f) IN
           /\ p \in Seq(Middlewares) /\ p # <<>> /\ Len(p) = Len(s) + 1 /\ p[Len(s) + 1] = f
           /\ Len(s) \in Nat /\ \A n \in 1..Len(s) : p[n] = s[n]
           /\ s # <<>> => Len(s) >= 1 /\ p[1] = s[1]
<1>1. s # <<>> => Len(s) >= 1
  BY EmptySeq, LenProperties
<1>2. Len(s) \in Nat
  BY LenProperties
<1> QED  BY <1>1, <1>2, AppendProperties

\* Where nobody else has the context, Next goes to the next handler.
LEMMA OneByOne ==
    ASSUME PipelineTypes, Hosted, NEW k \in Unhaunted
    PROVE  IndexAfter(k) = {Incremented(k)}
<1>1. ~Contested(k)
  BY HostFields DEF Contested, Unhaunted
<1> QED  BY <1>1 DEF IndexAfter

\* What Next does: the index grows, and the goroutine is where the index says.
LEMMA NextGoesOn ==
    ASSUME ServingInv, NEW t \in Threads, NextHandler(t)
    PROVE  ServingInv'
<1> USE DEF ServingInv
<1> DEFINE k == thread[t].on
           r == owner[k]
<1>0. /\ thread[t].at = "next" /\ Alive(t) /\ k \in Contexts /\ r \in Calls /\ index[k] \in 0..5
      /\ UNCHANGED <<call, owner, gauge, timedOut, haunted, spoiled>>
  BY HostFields, ChainIs DEF NextHandler, Alive, PipelineTypes
<1>1. PICK i \in IndexAfter(k) :
        /\ i # End => Len(thread[t].frames) < MaxDepth
        /\ index' = [index EXCEPT ![k] = i]
        /\ thread' = MovedTo(t, IF i = End THEN "return" ELSE Chain[i])
        /\ ran' = IF i # End /\ Chain[i] = "handler" /\ ran[r] < 2 THEN [ran EXCEPT ![r] = @ + 1] ELSE ran
  BY DEF NextHandler
<1>2. i \in 1..5
  BY <1>0, <1>1, ChainIs DEF IndexAfter, Incremented
<1> DEFINE a == IF i = End THEN "return" ELSE Chain[i]
           T == [thread[t] EXCEPT !.at = a]
<1>3. /\ a \in {"active", "filter", "timeout", "handler", "return"}
      /\ (i = 1 <=> a = "active") /\ (i = 2 <=> a = "filter") /\ (i = 3 <=> a = "timeout") /\ (i = 4 <=> a = "handler") /\ (i = 5 <=> a = "return")
  BY <1>2, ChainIs
<1>4. /\ T \in ThreadStates /\ T.at = a /\ T.on = k /\ T.for = thread[t].for /\ T.frames = thread[t].frames
      /\ thread' = [thread EXCEPT ![t] = T]
  BY <1>1, <1>3, ThreadFields DEF MovedTo, ThreadStates, ThreadSteps
<1>5. /\ ran' \in [Calls -> 0..2] /\ (\A q \in Calls : ran'[q] # ran[q] => q = r /\ i = 4 /\ ran'[q] = ran[q] + 1)
  <2>1. ran \in [Calls -> 0..2]
    BY DEF PipelineTypes
  <2>2. ran' = ran \/ (i = 4 /\ ran[r] < 2 /\ ran' = [ran EXCEPT ![r] = ran[r] + 1])
    BY <1>1, <1>3
  <2> QED  BY <1>0, <2>1, <2>2
<1> HIDE DEF a, T
<1>6. GoesOn(t, T, i)
  <2>1. Deep(T)
    <3>1. Deep(thread[t])
      BY DEF Hosted
    <3> QED  BY <1>1, <1>2, <1>3, <1>4, <3>1, ChainIs DEF Deep
  <2>2. T.at \notin {"none", "done", "panicked", "select"} /\ i \in 0..End
    BY <1>2, <1>3, <1>4, ChainIs
  <2>3. timedOut \subseteq timedOut' /\ timedOut' \subseteq Calls
    BY <1>0 DEF PipelineTypes
  <2> QED  BY <1>0, <1>1, <1>4, <2>1, <2>2, <2>3 DEF GoesOn
<1>7. ASSUME k \in Unhaunted
      PROVE  /\ InTurn(t, T, i) /\ ran[r] \in {0, 1}
             /\ ran'[r] # ran[r] => ran[r] = 0 /\ Admitted(call[r].attr)
  <2>1. i = IF index[k] < 5 THEN index[k] + 1 ELSE 5
    BY <1>1, <1>7, OneByOne, ChainIs DEF Incremented
  <2>2. InOrder(k) /\ Fits(t, thread[t], index[k]) /\ thread[t].for = r /\ r \in Calls \ haunted
    BY <1>0, <1>7, HostFields DEF Chained, InOrder, Unhaunted
  <2>3. i <= 3 => ran'[r] = 0
    <3>1. i <= 3 => index[k] <= 3 /\ i # 4
      BY <1>0, <2>1
    <3>2. i <= 3 => ran'[r] = ran[r]
      BY <1>5, <2>2, <3>1
    <3> QED  BY <2>2, <3>1, <3>2 DEF InOrder
  <2>4. i \in {3, 4} => Admitted(call[r].attr)
    <3>1. i \in {3, 4} => index[k] \in {2, 3}
      BY <1>0, <2>1
    <3> QED  BY <1>0, <2>2, <3>1 DEF InOrder, Fits
  <2>5. Fits(t, T, i)
    <3>1. t \in Calls /\ index[k] \in 1..3 => T.frames # <<>> /\ T.frames[1] = "active"
      BY <1>0, <1>4, <2>2 DEF Fits
    <3>2. index[k] = 0 => T.frames = <<>>
      BY <1>0, <1>4, <2>2 DEF Fits
    <3>3. t \in Goroutines => i >= 4
      BY <1>0, <2>1, <2>2 DEF Fits
    <3>4. i \in 2..4 => index[k] \in 1..3
      BY <1>0, <2>1
    <3>5. i = 1 => index[k] = 0
      BY <1>0, <2>1
    <3>6. T.at = a
      BY <1>4
    <3>7. a # "next" /\ a # "select" /\ a # "panic"
      BY <1>3
    <3> QED  BY <1>2, <1>3, <3>1, <3>2, <3>3, <3>4, <3>5, <3>6, <3>7 DEF Fits
  <2>6. i >= index[k]
    BY <1>0, <2>1
  <2>7. InTurn(t, T, i)
    BY <1>0, <2>3, <2>4, <2>5, <2>6 DEF InTurn
  <2>8. ran'[r] # ran[r] => ran[r] = 0 /\ Admitted(call[r].attr)
    <3>1. ran'[r] # ran[r] => i = 4
      BY <1>5, <2>2
    <3>2. ran'[r] # ran[r] => index[k] <= 3
      BY <1>0, <2>1, <3>1
    <3> QED  BY <2>2, <2>4, <3>1, <3>2 DEF InOrder
  <2>9. ran[r] \in {0, 1}
    BY <2>2 DEF Answers
  <2> QED  BY <2>7, <2>8, <2>9
<1>8. \A q \in Calls : ran'[q] # ran[q] => q = owner[thread[t].on]
  BY <1>5
<1>9. Hosted' /\ Served' /\ thread' \in [Threads -> ThreadStates] /\ index' \in [Contexts -> 0..End]
  BY <1>6, <1>8, GoesOnHosted
<1>10. Chained'
  BY <1>6, <1>7, <1>8, GoesOnChained
<1>11. PipelineTypes'
  BY <1>0, <1>5, <1>9 DEF PipelineTypes
<1>12. Answers'
  <2>1. ASSUME NEW q \in Calls \ haunted PROVE ran'[q] = 0 \/ (ran'[q] = 1 /\ Admitted(call'[q].attr))
    <3>1. CASE ran'[q] = ran[q]
      BY <1>0, <2>1, <3>1 DEF Answers
    <3>2. CASE ran'[q] # ran[q]
      <4>1. q = r /\ k \in Unhaunted /\ ran'[q] = ran[q] + 1
        BY <1>0, <1>5, <2>1, <3>2 DEF Unhaunted
      <4> QED  BY <1>0, <1>7, <3>2, <4>1
    <3> QED  BY <3>1, <3>2
  <2> QED  BY <1>0, <2>1 DEF Answers
<1> QED  BY <1>9, <1>10, <1>11, <1>12

\* A goroutine goes on, and no handler begins.
LEMMA StepGoesOn ==
    ASSUME ServingInv, NEW t \in Threads, NEW T, NEW i, GoesOn(t, T, i), UNCHANGED ran,
           thread[t].on \in Unhaunted => InTurn(t, T, i),
           gauge' \in [{"active", "filter"} -> Int],
           spoiled' = spoiled \/ spoiled' = SpoiledBy(t)
    PROVE  ServingInv'
<1> USE DEF ServingInv
<1>1. \A q \in Calls : ran'[q] # ran[q] => q = owner[thread[t].on]
  OBVIOUS
<1>2. Hosted' /\ Served' /\ thread' \in [Threads -> ThreadStates] /\ index' \in [Contexts -> 0..End]
  BY <1>1, GoesOnHosted
<1>3. Chained'
  BY <1>1, GoesOnChained
<1>4. UNCHANGED <<call, owner, haunted>> /\ timedOut \subseteq timedOut' /\ timedOut' \subseteq Calls /\ Alive(t)
  BY DEF GoesOn
<1>5. spoiled' \subseteq haunted /\ spoiled' \subseteq Calls
  BY <1>4, HostFields DEF SpoiledBy, Answers, PipelineTypes
<1>6. PipelineTypes'
  BY <1>2, <1>4, <1>5 DEF PipelineTypes
<1>7. Answers'
  BY <1>4, <1>5 DEF Answers
<1> QED  BY <1>2, <1>3, <1>6, <1>7

\* The place of a goroutine on the chain of a request that is not haunted.
LEMMA Placed ==
    ASSUME ServingInv, NEW t \in Threads, Alive(t), thread[t].on \in Unhaunted
    PROVE  /\ Fits(t, thread[t], index[thread[t].on]) /\ InOrder(thread[t].on) /\ Joined(thread[t].on)
           /\ thread[t].for = owner[thread[t].on] /\ owner[thread[t].on] \in Calls
           /\ index[thread[t].on] \in 0..5 /\ (t \in Calls => t = owner[thread[t].on])
<1> DEFINE k == thread[t].on
<1>1. k \in Contexts /\ owner[k] \in Calls \ haunted /\ InOrder(k) /\ Joined(k)
  BY DEF Unhaunted, ServingInv, Chained
<1>2. thread[t].for = owner[k]
  BY <1>1, HostFields DEF ServingInv
<1>3. Fits(t, thread[t], index[k])
  BY <1>1 DEF InOrder
<1>4. index[k] \in 0..5
  BY <1>1, ChainIs DEF ServingInv, PipelineTypes
<1>5. t \in Calls => t = owner[k]
  BY OneMain DEF ServingInv
<1> QED  BY <1>1, <1>2, <1>3, <1>4, <1>5

\* A step that leaves the index alone, at a place where that is in turn.
LEMMA StaysInTurn ==
    ASSUME ServingInv, NEW t \in Threads, Alive(t), thread[t].on \in Unhaunted, NEW T,
           thread[t].at # "select", UNCHANGED ran, T.for = thread[t].for,
           Fits(t, T, index[thread[t].on])
    PROVE  InTurn(t, T, index[thread[t].on])
<1> DEFINE k == thread[t].on
<1>1. InOrder(k) /\ index[k] \in 0..5
  BY Placed
<1>2. (index[k] <= 3 => ran'[owner[k]] = 0) /\ (index[k] \in {3, 4} => Admitted(call[owner[k]].attr)) /\ index[k] >= index[k]
  BY <1>1 DEF InOrder
<1> QED  BY <1>2 DEF InTurn

\* The index of the context as it is.
LEMMA SameIndex ==
    ASSUME PipelineTypes, Hosted, NEW t \in Threads, Alive(t), index' = index
    PROVE  index[thread[t].on] \in 0..End /\ index' = [index EXCEPT ![thread[t].on] = index[thread[t].on]]
BY HostFields DEF PipelineTypes

\* A middleware returns, or is left by a panic.
LEMMA LeavesGoesOn ==
    ASSUME ServingInv, NEW t \in Threads, thread[t].frames # <<>>,
           \/ thread[t].at = "return" /\ thread' = Left(t, "next")
           \/ thread[t].at = "panic" /\ thread' = Left(t, "panic"),
           gauge' = GaugeAfter(t), UNCHANGED <<call, owner, index, timedOut, haunted, ran, spoiled>>
    PROVE  ServingInv'
<1> DEFINE k == thread[t].on
           s == thread[t].frames
           p == SubSeq(s, 1, Len(s) - 1)
           a == IF thread[t].at = "return" THEN "next" ELSE "panic"
           T == [thread[t] EXCEPT !.frames = p, !.at = a]
<1> USE DEF ServingInv
<1>0. Alive(t) /\ thread[t] \in ThreadStates /\ s \in Seq(Middlewares) /\ Len(s) \in Nat /\ p \in Seq(Middlewares) /\ Len(p) = Len(s) - 1
  BY ThreadFields, FrameOff DEF Alive
<1>1. thread' = [thread EXCEPT ![t] = T]
  BY DEF Left
<1>2. /\ T \in ThreadStates /\ T.at = a /\ T.on = k /\ T.for = thread[t].for /\ T.frames = p
      /\ a \in {"next", "panic"} /\ thread[t].at \in {"return", "panic"} /\ (a = "panic" <=> thread[t].at = "panic")
  BY <1>0 DEF ThreadStates, ThreadSteps
<1>3. gauge' \in [{"active", "filter"} -> Int]
  BY DEF GaugeAfter, PipelineTypes
<1>4. Deep(T)
  <2>1. Len(s) <= MaxDepth
    BY DEF Hosted, Deep
  <2>2. Len(p) <= MaxDepth
    BY <1>0, <2>1, PipelineAssumption
  <2> QED  BY <1>2, <2>2 DEF Deep
<1> HIDE DEF T, a, p
<1>5. index[k] \in 0..End /\ index' = [index EXCEPT ![k] = index[k]]
  BY <1>0, SameIndex
<1>6. GoesOn(t, T, index[k])
  BY <1>0, <1>1, <1>2, <1>4, <1>5 DEF GoesOn, PipelineTypes
<1>7. ASSUME k \in Unhaunted PROVE InTurn(t, T, index[k])
  <2>1. Fits(t, thread[t], index[k]) /\ index[k] \in 0..5
    BY <1>0, <1>7, Placed
  <2>2. index[k] >= 4
    BY <1>2, <2>1 DEF Fits
  <2>3. Fits(t, T, index[k])
    BY <1>2, <2>1, <2>2 DEF Fits
  <2> QED  BY <1>0, <1>2, <1>7, <2>3, StaysInTurn
<1> QED  BY <1>3, <1>6, <1>7, StepGoesOn

\* activelimit and the filters count, and let pass or abort.
LEMMA EntersGoesOn ==
    ASSUME ServingInv, NEW t \in Threads, ActiveLimit(t) \/ Filter(t)
    PROVE  ServingInv'
<1> USE DEF ServingInv
<1> DEFINE k == thread[t].on
           s == thread[t].frames
<1>0. /\ Alive(t) /\ thread[t] \in ThreadStates /\ s \in Seq(Middlewares) /\ Len(s) \in Nat
      /\ k \in Contexts /\ Len(s) < MaxDepth
  BY ThreadFields, HostFields DEF ActiveLimit, Filter, Alive, Hosted, Deep
<1>1. PICK f \in {"active", "filter"}, ok \in BOOLEAN :
        /\ thread[t].at = f /\ gauge' = [gauge EXCEPT ![f] = @ + 1]
        /\ thread' = Entered(t, f, IF ok THEN "next" ELSE "return")
        /\ IF ok THEN UNCHANGED index ELSE Abort(t)
        /\ f = "filter" => (ok <=> Admitted(call[owner[k]].attr))
  <2>1. CASE ActiveLimit(t)
    <3> DEFINE ok == gauge["active"] + 1 <= MaxActive
    <3>1. ok \in BOOLEAN
      OBVIOUS
    <3> QED  BY <2>1, <3>1, Zenon DEF ActiveLimit
  <2>2. CASE Filter(t)
    <3> DEFINE ok == Admitted(call[owner[k]].attr)
    <3>1. ok \in BOOLEAN
      BY DEF Admitted
    <3> QED  BY <2>2, <3>1, Zenon DEF Filter
  <2> QED  BY <2>1, <2>2
<1>2. UNCHANGED <<call, owner, timedOut, haunted, ran, spoiled>>
  BY DEF ActiveLimit, Filter
<1> DEFINE a == IF ok THEN "next" ELSE "return"
           p == Append(s, f)
           T == [thread[t] EXCEPT !.frames = p, !.at = a]
           i == IF ok THEN index[k] ELSE End
<1>3. /\ p \in Seq(Middlewares) /\ p # <<>> /\ Len(p) = Len(s) + 1
      /\ s = <<>> => p[1] = f
      /\ s # <<>> => p[1] = s[1]
  <2>1. f \in Middlewares
    BY DEF Middlewares
  <2>2. /\ p \in Seq(Middlewares) /\ p # <<>> /\ Len(p) = Len(s) + 1 /\ p[Len(s) + 1] = f
        /\ s # <<>> => p[1] = s[1]
    BY <1>0, <2>1, FrameOn
  <2>3. s = <<>> => Len(s) = 0
    OBVIOUS
  <2> QED  BY <2>2, <2>3
<1>4. /\ T \in ThreadStates /\ T.at = a /\ T.on = k /\ T.for = thread[t].for /\ T.frames = p
      /\ thread' = [thread EXCEPT ![t] = T]
  BY <1>0, <1>1, <1>3 DEF ThreadStates, ThreadSteps, Entered
<1>5. i \in 0..End /\ index' = [index EXCEPT ![k] = i]
  <2>1. index \in [Contexts -> 0..End] /\ End \in 0..End
    BY ChainIs DEF PipelineTypes
  <2> QED  BY <1>0, <1>1, <2>1 DEF Abort
<1>6. Deep(T)
  BY <1>0, <1>3, <1>4, PipelineAssumption DEF Deep
<1>7. gauge' \in [{"active", "filter"} -> Int]
  BY <1>1 DEF PipelineTypes
<1>8. (ok <=> a = "next") /\ (~ok <=> a = "return") /\ (ok => i = index[k]) /\ (~ok => i = 5)
  BY ChainIs
<1> HIDE DEF p, a, T, i
<1>9. GoesOn(t, T, i)
  <2>1. T.at \notin {"none", "done", "panicked", "select"}
    BY <1>4, <1>8
  <2>2. timedOut \subseteq timedOut' /\ timedOut' \subseteq Calls
    BY <1>2 DEF PipelineTypes
  <2> QED  BY <1>0, <1>2, <1>4, <1>5, <1>6, <2>1, <2>2 DEF GoesOn
<1>10. ASSUME k \in Unhaunted PROVE InTurn(t, T, i)
  <2>1. /\ Fits(t, thread[t], index[k]) /\ InOrder(k) /\ index[k] \in 0..5 /\ thread[t].for = owner[k]
    BY <1>0, <1>10, Placed
  <2>2. (f = "active" => index[k] = 1 /\ s = <<>>) /\ (f = "filter" => index[k] = 2)
    BY <1>1, <2>1 DEF Fits
  <2>3. t \in Calls => p[1] = "active"
    BY <1>1, <1>3, <2>1, <2>2 DEF Fits
  <2>4. t \notin Goroutines
    BY <1>1, <2>1 DEF Fits
  <2>5. CASE ~ok
    <3>1. Fits(t, T, i)
      BY <1>3, <1>4, <1>8, <2>3, <2>4, <2>5 DEF Fits
    <3> QED  BY <1>1, <1>8, <2>1, <2>5, <3>1 DEF InTurn
  <2>6. CASE ok
    <3>1. Fits(t, T, index[k])
      BY <1>1, <1>3, <1>4, <1>8, <2>1, <2>2, <2>3, <2>4, <2>6 DEF Fits
    <3>2. InTurn(t, T, index[k])
      BY <1>0, <1>1, <1>2, <1>4, <1>10, <3>1, StaysInTurn
    <3> QED  BY <1>8, <2>6, <3>2
  <2> QED  BY <2>5, <2>6
<1> QED  BY <1>2, <1>7, <1>9, <1>10, StepGoesOn

\* The deadline passes, the goroutine is done, or a handler writes or returns.
LEMMA SelectGoesOn ==
    ASSUME ServingInv, NEW t \in Threads,
           SelectDone(t) \/ SelectTimeout(t) \/ HandlerWrites(t) \/ \E how \in {"next", "panic"} : HandlerReturns(t, how)
    PROVE  ServingInv'
<1> USE DEF ServingInv
<1> DEFINE k == thread[t].on
<1>0. /\ Alive(t) /\ thread[t] \in ThreadStates /\ k \in Contexts /\ thread[t].at \in {"select", "handler"} /\ Deep(thread[t])
      /\ UNCHANGED <<call, owner, gauge, haunted, ran>> /\ gauge' \in [{"active", "filter"} -> Int] /\ thread[t].for \in Calls
  BY ThreadFields, HostFields DEF SelectDone, SelectTimeout, HandlerWrites, HandlerReturns, Alive, Hosted, PipelineTypes
<1>1. ASSUME NEW a \in {"return", "panic", "next", "handler"}, NEW c \in {Nobody, thread[t].child}, NEW i \in {index[k], End},
             thread' = [thread EXCEPT ![t] = [thread[t] EXCEPT !.at = a, !.child = c]],
             index' = [index EXCEPT ![k] = i], i # index[k] => a = "return",
             a = "handler" => thread[t].at = "handler",
             timedOut' = timedOut \/ timedOut' = timedOut \union {thread[t].for},
             spoiled' = spoiled \/ spoiled' = SpoiledBy(t),
             thread[t].at = "select" =>
                /\ a \in {"return", "panic"}
                /\ ~Alive(thread[t].child) \/ (i = End /\ thread[t].for \in timedOut')
      PROVE  ServingInv'
  <2> DEFINE T == [thread[t] EXCEPT !.at = a, !.child = c]
  <2>1. /\ T \in ThreadStates /\ T.at = a /\ T.on = k /\ T.for = thread[t].for /\ T.frames = thread[t].frames
        /\ thread' = [thread EXCEPT ![t] = T]
    BY <1>0, <1>1 DEF ThreadStates, ThreadSteps
  <2> HIDE DEF T
  <2>2. Deep(T)
    BY <1>0, <1>1, <2>1 DEF Deep
  <2>3. GoesOn(t, T, i)
    <3>1. i \in 0..End
      BY <1>0, <1>1, ChainIs DEF PipelineTypes
    <3>2. timedOut \subseteq timedOut' /\ timedOut' \subseteq Calls
      BY <1>0, <1>1 DEF PipelineTypes
    <3> QED  BY <1>0, <1>1, <2>1, <2>2, <3>1, <3>2 DEF GoesOn
  <2>4. ASSUME k \in Unhaunted PROVE InTurn(t, T, i)
    <3>1. /\ Fits(t, thread[t], index[k]) /\ InOrder(k) /\ Joined(k) /\ index[k] \in 0..5 /\ thread[t].for = owner[k]
          /\ t \in Calls => t = owner[k]
      BY <1>0, <2>4, Placed
    <3>2. i >= 4
      <4>1. CASE thread[t].at = "handler"
        BY <1>1, <3>1, <4>1, ChainIs DEF Fits
      <4>2. CASE thread[t].at = "select" /\ ~Alive(thread[t].child)
        <5>1. t = owner[k]
          BY <3>1, <4>2 DEF Fits, Threads
        <5>2. index[k] >= 4
          BY <3>1, <4>2, <5>1 DEF Joined
        <5> QED  BY <1>1, <5>2, ChainIs
      <4>3. CASE thread[t].at = "select" /\ i = End
        BY <4>3, ChainIs
      <4> QED  BY <1>0, <1>1, <4>1, <4>2, <4>3
    <3>3. i \in 4..5 /\ i >= index[k] /\ (i = 4 => index[k] = 4)
      BY <1>1, <3>1, <3>2, ChainIs
    <3>4. Fits(t, T, i)
      <4>1. a = "handler" /\ t \in Calls => T.frames # <<>> /\ T.frames[1] = "active"
        BY <1>1, <2>1, <3>1 DEF Fits
      <4> QED  BY <1>1, <2>1, <3>3, <4>1 DEF Fits
    <3>5. i \in {3, 4} => Admitted(call[owner[k]].attr)
      BY <3>1, <3>3 DEF InOrder
    <3> QED  BY <1>1, <3>1, <3>3, <3>4, <3>5 DEF InTurn
  <2> QED  BY <1>0, <1>1, <2>3, <2>4, StepGoesOn
<1>2. UNCHANGED index => index' = [index EXCEPT ![k] = index[k]]
  BY <1>0, SameIndex
<1>3. CASE SelectDone(t)
  <2>1. PICK a \in {"return", "panic"} : thread' = Selected(t, a) /\ ~Alive(thread[t].child)
    BY <1>3 DEF SelectDone, Alive
  <2>2. thread' = [thread EXCEPT ![t] = [thread[t] EXCEPT !.at = a, !.child = Nobody]]
    BY <2>1 DEF Selected
  <2> QED  BY <1>1, <1>2, <1>3, <2>1, <2>2 DEF SelectDone
<1>4. CASE SelectTimeout(t)
  <2>1. thread' = [thread EXCEPT ![t] = [thread[t] EXCEPT !.at = "return", !.child = Nobody]]
    BY <1>4 DEF SelectTimeout, Selected
  <2>2. index' = [index EXCEPT ![k] = End] /\ timedOut' = timedOut \union {thread[t].for} /\ spoiled' = SpoiledBy(t)
    BY <1>4 DEF SelectTimeout, Abort
  <2> QED  BY <1>1, <2>1, <2>2
<1>5. CASE HandlerWrites(t)
  <2>1. /\ thread[t].at = "handler" /\ UNCHANGED <<index, timedOut, thread>> /\ spoiled' = SpoiledBy(t)
    BY <1>5 DEF HandlerWrites
  <2>2. thread' = [thread EXCEPT ![t] = [thread[t] EXCEPT !.at = "handler", !.child = thread[t].child]]
    BY <1>0, <2>1 DEF PipelineTypes, ThreadStates
  <2> QED  BY <1>1, <1>2, <2>1, <2>2
<1>6. ASSUME NEW how \in {"next", "panic"}, HandlerReturns(t, how) PROVE ServingInv'
  <2>1. /\ thread[t].at = "handler" /\ UNCHANGED <<index, timedOut, spoiled>>
    BY <1>6 DEF HandlerReturns
  <2>2. thread' = [thread EXCEPT ![t] = [thread[t] EXCEPT !.at = how, !.child = thread[t].child]]
    BY <1>0, <1>6 DEF PipelineTypes, ThreadStates, HandlerReturns, MovedTo
  <2> QED  BY <1>1, <1>2, <2>1, <2>2
<1> QED  BY <1>3, <1>4, <1>5, <1>6

\* The timeout middleware without a deadline calls Next itself.
LEMMA UnlimitedGoesOn ==
    ASSUME ServingInv, NEW t \in Threads, thread[t].at = "timeout", thread' = Entered(t, "timeout", "next"),
           UNCHANGED <<call, owner, index, gauge, timedOut, haunted, ran, spoiled>>
    PROVE  ServingInv'
<1> USE DEF ServingInv
<1> DEFINE k == thread[t].on
           s == thread[t].frames
           p == Append(s, "timeout")
           T == [thread[t] EXCEPT !.frames = p, !.at = "next"]
<1>0. /\ Alive(t) /\ thread[t] \in ThreadStates /\ s \in Seq(Middlewares) /\ Len(s) \in Nat /\ Len(s) < MaxDepth
  BY ThreadFields DEF Alive, Hosted, Deep
<1>1. p \in Seq(Middlewares) /\ p # <<>> /\ Len(p) = Len(s) + 1 /\ (s # <<>> => p[1] = s[1])
  BY <1>0, FrameOn DEF Middlewares
<1>2. /\ T \in ThreadStates /\ T.at = "next" /\ T.on = k /\ T.for = thread[t].for /\ T.frames = p
      /\ thread' = [thread EXCEPT ![t] = T]
  BY <1>0, <1>1 DEF ThreadStates, ThreadSteps, Entered
<1>3. Deep(T)
  BY <1>0, <1>1, <1>2, PipelineAssumption DEF Deep
<1> HIDE DEF p, T
<1>4. index[k] \in 0..End /\ index' = [index EXCEPT ![k] = index[k]]
  BY <1>0, SameIndex
<1>5. GoesOn(t, T, index[k])
  BY <1>0, <1>2, <1>3, <1>4 DEF GoesOn, PipelineTypes
<1>6. ASSUME k \in Unhaunted PROVE InTurn(t, T, index[k])
  <2>1. Fits(t, thread[t], index[k])
    BY <1>0, <1>6, Placed
  <2>2. Fits(t, T, index[k])
    BY <1>1, <1>2, <2>1 DEF Fits
  <2> QED  BY <1>0, <1>2, <1>6, <2>2, StaysInTurn
<1> QED  BY <1>5, <1>6, StepGoesOn DEF PipelineTypes

\* The timeout middleware begins a goroutine and waits for it.
LEMMA Spawns ==
    ASSUME ServingInv, NEW t \in Threads, thread[t].at = "timeout", NEW g \in Goroutines, thread[g].at = "none",
           thread' = [Entered(t, "timeout", "select") EXCEPT
                        ![t].child = g, ![g] = [NoThread EXCEPT !.at = "next", !.on = thread[t].on, !.for = thread[t].for]],
           UNCHANGED <<call, owner, index, gauge, timedOut, haunted, ran, spoiled>>
    PROVE  ServingInv'
<1> USE DEF ServingInv
<1> DEFINE k == thread[t].on
           s == thread[t].frames
           p == Append(s, "timeout")
           T == [thread[t] EXCEPT !.frames = p, !.at = "select", !.child = g]
           G == [NoThread EXCEPT !.at = "next", !.on = k, !.for = thread[t].for]
<1>0. /\ Alive(t) /\ thread[t] \in ThreadStates /\ s \in Seq(Middlewares) /\ Len(s) \in Nat /\ Len(s) < MaxDepth
      /\ k \in Contexts /\ thread[t].for \in Calls /\ g \in Threads /\ g # t /\ ~Alive(g)
  BY ThreadFields, HostFields, CallsApart DEF Alive, Hosted, Deep
<1>1. p \in Seq(Middlewares) /\ p # <<>> /\ Len(p) = Len(s) + 1 /\ (s # <<>> => p[1] = s[1])
  BY <1>0, FrameOn DEF Middlewares
<1>2. /\ T \in ThreadStates /\ T.at = "select" /\ T.on = k /\ T.for = thread[t].for /\ T.frames = p /\ T.child = g
      /\ G \in ThreadStates /\ G.at = "next" /\ G.on = k /\ G.for = thread[t].for /\ G.frames = <<>>
  BY <1>0, <1>1, NoThreads DEF ThreadStates, ThreadSteps
<1>3. /\ thread' \in [Threads -> ThreadStates] /\ thread'[t] = T /\ thread'[g] = G
      /\ \A u \in Threads : u # t /\ u # g => thread'[u] = thread[u]
  <2>1. thread' = [[thread EXCEPT ![t] = T] EXCEPT ![g] = G]
    BY <1>0 DEF Entered, PipelineTypes
  <2> HIDE DEF T, G
  <2>2. thread \in [Threads -> ThreadStates]
    BY DEF PipelineTypes
  <2> QED  BY <1>0, <1>2, <2>1, <2>2
<1> HIDE DEF p, T, G
<1>4. /\ \A u \in Threads : u # g => (Alive(u)' <=> Alive(u)) /\ thread'[u].on = thread[u].on /\ thread'[u].for = thread[u].for
      /\ Alive(g)'
  BY <1>0, <1>2, <1>3 DEF Alive
<1>5. PipelineTypes'
  BY <1>3 DEF PipelineTypes
<1>6. Hosted'
  <2> SUFFICES ASSUME NEW u \in Threads
               PROVE  /\ Alive(u)' => HostedBy(thread[u])'
                      /\ ~Alive(u)' => thread'[u].frames = <<>>
                      /\ Deep(thread'[u])
    BY DEF Hosted, Deep
  <2>1. CASE u # t /\ u # g
    BY <1>3, <1>4, <2>1 DEF Hosted, HostedBy
  <2>2. HostedBy(thread[t])
    BY <1>0 DEF Hosted
  <2>3. ASSUME u = t \/ u = g PROVE HostedBy(thread[u])'
    <3>1. thread'[u].on = k /\ thread'[u].for = thread[t].for
      BY <1>2, <1>3, <2>3
    <3> QED  BY <2>2, <3>1 DEF HostedBy
  <2>4. Deep(T) /\ Deep(G)
    BY <1>0, <1>1, <1>2, PipelineAssumption DEF Deep
  <2>5. u = t \/ u = g => Alive(u)' /\ Deep(thread'[u])
    BY <1>0, <1>3, <1>4, <2>4
  <2> QED  BY <2>1, <2>3, <2>5
<1>7. Served'
  <2>1. ASSUME NEW r \in Calls
        PROVE  /\ call[r].at = "new" => thread'[r].at = "none"
               /\ call[r].at = "serving" => Alive(r)' /\ thread'[r].for = r /\ owner[thread'[r].on] = r
               /\ call[r].at = "answered" => ~Alive(r)'
    <3>1. r \in Threads /\ r # g
      BY CallsApart
    <3>2. thread'[r].on = thread[r].on /\ thread'[r].for = thread[r].for /\ (Alive(r)' <=> Alive(r))
      BY <1>4, <3>1
    <3>3. call[r].at = "new" => r # t
      BY DEF Served
    <3> QED  BY <1>3, <3>1, <3>2, <3>3 DEF Served
  <2> QED  BY <2>1 DEF Served
<1>8. Chained'
  <2> SUFFICES ASSUME NEW j \in Unhaunted PROVE InOrder(j)' /\ Joined(j)'
    BY DEF Chained, Unhaunted
  <2>1. j \in Contexts /\ owner[j] \in Calls /\ owner[j] \in Threads /\ owner[j] # g /\ InOrder(j) /\ Joined(j)
    BY CallsApart DEF Unhaunted, Chained
  <2>2. ASSUME j = k PROVE /\ Fits(t, thread[t], index[k]) /\ t \in Calls /\ t = owner[k] /\ index[k] = 3
    <3>1. Fits(t, thread[t], index[k]) /\ (t \in Calls => t = owner[k])
      BY <1>0, <2>2, Placed
    <3> QED  BY <3>1 DEF Fits, Threads
  <2>3. ASSUME NEW u \in Threads, Alive(u)', thread'[u].on = j PROVE Fits(u, thread[u], index[j])'
    <3>1. CASE u # t /\ u # g
      <4>1. Fits(u, thread[u], index[j]) /\ thread'[u] = thread[u]
        BY <1>3, <1>4, <2>1, <2>3, <3>1 DEF InOrder
      <4> QED  BY <4>1 DEF Fits
    <3>2. CASE u = t
      <4>1. j = k
        BY <1>2, <1>3, <2>3, <3>2
      <4>2. Fits(t, T, index[j])
        BY <1>1, <1>2, <2>2, <4>1, CallsApart DEF Fits
      <4> QED  BY <1>3, <3>2, <4>2 DEF Fits
    <3>3. CASE u = g
      <4>1. j = k
        BY <1>2, <1>3, <2>3, <3>3
      <4>2. Fits(g, G, index[j])
        BY <1>2, <2>2, <4>1, CallsApart DEF Fits
      <4> QED  BY <1>3, <3>3, <4>2 DEF Fits
    <3> QED  BY <3>1, <3>2, <3>3
  <2>4. InOrder(j)'
    BY <2>1, <2>3 DEF InOrder
  <2>5. Joined(j)'
    <3>1. CASE j = k
      <4>1. thread'[owner[j]] = T /\ t = owner[j] /\ index[j] = 3
        BY <1>3, <2>2, <3>1
      <4>2. ASSUME NEW h \in Goroutines, Alive(h)', thread'[h].on = j PROVE h = g
        <5> SUFFICES ASSUME h # g PROVE FALSE
          OBVIOUS
        <5>1. Alive(h) /\ thread[h].on = j
          BY <1>4, <4>2, CallsApart
        <5>2. thread[t].at = "select" \/ index[j] = End
          BY <2>1, <4>1, <5>1 DEF Joined
        <5> QED  BY <4>1, <5>2, ChainIs
      <4> QED  BY <1>2, <1>3, <1>4, <3>1, <4>1, <4>2, ZenonT(60) DEF Joined
    <3>2. CASE j # k
      <4>1. owner[j] # t /\ thread'[owner[j]] = thread[owner[j]]
        <5>1. owner[j] = t => call[t].at = "serving"
          BY <1>0, <2>1 DEF PipelineTypes, Served, Alive
        <5>2. owner[j] = t => j = k
          BY <1>0, <2>1, <5>1 DEF Served
        <5> QED  BY <1>3, <2>1, <3>2, <5>2, SMTT(30)
      <4>2. ASSUME NEW h \in Goroutines, Alive(h)', thread'[h].on = j PROVE Alive(h) /\ thread[h].on = j
        BY <1>2, <1>3, <1>4, <3>2, <4>2, CallsApart
      <4>3. ASSUME NEW c, c = thread'[owner[j]].child, thread'[owner[j]].at = "select"
            PROVE  /\ thread'[c].at # "none" /\ (Alive(c)' => thread'[c].on = j) /\ (~Alive(c)' => index[j] >= 4)
        <5>1. c = thread[owner[j]].child /\ thread[owner[j]].at = "select" /\ c \in Threads
          BY <2>1, <4>1, <4>3, CallsApart DEF Hosted, Deep
        <5>2. thread[c].at # "none" /\ (Alive(c) => thread[c].on = j) /\ (~Alive(c) => index[j] >= 4) /\ c # g
          BY <2>1, <5>1 DEF Joined
        <5>3. thread'[c].at # "none"
          BY <1>2, <1>3, <5>1, <5>2
        <5> QED  BY <1>4, <5>1, <5>2, <5>3
      <4> QED  BY <2>1, <4>1, <4>2, <4>3 DEF Joined
    <3> QED  BY <3>1, <3>2
  <2> QED  BY <2>4, <2>5
<1>9. Answers'
  BY DEF Answers
<1> QED  BY <1>5, <1>6, <1>7, <1>8, <1>9

\* A goroutine ends, and with it the request if it is its own.
LEMMA Ends ==
    ASSUME ServingInv, NEW t \in Threads, thread[t].at \in {"return", "panic"},
           NEW how \in {"done", "panicked"}, thread' = Ended(t, how),
           call' = IF t \in Calls THEN [call EXCEPT ![t].at = "answered"] ELSE call,
           UNCHANGED <<owner, index, gauge, timedOut, haunted, ran, spoiled>>
    PROVE  ServingInv'
<1> USE DEF ServingInv
<1> DEFINE T == [NoThread EXCEPT !.at = how]
<1>0. T \in ThreadStates /\ T.at = how /\ T.frames = <<>> /\ Alive(t) /\ thread' = [thread EXCEPT ![t] = T]
  BY NoThreads DEF Ended, Alive
<1> HIDE DEF T
<1>1. /\ thread' \in [Threads -> ThreadStates] /\ thread'[t] = T
      /\ \A u \in Threads : u # t => thread'[u] = thread[u]
  BY <1>0, Moving
<1>2. ~Alive(t)' /\ \A u \in Threads : u # t => (Alive(u)' <=> Alive(u))
  BY <1>0, <1>1 DEF Alive
<1>3. /\ call' \in [Calls -> [at : {"new", "serving", "answered"}, attr : Attributes]]
      /\ \A r \in Calls : call'[r].attr = call[r].attr /\ (r # t => call'[r] = call[r]) /\ (r = t => call'[r].at = "answered")
  BY DEF PipelineTypes
<1>4. t \in Calls => call[t].at = "serving"
  BY <1>0 DEF Served, PipelineTypes, Alive
<1>5. PipelineTypes'
  BY <1>1, <1>3 DEF PipelineTypes
<1>6. Hosted'
  <2> SUFFICES ASSUME NEW u \in Threads
               PROVE  /\ Alive(u)' => HostedBy(thread[u])'
                      /\ ~Alive(u)' => thread'[u].frames = <<>>
                      /\ Deep(thread'[u])
    BY DEF Hosted, Deep
  <2>1. CASE u # t
    <3>1. ASSUME NEW r \in Calls, call[r].at # "new" PROVE call'[r].at # "new"
      BY <1>3, <3>1
    <3>2. thread'[u] = thread[u] /\ Deep(thread[u]) /\ (Alive(u) => HostedBy(thread[u])) /\ (~Alive(u) => thread[u].frames = <<>>)
      BY <1>1, <2>1 DEF Hosted
    <3>3. HostedBy(thread[u]) => HostedBy(thread[u])'
      BY <3>1, <3>2 DEF HostedBy
    <3> QED  BY <1>2, <2>1, <3>2, <3>3
  <2>2. CASE u = t
    BY <1>0, <1>1, <1>2, <2>2, PipelineAssumption DEF Deep
  <2> QED  BY <2>1, <2>2
<1>7. Served'
  <2>1. ASSUME NEW r \in Calls
        PROVE  /\ call'[r].at = "new" => thread'[r].at = "none" /\ ran[r] = 0
               /\ call'[r].at = "serving" => Alive(r)' /\ thread'[r].for = r /\ owner[thread'[r].on] = r
               /\ call'[r].at = "answered" => ~Alive(r)'
    BY <1>1, <1>2, <1>3, CallsApart DEF Served
  <2>2. \A k \in Contexts : owner[k] \in Calls => call'[owner[k]].at # "new"
    BY <1>3 DEF Served
  <2> QED  BY <2>1, <2>2 DEF Served
<1>8. Chained'
  <2> SUFFICES ASSUME NEW j \in Unhaunted PROVE InOrder(j)' /\ Joined(j)'
    BY DEF Chained, Unhaunted
  <2>1. j \in Contexts /\ owner[j] \in Calls /\ owner[j] \in Threads /\ InOrder(j) /\ Joined(j)
    BY CallsApart DEF Unhaunted, Chained
  <2>2. ASSUME NEW u \in Threads, Alive(u)', thread'[u].on = j PROVE Fits(u, thread[u], index[j])'
    <3>1. u # t /\ thread'[u] = thread[u] /\ Alive(u) /\ Fits(u, thread[u], index[j]) /\ thread[u].for \in Calls
      BY <1>1, <1>2, <2>1, <2>2, HostFields DEF InOrder
    <3>2. call'[thread[u].for].attr = call[thread[u].for].attr
      BY <1>3, <3>1
    <3> QED  BY <3>1, <3>2 DEF Fits
  <2>3. InOrder(j)'
    BY <1>3, <2>1, <2>2 DEF InOrder
  <2>4. Joined(j)'
    <3>1. owner[j] = t => thread[t].at # "select" /\ thread'[t].at # "select"
      BY <1>0, <1>1
    <3>2. owner[j] # t => thread'[owner[j]] = thread[owner[j]]
      BY <1>1, <2>1
    <3>3. ASSUME NEW g \in Goroutines, Alive(g)', thread'[g].on = j
          PROVE  \/ thread'[owner[j]].at = "select" /\ thread'[owner[j]].child = g
                 \/ owner[j] \in timedOut /\ index[j] = End
      <4>1. Alive(g) /\ thread[g].on = j
        BY <1>1, <1>2, <3>3, CallsApart
      <4> QED  BY <2>1, <3>1, <3>2, <4>1 DEF Joined
    <3>4. ASSUME NEW c, c = thread'[owner[j]].child, thread'[owner[j]].at = "select"
          PROVE  /\ thread'[c].at # "none" /\ (Alive(c)' => thread'[c].on = j) /\ (~Alive(c)' => index[j] >= 4)
      <4>1. c = thread[owner[j]].child /\ thread[owner[j]].at = "select" /\ c \in Threads
        BY <2>1, <3>1, <3>2, <3>4, CallsApart DEF Hosted, Deep
      <4>2. thread[c].at # "none" /\ (Alive(c) => thread[c].on = j) /\ (~Alive(c) => index[j] >= 4)
        BY <2>1, <4>1 DEF Joined
      <4>3. c = t => index[j] >= 4
        <5>1. c = t => Fits(t, thread[t], index[j])
          BY <1>0, <2>1, <4>2 DEF InOrder
        <5> QED  BY <5>1 DEF Fits
      <4> QED  BY <1>0, <1>1, <1>2, <4>1, <4>2, <4>3
    <3> QED  BY <3>3, <3>4 DEF Joined
  <2> QED  BY <2>3, <2>4
<1>9. Answers'
  BY <1>3 DEF Answers
<1> QED  BY <1>5, <1>6, <1>7, <1>8, <1>9

\* A request is given a context; whoever still has it was left by a deadline.
LEMMA Arrives ==
    ASSUME ServingInv, NEW r \in Calls, NEW a \in Attributes, NEW k \in Contexts, Arrive(r, a, k)
    PROVE  ServingInv'
<1> USE DEF ServingInv
<1> DEFINE T == [NoThread EXCEPT !.at = "next", !.on = k, !.for = r]
           C == [at |-> "serving", attr |-> a]
<1>0. /\ T \in ThreadStates /\ T.at = "next" /\ T.on = k /\ T.for = r /\ T.frames = <<>>
      /\ C.at = "serving" /\ C.attr = a /\ C \in [at : {"new", "serving", "answered"}, attr : Attributes]
      /\ call[r].at = "new" /\ ~Alive(r) /\ r \in Threads /\ ran[r] = 0 /\ thread[r].at = "none"
      /\ thread' = [thread EXCEPT ![r] = T] /\ call' = [call EXCEPT ![r] = C]
      /\ owner' = [owner EXCEPT ![k] = r] /\ index' = [index EXCEPT ![k] = 0]
      /\ UNCHANGED <<gauge, timedOut, ran, spoiled>>
  <2>1. T \in ThreadStates /\ T.at = "next" /\ T.on = k /\ T.for = r /\ T.frames = <<>>
    BY NoThreads DEF NoThread, ThreadStates, ThreadSteps
  <2>2. C.at = "serving" /\ C.attr = a /\ C \in [at : {"new", "serving", "answered"}, attr : Attributes]
    OBVIOUS
  <2>3. /\ call[r].at = "new" /\ thread' = [thread EXCEPT ![r] = T] /\ call' = [call EXCEPT ![r] = C]
        /\ owner' = [owner EXCEPT ![k] = r] /\ index' = [index EXCEPT ![k] = 0]
        /\ UNCHANGED <<gauge, timedOut, ran, spoiled>>
    BY DEF Arrive
  <2>4. r \in Threads /\ ran[r] = 0 /\ thread[r].at = "none" /\ ~Alive(r)
    BY <2>3, CallsApart DEF Served, Alive
  <2> QED  BY <2>1, <2>2, <2>3, <2>4
<1> HIDE DEF T, C
<1>1. /\ thread' \in [Threads -> ThreadStates] /\ thread'[r] = T
      /\ \A u \in Threads : u # r => thread'[u] = thread[u]
  BY <1>0, Moving
<1>2. /\ call' \in [Calls -> [at : {"new", "serving", "answered"}, attr : Attributes]]
      /\ call'[r] = C /\ \A q \in Calls : q # r => call'[q] = call[q]
      /\ owner' \in [Contexts -> Calls \union {Nobody}] /\ owner'[k] = r /\ \A j \in Contexts : j # k => owner'[j] = owner[j]
      /\ index' \in [Contexts -> 0..End] /\ index'[k] = 0 /\ \A j \in Contexts : j # k => index'[j] = index[j]
  BY <1>0, ChainIs DEF PipelineTypes
<1>3. Alive(r)' /\ \A u \in Threads : u # r => (Alive(u)' <=> Alive(u))
  BY <1>0, <1>1 DEF Alive
<1>4. /\ haunted \subseteq haunted' /\ haunted' \subseteq haunted \union {r}
      /\ (\E u \in Threads : Alive(u) /\ thread[u].on = k) => r \in haunted'
      /\ haunted' = haunted \/ \E u \in Threads : Alive(u) /\ thread[u].on = k
  BY DEF Arrive
<1>5. ASSUME NEW u \in Threads, Alive(u), thread[u].on = k PROVE thread[u].for \in haunted \union timedOut
  <2>1. /\ thread[u].for \in Calls /\ owner[k] \in Calls
        /\ owner[k] = thread[u].for \/ thread[u].for \in haunted \union timedOut
    BY <1>5 DEF Hosted, HostedBy
  <2>2. CASE owner[k] = thread[u].for /\ owner[k] \notin haunted
    <3>1. k \in Unhaunted /\ call[owner[k]].at = "answered" /\ ~Alive(owner[k])
      BY <2>1, <2>2, PipelineAssumption DEF Unhaunted, Arrive, Served, Threads
    <3>2. u \in Goroutines
      <4>1. u \in Calls => u = owner[k]
        BY <1>5, <3>1, OneMain
      <4> QED  BY <1>5, <3>1, <4>1 DEF Threads
    <3>3. thread[owner[k]].at # "select"
      BY <3>1 DEF Alive
    <3>4. owner[k] \in timedOut
      BY <1>5, <3>1, <3>2, <3>3 DEF Chained, Joined
    <3> QED  BY <2>2, <3>4
  <2> QED  BY <2>1, <2>2
<1>6. PipelineTypes'
  BY <1>0, <1>1, <1>2, <1>4 DEF PipelineTypes
<1>7. Hosted'
  <2> SUFFICES ASSUME NEW u \in Threads
               PROVE  /\ Alive(u)' => HostedBy(thread[u])'
                      /\ ~Alive(u)' => thread'[u].frames = <<>>
                      /\ Deep(thread'[u])
    BY DEF Hosted, Deep
  <2>1. CASE u = r
    <3>1. HostedBy(thread[r])'
      BY <1>0, <1>1, <1>2 DEF HostedBy
    <3>2. Deep(T)
      BY <1>0, PipelineAssumption DEF Deep
    <3> QED  BY <1>1, <1>3, <2>1, <3>1, <3>2
  <2>2. CASE u # r
    <3>1. thread'[u] = thread[u] /\ Deep(thread[u]) /\ (Alive(u) => HostedBy(thread[u])) /\ (~Alive(u) => thread[u].frames = <<>>)
      BY <1>1, <2>2 DEF Hosted
    <3>2. ASSUME Alive(u) PROVE HostedBy(thread[u])'
      <4>1. /\ thread[u].on \in Contexts /\ thread[u].for \in Calls /\ owner[thread[u].on] \in Calls /\ call[thread[u].for].at # "new"
            /\ thread[u].for # r
        BY <1>0, <3>1, <3>2 DEF HostedBy
      <4>2. call'[thread[u].for].at # "new"
        BY <1>2, <4>1
      <4>3. CASE thread[u].on # k
        BY <1>0, <1>2, <1>4, <3>1, <3>2, <4>1, <4>2, <4>3 DEF HostedBy
      <4>4. CASE thread[u].on = k
        <5>1. thread[u].for \in haunted' \union timedOut' /\ r \in haunted'
          BY <1>0, <1>4, <1>5, <3>2, <4>4
        <5> QED  BY <1>2, <3>1, <4>1, <4>2, <4>4, <5>1 DEF HostedBy
      <4> QED  BY <4>3, <4>4
    <3> QED  BY <1>3, <2>2, <3>1, <3>2
  <2> QED  BY <2>1, <2>2
<1>8. Served'
  <2>1. ASSUME NEW q \in Calls
        PROVE  /\ call'[q].at = "new" => thread'[q].at = "none" /\ ran'[q] = 0
               /\ call'[q].at = "serving" => Alive(q)' /\ thread'[q].for = q /\ owner'[thread'[q].on] = q
               /\ call'[q].at = "answered" => ~Alive(q)'
    <3>1. CASE q = r
      BY <1>0, <1>1, <1>2, <1>3, <3>1
    <3>2. CASE q # r
      <4>1. call'[q] = call[q] /\ thread'[q] = thread[q] /\ (Alive(q)' <=> Alive(q)) /\ q \in Threads
        BY <1>1, <1>2, <1>3, <3>2, CallsApart
      <4>2. call[q].at = "serving" => thread[q].on # k /\ thread[q].on \in Contexts
        BY <4>1, HostFields, PipelineAssumption DEF Served, Arrive, Threads
      <4> QED  BY <1>0, <1>2, <4>1, <4>2 DEF Served
    <3> QED  BY <3>1, <3>2
  <2>2. ASSUME NEW j \in Contexts, owner'[j] \in Calls PROVE call'[owner'[j]].at # "new"
    BY <1>0, <1>2, <2>2 DEF Served
  <2>3. ASSUME NEW j \in Contexts, NEW i \in Contexts, owner'[j] \in Calls, owner'[j] = owner'[i] PROVE j = i
    <3>1. \A x \in Contexts : x # k => owner[x] # r
      BY <1>0 DEF Served
    <3> QED  BY <1>2, <2>3, <3>1 DEF Served
  <2> QED  BY <2>1, <2>2, <2>3 DEF Served
<1>9. Chained'
  <2> SUFFICES ASSUME NEW j \in Contexts, owner'[j] \in Calls \ haunted' PROVE InOrder(j)' /\ Joined(j)'
    BY DEF Chained, Unhaunted
  <2>1. CASE j = k
    <3>1. owner'[j] = r /\ index'[j] = 0 /\ ran'[r] = 0 /\ \A u \in Threads : Alive(u) => thread[u].on # k
      BY <1>0, <1>2, <1>4, <2>1
    <3>2. \A u \in Threads : Alive(u)' /\ thread'[u].on = j => u = r
      BY <1>1, <1>3, <2>1, <3>1
    <3>3. Fits(r, thread[r], index[j])'
      BY <1>0, <1>1, <3>1, CallsApart DEF Fits
    <3>4. InOrder(j)'
      BY <3>1, <3>2, <3>3 DEF InOrder
    <3>5. Joined(j)'
      BY <1>0, <1>1, <3>1, <3>2, CallsApart DEF Joined
    <3> QED  BY <3>4, <3>5
  <2>2. CASE j # k
    <3>1. /\ owner'[j] = owner[j] /\ index'[j] = index[j] /\ owner[j] \in Calls \ haunted /\ owner[j] # r
          /\ call'[owner[j]] = call[owner[j]] /\ thread'[owner[j]] = thread[owner[j]] /\ owner[j] \in Threads
      BY <1>0, <1>1, <1>2, <1>4, <2>2, CallsApart DEF Served
    <3>2. InOrder(j) /\ Joined(j)
      BY <3>1 DEF Chained, Unhaunted
    <3>3. ASSUME NEW u \in Threads, Alive(u)', thread'[u].on = j PROVE u # r /\ Alive(u) /\ thread[u].on = j /\ thread'[u] = thread[u]
      BY <1>0, <1>1, <1>3, <2>2, <3>3
    <3>4. ASSUME NEW u \in Threads, Alive(u)', thread'[u].on = j PROVE Fits(u, thread[u], index[j])'
      <4>1. Alive(u) /\ thread'[u] = thread[u] /\ Fits(u, thread[u], index[j])
        BY <3>2, <3>3, <3>4 DEF InOrder
      <4>2. call'[thread[u].for] = call[thread[u].for]
        BY <1>0, <1>2, <4>1 DEF Hosted, HostedBy
      <4> QED  BY <3>1, <4>1, <4>2 DEF Fits
    <3>5. InOrder(j)'
      BY <1>0, <3>1, <3>2, <3>4 DEF InOrder
    <3>6. ASSUME NEW g \in Goroutines, Alive(g)', thread'[g].on = j
          PROVE  \/ thread'[owner[j]].at = "select" /\ thread'[owner[j]].child = g
                 \/ owner[j] \in timedOut /\ index[j] = End
      BY <3>1, <3>2, <3>3, <3>6, CallsApart DEF Joined
    <3>7. ASSUME NEW c, c = thread'[owner[j]].child, thread'[owner[j]].at = "select"
          PROVE  /\ thread'[c].at # "none" /\ (Alive(c)' => thread'[c].on = j) /\ (~Alive(c)' => index[j] >= 4)
      <4>1. c = thread[owner[j]].child /\ thread[owner[j]].at = "select" /\ c \in Threads /\ c # r
        BY <3>1, <3>7, CallsApart DEF Hosted, Deep
      <4>2. thread[c].at # "none" /\ (Alive(c) => thread[c].on = j) /\ (~Alive(c) => index[j] >= 4)
        BY <3>2, <4>1 DEF Joined
      <4> QED  BY <1>1, <1>3, <4>1, <4>2
    <3>8. Joined(j)'
      BY <1>0, <3>1, <3>6, <3>7 DEF Joined
    <3> QED  BY <3>5, <3>8
  <2> QED  BY <2>1, <2>2
<1>10. Answers'
  <2>1. haunted' # {} => timedOut' # {}
    <3>1. CASE haunted # {}
      BY <1>0, <3>1 DEF Answers
    <3>2. CASE haunted = {} /\ haunted' # {}
      <4>1. PICK u \in Threads : Alive(u) /\ thread[u].on = k
        BY <1>4, <3>2
      <4> QED  BY <1>0, <1>5, <3>2, <4>1
    <3> QED  BY <3>1, <3>2
  <2>2. ASSUME NEW q \in Calls \ haunted' PROVE ran'[q] = 0 \/ (ran'[q] = 1 /\ Admitted(call'[q].attr))
    <3>1. CASE q = r
      BY <1>0, <3>1
    <3>2. CASE q # r
      BY <1>0, <1>2, <1>4, <3>2 DEF Answers
    <3> QED  BY <3>1, <3>2
  <2>3. spoiled' \subseteq haunted'
    BY <1>0, <1>4 DEF Answers
  <2> QED  BY <2>1, <2>2, <2>3 DEF Answers
<1> QED  BY <1>6, <1>7, <1>8, <1>9, <1>10

\* Every step of the pipeline.
LEMMA ServingKept == ASSUME ServingInv, [PipelineNext]_pipelineVars PROVE ServingInv'
<1>1. ASSUME NEW r \in Calls, NEW a \in Attributes, NEW k \in Contexts, Arrive(r, a, k) PROVE ServingInv'
  BY <1>1, Arrives
<1>2. ASSUME NEW t \in Threads, NextHandler(t) PROVE ServingInv'
  BY <1>2, NextGoesOn
<1>3. ASSUME NEW t \in Threads, Return(t) \/ Panic(t) PROVE ServingInv'
  <2>0. UNCHANGED <<owner, index, timedOut, haunted, ran, spoiled>>
    BY <1>3 DEF Return, Panic
  <2>1. CASE thread[t].frames = <<>>
    <3>1. /\ thread[t].at \in {"return", "panic"} /\ UNCHANGED gauge
          /\ call' = IF t \in Calls THEN [call EXCEPT ![t].at = "answered"] ELSE call
      BY <1>3, <2>1 DEF Return, Panic
    <3>2. PICK how \in {"done", "panicked"} : thread' = Ended(t, how)
      BY <1>3, <2>1 DEF Return, Panic
    <3> QED  BY <2>0, <3>1, <3>2, Ends
  <2>2. CASE thread[t].frames # <<>>
    <3>1. /\ \/ thread[t].at = "return" /\ thread' = Left(t, "next")
             \/ thread[t].at = "panic" /\ thread' = Left(t, "panic")
          /\ gauge' = GaugeAfter(t) /\ UNCHANGED call
      BY <1>3, <2>2 DEF Return, Panic
    <3> QED  BY <2>0, <2>2, <3>1, LeavesGoesOn
  <2> QED  BY <2>1, <2>2
<1>4. ASSUME NEW t \in Threads, ActiveLimit(t) \/ Filter(t) PROVE ServingInv'
  BY <1>4, EntersGoesOn
<1>5. ASSUME NEW t \in Threads, Timeout(t) PROVE ServingInv'
  <2>0. thread[t].at = "timeout" /\ UNCHANGED <<call, owner, index, gauge, timedOut, haunted, ran, spoiled>>
    BY <1>5 DEF Timeout
  <2>1. CASE thread' = Entered(t, "timeout", "next")
    BY <2>0, <2>1, UnlimitedGoesOn
  <2>2. ASSUME NEW g \in Goroutines, thread[g].at = "none",
               thread' = [Entered(t, "timeout", "select") EXCEPT
                            ![t].child = g, ![g] = [NoThread EXCEPT !.at = "next", !.on = thread[t].on, !.for = thread[t].for]]
        PROVE  ServingInv'
    BY <2>0, <2>2, Spawns
  <2> QED  BY <1>5, <2>1, <2>2 DEF Timeout
<1>6. ASSUME NEW t \in Threads,
             SelectDone(t) \/ SelectTimeout(t) \/ HandlerWrites(t) \/ \E how \in {"next", "panic"} : HandlerReturns(t, how)
      PROVE  ServingInv'
  BY <1>6, SelectGoesOn
<1>7. CASE UNCHANGED pipelineVars
  BY <1>7 DEF pipelineVars, ServingInv, PipelineTypes, Hosted, HostedBy, Deep, Alive, Served, Chained, Unhaunted, InOrder, Fits, Joined, Answers
<1> QED  BY <1>1, <1>2, <1>3, <1>4, <1>5, <1>6, <1>7 DEF PipelineNext

\* There are finitely many places in the loops.
LEMMA PlacesFinite ==
    /\ \A f : IsFiniteSet(Inside(f)) /\ Cardinality(Inside(f)) \in Nat
    /\ IsFiniteSet(Busy) /\ Cardinality(Busy) \in Nat /\ Cardinality(Busy) <= Cardinality(Inside("active"))
<1>1. IsFiniteSet(Threads) /\ IsFiniteSet(1..MaxDepth)
  <2>1. IsFiniteSet(1..MaxDepth)
    BY PipelineAssumption, FS_Interval
  <2> QED  BY <2>1, PipelineAssumption, FS_Union DEF Threads
<1>2. IsFiniteSet(Threads \X (1..MaxDepth))
  BY <1>1, FS_Product
<1>3. ASSUME NEW f PROVE IsFiniteSet(Inside(f)) /\ Cardinality(Inside(f)) \in Nat
  <2>1. Inside(f) \subseteq Threads \X (1..MaxDepth)
    BY DEF Inside
  <2>2. IsFiniteSet(Inside(f))
    BY <1>2, <2>1, FS_Subset
  <2> QED  BY <2>2, FS_CardinalityType
<1>4. Busy \subseteq Inside("active")
  BY DEF Busy
<1>5. IsFiniteSet(Busy) /\ Cardinality(Busy) <= Cardinality(Inside("active"))
  BY <1>3, <1>4, FS_Subset
<1> QED  BY <1>3, <1>5, FS_CardinalityType

\* No more are busy when some of them remain.
LEMMA FewerBusy ==
    ASSUME Cardinality(Busy) <= MaxActive, NEW B, B \subseteq Busy
    PROVE  Cardinality(B) <= MaxActive
<1>1. IsFiniteSet(B) /\ Cardinality(B) <= Cardinality(Busy)
  BY PlacesFinite, FS_Subset
<1>2. Cardinality(B) \in Nat
  BY <1>1, FS_CardinalityType
<1> QED  BY <1>1, <1>2, PlacesFinite, PipelineAssumption

\* A step that neither enters nor leaves a middleware.
LEMMA CountedStays ==
    ASSUME PipelineTypes, GaugesExact, UNCHANGED gauge,
           \A u \in Threads : /\ thread'[u].frames = thread[u].frames
                              /\ thread[u].at = "return" => thread'[u].at = "return" \/ thread[u].frames = <<>>
    PROVE  GaugesExact'
<1>1. \A f : Inside(f)' = Inside(f)
  BY DEF Inside
<1>2. Busy' \subseteq Busy
  <2> SUFFICES ASSUME NEW p \in Busy' PROVE p \in Busy
    OBVIOUS
  <2>1. p \in Inside("active") /\ ~(p[2] = Len(thread'[p[1]].frames) /\ thread'[p[1]].at = "return")
    BY <1>1 DEF Busy
  <2>2. p[1] \in Threads /\ p[2] \in DOMAIN thread[p[1]].frames
    BY <2>1 DEF Inside
  <2>3. thread[p[1]].frames # <<>>
    BY <2>2
  <2> QED  BY <2>1, <2>2, <2>3 DEF Busy
<1>3. Cardinality(Busy') <= MaxActive
  BY <1>2, FewerBusy DEF GaugesExact
<1> QED  BY <1>1, <1>3 DEF GaugesExact

\* The goroutine t enters the middleware m.
LEMMA Pushed ==
    ASSUME PipelineTypes, NEW t \in Threads, NEW m \in Middlewares, NEW f,
           Len(thread[t].frames) < MaxDepth, thread'[t].frames = Append(thread[t].frames, m),
           \A u \in Threads : u # t => thread'[u].frames = thread[u].frames
    PROVE  /\ <<t, Len(thread[t].frames) + 1>> \notin Inside(f)
           /\ Inside(f)' = IF m = f THEN Inside(f) \union {<<t, Len(thread[t].frames) + 1>>} ELSE Inside(f)
           /\ Len(thread'[t].frames) = Len(thread[t].frames) + 1
<1> DEFINE s == thread[t].frames
           q == thread'[t].frames
           n == Len(s)
<1>1. s \in Seq(Middlewares) /\ n \in Nat /\ DOMAIN s = 1..n
  BY ThreadFields, LenProperties
<1>2. /\ q \in Seq(Middlewares) /\ Len(q) = n + 1 /\ q[n + 1] = m /\ \A i \in 1..n : q[i] = s[i]
  BY <1>1, FrameOn
<1>3. DOMAIN q = 1..(n + 1)
  BY <1>2, LenProperties
<1>4. <<t, n + 1>> \notin Inside(f)
  BY <1>1 DEF Inside
<1>5. n + 1 \in 1..MaxDepth
  BY <1>1, PipelineAssumption
<1> HIDE DEF s, q, n
<1>6. \A p : p \in Inside(f)' <=> p \in IF m = f THEN Inside(f) \union {<<t, n + 1>>} ELSE Inside(f)
  <2> SUFFICES ASSUME NEW u \in Threads, NEW i \in 1..MaxDepth
               PROVE  <<u, i>> \in Inside(f)' <=> (<<u, i>> \in Inside(f) \/ (m = f /\ u = t /\ i = n + 1))
    BY <1>5 DEF Inside
  <2>1. CASE u # t
    BY <2>1 DEF Inside
  <2>2. CASE u = t
    <3>1. <<t, i>> \in Inside(f)' <=> i \in 1..(n + 1) /\ q[i] = f
      BY <1>3 DEF Inside, q
    <3>2. <<t, i>> \in Inside(f) <=> i \in 1..n /\ s[i] = f
      BY <1>1 DEF Inside, s
    <3>3. i \in 1..(n + 1) <=> i \in 1..n \/ i = n + 1
      BY <1>1, SMTT(30)
    <3>4. n + 1 \notin 1..n
      BY <1>1
    <3> QED  BY <1>2, <2>2, <3>1, <3>2, <3>3, <3>4
  <2> QED  BY <2>1, <2>2
<1>7. Inside(f)' = IF m = f THEN Inside(f) \union {<<t, n + 1>>} ELSE Inside(f)
  BY <1>6
<1> QED  BY <1>2, <1>4, <1>7 DEF s, q, n

\* It leaves the innermost.
LEMMA Popped ==
    ASSUME PipelineTypes, Hosted, NEW t \in Threads, NEW f, thread[t].frames # <<>>,
           thread'[t].frames = SubSeq(thread[t].frames, 1, Len(thread[t].frames) - 1),
           \A u \in Threads : u # t => thread'[u].frames = thread[u].frames
    PROVE  /\ <<t, Len(thread[t].frames)>> \in Inside(Top(t)) /\ Top(t) \in Middlewares
           /\ Inside(f)' = IF Top(t) = f THEN Inside(f) \ {<<t, Len(thread[t].frames)>>} ELSE Inside(f)
           /\ <<t, Len(thread[t].frames)>> \notin Inside(f)'
<1> DEFINE s == thread[t].frames
           q == thread'[t].frames
           n == Len(s)
           m == Top(t)
<1>1. s \in Seq(Middlewares) /\ n \in Nat /\ DOMAIN s = 1..n /\ n >= 1 /\ n <= MaxDepth
  BY ThreadFields, LenProperties, FrameOff DEF Hosted, Deep
<1>2. q \in Seq(Middlewares) /\ Len(q) = n - 1 /\ \A i \in 1..(n - 1) : q[i] = s[i]
  BY <1>1, FrameOff
<1>3. DOMAIN q = 1..(n - 1)
  BY <1>2, LenProperties
<1>4. m = s[n] /\ m \in Middlewares /\ n \in 1..n /\ n \in 1..MaxDepth
  BY <1>1, ElementOfSeq, PipelineAssumption DEF Top
<1>5. <<t, n>> \in Inside(m)
  BY <1>1, <1>4 DEF Inside
<1>6. <<t, n>> \notin Inside(f)'
  <2>1. n \notin 1..(n - 1)
    BY <1>1
  <2> QED  BY <1>3, <2>1 DEF Inside
<1> HIDE DEF s, q, n, m
<1>7. \A p : p \in Inside(f)' <=> p \in IF m = f THEN Inside(f) \ {<<t, n>>} ELSE Inside(f)
  <2> SUFFICES ASSUME NEW u \in Threads, NEW i \in 1..MaxDepth
               PROVE  <<u, i>> \in Inside(f)' <=> (<<u, i>> \in Inside(f) /\ ~(m = f /\ u = t /\ i = n))
    BY DEF Inside
  <2>1. CASE u # t
    BY <2>1 DEF Inside
  <2>2. CASE u = t
    <3>1. <<t, i>> \in Inside(f)' <=> i \in 1..(n - 1) /\ q[i] = f
      BY <1>3 DEF Inside, q
    <3>2. <<t, i>> \in Inside(f) <=> i \in 1..n /\ s[i] = f
      BY <1>1 DEF Inside, s
    <3>3. i \in 1..(n - 1) <=> i \in 1..n /\ i # n
      BY <1>1
    <3> QED  BY <1>2, <1>4, <2>2, <3>1, <3>2, <3>3
  <2> QED  BY <2>1, <2>2
<1>8. Inside(f)' = IF m = f THEN Inside(f) \ {<<t, n>>} ELSE Inside(f)
  BY <1>7
<1> QED  BY <1>4, <1>5, <1>6, <1>8 DEF s, q, n, m

\* A middleware is left: its gauge goes down.
LEMMA CountedLeaves ==
    ASSUME ServingInv, GaugesExact, NEW t \in Threads, thread[t].frames # <<>>, gauge' = GaugeAfter(t),
           \/ thread[t].at = "return" /\ thread' = Left(t, "next")
           \/ thread[t].at = "panic" /\ thread' = Left(t, "panic")
    PROVE  GaugesExact'
<1> DEFINE n == Len(thread[t].frames)
<1> USE DEF ServingInv
<1>1. /\ thread'[t].frames = SubSeq(thread[t].frames, 1, n - 1) /\ thread'[t].at # "return"
      /\ \A u \in Threads : u # t => thread'[u] = thread[u]
  <2>1. PICK step \in {"next", "panic"} : thread' = Left(t, step)
    OBVIOUS
  <2>2. thread \in [Threads -> ThreadStates]
    BY DEF PipelineTypes
  <2>3. thread'[t].frames = SubSeq(thread[t].frames, 1, n - 1) /\ thread'[t].at = step
    BY <2>1, <2>2 DEF Left, ThreadStates
  <2> QED  BY <2>1, <2>2, <2>3 DEF Left
<1>2. /\ <<t, n>> \in Inside(Top(t)) /\ Top(t) \in Middlewares
      /\ \A f : /\ Inside(f)' = IF Top(t) = f THEN Inside(f) \ {<<t, n>>} ELSE Inside(f)
                /\ <<t, n>> \notin Inside(f)'
  BY <1>1, Popped
<1>3. ASSUME NEW f \in {"active", "filter"} PROVE gauge'[f] = Cardinality(Inside(f)')
  <2>1. gauge[f] = Cardinality(Inside(f)) /\ gauge \in [{"active", "filter"} -> Int]
    BY <1>3 DEF GaugesExact, PipelineTypes
  <2>2. CASE Top(t) = f
    <3>1. Cardinality(Inside(f)') = Cardinality(Inside(f)) - 1
      BY <1>2, <2>2, PlacesFinite, FS_RemoveElement
    <3> QED  BY <1>3, <2>1, <2>2, <3>1 DEF GaugeAfter
  <2>3. CASE Top(t) # f
    BY <1>2, <1>3, <2>1, <2>3 DEF GaugeAfter
  <2> QED  BY <2>2, <2>3
<1>4. Busy' \subseteq Busy
  <2> SUFFICES ASSUME NEW p \in Busy' PROVE p \in Busy
    OBVIOUS
  <2>1. p \in Inside("active") /\ p # <<t, n>> /\ ~(p[2] = Len(thread'[p[1]].frames) /\ thread'[p[1]].at = "return")
    BY <1>2 DEF Busy
  <2>2. p[1] \in Threads /\ p = <<p[1], p[2]>>
    BY <2>1 DEF Inside
  <2>3. CASE p[1] # t
    BY <1>1, <2>1, <2>2, <2>3 DEF Busy
  <2>4. CASE p[1] = t
    BY <2>1, <2>2, <2>4 DEF Busy
  <2> QED  BY <2>3, <2>4
<1>5. Cardinality(Busy') <= MaxActive
  BY <1>4, FewerBusy DEF GaugesExact
<1> QED  BY <1>3, <1>5 DEF GaugesExact

\* One is entered; activelimit lets no more through than it may.
LEMMA CountedEnters ==
    ASSUME ServingInv, GaugesExact, NEW t \in Threads, NEW m \in Middlewares, NEW step, thread[t].at # "return",
           Len(thread[t].frames) < MaxDepth,
           thread'[t].frames = Append(thread[t].frames, m), thread'[t].at = step,
           \A u \in Threads : u # t => thread'[u].frames = thread[u].frames,
           \A u \in Threads : u # t /\ thread[u].frames # <<>> => thread'[u].at = thread[u].at,
           gauge' = IF m = "timeout" THEN gauge ELSE [gauge EXCEPT ![m] = @ + 1],
           m = "active" => gauge["active"] + 1 <= MaxActive \/ step = "return"
    PROVE  GaugesExact'
<1> DEFINE n == Len(thread[t].frames)
<1> USE DEF ServingInv
<1>1. /\ Len(thread'[t].frames) = n + 1
      /\ \A f : /\ <<t, n + 1>> \notin Inside(f)
                /\ Inside(f)' = IF m = f THEN Inside(f) \union {<<t, n + 1>>} ELSE Inside(f)
  BY Pushed
<1>2. gauge \in [{"active", "filter"} -> Int] /\ \A f \in {"active", "filter"} : gauge[f] = Cardinality(Inside(f))
  BY DEF GaugesExact, PipelineTypes
<1>3. ASSUME NEW f \in {"active", "filter"} PROVE gauge'[f] = Cardinality(Inside(f)')
  <2>1. CASE m = f
    <3>1. Cardinality(Inside(f)') = Cardinality(Inside(f)) + 1
      BY <1>1, <2>1, PlacesFinite, FS_AddElement
    <3> QED  BY <1>2, <1>3, <2>1, <3>1
  <2>2. CASE m # f
    BY <1>1, <1>2, <1>3, <2>2 DEF Middlewares
  <2> QED  BY <2>1, <2>2
<1>4. ASSUME NEW p \in Busy', p # <<t, n + 1>> PROVE p \in Busy
  <2>1. p \in Inside("active") /\ ~(p[2] = Len(thread'[p[1]].frames) /\ thread'[p[1]].at = "return")
    BY <1>1, <1>4 DEF Busy
  <2>2. p[1] \in Threads /\ p[2] \in DOMAIN thread[p[1]].frames
    BY <2>1 DEF Inside
  <2>3. CASE p[1] # t
    <3>1. thread[p[1]].frames # <<>>
      BY <2>2
    <3> QED  BY <2>1, <2>2, <2>3, <3>1 DEF Busy
  <2>4. CASE p[1] = t
    BY <2>1, <2>4 DEF Busy
  <2> QED  BY <2>3, <2>4
<1>5. CASE m = "active" /\ gauge["active"] + 1 <= MaxActive
  <2>1. Cardinality(Inside("active")') <= MaxActive
    <3>1. Cardinality(Inside("active")') = Cardinality(Inside("active")) + 1
      BY <1>1, <1>5, PlacesFinite, FS_AddElement
    <3> QED  BY <1>2, <1>5, <3>1
  <2>2. Busy' \subseteq Inside("active")'
    BY DEF Busy
  <2>3. IsFiniteSet(Inside("active")')
    BY <1>1, PlacesFinite, FS_AddElement
  <2>4. Cardinality(Busy') <= Cardinality(Inside("active")') /\ IsFiniteSet(Busy')
    BY <2>2, <2>3, FS_Subset
  <2>5. Cardinality(Busy') <= MaxActive
    BY <2>1, <2>3, <2>4, FS_CardinalityType, PipelineAssumption
  <2> QED  BY <1>3, <2>5 DEF GaugesExact
<1>6. CASE m # "active" \/ step = "return"
  <2>1. <<t, n + 1>> \notin Busy'
    BY <1>1, <1>6 DEF Busy
  <2>2. Cardinality(Busy') <= MaxActive
    BY <1>4, <2>1, FewerBusy DEF GaugesExact
  <2> QED  BY <1>3, <2>2 DEF GaugesExact
<1> QED  BY <1>5, <1>6

\* Every step keeps the counts.
LEMMA CountedKept == ASSUME ServingInv, GaugesExact, [PipelineNext]_pipelineVars PROVE GaugesExact'
<1> USE DEF ServingInv
<1>0. thread \in [Threads -> ThreadStates] /\ \A u \in Threads : ~Alive(u) => thread[u].frames = <<>>
  BY DEF PipelineTypes, Hosted
<1>1. ASSUME NEW r \in Calls, NEW a \in Attributes, NEW k \in Contexts, Arrive(r, a, k) PROVE GaugesExact'
  <2> DEFINE T == [NoThread EXCEPT !.at = "next", !.on = k, !.for = r]
  <2>1. r \in Threads /\ ~Alive(r) /\ thread' = [thread EXCEPT ![r] = T] /\ UNCHANGED gauge
    BY <1>1, CallsApart DEF Arrive, Served, Alive
  <2>2. T.frames = <<>>
    BY DEF NoThread
  <2>3. \A u \in Threads : /\ thread'[u].frames = thread[u].frames
                           /\ thread[u].at = "return" => thread'[u].at = "return" \/ thread[u].frames = <<>>
    BY <1>0, <2>1, <2>2
  <2> QED  BY <2>1, <2>3, CountedStays
<1>2. ASSUME NEW t \in Threads, NEW T, thread' = [thread EXCEPT ![t] = T], T.frames = thread[t].frames,
             thread[t].at # "return" \/ thread[t].frames = <<>>, UNCHANGED gauge
      PROVE  GaugesExact'
  <2>1. \A u \in Threads : /\ thread'[u].frames = thread[u].frames
                           /\ thread[u].at = "return" => thread'[u].at = "return" \/ thread[u].frames = <<>>
    BY <1>0, <1>2
  <2> QED  BY <1>2, <2>1, CountedStays
<1>3. ASSUME NEW t \in Threads, NextHandler(t) PROVE GaugesExact'
  <2>1. PICK i \in IndexAfter(thread[t].on) : thread' = MovedTo(t, IF i = End THEN "return" ELSE Chain[i])
    BY <1>3 DEF NextHandler
  <2> DEFINE T == [thread[t] EXCEPT !.at = IF i = End THEN "return" ELSE Chain[i]]
  <2>2. thread' = [thread EXCEPT ![t] = T] /\ T.frames = thread[t].frames
    BY <1>0, <2>1 DEF MovedTo, ThreadStates
  <2>3. thread[t].at # "return" /\ UNCHANGED gauge
    BY <1>3 DEF NextHandler
  <2> HIDE DEF T
  <2> QED  BY <1>2, <2>2, <2>3
<1>4. ASSUME NEW t \in Threads, Return(t) \/ Panic(t) PROVE GaugesExact'
  <2>1. CASE thread[t].frames = <<>>
    <3>1. PICK how \in {"done", "panicked"} : thread' = Ended(t, how)
      BY <1>4, <2>1 DEF Return, Panic
    <3> DEFINE T == [NoThread EXCEPT !.at = how]
    <3>2. thread' = [thread EXCEPT ![t] = T] /\ T.frames = thread[t].frames
      BY <2>1, <3>1 DEF Ended, NoThread
    <3>3. UNCHANGED gauge
      BY <1>4, <2>1 DEF Return, Panic
    <3> HIDE DEF T
    <3> QED  BY <1>2, <2>1, <3>2, <3>3
  <2>2. CASE thread[t].frames # <<>>
    <3>1. /\ \/ thread[t].at = "return" /\ thread' = Left(t, "next")
             \/ thread[t].at = "panic" /\ thread' = Left(t, "panic")
          /\ gauge' = GaugeAfter(t)
      BY <1>4, <2>2 DEF Return, Panic
    <3> QED  BY <2>2, <3>1, CountedLeaves
  <2> QED  BY <2>1, <2>2
<1>5. ASSUME NEW t \in Threads, NEW m \in Middlewares, NEW step, Alive(t), thread[t].at = m,
             thread' = Entered(t, m, step), gauge' = IF m = "timeout" THEN gauge ELSE [gauge EXCEPT ![m] = @ + 1],
             m = "active" => gauge["active"] + 1 <= MaxActive \/ step = "return"
      PROVE  GaugesExact'
  <2>1. /\ thread'[t].frames = Append(thread[t].frames, m) /\ thread'[t].at = step
        /\ \A u \in Threads : u # t => thread'[u] = thread[u]
    BY <1>0, <1>5 DEF Entered, ThreadStates
  <2>2. Len(thread[t].frames) < MaxDepth /\ thread[t].at # "return"
    BY <1>5 DEF Hosted, Deep, Middlewares
  <2> QED  BY <1>5, <2>1, <2>2, CountedEnters
<1>6. ASSUME NEW t \in Threads, ActiveLimit(t) PROVE GaugesExact'
  <2>1. /\ thread[t].at = "active" /\ Alive(t) /\ gauge' = [gauge EXCEPT !["active"] = @ + 1]
        /\ thread' = Entered(t, "active", IF gauge["active"] + 1 <= MaxActive THEN "next" ELSE "return")
    BY <1>6 DEF ActiveLimit, Alive
  <2> QED  BY <1>5, <2>1 DEF Middlewares
<1>7. ASSUME NEW t \in Threads, Filter(t) PROVE GaugesExact'
  <2>1. PICK step : /\ thread[t].at = "filter" /\ Alive(t) /\ gauge' = [gauge EXCEPT !["filter"] = @ + 1]
                    /\ thread' = Entered(t, "filter", step)
    BY <1>7 DEF Filter, Alive
  <2> QED  BY <1>5, <2>1 DEF Middlewares
<1>8. ASSUME NEW t \in Threads, Timeout(t) PROVE GaugesExact'
  <2>1. thread[t].at = "timeout" /\ Alive(t) /\ UNCHANGED gauge
    BY <1>8 DEF Timeout, Alive
  <2>2. CASE thread' = Entered(t, "timeout", "next")
    BY <1>5, <2>1, <2>2 DEF Middlewares
  <2>3. ASSUME NEW g \in Goroutines, thread[g].at = "none",
               thread' = [Entered(t, "timeout", "select") EXCEPT
                            ![t].child = g, ![g] = [NoThread EXCEPT !.at = "next", !.on = thread[t].on, !.for = thread[t].for]]
        PROVE  GaugesExact'
    <3> DEFINE G == [NoThread EXCEPT !.at = "next", !.on = thread[t].on, !.for = thread[t].for]
               T == [thread[t] EXCEPT !.frames = Append(thread[t].frames, "timeout"), !.at = "select", !.child = g]
    <3>1. g # t /\ g \in Threads /\ thread[g].frames = <<>>
      BY <1>0, <2>1, <2>3, CallsApart DEF Alive
    <3>2. thread' = [[thread EXCEPT ![t] = T] EXCEPT ![g] = G]
      BY <1>0, <2>3, <3>1 DEF Entered
    <3>3. T.frames = Append(thread[t].frames, "timeout") /\ T.at = "select" /\ G.frames = <<>>
      BY <1>0 DEF ThreadStates, NoThread
    <3> HIDE DEF T, G
    <3>4. /\ thread'[t] = T /\ thread'[g] = G /\ \A u \in Threads : u # t /\ u # g => thread'[u] = thread[u]
      BY <1>0, <3>1, <3>2
    <3>5. Len(thread[t].frames) < MaxDepth /\ thread[t].at # "return"
      BY <2>1 DEF Hosted, Deep
    <3>6. /\ \A u \in Threads : u # t => thread'[u].frames = thread[u].frames
          /\ \A u \in Threads : u # t /\ thread[u].frames # <<>> => thread'[u].at = thread[u].at
      BY <3>1, <3>3, <3>4
    <3> QED  BY <2>1, <3>3, <3>4, <3>5, <3>6, CountedEnters DEF Middlewares
  <2> QED  BY <1>8, <2>2, <2>3 DEF Timeout
<1>9. ASSUME NEW t \in Threads,
             SelectDone(t) \/ SelectTimeout(t) \/ HandlerWrites(t) \/ \E how \in {"next", "panic"} : HandlerReturns(t, how)
      PROVE  GaugesExact'
  <2>1. thread[t].at # "return" /\ UNCHANGED gauge
    BY <1>9 DEF SelectDone, SelectTimeout, HandlerWrites, HandlerReturns
  <2>2. PICK step, child : \/ thread' = thread
                           \/ thread' = [thread EXCEPT ![t].at = step]
                           \/ thread' = [thread EXCEPT ![t].at = step, ![t].child = child]
    BY <1>9 DEF SelectDone, SelectTimeout, HandlerWrites, HandlerReturns, Selected, MovedTo
  <2>3. \A u \in Threads : /\ thread'[u].frames = thread[u].frames
                           /\ thread[u].at = "return" => thread'[u].at = "return" \/ thread[u].frames = <<>>
    <3>1. thread[t] = [at |-> thread[t].at, on |-> thread[t].on, for |-> thread[t].for,
                       frames |-> thread[t].frames, child |-> thread[t].child]
      BY <1>0 DEF ThreadStates
    <3>2. thread'[t].frames = thread[t].frames
      BY <1>0, <2>2, <3>1
    <3>3. \A u \in Threads : u # t => thread'[u] = thread[u]
      BY <1>0, <2>2
    <3> QED  BY <2>1, <3>2, <3>3
  <2> QED  BY <2>1, <2>3, CountedStays
<1>10. CASE UNCHANGED pipelineVars
  <2>1. UNCHANGED <<thread, gauge>>
    BY <1>10 DEF pipelineVars
  <2> QED  BY <2>1, CountedStays
<1> QED  BY <1>1, <1>3, <1>4, <1>6, <1>7, <1>8, <1>9, <1>10 DEF PipelineNext

LEMMA PipelineKept == ASSUME PipelineInv, [PipelineNext]_pipelineVars PROVE PipelineInv'
BY ServingKept, CountedKept DEF PipelineInv

LEMMA PipelineStarts == PipelineInit => PipelineInv
<1> SUFFICES ASSUME PipelineInit PROVE PipelineInv
  OBVIOUS
<1> USE DEF PipelineInit
<1>1. \A t \in Threads : thread[t] = NoThread /\ ~Alive(t)
  BY NoThreads DEF Alive
<1>2. PipelineTypes
  <2>1. (CHOOSE a \in Attributes : TRUE) \in Attributes
    BY PipelineAssumption
  <2>2. call \in [Calls -> [at : {"new", "serving", "answered"}, attr : Attributes]]
    BY <2>1
  <2>3. owner \in [Contexts -> Calls \union {Nobody}] /\ index \in [Contexts -> 0..End]
    BY ChainIs
  <2>4. thread \in [Threads -> ThreadStates]
    BY NoThreads
  <2> QED  BY <2>2, <2>3, <2>4 DEF PipelineTypes
<1>3. Hosted
  <2>1. Deep(NoThread)
    <3>1. NoThread.frames = <<>> /\ NoThread.at = "none" /\ Len(<<>>) = 0
      BY NoThreads
    <3> QED  BY <3>1, PipelineAssumption DEF Deep
  <2> QED  BY <1>1, <2>1, NoThreads DEF Hosted
<1>4. owner = [k \in Contexts |-> Nobody] /\ Nobody \notin Calls
  BY PipelineAssumption DEF Threads
<1>5. Served
  <2>1. ASSUME NEW r \in Calls PROVE call[r].at = "new" /\ thread[r].at = "none" /\ ran[r] = 0
    BY <1>1, NoThreads, CallsApart
  <2>2. \A k \in Contexts : owner[k] \notin Calls
    BY <1>4
  <2> QED  BY <2>1, <2>2 DEF Served
<1>6. Chained
  BY <1>4 DEF Chained, Unhaunted
<1>7. Answers
  BY DEF Answers
<1>8. GaugesExact
  <2>1. \A f : Inside(f) = {}
    <3>1. DOMAIN <<>> = {}
      OBVIOUS
    <3> QED  BY <1>1, <3>1, NoThreads DEF Inside
  <2>2. Busy = {}
    BY <2>1 DEF Busy
  <2>3. Cardinality({}) = 0 /\ MaxActive \in Nat /\ \A f \in {"active", "filter"} : gauge[f] = 0
    BY FS_EmptySet, PipelineAssumption
  <2>4. Inside("active") = {} /\ Inside("filter") = {}
    BY <2>1
  <2>5. \A f \in {"active", "filter"} : gauge[f] = Cardinality(Inside(f))
    BY <2>3, <2>4
  <2>6. Cardinality(Busy) <= MaxActive
    BY <2>2, <2>3
  <2> QED  BY <2>5, <2>6 DEF GaugesExact
<1> QED  BY <1>2, <1>3, <1>5, <1>6, <1>7, <1>8 DEF PipelineInv, ServingInv

\* The handler of a request that neither timed out nor is haunted runs in its
\* goroutine, or in the one it waits for; either way the request is past activelimit.
LEMMA HandlerBusy ==
    ASSUME ServingInv, NEW t \in Threads, thread[t].at = "handler", thread[t].for \notin haunted \union timedOut
    PROVE  LET r == thread[t].for IN
           /\ <<r, 1>> \in Busy /\ thread[t].on \in Unhaunted /\ owner[thread[t].on] = r
           /\ t \in Calls => t = r
           /\ t \in Goroutines => thread[r].at = "select" /\ thread[r].child = t
<1> USE DEF ServingInv
<1> DEFINE k == thread[t].on
           r == thread[t].for
<1>1. Alive(t) /\ k \in Contexts /\ r \in Calls /\ r \in Threads /\ owner[k] = r /\ k \in Unhaunted
  BY CallsApart DEF Alive, Hosted, HostedBy, Unhaunted
<1>2. Fits(t, thread[t], index[k]) /\ InOrder(k) /\ Joined(k) /\ (t \in Calls => t = r)
  BY <1>1, Placed
<1>3. t \in Goroutines => thread[r].at = "select" /\ thread[r].child = t
  BY <1>1, <1>2 DEF Joined
<1>4. thread[r].at \in {"handler", "select"}
  BY <1>2, <1>3 DEF Threads
<1>5. Alive(r) /\ thread[r].on = k
  <2>1. Alive(r)
    BY <1>4 DEF Alive
  <2>2. call[r].at = "serving"
    BY <1>1, <2>1 DEF Served, PipelineTypes, Alive
  <2>3. owner[thread[r].on] = r /\ thread[r].on \in Contexts
    BY <1>1, <2>1, <2>2, HostFields DEF Served
  <2> QED  BY <1>1, <2>1, <2>3 DEF Served
<1>6. thread[r].frames # <<>> /\ thread[r].frames[1] = "active"
  <2>1. Fits(r, thread[r], index[k])
    BY <1>1, <1>2, <1>5 DEF InOrder
  <2> QED  BY <1>1, <1>4, <2>1 DEF Fits
<1>7. 1 \in DOMAIN thread[r].frames /\ 1 \in 1..MaxDepth
  <2>1. thread[r].frames \in Seq(Middlewares) /\ Len(thread[r].frames) <= MaxDepth
    BY <1>1, ThreadFields DEF Hosted, Deep
  <2>2. Len(thread[r].frames) \in Nat /\ Len(thread[r].frames) >= 1 /\ DOMAIN thread[r].frames = 1..Len(thread[r].frames)
    BY <1>6, <2>1, EmptySeq, LenProperties
  <2> QED  BY <2>1, <2>2, PipelineAssumption
<1>8. <<r, 1>> \in Busy
  <2>1. <<r, 1>> \in Inside("active")
    BY <1>1, <1>6, <1>7 DEF Inside
  <2> QED  BY <1>4, <2>1 DEF Busy
<1> QED  BY <1>1, <1>2, <1>3, <1>8

\* So there are no more such handlers than activelimit admits.
LEMMA HandlersFew ==
    ASSUME PipelineInv
    PROVE  Cardinality({t \in Threads : thread[t].at = "handler" /\ thread[t].for \notin haunted \union timedOut}) <= MaxActive
<1> DEFINE H == {t \in Threads : thread[t].at = "handler" /\ thread[t].for \notin haunted \union timedOut}
           F == [t \in H |-> <<thread[t].for, 1>>]
<1> USE DEF PipelineInv
<1>1. \A t \in H : <<thread[t].for, 1>> \in Busy
  BY HandlerBusy
<1>2. ASSUME NEW t \in H, NEW u \in H, thread[t].for = thread[u].for PROVE t = u
  <2> DEFINE r == thread[t].for
  <2>1. /\ (t \in Calls => t = r) /\ (t \in Goroutines => thread[r].at = "select" /\ thread[r].child = t)
        /\ (u \in Calls => u = r) /\ (u \in Goroutines => thread[r].at = "select" /\ thread[r].child = u)
    BY <1>2, HandlerBusy, ZenonT(60)
  <2>2. thread[t].at = "handler" /\ thread[u].at = "handler" /\ t \in Calls \union Goroutines /\ u \in Calls \union Goroutines
    BY DEF Threads
  <2> QED  BY <2>1, <2>2
<1>3. F \in Injection(H, Busy)
  <2>1. F \in [H -> Busy]
    BY <1>1
  <2>2. \A t, u \in H : F[t] = F[u] => t = u
    BY <1>2
  <2> QED  BY <2>1, <2>2 DEF Injection, IsInjective
<1>4. IsFiniteSet(H) /\ Cardinality(H) <= Cardinality(Busy)
  BY <1>3, PlacesFinite, FS_Injection
<1>5. Cardinality(H) \in Nat /\ Cardinality(Busy) \in Nat /\ Cardinality(Busy) <= MaxActive
  BY <1>4, PlacesFinite, FS_CardinalityType DEF GaugesExact
<1>6. Cardinality(H) <= MaxActive
  BY <1>4, <1>5, PipelineAssumption
<1> QED  BY <1>6

LEMMA PipelineImplies == PipelineInv => HandlersContained /\ PipelineTypeOK
<1> SUFFICES ASSUME PipelineInv PROVE HandlersContained /\ PipelineTypeOK
  OBVIOUS
<1> USE DEF PipelineInv, ServingInv
<1>1. DOMAIN gauge = {"active", "filter"}
  BY DEF PipelineTypes
<1>2. \A f \in DOMAIN gauge : gauge[f] = Cardinality(Inside(f)) /\ gauge[f] \in Nat
  BY <1>1, PlacesFinite DEF GaugesExact
<1>3. HandlersContained
  BY <1>2, HandlersFew DEF Answers, HandlersContained
<1>4. \A t \in Threads : Alive(t) => owner[thread[t].on] \in Calls
  BY HostFields
<1>5. PipelineTypeOK
  BY <1>2, <1>4 DEF PipelineTypeOK, PipelineTypes
<1> QED  BY <1>3, <1>5

\* The steps of Requests that are not the pipeline's leave its state alone.
LEMMA PipelineStep ==
    ASSUME [RequestsNext]_requestVars
    PROVE  [PipelineNext]_pipelineVars
BY DEF RequestsNext, requestVars, pipelineVars

LEMMA PipelineInvariant == RequestsSpec => []PipelineInv
<1>1. RequestsInit => PipelineInv
  BY PipelineStarts DEF RequestsInit
<1>2. PipelineInv /\ [RequestsNext]_requestVars => PipelineInv'
  BY PipelineStep, PipelineKept
<1> QED
  BY <1>1, <1>2, PTL DEF RequestsSpec

\* For every number of requests, goroutines and contexts: what a timed-out request
\* leaves behind harms only requests that are given its context.  The others are
\* answered by their own goroutines, run their handler at most once and past the
\* filters, and unless they timed out are no more than the active limit admits;
\* the gauges are exact, whatever panics, times out or haunts.
THEOREM HandlersStayContained == RequestsSpec => []HandlersContained
BY PipelineInvariant, PipelineImplies, PTL

\* What a caller of a limiter has read and loaded exists already.
RateTypes ==
    /\ instant \in 0..MaxInstant /\ made \in 0..MaxCounters
    /\ mapped \in 0..made /\ sweep \in 0..made
    /\ caller \in [Callers -> [at : {"idle", "load", "decide"}, now : 0..MaxInstant, obj : 0..MaxCounters]]
    /\ \A c \in Callers : caller[c].now <= instant /\ caller[c].obj <= made

\* Every step of the limiters keeps their types.
LEMMA RateTypesPreserved ==
    ASSUME RateTypes, [RateNext]_rateVars
    PROVE  RateTypes'
<1> USE RateAssumption DEF RateTypes, Waiting
<1>1. ASSUME NEW c \in Callers, AllowBegin(c) PROVE RateTypes'
  BY <1>1 DEF AllowBegin
<1>2. ASSUME NEW c \in Callers, AllowLoad(c) PROVE RateTypes'
  <2>1. CASE mapped # 0
    BY <1>2, <2>1 DEF AllowLoad
  <2>2. CASE mapped = 0
    BY <1>2, <2>2 DEF AllowLoad
  <2> QED
    BY <2>1, <2>2
<1>3. ASSUME NEW c \in Callers, AllowDecide(c) PROVE RateTypes'
  BY <1>3 DEF AllowDecide
<1>4. ASSUME NEW c \in Callers, AllowShared(c) \/ AllowDegraded(c) PROVE RateTypes'
  BY <1>4 DEF AllowShared, AllowDegraded
<1>5. CASE SweepJudge
  BY <1>5 DEF SweepJudge
<1>6. CASE SweepDelete
  BY <1>6 DEF SweepDelete
<1>7. CASE RateTick
  BY <1>7 DEF RateTick
<1>8. CASE UNCHANGED rateVars
  BY <1>8 DEF rateVars
<1> QED
  BY <1>1, <1>2, <1>3, <1>4, <1>5, <1>6, <1>7, <1>8 DEF RateNext

\* The type invariant of the pipeline, in the composition Requests.
LEMMA PipelineTypesHold == RequestsSpec => []PipelineTypeOK
BY PipelineInvariant, PipelineImplies, PTL

\* The type invariant of the limiters, in the composition Requests.
LEMMA RateTypesHold == RequestsSpec => []RateTypeOK
<1>1. RequestsInit => RateTypes
  BY RateAssumption DEF RequestsInit, RateInit, RateTypes, Waiting
<1>2. RateTypes /\ [RequestsNext]_requestVars => RateTypes'
  <2>1. [RequestsNext]_requestVars => [RateNext]_rateVars
    BY DEF RequestsNext, requestVars, rateVars
  <2> QED
    BY <2>1, RateTypesPreserved
<1>3. RateTypes => RateTypeOK
  BY RateAssumption DEF RateTypes, RateTypeOK
<1> QED
  BY <1>1, <1>2, <1>3, PTL DEF RequestsSpec

\* In every state of the parts a request meets, the clock and the counters stay within
\* their bounds, no request has a session or a counter object that was not created, no
\* goroutine a context that serves nobody, and no gauge is negative.
THEOREM RequestsTypesHold == RequestsSpec => []RequestsTypeOK
BY SessionTypesHold, PipelineTypesHold, RateTypesHold, PTL DEF RequestsTypeOK

----------------------------------------------------------------------------
\* Reading a header back after writing: the field's value if it has one, or else what
\* was there; a header that is no field's is untouched.
LEMMA ReadWritten ==
    ASSUME NEW w, NEW k, NEW names, \A f, g \in DOMAIN names : names[f] = names[g] => f = g
    PROVE  /\ \A f \in DOMAIN names :
                Read(Written(w, k, names), names[f]) = Or(k[f], Read(w, names[f]))
           /\ \A n : (\A f \in DOMAIN names : names[f] # n) => Read(Written(w, k, names), n) = Read(w, n)
<1> DEFINE set == {names[f] : f \in Known(k, names)}
           W == Written(w, k, names)
<1>1. W = [n \in DOMAIN w \union set |->
            IF n \in set THEN k[CHOOSE f \in DOMAIN names : names[f] = n] ELSE w[n]]
  BY DEF Written
<1>2. DOMAIN W = DOMAIN w \union set
  BY <1>1
<1>3. \A n \in DOMAIN W : W[n] = IF n \in set THEN k[CHOOSE f \in DOMAIN names : names[f] = n] ELSE w[n]
  BY <1>1, <1>2
<1> HIDE DEF W
<1>4. ASSUME NEW f \in DOMAIN names
      PROVE  Read(W, names[f]) = Or(k[f], Read(w, names[f]))
  <2>1. CASE k[f] # Unset
    <3>1. names[f] \in set
      BY <2>1 DEF Known
    <3>2. (CHOOSE g \in DOMAIN names : names[g] = names[f]) = f
      OBVIOUS
    <3> HIDE DEF set
    <3> QED
      BY <1>2, <1>3, <2>1, <3>1, <3>2 DEF Read, Or
  <2>2. CASE k[f] = Unset
    <3>1. names[f] \notin set
      BY <2>2 DEF Known
    <3> HIDE DEF set
    <3> QED
      BY <1>2, <1>3, <2>2, <3>1 DEF Read, Or
  <2> QED
    BY <2>1, <2>2
<1>5. ASSUME NEW n, \A f \in DOMAIN names : names[f] # n
      PROVE  Read(W, n) = Read(w, n)
  <2>1. n \notin set
    BY <1>5 DEF Known
  <2> HIDE DEF set
  <2> QED
    BY <1>2, <1>3, <2>1 DEF Read
<1> QED
  BY <1>4, <1>5 DEF W

\* The headers the gateway writes, no two fields in one.
LEMMA GatewayNames ==
    /\ DOMAIN GatewayHeaders = {"user", "role", "tenant_id", "username", "email"}
    /\ \A f, g \in DOMAIN GatewayHeaders : GatewayHeaders[f] = GatewayHeaders[g] => f = g
    /\ GatewayHeaders["user"] = "X-User-ID" /\ GatewayHeaders["role"] = "X-User-Role" /\ GatewayHeaders["tenant_id"] = "X-Tenant-ID"
    /\ GatewayHeaders["username"] = "X-Username" /\ GatewayHeaders["email"] = "X-User-Email"
BY DEF GatewayHeaders

\* The headers between HTTP services, no two fields in one.
LEMMA TraceNames ==
    /\ DOMAIN TraceHeaders = {"user", "role", "tenant_id", "username", "email"}
    /\ \A f, g \in DOMAIN TraceHeaders : TraceHeaders[f] = TraceHeaders[g] => f = g
    /\ TraceHeaders["user"] = "X-User-ID" /\ TraceHeaders["role"] = "X-User-Role" /\ TraceHeaders["tenant_id"] = "X-Tenant-ID"
    /\ TraceHeaders["username"] = "X-Username" /\ TraceHeaders["email"] = "X-Email"
BY DEF TraceHeaders

\* The metadata between gRPC services, no two fields in one key.
LEMMA MetaNames ==
    /\ DOMAIN MetaKeys = {"tenant_id", "user", "request", "trace", "source"}
    /\ \A f, g \in DOMAIN MetaKeys : MetaKeys[f] = MetaKeys[g] => f = g
    /\ MetaKeys["tenant_id"] = "x-tenant-id" /\ MetaKeys["user"] = "x-user-id" /\ MetaKeys["request"] = "x-request-id"
    /\ MetaKeys["trace"] = "x-trace-id" /\ MetaKeys["source"] = "x-source-service"
BY DEF MetaKeys

\* What the gateway writes, as it is read back.
LEMMA GatewayRead ==
    ASSUME NEW w, NEW k
    PROVE  /\ \A f \in {"user", "role", "tenant_id", "username", "email"} :
                Read(Written(w, k, GatewayHeaders), GatewayHeaders[f]) = Or(k[f], Read(w, GatewayHeaders[f]))
           /\ Read(Written(w, k, GatewayHeaders), "X-Trace-ID") = Read(w, "X-Trace-ID")
<1> DEFINE W == Written(w, k, GatewayHeaders)
<1>1. /\ \A f \in DOMAIN GatewayHeaders : Read(W, GatewayHeaders[f]) = Or(k[f], Read(w, GatewayHeaders[f]))
      /\ \A n : (\A f \in DOMAIN GatewayHeaders : GatewayHeaders[f] # n) => Read(W, n) = Read(w, n)
  BY ReadWritten, GatewayNames
<1> HIDE DEF W
<1>2. \A f \in DOMAIN GatewayHeaders : GatewayHeaders[f] # "X-Trace-ID"
  BY GatewayNames
<1>3. Read(W, "X-Trace-ID") = Read(w, "X-Trace-ID")
  BY <1>1, <1>2
<1> QED
  BY <1>1, <1>3, GatewayNames DEF W

\* Of several keys only the first is set.
LEMMA FirstOnly ==
    ASSUME NEW md, NEW keys, Len(keys) \in Nat, Len(keys) >= 1,
           \A i \in 2..Len(keys) : Read(md, keys[i]) = Unset
    PROVE  FirstNonEmpty(md, keys) = Read(md, keys[1])
<1> DEFINE set == {i \in 1..Len(keys) : Read(md, keys[i]) # Unset}
<1>1. FirstNonEmpty(md, keys) = IF set = {} THEN Unset ELSE md[keys[CHOOSE i \in set : \A j \in set : i <= j]]
  BY DEF FirstNonEmpty
<1>2. set = IF Read(md, keys[1]) = Unset THEN {} ELSE {1}
  OBVIOUS
<1> HIDE DEF set
<1>3. CASE Read(md, keys[1]) = Unset
  BY <1>1, <1>2, <1>3
<1>4. CASE Read(md, keys[1]) # Unset
  <2>1. set = {1}
    BY <1>2, <1>4
  <2>2. (CHOOSE i \in set : \A j \in set : i <= j) = 1
    BY <2>1
  <2> QED
    BY <1>1, <1>4, <2>1, <2>2 DEF Read
<1> QED
  BY <1>3, <1>4

-----------------------------------------------------------------------------
\* A value for each thing a service can know.
IsKnowledge(k) == k = [f \in Knowledge |-> k[f]]

\* The details that are carried over HTTP without loss.
Carried == {"tenant_id", "role", "username"}

\* What a request carries at each place on its way: nothing is known at the client;
AtClient ==
    place = "client" => wire \in Incoming /\ named = Unset /\ \A f \in Knowledge : origin[f] = Unset

\* the headers say what the gateway found, with the user or none of its details;
OnHTTPWire ==
    place = "http wire" =>
        /\ named = Unset /\ origin["request"] = Unset
        /\ Read(wire, "X-Trace-ID") = origin["trace"] /\ Read(wire, "X-User-ID") = origin["user"]
        /\ origin["user"] # Unset => \A f \in Carried : Read(wire, TraceHeaders[f]) = origin[f]

\* so does an HTTP service;
AtHTTP ==
    place = "http" =>
        /\ named = Unset /\ origin["request"] = Unset /\ here["request"] = Unset /\ here["source"] = Unset
        /\ here["trace"] = origin["trace"] /\ here["user"] = origin["user"]
        /\ origin["user"] # Unset => \A f \in Carried : here[f] = origin[f]
        /\ here["user"] = Unset => \A f \in Details : here[f] = Unset

\* metadata says what is known so far, and a foreign caller's comes first;
OnGRPCWire ==
    place = "grpc wire" =>
        LET meta == ExtractRequestMeta(wire) IN
        /\ \A f \in {"trace", "user", "request"} : origin[f] # Unset => meta[f] = origin[f]
        /\ origin["user"] # Unset => meta["tenant_id"] = origin["tenant_id"]
        /\ origin["user"] = Unset => meta["user"] = Unset \/ origin["tenant_id"] = Unset
        /\ named # Unset => meta["source"] = named

\* a gRPC service knows it, and who called.
AtGRPC ==
    place = "grpc" =>
        /\ here["trace"] = origin["trace"] /\ here["user"] = origin["user"] /\ here["request"] = origin["request"]
        /\ origin["user"] # Unset => here["tenant_id"] = origin["tenant_id"]
        /\ here["source"] = named

Places == {"client", "http wire", "http", "grpc wire", "grpc"}

ChainInv ==
    /\ place \in Places /\ IsKnowledge(here) /\ IsKnowledge(origin)
    /\ AtClient /\ OnHTTPWire /\ AtHTTP /\ OnGRPCWire /\ AtGRPC

\* A generated ID is not empty.
LEMMA NewIDSet == NewID # Unset
BY Zenon DEF NewID, Unset

\* What a service can know.
LEMMA KnowledgeNames ==
    /\ Knowledge = {"username", "role", "tenant_id", "email", "user", "trace", "request", "source"}
    /\ UserFields = {"username", "role", "tenant_id", "email", "user"}
BY DEF Knowledge, UserFields, Details

\* The gateway writes what it found into the headers that trace.Middleware reads.
LEMMA GatewayKeeps ==
    ASSUME ChainInv, Gateway
    PROVE  ChainInv'
<1> DEFINE w == [n \in DOMAIN wire \ {"X-User-ID"} |-> wire[n]]
           u == UserContext
<1>1. place = "client" /\ place' = "http wire" /\ wire' = Written(w, u, GatewayHeaders) /\ here' = here /\ named' = named
  BY DEF Gateway
<1>2. origin' = [f \in Knowledge |-> CASE f \in UserFields -> PassedOn(f)
                                        [] f = "trace" -> Read(wire, "X-Trace-ID")
                                        [] OTHER -> Unset]
  BY DEF Gateway
<1>3. /\ origin'["user"] = u["user"] /\ \A f \in Carried : origin'[f] = Or(u[f], Read(wire, GatewayHeaders[f]))
      /\ origin'["trace"] = Read(wire, "X-Trace-ID") /\ origin'["request"] = Unset
  <2>1. PassedOn("user") = u["user"] /\ \A f \in Carried : PassedOn(f) = Or(u[f], Read(wire, GatewayHeaders[f]))
    BY DEF PassedOn, Carried
  <2> HIDE DEF u
  <2> QED
    BY <1>2, <2>1, KnowledgeNames DEF Carried
<1>4. Read(w, "X-User-ID") = Unset /\ \A n : n # "X-User-ID" => Read(w, n) = Read(wire, n)
  BY DEF Read
<1> HIDE DEF w, u
<1>5. /\ \A f \in {"user", "role", "tenant_id", "username", "email"} :
           Read(wire', GatewayHeaders[f]) = Or(u[f], Read(w, GatewayHeaders[f]))
      /\ Read(wire', "X-Trace-ID") = Read(w, "X-Trace-ID")
  BY <1>1, GatewayRead
<1>6. OnHTTPWire'
  <2>1. Read(wire', "X-User-ID") = u["user"]
    BY <1>4, <1>5, GatewayNames DEF Or
  <2>2. \A f \in Carried : Read(wire', TraceHeaders[f]) = origin'[f]
    <3>1. \A f \in Carried : TraceHeaders[f] = GatewayHeaders[f] /\ GatewayHeaders[f] # "X-User-ID"
      BY GatewayNames, TraceNames DEF Carried
    <3> QED
      BY <1>3, <1>4, <1>5, <3>1 DEF Carried
  <2>3. named' = Unset
    BY <1>1 DEF ChainInv, AtClient
  <2>4. Read(wire', "X-Trace-ID") = origin'["trace"]
    BY <1>3, <1>4, <1>5
  <2> QED
    BY <1>3, <2>1, <2>2, <2>3, <2>4 DEF OnHTTPWire
<1>7. IsKnowledge(origin')
  BY <1>2 DEF IsKnowledge
<1> QED
  BY <1>1, <1>6, <1>7 DEF ChainInv, IsKnowledge, AtClient, AtHTTP, OnGRPCWire, AtGRPC, Places

\* trace.Middleware reads what the headers say.
LEMMA TraceMiddlewareKeeps ==
    ASSUME ChainInv, TraceMiddleware
    PROVE  ChainInv'
<1> DEFINE t == Or(Read(wire, "X-Trace-ID"), NewID)
           known == Read(wire, "X-User-ID")
<1>1. /\ place = "http wire" /\ place' = "http" /\ wire' = wire /\ named' = named
      /\ here' = [f \in Knowledge |->
                    CASE f = "trace" -> t
                      [] f \in UserFields -> IF known = Unset THEN Unset ELSE Read(wire, TraceHeaders[f])
                      [] OTHER -> Unset]
      /\ origin' = [origin EXCEPT !.trace = Or(@, here'.trace)]
  BY DEF TraceMiddleware
<1>2. /\ here'["trace"] = t /\ here'["request"] = Unset /\ here'["source"] = Unset
      /\ \A f \in UserFields : here'[f] = IF known = Unset THEN Unset ELSE Read(wire, TraceHeaders[f])
  BY <1>1, KnowledgeNames
<1>3. /\ \A f \in Knowledge \ {"trace"} : origin'[f] = origin[f]
      /\ origin'["trace"] = Or(origin["trace"], here'["trace"])
      /\ IsKnowledge(origin') /\ IsKnowledge(here')
  BY <1>1, KnowledgeNames DEF ChainInv, IsKnowledge
<1>4. here'["trace"] = origin'["trace"]
  BY <1>1, <1>2, <1>3 DEF ChainInv, OnHTTPWire, Or
<1>5. known = origin["user"]
  BY <1>1 DEF ChainInv, OnHTTPWire
<1> HIDE DEF t, known
<1>6. here'["user"] = origin'["user"]
  BY <1>2, <1>3, <1>5, TraceNames, KnowledgeNames DEF known
<1>7. origin'["user"] # Unset => \A f \in Carried : here'[f] = origin'[f]
  <2> SUFFICES ASSUME origin'["user"] # Unset, NEW f \in Carried
               PROVE  here'[f] = origin'[f]
    OBVIOUS
  <2>1. f \in UserFields /\ f \in Knowledge \ {"trace"} /\ "user" \in Knowledge \ {"trace"}
    BY KnowledgeNames DEF Carried
  <2>2. origin'[f] = origin[f] /\ origin'["user"] = origin["user"]
    BY <1>3, <2>1
  <2>3. Read(wire, TraceHeaders[f]) = origin[f]
    BY <1>1, <2>2 DEF ChainInv, OnHTTPWire
  <2> QED
    BY <1>2, <1>5, <2>1, <2>2, <2>3
<1>8. here'["user"] = Unset => \A f \in Details : here'[f] = Unset
  BY <1>2, <1>3, <1>5, <1>6, KnowledgeNames DEF Details
<1>9. named' = Unset /\ origin'["request"] = Unset
  BY <1>1, <1>3, KnowledgeNames DEF ChainInv, OnHTTPWire
<1>10. AtHTTP'
  BY <1>2, <1>4, <1>6, <1>7, <1>8, <1>9 DEF AtHTTP
<1> QED
  BY <1>1, <1>3, <1>10 DEF ChainInv, AtClient, OnHTTPWire, OnGRPCWire, AtGRPC, Places

\* What injectTrace writes: the trace, and the user's details with a user.
LEMMA InjectRead ==
    ASSUME NEW k
    PROVE  /\ Read(InjectTrace(k), "X-Trace-ID") = k["trace"]
           /\ \A f \in {"user", "role", "tenant_id", "username", "email"} :
                Read(InjectTrace(k), TraceHeaders[f]) = IF k["user"] = Unset THEN Unset ELSE k[f]
<1> DEFINE e == [n \in {} |-> Unset]
           one == [trace |-> "X-Trace-ID"]
           t == Written(e, k, one)
           full == Written(t, k, TraceHeaders)
<1>1. \A n : Read(e, n) = Unset
  BY DEF Read
<1>2. DOMAIN one = {"trace"} /\ one["trace"] = "X-Trace-ID"
  OBVIOUS
<1>3. InjectTrace(k) = IF k["user"] = Unset THEN t ELSE full
  BY DEF InjectTrace
<1> HIDE DEF e, one
<1>4. /\ \A f \in DOMAIN one : Read(t, one[f]) = Or(k[f], Read(e, one[f]))
      /\ \A n : (\A f \in DOMAIN one : one[f] # n) => Read(t, n) = Read(e, n)
  BY <1>2, ReadWritten
<1> HIDE DEF t
<1>5. Read(t, "X-Trace-ID") = k["trace"] /\ \A n : n # "X-Trace-ID" => Read(t, n) = Unset
  BY <1>1, <1>2, <1>4 DEF Or
<1>6. /\ \A f \in DOMAIN TraceHeaders : Read(full, TraceHeaders[f]) = Or(k[f], Read(t, TraceHeaders[f]))
      /\ \A n : (\A f \in DOMAIN TraceHeaders : TraceHeaders[f] # n) => Read(full, n) = Read(t, n)
  BY TraceNames, ReadWritten
<1> HIDE DEF full
<1>7. \A f \in DOMAIN TraceHeaders : TraceHeaders[f] # "X-Trace-ID"
  BY TraceNames
<1>8. \A f \in DOMAIN TraceHeaders : Read(full, TraceHeaders[f]) = k[f]
  BY <1>5, <1>6, <1>7 DEF Or
<1> QED
  BY <1>3, <1>5, <1>6, <1>7, <1>8, TraceNames

\* A call over HTTP carries what the service knows.
LEMMA CallHTTPKeeps ==
    ASSUME ChainInv, CallHTTP
    PROVE  ChainInv'
<1>1. place = "http" /\ place' = "http wire" /\ wire' = InjectTrace(here) /\ UNCHANGED <<here, origin, named>>
  BY DEF CallHTTP
<1>2. AtHTTP /\ named = Unset /\ origin["request"] = Unset
  BY <1>1 DEF ChainInv, AtHTTP
<1>3. /\ Read(wire', "X-Trace-ID") = here["trace"]
      /\ \A f \in {"user", "role", "tenant_id", "username", "email"} :
            Read(wire', TraceHeaders[f]) = IF here["user"] = Unset THEN Unset ELSE here[f]
  BY <1>1, InjectRead
<1>4. Read(wire', "X-User-ID") = here["user"]
  BY <1>3, TraceNames
<1>5. here["user"] # Unset => \A f \in Carried : Read(wire', TraceHeaders[f]) = here[f]
  BY <1>3 DEF Carried
<1>6. OnHTTPWire'
  BY <1>1, <1>2, <1>3, <1>4, <1>5 DEF AtHTTP, OnHTTPWire
<1> QED
  BY <1>1, <1>6 DEF ChainInv, AtClient, AtHTTP, OnGRPCWire, AtGRPC, Places

\* What metaPropagationInterceptor sends.
LEMMA OutgoingRead ==
    ASSUME NEW k, IsKnowledge(k), NEW existing, DOMAIN existing \subseteq {"x-tenant-id"},
           Read(existing, "x-tenant-id") # Unset \/ DOMAIN existing = {}, NEW svc
    PROVE  LET o == Outgoing(k, existing, svc) IN
           /\ Read(o, "x-tenant-id") = Or(Read(existing, "x-tenant-id"), k["tenant_id"])
           /\ Read(o, "x-user-id") = k["user"] /\ Read(o, "x-request-id") = k["request"]
           /\ Read(o, "x-trace-id") = k["trace"] /\ Read(o, "x-source-service") = Or(svc, k["source"])
           /\ \A n : n \notin {"x-tenant-id", "x-user-id", "x-request-id", "x-trace-id", "x-source-service"}
                => Read(o, n) = Unset
<1> DEFINE e == [n \in {} |-> Unset]
           j == [k EXCEPT !.source = Or(svc, @)]
           i == Written(e, j, MetaKeys)
           o == Outgoing(k, existing, svc)
<1>1. \A n : Read(e, n) = Unset
  BY DEF Read
<1>2. j["source"] = Or(svc, k["source"]) /\ \A f \in {"tenant_id", "user", "request", "trace"} : j[f] = k[f]
  BY KnowledgeNames DEF IsKnowledge
<1>3. o = [n \in DOMAIN i \union DOMAIN existing |-> IF n \in DOMAIN existing THEN existing[n] ELSE i[n]]
  BY DEF Outgoing
<1> HIDE DEF e, j
<1>4. /\ \A f \in DOMAIN MetaKeys : Read(i, MetaKeys[f]) = Or(j[f], Read(e, MetaKeys[f]))
      /\ \A n : (\A f \in DOMAIN MetaKeys : MetaKeys[f] # n) => Read(i, n) = Read(e, n)
  BY MetaNames, ReadWritten
<1> HIDE DEF i, o
<1>5. \A f \in DOMAIN MetaKeys : Read(i, MetaKeys[f]) = j[f]
  BY <1>1, <1>4 DEF Or
<1>6. \A n : Read(o, n) = IF n \in DOMAIN existing THEN existing[n] ELSE Read(i, n)
  BY <1>3 DEF Read
<1>7. Read(o, "x-tenant-id") = Or(Read(existing, "x-tenant-id"), k["tenant_id"])
  BY <1>2, <1>5, <1>6, MetaNames DEF Read, Or
<1>8. /\ Read(o, "x-user-id") = k["user"] /\ Read(o, "x-request-id") = k["request"]
      /\ Read(o, "x-trace-id") = k["trace"] /\ Read(o, "x-source-service") = Or(svc, k["source"])
  BY <1>2, <1>5, <1>6, MetaNames
<1>9. ASSUME NEW n, n \notin {"x-tenant-id", "x-user-id", "x-request-id", "x-trace-id", "x-source-service"}
      PROVE  Read(o, n) = Unset
  <2>1. \A f \in DOMAIN MetaKeys : MetaKeys[f] # n
    BY <1>9, MetaNames
  <2>2. Read(i, n) = Unset
    BY <1>1, <1>4, <2>1
  <2> QED
    BY <1>6, <1>9, <2>2
<1> QED
  BY <1>7, <1>8, <1>9 DEF o

\* What the interceptor of a service reads from metadata that grpcclient wrote.
LEMMA ExtractRead ==
    ASSUME NEW md,
           \A n : n \notin {"x-tenant-id", "x-user-id", "x-request-id", "x-trace-id", "x-source-service"}
                => Read(md, n) = Unset
    PROVE  LET meta == ExtractRequestMeta(md) IN
           /\ meta["tenant_id"] = Read(md, "x-tenant-id") /\ meta["user"] = Read(md, "x-user-id")
           /\ meta["request"] = Read(md, "x-request-id") /\ meta["trace"] = Read(md, "x-trace-id")
           /\ meta["source"] = Read(md, "x-source-service")
<1> DEFINE Absent(n) == Read(md, n) = Unset
<1>1. /\ Absent("user-id") /\ Absent("request-id") /\ Absent("trace-id") /\ Absent("x-b3-traceid")
      /\ Absent("traceparent") /\ Absent("x-service-name") /\ Absent("source-service") /\ Absent("x-app-id")
  OBVIOUS
<1>2. FirstNonEmpty(md, <<"x-user-id", "user-id">>) = Read(md, "x-user-id")
  <2> DEFINE keys == <<"x-user-id", "user-id">>
  <2>1. Len(keys) = 2 /\ keys[1] = "x-user-id" /\ keys[2] = "user-id"
    OBVIOUS
  <2> HIDE DEF keys
  <2>2. \A i \in 2..Len(keys) : Read(md, keys[i]) = Unset
    BY <1>1, <2>1
  <2>3. FirstNonEmpty(md, keys) = Read(md, keys[1])
    BY <2>1, <2>2, FirstOnly
  <2> QED
    BY <2>1, <2>3 DEF keys
<1>3. FirstNonEmpty(md, <<"x-request-id", "request-id">>) = Read(md, "x-request-id")
  <2> DEFINE keys == <<"x-request-id", "request-id">>
  <2>1. Len(keys) = 2 /\ keys[1] = "x-request-id" /\ keys[2] = "request-id"
    OBVIOUS
  <2> HIDE DEF keys
  <2>2. \A i \in 2..Len(keys) : Read(md, keys[i]) = Unset
    BY <1>1, <2>1
  <2>3. FirstNonEmpty(md, keys) = Read(md, keys[1])
    BY <2>1, <2>2, FirstOnly
  <2> QED
    BY <2>1, <2>3 DEF keys
<1>4. FirstNonEmpty(md, <<"x-trace-id", "trace-id", "x-b3-traceid">>) = Read(md, "x-trace-id")
  <2> DEFINE keys == <<"x-trace-id", "trace-id", "x-b3-traceid">>
  <2>1. Len(keys) = 3 /\ keys[1] = "x-trace-id" /\ keys[2] = "trace-id" /\ keys[3] = "x-b3-traceid"
    OBVIOUS
  <2> HIDE DEF keys
  <2>2. \A i \in 2..Len(keys) : Read(md, keys[i]) = Unset
    BY <1>1, <2>1
  <2>3. FirstNonEmpty(md, keys) = Read(md, keys[1])
    BY <2>1, <2>2, FirstOnly
  <2> QED
    BY <2>1, <2>3 DEF keys
<1>5. FirstNonEmpty(md, <<"x-source-service", "x-service-name", "source-service", "x-app-id">>)
        = Read(md, "x-source-service")
  <2> DEFINE keys == <<"x-source-service", "x-service-name", "source-service", "x-app-id">>
  <2>1. /\ Len(keys) = 4 /\ keys[1] = "x-source-service" /\ keys[2] = "x-service-name"
        /\ keys[3] = "source-service" /\ keys[4] = "x-app-id"
    OBVIOUS
  <2> HIDE DEF keys
  <2>2. \A i \in 2..Len(keys) : Read(md, keys[i]) = Unset
    BY <1>1, <2>1
  <2>3. FirstNonEmpty(md, keys) = Read(md, keys[1])
    BY <2>1, <2>2, FirstOnly
  <2> QED
    BY <2>1, <2>3 DEF keys
<1>6. ParseTraceParent(Read(md, "traceparent")) = Unset
  BY <1>1 DEF ParseTraceParent
<1>7. LET meta == ExtractRequestMeta(md) IN
      /\ meta["tenant_id"] = Read(md, "x-tenant-id")
      /\ meta["user"] = FirstNonEmpty(md, <<"x-user-id", "user-id">>)
      /\ meta["request"] = FirstNonEmpty(md, <<"x-request-id", "request-id">>)
      /\ meta["trace"] = Or(FirstNonEmpty(md, <<"x-trace-id", "trace-id", "x-b3-traceid">>),
                            ParseTraceParent(Read(md, "traceparent")))
      /\ meta["source"] = FirstNonEmpty(md, <<"x-source-service", "x-service-name", "source-service", "x-app-id">>)
  BY KnowledgeNames DEF ExtractRequestMeta, None
<1> QED
  BY <1>2, <1>3, <1>4, <1>5, <1>6, <1>7 DEF Or


\* A call over gRPC carries it too, with the tenant the caller sets and its name.
LEMMA CallGRPCKeeps ==
    ASSUME ChainInv,
           NEW existing \in {[n \in {} |-> Unset], [n \in {"x-tenant-id"} |-> "caller"]},
           NEW svc \in {Unset, "a", "b"}, CallGRPC(existing, svc)
    PROVE  ChainInv'
<1> DEFINE set == Read(existing, "x-tenant-id")
           meta == ExtractRequestMeta(wire')
<1>1. /\ place \in {"http", "grpc"} /\ place' = "grpc wire" /\ wire' = Outgoing(here, existing, svc)
      /\ named' = Or(svc, named) /\ here' = here /\ origin' = [origin EXCEPT !.tenant_id = Or(set, @)]
  BY DEF CallGRPC
<1>2. DOMAIN existing \subseteq {"x-tenant-id"} /\ (set # Unset \/ DOMAIN existing = {})
  <2>1. "caller" # Unset
    BY Zenon DEF Unset
  <2>2. CASE existing = [n \in {} |-> Unset]
    BY <2>2
  <2>3. CASE existing = [n \in {"x-tenant-id"} |-> "caller"]
    BY <2>1, <2>3 DEF Read
  <2> QED
    BY <2>2, <2>3
<1>3. /\ IsKnowledge(origin') /\ origin'["tenant_id"] = Or(set, origin["tenant_id"])
      /\ \A f \in {"trace", "user", "request"} : origin'[f] = origin[f]
  BY <1>1, KnowledgeNames DEF ChainInv, IsKnowledge
<1>4. IsKnowledge(here)
  BY DEF ChainInv
<1> HIDE DEF set
<1>5. LET o == Outgoing(here, existing, svc) IN
      /\ Read(o, "x-tenant-id") = Or(set, here["tenant_id"])
      /\ Read(o, "x-user-id") = here["user"] /\ Read(o, "x-request-id") = here["request"]
      /\ Read(o, "x-trace-id") = here["trace"] /\ Read(o, "x-source-service") = Or(svc, here["source"])
      /\ \A n : n \notin {"x-tenant-id", "x-user-id", "x-request-id", "x-trace-id", "x-source-service"}
            => Read(o, n) = Unset
  BY <1>2, <1>4, OutgoingRead DEF set
<1>6. /\ meta["tenant_id"] = Or(set, here["tenant_id"]) /\ meta["user"] = here["user"]
      /\ meta["request"] = here["request"] /\ meta["trace"] = here["trace"]
      /\ meta["source"] = Or(svc, here["source"])
  BY <1>1, <1>5, ExtractRead
<1> HIDE DEF meta
<1>7. /\ here["trace"] = origin["trace"] /\ here["user"] = origin["user"] /\ here["request"] = origin["request"]
      /\ origin["user"] # Unset => here["tenant_id"] = origin["tenant_id"]
      /\ here["source"] = named
  BY <1>1 DEF ChainInv, AtHTTP, AtGRPC, Carried
<1>8. /\ \A f \in {"trace", "user", "request"} : origin'[f] # Unset => meta[f] = origin'[f]
      /\ origin'["user"] # Unset => meta["tenant_id"] = origin'["tenant_id"]
      /\ origin'["user"] = Unset => meta["user"] = Unset
      /\ named' # Unset => meta["source"] = named'
  BY <1>1, <1>3, <1>6, <1>7 DEF Or
<1>9. OnGRPCWire'
  BY <1>8 DEF OnGRPCWire, meta
<1> QED
  BY <1>1, <1>3, <1>9 DEF ChainInv, AtClient, OnHTTPWire, AtHTTP, AtGRPC, Places

\* A foreign caller begins a chain about which nothing is known.
LEMMA CallForeignKeeps ==
    ASSUME ChainInv, NEW md \in Foreign, CallForeign(md)
    PROVE  ChainInv'
<1>1. place = "client" /\ place' = "grpc wire" /\ UNCHANGED <<here, origin, named>>
  BY DEF CallForeign
<1>2. named' = Unset /\ \A f \in {"trace", "user", "request", "tenant_id"} : origin'[f] = Unset
  BY <1>1, KnowledgeNames DEF ChainInv, AtClient
<1>3. OnGRPCWire'
  BY <1>2 DEF OnGRPCWire
<1> QED
  BY <1>1, <1>3 DEF ChainInv, AtClient, OnHTTPWire, AtHTTP, AtGRPC, Places

\* The server's interceptor learns what the metadata says and fills in the rest.
LEMMA InterceptorKeeps ==
    ASSUME ChainInv, UnaryServerInterceptor
    PROVE  ChainInv'
<1> DEFINE meta == ExtractRequestMeta(wire)
           request == Or(meta["request"], NewID)
<1>1. /\ place = "grpc wire" /\ place' = "grpc"
      /\ here' = [meta EXCEPT !.request = request, !.trace = Or(@, request), !.tenant_id = Or(@, DefaultTenant)]
      /\ origin' = [f \in Knowledge |-> Or(origin[f], here'[f])]
      /\ named' = Or(named, meta["source"])
  BY DEF UnaryServerInterceptor
<1>2. IsKnowledge(meta)
  BY KnowledgeNames DEF ExtractRequestMeta, None, IsKnowledge
<1>3. /\ \A f \in {"trace", "user", "request"} : origin[f] # Unset => meta[f] = origin[f]
      /\ origin["user"] # Unset => meta["tenant_id"] = origin["tenant_id"]
      /\ origin["user"] = Unset => meta["user"] = Unset \/ origin["tenant_id"] = Unset
      /\ named # Unset => meta["source"] = named
  BY <1>1 DEF ChainInv, OnGRPCWire
<1> HIDE DEF meta
<1>4. /\ here'["request"] = Or(meta["request"], NewID) /\ here'["trace"] = Or(meta["trace"], request)
      /\ here'["tenant_id"] = Or(meta["tenant_id"], DefaultTenant)
      /\ here'["user"] = meta["user"] /\ here'["source"] = meta["source"] /\ IsKnowledge(here')
  <2> HIDE DEF request
  <2> QED
    BY <1>1, <1>2, KnowledgeNames DEF IsKnowledge, request
<1>5. /\ \A f \in {"trace", "user", "request", "tenant_id"} : origin'[f] = Or(origin[f], here'[f])
      /\ IsKnowledge(origin')
  <2>1. origin' = [f \in Knowledge |-> Or(origin[f], here'[f])]
    BY <1>1
  <2>2. \A f \in Knowledge : origin'[f] = Or(origin[f], here'[f])
    BY ONLY <2>1
  <2>3. IsKnowledge(origin')
    BY ONLY <2>1 DEF IsKnowledge
  <2> QED
    BY <2>2, <2>3, KnowledgeNames
<1>6. /\ here'["trace"] = origin'["trace"] /\ here'["user"] = origin'["user"] /\ here'["request"] = origin'["request"]
      /\ origin'["user"] # Unset => here'["tenant_id"] = origin'["tenant_id"]
      /\ here'["source"] = named'
  BY <1>1, <1>3, <1>4, <1>5 DEF Or
<1>7. AtGRPC'
  BY <1>6 DEF AtGRPC
<1> QED
  BY <1>1, <1>4, <1>5, <1>7 DEF ChainInv, AtClient, OnHTTPWire, AtHTTP, OnGRPCWire, Places

\* A chain begins with a request at the client.
LEMMA ChainStarts == ChainInit => ChainInv
<1> SUFFICES ASSUME ChainInit PROVE ChainInv
  OBVIOUS
<1>1. /\ place = "client" /\ wire \in Incoming /\ named = Unset
      /\ here = [f \in Knowledge |-> Unset] /\ origin = [f \in Knowledge |-> Unset]
  BY DEF ChainInit, None
<1> QED
  BY <1>1 DEF ChainInv, IsKnowledge, AtClient, OnHTTPWire, AtHTTP, OnGRPCWire, AtGRPC, Places

\* Every service of a chain knows the trace, the user and the tenant of its first
\* one, for every login, whatever headers and metadata requests come with, and for
\* chains of any length over HTTP, gRPC or both.
THEOREM IdentityStaysKept == RequestsSpec => []IdentityKept
<1>1. RequestsInit => ChainInv
  BY ChainStarts DEF RequestsInit
<1>2. ChainInv /\ [RequestsNext]_requestVars => ChainInv'
  <2> SUFFICES ASSUME ChainInv, [RequestsNext]_requestVars PROVE ChainInv'
    OBVIOUS
  <2>1. ChainNext \/ UNCHANGED chainVars
    BY DEF RequestsNext, requestVars, chainVars
  <2>2. CASE UNCHANGED chainVars
    BY <2>2 DEF chainVars, ChainInv, IsKnowledge, AtClient, OnHTTPWire, AtHTTP, OnGRPCWire, AtGRPC
  <2>3. CASE ChainNext
    BY <2>3, GatewayKeeps, TraceMiddlewareKeeps, CallHTTPKeeps, InterceptorKeeps, CallForeignKeeps, CallGRPCKeeps
       DEF ChainNext
  <2> QED
    BY <2>1, <2>2, <2>3
<1>3. ChainInv => IdentityKept
  <2> SUFFICES ASSUME ChainInv PROVE IdentityKept
    OBVIOUS
  <2>1. place = "http" =>
          /\ here["trace"] = origin["trace"] /\ here["user"] = origin["user"]
          /\ origin["user"] # Unset => /\ here["tenant_id"] = origin["tenant_id"]
                                       /\ here["role"] = origin["role"] /\ here["username"] = origin["username"]
          /\ here["user"] = Unset => \A f \in Details : here[f] = Unset
    BY DEF ChainInv, AtHTTP, Carried
  <2>2. place = "grpc" => AtGRPC
    BY DEF ChainInv
  <2>3. CASE place = "http"
    BY <2>1, <2>3 DEF IdentityKept
  <2>4. CASE place = "grpc"
    BY <2>2, <2>4 DEF IdentityKept, AtGRPC
  <2>5. CASE place \notin {"http", "grpc"}
    BY <2>5 DEF IdentityKept
  <2> QED
    BY <2>3, <2>4, <2>5
<1> QED
  BY <1>1, <1>2, <1>3, PTL DEF RequestsSpec

-----------------------------------------------------------------------------
(* The bound of the limiters *)

\* The counter objects, and the history of the admissions.
CounterRecords == [count : Nat, start : Nat, requests : SUBSET Nat]
Admissions == [now : Nat, obj : Nat, start : Nat]

\* What refers to a counter or to an admission refers to one there is; the map
\* holds the newest counter or none; and no request is later than the lag.
RateShape ==
    /\ RateTypes /\ limiter \in {"simple", "sliding", "redis"}
    /\ counter \in [1..MaxCounters -> CounterRecords] /\ admitted \in Seq(Admissions)
    /\ \A o \in 1..MaxCounters : counter[o].requests \subseteq 1..Len(admitted)
    /\ \A i \in 1..Len(admitted) : admitted[i].obj \in 1..made /\ admitted[i].now <= instant
    /\ mapped \in {0, made} /\ sweep \in {0, mapped}
    /\ \A c \in Callers :
          /\ caller[c].at = "decide" => caller[c].obj \in 1..made
          /\ caller[c].at # "idle" => instant - caller[c].now <= MaxLag

\* A counter after a decision: it is a counter still, and what it holds was
\* admitted before or now.
LEMMA CountedRecord ==
  ASSUME RateShape, NEW o \in 1..MaxCounters, NEW now \in Nat
  PROVE  /\ Counted(counter[o], now) \in CounterRecords
         /\ Counted(counter[o], now).requests \subseteq
              (1..Len(admitted)) \union (IF Allowed(counter[o], now) THEN {Len(admitted) + 1} ELSE {})
<1> DEFINE k == counter[o]
<1>1. k \in CounterRecords /\ k.requests \subseteq 1..Len(admitted) /\ Len(admitted) \in Nat
  BY DEF RateShape
<1> HIDE DEF k
<1>2. CASE limiter = "simple"
  <2>1. Counted(k, now) = k \/ Counted(k, now) = SimpleCount(k, now)
    BY <1>2 DEF Counted
  <2>2. SimpleCount(k, now) \in CounterRecords /\ SimpleCount(k, now).requests = k.requests
    <3>1. [k EXCEPT !.count = 1, !.start = now] \in CounterRecords
          /\ [k EXCEPT !.count = 1, !.start = now].requests = k.requests
      BY <1>1 DEF CounterRecords
    <3>2. [k EXCEPT !.count = @ + 1] \in CounterRecords /\ [k EXCEPT !.count = @ + 1].requests = k.requests
      BY <1>1 DEF CounterRecords
    <3> QED  BY <3>1, <3>2 DEF SimpleCount
  <2>3. Counted(k, now) \in CounterRecords /\ Counted(k, now).requests \subseteq 1..Len(admitted)
    BY <1>1, <2>1, <2>2
  <2> QED  BY <2>3 DEF k
<1>3. CASE limiter # "simple"
  <2> DEFINE R == IF Allowed(k, now) THEN Recent(k, now) \union {Len(admitted) + 1} ELSE Recent(k, now)
  <2>1. Counted(k, now) = [k EXCEPT !.requests = R]
    BY <1>3 DEF Counted
  <2>2. Recent(k, now) \subseteq 1..Len(admitted)
    BY <1>1 DEF Recent
  <2>3. R \subseteq (1..Len(admitted)) \union (IF Allowed(k, now) THEN {Len(admitted) + 1} ELSE {})
    BY <2>2
  <2>4. R \in SUBSET Nat
    BY <1>1, <2>3
  <2> HIDE DEF R
  <2>5. [k EXCEPT !.requests = R] \in CounterRecords /\ [k EXCEPT !.requests = R].requests = R
    BY <1>1, <2>4 DEF CounterRecords
  <2> QED  BY <2>1, <2>3, <2>5 DEF k
<1> QED
  BY <1>2, <1>3

\* The history after a decision.
LEMMA Decision ==
  ASSUME RateShape, NEW c \in Callers, AllowDecide(c),
         NEW o, o = caller[c].obj, NEW now, now = caller[c].now
  PROVE  /\ o \in 1..made /\ o \in 1..MaxCounters /\ now \in Nat /\ now <= instant /\ instant - now <= MaxLag
         /\ counter' = [counter EXCEPT ![o] = Counted(counter[o], now)]
         /\ ~Allowed(counter[o], now) => admitted' = admitted
         /\ Allowed(counter[o], now) =>
              /\ admitted' \in Seq(Admissions) /\ Len(admitted') = Len(admitted) + 1
              /\ \A i \in 1..Len(admitted) : admitted'[i] = admitted[i]
              /\ admitted'[Len(admitted) + 1] = [now |-> now, obj |-> o, start |-> Counted(counter[o], now).start]
<1>1. o \in 1..made /\ o \in 1..MaxCounters /\ now \in Nat /\ now <= instant /\ instant - now <= MaxLag
  BY RateAssumption DEF AllowDecide, RateShape, RateTypes
<1>2. /\ counter' = [counter EXCEPT ![o] = Counted(counter[o], now)]
      /\ admitted' = IF Allowed(counter[o], now)
                     THEN Append(admitted, [now |-> now, obj |-> o, start |-> Counted(counter[o], now).start]) ELSE admitted
  <2> DEFINE P(p, n) ==
        /\ counter' = [counter EXCEPT ![p] = Counted(counter[p], n)]
        /\ admitted' = IF Allowed(counter[p], n)
                       THEN Append(admitted, [now |-> n, obj |-> p, start |-> Counted(counter[p], n).start]) ELSE admitted
  <2>1. P(caller[c].obj, caller[c].now)
    BY DEF AllowDecide
  <2> HIDE DEF P
  <2>2. P(o, now)
    BY <2>1
  <2> QED  BY <2>2 DEF P
<1> DEFINE e == [now |-> now, obj |-> o, start |-> Counted(counter[o], now).start]
<1>3. e \in Admissions
  <2>1. Counted(counter[o], now) \in CounterRecords
    BY <1>1, CountedRecord
  <2> QED  BY <1>1, <2>1 DEF Admissions, CounterRecords
<1>4. admitted \in Seq(Admissions)
  BY DEF RateShape
<1>5. ASSUME Allowed(counter[o], now)
      PROVE  /\ admitted' \in Seq(Admissions) /\ Len(admitted') = Len(admitted) + 1
             /\ \A i \in 1..Len(admitted) : admitted'[i] = admitted[i]
             /\ admitted'[Len(admitted) + 1] = e
  <2>1. admitted' = Append(admitted, e)
    BY <1>2, <1>5
  <2> HIDE DEF e
  <2> QED  BY <1>3, <1>4, <2>1, AppendProperties
<1> QED
  BY <1>1, <1>2, <1>5

\* The fields of the history.
LEMMA AdmissionFields ==
  ASSUME RateShape
  PROVE  /\ Len(admitted) \in Nat /\ DOMAIN admitted = 1..Len(admitted)
         /\ \A i \in 1..Len(admitted) : admitted[i].now \in Nat /\ admitted[i].obj \in Nat /\ admitted[i].start \in Nat
<1>1. admitted \in Seq(Admissions)
  BY DEF RateShape
<1>2. \A i \in 1..Len(admitted) : admitted[i] \in Admissions
  BY <1>1
<1>3. Len(admitted) \in Nat /\ DOMAIN admitted = 1..Len(admitted)
  BY <1>1
<1> QED
  BY <1>2, <1>3 DEF Admissions

\* A request that shares its member: the list only loses what is too old.
LEMMA SharedRecord ==
  ASSUME RateShape, NEW c \in Callers, AllowShared(c)
  PROVE  LET o == caller[c].obj recent == Recent(counter[o], caller[c].now) IN
         /\ o \in 1..MaxCounters /\ caller[c].now \in Nat /\ caller[c].now <= instant
         /\ recent \subseteq counter[o].requests /\ Cardinality(recent) < Rate
         /\ counter' \in [1..MaxCounters -> CounterRecords] /\ counter'[o].requests = recent
         /\ \A p \in 1..MaxCounters \ {o} : counter'[p] = counter[p]
         /\ \A p \in 1..MaxCounters : counter'[p].requests \subseteq counter[p].requests
         /\ UNCHANGED <<instant, admitted>>
<1> DEFINE o == caller[c].obj
           recent == Recent(counter[o], caller[c].now)
<1>1. /\ caller[c].at = "decide" /\ Cardinality(recent) < Rate /\ UNCHANGED <<instant, admitted>>
      /\ counter' = [counter EXCEPT ![o].requests = recent]
  BY DEF AllowShared
<1>2. o \in 1..MaxCounters /\ caller[c].now \in Nat /\ caller[c].now <= instant
  BY <1>1, RateAssumption DEF RateShape, RateTypes
<1>3. recent \subseteq counter[o].requests
  BY DEF Recent
<1>4. counter \in [1..MaxCounters -> CounterRecords]
  BY DEF RateShape
<1> HIDE DEF o, recent
<1>5. recent \subseteq Nat
  BY <1>2, <1>3, <1>4 DEF CounterRecords
<1>6. /\ counter' \in [1..MaxCounters -> CounterRecords] /\ counter'[o].requests = recent
      /\ \A p \in 1..MaxCounters \ {o} : counter'[p] = counter[p]
  BY <1>1, <1>2, <1>4, <1>5 DEF CounterRecords
<1> QED
  BY <1>1, <1>2, <1>3, <1>6 DEF o, recent

\* Every step of the limiters keeps the shape.
LEMMA RateShapeKept ==
  ASSUME RateShape, [RateNext]_rateVars
  PROVE  RateShape'
<1> USE RateAssumption
<1>0. RateTypes'
  BY RateTypesPreserved DEF RateShape
<1>1. ASSUME NEW c \in Callers, AllowBegin(c) PROVE RateShape'
  BY <1>0, <1>1 DEF AllowBegin, RateShape, RateTypes
<1>2. ASSUME NEW c \in Callers, AllowLoad(c) PROVE RateShape'
  <2>0. /\ caller[c].at = "load" /\ UNCHANGED <<limiter, instant, sweep, due, admitted>>
        /\ caller \in [Callers -> [at : {"idle", "load", "decide"}, now : 0..MaxInstant, obj : 0..MaxCounters]]
    BY <1>2 DEF AllowLoad, RateShape, RateTypes
  <2>1. CASE mapped # 0
    <3>1. UNCHANGED <<counter, made, mapped>> /\ caller' = [caller EXCEPT ![c].at = "decide", ![c].obj = mapped]
      BY <1>2, <2>1 DEF AllowLoad
    <3>2. /\ caller'[c].at = "decide" /\ caller'[c].obj = mapped /\ caller'[c].now = caller[c].now
          /\ \A d \in Callers \ {c} : caller'[d] = caller[d]
      BY <2>0, <3>1
    <3> QED  BY <1>0, <2>0, <2>1, <3>1, <3>2, SMTT(30) DEF RateShape, RateTypes
  <2>2. CASE mapped = 0
    <3>1. /\ made < MaxCounters /\ made' = made + 1 /\ mapped' = made + 1
          /\ counter' = [counter EXCEPT ![made + 1].start = caller[c].now]
          /\ caller' = [caller EXCEPT ![c].at = "decide", ![c].obj = made + 1]
      BY <1>2, <2>2 DEF AllowLoad
    <3>2. /\ caller'[c].at = "decide" /\ caller'[c].obj = made + 1 /\ caller'[c].now = caller[c].now
          /\ \A d \in Callers \ {c} : caller'[d] = caller[d]
      BY <2>0, <3>1
    <3>3. caller[c].now \in Nat /\ made \in Nat /\ made + 1 \in 1..MaxCounters /\ sweep = 0
      BY <2>0, <2>2, <3>1 DEF RateShape, RateTypes
    <3>4. /\ counter' \in [1..MaxCounters -> CounterRecords]
          /\ \A o \in 1..MaxCounters : counter'[o].requests = counter[o].requests
      BY <3>1, <3>3 DEF RateShape, CounterRecords
    <3>5. \A d \in Callers : /\ caller'[d].at = "decide" => caller'[d].obj \in 1..made'
                             /\ caller'[d].at # "idle" => instant' - caller'[d].now <= MaxLag
      BY <2>0, <3>1, <3>2, <3>3 DEF RateShape
    <3>6. \A i \in 1..Len(admitted) : admitted[i].obj \in 1..made'
      BY <3>1, <3>3 DEF RateShape
    <3> QED  BY <1>0, <2>0, <3>1, <3>3, <3>4, <3>5, <3>6 DEF RateShape
  <2> QED  BY <2>1, <2>2
<1>3. ASSUME NEW c \in Callers, AllowDecide(c) PROVE RateShape'
  <2>0. UNCHANGED <<limiter, instant, made, mapped, sweep>> /\ caller' = [caller EXCEPT ![c] = Waiting]
    BY <1>3 DEF AllowDecide
  <2>1. \A d \in Callers : /\ caller'[d].at = "decide" => caller'[d].obj \in 1..made
                           /\ caller'[d].at # "idle" => instant - caller'[d].now <= MaxLag
    BY <2>0 DEF RateShape, RateTypes, Waiting
  <2>2. PICK o, now : o = caller[c].obj /\ now = caller[c].now
    OBVIOUS
  <2> DEFINE k == Counted(counter[o], now)
  <2>3. /\ o \in 1..made /\ o \in 1..MaxCounters /\ now \in Nat /\ now <= instant
        /\ counter' = [counter EXCEPT ![o] = k]
        /\ ~Allowed(counter[o], now) => admitted' = admitted
        /\ Allowed(counter[o], now) =>
              /\ admitted' \in Seq(Admissions) /\ Len(admitted') = Len(admitted) + 1
              /\ \A i \in 1..Len(admitted) : admitted'[i] = admitted[i]
              /\ admitted'[Len(admitted) + 1] = [now |-> now, obj |-> o, start |-> k.start]
    BY <1>3, <2>2, Decision
  <2>4. /\ k \in CounterRecords
        /\ k.requests \subseteq (1..Len(admitted)) \union (IF Allowed(counter[o], now) THEN {Len(admitted) + 1} ELSE {})
    BY <2>3, CountedRecord
  <2> HIDE DEF k
  <2>5. Len(admitted) \in Nat /\ counter \in [1..MaxCounters -> CounterRecords]
        /\ \A p \in 1..MaxCounters : counter[p].requests \subseteq 1..Len(admitted)
    BY DEF RateShape
  <2>6. counter' \in [1..MaxCounters -> CounterRecords] /\ counter'[o] = k
        /\ \A p \in 1..MaxCounters \ {o} : counter'[p] = counter[p]
    BY <2>3, <2>4, <2>5
  <2>7. CASE Allowed(counter[o], now)
    <3>1. \A i \in 1..Len(admitted') : i \in 1..Len(admitted) \/ i = Len(admitted) + 1
      BY <2>3, <2>5, <2>7
    <3>2. \A i \in 1..Len(admitted') : admitted'[i].obj \in 1..made /\ admitted'[i].now <= instant
      <4>1. \A i \in 1..Len(admitted) : admitted[i].obj \in 1..made /\ admitted[i].now <= instant
        BY DEF RateShape
      <4>2. admitted'[Len(admitted) + 1].obj = o /\ admitted'[Len(admitted) + 1].now = now
        BY <2>3, <2>7
      <4> QED  BY <2>3, <2>7, <3>1, <4>1, <4>2
    <3>3. \A p \in 1..MaxCounters : counter'[p].requests \subseteq 1..Len(admitted')
      BY <2>3, <2>4, <2>5, <2>6, <2>7
    <3> QED  BY <1>0, <2>0, <2>1, <2>3, <2>6, <2>7, <3>2, <3>3 DEF RateShape
  <2>8. CASE ~Allowed(counter[o], now)
    <3>1. \A p \in 1..MaxCounters : counter'[p].requests \subseteq 1..Len(admitted')
      BY <2>3, <2>4, <2>5, <2>6, <2>8
    <3> QED  BY <1>0, <2>0, <2>1, <2>3, <2>6, <2>8, <3>1 DEF RateShape
  <2> QED  BY <2>7, <2>8
<1>4. ASSUME NEW c \in Callers, AllowShared(c) \/ AllowDegraded(c) PROVE RateShape'
  <2>1. UNCHANGED <<limiter, instant, made, mapped, sweep, admitted>> /\ caller' = [caller EXCEPT ![c] = Waiting]
    BY <1>4 DEF AllowShared, AllowDegraded
  <2>2. \A d \in Callers : /\ caller'[d].at = "decide" => caller'[d].obj \in 1..made
                           /\ caller'[d].at # "idle" => instant - caller'[d].now <= MaxLag
    BY <2>1 DEF RateShape, RateTypes, Waiting
  <2>3. /\ counter' \in [1..MaxCounters -> CounterRecords]
        /\ \A o \in 1..MaxCounters : counter'[o].requests \subseteq 1..Len(admitted)
    <3>1. CASE AllowShared(c)
      BY <3>1, SharedRecord DEF RateShape
    <3>2. CASE AllowDegraded(c)
      BY <3>2 DEF AllowDegraded, RateShape
    <3> QED  BY <1>4, <3>1, <3>2
  <2> QED  BY <1>0, <2>1, <2>2, <2>3 DEF RateShape
<1>5. CASE SweepJudge
  BY <1>0, <1>5 DEF SweepJudge, RateShape, RateTypes
<1>6. CASE SweepDelete
  BY <1>0, <1>6 DEF SweepDelete, RateShape, RateTypes
<1>7. CASE RateTick
  <2>1. /\ instant \in Nat /\ instant' = instant + 1
        /\ UNCHANGED <<limiter, counter, made, mapped, caller, sweep, admitted>>
        /\ \A c \in Callers : caller[c].at # "idle" => instant - caller[c].now < MaxLag
    BY <1>7 DEF RateTick, RateShape, RateTypes
  <2>2. \A i \in 1..Len(admitted) : admitted[i].obj \in 1..made /\ admitted[i].now \in Nat /\ admitted[i].now <= instant
    BY AdmissionFields DEF RateShape
  <2>3. \A c \in Callers : caller[c].now \in Nat
    BY DEF RateShape, RateTypes
  <2>4. \A i \in 1..Len(admitted) : admitted'[i].obj \in 1..made' /\ admitted'[i].now <= instant'
    BY <2>1, <2>2
  <2>5. \A c \in Callers : caller'[c].at # "idle" => instant' - caller'[c].now <= MaxLag
    BY <2>1, <2>3
  <2> QED  BY <1>0, <2>1, <2>4, <2>5 DEF RateShape
<1>8. CASE UNCHANGED rateVars
  BY <1>0, <1>8 DEF rateVars, RateShape
<1> QED
  BY <1>1, <1>2, <1>3, <1>4, <1>5, <1>6, <1>7, <1>8 DEF RateNext

-----------------------------------------------------------------------------
\* A set of numbers up to n, and the one after n.
LEMMA NextNumber ==
  ASSUME NEW n \in Nat, NEW A \in SUBSET (1..n)
  PROVE  /\ IsFiniteSet(A) /\ Cardinality(A) \in Nat /\ Cardinality(A \union {n + 1}) = Cardinality(A) + 1
         /\ \A B \in SUBSET A : Cardinality(B) <= Cardinality(A)
<1>1. IsFiniteSet(1..n)
  BY FS_Interval
<1>2. IsFiniteSet(A) /\ Cardinality(A) \in Nat
  BY <1>1, FS_Subset, FS_CardinalityType
<1>3. n + 1 \notin A
  OBVIOUS
<1> QED
  BY <1>2, <1>3, FS_AddElement, FS_Subset

\* The requests a fixed-window counter has admitted since it began at g.
InWindow(o, g) == {i \in 1..Len(admitted) : admitted[i].obj = o /\ admitted[i].start = g}

\* SimpleLimiter: a counter counts the requests of its window, its windows are
\* apart, and a request is at most the lag older than the window it counts in.
SimpleInv ==
    \A o \in 1..MaxCounters :
        /\ counter[o].start <= instant /\ counter[o].count = Cardinality(InWindow(o, counter[o].start))
        /\ \A g \in Nat : Cardinality(InWindow(o, g)) <= Rate
        /\ \A i \in 1..Len(admitted) : admitted[i].obj = o =>
              /\ admitted[i].now >= admitted[i].start - MaxLag /\ admitted[i].now < admitted[i].start + Window
              /\ admitted[i].start = counter[o].start \/ admitted[i].start + Window <= counter[o].start
              /\ \A j \in 1..Len(admitted) : admitted[j].obj = o =>
                    \/ admitted[i].start = admitted[j].start
                    \/ admitted[i].start + Window <= admitted[j].start
                    \/ admitted[j].start + Window <= admitted[i].start

\* SlidingWindowLimiter and the script: a counter lists no more than the rate, and
\* everything it has admitted that is younger than the window.
SlidingInv ==
    \A o \in 1..MaxCounters :
        /\ Cardinality(counter[o].requests) <= Rate
        /\ \A i \in counter[o].requests : admitted[i].obj = o
        /\ \A i \in 1..Len(admitted) :
              admitted[i].obj = o /\ admitted[i].now > instant - Window => i \in counter[o].requests
        /\ \A t \in Nat : Cardinality(Stretch(o, t, Window - MaxLag)) <= Rate

\* A decision of a sliding window: what it admits fits with everything in the
\* stretch, for all of that is listed still.
LEMMA SlidingDecides ==
  ASSUME RateShape, SlidingInv, limiter # "simple", NEW c \in Callers, AllowDecide(c)
  PROVE  SlidingInv'
<1> USE RateAssumption
<1>1. PICK o, now : o = caller[c].obj /\ now = caller[c].now
  OBVIOUS
<1> DEFINE n == Len(admitted)
           k == counter[o]
           R == Recent(k, now)
<1>2. /\ o \in 1..made /\ o \in 1..MaxCounters /\ now \in Nat /\ now <= instant /\ instant - now <= MaxLag
      /\ counter' = [counter EXCEPT ![o] = Counted(k, now)]
      /\ ~Allowed(k, now) => admitted' = admitted
      /\ Allowed(k, now) =>
            /\ admitted' \in Seq(Admissions) /\ Len(admitted') = n + 1
            /\ \A i \in 1..n : admitted'[i] = admitted[i]
            /\ admitted'[n + 1] = [now |-> now, obj |-> o, start |-> Counted(k, now).start]
  BY <1>1, Decision
<1>3. n \in Nat /\ instant' = instant /\ instant \in Nat /\ DOMAIN admitted = 1..n
      /\ counter \in [1..MaxCounters -> CounterRecords]
  BY AdmissionFields DEF AllowDecide, RateShape, RateTypes
<1>4. \A i \in 1..n : admitted[i].now \in Nat /\ admitted[i].obj \in Nat
  BY AdmissionFields
<1>5. /\ k \in CounterRecords /\ k.requests \subseteq 1..n /\ R \subseteq k.requests
      /\ \A i \in k.requests : i \in R <=> admitted[i].now > now - Window
  BY <1>2, <1>3 DEF RateShape, Recent
<1>6. IsFiniteSet(k.requests) /\ Cardinality(R) \in Nat /\ Cardinality(R) <= Rate
      /\ Cardinality(R \union {n + 1}) = Cardinality(R) + 1
  <2>1. k.requests \in SUBSET (1..n) /\ R \in SUBSET (1..n) /\ R \in SUBSET k.requests
    BY <1>5
  <2>2. Cardinality(k.requests) <= Rate
    BY <1>2 DEF SlidingInv
  <2> HIDE DEF R, k, n
  <2>3. IsFiniteSet(k.requests) /\ Cardinality(k.requests) \in Nat /\ Cardinality(R) <= Cardinality(k.requests)
    BY <1>3, <2>1, NextNumber
  <2>4. Cardinality(R) \in Nat /\ Cardinality(R \union {n + 1}) = Cardinality(R) + 1
    BY <1>3, <2>1, NextNumber
  <2> QED  BY <2>2, <2>3, <2>4
\* What the counter lists afterwards.
<1> DEFINE L == IF Allowed(k, now) THEN R \union {n + 1} ELSE R
<1>7. counter'[o].requests = L /\ \A p \in 1..MaxCounters \ {o} : counter'[p] = counter[p]
  <2>1. Counted(k, now) = [k EXCEPT !.requests = L]
    BY DEF Counted
  <2>2. counter'[o] = Counted(k, now) /\ \A p \in 1..MaxCounters \ {o} : counter'[p] = counter[p]
    BY <1>2, <1>3
  <2> HIDE DEF L, k
  <2> QED  BY <1>5, <2>1, <2>2 DEF CounterRecords
<1>8. Cardinality(L) <= Rate
  <2>1. Allowed(k, now) => Cardinality(R) < Rate
    BY DEF Allowed
  <2> HIDE DEF R, k, n
  <2> QED  BY <1>6, <2>1
<1>9. \A i \in 1..n : admitted[i].obj = o /\ admitted[i].now > instant - Window => i \in R
  <2> SUFFICES ASSUME NEW i \in 1..n, admitted[i].obj = o, admitted[i].now > instant - Window PROVE i \in R
    OBVIOUS
  <2>1. i \in k.requests
    BY <1>2 DEF SlidingInv
  <2> QED  BY <1>2, <1>3, <1>4, <1>5, <2>1
<1>10. \A i \in R : i \in 1..n /\ admitted[i].obj = o
  BY <1>2, <1>5 DEF SlidingInv
<1>11. CASE ~Allowed(k, now)
  <2>1. admitted' = admitted /\ L = R
    BY <1>2, <1>11
  <2> HIDE DEF L, R, k, n
  <2>2. ASSUME NEW p \in 1..MaxCounters
        PROVE  /\ Cardinality(counter'[p].requests) <= Rate
               /\ \A i \in counter'[p].requests : admitted'[i].obj = p
               /\ \A i \in 1..Len(admitted') :
                     admitted'[i].obj = p /\ admitted'[i].now > instant' - Window => i \in counter'[p].requests
               /\ \A t \in Nat : Cardinality(Stretch(p, t, Window - MaxLag)') <= Rate
    <3>1. \A t \in Nat : Cardinality(Stretch(p, t, Window - MaxLag)') <= Rate
      <4>1. \A t \in Nat : Stretch(p, t, Window - MaxLag)' = Stretch(p, t, Window - MaxLag)
        BY <2>1 DEF Stretch
      <4> QED  BY <4>1 DEF SlidingInv
    <3>2. CASE p = o
      BY <1>3, <1>7, <1>8, <1>9, <1>10, <2>1, <3>1, <3>2 DEF n
    <3>3. CASE p # o
      BY <1>3, <1>7, <2>1, <3>1, <3>3 DEF SlidingInv
    <3> QED  BY <3>2, <3>3
  <2> QED  BY <2>2 DEF SlidingInv
<1>12. CASE Allowed(k, now)
  <2>1. /\ L = R \union {n + 1} /\ Len(admitted') = n + 1 /\ DOMAIN admitted' = 1..(n + 1)
        /\ \A i \in 1..n : admitted'[i] = admitted[i]
        /\ admitted'[n + 1].now = now /\ admitted'[n + 1].obj = o
    BY <1>2, <1>12
  <2> HIDE DEF L, R, k, n
  <2>2. \A i \in 1..(n + 1) : i \in 1..n \/ i = n + 1
    BY <1>3
  <2>3. ASSUME NEW p \in 1..MaxCounters, NEW t \in Nat PROVE Cardinality(Stretch(p, t, Window - MaxLag)') <= Rate
    <3>1. CASE p = o /\ now \in t..(t + (Window - MaxLag) - 1)
      \* Every request of the stretch is younger than the window still.
      <4>1. Stretch(p, t, Window - MaxLag)' \subseteq L
        <5> SUFFICES ASSUME NEW i \in Stretch(p, t, Window - MaxLag)' PROVE i \in L
          OBVIOUS
        <5>1. i \in 1..(n + 1) /\ admitted'[i].obj = o /\ admitted'[i].now >= t
          BY <2>1, <3>1 DEF Stretch
        <5>2. ASSUME i \in 1..n PROVE i \in R
          <6>1. instant - Window < t
            BY <1>2, <1>3, <3>1
          <6> QED  BY <1>3, <1>4, <1>9, <2>1, <5>1, <5>2, <6>1
        <5> QED  BY <2>1, <2>2, <5>1, <5>2
      <4>2. IsFiniteSet(L)
        BY <1>3, <1>5, <1>6, <2>1, FS_Subset, FS_AddElement
      <4> QED  BY <1>8, <4>1, <4>2, FS_Subset, FS_CardinalityType
    <3>2. CASE ~(p = o /\ now \in t..(t + (Window - MaxLag) - 1))
      <4>1. Stretch(p, t, Window - MaxLag)' = Stretch(p, t, Window - MaxLag)
        BY <1>3, <2>1, <2>2, <3>2, SMTT(30) DEF Stretch
      <4> QED  BY <4>1 DEF SlidingInv
    <3> QED  BY <3>1, <3>2
  <2>4. ASSUME NEW p \in 1..MaxCounters
        PROVE  /\ Cardinality(counter'[p].requests) <= Rate
               /\ \A i \in counter'[p].requests : admitted'[i].obj = p
               /\ \A i \in 1..Len(admitted') :
                     admitted'[i].obj = p /\ admitted'[i].now > instant' - Window => i \in counter'[p].requests
    <3>1. CASE p = o
      <4>1. counter'[p].requests = R \union {n + 1} /\ Cardinality(counter'[p].requests) <= Rate
        BY <1>7, <1>8, <2>1, <3>1
      <4>2. \A i \in R \union {n + 1} : admitted'[i].obj = p
        BY <1>10, <2>1, <3>1
      <4>3. \A i \in 1..n : admitted'[i].obj = p /\ admitted'[i].now > instant' - Window => i \in R
        BY <1>3, <1>9, <2>1, <3>1
      <4> QED  BY <2>1, <2>2, <4>1, <4>2, <4>3
    <3>2. CASE p # o
      <4>1. counter'[p] = counter[p] /\ counter[p].requests \subseteq 1..n
        BY <1>7, <3>2 DEF RateShape, n
      <4> QED  BY <1>3, <2>1, <2>2, <3>2, <4>1 DEF SlidingInv, n
    <3> QED  BY <3>1, <3>2
  <2> QED  BY <2>3, <2>4 DEF SlidingInv
<1> QED
  BY <1>11, <1>12

\* A request that shares its member leaves what is young enough on the list.
LEMMA SlidingShares ==
  ASSUME RateShape, SlidingInv, NEW c \in Callers, AllowShared(c)
  PROVE  SlidingInv'
<1> USE RateAssumption
<1>1. PICK o, now : o = caller[c].obj /\ now = caller[c].now
  OBVIOUS
<1> DEFINE recent == Recent(counter[o], now)
<1>2. /\ o \in 1..MaxCounters /\ now \in Nat /\ now <= instant
      /\ recent \subseteq counter[o].requests /\ Cardinality(recent) < Rate /\ counter'[o].requests = recent
      /\ \A p \in 1..MaxCounters \ {o} : counter'[p] = counter[p]
      /\ UNCHANGED <<instant, admitted>>
  BY <1>1, SharedRecord
<1>3. /\ instant \in Nat /\ Len(admitted) \in Nat /\ counter[o].requests \subseteq 1..Len(admitted)
      /\ \A i \in 1..Len(admitted) : admitted[i].now \in Nat
  BY <1>2, AdmissionFields DEF RateShape, RateTypes
<1>4. Cardinality(recent) <= Rate
  <2>1. recent \in SUBSET (1..Len(admitted))
    BY <1>2, <1>3
  <2>2. Cardinality(recent) \in Nat
    BY <1>3, <2>1, NextNumber
  <2> QED  BY <1>2, <2>2
<1>5. \A i \in 1..Len(admitted) : admitted[i].obj = o /\ admitted[i].now > instant - Window => i \in recent
  <2> SUFFICES ASSUME NEW i \in 1..Len(admitted), admitted[i].obj = o, admitted[i].now > instant - Window
               PROVE  i \in recent
    OBVIOUS
  <2>1. i \in counter[o].requests
    BY <1>2 DEF SlidingInv
  <2>2. admitted[i].now > now - Window
    BY <1>2, <1>3
  <2> QED  BY <2>1, <2>2 DEF Recent
<1> HIDE DEF recent
<1>6. ASSUME NEW p \in 1..MaxCounters
      PROVE  /\ Cardinality(counter'[p].requests) <= Rate
             /\ \A i \in counter'[p].requests : admitted'[i].obj = p
             /\ \A i \in 1..Len(admitted') :
                   admitted'[i].obj = p /\ admitted'[i].now > instant' - Window => i \in counter'[p].requests
  BY <1>2, <1>4, <1>5 DEF SlidingInv
<1>7. ASSUME NEW p \in 1..MaxCounters, NEW t \in Nat PROVE Cardinality(Stretch(p, t, Window - MaxLag)') <= Rate
  <2>1. Stretch(p, t, Window - MaxLag)' = Stretch(p, t, Window - MaxLag)
    BY <1>2 DEF Stretch
  <2> QED  BY <2>1 DEF SlidingInv
<1> QED
  BY <1>6, <1>7 DEF SlidingInv

\* The other steps neither admit nor list anything, and time only passes.
LEMMA SlidingKept ==
  ASSUME RateShape, SlidingInv, limiter # "simple", [RateNext]_rateVars
  PROVE  SlidingInv'
<1> USE RateAssumption
<1>1. ASSUME admitted' = admitted, instant' \in Nat, instant' >= instant,
             \A o \in 1..MaxCounters : counter'[o].requests = counter[o].requests
      PROVE  SlidingInv'
  <2>1. instant \in Nat /\ \A i \in 1..Len(admitted) : admitted[i].now \in Nat
    BY AdmissionFields DEF RateShape, RateTypes
  <2>2. ASSUME NEW o \in 1..MaxCounters
        PROVE  /\ Cardinality(counter'[o].requests) <= Rate
               /\ \A i \in counter'[o].requests : admitted'[i].obj = o
               /\ \A i \in 1..Len(admitted') :
                     admitted'[i].obj = o /\ admitted'[i].now > instant' - Window => i \in counter'[o].requests
    <3>1. Cardinality(counter'[o].requests) <= Rate /\ \A i \in counter'[o].requests : admitted'[i].obj = o
      BY <1>1 DEF SlidingInv
    <3>2. ASSUME NEW i \in 1..Len(admitted), admitted[i].obj = o, admitted[i].now > instant' - Window
          PROVE  i \in counter[o].requests
      <4>1. admitted[i].now > instant - Window
        BY <1>1, <2>1, <3>2
      <4> QED  BY <3>2, <4>1 DEF SlidingInv
    <3> QED  BY <1>1, <3>1, <3>2
  <2>3. ASSUME NEW o \in 1..MaxCounters, NEW t \in Nat PROVE Cardinality(Stretch(o, t, Window - MaxLag)') <= Rate
    <3>1. Stretch(o, t, Window - MaxLag)' = Stretch(o, t, Window - MaxLag)
      BY <1>1 DEF Stretch
    <3> QED  BY <3>1 DEF SlidingInv
  <2> QED  BY <2>2, <2>3 DEF SlidingInv
<1>2. instant \in Nat
  BY DEF RateShape, RateTypes
<1>3. ASSUME NEW c \in Callers, AllowLoad(c) PROVE SlidingInv'
  <2>1. UNCHANGED <<instant, admitted>>
    BY <1>3 DEF AllowLoad
  <2>2. CASE counter' = counter
    BY <1>1, <1>2, <2>1, <2>2
  <2>3. CASE counter' = [counter EXCEPT ![made + 1].start = caller[c].now]
    <3>1. \A o \in 1..MaxCounters : counter'[o].requests = counter[o].requests
      BY <2>3 DEF RateShape, CounterRecords
    <3> QED  BY <1>1, <1>2, <2>1, <3>1
  <2> QED  BY <1>3, <2>2, <2>3 DEF AllowLoad
<1>4. ASSUME NEW c \in Callers, AllowBegin(c) \/ AllowDegraded(c) PROVE SlidingInv'
  BY <1>1, <1>2, <1>4 DEF AllowBegin, AllowDegraded
<1>5. CASE SweepJudge \/ SweepDelete
  BY <1>1, <1>2, <1>5 DEF SweepJudge, SweepDelete
<1>6. CASE RateTick
  BY <1>1, <1>2, <1>6 DEF RateTick
<1>7. CASE UNCHANGED rateVars
  BY <1>1, <1>2, <1>7 DEF rateVars
<1> QED
  BY <1>3, <1>4, <1>5, <1>6, <1>7, SlidingDecides, SlidingShares DEF RateNext

-----------------------------------------------------------------------------
\* A decision of a fixed window counts in the current window or begins the next.
LEMMA SimpleDecides ==
  ASSUME RateShape, SimpleInv, limiter = "simple", NEW c \in Callers, AllowDecide(c)
  PROVE  SimpleInv'
<1> USE RateAssumption
<1>1. PICK o, now : o = caller[c].obj /\ now = caller[c].now
  OBVIOUS
<1> DEFINE n == Len(admitted)
           k == counter[o]
           q == Counted(k, now)
<1>2. /\ o \in 1..made /\ o \in 1..MaxCounters /\ now \in Nat /\ now <= instant /\ instant - now <= MaxLag
      /\ counter' = [counter EXCEPT ![o] = q]
      /\ ~Allowed(k, now) => admitted' = admitted
      /\ Allowed(k, now) =>
            /\ admitted' \in Seq(Admissions) /\ Len(admitted') = n + 1
            /\ \A i \in 1..n : admitted'[i] = admitted[i]
            /\ admitted'[n + 1] = [now |-> now, obj |-> o, start |-> q.start]
  BY <1>1, Decision
<1>3. n \in Nat /\ instant' = instant /\ instant \in Nat /\ counter \in [1..MaxCounters -> CounterRecords]
  BY AdmissionFields DEF AllowDecide, RateShape, RateTypes
<1>4. \A i \in 1..n : admitted[i].now \in Nat /\ admitted[i].obj \in Nat /\ admitted[i].start \in Nat
  BY AdmissionFields
<1>5. k \in CounterRecords /\ k.count \in Nat /\ k.start \in Nat
  BY <1>2, <1>3 DEF CounterRecords
<1>6. /\ k.start <= instant /\ k.count = Cardinality(InWindow(o, k.start))
      /\ \A g \in Nat : Cardinality(InWindow(o, g)) <= Rate
      /\ \A i \in 1..n : admitted[i].obj = o =>
            admitted[i].start = k.start \/ admitted[i].start + Window <= k.start
  BY <1>2 DEF SimpleInv
<1>7. counter'[o] = q /\ \A p \in 1..MaxCounters \ {o} : counter'[p] = counter[p]
  BY <1>2, <1>3
<1>8. CASE ~Allowed(k, now)
  <2>1. admitted' = admitted /\ q = k
    BY <1>2, <1>8 DEF Allowed, Counted
  <2>2. \A p \in 1..MaxCounters : counter'[p] = counter[p]
    BY <1>7, <2>1
  <2> HIDE DEF q, k, n
  <2>3. \A p, g : InWindow(p, g)' = InWindow(p, g)
    BY <2>1 DEF InWindow
  <2> QED  BY <1>3, <2>1, <2>2, <2>3, SMTT(30) DEF SimpleInv
<1>9. CASE Allowed(k, now)
  <2>1. /\ Len(admitted') = n + 1 /\ \A i \in 1..n : admitted'[i] = admitted[i]
        /\ admitted'[n + 1].now = now /\ admitted'[n + 1].obj = o /\ admitted'[n + 1].start = q.start
    BY <1>2, <1>9
  <2>2. \A i \in 1..(n + 1) : i \in 1..n \/ i = n + 1
    BY <1>3
  \* The window goes on, or is over and begins again.
  <2>3. \/ /\ now - k.start < Window /\ k.count < Rate
           /\ q.count = k.count + 1 /\ q.start = k.start
        \/ now - k.start >= Window /\ q.count = 1 /\ q.start = now
    <3>1. q = SimpleCount(k, now) /\ (now - k.start >= Window \/ k.count < Rate)
      BY <1>9 DEF Allowed, Counted, SimpleAllows
    <3> HIDE DEF q, k
    <3>2. CASE now - k.start >= Window
      <4>1. q = [k EXCEPT !.count = 1, !.start = now]
        BY <3>1, <3>2 DEF SimpleCount
      <4> QED  BY <1>5, <3>2, <4>1 DEF CounterRecords
    <3>3. CASE ~(now - k.start >= Window)
      <4>1. q = [k EXCEPT !.count = @ + 1]
        BY <3>1, <3>3 DEF SimpleCount
      <4>2. q.count = k.count + 1 /\ q.start = k.start
        BY <1>5, <4>1 DEF CounterRecords
      <4> QED  BY <1>2, <1>5, <3>1, <3>3, <4>2
    <3> QED  BY <3>2, <3>3
  <2> HIDE DEF q, k, n
  <2>4. q.start \in Nat /\ q.start <= instant
    BY <1>2, <1>3, <1>5, <1>6, <2>3
  <2>5. \A p, g : InWindow(p, g)' = IF p = o /\ g = q.start THEN InWindow(p, g) \union {n + 1} ELSE InWindow(p, g)
    BY <1>3, <2>1, <2>2 DEF InWindow, n
  <2>6. \A p, g : InWindow(p, g) \in SUBSET (1..n) /\ Cardinality(InWindow(p, g)) \in Nat
                 /\ Cardinality(InWindow(p, g) \union {n + 1}) = Cardinality(InWindow(p, g)) + 1
    <3>1. \A p, g : InWindow(p, g) \in SUBSET (1..n)
      BY DEF InWindow, n
    <3> QED  BY <1>3, <3>1, NextNumber
  <2>7. Cardinality(InWindow(o, q.start)) + 1 = q.count /\ q.count <= Rate
    <3>1. CASE q.start = k.start /\ q.count = k.count + 1 /\ k.count < Rate
      BY <1>5, <1>6, <3>1
    <3>2. CASE now - k.start >= Window /\ q.count = 1 /\ q.start = now
      <4>1. InWindow(o, now) = {}
        <5>1. ASSUME NEW i \in 1..n, admitted[i].obj = o PROVE admitted[i].start # now
          <6>1. admitted[i].start \in Nat
            BY <1>4
          <6>2. admitted[i].start = k.start \/ admitted[i].start + Window <= k.start
            BY <1>6, <5>1
          <6> QED  BY <1>2, <1>5, <3>2, <6>1, <6>2
        <5> QED  BY <5>1 DEF InWindow, n
      <4> QED  BY <3>2, <4>1, FS_EmptySet
    <3> QED  BY <2>3, <3>1, <3>2
  <2>8. ASSUME NEW p \in 1..MaxCounters
        PROVE  /\ counter'[p].start <= instant' /\ counter'[p].count = Cardinality(InWindow(p, counter[p].start)')
               /\ \A g \in Nat : Cardinality(InWindow(p, g)') <= Rate
    <3>1. PICK s : s = counter'[p].start
      OBVIOUS
    <3>2. InWindow(p, counter[p].start)' = InWindow(p, s)'
      BY <3>1 DEF InWindow
    <3>3. CASE p = o
      <4>1. s = q.start /\ counter'[p].count = q.count
        BY <1>7, <3>1, <3>3
      <4>2. \A g \in Nat : Cardinality(InWindow(p, g)') <= Rate
        BY <1>6, <2>4, <2>5, <2>6, <2>7, <3>3
      <4>3. Cardinality(InWindow(p, s)') = q.count
        BY <2>5, <2>6, <2>7, <3>3, <4>1
      <4> QED  BY <1>3, <2>4, <3>1, <3>2, <4>1, <4>2, <4>3
    <3>4. CASE p # o
      <4>1. counter'[p] = counter[p] /\ \A g : InWindow(p, g)' = InWindow(p, g)
        BY <1>7, <2>5, <3>4
      <4> QED  BY <1>3, <3>1, <3>2, <4>1 DEF SimpleInv
    <3> QED  BY <3>3, <3>4
  <2>9. ASSUME NEW p \in 1..MaxCounters, NEW i \in 1..(n + 1), admitted'[i].obj = p
        PROVE  /\ admitted'[i].now >= admitted'[i].start - MaxLag /\ admitted'[i].now < admitted'[i].start + Window
               /\ admitted'[i].start = counter'[p].start \/ admitted'[i].start + Window <= counter'[p].start
    <3>1. CASE i = n + 1
      <4>1. p = o /\ admitted'[i].now = now /\ admitted'[i].start = q.start
        BY <2>1, <2>9, <3>1
      <4> QED  BY <1>2, <1>3, <1>5, <1>7, <2>3, <2>4, <4>1, SMTT(30)
    <3>2. CASE i \in 1..n /\ p # o
      BY <1>7, <2>1, <2>9, <3>2 DEF SimpleInv, n
    <3>3. CASE i \in 1..n /\ p = o
      <4>1. /\ admitted[i].now >= admitted[i].start - MaxLag /\ admitted[i].now < admitted[i].start + Window
            /\ admitted[i].start = k.start \/ admitted[i].start + Window <= k.start
        BY <1>2, <2>1, <2>9, <3>3 DEF SimpleInv, n, k
      <4>2. q.start = k.start \/ k.start + Window <= q.start
        BY <1>2, <1>5, <2>3
      <4>3. admitted'[i] = admitted[i] /\ counter'[p].start = q.start /\ admitted[i].start \in Nat
        BY <1>4, <1>7, <2>1, <3>3
      <4>4. admitted[i].start = q.start \/ admitted[i].start + Window <= q.start
        BY <1>5, <2>4, <4>1, <4>2, <4>3
      <4> QED  BY <4>1, <4>3, <4>4
    <3> QED  BY <2>2, <3>1, <3>2, <3>3
  <2>10. ASSUME NEW p \in 1..MaxCounters, NEW i \in 1..(n + 1), NEW j \in 1..(n + 1),
                admitted'[i].obj = p, admitted'[j].obj = p
         PROVE  \/ admitted'[i].start = admitted'[j].start
                \/ admitted'[i].start + Window <= admitted'[j].start
                \/ admitted'[j].start + Window <= admitted'[i].start
    <3>1. CASE i \in 1..n /\ j \in 1..n
      BY <2>1, <2>10, <3>1 DEF SimpleInv, n
    <3>2. CASE i = n + 1
      BY <1>7, <2>1, <2>9, <2>10, <3>2
    <3>3. CASE j = n + 1
      BY <1>7, <2>1, <2>9, <2>10, <3>3
    <3> QED  BY <2>2, <3>1, <3>2, <3>3
  <2> QED  BY <2>1, <2>8, <2>9, <2>10 DEF SimpleInv
<1> QED
  BY <1>8, <1>9

\* The other steps neither admit nor count anything; a new counter has admitted
\* nothing.
LEMMA SimpleKept ==
  ASSUME RateShape, SimpleInv, limiter = "simple", [RateNext]_rateVars
  PROVE  SimpleInv'
<1> USE RateAssumption
<1>1. instant \in Nat
  BY DEF RateShape, RateTypes
<1>2. ASSUME admitted' = admitted, instant' \in Nat, instant' >= instant, counter' = counter PROVE SimpleInv'
  <2>1. \A o, g : InWindow(o, g)' = InWindow(o, g)
    BY <1>2 DEF InWindow
  <2>2. \A o \in 1..MaxCounters : counter[o].start \in Nat
    BY DEF RateShape, CounterRecords
  <2>3. \A o \in 1..MaxCounters : counter'[o].start <= instant'
    BY <1>1, <1>2, <2>2 DEF SimpleInv
  <2>4. \A o \in 1..MaxCounters : InWindow(o, counter[o].start)' = InWindow(o, counter[o].start)
    BY <1>2 DEF InWindow
  <2> QED  BY <1>2, <2>1, <2>3, <2>4 DEF SimpleInv
<1>3. ASSUME NEW c \in Callers, AllowLoad(c) PROVE SimpleInv'
  <2>1. UNCHANGED <<instant, admitted>>
    BY <1>3 DEF AllowLoad
  <2>2. CASE counter' = counter
    BY <1>1, <1>2, <2>1, <2>2
  <2>3. CASE made < MaxCounters /\ counter' = [counter EXCEPT ![made + 1].start = caller[c].now]
    <3>1. /\ made \in Nat /\ made + 1 \in 1..MaxCounters /\ caller[c].now \in Nat /\ caller[c].now <= instant
          /\ counter \in [1..MaxCounters -> CounterRecords]
      BY <2>3, SMTT(30) DEF RateShape, RateTypes
    <3>2. /\ counter'[made + 1].start = caller[c].now /\ counter'[made + 1].count = counter[made + 1].count
          /\ \A o \in 1..MaxCounters \ {made + 1} : counter'[o] = counter[o]
      BY <2>3, <3>1 DEF CounterRecords
    <3>3. \A o, g : InWindow(o, g)' = InWindow(o, g)
      BY <2>1 DEF InWindow
    <3>4. \A i \in 1..Len(admitted) : admitted[i].obj # made + 1
      BY <3>1 DEF RateShape
    <3>5. \A g : InWindow(made + 1, g) = {}
      BY <3>4 DEF InWindow
    <3>6. counter[made + 1].count = 0
      BY <3>1, <3>5, FS_EmptySet DEF SimpleInv
    <3>7. ASSUME NEW o \in 1..MaxCounters
          PROVE  /\ counter'[o].start <= instant' /\ counter'[o].count = Cardinality(InWindow(o, counter[o].start)')
                 /\ \A g \in Nat : Cardinality(InWindow(o, g)') <= Rate
      <4>1. PICK s : s = counter'[o].start
        OBVIOUS
      <4>2. InWindow(o, counter[o].start)' = InWindow(o, s)
        BY <2>1, <4>1 DEF InWindow
      <4>3. CASE o = made + 1
        BY <2>1, <3>1, <3>2, <3>3, <3>5, <3>6, <4>2, <4>3, FS_EmptySet DEF SimpleInv
      <4>4. CASE o # made + 1
        BY <2>1, <3>2, <3>3, <4>1, <4>2, <4>4 DEF SimpleInv
      <4> QED  BY <4>3, <4>4
    <3>8. ASSUME NEW o \in 1..MaxCounters, NEW i \in 1..Len(admitted), admitted[i].obj = o
          PROVE  o # made + 1 /\ counter'[o] = counter[o]
      BY <3>2, <3>4, <3>8
    <3> QED  BY <2>1, <3>7, <3>8 DEF SimpleInv
  <2> QED  BY <1>3, <2>2, <2>3 DEF AllowLoad
<1>4. ASSUME NEW c \in Callers, AllowBegin(c) \/ AllowDegraded(c) PROVE SimpleInv'
  BY <1>1, <1>2, <1>4 DEF AllowBegin, AllowDegraded
<1>5. CASE SweepJudge \/ SweepDelete
  BY <1>1, <1>2, <1>5 DEF SweepJudge, SweepDelete
<1>6. CASE RateTick
  BY <1>1, <1>2, <1>6 DEF RateTick
<1>7. CASE UNCHANGED rateVars
  BY <1>1, <1>2, <1>7 DEF rateVars
<1> QED
  BY <1>3, <1>4, <1>5, <1>6, <1>7, SimpleDecides DEF RateNext, AllowShared

\* A stretch of one window meets two windows of a counter, or three.
LEMMA StretchBounded ==
  ASSUME RateShape, SimpleInv, NEW o \in 1..MaxCounters, NEW t \in Nat
  PROVE  Cardinality(Stretch(o, t, Window)) <= Windows * Rate
<1> USE RateAssumption
<1> DEFINE n == Len(admitted)
           S == Stretch(o, t, Window)
           From(a) == {i \in S : admitted[i].start > a /\ admitted[i].start <= a + Window}
<1>1. n \in Nat /\ DOMAIN admitted = 1..n /\ \A i \in 1..n : admitted[i].now \in Nat /\ admitted[i].start \in Nat
  BY AdmissionFields
<1>2. S \subseteq 1..n /\ \A i \in S : /\ admitted[i].obj = o /\ admitted[i].start \in Nat
                                      /\ admitted[i].now >= t /\ admitted[i].now < t + Window
                                      /\ admitted[i].start <= admitted[i].now + MaxLag
                                      /\ admitted[i].start > admitted[i].now - Window
  <2> SUFFICES ASSUME NEW i \in S
               PROVE  /\ i \in 1..n /\ admitted[i].obj = o /\ admitted[i].start \in Nat
                      /\ admitted[i].now >= t /\ admitted[i].now < t + Window
                      /\ admitted[i].start <= admitted[i].now + MaxLag
                      /\ admitted[i].start > admitted[i].now - Window
    OBVIOUS
  <2>1. i \in 1..n /\ admitted[i].obj = o /\ admitted[i].now \in t..(t + Window - 1)
    BY <1>1 DEF Stretch
  <2>2. admitted[i].now >= admitted[i].start - MaxLag /\ admitted[i].now < admitted[i].start + Window
    BY <2>1 DEF SimpleInv
  <2> QED  BY <1>1, <2>1, <2>2, SMTT(30)
<1> HIDE DEF S, n
\* Windows begin a window's length apart: a stretch that long holds the beginning
\* of one.
<1>3. ASSUME NEW a \in Int PROVE IsFiniteSet(From(a)) /\ Cardinality(From(a)) \in Nat /\ Cardinality(From(a)) <= Rate
  <2>1. From(a) \in SUBSET (1..n)
    BY <1>2
  <2>2. IsFiniteSet(From(a)) /\ Cardinality(From(a)) \in Nat
    BY <1>1, <2>1, NextNumber
  <2>3. CASE From(a) = {}
    BY <2>2, <2>3, FS_EmptySet
  <2>4. ASSUME NEW i \in From(a) PROVE Cardinality(From(a)) <= Rate
    <3> DEFINE g == admitted[i].start
    <3>1. g \in Nat /\ g > a /\ g <= a + Window /\ admitted[i].obj = o /\ i \in 1..n
      BY <1>2, <2>4
    <3>2. ASSUME NEW j \in From(a) PROVE j \in InWindow(o, g)
      <4>1. /\ admitted[j].start \in Nat /\ admitted[j].start > a /\ admitted[j].start <= a + Window
            /\ admitted[j].obj = o /\ j \in 1..n
        BY <1>2, <3>2
      <4>2. \/ g = admitted[j].start \/ g + Window <= admitted[j].start \/ admitted[j].start + Window <= g
        BY <3>1, <4>1 DEF SimpleInv, n
      <4>3. g = admitted[j].start
        BY <3>1, <4>1, <4>2
      <4> QED  BY <4>1, <4>3 DEF InWindow, n
    <3> HIDE DEF From, g
    <3>3. Cardinality(InWindow(o, g)) <= Rate
      BY <3>1 DEF SimpleInv
    <3>4. InWindow(o, g) \in SUBSET (1..n)
      BY DEF InWindow, n
    <3>5. From(a) \in SUBSET InWindow(o, g)
      BY <3>2
    <3>6. Cardinality(From(a)) <= Cardinality(InWindow(o, g)) /\ Cardinality(InWindow(o, g)) \in Nat
      BY <1>1, <3>4, <3>5, NextNumber
    <3> QED  BY <2>2, <3>3, <3>6
  <2> QED  BY <2>2, <2>3, <2>4
<1> DEFINE A == From(t - Window)
           B == From(t)
           D == From(t + Window)
<1>4. /\ IsFiniteSet(A) /\ Cardinality(A) \in Nat /\ Cardinality(A) <= Rate
      /\ IsFiniteSet(B) /\ Cardinality(B) \in Nat /\ Cardinality(B) <= Rate
      /\ IsFiniteSet(D) /\ Cardinality(D) \in Nat /\ Cardinality(D) <= Rate
  <2>1. t - Window \in Int /\ t \in Int /\ t + Window \in Int
    OBVIOUS
  <2> HIDE DEF From
  <2> QED  BY <1>3, <2>1
<1>5. S \subseteq A \union B \union D
  <2> SUFFICES ASSUME NEW i \in S PROVE i \in A \union B \union D
    OBVIOUS
  <2>1. /\ admitted[i].start \in Nat /\ admitted[i].now \in Nat
        /\ admitted[i].start <= admitted[i].now + MaxLag /\ admitted[i].start > admitted[i].now - Window
        /\ admitted[i].now >= t /\ admitted[i].now < t + Window
    BY <1>1, <1>2
  <2>2. \/ admitted[i].start > t - Window /\ admitted[i].start <= t - Window + Window
        \/ admitted[i].start > t /\ admitted[i].start <= t + Window
        \/ admitted[i].start > t + Window /\ admitted[i].start <= t + Window + Window
    BY <2>1
  <2> QED  BY <2>2
<1>6. MaxLag <= 1 => D = {}
  <2> SUFFICES ASSUME MaxLag <= 1, NEW i \in D PROVE FALSE
    OBVIOUS
  <2>1. i \in S /\ admitted[i].start > t + Window
    OBVIOUS
  <2>2. /\ admitted[i].start \in Nat /\ admitted[i].now \in Nat
        /\ admitted[i].start <= admitted[i].now + MaxLag /\ admitted[i].now < t + Window
    BY <1>1, <1>2, <2>1
  <2> QED  BY <2>1, <2>2
<1> HIDE DEF A, B, D
<1>7. IsFiniteSet(A \union B) /\ Cardinality(A \union B) \in Nat /\ Cardinality(A \union B) <= 2 * Rate
  <2>1. IsFiniteSet(A \union B) /\ IsFiniteSet(A \intersect B)
        /\ Cardinality(A \union B) = Cardinality(A) + Cardinality(B) - Cardinality(A \intersect B)
    BY <1>4, FS_Union, FS_Intersection
  <2>2. Cardinality(A \union B) \in Nat /\ Cardinality(A \intersect B) \in Nat
    BY <2>1, FS_CardinalityType
  <2> QED  BY <1>4, <2>1, <2>2
<1>8. CASE MaxLag <= 1
  <2>1. S \subseteq A \union B
    BY <1>5, <1>6, <1>8
  <2>2. Cardinality(S) <= Cardinality(A \union B) /\ Cardinality(S) \in Nat
    BY <1>7, <2>1, FS_Subset, FS_CardinalityType
  <2> QED  BY <1>7, <1>8, <2>2 DEF Windows, S
<1>9. CASE ~(MaxLag <= 1)
  <2>1. IsFiniteSet(A \union B \union D) /\ IsFiniteSet((A \union B) \intersect D)
        /\ Cardinality(A \union B \union D) = Cardinality(A \union B) + Cardinality(D) - Cardinality((A \union B) \intersect D)
    BY <1>4, <1>7, FS_Union, FS_Intersection
  <2>2. Cardinality(S) <= Cardinality(A \union B \union D) /\ Cardinality(S) \in Nat
    BY <1>5, <2>1, FS_Subset, FS_CardinalityType
  <2>3. Cardinality((A \union B) \intersect D) \in Nat /\ Cardinality(A \union B \union D) \in Nat
    BY <2>1, FS_CardinalityType
  <2>4. Cardinality(S) <= 3 * Rate
    BY <1>4, <1>7, <2>1, <2>2, <2>3
  <2> QED  BY <1>9, <2>4 DEF Windows, S
<1> QED
  BY <1>8, <1>9

-----------------------------------------------------------------------------
\* SimpleLimiter: requests decide in the two newest counters, and while none is in
\* the map or cleanup is about to delete the newest, in the newest alone; what the
\* older ones have admitted is as old as cleanup has waited, less the lag.
ApartInv ==
    /\ \A i \in 1..Len(admitted) :
          /\ admitted[i].obj < made => admitted[i].now <= counter[made].start + MaxLag
          /\ admitted[i].obj < made /\ (mapped = 0 \/ sweep # 0) => admitted[i].now + 2 * Window - MaxLag <= instant
          /\ admitted[i].obj + 1 < made => admitted[i].now + 2 * Window - MaxLag <= instant
          /\ \A j \in 1..Len(admitted) : admitted[j].obj >= admitted[i].obj + 2 =>
                admitted[j].now >= admitted[i].now + 2 * (Window - MaxLag)
    /\ \A c \in Callers : caller[c].at = "decide" =>
          /\ caller[c].obj + 1 >= made /\ (mapped = 0 \/ sweep # 0 => caller[c].obj = made)
          /\ caller[c].obj < made => caller[c].now <= counter[made].start + MaxLag
          /\ \A i \in 1..Len(admitted) : admitted[i].obj + 2 <= caller[c].obj =>
                caller[c].now >= admitted[i].now + 2 * (Window - MaxLag)

\* A counter's window never begins earlier than before.
LEMMA StartGrows ==
  ASSUME RateShape, limiter = "simple", NEW c \in Callers, AllowDecide(c), NEW p \in 1..MaxCounters
  PROVE  counter[p].start \in Nat /\ counter'[p].start \in Nat /\ counter'[p].start >= counter[p].start
<1> USE RateAssumption
<1>1. PICK o, now : o = caller[c].obj /\ now = caller[c].now
  OBVIOUS
<1> DEFINE k == counter[o]
<1>2. o \in 1..MaxCounters /\ now \in Nat /\ counter' = [counter EXCEPT ![o] = Counted(k, now)]
  <2>1. /\ o \in 1..made /\ o \in 1..MaxCounters /\ now \in Nat /\ now <= instant /\ instant - now <= MaxLag
        /\ counter' = [counter EXCEPT ![o] = Counted(k, now)]
        /\ ~Allowed(k, now) => admitted' = admitted
        /\ Allowed(k, now) =>
              /\ admitted' \in Seq(Admissions) /\ Len(admitted') = Len(admitted) + 1
              /\ \A i \in 1..Len(admitted) : admitted'[i] = admitted[i]
              /\ admitted'[Len(admitted) + 1] = [now |-> now, obj |-> o, start |-> Counted(k, now).start]
    BY <1>1, Decision
  <2> QED  BY <2>1
<1>3. counter \in [1..MaxCounters -> CounterRecords]
  BY DEF RateShape
<1>4. k \in CounterRecords /\ k.start \in Nat /\ counter[p].start \in Nat
  BY <1>2, <1>3 DEF CounterRecords
<1>5. Counted(k, now).start \in Nat /\ Counted(k, now).start >= k.start
  <2>1. Counted(k, now) = k \/ Counted(k, now) = SimpleCount(k, now)
    BY DEF Counted
  <2> HIDE DEF k
  <2>2. CASE now - k.start >= Window
    <3>1. SimpleCount(k, now).start = now
      BY <1>4, <2>2 DEF SimpleCount, CounterRecords
    <3> QED  BY <1>2, <1>4, <2>1, <2>2, <3>1
  <2>3. CASE ~(now - k.start >= Window)
    <3>1. SimpleCount(k, now).start = k.start
      BY <1>4, <2>3 DEF SimpleCount, CounterRecords
    <3> QED  BY <1>4, <2>1, <3>1
  <2> QED  BY <2>2, <2>3
<1> DEFINE r == Counted(k, now)
<1>6. counter'[o] = r /\ \A q \in 1..MaxCounters \ {o} : counter'[q] = counter[q]
  <2>1. counter' = [counter EXCEPT ![o] = r]
    BY <1>2
  <2> HIDE DEF r
  <2> QED  BY <1>2, <1>3, <2>1
<1>7. CASE p = o
  BY <1>4, <1>5, <1>6, <1>7
<1>8. CASE p # o
  BY <1>4, <1>6, <1>8
<1> QED
  BY <1>7, <1>8

\* A decision counts in one of the two newest counters.
LEMMA ApartDecides ==
  ASSUME RateShape, ApartInv, limiter = "simple", NEW c \in Callers, AllowDecide(c)
  PROVE  ApartInv'
<1> USE RateAssumption
<1>1. PICK o, now : o = caller[c].obj /\ now = caller[c].now
  OBVIOUS
<1> DEFINE n == Len(admitted)
           k == counter[o]
<1>2. /\ o \in 1..made /\ now \in Nat /\ now <= instant /\ instant - now <= MaxLag
      /\ ~Allowed(k, now) => admitted' = admitted
      /\ Allowed(k, now) =>
            /\ Len(admitted') = n + 1 /\ \A i \in 1..n : admitted'[i] = admitted[i]
            /\ admitted'[n + 1].now = now /\ admitted'[n + 1].obj = o
  <2>1. /\ o \in 1..made /\ now \in Nat /\ now <= instant /\ instant - now <= MaxLag
        /\ ~Allowed(k, now) => admitted' = admitted
        /\ Allowed(k, now) =>
            /\ admitted' \in Seq(Admissions) /\ Len(admitted') = n + 1
            /\ \A i \in 1..n : admitted'[i] = admitted[i]
            /\ admitted'[n + 1] = [now |-> now, obj |-> o, start |-> Counted(k, now).start]
    BY <1>1, Decision
  <2> QED  BY <2>1
<1>3. /\ n \in Nat /\ instant \in Nat /\ made \in Nat /\ made <= MaxCounters
      /\ UNCHANGED <<instant, made, mapped, sweep>> /\ caller' = [caller EXCEPT ![c] = Waiting]
      /\ caller[c].at = "decide"
  BY AdmissionFields DEF AllowDecide, RateShape, RateTypes
<1>4. \A i \in 1..n : admitted[i].now \in Nat /\ admitted[i].obj \in 1..made
  BY AdmissionFields DEF RateShape
<1>5. /\ counter[made].start \in Nat /\ counter'[made].start \in Nat /\ counter'[made].start >= counter[made].start
  <2>1. made \in 1..MaxCounters
    BY <1>2, <1>3
  <2> QED  BY <2>1, StartGrows
<1>6. /\ o + 1 >= made /\ (mapped = 0 \/ sweep # 0 => o = made)
      /\ o < made => now <= counter[made].start + MaxLag
      /\ \A i \in 1..n : admitted[i].obj + 2 <= o => now >= admitted[i].now + 2 * (Window - MaxLag)
  BY <1>1, <1>3 DEF ApartInv
<1>7. \A d \in Callers : caller'[d].at = "decide" => caller'[d] = caller[d] /\ caller[d].at = "decide"
  BY <1>3 DEF RateShape, RateTypes, Waiting
\* A request that is admitted now, and what was admitted before.
<1> DEFINE Old(i) == i \in 1..n /\ admitted'[i] = admitted[i]
           New(i) == admitted'[i].now = now /\ admitted'[i].obj = o
<1>8. \A i \in 1..Len(admitted') : Old(i) \/ New(i)
  <2>1. CASE Allowed(k, now)
    <3>1. \A i \in 1..(n + 1) : i \in 1..n \/ i = n + 1
      BY <1>3
    <3> QED  BY <1>2, <2>1, <3>1
  <2>2. CASE ~Allowed(k, now)
    BY <1>2, <2>2
  <2> QED  BY <2>1, <2>2
<1> HIDE DEF n, k
<1>9. ASSUME NEW i \in 1..Len(admitted')
      PROVE  /\ admitted'[i].obj < made' => admitted'[i].now <= counter'[made'].start + MaxLag
             /\ admitted'[i].obj < made' /\ (mapped' = 0 \/ sweep' # 0) => admitted'[i].now + 2 * Window - MaxLag <= instant'
             /\ admitted'[i].obj + 1 < made' => admitted'[i].now + 2 * Window - MaxLag <= instant'
  <2>1. CASE Old(i)
    <3>1. /\ admitted[i].obj < made => admitted[i].now <= counter[made].start + MaxLag
          /\ admitted[i].obj < made /\ (mapped = 0 \/ sweep # 0) => admitted[i].now + 2 * Window - MaxLag <= instant
          /\ admitted[i].obj + 1 < made => admitted[i].now + 2 * Window - MaxLag <= instant
      BY <2>1 DEF ApartInv, n
    <3>2. admitted[i].now \in Nat /\ counter'[made'].start = counter'[made].start
      BY <1>3, <1>4, <2>1
    <3> QED  BY <1>3, <1>5, <2>1, <3>1, <3>2, SMTT(30)
  <2>2. CASE New(i)
    <3>1. counter'[made'].start = counter'[made].start
      BY <1>3
    <3> QED  BY <1>2, <1>3, <1>5, <1>6, <2>2, <3>1
  <2> QED  BY <1>8, <2>1, <2>2
<1>10. ASSUME NEW i \in 1..Len(admitted'), NEW j \in 1..Len(admitted'), admitted'[j].obj >= admitted'[i].obj + 2
       PROVE  admitted'[j].now >= admitted'[i].now + 2 * (Window - MaxLag)
  <2>1. CASE Old(i) /\ Old(j)
    BY <1>10, <2>1 DEF ApartInv, n
  <2>2. CASE New(i)
    <3>1. admitted'[j].obj \in 1..made
      BY <1>2, <1>4, <1>8
    <3> QED  BY <1>2, <1>3, <1>6, <1>10, <2>2, <3>1, SMTT(30)
  <2>3. CASE Old(i) /\ New(j)
    <3>1. admitted[i].obj + 2 <= o
      BY <1>2, <1>3, <1>4, <1>10, <2>3
    <3> QED  BY <1>6, <2>3, <3>1
  <2> QED  BY <1>8, <2>1, <2>2, <2>3
<1>11. ASSUME NEW d \in Callers, caller'[d].at = "decide"
       PROVE  /\ caller'[d].obj + 1 >= made' /\ (mapped' = 0 \/ sweep' # 0 => caller'[d].obj = made')
              /\ caller'[d].obj < made' => caller'[d].now <= counter'[made'].start + MaxLag
              /\ \A i \in 1..Len(admitted') : admitted'[i].obj + 2 <= caller'[d].obj =>
                    caller'[d].now >= admitted'[i].now + 2 * (Window - MaxLag)
  <2>1. caller'[d] = caller[d] /\ caller[d].at = "decide"
    BY <1>7, <1>11
  <2>2. /\ caller[d].obj + 1 >= made /\ (mapped = 0 \/ sweep # 0 => caller[d].obj = made)
        /\ caller[d].obj < made => caller[d].now <= counter[made].start + MaxLag
        /\ \A i \in 1..n : admitted[i].obj + 2 <= caller[d].obj =>
              caller[d].now >= admitted[i].now + 2 * (Window - MaxLag)
    BY <2>1 DEF ApartInv, n
  <2>3. caller[d].obj \in 1..made /\ caller[d].now \in Nat
    BY <2>1 DEF RateShape, RateTypes
  <2>4. caller'[d].obj < made' => caller'[d].now <= counter'[made'].start + MaxLag
    <3>1. counter'[made'].start = counter'[made].start
      BY <1>3
    <3> QED  BY <1>3, <1>5, <2>1, <2>2, <2>3, <3>1
  <2>5. ASSUME NEW i \in 1..Len(admitted'), admitted'[i].obj + 2 <= caller[d].obj
        PROVE  caller[d].now >= admitted'[i].now + 2 * (Window - MaxLag)
    <3>1. CASE Old(i)
      BY <2>2, <2>5, <3>1
    <3>2. CASE New(i)
      BY <1>2, <1>3, <1>6, <2>3, <2>5, <3>2
    <3> QED  BY <1>8, <3>1, <3>2
  <2> QED  BY <1>3, <2>1, <2>2, <2>4, <2>5
<1> QED
  BY <1>9, <1>10, <1>11 DEF ApartInv

\* Sums of the window and the lag.
LEMMA LagSums ==
  ASSUME NEW a \in Nat, NEW b \in Nat, NEW t \in Nat
  PROVE  /\ a + 2 * Window - MaxLag <= t /\ t - b <= MaxLag => b >= a + 2 * (Window - MaxLag)
         /\ t - b >= 2 * Window /\ a <= b + MaxLag => a + 2 * Window - MaxLag <= t
BY RateAssumption

\* A request that begins to count takes the newest counter, and reads the clock
\* no earlier than the lag ago.
LEMMA ApartLoads ==
  ASSUME RateShape, ApartInv, limiter = "simple", NEW c \in Callers, AllowLoad(c)
  PROVE  ApartInv'
<1> USE RateAssumption
<1>1. /\ caller[c].at = "load" /\ UNCHANGED <<instant, sweep, admitted>>
      /\ caller \in [Callers -> [at : {"idle", "load", "decide"}, now : 0..MaxInstant, obj : 0..MaxCounters]]
  BY DEF AllowLoad, RateShape, RateTypes
<1>2. /\ instant \in Nat /\ made \in Nat /\ caller[c].now \in Nat /\ caller[c].now <= instant
      /\ instant - caller[c].now <= MaxLag
  BY <1>1 DEF RateShape, RateTypes
<1>3. \A i \in 1..Len(admitted) : admitted[i].now \in Nat /\ admitted[i].obj \in 1..made /\ admitted[i].now <= instant
  BY AdmissionFields DEF RateShape
<1>4. CASE mapped # 0
  <2>1. UNCHANGED <<counter, made, mapped>> /\ caller' = [caller EXCEPT ![c].at = "decide", ![c].obj = mapped] /\ mapped = made
    BY <1>4 DEF AllowLoad, RateShape
  <2>2. /\ caller'[c].at = "decide" /\ caller'[c].obj = made /\ caller'[c].now = caller[c].now
        /\ \A d \in Callers \ {c} : caller'[d] = caller[d]
    BY <1>1, <2>1
  <2>3. ASSUME NEW i \in 1..Len(admitted), admitted[i].obj + 2 <= made
        PROVE  caller[c].now >= admitted[i].now + 2 * (Window - MaxLag)
    <3>1. admitted[i].obj \in Nat /\ admitted[i].now \in Nat /\ admitted[i].obj + 1 < made
      BY <1>2, <1>3, <2>3
    <3>2. admitted[i].now + 2 * Window - MaxLag <= instant
      BY <3>1 DEF ApartInv
    <3> QED  BY <1>2, <3>1, <3>2, LagSums
  <2>4. ASSUME NEW d \in Callers, caller'[d].at = "decide"
        PROVE  /\ caller'[d].obj + 1 >= made /\ (mapped = 0 \/ sweep # 0 => caller'[d].obj = made)
               /\ caller'[d].obj < made => caller'[d].now <= counter[made].start + MaxLag
               /\ \A i \in 1..Len(admitted) : admitted[i].obj + 2 <= caller'[d].obj =>
                     caller'[d].now >= admitted[i].now + 2 * (Window - MaxLag)
    <3>1. CASE d = c
      BY <1>2, <2>2, <2>3, <3>1, SMTT(30)
    <3>2. CASE d # c
      BY <2>2, <2>4, <3>2 DEF ApartInv
    <3> QED  BY <3>1, <3>2
  <2> QED  BY <1>1, <2>1, <2>4 DEF ApartInv
<1>5. CASE mapped = 0
  <2>1. /\ made < MaxCounters /\ made' = made + 1 /\ mapped' = made + 1
        /\ counter' = [counter EXCEPT ![made + 1].start = caller[c].now]
        /\ caller' = [caller EXCEPT ![c].at = "decide", ![c].obj = made + 1]
    BY <1>5 DEF AllowLoad
  <2>2. /\ caller'[c].at = "decide" /\ caller'[c].obj = made + 1 /\ caller'[c].now = caller[c].now
        /\ \A d \in Callers \ {c} : caller'[d] = caller[d]
    BY <1>1, <2>1
  <2>3. counter'[made'].start = caller[c].now /\ sweep = 0
    BY <1>2, <1>5, <2>1 DEF RateShape, CounterRecords
  <2>4. ASSUME NEW i \in 1..Len(admitted), admitted[i].obj < made
        PROVE  admitted[i].now + 2 * Window - MaxLag <= instant
    BY <1>5, <2>4 DEF ApartInv
  <2>5. ASSUME NEW i \in 1..Len(admitted)
        PROVE  /\ admitted[i].now <= counter'[made'].start + MaxLag
               /\ admitted[i].obj + 1 < made' => admitted[i].now + 2 * Window - MaxLag <= instant
    <3>1. admitted[i].obj \in Nat /\ admitted[i].now \in Nat /\ admitted[i].now <= instant
      BY <1>3
    <3>2. admitted[i].now <= counter'[made'].start + MaxLag
      BY <1>2, <2>3, <3>1
    <3>3. admitted[i].obj + 1 < made' => admitted[i].obj < made
      BY <1>2, <2>1, <3>1
    <3> QED  BY <2>4, <3>2, <3>3
  <2>6. mapped' # 0 /\ sweep' = 0
    BY <1>1, <1>2, <2>1, <2>3
  <2>7. ASSUME NEW d \in Callers, caller'[d].at = "decide"
        PROVE  /\ caller'[d].obj + 1 >= made'
               /\ caller'[d].obj < made' => caller'[d].now <= counter'[made'].start + MaxLag
               /\ \A i \in 1..Len(admitted) : admitted[i].obj + 2 <= caller'[d].obj =>
                     caller'[d].now >= admitted[i].now + 2 * (Window - MaxLag)
    <3>1. CASE d = c
      <4>1. ASSUME NEW i \in 1..Len(admitted), admitted[i].obj + 2 <= made + 1
            PROVE  caller[c].now >= admitted[i].now + 2 * (Window - MaxLag)
        <5>1. admitted[i].now + 2 * Window - MaxLag <= instant
          <6>1. admitted[i].obj \in Nat
            BY <1>3
          <6>2. admitted[i].obj < made
            BY <1>2, <4>1, <6>1
          <6> QED  BY <2>4, <6>2
        <5> QED  BY <1>2, <1>3, <5>1, SMTT(30)
      <4>2. caller'[d].obj = made' /\ caller'[d].obj + 1 >= made' /\ ~(caller'[d].obj < made') /\ made' = made + 1
        BY <1>2, <2>1, <2>2, <3>1
      <4>3. caller'[d].now = caller[c].now
        BY <2>2, <3>1
      <4> QED  BY <4>1, <4>2, <4>3
    <3>2. CASE d # c
      <4>1. caller'[d] = caller[d] /\ caller[d].obj = made /\ caller[d].now \in Nat /\ caller[d].now <= instant
        BY <1>5, <2>2, <2>7, <3>2 DEF ApartInv, RateShape, RateTypes
      <4>2. caller[d].now <= counter'[made'].start + MaxLag
        BY <1>2, <2>3, <4>1
      <4>3. \A i \in 1..Len(admitted) : admitted[i].obj + 2 <= caller[d].obj =>
                caller[d].now >= admitted[i].now + 2 * (Window - MaxLag)
        BY <2>7, <4>1 DEF ApartInv
      <4>4. caller'[d].obj + 1 >= made'
        BY <1>2, <2>1, <4>1
      <4> QED  BY <4>1, <4>2, <4>3, <4>4
    <3> QED  BY <3>1, <3>2
  <2> QED  BY <1>1, <2>1, <2>5, <2>6, <2>7 DEF ApartInv
<1> QED
  BY <1>4, <1>5

\* Every step of SimpleLimiter keeps its counters apart: cleanup waits for two
\* windows since the newest one began.
LEMMA ApartKept ==
  ASSUME RateShape, ApartInv, limiter = "simple", [RateNext]_rateVars
  PROVE  ApartInv'
<1> USE RateAssumption
<1>1. /\ instant \in Nat /\ made \in Nat
      /\ \A i \in 1..Len(admitted) : admitted[i].now \in Nat /\ admitted[i].obj \in 1..made
  BY AdmissionFields DEF RateShape, RateTypes
<1>2. ASSUME UNCHANGED <<admitted, counter, made, mapped, sweep>>, instant' \in Nat, instant' >= instant,
             \A d \in Callers : caller'[d].at = "decide" => caller'[d] = caller[d]
      PROVE  ApartInv'
  <2>1. \A i \in 1..Len(admitted) :
          /\ admitted[i].obj < made /\ (mapped = 0 \/ sweep # 0) => admitted[i].now + 2 * Window - MaxLag <= instant'
          /\ admitted[i].obj + 1 < made => admitted[i].now + 2 * Window - MaxLag <= instant'
    BY <1>1, <1>2 DEF ApartInv
  <2> QED  BY <1>2, <2>1 DEF ApartInv
<1>3. ASSUME NEW c \in Callers, AllowBegin(c) \/ AllowDegraded(c) PROVE ApartInv'
  <2>1. \A d \in Callers : caller'[d].at = "decide" => caller'[d] = caller[d]
    BY <1>3 DEF AllowBegin, AllowDegraded, RateShape, RateTypes, Waiting
  <2> QED  BY <1>1, <1>2, <1>3, <2>1 DEF AllowBegin, AllowDegraded
<1>4. CASE SweepJudge
  <2>1. UNCHANGED <<instant, counter, made, mapped, caller, admitted>> /\ sweep = 0
    BY <1>4 DEF SweepJudge
  <2>2. CASE sweep' = 0
    BY <1>1, <1>2, <2>1, <2>2
  <2>3. CASE sweep' # 0
    <3>1. mapped # 0 /\ mapped = made /\ Stale(counter[mapped]) /\ sweep' = mapped
      BY <1>4, <2>3 DEF SweepJudge, RateShape
    <3>2. made \in 1..MaxCounters /\ counter[made].start \in Nat /\ instant - counter[made].start >= 2 * Window
      BY <1>1, <3>1 DEF Stale, RateShape, RateTypes, CounterRecords
    <3>3. \A i \in 1..Len(admitted) : admitted[i].obj < made => admitted[i].now + 2 * Window - MaxLag <= instant
      <4> SUFFICES ASSUME NEW i \in 1..Len(admitted), admitted[i].obj < made
                   PROVE  admitted[i].now + 2 * Window - MaxLag <= instant
        OBVIOUS
      <4>1. admitted[i].now <= counter[made].start + MaxLag
        BY DEF ApartInv
      <4>2. admitted[i].now \in Nat
        BY <1>1
      <4> QED  BY <1>1, <3>2, <4>1, <4>2, LagSums
    <3>4. \A d \in Callers : caller[d].at = "decide" => caller[d].obj = made
      <4> SUFFICES ASSUME NEW d \in Callers, caller[d].at = "decide", caller[d].obj # made PROVE FALSE
        OBVIOUS
      <4>1. caller[d].obj \in 1..made /\ caller[d].now \in Nat /\ instant - caller[d].now <= MaxLag
        BY DEF RateShape, RateTypes
      <4>2. caller[d].now <= counter[made].start + MaxLag
        BY <1>1, <4>1 DEF ApartInv
      <4> QED  BY <1>1, <3>2, <4>1, <4>2
    <3> QED  BY <2>1, <3>3, <3>4 DEF ApartInv
  <2> QED  BY <2>2, <2>3
<1>5. CASE SweepDelete
  BY <1>1, <1>5 DEF SweepDelete, ApartInv
<1>6. CASE RateTick
  BY <1>1, <1>2, <1>6 DEF RateTick
<1>7. CASE UNCHANGED rateVars
  BY <1>1, <1>2, <1>7 DEF rateVars
<1> QED
  BY <1>3, <1>4, <1>5, <1>6, <1>7, ApartDecides, ApartLoads DEF RateNext, AllowShared

-----------------------------------------------------------------------------
\* The inductive invariant of the limiters; Redis has one counter, which nothing
\* takes out of the map.
RateInv ==
    /\ RateShape
    /\ limiter = "simple" => SimpleInv /\ ApartInv
    /\ limiter # "simple" => SlidingInv
    /\ limiter = "redis" => sweep = 0 /\ made <= 1 /\ (made = 1 => mapped = 1)

\* Every step keeps the invariant of the limiters.
LEMMA RateInvKept == RateInv /\ [RateNext]_rateVars => RateInv'
<1> SUFFICES ASSUME RateInv, [RateNext]_rateVars PROVE RateInv'
  OBVIOUS
<1>1. RateShape' /\ limiter' = limiter
  <2>1. limiter' = limiter
    BY DEF RateNext, AllowBegin, AllowLoad, AllowDecide, AllowShared, AllowDegraded, SweepJudge, SweepDelete, RateTick, rateVars
  <2> QED  BY <2>1, RateShapeKept DEF RateInv
<1>2. limiter = "simple" => SimpleInv' /\ ApartInv'
  BY SimpleKept, ApartKept DEF RateInv
<1>3. limiter # "simple" => SlidingInv'
  BY SlidingKept DEF RateInv
<1>4. ASSUME limiter = "redis" PROVE sweep' = 0 /\ made' <= 1 /\ (made' = 1 => mapped' = 1)
  <2>1. sweep = 0 /\ made <= 1 /\ (made = 1 => mapped = 1) /\ made \in Nat
    BY <1>4 DEF RateInv, RateShape, RateTypes
  <2>2. ASSUME NEW c \in Callers, AllowLoad(c) PROVE sweep' = 0 /\ made' <= 1 /\ (made' = 1 => mapped' = 1)
    <3>1. sweep' = sweep
      BY <2>2 DEF AllowLoad
    <3>2. CASE mapped # 0
      BY <2>1, <2>2, <3>1, <3>2 DEF AllowLoad
    <3>3. CASE mapped = 0
      BY <2>1, <2>2, <3>1, <3>3 DEF AllowLoad
    <3> QED  BY <3>2, <3>3
  <2>3. ASSUME UNCHANGED <<sweep, made, mapped>> PROVE sweep' = 0 /\ made' <= 1 /\ (made' = 1 => mapped' = 1)
    BY <2>1, <2>3
  <2>4. ASSUME NEW c \in Callers, AllowBegin(c) \/ AllowDecide(c) \/ AllowShared(c) \/ AllowDegraded(c)
        PROVE  sweep' = 0 /\ made' <= 1 /\ (made' = 1 => mapped' = 1)
    BY <2>3, <2>4 DEF AllowBegin, AllowDecide, AllowShared, AllowDegraded
  <2>5. ~SweepJudge /\ ~SweepDelete
    BY <1>4, <2>1 DEF SweepJudge, SweepDelete
  <2>6. ASSUME RateTick \/ UNCHANGED rateVars PROVE sweep' = 0 /\ made' <= 1 /\ (made' = 1 => mapped' = 1)
    BY <2>3, <2>6 DEF RateTick, rateVars
  <2> QED  BY <2>2, <2>4, <2>5, <2>6 DEF RateNext
<1> QED
  BY <1>1, <1>2, <1>3, <1>4 DEF RateInv

\* It holds initially ...
LEMMA RateInitially == RateInit => RateInv
<1> SUFFICES ASSUME RateInit PROVE RateInv
  OBVIOUS
<1> USE RateAssumption
<1>1. RateTypes
  BY DEF RateInit, RateTypes, Waiting
<1>2. /\ admitted = <<>> /\ Len(admitted) = 0 /\ DOMAIN admitted = {} /\ admitted \in Seq(Admissions)
      /\ made = 0 /\ mapped = 0 /\ sweep = 0 /\ instant = 0
  BY DEF RateInit
<1>3. /\ counter \in [1..MaxCounters -> CounterRecords]
      /\ \A o \in 1..MaxCounters : counter[o].count = 0 /\ counter[o].start = 0 /\ counter[o].requests = {}
  BY DEF RateInit, CounterRecords
<1>4. \A c \in Callers : caller[c].at = "idle"
  BY DEF RateInit, Waiting
<1>5. RateShape
  BY <1>1, <1>2, <1>3, <1>4 DEF RateInit, RateShape
<1>6. SimpleInv
  <2>1. \A o, g : InWindow(o, g) = {}
    BY <1>2 DEF InWindow
  <2>2. \A o \in 1..MaxCounters : InWindow(o, counter[o].start) = {} /\ \A g \in Nat : Cardinality(InWindow(o, g)) = 0
    BY <2>1, FS_EmptySet
  <2>3. \A o \in 1..MaxCounters : counter[o].count = Cardinality(InWindow(o, counter[o].start))
    BY <1>3, <2>2, FS_EmptySet
  <2> QED  BY <1>2, <1>3, <2>2, <2>3 DEF SimpleInv
<1>7. ApartInv
  BY <1>2, <1>4 DEF ApartInv
<1>8. SlidingInv
  <2>1. \A o, t : Stretch(o, t, Window - MaxLag) = {}
    BY <1>2 DEF Stretch
  <2>2. \A o \in 1..MaxCounters : /\ Cardinality(counter[o].requests) = 0 /\ counter[o].requests = {}
                                  /\ \A t \in Nat : Cardinality(Stretch(o, t, Window - MaxLag)) = 0
    BY <1>3, <2>1, FS_EmptySet
  <2> QED  BY <1>2, <2>2 DEF SlidingInv
<1> QED
  BY <1>2, <1>5, <1>6, <1>7, <1>8 DEF RateInv

\* ... and implies the bound.
LEMMA RateInvImplies == RateInv => RateBounded
<1> SUFFICES ASSUME RateInv PROVE RateBounded
  OBVIOUS
<1> USE RateAssumption
<1>1. /\ made \in 0..MaxCounters /\ Len(admitted) \in Nat /\ DOMAIN admitted = 1..Len(admitted)
      /\ \A i \in 1..Len(admitted) : admitted[i].now \in Nat
  BY AdmissionFields DEF RateInv, RateShape, RateTypes
<1>2. CounterBounded
  <2> SUFFICES ASSUME NEW o \in 1..made, NEW t \in 0..MaxInstant
               PROVE  IF limiter = "simple" THEN Cardinality(Stretch(o, t, Window)) <= Windows * Rate
                      ELSE Cardinality(Stretch(o, t, Window - MaxLag)) <= Rate
    BY DEF CounterBounded
  <2>1. o \in 1..MaxCounters /\ t \in Nat
    BY <1>1
  <2> QED  BY <2>1, StretchBounded DEF RateInv, SlidingInv
<1>3. CountersApart
  <2>1. limiter = "redis" => made <= 1
    BY DEF RateInv
  <2>2. ASSUME limiter = "simple", NEW i \in DOMAIN admitted, NEW j \in DOMAIN admitted, admitted[j].obj >= admitted[i].obj + 2
        PROVE  admitted[j].now - admitted[i].now >= 2 * (Window - MaxLag)
    <3>1. admitted[j].now >= admitted[i].now + 2 * (Window - MaxLag)
      BY <1>1, <2>2 DEF RateInv, ApartInv
    <3>2. admitted[i].now \in Nat /\ admitted[j].now \in Nat
      BY <1>1
    <3> QED  BY <3>1, <3>2
  <2> QED  BY <2>1, <2>2 DEF CountersApart
<1> QED
  BY <1>2, <1>3 DEF RateBounded

\* For every rate, window and lag, any number of requests and any cleanup between
\* them: a sliding window admits no more than the rate in a stretch that is
\* shorter than the window by the lag, a fixed window no more than the rate for
\* each of the two or three windows that a stretch meets, three counters of
\* SimpleLimiter never share a stretch, and the Redis script has one counter.
THEOREM RateStaysBounded == RequestsSpec => []RateBounded
<1>1. RequestsInit => RateInv
  BY RateInitially DEF RequestsInit
<1>2. RateInv /\ [RequestsNext]_requestVars => RateInv'
  <2>1. [RequestsNext]_requestVars => [RateNext]_rateVars
    BY DEF RequestsNext, requestVars, rateVars
  <2> QED  BY <2>1, RateInvKept
<1> QED
  BY <1>1, <1>2, RateInvImplies, PTL DEF RequestsSpec
=============================================================================
