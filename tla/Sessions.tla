------------------------------ MODULE Sessions ------------------------------
(***************************************************************************)
(* Login sessions: the providers of session/memory and session/redis, the  *)
(* tokens of jwt, the header and cookie carriers, and the authentication   *)
(* middlewares of middlewares/auth that use them.                          *)
(*                                                                         *)
(* A session is its number.  Its client keeps the expiry of the access and *)
(* of the refresh token it was last given (0: none).  In memory a session  *)
(* is an object with an expireTime, registered in the provider's map; the  *)
(* map and each object have locks of their own.  In Redis it is a hash     *)
(* with a time to live.  A request carries the token of one session; what  *)
(* it does between two accesses to shared state is one step.               *)
(***************************************************************************)
EXTENDS Integers, FiniteSets

CONSTANTS
    Handlers,       \* request goroutines
    AccessLife, SessionLife,    \* accessExpire, refreshExpire
    MaxSessions,    \* bound: sessions created
    MaxTime         \* bound: the clock

ASSUME SessionAssumption ==
    AccessLife \in Nat \ {0} /\ SessionLife \in Nat \ {0} /\ MaxSessions \in Nat /\ MaxTime \in Nat

Sids == 1..MaxSessions
NoTTL == 0 - 1

VARIABLES
    store, carrier,     \* the provider and the carrier configured
    time,
    issued,         \* sessions created so far
    wallet,         \* the tokens of each session's client
    stored,         \* memory: the sessions in the map
    expireTime,     \* memory: of each session object
    hash, ttl,      \* redis: the fields of each session's key, when it ends
    req,            \* each request's step and what it has learnt
    cleaner,        \* the goroutine cleanExpiredSessions
    destroyed,      \* history: sessions a Destroy has finished on
    revived,        \* history: destroyed sessions written to again
    assured         \* history: until when a renewed session must be found

sessionVars == <<store, carrier, time, issued, wallet, stored, expireTime, hash, ttl, req, cleaner,
                 destroyed, revived, assured>>

IdleRequest == [at |-> "idle", sid |-> 0, late |-> FALSE]

SessionInit ==
    /\ store \in {"memory", "redis"} /\ carrier \in {"header", "cookie"}
    /\ time = 0 /\ issued = 0
    /\ wallet = [s \in Sids |-> [access |-> 0, refresh |-> 0]]
    /\ stored = {} /\ expireTime = [s \in Sids |-> 0]
    /\ hash = [s \in Sids |-> {}] /\ ttl = [s \in Sids |-> NoTTL]
    /\ req = [h \in Handlers |-> IdleRequest]
    /\ cleaner = [at |-> "idle", now |-> 0, ids |-> {}, doomed |-> {}]
    /\ destroyed = {} /\ revived = {}
    /\ assured = [s \in Sids |-> 0]

----------------------------------------------------------------------------
(* jwt and carriers *)

\* GenerateTokenPair
TokenPair == [access |-> time + AccessLife, refresh |-> time + SessionLife]

\* VerifyToken and VerifyRefreshToken are the same check: either accepts both
\* kinds of token.
Verified(s, kind) == wallet[s][kind] > time

\* Clear removes the client's cookie; a header client keeps its token.
Cleared(s) == IF carrier = "cookie" THEN [wallet EXCEPT ![s].access = 0] ELSE wallet

\* The key a Redis command finds: an expired one is gone.
Live(s) == hash[s] # {} /\ (ttl[s] = NoTTL \/ time < ttl[s])
Fields(s) == IF Live(s) THEN hash[s] ELSE {}

\* The provider's map can be read or written.
MapFree == cleaner.at # "locked"

----------------------------------------------------------------------------
(* NewSession *)

NewSessionMemory ==
    /\ store = "memory" /\ issued < MaxSessions /\ MapFree
    /\ issued' = issued + 1
    /\ expireTime' = [expireTime EXCEPT ![issued + 1] = time + SessionLife]
    /\ stored' = stored \union {issued + 1}
    /\ wallet' = [wallet EXCEPT ![issued + 1] = TokenPair]
    /\ assured' = [assured EXCEPT ![issued + 1] = time + SessionLife]
    /\ UNCHANGED <<store, carrier, time, hash, ttl, req, cleaner, destroyed, revived>>

\* The tokens are injected before init, whose pipeline may fail at once or
\* after the HSETs.
NewSessionRedis ==
    /\ store = "redis" /\ issued < MaxSessions
    /\ issued' = issued + 1
    /\ wallet' = [wallet EXCEPT ![issued + 1] = TokenPair]
    /\ \/ /\ hash' = [hash EXCEPT ![issued + 1] = {"user_id", "role"}]
          /\ ttl' = [ttl EXCEPT ![issued + 1] = time + SessionLife]
       \/ hash' = [hash EXCEPT ![issued + 1] = {"user_id", "role"}] /\ UNCHANGED ttl
       \/ UNCHANGED <<hash, ttl>>
    /\ UNCHANGED <<store, carrier, time, stored, expireTime, req, cleaner, destroyed, revived, assured>>

----------------------------------------------------------------------------
(* The middlewares: verify the token, get the session, build the context *)

Request(s, step) == [at |-> step, sid |-> s, late |-> s \in destroyed]

\* Middleware and GatewayMiddleware: 401 without a valid token.
Middleware(h, s, kind) ==
    /\ req[h].at = "idle" /\ s \in 1..issued
    /\ Verified(s, kind)
    /\ req' = [req EXCEPT ![h] = Request(s, "lookup")]
    /\ UNCHANGED <<store, carrier, time, issued, wallet, stored, expireTime, hash, ttl, cleaner,
                   destroyed, revived, assured>>

\* Without a valid token the handler runs without a user.
OptionalMiddleware(h, s, kind) ==
    /\ req[h].at = "idle" /\ s \in 1..issued
    /\ req' = [req EXCEPT ![h] = IF Verified(s, kind) THEN Request(s, "lookup") ELSE [IdleRequest EXCEPT !.at = "handler"]]
    /\ UNCHANGED <<store, carrier, time, issued, wallet, stored, expireTime, hash, ttl, cleaner,
                   destroyed, revived, assured>>

\* Get of the memory provider, up to the unlock of the map.  Without a session
\* the request goes on with the claims alone.
GetLookup(h) ==
    /\ store = "memory" /\ req[h].at = "lookup" /\ MapFree
    /\ req' = [req EXCEPT ![h].at = IF req[h].sid \in stored THEN "touch" ELSE "claims"]
    /\ UNCHANGED <<store, carrier, time, issued, wallet, stored, expireTime, hash, ttl, cleaner,
                   destroyed, revived, assured>>

\* Somebody has decided to take s out of the map and not done it yet.
Doomed(s) == s \in cleaner.doomed \/ \E h \in Handlers : req[h].at = "evict" /\ req[h].sid = s

\* Get under the session's lock: expired, or renewed.
GetTouch(h) ==
    LET s == req[h].sid IN
    /\ req[h].at = "touch"
    /\ IF time > expireTime[s]
       THEN req' = [req EXCEPT ![h].at = "evict"] /\ UNCHANGED <<expireTime, assured>>
       ELSE /\ req' = [req EXCEPT ![h].at = "got"]
            /\ expireTime' = [expireTime EXCEPT ![s] = time + SessionLife]
            /\ assured' = IF s \in stored /\ ~Doomed(s) THEN [assured EXCEPT ![s] = time + SessionLife] ELSE assured
    /\ UNCHANGED <<store, carrier, time, issued, wallet, stored, hash, ttl, cleaner, destroyed, revived>>

GetEvict(h) ==
    /\ req[h].at = "evict" /\ MapFree
    /\ stored' = stored \ {req[h].sid}
    /\ req' = [req EXCEPT ![h].at = "claims"]
    /\ UNCHANGED <<store, carrier, time, issued, wallet, expireTime, hash, ttl, cleaner,
                   destroyed, revived, assured>>

\* Get of the Redis provider: EXISTS, which may fail.
GetExists(h) ==
    /\ store = "redis" /\ req[h].at = "lookup"
    /\ \/ Live(req[h].sid) /\ req' = [req EXCEPT ![h].at = "got"]
       \/ req' = [req EXCEPT ![h].at = "claims"]
    /\ UNCHANGED <<store, carrier, time, issued, wallet, stored, expireTime, hash, ttl, cleaner,
                   destroyed, revived, assured>>

\* UserContext and ensureUserContext: the handler runs with the session, or with
\* the claims of the token alone; either way as the user of the token.
EnsureUserContext(h) ==
    /\ req[h].at \in {"got", "claims"}
    /\ req' = [req EXCEPT ![h].at = IF @ = "got" THEN "session" ELSE "handler"]
    /\ UNCHANGED <<store, carrier, time, issued, wallet, stored, expireTime, hash, ttl, cleaner,
                   destroyed, revived, assured>>

\* The handler returns; a DEL may have failed.
HandlerEnds(h) ==
    /\ req[h].at \in {"session", "handler", "del"}
    /\ req' = [req EXCEPT ![h] = IdleRequest]
    /\ UNCHANGED <<store, carrier, time, issued, wallet, stored, expireTime, hash, ttl, cleaner,
                   destroyed, revived, assured>>

----------------------------------------------------------------------------
(* What a handler does with the session it was given *)

Revive(s) == IF s \in destroyed THEN revived \union {s} ELSE revived

\* Set: HSET and EXPIRE are two commands, and creates the key if it is gone.
SetHash(h) ==
    LET s == req[h].sid IN
    /\ store = "redis" /\ req[h].at = "session"
    /\ hash' = [hash EXCEPT ![s] = Fields(s) \union {"note"}]
    /\ ttl' = IF Live(s) THEN ttl ELSE [ttl EXCEPT ![s] = NoTTL]
    /\ revived' = Revive(s)
    /\ req' = [req EXCEPT ![h].at = "expire"]
    /\ UNCHANGED <<store, carrier, time, issued, wallet, stored, expireTime, cleaner, destroyed, assured>>

\* EXPIRE, the end of Set and the whole of Refresh: it does nothing to a missing
\* key, and it may fail.  Refresh of a session in memory changes nothing.
Extended(s) == IF Live(s) THEN [ttl EXCEPT ![s] = time + SessionLife] ELSE ttl

SetExpire(h) ==
    /\ req[h].at = "expire" \/ (store = "redis" /\ req[h].at = "session")
    /\ ttl' \in {Extended(req[h].sid), ttl}
    /\ req' = [req EXCEPT ![h] = IdleRequest]
    /\ UNCHANGED <<store, carrier, time, issued, wallet, stored, expireTime, hash, cleaner, destroyed, revived, assured>>

\* Del of the handler's own field; a hash without fields is no key.
DelField(h) ==
    LET s == req[h].sid IN
    /\ store = "redis" /\ req[h].at = "session" /\ "note" \in Fields(s)
    /\ hash' = [hash EXCEPT ![s] = Fields(s) \ {"note"}]
    /\ req' = [req EXCEPT ![h] = IdleRequest]
    /\ UNCHANGED <<store, carrier, time, issued, wallet, stored, expireTime, ttl, cleaner,
                   destroyed, revived, assured>>

\* Requests on s under way have begun before this Destroy finishes.
Early(r, s) == [g \in Handlers |-> IF r[g].sid = s THEN [r[g] EXCEPT !.late = FALSE] ELSE r[g]]

\* Destroy of the session object: in memory it is only marked as expired.
SessionDestroy(h) ==
    LET s == req[h].sid IN
    /\ req[h].at \in {"session", "del"}
    /\ IF store = "memory"
       THEN expireTime' = [expireTime EXCEPT ![s] = time - 1] /\ UNCHANGED hash
       ELSE hash' = [hash EXCEPT ![s] = {}] /\ UNCHANGED expireTime
    /\ destroyed' = destroyed \union {s} /\ revived' = revived \ {s}
    /\ assured' = [assured EXCEPT ![s] = 0]
    /\ req' = Early([req EXCEPT ![h] = IdleRequest], s)
    /\ UNCHANGED <<store, carrier, time, issued, wallet, stored, ttl, cleaner>>

----------------------------------------------------------------------------
(* Destroy and RenewToken of the providers *)

MutDestroyMemory(h, s, kind) ==
    /\ store = "memory" /\ req[h].at = "idle" /\ s \in 1..issued /\ MapFree
    /\ Verified(s, kind)
    /\ wallet' = Cleared(s)
    /\ destroyed' = destroyed \union {s} /\ revived' = revived \ {s}
    /\ assured' = [assured EXCEPT ![s] = 0]
    /\ req' = Early(req, s)
    /\ UNCHANGED <<store, carrier, time, issued, stored, expireTime, hash, ttl, cleaner>>

DestroyMemory(h, s, kind) ==
    /\ store = "memory" /\ req[h].at = "idle" /\ s \in 1..issued /\ MapFree
    /\ Verified(s, kind)
    /\ stored' = stored \ {s}
    /\ wallet' = Cleared(s)
    /\ destroyed' = destroyed \union {s} /\ revived' = revived \ {s}
    /\ assured' = [assured EXCEPT ![s] = 0]
    /\ req' = Early(req, s)
    /\ UNCHANGED <<store, carrier, time, issued, expireTime, hash, ttl, cleaner>>

\* The Redis provider gets the session first, then clears the carrier and
\* deletes the key.
DestroyRedis(h, s, kind) ==
    /\ store = "redis" /\ req[h].at = "idle" /\ s \in 1..issued
    /\ Verified(s, kind) /\ Live(s)
    /\ wallet' = Cleared(s)
    /\ req' = [req EXCEPT ![h] = Request(s, "del")]
    /\ UNCHANGED <<store, carrier, time, issued, stored, expireTime, hash, ttl, cleaner,
                   destroyed, revived, assured>>

\* RenewToken: the session is found and its expiry compared without its lock.
RenewCheck(h, s, kind) ==
    /\ req[h].at = "idle" /\ s \in 1..issued
    /\ Verified(s, kind)
    /\ store = "memory" => MapFree /\ s \in stored /\ ~(time > expireTime[s])
    /\ store = "redis" => Live(s)
    /\ wallet' = [wallet EXCEPT ![s] = TokenPair]
    /\ req' = [req EXCEPT ![h] = Request(s, "renew")]
    /\ UNCHANGED <<store, carrier, time, issued, stored, expireTime, hash, ttl, cleaner,
                   destroyed, revived, assured>>

RenewWrite(h) ==
    LET s == req[h].sid IN
    /\ req[h].at = "renew"
    /\ IF store = "memory"
       THEN /\ expireTime' = [expireTime EXCEPT ![s] = time + SessionLife]
            /\ revived' = Revive(s)
            /\ UNCHANGED ttl
       ELSE ttl' = Extended(s) /\ UNCHANGED <<expireTime, revived>>
    /\ req' = [req EXCEPT ![h] = IdleRequest]
    /\ UNCHANGED <<store, carrier, time, issued, wallet, stored, hash, cleaner, destroyed, assured>>

----------------------------------------------------------------------------
(* cleanExpiredSessions: collect under the read lock, check again and delete
   under the lock; now is the time at which the pass began.                 *)

CleanCollect ==
    /\ store = "memory" /\ cleaner.at = "idle"
    /\ {s \in stored : time > expireTime[s]} # {}
    /\ cleaner' = [at |-> "collected", now |-> time, ids |-> {s \in stored : time > expireTime[s]}, doomed |-> {}]
    /\ UNCHANGED <<store, carrier, time, issued, wallet, stored, expireTime, hash, ttl, req,
                   destroyed, revived, assured>>

CleanLock ==
    /\ cleaner.at = "collected"
    /\ cleaner' = [cleaner EXCEPT !.at = "locked"]
    /\ UNCHANGED <<store, carrier, time, issued, wallet, stored, expireTime, hash, ttl, req,
                   destroyed, revived, assured>>

MutStillExpired(s) == s \in stored

StillExpired(s) == s \in stored /\ cleaner.now > expireTime[s]

CleanRecheck(s) ==
    /\ cleaner.at = "locked" /\ s \in cleaner.ids /\ cleaner.doomed = {}
    /\ cleaner' = [at |-> "locked", now |-> cleaner.now, ids |-> cleaner.ids \ {s},
                   doomed |-> IF StillExpired(s) THEN {s} ELSE {}]
    /\ UNCHANGED <<store, carrier, time, issued, wallet, stored, expireTime, hash, ttl, req,
                   destroyed, revived, assured>>

CleanDelete ==
    /\ cleaner.at = "locked" /\ cleaner.doomed # {}
    /\ stored' = stored \ cleaner.doomed
    /\ cleaner' = [cleaner EXCEPT !.doomed = {}]
    /\ UNCHANGED <<store, carrier, time, issued, wallet, expireTime, hash, ttl, req,
                   destroyed, revived, assured>>

CleanUnlock ==
    /\ cleaner.at = "locked" /\ cleaner.ids = {} /\ cleaner.doomed = {}
    /\ cleaner' = [at |-> "idle", now |-> 0, ids |-> {}, doomed |-> {}]
    /\ UNCHANGED <<store, carrier, time, issued, wallet, stored, expireTime, hash, ttl, req,
                   destroyed, revived, assured>>

SessionTick ==
    /\ time < MaxTime
    /\ time' = time + 1
    /\ UNCHANGED <<store, carrier, issued, wallet, stored, expireTime, hash, ttl, req, cleaner,
                   destroyed, revived, assured>>

SessionNext ==
    \/ NewSessionMemory \/ NewSessionRedis \/ SessionTick
    \/ \E h \in Handlers :
        \/ \E s \in Sids, kind \in {"access", "refresh"} :
            \/ Middleware(h, s, kind) \/ OptionalMiddleware(h, s, kind)
            \/ DestroyMemory(h, s, kind) \/ DestroyRedis(h, s, kind) \/ RenewCheck(h, s, kind)
        \/ GetLookup(h) \/ GetTouch(h) \/ GetEvict(h) \/ GetExists(h) \/ EnsureUserContext(h) \/ HandlerEnds(h)
        \/ SetHash(h) \/ SetExpire(h) \/ DelField(h) \/ SessionDestroy(h) \/ RenewWrite(h)
    \/ CleanCollect \/ CleanLock \/ CleanDelete \/ CleanUnlock
    \/ \E s \in Sids : CleanRecheck(s)

SessionSpec == SessionInit /\ [][SessionNext]_sessionVars

SessionTypeOK ==
    /\ time \in 0..MaxTime /\ issued \in 0..MaxSessions
    /\ stored \subseteq 1..issued
    /\ \A h \in Handlers : req[h].sid \in 0..issued
    /\ \A s \in Sids : hash[s] \subseteq {"user_id", "role", "note"} /\ ttl[s] \in Int
    /\ cleaner.ids \union cleaner.doomed \subseteq 1..issued

\* The session itself is not found by a request that begins after Destroy has
\* finished, except through the two writes that outlive it: RenewToken in memory
\* sets the expiry of a session that was only marked as expired, and a Set in
\* Redis creates the key again, but without the user it belonged to.  That the
\* client of a destroyed session is shut out is LoggedOut, which fails.
DestroyedStaysOut ==
    \A h \in Handlers : req[h].at = "got" /\ req[h].late =>
        /\ req[h].sid \in revived
        /\ store = "redis" => "user_id" \notin Fields(req[h].sid)

\* A session that Get has renewed is found until it expires again, whatever the
\* cleanup goroutine and other requests are in the middle of, unless one of them
\* had already decided to remove it when Get wrote the new expiry.
RenewalNotLost == \A s \in 1..issued : store = "memory" /\ time <= assured[s] /\ assured[s] > 0 => s \in stored

\* The guide to the two tokens says that destroying the session is what to do
\* about a leaked refresh token: it "becomes invalid together with the session"
\* and "the user has to log in again".  No request that begins after Destroy has
\* finished runs a handler as the session's user, or renews the tokens.
LoggedOut == \A h \in Handlers : req[h].late => req[h].at \notin {"session", "handler", "renew"}
=============================================================================
