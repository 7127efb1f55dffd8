------------------------------ MODULE RateLimit ------------------------------
(***************************************************************************)
(* The limiters of middlewares/ratelimit, for one key: SimpleLimiter (fixed *)
(* window), SlidingWindowLimiter, and RedisLimiter (the same sliding window *)
(* in a script).  The in-memory ones keep a counter object per key in a    *)
(* sync.Map, from which cleanupLoop deletes it after it has released the   *)
(* object's lock.  A request reads the clock, then loads the object, then  *)
(* decides under its lock.                                                 *)
(***************************************************************************)
EXTENDS Integers, Sequences, FiniteSets

CONSTANTS
    Callers,
    Rate, Window,
    MaxLag,         \* how long a request takes from the clock to its decision
    MaxCounters,    \* bound: counter objects created
    MaxAdmitted,    \* bound: requests admitted
    MaxInstant      \* bound: the clock

ASSUME RateAssumption ==
    /\ Rate \in Nat \ {0} /\ Window \in Nat \ {0} /\ MaxLag \in Nat /\ MaxLag < Window
    /\ MaxCounters \in Nat /\ MaxAdmitted \in Nat /\ MaxInstant \in Nat

VARIABLES
    limiter,    \* "simple", "sliding" or "redis"
    instant,
    counter,    \* the counter objects: count and windowStart, or requests, a list
                \* of times: as the set of their numbers in admitted
    made,       \* counter objects created so far
    mapped,     \* the object in the map, 0 for none
    caller,     \* each caller's step, the now it read, the object it loaded
    sweep,      \* cleanupLoop: the object judged expired, 0 for none
    due,        \* the tick of its ticker that is next to be handled
    admitted    \* history: the requests counted and admitted, each with its now,
                \* its counter object and the windowStart it was counted under

rateVars == <<limiter, instant, counter, made, mapped, caller, sweep, due, admitted>>

Waiting == [at |-> "idle", now |-> 0, obj |-> 0]

RateInit ==
    /\ limiter \in {"simple", "sliding", "redis"}
    /\ instant = 0
    /\ counter = [o \in 1..MaxCounters |-> [count |-> 0, start |-> 0, requests |-> {}]]
    /\ made = 0 /\ mapped = 0
    /\ caller = [c \in Callers |-> Waiting]
    /\ sweep = 0 /\ due = 2 * Window
    /\ admitted = <<>>

----------------------------------------------------------------------------
AllowBegin(c) ==
    /\ caller[c].at = "idle" /\ Len(admitted) < MaxAdmitted
    /\ caller' = [caller EXCEPT ![c] = [at |-> "load", now |-> instant, obj |-> 0]]
    /\ UNCHANGED <<limiter, instant, counter, made, mapped, sweep, due, admitted>>

\* LoadOrStore
AllowLoad(c) ==
    /\ caller[c].at = "load"
    /\ IF mapped # 0
       THEN UNCHANGED <<counter, made, mapped>> /\ caller' = [caller EXCEPT ![c].at = "decide", ![c].obj = mapped]
       ELSE /\ made < MaxCounters
            /\ made' = made + 1 /\ mapped' = made + 1
            /\ counter' = [counter EXCEPT ![made + 1].start = caller[c].now]
            /\ caller' = [caller EXCEPT ![c].at = "decide", ![c].obj = made + 1]
    /\ UNCHANGED <<limiter, instant, sweep, due, admitted>>

MutSimpleCount(k, now) ==
    IF now - k.start >= Window THEN [k EXCEPT !.count = 1]
    ELSE [k EXCEPT !.count = @ + 1]

\* The counter after a request that is admitted: a window that is over begins
\* again with this request.
SimpleCount(k, now) ==
    IF now - k.start >= Window THEN [k EXCEPT !.count = 1, !.start = now]
    ELSE [k EXCEPT !.count = @ + 1]

SimpleAllows(k, now) == now - k.start >= Window \/ k.count < Rate

\* The requests still inside the window that ends now.
Recent(k, now) == {i \in k.requests : admitted[i].now > now - Window}

Allowed(k, now) == IF limiter = "simple" THEN SimpleAllows(k, now) ELSE Cardinality(Recent(k, now)) < Rate

Counted(k, now) ==
    CASE limiter = "simple" -> IF SimpleAllows(k, now) THEN SimpleCount(k, now) ELSE k
      [] OTHER -> [k EXCEPT !.requests = IF Allowed(k, now) THEN Recent(k, now) \union {Len(admitted) + 1}
                                         ELSE Recent(k, now)]

AllowDecide(c) ==
    LET o == caller[c].obj k == counter[o] now == caller[c].now IN
    /\ caller[c].at = "decide"
    /\ counter' = [counter EXCEPT ![o] = Counted(k, now)]
    /\ admitted' = IF Allowed(k, now)
                   THEN Append(admitted, [now |-> now, obj |-> o, start |-> Counted(k, now).start]) ELSE admitted
    /\ caller' = [caller EXCEPT ![c] = Waiting]
    /\ UNCHANGED <<limiter, instant, made, mapped, sweep, due>>

\* RedisLimiter: the member a request is recorded under is the text of its time
\* and a pseudo-random number.  One that comes out like the member of another
\* request of that instant is let through and takes no place of its own.
AllowShared(c) ==
    LET o == caller[c].obj recent == Recent(counter[o], caller[c].now) IN
    /\ limiter = "redis" /\ caller[c].at = "decide"
    /\ Cardinality(recent) < Rate
    /\ \E i \in recent : admitted[i].now = caller[c].now
    /\ counter' = [counter EXCEPT ![o].requests = recent]
    /\ caller' = [caller EXCEPT ![c] = Waiting]
    /\ UNCHANGED <<limiter, instant, made, mapped, sweep, due, admitted>>

\* RedisLimiter: when the script fails the request is let through uncounted.
AllowDegraded(c) ==
    /\ limiter = "redis" /\ caller[c].at = "decide"
    /\ caller' = [caller EXCEPT ![c] = Waiting]
    /\ UNCHANGED <<limiter, instant, counter, made, mapped, sweep, due, admitted>>

\* cleanupLoop judges under the object's lock ...
Stale(k) ==
    IF limiter = "simple" THEN instant - k.start >= 2 * Window
    ELSE \A i \in k.requests : (\A j \in k.requests : j <= i) => admitted[i].now < instant - 2 * Window

\* The ticker keeps one tick for a loop that is late and drops the others.
NextDue == LET last == (instant \div (2 * Window)) * 2 * Window
           IN  IF last > due THEN last ELSE due + 2 * Window

SweepJudge ==
    /\ limiter # "redis" /\ sweep = 0 /\ instant >= due
    /\ due' = NextDue
    /\ sweep' = IF mapped # 0 /\ Stale(counter[mapped]) THEN mapped ELSE 0
    /\ UNCHANGED <<limiter, instant, counter, made, mapped, caller, admitted>>

\* ... and deletes after it has released it.
SweepDelete ==
    /\ sweep # 0
    /\ mapped' = 0 /\ sweep' = 0
    /\ UNCHANGED <<limiter, instant, counter, made, caller, due, admitted>>

\* Requests are not stalled for a whole window.
RateTick ==
    /\ instant < MaxInstant
    /\ \A c \in Callers : caller[c].at # "idle" => instant - caller[c].now < MaxLag
    /\ instant' = instant + 1
    /\ UNCHANGED <<limiter, counter, made, mapped, caller, sweep, due, admitted>>

RateNext ==
    \/ \E c \in Callers : AllowBegin(c) \/ AllowLoad(c) \/ AllowDecide(c) \/ AllowShared(c) \/ AllowDegraded(c)
    \/ SweepJudge \/ SweepDelete \/ RateTick

RateSpec == RateInit /\ [][RateNext]_rateVars

RateTypeOK ==
    /\ instant \in 0..MaxInstant /\ made \in 0..MaxCounters
    /\ mapped \in 0..made /\ sweep \in 0..made
    /\ \A c \in Callers : caller[c].now \in 0..instant /\ caller[c].obj \in 0..made

\* The requests that one counter object admits in a stretch of time.
Stretch(o, t, length) == {i \in DOMAIN admitted : admitted[i].obj = o /\ admitted[i].now \in t..(t + length - 1)}

\* The windows of a fixed-window counter that a stretch of one window can meet:
\* a third one when requests may be late enough to be counted in the next window.
Windows == IF MaxLag <= 1 THEN 2 ELSE 3

CounterBounded ==
    \A o \in 1..made, t \in 0..MaxInstant :
        IF limiter = "simple" THEN Cardinality(Stretch(o, t, Window)) <= Windows * Rate
        ELSE Cardinality(Stretch(o, t, Window - MaxLag)) <= Rate

CountersApart ==
    /\ limiter = "redis" => made <= 1
    /\ limiter = "simple" => \A i, j \in DOMAIN admitted :
          admitted[j].obj >= admitted[i].obj + 2 => admitted[j].now - admitted[i].now >= 2 * (Window - MaxLag)

\* Whichever requests overlap, read the clock and decide late: the list of a
\* sliding window, in memory or in Redis, admits no more than the rate in any
\* stretch that is shorter than the window by the lag (of the requests it has
\* counted: in Redis not those that share a member or meet a failing script); a
\* fixed window no more than the rate for each of the windows that the stretch
\* meets.  A cleanup that deletes a counter while requests count in it gives a
\* key a second counter: SimpleLimiter no third one until two windows, each less
\* the lag, after what the first admitted; the script, which has no cleanup, one
\* for all.  What the two counters of a sliding window let through together is
\* the subject of SlidingExact.
RateBounded == CounterBounded /\ CountersApart

\* ratelimit/README.md on SlidingWindowLimiter: "at most 50 requests every 10
\* seconds", without bursts.  However its cleanup and the requests interleave, a
\* key is admitted no more than the rate in any one window.
SlidingExact ==
    limiter = "sliding" =>
        \A t \in 0..MaxInstant :
            Cardinality({i \in DOMAIN admitted : admitted[i].now \in t..(t + Window - 1)}) <= Rate
=============================================================================
