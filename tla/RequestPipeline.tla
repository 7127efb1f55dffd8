--------------------------- MODULE RequestPipeline ---------------------------
(***************************************************************************)
(* A request on its way through a chain of handlers: activelimit, the      *)
(* filters (metrics, ipfilter, adminauth, bodylimit and csrf), timeout,    *)
(* and the handler of the route.                                           *)
(*                                                                         *)
(* gin keeps its contexts in a pool.  A context has the index of the chain *)
(* it serves; Next is a loop that increments the index and runs what is    *)
(* there, and a middleware calls Next again.  The timeout middleware does  *)
(* so in a goroutine of its own, which keeps the context when the deadline *)
(* answers first.  From then on the context may serve another request, and *)
(* the loop of the goroutine goes on with that request's chain.            *)
(***************************************************************************)
EXTENDS Integers, Sequences, FiniteSets

CONSTANTS
    Calls,          \* requests, each served once
    Goroutines,     \* bound: goroutines of the timeout middleware
    Attributes,     \* [ip, realIP, bearer, length, method, cookie, token, limited]
    Contexts,       \* the pool of gin contexts
    MaxActive,      \* maxActive
    MaxBytes,
    ListMode, Listed, TrustProxy,   \* ipfilter: mode, addresses, TrustProxy
    AdminNets,      \* addresses CombinedMiddleware admits without the token
    MaxDepth,       \* bound: loops of Next inside each other
    MaxRaces        \* bound: increments of an index that use an earlier value

Nobody == "nobody"
Threads == Calls \union Goroutines

ASSUME PipelineAssumption ==
    /\ IsFiniteSet(Calls) /\ IsFiniteSet(Goroutines) /\ Nobody \notin Threads /\ Calls \intersect Goroutines = {}
    /\ Attributes # {} /\ MaxActive \in Nat /\ MaxBytes \in Nat /\ MaxDepth \in Nat /\ MaxRaces \in Nat
    /\ ListMode \in {"whitelist", "blacklist"} /\ TrustProxy \in BOOLEAN

VARIABLES
    call,       \* each request: "new", "serving" or "answered", and its attributes
    owner,      \* the request each context serves or served last
    index,      \* how far each context is in its chain; 0 after a reset
    thread,     \* of each goroutine, the one of the request included: its step,
                \* its context, the request it was started for, the middlewares
                \* whose Next it is in, and the goroutine it waits for
    gauge,      \* currentActive of activelimit, the inflight gauge of metrics
    timedOut,   \* history: requests one of whose goroutines met its deadline
    haunted,    \* history: requests given a context that a goroutine still has
    ran,        \* history: how often the handler ran for each request, up to 2
    spoiled,    \* history: requests whose response a goroutine of another wrote
    races       \* increments that used an earlier value, for the bound MaxRaces

pipelineVars == <<call, owner, index, thread, gauge, timedOut, haunted, ran, spoiled, races>>

Chain == <<"active", "filter", "timeout", "handler">>
End == Len(Chain) + 1     \* past the chain, where Abort goes

NoThread == [at |-> "none", on |-> Nobody, for |-> Nobody, frames |-> <<>>, child |-> Nobody]

PipelineInit ==
    /\ call = [r \in Calls |-> [at |-> "new", attr |-> CHOOSE a \in Attributes : TRUE]]
    /\ owner = [k \in Contexts |-> Nobody]
    /\ index = [k \in Contexts |-> End]
    /\ thread = [t \in Threads |-> NoThread]
    /\ gauge = [f \in {"active", "filter"} |-> 0]
    /\ timedOut = {} /\ haunted = {} /\ ran = [r \in Calls |-> 0] /\ spoiled = {} /\ races = 0

Alive(t) == thread[t].at \notin {"none", "done", "panicked"}

----------------------------------------------------------------------------
(* The decisions of the filters *)

\* ipfilter
ClientIP(a) == IF TrustProxy /\ a.realIP # 0 THEN a.realIP ELSE a.ip
IPAllowed(a) == IF ListMode = "whitelist" THEN ClientIP(a) \in Listed ELSE ClientIP(a) \notin Listed

\* adminauth: the token, or an address of the white list.
AdminAllowed(a) == a.bearer \/ a.ip \in AdminNets

\* bodylimit compares the declared length; the reader enforces it later.
BodyAllowed(a) == a.length <= MaxBytes

\* csrf: a method that is not safe needs the token of the cookie.
SafeMethod(a) == a.method \in {"GET", "HEAD", "OPTIONS"}
ValidateToken(stored, submitted) == stored # 0 /\ submitted # 0 /\ stored = submitted
TokenAllowed(a) == SafeMethod(a) \/ ValidateToken(a.cookie, a.token)

Admitted(a) == IPAllowed(a) /\ AdminAllowed(a) /\ BodyAllowed(a) /\ TokenAllowed(a)

----------------------------------------------------------------------------
(* gin: the pool, Next and Abort *)

\* A request is given a context that serves no other, and the context is reset.
Arrive(r, a, k) ==
    /\ call[r].at = "new"
    /\ owner[k] # Nobody => call[owner[k]].at = "answered"
    /\ call' = [call EXCEPT ![r] = [at |-> "serving", attr |-> a]]
    /\ owner' = [owner EXCEPT ![k] = r]
    /\ index' = [index EXCEPT ![k] = 0]
    /\ thread' = [thread EXCEPT ![r] = [NoThread EXCEPT !.at = "next", !.on = k, !.for = r]]
    /\ haunted' = IF \E t \in Threads : Alive(t) /\ thread[t].on = k THEN haunted \union {r} ELSE haunted
    /\ UNCHANGED <<gauge, timedOut, ran, spoiled, races>>

\* Goroutines of two requests have the context; they race for its index.
Contested(k) ==
    \E t, u \in Threads : Alive(t) /\ Alive(u) /\ thread[t].on = k /\ thread[u].on = k /\ thread[t].for # thread[u].for

Incremented(k) == IF index[k] < End THEN index[k] + 1 ELSE End

\* What c.index++ may leave: while goroutines race, one of them may write what
\* it read at any earlier time, plus one.
IndexAfter(k) == IF Contested(k) /\ races < MaxRaces THEN 1..End ELSE {Incremented(k)}

MovedTo(t, step) == [thread EXCEPT ![t].at = step]
Ended(t, how) == [thread EXCEPT ![t] = [NoThread EXCEPT !.at = how]]

\* Next: the loop runs the next handler of the chain, or ends.
NextHandler(t) ==
    LET k == thread[t].on r == owner[k] IN
    /\ thread[t].at = "next"
    /\ \E i \in IndexAfter(k) :
        /\ i # End => Len(thread[t].frames) < MaxDepth
        /\ index' = [index EXCEPT ![k] = i]
        /\ races' = IF i = Incremented(k) THEN races ELSE races + 1
        /\ thread' = MovedTo(t, IF i = End THEN "return" ELSE Chain[i])
        /\ ran' = IF i # End /\ Chain[i] = "handler" /\ ran[r] < 2 THEN [ran EXCEPT ![r] = @ + 1] ELSE ran
    /\ UNCHANGED <<call, owner, gauge, timedOut, haunted, spoiled>>

Abort(t) == index' = [index EXCEPT ![thread[t].on] = End]

\* A middleware is entered, and counted by the gauge it has.
Entered(t, f, step) == [thread EXCEPT ![t].frames = Append(@, f), ![t].at = step]

\* The functions a middleware defers: its gauge goes down.
Top(t) == thread[t].frames[Len(thread[t].frames)]
Left(t, step) == [thread EXCEPT ![t].frames = SubSeq(@, 1, Len(@) - 1), ![t].at = step]

\* Mutant: every gauge goes down.
MutGaugeAfter(t) == [f \in DOMAIN gauge |-> gauge[f] - 1]

GaugeAfter(t) == IF Top(t) \in DOMAIN gauge THEN [gauge EXCEPT ![Top(t)] = @ - 1] ELSE gauge

\* Next returns to the middleware that called it, which returns to the loop that
\* runs it; the outermost ends the request or the goroutine.
Return(t) ==
    /\ thread[t].at = "return"
    /\ IF thread[t].frames = <<>>
       THEN /\ thread' = Ended(t, "done")
            /\ call' = IF t \in Calls THEN [call EXCEPT ![t].at = "answered"] ELSE call
            /\ UNCHANGED gauge
       ELSE thread' = Left(t, "next") /\ gauge' = GaugeAfter(t) /\ UNCHANGED call
    /\ UNCHANGED <<owner, index, timedOut, haunted, ran, spoiled, races>>

\* A panic runs the deferred functions only, up to gin's recovery or the one of
\* the goroutine.
Panic(t) ==
    /\ thread[t].at = "panic"
    /\ IF thread[t].frames = <<>>
       THEN /\ thread' = Ended(t, IF t \in Calls THEN "done" ELSE "panicked")
            /\ call' = IF t \in Calls THEN [call EXCEPT ![t].at = "answered"] ELSE call
            /\ UNCHANGED gauge
       ELSE thread' = Left(t, "panic") /\ gauge' = GaugeAfter(t) /\ UNCHANGED call
    /\ UNCHANGED <<owner, index, timedOut, haunted, ran, spoiled, races>>

----------------------------------------------------------------------------
(* The chain *)

\* A write goes into the response of whoever has the context.
SpoiledBy(t) ==
    LET r == owner[thread[t].on] IN IF thread[t].for = r THEN spoiled ELSE spoiled \union {r}

\* activelimit: count first, compare after.
ActiveLimit(t) ==
    LET ok == gauge["active"] + 1 <= MaxActive IN
    /\ thread[t].at = "active"
    /\ gauge' = [gauge EXCEPT !["active"] = @ + 1]
    /\ thread' = Entered(t, "active", IF ok THEN "next" ELSE "return")
    /\ IF ok THEN UNCHANGED index ELSE Abort(t)
    /\ UNCHANGED <<call, owner, timedOut, haunted, ran, spoiled, races>>

\* metrics, and the filters behind it.
Filter(t) ==
    LET ok == Admitted(call[owner[thread[t].on]].attr) IN
    /\ thread[t].at = "filter"
    /\ gauge' = [gauge EXCEPT !["filter"] = @ + 1]
    /\ thread' = Entered(t, "filter", IF ok THEN "next" ELSE "return")
    /\ IF ok THEN UNCHANGED index ELSE Abort(t)
    /\ UNCHANGED <<call, owner, timedOut, haunted, ran, spoiled, races>>

\* timeout: Next in a goroutine; PerRoute calls it itself where its function
\* answers 0.
Timeout(t) ==
    /\ thread[t].at = "timeout"
    /\ IF call[owner[thread[t].on]].attr.limited
       THEN \E g \in Goroutines :
              /\ thread[g].at = "none"
              /\ thread' = [Entered(t, "timeout", "select") EXCEPT
                              ![t].child = g,
                              ![g] = [NoThread EXCEPT !.at = "next", !.on = thread[t].on, !.for = thread[t].for]]
       ELSE thread' = Entered(t, "timeout", "next")
    /\ UNCHANGED <<call, owner, index, gauge, timedOut, haunted, ran, spoiled, races>>

Selected(t, step) == [thread EXCEPT ![t].at = step, ![t].child = Nobody]

\* Mutant: the select does not wait for the goroutine.
MutSelectDone(t) ==
    /\ thread[t].at = "select"
    /\ thread' = MovedTo(t, "return")
    /\ UNCHANGED <<call, owner, index, gauge, timedOut, haunted, ran, spoiled, races>>

\* done, or a panic that is raised again.
SelectDone(t) ==
    /\ thread[t].at = "select"
    /\ \/ thread[thread[t].child].at = "done" /\ thread' = Selected(t, "return")
       \/ thread[thread[t].child].at = "panicked" /\ thread' = Selected(t, "panic")
    /\ UNCHANGED <<call, owner, index, gauge, timedOut, haunted, ran, spoiled, races>>

\* The deadline: Abort, and 504 into the response of whoever has the context.
SelectTimeout(t) ==
    /\ thread[t].at = "select"
    /\ timedOut' = timedOut \union {thread[t].for}
    /\ spoiled' = SpoiledBy(t)
    /\ thread' = Selected(t, "return")
    /\ Abort(t)
    /\ UNCHANGED <<call, owner, gauge, haunted, ran, races>>

HandlerWrites(t) ==
    /\ thread[t].at = "handler"
    /\ spoiled' = SpoiledBy(t)
    /\ UNCHANGED <<call, owner, index, thread, gauge, timedOut, haunted, ran, races>>

HandlerReturns(t, how) ==
    /\ thread[t].at = "handler"
    /\ thread' = MovedTo(t, how)
    /\ UNCHANGED <<call, owner, index, gauge, timedOut, haunted, ran, spoiled, races>>

PipelineNext ==
    \/ \E r \in Calls, a \in Attributes, k \in Contexts : Arrive(r, a, k)
    \/ \E t \in Threads :
        \/ NextHandler(t) \/ Return(t) \/ Panic(t)
        \/ ActiveLimit(t) \/ Filter(t) \/ Timeout(t) \/ SelectDone(t) \/ SelectTimeout(t)
        \/ HandlerWrites(t) \/ \E how \in {"next", "panic"} : HandlerReturns(t, how)

----------------------------------------------------------------------------
PipelineTypeOK ==
    /\ \A k \in Contexts : index[k] \in 0..End
    /\ \A f \in DOMAIN gauge : gauge[f] \in Nat
    /\ \A t \in Threads : Alive(t) => owner[thread[t].on] \in Calls
    /\ spoiled \subseteq Calls

\* The executions of f that are on their way.
Inside(f) == {p \in Threads \X (1..MaxDepth) :
                 p[2] \in DOMAIN thread[p[1]].frames /\ thread[p[1]].frames[p[2]] = f}

\* What a timed-out request leaves behind stays with the requests that are given
\* its context.  Nobody is haunted before a deadline has passed; the response of a
\* request that is not haunted is written by its own goroutines alone, and its
\* handler runs at most once and only past the filters; and of those, unless they
\* timed out, no more handlers run than the active limit admits.  Whatever panics,
\* is rejected, times out or haunts, both gauges count the requests inside.
HandlersContained ==
    /\ haunted # {} => timedOut # {}
    /\ spoiled \subseteq haunted
    /\ \A r \in Calls \ haunted : ran[r] = 0 \/ (ran[r] = 1 /\ Admitted(call[r].attr))
    /\ Cardinality({t \in Threads : thread[t].at = "handler" /\ thread[t].for \notin haunted \union timedOut}) <= MaxActive
    /\ \A f \in DOMAIN gauge : gauge[f] = Cardinality(Inside(f))
=============================================================================
