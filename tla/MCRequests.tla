----------------------------- MODULE MCRequests -----------------------------
(* One session and two requests; two requests over two pooled contexts;    *)
(* two callers of a limiter that admits two requests in a window; chains   *)
(* of four services; three users of a breaker that may panic.              *)
EXTENDS Requests, CircuitBreakerSequential, TLC

VARIABLE group

\* What a request meets, and beside it a breaker.
MCInit ==
    /\ group \in {"requests", "breaker"}
    /\ RequestsInit /\ BreakerInit
    /\ group = "breaker" => part = "pipeline"

MCNext ==
    \/ group = "requests" /\ RequestsNext /\ UNCHANGED <<group, breakerVars>>
    \/ group = "breaker" /\ BreakerNext /\ UNCHANGED <<group, requestVars>>

MCSpec == MCInit /\ [][MCNext]_<<group, requestVars, breakerVars>>

\* What the filters tell apart: an address that is listed or claimed through
\* a proxy, a missing admin token, a body that is too long, both kinds of
\* methods, and a route without a deadline.
Attr(ip, real, bearer, length, method, token, limited) ==
    [ip |-> ip, realIP |-> real, bearer |-> bearer, length |-> length,
     method |-> method, cookie |-> 1, token |-> token, limited |-> limited]

MCAttributes ==
    { Attr(1, 0, TRUE, 1, "GET", 0, TRUE),  Attr(1, 0, TRUE, 1, "POST", 1, FALSE),
      Attr(1, 2, TRUE, 1, "GET", 0, TRUE),  Attr(3, 0, FALSE, 1, "GET", 0, TRUE),
      Attr(3, 0, TRUE, 2, "POST", 1, TRUE), Attr(1, 0, TRUE, 1, "POST", 2, TRUE) }

\* Logins whose session is found or not, in either store, with details in the
\* session, the claims, both or neither; and one without a user.
Login(user, store_, found, session, claim, data) ==
    [user |-> user, store |-> store_, found |-> found, session |-> session, claim |-> claim, data |-> data]

MCLogins ==
    { Login("u", "memory", TRUE, Details, {"role"}, {}),  Login("u", "redis", TRUE, {"role", "email"}, {"tenant_id"}, Details),
      Login("u", "memory", FALSE, Details, {"role", "email"}, {"username"}),  Login("u", "redis", FALSE, {}, {}, {}),
      Login("", "memory", TRUE, {"tenant_id"}, {"role"}, {}) }

\* A client's own request, one of a client that traces, and one through a proxy.
MCIncoming == { [n \in {} |-> ""], [n \in {"X-Trace-ID"} |-> "client"], [n \in {"X-Trace-ID", "X-User-Role", "X-Tenant-ID"} |-> "proxy"] }

MCForeign == { [n \in {"user-id", "traceparent"} |-> "foreign"],
               [n \in {"x-user-id", "trace-id", "x-app-id"} |-> "foreign"],
               [n \in {"traceparent", "request-id"} |-> IF n = "traceparent" THEN "malformed" ELSE "foreign"] }

\* The pipeline's requests, goroutines and contexts are interchangeable; only
\* safety is checked.
MCSymmetry == Permutations(Calls) \union Permutations(Goroutines) \union Permutations(Contexts)
=============================================================================
