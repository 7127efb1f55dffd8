------------------------------ MODULE CallChain ------------------------------
(***************************************************************************)
(* Who a request is for, and which trace it belongs to, from the gateway   *)
(* through a chain of services.  GatewayMiddleware (middlewares/auth)      *)
(* merges session and claims and writes HTTP headers; trace.Middleware     *)
(* reads them; ghttp and trace write them again for the next service; over *)
(* gRPC the interceptors of grpcclient and grpclog do the same with        *)
(* metadata and requestctx.                                                *)
(*                                                                         *)
(* A value is a word for where it comes from, "" for none.                 *)
(***************************************************************************)
EXTENDS Integers, Sequences

CONSTANTS
    Logins,         \* [user, store, found, session, claim, data]: the provider,
                    \* whether Get finds the session, and which details its
                    \* data, the claims and the map in the claims hold
    Incoming,       \* the headers a request reaches the gateway with
    Foreign,        \* metadata of gRPC callers that do not use grpcclient
    DefaultTenant,  \* DefaultTenantID of the gRPC services
    MaxHops         \* bound: services in a chain

ASSUME ChainAssumption == MaxHops \in Nat

\* No value.
Unset == ""

Details == {"username", "role", "tenant_id", "email"}
UserFields == Details \union {"user"}

VARIABLES
    login,
    place,      \* "client", "http wire", "http", "grpc wire" or "grpc"
    wire,       \* headers or metadata of the request under way
    here,       \* what the service that has the request knows
    origin,     \* history: what the first to know knew, or took from the client
    named,      \* history: the last caller with a service name
    hops, fresh \* services so far, IDs generated so far

chainVars == <<login, place, wire, here, origin, named, hops, fresh>>

None(S) == [n \in S |-> Unset]
Knowledge == UserFields \union {"trace", "request", "source"}

ChainInit ==
    /\ login \in Logins
    /\ place = "client" /\ wire \in Incoming
    /\ here = None(Knowledge) /\ origin = None(Knowledge)
    /\ named = Unset /\ hops = 0 /\ fresh = 0

NewID == IF fresh = 0 THEN "id 1" ELSE "id 2"
Or(v, w) == IF v # Unset THEN v ELSE w
Read(w, n) == IF n \in DOMAIN w THEN w[n] ELSE Unset
Known(k, names) == {f \in DOMAIN names : k[f] # Unset}

\* A request whose headers are w, and for each field of k that is not empty the
\* header names gives it.
Written(w, k, names) ==
    LET set == {names[f] : f \in Known(k, names)} IN
    [n \in DOMAIN w \union set |->
        IF n \in set THEN k[CHOOSE f \in DOMAIN names : names[f] = n] ELSE w[n]]

----------------------------------------------------------------------------
(* The gateway *)

\* UserContext of the session.  Redis keeps values as JSON and UserContext does
\* not decode them: a text comes back in quotes.
MemoryDetail(f) == IF f \in login.session THEN "session" ELSE Unset
RedisDetail(f) == IF f \in login.session THEN "session in quotes" ELSE Unset
SessionDetail(f) == IF login.store = "redis" THEN RedisDetail(f) ELSE MemoryDetail(f)

\* buildUserContextFromClaims: the claim, or else the map in the claims.
ClaimDetail(f) == Or(IF f \in login.claim THEN "claim" ELSE Unset, IF f \in login.data THEN "data" ELSE Unset)

\* ensureUserContext: the claims fill what the session leaves empty.
UserContext ==
    [f \in UserFields |-> IF f = "user" THEN login.user
                          ELSE Or(IF login.found THEN SessionDetail(f) ELSE Unset, ClaimDetail(f))]

GatewayHeaders == [user |-> "X-User-ID", role |-> "X-User-Role", tenant_id |-> "X-Tenant-ID",
                   username |-> "X-Username", email |-> "X-User-Email"]

\* What the services are told: what the gateway knows of the user or, where it
\* knows nothing, the header the request came with.
PassedOn(f) == IF f \in {"user", "email"} THEN UserContext[f] ELSE Or(UserContext[f], Read(wire, GatewayHeaders[f]))

\* The request goes on with the headers it came with and those of the user, of
\* which X-User-ID is always set.
Gateway ==
    /\ place = "client"
    /\ wire' = Written([n \in DOMAIN wire \ {"X-User-ID"} |-> wire[n]], UserContext, GatewayHeaders)
    /\ origin' = [f \in Knowledge |-> CASE f \in UserFields -> PassedOn(f)
                                        [] f = "trace" -> Read(wire, "X-Trace-ID")
                                        [] OTHER -> Unset]
    /\ place' = "http wire"
    /\ UNCHANGED <<login, here, named, hops, fresh>>

----------------------------------------------------------------------------
(* HTTP services *)

TraceHeaders == [user |-> "X-User-ID", role |-> "X-User-Role", tenant_id |-> "X-Tenant-ID",
                 username |-> "X-Username", email |-> "X-Email"]

\* trace.Middleware; the user is read only with an X-User-ID.
TraceMiddleware ==
    LET trace == Read(wire, "X-Trace-ID") IN
    /\ place = "http wire" /\ hops < MaxHops /\ hops' = hops + 1
    /\ here' = [f \in Knowledge |->
                    CASE f = "trace" -> Or(trace, NewID)
                      [] f \in UserFields -> IF Read(wire, "X-User-ID") = Unset THEN Unset ELSE Read(wire, TraceHeaders[f])
                      [] OTHER -> Unset]
    /\ fresh' = IF trace = Unset THEN fresh + 1 ELSE fresh
    /\ origin' = [origin EXCEPT !.trace = Or(@, here'.trace)]
    /\ place' = "http"
    /\ UNCHANGED <<login, wire, named>>

MutInjectTrace(k) == Written(Written([n \in {} |-> Unset], k, [user |-> "X-User-ID"]), k, [trace |-> "X-Trace-ID"])

\* injectTrace, InjectGctx and RoundTrip: the user's headers only with a user.
InjectTrace(k) ==
    LET traced == Written([n \in {} |-> Unset], k, [trace |-> "X-Trace-ID"])
    IN  IF k.user = Unset THEN traced ELSE Written(traced, k, TraceHeaders)

CallHTTP ==
    /\ place = "http" /\ place' = "http wire"
    /\ wire' = InjectTrace(here)
    /\ UNCHANGED <<login, here, origin, named, hops, fresh>>

----------------------------------------------------------------------------
(* gRPC services *)

MetaKeys == [tenant_id |-> "x-tenant-id", user |-> "x-user-id", request |-> "x-request-id",
             trace |-> "x-trace-id", source |-> "x-source-service"]

\* metaPropagationInterceptor: what the caller of the stub has set stays; the
\* source is the client's ServiceName, or else passed on.
Outgoing(k, existing, serviceName) ==
    LET injected == Written([n \in {} |-> Unset], [k EXCEPT !.source = Or(serviceName, @)], MetaKeys)
    IN  [n \in DOMAIN injected \union DOMAIN existing |-> IF n \in DOMAIN existing THEN existing[n] ELSE injected[n]]

\* A service puts what it knows into its context: the HTTP service itself, with
\* WithMeta; the gRPC service by its interceptor.
CallGRPC(existing, serviceName) ==
    /\ place \in {"http", "grpc"} /\ place' = "grpc wire"
    /\ wire' = Outgoing(here, existing, serviceName)
    /\ named' = Or(serviceName, named)
    /\ origin' = [origin EXCEPT !.tenant_id = Or(Read(existing, "x-tenant-id"), @)]
    /\ UNCHANGED <<login, here, hops, fresh>>

\* A chain that begins with a foreign gRPC caller.
CallForeign(md) ==
    /\ place = "client" /\ place' = "grpc wire"
    /\ wire' = md
    /\ UNCHANGED <<login, here, origin, named, hops, fresh>>

FirstNonEmpty(md, keys) ==
    LET set == {i \in 1..Len(keys) : Read(md, keys[i]) # Unset}
    IN  IF set = {} THEN Unset ELSE md[keys[CHOOSE i \in set : \A j \in set : i <= j]]

\* parseTraceIDFromTraceParent answers nothing for a value it cannot split.
ParseTraceParent(value) == IF value = "malformed" THEN Unset ELSE value

ExtractRequestMeta(md) ==
    [None(Knowledge) EXCEPT
        !.tenant_id = Read(md, "x-tenant-id"),
        !.user      = FirstNonEmpty(md, <<"x-user-id", "user-id">>),
        !.username  = FirstNonEmpty(md, <<"x-user-name", "user-name">>),
        !.role      = FirstNonEmpty(md, <<"x-user-type", "user-type", "x-user-role", "user-role">>),
        !.request   = FirstNonEmpty(md, <<"x-request-id", "request-id">>),
        !.trace     = Or(FirstNonEmpty(md, <<"x-trace-id", "trace-id", "x-b3-traceid">>),
                         ParseTraceParent(Read(md, "traceparent"))),
        !.source    = FirstNonEmpty(md, <<"x-source-service", "x-service-name", "source-service", "x-app-id">>)]

\* UnaryServerInterceptor: a missing request ID is generated, and stands in for a
\* missing trace ID.
UnaryServerInterceptor ==
    LET meta == ExtractRequestMeta(wire) request == Or(meta.request, NewID) IN
    /\ place = "grpc wire" /\ hops < MaxHops /\ hops' = hops + 1
    /\ here' = [meta EXCEPT !.request = request, !.trace = Or(@, request), !.tenant_id = Or(@, DefaultTenant)]
    /\ fresh' = IF meta.request = Unset THEN fresh + 1 ELSE fresh
    /\ origin' = [f \in Knowledge |-> Or(origin[f], here'[f])]
    /\ named' = Or(named, meta.source)
    /\ place' = "grpc"
    /\ UNCHANGED <<login, wire>>

ChainNext ==
    \/ Gateway \/ TraceMiddleware \/ CallHTTP \/ UnaryServerInterceptor
    \/ \E md \in Foreign : CallForeign(md)
    \/ \E existing \in {[n \in {} |-> Unset], [n \in {"x-tenant-id"} |-> "caller"]}, serviceName \in {Unset, "a", "b"} :
          CallGRPC(existing, serviceName)

\* Every service of a chain has the trace and the user of the first one, and with
\* a user the tenant: the one the gateway found (or else took from the headers
\* the client sent, which it does not remove), or a caller set.  Over HTTP the
\* same is true of the role and the name; over gRPC of the first service's
\* request ID and of the nearest caller that has a name.  A request without a
\* user carries no details.  Nothing is said of the email: the gateway sends it
\* in X-User-Email and the services read X-Email, so it does not arrive.
IdentityKept ==
    LET Same(f) == here[f] = origin[f] IN
    /\ place \in {"http", "grpc"} => Same("trace") /\ Same("user") /\ (origin.user # Unset => Same("tenant_id"))
    /\ place = "http" /\ origin.user # Unset => Same("role") /\ Same("username")
    /\ place = "grpc" => Same("request") /\ here.source = named
    /\ place = "http" /\ here.user = Unset => \A f \in Details : here[f] = Unset
=============================================================================
