------------------------------ MODULE Requests ------------------------------
(***************************************************************************)
(* What a request meets on its way: the sessions behind the authentication *)
(* middleware, the chain of the other middlewares, the rate limiters, and  *)
(* the services it is passed on to.                                        *)
(* These share no state, so a behaviour exercises one of them, chosen by    *)
(* part, and leaves the others as they start.                              *)
(***************************************************************************)
EXTENDS Sessions, RequestPipeline, RateLimit, CallChain

VARIABLE part

requestVars == <<part, sessionVars, pipelineVars, rateVars, chainVars>>

RequestsInit ==
    /\ part \in {"session", "pipeline", "rate", "chain"}
    /\ SessionInit /\ PipelineInit /\ RateInit /\ ChainInit
    \* the parts at rest start in one way only
    /\ part # "session" => store = "memory" /\ carrier = "header"
    /\ part # "rate" => limiter = "simple"
    /\ part # "chain" => login = CHOOSE l \in Logins : TRUE
    /\ part # "chain" => wire = CHOOSE w \in Incoming : TRUE

RequestsNext ==
    \/ part = "session"  /\ SessionNext  /\ UNCHANGED <<part, pipelineVars, rateVars, chainVars>>
    \/ part = "pipeline" /\ PipelineNext /\ UNCHANGED <<part, sessionVars, rateVars, chainVars>>
    \/ part = "rate"     /\ RateNext     /\ UNCHANGED <<part, sessionVars, pipelineVars, chainVars>>
    \/ part = "chain"    /\ ChainNext    /\ UNCHANGED <<part, sessionVars, pipelineVars, rateVars>>

RequestsSpec == RequestsInit /\ [][RequestsNext]_requestVars

RequestsTypeOK == SessionTypeOK /\ PipelineTypeOK /\ RateTypeOK
=============================================================================
