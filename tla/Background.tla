----------------------------- MODULE Background -----------------------------
(***************************************************************************)
(* The goroutines of the framework that must get something done: the log   *)
(* writer, the shutdown of the server, and keepAlive and Watch of the       *)
(* registry.  They share no state, so a behaviour exercises one of them,   *)
(* chosen by part, and leaves the others as they start.                    *)
(***************************************************************************)
EXTENDS Discovery, LogPipeline, GracefulServer

VARIABLE part

backgroundVars == <<part, discoveryVars, logVars, serverVars>>

BackgroundInit ==
    /\ part \in {"log", "server", "discovery"}
    /\ ServerInit /\ LogInit /\ DiscoveryInit
    \* the parts at rest start in one way only
    /\ part # "discovery" => registry = "memory"
    /\ part # "log" => producer = "queue"

BackgroundNext ==
    \/ part = "log"       /\ LogNext       /\ UNCHANGED <<part, discoveryVars, serverVars>>
    \/ part = "server"    /\ ServerNext    /\ UNCHANGED <<part, discoveryVars, logVars>>
    \/ part = "discovery" /\ DiscoveryNext /\ UNCHANGED <<part, logVars, serverVars>>

\* The goroutine that sends logs and the one in Run go on, and timers fire.  A
\* select that could take a branch again and again takes it in the end: Go
\* chooses at random among the branches that are ready.  A registry at rest enables
\* nothing that DiscoveryFairness speaks of.
BackgroundFairness ==
    /\ WF_logVars(part = "log" /\ LogSender)
    /\ WF_logVars(part = "log" /\ TimerFires)
    /\ SF_logVars(part = "log" /\ RunReceive)
    /\ SF_logVars(part = "log" /\ RunFlush)
    /\ WF_serverVars(part = "server" /\ RunShutdown)
    /\ WF_serverVars(part = "server" /\ RunExpires)
    /\ WF_serverVars(part = "server" /\ RunReturns)
    /\ DiscoveryFairness

BackgroundSpec ==
    /\ BackgroundInit /\ [][BackgroundNext]_backgroundVars
    /\ BackgroundFairness
=============================================================================
