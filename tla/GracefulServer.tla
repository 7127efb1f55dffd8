--------------------------- MODULE GracefulServer ---------------------------
(***************************************************************************)
(* server/server.go: Server.Run serves until a signal and then shuts down  *)
(* with a timeout; GracefulShutdown.Wait runs the shutdown hooks of the    *)
(* same process on the same signal, one after the other, under a timeout of *)
(* its own.  http.Server is external: Shutdown stops accepting, waits for  *)
(* the requests in flight and gives up when its context ends.              *)
(***************************************************************************)
EXTENDS Integers, Sequences

CONSTANTS
    Requests,   \* requests that may arrive
    Hooks       \* number of hooks registered with AddHook

ASSUME ServerAssumption == Hooks \in Nat

VARIABLES
    serve,      \* ListenAndServe: "starting", "listening", "failed", "closed"
    signalled,  \* SIGINT or SIGTERM has arrived
    run,        \* step of Run
    request,    \* "none", "flight", "done" or "refused"
    runTimeout, hookTimeout,   \* the two contexts have ended
    wait,       \* step of Wait: hooks finished, or "signal" and "returned"
    hookErrs    \* hooks that answered an error

serverVars == <<serve, signalled, run, request, runTimeout, hookTimeout, wait, hookErrs>>

ServerInit ==
    /\ serve = "starting" /\ signalled = FALSE /\ run = "quit"
    /\ request = [r \in Requests |-> "none"]
    /\ runTimeout = FALSE /\ hookTimeout = FALSE
    /\ wait = [at |-> "quit", done |-> 0]
    /\ hookErrs = {}

\* A listener that cannot be opened is logged; Run keeps waiting for a signal.
Listen ==
    /\ serve = "starting"
    /\ serve' \in {"listening", "failed"}
    /\ UNCHANGED <<signalled, run, request, runTimeout, hookTimeout, wait, hookErrs>>

Arrive(r) ==
    /\ request[r] = "none"
    /\ request' = [request EXCEPT ![r] = IF serve = "listening" THEN "flight" ELSE "refused"]
    /\ UNCHANGED <<serve, signalled, run, runTimeout, hookTimeout, wait, hookErrs>>

Serve(r) ==
    /\ request[r] = "flight"
    /\ request' = [request EXCEPT ![r] = "done"]
    /\ UNCHANGED <<serve, signalled, run, runTimeout, hookTimeout, wait, hookErrs>>

Signal ==
    /\ ~signalled
    /\ signalled' = TRUE
    /\ UNCHANGED <<serve, run, request, runTimeout, hookTimeout, wait, hookErrs>>

RunShutdown ==
    /\ run = "quit" /\ signalled
    /\ run' = "shutdown"
    /\ serve' = "closed"
    /\ UNCHANGED <<signalled, request, runTimeout, hookTimeout, wait, hookErrs>>

RunExpires ==
    /\ run = "shutdown" /\ ~runTimeout
    /\ runTimeout' = TRUE
    /\ UNCHANGED <<serve, signalled, run, request, hookTimeout, wait, hookErrs>>

Drained == \A r \in Requests : request[r] # "flight"

MutRunReturns ==
    /\ run = "shutdown"
    /\ Drained /\ run' = "ok"
    /\ UNCHANGED <<serve, signalled, request, runTimeout, hookTimeout, wait, hookErrs>>

RunReturns ==
    /\ run = "shutdown"
    /\ \/ Drained /\ run' = "ok"
       \/ runTimeout /\ run' = "error"
    /\ UNCHANGED <<serve, signalled, request, runTimeout, hookTimeout, wait, hookErrs>>

WaitSignal ==
    /\ wait.at = "quit" /\ signalled
    /\ wait' = [wait EXCEPT !.at = "hooks"]
    /\ UNCHANGED <<serve, signalled, run, request, runTimeout, hookTimeout, hookErrs>>

HooksExpire ==
    /\ wait.at = "hooks" /\ ~hookTimeout
    /\ hookTimeout' = TRUE
    /\ UNCHANGED <<serve, signalled, run, request, runTimeout, wait, hookErrs>>

\* An error is logged and the next hook runs; an ended context does not stop
\* the loop.
RunHook(ok) ==
    /\ wait.at = "hooks" /\ wait.done < Hooks
    /\ wait' = [wait EXCEPT !.done = @ + 1]
    /\ hookErrs' = IF ok THEN hookErrs ELSE hookErrs \union {wait.done + 1}
    /\ UNCHANGED <<serve, signalled, run, request, runTimeout, hookTimeout>>

WaitReturns ==
    /\ wait.at = "hooks" /\ wait.done = Hooks
    /\ wait' = [wait EXCEPT !.at = "returned"]
    /\ UNCHANGED <<serve, signalled, run, request, runTimeout, hookTimeout, hookErrs>>

ServerNext ==
    \/ Listen \/ Signal \/ RunShutdown \/ RunExpires \/ RunReturns
    \/ WaitSignal \/ HooksExpire \/ WaitReturns
    \/ \E r \in Requests : Arrive(r) \/ Serve(r)
    \/ \E ok \in BOOLEAN : RunHook(ok)

ServerSpec == ServerInit /\ [][ServerNext]_serverVars

\* A signal ends Run even when a request in flight never finishes: the timeout
\* of Shutdown does, with an error; and Run reports success only when every
\* request that was accepted has been answered.
ShutdownEnds == signalled ~> (run = "error" \/ (run = "ok" /\ Drained))
=============================================================================
