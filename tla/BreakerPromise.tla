--------------------------- MODULE BreakerPromise ---------------------------
(***************************************************************************)
(* What a circuit breaker promises its configuration (Config in            *)
(* middlewares/circuitbreaker/middleware.go), with no counters to reset:   *)
(* FailureThreshold consecutive failures open it, the timeout must pass    *)
(* before it is probed, SuccessThreshold consecutive successes close it    *)
(* and one failed probe reopens it.  streak counts the consecutive         *)
(* failures of a closed breaker and the consecutive successes of a         *)
(* half-open one; it starts again with every change of state.              *)
(***************************************************************************)
EXTENDS Naturals

CONSTANTS FailureThreshold, SuccessThreshold
VARIABLES mode, streak, ready
promise == <<mode, streak, ready>>

PInit == mode = "closed" /\ streak = 0 /\ ready = TRUE

\* A call protected by the breaker failed; the timeout starts again.
PFail ==
    /\ ready' = FALSE
    /\ \/ mode = "closed" /\ streak + 1 < FailureThreshold
          /\ mode' = "closed" /\ streak' = streak + 1
       \/ mode = "closed" /\ streak + 1 = FailureThreshold
          /\ mode' = "open" /\ streak' = 0
       \/ mode = "half-open" /\ mode' = "open" /\ streak' = 0

\* A call protected by the breaker succeeded.
PSucceed ==
    /\ ready' = ready
    /\ \/ mode = "closed" /\ mode' = "closed" /\ streak' = 0
       \/ mode = "half-open" /\ streak + 1 < SuccessThreshold
          /\ mode' = "half-open" /\ streak' = streak + 1
       \/ mode = "half-open" /\ streak + 1 = SuccessThreshold
          /\ mode' = "closed" /\ streak' = 0

\* The first request after the timeout starts the probing.
PProbe == mode = "open" /\ ready /\ mode' = "half-open" /\ streak' = 0 /\ ready' = ready

PTimeout == ~ready /\ ready' = TRUE /\ UNCHANGED <<mode, streak>>

PNext == PFail \/ PSucceed \/ PProbe \/ PTimeout
PSpec == PInit /\ [][PNext]_promise
=============================================================================
