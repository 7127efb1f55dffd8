--------------------------- MODULE CircuitBreaker ---------------------------
(***************************************************************************)
(* The circuit breaker of middlewares/circuitbreaker/middleware.go, as the *)
(* gin middleware (Builder.Build) and HTTPBreaker.Do drive it: Allow, the  *)
(* protected handler, then RecordSuccess or RecordFailure.                 *)
(*                                                                         *)
(* The breaker has no critical section: every field is an atomic of its    *)
(* own, and a goroutine may be preempted between two of its atomic         *)
(* operations.  An action is one atomic operation; pc[c] is the operation  *)
(* goroutine c is about to perform.  Operations on the statistics counters *)
(* are merged into their neighbours, because nothing branches on them, and *)
(* the compare-and-swap loop of releaseHalfOpenRequest is one step, taken  *)
(* when the swap succeeds.                                                 *)
(*                                                                         *)
(* Time: the only use of the clock is the test that Timeout has passed     *)
(* since lastFailureTime.  The Boolean cooled is the value of that test.   *)
(***************************************************************************)
EXTENDS Integers, FiniteSets

CONSTANTS
    Users,           \* goroutines that serve requests through the breaker
    FailureThreshold,  \* Config.FailureThreshold
    SuccessThreshold,  \* Config.SuccessThreshold
    HalfOpenRequests,  \* Config.HalfOpenRequests
    Panics,            \* whether a protected handler may panic
    MaxProtected       \* bound: protected calls started in a behaviour

ASSUME ConfigAssumption ==
    /\ IsFiniteSet(Users)
    /\ FailureThreshold \in Nat \ {0}
    /\ SuccessThreshold \in Nat \ {0}
    /\ HalfOpenRequests \in Int
    /\ Panics \in BOOLEAN
    /\ MaxProtected \in Nat

VARIABLES
    state,             \* "closed", "open" or "half-open"
    failureCount,
    successCount,
    cooled,            \* time.Since(lastFailureTime) >= Timeout
    requests,          \* statistics: recorded calls
    failures,          \* statistics: recorded failures
    halfOpenInFlight,  \* slots taken in the half-open state
    pc,                \* the next atomic operation of each caller
    probes,            \* users admitted through a half-open slot, still in the handler
    calls,             \* calls started so far, for the bound MaxProtected
    overlapped         \* history: two calls have been in the breaker at once

breaker == <<state, failureCount, successCount, halfOpenInFlight>>
stats == <<requests, failures>>
breakerVars == <<breaker, stats, cooled, pc, probes, calls, overlapped>>

States == {"closed", "open", "half-open"}

Steps == {"idle", "load", "openCheck", "toHalfOpen", "addSlot", "undoSlot",
          "running", "success", "resetFailures", "releaseOK", "countSuccess",
          "toClosed", "clearClosed", "closeResetFailures", "closeResetSuccess",
          "failure", "loadFailure", "countFailure", "trip", "clearTrip",
          "releaseBad", "reopen", "clearReopen", "reopenReset"}

-----------------------------------------------------------------------------
\* New: closed, every counter zero; lastFailureTime is the epoch, long past.
BreakerInit ==
    /\ state = "closed"
    /\ failureCount = 0
    /\ successCount = 0
    /\ cooled = TRUE
    /\ requests = 0
    /\ failures = 0
    /\ halfOpenInFlight = 0
    /\ pc = [c \in Users |-> "idle"]
    /\ probes = {}
    /\ calls = 0
    /\ overlapped = FALSE

Goto(c, step) == pc' = [pc EXCEPT ![c] = step]

\* allowHalfOpenRequest: a non-positive configured limit means one.
Limit == IF HalfOpenRequests <= 0 THEN 1 ELSE HalfOpenRequests

\* transitionTo(s): Swap, then, when the state changed to something other than
\* half-open, a separate Store that clears the slots.
Swap(c, s, clear, next) ==
    /\ state' = s
    /\ Goto(c, IF state # s THEN clear ELSE next)
    /\ UNCHANGED <<failureCount, successCount, halfOpenInFlight, stats, cooled, probes, calls, overlapped>>

ClearSlots(c, next) ==
    /\ halfOpenInFlight' = 0
    /\ Goto(c, next)
    /\ UNCHANGED <<state, failureCount, successCount, stats, cooled, probes, calls, overlapped>>

\* releaseHalfOpenRequest: never below zero.
Release(c, next) ==
    /\ halfOpenInFlight' = IF halfOpenInFlight <= 0 THEN halfOpenInFlight
                                                    ELSE halfOpenInFlight - 1
    /\ Goto(c, next)
    /\ UNCHANGED <<state, failureCount, successCount, stats, cooled, probes, calls, overlapped>>

-----------------------------------------------------------------------------
Quiescent == \A c \in Users : pc[c] = "idle"

\* A request arrives and getBreaker returns its breaker.
Begin(c) ==
    /\ pc[c] = "idle"
    /\ calls < MaxProtected
    /\ calls' = calls + 1
    /\ overlapped' = (overlapped \/ ~Quiescent)
    /\ Goto(c, "load")
    /\ UNCHANGED <<breaker, stats, cooled, probes>>

\* Allow: the state is loaded once; all that follows relies on this reading.
AllowStart(c) ==
    /\ pc[c] = "load"
    /\ Goto(c, CASE state = "closed"    -> "running"
                 [] state = "open"      -> "openCheck"
                 [] state = "half-open" -> "addSlot")
    /\ UNCHANGED <<breaker, stats, cooled, probes, calls, overlapped>>

\* Allow, open branch: rejected (fallback, 503 or ErrCircuitBreakerOpen)
\* unless the timeout has passed.
AllowOpenCheck(c) ==
    /\ pc[c] = "openCheck"
    /\ Goto(c, IF cooled THEN "toHalfOpen" ELSE "idle")
    /\ UNCHANGED <<breaker, stats, cooled, probes, calls, overlapped>>

AllowToHalfOpen(c) ==
    /\ pc[c] = "toHalfOpen"
    /\ Swap(c, "half-open", "addSlot", "addSlot")

\* Mutant: the rejected request keeps the slot it added.
MutAllowAddSlot(c) ==
    /\ pc[c] = "addSlot"
    /\ halfOpenInFlight' = halfOpenInFlight + 1
    /\ IF halfOpenInFlight + 1 > Limit
         THEN Goto(c, "idle") /\ UNCHANGED probes
         ELSE Goto(c, "running") /\ probes' = probes \cup {c}
    /\ UNCHANGED <<state, failureCount, successCount, stats, cooled, calls, overlapped>>

\* allowHalfOpenRequest: Add(1), and the comparison with the limit.
AllowAddSlot(c) ==
    /\ pc[c] = "addSlot"
    /\ halfOpenInFlight' = halfOpenInFlight + 1
    /\ IF halfOpenInFlight + 1 > Limit
         THEN Goto(c, "undoSlot") /\ UNCHANGED probes
         ELSE Goto(c, "running") /\ probes' = probes \cup {c}
    /\ UNCHANGED <<state, failureCount, successCount, stats, cooled, calls, overlapped>>

\* allowHalfOpenRequest: Add(-1), and the request is rejected.
AllowUndoSlot(c) ==
    /\ pc[c] = "undoSlot"
    /\ halfOpenInFlight' = halfOpenInFlight - 1
    /\ Goto(c, "idle")
    /\ UNCHANGED <<state, failureCount, successCount, stats, cooled, probes, calls, overlapped>>

\* The handler returns and is judged, or panics past both Record calls.
ProtectedReturns(c) ==
    /\ pc[c] = "running"
    /\ \E next \in {"success", "failure"} \cup (IF Panics THEN {"idle"} ELSE {}) : Goto(c, next)
    /\ probes' = probes \ {c}
    /\ UNCHANGED <<breaker, stats, cooled, calls, overlapped>>

-----------------------------------------------------------------------------
\* RecordSuccess: requests.Add(1), state.Load().
RecordSuccess(c) ==
    /\ pc[c] = "success"
    /\ requests' = requests + 1
    /\ Goto(c, CASE state = "closed"    -> "resetFailures"
                 [] state = "half-open" -> "releaseOK"
                 [] state = "open"      -> "idle")
    /\ UNCHANGED <<breaker, failures, cooled, probes, calls, overlapped>>

\* Mutant: a success takes one failure back instead of resetting the count.
MutResetFailures(c, at, next) ==
    /\ pc[c] = at
    /\ failureCount' = failureCount - 1
    /\ Goto(c, next)
    /\ UNCHANGED <<state, successCount, halfOpenInFlight, stats, cooled, probes, calls, overlapped>>

ResetFailures(c, at, next) ==
    /\ pc[c] = at
    /\ failureCount' = 0
    /\ Goto(c, next)
    /\ UNCHANGED <<state, successCount, halfOpenInFlight, stats, cooled, probes, calls, overlapped>>

\* Mutant: a failed probe leaves the successes of its half-open period.
MutResetSuccess(c, at) ==
    /\ pc[c] = at
    /\ successCount' = IF at = "reopenReset" THEN successCount ELSE 0
    /\ Goto(c, "idle")
    /\ UNCHANGED <<state, failureCount, halfOpenInFlight, stats, cooled, probes, calls, overlapped>>

ResetSuccess(c, at) ==
    /\ pc[c] = at
    /\ successCount' = 0
    /\ Goto(c, "idle")
    /\ UNCHANGED <<state, failureCount, halfOpenInFlight, stats, cooled, probes, calls, overlapped>>

CountSuccess(c) ==
    /\ pc[c] = "countSuccess"
    /\ successCount' = successCount + 1
    /\ Goto(c, IF successCount + 1 >= SuccessThreshold THEN "toClosed" ELSE "idle")
    /\ UNCHANGED <<state, failureCount, halfOpenInFlight, stats, cooled, probes, calls, overlapped>>

\* RecordSuccess, closed branch and half-open branch, operation by operation.
SuccessSteps(c) ==
    \/ RecordSuccess(c)
    \/ ResetFailures(c, "resetFailures", "idle")
    \/ pc[c] = "releaseOK" /\ Release(c, "countSuccess")
    \/ CountSuccess(c)
    \/ pc[c] = "toClosed" /\ Swap(c, "closed", "clearClosed", "closeResetFailures")
    \/ pc[c] = "clearClosed" /\ ClearSlots(c, "closeResetFailures")
    \/ ResetFailures(c, "closeResetFailures", "closeResetSuccess")
    \/ ResetSuccess(c, "closeResetSuccess")

\* RecordFailure: both statistics and lastFailureTime, whatever the state.
RecordFailure(c) ==
    /\ pc[c] = "failure"
    /\ requests' = requests + 1
    /\ failures' = failures + 1
    /\ cooled' = FALSE
    /\ Goto(c, "loadFailure")
    /\ UNCHANGED <<breaker, probes, calls, overlapped>>

LoadFailure(c) ==
    /\ pc[c] = "loadFailure"
    /\ Goto(c, CASE state = "closed"    -> "countFailure"
                 [] state = "half-open" -> "releaseBad"
                 [] state = "open"      -> "idle")
    /\ UNCHANGED <<breaker, stats, cooled, probes, calls, overlapped>>

\* Mutant: > for >= in the comparison with the threshold.
MutCountFailure(c) ==
    /\ pc[c] = "countFailure"
    /\ failureCount' = failureCount + 1
    /\ Goto(c, IF failureCount + 1 > FailureThreshold THEN "trip" ELSE "idle")
    /\ UNCHANGED <<state, successCount, halfOpenInFlight, stats, cooled, probes, calls, overlapped>>

CountFailure(c) ==
    /\ pc[c] = "countFailure"
    /\ failureCount' = failureCount + 1
    /\ Goto(c, IF failureCount + 1 >= FailureThreshold THEN "trip" ELSE "idle")
    /\ UNCHANGED <<state, successCount, halfOpenInFlight, stats, cooled, probes, calls, overlapped>>

\* RecordFailure, closed branch and half-open branch, operation by operation.
FailureSteps(c) ==
    \/ RecordFailure(c)
    \/ LoadFailure(c)
    \/ CountFailure(c)
    \/ pc[c] = "trip" /\ Swap(c, "open", "clearTrip", "idle")
    \/ pc[c] = "clearTrip" /\ ClearSlots(c, "idle")
    \/ pc[c] = "releaseBad" /\ Release(c, "reopen")
    \/ pc[c] = "reopen" /\ Swap(c, "open", "clearReopen", "reopenReset")
    \/ pc[c] = "clearReopen" /\ ClearSlots(c, "reopenReset")
    \/ ResetSuccess(c, "reopenReset")

-----------------------------------------------------------------------------
\* The clock passes lastFailureTime + Timeout.
TimeoutPasses ==
    /\ ~cooled
    /\ cooled' = TRUE
    /\ UNCHANGED <<breaker, stats, pc, probes, calls, overlapped>>

AllowSteps(c) ==
    \/ Begin(c)
    \/ AllowStart(c)
    \/ AllowOpenCheck(c)
    \/ AllowToHalfOpen(c)
    \/ AllowAddSlot(c)
    \/ AllowUndoSlot(c)
    \/ ProtectedReturns(c)

BreakerNext ==
    \/ \E c \in Users : AllowSteps(c) \/ SuccessSteps(c) \/ FailureSteps(c)
    \/ TimeoutPasses

BreakerSpec == BreakerInit /\ [][BreakerNext]_breakerVars

-----------------------------------------------------------------------------
BreakerTypeOK ==
    /\ state \in States
    /\ failureCount \in Nat
    /\ successCount \in Nat
    /\ cooled \in BOOLEAN
    /\ requests \in Nat
    /\ failures \in Nat
    /\ halfOpenInFlight \in Int
    /\ pc \in [Users -> Steps]
    /\ probes \subseteq Users
    /\ calls \in Nat
    /\ overlapped \in BOOLEAN

\* The threshold crossing is never lost between the atomics of RecordFailure and
\* of a concurrent RecordSuccess that is closing the breaker: a closed breaker
\* whose failureCount has reached FailureThreshold always has a goroutine that is
\* about to open it, or about to reset the count it has just made obsolete.
TripNotLost ==
    state = "closed" /\ failureCount >= FailureThreshold =>
        \E c \in Users : pc[c] \in {"trip", "reopen", "clearClosed", "closeResetFailures"}

\* Nor is the evidence of recovery lost: a successCount at SuccessThreshold always
\* has a goroutine that is closing the breaker and will consume the count.
RecoveryNotLost ==
    successCount >= SuccessThreshold =>
        \E c \in Users : pc[c] \in {"toClosed", "clearClosed", "closeResetFailures",
                                      "closeResetSuccess"}

\* Neither crossing is lost, whichever records of RecordSuccess and RecordFailure
\* overlap.
CrossingsKept == TripNotLost /\ RecoveryNotLost

\* The slot counter never exceeds the limit by more than the requests that are
\* between the Add(1) and the Add(-1) of allowHalfOpenRequest.
SlotsBounded ==
    halfOpenInFlight <= Limit + Cardinality({c \in Users : pc[c] = "undoSlot"})

\* What the documentation says of HalfOpenRequests: the number of requests let
\* through concurrently while recovery is probed.
HalfOpenLimit == Cardinality(probes) <= Limit

\* What TestHalfOpenSlotReleasedAfterRecordSuccess expects (middleware_test.go:37):
\* the slot of a half-open probe is released when its call is recorded.  Once
\* nobody is in the breaker, and no handler has panicked, no slot is held.
NoLeakedSlot == Quiescent => halfOpenInFlight = 0
=============================================================================
