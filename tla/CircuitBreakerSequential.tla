---------------------- MODULE CircuitBreakerSequential ----------------------
(***************************************************************************)
(* As long as its calls come one after the other, the breaker implements   *)
(* BreakerPromise.  A call takes effect where RecordSuccess or             *)
(* RecordFailure begins; from there on the state the goroutine is about to *)
(* write is the state the abstract breaker is already in.                  *)
(***************************************************************************)
EXTENDS CircuitBreaker

At(steps) == \E c \in Users : pc[c] \in steps

\* The recorded outcome whose counter update is still to come.
FailurePending == At({"loadFailure", "countFailure"}) /\ state = "closed"
SuccessPending == At({"releaseOK", "countSuccess"})

absMode ==
    IF \/ At({"trip", "releaseBad", "reopen"})
       \/ FailurePending /\ failureCount + 1 >= FailureThreshold
       \/ At({"loadFailure"}) /\ state = "half-open"
      THEN "open"
    ELSE IF \/ At({"toClosed"})
            \/ SuccessPending /\ successCount + 1 >= SuccessThreshold
      THEN "closed"
    ELSE state

absStreak ==
    CASE absMode = "open" -> 0
      [] absMode = "half-open" ->
            IF SuccessPending THEN successCount + 1
            ELSE successCount
      [] absMode = "closed" ->
            IF At({"resetFailures", "releaseOK", "countSuccess", "toClosed",
                   "clearClosed", "closeResetFailures"}) THEN 0
            ELSE IF FailurePending THEN failureCount + 1
            ELSE failureCount

Promise == INSTANCE BreakerPromise
             WITH mode <- absMode, streak <- absStreak, ready <- cooled

\* Until two calls overlap, Allow, RecordSuccess and RecordFailure keep the promise
\* of Config: the counters they reset, and the ones they forget to reset, never
\* let a streak carry over from one state of the breaker to the next.
KeepsPromise == Promise!PInit /\ [][overlapped' \/ Promise!PNext]_<<absMode, absStreak, cooled>>
=============================================================================
