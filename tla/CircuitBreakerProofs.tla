------------------------ MODULE CircuitBreakerProofs ------------------------
(***************************************************************************)
(* Theorems about CircuitBreaker for every set of users, threshold and     *)
(* limit, and that it keeps BreakerPromise until two calls overlap.        *)
(***************************************************************************)
EXTENDS CircuitBreakerSequential, FiniteSetTheorems, TLAPS

\* Every operation keeps the types of the atomic fields.
LEMMA TypePreserved ==
    ASSUME BreakerTypeOK, [BreakerNext]_breakerVars
    PROVE  BreakerTypeOK'
<1> USE DEF BreakerTypeOK, States, Steps, Goto
<1>1. ASSUME NEW c \in Users, AllowSteps(c) PROVE BreakerTypeOK'
  <2>1. CASE Begin(c)
    BY <2>1 DEF Begin, breaker, stats
  <2>2. CASE AllowStart(c)
    BY <2>2 DEF AllowStart, breaker, stats
  <2>3. CASE AllowOpenCheck(c)
    BY <2>3 DEF AllowOpenCheck, breaker, stats
  <2>4. CASE AllowToHalfOpen(c)
    BY <2>4 DEF AllowToHalfOpen, Swap, stats
  <2>5. CASE AllowAddSlot(c)
    BY <2>5 DEF AllowAddSlot, stats
  <2>6. CASE AllowUndoSlot(c)
    BY <2>6 DEF AllowUndoSlot, stats
  <2>7. CASE ProtectedReturns(c)
    BY <2>7 DEF ProtectedReturns, breaker, stats
  <2>8. QED
    BY <1>1, <2>1, <2>2, <2>3, <2>4, <2>5, <2>6, <2>7 DEF AllowSteps
<1>2. ASSUME NEW c \in Users, SuccessSteps(c) PROVE BreakerTypeOK'
  <2>1. CASE RecordSuccess(c)
    BY <2>1 DEF RecordSuccess, breaker, stats
  <2>2. CASE \/ ResetFailures(c, "resetFailures", "idle")
             \/ ResetFailures(c, "closeResetFailures", "closeResetSuccess")
    BY <2>2 DEF ResetFailures, stats
  <2>3. CASE CountSuccess(c)
    BY <2>3 DEF CountSuccess, stats
  <2>4. CASE \/ Swap(c, "closed", "clearClosed", "closeResetFailures")
             \/ ClearSlots(c, "closeResetFailures")
             \/ Release(c, "countSuccess")
             \/ ResetSuccess(c, "closeResetSuccess")
    BY <2>4 DEF Swap, ClearSlots, Release, ResetSuccess, stats
  <2>5. QED
    BY <1>2, <2>1, <2>2, <2>3, <2>4 DEF SuccessSteps
<1>3. ASSUME NEW c \in Users, FailureSteps(c) PROVE BreakerTypeOK'
  <2>1. CASE RecordFailure(c)
    <3>1. cooled' = FALSE
      BY <2>1 DEF RecordFailure
    <3>2. requests' \in Nat /\ failures' \in Nat /\ pc' \in [Users -> Steps]
      BY <2>1 DEF RecordFailure
    <3>3. UNCHANGED <<breaker, probes, calls, overlapped>>
      BY <2>1 DEF RecordFailure
    <3>4. QED
      BY <3>1, <3>2, <3>3, Zenon DEF breaker
  <2>2. CASE LoadFailure(c)
    BY <2>2 DEF LoadFailure, breaker, stats
  <2>3. CASE CountFailure(c)
    BY <2>3 DEF CountFailure, stats
  <2>4. CASE \/ Swap(c, "open", "clearTrip", "idle")
             \/ Swap(c, "open", "clearReopen", "reopenReset")
             \/ ClearSlots(c, "idle")
             \/ ClearSlots(c, "reopenReset")
             \/ Release(c, "reopen")
             \/ ResetSuccess(c, "reopenReset")
    BY <2>4 DEF Swap, ClearSlots, Release, ResetSuccess, stats
  <2>5. QED
    BY <1>3, <2>1, <2>2, <2>3, <2>4 DEF FailureSteps
<1>4. CASE TimeoutPasses
  BY <1>4 DEF TimeoutPasses, breaker, stats
<1>5. CASE UNCHANGED breakerVars
  BY <1>5 DEF breakerVars, breaker, stats
<1>6. QED
  BY <1>1, <1>2, <1>3, <1>4, <1>5 DEF BreakerNext

\* The atomic fields keep their types through every interleaving of Allow,
\* RecordSuccess and RecordFailure; only the slot counter may become negative.
THEOREM TypeCorrect == BreakerSpec => []BreakerTypeOK
<1>1. BreakerInit => BreakerTypeOK
  <2> SUFFICES ASSUME BreakerInit PROVE BreakerTypeOK
    OBVIOUS
  <2>1. cooled \in BOOLEAN /\ overlapped \in BOOLEAN
    BY Zenon DEF BreakerInit
  <2>2. QED
    BY <2>1 DEF BreakerInit, BreakerTypeOK, States, Steps
<1>2. QED
  BY <1>1, TypePreserved, PTL DEF BreakerSpec

-----------------------------------------------------------------------------
\* No interleaving of two records loses a threshold crossing: both conjuncts of
\* CrossingsKept, each inductive given the types.
THEOREM CrossingsNotLost == BreakerSpec => []CrossingsKept
<1> DEFINE Inv == TripNotLost /\ RecoveryNotLost
<1>1. BreakerInit => Inv
  BY ConfigAssumption DEF BreakerInit, TripNotLost, RecoveryNotLost
<1>2. BreakerTypeOK /\ Inv /\ [BreakerNext]_breakerVars => Inv'
  <2> SUFFICES ASSUME BreakerTypeOK, Inv, [BreakerNext]_breakerVars PROVE Inv'
    OBVIOUS
  <2> USE ConfigAssumption DEF BreakerTypeOK, TripNotLost, RecoveryNotLost, Goto
  <2>1. ASSUME NEW c \in Users, AllowSteps(c) PROVE Inv'
    <3>1. CASE Begin(c) \/ AllowStart(c) \/ AllowOpenCheck(c)
      BY <3>1 DEF Begin, AllowStart, AllowOpenCheck, breaker
    <3>2. CASE AllowToHalfOpen(c)
      BY <3>2 DEF AllowToHalfOpen, Swap
    <3>3. CASE AllowAddSlot(c)
      BY <3>3 DEF AllowAddSlot
    <3>4. CASE AllowUndoSlot(c)
      BY <3>4 DEF AllowUndoSlot
    <3>5. CASE ProtectedReturns(c)
      BY <3>5 DEF ProtectedReturns, breaker
    <3>6. QED
      BY <2>1, <3>1, <3>2, <3>3, <3>4, <3>5 DEF AllowSteps
  <2>2. ASSUME NEW c \in Users, SuccessSteps(c) PROVE Inv'
    <3>1. CASE RecordSuccess(c)
      BY <3>1 DEF RecordSuccess, breaker
    <3>2. CASE ResetFailures(c, "resetFailures", "idle")
      BY <3>2 DEF ResetFailures
    <3>3. CASE pc[c] = "releaseOK" /\ Release(c, "countSuccess")
      BY <3>3 DEF Release
    <3>4. CASE CountSuccess(c)
      BY <3>4 DEF CountSuccess
    <3>5. CASE pc[c] = "toClosed" /\ Swap(c, "closed", "clearClosed", "closeResetFailures")
      BY <3>5 DEF Swap
    <3>6. CASE pc[c] = "clearClosed" /\ ClearSlots(c, "closeResetFailures")
      BY <3>6 DEF ClearSlots
    <3>7. CASE ResetFailures(c, "closeResetFailures", "closeResetSuccess")
      BY <3>7 DEF ResetFailures
    <3>8. CASE ResetSuccess(c, "closeResetSuccess")
      BY <3>8 DEF ResetSuccess
    <3>9. QED
      BY <2>2, <3>1, <3>2, <3>3, <3>4, <3>5, <3>6, <3>7, <3>8 DEF SuccessSteps
  <2>3. ASSUME NEW c \in Users, FailureSteps(c) PROVE Inv'
    <3>1. CASE RecordFailure(c) \/ LoadFailure(c)
      BY <3>1 DEF RecordFailure, LoadFailure, breaker
    <3>2. CASE CountFailure(c)
      BY <3>2 DEF CountFailure
    <3>3. CASE pc[c] = "trip" /\ Swap(c, "open", "clearTrip", "idle")
      BY <3>3 DEF Swap
    <3>4. CASE pc[c] = "clearTrip" /\ ClearSlots(c, "idle")
      BY <3>4 DEF ClearSlots
    <3>5. CASE pc[c] = "releaseBad" /\ Release(c, "reopen")
      BY <3>5 DEF Release
    <3>6. CASE pc[c] = "reopen" /\ Swap(c, "open", "clearReopen", "reopenReset")
      BY <3>6 DEF Swap
    <3>7. CASE pc[c] = "clearReopen" /\ ClearSlots(c, "reopenReset")
      BY <3>7 DEF ClearSlots
    <3>8. CASE ResetSuccess(c, "reopenReset")
      BY <3>8 DEF ResetSuccess
    <3>9. QED
      BY <2>3, <3>1, <3>2, <3>3, <3>4, <3>5, <3>6, <3>7, <3>8 DEF FailureSteps
  <2>4. CASE TimeoutPasses
    BY <2>4 DEF TimeoutPasses, breaker
  <2>5. CASE UNCHANGED breakerVars
    BY <2>5 DEF breakerVars, breaker
  <2>6. QED
    BY <2>1, <2>2, <2>3, <2>4, <2>5 DEF BreakerNext
<1>3. Inv => CrossingsKept
  BY DEF CrossingsKept
<1>4. QED
  BY <1>1, <1>2, <1>3, TypeCorrect, PTL DEF BreakerSpec

-----------------------------------------------------------------------------
\* The callers between the two Adds of a rejected allowHalfOpenRequest.
Undoing == {c \in Users : pc[c] = "undoSlot"}

\* The effective limit is positive whatever the configuration says.
LEMMA LimitPositive == Limit \in Nat \ {0}
BY ConfigAssumption DEF Limit

\* Apart from the two Adds of allowHalfOpenRequest, an operation never raises the
\* slot counter above what it was or above zero, and nobody starts or ends an undo.
LEMMA OtherSteps ==
    ASSUME BreakerTypeOK, [BreakerNext]_breakerVars,
           \A c \in Users : ~AllowAddSlot(c) /\ ~AllowUndoSlot(c)
    PROVE  /\ halfOpenInFlight' <= halfOpenInFlight \/ halfOpenInFlight' = 0
           /\ Undoing' = Undoing
<1> USE DEF BreakerTypeOK, Undoing, Goto
<1>1. ASSUME NEW c \in Users, AllowSteps(c)
      PROVE  halfOpenInFlight' = halfOpenInFlight /\ Undoing' = Undoing
  <2>1. CASE Begin(c) \/ AllowStart(c) \/ AllowOpenCheck(c)
    BY <2>1 DEF Begin, AllowStart, AllowOpenCheck, breaker, States
  <2>2. CASE AllowToHalfOpen(c)
    BY <2>2 DEF AllowToHalfOpen, Swap
  <2>3. CASE ProtectedReturns(c)
    BY <2>3 DEF ProtectedReturns, breaker
  <2>4. QED
    BY <1>1, <2>1, <2>2, <2>3 DEF AllowSteps
<1>2. ASSUME NEW c \in Users, SuccessSteps(c)
      PROVE  /\ halfOpenInFlight' <= halfOpenInFlight \/ halfOpenInFlight' = 0
             /\ Undoing' = Undoing
  <2>1. CASE RecordSuccess(c)
    BY <2>1 DEF RecordSuccess, breaker, States
  <2>2. CASE \/ ResetFailures(c, "resetFailures", "idle")
             \/ ResetFailures(c, "closeResetFailures", "closeResetSuccess")
    BY <2>2 DEF ResetFailures
  <2>3. CASE CountSuccess(c)
    BY <2>3 DEF CountSuccess
  <2>4. CASE pc[c] = "toClosed" /\ Swap(c, "closed", "clearClosed", "closeResetFailures")
    BY <2>4 DEF Swap
  <2>5. CASE \/ pc[c] = "clearClosed" /\ ClearSlots(c, "closeResetFailures")
             \/ pc[c] = "releaseOK" /\ Release(c, "countSuccess")
    BY <2>5 DEF ClearSlots, Release
  <2>6. CASE ResetSuccess(c, "closeResetSuccess")
    BY <2>6 DEF ResetSuccess
  <2>7. QED
    BY <1>2, <2>1, <2>2, <2>3, <2>4, <2>5, <2>6 DEF SuccessSteps
<1>3. ASSUME NEW c \in Users, FailureSteps(c)
      PROVE  /\ halfOpenInFlight' <= halfOpenInFlight \/ halfOpenInFlight' = 0
             /\ Undoing' = Undoing
  <2>1. CASE RecordFailure(c) \/ LoadFailure(c)
    BY <2>1 DEF RecordFailure, LoadFailure, breaker, States
  <2>2. CASE CountFailure(c)
    BY <2>2 DEF CountFailure
  <2>3. CASE \/ pc[c] = "trip" /\ Swap(c, "open", "clearTrip", "idle")
             \/ pc[c] = "reopen" /\ Swap(c, "open", "clearReopen", "reopenReset")
    BY <2>3 DEF Swap
  <2>4. CASE \/ pc[c] = "clearTrip" /\ ClearSlots(c, "idle")
             \/ pc[c] = "clearReopen" /\ ClearSlots(c, "reopenReset")
             \/ pc[c] = "releaseBad" /\ Release(c, "reopen")
    BY <2>4 DEF ClearSlots, Release
  <2>5. CASE ResetSuccess(c, "reopenReset")
    BY <2>5 DEF ResetSuccess
  <2>6. QED
    BY <1>3, <2>1, <2>2, <2>3, <2>4, <2>5 DEF FailureSteps
<1>4. CASE TimeoutPasses \/ UNCHANGED breakerVars
  BY <1>4 DEF TimeoutPasses, breakerVars, breaker
<1>5. QED
  BY <1>1, <1>2, <1>3, <1>4 DEF BreakerNext

\* SlotsBounded for every number of callers and every limit, although the clearing
\* Store(0) of transitionTo interleaves with the Adds of allowHalfOpenRequest.
THEOREM SlotsStayBounded == BreakerSpec => []SlotsBounded
<1>1. BreakerInit => SlotsBounded
  <2> SUFFICES ASSUME BreakerInit PROVE SlotsBounded
    OBVIOUS
  <2>1. {c \in Users : pc[c] = "undoSlot"} = {}
    BY DEF BreakerInit
  <2>2. QED
    BY <2>1, LimitPositive, FS_EmptySet DEF BreakerInit, SlotsBounded
<1>2. BreakerTypeOK /\ SlotsBounded /\ [BreakerNext]_breakerVars => SlotsBounded'
  <2> SUFFICES ASSUME BreakerTypeOK, SlotsBounded, [BreakerNext]_breakerVars PROVE SlotsBounded'
    OBVIOUS
  <2>1. IsFiniteSet(Undoing) /\ IsFiniteSet(Undoing')
    BY ConfigAssumption, FS_Subset DEF Undoing
  <2>2. Cardinality(Undoing) \in Nat /\ Cardinality(Undoing') \in Nat
    BY <2>1, FS_CardinalityType
  <2>3. halfOpenInFlight <= Limit + Cardinality(Undoing)
    BY DEF SlotsBounded, Undoing
  <2>4. SUFFICES halfOpenInFlight' <= Limit + Cardinality(Undoing')
    BY DEF SlotsBounded, Undoing, Limit
  <2>5. ASSUME NEW c \in Users, AllowAddSlot(c)
        PROVE  halfOpenInFlight' <= Limit + Cardinality(Undoing')
    <3>1. CASE halfOpenInFlight + 1 > Limit
      <4>1. c \notin Undoing /\ Undoing' = Undoing \cup {c}
        BY <2>5, <3>1 DEF AllowAddSlot, Goto, BreakerTypeOK, Undoing
      <4>2. Cardinality(Undoing') = Cardinality(Undoing) + 1
        BY <2>1, <4>1, FS_AddElement
      <4>3. QED
        BY <2>2, <2>3, <2>5, <4>2, LimitPositive DEF AllowAddSlot, BreakerTypeOK
    <3>2. CASE ~(halfOpenInFlight + 1 > Limit)
      BY <2>2, <2>5, <3>2, LimitPositive DEF AllowAddSlot, BreakerTypeOK
    <3>3. QED
      BY <3>1, <3>2
  <2>6. ASSUME NEW c \in Users, AllowUndoSlot(c)
        PROVE  halfOpenInFlight' <= Limit + Cardinality(Undoing')
    <3>1. c \in Undoing /\ Undoing' = Undoing \ {c}
      BY <2>6 DEF AllowUndoSlot, Goto, BreakerTypeOK, Undoing
    <3>2. Cardinality(Undoing') = Cardinality(Undoing) - 1
      BY <2>1, <3>1, FS_RemoveElement
    <3>3. QED
      BY <2>2, <2>3, <2>6, <3>2, LimitPositive DEF AllowUndoSlot, BreakerTypeOK
  <2>7. CASE \A c \in Users : ~AllowAddSlot(c) /\ ~AllowUndoSlot(c)
    <3>1. /\ halfOpenInFlight' <= halfOpenInFlight \/ halfOpenInFlight' = 0
          /\ Undoing' = Undoing
      BY <2>7, OtherSteps
    <3>2. halfOpenInFlight' \in Int /\ halfOpenInFlight \in Int
      BY TypePreserved DEF BreakerTypeOK
    <3>3. QED
      BY <2>2, <2>3, <3>1, <3>2, LimitPositive
  <2>8. QED
    BY <2>5, <2>6, <2>7
<1>3. QED
  BY <1>1, <1>2, TypeCorrect, PTL DEF BreakerSpec

-----------------------------------------------------------------------------
(* Calls one after the other *)

\* At most one goroutine is in the breaker,
Solo == \A c, d \in Users : pc[c] # "idle" /\ pc[d] # "idle" => c = d

\* and this is its step.
Step == IF Quiescent THEN "idle" ELSE pc[CHOOSE c \in Users : pc[c] # "idle"]

\* The step of the breaker is the step of whoever moves.
LEMMA SoloStep ==
  ASSUME BreakerTypeOK, Solo, NEW c \in Users, NEW n, Goto(c, n), pc[c] = "idle" => Quiescent
  PROVE  Solo' /\ c \in DOMAIN pc /\ Step = pc[c] /\ Step' = pc'[c] /\ pc'[c] = n
  <1>1. c \in DOMAIN pc /\ pc'[c] = n /\ \A d \in Users \ {c} : pc'[d] = pc[d]
    BY DEF Goto, BreakerTypeOK
  <1>2. \A d \in Users \ {c} : pc[d] = "idle"
    BY DEF Solo, Quiescent
  <1>3. Solo'
    BY <1>1, <1>2 DEF Solo
  <1>4. Step = pc[c]
    BY <1>2 DEF Step, Quiescent
  <1>5. Step' = pc'[c]
    BY <1>1, <1>2 DEF Step, Quiescent
  <1> QED  BY <1>1, <1>3, <1>4, <1>5

\* The mapping, of one step.
StepFails == Step \in {"loadFailure", "countFailure"} /\ state = "closed"
StepSucceeds == Step \in {"releaseOK", "countSuccess"}

StepMode ==
    IF \/ Step \in {"trip", "releaseBad", "reopen"}
       \/ StepFails /\ failureCount + 1 >= FailureThreshold
       \/ Step \in {"loadFailure"} /\ state = "half-open"
      THEN "open"
    ELSE IF \/ Step \in {"toClosed"}
            \/ StepSucceeds /\ successCount + 1 >= SuccessThreshold
      THEN "closed"
    ELSE state

StepStreak ==
    CASE StepMode = "open" -> 0
      [] StepMode = "half-open" -> IF StepSucceeds THEN successCount + 1 ELSE successCount
      [] StepMode = "closed" ->
            IF Step \in {"resetFailures", "releaseOK", "countSuccess", "toClosed", "clearClosed", "closeResetFailures"} THEN 0
            ELSE IF StepFails THEN failureCount + 1
            ELSE failureCount

\* The goroutine that is at a step is the one in the breaker,
LEMMA AtStep == ASSUME Solo, NEW S, "idle" \notin S PROVE At(S) <=> Step \in S
  <1>1. CASE Quiescent
    BY <1>1 DEF At, Step, Quiescent
  <1>2. CASE ~Quiescent
    BY <1>2 DEF At, Step, Quiescent, Solo
  <1> QED  BY <1>1, <1>2

\* before and after a step.
LEMMA AtStepNext == ASSUME Solo', NEW S, "idle" \notin S PROVE (\E c \in Users : pc'[c] \in S) <=> Step' \in S
  <1>1. CASE Quiescent'
    BY <1>1 DEF Step, Quiescent
  <1>2. CASE ~Quiescent'
    BY <1>2 DEF Step, Quiescent, Solo
  <1> QED  BY <1>1, <1>2

\* So is the mapping.
LEMMA SoloMapping == ASSUME Solo PROVE absMode = StepMode /\ absStreak = StepStreak
  <1>1. (FailurePending <=> StepFails) /\ (SuccessPending <=> StepSucceeds)
    BY AtStep DEF FailurePending, SuccessPending, StepFails, StepSucceeds
  <1>2. /\ At({"trip", "releaseBad", "reopen"}) <=> Step \in {"trip", "releaseBad", "reopen"}
        /\ At({"loadFailure"}) <=> Step \in {"loadFailure"}
        /\ At({"toClosed"}) <=> Step \in {"toClosed"}
    BY AtStep
  <1>3. At({"resetFailures", "releaseOK", "countSuccess", "toClosed", "clearClosed", "closeResetFailures"})
          <=> Step \in {"resetFailures", "releaseOK", "countSuccess", "toClosed", "clearClosed", "closeResetFailures"}
    BY AtStep
  <1>4. absMode = StepMode
    BY <1>1, <1>2 DEF absMode, StepMode
  <1> QED  BY <1>1, <1>3, <1>4 DEF absStreak, StepStreak

LEMMA SoloMappingNext == ASSUME Solo' PROVE absMode' = StepMode' /\ absStreak' = StepStreak'
  <1>1. (FailurePending' <=> StepFails') /\ (SuccessPending' <=> StepSucceeds')
    BY AtStepNext DEF FailurePending, SuccessPending, StepFails, StepSucceeds, At
  <1>2. /\ At({"trip", "releaseBad", "reopen"})' <=> Step' \in {"trip", "releaseBad", "reopen"}
        /\ At({"loadFailure"})' <=> Step' \in {"loadFailure"}
        /\ At({"toClosed"})' <=> Step' \in {"toClosed"}
    BY AtStepNext DEF At
  <1>3. At({"resetFailures", "releaseOK", "countSuccess", "toClosed", "clearClosed", "closeResetFailures"})'
          <=> Step' \in {"resetFailures", "releaseOK", "countSuccess", "toClosed", "clearClosed", "closeResetFailures"}
    BY AtStepNext DEF At
  <1>4. absMode' = StepMode'
    BY <1>1, <1>2 DEF absMode, StepMode
  <1> QED  BY <1>1, <1>3, <1>4 DEF absStreak, StepStreak

\* What one goroutine knows of the counters at each of its steps.
SeqInv ==
    LET p == Step IN
    /\ p \in {"idle", "load"} => successCount < SuccessThreshold
    /\ p \in {"openCheck", "toHalfOpen"} => state = "open" /\ successCount = 0
    /\ p = "toHalfOpen" => cooled
    /\ p \in {"addSlot", "undoSlot"} => state = "half-open" /\ successCount < SuccessThreshold
    /\ p \in {"running", "success", "failure", "loadFailure"} => state # "open" /\ successCount < SuccessThreshold
    /\ p \in {"idle", "load", "running", "success", "failure", "loadFailure"} =>
            /\ state = "closed" => failureCount < FailureThreshold
            /\ state # "half-open" => successCount = 0
    /\ p \in {"resetFailures", "countFailure"} => state = "closed" /\ failureCount < FailureThreshold /\ successCount = 0
    /\ p \in {"releaseOK", "countSuccess"} => state = "half-open" /\ successCount < SuccessThreshold
    /\ p = "toClosed" => state = "half-open"
    /\ p \in {"clearClosed", "closeResetFailures", "closeResetSuccess"} => state = "closed"
    /\ p = "closeResetSuccess" => failureCount = 0
    /\ p = "trip" => state = "closed" /\ successCount = 0
    /\ p = "clearTrip" => state = "open" /\ successCount = 0
    /\ p \in {"releaseBad", "reopen"} => state = "half-open"
    /\ p \in {"clearReopen", "reopenReset"} => state = "open"

\* The variables that the promise and SeqInv read, besides the step.
Fields == <<state, failureCount, successCount, cooled>>

\* Allow and the handler: only the first request after the timeout moves the promise.
LEMMA SequentialAllow ==
  ASSUME Solo, BreakerTypeOK, SeqInv, NEW c \in Users, AllowSteps(c), pc[c] = "idle" => Quiescent
  PROVE  Solo' /\ SeqInv' /\ (UNCHANGED <<absMode, absStreak, cooled>> \/ Promise!PNext)
  <1>0. \E n : Goto(c, n)
    BY DEF AllowSteps, Begin, AllowStart, AllowOpenCheck, AllowToHalfOpen, AllowAddSlot, AllowUndoSlot, ProtectedReturns, Swap
  <1>1. Solo' /\ c \in DOMAIN pc /\ Step = pc[c] /\ Step' = pc'[c]
    BY <1>0, SoloStep
  <1>m. absMode = StepMode /\ absStreak = StepStreak /\ absMode' = StepMode' /\ absStreak' = StepStreak'
    BY <1>1, SoloMapping, SoloMappingNext
  <1> DEFINE p == Step
             q == Step'
  <1> USE <1>1, <1>m, ConfigAssumption DEF Goto
  <1>2. CASE Begin(c)
    <2>1. p = "idle" /\ q = "load" /\ UNCHANGED Fields
      BY <1>2 DEF Begin, breaker, Fields
    <2>2. SeqInv'
      BY <2>1 DEF SeqInv, Fields, BreakerTypeOK, States
    <2>3. UNCHANGED <<absMode, absStreak>>
      BY <2>1 DEF SeqInv, Fields, BreakerTypeOK, States, StepMode, StepStreak, StepFails, StepSucceeds
    <2> QED  BY <2>1, <2>2, <2>3 DEF Fields
  <1>3. CASE AllowStart(c)
    <2>1. /\ p = "load" /\ UNCHANGED Fields
          /\ q = CASE state = "closed" -> "running" [] state = "open" -> "openCheck" [] state = "half-open" -> "addSlot"
      BY <1>3 DEF AllowStart, breaker, Fields, BreakerTypeOK, States
    <2>2. SeqInv'
      BY <2>1 DEF SeqInv, Fields, BreakerTypeOK, States
    <2>3. UNCHANGED <<absMode, absStreak>>
      BY <2>1 DEF SeqInv, Fields, BreakerTypeOK, States, StepMode, StepStreak, StepFails, StepSucceeds
    <2> QED  BY <2>1, <2>2, <2>3 DEF Fields
  <1>4. CASE AllowOpenCheck(c)
    <2>1. p = "openCheck" /\ q = (IF cooled THEN "toHalfOpen" ELSE "idle") /\ UNCHANGED Fields
      BY <1>4 DEF AllowOpenCheck, breaker, Fields
    <2>2. SeqInv'
      BY <2>1 DEF SeqInv, Fields, BreakerTypeOK, States
    <2>3. UNCHANGED <<absMode, absStreak>>
      BY <2>1 DEF SeqInv, Fields, BreakerTypeOK, States, StepMode, StepStreak, StepFails, StepSucceeds
    <2> QED  BY <2>1, <2>2, <2>3 DEF Fields
  <1>5. CASE AllowToHalfOpen(c)
    <2>1. /\ p = "toHalfOpen" /\ q = "addSlot" /\ state' = "half-open"
          /\ UNCHANGED <<failureCount, successCount, cooled>>
      BY <1>5 DEF AllowToHalfOpen, Swap
    <2>2. SeqInv'
      BY <2>1 DEF SeqInv, Fields, BreakerTypeOK, States
    <2>3. Promise!PProbe
      BY <2>1 DEF SeqInv, Fields, BreakerTypeOK, States, StepMode, StepStreak, StepFails, StepSucceeds, Promise!PProbe
    <2> QED  BY <2>2, <2>3 DEF Promise!PNext
  <1>6. CASE AllowAddSlot(c)
    <2>1. p = "addSlot" /\ q \in {"undoSlot", "running"} /\ UNCHANGED Fields
      BY <1>6 DEF AllowAddSlot, Fields
    <2>2. SeqInv'
      BY <2>1 DEF SeqInv, Fields, BreakerTypeOK, States
    <2>3. UNCHANGED <<absMode, absStreak>>
      BY <2>1 DEF SeqInv, Fields, BreakerTypeOK, States, StepMode, StepStreak, StepFails, StepSucceeds
    <2> QED  BY <2>1, <2>2, <2>3 DEF Fields
  <1>7. CASE AllowUndoSlot(c)
    <2>1. p = "undoSlot" /\ q = "idle" /\ UNCHANGED Fields
      BY <1>7 DEF AllowUndoSlot, Fields
    <2>2. SeqInv'
      BY <2>1 DEF SeqInv, Fields, BreakerTypeOK, States
    <2>3. UNCHANGED <<absMode, absStreak>>
      BY <2>1 DEF SeqInv, Fields, BreakerTypeOK, States, StepMode, StepStreak, StepFails, StepSucceeds
    <2> QED  BY <2>1, <2>2, <2>3 DEF Fields
  <1>8. CASE ProtectedReturns(c)
    <2>1. p = "running" /\ q \in {"success", "failure", "idle"} /\ UNCHANGED Fields
      BY <1>8 DEF ProtectedReturns, breaker, Fields
    <2>2. SeqInv'
      BY <2>1 DEF SeqInv, Fields, BreakerTypeOK, States
    <2>3. UNCHANGED <<absMode, absStreak>>
      BY <2>1 DEF SeqInv, Fields, BreakerTypeOK, States, StepMode, StepStreak, StepFails, StepSucceeds
    <2> QED  BY <2>1, <2>2, <2>3 DEF Fields
  <1> QED
    BY <1>2, <1>3, <1>4, <1>5, <1>6, <1>7, <1>8 DEF AllowSteps

\* RecordSuccess takes effect where it begins; the operations after it are stutters.
LEMMA SequentialSuccess ==
  ASSUME Solo, BreakerTypeOK, SeqInv, NEW c \in Users, SuccessSteps(c), pc[c] = "idle" => Quiescent
  PROVE  Solo' /\ SeqInv' /\ (UNCHANGED <<absMode, absStreak, cooled>> \/ Promise!PNext)
  <1>0. \E n : Goto(c, n)
    BY DEF SuccessSteps, RecordSuccess, ResetFailures, ResetSuccess, CountSuccess, Swap, ClearSlots, Release
  <1>1. Solo' /\ c \in DOMAIN pc /\ Step = pc[c] /\ Step' = pc'[c]
    BY <1>0, SoloStep
  <1>m. absMode = StepMode /\ absStreak = StepStreak /\ absMode' = StepMode' /\ absStreak' = StepStreak'
    BY <1>1, SoloMapping, SoloMappingNext
  <1> DEFINE p == Step
             q == Step'
  <1> USE <1>1, <1>m, ConfigAssumption DEF Goto
  <1>2. CASE RecordSuccess(c)
    <2>1. /\ p = "success" /\ UNCHANGED Fields
          /\ q = CASE state = "closed" -> "resetFailures" [] state = "half-open" -> "releaseOK" [] state = "open" -> "idle"
      BY <1>2 DEF RecordSuccess, breaker, Fields
    <2>2. SeqInv'
      BY <2>1 DEF SeqInv, Fields, BreakerTypeOK, States
    <2>3. Promise!PSucceed
      BY <2>1 DEF SeqInv, Fields, BreakerTypeOK, States, StepMode, StepStreak, StepFails, StepSucceeds, Promise!PSucceed
    <2> QED  BY <2>2, <2>3 DEF Promise!PNext
  <1>3. CASE ResetFailures(c, "resetFailures", "idle")
    <2>1. /\ p = "resetFailures" /\ q = "idle" /\ failureCount' = 0
          /\ UNCHANGED <<state, successCount, cooled>>
      BY <1>3 DEF ResetFailures
    <2>2. SeqInv'
      BY <2>1 DEF SeqInv, Fields, BreakerTypeOK, States
    <2>3. UNCHANGED <<absMode, absStreak>>
      BY <2>1 DEF SeqInv, Fields, BreakerTypeOK, States, StepMode, StepStreak, StepFails, StepSucceeds
    <2> QED  BY <2>1, <2>2, <2>3 DEF Fields
  <1>4. CASE pc[c] = "releaseOK" /\ Release(c, "countSuccess")
    <2>1. p = "releaseOK" /\ q = "countSuccess" /\ UNCHANGED Fields
      BY <1>4 DEF Release, Fields
    <2>2. SeqInv'
      BY <2>1 DEF SeqInv, Fields, BreakerTypeOK, States
    <2>3. UNCHANGED <<absMode, absStreak>>
      BY <2>1 DEF SeqInv, Fields, BreakerTypeOK, States, StepMode, StepStreak, StepFails, StepSucceeds
    <2> QED  BY <2>1, <2>2, <2>3 DEF Fields
  <1>5. CASE CountSuccess(c)
    <2>1. /\ p = "countSuccess" /\ q = IF successCount + 1 >= SuccessThreshold THEN "toClosed" ELSE "idle"
          /\ successCount' = successCount + 1 /\ UNCHANGED <<state, failureCount, cooled>>
      BY <1>5 DEF CountSuccess
    <2>2. SeqInv'
      BY <2>1 DEF SeqInv, Fields, BreakerTypeOK, States
    <2>3. UNCHANGED <<absMode, absStreak>>
      BY <2>1 DEF SeqInv, Fields, BreakerTypeOK, States, StepMode, StepStreak, StepFails, StepSucceeds
    <2> QED  BY <2>1, <2>2, <2>3 DEF Fields
  <1>6. CASE pc[c] = "toClosed" /\ Swap(c, "closed", "clearClosed", "closeResetFailures")
    <2>1. /\ p = "toClosed" /\ q \in {"clearClosed", "closeResetFailures"} /\ state' = "closed"
          /\ UNCHANGED <<failureCount, successCount, cooled>>
      BY <1>6 DEF Swap
    <2>2. SeqInv'
      BY <2>1 DEF SeqInv, Fields, BreakerTypeOK, States
    <2>3. UNCHANGED <<absMode, absStreak>>
      BY <2>1 DEF SeqInv, Fields, BreakerTypeOK, States, StepMode, StepStreak, StepFails, StepSucceeds
    <2> QED  BY <2>1, <2>2, <2>3 DEF Fields
  <1>7. CASE pc[c] = "clearClosed" /\ ClearSlots(c, "closeResetFailures")
    <2>1. p = "clearClosed" /\ q = "closeResetFailures" /\ UNCHANGED Fields
      BY <1>7 DEF ClearSlots, Fields
    <2>2. SeqInv'
      BY <2>1 DEF SeqInv, Fields, BreakerTypeOK, States
    <2>3. UNCHANGED <<absMode, absStreak>>
      BY <2>1 DEF SeqInv, Fields, BreakerTypeOK, States, StepMode, StepStreak, StepFails, StepSucceeds
    <2> QED  BY <2>1, <2>2, <2>3 DEF Fields
  <1>8. CASE ResetFailures(c, "closeResetFailures", "closeResetSuccess")
    <2>1. /\ p = "closeResetFailures" /\ q = "closeResetSuccess" /\ failureCount' = 0
          /\ UNCHANGED <<state, successCount, cooled>>
      BY <1>8 DEF ResetFailures
    <2>2. SeqInv'
      BY <2>1 DEF SeqInv, Fields, BreakerTypeOK, States
    <2>3. UNCHANGED <<absMode, absStreak>>
      BY <2>1 DEF SeqInv, Fields, BreakerTypeOK, States, StepMode, StepStreak, StepFails, StepSucceeds
    <2> QED  BY <2>1, <2>2, <2>3 DEF Fields
  <1>9. CASE ResetSuccess(c, "closeResetSuccess")
    <2>1. /\ p = "closeResetSuccess" /\ q = "idle" /\ successCount' = 0
          /\ UNCHANGED <<state, failureCount, cooled>>
      BY <1>9 DEF ResetSuccess
    <2>2. SeqInv'
      BY <2>1 DEF SeqInv, Fields, BreakerTypeOK, States
    <2>3. UNCHANGED <<absMode, absStreak>>
      BY <2>1 DEF SeqInv, Fields, BreakerTypeOK, States, StepMode, StepStreak, StepFails, StepSucceeds
    <2> QED  BY <2>1, <2>2, <2>3 DEF Fields
  <1> QED
    BY <1>2, <1>3, <1>4, <1>5, <1>6, <1>7, <1>8, <1>9 DEF SuccessSteps

\* RecordFailure takes effect where it begins, with lastFailureTime.
LEMMA SequentialFailure ==
  ASSUME Solo, BreakerTypeOK, SeqInv, NEW c \in Users, FailureSteps(c), pc[c] = "idle" => Quiescent
  PROVE  Solo' /\ SeqInv' /\ (UNCHANGED <<absMode, absStreak, cooled>> \/ Promise!PNext)
  <1>0. \E n : Goto(c, n)
    BY DEF FailureSteps, RecordFailure, LoadFailure, ResetSuccess, CountFailure, Swap, ClearSlots, Release
  <1>1. Solo' /\ c \in DOMAIN pc /\ Step = pc[c] /\ Step' = pc'[c]
    BY <1>0, SoloStep
  <1>m. absMode = StepMode /\ absStreak = StepStreak /\ absMode' = StepMode' /\ absStreak' = StepStreak'
    BY <1>1, SoloMapping, SoloMappingNext
  <1> DEFINE p == Step
             q == Step'
  <1> USE <1>1, <1>m, ConfigAssumption DEF Goto
  <1>2. CASE RecordFailure(c)
    <2>1. /\ p = "failure" /\ q = "loadFailure" /\ cooled' = FALSE
          /\ UNCHANGED <<state, failureCount, successCount>>
      BY <1>2 DEF RecordFailure, breaker
    <2>2. SeqInv'
      BY <2>1 DEF SeqInv, Fields, BreakerTypeOK, States
    <2>3. Promise!PFail
      BY <2>1 DEF SeqInv, Fields, BreakerTypeOK, States, StepMode, StepStreak, StepFails, StepSucceeds, Promise!PFail
    <2> QED  BY <2>2, <2>3 DEF Promise!PNext
  <1>3. CASE LoadFailure(c)
    <2>1. /\ p = "loadFailure" /\ UNCHANGED Fields
          /\ q = CASE state = "closed" -> "countFailure" [] state = "half-open" -> "releaseBad" [] state = "open" -> "idle"
      BY <1>3 DEF LoadFailure, breaker, Fields
    <2>2. SeqInv'
      BY <2>1 DEF SeqInv, Fields, BreakerTypeOK, States
    <2>3. UNCHANGED <<absMode, absStreak>>
      BY <2>1 DEF SeqInv, Fields, BreakerTypeOK, States, StepMode, StepStreak, StepFails, StepSucceeds
    <2> QED  BY <2>1, <2>2, <2>3 DEF Fields
  <1>4. CASE CountFailure(c)
    <2>1. /\ p = "countFailure" /\ q = IF failureCount + 1 >= FailureThreshold THEN "trip" ELSE "idle"
          /\ failureCount' = failureCount + 1 /\ UNCHANGED <<state, successCount, cooled>>
      BY <1>4 DEF CountFailure
    <2>2. SeqInv'
      BY <2>1 DEF SeqInv, Fields, BreakerTypeOK, States
    <2>3. UNCHANGED <<absMode, absStreak>>
      BY <2>1 DEF SeqInv, Fields, BreakerTypeOK, States, StepMode, StepStreak, StepFails, StepSucceeds
    <2> QED  BY <2>1, <2>2, <2>3 DEF Fields
  <1>5. CASE pc[c] = "trip" /\ Swap(c, "open", "clearTrip", "idle")
    <2>1. /\ p = "trip" /\ q \in {"clearTrip", "idle"} /\ state' = "open"
          /\ UNCHANGED <<failureCount, successCount, cooled>>
      BY <1>5 DEF Swap
    <2>2. SeqInv'
      BY <2>1 DEF SeqInv, Fields, BreakerTypeOK, States
    <2>3. UNCHANGED <<absMode, absStreak>>
      BY <2>1 DEF SeqInv, Fields, BreakerTypeOK, States, StepMode, StepStreak, StepFails, StepSucceeds
    <2> QED  BY <2>1, <2>2, <2>3 DEF Fields
  <1>6. CASE pc[c] = "clearTrip" /\ ClearSlots(c, "idle")
    <2>1. p = "clearTrip" /\ q = "idle" /\ UNCHANGED Fields
      BY <1>6 DEF ClearSlots, Fields
    <2>2. SeqInv'
      BY <2>1 DEF SeqInv, Fields, BreakerTypeOK, States
    <2>3. UNCHANGED <<absMode, absStreak>>
      BY <2>1 DEF SeqInv, Fields, BreakerTypeOK, States, StepMode, StepStreak, StepFails, StepSucceeds
    <2> QED  BY <2>1, <2>2, <2>3 DEF Fields
  <1>7. CASE pc[c] = "releaseBad" /\ Release(c, "reopen")
    <2>1. p = "releaseBad" /\ q = "reopen" /\ UNCHANGED Fields
      BY <1>7 DEF Release, Fields
    <2>2. SeqInv'
      BY <2>1 DEF SeqInv, Fields, BreakerTypeOK, States
    <2>3. UNCHANGED <<absMode, absStreak>>
      BY <2>1 DEF SeqInv, Fields, BreakerTypeOK, States, StepMode, StepStreak, StepFails, StepSucceeds
    <2> QED  BY <2>1, <2>2, <2>3 DEF Fields
  <1>8. CASE pc[c] = "reopen" /\ Swap(c, "open", "clearReopen", "reopenReset")
    <2>1. /\ p = "reopen" /\ q \in {"clearReopen", "reopenReset"} /\ state' = "open"
          /\ UNCHANGED <<failureCount, successCount, cooled>>
      BY <1>8 DEF Swap
    <2>2. SeqInv'
      BY <2>1 DEF SeqInv, Fields, BreakerTypeOK, States
    <2>3. UNCHANGED <<absMode, absStreak>>
      BY <2>1 DEF SeqInv, Fields, BreakerTypeOK, States, StepMode, StepStreak, StepFails, StepSucceeds
    <2> QED  BY <2>1, <2>2, <2>3 DEF Fields
  <1>9. CASE pc[c] = "clearReopen" /\ ClearSlots(c, "reopenReset")
    <2>1. p = "clearReopen" /\ q = "reopenReset" /\ UNCHANGED Fields
      BY <1>9 DEF ClearSlots, Fields
    <2>2. SeqInv'
      BY <2>1 DEF SeqInv, Fields, BreakerTypeOK, States
    <2>3. UNCHANGED <<absMode, absStreak>>
      BY <2>1 DEF SeqInv, Fields, BreakerTypeOK, States, StepMode, StepStreak, StepFails, StepSucceeds
    <2> QED  BY <2>1, <2>2, <2>3 DEF Fields
  <1>10. CASE ResetSuccess(c, "reopenReset")
    <2>1. /\ p = "reopenReset" /\ q = "idle" /\ successCount' = 0
          /\ UNCHANGED <<state, failureCount, cooled>>
      BY <1>10 DEF ResetSuccess
    <2>2. SeqInv'
      BY <2>1 DEF SeqInv, Fields, BreakerTypeOK, States
    <2>3. UNCHANGED <<absMode, absStreak>>
      BY <2>1 DEF SeqInv, Fields, BreakerTypeOK, States, StepMode, StepStreak, StepFails, StepSucceeds
    <2> QED  BY <2>1, <2>2, <2>3 DEF Fields
  <1> QED
    BY <1>2, <1>3, <1>4, <1>5, <1>6, <1>7, <1>8, <1>9, <1>10 DEF FailureSteps

\* Only Begin makes two calls overlap, when somebody is in the breaker already.
LEMMA OverlapKept ==
  ASSUME [BreakerNext]_breakerVars, ~overlapped'
  PROVE  ~overlapped /\ \A c \in Users : AllowSteps(c) /\ pc[c] = "idle" => Quiescent
  <1>1. ASSUME NEW c \in Users, Begin(c) PROVE ~overlapped /\ Quiescent
    BY <1>1, Zenon DEF Begin
  <1>2. ASSUME NEW c \in Users, AllowSteps(c), ~Begin(c) PROVE UNCHANGED overlapped /\ pc[c] # "idle"
    BY <1>2 DEF AllowSteps, AllowStart, AllowOpenCheck, AllowToHalfOpen, AllowAddSlot, AllowUndoSlot, ProtectedReturns, Swap
  <1>3. ASSUME NEW c \in Users, SuccessSteps(c) PROVE UNCHANGED overlapped
    BY <1>3 DEF SuccessSteps, RecordSuccess, ResetFailures, ResetSuccess, CountSuccess, Swap, ClearSlots, Release
  <1>4. ASSUME NEW c \in Users, FailureSteps(c) PROVE UNCHANGED overlapped
    BY <1>4 DEF FailureSteps, RecordFailure, LoadFailure, ResetSuccess, CountFailure, Swap, ClearSlots, Release
  <1>5. CASE TimeoutPasses \/ UNCHANGED breakerVars
    <2>1. UNCHANGED overlapped
      BY <1>5 DEF TimeoutPasses, breakerVars
    <2>2. \A c \in Users : ~AllowSteps(c) \/ pc[c] # "idle" \/ Begin(c)
      BY <1>2, Zenon
    <2> QED  BY <1>1, <2>1, <2>2, Zenon
  <1>6. \A c \in Users : AllowSteps(c) /\ pc[c] = "idle" => Quiescent
    BY <1>1, <1>2, Zenon
  <1>7. ~overlapped
    BY <1>1, <1>2, <1>3, <1>4, <1>5, Zenon DEF BreakerNext
  <1> QED  BY <1>6, <1>7, Zenon

\* Until two calls overlap the breaker implements BreakerPromise, for every number
\* of users, threshold and limit and also when handlers panic: every operation of
\* Allow, RecordSuccess and RecordFailure is a step of the promise or none.
THEOREM SequentialKeepsPromise == BreakerSpec => KeepsPromise
  <1> DEFINE Inv == overlapped \/ (Solo /\ SeqInv)
             Allowed == overlapped' \/ Promise!PNext
             mapped == <<absMode, absStreak, cooled>>
  <1>1. BreakerInit => Inv /\ Promise!PInit
    <2> SUFFICES ASSUME BreakerInit PROVE Solo /\ SeqInv /\ Promise!PInit
      OBVIOUS
    <2>1. Solo /\ Step = "idle"
      BY DEF BreakerInit, Solo, Step, Quiescent
    <2>2. SeqInv
      BY <2>1, ConfigAssumption DEF BreakerInit, SeqInv
    <2>3. StepMode = "closed" /\ StepStreak = 0
      BY <2>1, ConfigAssumption DEF BreakerInit, StepMode, StepStreak, StepFails, StepSucceeds
    <2> QED  BY <2>1, <2>2, <2>3, SoloMapping DEF BreakerInit, Promise!PInit
  <1>2. BreakerTypeOK /\ Inv /\ [BreakerNext]_breakerVars => Inv' /\ [Allowed]_mapped
    <2> SUFFICES ASSUME BreakerTypeOK, Inv, [BreakerNext]_breakerVars, ~overlapped' PROVE Solo' /\ SeqInv' /\ (UNCHANGED mapped \/ Promise!PNext)
      BY Zenon
    <2>1. Solo /\ SeqInv /\ \A c \in Users : AllowSteps(c) /\ pc[c] = "idle" => Quiescent
      BY OverlapKept, Zenon
    <2>2. CASE TimeoutPasses
      <3>1. ~cooled /\ cooled' = TRUE /\ UNCHANGED <<state, failureCount, successCount, pc>>
        BY <2>2 DEF TimeoutPasses, breaker
      <3>2. Solo' /\ Step' = Step
        BY <2>1, <3>1 DEF Solo, Step, Quiescent
      <3>3. SeqInv' /\ UNCHANGED <<StepMode, StepStreak>>
        BY <2>1, <3>1, <3>2 DEF SeqInv, StepMode, StepStreak, StepFails, StepSucceeds
      <3>4. UNCHANGED <<absMode, absStreak>>
        BY <2>1, <3>2, <3>3, SoloMapping, SoloMappingNext
      <3> QED  BY <3>1, <3>2, <3>3, <3>4 DEF Promise!PNext, Promise!PTimeout
    <2>3. CASE UNCHANGED breakerVars
      <3>1. UNCHANGED <<state, failureCount, successCount, cooled, pc>>
        BY <2>3 DEF breakerVars, breaker
      <3>2. Solo' /\ Step' = Step
        BY <2>1, <3>1 DEF Solo, Step, Quiescent
      <3>3. SeqInv' /\ UNCHANGED <<absMode, absStreak>>
        BY <2>1, <3>1, <3>2 DEF SeqInv, absMode, absStreak, At, FailurePending, SuccessPending
      <3> QED  BY <3>1, <3>2, <3>3
    <2>4. ASSUME NEW c \in Users, AllowSteps(c) PROVE Solo' /\ SeqInv' /\ (UNCHANGED mapped \/ Promise!PNext)
      BY <2>1, <2>4, SequentialAllow
    <2>5. ASSUME NEW c \in Users, SuccessSteps(c) PROVE Solo' /\ SeqInv' /\ (UNCHANGED mapped \/ Promise!PNext)
      <3>1. pc[c] # "idle"
        BY <2>5 DEF SuccessSteps, RecordSuccess, ResetFailures, ResetSuccess, CountSuccess
      <3> QED  BY <2>1, <2>5, <3>1, SequentialSuccess
    <2>6. ASSUME NEW c \in Users, FailureSteps(c) PROVE Solo' /\ SeqInv' /\ (UNCHANGED mapped \/ Promise!PNext)
      <3>1. pc[c] # "idle"
        BY <2>6 DEF FailureSteps, RecordFailure, LoadFailure, ResetSuccess, CountFailure
      <3> QED  BY <2>1, <2>6, <3>1, SequentialFailure
    <2> QED  BY <2>2, <2>3, <2>4, <2>5, <2>6 DEF BreakerNext
  <1> QED  BY <1>1, <1>2, TypeCorrect, PTL DEF BreakerSpec, KeepsPromise
=============================================================================
