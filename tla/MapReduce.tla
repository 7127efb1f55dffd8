------------------------------ MODULE MapReduce ------------------------------
(***************************************************************************)
(* The concurrent helpers of mr/mr.go.                                     *)
(*                                                                         *)
(* Map, Filter, ForEach, FlatMap, Partition and MapReduce have the same    *)
(* skeleton: the calling goroutine acquires a semaphore and starts one     *)
(* worker per unit of work, each worker runs the caller's function,        *)
(* records its result or its error, gives the semaphore back and leaves    *)
(* the wait group.  MapReduce sends the results through a buffered channel *)
(* that a further goroutine closes, and reduces in the calling goroutine   *)
(* once every worker has been started.  Reduce is the sequential helper.   *)
(*                                                                         *)
(* The helper and the length of its source are inputs, chosen by Init.     *)
(* The caller's functions may fail, and their context may be cancelled at  *)
(* any moment.  The result of a function on item i is written i.           *)
(***************************************************************************)
EXTENDS Naturals, Sequences, FiniteSets

CONSTANTS
    Helpers,        \* the helpers to call
    MaxLen,         \* bound: length of the source
    Concurrency,    \* Options.concurrency
    OutputSize,     \* Options.bufferSize
    PartitionSize,  \* the size argument of Partition
    Accepted            \* the items filterFunc accepts

ASSUME OptionsAssumption ==
    /\ Helpers \subseteq {"Map", "Filter", "ForEach", "FlatMap", "Partition", "MapReduce", "Reduce"}
    /\ MaxLen \in Nat
    /\ Concurrency \in Nat \ {0}
    /\ OutputSize \in Nat \ {0}
    /\ PartitionSize \in Nat \ {0}

VARIABLES
    helper,     \* the helper that is called
    len,        \* len(source)
    pc,         \* step of the calling goroutine
    launched,   \* workers started so far
    sem,        \* tokens in the semaphore channel
    w,          \* step of each worker
    firstErr,   \* some function failed: firstErr, or mapErrors is not empty
    results,    \* what the workers have stored: by position, in order of arrival in Filter
    mapOutput,  \* contents of the channel
    closer,     \* step of the goroutine that closes mapOutput
    acc,        \* the items reduced so far
    reduceErr,  \* reduceFunc failed
    cancelled,  \* the context is done
    ret         \* the error and the value returned

work == <<launched, sem, w, firstErr, results>>
mapReduceVars == <<helper, len, pc, work, mapOutput, closer, acc, reduceErr, cancelled, ret>>

-----------------------------------------------------------------------------
\* Mutant: the last, shorter partition is left out.
MutUnitCount == IF helper = "Partition" THEN len \div PartitionSize ELSE len

\* Partition cuts the source in slices of PartitionSize; elsewhere an item is a unit.
UnitCount == IF helper = "Partition" THEN (len + PartitionSize - 1) \div PartitionSize ELSE len

Unit(i) ==
    IF helper = "Partition"
      THEN {x \in 1..len : (i - 1) * PartitionSize < x /\ x <= i * PartitionSize}
      ELSE {i}

MapReduceInit ==
    /\ helper \in Helpers
    /\ len \in 0..MaxLen
    /\ pc = IF helper = "Reduce" THEN "fold" ELSE "launch"
    /\ launched = 0
    /\ sem = 0
    /\ w = [i \in 1..MaxLen |-> "none"]
    /\ firstErr = FALSE
    /\ results = IF helper \in {"Map", "FlatMap"} THEN [i \in 1..len |-> 0] ELSE <<>>
    /\ mapOutput = <<>>
    /\ closer = "none"
    /\ acc = <<>>
    /\ reduceErr = FALSE
    /\ cancelled = FALSE
    /\ ret = [err |-> "none", val |-> <<>>]

Return(err, val) ==
    /\ pc' = "returned"
    /\ ret' = [err |-> err, val |-> val]

-----------------------------------------------------------------------------
(* The calling goroutine. *)

\* Mutant: the worker is started before the semaphore is acquired.
MutLaunch ==
    /\ pc = "launch"
    /\ launched < UnitCount
    /\ sem' = sem + 1
    /\ launched' = launched + 1
    /\ w' = [w EXCEPT ![launched + 1] = "run"]
    /\ UNCHANGED <<helper, len, pc, firstErr, results, mapOutput, closer, acc, reduceErr,
                   cancelled, ret>>

\* sem <- struct{}{}; wg.Add(1); go func
Launch ==
    /\ pc = "launch"
    /\ launched < UnitCount
    /\ sem < Concurrency
    /\ sem' = sem + 1
    /\ launched' = launched + 1
    /\ w' = [w EXCEPT ![launched + 1] = "run"]
    /\ UNCHANGED <<helper, len, pc, firstErr, results, mapOutput, closer, acc, reduceErr,
                   cancelled, ret>>

\* The select of the launch loop takes ctx.Done, even if the semaphore is free.
LaunchCancelled ==
    /\ pc = "launch"
    /\ launched < UnitCount
    /\ cancelled
    /\ Return("ctx", <<>>)
    /\ UNCHANGED <<helper, len, work, mapOutput, closer, acc, reduceErr, cancelled>>

\* Every worker is started: MapReduce starts the closing goroutine and reduces,
\* the others wait for the group.
LaunchEnds ==
    /\ pc = "launch"
    /\ launched = UnitCount
    /\ IF helper = "MapReduce"
         THEN pc' = "reduce" /\ closer' = "waiting"
         ELSE pc' = "wait" /\ UNCHANGED closer
    /\ UNCHANGED <<helper, len, work, mapOutput, acc, reduceErr, cancelled, ret>>

\* wg.Wait()
GroupDone == \A i \in 1..MaxLen : w[i] \in {"none", "gone"}

\* Map, Filter, ForEach and Partition return what there is with the first error,
\* FlatMap nothing.
WaitEnds ==
    /\ pc = "wait"
    /\ GroupDone
    /\ Return(IF firstErr THEN "func" ELSE "none",
              IF firstErr /\ helper = "FlatMap" THEN <<>> ELSE results)
    /\ UNCHANGED <<helper, len, work, mapOutput, closer, acc, reduceErr, cancelled>>

\* range mapOutput: an item is reduced, or reduceFunc fails and the loop is left.
ReduceItem ==
    /\ pc = "reduce"
    /\ mapOutput # <<>>
    /\ mapOutput' = Tail(mapOutput)
    /\ acc' = Append(acc, Head(mapOutput))
    /\ \/ UNCHANGED <<pc, reduceErr>>
       \/ pc' = "collect" /\ reduceErr' = TRUE
    /\ UNCHANGED <<helper, len, work, closer, cancelled, ret>>

ReduceEnds ==
    /\ pc = "reduce"
    /\ mapOutput = <<>>
    /\ closer = "closed"
    /\ pc' = "collect"
    /\ UNCHANGED <<helper, len, work, mapOutput, closer, acc, reduceErr, cancelled, ret>>

\* The first map error wins over the reduce error.  mapErrors is read without its
\* mutex: after the closed channel that is safe, but a reducer that failed has
\* not waited for the workers and may miss their errors.
Collect ==
    /\ pc = "collect"
    /\ \/ firstErr /\ Return("func", acc)
       \/ reduceErr /\ Return("reduce", acc)
       \/ ~firstErr /\ ~reduceErr /\ Return("none", acc)
    /\ UNCHANGED <<helper, len, work, mapOutput, closer, acc, reduceErr, cancelled>>

\* Reduce: one turn of its loop; ctx.Done is preferred when it is ready.
FoldItem ==
    /\ pc = "fold"
    /\ IF Len(acc) = len THEN Return("none", acc) /\ UNCHANGED acc
       ELSE IF cancelled THEN Return("ctx", acc) /\ UNCHANGED acc
       ELSE /\ acc' = Append(acc, Len(acc) + 1)
            /\ UNCHANGED <<pc, ret>> \/ Return("reduce", acc')
    /\ UNCHANGED <<helper, len, work, mapOutput, closer, reduceErr, cancelled>>

-----------------------------------------------------------------------------
(* Worker i. *)

Step(i, next) == w' = [w EXCEPT ![i] = next]

\* The caller's function fails; the error is recorded under errOnce or mapErrMu.
RunFails(i) ==
    /\ w[i] = "run"
    /\ firstErr' = TRUE
    /\ Step(i, "release")
    /\ UNCHANGED <<helper, len, pc, launched, sem, results, mapOutput, closer, acc, reduceErr,
                   cancelled, ret>>

\* The caller's function returns a result, which is stored: by position in Map and
\* FlatMap, in order of arrival in Filter; MapReduce has still to send it.
MapperReturns(i) ==
    /\ w[i] = "run"
    /\ Step(i, IF helper = "MapReduce" THEN "send" ELSE "release")
    /\ results' = CASE helper \in {"Map", "FlatMap"} -> [results EXCEPT ![i] = i]
                    [] helper = "Filter" /\ i \in Accepted -> Append(results, i)
                    [] OTHER -> results
    /\ UNCHANGED <<helper, len, pc, launched, sem, firstErr, mapOutput, closer, acc, reduceErr,
                   cancelled, ret>>

\* mapOutput <- result
SendOutput(i) ==
    /\ w[i] = "send"
    /\ Len(mapOutput) < OutputSize
    /\ mapOutput' = Append(mapOutput, i)
    /\ Step(i, "release")
    /\ UNCHANGED <<helper, len, pc, launched, sem, firstErr, results, closer, acc, reduceErr,
                   cancelled, ret>>

\* The select around the send takes ctx.Done: the result is dropped.
SendCancelled(i) ==
    /\ w[i] = "send"
    /\ cancelled
    /\ Step(i, "release")
    /\ UNCHANGED <<helper, len, pc, launched, sem, firstErr, results, mapOutput, closer, acc,
                   reduceErr, cancelled, ret>>

\* Mutant: the worker leaves without giving the semaphore back.
MutRelease(i) ==
    /\ w[i] = "release"
    /\ Step(i, "leave")
    /\ UNCHANGED <<helper, len, pc, launched, sem, firstErr, results, mapOutput, closer, acc,
                   reduceErr, cancelled, ret>>

\* The deferred calls, last first: <-sem, then wg.Done.
Release(i) ==
    /\ w[i] = "release"
    /\ sem' = sem - 1
    /\ Step(i, "leave")
    /\ UNCHANGED <<helper, len, pc, launched, firstErr, results, mapOutput, closer, acc,
                   reduceErr, cancelled, ret>>

Leave(i) ==
    /\ w[i] = "leave"
    /\ Step(i, "gone")
    /\ UNCHANGED <<helper, len, pc, launched, sem, firstErr, results, mapOutput, closer, acc,
                   reduceErr, cancelled, ret>>

\* Mutant: the channel is closed once the last worker is started.
MutClose ==
    /\ closer = "waiting"
    /\ closer' = "closed"
    /\ UNCHANGED <<helper, len, pc, work, mapOutput, acc, reduceErr, cancelled, ret>>

\* The goroutine that waits for the group and closes mapOutput.
Close ==
    /\ closer = "waiting"
    /\ GroupDone
    /\ closer' = "closed"
    /\ UNCHANGED <<helper, len, pc, work, mapOutput, acc, reduceErr, cancelled, ret>>

\* The context of the call is cancelled, or its deadline passes.
Cancel ==
    /\ ~cancelled
    /\ cancelled' = TRUE
    /\ UNCHANGED <<helper, len, pc, work, mapOutput, closer, acc, reduceErr, ret>>

-----------------------------------------------------------------------------
Caller == \/ Launch \/ LaunchCancelled \/ LaunchEnds \/ WaitEnds
          \/ ReduceItem \/ ReduceEnds \/ Collect \/ FoldItem

Worker(i) == \/ RunFails(i) \/ MapperReturns(i) \/ SendOutput(i) \/ SendCancelled(i)
             \/ Release(i) \/ Leave(i)

MapReduceNext ==
    \/ Caller
    \/ \E i \in 1..MaxLen : Worker(i)
    \/ Close
    \/ Cancel

MapReduceSpec == MapReduceInit /\ [][MapReduceNext]_mapReduceVars

-----------------------------------------------------------------------------
MapReduceTypeOK ==
    /\ helper \in Helpers
    /\ len \in 0..MaxLen
    /\ pc \in {"launch", "wait", "reduce", "collect", "fold", "returned"}
    /\ launched \in 0..UnitCount
    /\ sem \in 0..Concurrency
    /\ w \in [1..MaxLen -> {"none", "run", "send", "release", "leave", "gone"}]
    /\ firstErr \in BOOLEAN
    /\ results \in Seq(0..MaxLen)
    /\ mapOutput \in Seq(1..MaxLen) /\ Len(mapOutput) <= OutputSize
    /\ closer \in {"none", "waiting", "closed"}
    /\ acc \in Seq(1..MaxLen)
    /\ reduceErr \in BOOLEAN
    /\ cancelled \in BOOLEAN
    /\ ret \in [err : {"none", "ctx", "func", "reduce"}, val : Seq(0..MaxLen)]

\* Every element of S occurs in s exactly once, and nothing else does.
Enumerates(s, S) ==
    /\ Len(s) = Cardinality(S)
    /\ \A x \in S : \E k \in 1..Len(s) : s[k] = x

\* Never more than Concurrency calls of the user's function at once, through
\* failures, cancellation and the end of the launching loop.
ConcurrencyBounded == Cardinality({i \in 1..MaxLen : w[i] = "run"}) <= Concurrency

\* A call that returns no error has processed every item exactly once, and nothing
\* is still running.  Map, FlatMap and Reduce keep the order of the source, Filter
\* and MapReduce do not.  MapReduce alone may lose items without an error, when its
\* context is cancelled after the last worker was started.
CompleteOnSuccess ==
    pc = "returned" /\ ret.err = "none" /\ (helper = "MapReduce" => ~cancelled) =>
        /\ GroupDone
        /\ helper \in {"Map", "FlatMap", "Reduce"} => ret.val = [i \in 1..len |-> i]
        /\ helper = "MapReduce" => Enumerates(ret.val, 1..len)
        /\ helper = "Filter" => Enumerates(ret.val, Accepted \cap 1..len)
        /\ helper # "Reduce" =>
              \A x \in 1..len : \E i \in 1..MaxLen : w[i] = "gone" /\ x \in Unit(i)

\* An error of the user's function is never swallowed: a call that returns without
\* an error leaves no failed worker, and none that could fail later.
NoErrorSwallowed ==
    pc = "returned" /\ ret.err = "none" => ~firstErr /\ GroupDone

Blocked(i) == w[i] = "send" /\ Len(mapOutput) >= OutputSize

\* The launching loop waits for the semaphore and nobody will give it back.
Stuck ==
    /\ pc = "launch" /\ launched < UnitCount /\ sem >= Concurrency /\ ~cancelled
    /\ \A i \in 1..MaxLen : w[i] \in {"none", "gone"} \/ Blocked(i)

\* MapReduce starts all its workers before it reduces.  Without a cancelled context
\* it can only wait for itself when the source is longer than buffer and semaphore
\* together; no other helper can.
StuckOnlyBeyondCapacity ==
    Stuck => helper = "MapReduce" /\ len > OutputSize + Concurrency

\* Within that capacity every helper returns, whether or not functions fail and
\* whether or not its context is ever cancelled; and workers do not outlive the
\* call for ever, unless reduceFunc failed and nobody empties the channel any more.
Terminates ==
    /\ (helper = "MapReduce" => len <= OutputSize + Concurrency) ~> pc = "returned"
    /\ (pc = "returned" /\ ~reduceErr) ~> GroupDone
=============================================================================
