--------------------------- MODULE MapReduceProofs ---------------------------
(***************************************************************************)
(* Safety of the concurrent helpers of MapReduce for every source length,  *)
(* concurrency, buffer and partition size.                                 *)
(***************************************************************************)
EXTENDS MapReduce, FiniteSetTheorems, SequenceTheorems, TLAPS

\* Workers with a token of the semaphore, and workers that are done with mapOutput.
Holding == {i \in 1..MaxLen : w[i] \in {"run", "send", "release"}}
Past == {i \in 1..MaxLen : w[i] \in {"release", "leave", "gone"}}

\* The semaphore counts the workers that hold it; workers are started in order;
\* each item in the channel was put there by a worker that is past its send.
Tokens == sem = Cardinality(Holding)
Started == \A i \in 1..MaxLen : w[i] # "none" => i <= launched
Buffered == Len(mapOutput) <= Cardinality(Past)
Senders == \A i \in 1..MaxLen : w[i] = "send" => helper = "MapReduce"

Counts == Tokens /\ Started /\ Buffered /\ Senders

\* How far the calling goroutine is determines what may still run.
Phases ==
    /\ closer # "none" => pc \in {"reduce", "collect", "returned"}
    /\ closer = "closed" => GroupDone
    /\ pc = "collect" /\ ~reduceErr => closer = "closed"
    /\ pc = "fold" => GroupDone /\ ~firstErr /\ Len(acc) <= len
    /\ pc = "returned" /\ ret.err = "none" => GroupDone /\ ~firstErr

MRInv == MapReduceTypeOK /\ Counts /\ Phases

-----------------------------------------------------------------------------
\* There are at most as many partitions as items.
LEMMA PartitionsBounded ==
    ASSUME NEW n \in Nat, NEW k \in Nat \ {0}
    PROVE  (n + k - 1) \div k \in 0..n
<1> DEFINE q == (n + k - 1) \div k
<1>1. q \in Int /\ k * q <= n + k - 1 /\ n + k - 1 < k * q + k
  OBVIOUS
<1>2. 0 <= q
  <2>1. SUFFICES ASSUME q <= 0 - 1 PROVE FALSE
    BY <1>1
  <2>2. PICK d \in Nat : q = 0 - 1 - d
    <3>1. 0 - 1 - q \in Nat /\ q = 0 - 1 - (0 - 1 - q)
      BY <1>1, <2>1
    <3>2. QED
      BY <3>1
  <2> HIDE DEF q
  <2>3. k * q = 0 - k - k * d /\ k * d \in Nat
    BY <2>2
  <2>4. QED
    BY <1>1, <2>3
<1>3. q <= n
  <2>1. SUFFICES ASSUME n + 1 <= q PROVE FALSE
    BY <1>1
  <2>2. PICK d \in Nat : q = n + 1 + d
    <3>1. q - n - 1 \in Nat /\ q = n + 1 + (q - n - 1)
      BY <1>1, <2>1
    <3>2. QED
      BY <3>1
  <2>3. PICK e \in Nat : k = e + 1
    <3>1. k - 1 \in Nat /\ k = (k - 1) + 1
      OBVIOUS
    <3>2. QED
      BY <3>1
  <2> HIDE DEF q
  <2>4. k * q = n + 1 + d + e * n + e + e * d /\ e * n \in Nat /\ e * d \in Nat
    BY <2>2, <2>3
  <2>5. QED
    BY <1>1, <2>3, <2>4
<1>4. QED
  BY <1>1, <1>2, <1>3

\* Storing a result leaves a sequence of results.
LEMMA SeqUpdate ==
    ASSUME NEW S, NEW s \in Seq(S), NEW k, NEW x \in S
    PROVE  [s EXCEPT ![k] = x] \in Seq(S)
<1>1. PICK n \in Nat : s \in [1..n -> S]
  BY SeqDef
<1>2. [s EXCEPT ![k] = x] \in [1..n -> S]
  BY <1>1
<1>3. QED
  BY <1>2, SeqDef

LEMMA UnitsBounded == MapReduceTypeOK => UnitCount \in Nat /\ UnitCount <= len /\ len <= MaxLen
<1> SUFFICES ASSUME MapReduceTypeOK PROVE UnitCount \in Nat /\ UnitCount <= len /\ len <= MaxLen
  OBVIOUS
<1>1. len \in Nat /\ len <= MaxLen /\ PartitionSize \in Nat \ {0}
  BY OptionsAssumption DEF MapReduceTypeOK
<1>2. (len + PartitionSize - 1) \div PartitionSize \in 0..len
  BY <1>1, PartitionsBounded
<1>3. QED
  BY <1>1, <1>2 DEF UnitCount

LEMMA WorkerSetsFinite == IsFiniteSet(Holding) /\ IsFiniteSet(Past)
<1>1. IsFiniteSet(1..MaxLen)
  BY FS_Interval, OptionsAssumption
<1>2. Holding \in SUBSET (1..MaxLen) /\ Past \in SUBSET (1..MaxLen)
  BY DEF Holding, Past
<1>3. QED
  BY <1>1, <1>2, FS_Subset

\* A worker moves by changing its own entry of w.
LEMMA WorkerMoves ==
    ASSUME MapReduceTypeOK, NEW i \in 1..MaxLen, Worker(i)
    PROVE  \E s \in {"send", "release", "leave", "gone"} :
              /\ w' = [w EXCEPT ![i] = s]
              /\ w'[i] = s
              /\ \A j \in 1..MaxLen : j # i => w'[j] = w[j]
<1>1. w \in [1..MaxLen -> {"none", "run", "send", "release", "leave", "gone"}]
  BY DEF MapReduceTypeOK
<1>2. QED
  BY <1>1 DEF Worker, RunFails, MapperReturns, SendOutput, SendCancelled, Release, Leave, Step

\* The two sets grow and shrink one worker at a time.
LEMMA HoldingChanges ==
    ASSUME NEW i,
           \/ Holding' = Holding /\ sem' = sem
           \/ i \notin Holding /\ Holding' = Holding \cup {i} /\ sem' = sem + 1
           \/ i \in Holding /\ Holding' = Holding \ {i} /\ sem' = sem - 1,
           Tokens
    PROVE  Tokens'
<1>1. Cardinality(Holding) \in Nat
  BY WorkerSetsFinite, FS_CardinalityType
<1>2. CASE Holding' = Holding /\ sem' = sem
  BY <1>2 DEF Tokens
<1>3. CASE i \notin Holding /\ Holding' = Holding \cup {i} /\ sem' = sem + 1
  <2>1. Cardinality(Holding \cup {i}) = Cardinality(Holding) + 1
    BY <1>3, WorkerSetsFinite, FS_AddElement
  <2>2. QED
    BY <1>3, <2>1 DEF Tokens
<1>4. CASE i \in Holding /\ Holding' = Holding \ {i} /\ sem' = sem - 1
  <2>1. Cardinality(Holding \ {i}) = Cardinality(Holding) - 1
    BY <1>4, WorkerSetsFinite, FS_RemoveElement
  <2>2. QED
    BY <1>4, <2>1 DEF Tokens
<1>5. QED
  BY <1>2, <1>3, <1>4

LEMMA PastGrows ==
    ASSUME NEW i, i \notin Past, Past' = Past \cup {i},
           Len(mapOutput) \in Nat,
           Len(mapOutput') = Len(mapOutput) \/ Len(mapOutput') = Len(mapOutput) + 1,
           Buffered
    PROVE  Buffered'
<1>1. Cardinality(Past) \in Nat /\ Cardinality(Past \cup {i}) = Cardinality(Past) + 1
  BY WorkerSetsFinite, FS_CardinalityType, FS_AddElement
<1>2. QED
  BY <1>1 DEF Buffered

LEMMA PastKept ==
    ASSUME Past' = Past, Len(mapOutput) \in Nat, Len(mapOutput') \in Nat,
           Len(mapOutput') <= Len(mapOutput), Buffered
    PROVE  Buffered'
<1>1. Cardinality(Past) \in Nat
  BY WorkerSetsFinite, FS_CardinalityType
<1>2. QED
  BY <1>1 DEF Buffered

-----------------------------------------------------------------------------
LEMMA InitInv == MapReduceInit => MRInv
<1> SUFFICES ASSUME MapReduceInit PROVE MRInv
  OBVIOUS
<1>1. len \in Nat /\ len <= MaxLen /\ helper \in Helpers
  BY OptionsAssumption DEF MapReduceInit
<1>2. results \in Seq(0..MaxLen)
  <2>1. CASE helper \in {"Map", "FlatMap"}
    BY <1>1, <2>1, OptionsAssumption DEF MapReduceInit
  <2>2. CASE helper \notin {"Map", "FlatMap"}
    BY <2>2 DEF MapReduceInit
  <2>3. QED
    BY <2>1, <2>2
<1>3. UnitCount \in Nat
  <2>1. (len + PartitionSize - 1) \div PartitionSize \in 0..len
    BY <1>1, PartitionsBounded, OptionsAssumption
  <2>2. QED
    BY <1>1, <2>1 DEF UnitCount
<1>4. MapReduceTypeOK
  <2>1. launched \in 0..UnitCount /\ sem \in 0..Concurrency
    BY <1>3, OptionsAssumption DEF MapReduceInit
  <2>2. mapOutput \in Seq(1..MaxLen) /\ Len(mapOutput) <= OutputSize /\ acc \in Seq(1..MaxLen)
    BY OptionsAssumption DEF MapReduceInit
  <2>3. ret \in [err : {"none", "ctx", "func", "reduce"}, val : Seq(0..MaxLen)]
    BY DEF MapReduceInit
  <2>4. pc \in {"launch", "wait", "reduce", "collect", "fold", "returned"}
    BY DEF MapReduceInit
  <2>5. QED
    BY <1>1, <1>2, <2>1, <2>2, <2>3, <2>4 DEF MapReduceInit, MapReduceTypeOK
<1>5. Counts
  <2>1. Holding = {} /\ Past = {}
    BY DEF MapReduceInit, Holding, Past
  <2>2. Cardinality({}) = 0
    BY FS_EmptySet
  <2>3. QED
    BY <2>1, <2>2 DEF MapReduceInit, Counts, Tokens, Started, Buffered, Senders
<1>6. Phases
  BY <1>1 DEF MapReduceInit, Phases, GroupDone
<1>7. QED
  BY <1>4, <1>5, <1>6 DEF MRInv

\* The calling goroutine keeps the types.
LEMMA CallerType ==
    ASSUME MRInv, Caller
    PROVE  MapReduceTypeOK'
<1>0. MapReduceTypeOK /\ UnitCount \in Nat /\ UnitCount <= MaxLen /\ len \in Nat /\ MaxLen \in Nat /\ Concurrency \in Nat
  BY UnitsBounded, OptionsAssumption DEF MRInv, MapReduceTypeOK
<1>1. CASE Launch
  BY <1>0, <1>1 DEF Launch, MapReduceTypeOK, UnitCount
<1>2. CASE LaunchCancelled
  BY <1>0, <1>2 DEF LaunchCancelled, Return, MapReduceTypeOK, UnitCount, work
<1>3. CASE LaunchEnds
  BY <1>0, <1>3 DEF LaunchEnds, MapReduceTypeOK, UnitCount, work
<1>4. CASE WaitEnds
  <2>1. ret' \in [err : {"none", "ctx", "func", "reduce"}, val : Seq(0..MaxLen)]
    <3>1. CASE firstErr /\ helper = "FlatMap"
      BY <1>4, <3>1 DEF WaitEnds, Return
    <3>2. CASE firstErr /\ helper # "FlatMap"
      BY <1>0, <1>4, <3>2 DEF WaitEnds, Return, MapReduceTypeOK
    <3>3. CASE ~firstErr
      BY <1>0, <1>4, <3>3 DEF WaitEnds, Return, MapReduceTypeOK
    <3>4. QED
      BY <3>1, <3>2, <3>3
  <2>2. QED
    BY <1>0, <1>4, <2>1 DEF WaitEnds, Return, MapReduceTypeOK, UnitCount, work
<1>5. CASE ReduceItem
  <2>1. /\ Head(mapOutput) \in 1..MaxLen /\ mapOutput' \in Seq(1..MaxLen)
        /\ Len(mapOutput') <= OutputSize
    BY <1>0, <1>5, OptionsAssumption DEF ReduceItem, MapReduceTypeOK
  <2>2. acc' \in Seq(1..MaxLen)
    BY <1>0, <1>5, <2>1 DEF ReduceItem, MapReduceTypeOK
  <2>3. QED
    BY <1>0, <1>5, <2>1, <2>2 DEF ReduceItem, MapReduceTypeOK, UnitCount, work
<1>6. CASE ReduceEnds
  BY <1>0, <1>6 DEF ReduceEnds, MapReduceTypeOK, UnitCount, work
<1>7. CASE Collect
  <2>1. acc \in Seq(0..MaxLen)
    BY <1>0 DEF MapReduceTypeOK
  <2>2. QED
    BY <1>0, <1>7, <2>1 DEF Collect, Return, MapReduceTypeOK, UnitCount, work
<1>8. CASE FoldItem
  <2>1. acc \in Seq(0..MaxLen)
    BY <1>0 DEF MapReduceTypeOK
  <2>2. CASE Len(acc) = len \/ cancelled
    BY <1>0, <1>8, <2>1, <2>2 DEF FoldItem, Return, MapReduceTypeOK, UnitCount, work
  <2>3. CASE Len(acc) # len /\ ~cancelled
    <3>1. Len(acc) + 1 \in 1..MaxLen
      BY <1>0, <1>8, <2>3 DEF FoldItem, MRInv, Phases, MapReduceTypeOK
    <3>2. acc' \in Seq(1..MaxLen) /\ acc' \in Seq(0..MaxLen)
      <4>1. acc' = Append(acc, Len(acc) + 1)
        BY <1>8, <2>3 DEF FoldItem
      <4>2. acc \in Seq(1..MaxLen) /\ Len(acc) + 1 \in 0..MaxLen
        BY <1>0, <3>1 DEF MapReduceTypeOK
      <4>3. QED
        BY <2>1, <3>1, <4>1, <4>2
    <3>3. QED
      BY <1>0, <1>8, <2>3, <3>2 DEF FoldItem, Return, MapReduceTypeOK, UnitCount, work
  <2>4. QED
    BY <2>2, <2>3
<1>9. QED
  BY <1>1, <1>2, <1>3, <1>4, <1>5, <1>6, <1>7, <1>8 DEF Caller

\* A worker keeps the types.
LEMMA WorkerType ==
    ASSUME MRInv, NEW i \in 1..MaxLen, Worker(i)
    PROVE  MapReduceTypeOK'
<1>0. MapReduceTypeOK /\ MaxLen \in Nat /\ Concurrency \in Nat /\ OutputSize \in Nat
  BY OptionsAssumption DEF MRInv
<1>1. w' \in [1..MaxLen -> {"none", "run", "send", "release", "leave", "gone"}]
  BY <1>0, WorkerMoves DEF MapReduceTypeOK
<1>2. CASE RunFails(i)
  BY <1>0, <1>1, <1>2 DEF RunFails, MapReduceTypeOK, UnitCount
<1>3. CASE MapperReturns(i)
  <2>1. results' \in Seq(0..MaxLen)
    <3>1. CASE helper \in {"Map", "FlatMap"}
      <4>1. results' = [results EXCEPT ![i] = i]
        BY <1>3, <3>1 DEF MapperReturns
      <4>2. results \in Seq(0..MaxLen) /\ i \in 0..MaxLen
        BY <1>0 DEF MapReduceTypeOK
      <4>3. QED
        BY <4>1, <4>2, SeqUpdate
    <3>2. CASE helper = "Filter" /\ i \in Accepted
      <4>1. results' = Append(results, i)
        BY <1>3, <3>2 DEF MapperReturns
      <4>2. QED
        BY <1>0, <4>1 DEF MapReduceTypeOK
    <3>3. CASE helper \notin {"Map", "FlatMap"} /\ ~(helper = "Filter" /\ i \in Accepted)
      BY <1>0, <1>3, <3>3 DEF MapperReturns, MapReduceTypeOK
    <3>4. QED
      BY <3>1, <3>2, <3>3
  <2>2. QED
    BY <1>0, <1>1, <1>3, <2>1 DEF MapperReturns, MapReduceTypeOK, UnitCount
<1>4. CASE SendOutput(i)
  <2>1. mapOutput' \in Seq(1..MaxLen) /\ Len(mapOutput') <= OutputSize
    BY <1>0, <1>4 DEF SendOutput, MapReduceTypeOK
  <2>2. QED
    BY <1>0, <1>1, <1>4, <2>1 DEF SendOutput, MapReduceTypeOK, UnitCount
<1>5. CASE SendCancelled(i)
  BY <1>0, <1>1, <1>5 DEF SendCancelled, MapReduceTypeOK, UnitCount
<1>6. CASE Release(i)
  <2>1. sem' \in 0..Concurrency
    <3>1. i \in Holding
      BY <1>6 DEF Release, Holding
    <3>2. Cardinality(Holding) # 0
      BY <3>1, WorkerSetsFinite, FS_EmptySet
    <3>3. QED
      BY <1>0, <1>6, <3>2 DEF Release, MapReduceTypeOK, MRInv, Counts, Tokens
  <2>2. QED
    BY <1>0, <1>1, <1>6, <2>1 DEF Release, MapReduceTypeOK, UnitCount
<1>7. CASE Leave(i)
  BY <1>0, <1>1, <1>7 DEF Leave, MapReduceTypeOK, UnitCount
<1>8. QED
  BY <1>2, <1>3, <1>4, <1>5, <1>6, <1>7 DEF Worker

\* Starting a worker adds one token and one holder.
LEMMA LaunchCounts ==
    ASSUME MRInv, Launch
    PROVE  Counts'
<1> DEFINE n == launched + 1
<1>1. /\ MapReduceTypeOK /\ n \in 1..MaxLen /\ launched \in Nat
      /\ \A j \in 1..MaxLen : j # n => w'[j] = w[j]
      /\ w[n] = "none" /\ w'[n] = "run"
  <2>1. MapReduceTypeOK /\ launched \in Nat /\ n \in 1..MaxLen
    BY UnitsBounded, OptionsAssumption DEF MRInv, Launch, MapReduceTypeOK
  <2>2. w[n] = "none"
    BY <2>1 DEF MRInv, Counts, Started
  <2>3. QED
    BY <2>1, <2>2 DEF Launch, MapReduceTypeOK
<1>2. Tokens'
  <2>1. n \notin Holding /\ Holding' = Holding \cup {n}
    BY <1>1 DEF Holding
  <2>2. QED
    BY <2>1, HoldingChanges DEF Launch, MRInv, Counts
<1>3. Started'
  BY <1>1 DEF Started, MRInv, Counts, Launch
<1>4. Buffered'
  <2>1. Past' = Past
    BY <1>1 DEF Past
  <2>2. Len(mapOutput) \in Nat /\ mapOutput' = mapOutput
    BY <1>1 DEF MapReduceTypeOK, Launch
  <2>3. QED
    BY <2>1, <2>2, PastKept DEF MRInv, Counts
<1>5. Senders'
  BY <1>1 DEF Senders, MRInv, Counts, Launch
<1>6. QED
  BY <1>2, <1>3, <1>4, <1>5 DEF Counts

\* The other steps of the calling goroutine, and those of the closing goroutine and
\* of the context, start nobody and at most empty the channel.
LEMMA OtherCounts ==
    ASSUME MRInv, helper' = helper, w' = w, sem' = sem, launched' = launched,
           mapOutput' = mapOutput \/ (mapOutput # <<>> /\ mapOutput' = Tail(mapOutput))
    PROVE  Counts'
<1>1. Holding' = Holding /\ Past' = Past
  BY DEF Holding, Past
<1>2. mapOutput \in Seq(1..MaxLen)
  BY DEF MRInv, MapReduceTypeOK
<1>3. Len(mapOutput) \in Nat /\ Len(mapOutput') \in Nat /\ Len(mapOutput') <= Len(mapOutput)
  BY <1>2
<1>4. Buffered'
  BY <1>1, <1>3, PastKept DEF MRInv, Counts
<1>5. QED
  BY <1>1, <1>4 DEF MRInv, Counts, Tokens, Started, Senders

LEMMA CallerCounts ==
    ASSUME MRInv, Caller
    PROVE  Counts'
<1>1. CASE Launch
  BY <1>1, LaunchCounts
<1>2. CASE ~Launch
  <2>1. /\ helper' = helper /\ w' = w /\ sem' = sem /\ launched' = launched
        /\ mapOutput' = mapOutput \/ (mapOutput # <<>> /\ mapOutput' = Tail(mapOutput))
    BY <1>2 DEF Caller, LaunchCancelled, LaunchEnds, WaitEnds, ReduceItem, ReduceEnds,
                Collect, FoldItem, work
  <2>2. QED
    BY <2>1, OtherCounts
<1>3. QED
  BY <1>1, <1>2

\* A worker gives its token back once, and its item enters the channel at most once.
LEMMA WorkerCounts ==
    ASSUME MRInv, NEW i \in 1..MaxLen, Worker(i)
    PROVE  Counts'
<1>0. /\ MapReduceTypeOK /\ Counts
      /\ w \in [1..MaxLen -> {"none", "run", "send", "release", "leave", "gone"}]
      /\ mapOutput \in Seq(1..MaxLen) /\ Len(mapOutput) \in Nat
  BY DEF MRInv, MapReduceTypeOK
<1>1. PICK s \in {"send", "release", "leave", "gone"} :
         /\ w' = [w EXCEPT ![i] = s] /\ w'[i] = s
         /\ \A j \in 1..MaxLen : j # i => w'[j] = w[j]
  BY <1>0, WorkerMoves
<1>2. w[i] \in {"run", "send", "release", "leave"} /\ launched' = launched /\ helper' = helper
  BY DEF Worker, RunFails, MapperReturns, SendOutput, SendCancelled, Release, Leave
<1>3. Started'
  BY <1>0, <1>1, <1>2 DEF Counts, Started
<1>4. Senders'
  <2>1. s = "send" => helper = "MapReduce"
    BY <1>0, <1>1 DEF Worker, RunFails, MapperReturns, SendOutput, SendCancelled, Release, Leave, Step
  <2>2. QED
    BY <1>0, <1>1, <1>2, <2>1 DEF Counts, Senders
<1>5. Tokens'
  <2>1. CASE Release(i)
    <3>1. w[i] = "release" /\ s = "leave" /\ sem' = sem - 1
      BY <1>0, <1>1, <2>1 DEF Release, Step
    <3>2. i \in Holding /\ Holding' = Holding \ {i}
      BY <1>1, <3>1 DEF Holding
    <3>3. QED
      BY <1>0, <3>1, <3>2, HoldingChanges DEF Counts
  <2>2. CASE ~Release(i)
    <3>1. /\ sem' = sem
          /\ \/ w[i] \in {"run", "send"} /\ s \in {"send", "release"}
             \/ w[i] = "leave" /\ s = "gone"
      BY <1>0, <1>1, <2>2 DEF Worker, RunFails, MapperReturns, SendOutput, SendCancelled, Leave, Step
    <3>2. Holding' = Holding
      BY <1>1, <3>1 DEF Holding
    <3>3. QED
      BY <1>0, <3>1, <3>2, HoldingChanges DEF Counts
  <2>3. QED
    BY <2>1, <2>2
<1>6. Buffered'
  <2>1. CASE s = "release"
    <3>1. w[i] \in {"run", "send"}
      BY <1>0, <1>1, <2>1 DEF Worker, RunFails, MapperReturns, SendOutput, SendCancelled, Release, Leave, Step
    <3>2. i \notin Past /\ Past' = Past \cup {i}
      BY <1>1, <2>1, <3>1 DEF Past
    <3>3. mapOutput' = mapOutput \/ mapOutput' = Append(mapOutput, i)
      BY DEF Worker, RunFails, MapperReturns, SendOutput, SendCancelled, Release, Leave
    <3>4. Len(mapOutput') = Len(mapOutput) \/ Len(mapOutput') = Len(mapOutput) + 1
      BY <1>0, <3>3
    <3>5. QED
      BY <1>0, <3>2, <3>4, PastGrows DEF Counts
  <2>2. CASE s # "release"
    <3>1. /\ mapOutput' = mapOutput
          /\ \/ w[i] = "run" /\ s = "send"
             \/ w[i] \in {"release", "leave"} /\ s \in {"leave", "gone"}
      BY <1>0, <1>1, <2>2 DEF Worker, RunFails, MapperReturns, SendOutput, SendCancelled, Release, Leave, Step
    <3>2. Past' = Past
      BY <1>1, <3>1 DEF Past
    <3>3. QED
      BY <1>0, <3>1, <3>2, PastKept DEF Counts
  <2>3. QED
    BY <2>1, <2>2
<1>7. QED
  BY <1>3, <1>4, <1>5, <1>6 DEF Counts

\* Whoever still runs does so before the group is done.
LEMMA WorkerPhases ==
    ASSUME MRInv, NEW i \in 1..MaxLen, Worker(i)
    PROVE  Phases'
<1>1. ~GroupDone
  BY DEF GroupDone, Worker, RunFails, MapperReturns, SendOutput, SendCancelled, Release, Leave
<1>2. pc' = pc /\ closer' = closer /\ reduceErr' = reduceErr /\ ret' = ret
  BY DEF Worker, RunFails, MapperReturns, SendOutput, SendCancelled, Release, Leave
<1>3. QED
  BY <1>1, <1>2 DEF MRInv, Phases

LEMMA CallerPhases ==
    ASSUME MRInv, Caller
    PROVE  Phases'
<1>0. Phases /\ MapReduceTypeOK /\ Len(acc) \in Nat /\ len \in Nat
  BY OptionsAssumption DEF MRInv, MapReduceTypeOK
<1>1. CASE Launch
  <2>1. pc' = "launch" /\ closer' = "none"
    BY <1>0, <1>1 DEF Launch, Phases, MapReduceTypeOK
  <2>2. QED
    BY <2>1 DEF Phases
<1>2. CASE LaunchCancelled
  BY <1>0, <1>2 DEF LaunchCancelled, Return, Phases, GroupDone, work
<1>3. CASE LaunchEnds
  BY <1>0, <1>3 DEF LaunchEnds, Phases, GroupDone, work
<1>4. CASE WaitEnds
  BY <1>0, <1>4 DEF WaitEnds, Return, Phases, GroupDone, work
<1>5. CASE ReduceItem
  BY <1>0, <1>5 DEF ReduceItem, Phases, GroupDone, work
<1>6. CASE ReduceEnds
  BY <1>0, <1>6 DEF ReduceEnds, Phases, GroupDone, work
<1>7. CASE Collect
  BY <1>0, <1>7 DEF Collect, Return, Phases, GroupDone, work
<1>8. CASE FoldItem
  <2>1. GroupDone' = GroupDone /\ firstErr' = firstErr /\ closer' = closer /\ len' = len
    BY <1>8 DEF FoldItem, GroupDone, work
  <2>2. pc' = "fold" => Len(acc') <= len
    <3>1. CASE Len(acc) = len \/ cancelled
      BY <1>8, <3>1 DEF FoldItem, Return
    <3>2. CASE Len(acc) # len /\ ~cancelled
      <4>1. acc' = Append(acc, Len(acc) + 1) /\ Len(acc) <= len /\ acc \in Seq(1..MaxLen)
        BY <1>0, <1>8, <3>2 DEF FoldItem, Phases, MapReduceTypeOK
      <4>2. Len(acc') = Len(acc) + 1
        BY <4>1
      <4>3. QED
        BY <1>0, <3>2, <4>1, <4>2
    <3>3. QED
      BY <3>1, <3>2
  <2>3. pc' \in {"fold", "returned"}
    BY <1>8 DEF FoldItem, Return
  <2>4. QED
    BY <1>0, <1>8, <2>1, <2>2, <2>3 DEF FoldItem, Phases
<1>9. QED
  BY <1>1, <1>2, <1>3, <1>4, <1>5, <1>6, <1>7, <1>8 DEF Caller

\* The closing goroutine and the context.
LEMMA CloseCancelStep ==
    ASSUME MRInv, Close \/ Cancel
    PROVE  MRInv'
<1>1. MapReduceTypeOK'
  BY DEF MRInv, MapReduceTypeOK, Close, Cancel, UnitCount, work
<1>2. Counts'
  BY OtherCounts DEF Close, Cancel, work
<1>3. Phases'
  BY DEF MRInv, Phases, GroupDone, Close, Cancel, work
<1>4. QED
  BY <1>1, <1>2, <1>3 DEF MRInv

-----------------------------------------------------------------------------
\* The inductive invariant: the semaphore counts its holders, the channel holds
\* only what finished sends put there, and what the calling goroutine has returned
\* agrees with what its workers did.
THEOREM HelpersInvariant == MapReduceSpec => []MRInv
<1>1. MapReduceInit => MRInv
  BY InitInv
<1>2. MRInv /\ [MapReduceNext]_mapReduceVars => MRInv'
  <2> SUFFICES ASSUME MRInv, [MapReduceNext]_mapReduceVars PROVE MRInv'
    OBVIOUS
  <2>1. CASE Caller
    BY <2>1, CallerType, CallerCounts, CallerPhases DEF MRInv
  <2>2. CASE \E i \in 1..MaxLen : Worker(i)
    BY <2>2, WorkerType, WorkerCounts, WorkerPhases DEF MRInv
  <2>3. CASE Close \/ Cancel
    BY <2>3, CloseCancelStep
  <2>4. CASE UNCHANGED mapReduceVars
    <3>1. MapReduceTypeOK'
      BY <2>4 DEF MRInv, MapReduceTypeOK, mapReduceVars, work, UnitCount
    <3>2. Counts'
      BY <2>4, OtherCounts DEF mapReduceVars, work
    <3>3. Phases'
      BY <2>4 DEF MRInv, Phases, GroupDone, mapReduceVars, work
    <3>4. QED
      BY <3>1, <3>2, <3>3 DEF MRInv
  <2>5. QED
    BY <2>1, <2>2, <2>3, <2>4 DEF MapReduceNext
<1>3. QED
  BY <1>1, <1>2, PTL DEF MapReduceSpec

\* The semaphore never holds more than Concurrency tokens nor less than none,
\* whichever way the workers end, and the channel never more than its buffer.
THEOREM TypeCorrect == MapReduceSpec => []MapReduceTypeOK
<1>1. MRInv => MapReduceTypeOK
  BY DEF MRInv
<1>2. QED
  BY <1>1, HelpersInvariant, PTL

\* At most Concurrency calls of the user's function run at once.
THEOREM ConcurrencyStaysBounded == MapReduceSpec => []ConcurrencyBounded
<1>1. MRInv => ConcurrencyBounded
  <2> SUFFICES ASSUME MRInv PROVE ConcurrencyBounded
    OBVIOUS
  <2> DEFINE Running == {i \in 1..MaxLen : w[i] = "run"}
  <2>1. Running \in SUBSET Holding
    BY DEF Holding
  <2>2. Cardinality(Running) <= Cardinality(Holding) /\ IsFiniteSet(Running)
    BY <2>1, WorkerSetsFinite, FS_Subset
  <2>3. Cardinality(Running) \in Nat /\ Cardinality(Holding) \in Nat
    BY <2>2, WorkerSetsFinite, FS_CardinalityType
  <2>4. Cardinality(Holding) <= Concurrency
    BY DEF MRInv, Counts, Tokens, MapReduceTypeOK
  <2>5. Concurrency \in Nat
    BY OptionsAssumption
  <2> HIDE DEF Running
  <2>6. Cardinality(Running) <= Concurrency
    BY <2>2, <2>3, <2>4, <2>5
  <2>7. QED
    BY <2>6 DEF ConcurrencyBounded, Running
<1>2. QED
  BY <1>1, HelpersInvariant, PTL

\* A call that returns no error had no failing function, and none that still runs.
THEOREM ErrorsReported == MapReduceSpec => []NoErrorSwallowed
<1>1. MRInv => NoErrorSwallowed
  BY DEF MRInv, Phases, NoErrorSwallowed
<1>2. QED
  BY <1>1, HelpersInvariant, PTL

\* Only MapReduce can wait for itself, and only with a source longer than the
\* buffer and the semaphore together.
THEOREM CapacityPreventsStuck == MapReduceSpec => []StuckOnlyBeyondCapacity
<1>1. MRInv => StuckOnlyBeyondCapacity
  <2> SUFFICES ASSUME MRInv, Stuck PROVE helper = "MapReduce" /\ len > OutputSize + Concurrency
    BY DEF StuckOnlyBeyondCapacity
  <2>1. /\ MapReduceTypeOK /\ Counts /\ launched \in Nat /\ len \in Nat /\ UnitCount \in Nat
        /\ launched < UnitCount /\ UnitCount <= len
        /\ Concurrency \in Nat \ {0} /\ OutputSize \in Nat \ {0} /\ MaxLen \in Nat
    BY UnitsBounded, OptionsAssumption DEF MRInv, MapReduceTypeOK, Stuck
  <2>2. Cardinality(Holding) \in Nat /\ Cardinality(Past) \in Nat
    BY WorkerSetsFinite, FS_CardinalityType
  <2>3. Cardinality(Holding) >= Concurrency
    BY <2>1 DEF Stuck, Counts, Tokens
  <2>4. PICK i \in Holding : TRUE
    BY <2>1, <2>2, <2>3, FS_EmptySet
  <2>5. Blocked(i)
    BY <2>4 DEF Holding, Stuck
  <2>6. helper = "MapReduce"
    BY <2>1, <2>4, <2>5 DEF Blocked, Counts, Senders, Holding
  <2>7. Cardinality(Past) >= OutputSize
    <3>1. Len(mapOutput) >= OutputSize /\ Len(mapOutput) \in Nat
      BY <2>1, <2>5 DEF Blocked, MapReduceTypeOK
    <3>2. QED
      BY <2>1, <2>2, <3>1 DEF Counts, Buffered
  <2>8. Holding \cap Past = {}
    BY DEF Holding, Past, Stuck, Blocked
  <2>9. Holding \cup Past \in SUBSET (1..launched)
    BY <2>1 DEF Holding, Past, Counts, Started
  <2>10. Cardinality(Holding \cup Past) = Cardinality(Holding) + Cardinality(Past)
    <3>1. Cardinality(Holding \cup Past)
            = Cardinality(Holding) + Cardinality(Past) - Cardinality(Holding \cap Past)
      BY WorkerSetsFinite, FS_Union
    <3>2. Cardinality(Holding \cap Past) = 0
      BY <2>8, FS_EmptySet
    <3>3. QED
      BY <2>2, <3>1, <3>2
  <2>11. IsFiniteSet(1..launched) /\ Cardinality(1..launched) = launched
    BY <2>1, FS_Interval
  <2>12. Cardinality(Holding \cup Past) <= launched
    BY <2>9, <2>11, FS_Subset
  <2>13. QED
    BY <2>1, <2>2, <2>3, <2>6, <2>7, <2>10, <2>12
<1>2. QED
  BY <1>1, HelpersInvariant, PTL

-----------------------------------------------------------------------------
\* Every unit is started before the calling goroutine waits, and which helper may be
\* at which step.
Launching ==
    /\ \A i \in 1..MaxLen : i <= launched => w[i] # "none"
    /\ pc \in {"wait", "reduce", "collect"} => launched = UnitCount
    /\ pc = "returned" /\ ret.err = "none" /\ helper # "Reduce" => launched = UnitCount
    /\ pc = "fold" => helper = "Reduce"
    /\ pc = "wait" => helper \notin {"MapReduce", "Reduce"}
    /\ pc \in {"reduce", "collect"} => helper = "MapReduce"
    /\ pc = "launch" => helper # "Reduce"

\* Unless a function failed: Map and FlatMap have stored the result of every worker
\* that is past its function at its place, Filter what it keeps of them in any order,
\* and, unless it is cancelled, MapReduce has each of them reduced or in the channel.
Placed ==
    helper \in {"Map", "FlatMap"} =>
        /\ DOMAIN results = 1..len
        /\ ~firstErr => \A i \in Past : results[i] = i

Filtered == helper = "Filter" /\ ~firstErr => Enumerates(results, Accepted \cap Past)

Sent ==
    helper = "MapReduce" /\ ~firstErr /\ ~cancelled =>
        /\ Len(acc) + Len(mapOutput) = Cardinality(Past)
        /\ \A x \in Past : \/ \E k \in 1..Len(acc) : acc[k] = x
                           \/ \E k \in 1..Len(mapOutput) : mapOutput[k] = x

\* Reduce takes the items in order.
Folded == helper = "Reduce" => \A k \in 1..Len(acc) : acc[k] = k

\* What is returned without an error.
Answered ==
    /\ pc = "collect" /\ ~reduceErr => mapOutput = <<>>
    /\ pc = "returned" /\ ret.err = "none" =>
        /\ helper = "Reduce" => ret.val = acc /\ Len(acc) = len
        /\ helper = "MapReduce" => ret.val = acc /\ mapOutput = <<>>
        /\ helper \notin {"MapReduce", "Reduce"} => ret.val = results

ResultInv == Launching /\ Placed /\ Filtered /\ Sent /\ Folded /\ Answered

-----------------------------------------------------------------------------
\* The past workers, and the length of what they stored.
LEMMA PastFacts ==
    ASSUME MRInv
    PROVE  /\ Past \subseteq 1..launched /\ launched \in Nat /\ launched <= UnitCount
           /\ helper # "Partition" => Past \subseteq 1..len
           /\ Cardinality(Past) \in Nat
<1>1. launched \in Nat /\ launched <= UnitCount /\ UnitCount \in Nat /\ MaxLen \in Nat
  BY UnitsBounded, OptionsAssumption DEF MRInv, MapReduceTypeOK
<1>2. Past \subseteq 1..launched
  BY <1>1 DEF Past, MRInv, Counts, Started
<1>3. helper # "Partition" => UnitCount = len
  BY DEF UnitCount
<1>4. Cardinality(Past) \in Nat
  BY WorkerSetsFinite, FS_CardinalityType
<1> QED
  BY <1>1, <1>2, <1>3, <1>4

\* A step that leaves the workers and what they stored alone.
LEMMA StoredUnchanged ==
    ASSUME UNCHANGED <<helper, len, firstErr, results, Past>>, Placed, Filtered
    PROVE  Placed' /\ Filtered'
BY DEF Placed, Filtered, Enumerates

\* Starting a worker leaves nobody past its function that was not.
LEMMA LaunchPast ==
    ASSUME MRInv, Launch
    PROVE  /\ Past' = Past /\ launched \in Nat /\ launched + 1 \in 1..MaxLen
           /\ w' = [w EXCEPT ![launched + 1] = "run"]
           /\ w \in [1..MaxLen -> {"none", "run", "send", "release", "leave", "gone"}]
<1> DEFINE n == launched + 1
<1>1. MapReduceTypeOK /\ launched \in Nat /\ n \in 1..MaxLen
  BY UnitsBounded, OptionsAssumption DEF MRInv, Launch, MapReduceTypeOK
<1>2. w[n] = "none"
  BY <1>1 DEF MRInv, Counts, Started
<1>3. /\ w' = [w EXCEPT ![n] = "run"]
      /\ w \in [1..MaxLen -> {"none", "run", "send", "release", "leave", "gone"}]
  BY <1>1 DEF Launch, MapReduceTypeOK
<1>4. \A j \in 1..MaxLen : w'[j] \in {"release", "leave", "gone"} <=> w[j] \in {"release", "leave", "gone"}
  BY <1>1, <1>2, <1>3
<1>5. Past' = Past
  BY <1>4 DEF Past
<1> QED
  BY <1>1, <1>3, <1>5

\* The launching loop starts the workers in order.
LEMMA LaunchResults ==
    ASSUME MRInv, ResultInv, Launch
    PROVE  ResultInv'
<1>1. /\ Past' = Past /\ launched \in Nat /\ launched + 1 \in 1..MaxLen
      /\ w' = [w EXCEPT ![launched + 1] = "run"]
      /\ w \in [1..MaxLen -> {"none", "run", "send", "release", "leave", "gone"}]
  BY LaunchPast
<1>2. /\ pc = "launch" /\ launched' = launched + 1
      /\ UNCHANGED <<helper, len, pc, firstErr, results, mapOutput, closer, acc, reduceErr, cancelled, ret>>
  BY DEF Launch
<1>3. \A i \in 1..MaxLen : i <= launched' => w'[i] # "none"
  <2> SUFFICES ASSUME NEW i \in 1..MaxLen, i <= launched + 1
               PROVE  w'[i] # "none"
    BY <1>2
  <2>1. CASE i = launched + 1
    BY <1>1, <2>1
  <2>2. CASE i # launched + 1
    <3>1. i <= launched
      BY <1>1, <2>2
    <3>2. QED
      BY <1>1, <2>2, <3>1 DEF ResultInv, Launching
  <2> QED
    BY <2>1, <2>2
<1>4. Launching'
  BY <1>2, <1>3 DEF ResultInv, Launching
<1>5. Placed' /\ Filtered'
  BY <1>1, <1>2, StoredUnchanged DEF ResultInv
<1>6. Sent' /\ Folded' /\ Answered'
  BY <1>1, <1>2 DEF ResultInv, Sent, Folded, Answered
<1> QED
  BY <1>4, <1>5, <1>6 DEF ResultInv

\* The other steps of the calling goroutine but the two loops that reduce.
LEMMA ReturnResults ==
    ASSUME MRInv, ResultInv, LaunchCancelled \/ LaunchEnds \/ WaitEnds \/ ReduceEnds \/ Collect
    PROVE  ResultInv'
<1>1. UNCHANGED <<helper, len, launched, w, firstErr, results, mapOutput, acc, reduceErr, cancelled>>
  BY DEF LaunchCancelled, LaunchEnds, WaitEnds, ReduceEnds, Collect, work
<1>2. Past' = Past /\ UnitCount' = UnitCount
  BY <1>1 DEF Past, UnitCount
<1>3. Placed' /\ Filtered'
  BY <1>1, <1>2, StoredUnchanged DEF ResultInv
<1>4. Sent' /\ Folded'
  BY <1>1, <1>2 DEF ResultInv, Sent, Folded
<1>5. \A i \in 1..MaxLen : i <= launched' => w'[i] # "none"
  BY <1>1 DEF ResultInv, Launching
<1>6. CASE LaunchCancelled
  <2>1. pc' = "returned" /\ ret'.err = "ctx"
    BY <1>6 DEF LaunchCancelled, Return
  <2> QED
    BY <1>3, <1>4, <1>5, <2>1 DEF ResultInv, Launching, Answered
<1>7. CASE LaunchEnds
  <2>1. pc = "launch" /\ launched = UnitCount /\ pc' = IF helper = "MapReduce" THEN "reduce" ELSE "wait"
    BY <1>7 DEF LaunchEnds
  <2>2. Launching'
    BY <1>1, <1>2, <1>5, <2>1 DEF ResultInv, Launching
  <2>3. Answered'
    BY <2>1 DEF Answered
  <2> QED
    BY <1>3, <1>4, <2>2, <2>3 DEF ResultInv
<1>8. CASE WaitEnds
  <2>1. /\ pc = "wait" /\ pc' = "returned" /\ (ret'.err = "none" => ret'.val = results)
    BY <1>8 DEF WaitEnds, Return
  <2>2. Launching'
    BY <1>1, <1>2, <1>5, <2>1 DEF ResultInv, Launching
  <2>3. Answered'
    BY <1>1, <2>1 DEF ResultInv, Launching, Answered
  <2> QED
    BY <1>3, <1>4, <2>2, <2>3 DEF ResultInv
<1>9. CASE ReduceEnds
  <2>1. pc = "reduce" /\ pc' = "collect" /\ mapOutput = <<>>
    BY <1>9 DEF ReduceEnds
  <2>2. Launching'
    BY <1>1, <1>2, <1>5, <2>1 DEF ResultInv, Launching
  <2>3. Answered'
    BY <1>1, <2>1 DEF ResultInv, Launching, Answered
  <2> QED
    BY <1>3, <1>4, <2>2, <2>3 DEF ResultInv
<1>10. CASE Collect
  <2>1. pc = "collect" /\ pc' = "returned" /\ (ret'.err = "none" => ret'.val = acc /\ ~reduceErr)
    BY <1>10 DEF Collect, Return
  <2>2. Launching'
    BY <1>1, <1>2, <1>5, <2>1 DEF ResultInv, Launching
  <2>3. Answered'
    BY <1>1, <2>1 DEF ResultInv, Launching, Answered
  <2> QED
    BY <1>3, <1>4, <2>2, <2>3 DEF ResultInv
<1> QED
  BY <1>6, <1>7, <1>8, <1>9, <1>10

\* Some place of s holds x.
Appears(s, x) == \E k \in 1..Len(s) : s[k] = x

\* Taking the first item of the channel into the reduction.
LEMMA MoveItem ==
    ASSUME acc \in Seq(1..MaxLen), mapOutput \in Seq(1..MaxLen), mapOutput # <<>>,
           acc' = Append(acc, Head(mapOutput)), mapOutput' = Tail(mapOutput)
    PROVE  /\ Len(acc') + Len(mapOutput') = Len(acc) + Len(mapOutput)
           /\ \A x : Appears(acc, x) => Appears(acc', x)
           /\ \A x : Appears(mapOutput, x) => Appears(acc', x) \/ Appears(mapOutput', x)
<1>1. /\ Len(acc) \in Nat /\ Len(mapOutput) \in Nat \ {0}
      /\ Head(mapOutput) \in 1..MaxLen /\ Head(mapOutput) = mapOutput[1]
      /\ Len(mapOutput') = Len(mapOutput) - 1
      /\ \A i \in 1..Len(mapOutput') : mapOutput'[i] = mapOutput[i + 1]
  <2>1. Len(acc) \in Nat
    BY LenProperties
  <2>2. Len(mapOutput) \in Nat \ {0} /\ Len(mapOutput') = Len(mapOutput) - 1
    BY HeadTailProperties, EmptySeq, LenProperties
  <2>3. Head(mapOutput) \in 1..MaxLen
    BY HeadTailProperties, Zenon
  <2>4. Head(mapOutput) = mapOutput[1]
    BY <2>2
  <2>5. \A i \in 1..Len(mapOutput') : mapOutput'[i] = mapOutput[i + 1]
    BY HeadTailProperties
  <2> QED
    BY <2>1, <2>2, <2>3, <2>4, <2>5
<1>2. /\ Len(acc') = Len(acc) + 1 /\ acc'[Len(acc) + 1] = Head(mapOutput)
      /\ \A i \in 1..Len(acc) : acc'[i] = acc[i]
  BY <1>1, AppendProperties
<1>3. /\ Len(acc') + Len(mapOutput') = Len(acc) + Len(mapOutput)
      /\ Len(acc) + 1 \in 1..Len(acc') /\ 1..Len(acc) \subseteq 1..Len(acc')
  BY <1>1, <1>2
<1>4. ASSUME NEW x, NEW k \in 1..Len(mapOutput), mapOutput[k] = x
      PROVE  (\E j \in 1..Len(acc') : acc'[j] = x) \/ (\E j \in 1..Len(mapOutput') : mapOutput'[j] = x)
  <2>1. CASE k = 1
    BY <1>1, <1>2, <1>3, <1>4, <2>1
  <2>2. CASE k # 1
    <3>1. k - 1 \in 1..Len(mapOutput') /\ (k - 1) + 1 = k
      BY <1>1, <2>2
    <3>2. mapOutput'[k - 1] = x
      BY <1>1, <1>4, <3>1
    <3> QED
      BY <3>1, <3>2
  <2> QED
    BY <2>1, <2>2
<1> QED
  BY <1>2, <1>3, <1>4 DEF Appears

\* The loop that reduces what the channel yields takes the items one by one.
LEMMA ReduceItemResults ==
    ASSUME MRInv, ResultInv, ReduceItem
    PROVE  ResultInv'
<1>1. /\ pc = "reduce" /\ mapOutput # <<>> /\ mapOutput' = Tail(mapOutput) /\ acc' = Append(acc, Head(mapOutput))
      /\ \/ UNCHANGED <<pc, reduceErr>>
         \/ pc' = "collect" /\ reduceErr' = TRUE
      /\ UNCHANGED <<helper, len, launched, w, firstErr, results, cancelled, ret>>
  BY DEF ReduceItem, work
<1>2. Past' = Past /\ UnitCount' = UnitCount
  BY <1>1 DEF Past, UnitCount
<1>3. Placed' /\ Filtered'
  BY <1>1, <1>2, StoredUnchanged DEF ResultInv
<1>4. Launching'
  BY <1>1, <1>2 DEF ResultInv, Launching
<1>5. helper = "MapReduce"
  BY <1>1 DEF ResultInv, Launching
<1>6. Folded' /\ Answered'
  BY <1>1, <1>5 DEF Folded, Answered
<1>7. acc \in Seq(1..MaxLen) /\ mapOutput \in Seq(1..MaxLen)
  BY DEF MRInv, MapReduceTypeOK
<1>8. /\ Len(acc') + Len(mapOutput') = Len(acc) + Len(mapOutput)
      /\ \A x : Appears(acc, x) => Appears(acc', x)
      /\ \A x : Appears(mapOutput, x) => Appears(acc', x) \/ Appears(mapOutput', x)
  BY <1>1, <1>7, MoveItem
<1>9. Sent'
  <2> SUFFICES ASSUME ~firstErr, ~cancelled
               PROVE  /\ Len(acc') + Len(mapOutput') = Cardinality(Past)
                      /\ \A x \in Past : \/ \E k \in 1..Len(acc') : acc'[k] = x
                                         \/ \E k \in 1..Len(mapOutput') : mapOutput'[k] = x
    BY <1>1, <1>2 DEF Sent
  <2>1. /\ Len(acc) + Len(mapOutput) = Cardinality(Past)
        /\ \A x \in Past : \/ \E k \in 1..Len(acc) : acc[k] = x
                           \/ \E k \in 1..Len(mapOutput) : mapOutput[k] = x
    BY <1>5 DEF ResultInv, Sent
  <2>2. Len(acc') + Len(mapOutput') = Cardinality(Past)
    BY <1>8, <2>1
  <2>3. ASSUME NEW x \in Past
        PROVE  (\E k \in 1..Len(acc') : acc'[k] = x) \/ \E k \in 1..Len(mapOutput') : mapOutput'[k] = x
    BY <1>8, <2>1, Zenon DEF Appears
  <2> QED
    BY <2>2, <2>3
<1> QED
  BY <1>3, <1>4, <1>6, <1>9 DEF ResultInv

\* The loop of Reduce takes the items in their order.
LEMMA FoldItemResults ==
    ASSUME MRInv, ResultInv, FoldItem
    PROVE  ResultInv'
<1>1. /\ pc = "fold" /\ UNCHANGED <<helper, len, launched, w, firstErr, results, mapOutput, reduceErr, cancelled>>
  BY DEF FoldItem, work
<1>2. Past' = Past /\ UnitCount' = UnitCount
  BY <1>1 DEF Past, UnitCount
<1>3. Placed' /\ Filtered'
  BY <1>1, <1>2, StoredUnchanged DEF ResultInv
<1>4. helper = "Reduce" /\ pc' \in {"fold", "returned"}
  BY <1>1 DEF ResultInv, Launching, FoldItem, Return
<1>5. Launching' /\ Sent'
  BY <1>1, <1>2, <1>4 DEF ResultInv, Launching, Sent
<1>6. acc \in Seq(1..MaxLen) /\ Len(acc) \in Nat
  BY DEF MRInv, MapReduceTypeOK
<1>7. CASE Len(acc) = len \/ cancelled
  <2>1. acc' = acc /\ pc' = "returned" /\ (ret'.err = "none" => ret'.val = acc /\ Len(acc) = len)
    BY <1>7 DEF FoldItem, Return
  <2>2. Folded' /\ Answered'
    BY <1>1, <1>4, <2>1 DEF ResultInv, Folded, Answered
  <2> QED
    BY <1>3, <1>5, <2>2 DEF ResultInv
<1>8. CASE Len(acc) # len /\ ~cancelled
  <2>1. acc' = Append(acc, Len(acc) + 1) /\ (pc' = "returned" => ret'.err = "reduce")
    BY <1>1, <1>8 DEF FoldItem, Return
  <2>2. /\ Len(acc') = Len(acc) + 1 /\ acc'[Len(acc) + 1] = Len(acc) + 1
        /\ \A k \in 1..Len(acc) : acc'[k] = acc[k]
    <3>1. Len(acc) + 1 \in 1..MaxLen
      BY <1>1, <1>6, <1>8, OptionsAssumption DEF MRInv, Phases, MapReduceTypeOK
    <3> QED
      BY <1>6, <2>1, <3>1, AppendProperties
  <2>3. \A k \in 1..(Len(acc) + 1) : k \in 1..Len(acc) \/ k = Len(acc) + 1
    BY <1>6
  <2>4. Folded'
    BY <1>1, <1>4, <2>2, <2>3 DEF ResultInv, Folded
  <2>5. Answered'
    BY <1>4, <2>1 DEF Answered
  <2> QED
    BY <1>3, <1>5, <2>4, <2>5 DEF ResultInv
<1> QED
  BY <1>7, <1>8

-----------------------------------------------------------------------------
\* A worker that is past its function, and one that is not yet.
LEMMA WorkerPast ==
    ASSUME MRInv, NEW i \in 1..MaxLen, Worker(i)
    PROVE  /\ UNCHANGED <<helper, len, pc, launched, closer, acc, reduceErr, cancelled, ret>>
           /\ \A j \in 1..MaxLen : w[j] # "none" => w'[j] # "none"
           /\ w[i] \in {"release", "leave"} => Past' = Past
           /\ w[i] \in {"run", "send"} => i \notin Past /\ Past' = IF w'[i] = "send" THEN Past ELSE Past \union {i}
<1>1. MapReduceTypeOK /\ w \in [1..MaxLen -> {"none", "run", "send", "release", "leave", "gone"}]
  BY DEF MRInv, MapReduceTypeOK
<1>2. PICK s \in {"send", "release", "leave", "gone"} :
         /\ w' = [w EXCEPT ![i] = s] /\ w'[i] = s
         /\ \A j \in 1..MaxLen : j # i => w'[j] = w[j]
  BY <1>1, WorkerMoves
<1>3. UNCHANGED <<helper, len, pc, launched, closer, acc, reduceErr, cancelled, ret>>
  BY DEF Worker, RunFails, MapperReturns, SendOutput, SendCancelled, Release, Leave
<1>4. w[i] \in {"release", "leave"} => s \in {"leave", "gone"}
  BY <1>1, <1>2 DEF Worker, RunFails, MapperReturns, SendOutput, SendCancelled, Release, Leave, Step
<1>5. w[i] \in {"run", "send"} => s \in {"send", "release"}
  BY <1>1, <1>2 DEF Worker, RunFails, MapperReturns, SendOutput, SendCancelled, Release, Leave, Step
<1>6. w[i] \in {"release", "leave"} => Past' = Past
  BY <1>2, <1>4 DEF Past
<1>7. w[i] \in {"run", "send"} => i \notin Past /\ Past' = IF w'[i] = "send" THEN Past ELSE Past \union {i}
  BY <1>2, <1>5 DEF Past
<1> QED
  BY <1>2, <1>3, <1>6, <1>7

\* Appending the next item to an enumeration.
LEMMA EnumeratesMore ==
    ASSUME NEW S, IsFiniteSet(S), NEW x, x \notin S, NEW T, NEW s \in Seq(T), x \in T, Enumerates(s, S)
    PROVE  Enumerates(Append(s, x), S \union {x})
<1>1. Cardinality(S \union {x}) = Cardinality(S) + 1 /\ Cardinality(S) \in Nat
  BY FS_AddElement, FS_CardinalityType
<1>2. /\ Len(s) \in Nat /\ Len(Append(s, x)) = Len(s) + 1 /\ Append(s, x)[Len(s) + 1] = x
      /\ \A k \in 1..Len(s) : Append(s, x)[k] = s[k]
  BY AppendProperties, LenProperties
<1>3. Len(s) + 1 \in 1..(Len(s) + 1) /\ 1..Len(s) \subseteq 1..(Len(s) + 1)
  BY <1>2
<1> QED
  BY <1>1, <1>2, <1>3 DEF Enumerates

\* A worker that gets past its function stores or sends its result once.
LEMMA WorkerResults ==
    ASSUME MRInv, ResultInv, NEW i \in 1..MaxLen, Worker(i)
    PROVE  ResultInv'
<1>0. /\ UNCHANGED <<helper, len, pc, launched, closer, acc, reduceErr, cancelled, ret>>
      /\ \A j \in 1..MaxLen : w[j] # "none" => w'[j] # "none"
      /\ w[i] \in {"release", "leave"} => Past' = Past
      /\ w[i] \in {"run", "send"} => i \notin Past /\ Past' = IF w'[i] = "send" THEN Past ELSE Past \union {i}
  BY WorkerPast
<1>1. Launching'
  <2>1. UnitCount' = UnitCount
    BY <1>0 DEF UnitCount
  <2> QED
    BY <1>0, <2>1 DEF ResultInv, Launching
<1>2. Folded'
  BY <1>0 DEF ResultInv, Folded
<1>3. Answered'
  <2>1. ~GroupDone
    BY DEF GroupDone, Worker, RunFails, MapperReturns, SendOutput, SendCancelled, Release, Leave
  <2>2. ~(pc = "returned" /\ ret.err = "none") /\ (pc = "collect" => reduceErr)
    BY <2>1 DEF MRInv, Phases
  <2> QED
    BY <1>0, <2>2 DEF Answered
<1>4. Past \subseteq 1..launched /\ IsFiniteSet(Past)
  BY PastFacts, WorkerSetsFinite
<1>5. CASE RunFails(i)
  <2>1. firstErr' = TRUE /\ results' = results
    BY <1>5 DEF RunFails
  <2>2. Placed' /\ Filtered' /\ Sent'
    BY <1>0, <2>1 DEF ResultInv, Placed, Filtered, Sent
  <2> QED
    BY <1>1, <1>2, <1>3, <2>2 DEF ResultInv
<1>6. CASE MapperReturns(i)
  <2>1. /\ w[i] = "run" /\ w'[i] = (IF helper = "MapReduce" THEN "send" ELSE "release")
        /\ UNCHANGED <<firstErr, mapOutput>>
        /\ results' = CASE helper \in {"Map", "FlatMap"} -> [results EXCEPT ![i] = i]
                        [] helper = "Filter" /\ i \in Accepted -> Append(results, i)
                        [] OTHER -> results
    BY <1>6 DEF MapperReturns, Step, MRInv, MapReduceTypeOK
  <2>2. i \notin Past /\ Past' = IF helper = "MapReduce" THEN Past ELSE Past \union {i}
    BY <1>0, <2>1
  <2>3. Placed'
    <3> SUFFICES ASSUME helper \in {"Map", "FlatMap"}
                 PROVE  /\ DOMAIN results' = 1..len
                        /\ ~firstErr => \A j \in Past' : results'[j] = j
      BY <1>0, <2>1 DEF Placed
    <3>1. results' = [results EXCEPT ![i] = i] /\ DOMAIN results = 1..len /\ Past' = Past \union {i}
      BY <2>1, <2>2 DEF ResultInv, Placed
    <3>2. i \in 1..len
      <4>1. i <= launched /\ launched <= UnitCount /\ launched \in Nat /\ UnitCount = len /\ len \in Nat
        BY <2>1, PastFacts, OptionsAssumption, SMTT(30) DEF MRInv, Counts, Started, MapReduceTypeOK, UnitCount
      <4> QED
        BY <4>1
    <3>3. ~firstErr => \A j \in Past : results[j] = j
      BY DEF ResultInv, Placed
    <3>4. Past \subseteq 1..len
      BY PastFacts
    <3> QED
      BY <2>2, <3>1, <3>2, <3>3, <3>4
  <2>4. Filtered'
    <3> SUFFICES ASSUME helper = "Filter", ~firstErr
                 PROVE  Enumerates(results', Accepted \cap Past')
      BY <1>0, <2>1 DEF Filtered
    <3>1. Enumerates(results, Accepted \cap Past) /\ IsFiniteSet(Accepted \cap Past)
      BY <1>4, FS_Subset DEF ResultInv, Filtered
    <3>2. CASE i \in Accepted
      <4>1. results' = Append(results, i) /\ Accepted \cap Past' = (Accepted \cap Past) \union {i} /\ i \notin Accepted \cap Past
        BY <2>1, <2>2, <3>2
      <4>2. results \in Seq(0..MaxLen) /\ i \in 0..MaxLen
        BY OptionsAssumption DEF MRInv, MapReduceTypeOK
      <4> DEFINE S == Accepted \cap Past
      <4>3. IsFiniteSet(S) /\ i \notin S /\ Enumerates(results, S)
        BY <3>1, <4>1
      <4> HIDE DEF S
      <4>4. Enumerates(Append(results, i), S \union {i})
        BY <4>2, <4>3, EnumeratesMore
      <4> QED
        BY <4>1, <4>4 DEF S
    <3>3. CASE i \notin Accepted
      <4>1. results' = results /\ Accepted \cap Past' = Accepted \cap Past
        BY <2>1, <2>2, <3>3
      <4> QED
        BY <3>1, <4>1
    <3> QED
      BY <3>2, <3>3
  <2>5. Sent'
    BY <1>0, <2>1, <2>2 DEF ResultInv, Sent
  <2> QED
    BY <1>1, <1>2, <1>3, <2>3, <2>4, <2>5 DEF ResultInv
<1>7. CASE SendOutput(i) \/ SendCancelled(i)
  <2>1. w[i] = "send" /\ w'[i] = "release" /\ UNCHANGED <<firstErr, results>>
    BY <1>7 DEF SendOutput, SendCancelled, Step, MRInv, MapReduceTypeOK
  <2>2. helper = "MapReduce" /\ i \notin Past /\ Past' = Past \union {i}
    BY <1>0, <2>1 DEF MRInv, Counts, Senders
  <2>3. Placed' /\ Filtered'
    BY <1>0, <2>2 DEF Placed, Filtered
  <2>4. CASE SendCancelled(i)
    <3>1. Sent'
      BY <1>0, <2>4 DEF Sent, SendCancelled
    <3> QED
      BY <1>1, <1>2, <1>3, <2>3, <3>1 DEF ResultInv
  <2>5. CASE SendOutput(i)
    <3>1. mapOutput' = Append(mapOutput, i) /\ mapOutput \in Seq(1..MaxLen) /\ Len(mapOutput) \in Nat /\ Len(acc) \in Nat
      BY <2>5 DEF SendOutput, MRInv, MapReduceTypeOK
    <3>2. /\ Len(mapOutput') = Len(mapOutput) + 1 /\ mapOutput'[Len(mapOutput) + 1] = i
          /\ \A k \in 1..Len(mapOutput) : mapOutput'[k] = mapOutput[k]
      BY <3>1, AppendProperties
    <3>3. Cardinality(Past') = Cardinality(Past) + 1 /\ Cardinality(Past) \in Nat
      BY <1>4, <2>2, FS_AddElement, FS_CardinalityType
    <3>4. Len(mapOutput) + 1 \in 1..(Len(mapOutput) + 1) /\ 1..Len(mapOutput) \subseteq 1..(Len(mapOutput) + 1)
      BY <3>1
    <3>5. ASSUME ~firstErr, ~cancelled
          PROVE  /\ Len(acc) + Len(mapOutput') = Cardinality(Past')
                 /\ \A x \in Past' : \/ \E k \in 1..Len(acc) : acc[k] = x
                                     \/ \E k \in 1..Len(mapOutput') : mapOutput'[k] = x
      <4>1. /\ Len(acc) + Len(mapOutput) = Cardinality(Past)
            /\ \A x \in Past : \/ \E k \in 1..Len(acc) : acc[k] = x
                               \/ \E k \in 1..Len(mapOutput) : mapOutput[k] = x
        BY <2>2, <3>5 DEF ResultInv, Sent
      <4>2. Len(acc) + Len(mapOutput') = Cardinality(Past')
        BY <3>1, <3>2, <3>3, <4>1
      <4>3. \E k \in 1..Len(mapOutput') : mapOutput'[k] = i
        BY <3>2, <3>4
      <4>4. \A x \in Past : \/ \E k \in 1..Len(acc) : acc[k] = x
                            \/ \E k \in 1..Len(mapOutput') : mapOutput'[k] = x
        BY <3>2, <3>4, <4>1
      <4> QED
        BY <2>2, <4>2, <4>3, <4>4
    <3>6. Sent'
      BY <1>0, <2>1, <3>5 DEF Sent
    <3> QED
      BY <1>1, <1>2, <1>3, <2>3, <3>6 DEF ResultInv
  <2> QED
    BY <1>7, <2>4, <2>5
<1>8. CASE Release(i) \/ Leave(i)
  <2>1. w[i] \in {"release", "leave"} /\ UNCHANGED <<firstErr, results, mapOutput>>
    BY <1>8 DEF Release, Leave
  <2>2. Placed' /\ Filtered' /\ Sent'
    BY <1>0, <2>1, StoredUnchanged DEF ResultInv, Sent
  <2> QED
    BY <1>1, <1>2, <1>3, <2>2 DEF ResultInv
<1> QED
  BY <1>5, <1>6, <1>7, <1>8 DEF Worker

-----------------------------------------------------------------------------
\* The closing goroutine, the context, and a step of nobody.
LEMMA CloseCancelResults ==
    ASSUME ResultInv, Close \/ Cancel \/ UNCHANGED mapReduceVars
    PROVE  ResultInv'
<1>1. /\ UNCHANGED <<helper, len, pc, launched, w, firstErr, results, mapOutput, acc, reduceErr, ret>>
      /\ ~cancelled' => ~cancelled
  BY DEF Close, Cancel, mapReduceVars, work
<1>2. Past' = Past /\ UnitCount' = UnitCount
  BY <1>1 DEF Past, UnitCount
<1>3. Placed' /\ Filtered'
  BY <1>1, <1>2, StoredUnchanged DEF ResultInv
<1>4. Launching' /\ Sent' /\ Folded' /\ Answered'
  BY <1>1, <1>2 DEF ResultInv, Launching, Sent, Folded, Answered
<1> QED
  BY <1>3, <1>4 DEF ResultInv

\* At the start of a call nobody is past its function.
LEMMA InitResults == MapReduceInit => ResultInv
<1> SUFFICES ASSUME MapReduceInit PROVE ResultInv
  OBVIOUS
<1>1. Past = {} /\ Accepted \cap Past = {} /\ Cardinality({}) = 0
  BY FS_EmptySet DEF MapReduceInit, Past
<1>2. Launching
  <2>1. \A i \in 1..MaxLen : ~(i <= 0)
    BY OptionsAssumption
  <2> QED
    BY <2>1 DEF MapReduceInit, Launching
<1>3. Placed /\ Filtered
  BY <1>1 DEF MapReduceInit, Placed, Filtered, Enumerates
<1>4. Sent /\ Folded /\ Answered
  BY <1>1 DEF MapReduceInit, Sent, Folded, Answered
<1> QED
  BY <1>2, <1>3, <1>4 DEF ResultInv

\* The partition that item x is in is one of those that are started.
LEMMA PartitionCovers ==
    ASSUME NEW n \in Nat, NEW k \in Nat \ {0}, NEW x \in 1..n
    PROVE  \E i \in Nat : /\ 1 <= i /\ i <= (n + k - 1) \div k
                          /\ (i - 1) * k < x /\ x <= i * k
<1> DEFINE i == (x + k - 1) \div k
           u == (n + k - 1) \div k
<1>1. i \in Int /\ k * i <= x + k - 1 /\ x + k - 1 < k * i + k
  OBVIOUS
<1>2. u \in Int /\ k * u <= n + k - 1 /\ n + k - 1 < k * u + k
  OBVIOUS
<1> HIDE DEF i, u
<1>3. 1 <= i
  <2>1. SUFFICES ASSUME i <= 0 PROVE FALSE
    BY <1>1
  <2>2. PICK d \in Nat : i = 0 - d
    <3>1. 0 - i \in Nat /\ i = 0 - (0 - i)
      BY <1>1, <2>1
    <3> QED
      BY <3>1
  <2>3. k * i = 0 - k * d /\ k * d \in Nat
    BY <2>2
  <2> QED
    BY <1>1, <2>3
<1>4. i <= u
  <2>1. SUFFICES ASSUME u + 1 <= i PROVE FALSE
    BY <1>1, <1>2
  <2>2. PICK d \in Nat : i = u + 1 + d
    <3>1. i - u - 1 \in Nat /\ i = u + 1 + (i - u - 1)
      BY <1>1, <1>2, <2>1
    <3> QED
      BY <3>1
  <2>3. k * i = k * u + k + k * d /\ k * d \in Nat /\ k * u \in Int
    BY <1>2, <2>2
  <2> QED
    BY <1>1, <1>2, <2>3
<1>5. (i - 1) * k = k * i - k /\ i * k = k * i /\ k * i \in Int
  BY <1>1
<1>6. (i - 1) * k < x /\ x <= i * k
  BY <1>1, <1>5
<1>7. i \in Nat
  BY <1>1, <1>3
<1> QED
  BY <1>3, <1>4, <1>6, <1>7 DEF u

\* Every item belongs to a unit that is started.
LEMMA UnitsCover ==
    ASSUME MapReduceTypeOK, helper # "Reduce", NEW x \in 1..len
    PROVE  \E i \in 1..MaxLen : i <= UnitCount /\ x \in Unit(i)
<1>1. len \in Nat /\ MaxLen \in Nat /\ PartitionSize \in Nat \ {0} /\ UnitCount \in Nat /\ UnitCount <= MaxLen
  BY UnitsBounded, OptionsAssumption DEF MapReduceTypeOK
<1>2. CASE helper = "Partition"
  <2>1. PICK i \in Nat : /\ 1 <= i /\ i <= (len + PartitionSize - 1) \div PartitionSize
                         /\ (i - 1) * PartitionSize < x /\ x <= i * PartitionSize
    BY <1>1, PartitionCovers
  <2>2. i <= UnitCount
    BY <1>2, <2>1 DEF UnitCount
  <2>3. i \in 1..MaxLen
    BY <1>1, <2>1, <2>2
  <2>4. x \in Unit(i)
    BY <1>2, <2>1 DEF Unit
  <2> QED
    BY <2>2, <2>3, <2>4
<1>3. CASE helper # "Partition"
  <2>1. UnitCount = len /\ x \in Unit(x)
    BY <1>3 DEF UnitCount, Unit
  <2>2. x \in 1..MaxLen /\ x <= len
    BY <1>1, <2>1
  <2> QED
    BY <2>1, <2>2
<1> QED
  BY <1>2, <1>3

\* What the invariants say of a call that has returned without an error.
LEMMA CompleteFromInv == MRInv /\ ResultInv => CompleteOnSuccess
<1> SUFFICES ASSUME MRInv, ResultInv, pc = "returned", ret.err = "none", helper = "MapReduce" => ~cancelled
             PROVE  /\ GroupDone
                    /\ helper \in {"Map", "FlatMap", "Reduce"} => ret.val = [i \in 1..len |-> i]
                    /\ helper = "MapReduce" => Enumerates(ret.val, 1..len)
                    /\ helper = "Filter" => Enumerates(ret.val, Accepted \cap 1..len)
                    /\ helper # "Reduce" =>
                          \A x \in 1..len : \E i \in 1..MaxLen : w[i] = "gone" /\ x \in Unit(i)
  BY DEF CompleteOnSuccess
<1>1. GroupDone /\ ~firstErr /\ MapReduceTypeOK
  BY DEF MRInv, Phases
<1>2. helper # "Reduce" => launched = UnitCount
  BY DEF ResultInv, Launching
<1>3. helper # "Reduce" => \A i \in 1..MaxLen : i <= UnitCount => w[i] = "gone"
  BY <1>1, <1>2 DEF GroupDone, ResultInv, Launching
<1>4. helper # "Reduce" => \A x \in 1..len : \E i \in 1..MaxLen : w[i] = "gone" /\ x \in Unit(i)
  BY <1>1, <1>3, UnitsCover
<1>5. helper \notin {"Reduce", "Partition"} => Past = 1..len
  <2> SUFFICES ASSUME helper \notin {"Reduce", "Partition"} PROVE Past = 1..len
    OBVIOUS
  <2>1. UnitCount = len /\ len \in Nat /\ len <= MaxLen /\ MaxLen \in Nat
    BY OptionsAssumption, <1>1 DEF UnitCount, MapReduceTypeOK
  <2>2. \A i \in 1..len : i \in 1..MaxLen /\ i <= UnitCount
    BY <2>1
  <2>3. 1..len \subseteq Past
    BY <1>3, <2>2 DEF Past
  <2> QED
    BY <2>3, PastFacts
<1>6. ASSUME helper \in {"Map", "FlatMap"} PROVE ret.val = [i \in 1..len |-> i]
  <2>1. DOMAIN results = 1..len /\ \A i \in 1..len : results[i] = i
    BY <1>1, <1>5, <1>6 DEF ResultInv, Placed
  <2>2. ret.val = results /\ results \in Seq(0..MaxLen)
    BY <1>1, <1>6 DEF ResultInv, Answered, MapReduceTypeOK
  <2>3. results = [i \in DOMAIN results |-> results[i]]
    BY <2>2, SeqDef
  <2> QED
    BY <2>1, <2>2, <2>3
<1>7. ASSUME helper = "Reduce" PROVE ret.val = [i \in 1..len |-> i]
  <2>1. ret.val = acc /\ Len(acc) = len /\ acc \in Seq(1..MaxLen)
    BY <1>1, <1>7 DEF ResultInv, Answered, MapReduceTypeOK
  <2>2. \A k \in 1..Len(acc) : acc[k] = k
    BY <1>7 DEF ResultInv, Folded
  <2>3. acc = [k \in 1..Len(acc) |-> acc[k]]
    BY <2>1, LenProperties
  <2> QED
    BY <2>1, <2>2, <2>3
<1>8. ASSUME helper = "Filter" PROVE Enumerates(ret.val, Accepted \cap 1..len)
  <2>1. Enumerates(results, Accepted \cap Past) /\ ret.val = results
    BY <1>1, <1>8 DEF ResultInv, Filtered, Answered
  <2> QED
    BY <1>5, <1>8, <2>1
<1>9. ASSUME helper = "MapReduce" PROVE Enumerates(ret.val, 1..len)
  <2>1. ret.val = acc /\ mapOutput = <<>> /\ Past = 1..len
    BY <1>5, <1>9 DEF ResultInv, Answered
  <2>2. /\ Len(acc) + Len(mapOutput) = Cardinality(Past)
        /\ \A x \in Past : \/ \E k \in 1..Len(acc) : acc[k] = x
                           \/ \E k \in 1..Len(mapOutput) : mapOutput[k] = x
    BY <1>1, <1>9 DEF ResultInv, Sent
  <2>3. Len(mapOutput) = 0 /\ Len(acc) \in Nat /\ 1..Len(mapOutput) = {}
    BY <1>1, <2>1 DEF MapReduceTypeOK
  <2> QED
    BY <2>1, <2>2, <2>3 DEF Enumerates
<1> QED
  BY <1>1, <1>4, <1>6, <1>7, <1>8, <1>9

\* A call that returns no error has processed every item exactly once and nothing is
\* still running, for every helper, length, concurrency, buffer and partition size,
\* whatever order the workers run in: the results of Map and FlatMap are at their
\* places, Reduce took the items in order, Filter and MapReduce lost and repeated none,
\* and Partition left no item out.
THEOREM SuccessIsComplete == MapReduceSpec => []CompleteOnSuccess
<1>1. MapReduceInit => ResultInv
  BY InitResults
<1>2. MRInv /\ ResultInv /\ [MapReduceNext]_mapReduceVars => ResultInv'
  BY LaunchResults, ReturnResults, ReduceItemResults, FoldItemResults, WorkerResults, CloseCancelResults
     DEF MapReduceNext, Caller
<1> QED
  BY <1>1, <1>2, CompleteFromInv, HelpersInvariant, PTL DEF MapReduceSpec

============================================================================
