-------------------------- MODULE FacilitiesProofs --------------------------
(***************************************************************************)
(* What holds of the facilities for every value of their constants.  They  *)
(* share no state, so each has an inductive invariant of its own, and a    *)
(* step of the composition is a step of one facility or leaves it alone.   *)
(***************************************************************************)
EXTENDS Facilities, SequenceTheorems, FiniteSetTheorems, TLAPS

----------------------------------------------------------------------------
(* The rotated log *)

\* A step of the facilities is a step of the rotator or leaves its variables
\* alone.
LEMMA RotatorStep == [FacilitiesNext]_facilityVars => [RotatorNext]_rotatorVars
  BY DEF FacilitiesNext, facilityVars, rotatorVars

\* The inductive invariant of the rotator: the types, and that no written line is lost.
RotatorInv == RotatorTypeOK /\ WrittenLinesKept

\* What a Write finds holds the lines of the log file.
LEMMA FoundHasLines == Lines(FoundLines) = Lines(current)
  BY DEF FoundLines, Lines

\* A Write that gets no file leaves the lines of the log file.
LEMMA RotatorUnopenedKeeps ==
  ASSUME RotatorInv, NEW end \in OpenEnds, WriteUnopened(end)
  PROVE  RotatorInv'
  <1>1. RotatorTypeOK'
    BY RotatorAssumption DEF RotatorInv, RotatorTypeOK, WriteUnopened
  <1>2. Lines(current') = Lines(current)
    BY DEF WriteUnopened, Opened, Lines
  <1> QED  BY <1>1, <1>2 DEF RotatorInv, WrittenLinesKept, WriteUnopened

\* Write without a rotation adds its line to the file that is open.
LEMMA RotatorWriteKeeps ==
  ASSUME RotatorInv, NEW len \in LineSizes, NEW n \in 0..len, Write(len, n)
  PROVE  RotatorInv'
  <1> USE RotatorAssumption
  <1>1. RotatorTypeOK'
    BY DEF RotatorInv, RotatorTypeOK, Write
  <1>2. lines + 1 # 0
    BY DEF RotatorInv, RotatorTypeOK
  <1>3. Lines(current) \subseteq Lines(current') /\ written' \subseteq written \union Lines(current')
    BY <1>2, FoundHasLines DEF Write, Lines, NoFile
  <1>4. UNCHANGED <<backups, cleaned, replaced>>
    BY DEF Write
  <1> QED  BY <1>1, <1>3, <1>4 DEF RotatorInv, WrittenLinesKept

\* A rotation moves the lines of the file to a backup, or to the backup it
\* overwrites.
LEMMA RotatorRotateKeeps ==
  ASSUME RotatorInv, NEW len \in LineSizes, NEW renameOk \in BOOLEAN, NEW end \in OpenEnds,
         NEW n \in 0..len, WriteRotated(len, renameOk, end, n)
  PROVE  RotatorInv'
  <1> USE RotatorAssumption
  <1>1. RotatorTypeOK'
    BY DEF RotatorInv, RotatorTypeOK, WriteRotated, Renamed
  <1>2. lines + 1 # 0
    BY DEF RotatorInv, RotatorTypeOK
  <1>3. CASE ~renameOk
    <2>1. n # len
      BY <1>3 DEF WriteRotated
    <2>2. Lines(current') = Lines(current) /\ UNCHANGED <<backups, cleaned, replaced, written>>
      BY <1>3, <2>1, FoundHasLines DEF WriteRotated
    <2> QED  BY <1>1, <2>2 DEF RotatorInv, WrittenLinesKept
  <1>4. CASE renameOk
    <2>1. Lines(current) \union UNION {backups[t] : t \in DOMAIN backups}
            \subseteq (UNION {backups'[t] : t \in DOMAIN backups'}) \union replaced'
      <3>1. backups' = Renamed /\ replaced' = replaced \union Overwritten
        BY <1>4 DEF WriteRotated
      <3>2. CASE FoundLines = NoFile
        BY <3>1, <3>2, FoundHasLines DEF Renamed, Lines
      <3>3. CASE FoundLines # NoFile
        <4>1. DOMAIN backups' = DOMAIN backups \union {seconds} /\ backups'[seconds] = FoundLines
          BY <3>1, <3>3 DEF Renamed
        <4>2. \A t \in DOMAIN backups : t # seconds => backups'[t] = backups[t]
          BY <3>1, <3>3 DEF Renamed
        <4>3. \A t \in DOMAIN backups : t = seconds => backups[t] \subseteq replaced'
          BY <3>1, <3>3 DEF Overwritten
        <4>4. ASSUME NEW t \in DOMAIN backups, NEW x \in backups[t]
              PROVE  x \in (UNION {backups'[u] : u \in DOMAIN backups'}) \union replaced'
          <5>1. CASE t = seconds
            <6>1. x \in replaced'
              BY <4>3, <5>1
            <6> QED  BY <6>1
          <5>2. CASE t # seconds
            <6>1. t \in DOMAIN backups' /\ x \in backups'[t]
              BY <4>1, <4>2, <5>2
            <6> QED  BY <6>1
          <5> QED  BY <5>1, <5>2
        <4>5. FoundLines \subseteq UNION {backups'[u] : u \in DOMAIN backups'}
          BY <4>1
        <4> QED  BY <4>4, <4>5, FoundHasLines DEF Lines
      <3> QED  BY <3>2, <3>3
    <2>2. replaced \subseteq replaced' /\ cleaned' = cleaned
      BY <1>4 DEF WriteRotated
    <2>3. written' \subseteq written \union Lines(current')
      BY <1>2, <1>4 DEF WriteRotated, Lines, NoFile
    <2> QED  BY <1>1, <2>1, <2>2, <2>3 DEF RotatorInv, WrittenLinesKept
  <1> QED  BY <1>3, <1>4

\* Cleanup takes away lines only with the backups it removes.
LEMMA RotatorCleanupKeeps ==
  ASSUME RotatorInv, DoCleanup
  PROVE  RotatorInv'
  <1>1. RotatorTypeOK'
    BY DEF RotatorInv, RotatorTypeOK, DoCleanup
  <1>2. UNION {backups[t] : t \in DOMAIN backups}
            \subseteq (UNION {backups'[t] : t \in DOMAIN backups'}) \union cleaned'
    <2>1. \A t \in DOMAIN backups \ Removable : t \in DOMAIN backups' /\ backups'[t] = backups[t]
      BY DEF DoCleanup
    <2>2. \A t \in Removable : backups[t] \subseteq cleaned'
      BY DEF DoCleanup
    <2>3. ASSUME NEW t \in DOMAIN backups, NEW x \in backups[t]
          PROVE  x \in (UNION {backups'[u] : u \in DOMAIN backups'}) \union cleaned'
      <3>1. CASE t \in Removable
        <4>1. x \in cleaned'
          BY <2>2, <3>1
        <4> QED  BY <4>1
      <3>2. CASE t \notin Removable
        <4>1. t \in DOMAIN backups' /\ x \in backups'[t]
          BY <2>1, <3>2
        <4> QED  BY <4>1
      <3> QED  BY <3>1, <3>2
    <2> QED  BY <2>3
  <1>3. cleaned \subseteq cleaned' /\ UNCHANGED <<current, replaced, written>>
    BY DEF DoCleanup
  <1> QED  BY <1>1, <1>2, <1>3 DEF RotatorInv, WrittenLinesKept

\* Every step keeps the invariant of the rotator.
LEMMA RotatorPreserved == RotatorInv /\ [RotatorNext]_rotatorVars => RotatorInv'
  <1> SUFFICES ASSUME RotatorInv, [RotatorNext]_rotatorVars PROVE RotatorInv'
    OBVIOUS
  <1>1. CASE RotatorTick
    BY <1>1, RotatorAssumption DEF RotatorTick, RotatorInv, RotatorTypeOK, WrittenLinesKept
  <1>2. CASE UNCHANGED rotatorVars
    BY <1>2 DEF rotatorVars, RotatorInv, RotatorTypeOK, WrittenLinesKept
  <1> QED
    BY <1>1, <1>2, RotatorUnopenedKeeps, RotatorWriteKeeps, RotatorRotateKeeps, RotatorCleanupKeeps DEF RotatorNext

\* Every line that Write wrote is in the file, in a backup, in one that Cleanup
\* removed, or in one that a rename of the same second overwrote, for every size,
\* number of backups and age, whatever open, rename and write do.
THEOREM RotatedLinesKept == FacilitiesSpec => [](RotatorTypeOK /\ WrittenLinesKept)
  <1>1. FacilitiesInit => RotatorInv
    BY RotatorAssumption DEF FacilitiesInit, RotatorInit, RotatorInv, RotatorTypeOK, WrittenLinesKept
  <1> QED
    BY <1>1, RotatorStep, RotatorPreserved, PTL DEF FacilitiesSpec, RotatorInv

----------------------------------------------------------------------------
(* The cron scheduler *)

\* A step of the facilities is a step of the scheduler or leaves its variables
\* alone.
LEMMA CronStep == [FacilitiesNext]_facilityVars => [CronNext]_cronVars
  BY DEF FacilitiesNext, facilityVars, cronVars

LoopSteps == {"none", "scan", "picked", "wait", "due", "done"}

LoopStates == [at : LoopSteps, pick : Nat, now : Nat, ctx : Nat, until : Nat]

EntryStates == [sched : Schedules \union {CHOOSE s \in Schedules : TRUE}, next : Nat, running : BOOLEAN]

CronTypes ==
    /\ tick \in 0..MaxTick /\ created \in 0..MaxEntries /\ gen \in 0..MaxStarts
    /\ entry \in [Objects -> EntryStates]
    /\ table \in [JobIds -> Nat]
    /\ stopping \in Nat
    /\ loop \in [Loops -> LoopStates]
    /\ jobs \in [Objects -> Nat] /\ orphanRuns \in [Objects -> Nat]

CronBounds ==
    /\ \A o \in Objects : o <= created => entry[o].sched \in Schedules
    /\ \A i \in JobIds : table[i] <= created
    /\ \A g \in Loops : loop[g].pick <= created /\ loop[g].now <= tick
    /\ active => gen > 0
    /\ cancelled \subseteq 1..gen

\* A job goroutine runs exactly while the Running flag of its entry is set.
OneRun ==
    \A o \in Objects :
        /\ jobs[o] = IF entry[o].running THEN 1 ELSE 0
        /\ entry[o].running => o <= created

\* The wait group is not at zero only between a Start and the return of the last Stop.
Quiet == ~active /\ stopping = 0 => WaitGroupZero

\* The loops that have picked the object o and not run it yet.
Holders(o) == {g \in Loops : loop[g].at \in {"picked", "wait", "due"} /\ loop[g].pick = o}

InTable(o) == \E i \in JobIds : table[i] = o

\* An object begins no orphan run while it is in the table or not created yet; the runs it
\* has begun since and the loops still waiting to run it are together no more than the loops.
OrphanRunsBounded ==
    /\ \A g \in Loops : g > gen => loop[g].at = "none"
    /\ \A o \in Objects : InTable(o) \/ o > created => orphanRuns[o] = 0
    /\ \A o \in Objects : orphanRuns[o] + Cardinality(Holders(o)) <= gen

CronInv == CronTypes /\ CronBounds /\ OneRun /\ Quiet /\ OrphanRunsBounded

----------------------------------------------------------------------------
\* CronSchedule.Next is a time.
LEMMA CronScheduleNextIsNat ==
  ASSUME NEW t \in Nat
  PROVE  CronScheduleNext(t) \in Nat
  <1> DEFINE P(u) == /\ u % 60 \in 0..59
                     /\ \A v \in (t + 1)..(u - 1) : v % 60 \notin 0..59
  <1>1. t + 1 \in (t + 1)..(t + 60) /\ P(t + 1)
    OBVIOUS
  <1>2. (CHOOSE u \in (t + 1)..(t + 60) : P(u)) \in (t + 1)..(t + 60)
    <2> HIDE DEF P
    <2> QED  BY <1>1
  <1> QED  BY <1>2 DEF CronScheduleNext, ParseField

\* DailySchedule.Next is a time.
LEMMA DailyNextIsNat ==
  ASSUME NEW t \in Nat, NEW at \in Nat
  PROVE  DailyNext(t, at) \in Nat
  <1>1. t \div DayLength \in Nat
    BY CronAssumption
  <1>2. (t \div DayLength) * DayLength \in Nat
    BY <1>1, CronAssumption
  <1> QED  BY <1>2, CronAssumption DEF DailyNext

\* So is Next of every schedule.
LEMMA ScheduleNextIsNat ==
  ASSUME NEW s \in Schedules, NEW t \in Nat
  PROVE  ScheduleNext(s, t) \in Nat
  <1>1. s.every \in Nat /\ t + s.every \in Nat
    BY CronAssumption
  <1> QED  BY <1>1, CronScheduleNextIsNat, DailyNextIsNat DEF ScheduleNext

\* Sets of loops are finite and no larger than the loops started.
LEMMA AtMostAllLoops ==
  ASSUME NEW n \in Nat, NEW S, S \subseteq 1..n
  PROVE  IsFiniteSet(S) /\ Cardinality(S) \in Nat /\ Cardinality(S) <= n
  <1>1. IsFiniteSet(1..n) /\ Cardinality(1..n) = n
    BY FS_Interval
  <1> QED  BY <1>1, FS_Subset, FS_CardinalityType

----------------------------------------------------------------------------
\* Moving a loop to another step leaves its pick, and it is a loop still.
LEMMA LoopMoves ==
  ASSUME NEW l \in LoopStates, NEW a \in LoopSteps
  PROVE  /\ [l EXCEPT !.at = a] \in LoopStates
         /\ [l EXCEPT !.at = a].at = a
         /\ [l EXCEPT !.at = a].pick = l.pick
         /\ [l EXCEPT !.at = a].now = l.now
  BY DEF LoopStates

\* The fields of a loop.
LEMMA LoopFields ==
  ASSUME NEW l \in LoopStates
  PROVE  l.at \in LoopSteps /\ l.pick \in Nat /\ l.now \in Nat
  BY DEF LoopStates

\* The end of a run changes running alone.
LEMMA EntryEnds ==
  ASSUME NEW e \in EntryStates
  PROVE  /\ [e EXCEPT !.running = FALSE] \in EntryStates
         /\ [e EXCEPT !.running = FALSE].running = FALSE
         /\ [e EXCEPT !.running = FALSE].sched = e.sched
  BY DEF EntryStates

\* Where the next entry, the next loop and the picks of the table are numbered.
LEMMA ObjectsLoops ==
  ASSUME CronTypes
  PROVE  /\ created < MaxEntries => created + 1 \in Objects
         /\ gen < MaxStarts => gen + 1 \in Loops
         /\ \A o \in Nat : o # Absent /\ o <= created => o \in Objects
         /\ tick \in Nat /\ created \in Nat /\ gen \in Nat
  BY CronAssumption DEF CronTypes, Objects, Loops, Absent

\* Writing the record of one loop.
LEMMA LoopUpdate ==
  ASSUME CronTypes, NEW g \in Loops, NEW l \in LoopStates, loop' = [loop EXCEPT ![g] = l]
  PROVE  /\ loop' \in [Loops -> LoopStates]
         /\ loop'[g] = l /\ \A h \in Loops : h # g => loop'[h] = loop[h]
  BY DEF CronTypes

\* What a loop picks from the table is in the table.
LEMMA PickedObjects ==
  ASSUME CronTypes, CronBounds, NEW o \in (IF Earliest = {} THEN {Absent} ELSE Earliest)
  PROVE  o \in Nat /\ o <= created /\ (o # Absent => InTable(o))
  <1>1. CASE Earliest = {}
    BY <1>1, ObjectsLoops DEF Absent
  <1>2. CASE Earliest # {}
    <2>1. PICK i \in JobIds : o = table[i]
      BY <1>2 DEF Earliest
    <2> QED  BY <2>1 DEF CronTypes, CronBounds, InTable
  <1> QED  BY <1>1, <1>2

\* Every step of a loop writes that loop's record only, and either leaves its pick or picks
\* from the table.
LEMMA LoopStep ==
  ASSUME CronTypes, CronBounds, NEW g \in Loops, CronLoop(g)
  PROVE  \E l \in LoopStates :
            /\ loop' = [loop EXCEPT ![g] = l]
            /\ loop[g].at \notin {"none", "done"}
            /\ l.pick <= created /\ l.now <= tick
            /\ \/ l.at \in {"scan", "done"}
               \/ l.at = "picked" /\ (l.pick = Absent \/ InTable(l.pick))
               \/ l.at \in {"wait", "due"} /\ loop[g].at = "picked" /\ l.pick = loop[g].pick
  <1>0. loop[g] \in LoopStates /\ tick \in Nat /\ gen \in Nat /\ created \in Nat
    BY ObjectsLoops DEF CronTypes
  <1>1. CASE RunScan(g)
    <2>1. CASE ~active
      <3>1. loop' = [loop EXCEPT ![g] = [loop[g] EXCEPT !.at = "done"]]
        BY <1>1, <2>1 DEF RunScan
      <3> QED  BY <1>0, <1>1, <3>1, LoopMoves DEF LoopSteps, RunScan, CronBounds
    <2>2. CASE active
      <3>1. PICK o \in (IF Earliest = {} THEN {Absent} ELSE Earliest) :
                loop' = [loop EXCEPT ![g] = [at |-> "picked", pick |-> o, now |-> tick, ctx |-> 0, until |-> 0]]
        BY <1>1, <2>2 DEF RunScan
      <3> DEFINE l == [at |-> "picked", pick |-> o, now |-> tick, ctx |-> 0, until |-> 0]
      <3>2. o \in Nat /\ o <= created /\ (o # Absent => InTable(o))
        BY <3>1, PickedObjects
      <3>3. l \in LoopStates /\ l.pick = o /\ l.now = tick /\ l.at = "picked"
        BY <1>0, <3>2 DEF LoopStates, LoopSteps
      <3>4. loop[g].at \notin {"none", "done"}
        BY <1>1 DEF RunScan
      <3> HIDE DEF l
      <3>5. l.pick <= created /\ l.now <= tick /\ (l.pick = Absent \/ InTable(l.pick))
        BY <1>0, <3>2, <3>3
      <3>6. loop' = [loop EXCEPT ![g] = l]
        BY <3>1 DEF l
      <3> QED  BY <3>3, <3>4, <3>5, <3>6
    <2> QED  BY <2>1, <2>2
  <1>2. CASE RunSelect(g)
    <2> DEFINE nxt == IF loop[g].pick = Absent THEN tick + 1 ELSE entry[loop[g].pick].next
               a == IF nxt > tick THEN "wait" ELSE "due"
               l == [at |-> a, pick |-> loop[g].pick, now |-> loop[g].now, ctx |-> gen, until |-> nxt]
    <2>1. nxt \in Nat
      <3>1. CASE loop[g].pick = Absent
        BY <1>0, <3>1
      <3>2. CASE loop[g].pick # Absent
        <4>1. loop[g].pick \in Objects
          BY <1>0, <3>2, LoopFields, ObjectsLoops DEF CronBounds
        <4>2. entry[loop[g].pick].next \in Nat
          BY <4>1 DEF CronTypes, EntryStates
        <4> QED  BY <3>2, <4>2
      <3> QED  BY <3>1, <3>2
    <2>2. loop' = [loop EXCEPT ![g] = l] /\ loop[g].at = "picked"
      BY <1>2 DEF RunSelect
    <2> HIDE DEF nxt
    <2>3. a \in {"wait", "due"}
      OBVIOUS
    <2> HIDE DEF a
    <2>4. l \in LoopStates /\ l.pick = loop[g].pick /\ l.now = loop[g].now /\ l.at = a
      BY <1>0, <2>1, <2>3, LoopFields DEF LoopStates, LoopSteps
    <2> HIDE DEF l
    <2> QED  BY <2>2, <2>3, <2>4 DEF CronBounds
  <1>3. CASE RunCancelled(g)
    <2>1. loop' = [loop EXCEPT ![g] = [loop[g] EXCEPT !.at = "done"]]
      BY <1>3 DEF RunCancelled
    <2> DEFINE l == [loop[g] EXCEPT !.at = "done"]
    <2>2. l \in LoopStates /\ l.at = "done" /\ l.pick = loop[g].pick /\ l.now = loop[g].now
      BY <1>0, LoopMoves DEF LoopSteps
    <2>3. loop[g].at \notin {"none", "done"}
      BY <1>3 DEF RunCancelled
    <2> HIDE DEF l
    <2> QED  BY <2>1, <2>2, <2>3 DEF CronBounds, l
  <1>4. CASE RunIdle(g)
    <2>1. loop' = [loop EXCEPT ![g] = [loop[g] EXCEPT !.at = "scan"]]
      BY <1>4 DEF RunIdle
    <2> DEFINE l == [loop[g] EXCEPT !.at = "scan"]
    <2>2. l \in LoopStates /\ l.at = "scan" /\ l.pick = loop[g].pick /\ l.now = loop[g].now
      BY <1>0, LoopMoves DEF LoopSteps
    <2>3. loop[g].at \notin {"none", "done"}
      BY <1>4 DEF RunIdle
    <2> HIDE DEF l
    <2> QED  BY <2>1, <2>2, <2>3 DEF CronBounds, l
  <1>5. CASE RunJob(g)
    <2>1. loop' = [loop EXCEPT ![g] = [loop[g] EXCEPT !.at = "scan"]]
      BY <1>5 DEF RunJob
    <2> DEFINE l == [loop[g] EXCEPT !.at = "scan"]
    <2>2. l \in LoopStates /\ l.at = "scan" /\ l.pick = loop[g].pick /\ l.now = loop[g].now
      BY <1>0, LoopMoves DEF LoopSteps
    <2>3. loop[g].at \notin {"none", "done"}
      BY <1>5 DEF RunJob
    <2> HIDE DEF l
    <2> QED  BY <2>1, <2>2, <2>3 DEF CronBounds, l
  <1> QED  BY <1>1, <1>2, <1>3, <1>4, <1>5 DEF CronLoop

\* What runJob does to the entry, the job goroutines and the history.
LEMMA JobStep ==
  ASSUME CronTypes, CronBounds, NEW g \in Loops, RunJob(g)
  PROVE  \E o \in Objects :
            /\ o = loop[g].pick /\ o <= created
            /\ loop[g].at \in {"wait", "due"} /\ loop'[g].at = "scan"
            /\ entry' \in [Objects -> EntryStates]
            /\ entry'[o].running /\ entry'[o].sched = entry[o].sched
            /\ \A p \in Objects : p # o => entry'[p] = entry[p]
            /\ \/ entry[o].running /\ jobs' = jobs /\ orphanRuns' = orphanRuns
               \/ /\ ~entry[o].running /\ jobs' = [jobs EXCEPT ![o] = @ + 1]
                  /\ orphanRuns' = [orphanRuns EXCEPT ![o] = @ + OrphanRun(o)]
  <1> DEFINE o == loop[g].pick
  <1>0. loop[g] \in LoopStates
    BY DEF CronTypes
  <1>1. o \in Objects /\ o <= created
    BY <1>0, LoopFields, ObjectsLoops DEF RunJob, CronBounds
  <1>2. loop[g].at \in {"wait", "due"} /\ loop'[g].at = "scan"
    <2>1. loop' = [loop EXCEPT ![g] = [loop[g] EXCEPT !.at = "scan"]]
      BY DEF RunJob
    <2>2. loop[g].at \in {"wait", "due"}
      BY DEF RunJob
    <2>3. loop'[g] = [loop[g] EXCEPT !.at = "scan"]
      BY <2>1 DEF CronTypes
    <2> QED  BY <1>0, <2>2, <2>3, LoopMoves DEF LoopSteps
  <1>3. CASE entry[o].running
    BY <1>1, <1>2, <1>3 DEF RunJob, CronTypes
  <1>4. CASE ~entry[o].running
    <2> DEFINE n == ScheduleNext(entry[o].sched, loop[g].now)
               e == [sched |-> entry[o].sched, next |-> n, running |-> TRUE]
    <2>1. n \in Nat
      BY <1>0, <1>1, ScheduleNextIsNat, LoopFields DEF CronBounds
    <2>2. entry' = [entry EXCEPT ![o] = e]
      BY <1>4 DEF RunJob
    <2> HIDE DEF n
    <2>3. e \in EntryStates /\ e.running /\ e.sched = entry[o].sched
      BY <1>1, <2>1 DEF CronBounds, EntryStates
    <2> HIDE DEF e
    <2>4. entry' \in [Objects -> EntryStates] /\ entry'[o] = e /\ \A p \in Objects : p # o => entry'[p] = entry[p]
      BY <1>1, <2>2, <2>3 DEF CronTypes
    <2>5. jobs' = [jobs EXCEPT ![o] = @ + 1] /\ orphanRuns' = [orphanRuns EXCEPT ![o] = @ + OrphanRun(o)]
      BY <1>4 DEF RunJob
    <2> QED  BY <1>1, <1>2, <1>4, <2>3, <2>4, <2>5
  <1> QED  BY <1>3, <1>4

\* The steps of a loop other than runJob leave the entries and the jobs alone.
LEMMA OtherLoopSteps ==
  ASSUME NEW g \in Loops, CronLoop(g)
  PROVE  /\ UNCHANGED <<tick, table, created, active, gen, cancelled, stopping>>
         /\ RunJob(g) \/ UNCHANGED <<entry, jobs, orphanRuns>>
  BY DEF CronLoop, RunScan, RunSelect, RunCancelled, RunIdle, RunJob

\* Every step keeps the types.
LEMMA CronTypesKept ==
  ASSUME CronTypes, CronBounds, [CronNext]_cronVars
  PROVE  CronTypes'
  <1> USE CronAssumption
  <1>1. ASSUME NEW i \in JobIds, NEW s \in Schedules, AddJob(i, s) PROVE CronTypes'
    <2> DEFINE e == [sched |-> s, next |-> ScheduleNext(s, tick), running |-> FALSE]
    <2>1. ScheduleNext(s, tick) \in Nat
      BY ScheduleNextIsNat, ObjectsLoops
    <2>2. e \in EntryStates
      BY <2>1 DEF EntryStates
    <2>3. created + 1 \in Objects /\ entry' = [entry EXCEPT ![created + 1] = e]
      BY <1>1, ObjectsLoops DEF AddJob
    <2> HIDE DEF e
    <2>4. entry' \in [Objects -> EntryStates]
      BY <2>2, <2>3 DEF CronTypes
    <2> QED  BY <1>1, <2>4 DEF CronTypes, AddJob
  <1>2. ASSUME NEW i \in JobIds, Remove(i) PROVE CronTypes'
    BY <1>2 DEF CronTypes, Remove, Absent
  <1>3. CASE Start
    <2> DEFINE l == [Idle EXCEPT !.at = "scan"]
    <2>1. l \in LoopStates /\ gen + 1 \in Loops
      BY <1>3, ObjectsLoops DEF Start, Idle, Absent, LoopStates, LoopSteps
    <2>2. loop' = [loop EXCEPT ![gen + 1] = l]
      BY <1>3 DEF Start
    <2> HIDE DEF l
    <2>3. loop' \in [Loops -> LoopStates]
      BY <2>1, <2>2, LoopUpdate
    <2> QED  BY <1>3, <2>3 DEF CronTypes, Start
  <1>4. CASE Stop
    BY <1>4 DEF CronTypes, Stop
  <1>5. CASE StopReturns
    BY <1>5 DEF CronTypes, StopReturns
  <1>6. CASE CronTick
    BY <1>6 DEF CronTypes, CronTick
  <1>7. ASSUME NEW g \in Loops, CronLoop(g) PROVE CronTypes'
    <2>1. loop' \in [Loops -> LoopStates]
      BY <1>7, LoopStep, LoopUpdate
    <2>2. UNCHANGED <<tick, table, created, gen, stopping>>
      BY <1>7, OtherLoopSteps
    <2>3. CASE RunJob(g)
      <3>1. PICK o \in Objects :
                /\ entry' \in [Objects -> EntryStates]
                /\ \/ jobs' = jobs /\ orphanRuns' = orphanRuns
                   \/ /\ jobs' = [jobs EXCEPT ![o] = @ + 1]
                      /\ orphanRuns' = [orphanRuns EXCEPT ![o] = @ + OrphanRun(o)]
        BY <2>3, JobStep
      <3>2. OrphanRun(o) \in Nat
        BY DEF OrphanRun
      <3>3. jobs' \in [Objects -> Nat] /\ orphanRuns' \in [Objects -> Nat]
        BY <3>1, <3>2 DEF CronTypes
      <3> QED  BY <2>1, <2>2, <3>1, <3>3 DEF CronTypes
    <2>4. CASE UNCHANGED <<entry, jobs, orphanRuns>>
      BY <2>1, <2>2, <2>4 DEF CronTypes
    <2> QED  BY <1>7, <2>3, <2>4, OtherLoopSteps
  <1>8. ASSUME NEW o \in Objects, JobEnds(o) PROVE CronTypes'
    <2>1. entry' = [entry EXCEPT ![o] = [entry[o] EXCEPT !.running = FALSE]]
      BY <1>8 DEF JobEnds
    <2>2. entry' \in [Objects -> EntryStates]
      BY <2>1, EntryEnds DEF CronTypes
    <2>3. jobs' \in [Objects -> Nat]
      BY <1>8 DEF CronTypes, JobEnds
    <2> QED  BY <1>8, <2>2, <2>3 DEF CronTypes, JobEnds
  <1>9. CASE UNCHANGED cronVars
    BY <1>9 DEF CronTypes, cronVars
  <1> QED
    BY <1>1, <1>2, <1>3, <1>4, <1>5, <1>6, <1>7, <1>8, <1>9 DEF CronNext

\* Every step keeps the numbering.
LEMMA CronBoundsKept ==
  ASSUME CronTypes, CronBounds, [CronNext]_cronVars
  PROVE  CronBounds'
  <1>1. ASSUME NEW i \in JobIds, NEW s \in Schedules, AddJob(i, s) PROVE CronBounds'
    <2>1. created + 1 \in Objects /\ created \in Nat /\ created' = created + 1
      BY <1>1, ObjectsLoops DEF AddJob
    <2>2. entry'[created + 1].sched = s /\ \A o \in Objects : o # created + 1 => entry'[o] = entry[o]
      BY <1>1, <2>1 DEF AddJob, CronTypes
    <2>3. \A o \in Objects : o <= created' => entry'[o].sched \in Schedules
      BY <2>1, <2>2 DEF CronBounds, Objects
    <2>4. \A j \in JobIds : table'[j] <= created'
      BY <1>1, <2>1 DEF AddJob, CronTypes, CronBounds
    <2>5. \A h \in Loops : loop[h].pick \in Nat
      BY LoopFields DEF CronTypes
    <2> QED  BY <1>1, <2>1, <2>3, <2>4, <2>5 DEF CronBounds, AddJob
  <1>2. ASSUME NEW i \in JobIds, Remove(i) PROVE CronBounds'
    <2>1. \A j \in JobIds : table'[j] <= created'
      BY <1>2, ObjectsLoops DEF Remove, CronTypes, CronBounds, Absent
    <2> QED  BY <1>2, <2>1 DEF CronBounds, Remove
  <1>3. CASE Start
    <2> DEFINE l == [Idle EXCEPT !.at = "scan"]
    <2>1. l \in LoopStates /\ l.pick = 0 /\ l.now = 0 /\ gen + 1 \in Loops
      BY <1>3, ObjectsLoops DEF Start, Idle, Absent, LoopStates, LoopSteps
    <2>2. loop' = [loop EXCEPT ![gen + 1] = l]
      BY <1>3 DEF Start
    <2> HIDE DEF l
    <2>3. loop'[gen + 1] = l /\ \A h \in Loops : h # gen + 1 => loop'[h] = loop[h]
      BY <2>1, <2>2, LoopUpdate
    <2>4. \A h \in Loops : loop'[h].pick <= created /\ loop'[h].now <= tick
      BY <2>1, <2>3, ObjectsLoops DEF CronBounds
    <2>5. cancelled' \subseteq 1..gen' /\ gen' > 0
      BY <1>3, ObjectsLoops DEF CronBounds, Start
    <2> QED  BY <1>3, <2>4, <2>5 DEF CronBounds, Start
  <1>4. CASE Stop
    <2>1. gen > 0 /\ gen \in Nat /\ cancelled \subseteq 1..gen
      BY <1>4, ObjectsLoops DEF CronBounds, Stop
    <2>2. cancelled' \subseteq 1..gen
      BY <1>4, <2>1 DEF Stop
    <2> QED  BY <1>4, <2>2 DEF CronBounds, Stop
  <1>5. CASE StopReturns
    BY <1>5 DEF CronBounds, StopReturns
  <1>6. CASE CronTick
    <2>1. \A h \in Loops : loop[h].now \in Nat
      BY LoopFields DEF CronTypes
    <2> QED  BY <1>6, <2>1, ObjectsLoops DEF CronBounds, CronTick
  <1>7. ASSUME NEW g \in Loops, CronLoop(g) PROVE CronBounds'
    <2>1. UNCHANGED <<tick, table, created, active, gen, cancelled, stopping>>
      BY <1>7, OtherLoopSteps
    <2>2. \A h \in Loops : loop'[h].pick <= created /\ loop'[h].now <= tick
      BY <1>7, LoopStep, LoopUpdate DEF CronBounds
    <2>3. \A o \in Objects : entry'[o].sched = entry[o].sched
      BY <1>7, OtherLoopSteps, JobStep
    <2> QED  BY <2>1, <2>2, <2>3 DEF CronBounds
  <1>8. ASSUME NEW o \in Objects, JobEnds(o) PROVE CronBounds'
    <2>1. entry' = [entry EXCEPT ![o] = [entry[o] EXCEPT !.running = FALSE]]
      BY <1>8 DEF JobEnds
    <2>2. \A p \in Objects : entry'[p].sched = entry[p].sched
      BY <2>1, EntryEnds DEF CronTypes
    <2> QED  BY <1>8, <2>2 DEF CronBounds, JobEnds
  <1>9. CASE UNCHANGED cronVars
    BY <1>9 DEF CronBounds, cronVars
  <1> QED
    BY <1>1, <1>2, <1>3, <1>4, <1>5, <1>6, <1>7, <1>8, <1>9 DEF CronNext

\* Every step keeps running equal to the job goroutines: runJob checks it and
\* sets it under the lock.
LEMMA OneRunKept ==
  ASSUME CronTypes, CronBounds, OneRun, [CronNext]_cronVars
  PROVE  OneRun'
  <1>1. ASSUME NEW i \in JobIds, NEW s \in Schedules, AddJob(i, s) PROVE OneRun'
    <2>1. created + 1 \in Objects /\ created \in Nat /\ created' = created + 1
      BY <1>1, ObjectsLoops DEF AddJob
    <2>2. entry'[created + 1].running = FALSE /\ \A o \in Objects : o # created + 1 => entry'[o] = entry[o]
      BY <1>1, <2>1 DEF AddJob, CronTypes
    <2>3. jobs' = jobs /\ jobs[created + 1] = 0
      BY <1>1, <2>1 DEF AddJob, OneRun
    <2> QED  BY <2>1, <2>2, <2>3 DEF OneRun, Objects
  <1>2. ASSUME NEW g \in Loops, RunJob(g) PROVE OneRun'
    <2>1. PICK o \in Objects :
            /\ o <= created /\ entry'[o].running
            /\ \A p \in Objects : p # o => entry'[p] = entry[p]
            /\ \/ entry[o].running /\ jobs' = jobs
               \/ ~entry[o].running /\ jobs' = [jobs EXCEPT ![o] = @ + 1]
      BY <1>2, JobStep
    <2>2. jobs'[o] = 1 /\ \A p \in Objects : p # o => jobs'[p] = jobs[p]
      BY <2>1 DEF CronTypes, OneRun
    <2> QED  BY <1>2, <2>1, <2>2 DEF OneRun, RunJob
  <1>3. ASSUME NEW o \in Objects, JobEnds(o) PROVE OneRun'
    <2>1. entry' = [entry EXCEPT ![o] = [entry[o] EXCEPT !.running = FALSE]]
      BY <1>3 DEF JobEnds
    <2>2. entry'[o].running = FALSE /\ \A p \in Objects : p # o => entry'[p] = entry[p]
      BY <2>1, EntryEnds DEF CronTypes
    <2>3. jobs'[o] = 0 /\ \A p \in Objects : p # o => jobs'[p] = jobs[p]
      BY <1>3 DEF CronTypes, OneRun, JobEnds
    <2> QED  BY <1>3, <2>2, <2>3 DEF OneRun, JobEnds
  <1>4. UNCHANGED <<entry, jobs, created>> => OneRun'
    BY DEF OneRun
  <1>5. ASSUME NEW g \in Loops, CronLoop(g) PROVE OneRun'
    BY <1>2, <1>4, <1>5, OtherLoopSteps
  <1> QED
    BY <1>1, <1>3, <1>4, <1>5 DEF CronNext, cronVars, Remove, Start, Stop, StopReturns, CronTick

\* Every step keeps the WaitGroup at zero once no Stop is under way.
LEMMA QuietKept ==
  ASSUME CronTypes, CronBounds, Quiet, [CronNext]_cronVars
  PROVE  Quiet'
  <1>1. ASSUME NEW i \in JobIds, NEW s \in Schedules, AddJob(i, s) PROVE Quiet'
    BY <1>1 DEF AddJob, Quiet, WaitGroupZero, LiveLoops
  <1>2. CASE Stop
    BY <1>2 DEF Stop, Quiet, CronTypes
  <1>3. ASSUME NEW g \in Loops, CronLoop(g) PROVE Quiet'
    <2>1. loop[g].at \notin {"none", "done"}
      BY <1>3, LoopStep
    <2>2. ~WaitGroupZero
      BY <2>1 DEF WaitGroupZero, LiveLoops
    <2> QED  BY <1>3, <2>2, OtherLoopSteps DEF Quiet
  <1>4. ASSUME NEW o \in Objects, JobEnds(o) PROVE Quiet'
    <2>1. ~WaitGroupZero
      BY <1>4 DEF WaitGroupZero, JobEnds, CronTypes
    <2> QED  BY <1>4, <2>1 DEF Quiet, JobEnds
  <1>5. CASE StopReturns
    BY <1>5 DEF StopReturns, Quiet, WaitGroupZero, LiveLoops
  <1>6. CASE Start
    BY <1>6 DEF Start, Quiet
  <1>7. UNCHANGED <<loop, jobs, active, stopping>> => Quiet'
    BY DEF Quiet, WaitGroupZero, LiveLoops
  <1> QED
    BY <1>1, <1>2, <1>3, <1>4, <1>5, <1>6, <1>7 DEF CronNext, cronVars, Remove, CronTick

\* The bound on orphan runs holds for an object in the table or not yet created whatever the
\* loops do.
LEMMA HoldersAreLoops ==
  ASSUME CronTypes, \A g \in Loops : g > gen => loop[g].at = "none", NEW o
  PROVE  /\ Holders(o) \subseteq 1..gen
         /\ IsFiniteSet(Holders(o)) /\ Cardinality(Holders(o)) \in Nat /\ Cardinality(Holders(o)) <= gen
  <1>1. Holders(o) \subseteq 1..gen
    BY ObjectsLoops, CronAssumption DEF Holders, Loops
  <1> QED  BY <1>1, AtMostAllLoops, ObjectsLoops

\* Every step keeps the bound: a removed entry gets no new holder, and each
\* holder runs it once.
LEMMA OrphanRunsKept ==
  ASSUME CronTypes, CronBounds, OrphanRunsBounded, [CronNext]_cronVars
  PROVE  OrphanRunsBounded'
  <1>0. CronTypes'
    BY CronTypesKept
  <1>1. ASSUME NEW i \in JobIds, NEW s \in Schedules, AddJob(i, s) PROVE OrphanRunsBounded'
    <2>1. created + 1 \in Objects /\ created \in Nat /\ created' = created + 1
      BY <1>1, ObjectsLoops DEF AddJob
    <2>2. \A j \in JobIds : table'[j] = table[j] \/ table'[j] = created + 1
      BY <1>1 DEF AddJob, CronTypes
    <2>3. \A o \in Objects : InTable(o)' \/ o > created' => orphanRuns[o] = 0
      BY <2>1, <2>2 DEF OrphanRunsBounded, InTable, Objects
    <2>4. \A o \in Objects : Holders(o)' = Holders(o)
      BY <1>1 DEF AddJob, Holders
    <2> QED  BY <1>1, <2>3, <2>4 DEF OrphanRunsBounded, AddJob
  <1>2. ASSUME NEW i \in JobIds, Remove(i) PROVE OrphanRunsBounded'
    <2>1. \A j \in JobIds : table'[j] = table[j] \/ table'[j] = 0
      BY <1>2 DEF Remove, CronTypes, Absent
    <2>2. \A o \in Objects : InTable(o)' => InTable(o)
      BY <2>1 DEF InTable, Objects
    <2>3. \A o \in Objects : Holders(o)' = Holders(o)
      BY <1>2 DEF Remove, Holders
    <2> QED  BY <1>2, <2>2, <2>3 DEF OrphanRunsBounded, Remove
  <1>3. CASE Start
    <2> DEFINE l == [Idle EXCEPT !.at = "scan"]
    <2>1. l \in LoopStates /\ l.at = "scan" /\ gen + 1 \in Loops /\ gen \in Nat
      BY <1>3, ObjectsLoops DEF Start, Idle, Absent, LoopStates, LoopSteps
    <2>2. loop' = [loop EXCEPT ![gen + 1] = l]
      BY <1>3 DEF Start
    <2> HIDE DEF l
    <2>3. loop'[gen + 1] = l /\ \A h \in Loops : h # gen + 1 => loop'[h] = loop[h]
      BY <2>1, <2>2, LoopUpdate
    <2>4. \A h \in Loops : h > gen' => loop'[h].at = "none"
      BY <1>3, <2>1, <2>3 DEF OrphanRunsBounded, Start, Loops
    <2>5. \A o \in Objects : Holders(o)' = Holders(o)
      <3>1. loop[gen + 1].at = "none"
        BY <2>1 DEF OrphanRunsBounded
      <3> QED  BY <2>1, <2>3, <3>1 DEF Holders
    <2>6. \A o \in Objects : orphanRuns[o] + Cardinality(Holders(o)) <= gen'
      <3> SUFFICES ASSUME NEW o \in Objects PROVE orphanRuns[o] + Cardinality(Holders(o)) <= gen'
        OBVIOUS
      <3>1. Cardinality(Holders(o)) \in Nat /\ orphanRuns[o] \in Nat
        BY HoldersAreLoops DEF OrphanRunsBounded, CronTypes
      <3> QED  BY <1>3, <2>1, <3>1 DEF OrphanRunsBounded, Start
    <2>7. \A o \in Objects : InTable(o)' = InTable(o)
      BY <1>3 DEF Start, InTable
    <2> QED  BY <1>3, <2>4, <2>5, <2>6, <2>7 DEF OrphanRunsBounded, Start
  <1>4. ASSUME NEW g \in Loops, CronLoop(g) PROVE OrphanRunsBounded'
    <2>0. UNCHANGED <<tick, table, created, active, gen, cancelled, stopping>>
      BY <1>4, OtherLoopSteps
    <2>1. PICK l \in LoopStates :
            /\ loop' = [loop EXCEPT ![g] = l]
            /\ loop[g].at \notin {"none", "done"}
            /\ \/ l.at \in {"scan", "done"}
               \/ l.at = "picked" /\ (l.pick = Absent \/ InTable(l.pick))
               \/ l.at \in {"wait", "due"} /\ loop[g].at = "picked" /\ l.pick = loop[g].pick
      BY <1>4, LoopStep
    <2>2. loop'[g] = l /\ \A h \in Loops : h # g => loop'[h] = loop[h]
      BY <2>1, LoopUpdate
    <2>3. \A h \in Loops : h > gen' => loop'[h].at = "none"
      BY <2>0, <2>1, <2>2 DEF OrphanRunsBounded
    <2>4. \A o \in Objects : InTable(o)' = InTable(o)
      BY <2>0 DEF InTable
    <2>5. ASSUME NEW o \in Objects, ~InTable(o)
          PROVE  Holders(o)' \subseteq Holders(o)
      BY <2>1, <2>2, <2>5 DEF Holders, Absent, Objects
    <2>6. ASSUME NEW o \in Objects, InTable(o) \/ o > created
          PROVE  orphanRuns'[o] = 0
      <3>1. orphanRuns[o] = 0
        BY <2>6 DEF OrphanRunsBounded
      <3>2. CASE RunJob(g)
        <4>1. PICK p \in Objects :
                /\ p <= created
                /\ \/ orphanRuns' = orphanRuns
                   \/ orphanRuns' = [orphanRuns EXCEPT ![p] = @ + OrphanRun(p)]
          BY <3>2, JobStep
        <4>2. p = o => OrphanRun(p) = 0
          BY <2>6, <4>1, ObjectsLoops DEF OrphanRun, InTable, Objects
        <4> QED  BY <3>1, <4>1, <4>2 DEF CronTypes
      <3> QED  BY <1>4, <3>1, <3>2, OtherLoopSteps
    <2>7. ASSUME NEW o \in Objects
          PROVE  orphanRuns'[o] + Cardinality(Holders(o)') <= gen'
      <3>1. /\ IsFiniteSet(Holders(o)') /\ Cardinality(Holders(o)') \in Nat /\ Cardinality(Holders(o)') <= gen'
            /\ IsFiniteSet(Holders(o)) /\ Cardinality(Holders(o)) \in Nat
        <4>1. /\ IsFiniteSet(Holders(o)) /\ Cardinality(Holders(o)) \in Nat
          BY HoldersAreLoops DEF OrphanRunsBounded
        <4>2. Holders(o)' \subseteq 1..gen
          BY <1>0, <2>0, <2>3, CronAssumption DEF Holders, Loops, CronTypes
        <4> QED  BY <2>0, <4>1, <4>2, AtMostAllLoops, ObjectsLoops
      <3>2. CASE InTable(o) \/ o > created
        BY <2>0, <2>6, <3>1, <3>2, ObjectsLoops
      <3>3. CASE ~InTable(o) /\ orphanRuns'[o] = orphanRuns[o]
        <4>1. Cardinality(Holders(o)') <= Cardinality(Holders(o))
          BY <2>5, <3>1, <3>3, FS_Subset
        <4> QED  BY <2>0, <3>1, <3>3, <4>1, ObjectsLoops DEF OrphanRunsBounded, CronTypes
      <3>4. CASE ~InTable(o) /\ orphanRuns'[o] # orphanRuns[o]
        <4>1. RunJob(g)
          BY <1>4, <3>4, OtherLoopSteps
        <4>2. PICK p \in Objects :
                /\ p = loop[g].pick /\ loop[g].at \in {"wait", "due"} /\ loop'[g].at = "scan"
                /\ \/ orphanRuns' = orphanRuns
                   \/ orphanRuns' = [orphanRuns EXCEPT ![p] = @ + OrphanRun(p)]
          BY <4>1, JobStep
        <4>3. p = o /\ orphanRuns'[o] = orphanRuns[o] + 1
          BY <3>4, <4>2 DEF CronTypes, OrphanRun
        <4>4. g \in Holders(o) /\ g \notin Holders(o)'
          BY <4>2, <4>3 DEF Holders
        <4>5. Holders(o)' \subseteq Holders(o) \ {g}
          BY <2>5, <3>4, <4>4
        <4>6. Cardinality(Holders(o) \ {g}) = Cardinality(Holders(o)) - 1 /\ IsFiniteSet(Holders(o) \ {g})
          BY <3>1, <4>4, FS_RemoveElement
        <4>7. Cardinality(Holders(o)') <= Cardinality(Holders(o)) - 1
          BY <4>5, <4>6, FS_Subset
        <4> QED  BY <2>0, <3>1, <4>3, <4>7, ObjectsLoops DEF OrphanRunsBounded, CronTypes
      <3> QED  BY <3>2, <3>3, <3>4
    <2> QED  BY <2>0, <2>3, <2>4, <2>6, <2>7 DEF OrphanRunsBounded
  <1>5. UNCHANGED <<loop, table, created, gen, orphanRuns>> => OrphanRunsBounded'
    BY DEF OrphanRunsBounded, Holders, InTable
  <1> QED
    BY <1>1, <1>2, <1>3, <1>4, <1>5 DEF CronNext, cronVars, Stop, StopReturns, CronTick, JobEnds

\* Every step keeps the invariant of the scheduler.
LEMMA CronPreserved == CronInv /\ [CronNext]_cronVars => CronInv'
  BY CronTypesKept, CronBoundsKept, OneRunKept, QuietKept, OrphanRunsKept DEF CronInv

\* It holds initially ...
LEMMA CronInitially == CronInit => CronInv
  <1> SUFFICES ASSUME CronInit PROVE CronInv
    OBVIOUS
  <1> USE CronAssumption
  <1>1. CronTypes
    <2>1. [sched |-> CHOOSE s \in Schedules : TRUE, next |-> 0, running |-> FALSE] \in EntryStates
      BY DEF EntryStates
    <2>2. Idle \in LoopStates
      BY DEF Idle, Absent, LoopStates, LoopSteps
    <2>3. entry \in [Objects -> EntryStates]
      BY <2>1 DEF CronInit
    <2>4. loop \in [Loops -> LoopStates]
      BY <2>2 DEF CronInit
    <2>5. /\ tick \in 0..MaxTick /\ created \in 0..MaxEntries /\ gen \in 0..MaxStarts
          /\ table \in [JobIds -> Nat] /\ stopping \in Nat
          /\ jobs \in [Objects -> Nat] /\ orphanRuns \in [Objects -> Nat]
      BY DEF CronInit, Absent
    <2> QED  BY <2>3, <2>4, <2>5 DEF CronTypes
  <1>2. CronBounds
    BY DEF CronInit, CronBounds, Objects, Idle, Absent
  <1>3. OneRun /\ Quiet
    BY DEF CronInit, OneRun, Quiet, WaitGroupZero, LiveLoops, Idle
  <1>4. OrphanRunsBounded
    <2>1. \A o \in Objects : Holders(o) = {}
      BY DEF CronInit, Holders, Idle
    <2>2. \A o \in Objects : Cardinality(Holders(o)) = 0
      BY <2>1, FS_EmptySet
    <2>3. gen = 0 /\ \A o \in Objects : orphanRuns[o] = 0
      BY DEF CronInit
    <2>4. \A g \in Loops : loop[g].at = "none"
      BY DEF CronInit, Idle
    <2> QED  BY <2>2, <2>3, <2>4 DEF OrphanRunsBounded
  <1> QED  BY <1>1, <1>2, <1>3, <1>4 DEF CronInv

\* ... and implies the types and the property.
LEMMA CronInvImplies == CronInv => CronTypeOK /\ JobsContained
  <1> SUFFICES ASSUME CronInv PROVE CronTypeOK /\ JobsContained
    OBVIOUS
  <1>1. CronTypes /\ CronBounds /\ OneRun /\ Quiet /\ OrphanRunsBounded
    BY DEF CronInv
  <1>2. \A o \in Objects : jobs[o] <= 1
    BY <1>1 DEF OneRun
  <1>3. ASSUME NEW o \in Objects PROVE orphanRuns[o] <= gen
    BY <1>1, HoldersAreLoops, ObjectsLoops DEF OrphanRunsBounded, CronTypes
  <1>4. \A o \in Objects : entry[o].running \in BOOLEAN /\ entry[o].next \in Nat
    BY <1>1 DEF CronTypes, EntryStates
  <1>5. \A g \in Loops : loop[g].pick \in 0..created /\ loop[g].now \in 0..tick
    BY <1>1, LoopFields, ObjectsLoops DEF CronTypes, CronBounds
  <1>6. table \in [JobIds -> 0..created]
    BY <1>1, ObjectsLoops DEF CronTypes, CronBounds
  <1> QED  BY <1>1, <1>2, <1>3, <1>4, <1>5, <1>6 DEF CronTypes, CronBounds, CronTypeOK, Quiet, JobsContained

\* For any number of jobs, entries, starts and stops: a job never runs twice at a
\* time, once Stop has returned no job runs and the WaitGroup is at zero, and an
\* entry that is removed is run at most once more by each loop that had picked it.
THEOREM JobsStayContained == FacilitiesSpec => []JobsContained
  <1>1. FacilitiesInit => CronInv
    BY CronInitially DEF FacilitiesInit
  <1> QED  BY <1>1, CronStep, CronPreserved, CronInvImplies, PTL DEF FacilitiesSpec

----------------------------------------------------------------------------
(* The caches *)

\* A step of the facilities is a step of the cache or leaves its variables alone.
LEMMA CacheStep == [FacilitiesNext]_facilityVars => [CacheNext]_cacheVars
  BY DEF FacilitiesNext, facilityVars, cacheVars

ReadStates == [at : {"idle", "load", "store"}, key : CacheKeys \union {"none"}, val : Nat]

Entries == [val : Nat, exp : Nat]

CacheTypes ==
    /\ cacheTime \in Nat
    /\ truth \in [CacheKeys -> Nat] /\ settled \in [CacheKeys -> Nat]
    /\ items \in [DOMAIN items -> Entries] /\ DOMAIN items \subseteq CacheKeys
    /\ reader \in [Readers -> ReadStates]
    /\ \A r \in Readers : reader[r].at # "idle" => reader[r].key \in CacheKeys

\* Every entry, expired or not, is as new as the last update whose Delete has finished, or
\* was stored from a load that overlapped that Delete.
EntriesFresh ==
    /\ \A k \in CacheKeys : settled[k] <= truth[k]
    /\ \A k \in DOMAIN items : items[k].val >= settled[k] \/ k \in overlap

CacheInv == CacheTypes /\ EntriesFresh

----------------------------------------------------------------------------
\* The fields of an entry.
LEMMA EntryFields ==
  ASSUME NEW i \in Entries
  PROVE  i.val \in Nat /\ i.exp \in Nat
  BY DEF Entries

\* What storing under a key does: the other entries that are left are the old ones.
Stored(f, k, v) ==
    /\ f \in [DOMAIN f -> Entries]
    /\ k \in DOMAIN f /\ DOMAIN f \subseteq DOMAIN items \union {k}
    /\ f[k].val = v
    /\ \A j \in DOMAIN f : j # k => f[j] = items[j]

\* With stores the value under the key.
LEMMA WithStores ==
  ASSUME CacheTypes, NEW k \in CacheKeys, NEW v \in Nat, NEW exp \in Nat,
         NEW f, f \in [DOMAIN f -> Entries], DOMAIN f \subseteq DOMAIN items, \A j \in DOMAIN f : f[j] = items[j]
  PROVE  Stored(With(f, k, v, exp), k, v)
  <1> DEFINE w == With(f, k, v, exp)
  <1>1. [val |-> v, exp |-> exp] \in Entries /\ [val |-> v, exp |-> exp].val = v
    BY DEF Entries
  <1>2. /\ DOMAIN w = DOMAIN f \union {k} /\ w[k] = [val |-> v, exp |-> exp]
        /\ \A j \in DOMAIN f : j # k => w[j] = f[j]
        /\ w = [j \in DOMAIN f \union {k} |-> w[j]]
    BY DEF With
  <1> HIDE DEF w
  <1>3. \A j \in DOMAIN w : w[j] \in Entries
    BY <1>1, <1>2
  <1>4. w \in [DOMAIN w -> Entries]
    BY <1>2, <1>3
  <1>5. k \in DOMAIN w /\ DOMAIN w \subseteq DOMAIN items \union {k} /\ w[k].val = v
    BY <1>1, <1>2
  <1>6. \A j \in DOMAIN w : j # k => w[j] = items[j]
    BY <1>2
  <1> QED  BY <1>4, <1>5, <1>6 DEF Stored, w

\* Removed takes one key away.
LEMMA RemovedEntry ==
  ASSUME CacheTypes, NEW k
  PROVE  /\ DOMAIN Removed(k) = DOMAIN items \ {k}
         /\ Removed(k) \in [DOMAIN Removed(k) -> Entries]
         /\ \A j \in DOMAIN Removed(k) : Removed(k)[j] = items[j]
  BY DEF Removed, CacheTypes

\* The expiry of a new entry is a time, or 0 for none.
LEMMA SetExpirationIsNat ==
  ASSUME CacheTypes, NEW e \in Expirations
  PROVE  SetExpiration(e) \in Nat
  BY CacheAssumption DEF SetExpiration, CacheTypes

\* Set stores the value under its key; eviction only takes entries away.
LEMMA PutStores ==
  ASSUME CacheTypes, NEW k \in CacheKeys, NEW v \in Nat, NEW e \in Expirations, Put(k, v, e)
  PROVE  Stored(items', k, v)
  <1>1. PICK f \in Evicted(k) : items' = With(f, k, v, SetExpiration(e))
    BY DEF Put
  <1>2. f \in [DOMAIN f -> Entries] /\ DOMAIN f \subseteq DOMAIN items /\ \A j \in DOMAIN f : f[j] = items[j]
    <2>1. CASE \E o \in DOMAIN items : f = Removed(o)
      BY <2>1, RemovedEntry
    <2>2. CASE f = items
      BY <2>2 DEF CacheTypes
    <2> QED  BY <1>1, <2>1, <2>2 DEF Evicted, Oldest
  <1> QED  BY <1>1, <1>2, WithStores, SetExpirationIsNat

----------------------------------------------------------------------------
\* Storing a value under a key keeps the types and the freshness of the entries.
LEMMA StoredKeeps ==
  ASSUME CacheTypes, EntriesFresh, NEW k \in CacheKeys, NEW v \in Nat, Stored(items', k, v),
         UNCHANGED <<truth, settled>>,
         overlap' = (IF v < settled[k] THEN overlap \union {k} ELSE overlap \ {k})
  PROVE  /\ items' \in [DOMAIN items' -> Entries] /\ DOMAIN items' \subseteq CacheKeys
         /\ EntriesFresh'
  <1>1. items' \in [DOMAIN items' -> Entries] /\ DOMAIN items' \subseteq CacheKeys
    BY DEF Stored, CacheTypes
  <1>2. ASSUME NEW j \in DOMAIN items' PROVE items'[j].val >= settled[j] \/ j \in overlap'
    <2>1. CASE j = k
      BY <2>1 DEF Stored, CacheTypes
    <2>2. CASE j # k
      <3>1. j \in DOMAIN items /\ items'[j] = items[j]
        BY <2>2 DEF Stored
      <3>2. items[j].val >= settled[j] \/ j \in overlap
        BY <3>1 DEF EntriesFresh
      <3>3. j \in overlap => j \in overlap'
        BY <2>2
      <3> QED  BY <3>1, <3>2, <3>3
    <2> QED  BY <2>1, <2>2
  <1> QED  BY <1>1, <1>2 DEF EntriesFresh

\* Taking entries away, or changing when they expire, keeps everything.
LEMMA FewerKeeps ==
  ASSUME CacheInv, items' \in [DOMAIN items' -> Entries], DOMAIN items' \subseteq DOMAIN items,
         \A j \in DOMAIN items' : items'[j].val = items[j].val,
         UNCHANGED <<cache, truth, overlap, cacheTime>>,
         \A k \in CacheKeys : settled'[k] = settled[k] \/ (settled'[k] = truth[k] /\ k \notin DOMAIN items'),
         settled' \in [CacheKeys -> Nat]
  PROVE  EntriesFresh'
  <1>1. \A k \in CacheKeys : settled'[k] <= truth[k]
    BY DEF CacheInv, CacheTypes, EntriesFresh
  <1>2. \A k \in DOMAIN items' : items'[k].val >= settled'[k] \/ k \in overlap
    BY DEF CacheInv, CacheTypes, EntriesFresh
  <1> QED  BY <1>1, <1>2 DEF EntriesFresh

\* Writing the record of one reader.
LEMMA ReaderUpdate ==
  ASSUME CacheTypes, NEW r \in Readers, NEW l \in ReadStates, l.at # "idle" => l.key \in CacheKeys,
         reader' = [reader EXCEPT ![r] = l]
  PROVE  reader' \in [Readers -> ReadStates] /\ \A q \in Readers : reader'[q].at # "idle" => reader'[q].key \in CacheKeys
  BY DEF CacheTypes

\* A reader at rest.
LEMMA NoReadState == NoRead \in ReadStates /\ NoRead.at = "idle"
  BY DEF NoRead, ReadStates

\* GetOrSet, its first look at the cache.
LEMMA GetOrSetGetKeeps ==
  ASSUME CacheInv, NEW r \in Readers, NEW k \in CacheKeys, GetOrSetGet(r, k)
  PROVE  CacheInv'
  <1> DEFINE l == [at |-> "load", key |-> k, val |-> 0]
  <1>1. l \in ReadStates /\ l.key = k
    BY DEF ReadStates
  <1>2. reader' = [reader EXCEPT ![r] = l]
    BY DEF GetOrSetGet
  <1> HIDE DEF l
  <1>3. reader' \in [Readers -> ReadStates] /\ \A q \in Readers : reader'[q].at # "idle" => reader'[q].key \in CacheKeys
    BY <1>1, <1>2, ReaderUpdate DEF CacheInv
  <1> QED  BY <1>3 DEF CacheInv, CacheTypes, EntriesFresh, GetOrSetGet

\* GetOrSet, the load from the source.
LEMMA GetOrSetLoadKeeps ==
  ASSUME CacheInv, NEW r \in Readers, GetOrSetLoad(r)
  PROVE  CacheInv'
  <1>1. ASSUME reader' = [reader EXCEPT ![r].at = "store", ![r].val = truth[reader[r].key]]
        PROVE  reader' \in [Readers -> ReadStates] /\ \A q \in Readers : reader'[q].at # "idle" => reader'[q].key \in CacheKeys
    <2> DEFINE l == [reader[r] EXCEPT !.at = "store", !.val = truth[reader[r].key]]
    <2>1. reader[r] \in ReadStates /\ reader[r].key \in CacheKeys /\ truth[reader[r].key] \in Nat
      BY DEF CacheInv, CacheTypes, GetOrSetLoad
    <2>2. l \in ReadStates /\ l.key = reader[r].key
      BY <2>1 DEF ReadStates
    <2>3. reader' = [reader EXCEPT ![r] = l]
      BY <1>1
    <2> HIDE DEF l
    <2> QED  BY <2>1, <2>2, <2>3, ReaderUpdate DEF CacheInv
  <1>2. ASSUME reader' = [reader EXCEPT ![r] = NoRead]
        PROVE  reader' \in [Readers -> ReadStates] /\ \A q \in Readers : reader'[q].at # "idle" => reader'[q].key \in CacheKeys
    BY <1>2, NoReadState, ReaderUpdate DEF CacheInv
  <1> QED  BY <1>1, <1>2 DEF CacheInv, CacheTypes, EntriesFresh, GetOrSetLoad

\* GetOrSet, the store of what it loaded: a value that is settled since goes to
\* overlap.
LEMMA GetOrSetStoreKeeps ==
  ASSUME CacheInv, NEW r \in Readers, NEW e \in Expirations, GetOrSetStore(r, e)
  PROVE  CacheInv'
  <1> DEFINE k == reader[r].key
             v == reader[r].val
  <1>1. k \in CacheKeys /\ v \in Nat
    BY DEF CacheInv, CacheTypes, GetOrSetStore, ReadStates
  <1>2. /\ Put(k, v, e) /\ overlap' = IF v < settled[k] THEN overlap \union {k} ELSE overlap \ {k}
        /\ reader' = [reader EXCEPT ![r] = NoRead]
        /\ UNCHANGED <<cache, cacheTime, truth, settled>>
    BY DEF GetOrSetStore
  <1> HIDE DEF k, v
  <1>3. Stored(items', k, v)
    BY <1>1, <1>2, PutStores DEF CacheInv
  <1>4. items' \in [DOMAIN items' -> Entries] /\ DOMAIN items' \subseteq CacheKeys /\ EntriesFresh'
    BY <1>1, <1>2, <1>3, StoredKeeps DEF CacheInv
  <1>5. reader' \in [Readers -> ReadStates] /\ \A q \in Readers : reader'[q].at # "idle" => reader'[q].key \in CacheKeys
    BY <1>2, NoReadState, ReaderUpdate DEF CacheInv
  <1>6. CacheTypes'
    BY <1>2, <1>4, <1>5 DEF CacheInv, CacheTypes
  <1> QED  BY <1>4, <1>6 DEF CacheInv

\* The source changes.
LEMMA UpdateKeeps ==
  ASSUME CacheInv, NEW k \in CacheKeys, Update(k)
  PROVE  CacheInv'
  <1>1. truth' \in [CacheKeys -> Nat] /\ \A j \in CacheKeys : truth'[j] >= truth[j]
    BY DEF Update, CacheInv, CacheTypes
  <1>2. \A j \in CacheKeys : settled[j] <= truth'[j]
    BY <1>1 DEF CacheInv, CacheTypes, EntriesFresh
  <1> QED  BY <1>1, <1>2 DEF CacheInv, CacheTypes, EntriesFresh, Update

\* Delete settles the source's value, and the key is gone.
LEMMA DeleteKeeps ==
  ASSUME CacheInv, NEW k \in CacheKeys, Delete(k)
  PROVE  CacheInv'
  <1>1. items' \in [DOMAIN items' -> Entries] /\ DOMAIN items' = DOMAIN items \ {k} /\ \A j \in DOMAIN items' : items'[j] = items[j]
    BY RemovedEntry DEF Delete, CacheInv
  <1>2. settled' \in [CacheKeys -> Nat] /\ settled'[k] = truth[k] /\ \A j \in CacheKeys : j # k => settled'[j] = settled[j]
    BY DEF Delete, CacheInv, CacheTypes
  <1>3. EntriesFresh'
    <2>1. \A j \in CacheKeys : settled'[j] <= truth[j]
      BY <1>2 DEF CacheInv, CacheTypes, EntriesFresh
    <2>2. \A j \in DOMAIN items' : items'[j].val >= settled'[j] \/ j \in overlap'
      BY <1>1, <1>2 DEF CacheInv, CacheTypes, EntriesFresh, Delete
    <2> QED  BY <2>1, <2>2 DEF EntriesFresh, Delete
  <1>4. CacheTypes'
    BY <1>1, <1>2 DEF CacheInv, CacheTypes, Delete
  <1> QED  BY <1>3, <1>4 DEF CacheInv

\* Set.
LEMMA SetKeeps ==
  ASSUME CacheInv, NEW k \in CacheKeys, NEW e \in Expirations, Set(k, e)
  PROVE  CacheInv'
  <1>1. truth[k] \in Nat /\ ~(truth[k] < settled[k])
    BY DEF CacheInv, CacheTypes, EntriesFresh
  <1>2. Put(k, truth[k], e) /\ overlap' = overlap \ {k} /\ UNCHANGED <<cache, cacheTime, truth, settled, reader>>
    BY DEF Set
  <1>3. Stored(items', k, truth[k])
    BY <1>1, <1>2, PutStores DEF CacheInv
  <1>4. items' \in [DOMAIN items' -> Entries] /\ DOMAIN items' \subseteq CacheKeys /\ EntriesFresh'
    BY <1>1, <1>2, <1>3, StoredKeeps DEF CacheInv
  <1>5. CacheTypes'
    BY <1>2, <1>4 DEF CacheInv, CacheTypes
  <1> QED  BY <1>4, <1>5 DEF CacheInv

\* SetNX.
LEMMA SetNXKeeps ==
  ASSUME CacheInv, NEW k \in CacheKeys, NEW e \in Expirations, SetNX(k, e)
  PROVE  CacheInv'
  <1> DEFINE x == IF e > 0 THEN cacheTime + e ELSE 0
  <1>1. truth[k] \in Nat /\ ~(truth[k] < settled[k]) /\ x \in Nat
    BY CacheAssumption DEF CacheInv, CacheTypes, EntriesFresh
  <1>2. /\ items' = With(items, k, truth[k], x) /\ overlap' = overlap \ {k}
        /\ UNCHANGED <<cache, cacheTime, truth, settled, reader>>
    BY DEF SetNX
  <1> HIDE DEF x
  <1>3. Stored(items', k, truth[k])
    BY <1>1, <1>2, WithStores DEF CacheInv, CacheTypes
  <1>4. items' \in [DOMAIN items' -> Entries] /\ DOMAIN items' \subseteq CacheKeys /\ EntriesFresh'
    BY <1>1, <1>2, <1>3, StoredKeeps DEF CacheInv
  <1>5. CacheTypes'
    BY <1>2, <1>4 DEF CacheInv, CacheTypes
  <1> QED  BY <1>4, <1>5 DEF CacheInv

\* Expiry, cleanup and Clear take entries away.
LEMMA RemovalsKeep ==
  ASSUME CacheInv, NEW S, items' = [k \in DOMAIN items \ S |-> items[k]],
         UNCHANGED <<cache, cacheTime, truth, settled, reader, overlap>>
  PROVE  CacheInv'
  <1>1. items' \in [DOMAIN items' -> Entries] /\ DOMAIN items' \subseteq DOMAIN items /\ \A j \in DOMAIN items' : items'[j] = items[j]
    BY DEF CacheInv, CacheTypes
  <1>2. EntriesFresh'
    BY <1>1, FewerKeeps DEF CacheInv, CacheTypes
  <1>3. CacheTypes'
    BY <1>1 DEF CacheInv, CacheTypes
  <1> QED  BY <1>2, <1>3 DEF CacheInv

\* Expire changes when an entry expires.
LEMMA ExpireKeeps ==
  ASSUME CacheInv, NEW k \in CacheKeys, NEW e \in Expirations, Expire(k, e)
  PROVE  CacheInv'
  <1>1. k \in DOMAIN items /\ items[k] \in Entries /\ cacheTime + e \in Nat
    BY CacheAssumption DEF CacheInv, CacheTypes, Expire
  <1>2. [items[k] EXCEPT !.exp = cacheTime + e] \in Entries /\ [items[k] EXCEPT !.exp = cacheTime + e].val = items[k].val
    BY <1>1 DEF Entries
  <1>3. items' = [items EXCEPT ![k] = [items[k] EXCEPT !.exp = cacheTime + e]]
    BY DEF Expire
  <1>4. items' \in [DOMAIN items' -> Entries] /\ DOMAIN items' = DOMAIN items /\ \A j \in DOMAIN items' : items'[j].val = items[j].val
    BY <1>1, <1>2, <1>3 DEF CacheInv, CacheTypes
  <1>5. EntriesFresh'
    BY <1>4, FewerKeeps DEF CacheInv, CacheTypes, Expire
  <1>6. CacheTypes'
    BY <1>4 DEF CacheInv, CacheTypes, Expire
  <1> QED  BY <1>5, <1>6 DEF CacheInv

\* Every step keeps the invariant of the cache.
LEMMA CachePreserved == CacheInv /\ [CacheNext]_cacheVars => CacheInv'
  <1> SUFFICES ASSUME CacheInv, [CacheNext]_cacheVars PROVE CacheInv'
    OBVIOUS
  <1>1. CASE DeleteExpired
    <2>1. items' = [k \in DOMAIN items \ {j \in DOMAIN items : ItemExpired(items[j])} |-> items[k]]
      BY <1>1 DEF DeleteExpired
    <2> QED  BY <1>1, <2>1, RemovalsKeep DEF DeleteExpired
  <1>2. CASE Clear
    <2>1. CASE cache = "memory"
      <3>1. items' = [k \in DOMAIN items \ DOMAIN items |-> items[k]]
        BY <1>2, <2>1 DEF Clear
      <3> QED  BY <1>2, <3>1, RemovalsKeep DEF Clear
    <2>2. CASE cache # "memory"
      BY <1>2, <2>2 DEF Clear, CacheInv, CacheTypes, EntriesFresh
    <2> QED  BY <2>1, <2>2
  <1>3. ASSUME NEW k \in CacheKeys, ClearStep(k) PROVE CacheInv'
    <2>1. CASE items' = Removed(k)
      <3>1. items' = [j \in DOMAIN items \ {k} |-> items[j]]
        BY <2>1 DEF Removed
      <3>2. UNCHANGED <<cache, cacheTime, truth, settled, reader, overlap>>
        BY <1>3 DEF ClearStep
      <3> QED  BY <3>1, <3>2, RemovalsKeep
    <2>2. CASE UNCHANGED items
      BY <1>3, <2>2 DEF ClearStep, CacheInv, CacheTypes, EntriesFresh
    <2> QED  BY <1>3, <2>1, <2>2 DEF ClearStep
  <1>4. CASE CacheTick
    BY <1>4 DEF CacheTick, CacheInv, CacheTypes, EntriesFresh
  <1>5. CASE UNCHANGED cacheVars
    BY <1>5 DEF cacheVars, CacheInv, CacheTypes, EntriesFresh
  <1> QED
    BY <1>1, <1>2, <1>3, <1>4, <1>5, GetOrSetGetKeeps, GetOrSetLoadKeeps, GetOrSetStoreKeeps, UpdateKeeps, DeleteKeeps,
       SetKeeps, SetNXKeeps, ExpireKeeps DEF CacheNext

\* It holds initially.
LEMMA CacheInitially == CacheInit => CacheInv
  <1> SUFFICES ASSUME CacheInit PROVE CacheInv
    OBVIOUS
  <1>1. DOMAIN items = {} /\ items \in [DOMAIN items -> Entries]
    BY DEF CacheInit
  <1>2. CacheTypes
    BY <1>1, NoReadState DEF CacheInit, CacheTypes
  <1>3. EntriesFresh
    BY <1>1 DEF CacheInit, EntriesFresh
  <1> QED  BY <1>2, <1>3 DEF CacheInv

\* For every set of keys, limit and expiration: an entry is no older than the
\* last Delete or Set that settled its key, unless a GetOrSet that overlapped
\* with it stored it.
THEOREM CacheStaysFresh == FacilitiesSpec => []CacheFresh
  <1>1. FacilitiesInit => CacheInv
    BY CacheInitially DEF FacilitiesInit
  <1>2. CacheInv => CacheFresh
    BY DEF CacheInv, EntriesFresh, CacheFresh, Found
  <1> QED
    BY <1>1, <1>2, CacheStep, CachePreserved, PTL DEF FacilitiesSpec

----------------------------------------------------------------------------
(* The delay queue *)

\* A step of the facilities is a step of the delay queue or leaves its variables
\* alone.
LEMMA DelayStep == [FacilitiesNext]_facilityVars => [DelayNext]_delayVars
  BY DEF FacilitiesNext, facilityVars, delayVars

ConsumerIds == 1..MaxConsumers
ConsumerSteps == {"none", "select", "pop", "blocked", "done"}
ConsumerStates == [at : ConsumerSteps, now : Nat, left : Nat]

\* A state of a consumer at time t: the polls left are counted down to the last.
ConsumerAt(c, t) ==
    /\ c \in ConsumerStates
    /\ c.now <= t /\ c.left <= PollSize
    /\ c.at = "pop" => c.left > 0

QueueEntries == [msg : DelayMessages, exec : Nat]
Handovers == [msg : DelayMessages \union {Decode(q) : q \in QueueEntries}, at : Nat, exec : Nat]

DelayTypes ==
    /\ clock \in 1..MaxDelayTime
    /\ queue \subseteq QueueEntries /\ IsFiniteSet(queue)
    /\ unpushed \subseteq DelayMessages /\ topics \subseteq DelayTopics
    /\ consumer \in [ConsumerIds -> ConsumerStates]
    /\ \A k \in ConsumerIds : ConsumerAt(consumer[k], clock)
    /\ handed \in Seq(Handovers)

\* A message is in one place: not pushed, in the queue, or handed to its handler.
OnePlace ==
    /\ \A p, q \in queue : p.msg = q.msg => p = q
    /\ \A q \in queue : q.msg \notin unpushed
    /\ \A i \in 1..Len(handed) :
        /\ handed[i].at >= handed[i].exec
        /\ \A q \in queue : handed[i].msg.id # q.msg.id
        /\ \A m \in unpushed : handed[i].msg.id # m.id
    /\ \A i, j \in 1..Len(handed) : handed[i].msg.id = handed[j].msg.id => i = j

Starting == {c \in Controllers : control[c] = "start"}

\* The consumers started are the first ones, and every Start that has published running
\* finds one left.
ConsumersNumbered ==
    /\ control \in [Controllers -> {"idle", "start", "wait", "panicked"}]
    /\ IsFiniteSet(Starting)
    /\ \E n \in Nat : Started = 1..n /\ n + Cardinality(Starting) <= MaxConsumers
    /\ cancelOf \in {0} \union Started /\ ended \subseteq Started

DelayInv == DelayTypes /\ OnePlace /\ ConsumersNumbered

----------------------------------------------------------------------------
\* The parts of a queued message; Decode keeps the ID.
LEMMA EntryParts ==
  ASSUME NEW q \in QueueEntries
  PROVE  q.msg \in DelayMessages /\ q.exec \in Nat /\ Decode(q).id = q.msg.id
  BY DEF QueueEntries, Decode

\* Handing messages that leave the queue to their handlers keeps every message in one place.
LEMMA HandingKeepsOnePlace ==
  ASSUME DelayTypes, OnePlace, queue' \subseteq queue, UNCHANGED unpushed,
         NEW new \in Seq(Handovers), handed' = handed \o new,
         \A i \in 1..Len(new) : new[i].at >= new[i].exec /\ \E q \in queue \ queue' : new[i].msg.id = q.msg.id,
         \A i, j \in 1..Len(new) : new[i].msg.id = new[j].msg.id => i = j
  PROVE  OnePlace' /\ handed' \in Seq(Handovers)
  <1> DEFINE n == Len(handed)
             m == Len(new)
  <1>1. n \in Nat /\ m \in Nat
    BY LenProperties DEF DelayTypes
  <1>2. /\ handed' \in Seq(Handovers) /\ Len(handed') = n + m
        /\ \A i \in 1..n : handed'[i] = handed[i]
        /\ \A i \in 1..(n + m) : i > n => handed'[i] = new[i - n]
    <2>1. /\ handed' \in Seq(Handovers) /\ Len(handed') = n + m
          /\ \A i \in 1..(n + m) : handed'[i] = IF i <= n THEN handed[i] ELSE new[i - n]
      BY ConcatProperties DEF DelayTypes
    <2> HIDE DEF n, m
    <2>2. \A i \in 1..n : i \in 1..(n + m) /\ i <= n
      BY <1>1
    <2>3. \A i \in 1..n : handed'[i] = handed[i]
      BY <2>1, <2>2, Zenon
    <2>4. \A i \in 1..(n + m) : i > n => ~(i <= n)
      BY <1>1
    <2>5. \A i \in 1..(n + m) : i > n => handed'[i] = new[i - n]
      BY <2>1, <2>4, Zenon
    <2> QED  BY <2>1, <2>3, <2>5
  <1> HIDE DEF n, m
  <1>3. \A p, q \in queue : p.msg.id = q.msg.id => p = q
    BY EntryParts, DelayAssumption DEF DelayTypes, OnePlace
  <1>4. \A q \in queue, x \in unpushed : q.msg.id # x.id
    BY EntryParts, DelayAssumption DEF DelayTypes, OnePlace
  <1>5. ASSUME NEW i \in 1..(n + m), i > n
        PROVE  /\ handed'[i].at >= handed'[i].exec
               /\ \E q \in queue \ queue' : handed'[i].msg.id = q.msg.id
    <2>1. i - n \in 1..m
      BY <1>1, <1>5
    <2>2. handed'[i] = new[i - n]
      BY <1>2, <1>5
    <2>3. new[i - n].at >= new[i - n].exec /\ \E q \in queue \ queue' : new[i - n].msg.id = q.msg.id
      BY <2>1 DEF m
    <2> QED  BY <2>2, <2>3
  <1>6. ASSUME NEW i \in 1..(n + m)
        PROVE  /\ handed'[i].at >= handed'[i].exec
               /\ \A q \in queue' : handed'[i].msg.id # q.msg.id
               /\ \A x \in unpushed' : handed'[i].msg.id # x.id
    <2>1. CASE i <= n
      <3>1. i \in 1..n /\ handed'[i] = handed[i]
        BY <1>1, <1>2, <2>1
      <3> QED  BY <3>1 DEF OnePlace, n
    <2>2. CASE i > n
      <3>1. handed'[i].at >= handed'[i].exec
        BY <1>5, <2>2
      <3>2. PICK q \in queue \ queue' : handed'[i].msg.id = q.msg.id
        BY <1>5, <2>2
      <3> QED  BY <1>3, <1>4, <3>1, <3>2
    <2>3. i <= n \/ i > n
      BY <1>1
    <2> QED  BY <2>1, <2>2, <2>3
  <1>7. ASSUME NEW i \in 1..(n + m), NEW j \in 1..(n + m), handed'[i].msg.id = handed'[j].msg.id
        PROVE  i = j
    <2>1. CASE i <= n /\ j <= n
      <3>1. i \in 1..n /\ j \in 1..n /\ handed'[i] = handed[i] /\ handed'[j] = handed[j]
        BY <1>1, <1>2, <2>1
      <3> QED  BY <1>7, <3>1 DEF OnePlace, n
    <2>2. CASE i > n /\ j > n
      <3>1. i - n \in 1..m /\ j - n \in 1..m
        BY <1>1, <2>2
      <3>0. handed'[i] = new[i - n] /\ handed'[j] = new[j - n]
        BY <1>2, <2>2, Zenon
      <3>2. i - n = j - n
        BY <1>7, <3>1, <3>0 DEF m
      <3> QED  BY <1>1, <3>2
    <2>3. \A a, b \in 1..(n + m) : a <= n /\ b > n => handed'[a].msg.id # handed'[b].msg.id
      <3> SUFFICES ASSUME NEW a \in 1..(n + m), NEW b \in 1..(n + m), a <= n, b > n
                   PROVE  handed'[a].msg.id # handed'[b].msg.id
        OBVIOUS
      <3>0. a \in 1..n
        BY <1>1
      <3>1. handed'[a] = handed[a]
        BY <1>2, <3>0
      <3>2. \A q \in queue : handed[a].msg.id # q.msg.id
        BY <3>0 DEF OnePlace, n
      <3>3. \E q \in queue \ queue' : handed'[b].msg.id = q.msg.id
        BY <1>5
      <3> QED  BY <3>1, <3>2, <3>3
    <2>4. (i <= n \/ i > n) /\ (j <= n \/ j > n)
      BY <1>1
    <2> QED  BY <1>7, <2>1, <2>2, <2>3, <2>4
  <1> QED  BY <1>2, <1>6, <1>7 DEF OnePlace

\* Nor does leaving the queue without a handler, or not leaving it, put a message
\* in two places.
LEMMA NothingHanded ==
  ASSUME OnePlace, queue' \subseteq queue, UNCHANGED <<unpushed, handed>>
  PROVE  OnePlace'
  BY DEF OnePlace

\* The messages of one poll of the memory queue: order names each entry once.
LEMMA OrderIsInjective ==
  ASSUME NEW S, IsFiniteSet(S), NEW order \in [1..Cardinality(S) -> S],
         \A q \in S : \E i \in DOMAIN order : order[i] = q
  PROVE  \A i, j \in 1..Cardinality(S) : order[i] = order[j] => i = j
  <1>1. Cardinality(S) \in Nat
    BY FS_CardinalityType
  <1>2. IsFiniteSet(1..Cardinality(S)) /\ Cardinality(1..Cardinality(S)) = Cardinality(S)
    BY <1>1, FS_Interval
  <1>3. order \in Surjection(1..Cardinality(S), S)
    BY DEF Surjection
  <1>4. order \in Injection(1..Cardinality(S), S)
    BY <1>2, <1>3, FS_SurjSameCardinalityImpliesInj
  <1> QED  BY <1>4 DEF Injection, IsInjective

\* One poll of the memory queue.
LEMMA PollHandsOver ==
  ASSUME DelayTypes, OnePlace, NEW k, PollMemory(k)
  PROVE  /\ OnePlace' /\ handed' \in Seq(Handovers)
         /\ queue' \subseteq queue /\ IsFiniteSet(queue')
  <1> DEFINE due == {q \in queue : q.exec <= clock}
             served == {q \in due : q.msg.topic \in topics}
  <1>1. queue' = queue \ due /\ UNCHANGED unpushed
    BY DEF PollMemory
  <1>2. PICK order \in [1..Cardinality(served) -> served] :
          /\ \A q \in served : \E i \in DOMAIN order : order[i] = q
          /\ handed' = handed \o [i \in DOMAIN order |-> [msg |-> order[i].msg, at |-> clock, exec |-> order[i].exec]]
    BY DEF PollMemory
  <1> DEFINE N == Cardinality(served)
             new == [i \in 1..N |-> [msg |-> order[i].msg, at |-> clock, exec |-> order[i].exec]]
  <1>3. IsFiniteSet(served) /\ N \in Nat
    <2>1. IsFiniteSet(queue) /\ served \subseteq queue
      BY DEF DelayTypes
    <2> QED  BY <2>1, FS_Subset, FS_CardinalityType
  <1>4. \A i, j \in 1..N : order[i] = order[j] => i = j
    BY <1>2, <1>3, OrderIsInjective
  <1>5. \A q \in served : q \in QueueEntries /\ q \in queue \ queue' /\ q.exec <= clock
    BY <1>1 DEF DelayTypes
  <1>6. \A i \in 1..N : order[i] \in served
    BY <1>2
  <1>7. DOMAIN order = 1..N /\ handed' = handed \o new
    BY <1>2
  <1> HIDE DEF N, served, due
  <1>8. clock \in Nat
    BY DelayAssumption DEF DelayTypes
  <1>9. ASSUME NEW i \in 1..N
        PROVE  /\ new[i] \in Handovers /\ new[i].at = clock
               /\ new[i].msg = order[i].msg /\ new[i].exec = order[i].exec
    BY <1>5, <1>6, <1>8, EntryParts DEF Handovers
  <1>10. new \in Seq(Handovers) /\ Len(new) = N
    <2>1. new \in [1..N -> Handovers]
      BY <1>9
    <2> HIDE DEF new
    <2> QED  BY <1>3, <2>1
  <1> HIDE DEF new
  <1>11. ASSUME NEW i \in 1..Len(new)
         PROVE  new[i].at >= new[i].exec /\ \E q \in queue \ queue' : new[i].msg.id = q.msg.id
    <2>1. i \in 1..N /\ order[i] \in queue \ queue' /\ order[i].exec <= clock /\ order[i].exec \in Nat
      BY <1>5, <1>6, <1>10, EntryParts
    <2> QED  BY <1>8, <1>9, <2>1
  <1>12. ASSUME NEW i \in 1..Len(new), NEW j \in 1..Len(new), new[i].msg.id = new[j].msg.id
         PROVE  i = j
    <2>1. i \in 1..N /\ j \in 1..N /\ order[i] \in queue /\ order[j] \in queue
      BY <1>5, <1>6, <1>10
    <2>2. order[i].msg.id = order[j].msg.id
      BY <1>9, <1>12, <2>1
    <2>3. order[i].msg \in DelayMessages /\ order[j].msg \in DelayMessages
      BY <2>1, EntryParts DEF DelayTypes
    <2>4. order[i].msg = order[j].msg
      BY <2>2, <2>3, DelayAssumption
    <2>5. order[i] = order[j]
      BY <2>1, <2>4 DEF OnePlace
    <2> QED  BY <1>4, <2>1, <2>5
  <1>13. queue' \subseteq queue
    BY <1>1
  <1>14. OnePlace' /\ handed' \in Seq(Handovers)
    BY <1>1, <1>7, <1>10, <1>11, <1>12, <1>13, HandingKeepsOnePlace
  <1> QED  BY <1>13, <1>14, FS_Subset DEF DelayTypes

\* One ZRem of the Redis queue: it answers 1 to one consumer only.
LEMMA PopHandsOver ==
  ASSUME DelayTypes, OnePlace, NEW k \in ConsumerIds, Pop(k)
  PROVE  /\ OnePlace' /\ handed' \in Seq(Handovers)
         /\ queue' \subseteq queue /\ IsFiniteSet(queue')
  <1>1. PICK q \in Poppable(k) :
          /\ queue' = queue \ {q}
          /\ \/ UNCHANGED handed
             \/ handed' = Append(handed, [msg |-> Decode(q), at |-> clock, exec |-> q.exec])
    BY DEF Pop
  <1>2. q \in queue /\ q.exec = consumer[k].now
    BY <1>1 DEF Poppable
  <1>3. queue' \subseteq queue /\ IsFiniteSet(queue') /\ UNCHANGED unpushed
    BY <1>1, FS_Subset DEF DelayTypes, Pop
  <1>4. CASE UNCHANGED handed
    BY <1>3, <1>4, NothingHanded DEF DelayTypes
  <1>5. CASE handed' = Append(handed, [msg |-> Decode(q), at |-> clock, exec |-> q.exec])
    <2> DEFINE h == [msg |-> Decode(q), at |-> clock, exec |-> q.exec]
    <2>1. q \in QueueEntries /\ clock \in Nat /\ q.exec \in Nat
      BY <1>2, EntryParts, DelayAssumption DEF DelayTypes
    <2>2. h \in Handovers /\ h.at = clock /\ h.exec = q.exec /\ h.msg = Decode(q)
      BY <2>1 DEF Handovers
    <2>3. h.msg.id = q.msg.id
      BY <2>1, <2>2, EntryParts
    <2>4. q.exec <= clock
      BY <1>2 DEF DelayTypes, ConsumerAt
    <2> HIDE DEF h
    <2>5. handed' = handed \o <<h>>
      BY <1>5, <2>2, AppendIsConcat DEF DelayTypes, h
    <2>6. <<h>> \in Seq(Handovers) /\ Len(<<h>>) = 1 /\ <<h>>[1] = h
      BY <2>2
    <2>7. q \in queue \ queue'
      BY <1>1, <1>2
    <2> DEFINE new == <<h>>
    <2>8. \A i \in 1..Len(new) : new[i].at >= new[i].exec /\ \E p \in queue \ queue' : new[i].msg.id = p.msg.id
      BY <2>1, <2>2, <2>3, <2>4, <2>6, <2>7
    <2>9. \A i, j \in 1..Len(new) : new[i].msg.id = new[j].msg.id => i = j
      BY <2>6
    <2> QED  BY <1>3, <2>5, <2>6, <2>8, <2>9, HandingKeepsOnePlace
  <1> QED  BY <1>1, <1>4, <1>5, <1>3

----------------------------------------------------------------------------
\* The step of a consumer writes that consumer only, which was started and stays so.
ConsumerMoves(k) ==
    \E c \in ConsumerStates :
        /\ ConsumerAt(c, clock) /\ c.at # "none" /\ consumer[k].at # "none"
        /\ consumer' = [consumer EXCEPT ![k] = c]

\* A consumer goes on to its next message or ends the poll.
LEMMA NextPopMoves ==
  ASSUME DelayTypes, NEW k \in ConsumerIds, consumer[k].at = "pop", consumer' = NextPop(k)
  PROVE  ConsumerMoves(k)
  <1> DEFINE a == IF consumer[k].left = 1 THEN "select" ELSE "pop"
             c == [at |-> a, now |-> consumer[k].now, left |-> consumer[k].left - 1]
  <1>1. /\ consumer[k].now \in Nat /\ consumer[k].left \in Nat /\ consumer[k].left > 0
        /\ consumer[k].now <= clock /\ consumer[k].left <= PollSize
    BY DEF DelayTypes, ConsumerAt, ConsumerStates
  <1>2. a \in {"select", "pop"} /\ (a = "pop" => consumer[k].left # 1)
    OBVIOUS
  <1>3. consumer' = [consumer EXCEPT ![k] = c]
    BY DEF NextPop
  <1> HIDE DEF a
  <1>4. c \in ConsumerStates /\ c.at = a /\ c.now = consumer[k].now /\ c.left = consumer[k].left - 1
    BY <1>1, <1>2 DEF ConsumerStates, ConsumerSteps
  <1> HIDE DEF c
  <1>5. c.now <= clock /\ c.left <= PollSize /\ (a = "pop" => c.left > 0)
    BY <1>1, <1>2, <1>4, DelayAssumption
  <1> QED  BY <1>2, <1>3, <1>4, <1>5 DEF ConsumerMoves, ConsumerAt

\* A consumer ends or blocks.
LEMMA ConsumerEnds ==
  ASSUME DelayTypes, NEW k \in ConsumerIds, NEW a \in {"done", "blocked"}, consumer[k].at # "none",
         consumer' = [consumer EXCEPT ![k].at = a]
  PROVE  ConsumerMoves(k)
  <1> DEFINE c == [consumer[k] EXCEPT !.at = a]
  <1>1. consumer[k] \in ConsumerStates /\ consumer[k].now <= clock /\ consumer[k].left <= PollSize
    BY DEF DelayTypes, ConsumerAt
  <1>2. c \in ConsumerStates /\ c.at = a /\ c.now = consumer[k].now /\ c.left = consumer[k].left
    BY <1>1 DEF ConsumerStates, ConsumerSteps
  <1>3. consumer' = [consumer EXCEPT ![k] = c]
    OBVIOUS
  <1> HIDE DEF c
  <1> QED  BY <1>1, <1>2, <1>3 DEF ConsumerMoves, ConsumerAt

\* Every step of a consumer moves that consumer alone.
LEMMA ConsumeMoves ==
  ASSUME DelayTypes, NEW k \in ConsumerIds, Consume(k)
  PROVE  (ConsumerMoves(k) \/ UNCHANGED consumer) /\ UNCHANGED <<clock, unpushed, topics, cancelOf, control, ended>>
  <1>1. CASE ConsumeDone(k)
    BY <1>1, ConsumerEnds DEF ConsumeDone
  <1>2. CASE PollMemory(k)
    BY <1>2 DEF PollMemory
  <1>3. CASE PollRange(k)
    <2> DEFINE S == {q \in queue : q.exec <= FormatInt64(clock)}
               found == Cardinality(S)
               a == IF found = 0 THEN "select" ELSE "pop"
               l == IF found < PollSize THEN found ELSE PollSize
               c == [at |-> a, now |-> clock, left |-> l]
    <2>1. found \in Nat /\ clock \in Nat /\ PollSize \in Nat \ {0}
      <3>1. S \subseteq queue
        OBVIOUS
      <3> QED  BY <3>1, FS_Subset, FS_CardinalityType, DelayAssumption DEF DelayTypes
    <2>2. consumer' = [consumer EXCEPT ![k] = c] /\ consumer[k].at = "select"
      BY <1>3 DEF PollRange
    <2> HIDE DEF found
    <2>3. l \in Nat /\ l <= PollSize /\ a \in {"select", "pop"} /\ (a = "pop" => l > 0)
      BY <2>1
    <2> HIDE DEF a, l
    <2>4. c \in ConsumerStates /\ c.at = a /\ c.now = clock /\ c.left = l
      BY <2>1, <2>3 DEF ConsumerStates, ConsumerSteps
    <2> HIDE DEF c
    <2>5. ConsumerAt(c, clock) /\ c.at # "none"
      BY <2>1, <2>3, <2>4 DEF ConsumerAt
    <2>6. ConsumerMoves(k)
      BY <2>2, <2>4, <2>5 DEF ConsumerMoves
    <2> QED  BY <1>3, <2>6 DEF PollRange
  <1>4. CASE PopNothing(k)
    BY <1>4, NextPopMoves DEF PopNothing
  <1>5. CASE Pop(k)
    <2>1. ConsumerMoves(k)
      BY <1>5, NextPopMoves, ConsumerEnds DEF Pop
    <2> QED  BY <1>5, <2>1 DEF Pop
  <1> QED  BY <1>1, <1>2, <1>3, <1>4, <1>5 DEF Consume

\* A consumer's move keeps the types, and starts nobody.
LEMMA MovedConsumers ==
  ASSUME DelayTypes, NEW k \in ConsumerIds, ConsumerMoves(k)
  PROVE  /\ consumer' \in [ConsumerIds -> ConsumerStates]
         /\ \A j \in ConsumerIds : ConsumerAt(consumer'[j], clock)
         /\ Started' = Started
  <1>1. PICK c \in ConsumerStates :
            /\ ConsumerAt(c, clock) /\ c.at # "none" /\ consumer[k].at # "none"
            /\ consumer' = [consumer EXCEPT ![k] = c]
    BY DEF ConsumerMoves
  <1>2. consumer' \in [ConsumerIds -> ConsumerStates] /\ consumer'[k] = c
        /\ \A j \in ConsumerIds : j # k => consumer'[j] = consumer[j]
    BY <1>1 DEF DelayTypes
  <1>3. \A j \in ConsumerIds : ConsumerAt(consumer'[j], clock)
    BY <1>1, <1>2 DEF DelayTypes
  <1>4. DOMAIN consumer = ConsumerIds /\ DOMAIN consumer' = ConsumerIds
    BY <1>2 DEF DelayTypes
  <1>5. Started' = Started
    BY <1>1, <1>2, <1>4 DEF Started
  <1> QED  BY <1>2, <1>3, <1>5

\* Push takes a message that was never pushed.
LEMMA PushKeeps ==
  ASSUME DelayTypes, OnePlace, NEW m \in DelayMessages, Push(m)
  PROVE  DelayTypes' /\ OnePlace'
  <1> DEFINE q == [msg |-> m, exec |-> ExecTime(m)]
  <1>1. clock \in Nat /\ m.delay \in Nat /\ m.exec \in Nat
    BY DelayAssumption DEF DelayTypes
  <1>2. ExecTime(m) \in Nat
    BY <1>1 DEF ExecTime
  <1>3. q \in QueueEntries /\ q.msg = m
    BY <1>2 DEF QueueEntries
  <1>4. m \in unpushed /\ unpushed' = unpushed \ {m} /\ queue' = queue \union {q}
    BY DEF Push
  <1> HIDE DEF q
  <1>5. DelayTypes'
    <2>1. IsFiniteSet(queue') /\ queue' \subseteq QueueEntries /\ unpushed' \subseteq DelayMessages
      BY <1>3, <1>4, FS_AddElement DEF DelayTypes
    <2> QED  BY <2>1 DEF DelayTypes, Push
  <1>6. OnePlace'
    <2>1. \A p \in queue : p.msg # m
      BY <1>4 DEF OnePlace
    <2>2. \A a, b \in queue' : a.msg = b.msg => a = b
      BY <1>3, <1>4, <2>1 DEF OnePlace
    <2>3. \A a \in queue' : a.msg \notin unpushed'
      BY <1>3, <1>4 DEF OnePlace
    <2>4. \A i \in 1..Len(handed) : handed[i].msg.id # m.id
      BY <1>4 DEF OnePlace
    <2>5. \A i \in 1..Len(handed) : \A a \in queue' : handed[i].msg.id # a.msg.id
      BY <1>3, <1>4, <2>4 DEF OnePlace
    <2> QED  BY <1>4, <2>2, <2>3, <2>5 DEF OnePlace, Push
  <1> QED  BY <1>5, <1>6

\* A consumer's step keeps every message in one place.
LEMMA ConsumeKeeps ==
  ASSUME DelayTypes, OnePlace, NEW k \in ConsumerIds, Consume(k)
  PROVE  DelayTypes' /\ OnePlace' /\ Started' = Started
  <1>1. /\ consumer' \in [ConsumerIds -> ConsumerStates]
        /\ \A j \in ConsumerIds : ConsumerAt(consumer'[j], clock)
        /\ Started' = Started
    BY ConsumeMoves, MovedConsumers DEF DelayTypes, Started
  <1>2. /\ OnePlace' /\ handed' \in Seq(Handovers)
        /\ queue' \subseteq queue /\ IsFiniteSet(queue')
    <2>1. CASE PollMemory(k)
      BY <2>1, PollHandsOver
    <2>2. CASE Pop(k)
      BY <2>2, PopHandsOver
    <2>3. CASE UNCHANGED <<queue, unpushed, handed>>
      BY <2>3, NothingHanded DEF DelayTypes
    <2> QED  BY <2>1, <2>2, <2>3 DEF Consume, ConsumeDone, PollRange, PopNothing
  <1>3. UNCHANGED <<clock, unpushed, topics>>
    BY ConsumeMoves
  <1> QED  BY <1>1, <1>2, <1>3 DEF DelayTypes

ControlSteps == {"idle", "start", "wait", "panicked"}

\* Start, up to its new cancel function: another consumer is on its way.
LEMMA StartPublishKeeps ==
  ASSUME ConsumersNumbered, NEW c \in Controllers, StartPublish(c)
  PROVE  ConsumersNumbered'
  <1>1. control' \in [Controllers -> ControlSteps] /\ Starting' = Starting \union {c} /\ c \notin Starting
    BY DEF ConsumersNumbered, StartPublish, Starting, ControlSteps
  <1>2. Started' = Started /\ cancelOf' = cancelOf /\ ended' = ended
    BY DEF StartPublish, Started
  <1>3. PICK n \in Nat : Started = 1..n /\ n + Cardinality(Starting) <= MaxConsumers
    BY DEF ConsumersNumbered
  <1>4. Cardinality(Started) = n
    BY <1>3, FS_Interval
  <1>5. IsFiniteSet(Starting) /\ Cardinality(Starting) \in Nat
    BY FS_CardinalityType DEF ConsumersNumbered
  <1>6. IsFiniteSet(Starting') /\ Cardinality(Starting') = Cardinality(Starting) + 1
    BY <1>1, <1>5, FS_AddElement
  <1>7. n + Cardinality(Starting) < MaxConsumers
    BY <1>4 DEF StartPublish, Starting
  <1>8. n + Cardinality(Starting') <= MaxConsumers
    BY <1>5, <1>6, <1>7, DelayAssumption
  <1> QED  BY <1>1, <1>2, <1>3, <1>6, <1>8 DEF ConsumersNumbered, ControlSteps

\* Start, its goroutine: the next number is taken.
LEMMA StartSpawnKeeps ==
  ASSUME DelayTypes, OnePlace, ConsumersNumbered, NEW c \in Controllers, StartSpawn(c)
  PROVE  DelayInv'
  <1>1. control' \in [Controllers -> ControlSteps] /\ Starting' = Starting \ {c} /\ c \in Starting
    BY DEF ConsumersNumbered, StartSpawn, Starting, ControlSteps
  <1>3. PICK n \in Nat : Started = 1..n /\ n + Cardinality(Starting) <= MaxConsumers
    BY DEF ConsumersNumbered
  <1>4. Cardinality(Started) = n
    BY <1>3, FS_Interval
  <1>5. IsFiniteSet(Starting) /\ Cardinality(Starting) \in Nat
    BY FS_CardinalityType DEF ConsumersNumbered
  <1>6. IsFiniteSet(Starting') /\ Cardinality(Starting') = Cardinality(Starting) - 1 /\ Cardinality(Starting') \in Nat
    BY <1>1, <1>5, FS_RemoveElement, FS_CardinalityType
  <1>7. n + 1 \in ConsumerIds /\ (n + 1) + Cardinality(Starting') <= MaxConsumers
    BY <1>3, <1>5, <1>6, DelayAssumption DEF ConsumerIds
  <1> DEFINE k == n + 1
             w == [Asleep EXCEPT !.at = "select"]
  <1>8. cancelOf' = k /\ consumer' = [consumer EXCEPT ![k] = w]
        /\ UNCHANGED <<clock, unpushed, queue, topics, ended, handed>>
    BY <1>4 DEF StartSpawn
  <1>9. w \in ConsumerStates /\ w.at = "select" /\ w.now = 0 /\ w.left = 0
    BY DEF Asleep, ConsumerStates, ConsumerSteps
  <1> HIDE DEF w
  <1>10. consumer' \in [ConsumerIds -> ConsumerStates] /\ consumer'[k] = w
         /\ \A j \in ConsumerIds : j # k => consumer'[j] = consumer[j]
    BY <1>7, <1>8, <1>9 DEF DelayTypes
  <1>11. ConsumerAt(w, clock)
    BY <1>9, DelayAssumption DEF ConsumerAt, DelayTypes
  <1>12. \A j \in ConsumerIds : ConsumerAt(consumer'[j], clock)
    BY <1>10, <1>11 DEF DelayTypes
  <1>13. DelayTypes'
    BY <1>8, <1>10, <1>12 DEF DelayTypes
  <1>14. OnePlace'
    BY <1>8 DEF OnePlace
  <1>15. Started' = Started \union {k}
    <2>1. DOMAIN consumer = ConsumerIds /\ DOMAIN consumer' = ConsumerIds
      BY <1>10 DEF DelayTypes
    <2> HIDE DEF k
    <2> QED  BY <1>7, <1>9, <1>10, <2>1 DEF Started, k
  <1>16. Started' = 1..k
    BY <1>3, <1>15
  <1>17. ConsumersNumbered'
    <2>1. \E x \in Nat : Started' = 1..x /\ x + Cardinality(Starting') <= MaxConsumers
      BY <1>7, <1>16
    <2>2. cancelOf' \in {0} \union Started' /\ ended' \subseteq Started'
      BY <1>8, <1>15 DEF ConsumersNumbered
    <2> QED  BY <1>1, <1>6, <2>1, <2>2 DEF ConsumersNumbered, ControlSteps
  <1> QED  BY <1>13, <1>14, <1>17 DEF DelayInv

\* Stop starts no consumer.
LEMMA StopKeeps ==
  ASSUME ConsumersNumbered, NEW c \in Controllers, StopCancel(c) \/ StopReturn(c)
  PROVE  ConsumersNumbered'
  <1>1. control' \in [Controllers -> ControlSteps] /\ Starting' = Starting
    BY DEF ConsumersNumbered, StopCancel, StopReturn, Starting, ControlSteps
  <1>2. Started' = Started /\ cancelOf' = cancelOf
    BY DEF StopCancel, StopReturn, Started
  <1>3. ended' \subseteq Started
    BY DEF ConsumersNumbered, StopCancel, StopReturn
  <1> QED  BY <1>1, <1>2, <1>3 DEF ConsumersNumbered, ControlSteps

\* Every step keeps the invariant of the delay queue.
LEMMA DelayPreserved == DelayInv /\ [DelayNext]_delayVars => DelayInv'
  <1> SUFFICES ASSUME DelayInv, [DelayNext]_delayVars PROVE DelayInv'
    OBVIOUS
  <1>0. DelayTypes /\ OnePlace /\ ConsumersNumbered /\ DOMAIN consumer = ConsumerIds
    BY DEF DelayInv, DelayTypes
  <1>a. UNCHANGED <<consumer, control, cancelOf, ended>> => ConsumersNumbered'
    BY <1>0 DEF ConsumersNumbered, Started, Starting
  <1>b. UNCHANGED <<clock, unpushed, queue, topics, consumer, handed>> => DelayTypes' /\ OnePlace'
    BY <1>0 DEF DelayTypes, OnePlace
  <1>1. ASSUME NEW m \in DelayMessages, Push(m) PROVE DelayInv'
    BY <1>0, <1>a, <1>1, PushKeeps DEF DelayInv, Push
  <1>2. ASSUME NEW t \in DelayTopics, RegisterHandler(t) PROVE DelayInv'
    <2>1. DelayTypes' /\ OnePlace'
      BY <1>0, <1>2 DEF DelayTypes, OnePlace, RegisterHandler
    <2> QED  BY <1>a, <1>2, <2>1 DEF DelayInv, RegisterHandler
  <1>3. ASSUME NEW c \in Controllers, StartPublish(c) PROVE DelayInv'
    BY <1>0, <1>b, <1>3, StartPublishKeeps DEF DelayInv, StartPublish
  <1>4. ASSUME NEW c \in Controllers, StartSpawn(c) PROVE DelayInv'
    BY <1>0, <1>4, StartSpawnKeeps
  <1>5. ASSUME NEW c \in Controllers, StopCancel(c) \/ StopReturn(c) PROVE DelayInv'
    BY <1>0, <1>b, <1>5, StopKeeps DEF DelayInv, StopCancel, StopReturn
  <1>6. ASSUME NEW k \in ConsumerIds, Consume(k) PROVE DelayInv'
    <2>1. DelayTypes' /\ OnePlace' /\ Started' = Started
      BY <1>0, <1>6, ConsumeKeeps
    <2>2. UNCHANGED <<control, cancelOf, ended>>
      BY <1>0, <1>6, ConsumeMoves
    <2>3. ConsumersNumbered'
      BY <1>0, <2>1, <2>2 DEF ConsumersNumbered, Starting
    <2> QED  BY <2>1, <2>3 DEF DelayInv
  <1>7. CASE DelayTick
    <2>1. clock' \in 1..MaxDelayTime /\ clock \in Nat /\ clock' = clock + 1
      BY <1>0, <1>7, DelayAssumption DEF DelayTypes, DelayTick
    <2>2. \A k \in ConsumerIds : ConsumerAt(consumer[k], clock')
      BY <1>0, <2>1 DEF DelayTypes, ConsumerAt, ConsumerStates
    <2>3. DelayTypes' /\ OnePlace'
      BY <1>0, <1>7, <2>1, <2>2 DEF DelayTypes, OnePlace, DelayTick
    <2> QED  BY <1>a, <1>7, <2>3 DEF DelayInv, DelayTick
  <1>8. CASE UNCHANGED delayVars
    BY <1>a, <1>b, <1>8 DEF DelayInv, delayVars
  <1> QED
    BY <1>0, <1>1, <1>2, <1>3, <1>4, <1>5, <1>6, <1>7, <1>8 DEF DelayNext

\* It holds initially ...
LEMMA DelayInitially == DelayInit => DelayInv
  <1> SUFFICES ASSUME DelayInit PROVE DelayInv
    OBVIOUS
  <1> USE DelayAssumption
  <1>1. DelayTypes
    <2>1. Asleep \in ConsumerStates /\ ConsumerAt(Asleep, 1)
      BY DEF Asleep, ConsumerStates, ConsumerSteps, ConsumerAt
    <2>2. consumer \in [ConsumerIds -> ConsumerStates] /\ \A k \in ConsumerIds : consumer[k] = Asleep
      BY <2>1 DEF DelayInit, ConsumerIds
    <2>3. IsFiniteSet(queue) /\ clock \in 1..MaxDelayTime /\ handed \in Seq(Handovers)
      BY FS_EmptySet DEF DelayInit
    <2> QED  BY <2>1, <2>2, <2>3 DEF DelayInit, DelayTypes
  <1>2. OnePlace
    BY DEF DelayInit, OnePlace
  <1>3. ConsumersNumbered
    <2>1. Started = {} /\ Starting = {}
      BY DEF DelayInit, Started, Starting, Asleep
    <2>2. IsFiniteSet(Starting) /\ Cardinality(Starting) = 0
      BY <2>1, FS_EmptySet
    <2>3. Started = 1..0 /\ 0 + Cardinality(Starting) <= MaxConsumers
      BY <2>1, <2>2
    <2> QED  BY <2>2, <2>3 DEF DelayInit, ConsumersNumbered
  <1> QED  BY <1>1, <1>2, <1>3 DEF DelayInv

\* ... and implies the types and the property.
LEMMA DelayInvImplies == DelayInv => DelayTypeOK /\ DelayedOnceAndNotEarly
  <1> SUFFICES ASSUME DelayInv PROVE DelayTypeOK /\ DelayedOnceAndNotEarly
    OBVIOUS
  <1>1. DelayTypes /\ OnePlace /\ ConsumersNumbered
    BY DEF DelayInv
  <1>2. DOMAIN handed = 1..Len(handed)
    BY <1>1, LenProperties DEF DelayTypes
  <1>3. DelayedOnceAndNotEarly
    BY <1>1, <1>2 DEF OnePlace, DelayedOnceAndNotEarly
  <1>4. \A q \in queue : q.msg \in DelayMessages /\ q.msg \notin unpushed
    BY <1>1, EntryParts DEF DelayTypes, OnePlace
  <1>5. \A k \in DOMAIN consumer : consumer[k].left \in 0..PollSize
    BY <1>1, DelayAssumption DEF DelayTypes, ConsumerAt, ConsumerStates
  <1>6. DelayTypeOK
    BY <1>1, <1>4, <1>5 DEF DelayTypeOK, DelayTypes, ConsumersNumbered
  <1> QED  BY <1>3, <1>6

\* For any messages, consumers, starts and stops, in memory and in Redis: every
\* message is handed to the handlers at most once, and never before its time.
THEOREM DelayedOnce == FacilitiesSpec => []DelayedOnceAndNotEarly
  <1>1. FacilitiesInit => DelayInv
    BY DelayInitially DEF FacilitiesInit
  <1> QED  BY <1>1, DelayStep, DelayPreserved, DelayInvImplies, PTL DEF FacilitiesSpec

----------------------------------------------------------------------------
(* The brokers *)

\* A step of the facilities is a step of the brokers or leaves their variables
\* alone.
LEMMA BrokerStep == [FacilitiesNext]_facilityVars => [BrokerNext]_brokerVars
  BY DEF FacilitiesNext, facilityVars, brokerVars

RunnerSteps == {"none", "receive", "push", "mark", "gone"}
RunnerStates == [at : RunnerSteps, pos : Nat]

BrokerTypes ==
    /\ sends \in Nat /\ topicLog \in Seq(Nat)
    /\ marked \in Nat /\ committed \in Nat /\ cursor \in Nat \ {0}
    /\ returned \subseteq Nat
    /\ runner \in RunnerStates
    /\ msgCh \in Seq(Nat) /\ readCh \in Seq(Nat)
    /\ breaks \in Nat

\* What has come out of the broker: read, in the channel, or in the channel of a process
\* that crashed.
Arrived == Elements(readCh) \union Elements(msgCh) \union lost

\* Kafka: what is committed or marked has arrived, and run holds the one message between
\* what has arrived and the cursor.
ClaimInOrder ==
    broker = "kafka" =>
        /\ 1..committed \subseteq Arrived /\ 1..marked \subseteq Arrived
        /\ runner.at = "receive" => 1..(cursor - 1) \subseteq Arrived
        /\ runner.at = "push" => runner.pos = cursor - 1 /\ 1..(cursor - 2) \subseteq Arrived
        /\ runner.at = "mark" => runner.pos = cursor - 1 /\ 1..(cursor - 1) \subseteq Arrived

\* RabbitMQ: what is acknowledged has arrived, and so has what run is about to acknowledge.
AckedArrived ==
    broker # "kafka" => acked \subseteq Arrived /\ (runner.at = "mark" => runner.pos \in Arrived)

\* The application has read 1, 2, ... in order and the channel goes on from there.
InOrder(r, m) ==
    /\ \A i \in 1..Len(r) : r[i] = i
    /\ \A i \in 1..Len(m) : m[i] = Len(r) + i

\* run holds the message after those that have arrived ...
Held ==
    /\ InOrder(readCh, msgCh)
    /\ runner.at = "none" =>
        /\ Len(readCh) = 0 /\ Len(msgCh) = 0 /\ cursor = 1
        /\ committed = 0 /\ marked = 0 /\ returned = {} /\ session = "down"
    /\ runner.at = "receive" => cursor = Len(readCh) + Len(msgCh) + 1 /\ (session = "up" => returned = {})
    /\ runner.at = "push" => runner.pos = Len(readCh) + Len(msgCh) + 1 /\ cursor = runner.pos + 1 /\ returned = {}
    /\ runner.at = "mark" => runner.pos = Len(readCh) + Len(msgCh) /\ cursor = runner.pos + 1 /\ returned = {}

\* ... and its session ends only when the client is closed.
Bound == runner.at # "none" /\ session = "down" => mqClosed

\* Without a break nothing is delivered again.
Steady == breaks = 0 => Held /\ Bound

ConfirmedStored == broker = "kafka" => confirmed \subseteq Elements(topicLog)

Sessional == session \in {"up", "down"}

BrokerInv == BrokerTypes /\ Sessional /\ ClaimInOrder /\ AckedArrived /\ Steady /\ ConfirmedStored

----------------------------------------------------------------------------
\* A set of positions that is not empty has a least one.
LEMMA LeastInSet ==
  ASSUME NEW S, S \subseteq Nat, S # {}
  PROVE  Least(S) \in S
  <1>1. PICK m \in S : \A k \in S : <<k, m>> \notin OpToRel(<, Nat)
    BY WFMin, NatLessThanWellFounded, Zenon
  <1>2. \A k \in S : ~(k < m)
    BY <1>1, Zenon DEF OpToRel
  <1>3. \A k \in S : m <= k
    BY <1>2
  <1> QED  BY <1>3, Zenon DEF Least

\* A position up to the next one.
LEMMA UpToNext ==
  ASSUME NEW n \in Nat
  PROVE  \A i \in 1..(n + 1) : i \in 1..n \/ i = n + 1
  OBVIOUS

\* What is in a channel after a send ...
LEMMA ElementsOfAppend ==
  ASSUME NEW s \in Seq(Nat), NEW x \in Nat
  PROVE  Elements(Append(s, x)) = Elements(s) \union {x}
  <1>1. /\ Len(s) \in Nat /\ Len(Append(s, x)) = Len(s) + 1
        /\ \A i \in 1..Len(s) : Append(s, x)[i] = s[i]
        /\ Append(s, x)[Len(s) + 1] = x
    BY AppendProperties, LenProperties
  <1>2. \A i \in 1..(Len(s) + 1) : i \in 1..Len(s) \/ i = Len(s) + 1
    BY <1>1, UpToNext, Zenon
  <1>3. Elements(Append(s, x)) \subseteq Elements(s) \union {x}
    BY <1>1, <1>2 DEF Elements
  <1>4. x \in Elements(Append(s, x))
    <2>1. Len(s) + 1 \in 1..Len(Append(s, x))
      BY <1>1
    <2> QED  BY <1>1, <2>1 DEF Elements
  <1>5. Elements(s) \subseteq Elements(Append(s, x))
    <2>1. \A i \in 1..Len(s) : i \in 1..Len(Append(s, x))
      BY <1>1
    <2> QED  BY <1>1, <2>1 DEF Elements
  <1> QED  BY <1>3, <1>4, <1>5

\* ... and after a receive.
LEMMA ElementsOfTail ==
  ASSUME NEW s \in Seq(Nat), s # <<>>
  PROVE  Elements(s) \subseteq {Head(s)} \union Elements(Tail(s))
  <1>1. /\ Len(s) \in Nat \ {0} /\ Len(Tail(s)) = Len(s) - 1
        /\ \A i \in 1..Len(Tail(s)) : Tail(s)[i] = s[i + 1]
        /\ Head(s) = s[1]
    BY HeadTailProperties, EmptySeq
  <1>2. ASSUME NEW i \in 1..Len(s) PROVE s[i] \in {Head(s)} \union Elements(Tail(s))
    <2>1. CASE i = 1
      BY <1>1, <2>1
    <2>2. CASE i # 1
      <3>1. i - 1 \in 1..Len(Tail(s)) /\ (i - 1) + 1 = i
        BY <1>1, <2>2
      <3>2. Tail(s)[i - 1] = s[i]
        BY <1>1, <3>1
      <3> QED  BY <3>1, <3>2 DEF Elements
    <2> QED  BY <2>1, <2>2
  <1> QED  BY <1>2 DEF Elements

\* The records of run.
LEMMA RunnerAt ==
  /\ \A a \in RunnerSteps, p \in Nat : [at |-> a, pos |-> p] \in RunnerStates
  /\ \A r \in RunnerStates : r.pos \in Nat /\ r.at \in RunnerSteps
  /\ \A r \in RunnerStates : [r EXCEPT !.at = "mark"] = [at |-> "mark", pos |-> r.pos]
  BY DEF RunnerStates, RunnerSteps

\* The steps of run.
LEMMA RunnerStepsHas == {"none", "receive", "push", "mark", "gone"} \subseteq RunnerSteps
  BY DEF RunnerSteps

\* A step of the application on the producer's side, or the close of the queue.
WriterNext ==
    \/ KafkaProducer \/ RabbitProducer \/ KafkaMQClose \/ RabbitMQClose
    \/ \E stored, ok \in BOOLEAN : Send(stored, ok) \/ PublishWithContext(stored, ok)

\* A step on the consumer's side, a break included.
ReaderNext ==
    \/ KafkaConsumer \/ RabbitConsumer \/ ConsumerClose
    \/ ReceiveClaim \/ ReceiveDelivery \/ PushChannel \/ MarkMessage \/ Ack
    \/ ClaimCancelled \/ Nack \/ KafkaRunEnds \/ RabbitRunEnds
    \/ SessionEnds \/ AutoCommit \/ ConsumeChan \/ Crash
    \/ \E ok \in BOOLEAN : Rejoin(ok)

\* Every step is one of the two sides.
LEMMA BrokerSides == BrokerNext => WriterNext \/ ReaderNext
  BY DEF BrokerNext, WriterNext, ReaderNext, KafkaConsumerClose, RabbitConsumerClose

\* The producer's side leaves the consumer alone, and Kafka's Send confirms only
\* what is stored.
LEMMA WriterKeeps ==
  ASSUME BrokerTypes, ConfirmedStored, WriterNext
  PROVE  /\ UNCHANGED <<broker, readerVars, breaks>> /\ (mqClosed => mqClosed')
         /\ sends' \in Nat /\ topicLog' \in Seq(Nat) /\ ConfirmedStored'
  <1> USE DEF BrokerTypes
  <1>1. CASE KafkaProducer \/ RabbitProducer
    BY <1>1 DEF KafkaProducer, RabbitProducer, OpenProducer, ConfirmedStored
  <1>2. CASE KafkaMQClose \/ RabbitMQClose
    BY <1>2 DEF KafkaMQClose, RabbitMQClose, MQClose, ConfirmedStored
  <1>3. ASSUME NEW stored \in BOOLEAN, NEW ok \in BOOLEAN, Answered(stored, ok), broker = "kafka" => (ok => stored)
        PROVE  /\ UNCHANGED <<broker, readerVars, breaks>> /\ (mqClosed => mqClosed')
               /\ sends' \in Nat /\ topicLog' \in Seq(Nat) /\ ConfirmedStored'
    <2>1. /\ UNCHANGED <<broker, mqClosed, readerVars, breaks>> /\ sends' = sends + 1
          /\ topicLog' = IF stored THEN Append(topicLog, sends + 1) ELSE topicLog
          /\ confirmed' = IF ok THEN confirmed \union {sends + 1} ELSE confirmed
      BY <1>3 DEF Answered
    <2>2. Append(topicLog, sends + 1) \in Seq(Nat)
      BY AppendProperties
    <2>3. Elements(Append(topicLog, sends + 1)) = Elements(topicLog) \union {sends + 1}
      BY ElementsOfAppend
    <2>4. ConfirmedStored'
      BY <1>3, <2>1, <2>3 DEF ConfirmedStored
    <2> QED  BY <2>1, <2>2, <2>4
  <1>4. CASE \E stored, ok \in BOOLEAN : Send(stored, ok) \/ PublishWithContext(stored, ok)
    BY <1>3, <1>4 DEF Send, PublishWithContext
  <1> QED  BY <1>1, <1>2, <1>4 DEF WriterNext

\* The consumer's side keeps the types and leaves the producer alone.
LEMMA ReaderTypes ==
  ASSUME BrokerTypes, Sessional, ReaderNext
  PROVE  BrokerTypes' /\ Sessional' /\ UNCHANGED <<broker, sends, topicLog, confirmed>>
  <1> USE RunnerAt, RunnerStepsHas DEF BrokerTypes, Sessional, writerVars
  <1>1. CASE KafkaConsumer
    BY <1>1 DEF KafkaConsumer, StartConsumer
  <1>2. CASE RabbitConsumer
    BY <1>2 DEF RabbitConsumer, StartConsumer
  <1>3. CASE ConsumerClose
    BY <1>3 DEF ConsumerClose
  <1>4. CASE ReceiveClaim
    BY <1>4 DEF ReceiveClaim
  <1>5. CASE ReceiveDelivery
    <2>1. /\ UNCHANGED <<writerVars, marked, committed, session, msgCh, readCh, breaks>>
          /\ \/ /\ returned # {} /\ runner' = [at |-> "push", pos |-> Least(returned)]
                /\ returned' \subseteq returned /\ UNCHANGED cursor
             \/ /\ runner' = [at |-> "push", pos |-> cursor]
                /\ cursor' = cursor + 1 /\ UNCHANGED returned
      BY <1>5 DEF ReceiveDelivery
    <2>2. returned # {} => Least(returned) \in Nat
      BY LeastInSet
    <2> QED  BY <2>1, <2>2
  <1>6. CASE PushChannel
    <2>1. /\ UNCHANGED <<writerVars, marked, committed, cursor, returned, session, readCh, breaks>>
          /\ msgCh' = Append(msgCh, runner.pos) /\ runner' = [at |-> "mark", pos |-> runner.pos]
      BY <1>6 DEF PushChannel
    <2>2. runner.pos \in Nat
      OBVIOUS
    <2>3. msgCh' \in Seq(Nat)
      BY <2>1, <2>2, AppendProperties
    <2> QED  BY <2>1, <2>2, <2>3
  <1>7. CASE MarkMessage
    BY <1>7 DEF MarkMessage
  <1>8. CASE Ack
    BY <1>8 DEF Ack
  <1>9. CASE ClaimCancelled
    BY <1>9 DEF ClaimCancelled
  <1>10. CASE Nack
    BY <1>10 DEF Nack
  <1>11. CASE KafkaRunEnds
    BY <1>11 DEF KafkaRunEnds
  <1>12. CASE RabbitRunEnds
    BY <1>12 DEF RabbitRunEnds
  <1>13. CASE SessionEnds
    BY <1>13 DEF SessionEnds, Break
  <1>14. CASE AutoCommit
    BY <1>14 DEF AutoCommit
  <1>15. CASE ConsumeChan
    BY <1>15, HeadTailProperties, AppendProperties DEF ConsumeChan
  <1>16. CASE Crash
    <2>1. <<>> \in Seq(Nat) /\ Ended \in RunnerStates
      BY EmptySeq DEF Ended
    <2>2. (1..(cursor - 1)) \ acked \subseteq Nat
      OBVIOUS
    <2> QED  BY <1>16, <2>1, <2>2 DEF Crash, Break
  <1>17. CASE \E ok \in BOOLEAN : Rejoin(ok)
    BY <1>17 DEF Rejoin
  <1> QED
    BY <1>1, <1>2, <1>3, <1>4, <1>5, <1>6, <1>7, <1>8, <1>9, <1>10, <1>11, <1>12, <1>13, <1>14, <1>15, <1>16, <1>17
       DEF ReaderNext

\* Nothing that has arrived is forgotten: a read moves it, and a crash moves it
\* to lost.
LEMMA ArrivedGrows ==
  ASSUME BrokerTypes, ReaderNext
  PROVE  Arrived \subseteq Arrived'
  <1> USE DEF BrokerTypes
  <1>1. CASE PushChannel
    BY <1>1, ElementsOfAppend, RunnerAt DEF PushChannel, Arrived
  <1>2. CASE ConsumeChan
    <2>1. Head(msgCh) \in Nat
      BY <1>2, HeadTailProperties DEF ConsumeChan
    <2>2. Elements(readCh)' = Elements(readCh) \union {Head(msgCh)}
      BY <1>2, <2>1, ElementsOfAppend DEF ConsumeChan
    <2> QED  BY <1>2, <2>2, ElementsOfTail DEF ConsumeChan, Arrived
  <1>3. CASE Crash
    <2>1. lost' = lost \union Elements(msgCh)
      BY <1>3 DEF Crash, Elements
    <2> QED  BY <1>3, <2>1 DEF Crash, Arrived
  <1>4. CASE UNCHANGED <<msgCh, readCh, lost>>
    BY <1>4 DEF Arrived, Elements
  <1>5. PushChannel \/ ConsumeChan \/ Crash \/ UNCHANGED <<msgCh, readCh, lost>>
    BY DEF ReaderNext, KafkaConsumer, RabbitConsumer, StartConsumer, ConsumerClose, ReceiveClaim, ReceiveDelivery,
           MarkMessage, Ack, ClaimCancelled, Nack, KafkaRunEnds, RabbitRunEnds, SessionEnds, AutoCommit, Rejoin
  <1> QED  BY <1>1, <1>2, <1>3, <1>4, <1>5

\* The consumer's side keeps Kafka's offsets behind what has arrived: it marks
\* only what is in the channel.
LEMMA ClaimStaysInOrder ==
  ASSUME BrokerTypes, ClaimInOrder, ReaderNext, UNCHANGED broker, Arrived \subseteq Arrived'
  PROVE  ClaimInOrder'
  <1> SUFFICES ASSUME broker = "kafka"
               PROVE  ClaimInOrder'
    BY DEF ClaimInOrder
  <1>0. /\ marked \in Nat /\ committed \in Nat /\ cursor \in Nat \ {0}
        /\ 1..committed \subseteq Arrived' /\ 1..marked \subseteq Arrived'
        /\ runner.at = "receive" => 1..(cursor - 1) \subseteq Arrived'
        /\ runner.at = "push" => runner.pos = cursor - 1 /\ 1..(cursor - 2) \subseteq Arrived'
        /\ runner.at = "mark" => runner.pos = cursor - 1 /\ 1..(cursor - 1) \subseteq Arrived'
    BY DEF BrokerTypes, ClaimInOrder
  <1> DEFINE Ar == Arrived'
  <1>goal. /\ 1..committed' \subseteq Ar /\ 1..marked' \subseteq Ar
           /\ runner'.at = "receive" => 1..(cursor' - 1) \subseteq Ar
           /\ runner'.at = "push" => runner'.pos = cursor' - 1 /\ 1..(cursor' - 2) \subseteq Ar
           /\ runner'.at = "mark" => runner'.pos = cursor' - 1 /\ 1..(cursor' - 1) \subseteq Ar
    <2>p. CASE PushChannel
      <3>1. runner' = [at |-> "mark", pos |-> runner.pos] /\ runner.at = "push"
            /\ UNCHANGED <<marked, committed, cursor>>
        BY <2>p, RunnerAt DEF PushChannel, BrokerTypes
      <3>2. runner.pos \in Ar
        <4>1. Elements(msgCh') = Elements(msgCh) \union {runner.pos}
          BY <2>p, ElementsOfAppend, RunnerAt DEF PushChannel, BrokerTypes
        <4> QED  BY <4>1 DEF Arrived
      <3> HIDE DEF Ar
      <3>3. 1..(cursor - 1) \subseteq Ar
        <4>1. \A i \in 1..(cursor - 1) : i \in 1..(cursor - 2) \/ i = cursor - 1
          BY <1>0
        <4> QED  BY <4>1, <1>0, <3>1, <3>2 DEF Ar
      <3> QED  BY <1>0, <3>1, <3>3 DEF Ar
    <2>q. 1..committed \subseteq Ar /\ 1..marked \subseteq Ar
      BY <1>0
    <2>r. /\ runner.at = "receive" => 1..(cursor - 1) \subseteq Ar
          /\ runner.at = "push" => runner.pos = cursor - 1 /\ 1..(cursor - 2) \subseteq Ar
          /\ runner.at = "mark" => runner.pos = cursor - 1 /\ 1..(cursor - 1) \subseteq Ar
      BY <1>0
    <2> HIDE DEF Ar
    <2> USE <1>0, <2>q, <2>r
    <2>1. CASE KafkaConsumer
      <3>1. cursor' - 1 = committed
        BY <2>1 DEF KafkaConsumer, StartConsumer
      <3> QED  BY <2>1, <3>1 DEF KafkaConsumer, StartConsumer
    <2>2. CASE ReceiveClaim
      <3>1. runner.at = "receive" /\ cursor' - 2 = cursor - 1 /\ cursor' - 1 = cursor
            /\ runner' = [at |-> "push", pos |-> cursor] /\ UNCHANGED <<marked, committed>>
        BY <2>2 DEF ReceiveClaim
      <3> QED  BY <3>1
    <2>3. CASE MarkMessage
      BY <2>3 DEF MarkMessage
    <2>4. CASE ClaimCancelled
      BY <2>4 DEF ClaimCancelled
    <2>5. CASE KafkaRunEnds
      BY <2>5 DEF KafkaRunEnds
    <2>6. CASE AutoCommit
      BY <2>6 DEF AutoCommit
    <2>7. CASE Crash
      BY <2>7 DEF Crash, Ended
    <2>8. CASE \E ok \in BOOLEAN : Rejoin(ok)
      <3>1. PICK ok \in BOOLEAN : Rejoin(ok)
        BY <2>8
      <3>2. committed' \in {committed, marked} /\ marked' = committed' /\ cursor' = committed' + 1
            /\ UNCHANGED runner /\ runner.at = "receive"
        BY <3>1 DEF Rejoin
      <3>3. committed' \in Nat
        BY <3>2
      <3>4. ASSUME NEW c \in Nat PROVE (c + 1) - 1 = c
        OBVIOUS
      <3>5. cursor' - 1 = committed'
        BY <3>2, <3>3, <3>4, Zenon
      <3> QED  BY <3>2, <3>5
    <2>9. CASE UNCHANGED <<marked, committed, cursor, runner>>
      BY <2>9
    <2>10. \/ PushChannel \/ KafkaConsumer \/ ReceiveClaim \/ MarkMessage \/ ClaimCancelled
           \/ KafkaRunEnds \/ AutoCommit \/ Crash \/ (\E ok \in BOOLEAN : Rejoin(ok))
           \/ UNCHANGED <<marked, committed, cursor, runner>>
      BY DEF ReaderNext, RabbitConsumer, ConsumerClose, ReceiveDelivery, Ack, Nack, RabbitRunEnds, SessionEnds, ConsumeChan
    <2> QED  BY <2>p, <2>1, <2>2, <2>3, <2>4, <2>5, <2>6, <2>7, <2>8, <2>9, <2>10
  <1> QED  BY <1>goal DEF ClaimInOrder

\* RabbitMQ: Ack comes after the channel has taken the message.
LEMMA AckedStaysArrived ==
  ASSUME BrokerTypes, AckedArrived, ReaderNext, UNCHANGED broker, Arrived \subseteq Arrived'
  PROVE  AckedArrived'
  <1> SUFFICES ASSUME broker # "kafka"
               PROVE  AckedArrived'
    BY DEF AckedArrived
  <1> DEFINE Ar == Arrived'
  <1>0. acked \subseteq Ar /\ (runner.at = "mark" => runner.pos \in Ar)
    BY DEF AckedArrived
  <1>p. PushChannel => runner.pos \in Ar
    <2> SUFFICES ASSUME PushChannel PROVE runner.pos \in Ar
      OBVIOUS
    <2>1. Elements(msgCh') = Elements(msgCh) \union {runner.pos}
      BY ElementsOfAppend, RunnerAt DEF PushChannel, BrokerTypes
    <2> QED  BY <2>1 DEF Arrived
  <1>goal. acked' \subseteq Ar /\ (runner'.at = "mark" => runner'.pos \in Ar)
    <2> HIDE DEF Ar
    <2>1. CASE PushChannel
      BY <2>1, <1>0, <1>p, RunnerAt DEF PushChannel, BrokerTypes
    <2>2. CASE RabbitConsumer
      BY <2>2, <1>0 DEF RabbitConsumer, StartConsumer
    <2>3. CASE ReceiveDelivery
      BY <2>3, <1>0 DEF ReceiveDelivery
    <2>4. CASE Ack
      BY <2>4, <1>0 DEF Ack
    <2>5. CASE Nack
      BY <2>5, <1>0 DEF Nack
    <2>6. CASE RabbitRunEnds
      BY <2>6, <1>0 DEF RabbitRunEnds
    <2>7. CASE Crash
      BY <2>7, <1>0 DEF Crash, Ended
    <2>8. CASE UNCHANGED <<acked, runner>>
      BY <2>8, <1>0
    <2>9. \/ PushChannel \/ RabbitConsumer \/ ReceiveDelivery \/ Ack \/ Nack \/ RabbitRunEnds \/ Crash
          \/ UNCHANGED <<acked, runner>>
      BY DEF ReaderNext, KafkaConsumer, ConsumerClose, ReceiveClaim, MarkMessage, ClaimCancelled, KafkaRunEnds,
             SessionEnds, AutoCommit, ConsumeChan, Rejoin
    <2> QED  BY <2>1, <2>2, <2>3, <2>4, <2>5, <2>6, <2>7, <2>8, <2>9
  <1> QED  BY <1>goal DEF AckedArrived

\* The channel takes the next message ...
LEMMA InOrderPush ==
  ASSUME NEW r \in Seq(Nat), NEW m \in Seq(Nat), InOrder(r, m)
  PROVE  InOrder(r, Append(m, Len(r) + Len(m) + 1)) /\ Len(Append(m, Len(r) + Len(m) + 1)) = Len(m) + 1
  <1> DEFINE x == Len(r) + Len(m) + 1
             a == Append(m, x)
  <1>0. Len(r) \in Nat /\ Len(m) \in Nat
    BY LenProperties
  <1>1. /\ Len(a) = Len(m) + 1
        /\ \A i \in 1..Len(m) : a[i] = m[i]
        /\ a[Len(m) + 1] = x
    BY AppendProperties, <1>0
  <1>2. \A i \in 1..(Len(m) + 1) : i \in 1..Len(m) \/ i = Len(m) + 1
    BY <1>0, UpToNext, Zenon
  <1>3. x = Len(r) + (Len(m) + 1)
    BY <1>0
  <1> HIDE DEF a, x
  <1>4. \A i \in 1..Len(a) : a[i] = Len(r) + i
    BY <1>1, <1>2, <1>3 DEF InOrder
  <1> QED  BY <1>1, <1>4 DEF InOrder, a, x

\* ... and the application reads the first.
LEMMA InOrderRead ==
  ASSUME NEW r \in Seq(Nat), NEW m \in Seq(Nat), InOrder(r, m), m # <<>>
  PROVE  /\ InOrder(Append(r, Head(m)), Tail(m))
         /\ Len(Append(r, Head(m))) + Len(Tail(m)) = Len(r) + Len(m)
         /\ Len(Append(r, Head(m))) \in Nat /\ Len(Tail(m)) \in Nat
  <1> DEFINE a == Append(r, Head(m))
             t == Tail(m)
  <1>0. Len(r) \in Nat /\ Len(m) \in Nat
    BY LenProperties
  <1>1. /\ Len(m) # 0 /\ Head(m) \in Nat /\ Head(m) = m[1]
        /\ Len(t) = Len(m) - 1 /\ \A i \in 1..Len(t) : t[i] = m[i + 1]
    BY HeadTailProperties, EmptySeq
  <1>2. Head(m) = Len(r) + 1
    <2>1. 1 \in 1..Len(m)
      BY <1>0, <1>1
    <2> QED  BY <1>1, <2>1 DEF InOrder
  <1>3. /\ Len(a) = Len(r) + 1
        /\ \A i \in 1..Len(r) : a[i] = r[i]
        /\ a[Len(r) + 1] = Head(m)
    BY AppendProperties, <1>0, <1>1
  <1> HIDE DEF a, t
  <1>4. \A i \in 1..(Len(r) + 1) : i \in 1..Len(r) \/ i = Len(r) + 1
    BY <1>0, UpToNext, Zenon
  <1>5. \A i \in 1..Len(a) : a[i] = i
    BY <1>2, <1>3, <1>4 DEF InOrder
  <1>6. ASSUME NEW i \in 1..Len(t) PROVE t[i] = Len(a) + i
    <2>1. i \in Nat /\ i + 1 \in 1..Len(m)
      BY <1>0, <1>1
    <2>2. t[i] = Len(r) + (i + 1)
      BY <1>1, <2>1 DEF InOrder
    <2> QED  BY <1>0, <1>3, <2>1, <2>2
  <1>7. Len(a) + Len(t) = Len(r) + Len(m) /\ Len(a) \in Nat /\ Len(t) \in Nat
    BY <1>0, <1>1, <1>3
  <1> QED  BY <1>5, <1>6, <1>7 DEF InOrder, a, t

\* A step after which there was no break is no break.
LEMMA NoBreak ==
  ASSUME BrokerTypes, ReaderNext, breaks' = 0
  PROVE  breaks = 0 /\ ~SessionEnds /\ ~Crash
  <1>1. \/ SessionEnds \/ Crash \/ UNCHANGED breaks
    BY DEF ReaderNext, KafkaConsumer, RabbitConsumer, StartConsumer, ConsumerClose, ReceiveClaim, ReceiveDelivery,
           PushChannel, MarkMessage, Ack, ClaimCancelled, Nack, KafkaRunEnds, RabbitRunEnds, AutoCommit, ConsumeChan, Rejoin
  <1>2. ~SessionEnds /\ ~Crash
    BY DEF SessionEnds, Crash, Break, BrokerTypes
  <1> QED  BY <1>1, <1>2

\* Without a break the session ends only with the client.
LEMMA BoundKept ==
  ASSUME Bound, Sessional, ReaderNext, ~SessionEnds, ~Crash
  PROVE  Bound'
  <1> USE DEF Bound
  <1>1. CASE session' = "up"
    BY <1>1
  <1>2. CASE ConsumerClose
    BY <1>2 DEF ConsumerClose, writerVars
  <1>3. CASE UNCHANGED <<mqClosed, session>> /\ runner.at # "none"
    BY <1>3
  <1>4. CASE UNCHANGED <<mqClosed, session, runner>>
    BY <1>4
  <1>5. \/ session' = "up" \/ ConsumerClose \/ (UNCHANGED <<mqClosed, session>> /\ runner.at # "none")
        \/ UNCHANGED <<mqClosed, session, runner>>
    BY DEF writerVars, ReaderNext, KafkaConsumer, RabbitConsumer, StartConsumer, ReceiveClaim, ReceiveDelivery,
           PushChannel, MarkMessage, Ack, ClaimCancelled, Nack, KafkaRunEnds, RabbitRunEnds, AutoCommit, ConsumeChan, Rejoin
  <1> QED  BY <1>1, <1>2, <1>3, <1>4, <1>5

\* Without a break run moves the messages in order.
LEMMA HeldKept ==
  ASSUME BrokerTypes, Held, Bound, Sessional, ReaderNext, ~SessionEnds, ~Crash
  PROVE  Held'
  <1>0. /\ Len(readCh) \in Nat /\ Len(msgCh) \in Nat /\ runner.pos \in Nat
        /\ readCh \in Seq(Nat) /\ msgCh \in Seq(Nat) /\ cursor \in Nat
    BY LenProperties, RunnerAt DEF BrokerTypes
  <1>c. CASE ConsumeChan
    <2>1. /\ msgCh # <<>> /\ readCh' = Append(readCh, Head(msgCh)) /\ msgCh' = Tail(msgCh)
          /\ UNCHANGED <<marked, committed, cursor, returned, runner, session>>
      BY <1>c DEF ConsumeChan
    <2>2. /\ InOrder(readCh', msgCh') /\ Len(readCh') + Len(msgCh') = Len(readCh) + Len(msgCh)
      BY <1>0, <2>1, InOrderRead DEF Held
    <2>3. runner.at # "none"
      <3>1. Len(msgCh) # 0
        BY <1>0, <2>1, EmptySeq
      <3> QED  BY <3>1 DEF Held
    <2> QED  BY <2>1, <2>2, <2>3 DEF Held
  <1>p. CASE PushChannel
    <2>1. /\ runner.at = "push" /\ runner' = [at |-> "mark", pos |-> runner.pos]
          /\ msgCh' = Append(msgCh, runner.pos) /\ readCh' = readCh
          /\ UNCHANGED <<marked, committed, cursor, returned, session>>
      BY <1>p, RunnerAt DEF PushChannel, BrokerTypes
    <2>2. runner.pos = Len(readCh) + Len(msgCh) + 1 /\ cursor = runner.pos + 1 /\ returned = {}
      BY <2>1 DEF Held
    <2>3. InOrder(readCh', msgCh') /\ Len(msgCh') = Len(msgCh) + 1
      BY <1>0, <2>1, <2>2, InOrderPush DEF Held
    <2>4. runner'.pos = Len(readCh') + Len(msgCh')
      BY <1>0, <2>1, <2>2, <2>3
    <2> QED  BY <2>1, <2>2, <2>3, <2>4 DEF Held
  <1>q. CASE ~PushChannel /\ ~ConsumeChan /\ UNCHANGED <<readCh, msgCh>>
    <2> DEFINE n == Len(readCh) + Len(msgCh)
    <2>n. n \in Nat /\ n = Len(readCh') + Len(msgCh')
      BY <1>0, <1>q
    <2>h. /\ InOrder(readCh', msgCh')
          /\ runner.at = "none" =>
                /\ Len(readCh') = 0 /\ Len(msgCh') = 0 /\ cursor = 1 /\ n = 0
                /\ committed = 0 /\ marked = 0 /\ returned = {} /\ session = "down"
          /\ runner.at = "receive" => cursor = n + 1 /\ (session = "up" => returned = {})
          /\ runner.at = "push" => runner.pos = n + 1 /\ cursor = runner.pos + 1 /\ returned = {}
          /\ runner.at = "mark" => runner.pos = n /\ cursor = runner.pos + 1 /\ returned = {}
      BY <1>0, <1>q DEF Held
    <2> SUFFICES /\ runner'.at = "none" => UNCHANGED <<runner, cursor, committed, marked, returned, session>>
                 /\ runner'.at = "receive" => cursor' = n + 1 /\ (session' = "up" => returned' = {})
                 /\ runner'.at = "push" => runner'.pos = n + 1 /\ cursor' = runner'.pos + 1 /\ returned' = {}
                 /\ runner'.at = "mark" => runner'.pos = n /\ cursor' = runner'.pos + 1 /\ returned' = {}
      BY <2>n, <2>h DEF Held
    <2> HIDE DEF n
    <2>1. CASE KafkaConsumer
      BY <2>1, <2>n, <2>h DEF KafkaConsumer, StartConsumer
    <2>2. CASE RabbitConsumer
      BY <2>2, <2>n, <2>h DEF RabbitConsumer, StartConsumer
    <2>3. CASE ConsumerClose
      BY <2>3, <2>n, <2>h DEF ConsumerClose
    <2>4. CASE ReceiveClaim
      BY <2>4, <2>n, <2>h DEF ReceiveClaim
    <2>5. CASE ReceiveDelivery
      BY <2>5, <2>n, <2>h DEF ReceiveDelivery
    <2>6. CASE MarkMessage
      BY <2>6, <2>n, <2>h DEF MarkMessage
    <2>7. CASE Ack
      BY <2>7, <2>n, <2>h DEF Ack
    <2>8. CASE ClaimCancelled
      BY <2>8, <2>n, <2>h DEF ClaimCancelled
    <2>9. CASE Nack
      BY <2>9, <2>n, <2>h DEF Nack
    <2>10. CASE KafkaRunEnds
      BY <2>10, <2>n, <2>h DEF KafkaRunEnds
    <2>11. CASE RabbitRunEnds
      BY <2>11, <2>n, <2>h DEF RabbitRunEnds
    <2>12. CASE AutoCommit
      BY <2>12, <2>n, <2>h DEF AutoCommit
    <2>13. ~\E ok \in BOOLEAN : Rejoin(ok)
      BY DEF Rejoin, Bound
    <2> QED  BY <1>q, <2>1, <2>2, <2>3, <2>4, <2>5, <2>6, <2>7, <2>8, <2>9, <2>10, <2>11, <2>12, <2>13 DEF ReaderNext
  <1>5. PushChannel \/ ConsumeChan \/ UNCHANGED <<readCh, msgCh>>
    BY DEF ReaderNext, KafkaConsumer, RabbitConsumer, StartConsumer, ConsumerClose, ReceiveClaim, ReceiveDelivery,
           MarkMessage, Ack, ClaimCancelled, Nack, KafkaRunEnds, RabbitRunEnds, AutoCommit, Rejoin
  <1> QED  BY <1>c, <1>p, <1>q, <1>5

\* Every step keeps the invariant of the brokers.
LEMMA BrokerPreserved == BrokerInv /\ [BrokerNext]_brokerVars => BrokerInv'
  <1> SUFFICES ASSUME BrokerInv, [BrokerNext]_brokerVars
               PROVE  BrokerInv'
    OBVIOUS
  <1> USE DEF BrokerInv
  <1>1. CASE UNCHANGED brokerVars
    <2>1. Arrived' = Arrived
      BY <1>1 DEF brokerVars, Arrived, Elements
    <2>2. BrokerTypes' /\ Sessional' /\ ConfirmedStored'
      BY <1>1 DEF brokerVars, BrokerTypes, Sessional, ConfirmedStored, Elements
    <2>3. ClaimInOrder' /\ AckedArrived'
      BY <1>1, <2>1 DEF brokerVars, ClaimInOrder, AckedArrived
    <2>4. Steady'
      BY <1>1 DEF brokerVars, Steady, Held, Bound, InOrder
    <2> QED  BY <2>2, <2>3, <2>4
  <1>2. CASE WriterNext
    <2>1. /\ UNCHANGED <<broker, readerVars, breaks>> /\ (mqClosed => mqClosed')
          /\ sends' \in Nat /\ topicLog' \in Seq(Nat) /\ ConfirmedStored'
      BY <1>2, WriterKeeps
    <2>2. Arrived' = Arrived
      BY <2>1 DEF readerVars, Arrived, Elements
    <2>3. BrokerTypes' /\ Sessional' /\ ClaimInOrder' /\ AckedArrived'
      BY <2>1, <2>2 DEF readerVars, BrokerTypes, Sessional, ClaimInOrder, AckedArrived
    <2>4. Held => Held'
      BY <2>1 DEF readerVars, Held, InOrder
    <2>5. Bound => Bound'
      BY <2>1 DEF readerVars, Bound
    <2>6. Steady'
      BY <2>1, <2>4, <2>5 DEF Steady
    <2> QED  BY <2>1, <2>3, <2>6
  <1>3. CASE ReaderNext
    <2>1. BrokerTypes' /\ Sessional' /\ UNCHANGED <<broker, sends, topicLog, confirmed>>
      BY <1>3, ReaderTypes
    <2>2. ConfirmedStored'
      BY <2>1 DEF ConfirmedStored, Elements
    <2>3. ClaimInOrder' /\ AckedArrived'
      BY <1>3, <2>1, ArrivedGrows, ClaimStaysInOrder, AckedStaysArrived
    <2>4. ASSUME breaks' = 0 PROVE Held' /\ Bound'
      <3>1. breaks = 0 /\ ~SessionEnds /\ ~Crash
        BY <1>3, <2>4, NoBreak
      <3>2. Held /\ Bound
        BY <3>1 DEF Steady
      <3> QED  BY <1>3, <3>1, <3>2, HeldKept, BoundKept
    <2>5. Steady'
      BY <2>4 DEF Steady
    <2> QED  BY <2>1, <2>2, <2>3, <2>5
  <1> QED  BY <1>1, <1>2, <1>3, BrokerSides

\* It holds initially ...
LEMMA BrokerInitially == BrokerInit => BrokerInv
  <1> SUFFICES ASSUME BrokerInit
               PROVE  BrokerInv
    OBVIOUS
  <1>1. <<>> \in Seq(Nat) /\ Len(<<>>) = 0
    BY EmptySeq
  <1>2. BrokerTypes /\ Sessional
    BY <1>1, RunnerAt, RunnerStepsHas DEF BrokerInit, BrokerTypes, Sessional, Ended
  <1>3. 1..0 = {} /\ ClaimInOrder /\ AckedArrived /\ ConfirmedStored
    BY DEF BrokerInit, ClaimInOrder, AckedArrived, ConfirmedStored, Ended
  <1>4. InOrder(<<>>, <<>>)
    BY <1>1, <1>3 DEF InOrder
  <1>5. Steady
    BY <1>1, <1>4 DEF BrokerInit, Steady, Held, Bound, Ended
  <1> QED  BY <1>2, <1>3, <1>5 DEF BrokerInv

\* ... and implies the property.
LEMMA BrokerInvImplies == BrokerInv => NothingSkipped
  <1> SUFFICES ASSUME BrokerInv
               PROVE  NothingSkipped
    OBVIOUS
  <1> USE DEF BrokerInv
  <1>1. Settled \subseteq Elements(readCh) \union Elements(msgCh) \union lost
    BY DEF Settled, ClaimInOrder, AckedArrived, Arrived
  <1>2. ASSUME breaks = 0, NEW i \in 1..(Len(readCh) + Len(msgCh))
        PROVE  (readCh \o msgCh)[i] = i
    <2>1. InOrder(readCh, msgCh)
      BY <1>2 DEF Steady, Held
    <2>2. /\ readCh \in Seq(Nat) /\ msgCh \in Seq(Nat) /\ Len(readCh) \in Nat /\ Len(msgCh) \in Nat
      BY LenProperties DEF BrokerTypes
    <2>3. (readCh \o msgCh)[i] = IF i <= Len(readCh) THEN readCh[i] ELSE msgCh[i - Len(readCh)]
      BY <2>2, ConcatProperties
    <2>4. CASE i <= Len(readCh)
      <3>1. i \in 1..Len(readCh)
        BY <2>2, <2>4
      <3> QED  BY <2>1, <2>3, <2>4, <3>1 DEF InOrder
    <2>5. CASE ~(i <= Len(readCh))
      <3>1. i - Len(readCh) \in 1..Len(msgCh) /\ Len(readCh) + (i - Len(readCh)) = i
        BY <2>2, <2>5
      <3> QED  BY <2>1, <2>3, <2>5, <3>1 DEF InOrder
    <2> QED  BY <2>4, <2>5
  <1> QED  BY <1>1, <1>2 DEF NothingSkipped, ConfirmedStored

\* For every size of the channel and any number of messages and breaks: a message
\* that the broker will not deliver again has been put into the channel, also
\* through rebalances, lost connections, closes and crashes; without a break
\* every message arrives once and in order; and Kafka has what it confirmed.
THEOREM SettledArrived == FacilitiesSpec => []NothingSkipped
  <1>1. FacilitiesInit => BrokerInv
    BY BrokerInitially DEF FacilitiesInit
  <1>2. BrokerInv /\ [FacilitiesNext]_facilityVars => BrokerInv'
    BY BrokerStep, BrokerPreserved
  <1> QED  BY <1>1, <1>2, BrokerInvImplies, PTL DEF FacilitiesSpec

----------------------------------------------------------------------------
(* The service calls *)

\* A step of the facilities is a step of the calls or leaves their variables
\* alone.
LEMMA CallsStep == [FacilitiesNext]_facilityVars => [CallsNext]_callVars
  BY DEF FacilitiesNext, facilityVars, callVars

\* The steps of a call, and those after it has a transport.
CallSteps == {"idle", "pool", "create", "send", "ok", "5xx", "error", "release"}
Pooled == {"send", "ok", "5xx", "error", "release"}

\* A call: the instance is whatever the list held.
CallsTo(I) == [at : CallSteps, inst : I, via : Nat, attempts : Nat, open : Nat]
IsCall(k) == \E I : k \in CallsTo(I)

\* The attempts made and the bodies left open at each step of a call.
Attempted(k) ==
    /\ k.at \in {"idle", "pool", "create"} => k.attempts = 0 /\ k.open = 0
    /\ k.at = "send" => k.attempts <= MaxRetry /\ k.open <= k.attempts
    /\ k.at \in {"ok", "5xx", "error", "release"} => k.attempts <= MaxRetry + 1
    /\ k.at \in {"ok", "5xx"} => k.open \in 1..(MaxRetry + 1)
    /\ k.at \in {"error", "release"} => k.open <= MaxRetry

\* Every call has its fields, and from "send" on the one transport.
CallsShape ==
    /\ callOf = [c \in Clients |-> callOf[c]]
    /\ \A c \in Clients : IsCall(callOf[c]) /\ Attempted(callOf[c])
    /\ transport \in Nat /\ transports \in Nat
    /\ \A c \in Clients : callOf[c].at \in Pooled => transport # 0 /\ callOf[c].via = transport

\* A step of one call that leaves the transport alone, or makes the first one.
LEMMA CallMoves ==
  ASSUME CallsShape, NEW c \in Clients, NEW k, IsCall(k), Attempted(k),
         callOf' = [callOf EXCEPT ![c] = k],
         transport' \in Nat, transports' \in Nat, transport # 0 => transport' = transport,
         k.at \in Pooled => transport' # 0 /\ k.via = transport'
  PROVE  CallsShape'
<1>1. callOf'[c] = k /\ \A d \in Clients \ {c} : callOf'[d] = callOf[d]
  BY DEF CallsShape
<1>2. callOf' = [d \in Clients |-> callOf'[d]]
  BY DEF CallsShape
<1>3. \A d \in Clients : IsCall(callOf'[d]) /\ Attempted(callOf'[d])
  BY <1>1 DEF CallsShape
<1>4. \A d \in Clients : callOf'[d].at \in Pooled => transport' # 0 /\ callOf'[d].via = transport'
  BY <1>1 DEF CallsShape
<1> QED
  BY <1>2, <1>3, <1>4 DEF CallsShape

\* A goroutine without a call is idle, with nothing attempted.
LEMMA NoCallIdle == IsCall(NoCall) /\ Attempted(NoCall) /\ NoCall.at = "idle"
<1>1. NoCall \in CallsTo({CHOOSE n \in Nodes : TRUE})
  BY DEF NoCall, CallsTo, CallSteps
<1> QED
  BY <1>1 DEF NoCall, IsCall, Attempted

\* Every step keeps the shape of the calls: PoolCreate looks again under the lock
\* before it makes a transport.
LEMMA CallsShapeKept ==
  ASSUME CallsShape, [CallsNext]_callVars
  PROVE  CallsShape'
<1> USE CallsAssumption
<1>1. ASSUME NEW c \in Clients, Select(c) PROVE CallsShape'
  <2>1. transport' = transport /\ transports' = transports
    BY <1>1 DEF Select
  <2>2. CASE callOf' = callOf
    BY <2>1, <2>2 DEF CallsShape
  <2>3. ASSUME NEW n, callOf' = [callOf EXCEPT ![c] = [NoCall EXCEPT !.at = "pool", !.inst = n]]
        PROVE  CallsShape'
    <3> DEFINE k == [NoCall EXCEPT !.at = "pool", !.inst = n]
    <3>1. k.at = "pool" /\ IsCall(k) /\ Attempted(k)
      <4>1. PICK I : NoCall \in CallsTo(I)
        BY NoCallIdle DEF IsCall
      <4>2. k \in CallsTo(I \union {n})
        BY <4>1 DEF CallsTo, CallSteps
      <4>3. k.at = "pool" /\ k.attempts = NoCall.attempts /\ k.open = NoCall.open
        BY <4>1 DEF CallsTo
      <4> HIDE DEF k
      <4> QED
        BY <4>2, <4>3, NoCallIdle DEF IsCall, Attempted
    <3> HIDE DEF k
    <3> QED
      BY <2>1, <2>3, <3>1, CallMoves DEF CallsShape, Pooled, k
  <2> QED
    BY <1>1, <2>2, <2>3 DEF Select
<1>2. ASSUME NEW c \in Clients, PoolRead(c) PROVE CallsShape'
  <2> DEFINE k == [callOf[c] EXCEPT !.at = IF transport # 0 THEN "send" ELSE "create", !.via = transport]
  <2>1. callOf[c].at = "pool" /\ UNCHANGED <<transport, transports>> /\ callOf' = [callOf EXCEPT ![c] = k]
    BY <1>2 DEF PoolRead
  <2>2. IsCall(callOf[c]) /\ Attempted(callOf[c]) /\ transport \in Nat /\ transports \in Nat
    BY DEF CallsShape
  <2>4. PICK I : callOf[c] \in CallsTo(I)
    BY <2>2 DEF IsCall
  <2>5. /\ k \in CallsTo(I) /\ k.at = (IF transport # 0 THEN "send" ELSE "create") /\ k.via = transport
        /\ k.attempts = callOf[c].attempts /\ k.open = callOf[c].open
    BY <2>2, <2>4 DEF CallsTo, CallSteps
  <2>3. IsCall(k) /\ Attempted(k) /\ (k.at \in Pooled => transport # 0 /\ k.via = transport)
    <3> HIDE DEF k
    <3> QED
      BY <2>1, <2>2, <2>5 DEF IsCall, Attempted, Pooled
  <2> HIDE DEF k
  <2> QED
    BY <2>1, <2>2, <2>3, CallMoves
<1>3. ASSUME NEW c \in Clients, PoolCreate(c) PROVE CallsShape'
  <2> DEFINE k == [callOf[c] EXCEPT !.at = "send", !.via = transport']
  <2>1. /\ callOf[c].at = "create" /\ callOf' = [callOf EXCEPT ![c] = k]
        /\ IF transport # 0 THEN UNCHANGED <<transport, transports>>
           ELSE transports' = transports + 1 /\ transport' = transports + 1
    BY <1>3 DEF PoolCreate, DoubleCheck
  <2>2. IsCall(callOf[c]) /\ Attempted(callOf[c]) /\ transport \in Nat /\ transports \in Nat
    BY DEF CallsShape
  <2>3. transport' \in Nat \ {0} /\ transports' \in Nat /\ (transport # 0 => transport' = transport)
    BY <2>1, <2>2
  <2>5. PICK I : callOf[c] \in CallsTo(I)
    BY <2>2 DEF IsCall
  <2>6. /\ k \in CallsTo(I) /\ k.at = "send" /\ k.via = transport'
        /\ k.attempts = callOf[c].attempts /\ k.open = callOf[c].open
    BY <2>3, <2>5 DEF CallsTo, CallSteps
  <2>4. IsCall(k) /\ Attempted(k) /\ k.via = transport'
    <3> HIDE DEF k
    <3> QED
      BY <2>1, <2>2, <2>6 DEF IsCall, Attempted
  <2> HIDE DEF k
  <2> QED
    BY <2>1, <2>2, <2>3, <2>4, CallMoves
<1>4. ASSUME NEW c \in Clients, NEW outcome \in {"ok", "5xx", "error"}, Do(c, outcome) PROVE CallsShape'
  <2> DEFINE last == outcome = "ok" \/ callOf[c].attempts = MaxRetry
             k == [callOf[c] EXCEPT !.at = IF last THEN outcome ELSE "send", !.attempts = @ + 1,
                                    !.open = IF outcome = "error" THEN @ ELSE @ + 1]
  <2>1. callOf[c].at = "send" /\ UNCHANGED <<transport, transports>> /\ callOf' = [callOf EXCEPT ![c] = k]
    BY <1>4 DEF Do
  <2>2. IsCall(callOf[c]) /\ Attempted(callOf[c]) /\ transport \in Nat /\ transports \in Nat
    BY DEF CallsShape
  <2>3. transport # 0 /\ callOf[c].via = transport
    BY <2>1 DEF CallsShape, Pooled
  <2>7. PICK I : callOf[c] \in CallsTo(I)
    BY <2>2 DEF IsCall
  <2>4. /\ k.at = (IF last THEN outcome ELSE "send")
        /\ k.attempts = callOf[c].attempts + 1 /\ k.via = callOf[c].via
        /\ k.open = (IF outcome = "error" THEN callOf[c].open ELSE callOf[c].open + 1)
    BY <2>7 DEF CallsTo
  <2>5. IsCall(k)
    <3> DEFINE step == IF last THEN outcome ELSE "send"
               left == IF outcome = "error" THEN callOf[c].open ELSE callOf[c].open + 1
    <3>2. step \in CallSteps /\ left \in Nat /\ callOf[c].attempts + 1 \in Nat
      BY <2>7 DEF CallsTo, CallSteps
    <3>3. k = [callOf[c] EXCEPT !.at = step, !.attempts = callOf[c].attempts + 1, !.open = left]
      BY <2>7 DEF CallsTo
    <3> HIDE DEF step, left, k, last
    <3>1. k \in CallsTo(I)
      BY <2>7, <3>2, <3>3 DEF CallsTo
    <3> QED
      BY <3>1 DEF IsCall
  <2>8. callOf[c].attempts \in Nat /\ callOf[c].open \in Nat
    BY <2>7 DEF CallsTo
  <2> HIDE DEF k
  <2>6. Attempted(k)
    BY <2>1, <2>2, <2>4, <2>8 DEF Attempted
  <2> QED
    BY <2>1, <2>2, <2>3, <2>4, <2>5, <2>6, CallMoves
<1>5. ASSUME NEW c \in Clients, Parse(c) PROVE CallsShape'
  <2> DEFINE k == [callOf[c] EXCEPT !.at = "release", !.open = IF callOf[c].at = "error" THEN @ ELSE @ - 1]
  <2>1. callOf[c].at \in {"ok", "5xx", "error"} /\ UNCHANGED <<transport, transports>> /\ callOf' = [callOf EXCEPT ![c] = k]
    BY <1>5 DEF Parse
  <2>2. IsCall(callOf[c]) /\ Attempted(callOf[c]) /\ transport \in Nat /\ transports \in Nat
    BY DEF CallsShape
  <2>3. transport # 0 /\ callOf[c].via = transport
    BY <2>1 DEF CallsShape, Pooled
  <2>6. PICK I : callOf[c] \in CallsTo(I)
    BY <2>2 DEF IsCall
  <2>7. callOf[c].attempts \in Nat /\ callOf[c].open \in Nat
    BY <2>6 DEF CallsTo
  <2>8. callOf[c].at # "error" => callOf[c].open - 1 \in Nat
    BY <2>1, <2>2, <2>7 DEF Attempted
  <2>4. /\ k.at = "release" /\ k.attempts = callOf[c].attempts /\ k.via = callOf[c].via
        /\ k.open = (IF callOf[c].at = "error" THEN callOf[c].open ELSE callOf[c].open - 1)
        /\ k \in CallsTo(I)
    BY <2>6, <2>8 DEF CallsTo, CallSteps
  <2> HIDE DEF k
  <2>5. IsCall(k) /\ Attempted(k)
    BY <2>1, <2>2, <2>4, <2>7 DEF IsCall, Attempted
  <2> QED
    BY <2>1, <2>2, <2>3, <2>4, <2>5, CallMoves
<1>6. ASSUME NEW c \in Clients, Release(c) PROVE CallsShape'
  <2>1. UNCHANGED <<transport, transports>> /\ callOf' = [callOf EXCEPT ![c] = NoCall]
    BY <1>6 DEF Release
  <2> QED
    BY <2>1, NoCallIdle, CallMoves DEF CallsShape, Pooled
<1>7. ASSUME NEW s, ListChanges(s) PROVE CallsShape'
  BY <1>7 DEF ListChanges, CallsShape
<1>8. CASE UNCHANGED callVars
  BY <1>8 DEF callVars, CallsShape
<1> QED
  BY <1>1, <1>2, <1>3, <1>4, <1>5, <1>6, <1>7, <1>8 DEF CallsNext

-----------------------------------------------------------------------------
\* Remainders: of a division ...
LEMMA Remainder ==
  ASSUME NEW t \in Nat, NEW L \in Nat, L > 0
  PROVE  t % L \in 0..(L - 1) /\ t = L * (t \div L) + (t % L) /\ t \div L \in Nat
OBVIOUS

\* ... of the sum of a multiple and a remainder ...
LEMMA RemainderUnique ==
  ASSUME NEW L \in Nat, L > 0, NEW d \in Nat, NEW r \in 0..(L - 1)
  PROVE  (L * d + r) % L = r
OBVIOUS

\* ... and of the next number.
LEMMA RemainderNext ==
  ASSUME NEW t \in Nat, NEW L \in Nat, L > 0
  PROVE  (t + 1) % L = IF t % L = L - 1 THEN 0 ELSE (t % L) + 1
<1> DEFINE d == t \div L
           r == t % L
<1>1. t = L * d + r /\ d \in Nat /\ r \in 0..(L - 1)
  BY Remainder
<1>2. CASE r = L - 1
  <2>1. t + 1 = L * (d + 1) + 0
    BY <1>1, <1>2
  <2>2. d + 1 \in Nat /\ 0 \in 0..(L - 1)
    BY <1>1
  <2> HIDE DEF d
  <2>3. (L * (d + 1) + 0) % L = 0
    BY <2>2, RemainderUnique
  <2> QED
    BY <1>2, <2>1, <2>3
<1>3. CASE r # L - 1
  <2>1. t + 1 = L * d + (r + 1) /\ r + 1 \in 0..(L - 1)
    BY <1>1, <1>3
  <2>2. d \in Nat
    BY <1>1
  <2> HIDE DEF d
  <2>3. (L * d + (r + 1)) % L = r + 1
    BY <2>1, <2>2, RemainderUnique
  <2> QED
    BY <1>3, <2>1, <2>3
<1> QED
  BY <1>2, <1>3

\* The list of a set of instances has each of them once.
LEMMA ListOfSet ==
  ASSUME NEW T \in SUBSET Nodes
  PROVE  LET s == NodeLists!SetToSeq(T) IN
         s \in Seq(Nodes) /\ \A i, j \in 1..Len(s) : s[i] = s[j] => i = j
<1> DEFINE n == Cardinality(T)
           Inj(f) == \A a, b \in DOMAIN f : f[a] = f[b] => a = b
<1>1. IsFiniteSet(T) /\ n \in Nat
  BY CallsAssumption, FS_Subset, FS_CardinalityType
<1>2. NodeLists!SetToSeq(T) = CHOOSE f \in [1..n -> T] : Inj(f)
  <2>1. NodeLists!Cardinality(T) = n
    BY DEF NodeLists!Cardinality, Cardinality
  <2> HIDE DEF n
  <2> QED
    BY <2>1 DEF NodeLists!SetToSeq, NodeLists!IsInjective
<1>3. \E f \in [1..n -> T] : Inj(f)
  <2>1. IsFiniteSet(1..n) /\ Cardinality(1..n) = n
    BY <1>1, FS_Interval
  <2>2. ExistsBijection(1..n, T)
    BY <1>1, <2>1, FS_SameCardinalityBij
  <2> QED
    BY <2>2 DEF ExistsBijection, Bijection, Injection, IsInjective
<1>4. NodeLists!SetToSeq(T) \in [1..n -> T] /\ Inj(NodeLists!SetToSeq(T))
  BY <1>2, <1>3
<1> QED
  BY <1>1, <1>4

\* Position p of a round that began at position s and has reached t.
Served(s, t, p) == IF s <= t THEN s <= p /\ p < t ELSE s <= p \/ p < t

\* In the round that began at s every instance was selected q times, and those
\* the round has served once more.
Round(q, s) ==
    \A k \in 1..Len(list) : picks[list[k]] = IF Served(s, turn % Len(list), k - 1) THEN q + 1 ELSE q

\* The invariant of RoundRobin: it is within some round.
Rounds ==
    /\ calls \in Nat /\ turn \in Nat
    /\ list \in Seq(Nodes) /\ \A i, j \in 1..Len(list) : list[i] = list[j] => i = j
    /\ picks \in [Nodes -> Nat]
    /\ balancer = "round-robin" /\ calls < CounterModulus =>
         /\ turn <= calls
         /\ list # <<>> => \E q \in Nat, s \in 0..(Len(list) - 1) : Round(q, s)

\* Select serves the next position of the round: the counter and the list have
\* not changed between.
LEMMA SelectRounds ==
  ASSUME Rounds, NEW c \in Clients, Select(c)
  PROVE  Rounds'
<1>1. calls \in Nat /\ calls' = calls + 1 /\ UNCHANGED <<balancer, list>>
  BY DEF Select, Rounds
<1>2. CASE list = <<>>
  <2>1. turn' = turn /\ picks' = picks /\ list' = <<>>
    BY <1>1, <1>2 DEF Select
  <2>2. balancer = "round-robin" /\ calls + 1 < CounterModulus => turn <= calls + 1
    BY <1>1, CallsAssumption DEF Rounds
  <2> QED
    BY <1>1, <2>1, <2>2 DEF Rounds
<1>3. CASE list # <<>>
  <2>1. PICK n \in Chosen :
            /\ turn' = IF balancer \in {"round-robin", "hash"} THEN (turn + 1) % CounterModulus ELSE turn
            /\ picks' = [picks EXCEPT ![n] = @ + 1]
    BY <1>3 DEF Select
  <2>2. turn' \in Nat
    BY <2>1, CallsAssumption, Remainder DEF Rounds
  <2>3. picks' \in [Nodes -> Nat]
    <3>1. picks \in [Nodes -> Nat]
      BY DEF Rounds
    <3>2. CASE n \in Nodes
      BY <2>1, <3>1, <3>2
    <3>3. CASE n \notin Nodes
      BY <2>1, <3>1, <3>3
    <3> QED
      BY <3>2, <3>3
  <2>4. ASSUME balancer = "round-robin", calls + 1 < CounterModulus
        PROVE  turn' <= calls + 1 /\ \E q \in Nat, s \in 0..(Len(list) - 1) : Round(q, s)'
    <3> DEFINE L == Len(list)
               t == turn % L
               u == turn' % L
    <3>1. L \in Nat /\ L > 0 /\ turn \in Nat /\ turn <= calls
      BY <1>1, <1>3, <2>4, CallsAssumption, EmptySeq, LenProperties DEF Rounds
    <3>2. turn' = turn + 1
      <4>1. turn + 1 \in 0..(CounterModulus - 1) /\ 0 \in Nat
        BY <1>1, <2>4, <3>1, CallsAssumption
      <4>2. (CounterModulus * 0 + (turn + 1)) % CounterModulus = turn + 1
        BY <4>1, RemainderUnique, CallsAssumption
      <4>3. CounterModulus * 0 + (turn + 1) = turn + 1
        BY <3>1, CallsAssumption
      <4> QED
        BY <2>1, <2>4, <4>2, <4>3
    <3>3. t \in 0..(L - 1) /\ u = IF t = L - 1 THEN 0 ELSE t + 1
      BY <3>1, <3>2, Remainder, RemainderNext
    <3>4. n = list[t + 1] /\ n \in Nodes
      <4>1. n = list[t + 1]
        BY <2>1, <2>4 DEF Chosen, RoundRobin
      <4> QED
        BY <3>1, <3>3, <4>1 DEF Rounds
    <3>5. PICK q \in Nat, s \in 0..(L - 1) : Round(q, s)
      <4>1. calls < CounterModulus
        BY <1>1, <2>4, CallsAssumption
      <4> QED
        BY <1>3, <2>4, <4>1 DEF Rounds
    <3> HIDE DEF L, t, u
    <3>6. \A k \in 1..L : picks[list[k]] = IF Served(s, t, k - 1) THEN q + 1 ELSE q
      BY <3>5 DEF Round, L, t
    <3>7. \A k \in 1..L : picks'[list[k]] = IF k = t + 1 THEN picks[list[k]] + 1 ELSE picks[list[k]]
      <4> SUFFICES ASSUME NEW k \in 1..L
                   PROVE  picks'[list[k]] = IF k = t + 1 THEN picks[list[k]] + 1 ELSE picks[list[k]]
        OBVIOUS
      <4>1. list[k] \in Nodes /\ t + 1 \in 1..L /\ (list[k] = list[t + 1] <=> k = t + 1)
        BY <3>1, <3>3 DEF Rounds, L
      <4> QED
        BY <2>1, <3>4, <4>1 DEF Rounds
    <3>8. \A k \in 1..L : picks'[list[k]] = IF k = t + 1 \/ Served(s, t, k - 1) THEN q + 1 ELSE q
      <4> SUFFICES ASSUME NEW k \in 1..L
                   PROVE  picks'[list[k]] = IF k = t + 1 \/ Served(s, t, k - 1) THEN q + 1 ELSE q
        OBVIOUS
      <4>1. CASE k = t + 1
        <5>1. ~Served(s, t, k - 1)
          BY <3>3, <4>1 DEF Served
        <5> QED
          BY <3>6, <3>7, <4>1, <5>1
      <4>2. CASE k # t + 1
        BY <3>6, <3>7, <4>2
      <4> QED
        BY <4>1, <4>2
    <3>9. CASE u = s
      <4>1. \A k \in 1..L : k = t + 1 \/ Served(s, t, k - 1)
        BY <3>1, <3>3, <3>9 DEF Served
      <4>2. \A k \in 1..L : ~Served(s, u, k - 1)
        BY <3>1, <3>9 DEF Served
      <4>3. \A k \in 1..L : picks'[list[k]] = IF Served(s, u, k - 1) THEN (q + 1) + 1 ELSE q + 1
        BY <3>8, <4>1, <4>2
      <4>4. Round(q + 1, s)'
        BY <1>1, <4>3 DEF Round, L, u
      <4> QED
        BY <1>1, <3>1, <3>2, <4>4 DEF L
    <3>10. CASE u # s
      <4>1. \A k \in 1..L : (k = t + 1 \/ Served(s, t, k - 1)) <=> Served(s, u, k - 1)
        BY <3>1, <3>3, <3>10 DEF Served
      <4>2. \A k \in 1..L : picks'[list[k]] = IF Served(s, u, k - 1) THEN q + 1 ELSE q
        BY <3>8, <4>1
      <4>3. Round(q, s)'
        BY <1>1, <4>2 DEF Round, L, u
      <4> QED
        BY <1>1, <3>1, <3>2, <4>3 DEF L
    <3> QED
      BY <3>9, <3>10
  <2>5. /\ calls' \in Nat /\ list' \in Seq(Nodes) /\ \A i, j \in 1..Len(list') : list'[i] = list'[j] => i = j
    BY <1>1 DEF Rounds
  <2>6. balancer' = "round-robin" /\ calls' < CounterModulus =>
         /\ turn' <= calls'
         /\ list' # <<>> => \E q \in Nat, s \in 0..(Len(list') - 1) : Round(q, s)'
    BY <1>1, <2>4
  <2> QED
    BY <2>2, <2>3, <2>5, <2>6 DEF Rounds
<1> QED
  BY <1>2, <1>3

\* A new list begins a new round where the counter is.
LEMMA ListRounds ==
  ASSUME Rounds, NEW T \in SUBSET Nodes, ListChanges(NodeLists!SetToSeq(T))
  PROVE  Rounds'
<1> DEFINE new == NodeLists!SetToSeq(T)
<1>1. /\ list' = new /\ picks' = [n \in Nodes |-> 0] /\ UNCHANGED <<balancer, turn, calls>>
  BY DEF ListChanges
<1>2. new \in Seq(Nodes) /\ \A i, j \in 1..Len(new) : new[i] = new[j] => i = j
  BY ListOfSet
<1> HIDE DEF new
<1>3. ASSUME new # <<>> PROVE \E q \in Nat, s \in 0..(Len(list') - 1) : Round(q, s)'
  <2>1. Len(new) \in Nat /\ Len(new) > 0 /\ turn \in Nat
    BY <1>2, <1>3, EmptySeq, LenProperties DEF Rounds
  <2>2. PICK t \in 0..(Len(new) - 1) : t = turn % Len(new)
    BY <2>1, Remainder
  <2>3. \A k \in 1..Len(new) : new[k] \in Nodes
    BY <1>2
  <2>4. \A k \in 1..Len(new) : ~Served(t, t, k - 1)
    BY <2>1, <2>2 DEF Served
  <2>5. \A k \in 1..Len(new) : picks'[new[k]] = 0
    BY <1>1, <2>3
  <2>6. \A k \in 1..Len(new) : picks'[new[k]] = IF Served(t, t, k - 1) THEN 0 + 1 ELSE 0
    BY <2>4, <2>5
  <2>7. Round(0, t)'
    BY <1>1, <2>2, <2>6 DEF Round
  <2> QED
    BY <1>1, <2>2, <2>7
<1> QED
  BY <1>1, <1>2, <1>3 DEF Rounds

-----------------------------------------------------------------------------
\* The calls under way to an instance.
CallersOf(n) == {c \in Clients : callOf[c].at # "idle" /\ callOf[c].inst = n}

\* The invariant of LeastConnections.
Connected == connections \in [Nodes -> Nat] /\ ConnectionsCounted

\* A set of goroutines with one more or one fewer.
LEMMA CallerSets ==
  ASSUME NEW T \in SUBSET Clients
  PROVE  /\ Cardinality(T) \in Nat
         /\ \A c \in Clients \ T : Cardinality(T \union {c}) = Cardinality(T) + 1
         /\ \A c \in T : Cardinality(T \ {c}) = Cardinality(T) - 1 /\ Cardinality(T) > 0
<1>1. IsFiniteSet(T) /\ Cardinality(T) \in Nat
  BY CallsAssumption, FS_Subset, FS_CardinalityType
<1>2. ASSUME NEW c \in T PROVE Cardinality(T \ {c}) = Cardinality(T) - 1 /\ Cardinality(T) > 0
  BY <1>1, <1>2, FS_RemoveElement, FS_EmptySet
<1> QED
  BY <1>1, <1>2, FS_AddElement

\* A step that leaves every instance its callers keeps the connections.
LEMMA ConnectedSame ==
  ASSUME Connected, UNCHANGED <<balancer, connections>>, \A n \in Nodes : CallersOf(n)' = CallersOf(n)
  PROVE  Connected'
BY DEF Connected, ConnectionsCounted, Busy, CallersOf

\* So does the step of one goroutine's call, if it stays with its instance.
LEMMA CallUnderWay ==
  ASSUME CallsShape, NEW c \in Clients, callOf[c].at # "idle", UNCHANGED <<balancer, connections>>,
         NEW k, k.at # "idle", k.inst = callOf[c].inst, callOf' = [callOf EXCEPT ![c] = k], Connected
  PROVE  Connected'
<1>1. callOf'[c] = k /\ \A d \in Clients \ {c} : callOf'[d] = callOf[d]
  BY DEF CallsShape
<1>2. ASSUME NEW n PROVE CallersOf(n)' = CallersOf(n)
  BY <1>1 DEF CallersOf
<1> QED
  BY <1>2, ConnectedSame

\* Every step keeps the connections of LeastConnections equal to the calls under
\* way: Select adds one, Release takes it away.
LEMMA ConnectedKept ==
  ASSUME CallsShape, Connected, [CallsNext]_callVars
  PROVE  Connected'
<1>0. \A c \in Clients : \E I : callOf[c] \in CallsTo(I)
  BY DEF CallsShape, IsCall
<1>1. ASSUME NEW c \in Clients, Select(c) PROVE Connected'
  <2>1. CASE list = <<>>
    BY <1>1, <2>1 DEF Select, Connected, ConnectionsCounted, Busy
  <2>2. CASE list # <<>>
    <3>1. PICK n \in Chosen :
            /\ callOf' = [callOf EXCEPT ![c] = [NoCall EXCEPT !.at = "pool", !.inst = n]]
            /\ connections' = IF balancer = "least" THEN [connections EXCEPT ![n] = @ + 1] ELSE connections
      BY <1>1, <2>2 DEF Select
    <3>2. callOf[c].at = "idle" /\ balancer' = balancer
      BY <1>1 DEF Select
    <3>3. callOf'[c].at = "pool" /\ callOf'[c].inst = n /\ \A d \in Clients \ {c} : callOf'[d] = callOf[d]
      <4>1. PICK I : NoCall \in CallsTo(I)
        BY NoCallIdle DEF IsCall
      <4> QED
        BY <3>1, <4>1 DEF CallsShape, CallsTo
    <3>4. connections' \in [Nodes -> Nat]
      <4>1. connections \in [Nodes -> Nat]
        BY DEF Connected
      <4>2. CASE n \in Nodes
        BY <3>1, <4>1, <4>2
      <4>3. CASE n \notin Nodes
        BY <3>1, <4>1, <4>3
      <4> QED
        BY <4>2, <4>3
    <3>5. ASSUME balancer = "least", NEW m \in Nodes PROVE connections'[m] = Cardinality(CallersOf(m)')
      <4>1. connections[m] = Cardinality(CallersOf(m)) /\ connections \in [Nodes -> Nat]
        BY <3>5 DEF Connected, ConnectionsCounted, Busy, CallersOf
      <4>2. CallersOf(m) \in SUBSET Clients /\ c \notin CallersOf(m)
        BY <3>2 DEF CallersOf
      <4>3. CASE m = n
        <5>1. CallersOf(m)' = CallersOf(m) \union {c}
          BY <3>3, <4>3 DEF CallersOf
        <5>2. Cardinality(CallersOf(m) \union {c}) = Cardinality(CallersOf(m)) + 1
          BY <4>2, CallerSets
        <5>3. connections'[m] = connections[m] + 1
          BY <3>1, <3>5, <4>1, <4>3
        <5> QED
          BY <4>1, <5>1, <5>2, <5>3
      <4>4. CASE m # n
        <5>1. CallersOf(m)' = CallersOf(m)
          BY <3>2, <3>3, <4>4 DEF CallersOf
        <5>2. connections'[m] = connections[m]
          BY <3>1, <3>5, <4>1, <4>4
        <5> QED
          BY <4>1, <5>1, <5>2
      <4> QED
        BY <4>3, <4>4
    <3> QED
      BY <3>2, <3>4, <3>5 DEF Connected, ConnectionsCounted, Busy, CallersOf
  <2> QED
    BY <2>1, <2>2
<1>2. ASSUME NEW c \in Clients, PoolRead(c) PROVE Connected'
  <2> DEFINE k == [callOf[c] EXCEPT !.at = IF transport # 0 THEN "send" ELSE "create", !.via = transport]
  <2>1. callOf[c].at = "pool" /\ UNCHANGED <<balancer, connections>> /\ callOf' = [callOf EXCEPT ![c] = k]
    BY <1>2 DEF PoolRead
  <2>2. k.at # "idle" /\ k.inst = callOf[c].inst
    BY <1>0 DEF CallsTo
  <2> HIDE DEF k
  <2> QED
    BY <2>1, <2>2, CallUnderWay
<1>3. ASSUME NEW c \in Clients, PoolCreate(c) PROVE Connected'
  <2> DEFINE k == [callOf[c] EXCEPT !.at = "send", !.via = transport']
  <2>1. callOf[c].at = "create" /\ UNCHANGED <<balancer, connections>> /\ callOf' = [callOf EXCEPT ![c] = k]
    BY <1>3 DEF PoolCreate
  <2>2. k.at # "idle" /\ k.inst = callOf[c].inst
    BY <1>0 DEF CallsTo
  <2> HIDE DEF k
  <2> QED
    BY <2>1, <2>2, CallUnderWay
<1>4. ASSUME NEW c \in Clients, NEW outcome \in {"ok", "5xx", "error"}, Do(c, outcome) PROVE Connected'
  <2> DEFINE last == outcome = "ok" \/ callOf[c].attempts = MaxRetry
             k == [callOf[c] EXCEPT !.at = IF last THEN outcome ELSE "send", !.attempts = @ + 1,
                                    !.open = IF outcome = "error" THEN @ ELSE @ + 1]
  <2>1. callOf[c].at = "send" /\ UNCHANGED <<balancer, connections>> /\ callOf' = [callOf EXCEPT ![c] = k]
    BY <1>4 DEF Do
  <2>2. k.at # "idle" /\ k.inst = callOf[c].inst
    BY <1>0 DEF CallsTo
  <2> HIDE DEF k
  <2> QED
    BY <2>1, <2>2, CallUnderWay
<1>5. ASSUME NEW c \in Clients, Parse(c) PROVE Connected'
  <2> DEFINE k == [callOf[c] EXCEPT !.at = "release", !.open = IF callOf[c].at = "error" THEN @ ELSE @ - 1]
  <2>1. /\ callOf[c].at \in {"ok", "5xx", "error"} /\ UNCHANGED <<balancer, connections>>
        /\ callOf' = [callOf EXCEPT ![c] = k]
    BY <1>5 DEF Parse
  <2>2. k.at # "idle" /\ k.inst = callOf[c].inst
    BY <1>0 DEF CallsTo
  <2> HIDE DEF k
  <2> QED
    BY <2>1, <2>2, CallUnderWay
<1>6. ASSUME NEW c \in Clients, Release(c) PROVE Connected'
  <2> DEFINE n == callOf[c].inst
  <2>1. /\ callOf[c].at = "release" /\ callOf' = [callOf EXCEPT ![c] = NoCall] /\ balancer' = balancer
        /\ connections' = IF connections[n] > 0 THEN [connections EXCEPT ![n] = @ - 1] ELSE connections
    BY <1>6 DEF Release
  <2>2. callOf'[c].at = "idle" /\ \A d \in Clients \ {c} : callOf'[d] = callOf[d]
    BY <2>1, NoCallIdle DEF CallsShape
  <2>3. connections \in [Nodes -> Nat]
    BY DEF Connected
  <2>4. connections' \in [Nodes -> Nat]
    <3>1. CASE n \in Nodes
      BY <2>1, <2>3, <3>1
    <3>2. CASE n \notin Nodes
      BY <2>1, <2>3, <3>2
    <3> QED
      BY <3>1, <3>2
  <2>5. ASSUME balancer = "least", NEW m \in Nodes PROVE connections'[m] = Cardinality(CallersOf(m)')
    <3>1. connections[m] = Cardinality(CallersOf(m))
      BY <2>5 DEF Connected, ConnectionsCounted, Busy, CallersOf
    <3>2. CallersOf(m) \in SUBSET Clients
      BY DEF CallersOf
    <3>3. CASE m = n
      <4>1. c \in CallersOf(m) /\ CallersOf(m)' = CallersOf(m) \ {c}
        BY <2>1, <2>2, <3>3 DEF CallersOf
      <4>2. Cardinality(CallersOf(m) \ {c}) = Cardinality(CallersOf(m)) - 1 /\ Cardinality(CallersOf(m)) > 0
        BY <3>2, <4>1, CallerSets
      <4>3. connections'[m] = connections[m] - 1
        BY <2>1, <2>3, <3>1, <3>3, <4>2
      <4> QED
        BY <3>1, <4>1, <4>2, <4>3
    <3>4. CASE m # n
      <4>1. CallersOf(m)' = CallersOf(m)
        BY <2>2, <3>4 DEF CallersOf
      <4>2. connections'[m] = connections[m]
        BY <2>1, <2>3, <3>4
      <4> QED
        BY <3>1, <4>1, <4>2
    <3> QED
      BY <3>3, <3>4
  <2> QED
    BY <2>1, <2>4, <2>5 DEF Connected, ConnectionsCounted, Busy, CallersOf
<1>7. ASSUME NEW s, ListChanges(s) PROVE Connected'
  BY <1>7 DEF ListChanges, Connected, ConnectionsCounted, Busy
<1>8. CASE UNCHANGED callVars
  BY <1>8 DEF callVars, Connected, ConnectionsCounted, Busy
<1> QED
  BY <1>1, <1>2, <1>3, <1>4, <1>5, <1>6, <1>7, <1>8 DEF CallsNext

\* Every step keeps RoundRobin in its round.
LEMMA RoundsKept ==
  ASSUME Rounds, [CallsNext]_callVars
  PROVE  Rounds'
<1>1. ASSUME UNCHANGED <<balancer, list, turn, calls, picks>> PROVE Rounds'
  BY <1>1 DEF Rounds, Round
<1>2. ASSUME NEW c \in Clients, PoolRead(c) \/ PoolCreate(c) \/ Parse(c) \/ Release(c) PROVE Rounds'
  BY <1>1, <1>2 DEF PoolRead, PoolCreate, Parse, Release
<1>3. ASSUME NEW c \in Clients, NEW outcome \in {"ok", "5xx", "error"}, Do(c, outcome) PROVE Rounds'
  BY <1>1, <1>3 DEF Do
<1>4. CASE UNCHANGED callVars
  BY <1>1, <1>4 DEF callVars
<1> QED
  BY <1>2, <1>3, <1>4, SelectRounds, ListRounds DEF CallsNext

-----------------------------------------------------------------------------
\* The weight of a set of instances, and the total of all.
Heft(S) == Cardinality(Units(S))

\* The units of a set are finitely many, and each instance adds its own.
LEMMA HeftAdds ==
  /\ \A n \in Nodes : WeightOf(n) \in Nat \ {0}
  /\ Heft({}) = 0
  /\ \A S \in SUBSET Nodes : IsFiniteSet(Units(S)) /\ Heft(S) \in Nat
  /\ \A S \in SUBSET Nodes : \A x \in Nodes \ S : Heft(S \union {x}) = Heft(S) + WeightOf(x)
  /\ \A S \in SUBSET Nodes : \A T \in SUBSET S : Heft(T) <= Heft(S)
<1>1. \A n \in Nodes : WeightOf(n) \in Nat \ {0}
  BY CallsAssumption DEF WeightOf
<1>2. Heft({}) = 0
  <2>1. Units({}) = {}
    BY DEF Units
  <2> QED
    BY <2>1, FS_EmptySet DEF Heft
<1>3. ASSUME NEW n \in Nodes
      PROVE  IsFiniteSet({n} \X (1..WeightOf(n))) /\ Cardinality({n} \X (1..WeightOf(n))) = WeightOf(n)
  <2>1. IsFiniteSet({n}) /\ Cardinality({n}) = 1
    BY FS_Singleton
  <2>2. IsFiniteSet(1..WeightOf(n)) /\ Cardinality(1..WeightOf(n)) = WeightOf(n)
    BY <1>1, FS_Interval
  <2> QED
    BY <1>1, <2>1, <2>2, FS_Product
<1>4. ASSUME NEW S \in SUBSET Nodes PROVE IsFiniteSet(Units(S)) /\ Heft(S) \in Nat
  <2> DEFINE B == {{n} \X (1..WeightOf(n)) : n \in S}
             f == [n \in S |-> {n} \X (1..WeightOf(n))]
  <2>1. f \in Surjection(S, B)
    BY DEF Surjection
  <2>2. IsFiniteSet(S)
    BY CallsAssumption, FS_Subset
  <2>3. IsFiniteSet(B)
    <3> HIDE DEF f, B
    <3> QED
      BY <2>1, <2>2, FS_Surjection
  <2>4. \A T \in B : IsFiniteSet(T)
    BY <1>3
  <2>5. IsFiniteSet(UNION B)
    <3> HIDE DEF B
    <3> QED
      BY <2>3, <2>4, FS_UNION
  <2> QED
    BY <2>5, FS_CardinalityType DEF Units, Heft
<1>5. ASSUME NEW S \in SUBSET Nodes, NEW x \in Nodes \ S PROVE Heft(S \union {x}) = Heft(S) + WeightOf(x)
  <2> DEFINE X == {x} \X (1..WeightOf(x))
  <2>1. Units(S \union {x}) = Units(S) \union X
    BY DEF Units
  <2>2. Units(S) \intersect X = {}
    BY DEF Units
  <2>3. IsFiniteSet(X) /\ Cardinality(X) = WeightOf(x)
    BY <1>3
  <2>4. IsFiniteSet(Units(S)) /\ Heft(S) \in Nat
    BY <1>4
  <2> HIDE DEF X
  <2>5. Cardinality(Units(S) \union X) = Cardinality(Units(S)) + Cardinality(X) - Cardinality(Units(S) \intersect X)
    BY <2>3, <2>4, FS_Union
  <2>6. Cardinality(Units(S) \intersect X) = 0
    BY <2>2, FS_EmptySet
  <2>7. Heft(S \union {x}) = Cardinality(Units(S) \union X) /\ Heft(S) = Cardinality(Units(S))
    BY <2>1 DEF Heft
  <2>8. WeightOf(x) \in Nat
    BY <1>1
  <2> QED
    BY <2>3, <2>4, <2>5, <2>6, <2>7, <2>8
<1>6. ASSUME NEW S \in SUBSET Nodes, NEW T \in SUBSET S PROVE Heft(T) <= Heft(S)
  <2>1. Units(T) \subseteq Units(S)
    BY DEF Units
  <2> QED
    BY <1>4, <2>1, FS_Subset DEF Heft
<1> QED
  BY <1>1, <1>2, <1>4, <1>5, <1>6

\* How far the weights of j instances together may be from zero, and what one
\* more instance adds to it.
Far(j) == Heft(Nodes) * j * (2 * Cardinality(Nodes) - j - 1)
Further(j) == Heft(Nodes) * 2 * (Cardinality(Nodes) - j)

\* What follows of them by arithmetic ...
LEMMA FarArithmetic ==
  ASSUME NEW W \in Nat, NEW n \in Nat, NEW j \in Nat
  PROVE  /\ W * j * (2 * n - j - 1) \in Int
         /\ W * 2 * (n - j) \in Int
         /\ W * (j + 1) * (2 * n - (j + 1) - 1) = W * j * (2 * n - j - 1) + W * 2 * (n - (j + 1))
         /\ W * 2 * (n - j) = W * 2 * (n - (j + 1)) + 2 * W
         /\ j <= n => W * 2 * (n - j) >= 0
<1> DEFINE a == 2 * n - j - 1
<1>1. W * (j + 1) * (2 * n - (j + 1) - 1) = W * ((j + 1) * (a - 1))
  OBVIOUS
<1>2. (j + 1) * (a - 1) = j * a + (a - j - 1)
  OBVIOUS
<1>3. W * ((j + 1) * (a - 1)) = W * (j * a) + W * (a - j - 1)
  BY <1>2
<1>4. a - j - 1 = 2 * (n - (j + 1))
  OBVIOUS
<1> QED
  BY <1>1, <1>3, <1>4

\* ... for the instances.
LEMMA FarGrows ==
  /\ Cardinality(Nodes) \in Nat /\ Heft(Nodes) \in Nat
  /\ \A j \in Nat : Far(j) \in Int /\ Further(j) \in Int
  /\ Far(0) = 0
  /\ \A j \in Nat : Far(j + 1) = Far(j) + Further(j + 1)
  /\ \A j \in Nat : Further(j) = Further(j + 1) + 2 * Heft(Nodes)
  /\ \A j \in 0..Cardinality(Nodes) : Further(j) >= 0
<1>1. Cardinality(Nodes) \in Nat /\ Heft(Nodes) \in Nat
  BY CallsAssumption, FS_CardinalityType, HeftAdds
<1>2. Far(0) = 0
  BY <1>1 DEF Far
<1> QED
  BY <1>1, <1>2, FarArithmetic DEF Far, Further

-----------------------------------------------------------------------------
\* s gives every set of instances the sum of their values in f.
Sums(s, f) ==
    /\ s \in [SUBSET Nodes -> Int] /\ s[{}] = 0
    /\ \A S \in SUBSET Nodes : \A x \in Nodes \ S : s[S \union {x}] = s[S] + f[x]

\* No set of instances is further from zero than Far.
Near(s) == \A S \in SUBSET Nodes : s[S] <= Far(Cardinality(S)) /\ 0 - Far(Cardinality(S)) <= s[S]

\* One instance more or less in a set.
LEMMA InstanceSets ==
  /\ \A S \in SUBSET Nodes : Cardinality(S) \in 0..Cardinality(Nodes)
  /\ \A S \in SUBSET Nodes : \A x \in Nodes \ S : Cardinality(S \union {x}) = Cardinality(S) + 1
  /\ \A S \in SUBSET Nodes : \A x \in S : Cardinality(S) = Cardinality(S \ {x}) + 1
<1>1. ASSUME NEW S \in SUBSET Nodes PROVE IsFiniteSet(S) /\ Cardinality(S) \in 0..Cardinality(Nodes)
  BY CallsAssumption, FS_Subset, FS_CardinalityType
<1>2. ASSUME NEW S \in SUBSET Nodes, NEW x \in Nodes \ S PROVE Cardinality(S \union {x}) = Cardinality(S) + 1
  BY <1>1, FS_AddElement
<1>3. ASSUME NEW S \in SUBSET Nodes, NEW x \in S PROVE Cardinality(S) = Cardinality(S \ {x}) + 1
  BY <1>1, FS_RemoveElement
<1> QED
  BY <1>1, <1>2, <1>3

\* A larger set may be further from zero.
LEMMA FarMonotone ==
  ASSUME NEW S \in SUBSET Nodes, NEW T \in SUBSET S
  PROVE  Far(Cardinality(T)) <= Far(Cardinality(S))
<1> DEFINE n == Cardinality(Nodes)
           W == Heft(Nodes)
           i == Cardinality(T)
           j == Cardinality(S)
<1>1. i \in Nat /\ j \in Nat /\ n \in Nat /\ W \in Nat /\ i <= j /\ j <= n
  BY CallsAssumption, FS_Subset, FS_CardinalityType, HeftAdds
<1> HIDE DEF n, W, i, j
<1>2. CASE i = j
  BY <1>1, <1>2 DEF Far, n, W, i, j
<1>3. CASE i < j
  <2>1. j * (2 * n - j - 1) - i * (2 * n - i - 1) = (j - i) * (2 * n - 1 - i - j)
    BY <1>1
  <2>2. (j - i) * (2 * n - 1 - i - j) >= 0
    BY <1>1, <1>3
  <2>3. i * (2 * n - i - 1) <= j * (2 * n - j - 1) /\ i * (2 * n - i - 1) \in Int /\ j * (2 * n - j - 1) \in Int
    BY <1>1, <2>1, <2>2
  <2>4. \A a, b \in Int : a <= b => W * a <= W * b
    BY <1>1
  <2>5. W * (i * (2 * n - i - 1)) <= W * (j * (2 * n - j - 1))
    BY <2>3, <2>4
  <2>6. W * (i * (2 * n - i - 1)) = W * i * (2 * n - i - 1) /\ W * (j * (2 * n - j - 1)) = W * j * (2 * n - j - 1)
    BY <1>1
  <2> QED
    BY <2>5, <2>6 DEF Far, n, W, i, j
<1> QED
  BY <1>1, <1>2, <1>3

\* One selection of WeightedRoundRobin from the instances L, where h is one that
\* has the most: the sums after it.
Paid(f, L, h) == [n \in Nodes |-> IF n \notin L THEN 0
                                  ELSE IF n = h THEN f[n] + WeightOf(n) - Heft(L) ELSE f[n] + WeightOf(n)]
PaidSums(s, L, h) == [S \in SUBSET Nodes |-> LET K == S \intersect L IN
                        IF h \in S THEN s[K] + Heft(K) - Heft(L) ELSE s[K] + Heft(K)]

\* They are the sums of what each instance has after it.
LEMMA PaidSumsSum ==
  ASSUME NEW f \in [Nodes -> Int], NEW s, Sums(s, f), NEW L \in SUBSET Nodes, NEW h \in L
  PROVE  Sums(PaidSums(s, L, h), Paid(f, L, h))
<1> DEFINE t == PaidSums(s, L, h)
           g == Paid(f, L, h)
<1>1. t \in [SUBSET Nodes -> Int]
  <2>1. \A S \in SUBSET Nodes : S \intersect L \in SUBSET Nodes
    OBVIOUS
  <2> QED
    BY <2>1, HeftAdds DEF Sums, PaidSums
<1>2. t[{}] = 0
  <2>1. {} \intersect L = {} /\ h \notin {}
    OBVIOUS
  <2> QED
    BY <2>1, HeftAdds DEF Sums, PaidSums
<1>3. ASSUME NEW S \in SUBSET Nodes, NEW x \in Nodes \ S PROVE t[S \union {x}] = t[S] + g[x]
  <2> DEFINE K == S \intersect L
             Kx == (S \union {x}) \intersect L
  <2>1. /\ t[S] = IF h \in S THEN s[K] + Heft(K) - Heft(L) ELSE s[K] + Heft(K)
        /\ t[S \union {x}] = IF h \in S \union {x} THEN s[Kx] + Heft(Kx) - Heft(L) ELSE s[Kx] + Heft(Kx)
    BY DEF PaidSums
  <2>2. K \in SUBSET Nodes /\ s[K] \in Int /\ Heft(K) \in Nat /\ Heft(L) \in Nat /\ f[x] \in Int /\ WeightOf(x) \in Nat
    BY HeftAdds DEF Sums
  <2>3. CASE x \notin L
    <3>1. Kx = K /\ x # h /\ g[x] = 0
      BY <2>3 DEF Paid
    <3>2. h \in S <=> h \in S \union {x}
      BY <3>1
    <3> HIDE DEF K, Kx, g, t
    <3> QED
      BY <2>1, <2>2, <3>1, <3>2
  <2>4. CASE x \in L
    <3>1. Kx = K \union {x} /\ x \in Nodes \ K
      BY <2>4
    <3>2. s[Kx] = s[K] + f[x] /\ Heft(Kx) = Heft(K) + WeightOf(x)
      BY <2>2, <3>1, HeftAdds DEF Sums
    <3>3. g[x] = IF x = h THEN f[x] + WeightOf(x) - Heft(L) ELSE f[x] + WeightOf(x)
      BY <2>4 DEF Paid
    <3> HIDE DEF K, Kx, g, t
    <3>4. CASE x = h
      <4>1. h \notin S /\ h \in S \union {x}
        BY <3>4
      <4> QED
        BY <2>1, <2>2, <3>2, <3>3, <3>4, <4>1
    <3>5. CASE x # h
      <4>1. h \in S <=> h \in S \union {x}
        BY <3>5
      <4> QED
        BY <2>1, <2>2, <3>2, <3>3, <3>5, <4>1
    <3> QED
      BY <3>4, <3>5
  <2> QED
    BY <2>3, <2>4
<1> QED
  BY <1>1, <1>2, <1>3 DEF Sums

\* The selection keeps the sums near zero.  A set without h grows by its weight:
\* if h has much, the set has that much less than the set with h; if not, no
\* instance has much, and the set without any of them was near.  A set with h
\* shrinks by the weight of the others: if h has little, then so has an instance
\* that is not in the set, and the set with it was near; if not, the set without
\* h was near.
LEMMA PaidStaysNear ==
  ASSUME NEW f \in [Nodes -> Int], NEW s, Sums(s, f), Near(s), NEW L \in SUBSET Nodes, NEW h \in L,
         \A x \in L : f[x] + WeightOf(x) <= f[h] + WeightOf(h)
  PROVE  Near(PaidSums(s, L, h))
<1> DEFINE t == PaidSums(s, L, h)
           W == Heft(Nodes)
           y == f[h] + WeightOf(h)
<1> SUFFICES ASSUME NEW S \in SUBSET Nodes
             PROVE  t[S] <= Far(Cardinality(S)) /\ 0 - Far(Cardinality(S)) <= t[S]
  BY DEF Near
<1> DEFINE K == S \intersect L
           j == Cardinality(K)
<1>1. K \in SUBSET Nodes /\ K \in SUBSET S /\ K \in SUBSET L
  OBVIOUS
<1>2. /\ j \in Nat /\ j <= Cardinality(Nodes) /\ Cardinality(S) \in Nat
      /\ Far(j) \in Int /\ Far(Cardinality(S)) \in Int /\ Far(j) <= Far(Cardinality(S))
  BY <1>1, InstanceSets, FarGrows, FarMonotone
<1>3. /\ s[K] \in Int /\ s[K] <= Far(j) /\ 0 - Far(j) <= s[K]
      /\ Heft(K) \in Nat /\ Heft(L) \in Nat /\ W \in Nat /\ Heft(K) <= Heft(L) /\ Heft(L) <= W /\ y \in Int
  BY <1>1, HeftAdds DEF Sums, Near
<1>4. CASE h \notin S
  <2>1. t[S] = s[K] + Heft(K)
    BY <1>4 DEF PaidSums
  <2>2. CASE K = {}
    <3>1. s[K] = 0 /\ Heft(K) = 0 /\ j = 0 /\ Far(0) = 0
      BY <2>2, HeftAdds, FarGrows, FS_EmptySet DEF Sums
    <3> HIDE DEF K, j, t, W, y
    <3> QED
      BY <1>2, <2>1, <3>1
  <2>3. CASE K # {}
    <3>1. PICK x : x \in K
      BY <2>3
    <3> DEFINE A == K \union {h}
               B == K \ {x}
               i == Cardinality(B)
    <3>2. A \in SUBSET Nodes /\ B \in SUBSET Nodes /\ h \in Nodes \ K /\ x \in Nodes \ B /\ B \union {x} = K /\ x \in L
      BY <1>1, <1>4, <3>1
    <3>3. Cardinality(A) = j + 1 /\ j = i + 1 /\ i \in Nat
      BY <1>1, <3>1, <3>2, InstanceSets
    <3>4. /\ s[A] = s[K] + f[h] /\ s[K] = s[B] + f[x]
          /\ s[A] \in Int /\ s[B] \in Int /\ f[h] \in Int /\ f[x] \in Int
      BY <1>1, <3>2 DEF Sums
    <3>5. /\ Heft(A) = Heft(K) + WeightOf(h) /\ Heft(K) = Heft(B) + WeightOf(x)
          /\ Heft(A) \in Nat /\ Heft(B) \in Nat /\ WeightOf(h) \in Nat /\ WeightOf(x) \in Nat
          /\ Heft(A) <= W /\ Heft(B) <= W
      BY <1>1, <3>2, HeftAdds
    <3>6. s[A] <= Far(j + 1) /\ s[B] <= Far(i)
      BY <3>2, <3>3 DEF Near
    <3>7. /\ Far(j + 1) = Far(j) + Further(j + 1) /\ Far(j) = Far(i) + Further(j)
          /\ Further(j) = Further(j + 1) + 2 * W
          /\ Far(i) \in Int /\ Further(j) \in Int /\ Further(j + 1) \in Int
      BY <1>2, <3>3, FarGrows
    <3>8. f[x] + WeightOf(x) <= f[h] + WeightOf(h)
      BY <3>2
    <3> HIDE DEF K, j, t, W, y, A, B, i
    <3>9. s[K] + Heft(K) <= Far(j)
      BY <1>2, <1>3, <3>3, <3>4, <3>5, <3>6, <3>7, <3>8
    <3> QED
      BY <1>2, <1>3, <2>1, <3>9
  <2> QED
    BY <2>2, <2>3
<1>5. CASE h \in S
  <2>1. t[S] = s[K] + Heft(K) - Heft(L) /\ h \in K
    BY <1>5 DEF PaidSums
  <2>2. CASE K = L
    <3>1. t[S] = s[K]
      BY <1>3, <2>1, <2>2
    <3> HIDE DEF K, j, t, W, y
    <3> QED
      BY <1>2, <1>3, <3>1
  <2>3. CASE K # L
    <3>1. PICK x : x \in L \ K
      BY <1>1, <2>3
    <3> DEFINE A == K \union {x}
               B == K \ {h}
               i == Cardinality(B)
    <3>2. A \in SUBSET Nodes /\ B \in SUBSET Nodes /\ h \in Nodes \ B /\ x \in Nodes \ K /\ B \union {h} = K /\ x \in L
      BY <1>1, <2>1, <3>1
    <3>3. Cardinality(A) = j + 1 /\ j = i + 1 /\ i \in Nat
      BY <1>1, <2>1, <3>2, InstanceSets, SMTT(30)
    <3>4. /\ s[A] = s[K] + f[x] /\ s[K] = s[B] + f[h]
          /\ s[A] \in Int /\ s[B] \in Int /\ f[h] \in Int /\ f[x] \in Int
      BY <1>1, <3>2 DEF Sums
    <3>5. /\ Heft(A) = Heft(K) + WeightOf(x) /\ Heft(K) = Heft(B) + WeightOf(h)
          /\ Heft(A) \in Nat /\ Heft(B) \in Nat /\ WeightOf(h) \in Nat /\ WeightOf(x) \in Nat
      BY <1>1, <3>2, HeftAdds
    <3>6. 0 - Far(j + 1) <= s[A] /\ 0 - Far(i) <= s[B]
      BY <3>2, <3>3 DEF Near
    <3>7. /\ Far(j + 1) = Far(j) + Further(j + 1) /\ Far(j) = Far(i) + Further(j)
          /\ Further(j) = Further(j + 1) + 2 * W
          /\ Far(i) \in Int /\ Further(j) \in Int /\ Further(j + 1) \in Int
      BY <1>2, <3>3, FarGrows
    <3>8. f[x] + WeightOf(x) <= f[h] + WeightOf(h)
      BY <3>2
    <3> HIDE DEF K, j, t, W, y, A, B, i
    <3>9. 0 - Far(j) <= s[K] + Heft(K) - Heft(L)
      BY <1>2, <1>3, <3>3, <3>4, <3>5, <3>6, <3>7, <3>8
    <3> QED
      BY <1>2, <1>3, <2>1, <3>9
  <2> QED
    BY <2>2, <2>3
<1> QED
  BY <1>4, <1>5

\* There is an instance with the most, and a first such.
LEMMA HeaviestExists ==
  ASSUME list # <<>>, list \in Seq(Nodes), \A n \in Nodes : Gained(n) \in Int
  PROVE  Heaviest \in Members /\ \A n \in Members : Gained(n) <= Gained(Heaviest)
<1> DEFINE D == 1..Len(list)
           Before(k) == {i \in D : Gained(list[i]) > Gained(list[k]) \/ (Gained(list[i]) = Gained(list[k]) /\ i < k)}
           First(k) == /\ \A i \in D : Gained(list[i]) <= Gained(list[k])
                       /\ \A i \in 1..(k - 1) : Gained(list[i]) < Gained(list[k])
           T == {Before(k) : k \in D}
<1>1. Len(list) \in Nat /\ 1 \in D /\ \A k \in D : list[k] \in Nodes /\ Gained(list[k]) \in Int
  BY EmptySeq, LenProperties
<1>2. IsFiniteSet(D)
  BY <1>1, FS_Interval
<1>3. IsWellFoundedOn(StrictSubsetOrdering(D), SUBSET D)
  BY <1>2, FS_StrictSubsetOrderingWellFounded, FS_FiniteSubsetsOfFinite
<1>4. PICK x \in T : \A z \in T : ~(<<z, x>> \in StrictSubsetOrdering(D))
  <2>1. T \subseteq SUBSET D /\ T # {}
    BY <1>1, ZenonT(40)
  <2> HIDE DEF T
  <2> QED
    BY <1>3, <2>1, WFMin
<1>5. PICK k \in D : x = Before(k)
  BY <1>4
<1>6. Before(k) = {}
  <2> SUFFICES ASSUME NEW i \in Before(k) PROVE FALSE
    OBVIOUS
  <2>1. i \in D /\ i \notin Before(i) /\ Before(i) \subseteq Before(k)
    <3>1. i \in D /\ (Gained(list[i]) > Gained(list[k]) \/ (Gained(list[i]) = Gained(list[k]) /\ i < k))
      OBVIOUS
    <3>2. i \notin Before(i)
      BY <1>1, <3>1
    <3>3. ASSUME NEW m \in Before(i) PROVE m \in Before(k)
      <4>1. m \in D /\ (Gained(list[m]) > Gained(list[i]) \/ (Gained(list[m]) = Gained(list[i]) /\ m < i))
        BY <3>3
      <4> HIDE DEF Before
      <4>2. Gained(list[m]) > Gained(list[k]) \/ (Gained(list[m]) = Gained(list[k]) /\ m < k)
        <5>1. /\ Gained(list[m]) \in Int /\ Gained(list[i]) \in Int /\ Gained(list[k]) \in Int
              /\ m \in Int /\ i \in Int /\ k \in Int
          BY <1>1, <3>1, <4>1
        <5> HIDE DEF D
        <5> QED
          BY <3>1, <4>1, <5>1
      <4> QED
        BY <4>1, <4>2 DEF Before
    <3> QED
      BY <3>1, <3>2, <3>3
  <2>2. Before(i) \in T /\ Before(i) \in SUBSET D /\ Before(k) \in SUBSET D
    BY <2>1
  <2>3. <<Before(i), Before(k)>> \in StrictSubsetOrdering(D)
    <3>1. Before(i) # Before(k)
      BY <2>1
    <3> HIDE DEF Before
    <3> QED
      BY <2>1, <2>2, <3>1 DEF StrictSubsetOrdering
  <2> QED
    BY <1>4, <1>5, <2>2, <2>3
<1>7. First(k)
  <2>1. \A i \in D : ~(Gained(list[i]) > Gained(list[k])) /\ ~(Gained(list[i]) = Gained(list[k]) /\ i < k)
    BY <1>6
  <2>2. \A i \in 1..(k - 1) : i \in D /\ i < k
    BY <1>1
  <2>3. \A a, b \in Int : ~(a > b) => a <= b
    OBVIOUS
  <2>4. \A a, b \in Int : a <= b /\ a # b => a < b
    OBVIOUS
  <2>5. \A i \in D : Gained(list[i]) <= Gained(list[k])
    BY <1>1, <2>1, <2>3
  <2> HIDE DEF D, Before
  <2>6. \A i \in 1..(k - 1) : Gained(list[i]) < Gained(list[k])
    BY <1>1, <2>1, <2>2, <2>4, <2>5
  <2> QED
    BY <2>5, <2>6 DEF D
<1>8. PICK m \in D : Heaviest = list[m] /\ First(m)
  <2>1. Heaviest = list[CHOOSE m \in D : First(m)]
    BY DEF Heaviest
  <2> HIDE DEF First, D
  <2> QED
    BY <1>7, <2>1
<1> QED
  BY <1>8 DEF Members

\* What each instance carries over to the next selection.
Carried == [n \in Nodes |-> IF n \in DOMAIN currentWeight THEN currentWeight[n] ELSE 0]

\* The invariant of WeightedRoundRobin: the sums of what sets of instances carry
\* stay near zero.  What one instance carries is not bounded by itself: the
\* heaviest pays for all, and only sums tell that it has it.
Balanced ==
    /\ Carried \in [Nodes -> Int]
    /\ DOMAIN currentWeight \subseteq Nodes
    /\ \E s : Sums(s, Carried) /\ Near(s)

\* Select is such a selection, or leaves the weights alone.
LEMMA SelectBalances ==
  ASSUME Balanced, list \in Seq(Nodes), NEW c \in Clients, Select(c)
  PROVE  Balanced'
<1>1. CASE currentWeight' = currentWeight
  BY <1>1 DEF Balanced, Carried
<1>2. CASE list # <<>> /\ currentWeight' = WeightsAfter
  <2> DEFINE L == Members
             h == Heaviest
  <2>1. L \in SUBSET Nodes
    BY <1>2 DEF Members
  <2>2. \A n \in Nodes : Gained(n) = Carried[n] + WeightOf(n) /\ Gained(n) \in Int
    BY HeftAdds DEF Balanced, Carried, Gained
  <2>3. h \in L /\ \A n \in L : Gained(n) <= Gained(h)
    BY <1>2, <2>2, HeaviestExists
  <2>4. PICK s : Sums(s, Carried) /\ Near(s)
    BY DEF Balanced
  <2>5. TotalWeight = Heft(L)
    BY DEF TotalWeight, Heft
  <2>6. Carried' = Paid(Carried, L, h) /\ DOMAIN currentWeight' = L
    <3>1. currentWeight' = [n \in L |-> IF n = h THEN Gained(n) - Heft(L) ELSE Gained(n)]
      BY <1>2, <2>5 DEF WeightsAfter
    <3>2. Carried' = [n \in Nodes |-> IF n \in DOMAIN currentWeight' THEN currentWeight'[n] ELSE 0]
      BY DEF Carried
    <3> HIDE DEF L, h
    <3>3. \A n \in Nodes : Carried'[n] = Paid(Carried, L, h)[n]
      <4> SUFFICES ASSUME NEW n \in Nodes PROVE Carried'[n] = Paid(Carried, L, h)[n]
        OBVIOUS
      <4>1. Carried'[n] = IF n \in L THEN (IF n = h THEN Gained(n) - Heft(L) ELSE Gained(n)) ELSE 0
        BY <3>1, <3>2
      <4>2. Paid(Carried, L, h)[n] = IF n \notin L THEN 0
                                  ELSE IF n = h THEN Carried[n] + WeightOf(n) - Heft(L) ELSE Carried[n] + WeightOf(n)
        BY DEF Paid
      <4>3. /\ Gained(n) = Carried[n] + WeightOf(n) /\ Gained(n) \in Int
            /\ Carried[n] \in Int /\ WeightOf(n) \in Nat /\ Heft(L) \in Nat
        BY <2>1, <2>2, HeftAdds DEF Balanced
      <4> QED
        BY <4>1, <4>2, <4>3
    <3> QED
      BY <3>1, <3>2, <3>3 DEF Paid
  <2>7. Paid(Carried, L, h) \in [Nodes -> Int]
    BY <2>1, HeftAdds DEF Paid, Balanced
  <2>8. \A x \in L : Carried[x] + WeightOf(x) <= Carried[h] + WeightOf(h)
    BY <2>1, <2>2, <2>3
  <2>9. Carried \in [Nodes -> Int]
    BY DEF Balanced
  <2> HIDE DEF L, h
  <2>10. Sums(PaidSums(s, L, h), Paid(Carried, L, h)) /\ Near(PaidSums(s, L, h))
    BY <2>1, <2>3, <2>4, <2>8, <2>9, PaidSumsSum, PaidStaysNear
  <2>11. \E z : Sums(z, Carried') /\ Near(z)
    BY <2>6, <2>10
  <2> QED
    BY <2>1, <2>6, <2>7, <2>11 DEF Balanced, Sums, Near, Far, Heft, Units, WeightOf
<1> QED
  BY <1>1, <1>2 DEF Select

\* Only Select changes the weights.
LEMMA BalancedKept ==
  ASSUME Balanced, Rounds, [CallsNext]_callVars
  PROVE  Balanced'
<1>1. ASSUME currentWeight' = currentWeight PROVE Balanced'
  BY <1>1 DEF Balanced, Carried
<1>2. ASSUME NEW c \in Clients, PoolRead(c) \/ PoolCreate(c) \/ Parse(c) \/ Release(c) PROVE Balanced'
  BY <1>1, <1>2 DEF PoolRead, PoolCreate, Parse, Release
<1>3. ASSUME NEW c \in Clients, NEW outcome \in {"ok", "5xx", "error"}, Do(c, outcome) PROVE Balanced'
  BY <1>1, <1>3 DEF Do
<1>4. ASSUME NEW s, ListChanges(s) PROVE Balanced'
  BY <1>1, <1>4 DEF ListChanges
<1>5. CASE UNCHANGED callVars
  BY <1>1, <1>5 DEF callVars
<1>6. ASSUME NEW c \in Clients, Select(c) PROVE Balanced'
  BY <1>6, SelectBalances DEF Rounds
<1> QED
  BY <1>2, <1>3, <1>4, <1>5, <1>6 DEF CallsNext

\* At first nothing is carried.
LEMMA BalancedInitially ==
  ASSUME CallsInit
  PROVE  Balanced
<1> DEFINE s == [S \in SUBSET Nodes |-> 0]
<1>1. Carried = [n \in Nodes |-> 0] /\ DOMAIN currentWeight = {}
  BY DEF CallsInit, Carried
<1>2. Sums(s, Carried)
  BY <1>1 DEF Sums
<1>3. Near(s)
  <2> SUFFICES ASSUME NEW S \in SUBSET Nodes PROVE 0 <= Far(Cardinality(S))
    BY InstanceSets, FarGrows DEF Near
  <2>1. {} \in SUBSET S /\ Cardinality({}) = 0
    BY FS_EmptySet
  <2> QED
    BY <2>1, FarMonotone, FarGrows
<1> HIDE DEF s
<1> QED
  BY <1>1, <1>2, <1>3 DEF Balanced

\* A single instance is within the bound.
LEMMA BalancedBounds ==
  ASSUME Balanced
  PROVE  WeightsBounded
<1> SUFFICES ASSUME NEW n \in DOMAIN currentWeight
             PROVE  LET bound == 2 * (Cardinality(Nodes) - 1) * Heft(Nodes)
                    IN  currentWeight[n] \in (0 - bound)..bound
  BY DEF WeightsBounded, Heft
<1> DEFINE N == Cardinality(Nodes)
           W == Heft(Nodes)
<1>1. PICK s : Sums(s, Carried) /\ Near(s)
  BY DEF Balanced
<1>2. n \in Nodes /\ Carried[n] = currentWeight[n] /\ Carried[n] \in Int
  BY DEF Balanced, Carried
<1>3. {n} \in SUBSET Nodes /\ {} \union {n} = {n} /\ {} \in SUBSET Nodes /\ Cardinality({n}) = 1
  BY <1>2, FS_Singleton
<1>4. s[{n}] = Carried[n]
  <2>1. s[{} \union {n}] = s[{}] + Carried[n] /\ s[{}] = 0
    BY <1>1, <1>2, <1>3 DEF Sums
  <2> QED
    BY <1>2, <1>3, <2>1
<1>5. Carried[n] <= Far(1) /\ 0 - Far(1) <= Carried[n]
  BY <1>1, <1>3, <1>4 DEF Near
<1>6. N \in Nat /\ W \in Nat
  BY FarGrows
<1>7. Far(1) = W * 1 * (2 * N - 1 - 1)
  BY DEF Far
<1> HIDE DEF N, W
<1>8. W * 1 * (2 * N - 1 - 1) = 2 * (N - 1) * W
  BY <1>6
<1> QED
  BY <1>2, <1>5, <1>6, <1>7, <1>8 DEF N, W

\* The inductive invariant of the calls.
CallsInv == CallsShape /\ Connected /\ Rounds /\ Balanced

\* It holds initially ...
LEMMA CallsInitially == CallsInit => CallsInv
<1> SUFFICES ASSUME CallsInit PROVE CallsInv
  OBVIOUS
<1>1. CallsShape
  BY NoCallIdle DEF CallsInit, CallsShape, Pooled
<1>2. Connected
  <2>1. \A n \in Nodes : CallersOf(n) = {}
    BY NoCallIdle DEF CallsInit, CallersOf
  <2> QED
    BY <2>1, FS_EmptySet DEF CallsInit, Connected, ConnectionsCounted, Busy, CallersOf
<1>3. Rounds
  <2>1. list \in Seq(Nodes) /\ \A i, j \in 1..Len(list) : list[i] = list[j] => i = j
    BY ListOfSet DEF CallsInit
  <2>2. ASSUME list # <<>> PROVE \E q \in Nat, s \in 0..(Len(list) - 1) : Round(q, s)
    <3>1. Len(list) \in Nat /\ Len(list) > 0 /\ turn = 0
      BY <2>1, <2>2, EmptySeq, LenProperties DEF CallsInit
    <3>2. PICK t \in 0..(Len(list) - 1) : t = turn % Len(list)
      BY <3>1, Remainder
    <3>3. \A k \in 1..Len(list) : picks[list[k]] = 0 /\ ~Served(t, t, k - 1)
      BY <2>1, <3>1, <3>2 DEF CallsInit, Served
    <3>4. Round(0, t)
      BY <3>2, <3>3 DEF Round
    <3> QED
      BY <3>2, <3>4
  <2> QED
    BY <2>1, <2>2 DEF CallsInit, Rounds
<1> QED
  BY <1>1, <1>2, <1>3, BalancedInitially DEF CallsInv

\* ... and implies the properties.
LEMMA CallsInvImplies == CallsInv => CallsAccounted
<1> SUFFICES ASSUME CallsInv PROVE CallsAccounted
  OBVIOUS
<1>1. ConnectionsCounted
  BY DEF CallsInv, Connected
<1>2. OneTransport
  BY DEF CallsInv, CallsShape, OneTransport, Pooled
<1>3. RetriesBounded
  <2> SUFFICES ASSUME NEW c \in Clients
               PROVE  /\ callOf[c].attempts <= MaxRetry + 1
                      /\ callOf[c].at = "release" => callOf[c].open \in 0..MaxRetry
    BY DEF RetriesBounded, Bodies
  <2>1. Attempted(callOf[c]) /\ IsCall(callOf[c])
    BY DEF CallsInv, CallsShape
  <2>2. callOf[c].at \in CallSteps /\ callOf[c].attempts \in Nat /\ callOf[c].open \in Nat
    BY <2>1 DEF IsCall, CallsTo
  <2> QED
    BY <2>1, <2>2, CallsAssumption DEF Attempted, CallSteps
<1>4. TurnsFair
  <2> SUFFICES ASSUME balancer = "round-robin", calls < CounterModulus, NEW n \in Members, NEW m \in Members
               PROVE  picks[n] - picks[m] <= 1
    BY DEF TurnsFair
  <2>1. PICK i \in 1..Len(list), j \in 1..Len(list) : n = list[i] /\ m = list[j]
    BY DEF Members
  <2>2. list # <<>> /\ Rounds
    BY <2>1, EmptySeq DEF CallsInv
  <2>3. PICK q \in Nat, s \in 0..(Len(list) - 1) : Round(q, s)
    BY <2>2 DEF Rounds
  <2>4. picks[n] \in {q, q + 1} /\ picks[m] \in {q, q + 1}
    BY <2>1, <2>3 DEF Round
  <2> QED
    BY <2>3, <2>4
<1>5. WeightsBounded
  BY BalancedBounds DEF CallsInv
<1> QED
  BY <1>1, <1>2, <1>3, <1>4, <1>5 DEF CallsAccounted

\* For all instances with any weights, any changes of the list, any number of
\* goroutines and any outcome of the requests: LeastConnections counts exactly the
\* calls under way; the weights of WeightedRoundRobin do not run away; RoundRobin
\* serves nobody twice more than another until its counter wraps; all calls use
\* the one transport of the host; and a call makes at most MaxRetry + 1 attempts
\* and leaves at most MaxRetry bodies open.
THEOREM CallsStayAccounted == FacilitiesSpec => []CallsAccounted
<1>1. FacilitiesInit => CallsInv
  BY CallsInitially DEF FacilitiesInit
<1>2. CallsInv /\ [FacilitiesNext]_facilityVars => CallsInv'
  BY CallsStep, CallsShapeKept, ConnectedKept, RoundsKept, BalancedKept DEF CallsInv
<1> QED
  BY <1>1, <1>2, CallsInvImplies, PTL DEF FacilitiesSpec

----------------------------------------------------------------------------
(* The configuration *)

\* A step of the facilities is a step of the configuration or leaves its
\* variables alone.
LEMMA ConfigStep == [FacilitiesNext]_facilityVars => [ConfigNext]_configVars
  BY DEF FacilitiesNext, facilityVars, configVars

(* What setNested, EnvSource.Load, merge and Get compute.  The recursion of *)
(* setNested and of EnvSource.Load is reasoned about by a least             *)
(* counterexample, since the provers have no induction.                     *)

\* A set of numbers up to n has a least one.
LEMMA LeastNumber ==
  ASSUME NEW n \in Nat, NEW S, S \subseteq 0..n, S # {}
  PROVE  \E m \in S : \A k \in S : m <= k
<1> DEFINE D == 0..n
           Below(k) == 0..k
           T == {Below(k) : k \in S}
<1>1. IsFiniteSet(D)
  BY FS_Interval
<1>2. IsWellFoundedOn(StrictSubsetOrdering(D), SUBSET D)
  BY <1>1, FS_StrictSubsetOrderingWellFounded, FS_FiniteSubsetsOfFinite
<1>3. T \subseteq SUBSET D /\ T # {}
  <2>1. \A k \in S : Below(k) \subseteq D
    OBVIOUS
  <2> HIDE DEF Below, D
  <2> QED  BY <2>1
<1>4. PICK x \in T : \A z \in T : ~(<<z, x>> \in StrictSubsetOrdering(D))
  <2> HIDE DEF T
  <2> QED  BY <1>2, <1>3, WFMin
<1>5. PICK m \in S : x = Below(m)
  BY <1>4
<1>6. ASSUME NEW k \in S, k < m PROVE FALSE
  <2>1. Below(k) \subseteq Below(m) /\ Below(k) # Below(m)
    <3>1. m \in Below(m) /\ m \notin Below(k)
      BY <1>6
    <3> QED  BY <1>6, <3>1
  <2>2. Below(k) \in T /\ Below(k) \in SUBSET D /\ Below(m) \in SUBSET D
    BY <1>3
  <2>3. <<Below(k), Below(m)>> \in StrictSubsetOrdering(D)
    <3> HIDE DEF Below, D
    <3> QED  BY <2>1, <2>2 DEF StrictSubsetOrdering
  <2> QED  BY <1>4, <1>5, <2>2, <2>3
<1> QED  BY <1>6

\* The trees that EnvSource.Load goes through.
IsTrees(tree, env) ==
    tree = [k \in 0..Len(env) |-> IF k = 0 THEN Empty ELSE SetNested(tree[k - 1], env[k].keys, env[k].text)]

\* The function defined by the recursion exists.
LEMMA TreesDefined ==
  ASSUME NEW env, Len(env) \in Nat
  PROVE  \E tree : /\ IsTrees(tree, env)
                   /\ EnvTree(env) = tree[Len(env)]
<1> DEFINE n == Len(env)
           Def(g, m) == [k \in 0..m |-> IF k = 0 THEN Empty ELSE SetNested(g[k - 1], env[k].keys, env[k].text)]
           Bad == {m \in 0..n : ~(\E g : g = Def(g, m))}
<1>1. Bad = {}
  <2> SUFFICES ASSUME Bad # {} PROVE FALSE
    OBVIOUS
  <2>1. PICK m \in Bad : \A k \in Bad : m <= k
    <3> HIDE DEF Def
    <3>1. Bad \subseteq 0..n
      OBVIOUS
    <3> HIDE DEF Bad
    <3> QED  BY <3>1, LeastNumber
  <2>2. CASE m = 0
    <3> DEFINE g == [k \in 0..0 |-> Empty]
    <3>1. g = Def(g, 0)
      OBVIOUS
    <3> QED  BY <2>1, <2>2, <3>1
  <2>3. CASE m # 0
    <3>1. m - 1 \in 0..n /\ m - 1 \notin Bad
      <4> HIDE DEF Def
      <4> QED  BY <2>1, <2>3
    <3>2. PICK g : g = Def(g, m - 1)
      <4> HIDE DEF Def
      <4> QED  BY <3>1
    <3> DEFINE h == [k \in 0..m |-> IF k < m THEN g[k] ELSE SetNested(g[m - 1], env[m].keys, env[m].text)]
    <3>3. \A k \in 0..m : h[k] = IF k = 0 THEN Empty ELSE SetNested(h[k - 1], env[k].keys, env[k].text)
      <4> SUFFICES ASSUME NEW k \in 0..m PROVE h[k] = IF k = 0 THEN Empty ELSE SetNested(h[k - 1], env[k].keys, env[k].text)
        OBVIOUS
      <4>1. CASE k = m
        <5>1. h[m] = SetNested(g[m - 1], env[m].keys, env[m].text) /\ h[m - 1] = g[m - 1]
          BY <2>3
        <5> QED  BY <2>3, <4>1, <5>1
      <4>2. CASE k < m
        <5>1. h[k] = g[k] /\ (k # 0 => h[k - 1] = g[k - 1])
          BY <4>2
        <5>2. g[k] = IF k = 0 THEN Empty ELSE SetNested(g[k - 1], env[k].keys, env[k].text)
          BY <3>2, <4>2
        <5> HIDE DEF h
        <5> QED  BY <5>1, <5>2
      <4> QED  BY <4>1, <4>2
    <3>4. h = Def(h, m)
      <4>1. h = [k \in 0..m |-> h[k]]
        OBVIOUS
      <4> HIDE DEF h
      <4> QED  BY <3>3, <4>1
    <3> HIDE DEF h
    <3> QED  BY <2>1, <3>4
  <2> QED  BY <2>2, <2>3
<1>2. \E g : g = Def(g, n)
  <2> HIDE DEF Def
  <2> QED  BY <1>1
<1>3. EnvTree(env) = (CHOOSE g : g = Def(g, n))[n]
  BY DEF EnvTree
<1>4. PICK t : t = (CHOOSE g : g = Def(g, n))
  OBVIOUS
<1>5. t = Def(t, n)
  <2> HIDE DEF Def
  <2> QED  BY <1>2, <1>4
<1>6. IsTrees(t, env)
  BY <1>5 DEF IsTrees
<1>7. EnvTree(env) = t[Len(env)]
  BY <1>3, <1>4
<1> HIDE DEF n, Def
<1> QED  BY <1>6, <1>7

\* The levels that setNested goes through.
LevelAfter(tree, level, k) == IF Append(level, k) \in DOMAIN tree THEN level ELSE Append(level, k)

\* A tree with one more value, and nothing below it.
WithValue(tree, path, text) ==
    [p \in {p \in DOMAIN tree : ~KeyPaths!IsPrefix(path, p)} \union {path} |->
        IF p = path THEN [type |-> "string", text |-> text] ELSE tree[p]]

IsLevels(level, tree, keys) ==
    level = [k \in 0..(Len(keys) - 1) |-> IF k = 0 THEN <<>> ELSE LevelAfter(tree, level[k - 1], keys[k])]

LEMMA LevelsDefined ==
  ASSUME NEW tree, NEW keys, NEW text, Len(keys) \in Nat \ {0}
  PROVE  \E level :
           /\ IsLevels(level, tree, keys)
           /\ SetNested(tree, keys, text) = WithValue(tree, Append(level[Len(keys) - 1], keys[Len(keys)]), text)
<1> DEFINE n == Len(keys) - 1
           Def(g, m) == [k \in 0..m |-> IF k = 0 THEN <<>> ELSE LevelAfter(tree, g[k - 1], keys[k])]
           Bad == {m \in 0..n : ~(\E g : g = Def(g, m))}
<1>0. n \in Nat
  OBVIOUS
<1>1. Bad = {}
  <2> SUFFICES ASSUME Bad # {} PROVE FALSE
    OBVIOUS
  <2>1. PICK m \in Bad : \A k \in Bad : m <= k
    <3> HIDE DEF Def, n
    <3>1. Bad \subseteq 0..n
      OBVIOUS
    <3> HIDE DEF Bad
    <3> QED  BY <1>0, <3>1, LeastNumber
  <2> HIDE DEF n
  <2>2. CASE m = 0
    <3> DEFINE g == [k \in 0..0 |-> <<>>]
    <3>1. g = Def(g, 0)
      OBVIOUS
    <3> QED  BY <2>1, <2>2, <3>1
  <2>3. CASE m # 0
    <3>1. m - 1 \in 0..n /\ m - 1 \notin Bad
      <4> HIDE DEF Def
      <4> QED  BY <1>0, <2>1, <2>3
    <3>2. PICK g : g = Def(g, m - 1)
      <4> HIDE DEF Def
      <4> QED  BY <3>1
    <3> DEFINE h == [k \in 0..m |-> IF k < m THEN g[k] ELSE LevelAfter(tree, g[m - 1], keys[m])]
    <3>3. \A k \in 0..m : h[k] = IF k = 0 THEN <<>> ELSE LevelAfter(tree, h[k - 1], keys[k])
      <4> SUFFICES ASSUME NEW k \in 0..m PROVE h[k] = IF k = 0 THEN <<>> ELSE LevelAfter(tree, h[k - 1], keys[k])
        OBVIOUS
      <4>1. CASE k = m
        <5>1. h[m] = LevelAfter(tree, g[m - 1], keys[m]) /\ h[m - 1] = g[m - 1]
          BY <2>3
        <5> QED  BY <2>3, <4>1, <5>1
      <4>2. CASE k < m
        <5>1. h[k] = g[k] /\ (k # 0 => h[k - 1] = g[k - 1])
          BY <4>2
        <5>2. g[k] = IF k = 0 THEN <<>> ELSE LevelAfter(tree, g[k - 1], keys[k])
          BY <3>2, <4>2
        <5> HIDE DEF h
        <5> QED  BY <5>1, <5>2
      <4> QED  BY <4>1, <4>2
    <3>4. h = Def(h, m)
      <4>1. h = [k \in 0..m |-> h[k]]
        OBVIOUS
      <4> HIDE DEF h
      <4> QED  BY <3>3, <4>1
    <3> HIDE DEF h
    <3> QED  BY <2>1, <3>4
  <2> QED  BY <2>2, <2>3
<1>2. \E g : g = Def(g, n)
  <2> HIDE DEF Def
  <2> QED  BY <1>0, <1>1, SMTT(30)
<1>3. SetNested(tree, keys, text) = WithValue(tree, Append((CHOOSE g : g = Def(g, n))[n], keys[Len(keys)]), text)
  BY DEF SetNested, WithValue, LevelAfter
<1>4. PICK t : t = (CHOOSE g : g = Def(g, n))
  OBVIOUS
<1>5. t = Def(t, n)
  <2> HIDE DEF Def
  <2> QED  BY <1>2, <1>4
<1>6. IsLevels(t, tree, keys)
  BY <1>5 DEF IsLevels
<1>7. SetNested(tree, keys, text) = WithValue(tree, Append(t[Len(keys) - 1], keys[Len(keys)]), text)
  BY <1>3, <1>4
<1> HIDE DEF n, Def
<1> QED  BY <1>6, <1>7
\* Prefixes of paths, element by element.
LEMMA PrefixElements ==
  ASSUME NEW s \in Seq(STRING), NEW t \in Seq(STRING)
  PROVE  KeyPaths!IsPrefix(s, t) <=> Len(s) <= Len(t) /\ \A i \in 1..Len(s) : s[i] = t[i]
<1>1. Len(s) \in Nat /\ Len(t) \in Nat /\ SubSeq(s, 1, Len(s)) = s
  BY LenProperties, SubSeqFull
<1>2. CASE Len(s) <= Len(t)
  <2> DEFINE u == SubSeq(t, 1, Len(s))
  <2>1. u \in Seq(STRING) /\ Len(u) = Len(s) /\ \A i \in 1..Len(s) : u[i] = t[i]
    <3>1. 1 \in 1..(Len(t) + 1) /\ Len(s) \in (1 - 1)..Len(t)
      BY <1>1, <1>2
    <3> QED  BY <1>1, <1>2, <3>1, SubSeqProperties
  <2> HIDE DEF u
  <2>2. s = u <=> \A i \in 1..Len(s) : s[i] = u[i]
    BY <2>1, SeqEqual
  <2> QED  BY <1>1, <1>2, <2>1, <2>2 DEF KeyPaths!IsPrefix, u
<1>3. CASE ~(Len(s) <= Len(t))
  BY <1>3 DEF KeyPaths!IsPrefix
<1> QED  BY <1>2, <1>3

\* A prefix of a path is in the same section.
LEMMA PrefixSection ==
  ASSUME NEW p \in Paths, NEW q \in Paths, KeyPaths!IsPrefix(p, q)
  PROVE  Head(p) = Head(q)
<1>1. p \in Seq(STRING) /\ q \in Seq(STRING) /\ p # <<>> /\ q # <<>>
  BY DEF Paths
<1>2. Len(p) \in Nat \ {0}
  BY <1>1, EmptySeq
<1>3. Head(p) = p[1] /\ Head(q) = q[1]
  BY <1>1
<1>4. 1 \in 1..Len(p) /\ \A i \in 1..Len(p) : p[i] = q[i]
  BY <1>1, <1>2, PrefixElements
<1> QED  BY <1>3, <1>4

\* Where no value is in the way setNested writes at the very keys.
LEMMA PlainPath ==
  ASSUME NEW tree, NEW keys \in Paths, NEW text,
         \A q \in DOMAIN tree : KeyPaths!IsPrefix(q, keys) => q = keys
  PROVE  SetNested(tree, keys, text) = WithValue(tree, keys, text)
<1>1. keys \in Seq(STRING) /\ Len(keys) \in Nat \ {0}
  BY EmptySeq, LenProperties DEF Paths
<1>2. PICK level :
        /\ IsLevels(level, tree, keys)
        /\ SetNested(tree, keys, text) = WithValue(tree, Append(level[Len(keys) - 1], keys[Len(keys)]), text)
  BY <1>1, LevelsDefined
<1>3. /\ level[0] = <<>>
      /\ \A k \in 1..(Len(keys) - 1) : level[k] = LevelAfter(tree, level[k - 1], keys[k])
  BY <1>1, <1>2 DEF IsLevels
<1>4. \A k \in 1..Len(keys) : Append(SubSeq(keys, 1, k - 1), keys[k]) = SubSeq(keys, 1, k)
  <2> SUFFICES ASSUME NEW k \in 1..Len(keys) PROVE Append(SubSeq(keys, 1, k - 1), keys[k]) = SubSeq(keys, 1, k)
    OBVIOUS
  <2> DEFINE s == SubSeq(keys, 1, k - 1)
             u == SubSeq(keys, 1, k)
  <2>1. s \in Seq(STRING) /\ Len(s) = k - 1 /\ \A i \in 1..(k - 1) : s[i] = keys[i]
    BY <1>1, SubSeqProperties
  <2>2. u \in Seq(STRING) /\ Len(u) = k /\ \A i \in 1..k : u[i] = keys[i]
    BY <1>1, SubSeqProperties
  <2>3. keys[k] \in STRING
    BY <1>1, ElementOfSeq
  <2> HIDE DEF s, u
  <2>4. Append(s, keys[k]) \in Seq(STRING) /\ Len(Append(s, keys[k])) = k /\ \A i \in 1..k : Append(s, keys[k])[i] = keys[i]
    BY <1>1, <2>1, <2>3, AppendProperties
  <2> QED  BY <2>2, <2>4, SeqEqual DEF s, u
<1>5. \A k \in 0..(Len(keys) - 1) : k = 0 \/ (SubSeq(keys, 1, k) \in Seq(STRING) /\ SubSeq(keys, 1, k) \notin DOMAIN tree)
  <2> SUFFICES ASSUME NEW k \in 1..(Len(keys) - 1) PROVE SubSeq(keys, 1, k) \in Seq(STRING) /\ SubSeq(keys, 1, k) \notin DOMAIN tree
    BY <1>1
  <2> DEFINE u == SubSeq(keys, 1, k)
  <2>1. u \in Seq(STRING) /\ Len(u) = k /\ \A i \in 1..k : u[i] = keys[i]
    BY <1>1, SubSeqProperties
  <2> HIDE DEF u
  <2>2. KeyPaths!IsPrefix(u, keys) /\ u # keys
    BY <1>1, <2>1, PrefixElements
  <2> QED  BY <2>1, <2>2 DEF u
<1> DEFINE Bad == {k \in 0..(Len(keys) - 1) : level[k] # SubSeq(keys, 1, k)}
<1>6. Bad = {}
  <2> SUFFICES ASSUME Bad # {} PROVE FALSE
    OBVIOUS
  <2>1. PICK m \in Bad : \A k \in Bad : m <= k
    <3>1. Bad \subseteq 0..(Len(keys) - 1) /\ Len(keys) - 1 \in Nat
      BY <1>1
    <3> HIDE DEF Bad
    <3> QED  BY <3>1, LeastNumber
  <2>2. CASE m = 0
    <3>1. SubSeq(keys, 1, 0) = <<>>
      BY SubSeqEmpty
    <3>2. m \in 0..(Len(keys) - 1) /\ level[m] # SubSeq(keys, 1, m)
      BY <2>1
    <3> HIDE DEF Bad
    <3> QED  BY <1>3, <2>2, <3>1, <3>2
  <2>3. CASE m # 0
    <3>1. m \in 1..(Len(keys) - 1) /\ m - 1 \in 0..(Len(keys) - 1) /\ m - 1 \notin Bad
      BY <1>1, <2>1, <2>3
    <3>2. level[m - 1] = SubSeq(keys, 1, m - 1)
      BY <3>1
    <3> HIDE DEF Bad
    <3>3. level[m] = LevelAfter(tree, level[m - 1], keys[m]) /\ Append(level[m - 1], keys[m]) = SubSeq(keys, 1, m)
      <4>1. m \in 1..Len(keys)
        BY <1>1, <3>1
      <4>2. Append(SubSeq(keys, 1, m - 1), keys[m]) = SubSeq(keys, 1, m)
        BY <1>4, <4>1
      <4> QED  BY <1>3, <3>1, <3>2, <4>2
    <3>4. level[m] = SubSeq(keys, 1, m)
      BY <1>5, <2>3, <3>1, <3>3 DEF LevelAfter
    <3> QED  BY <2>1, <3>4 DEF Bad
  <2> QED  BY <2>2, <2>3
<1>7. Append(level[Len(keys) - 1], keys[Len(keys)]) = keys
  <2>1. level[Len(keys) - 1] = SubSeq(keys, 1, Len(keys) - 1)
    BY <1>1, <1>6
  <2>2. SubSeq(keys, 1, Len(keys)) = keys
    BY <1>1, SubSeqFull
  <2> QED  BY <1>1, <1>4, <2>1, <2>2
<1> QED  BY <1>2, <1>7

\* Wherever setNested writes, it is at a path.
LEMMA WrittenPath ==
  ASSUME NEW tree, DOMAIN tree \subseteq Paths, NEW keys \in Paths, NEW text
  PROVE  DOMAIN SetNested(tree, keys, text) \subseteq Paths
<1>0. keys \in Seq(STRING) /\ keys # <<>>
  BY DEF Paths
<1>1. keys \in Seq(STRING) /\ Len(keys) \in Nat \ {0} /\ \A k \in 1..Len(keys) : keys[k] \in STRING
  <2>1. Len(keys) \in Nat \ {0}
    BY <1>0, EmptySeq
  <2>2. \A k \in 1..Len(keys) : keys[k] \in STRING
    BY <1>0, ElementOfSeq
  <2> QED  BY <1>0, <2>1, <2>2
<1>2. PICK level :
        /\ IsLevels(level, tree, keys)
        /\ SetNested(tree, keys, text) = WithValue(tree, Append(level[Len(keys) - 1], keys[Len(keys)]), text)
  BY <1>1, LevelsDefined
<1>3. /\ level[0] = <<>>
      /\ \A k \in 1..(Len(keys) - 1) : level[k] = LevelAfter(tree, level[k - 1], keys[k])
  BY <1>1, <1>2, SMTT(30) DEF IsLevels
<1> DEFINE Bad == {k \in 0..(Len(keys) - 1) : level[k] \notin Seq(STRING)}
<1>4. Bad = {}
  <2> SUFFICES ASSUME Bad # {} PROVE FALSE
    OBVIOUS
  <2>1. PICK m \in Bad : \A k \in Bad : m <= k
    <3>1. Bad \subseteq 0..(Len(keys) - 1) /\ Len(keys) - 1 \in Nat
      BY <1>1
    <3> HIDE DEF Bad
    <3> QED  BY <3>1, LeastNumber
  <2>2. m # 0
    BY <1>3, <2>1, EmptySeq
  <2>3. m \in 1..(Len(keys) - 1) /\ m - 1 \in 0..(Len(keys) - 1) /\ m - 1 \notin Bad
    BY <1>1, <2>1, <2>2
  <2>4. level[m - 1] \in Seq(STRING) /\ keys[m] \in STRING
    BY <1>1, <2>3
  <2>5. Append(level[m - 1], keys[m]) \in Seq(STRING)
    BY <2>4, AppendProperties
  <2> QED  BY <1>3, <2>1, <2>3, <2>4, <2>5 DEF LevelAfter
<1>5. level[Len(keys) - 1] \in Seq(STRING) /\ keys[Len(keys)] \in STRING
  BY <1>1, <1>4
<1>6. Append(level[Len(keys) - 1], keys[Len(keys)]) \in Paths
  BY <1>5, AppendProperties, EmptySeq DEF Paths
<1> QED  BY <1>2, <1>6 DEF WithValue

\* What the environment can be: names that split into keys, with their text.
EnvLists == Seq([keys : Paths, text : STRING])

LEMMA EnvElements ==
  ASSUME NEW env \in EnvLists
  PROVE  Len(env) \in Nat /\ \A i \in 1..Len(env) : env[i].keys \in Paths
<1>1. Len(env) \in Nat
  BY LenProperties DEF EnvLists
<1>2. \A i \in 1..Len(env) : env[i] \in [keys : Paths, text : STRING]
  BY ElementOfSeq DEF EnvLists
<1> QED  BY <1>1, <1>2

\* The environment's values are at paths.
LEMMA EnvTreePaths ==
  ASSUME NEW env \in EnvLists
  PROVE  DOMAIN EnvTree(env) \subseteq Paths
<1>1. Len(env) \in Nat /\ \A i \in 1..Len(env) : env[i].keys \in Paths
  BY EnvElements
<1>2. PICK tree : IsTrees(tree, env) /\ EnvTree(env) = tree[Len(env)]
  BY <1>1, TreesDefined
<1>3. /\ tree[0] = Empty
      /\ \A k \in 1..Len(env) : tree[k] = SetNested(tree[k - 1], env[k].keys, env[k].text)
  BY <1>1, <1>2 DEF IsTrees
<1> DEFINE Bad == {k \in 0..Len(env) : ~(DOMAIN tree[k] \subseteq Paths)}
<1>4. Bad = {}
  <2> SUFFICES ASSUME Bad # {} PROVE FALSE
    OBVIOUS
  <2>1. PICK m \in Bad : \A k \in Bad : m <= k
    <3>1. Bad \subseteq 0..Len(env)
      OBVIOUS
    <3> HIDE DEF Bad
    <3> QED  BY <1>1, <3>1, LeastNumber
  <2>2. m # 0
    <3>1. DOMAIN tree[0] = {}
      BY <1>3 DEF Empty
    <3> QED  BY <2>1, <3>1
  <2>3. m \in 1..Len(env) /\ m - 1 \in 0..Len(env) /\ m - 1 \notin Bad
    BY <1>1, <2>1, <2>2
  <2>4. DOMAIN tree[m - 1] \subseteq Paths
    BY <2>3
  <2>5. DOMAIN tree[m] \subseteq Paths
    <3> HIDE DEF Bad
    <3> QED  BY <1>1, <1>3, <2>3, <2>4, WrittenPath
  <2> QED  BY <2>1, <2>5
<1> QED  BY <1>1, <1>2, <1>4

\* A text as the environment gives it.
Text(s) == [type |-> "string", text |-> s]

\* Where no name leads through another's value, the environment's tree has each
\* name, with the text that comes last.
LEMMA EnvValues ==
  ASSUME NEW env \in EnvLists, Unambiguous(env)
  PROVE  /\ DOMAIN EnvTree(env) = {env[i].keys : i \in 1..Len(env)}
         /\ \A i \in 1..Len(env) :
              (\A j \in 1..Len(env) : env[j].keys = env[i].keys => j <= i) => EnvTree(env)[env[i].keys] = Text(env[i].text)
<1>1. Len(env) \in Nat /\ \A i \in 1..Len(env) : env[i].keys \in Paths
  BY EnvElements
<1>2. PICK tree : IsTrees(tree, env) /\ EnvTree(env) = tree[Len(env)]
  BY <1>1, TreesDefined
<1>3. /\ tree[0] = Empty
      /\ \A k \in 1..Len(env) : tree[k] = SetNested(tree[k - 1], env[k].keys, env[k].text)
  BY <1>1, <1>2 DEF IsTrees
<1> DEFINE Paired(k) == DOMAIN tree[k] = {env[i].keys : i \in 1..k}
           Texts(k) == \A i \in 1..k :
              (\A j \in 1..k : env[j].keys = env[i].keys => j <= i) => tree[k][env[i].keys] = Text(env[i].text)
           Bad == {k \in 0..Len(env) : ~(Paired(k) /\ Texts(k))}
<1>4. Bad = {}
  <2> SUFFICES ASSUME Bad # {} PROVE FALSE
    OBVIOUS
  <2>1. PICK m \in Bad : \A k \in Bad : m <= k
    <3> HIDE DEF Paired, Texts
    <3>1. Bad \subseteq 0..Len(env)
      OBVIOUS
    <3> HIDE DEF Bad
    <3> QED  BY <1>1, <3>1, LeastNumber
  <2>2. m # 0
    <3>1. DOMAIN tree[0] = {}
      BY <1>3 DEF Empty
    <3>2. {env[i].keys : i \in 1..0} = {}
      OBVIOUS
    <3>3. Paired(0) /\ Texts(0)
      BY <3>1, <3>2
    <3> HIDE DEF Paired, Texts
    <3> QED  BY <2>1, <3>3
  <2>3. m \in 1..Len(env) /\ m - 1 \in 0..Len(env) /\ m - 1 \notin Bad
    <3> HIDE DEF Paired, Texts
    <3> QED  BY <1>1, <2>1, <2>2
  <2>4. Paired(m - 1) /\ Texts(m - 1)
    <3> HIDE DEF Paired, Texts
    <3> QED  BY <2>3
  <2> HIDE DEF Bad
  <2>5. tree[m] = WithValue(tree[m - 1], env[m].keys, env[m].text)
    <3>1. env[m].keys \in Paths
      BY <1>1, <2>3
    <3>2. ASSUME NEW q \in DOMAIN tree[m - 1], KeyPaths!IsPrefix(q, env[m].keys) PROVE q = env[m].keys
      <4>1. PICK i \in 1..(m - 1) : q = env[i].keys
        BY <2>4, <3>2
      <4>2. i \in 1..Len(env)
        BY <1>1, <2>3, <4>1
      <4> QED  BY <2>3, <3>2, <4>1, <4>2 DEF Unambiguous
    <3>3. tree[m] = SetNested(tree[m - 1], env[m].keys, env[m].text)
      BY <1>3, <2>3
    <3> HIDE DEF Paired, Texts
    <3> QED  BY <3>1, <3>2, <3>3, PlainPath
  <2>6. Paired(m)
    <3> DEFINE kept == {p \in DOMAIN tree[m - 1] : ~KeyPaths!IsPrefix(env[m].keys, p)}
    <3>1. DOMAIN tree[m] = kept \union {env[m].keys}
      BY <2>5 DEF WithValue
    <3>2. \A i \in 1..(m - 1) : env[i].keys \in kept \/ env[i].keys = env[m].keys
      <4> SUFFICES ASSUME NEW i \in 1..(m - 1) PROVE env[i].keys \in kept \/ env[i].keys = env[m].keys
        OBVIOUS
      <4>1. i \in 1..Len(env)
        BY <1>1, <2>3
      <4>2. env[i].keys \in DOMAIN tree[m - 1]
        BY <2>4
      <4>3. KeyPaths!IsPrefix(env[m].keys, env[i].keys) => env[i].keys = env[m].keys
        BY <2>3, <4>1 DEF Unambiguous
      <4> QED  BY <4>2, <4>3
    <3>3. kept \subseteq {env[i].keys : i \in 1..(m - 1)}
      BY <2>4
    <3> HIDE DEF kept
    <3>4. \A i \in 1..m : i \in 1..(m - 1) \/ i = m
      BY <1>1, <2>3
    <3>5. \A i \in 1..(m - 1) : i \in 1..m
      BY <1>1, <2>3
    <3>6. m \in 1..m
      BY <1>1, <2>3
    <3> QED  BY <3>1, <3>2, <3>3, <3>4, <3>5, <3>6
  <2>7. Texts(m)
    <3> SUFFICES ASSUME NEW i \in 1..m, \A j \in 1..m : env[j].keys = env[i].keys => j <= i
                 PROVE  tree[m][env[i].keys] = Text(env[i].text)
      OBVIOUS
    <3>1. CASE i = m
      BY <2>5, <3>1 DEF WithValue, Text
    <3>2. CASE i # m
      <4>1. i \in 1..(m - 1)
        BY <1>1, <2>3, <3>2
      <4>2. \A j \in 1..(m - 1) : env[j].keys = env[i].keys => j <= i
        BY <1>1, <2>3
      <4>3. tree[m - 1][env[i].keys] = Text(env[i].text)
        BY <2>4, <4>1, <4>2
      <4>4. env[i].keys # env[m].keys
        BY <1>1, <2>3, <3>2
      <4>5. env[i].keys \in DOMAIN tree[m]
        BY <2>6
      <4> QED  BY <2>5, <4>3, <4>4, <4>5 DEF WithValue
    <3> QED  BY <3>1, <3>2
  <2> HIDE DEF Paired, Texts
  <2> QED  BY <2>1, <2>6, <2>7 DEF Bad
<1>5. Paired(Len(env)) /\ Texts(Len(env))
  <2> HIDE DEF Paired, Texts
  <2> QED  BY <1>1, <1>4
<1> QED  BY <1>2, <1>5

\* A merged tree is read, at each path, from the data if they have its section.
LEMMA MergeSection ==
  ASSUME NEW tree, DOMAIN tree \subseteq Paths, NEW data, DOMAIN data \subseteq Paths, NEW p \in Paths
  PROVE  /\ DOMAIN Merge(tree, data) \subseteq Paths
         /\ (\E q \in DOMAIN data : Head(q) = Head(p)) => Get(Merge(tree, data), p) = Get(data, p)
         /\ (~\E q \in DOMAIN data : Head(q) = Head(p)) => Get(Merge(tree, data), p) = Get(tree, p)
<1> DEFINE sections == {Head(q) : q \in DOMAIN data}
           kept == {q \in DOMAIN tree : Head(q) \notin sections}
<1>1. /\ DOMAIN Merge(tree, data) = kept \union DOMAIN data
      /\ \A q \in DOMAIN data : Merge(tree, data)[q] = data[q]
      /\ \A q \in kept : q \notin DOMAIN data /\ Merge(tree, data)[q] = tree[q]
  BY DEF Merge
<1>2. PICK new : new = Merge(tree, data)
  OBVIOUS
<1>3. \A q \in DOMAIN new : q \in Paths
  BY <1>1, <1>2
<1>4. \A q \in Paths : KeyPaths!IsPrefix(p, q) => Head(q) = Head(p)
  BY PrefixSection
<1>5. ASSUME Head(p) \in sections PROVE Get(new, p) = Get(data, p)
  <2>1. \A q \in DOMAIN new : Head(q) = Head(p) => q \in DOMAIN data
    BY <1>1, <1>2, <1>5
  <2>2. p \in DOMAIN new <=> p \in DOMAIN data
    BY <1>1, <1>2, <2>1
  <2>3. (\E q \in DOMAIN new : KeyPaths!IsPrefix(p, q)) <=> \E q \in DOMAIN data : KeyPaths!IsPrefix(p, q)
    BY <1>1, <1>2, <1>3, <1>4, <2>1
  <2>4. p \in DOMAIN data => new[p] = data[p]
    BY <1>1, <1>2
  <2> QED  BY <2>2, <2>3, <2>4 DEF Get
<1>6. ASSUME Head(p) \notin sections PROVE Get(new, p) = Get(tree, p)
  <2>1. \A q \in DOMAIN data : Head(q) # Head(p)
    BY <1>6
  <2>2. \A q \in DOMAIN tree : Head(q) = Head(p) => q \in kept
    BY <1>6
  <2>3. p \in DOMAIN new <=> p \in DOMAIN tree
    BY <1>1, <1>2, <2>1, <2>2
  <2>4. (\E q \in DOMAIN new : KeyPaths!IsPrefix(p, q)) <=> \E q \in DOMAIN tree : KeyPaths!IsPrefix(p, q)
    <3>1. ASSUME NEW q \in DOMAIN new, KeyPaths!IsPrefix(p, q) PROVE q \in DOMAIN tree
      BY <1>1, <1>2, <1>3, <1>4, <2>1, <3>1
    <3>2. ASSUME NEW q \in DOMAIN tree, KeyPaths!IsPrefix(p, q) PROVE q \in DOMAIN new
      BY <1>1, <1>2, <1>4, <2>2, <3>2
    <3> QED  BY <3>1, <3>2
  <2>5. p \in DOMAIN tree => new[p] = tree[p]
    BY <1>1, <1>2, <2>2
  <2> QED  BY <2>3, <2>4, <2>5 DEF Get
<1>7. (\E q \in DOMAIN data : Head(q) = Head(p)) <=> Head(p) \in sections
  OBVIOUS
<1> HIDE DEF sections, kept
<1> QED  BY <1>2, <1>3, <1>5, <1>6, <1>7

\* What the environment gives a path is the last of its values for it.
LEMMA EnvRead ==
  ASSUME NEW env \in EnvLists, Unambiguous(env), NEW p,
         NEW given, given = {i \in 1..Len(env) : env[i].keys = p}, given # {}
  PROVE  Get(EnvTree(env), p) = Text(env[CHOOSE i \in given : \A j \in given : j <= i].text)
<1>1. Len(env) \in Nat
  BY EnvElements
<1>2. DOMAIN EnvTree(env) = {env[i].keys : i \in 1..Len(env)}
  BY EnvValues
<1> DEFINE Left == {Len(env) - i : i \in given}
<1>3. PICK m \in Left : \A k \in Left : m <= k
  <2>1. Left \subseteq 0..Len(env) /\ Left # {}
    BY <1>1
  <2> HIDE DEF Left
  <2> QED  BY <1>1, <2>1, LeastNumber
<1>4. \E i \in given : \A j \in given : j <= i
  <2>1. PICK i \in given : m = Len(env) - i
    BY <1>3
  <2>2. \A j \in given : Len(env) - i <= Len(env) - j
    BY <1>3, <2>1
  <2>3. \A j \in given : j \in Int
    OBVIOUS
  <2> QED  BY <1>1, <2>1, <2>2, <2>3
<1>5. PICK last : last = CHOOSE i \in given : \A j \in given : j <= i
  OBVIOUS
<1>6. last \in given /\ \A j \in given : j <= last
  BY <1>4, <1>5
<1>7. last \in 1..Len(env) /\ env[last].keys = p /\ \A j \in 1..Len(env) : env[j].keys = env[last].keys => j <= last
  BY <1>6
<1>8. EnvTree(env)[p] = Text(env[last].text) /\ p \in DOMAIN EnvTree(env)
  BY <1>2, <1>7, EnvValues
<1>9. Get(EnvTree(env), p) = Text(env[last].text)
  BY <1>8 DEF Get
<1> QED  BY <1>5, <1>9

\* A Config merged in order is read, path by path, from the last source that
\* gives the path, unless the environment only gives others of its section.
LEMMA LayeredRead ==
  ASSUME NEW c, c.env \in EnvLists, Unambiguous(c.env),
         DOMAIN c.old \subseteq Paths, DOMAIN c.file \subseteq Paths,
         NEW p \in Paths, Names(EnvPaths(c), p) => p \in EnvPaths(c)
  PROVE  Get(Merge(Merge(c.old, c.file), EnvTree(c.env)), p) = Layered(c, p)
<1> DEFINE given == {i \in 1..Len(c.env) : c.env[i].keys = p}
           below == Merge(c.old, c.file)
<1>1. DOMAIN EnvTree(c.env) = EnvPaths(c) /\ DOMAIN EnvTree(c.env) \subseteq Paths
  BY EnvValues, EnvTreePaths DEF EnvPaths
<1>2. /\ DOMAIN below \subseteq Paths
      /\ Names(DOMAIN c.file, p) => Get(below, p) = Get(c.file, p)
      /\ ~Names(DOMAIN c.file, p) => Get(below, p) = Get(c.old, p)
  BY MergeSection DEF Names
<1>3. /\ Names(EnvPaths(c), p) => Get(Merge(below, EnvTree(c.env)), p) = Get(EnvTree(c.env), p)
      /\ ~Names(EnvPaths(c), p) => Get(Merge(below, EnvTree(c.env)), p) = Get(below, p)
  <2> HIDE DEF below
  <2> QED  BY <1>1, <1>2, MergeSection DEF Names
<1>4. CASE given # {}
  <2>1. Names(EnvPaths(c), p)
    BY <1>4 DEF Names, EnvPaths
  <2>2. Get(EnvTree(c.env), p) = Text(c.env[CHOOSE i \in given : \A j \in given : j <= i].text)
    BY <1>4, EnvRead
  <2> QED  BY <1>3, <1>4, <2>1, <2>2 DEF Layered, Text
<1>5. CASE given = {}
  <2>1. ~Names(EnvPaths(c), p)
    BY <1>5 DEF EnvPaths
  <2>2. Layered(c, p) = IF Names(DOMAIN c.file, p) THEN Get(c.file, p) ELSE Get(c.old, p)
    BY <1>5 DEF Layered
  <2> HIDE DEF given
  <2> QED  BY <1>2, <1>3, <2>1, <2>2
<1> QED  BY <1>4, <1>5

(* Init, LoadApp and Load *)

\* The steps of a Load, and those that hold the lock of the Config.
LoadSteps == {"init", "lock", "file", "env", "return"}
Holding == {"file", "env"}

\* The records of the Configs and of the loaders.
Configs(T) == [tree : T, old : T, file : T, env : T, loaded : T]
IsConfig(r) == \E T : r \in Configs(T)
LoaderRecords(T) == [at : T, by : T, conf : T, failed : T]
IsLoader(r) == \E T : r \in LoaderRecords(T)

\* Who loads something loads a Config there is.
ConfigShape ==
    /\ confs = [c \in 1..Len(confs) |-> confs[c]] /\ Len(confs) \in Nat
    /\ \A c \in 1..Len(confs) : IsConfig(confs[c])
    /\ loader = [l \in Loaders |-> loader[l]]
    /\ \A l \in Loaders : /\ IsLoader(loader[l]) /\ loader[l].at \in LoadSteps \union {"idle"}
                          /\ loader[l].at # "idle" => loader[l].conf \in 1..Len(confs)
                          /\ loader[l].at = "init" => default # 0
    /\ default \in 0..Len(confs)

\* Load holds the lock of its Config from the first source to the last.
OneHolder ==
    \A l, m \in Loaders :
        loader[l].at \in Holding /\ loader[m].at \in Holding /\ loader[l].conf = loader[m].conf => l = m

\* How far the Load that holds the lock has come.
MergedSoFar ==
    /\ \A l \in Loaders : LET r == confs[loader[l].conf] IN
          /\ loader[l].at = "file" => r.tree = r.old
          /\ loader[l].at = "env" => r.tree = Merge(r.old, r.file)
          /\ loader[l].at = "return" => r.loaded
    /\ MergedInOrder

\* A default that was never loaded is the one that Init is about to load.
InitUnderWay ==
    /\ \A l, m \in Loaders : loader[l].by = "Init" /\ loader[l].at # "idle" =>
          once = "running" /\ (loader[m].by = "Init" /\ loader[m].at # "idle" => l = m)
    /\ default # 0 /\ ~confs[default].loaded =>
          \E l \in Loaders : loader[l].by = "Init" /\ loader[l].at # "idle" /\ loader[l].conf = default

\* The inductive invariant of the configuration.
ConfigInv == ConfigShape /\ OneHolder /\ MergedSoFar /\ InitUnderWay

\* The record of a Load that begins ...
LEMMA LoaderLiteral ==
  ASSUME NEW at, NEW by, NEW conf, NEW failed,
         NEW r, r = [at |-> at, by |-> by, conf |-> conf, failed |-> failed]
  PROVE  IsLoader(r)
<1>1. r \in LoaderRecords({at, by, conf, failed})
  BY DEF LoaderRecords
<1> QED
  BY <1>1 DEF IsLoader

\* ... and at another step ...
LEMMA LoaderAt ==
  ASSUME NEW k, IsLoader(k), NEW x, NEW r, r = [k EXCEPT !.at = x]
  PROVE  IsLoader(r) /\ r.at = x /\ r.by = k.by /\ r.conf = k.conf
<1>1. PICK T : k \in LoaderRecords(T)
  BY DEF IsLoader
<1>2. r \in LoaderRecords(T \union {x})
  BY <1>1 DEF LoaderRecords
<1> QED
  BY <1>1, <1>2 DEF IsLoader, LoaderRecords

\* ... and of a Config whose Load begins ...
LEMMA ConfigLocked ==
  ASSUME NEW p, IsConfig(p), NEW t, NEW q, q = [p EXCEPT !.old = t]
  PROVE  /\ IsConfig(q) /\ q.tree = p.tree /\ q.old = t
         /\ q.file = p.file /\ q.env = p.env /\ q.loaded = p.loaded
<1>1. PICK T : p \in Configs(T)
  BY DEF IsConfig
<1>2. q \in Configs(T \union {t})
  BY <1>1 DEF Configs
<1> QED
  BY <1>1, <1>2 DEF IsConfig, Configs

\* ... or has merged the file ...
WithFile(p, t, f) == [p EXCEPT !.tree = t, !.file = f]

LEMMA ConfigWithFile ==
  ASSUME NEW p, IsConfig(p), NEW t, NEW f, NEW q, q = WithFile(p, t, f)
  PROVE  /\ IsConfig(q) /\ q.tree = t /\ q.file = f
         /\ q.old = p.old /\ q.env = p.env /\ q.loaded = p.loaded
<1>1. PICK T : p \in Configs(T)
  BY DEF IsConfig
<1>2. q \in Configs(T \union {t, f})
  BY <1>1 DEF Configs, WithFile
<1> QED
  BY <1>1, <1>2 DEF IsConfig, Configs, WithFile

\* ... or the environment.
WithEnv(p, t, e) == [p EXCEPT !.tree = t, !.env = e, !.loaded = TRUE]

LEMMA ConfigWithEnv ==
  ASSUME NEW p, IsConfig(p), NEW t, NEW e, NEW q, q = WithEnv(p, t, e)
  PROVE  /\ IsConfig(q) /\ q.tree = t /\ q.env = e /\ q.loaded
         /\ q.old = p.old /\ q.file = p.file
<1>1. PICK T : p \in Configs(T)
  BY DEF IsConfig
<1>2. q \in Configs(T \union {t, e, TRUE})
  BY <1>1 DEF Configs, WithEnv
<1>3. IsConfig(q)
  BY <1>2 DEF IsConfig
<1> QED
  BY <1>1, <1>3 DEF Configs, WithEnv

\* A new Config leaves the others as they are.
LEMMA AppendedConfig ==
  ASSUME ConfigShape, confs' = Append(confs, NewConfig)
  PROVE  /\ Len(confs') = Len(confs) + 1 /\ confs' = [c \in 1..Len(confs') |-> confs'[c]]
         /\ \A c \in 1..Len(confs) : confs'[c] = confs[c]
         /\ confs'[Len(confs) + 1] = NewConfig /\ IsConfig(NewConfig) /\ ~NewConfig.loaded
<1> DEFINE S == {confs[c] : c \in 1..Len(confs)} \union {NewConfig}
<1>1. confs \in Seq(S) /\ NewConfig \in S
  BY DEF ConfigShape
<1>2. confs' \in Seq(S) /\ Len(confs') = Len(confs) + 1 /\ confs'[Len(confs) + 1] = NewConfig
      /\ \A c \in 1..Len(confs) : confs'[c] = confs[c]
  <2> HIDE DEF S
  <2> QED  BY <1>1, AppendProperties DEF ConfigShape
<1>3. confs' = [c \in 1..Len(confs') |-> confs'[c]]
  <2> HIDE DEF S
  <2>1. confs' \in [1..Len(confs') -> S]
    BY <1>2, LenProperties
  <2> QED  BY <2>1
<1>4. IsConfig(NewConfig)
  <2>1. NewConfig \in Configs({Empty, <<>>, FALSE})
    BY DEF NewConfig, Configs
  <2> QED  BY <2>1 DEF IsConfig
<1>5. ~NewConfig.loaded
  BY DEF NewConfig
<1> QED
  BY <1>2, <1>3, <1>4, <1>5

\* A goroutine's step moves its own record alone.
LEMMA LoaderMoves ==
  ASSUME ConfigShape, NEW l \in Loaders, NEW r, IsLoader(r), loader' = [loader EXCEPT ![l] = r]
  PROVE  /\ loader' = [m \in Loaders |-> loader'[m]] /\ loader'[l] = r
         /\ \A m \in Loaders \ {l} : loader'[m] = loader[m]
         /\ \A m \in Loaders : IsLoader(loader'[m])
<1>1. loader' = [m \in Loaders |-> loader'[m]] /\ loader'[l] = r /\ \A m \in Loaders \ {l} : loader'[m] = loader[m]
  BY DEF ConfigShape
<1> QED
  BY <1>1 DEF ConfigShape

\* A loader at rest.
LEMMA RestingLoader == IsLoader(Resting) /\ Resting.at = "idle"
  BY LoaderLiteral DEF Resting

\* InitOnce and LoadApp: a new Config, and a Load of it begins.
LEMMA NewConfigKeeps ==
  ASSUME ConfigInv, NEW l \in Loaders, NEW at \in {"init", "lock"}, NEW by \in {"Init", "LoadApp"},
         confs' = Append(confs, NewConfig), Begin(l, at, by, Len(confs) + 1),
         at = "init" => by = "Init",
         IF by = "Init" THEN once = "new" /\ once' = "running" /\ default' = Len(confs) + 1
         ELSE UNCHANGED <<once, default>>
  PROVE  ConfigInv'
<1> DEFINE r == [at |-> at, by |-> by, conf |-> Len(confs) + 1, failed |-> FALSE]
<1>1. /\ Len(confs') = Len(confs) + 1 /\ confs' = [c \in 1..Len(confs') |-> confs'[c]]
      /\ \A c \in 1..Len(confs) : confs'[c] = confs[c]
      /\ confs'[Len(confs) + 1] = NewConfig /\ IsConfig(NewConfig) /\ ~NewConfig.loaded
  BY AppendedConfig DEF ConfigInv
<1>2. loader[l] = Resting /\ loader' = [loader EXCEPT ![l] = r] /\ IsLoader(r)
  BY LoaderLiteral DEF Begin
<1>3. /\ loader' = [m \in Loaders |-> loader'[m]] /\ loader'[l] = r
      /\ \A m \in Loaders \ {l} : loader'[m] = loader[m]
      /\ \A m \in Loaders : IsLoader(loader'[m])
  <2> HIDE DEF r
  <2> QED  BY <1>2, LoaderMoves DEF ConfigInv
<1>4. r.at = at /\ r.by = by /\ r.conf = Len(confs) + 1 /\ loader[l].at = "idle"
  BY <1>2, RestingLoader
<1> HIDE DEF r
<1>5. ConfigShape'
  <2>0. Len(confs) \in Nat /\ default \in 0..Len(confs)
    BY DEF ConfigInv, ConfigShape
  <2>1. \A c \in 1..Len(confs') : IsConfig(confs'[c])
    <3>1. \A c \in 1..Len(confs') : c \in 1..Len(confs) \/ c = Len(confs) + 1
      BY <1>1, <2>0
    <3> QED  BY <1>1, <3>1 DEF ConfigInv, ConfigShape
  <2>2. \A m \in Loaders : /\ loader'[m].at \in LoadSteps \union {"idle"}
                           /\ loader'[m].at # "idle" => loader'[m].conf \in 1..Len(confs')
                           /\ loader'[m].at = "init" => default' # 0
    BY <1>1, <1>3, <1>4, <2>0 DEF ConfigInv, ConfigShape, LoadSteps
  <2>3. default' \in 0..Len(confs')
    BY <1>1, <2>0
  <2> QED  BY <1>1, <1>3, <2>0, <2>1, <2>2, <2>3 DEF ConfigShape
<1>6. OneHolder'
  BY <1>3, <1>4 DEF ConfigInv, OneHolder, Holding
<1>7. MergedSoFar'
  <2>0. Len(confs) \in Nat
    BY DEF ConfigInv, ConfigShape
  <2>1. ASSUME NEW m \in Loaders
        PROVE  LET q == confs'[loader'[m].conf] IN
               /\ loader'[m].at = "file" => q.tree = q.old
               /\ loader'[m].at = "env" => q.tree = Merge(q.old, q.file)
               /\ loader'[m].at = "return" => q.loaded
    <3>1. CASE m = l
      BY <1>3, <1>4, <3>1
    <3>2. CASE m # l /\ loader[m].at = "idle"
      BY <1>3, <3>2
    <3>3. CASE m # l /\ loader[m].at # "idle"
      <4>1. loader'[m] = loader[m] /\ confs'[loader[m].conf] = confs[loader[m].conf]
        BY <1>1, <1>3, <3>3 DEF ConfigInv, ConfigShape
      <4> QED  BY <4>1 DEF ConfigInv, MergedSoFar
    <3> QED  BY <3>1, <3>2, <3>3
  <2>2. MergedInOrder'
    <3> SUFFICES ASSUME NEW c \in 1..Len(confs'), ~Locked(c)', confs'[c].loaded
                 PROVE  confs'[c].tree = Merge(Merge(confs'[c].old, confs'[c].file), EnvTree(confs'[c].env))
      BY DEF MergedInOrder
    <3>1. c \in 1..Len(confs) /\ confs'[c] = confs[c]
      BY <1>1, <2>0
    <3>2. ~Locked(c)
      BY <1>3, <1>4 DEF Locked
    <3> QED  BY <3>1, <3>2 DEF ConfigInv, MergedSoFar, MergedInOrder
  <2> QED  BY <2>1, <2>2 DEF MergedSoFar
<1>8. InitUnderWay'
  <2>0. Len(confs) \in Nat /\ default \in 0..Len(confs)
    BY DEF ConfigInv, ConfigShape
  <2>1. ASSUME NEW m \in Loaders, NEW n \in Loaders, loader'[m].by = "Init", loader'[m].at # "idle"
        PROVE  once' = "running" /\ (loader'[n].by = "Init" /\ loader'[n].at # "idle" => m = n)
    BY <1>3, <1>4, <2>1 DEF ConfigInv, InitUnderWay
  <2>2. ASSUME default' # 0, ~confs'[default'].loaded
        PROVE  \E m \in Loaders : loader'[m].by = "Init" /\ loader'[m].at # "idle" /\ loader'[m].conf = default'
    <3>1. CASE by = "Init"
      BY <1>3, <1>4, <3>1
    <3>2. CASE by # "Init"
      <4>1. default' = default /\ default \in 1..Len(confs) /\ ~confs[default].loaded
        BY <1>1, <2>0, <2>2, <3>2
      <4>2. PICK m \in Loaders : loader[m].by = "Init" /\ loader[m].at # "idle" /\ loader[m].conf = default
        BY <4>1 DEF ConfigInv, InitUnderWay
      <4> QED  BY <1>3, <1>4, <4>1, <4>2
    <3> QED  BY <3>1, <3>2
  <2> QED  BY <2>1, <2>2 DEF InitUnderWay
<1> QED
  BY <1>5, <1>6, <1>7, <1>8 DEF ConfigInv

\* Reload begins a Load of the default.
LEMMA ReloadKeeps ==
  ASSUME ConfigInv, NEW l \in Loaders, Reload(l)
  PROVE  ConfigInv'
<1> DEFINE r == [at |-> "lock", by |-> "Load", conf |-> default, failed |-> FALSE]
<1>1. /\ loader[l] = Resting /\ loader' = [loader EXCEPT ![l] = r] /\ IsLoader(r)
      /\ default # 0 /\ UNCHANGED <<confs, default, once>>
  BY LoaderLiteral DEF Reload, Begin
<1>2. r.at = "lock" /\ r.by = "Load" /\ r.conf = default /\ loader[l].at = "idle"
  BY <1>1, RestingLoader
<1> HIDE DEF r
<1>3. /\ loader' = [m \in Loaders |-> loader'[m]] /\ loader'[l] = r
      /\ \A m \in Loaders \ {l} : loader'[m] = loader[m]
      /\ \A m \in Loaders : IsLoader(loader'[m])
  BY <1>1, LoaderMoves DEF ConfigInv
<1>4. default \in 1..Len(confs)
  BY <1>1 DEF ConfigInv, ConfigShape
<1>5. ConfigShape'
  BY <1>1, <1>2, <1>3, <1>4 DEF ConfigInv, ConfigShape, LoadSteps
<1>6. OneHolder'
  BY <1>2, <1>3 DEF ConfigInv, OneHolder, Holding
<1>7. MergedSoFar'
  <2>1. \A c : Locked(c)' <=> Locked(c)
    BY <1>2, <1>3 DEF Locked
  <2>2. MergedInOrder'
    BY <1>1, <2>1 DEF ConfigInv, MergedSoFar, MergedInOrder
  <2> QED  BY <1>1, <1>2, <1>3, <2>2 DEF ConfigInv, MergedSoFar
<1>8. InitUnderWay'
  BY <1>1, <1>2, <1>3 DEF ConfigInv, InitUnderWay
<1> QED
  BY <1>5, <1>6, <1>7, <1>8 DEF ConfigInv

\* Init loads the default there is by then.
LEMMA InitLoadsKeeps ==
  ASSUME ConfigInv, NEW l \in Loaders, InitLoads(l)
  PROVE  ConfigInv'
<1> DEFINE r == [loader[l] EXCEPT !.at = "lock", !.conf = default]
<1>1. /\ loader[l].at = "init" /\ loader' = [loader EXCEPT ![l] = r]
      /\ UNCHANGED <<confs, default, once>>
  BY DEF InitLoads
<1>2. IsLoader(r) /\ r.at = "lock" /\ r.by = loader[l].by /\ r.conf = default
  <2>1. PICK T : loader[l] \in LoaderRecords(T)
    BY DEF ConfigInv, ConfigShape, IsLoader
  <2>2. r \in LoaderRecords(T \union {"lock", default})
    BY <2>1 DEF LoaderRecords
  <2> QED  BY <2>1, <2>2 DEF IsLoader, LoaderRecords
<1> HIDE DEF r
<1>3. /\ loader' = [m \in Loaders |-> loader'[m]] /\ loader'[l] = r
      /\ \A m \in Loaders \ {l} : loader'[m] = loader[m]
      /\ \A m \in Loaders : IsLoader(loader'[m])
  BY <1>1, <1>2, LoaderMoves DEF ConfigInv
<1>4. default \in 1..Len(confs)
  BY <1>1 DEF ConfigInv, ConfigShape
<1>5. ConfigShape'
  BY <1>1, <1>2, <1>3, <1>4 DEF ConfigInv, ConfigShape, LoadSteps
<1>6. OneHolder'
  BY <1>2, <1>3 DEF ConfigInv, OneHolder, Holding
<1>7. MergedSoFar'
  <2>1. \A c : Locked(c)' <=> Locked(c)
    BY <1>1, <1>2, <1>3 DEF Locked
  <2>2. MergedInOrder'
    BY <1>1, <2>1 DEF ConfigInv, MergedSoFar, MergedInOrder
  <2> QED  BY <1>1, <1>2, <1>3, <2>2 DEF ConfigInv, MergedSoFar
<1>8. InitUnderWay'
  <2>1. \A m \in Loaders : loader'[m].by = loader[m].by /\ (loader'[m].at = "idle" <=> loader[m].at = "idle")
    BY <1>1, <1>2, <1>3
  <2>2. \A m \in Loaders : loader[m].conf = default => loader'[m].conf = default
    BY <1>2, <1>3
  <2> QED  BY <1>1, <2>1, <2>2 DEF ConfigInv, InitUnderWay
<1> QED
  BY <1>5, <1>6, <1>7, <1>8 DEF ConfigInv

\* A step of the Load of one Config, under its lock or taking it, which does not
\* undo that the Config was loaded.
LEMMA LoadMoves ==
  ASSUME ConfigInv, NEW l \in Loaders, NEW r, NEW q, IsLoader(r), IsConfig(q),
         loader[l].at \in {"lock", "file", "env"}, r.at \in {"file", "env", "return"},
         r.by = loader[l].by, r.conf = loader[l].conf,
         loader[l].at = "lock" => ~Locked(loader[l].conf),
         loader' = [loader EXCEPT ![l] = r], confs' = [confs EXCEPT ![loader[l].conf] = q],
         r.at = "file" => q.tree = q.old,
         r.at = "env" => q.tree = Merge(q.old, q.file),
         r.at = "return" => q.loaded /\ q.tree = Merge(Merge(q.old, q.file), EnvTree(q.env)),
         confs[loader[l].conf].loaded => q.loaded,
         UNCHANGED <<default, once>>
  PROVE  ConfigInv'
<1> DEFINE c == loader[l].conf
<1>1. c \in 1..Len(confs) /\ Len(confs) \in Nat
  BY DEF ConfigInv, ConfigShape
<1>2. /\ loader' = [m \in Loaders |-> loader'[m]] /\ loader'[l] = r
      /\ \A m \in Loaders \ {l} : loader'[m] = loader[m]
      /\ \A m \in Loaders : IsLoader(loader'[m])
  BY LoaderMoves DEF ConfigInv
<1>3. /\ confs' = [d \in 1..Len(confs) |-> confs'[d]] /\ confs'[c] = q
      /\ \A d \in 1..Len(confs) \ {c} : confs'[d] = confs[d]
  BY <1>1 DEF ConfigInv, ConfigShape
<1>4. Len(confs') = Len(confs)
  BY <1>1, <1>3
\* Nobody else holds the lock.
<1>5. \A m \in Loaders \ {l} : loader[m].at \in Holding => loader[m].conf # c
  BY DEF ConfigInv, OneHolder, Locked, Holding
<1> HIDE DEF c
<1>6. ConfigShape'
  <2>1. \A d \in 1..Len(confs) : IsConfig(confs'[d])
    BY <1>3 DEF ConfigInv, ConfigShape
  <2>2. \A m \in Loaders : /\ loader'[m].at \in LoadSteps \union {"idle"}
                           /\ loader'[m].at # "idle" => loader'[m].conf \in 1..Len(confs)
                           /\ loader'[m].at = "init" => default # 0
    BY <1>1, <1>2 DEF ConfigInv, ConfigShape, LoadSteps, c
  <2> QED  BY <1>1, <1>2, <1>3, <1>4, <2>1, <2>2 DEF ConfigInv, ConfigShape
<1>7. OneHolder'
  BY <1>2, <1>5 DEF ConfigInv, OneHolder, Holding, c
<1>8. MergedSoFar'
  <2>1. ASSUME NEW m \in Loaders
        PROVE  LET s == confs'[loader'[m].conf] IN
               /\ loader'[m].at = "file" => s.tree = s.old
               /\ loader'[m].at = "env" => s.tree = Merge(s.old, s.file)
               /\ loader'[m].at = "return" => s.loaded
    <3>1. CASE m = l
      BY <1>2, <1>3, <3>1 DEF c
    <3>2. CASE m # l /\ loader[m].at \in LoadSteps /\ loader[m].conf # c
      <4>1. loader'[m] = loader[m] /\ confs'[loader[m].conf] = confs[loader[m].conf]
        BY <1>2, <1>3, <3>2 DEF ConfigInv, ConfigShape, LoadSteps
      <4> QED  BY <4>1 DEF ConfigInv, MergedSoFar
    <3>3. CASE m # l /\ loader[m].at \in LoadSteps /\ loader[m].conf = c
      <4>1. loader'[m] = loader[m] /\ loader[m].at \notin {"file", "env"}
        BY <1>2, <1>5, <3>3 DEF Holding
      <4>2. loader[m].at = "return" => confs'[c].loaded
        BY <1>3, <3>3 DEF ConfigInv, MergedSoFar, c
      <4> QED  BY <3>3, <4>1, <4>2
    <3>4. CASE m # l /\ loader[m].at \notin LoadSteps
      BY <1>2, <3>4 DEF LoadSteps
    <3> QED  BY <3>1, <3>2, <3>3, <3>4
  <2>2. MergedInOrder'
    <3> SUFFICES ASSUME NEW d \in 1..Len(confs'), ~Locked(d)', confs'[d].loaded
                 PROVE  confs'[d].tree = Merge(Merge(confs'[d].old, confs'[d].file), EnvTree(confs'[d].env))
      BY DEF MergedInOrder
    <3>1. CASE d = c
      <4>1. r.at = "return"
        BY <1>2, <3>1 DEF Locked, c
      <4> QED  BY <1>3, <3>1, <4>1
    <3>2. CASE d # c
      <4>1. d \in 1..Len(confs) /\ confs'[d] = confs[d]
        BY <1>3, <1>4, <3>2
      <4>2. ~Locked(d)
        BY <1>2, <3>2 DEF Locked, c
      <4> QED  BY <4>1, <4>2 DEF ConfigInv, MergedSoFar, MergedInOrder
    <3> QED  BY <3>1, <3>2
  <2> QED  BY <2>1, <2>2 DEF MergedSoFar
<1>9. InitUnderWay'
  <2>1. \A m \in Loaders : /\ loader'[m].by = loader[m].by /\ loader'[m].conf = loader[m].conf
                           /\ loader'[m].at = "idle" <=> loader[m].at = "idle"
    BY <1>2
  <2>2. default # 0 /\ ~confs'[default].loaded => ~confs[default].loaded
    BY <1>1, <1>3 DEF ConfigInv, ConfigShape, c
  <2> QED  BY <2>1, <2>2 DEF ConfigInv, InitUnderWay
<1> QED
  BY <1>6, <1>7, <1>8, <1>9 DEF ConfigInv

\* LoadLock, LoadFileSource and LoadEnvSource are such steps.
LEMMA LoadKeeps ==
  ASSUME ConfigInv, NEW l \in Loaders, LoadLock(l) \/ LoadFileSource(l) \/ LoadEnvSource(l)
  PROVE  ConfigInv'
<1> DEFINE c == loader[l].conf
           k == loader[l]
           p == confs[c]
<1>0. IsLoader(k) /\ (k.at # "idle" => c \in 1..Len(confs) /\ IsConfig(p))
  BY DEF ConfigInv, ConfigShape
<1>1. CASE LoadLock(l)
  <2> DEFINE r == [k EXCEPT !.at = "file"]
             q == [p EXCEPT !.old = p.tree]
  <2>1. /\ k.at = "lock" /\ ~Locked(c) /\ loader' = [loader EXCEPT ![l] = r]
        /\ confs' = [confs EXCEPT ![c] = q] /\ UNCHANGED <<default, once>>
    BY <1>1 DEF LoadLock
  <2>2. IsLoader(r) /\ r.at = "file" /\ r.by = k.by /\ r.conf = c
    BY <1>0, LoaderAt, ZenonT(40)
  <2>3. IsConfig(q) /\ q.tree = p.tree /\ q.old = p.tree /\ q.loaded = p.loaded
    BY <1>0, <2>1, ConfigLocked, SMTT(30)
  <2> HIDE DEF r, q
  <2> QED  BY <2>1, <2>2, <2>3, LoadMoves
<1>2. CASE LoadFileSource(l)
  <2> DEFINE data == IF file = Unreadable THEN Empty ELSE file
             r == [k EXCEPT !.at = "env", !.failed = (file = Unreadable)]
             q == [p EXCEPT !.tree = Merge(p.tree, data), !.file = data]
  <2>1. /\ k.at = "file" /\ loader' = [loader EXCEPT ![l] = r]
        /\ confs' = [confs EXCEPT ![c] = q] /\ UNCHANGED <<default, once>>
    BY <1>2 DEF LoadFileSource
  <2>2. IsLoader(r) /\ r.at = "env" /\ r.by = k.by /\ r.conf = c
    <3>1. PICK T : k \in LoaderRecords(T)
      BY <1>0 DEF IsLoader
    <3>2. r \in LoaderRecords(T \union {"env"} \union BOOLEAN)
      BY <3>1 DEF LoaderRecords
    <3> QED  BY <3>1, <3>2 DEF IsLoader, LoaderRecords
  <2> HIDE DEF data
  <2>3. IsConfig(q) /\ q.tree = Merge(p.tree, data) /\ q.file = data /\ q.old = p.old /\ q.loaded = p.loaded
    <3>1. IsConfig(p)
      BY <1>0, <2>1
    <3>2. PICK t : t = Merge(p.tree, data)
      OBVIOUS
    <3>3. q = WithFile(p, t, data)
      BY <3>2 DEF WithFile
    <3> HIDE DEF q, p
    <3> QED  BY <3>1, <3>2, <3>3, ConfigWithFile
  <2>4. p.tree = p.old
    BY <2>1 DEF ConfigInv, MergedSoFar
  <2> HIDE DEF r, q
  <2> QED  BY <2>1, <2>2, <2>3, <2>4, LoadMoves
<1>3. CASE LoadEnvSource(l)
  <2> DEFINE r == [k EXCEPT !.at = "return"]
             q == [p EXCEPT !.tree = Merge(p.tree, EnvTree(environ)), !.env = environ, !.loaded = TRUE]
  <2>1. /\ k.at = "env" /\ loader' = [loader EXCEPT ![l] = r]
        /\ confs' = [confs EXCEPT ![c] = q] /\ UNCHANGED <<default, once>>
    BY <1>3 DEF LoadEnvSource
  <2>2. IsLoader(r) /\ r.at = "return" /\ r.by = k.by /\ r.conf = c
    BY <1>0, LoaderAt, ZenonT(40)
  <2>3. /\ IsConfig(q) /\ q.tree = Merge(p.tree, EnvTree(environ)) /\ q.env = environ
        /\ q.file = p.file /\ q.old = p.old /\ q.loaded
    <3>1. IsConfig(p)
      BY <1>0, <2>1
    <3>2. PICK t : t = Merge(p.tree, EnvTree(environ))
      OBVIOUS
    <3>3. q = WithEnv(p, t, environ)
      BY <3>2 DEF WithEnv
    <3> HIDE DEF q, p
    <3> QED  BY <3>1, <3>2, <3>3, ConfigWithEnv
  <2>4. p.tree = Merge(p.old, p.file)
    BY <2>1 DEF ConfigInv, MergedSoFar
  <2> HIDE DEF r, q
  <2> QED  BY <2>1, <2>2, <2>3, <2>4, LoadMoves
<1> QED
  BY <1>1, <1>2, <1>3

\* Load returns: LoadApp publishes a Config that is loaded.
LEMMA LoadReturnsKeeps ==
  ASSUME ConfigInv, NEW l \in Loaders, LoadReturns(l)
  PROVE  ConfigInv'
<1>1. /\ loader[l].at = "return" /\ loader' = [loader EXCEPT ![l] = Resting] /\ confs' = confs
      /\ default' \in {loader[l].conf, default}
      /\ once' = IF loader[l].by = "Init" THEN "done" ELSE once
  BY DEF LoadReturns
<1>2. /\ loader' = [m \in Loaders |-> loader'[m]] /\ loader'[l].at = "idle"
      /\ \A m \in Loaders \ {l} : loader'[m] = loader[m]
      /\ \A m \in Loaders : IsLoader(loader'[m])
  BY <1>1, RestingLoader, LoaderMoves DEF ConfigInv
<1>3. loader[l].conf \in 1..Len(confs) /\ confs[loader[l].conf].loaded
  BY <1>1 DEF ConfigInv, ConfigShape, MergedSoFar
<1>4. ConfigShape'
  BY <1>1, <1>2, <1>3 DEF ConfigInv, ConfigShape
<1>5. OneHolder'
  BY <1>2 DEF ConfigInv, OneHolder, Holding
<1>6. MergedSoFar'
  <2>1. \A c : Locked(c)' <=> Locked(c)
    BY <1>1, <1>2 DEF Locked
  <2>2. MergedInOrder'
    BY <1>1, <2>1 DEF ConfigInv, MergedSoFar, MergedInOrder
  <2> QED  BY <1>1, <1>2, <2>2 DEF ConfigInv, MergedSoFar
<1>7. InitUnderWay'
  <2>1. ASSUME NEW m \in Loaders, NEW n \in Loaders, loader'[m].by = "Init", loader'[m].at # "idle"
        PROVE  once' = "running" /\ (loader'[n].by = "Init" /\ loader'[n].at # "idle" => m = n)
    <3>1. m # l /\ loader'[m] = loader[m]
      BY <1>2, <2>1
    <3>2. once = "running" /\ \A k \in Loaders : loader[k].by = "Init" /\ loader[k].at # "idle" => m = k
      BY <2>1, <3>1 DEF ConfigInv, InitUnderWay
    <3>3. once' = "running"
      BY <1>1, <3>1, <3>2
    <3> QED  BY <1>2, <3>2, <3>3
  <2>2. ASSUME default' # 0, ~confs'[default'].loaded
        PROVE  \E m \in Loaders : loader'[m].by = "Init" /\ loader'[m].at # "idle" /\ loader'[m].conf = default'
    <3>1. default' = default /\ ~confs[default].loaded
      BY <1>1, <1>3, <2>2
    <3>2. PICK m \in Loaders : loader[m].by = "Init" /\ loader[m].at # "idle" /\ loader[m].conf = default
      BY <2>2, <3>1 DEF ConfigInv, InitUnderWay
    <3>3. m # l
      BY <1>3, <3>1, <3>2
    <3> QED  BY <1>2, <3>1, <3>2, <3>3
  <2> QED  BY <2>1, <2>2 DEF InitUnderWay
<1> QED
  BY <1>4, <1>5, <1>6, <1>7 DEF ConfigInv

\* Every step keeps the invariant of the configuration.
LEMMA ConfigPreserved == ConfigInv /\ [ConfigNext]_configVars => ConfigInv'
<1> SUFFICES ASSUME ConfigInv, [ConfigNext]_configVars PROVE ConfigInv'
  OBVIOUS
<1>1. ASSUME UNCHANGED <<confs, default, once, loader>> PROVE ConfigInv'
  <2>1. \A c : Locked(c)' <=> Locked(c)
    BY <1>1 DEF Locked
  <2>2. MergedInOrder'
    BY <1>1, <2>1 DEF ConfigInv, MergedSoFar, MergedInOrder
  <2> QED
    BY <1>1, <2>2 DEF ConfigInv, ConfigShape, OneHolder, MergedSoFar, InitUnderWay
<1>2. ASSUME Edit \/ UNCHANGED configVars PROVE ConfigInv'
  BY <1>1, <1>2 DEF Edit, configVars
<1>3. ASSUME NEW l \in Loaders, InitOnce(l) \/ LoadApp(l) PROVE ConfigInv'
  BY <1>3, NewConfigKeeps DEF InitOnce, LoadApp
<1> QED
  BY <1>2, <1>3, InitLoadsKeeps, ReloadKeeps, LoadKeeps, LoadReturnsKeeps DEF ConfigNext

\* It holds initially.
LEMMA ConfigInitially == ConfigInit => ConfigInv
<1> SUFFICES ASSUME ConfigInit PROVE ConfigInv
  OBVIOUS
<1>1. /\ confs = <<>> /\ Len(confs) = 0 /\ default = 0
      /\ loader = [l \in Loaders |-> Resting] /\ \A l \in Loaders : loader[l] = Resting
  BY DEF ConfigInit
<1>2. ConfigShape
  BY <1>1, RestingLoader DEF ConfigShape
<1>3. OneHolder /\ InitUnderWay
  BY <1>1, RestingLoader DEF OneHolder, Holding, InitUnderWay
<1>4. MergedSoFar
  BY <1>1, RestingLoader DEF MergedSoFar, MergedInOrder
<1> QED
  BY <1>2, <1>3, <1>4 DEF ConfigInv

\* Every tree of a Config has its values at paths, and its environment is a list
\* of names and texts.
AtPaths(r) ==
    /\ DOMAIN r.tree \subseteq Paths /\ DOMAIN r.old \subseteq Paths /\ DOMAIN r.file \subseteq Paths
    /\ r.env \in EnvLists

\* What the Configs hold comes from the sources.
SourcesInv ==
    /\ file \in FileTrees \union {Unreadable} /\ environ \in Environments
    /\ \A c \in 1..Len(confs) : AtPaths(confs[c])

\* A merged tree has its values at paths.
LEMMA MergedPaths ==
  ASSUME NEW tree, DOMAIN tree \subseteq Paths, NEW data, DOMAIN data \subseteq Paths
  PROVE  DOMAIN Merge(tree, data) \subseteq Paths
  BY DEF Merge

\* A step that replaces one Config by one at paths.
LEMMA OneConfigAtPaths ==
  ASSUME ConfigShape, SourcesInv, NEW c \in 1..Len(confs), NEW q, AtPaths(q),
         confs' = [confs EXCEPT ![c] = q], UNCHANGED <<file, environ>>
  PROVE  SourcesInv'
<1>1. /\ confs' = [d \in 1..Len(confs) |-> confs'[d]] /\ confs'[c] = q
      /\ \A d \in 1..Len(confs) \ {c} : confs'[d] = confs[d]
  BY DEF ConfigShape
<1>2. Len(confs') = Len(confs)
  BY <1>1 DEF ConfigShape
<1> QED
  BY <1>1, <1>2 DEF SourcesInv

\* Every step keeps it.
LEMMA SourcesKept ==
  ASSUME ConfigInv, SourcesInv, [ConfigNext]_configVars
  PROVE  SourcesInv'
<1>1. CASE Edit \/ UNCHANGED configVars
  BY <1>1 DEF SourcesInv, Edit, configVars
<1>2. ASSUME NEW l \in Loaders, InitOnce(l) \/ LoadApp(l) PROVE SourcesInv'
  <2>1. confs' = Append(confs, NewConfig) /\ UNCHANGED <<file, environ>>
    BY <1>2 DEF InitOnce, LoadApp
  <2>2. /\ Len(confs') = Len(confs) + 1 /\ Len(confs) \in Nat
        /\ \A c \in 1..Len(confs) : confs'[c] = confs[c]
        /\ confs'[Len(confs) + 1] = NewConfig
    BY <2>1, AppendedConfig DEF ConfigInv, ConfigShape
  <2>3. AtPaths(NewConfig)
    <3>1. DOMAIN Empty = {}
      BY DEF Empty
    <3>2. <<>> \in EnvLists
      BY EmptySeq DEF EnvLists
    <3>3. NewConfig.tree = Empty /\ NewConfig.old = Empty /\ NewConfig.file = Empty /\ NewConfig.env = <<>>
      BY DEF NewConfig
    <3> QED  BY <3>1, <3>2, <3>3 DEF AtPaths
  <2>4. \A c \in 1..Len(confs') : c \in 1..Len(confs) \/ c = Len(confs) + 1
    BY <2>2
  <2> QED  BY <2>1, <2>2, <2>3, <2>4 DEF SourcesInv
<1>3. ASSUME NEW l \in Loaders, InitLoads(l) \/ Reload(l) \/ LoadReturns(l) PROVE SourcesInv'
  BY <1>3 DEF InitLoads, Reload, LoadReturns, SourcesInv
<1>4. ASSUME NEW l \in Loaders, LoadLock(l) \/ LoadFileSource(l) \/ LoadEnvSource(l) PROVE SourcesInv'
  <2> DEFINE c == loader[l].conf
             p == confs[c]
  <2>1. c \in 1..Len(confs) /\ IsConfig(p) /\ AtPaths(p) /\ ConfigShape /\ UNCHANGED <<file, environ>>
    <3>1. loader[l].at # "idle" /\ UNCHANGED <<file, environ>>
      BY <1>4 DEF LoadLock, LoadFileSource, LoadEnvSource
    <3> QED  BY <3>1 DEF ConfigInv, ConfigShape, SourcesInv
  <2>2. CASE LoadLock(l)
    <3> DEFINE q == [p EXCEPT !.old = p.tree]
    <3>1. confs' = [confs EXCEPT ![c] = q]
      BY <2>2 DEF LoadLock
    <3>2. q.tree = p.tree /\ q.old = p.tree /\ q.file = p.file /\ q.env = p.env
      BY <2>1, ConfigLocked, SMTT(30)
    <3>3. AtPaths(q)
      <4> HIDE DEF q, p
      <4> QED  BY <2>1, <3>2 DEF AtPaths
    <3> HIDE DEF q
    <3> QED  BY <2>1, <3>1, <3>3, OneConfigAtPaths
  <2>3. CASE LoadFileSource(l)
    <3>0. PICK data : data = IF file = Unreadable THEN Empty ELSE file
      OBVIOUS
    <3>1. PICK t : t = Merge(p.tree, data)
      OBVIOUS
    <3> DEFINE q == WithFile(p, t, data)
    <3>2. confs' = [confs EXCEPT ![c] = q]
      BY <2>3, <3>0, <3>1 DEF LoadFileSource, WithFile
    <3>3. q.tree = t /\ q.file = data /\ q.old = p.old /\ q.env = p.env
      <4> HIDE DEF p
      <4> QED  BY <2>1, ConfigWithFile
    <3>4. DOMAIN data \subseteq Paths
      <4>1. DOMAIN Empty = {}
        BY DEF Empty
      <4> QED  BY <3>0, <4>1, ConfigAssumption DEF SourcesInv
    <3>5. DOMAIN t \subseteq Paths
      BY <2>1, <3>1, <3>4, MergedPaths DEF AtPaths
    <3>6. AtPaths(q)
      <4> HIDE DEF q, p
      <4> QED  BY <2>1, <3>3, <3>4, <3>5 DEF AtPaths
    <3> HIDE DEF q
    <3> QED  BY <2>1, <3>2, <3>6, OneConfigAtPaths
  <2>4. CASE LoadEnvSource(l)
    <3>1. PICK t : t = Merge(p.tree, EnvTree(environ))
      OBVIOUS
    <3> DEFINE q == WithEnv(p, t, environ)
    <3>2. confs' = [confs EXCEPT ![c] = q]
      BY <2>4, <3>1 DEF LoadEnvSource, WithEnv
    <3>3. q.tree = t /\ q.env = environ /\ q.old = p.old /\ q.file = p.file
      <4> HIDE DEF p
      <4> QED  BY <2>1, ConfigWithEnv
    <3>4. environ \in EnvLists
      BY ConfigAssumption DEF SourcesInv, EnvLists
    <3>5. DOMAIN t \subseteq Paths
      BY <2>1, <3>1, <3>4, EnvTreePaths, MergedPaths DEF AtPaths
    <3>6. AtPaths(q)
      <4> HIDE DEF q, p
      <4> QED  BY <2>1, <3>3, <3>4, <3>5 DEF AtPaths
    <3> HIDE DEF q
    <3> QED  BY <2>1, <3>2, <3>6, OneConfigAtPaths
  <2> QED  BY <1>4, <2>2, <2>3, <2>4
<1> QED
  BY <1>1, <1>2, <1>3, <1>4 DEF ConfigNext

\* Both invariants together are inductive ...
LEMMA ConfigAndSources == ConfigInv /\ SourcesInv /\ [ConfigNext]_configVars => ConfigInv' /\ SourcesInv'
  BY ConfigPreserved, SourcesKept

\* ... and hold initially.
LEMMA SourcesInitially == ConfigInit => SourcesInv
<1> SUFFICES ASSUME ConfigInit PROVE SourcesInv
  OBVIOUS
<1>1. confs = <<>> /\ Len(confs) = 0
  BY DEF ConfigInit
<1> QED
  BY <1>1 DEF ConfigInit, SourcesInv

\* The names of the files' and the environments' values are paths.
LEMMA LeavesArePaths == Leaves \subseteq Paths
<1>1. \A f \in FileTrees : DOMAIN f \subseteq Paths
  BY ConfigAssumption
<1>2. \A e \in Environments : \A i \in 1..Len(e) : e[i].keys \in Paths
  BY ConfigAssumption, EnvElements DEF EnvLists
<1> QED
  BY <1>1, <1>2 DEF Leaves

\* The invariants give what readers see.
LEMMA ConfigInvLayered == ConfigInv /\ SourcesInv => ConfigLayered
<1> SUFFICES ASSUME ConfigInv, SourcesInv PROVE ConfigLayered
  OBVIOUS
<1>1. MergedInOrder /\ EarlyOnlyInInit
  BY DEF ConfigInv, MergedSoFar, InitUnderWay, EarlyOnlyInInit
<1>2. ASSUME NEW c \in 1..Len(confs), ~Locked(c), confs[c].loaded, Unambiguous(confs[c].env), NEW p \in Leaves,
             Names(EnvPaths(confs[c]), p) => p \in EnvPaths(confs[c])
      PROVE  Get(confs[c].tree, p) = Layered(confs[c], p)
  <2>1. confs[c].tree = Merge(Merge(confs[c].old, confs[c].file), EnvTree(confs[c].env))
    BY <1>1, <1>2 DEF MergedInOrder
  <2>2. p \in Paths /\ AtPaths(confs[c])
    BY LeavesArePaths DEF SourcesInv
  <2>3. PICK r : r = confs[c]
    OBVIOUS
  <2>4. Get(r.tree, p) = Layered(r, p)
    BY <1>2, <2>1, <2>2, <2>3, LayeredRead DEF AtPaths
  <2> QED  BY <2>3, <2>4
<1> QED
  BY <1>1, <1>2 DEF ConfigLayered

\* For any number of goroutines that call Init, LoadApp and Load, any files and
\* environments and any changes of them in between: a Config that nobody holds
\* locked is what it was before its last Load with that Load's file and then its
\* environment merged into it; a path is read from the last source that gives it,
\* where the environment does not replace its section; and defaultConfig is a
\* Config that was never loaded only while Init is on its way.
THEOREM ConfigReadsLayered == FacilitiesSpec => []ConfigLayered
<1>1. FacilitiesInit => ConfigInv /\ SourcesInv
  BY ConfigInitially, SourcesInitially DEF FacilitiesInit
<1> QED
  BY <1>1, ConfigStep, ConfigAndSources, ConfigInvLayered, PTL DEF FacilitiesSpec


\* The types of the three facilities that state them, for every value of the
\* constants: part of their invariants.
THEOREM FacilitiesTypesHold == FacilitiesSpec => []FacilitiesTypeOK
  <1>1. FacilitiesSpec => []RotatorTypeOK
    BY RotatedLinesKept, PTL
  <1>2. FacilitiesSpec => []CronTypeOK
    <2>1. FacilitiesInit => CronInv
      BY CronInitially DEF FacilitiesInit
    <2> QED  BY <2>1, CronStep, CronPreserved, CronInvImplies, PTL DEF FacilitiesSpec
  <1>3. FacilitiesSpec => []DelayTypeOK
    <2>1. FacilitiesInit => DelayInv
      BY DelayInitially DEF FacilitiesInit
    <2> QED  BY <2>1, DelayStep, DelayPreserved, DelayInvImplies, PTL DEF FacilitiesSpec
  <1> QED  BY <1>1, <1>2, <1>3, PTL DEF FacilitiesTypeOK
============================================================================
