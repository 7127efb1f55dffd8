---------------------------- MODULE CronScheduler ----------------------------
(***************************************************************************)
(* The scheduler of cron/cron.go.                                          *)
(*                                                                         *)
(* The map entries holds one Entry object per job id; AddJob replaces the  *)
(* object, Remove drops it, and the scheduling loop keeps the object it has *)
(* picked while it waits.  Entry objects and scheduling loops are numbered *)
(* in the order of their creation.  Any goroutine may call any method; a   *)
(* Start while Stop still waits lets the old loop go on beside the new one. *)
(***************************************************************************)
EXTENDS Integers, FiniteSets

CONSTANTS
    JobIds,
    Schedules,      \* the schedules AddJob is called with: [kind, every]
    DayLength,      \* ticks in 24 hours
    MaxEntries,     \* bound: Entry objects in a behaviour
    MaxStarts,      \* bound: calls of Start that start a loop
    MaxTick         \* bound: the clock

ASSUME CronAssumption ==
    /\ DayLength \in Nat \ {0}
    /\ \A s \in Schedules : s.kind \in {"interval", "daily", "cron"} /\ s.every \in Nat
    /\ MaxEntries \in Nat /\ MaxStarts \in Nat /\ MaxTick \in Nat

Absent == 0
Objects == 1..MaxEntries
Loops == 1..MaxStarts

VARIABLES
    tick,       \* time.Now()
    entry,      \* the Entry objects: schedule, Next, Running
    table,      \* entries: the object under each id
    created,    \* Entry objects created so far
    active,     \* running
    gen,        \* the loop whose context s.ctx is; cancelled contexts
    cancelled,
    loop,       \* each loop's step, the object it picked, the now it read,
                \* the context and the time its wait ends with
    jobs,       \* job goroutines of each object
    stopping,   \* calls of Stop in wg.Wait
    orphanRuns  \* history: runs of each object begun after it left the table

cronVars == <<tick, entry, table, created, active, gen, cancelled, loop, jobs, stopping, orphanRuns>>

\* parseField answers the whole range whatever the field says.
ParseField(field, min, max) == min..max

\* The first later second that all six fields admit.
CronScheduleNext(t) ==
    CHOOSE u \in (t + 1)..(t + 60) :
        /\ u % 60 \in ParseField("second", 0, 59)
        /\ \A v \in (t + 1)..(u - 1) : v % 60 \notin ParseField("second", 0, 59)

DailyNext(t, at) ==
    LET today == (t \div DayLength) * DayLength + at
    IN  IF today > t THEN today ELSE today + DayLength

ScheduleNext(s, t) ==
    CASE s.kind = "interval" -> t + s.every
      [] s.kind = "daily"    -> DailyNext(t, s.every)
      [] OTHER               -> CronScheduleNext(t)

Idle == [at |-> "none", pick |-> Absent, now |-> 0, ctx |-> 0, until |-> 0]

CronInit ==
    /\ tick = 0
    /\ entry = [o \in Objects |-> [sched |-> CHOOSE s \in Schedules : TRUE, next |-> 0, running |-> FALSE]]
    /\ table = [i \in JobIds |-> Absent]
    /\ created = 0
    /\ active = FALSE /\ gen = 0 /\ cancelled = {}
    /\ loop = [g \in Loops |-> Idle]
    /\ jobs = [o \in Objects |-> 0]
    /\ stopping = 0
    /\ orphanRuns = [o \in Objects |-> 0]

LiveLoops == {g \in Loops : loop[g].at \notin {"none", "done"}}
WaitGroupZero == LiveLoops = {} /\ \A o \in Objects : jobs[o] = 0

----------------------------------------------------------------------------
AddJob(i, s) ==
    /\ created < MaxEntries
    /\ created' = created + 1
    /\ entry' = [entry EXCEPT ![created + 1] = [sched |-> s, next |-> ScheduleNext(s, tick), running |-> FALSE]]
    /\ table' = [table EXCEPT ![i] = created + 1]
    /\ UNCHANGED <<tick, active, gen, cancelled, loop, jobs, stopping, orphanRuns>>

Remove(i) ==
    /\ table[i] # Absent
    /\ table' = [table EXCEPT ![i] = Absent]
    /\ UNCHANGED <<tick, entry, created, active, gen, cancelled, loop, jobs, stopping, orphanRuns>>

Start ==
    /\ ~active /\ gen < MaxStarts
    /\ active' = TRUE
    /\ gen' = gen + 1
    /\ loop' = [loop EXCEPT ![gen + 1] = [Idle EXCEPT !.at = "scan"]]
    /\ UNCHANGED <<tick, entry, table, created, cancelled, jobs, stopping, orphanRuns>>

Stop ==
    /\ active
    /\ active' = FALSE
    /\ cancelled' = cancelled \union {gen}
    /\ stopping' = stopping + 1
    /\ UNCHANGED <<tick, entry, table, created, gen, loop, jobs, orphanRuns>>

MutStopReturns ==
    /\ stopping > 0
    /\ LiveLoops = {}
    /\ stopping' = stopping - 1
    /\ UNCHANGED <<tick, entry, table, created, active, gen, cancelled, loop, jobs, orphanRuns>>

StopReturns ==
    /\ stopping > 0
    /\ WaitGroupZero
    /\ stopping' = stopping - 1
    /\ UNCHANGED <<tick, entry, table, created, active, gen, cancelled, loop, jobs, orphanRuns>>

\* The objects in the table that no other object precedes.
Earliest ==
    LET present == {table[i] : i \in JobIds} \ {Absent}
    IN  {o \in present : \A p \in present : entry[o].next <= entry[p].next}

\* run, under the lock: leave if stopped, else read the clock and pick.
RunScan(g) ==
    /\ loop[g].at = "scan"
    /\ IF ~active
       THEN loop' = [loop EXCEPT ![g].at = "done"]
       ELSE \E o \in (IF Earliest = {} THEN {Absent} ELSE Earliest) :
                loop' = [loop EXCEPT ![g] = [at |-> "picked", pick |-> o, now |-> tick, ctx |-> 0, until |-> 0]]
    /\ UNCHANGED <<tick, entry, table, created, active, gen, cancelled, jobs, stopping, orphanRuns>>

\* The select: the context is the current one, and an entry that is due is not
\* waited for.
RunSelect(g) ==
    LET next == IF loop[g].pick = Absent THEN tick + 1 ELSE entry[loop[g].pick].next IN
    /\ loop[g].at = "picked"
    /\ loop' = [loop EXCEPT ![g] = [at |-> IF next > tick THEN "wait" ELSE "due", pick |-> @.pick, now |-> @.now,
                                    ctx |-> gen, until |-> next]]
    /\ UNCHANGED <<tick, entry, table, created, active, gen, cancelled, jobs, stopping, orphanRuns>>

RunCancelled(g) ==
    /\ loop[g].at = "wait" /\ loop[g].ctx \in cancelled
    /\ loop' = [loop EXCEPT ![g].at = "done"]
    /\ UNCHANGED <<tick, entry, table, created, active, gen, cancelled, jobs, stopping, orphanRuns>>

\* Nothing to run: the loop looks again after 100 ms.
RunIdle(g) ==
    /\ loop[g].at = "wait" /\ loop[g].pick = Absent
    /\ loop' = [loop EXCEPT ![g].at = "scan"]
    /\ UNCHANGED <<tick, entry, table, created, active, gen, cancelled, jobs, stopping, orphanRuns>>

OrphanRun(o) == IF \A i \in JobIds : table[i] # o THEN 1 ELSE 0

\* runJob: Next is computed from the now read before the wait.
RunJob(g) ==
    LET o == loop[g].pick IN
    /\ o # Absent
    /\ loop[g].at = "due" \/ (loop[g].at = "wait" /\ loop[g].until <= tick)
    /\ loop' = [loop EXCEPT ![g].at = "scan"]
    /\ IF entry[o].running
       THEN UNCHANGED <<entry, jobs, orphanRuns>>
       ELSE /\ entry' = [entry EXCEPT ![o] = [sched |-> @.sched, next |-> ScheduleNext(@.sched, loop[g].now),
                                              running |-> TRUE]]
            /\ jobs' = [jobs EXCEPT ![o] = @ + 1]
            /\ orphanRuns' = [orphanRuns EXCEPT ![o] = @ + OrphanRun(o)]
    /\ UNCHANGED <<tick, table, created, active, gen, cancelled, stopping>>

JobEnds(o) ==
    /\ jobs[o] > 0
    /\ jobs' = [jobs EXCEPT ![o] = @ - 1]
    /\ entry' = [entry EXCEPT ![o].running = FALSE]
    /\ UNCHANGED <<tick, table, created, active, gen, cancelled, loop, stopping, orphanRuns>>

CronTick ==
    /\ tick < MaxTick
    /\ tick' = tick + 1
    /\ UNCHANGED <<entry, table, created, active, gen, cancelled, loop, jobs, stopping, orphanRuns>>

CronLoop(g) == RunScan(g) \/ RunSelect(g) \/ RunCancelled(g) \/ RunIdle(g) \/ RunJob(g)

CronNext ==
    \/ \E i \in JobIds, s \in Schedules : AddJob(i, s)
    \/ \E i \in JobIds : Remove(i)
    \/ Start \/ Stop \/ StopReturns \/ CronTick
    \/ \E g \in Loops : CronLoop(g)
    \/ \E o \in Objects : JobEnds(o)

CronSpec == CronInit /\ [][CronNext]_cronVars

CronTypeOK ==
    /\ tick \in 0..MaxTick
    /\ \A o \in Objects : entry[o].running \in BOOLEAN /\ entry[o].next \in Nat
    /\ table \in [JobIds -> 0..created]
    /\ created \in 0..MaxEntries
    /\ gen \in 0..MaxStarts /\ cancelled \subseteq 1..gen
    /\ \A g \in Loops : loop[g].pick \in 0..created /\ loop[g].now \in 0..tick
    /\ jobs \in [Objects -> Nat]

\* What a job may still do is bounded by the Running flag, the loops and the
\* wait group: an entry never runs twice at the same time; once AddJob has
\* replaced it or Remove has dropped it, at most the run each loop was already
\* waiting for still begins; and when every Stop has returned, until the next
\* Start, neither a loop nor any job goroutine is left.
JobsContained ==
    /\ \A o \in Objects : jobs[o] <= 1 /\ orphanRuns[o] <= gen
    /\ ~active /\ stopping = 0 => WaitGroupZero
=============================================================================
