------------------------------ MODULE Discovery ------------------------------
(***************************************************************************)
(* Service discovery: the registry kept in etcd and MemoryRegistry.        *)
(*                                                                         *)
(* In etcd an instance is a key attached to a lease.  Register starts a    *)
(* keepAlive goroutine per call, which registers again when it cannot      *)
(* renew its lease; etcd loses leases and operations fail, MaxFaults times *)
(* in all.  MemoryRegistry drops an instance whose last heartbeat is older *)
(* than HeartbeatTimeout.  One watcher follows the list; one goroutine of   *)
(* the application registers, deregisters and closes.                      *)
(***************************************************************************)
EXTENDS Integers, Sequences, FiniteSets

CONSTANTS
    Instances,
    HeartbeatTimeout,
    WatchBuffer,    \* room in the watcher's channel: 8, and 10 in memory
    MaxOps,         \* bound: Register and Deregister calls
    MaxFaults,      \* bound: leases lost, operations failed
    MaxNow          \* bound: the clock of MemoryRegistry

ASSUME DiscoveryAssumption ==
    /\ IsFiniteSet(Instances) /\ WatchBuffer \in Nat \ {0} /\ HeartbeatTimeout \in Nat
    /\ MaxOps \in Nat /\ MaxFaults \in Nat /\ MaxNow \in Nat

\* A lease is granted for a call, or because one was lost, revoked or not renewed.
Leases == 1..(2 * MaxOps + MaxFaults)
Keepers == 1..MaxOps

VARIABLES
    registry,   \* "etcd" or "memory"
    live,       \* leases alive in etcd
    granted,    \* leases granted so far
    key,        \* etcd: the lease of each instance's key, 0 without a key
    services,   \* the services map of the registry
    leases,     \* its leases map, 0 for none
    op,         \* the call of the application that is under way
    ops, faults,
    keeper,     \* the keepAlive goroutines
    spawned,
    phase,      \* "open", "cancelled", "revoked" or "closed"
    beat, now,  \* MemoryRegistry: last heartbeats (-1: absent) and clock
    watch,      \* the watcher: "none", "starting", "watching" or "ended"
    channel,    \* its channel of snapshots
    events,     \* changes etcd has still to report to it
    missed,     \* a change it was not told of, or could not read
    seen        \* the list its reader has

etcdVars == <<live, granted, key, leases, keeper, spawned, events, missed, faults>>
watchVars == <<watch, channel, seen>>
discoveryVars == <<registry, etcdVars, services, op, ops, phase, beat, now, watchVars>>

NoOp == [at |-> "idle", inst |-> CHOOSE i \in Instances : TRUE, lease |-> 0]
Unborn == [at |-> "unborn", inst |-> CHOOSE i \in Instances : TRUE, lease |-> 0, new |-> 0]

DiscoveryInit ==
    /\ registry \in {"etcd", "memory"}
    /\ live = {} /\ granted = 0
    /\ key = [i \in Instances |-> 0]
    /\ services = {} /\ leases = [i \in Instances |-> 0]
    /\ op = NoOp /\ ops = 0 /\ faults = 0
    /\ keeper = [g \in Keepers |-> Unborn] /\ spawned = 0
    /\ phase = "open"
    /\ beat = [i \in Instances |-> 0 - 1] /\ now = 0
    /\ watch = "none" /\ channel = <<>> /\ seen = {}
    /\ events = 0 /\ missed = FALSE

----------------------------------------------------------------------------
(* etcd: external *)

Fault == faults < MaxFaults /\ faults' = faults + 1

Grant == granted' = granted + 1 /\ live' = live \union {granted + 1}

\* The keys become k: the watcher gets an event for each that changes, if its
\* watch is open already.
Change(k) ==
    LET changed == Cardinality({i \in Instances : key[i] # k[i]}) IN
    /\ key' = k
    /\ events' = IF watch = "watching" THEN events + changed ELSE events
    /\ missed' = (missed \/ (watch = "starting" /\ changed > 0))

\* A lease takes its keys with it.
Without(ls) == [i \in Instances |-> IF key[i] \in ls THEN 0 ELSE key[i]]

Kept(l) == \E g \in Keepers : keeper[g].at \notin {"unborn", "gone"} /\ l \in {keeper[g].lease, keeper[g].new}

\* etcd drops a lease that nobody renews, and by a fault any other.
LeaseExpires(l) ==
    /\ l \in live
    /\ IF Kept(l) \/ op.lease = l THEN Fault ELSE UNCHANGED faults
    /\ live' = live \ {l}
    /\ Change(Without({l}))
    /\ UNCHANGED <<registry, granted, leases, keeper, spawned, services, op, ops, phase, beat, now, watchVars>>

----------------------------------------------------------------------------
(* Registry: Register and Deregister *)

RegisterGrant(i) ==
    /\ registry = "etcd" /\ phase = "open" /\ op = NoOp /\ ops < MaxOps
    /\ ops' = ops + 1
    /\ \/ Grant /\ op' = [at |-> "put", inst |-> i, lease |-> granted + 1] /\ UNCHANGED faults
       \/ Fault /\ UNCHANGED <<op, live, granted>>
    /\ UNCHANGED <<registry, key, leases, keeper, spawned, events, missed, services, phase, beat, now, watchVars>>

\* A Put fails before or after etcd has written the key.
RegisterPut ==
    /\ op.at = "put"
    /\ \/ /\ op.lease \in live
          /\ Change([key EXCEPT ![op.inst] = op.lease])
          /\ \/ op' = [op EXCEPT !.at = "record"] /\ UNCHANGED faults
             \/ op' = [op EXCEPT !.at = "undo"] /\ Fault
       \/ /\ IF op.lease \in live THEN Fault ELSE UNCHANGED faults
          /\ op' = [op EXCEPT !.at = "undo"] /\ UNCHANGED <<key, events, missed>>
    /\ UNCHANGED <<registry, live, granted, leases, keeper, spawned, services, ops, phase, beat, now, watchVars>>

\* Register gives its lease back, and the key with it; the error is dropped.
RegisterUndo ==
    /\ op.at = "undo"
    /\ \/ live' = live \ {op.lease} /\ Change(Without({op.lease})) /\ UNCHANGED faults
       \/ Fault /\ UNCHANGED <<live, key, events, missed>>
    /\ op' = NoOp
    /\ UNCHANGED <<registry, granted, leases, keeper, spawned, services, ops, phase, beat, now, watchVars>>

RegisterRecord ==
    /\ op.at = "record"
    /\ leases' = [leases EXCEPT ![op.inst] = op.lease]
    /\ services' = services \union {op.inst}
    /\ spawned' = spawned + 1
    /\ keeper' = [keeper EXCEPT ![spawned + 1] = [at |-> "wait", inst |-> op.inst, lease |-> op.lease, new |-> 0]]
    /\ op' = NoOp
    /\ UNCHANGED <<registry, live, granted, key, events, missed, faults, ops, phase, beat, now, watchVars>>

DeregisterTake(i) ==
    /\ registry = "etcd" /\ phase = "open" /\ op = NoOp /\ ops < MaxOps
    /\ ops' = ops + 1
    /\ op' = [at |-> "revoke", inst |-> i, lease |-> leases[i]]
    /\ leases' = [leases EXCEPT ![i] = 0] /\ services' = services \ {i}
    /\ UNCHANGED <<registry, live, granted, key, keeper, spawned, events, missed, faults, phase, beat, now, watchVars>>

\* The error of Revoke is dropped.
DeregisterRevoke ==
    /\ op.at = "revoke"
    /\ \/ live' = live \ {op.lease} /\ Change(Without({op.lease} \ {0})) /\ UNCHANGED faults
       \/ op.lease # 0 /\ Fault /\ UNCHANGED <<live, key, events, missed>>
    /\ op' = [op EXCEPT !.at = "delete", !.lease = 0]
    /\ UNCHANGED <<registry, granted, leases, keeper, spawned, services, ops, phase, beat, now, watchVars>>

DeregisterDelete ==
    /\ op.at = "delete"
    /\ \/ Change([key EXCEPT ![op.inst] = 0]) /\ UNCHANGED faults
       \/ Fault /\ UNCHANGED <<key, events, missed>>
    /\ op' = NoOp
    /\ UNCHANGED <<registry, live, granted, leases, keeper, spawned, services, ops, phase, beat, now, watchVars>>

----------------------------------------------------------------------------
(* keepAlive *)

\* KeepAliveOnce fails: the lease is gone, the request failed, or the registry
\* is closing.  A keeper whose instance was deregistered ends.
MutKeeperTick(g) ==
    /\ keeper[g].at = "wait"
    /\ IF keeper[g].lease \in live /\ phase = "open" THEN Fault ELSE UNCHANGED faults
    /\ keeper' = [keeper EXCEPT ![g].at = "gone"]
    /\ UNCHANGED <<registry, live, granted, key, leases, spawned, events, missed, services, op, ops, phase, beat, now, watchVars>>

KeeperTick(g) ==
    /\ keeper[g].at = "wait"
    /\ IF keeper[g].lease \in live /\ phase = "open" THEN Fault ELSE UNCHANGED faults
    /\ keeper' = [keeper EXCEPT ![g].at = IF keeper[g].inst \in services THEN "grant" ELSE "gone"]
    /\ UNCHANGED <<registry, live, granted, key, leases, spawned, events, missed, services, op, ops, phase, beat, now, watchVars>>

KeeperGrant(g) ==
    /\ keeper[g].at = "grant"
    /\ \/ /\ phase = "open" /\ Grant /\ UNCHANGED faults
          /\ keeper' = [keeper EXCEPT ![g].at = "put", ![g].new = granted + 1]
       \/ /\ IF phase = "open" THEN Fault ELSE UNCHANGED faults
          /\ keeper' = [keeper EXCEPT ![g].at = "wait"] /\ UNCHANGED <<live, granted>>
    /\ UNCHANGED <<registry, key, leases, spawned, events, missed, services, op, ops, phase, beat, now, watchVars>>

\* Close cancels a Put, which etcd may have carried out all the same.
KeeperPut(g) ==
    LET k == keeper[g] IN
    /\ k.at = "put"
    /\ \/ /\ k.new \in live
          /\ Change([key EXCEPT ![k.inst] = k.new])
          /\ \/ phase = "open" /\ keeper' = [keeper EXCEPT ![g].at = "record"] /\ UNCHANGED faults
             \/ /\ IF phase = "open" THEN Fault ELSE UNCHANGED faults
                /\ keeper' = [keeper EXCEPT ![g].at = "undo"]
       \/ /\ IF phase = "open" /\ k.new \in live THEN Fault ELSE UNCHANGED faults
          /\ keeper' = [keeper EXCEPT ![g].at = "undo"] /\ UNCHANGED <<key, events, missed>>
    /\ UNCHANGED <<registry, live, granted, leases, spawned, services, op, ops, phase, beat, now, watchVars>>

\* The new lease is given back; the goroutine goes on with the old one.
KeeperUndo(g) ==
    LET k == keeper[g] IN
    /\ k.at = "undo"
    /\ \/ live' = live \ {k.new} /\ Change(Without({k.new})) /\ UNCHANGED faults
       \/ Fault /\ UNCHANGED <<live, key, events, missed>>
    /\ keeper' = [keeper EXCEPT ![g].at = "wait", ![g].new = 0]
    /\ UNCHANGED <<registry, granted, leases, spawned, services, op, ops, phase, beat, now, watchVars>>

\* Recorded without a second look at services: a Deregister since then is undone.
KeeperRecord(g) ==
    LET k == keeper[g] IN
    /\ k.at = "record"
    /\ leases' = [leases EXCEPT ![k.inst] = k.new]
    /\ keeper' = [keeper EXCEPT ![g] = [k EXCEPT !.at = "wait", !.lease = k.new, !.new = 0]]
    /\ UNCHANGED <<registry, live, granted, key, spawned, events, missed, faults, services, op, ops, phase, beat, now, watchVars>>

KeeperDone(g) ==
    /\ keeper[g].at = "wait" /\ phase # "open"
    /\ keeper' = [keeper EXCEPT ![g].at = "gone"]
    /\ UNCHANGED <<registry, live, granted, key, leases, spawned, events, missed, faults, services, op, ops, phase, beat, now, watchVars>>

----------------------------------------------------------------------------
(* Close *)

CloseCancel ==
    /\ registry = "etcd" /\ phase = "open" /\ op = NoOp /\ phase' = "cancelled"
    /\ UNCHANGED <<registry, etcdVars, services, op, ops, beat, now, watchVars>>

\* The leases in the map are revoked, errors dropped.
CloseRevoke ==
    LET known == {leases[i] : i \in Instances} \ {0} IN
    /\ phase = "cancelled" /\ phase' = "revoked"
    /\ \/ live' = live \ known /\ Change(Without(known)) /\ UNCHANGED faults
       \/ known # {} /\ Fault /\ UNCHANGED <<live, key, events, missed>>
    /\ UNCHANGED <<registry, granted, leases, keeper, spawned, services, op, ops, beat, now, watchVars>>

CloseReturns ==
    /\ phase = "revoked" /\ phase' = "closed"
    /\ \A g \in Keepers : keeper[g].at \in {"unborn", "gone"}
    /\ watch \in {"none", "ended"}
    /\ UNCHANGED <<registry, etcdVars, services, op, ops, beat, now, watchVars>>

----------------------------------------------------------------------------
(* MemoryRegistry *)

MemoryRegister(i) ==
    /\ registry = "memory" /\ ops < MaxOps /\ ops' = ops + 1
    /\ beat' = [beat EXCEPT ![i] = now]
    /\ UNCHANGED <<registry, etcdVars, services, op, phase, now, watchVars>>

MemoryDeregister(i) ==
    /\ registry = "memory" /\ ops < MaxOps /\ ops' = ops + 1
    /\ beat' = [beat EXCEPT ![i] = 0 - 1]
    /\ UNCHANGED <<registry, etcdVars, services, op, phase, now, watchVars>>

\* An instance that was dropped for its age is still in the map.
Heartbeat(i) ==
    /\ registry = "memory" /\ beat[i] >= 0
    /\ beat' = [beat EXCEPT ![i] = now]
    /\ UNCHANGED <<registry, etcdVars, services, op, ops, phase, now, watchVars>>

MemoryTick ==
    /\ registry = "memory" /\ now < MaxNow /\ now' = now + 1
    /\ UNCHANGED <<registry, etcdVars, services, op, ops, phase, beat, watchVars>>

----------------------------------------------------------------------------
(* GetInstances and Watch *)

\* getHealthyInstances of MemoryRegistry.
Healthy == {i \in Instances : beat[i] >= 0 /\ now - beat[i] <= HeartbeatTimeout}

GetInstances == IF registry = "etcd" THEN {i \in Instances : key[i] # 0} ELSE Healthy

\* etcd pushes the current list at once; the watch opens later.
WatchStart ==
    /\ watch = "none" /\ phase = "open"
    /\ watch' = IF registry = "etcd" THEN "starting" ELSE "watching"
    /\ channel' = IF registry = "etcd" THEN <<GetInstances>> ELSE <<>>
    /\ UNCHANGED <<registry, etcdVars, services, op, ops, phase, beat, now, seen>>

WatchOpen ==
    /\ watch = "starting" /\ watch' = "watching"
    /\ UNCHANGED <<registry, etcdVars, services, op, ops, phase, beat, now, channel, seen>>

\* A full channel loses its oldest list.
Pushed(list) == Append(IF Len(channel) < WatchBuffer THEN channel ELSE Tail(channel), list)

WatchEvent ==
    /\ watch = "watching" /\ events > 0
    /\ events' = events - 1
    /\ \/ channel' = Pushed(GetInstances) /\ missed' = FALSE /\ UNCHANGED faults
       \/ Fault /\ missed' = TRUE /\ UNCHANGED channel
    /\ UNCHANGED <<registry, live, granted, key, leases, keeper, spawned, services, op, ops, phase, beat, now, watch, seen>>

\* MemoryRegistry looks at every tick, and drops the new list when there is no room.
WatchRefresh ==
    /\ registry = "memory" /\ watch = "watching" /\ Len(channel) < WatchBuffer
    /\ channel' = Append(channel, GetInstances)
    /\ UNCHANGED <<registry, etcdVars, services, op, ops, phase, beat, now, watch, seen>>

WatchRead ==
    /\ channel # <<>>
    /\ seen' = Head(channel) /\ channel' = Tail(channel)
    /\ UNCHANGED <<registry, etcdVars, services, op, ops, phase, beat, now, watch>>

WatchCancelled ==
    /\ watch = "watching" /\ watch' = "ended"
    /\ UNCHANGED <<registry, etcdVars, services, op, ops, phase, beat, now, channel, seen>>

----------------------------------------------------------------------------
DiscoveryNext ==
    \/ \E i \in Instances :
          RegisterGrant(i) \/ DeregisterTake(i) \/ MemoryRegister(i) \/ MemoryDeregister(i) \/ Heartbeat(i)
    \/ RegisterPut \/ RegisterUndo \/ RegisterRecord \/ DeregisterRevoke \/ DeregisterDelete
    \/ \E l \in Leases : LeaseExpires(l)
    \/ \E g \in Keepers :
          KeeperTick(g) \/ KeeperGrant(g) \/ KeeperPut(g) \/ KeeperUndo(g) \/ KeeperRecord(g) \/ KeeperDone(g)
    \/ CloseCancel \/ CloseRevoke \/ CloseReturns \/ MemoryTick
    \/ WatchStart \/ WatchOpen \/ WatchEvent \/ WatchRefresh \/ WatchRead \/ WatchCancelled

\* Goroutines go on, tickers tick, the reader of a watch reads, and etcd drops
\* the leases that nobody renews.
DiscoveryFairness ==
    /\ WF_discoveryVars(RegisterPut \/ RegisterUndo \/ RegisterRecord \/ DeregisterRevoke \/ DeregisterDelete)
    /\ \A g \in Keepers :
        /\ WF_discoveryVars((keeper[g].lease \notin live \/ phase # "open") /\ KeeperTick(g))
        /\ WF_discoveryVars(KeeperGrant(g) \/ KeeperPut(g) \/ KeeperUndo(g) \/ KeeperRecord(g))
    /\ SF_discoveryVars(\E g \in Keepers : KeeperDone(g))
    /\ \A l \in Leases : WF_discoveryVars(~Kept(l) /\ op.lease # l /\ LeaseExpires(l))
    /\ WF_discoveryVars(CloseRevoke \/ CloseReturns)
    /\ WF_discoveryVars(WatchOpen)
    /\ WF_discoveryVars(WatchEvent)
    /\ WF_discoveryVars(WatchRefresh)
    /\ WF_discoveryVars(WatchRead)
    /\ WF_discoveryVars(phase # "open" /\ WatchCancelled)

DiscoverySpec == DiscoveryInit /\ [][DiscoveryNext]_discoveryVars /\ DiscoveryFairness

\* Every lost lease is followed by a new registration: a keepAlive goroutine
\* whose lease is gone writes its key under a new one in the end, whichever of
\* its Grant, Put and Revoke calls fail on the way and whatever the goroutines of
\* other calls do, unless the instance is deregistered or the registry closes.
\* After Close every key is gone, those too that a goroutine wrote while Close was
\* collecting the leases.  And a watcher whom no change escaped has the current
\* list in the end.  Not claimed: that the key stays (a Put that fails after etcd
\* has carried it out is given back with the key, while the old lease may still
\* be renewed), or that a Deregister is final (KeeperRecord may undo it).
DiscoveryConverges ==
    /\ \A g \in Keepers :
        keeper[g].at = "wait" /\ keeper[g].lease \notin live
          ~> (keeper[g].at = "record" \/ keeper[g].inst \notin services \/ phase # "open")
    /\ phase = "closed" ~> \A i \in Instances : key[i] = 0
    /\ watch = "watching" ~> (seen = GetInstances \/ missed \/ watch = "ended")

\* etcd.go:196 says that every change pushes the latest list to the watcher.
WatchReportsChanges == registry = "etcd" /\ watch = "watching" ~> (seen = GetInstances \/ watch = "ended")
=============================================================================
