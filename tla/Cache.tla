-------------------------------- MODULE Cache --------------------------------
(***************************************************************************)
(* The caches behind the Cache interface: cache/memory, a map under a lock *)
(* with a size limit, a cleanup goroutine and lazy expiry, and             *)
(* cache/redis, where Redis expires keys and Clear deletes what a scan     *)
(* finds, one by one.  The data they cache changes: a writer updates it,   *)
(* then deletes the key.  A reader calls GetOrSet, which loads between a   *)
(* Get and a Set.                                                          *)
(***************************************************************************)
EXTENDS Integers, FiniteSets

CONSTANTS
    CacheKeys,
    Readers,        \* goroutines in GetOrSet
    CacheSize, DefaultExpiration,   \* Config (CacheSize: MaxSize); 0 for none
    Expirations,    \* the expiration arguments of the calls; 0 for none
    MaxVersion,     \* bound: updates of the data behind a key
    MaxCacheTime    \* bound: the clock

ASSUME CacheAssumption ==
    /\ CacheSize \in Nat /\ DefaultExpiration \in Nat /\ Expirations \subseteq Nat
    /\ MaxVersion \in Nat /\ MaxCacheTime \in Nat

VARIABLES
    cache,      \* "memory" or "redis"
    cacheTime,  \* the clock
    items,      \* the entries: value (a version), expiration (0: never)
    truth,      \* the version of the data behind each key
    settled,    \* the version whose Delete has finished
    deleting,   \* keys updated, not deleted yet
    reader,     \* each reader's step, key and loaded value
    overlap,    \* history: keys stored from a load that began before their Delete
    clearing    \* Redis: the keys Clear has still to delete

cacheVars == <<cache, cacheTime, items, truth, settled, deleting, reader, overlap, clearing>>

NoRead == [at |-> "idle", key |-> "none", val |-> 0]

CacheInit ==
    /\ cache \in {"memory", "redis"}
    /\ cacheTime = 0 /\ items = [k \in {} |-> [val |-> 0, exp |-> 0]]
    /\ truth = [k \in CacheKeys |-> 1] /\ settled = [k \in CacheKeys |-> 1]
    /\ deleting = {} /\ reader = [r \in Readers |-> NoRead]
    /\ overlap = {} /\ clearing = {}

----------------------------------------------------------------------------
ItemExpired(i) == i.exp # 0 /\ cacheTime > i.exp

\* Get, Exists and Count see what is not expired.
Found(k) == k \in DOMAIN items /\ ~ItemExpired(items[k])

Removed(k) == [j \in DOMAIN items \ {k} |-> items[j]]
With(f, k, v, exp) == [j \in DOMAIN f \union {k} |-> IF j = k THEN [val |-> v, exp |-> exp] ELSE f[j]]

\* deleteOldest: a smallest expiration goes, so entries that never expire go first.
Oldest == {k \in DOMAIN items : \A j \in DOMAIN items : items[k].exp <= items[j].exp}

\* Set makes room in a full map, even for a key that is in it.
Evicted(k) ==
    IF cache = "memory" /\ CacheSize > 0 /\ Cardinality(DOMAIN items) >= CacheSize
    THEN {Removed(o) : o \in Oldest} ELSE {items}

SetExpiration(e) ==
    IF e > 0 THEN cacheTime + e
    ELSE IF cache = "memory" /\ DefaultExpiration > 0 THEN cacheTime + DefaultExpiration ELSE 0

Put(k, v, e) == \E f \in Evicted(k) : items' = With(f, k, v, SetExpiration(e))

----------------------------------------------------------------------------
(* GetOrSet *)

GetOrSetGet(r, k) ==
    /\ reader[r].at = "idle" /\ ~Found(k)
    /\ reader' = [reader EXCEPT ![r] = [at |-> "load", key |-> k, val |-> 0]]
    /\ UNCHANGED <<cache, cacheTime, items, truth, settled, deleting, overlap, clearing>>

\* The function of the caller, which may fail.
GetOrSetLoad(r) ==
    /\ reader[r].at = "load"
    /\ \/ reader' = [reader EXCEPT ![r].at = "store", ![r].val = truth[reader[r].key]]
       \/ reader' = [reader EXCEPT ![r] = NoRead]
    /\ UNCHANGED <<cache, cacheTime, items, truth, settled, deleting, overlap, clearing>>

GetOrSetStore(r, e) ==
    LET k == reader[r].key v == reader[r].val IN
    /\ reader[r].at = "store"
    /\ Put(k, v, e)
    /\ overlap' = IF v < settled[k] THEN overlap \union {k} ELSE overlap \ {k}
    /\ reader' = [reader EXCEPT ![r] = NoRead]
    /\ UNCHANGED <<cache, cacheTime, truth, settled, deleting, clearing>>

----------------------------------------------------------------------------
(* Writers *)

Update(k) ==
    /\ truth[k] < MaxVersion
    /\ truth' = [truth EXCEPT ![k] = @ + 1]
    /\ deleting' = deleting \union {k}
    /\ UNCHANGED <<cache, cacheTime, items, settled, reader, overlap, clearing>>

\* Mutant: Delete only marks the entry as expired.
MutDelete(k) ==
    /\ k \in deleting
    /\ items' = [j \in DOMAIN items |-> IF j = k THEN [items[j] EXCEPT !.exp = -1] ELSE items[j]]
    /\ deleting' = deleting \ {k}
    /\ settled' = [settled EXCEPT ![k] = truth[k]]
    /\ overlap' = overlap \ {k}
    /\ UNCHANGED <<cache, cacheTime, truth, reader, clearing>>

Delete(k) ==
    /\ k \in deleting
    /\ items' = Removed(k)
    /\ deleting' = deleting \ {k}
    /\ settled' = [settled EXCEPT ![k] = truth[k]]
    /\ overlap' = overlap \ {k}
    /\ UNCHANGED <<cache, cacheTime, truth, reader, clearing>>

\* Set of a writer that holds the current version.
Set(k, e) ==
    /\ k \notin deleting
    /\ Put(k, truth[k], e)
    /\ overlap' = overlap \ {k}
    /\ UNCHANGED <<cache, cacheTime, truth, settled, deleting, reader, clearing>>

\* SetNX knows neither the size limit nor the default expiration; a writer that
\* holds the current version uses it.
SetNX(k, e) ==
    /\ ~Found(k) /\ k \notin deleting
    /\ items' = With(items, k, truth[k], IF e > 0 THEN cacheTime + e ELSE 0)
    /\ overlap' = overlap \ {k}
    /\ UNCHANGED <<cache, cacheTime, truth, settled, deleting, reader, clearing>>

\* In memory Expire brings an entry back that expired but was not cleaned up.
Expire(k, e) ==
    /\ k \in DOMAIN items /\ (cache = "redis" => Found(k)) /\ e > 0
    /\ items' = [items EXCEPT ![k].exp = cacheTime + e]
    /\ UNCHANGED <<cache, cacheTime, truth, settled, deleting, reader, overlap, clearing>>

DeleteExpired ==
    /\ \E k \in DOMAIN items : ItemExpired(items[k])
    /\ items' = [k \in {j \in DOMAIN items : ~ItemExpired(items[j])} |-> items[k]]
    /\ UNCHANGED <<cache, cacheTime, truth, settled, deleting, reader, overlap, clearing>>

Clear ==
    /\ items # [k \in {} |-> 0] /\ clearing = {}
    /\ IF cache = "memory" THEN items' = [k \in {} |-> 0] /\ UNCHANGED clearing
       ELSE clearing' = DOMAIN items /\ UNCHANGED items
    /\ UNCHANGED <<cache, cacheTime, truth, settled, deleting, reader, overlap>>

\* A DEL of the loop, or an error that ends it.
ClearStep(k) ==
    /\ k \in clearing
    /\ \/ items' = Removed(k) /\ clearing' = clearing \ {k}
       \/ clearing' = {} /\ UNCHANGED items
    /\ UNCHANGED <<cache, cacheTime, truth, settled, deleting, reader, overlap>>

CacheTick ==
    /\ cacheTime < MaxCacheTime /\ cacheTime' = cacheTime + 1
    /\ UNCHANGED <<cache, items, truth, settled, deleting, reader, overlap, clearing>>

CacheNext ==
    \/ \E r \in Readers :
        \/ \E k \in CacheKeys : GetOrSetGet(r, k)
        \/ GetOrSetLoad(r) \/ \E e \in Expirations : GetOrSetStore(r, e)
    \/ \E k \in CacheKeys :
        \/ Update(k) \/ Delete(k) \/ ClearStep(k)
        \/ \E e \in Expirations : Set(k, e) \/ SetNX(k, e) \/ Expire(k, e)
    \/ DeleteExpired \/ Clear \/ CacheTick

\* A value that is older than the last update whose Delete has finished was
\* loaded by a GetOrSet that overlapped that Delete; nothing else serves outdated
\* data, neither eviction, nor SetNX, nor Clear, nor an entry that Expire brings
\* back.
CacheFresh == \A k \in CacheKeys : Found(k) => items[k].val >= settled[k] \/ k \in overlap
=============================================================================
