----------------------------- MODULE Facilities -----------------------------
(***************************************************************************)
(* What the framework offers an application beside its requests: calls to  *)
(* services with load balancing and retries, caches, message brokers, the  *)
(* cron scheduler, delay queues, rotated log files and configuration.      *)
(* They share no state, so a behaviour exercises one of them, chosen by    *)
(* part, and leaves the others as they start: every behaviour of every     *)
(* part is checked, and none of their product.                             *)
(***************************************************************************)
EXTENDS ServiceCalls, Cache, Brokers, CronScheduler, DelayQueue, LogRotator, Configuration

VARIABLE part

facilityVars == <<part, callVars, cacheVars, brokerVars, cronVars, delayVars, rotatorVars, configVars>>

FacilitiesInit ==
    /\ part \in {"calls", "cache", "broker", "cron", "delay", "rotator", "config"}
    /\ CallsInit /\ CacheInit /\ BrokerInit
    /\ CronInit /\ DelayInit /\ RotatorInit /\ ConfigInit
    \* the parts at rest start in one way only
    /\ part # "calls" => balancer = "random"
    /\ part # "cache" => cache = "memory"
    /\ part # "broker" => broker = "kafka"
    /\ part # "delay" => backend = "memory"
    /\ part # "rotator" => ~inDirectory /\ handle = "open" /\ diskSize = 0
    /\ part # "config" => file = Empty /\ environ = <<>>

FacilitiesNext ==
    \/ part = "calls"   /\ CallsNext   /\ UNCHANGED <<part, cacheVars, brokerVars, cronVars, delayVars, rotatorVars, configVars>>
    \/ part = "cache"   /\ CacheNext   /\ UNCHANGED <<part, callVars, brokerVars, cronVars, delayVars, rotatorVars, configVars>>
    \/ part = "broker"  /\ BrokerNext  /\ UNCHANGED <<part, callVars, cacheVars, cronVars, delayVars, rotatorVars, configVars>>
    \/ part = "cron"    /\ CronNext    /\ UNCHANGED <<part, callVars, cacheVars, brokerVars, delayVars, rotatorVars, configVars>>
    \/ part = "delay"   /\ DelayNext   /\ UNCHANGED <<part, callVars, cacheVars, brokerVars, cronVars, rotatorVars, configVars>>
    \/ part = "rotator" /\ RotatorNext /\ UNCHANGED <<part, callVars, cacheVars, brokerVars, cronVars, delayVars, configVars>>
    \/ part = "config"  /\ ConfigNext  /\ UNCHANGED <<part, callVars, cacheVars, brokerVars, cronVars, delayVars, rotatorVars>>

FacilitiesSpec == FacilitiesInit /\ [][FacilitiesNext]_facilityVars

FacilitiesTypeOK == CronTypeOK /\ DelayTypeOK /\ RotatorTypeOK
=============================================================================
