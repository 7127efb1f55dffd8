---------------------------- MODULE MCBackground ----------------------------
(* One instance of a service, registered and deregistered up to twice while *)
(* two calls to etcd fail, or followed by a watcher while there are two      *)
(* calls and failures together; three logs in batches of two; two requests  *)
(* when the signal comes.  Beside them the helpers of mapreduce, on sources  *)
(* of up to four items with two workers.                                    *)
EXTENDS Background, MapReduce

VARIABLE group

\* Limits only what the application and its environment do: no fair action is
\* cut off.
Scope == watch' = "none" \/ ops' + faults' <= 2

MCInit ==
    /\ group \in {"background", "helpers"}
    /\ BackgroundInit /\ MapReduceInit
    /\ group = "helpers" => part = "server"
    \* at rest, a call beyond its capacity, of which Terminates promises nothing
    /\ group # "helpers" => helper = "MapReduce" /\ len = MaxLen

MCNext ==
    \/ group = "background" /\ BackgroundNext /\ Scope /\ UNCHANGED <<group, mapReduceVars>>
    \/ group = "helpers" /\ MapReduceNext /\ UNCHANGED <<group, backgroundVars>>

\* In mapreduce runnable goroutines run, and the caller's functions return.  The
\* background at rest enables nothing its fairness speaks of.
MCSpec ==
    /\ MCInit /\ [][MCNext]_<<group, backgroundVars, mapReduceVars>>
    /\ BackgroundFairness
    /\ WF_mapReduceVars(group = "helpers" /\ Caller)
    /\ WF_mapReduceVars(group = "helpers" /\ Close)
    /\ \A i \in 1..MaxLen : WF_mapReduceVars(group = "helpers" /\ Worker(i))
=============================================================================
