---------------------------- MODULE MCFacilities ----------------------------
(* Three instances to choose from, one without a weight and two whose      *)
(* virtual nodes collide; two keys in a cache for one; three messages; one *)
(* schedule of each kind; a delayed message without delay, one with a time *)
(* of its own, and one with both and a colon in its body; two generators.  *)
EXTENDS Facilities, MCConfiguration, Snowflake

VARIABLE group

\* The facilities, and beside them two generators of IDs.
MCInit ==
    /\ group \in {"facilities", "ids"}
    /\ FacilitiesInit /\ SnowflakeInit
    /\ group = "ids" => part = "cron"
    /\ group # "ids" => wallClock = [i \in Instances |-> 0]

MCNext ==
    \/ group = "facilities" /\ FacilitiesNext /\ UNCHANGED <<group, snowflakeVars>>
    \/ group = "ids" /\ SnowflakeNext /\ UNCHANGED <<group, facilityVars>>

MCSpec == MCInit /\ [][MCNext]_<<group, facilityVars, snowflakeVars>>

MCNodeID == [i \in Instances |-> IF i = "i1" THEN 0 ELSE 1]

MCWeight == [n \in Nodes |-> CASE n = "n1" -> 0 [] n = "n2" -> 1 [] n = "n3" -> 2]
MCPositions == [n \in Nodes |-> CASE n = "n1" -> {0, 3} [] n = "n2" -> {1, 3} [] n = "n3" -> {2}]

MCSchedules == {[kind |-> "interval", every |-> 1], [kind |-> "daily", every |-> 1], [kind |-> "cron", every |-> 0]}
MCMessages == {[id |-> 1, topic |-> "a", delay |-> 0, exec |-> 0, body |-> <<"x">>],
               [id |-> 3, topic |-> "a", delay |-> 0, exec |-> 2, body |-> <<"x">>],
               [id |-> 2, topic |-> "a", delay |-> 1, exec |-> 1, body |-> <<"x", "y">>]}
=============================================================================
