--------------------------- MODULE MCConfiguration ---------------------------
(* An empty file, two others and one that cannot be parsed; environments   *)
(* that override, repeat and contradict each other.                        *)
EXTENDS Configuration

MCFileTrees == {[p \in {} |-> 0],
                [p \in {<<"db", "host">>, <<"db", "port">>, <<"debug">>} |->
                    CASE p = <<"db", "host">> -> [type |-> "string", text |-> "h"]
                      [] p = <<"db", "port">> -> [type |-> "int", text |-> "1"]
                      [] OTHER -> [type |-> "bool", text |-> "true"]],
                [p \in {<<"log", "level">>} |-> [type |-> "string", text |-> "l"]]}
MCEnvironments == {<<>>,
                   <<[keys |-> <<"db", "port">>, text |-> "1"], [keys |-> <<"debug">>, text |-> "TRUE"]>>,
                   <<[keys |-> <<"db", "host">>, text |-> "g"], [keys |-> <<"db", "host">>, text |-> "true"]>>,
                   <<[keys |-> <<"db">>, text |-> "d"], [keys |-> <<"db", "port">>, text |-> "2"]>>,
                   <<[keys |-> <<"db", "port">>, text |-> "2"], [keys |-> <<"db">>, text |-> "d"]>>}
=============================================================================
