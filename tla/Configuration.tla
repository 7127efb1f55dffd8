---------------------------- MODULE Configuration ----------------------------
(***************************************************************************)
(* config: sources merged into a Config, the typed reads, and the global   *)
(* defaultConfig that Init and LoadApp set while other goroutines read it. *)
(*                                                                         *)
(* A tree of nested maps is a function from the paths of its leaves to     *)
(* values, a value its Go type and its text.  Every Config has the sources *)
(* of LoadApp, a file and the environment, either of which may change      *)
(* between two loads.                                                      *)
(***************************************************************************)
EXTENDS Integers, Sequences

KeyPaths == INSTANCE SequencesExt

CONSTANTS
    FileTrees,      \* contents of the file that can be parsed
    Unreadable,     \* a file that is missing or cannot be parsed
    Environments,   \* lists of [keys, text], in the order of os.Environ
    Loaders,        \* goroutines that call Init, LoadApp and Load
    MaxConfigs,     \* bound: Configs created
    MaxLoads,       \* bound: calls of Load
    MaxEdits        \* bound: changes of the file and the environment

\* Where a value is in the nested maps: the keys from the top, at least one.
Paths == Seq(STRING) \ {<<>>}

ASSUME ConfigAssumption ==
    /\ \A f \in FileTrees : DOMAIN f \subseteq Paths
    /\ Unreadable \notin FileTrees
    /\ Environments \subseteq Seq([keys : Paths, text : STRING])
    /\ MaxConfigs \in Nat /\ MaxLoads \in Nat /\ MaxEdits \in Nat

VARIABLES
    file, environ,  \* as they are now
    confs,          \* the Configs: tree, and for their last Load the tree
                    \* before it and what the sources gave
    default,        \* defaultConfig, 0 for nil
    once,           \* configOnce: "new", "running" or "done"
    loader, loads, edits

configVars == <<file, environ, confs, default, once, loader, loads, edits>>

Empty == [p \in {} |-> 0]
NewConfig == [tree |-> Empty, old |-> Empty, file |-> Empty, env |-> <<>>, loaded |-> FALSE]
Resting == [at |-> "idle", by |-> "none", conf |-> 0, failed |-> FALSE]

ConfigInit ==
    /\ file \in FileTrees \union {Unreadable} /\ environ \in Environments
    /\ confs = <<>> /\ default = 0 /\ once = "new"
    /\ loader = [l \in Loaders |-> Resting] /\ loads = 0 /\ edits = 0

----------------------------------------------------------------------------
(* Trees *)

\* merge goes through the top level of data only: a section replaces the whole
\* section of the same name.
Merge(tree, data) ==
    LET sections == {Head(p) : p \in DOMAIN data}
    IN  [p \in {p \in DOMAIN tree : Head(p) \notin sections} \union DOMAIN data |->
            IF p \in DOMAIN data THEN data[p] ELSE tree[p]]

\* setNested goes down the keys but the last; where a value is in the way it
\* stays at the level it has reached.  What was below the key it writes is gone.
SetNested(tree, keys, text) ==
    LET level[k \in 0..(Len(keys) - 1)] ==
            IF k = 0 THEN <<>>
            ELSE IF Append(level[k - 1], keys[k]) \in DOMAIN tree THEN level[k - 1] ELSE Append(level[k - 1], keys[k])
        path == Append(level[Len(keys) - 1], keys[Len(keys)])
    IN  [p \in {p \in DOMAIN tree : ~KeyPaths!IsPrefix(path, p)} \union {path} |->
            IF p = path THEN [type |-> "string", text |-> text] ELSE tree[p]]

\* EnvSource.Load
EnvTree(env) ==
    LET tree[k \in 0..Len(env)] == IF k = 0 THEN Empty ELSE SetNested(tree[k - 1], env[k].keys, env[k].text)
    IN  tree[Len(env)]

\* Get follows a dotted path: to a value, a map, or nothing.
Nothing == [type |-> "nil", text |-> ""]
Get(tree, p) ==
    IF p \in DOMAIN tree THEN tree[p]
    ELSE IF \E q \in DOMAIN tree : KeyPaths!IsPrefix(p, q) THEN [type |-> "map", text |-> "map"] ELSE Nothing

GetString(tree, p, dflt) == IF Get(tree, p) = Nothing THEN dflt ELSE Get(tree, p).text

\* A value of another type is 0, not the default.
GetInt(tree, p, dflt) ==
    LET v == Get(tree, p) IN IF v = Nothing THEN dflt ELSE IF v.type = "int" THEN v.text ELSE "0"

\* The texts with strings.ToLower(v) == "true" || v == "1".
TrueTexts == {"1", "true", "True", "TRUE", "tRUE", "trUE", "truE", "TrUE", "TruE", "TRuE", "TRUe", "tRuE", "trUe", "tRUe",
              "TRue", "TrUe", "tRue"}

GetBool(tree, p, dflt) ==
    LET v == Get(tree, p) IN IF v = Nothing THEN dflt ELSE v.type \in {"bool", "string"} /\ v.text \in TrueTexts

----------------------------------------------------------------------------
(* Init, LoadApp and Load *)

Begin(l, at, by, conf) ==
    /\ loader[l] = Resting /\ loads < MaxLoads /\ loads' = loads + 1
    /\ loader' = [loader EXCEPT ![l] = [at |-> at, by |-> by, conf |-> conf, failed |-> FALSE]]

\* Init publishes the Config before it is loaded,
InitOnce(l) ==
    /\ once = "new" /\ once' = "running" /\ Len(confs) < MaxConfigs
    /\ confs' = Append(confs, NewConfig) /\ default' = Len(confs) + 1
    /\ Begin(l, "init", "Init", Len(confs) + 1)
    /\ UNCHANGED <<file, environ, edits>>

\* and loads the one that is published by then.
InitLoads(l) ==
    /\ loader[l].at = "init"
    /\ loader' = [loader EXCEPT ![l].at = "lock", ![l].conf = default]
    /\ UNCHANGED <<file, environ, confs, default, once, loads, edits>>

LoadApp(l) ==
    /\ Len(confs) < MaxConfigs
    /\ confs' = Append(confs, NewConfig)
    /\ Begin(l, "lock", "LoadApp", Len(confs) + 1)
    /\ UNCHANGED <<file, environ, default, once, edits>>

\* The application loads the default configuration again.
Reload(l) ==
    /\ default # 0 /\ Begin(l, "lock", "Load", default)
    /\ UNCHANGED <<file, environ, confs, default, once, edits>>

Locked(c) == \E l \in Loaders : loader[l].conf = c /\ loader[l].at \in {"file", "env"}

\* Mutant: Load without the lock.
MutLoadLock(l) ==
    LET c == loader[l].conf IN
    /\ loader[l].at = "lock"
    /\ loader' = [loader EXCEPT ![l].at = "file"]
    /\ confs' = [confs EXCEPT ![c].old = confs[c].tree]
    /\ UNCHANGED <<file, environ, default, once, loads, edits>>

LoadLock(l) ==
    LET c == loader[l].conf IN
    /\ loader[l].at = "lock" /\ ~Locked(c)
    /\ loader' = [loader EXCEPT ![l].at = "file"]
    /\ confs' = [confs EXCEPT ![c].old = confs[c].tree]
    /\ UNCHANGED <<file, environ, default, once, loads, edits>>

\* A source that fails is skipped.
LoadFileSource(l) ==
    LET c == loader[l].conf
        data == IF file = Unreadable THEN Empty ELSE file
    IN
    /\ loader[l].at = "file"
    /\ confs' = [confs EXCEPT ![c].tree = Merge(@, data), ![c].file = data]
    /\ loader' = [loader EXCEPT ![l].at = "env", ![l].failed = (file = Unreadable)]
    /\ UNCHANGED <<file, environ, default, once, loads, edits>>

LoadEnvSource(l) ==
    LET c == loader[l].conf IN
    /\ loader[l].at = "env"
    /\ confs' = [confs EXCEPT ![c].tree = Merge(@, EnvTree(environ)), ![c].env = environ, ![c].loaded = TRUE]
    /\ loader' = [loader EXCEPT ![l].at = "return"]
    /\ UNCHANGED <<file, environ, default, once, loads, edits>>

\* LoadApp publishes what it has loaded without an error; Init drops the error.
LoadReturns(l) ==
    /\ loader[l].at = "return"
    /\ default' = IF loader[l].by = "LoadApp" /\ ~loader[l].failed THEN loader[l].conf ELSE default
    /\ once' = IF loader[l].by = "Init" THEN "done" ELSE once
    /\ loader' = [loader EXCEPT ![l] = Resting]
    /\ UNCHANGED <<file, environ, confs, loads, edits>>

Edit ==
    /\ edits < MaxEdits /\ edits' = edits + 1
    /\ \/ file' \in (FileTrees \union {Unreadable}) \ {file} /\ UNCHANGED environ
       \/ environ' \in Environments \ {environ} /\ UNCHANGED file
    /\ UNCHANGED <<confs, default, once, loader, loads>>

ConfigNext ==
    \/ Edit
    \/ \E l \in Loaders :
          InitOnce(l) \/ InitLoads(l) \/ LoadApp(l) \/ Reload(l) \/ LoadLock(l) \/ LoadFileSource(l) \/ LoadEnvSource(l) \/ LoadReturns(l)

----------------------------------------------------------------------------
\* No name in the environment leads through the name of another value.
Unambiguous(env) == \A i, j \in 1..Len(env) : KeyPaths!IsPrefix(env[i].keys, env[j].keys) => env[i].keys = env[j].keys

\* A path of a source names its section, the key at the top level.
Names(paths, p) == \E q \in paths : Head(q) = Head(p)
EnvPaths(c) == {c.env[i].keys : i \in 1..Len(c.env)}

\* What a path should be: the last text the environment gives it, or else the
\* file's value, if the file has its section, or else what it was before this Load.
Layered(c, p) ==
    LET given == {i \in 1..Len(c.env) : c.env[i].keys = p}
    IN  IF given # {} THEN [type |-> "string", text |-> c.env[CHOOSE i \in given : \A j \in given : j <= i].text]
        ELSE IF Names(DOMAIN c.file, p) THEN Get(c.file, p)
        ELSE Get(c.old, p)

Leaves == (UNION {DOMAIN f : f \in FileTrees}) \union (UNION {{e[i].keys : i \in 1..Len(e)} : e \in Environments})

\* No load is seen half done: an unlocked Config is what it was before its last
\* Load, with the file of that Load and then its environment merged into it.
MergedInOrder ==
    \A c \in 1..Len(confs) : ~Locked(c) /\ confs[c].loaded =>
        confs[c].tree = Merge(Merge(confs[c].old, confs[c].file), EnvTree(confs[c].env))

\* The default is a Config that was never loaded only while Init is on its way.
EarlyOnlyInInit == default # 0 /\ ~confs[default].loaded => once = "running"

\* Nobody reads a configuration half merged, whoever calls Init, LoadApp and Load
\* and whatever changes or fails in between: an unlocked Config is its last Load,
\* source by source, and a path is read from the last source that gives it.  Left
\* out are the paths whose section the environment replaces, which FileValuesKept
\* is about.  The default is a Config that was never loaded only while Init is on
\* its way.
ConfigLayered ==
    /\ MergedInOrder /\ EarlyOnlyInInit
    /\ \A c \in 1..Len(confs) : ~Locked(c) /\ confs[c].loaded /\ Unambiguous(confs[c].env) =>
          \A p \in Leaves :
            (Names(EnvPaths(confs[c]), p) => p \in EnvPaths(confs[c])) => Get(confs[c].tree, p) = Layered(confs[c], p)

\* What the comment of LoadApp says, that the environment is laid over the file: a
\* value of the file that the environment does not give is read as it is there.
FileValuesKept ==
    \A c \in 1..Len(confs) : ~Locked(c) /\ confs[c].loaded =>
        \A p \in DOMAIN confs[c].file :
            LET tree == confs[c].tree value == confs[c].file[p] IN
            \/ \E q \in EnvPaths(confs[c]) : KeyPaths!IsPrefix(q, p) \/ KeyPaths!IsPrefix(p, q)
            \/ value.type = "string" /\ GetString(tree, p, "dflt") = value.text
            \/ value.type = "int" /\ GetInt(tree, p, "dflt") = value.text
            \/ value.type = "bool" /\ (GetBool(tree, p, FALSE) <=> value.text = "true")

ConfigSpec == ConfigInit /\ [][ConfigNext]_configVars
=============================================================================
