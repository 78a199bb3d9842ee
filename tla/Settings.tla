-------------------------------- MODULE Settings --------------------------------
(***************************************************************************)
(* What the user has chosen and where it is kept: config.json              *)
(* (src/core/config.cpp), in the format of today or with the one legacy    *)
(* switch it replaced, and the legacy autoload file (src/core/lkm.cpp).    *)
(* The daemon runs one command at a time; config gen runs in a process of  *)
(* its own. Any of them may fail or be killed at every step.               *)
(***************************************************************************)
CONSTANTS
    Daemon,         \* the process that serves the commands
    Generators,     \* the processes that run config gen
    Nobody,         \* the lock is free
    Documents,      \* the config.json an earlier version or the user left
    Patches         \* what config merge-json is called with

\* Of the four projections two stand for all. version says whether the number is 2 or
\* more, mode is the removed mount_hide_mode, policy one of two policies.
Projections == {"mount", "maps"}
Features == Projections \cup {"selinux", "stealth", "debug", "autoload", "policy"}
Keys == Features \cup {"version", "hidexattr", "mode"}

ASSUME SettingsAssumption ==
    /\ Daemon \notin Generators /\ Nobody \notin Generators \cup {Daemon}
    /\ \A d \in Documents \cup Patches : DOMAIN d \subseteq Keys /\ d \in [DOMAIN d -> BOOLEAN]

VARIABLES
    config,     \* config.json: its documents, none when it is missing or does not parse
    broken,     \* it is there and does not parse
    legacy,     \* the legacy autoload file says on
    lock,       \* the process that holds config.json.lock
    pc,         \* where each process is
    op,         \* the command each process runs
    draft       \* the file it is about to put in the place of the old one

stores == <<config, broken, legacy>>
local == <<pc, op, draft>>
vars == <<stores, lock, local>>

Processes == Generators \cup {Daemon}
Gen == [kind |-> "gen"]
ConfigCommands ==
    [kind : {"merge"}, patch : Patches] \cup [kind : {"policy", "autoload"}, on : BOOLEAN]
Commands == {Gen} \cup ConfigCommands

Without(f, ks) == [k \in DOMAIN f \ ks |-> f[k]]
Over(f, g) == [k \in DOMAIN f \cup DOMAIN g |-> IF k \in DOMAIN f THEN f[k] ELSE g[k]]
Only(key, value) == [k \in {key} |-> value]
json_bool_or(root, key, fallback) == IF key \in DOMAIN root THEN root[key] ELSE fallback

default_config_json ==
    [k \in Features \cup {"version"} |-> k \in {"version", "stealth"}]

-------------------------------------------------------------------------------
\* What a document means.

has_split_features(root) ==
    json_bool_or(root, "version", FALSE) \/ DOMAIN root \cap Projections # {}

\* The members of Config when nothing is read.
Config == [k \in Features |-> k = "stealth"]

apply_config_document(root) ==
    LET read == [k \in Features |-> json_bool_or(root, k, Config[k])]
        switch == json_bool_or(root, "hidexattr", FALSE)
    IN  IF has_split_features(root) THEN read
        ELSE [k \in Features |->
                CASE k \in Projections -> switch
                  [] k \in {"selinux", "stealth"} -> read[k] \/ switch
                  [] OTHER -> read[k]]

\* The legacy file counts as long as config.json does not say.
M_get_autoload(docs, old) == old \/ \E d \in docs : "autoload" \in DOMAIN d /\ d["autoload"]
get_autoload(docs, old) ==
    IF \E d \in docs : "autoload" \in DOMAIN d THEN \E d \in docs : d["autoload"] ELSE old

\* The settings in effect, as the commands read them.
InEffect(docs, old) ==
    LET read == IF docs = {} THEN Config ELSE apply_config_document(CHOOSE d \in docs : TRUE)
    IN  [read EXCEPT !["autoload"] = get_autoload(docs, old)]

-------------------------------------------------------------------------------
\* What a command makes of a document.

\* The part of merge_config_json that gives each feature a key of its own.
M_migrated(root) == Over(Without(root, {"hidexattr"}), Only("version", TRUE))
migrated(root) ==
    LET switch == json_bool_or(root, "hidexattr", FALSE)
        own == [k \in Projections \cup {"version", "selinux", "stealth"} |->
                  \/ k = "version" \/ switch
                  \/ k = "selinux" /\ json_bool_or(root, k, FALSE)
                  \/ k = "stealth" /\ json_bool_or(root, k, TRUE)]
    IN  Over(own, Without(root, {"hidexattr"}))

merge_config_json(root, patch) ==
    LET base == IF ~has_split_features(root) /\ has_split_features(patch)
                THEN migrated(root) ELSE root
    IN  Without(Over(patch, base), {"mode"})

update_config(o, root) ==
    CASE o.kind = "gen" -> default_config_json
      [] o.kind = "merge" -> merge_config_json(root, o.patch)
      [] o.kind \in {"policy", "autoload"} -> Over(Only(o.kind, o.on), root)

\* Patches of the removed key and of the one with a command of its own are refused.
Accepted(o) == o.kind = "merge" => {"mode", "autoload"} \cap DOMAIN o.patch = {}

\* The documents an update may start from: the defaults when there is no file, and
\* nothing when the file is there and cannot be used.
prepare_config_input ==
    IF config = {} /\ ~broken THEN {default_config_json} ELSE config

-------------------------------------------------------------------------------
Init ==
    /\ config \in {{}} \cup {{d} : d \in Documents}
    /\ broken \in IF config = {} THEN BOOLEAN ELSE {FALSE}
    /\ legacy \in BOOLEAN
    /\ lock = Nobody
    /\ pc = [w \in Processes |-> "idle"]
    /\ op = [w \in Processes |-> Gen] /\ draft = [w \in Processes |-> {}]

Goto(w, step) == pc' = [pc EXCEPT ![w] = step]
\* The command is over, and its memory of no use.
Done(w) ==
    /\ Goto(w, "idle")
    /\ op' = [op EXCEPT ![w] = Gen] /\ draft' = [draft EXCEPT ![w] = {}]
Release(w) == lock' = IF lock = w THEN Nobody ELSE lock

\* The commands a process can be given: main keeps config gen out of the daemon.
Given(w) == IF w = Daemon THEN ConfigCommands ELSE {Gen}

M_ConfigFileLock(w) == w \in Processes
ConfigFileLock(w) == w \in Processes /\ lock = Nobody

\* A command that updates config.json takes the lock.
Begin(w) ==
    /\ pc[w] = "idle" /\ ConfigFileLock(w)
    /\ \E o \in Given(w) :
         Accepted(o) /\ op' = [op EXCEPT ![w] = o]
    /\ lock' = w /\ Goto(w, "locked")
    /\ UNCHANGED <<stores, draft>>

\* It reads the file, if it is to keep any of it, and prepares the new one.
Prepare(w) ==
    /\ pc[w] = "locked"
    /\ \E root \in IF op[w] = Gen THEN {default_config_json} ELSE prepare_config_input :
         draft' = [draft EXCEPT ![w] = {update_config(op[w], root)}]
    /\ Goto(w, "config")
    /\ UNCHANGED <<stores, lock, op>>

\* rename, which write_file_atomic ends with, and the lock is released.
Rename(w) ==
    /\ pc[w] = "config"
    /\ config' = draft[w] /\ broken' = FALSE
    /\ Release(w)
    /\ IF op[w].kind = "autoload" THEN Goto(w, "legacy") /\ UNCHANGED <<op, draft>> ELSE Done(w)
    /\ UNCHANGED legacy

\* set_autoload removes the legacy file when the setting is in config.json.
RemoveLegacy(w) ==
    /\ pc[w] = "legacy"
    /\ legacy' = FALSE /\ Done(w)
    /\ UNCHANGED <<config, broken, lock>>

\* A step fails, or the process is killed: what it has written is a temporary file,
\* and the lock goes with it.
Fail(w) ==
    /\ pc[w] # "idle"
    /\ Release(w) /\ Done(w)
    /\ UNCHANGED stores

Next ==
    \E w \in Processes : Begin(w) \/ Prepare(w) \/ Rename(w) \/ RemoveLegacy(w) \/ Fail(w)

Spec == Init /\ [][Next]_vars

-------------------------------------------------------------------------------
\* The features a command is about. Before the split the one switch drives five, and
\* with a lower version it does again.
Switches(patch) ==
    "hidexattr" \in DOMAIN patch \/ ("version" \in DOMAIN patch /\ ~patch["version"])
Named(o) ==
    CASE o.kind = "gen" -> Features
      [] o.kind = "merge" ->
           IF Switches(o.patch)
           THEN DOMAIN o.patch \cup Projections \cup {"selinux", "stealth"} ELSE DOMAIN o.patch
      [] o.kind \in {"policy", "autoload"} -> {o.kind}

\* The variables hold values of their kinds, and a config.json is in preparation only in
\* the process that holds its lock.
TypeOK ==
    /\ \A d \in config : config = {d} /\ DOMAIN d \subseteq Keys /\ d \in [DOMAIN d -> BOOLEAN]
    /\ broken \in BOOLEAN /\ (broken => config = {}) /\ legacy \in BOOLEAN
    /\ lock \in Processes \cup {Nobody}
    /\ op \in [Processes -> Commands] /\ DOMAIN draft = Processes
    /\ \A w \in Processes : pc[w] \in {"locked", "config"} <=> lock = w

\* There is no config.json, and autoload is on for the legacy file alone.
Unmigrated == config = {} /\ ~broken /\ legacy

\* A step changes the effect of no setting its command does not name: an update keeps
\* the others as they are, also when it migrates the legacy switch or moves the autoload
\* setting to config.json, and none is lost to one that runs at the same time. The one
\* exception is autoload in the update that starts a missing file, from defaults that say
\* no (LegacyStaysHonored). Nor does an update replace a file that does not parse, which
\* the user may still repair; only config gen does that.
OnlyTheNamed == [][
    /\ \A k \in Features : InEffect(config', legacy')[k] # InEffect(config, legacy)[k]
         => \E w \in Processes :
              Rename(w) /\ (k \in Named(op[w]) \/ (k = "autoload" /\ Unmigrated))
    /\ broken /\ ~broken' => \E g \in Generators : Rename(g)]_vars

\* "An explicit legacy setting remains honored" (lkm.cpp:479): autoload goes off by a
\* command about it. TLC refutes this of an update that starts a missing file.
LegacyStaysHonored == [][
    get_autoload(config, legacy) /\ ~get_autoload(config', legacy')
      => \E w \in Processes : Rename(w) /\ "autoload" \in Named(op[w])]_vars

\* What a command saved is in effect at once, whatever format the file had. Only a file
\* that keeps the legacy switch may go on overriding what the switch implied.
SavedIsInEffect == [][
    \A w \in Processes : Rename(w) /\ op[w].kind # "gen" =>
      LET after == InEffect(config', legacy')
          said == IF op[w].kind = "merge" THEN op[w].patch ELSE Only(op[w].kind, op[w].on)
      IN  \A k \in DOMAIN said \cap Features :
            after[k] = said[k] \/
              (k \in {"selinux", "stealth"} /\ after[k]
                 /\ \E d \in config' : ~has_split_features(d) /\ d["hidexattr"])]_vars

===============================================================================
