---------------------------- MODULE KasumiControl ----------------------------
(***************************************************************************)
(* The control plane of the Kasumi backend (mount/kasumi.cpp, the refresh  *)
(* of mount/backend.cpp and the commands of core/command.cpp that use it). *)
(*                                                                         *)
(*   kernel    the gate (SET_ENABLED), mapping rules and hide rules        *)
(*   files     kasumi_active and kasumi_mapping_plan, which carry the boot *)
(*             they were written in; hot_unmounted/ and the user's hides,  *)
(*             which do not                                                *)
(*   record    what the runtime record says of Kasumi's modules            *)
(*                                                                         *)
(* Commands are serial (DaemonLifecycle), but each is a series of kernel   *)
(* calls and file writes of which any may fail or be the last.             *)
(***************************************************************************)
EXTENDS Naturals, FiniteSets

CONSTANTS
    Modules,     \* installed modules, none disabled
    Paths,       \* paths a hide rule can name
    HiddenBy,    \* the paths each module hides when it is installed
    MaxBoots,    \* bound: boots of the device
    Faults       \* what may go wrong, of FaultKinds

FaultKinds ==
    {"adds",     \* a call that builds state up in the kernel, or prepares for it
     "downs",    \* a call that takes state down in the kernel
     "files",    \* a file that is written atomically, or a settings file that is read
     "markers",  \* a marker file of hot_unmounted
     "record",   \* an update of the runtime record
     "config",   \* the configuration file becomes unreadable
     "legacy",   \* a module without quiesce is not deleted after it was emptied
     "kills"}    \* a mount child dies, or the daemon with its children

ASSUME ControlAssumption ==
    /\ HiddenBy \in [Modules -> SUBSET Paths]
    /\ MaxBoots \in Nat \ {0}
    /\ Faults \subseteq FaultKinds

VARIABLES
    boot,       \* the kernel's boot identity
    conf,       \* config.json: kasumi_enabled, or unreadable
    loaded,     \* the Kasumi module is in the kernel, of the right protocol
    gate,       \* Kasumi is enabled
    rules,      \* the modules whose mapping rules are in the kernel
    hides,      \* the hide rules in the kernel
    active,     \* kasumi_active: the boot it names, 0 for none
    plan,       \* kasumi_mapping_plan: the boot it names and its modules
    hot,        \* the directory hot_unmounted
    userHides,  \* user_hide_rules.json
    record,     \* the runtime record: what it says of each module
    readable,   \* it loads and is not marked invalid
    mounted,    \* this boot's mount pass was claimed
    run,        \* the command under way, or the last one and how it ended
    damaged     \* ghost: in this boot a command was killed, state could not be taken
                \* down, or a module that was just inserted was left empty

kernel == <<loaded, gate, rules, hides>>
files == <<active, plan>>
settings == <<conf, hot, userHides>>
observed == <<record, readable>>
vars == <<boot, kernel, files, settings, observed, mounted, run, damaged>>

Commands == {"none", "apply", "load", "module-apply", "hot-mount", "hot-unmount", "mount-all",
             "unmount", "unload", "clear", "disable", "policy", "hide-add", "hide-remove"}
Places == {"idle", "config", "policy", "hides", "features", "enable", "abandon",
           "refresh", "assign", "map", "restore", "install", "hide", "commit", "configure", "gate",
           "down", "clear", "forget", "end", "rollback", "inventory", "select", "plan",
           "update", "repeal", "replace"}

\* A command: where it is, the configuration it read, the module or the
\* path it is about, whether the marker of a hot-unmounted module existed, its
\* success so far, the modules selected, those still to be installed, and where
\* deactivate() returns to.
Runs == [cmd : Commands, at : Places, on : BOOLEAN, arg : SUBSET Modules, path : SUBSET Paths,
         had : BOOLEAN, ok : BOOLEAN, sel : SUBSET Modules, todo : SUBSET Modules, back : Places]
NoRun == [cmd |-> "none", at |-> "idle", on |-> FALSE, arg |-> {}, path |-> {}, had |-> FALSE,
          ok |-> TRUE, sel |-> {}, todo |-> {}, back |-> "idle"]
Idle == run.at = "idle"
NoPlan == [boot |-> 0, ids |-> {}]

\* What the record says of one module: not of Kasumi, still to be observed, or
\* observed, with its hide rules.
Entries == [kind : {"absent", "other", "partial", "complete"}, hides : SUBSET Paths]
Entry(kind) == [kind |-> kind, hides |-> {}]
OfKasumi(m) == record[m].kind \in {"partial", "complete"}

Fault(kind) == kind \in Faults

-----------------------------------------------------------------------------
(* Reading the files.                                                      *)

\* is_active(), replayable_module_ids(), enumerate_mountable_modules().
IsActive == active = boot
Replayable == IF plan.boot = boot THEN plan.ids ELSE {}
Enumerated == Modules \ hot
Selected == Replayable \cap Enumerated

RecordedHides == UNION {record[m].hides : m \in Replayable}

\* Faulty variant: the record is trusted whether complete or not.
M_HidesAnyhow == TRUE

\* What restore_persisted_hide_rules() and update_legacy_user_hide() ask of the
\* record (read_module_hides) before they touch a hide rule.
HidesKnown ==
    \/ Replayable = {}
    \/ /\ readable
       /\ \A m \in Replayable : record[m].kind = "complete"
       /\ RecordedHides = {} \/ IsActive

-----------------------------------------------------------------------------
(* Steps of several commands.                                              *)

Begins(cmd, at, on, arg) ==
    run' = [NoRun EXCEPT !.cmd = cmd, !.at = at, !.on = on, !.arg = arg]
Goes(at) == run' = [run EXCEPT !.at = at]
Fails(at) == run' = [run EXCEPT !.at = at, !.ok = FALSE]
Reports(cmd, ok) == run' = [NoRun EXCEPT !.cmd = cmd, !.ok = ok]
Ends(ok) ==
    run' = [NoRun EXCEPT !.cmd = run.cmd, !.arg = run.arg, !.path = run.path, !.on = run.on,
                         !.ok = ok]

\* deactivate(error): its calls are at "down", "clear" and "forget".
Deactivates(back, ok) == run' = [run EXCEPT !.at = "down", !.back = back, !.ok = ok]

\* Faulty variant: a gate that stays up is no error.
M_DownIgnored ==
    /\ run.at = "down"
    /\ \/ gate' = FALSE /\ UNCHANGED damaged
       \/ Fault("downs") /\ gate' \in {gate, FALSE} /\ damaged' = TRUE
    /\ Goes("clear")
    /\ UNCHANGED <<boot, loaded, rules, hides, files, settings, observed, mounted>>

\* disable_control_state(): the gate, then the features.
Down ==
    /\ run.at = "down"
    /\ \/ gate' = FALSE /\ Goes("clear") /\ UNCHANGED damaged
       \/ Fault("downs") /\ gate' \in {gate, FALSE} /\ Fails("clear") /\ damaged' = TRUE
    /\ UNCHANGED <<boot, loaded, rules, hides, files, settings, observed, mounted>>

Clear ==
    /\ run.at = "clear"
    /\ \/ rules' = {} /\ hides' = {} /\ Goes("forget") /\ UNCHANGED damaged
       \/ Fault("downs") /\ UNCHANGED <<rules, hides>> /\ Fails("forget") /\ damaged' = TRUE
    /\ UNCHANGED <<boot, loaded, gate, files, settings, observed, mounted>>

\* invalidate_active_state()
Forget ==
    /\ run.at = "forget"
    /\ active' = 0
    /\ Goes(run.back)
    /\ UNCHANGED <<boot, kernel, plan, settings, observed, mounted, damaged>>

End ==
    /\ run.at = "end"
    /\ Ends(run.ok)
    /\ UNCHANGED <<boot, kernel, files, settings, observed, mounted, damaged>>

\* An update of the record; one that fails leaves it marked invalid.
Records(new) ==
    \/ record' = (IF readable THEN new ELSE record) /\ UNCHANGED readable
    \/ Fault("record") /\ record' = [m \in Modules |-> Entry("absent")] /\ readable' = FALSE

\* record_rules({}, complete) and assign_modules({}, "kasumi").
Unruled(kind) == [m \in Modules |-> IF OfKasumi(m) THEN Entry(kind) ELSE record[m]]

\* restore_persisted_hide_rules() and what it leaves in the kernel.
RestoresAll == HidesKnown /\ hides' = hides \cup userHides
RestoreFails ==
    \/ (~HidesKnown \/ Fault("files")) /\ UNCHANGED hides
    \/ /\ HidesKnown
       /\ Fault("adds")
       /\ \E done \in SUBSET userHides : done # userHides /\ hides' = hides \cup done

-----------------------------------------------------------------------------
(* kasumi::mount_modules(selection) in a mount child: "map" to "commit".   *)

AfterMount == IF run.cmd = "mount-all" THEN "plan" ELSE "configure"

\* Nothing is known while rules are installed; settings that cannot be read end
\* it before the first one is.
MapModules ==
    /\ run.at = "map"
    /\ run.sel # {}
    /\ Records(Unruled("partial"))
    /\ \/ run' = [run EXCEPT !.at = "install", !.todo = run.sel]
       \/ Fault("files") /\ Fails(AfterMount)
    /\ UNCHANGED <<boot, kernel, files, settings, mounted, damaged>>

MapNothing ==
    /\ run.at = "map"
    /\ run.sel = {}
    /\ Records(Unruled("complete"))
    /\ Goes("restore")
    /\ UNCHANGED <<boot, kernel, files, settings, mounted, damaged>>

\* With nothing to map the user's hides are restored; that the marker could not
\* be written is no failure.
RestoreOnly ==
    /\ run.at = "restore"
    /\ \/ /\ RestoresAll
          /\ active' = boot \/ (Fault("files") /\ UNCHANGED active)
          /\ Goes(AfterMount)
       \/ RestoreFails /\ Fails(AfterMount) /\ active' = 0
    /\ UNCHANGED <<boot, loaded, gate, rules, plan, settings, observed, mounted, damaged>>

\* The rules of one module; a call that fails does not stop the others.
Install ==
    /\ run.at = "install"
    /\ \E m \in run.todo :
          LET next(ok) == [run EXCEPT !.todo = @ \ {m}, !.ok = ok,
                                      !.at = IF run.todo = {m} THEN "hide" ELSE "install"]
          IN  \/ rules' = rules \cup {m} /\ run' = next(run.ok)
              \/ Fault("adds") /\ UNCHANGED rules /\ run' = next(FALSE)
    /\ UNCHANGED <<boot, loaded, gate, hides, files, settings, observed, mounted, damaged>>

MappedHides == (UNION {HiddenBy[m] : m \in run.sel}) \cup userHides

\* Faulty variant: the hide rules are added as mappings.
M_HideAsRule ==
    /\ run.at = "hide"
    /\ rules' = rules \cup MappedHides
    /\ Goes("commit")
    /\ UNCHANGED <<boot, loaded, gate, hides, files, settings, observed, mounted, damaged>>

HideMapped ==
    /\ run.at = "hide"
    /\ \/ hides' = hides \cup MappedHides /\ Goes("commit")
       \/ /\ Fault("adds")
          /\ \E done \in SUBSET MappedHides : done # MappedHides /\ hides' = hides \cup done
          /\ Fails("commit")
    /\ UNCHANGED <<boot, loaded, gate, rules, files, settings, observed, mounted, damaged>>

\* record_rules(evidence, true), then the marker, or its removal.
Commit ==
    /\ run.at = "commit"
    /\ Records([m \in Modules |->
                   IF m \in run.sel /\ OfKasumi(m)
                   THEN [kind |-> "complete", hides |-> HiddenBy[m]]
                   ELSE Unruled("complete")[m]])
    /\ \/ run.ok /\ active' = boot /\ Goes(AfterMount)
       \/ (~run.ok \/ Fault("files")) /\ active' = 0 /\ Fails(AfterMount)
    /\ UNCHANGED <<boot, kernel, plan, settings, mounted, damaged>>

\* run_in_init_mount_ns() reports a child that dies as a failure.
ChildDies ==
    /\ Fault("kills")
    /\ run.at \in {"map", "restore", "install", "hide", "commit"}
    /\ Fails(AfterMount)
    /\ UNCHANGED <<boot, kernel, files, settings, observed, mounted, damaged>>

\* The overlays' xattrs, the policy, which is replaced with the gate down, and
\* the features. What failed before is not followed by any of them.
Configure ==
    /\ run.at = "configure"
    /\ \/ run.ok /\ gate' = FALSE /\ Goes("gate")
       \/ ~run.ok /\ UNCHANGED gate /\ Goes("gate")
       \/ Fault("adds") /\ gate' \in {gate, FALSE} /\ Fails("gate")
    /\ UNCHANGED <<boot, loaded, rules, hides, files, settings, observed, mounted, damaged>>

AfterRefresh == IF run.cmd \in {"hot-mount", "hot-unmount"} THEN "rollback" ELSE "end"

\* Faulty variant: after a failure the rules stay, only the gate is lowered.
M_GateOnly ==
    /\ run.at = "gate"
    /\ \/ run.ok /\ gate' = TRUE /\ Goes(AfterRefresh)
       \/ (~run.ok \/ Fault("adds")) /\ gate' = FALSE /\ Fails(AfterRefresh)
    /\ UNCHANGED <<boot, loaded, rules, hides, files, settings, observed, mounted, damaged>>

\* set_enabled(ok); whatever failed, what is in the kernel is taken back.
Gate ==
    /\ run.at = "gate"
    /\ \/ run.ok /\ gate' = TRUE /\ Goes(AfterRefresh)
       \/ run.ok /\ Fault("adds") /\ UNCHANGED gate /\ Deactivates(AfterRefresh, FALSE)
       \/ ~run.ok /\ gate' = FALSE /\ Deactivates(AfterRefresh, FALSE)
       \/ ~run.ok /\ Fault("downs") /\ UNCHANGED gate /\ Deactivates(AfterRefresh, FALSE)
    /\ UNCHANGED <<boot, loaded, rules, hides, files, settings, observed, mounted, damaged>>

-----------------------------------------------------------------------------
(* refresh_kasumi_modules(config)                                          *)

\* A module that was just inserted is empty, whatever kasumi_active says.
Stale == run.cmd = "load" /\ IsActive

RefreshOff ==
    /\ run.at = "refresh"
    /\ ~run.on
    /\ IF loaded THEN Deactivates(AfterRefresh, TRUE) ELSE Goes(AfterRefresh)
    /\ UNCHANGED <<boot, kernel, files, settings, observed, mounted, damaged>>

RefreshRefused ==
    /\ run.at = "refresh"
    /\ run.on
    /\ ~loaded \/ Replayable = {} \/ Fault("files")
    /\ Fails(AfterRefresh)
    /\ damaged' = (damaged \/ Stale)
    /\ UNCHANGED <<boot, kernel, files, settings, observed, mounted>>

Refresh ==
    /\ run.at = "refresh"
    /\ run.on /\ loaded /\ Replayable # {}
    /\ run' = [run EXCEPT !.at = "down", !.back = "assign", !.sel = Selected]
    /\ UNCHANGED <<boot, kernel, files, settings, observed, mounted, damaged>>

\* assign_modules(assignments, "kasumi"), unless the reset failed.
Assign ==
    /\ run.at = "assign"
    /\ \/ /\ run.ok
          /\ Records([m \in Modules |-> IF m \in run.sel THEN Entry("partial")
                                        ELSE Unruled("complete")[m]])
          /\ Goes("map")
       \/ ~run.ok /\ Goes("gate") /\ UNCHANGED observed
    /\ UNCHANGED <<boot, kernel, files, settings, mounted, damaged>>

-----------------------------------------------------------------------------
(* config apply, kasumi enable, and lkm load: apply_config_file().         *)

BeginApply ==
    /\ Idle
    /\ \E force \in BOOLEAN : Begins("apply", "config", force, {})
    /\ UNCHANGED <<boot, kernel, files, settings, observed, mounted, damaged>>

\* A module that is there already is left as it is. The gate of a new one is as
\* its kernel side has it.
BeginLoad ==
    /\ Idle
    /\ ~loaded
    /\ loaded' = TRUE
    /\ gate' \in BOOLEAN
    /\ rules' = {} /\ hides' = {}
    /\ Records(Unruled("complete"))
    /\ Begins("load", "config", FALSE, {})
    /\ UNCHANGED <<boot, files, settings, mounted, damaged>>

ConfigUnreadable ==
    /\ run.at = "config"
    /\ conf = "bad"
    /\ Ends(FALSE)
    /\ damaged' = (damaged \/ Stale)
    /\ UNCHANGED <<boot, kernel, files, settings, observed, mounted>>

\* Faulty variant: that the kernel lost its state is not passed on.
M_LossForgotten ==
    /\ run.at = "config"
    /\ conf # "bad"
    /\ LET on == run.on \/ conf = "on"
           next == [run EXCEPT !.on = on]
       IN  \/ ~on /\ run' = [next EXCEPT !.at = IF loaded THEN "down" ELSE "end", !.back = "end"]
           \/ on /\ ~loaded /\ run' = [next EXCEPT !.at = "end", !.ok = FALSE]
           \/ /\ on /\ loaded
              /\ run' = [next EXCEPT !.at = IF Replayable # {} /\ ~IsActive
                                            THEN "refresh" ELSE "policy"]
    /\ UNCHANGED <<boot, kernel, files, settings, observed, mounted, damaged>>

\* The mappings are rebuilt if this boot's plan has some and the kernel lost them.
Config ==
    /\ run.at = "config"
    /\ conf # "bad"
    /\ LET on == run.on \/ conf = "on"
           lost == run.cmd = "load" \/ ~IsActive
           next == [run EXCEPT !.on = on]
       IN  \/ ~on /\ run' = [next EXCEPT !.at = IF loaded THEN "down" ELSE "end", !.back = "end"]
           \/ on /\ ~loaded /\ run' = [next EXCEPT !.at = "end", !.ok = FALSE]
           \/ /\ on /\ loaded
              /\ run' = [next EXCEPT !.at = IF Replayable # {} /\ lost
                                            THEN "refresh" ELSE "policy"]
    /\ UNCHANGED <<boot, kernel, files, settings, observed, mounted, damaged>>

\* apply_policy_config(): the policy is replaced with the gate down.
ApplyPolicy ==
    /\ run.at = "policy"
    /\ \/ gate' = FALSE /\ Goes("hides")
       \/ Fault("adds") /\ gate' = FALSE /\ Goes("abandon")
       \/ Fault("downs") /\ UNCHANGED gate /\ Goes("abandon")
    /\ UNCHANGED <<boot, loaded, rules, hides, files, settings, observed, mounted, damaged>>

ApplyHides ==
    /\ run.at = "hides"
    /\ \/ RestoresAll /\ Goes("features")
       \/ RestoreFails /\ Goes("abandon")
    /\ UNCHANGED <<boot, loaded, gate, rules, files, settings, observed, mounted, damaged>>

\* The features and the overlays' xattrs.
ApplyFeatures ==
    /\ run.at = "features"
    /\ Goes("enable") \/ (Fault("adds") /\ Goes("abandon"))
    /\ UNCHANGED <<boot, kernel, files, settings, observed, mounted, damaged>>

Enable ==
    /\ run.at = "enable"
    /\ \/ gate' = TRUE /\ Goes("end")
       \/ Fault("adds") /\ UNCHANGED gate /\ Goes("abandon")
    /\ UNCHANGED <<boot, loaded, rules, hides, files, settings, observed, mounted, damaged>>

\* disable_control_state(); the rules and the marker stay.
Abandon ==
    /\ run.at = "abandon"
    /\ gate' = FALSE \/ (Fault("downs") /\ UNCHANGED gate)
    /\ Ends(FALSE)
    /\ UNCHANGED <<boot, loaded, rules, hides, files, settings, observed, mounted, damaged>>

-----------------------------------------------------------------------------
(* module hot-mount, hot-unmount and apply.                                *)

\* Writing the marker is not looked at.
Marked(marks, kept) == hot' \in {marks} \cup (IF Fault("markers") THEN {kept} ELSE {})

\* An unreadable configuration counts as the default one, which enables Kasumi.
BeginHot(unmounting) ==
    /\ Idle
    /\ \E m \in Replayable :
          /\ run' = [NoRun EXCEPT !.cmd = IF unmounting THEN "hot-unmount" ELSE "hot-mount",
                                  !.at = "refresh", !.on = conf # "off", !.arg = {m},
                                  !.had = m \in hot]
          /\ IF unmounting THEN Marked(hot \cup {m}, hot) ELSE hot' = hot \ {m}
    /\ UNCHANGED <<boot, kernel, files, conf, userHides, observed, mounted, damaged>>

\* A failed refresh gives the marker back what it was.
RollBack ==
    /\ run.at = "rollback"
    /\ IF run.ok \/ (run.cmd = "hot-unmount") = run.had
       THEN UNCHANGED hot
       ELSE IF run.had THEN Marked(hot \cup run.arg, hot) ELSE hot' = hot \ run.arg
    /\ Ends(run.ok)
    /\ UNCHANGED <<boot, kernel, files, conf, userHides, observed, mounted, damaged>>

\* With nothing to apply there is nothing to report; an unreadable configuration
\* or module directory is an error that changes nothing.
BeginModuleApply ==
    /\ Idle
    /\ conf = "on"
    /\ \E m \in Selected : Begins("module-apply", "refresh", TRUE, {m})
    /\ UNCHANGED <<boot, kernel, files, settings, observed, mounted, damaged>>

-----------------------------------------------------------------------------
(* module mount-all and unmount.                                           *)

\* The pass is claimed, the markers of the boot are dropped, and the module is
\* loaded if autoload is on. The configuration defaults to enabled.
BeginMountAll ==
    /\ Idle
    /\ ~mounted
    /\ mounted' = TRUE
    /\ active' = 0
    /\ plan' = NoPlan
    /\ \/ UNCHANGED kernel
       \/ ~loaded /\ loaded' = TRUE /\ gate' \in BOOLEAN /\ UNCHANGED <<rules, hides>>
    /\ LET on == conf # "off"
       IN  run' = [NoRun EXCEPT !.cmd = "mount-all", !.on = on, !.back = "inventory",
                                !.at = IF loaded' /\ ~on THEN "down" ELSE "inventory"]
    /\ UNCHANGED <<boot, settings, observed, damaged>>

\* The inventory starts a fresh record. Bootloop protection ends the pass with
\* Kasumi taken down.
Inventory ==
    /\ run.at = "inventory"
    /\ \/ /\ readable' = TRUE
          /\ record' = [m \in Modules |-> Entry(IF m \in Enumerated THEN "other" ELSE "absent")]
       \/ /\ Fault("record")
          /\ readable' = FALSE
          /\ record' = [m \in Modules |-> Entry("absent")]
    /\ \/ IF loaded THEN Deactivates("end", TRUE) ELSE Goes("end")
       \/ IF loaded /\ run.on THEN Deactivates("select", TRUE) ELSE Goes("select")
    /\ UNCHANGED <<boot, kernel, files, settings, mounted, damaged>>

\* Settings or modules that cannot be read end the pass.
PassEnds ==
    /\ run.at \in {"inventory", "select"}
    /\ Fault("files")
    /\ Ends(FALSE)
    /\ UNCHANGED <<boot, kernel, files, settings, observed, mounted, damaged>>

\* The modules whose setting is Kasumi, where it can be used.
Select ==
    /\ run.at = "select"
    /\ \E chosen \in SUBSET (IF loaded /\ run.on THEN Enumerated ELSE {}) :
          /\ Records([m \in Modules |-> IF m \in chosen THEN Entry("partial") ELSE record[m]])
          /\ run' = [run EXCEPT !.sel = chosen,
                                !.at = IF ~(loaded /\ run.on) THEN "end"
                                       ELSE IF run.ok THEN "map" ELSE "gate"]
    /\ UNCHANGED <<boot, kernel, files, settings, mounted, damaged>>

\* record_replayable_mappings(): what Kasumi owns for the rest of the boot.
Plan ==
    /\ run.at = "plan"
    /\ \/ run.ok /\ run.sel # {} /\ plan' = [boot |-> boot, ids |-> run.sel] /\ Goes("configure")
       \/ run.ok /\ run.sel # {} /\ Fault("files") /\ plan' = NoPlan /\ Fails("gate")
       \/ run.ok /\ run.sel = {} /\ plan' = NoPlan /\ Goes("configure")
       \/ ~run.ok /\ plan' = NoPlan /\ Goes("gate")
    /\ UNCHANGED <<boot, kernel, active, settings, observed, mounted, damaged>>

BeginUnmount ==
    /\ Idle
    /\ run' = [NoRun EXCEPT !.cmd = "unmount", !.back = "repeal",
                            !.at = IF loaded THEN "down" ELSE "repeal"]
    /\ UNCHANGED <<boot, kernel, files, settings, observed, mounted, damaged>>

Repeal ==
    /\ run.at = "repeal"
    /\ active' = 0
    /\ plan' = NoPlan
    /\ Ends(run.ok)
    /\ UNCHANGED <<boot, kernel, settings, observed, mounted, damaged>>
-----------------------------------------------------------------------------
(* lkm unload, and the direct commands.                                    *)

\* Deletion takes the rules with it; kasumi_active and the plan stay.
Unload ==
    /\ Idle
    /\ loaded
    /\ loaded' = FALSE /\ gate' = FALSE /\ rules' = {} /\ hides' = {}
    /\ Records(Unruled("complete"))
    /\ Reports("unload", TRUE)
    /\ UNCHANGED <<boot, files, settings, mounted, damaged>>

\* A module without quiesce is emptied before it is known whether it goes.
UnloadLegacy ==
    /\ Idle
    /\ loaded
    /\ Fault("legacy")
    /\ gate' = FALSE /\ rules' = {} /\ hides' = {}
    /\ damaged' = TRUE
    /\ Reports("unload", FALSE)
    /\ UNCHANGED <<boot, loaded, files, settings, observed, mounted>>

\* kasumi clear: the rules, then the marker; the gate is not touched.
BeginClear ==
    /\ Idle
    /\ loaded
    /\ rules' = {} /\ hides' = {}
    /\ run' = [NoRun EXCEPT !.cmd = "clear", !.at = "forget", !.back = "end"]
    /\ UNCHANGED <<boot, loaded, gate, files, settings, observed, mounted, damaged>>

Disable ==
    /\ Idle
    /\ loaded
    /\ gate' = FALSE
    /\ Reports("disable", TRUE)
    /\ UNCHANGED <<boot, loaded, rules, hides, files, settings, observed, mounted, damaged>>

\* kasumi policy ...: the gate goes down for the change, and up again.
BeginPolicy ==
    /\ Idle
    /\ loaded
    /\ gate
    /\ gate' = FALSE
    /\ run' = [NoRun EXCEPT !.cmd = "policy", !.at = "replace"]
    /\ UNCHANGED <<boot, loaded, rules, hides, files, settings, observed, mounted, damaged>>

Replace ==
    /\ run.at = "replace"
    /\ \/ gate' = TRUE /\ Ends(TRUE)
       \/ Fault("adds") /\ gate' \in {gate, TRUE} /\ Ends(FALSE)
    /\ UNCHANGED <<boot, loaded, rules, hides, files, settings, observed, mounted, damaged>>

\* hide add and remove: the setting is saved first, then the kernel's rule.
BeginHide(removing) ==
    /\ Idle
    /\ \E p \in Paths :
          /\ userHides' = IF removing THEN userHides \ {p} ELSE userHides \cup {p}
          /\ run' = [NoRun EXCEPT !.cmd = IF removing THEN "hide-remove" ELSE "hide-add",
                                  !.at = IF loaded THEN "update" ELSE "idle", !.path = {p}]
    /\ UNCHANGED <<boot, kernel, files, conf, hot, observed, mounted, damaged>>

\* update_legacy_user_hide(): what a module hides stays hidden.
Update ==
    /\ run.at = "update"
    /\ \/ /\ HidesKnown
          /\ hides' = IF run.cmd = "hide-remove"
                      THEN (hides \ run.path) \cup (run.path \cap RecordedHides)
                      ELSE hides \cup run.path
          /\ Ends(TRUE)
       \/ /\ ~HidesKnown \/ Fault("adds") \/ Fault("downs")
          /\ UNCHANGED hides
          /\ Ends(FALSE)
    /\ UNCHANGED <<boot, loaded, gate, rules, files, settings, observed, mounted, damaged>>

-----------------------------------------------------------------------------
(* The user, the daemon's death and reboots.                               *)

EditConfig ==
    /\ Idle
    /\ conf' \in {"on", "off"} \cup (IF Fault("config") THEN {"bad"} ELSE {})
    /\ UNCHANGED <<boot, kernel, files, hot, userHides, observed, mounted, run, damaged>>

Kill ==
    /\ Fault("kills")
    /\ ~Idle
    /\ run' = NoRun
    /\ damaged' = TRUE
    /\ UNCHANGED <<boot, kernel, files, settings, observed, mounted>>

\* A record of an earlier boot does not load until the inventory replaces it.
Reboot ==
    /\ boot < MaxBoots
    /\ boot' = boot + 1
    /\ loaded' = FALSE /\ gate' = FALSE /\ rules' = {} /\ hides' = {}
    /\ record' = [m \in Modules |-> Entry("absent")]
    /\ readable' = FALSE
    /\ mounted' = FALSE
    /\ run' = NoRun
    /\ damaged' = FALSE
    /\ UNCHANGED <<files, settings>>

-----------------------------------------------------------------------------
Init ==
    /\ boot = 1
    /\ conf = "on"
    /\ loaded = FALSE /\ gate = FALSE /\ rules = {} /\ hides = {}
    /\ active = 0
    /\ plan = NoPlan
    /\ hot = {} /\ userHides = {}
    /\ record = [m \in Modules |-> Entry("absent")]
    /\ readable = FALSE
    /\ mounted = FALSE
    /\ run = NoRun
    /\ damaged = FALSE

Next ==
    \/ BeginApply \/ BeginLoad \/ ConfigUnreadable \/ Config \/ ApplyPolicy \/ ApplyHides
    \/ ApplyFeatures \/ Enable \/ Abandon
    \/ BeginHot(TRUE) \/ BeginHot(FALSE) \/ RollBack \/ BeginModuleApply
    \/ BeginMountAll \/ Inventory \/ PassEnds \/ Select \/ Plan \/ BeginUnmount \/ Repeal
    \/ RefreshOff \/ RefreshRefused \/ Refresh \/ Assign
    \/ MapModules \/ MapNothing \/ RestoreOnly \/ Install \/ HideMapped \/ Commit \/ ChildDies
    \/ Configure \/ Gate \/ Down \/ Clear \/ Forget \/ End
    \/ Unload \/ UnloadLegacy \/ BeginClear \/ Disable \/ BeginPolicy \/ Replace
    \/ BeginHide(TRUE) \/ BeginHide(FALSE) \/ Update
    \/ EditConfig \/ Kill \/ Reboot

Spec == Init /\ [][Next]_vars

-----------------------------------------------------------------------------
(* Properties.                                                             *)

\* The types.
TypeOK ==
    /\ boot \in 1..MaxBoots
    /\ conf \in {"on", "off", "bad"}
    /\ loaded \in BOOLEAN /\ gate \in BOOLEAN
    /\ rules \subseteq Modules /\ hides \subseteq Paths
    /\ active \in 0..MaxBoots
    /\ plan \in [boot : 0..MaxBoots, ids : SUBSET Modules]
    /\ hot \subseteq Modules /\ userHides \subseteq Paths
    /\ record \in [Modules -> Entries]
    /\ readable \in BOOLEAN /\ mounted \in BOOLEAN /\ damaged \in BOOLEAN
    /\ run \in Runs

\* A tree of modules is never put together in the sight of processes: mapping
\* rules are added only while the gate is down, whichever command adds them and
\* whatever failed before.
AddedBehindTheGate == [][rules' \subseteq rules \/ ~gate]_vars

\* Between commands an enabled Kasumi serves the modules of the boot's plan, all
\* of them but those hot-unmounted, or none at all and then kasumi_active does
\* not say otherwise.
ServedIsThePlan ==
    Idle /\ gate /\ ~damaged => rules = Selected \/ (rules = {} /\ ~IsActive)

\* What a command reports is so. A success of config apply, of lkm load and of a
\* hot-mount or hot-unmount with Kasumi configured on means that it is enabled,
\* maps what the plan says and hides what the user asked for; a hot-unmounted
\* module is gone in any case, and so is a hide rule that was removed, unless a
\* module has it.
ReportedIsInstalled ==
    Idle /\ run.ok /\ ~damaged =>
        /\ run.on /\ run.cmd \notin {"mount-all", "unmount"} =>
              gate /\ rules = Selected /\ userHides \subseteq hides
        /\ run.cmd = "hot-unmount" => run.arg \cap rules = {}
        /\ run.cmd = "hide-add" /\ loaded => run.path \subseteq hides
        /\ run.cmd = "hide-remove" => run.path \cap hides \subseteq RecordedHides

\* Removing one of the user's hide rules never shows a path that an installed
\* module of the plan hides, whatever became of the record.
ModuleHidesSurvive ==
    [][run.at = "update" /\ boot' = boot =>
          \A m \in Replayable \cap rules : HiddenBy[m] \cap hides \subseteq hides']_vars

\* What module_runtime.hpp:20 says, "Observation failures never change mount
\* behavior": with calls and files that work, config apply enables a Kasumi that
\* is configured on.
ObservationIsPassive ==
    Idle /\ run.cmd = "apply" /\ run.on /\ loaded => gate

\* What backend.hpp:66-67 says of the inventory: it skips modules with a marker
\* of their own, and there are none of those here.
EveryModuleIsEnumerated == run.at = "select" => \A m \in Modules : record[m].kind # "absent"
=============================================================================
