---------------------------- MODULE ModuleRuntime ----------------------------
(***************************************************************************)
(* The runtime record of the mount engine (mount/module_runtime.cpp): four *)
(* files under run/module_runtime/ through which cooperating processes     *)
(* publish what each module contributed to the kernel.                     *)
(*                                                                         *)
(*   lock     flock(2): exclusive for an Operation, shared for a snapshot  *)
(*   pending  an Operation is under way, or died before finish()           *)
(*   invalid  some observation could not be published                      *)
(*   state    the record: boot, generation, one entry per module           *)
(*                                                                         *)
(* Every process may die between any two steps, its forked mount child may *)
(* outlive it, and the device may reboot; the files survive, the kernel's  *)
(* mounts and rules and the lock do not.                                   *)
(***************************************************************************)
EXTENDS Naturals, FiniteSets

CONSTANTS
    Procs,             \* processes that open an Operation (the daemon, another controller)
    Readers,           \* processes that take a snapshot (module list, the API)
    Modules,           \* installed modules
    Parts,             \* what a module can contribute: a mount point or a rule target
    None,              \* no process
    MaxBoots,          \* bound: boots of the device
    GenLimit,          \* stands for UINT64_MAX, the last generation a record can carry
    PendingFails,      \* may creating or removing "pending" fail?
    InvalidFails,      \* may creating or removing "invalid" fail?
    LockFails          \* may an Operation fail to open or lock the lock file?

ASSUME ConstantsAssumption ==
    /\ None \notin Procs
    /\ MaxBoots \in Nat \ {0}
    /\ GenLimit \in Nat \ {0}
    /\ PendingFails \in BOOLEAN
    /\ InvalidFails \in BOOLEAN
    /\ LockFails \in BOOLEAN

VARIABLES
    boot,      \* the kernel's boot identity
    claimed,   \* the boot orchestrator marker of this boot exists
    plan,      \* the modules of this boot's replayable Kasumi mapping plan
    live,      \* kernel truth: the attachments <<module, part, backend>> in effect
    db,        \* the file "state"
    pending,   \* the file "pending" exists
    invalid,   \* the file "invalid" exists
    holder,    \* whose Operation holds the exclusive flock (possibly through its child)
    pc,        \* where each process is in its Operation
    fd,        \* writer.fd >= 0: the process holds an open, locked descriptor
    choice,    \* the backend an Operation picked for each module
    todo,      \* the backends whose mount_modules this Operation has still to run
    cur,       \* the backend the process's mount child is running
    stage,     \* where that child is
    result,    \* what that child attached and has not recorded yet
    view,      \* the record each reader loaded under its shared lock
    lost       \* ghost: an observation was missed since the last full inventory

files == <<db, pending, invalid>>
procs == <<pc, fd, choice, todo, cur, stage, result>>
vars == <<boot, claimed, plan, live, files, holder, procs, view, lost>>

Backends == {"magic", "overlay", "kasumi", "none"}
ChildBackends == {"magic", "overlay", "kasumi"}
Choices == [Modules -> Backends \cup {"absent"}]

\* Where an Operation can be; an orphan is dead and outlived by its mount child.
Phases == {"idle", "locked", "published", "body", "claimed", "inventory", "mounting",
           "refreshing", "finishing", "orphan"}

\* What a record says of one part: not a contribution; not committed; committed
\* but its mount identity was not captured; committed and captured.
Outcomes == {"no", "failed", "blind", "captured"}
Evidence == [Parts -> Outcomes]
Entry == [backend : Backends \cup {"absent"}, complete : BOOLEAN, parts : Evidence]
Database == [kind : {"none", "bad", "good"}, boot : 0..MaxBoots, gen : 0..GenLimit,
             mods : [Modules -> Entry]]
Attachments == Modules \X Parts \X ChildBackends

NoParts == [x \in Parts |-> "no"]
NoResult == [m \in Modules |-> NoParts]
NoChoice == [m \in Modules |-> "absent"]
Absent == [backend |-> "absent", complete |-> FALSE, parts |-> NoParts]
NoModules == [m \in Modules |-> Absent]
NoView == [m \in {} |-> Absent]

\* Attachments that go when Kasumi's rules are cleared or its module is unloaded.
KasumiLive == {a \in live : a[3] = "kasumi"}

-----------------------------------------------------------------------------
(* The record and its markers.                                             *)

\* load(): an unreadable, corrupt or old-schema record is "bad"; a record of
\* an earlier boot is stale_boot.
Loads == db.kind = "good" /\ db.boot = boot
NoRecordYet == db.kind = "none" \/ (db.kind = "good" /\ db.boot # boot)

\* invalidate(): the result of writing the marker is ignored.
Invalidate == invalid' = TRUE \/ (InvalidFails /\ UNCHANGED invalid)

\* store(): an atomic replacement of the record, or the invalid marker.
Store(new) ==
    \/ db' = new /\ UNCHANGED <<invalid, lost>>
    \/ UNCHANGED db /\ lost' = TRUE /\ Invalidate

Miss == UNCHANGED db /\ lost' = TRUE /\ Invalidate

\* Faulty variant: a newly assigned module counts as completely observed.
M_AssignedComplete(b) == [backend |-> b, complete |-> TRUE, parts |-> NoParts]

\* A module that was just assigned: nothing observed, so incomplete unless there
\* is nothing to observe.
Assigned(b) == [backend |-> b, complete |-> b = "none", parts |-> NoParts]

\* assign_modules(): entries in scope are emptied but stay listed; assigned
\* modules start afresh.
Assign(mods, c, scope) ==
    [m \in Modules |->
        IF c[m] # "absent"
        THEN Assigned(c[m])
        ELSE IF mods[m].backend \in scope
             THEN [backend |-> mods[m].backend, complete |-> TRUE, parts |-> NoParts]
             ELSE mods[m]]

\* distribute(): the contributions of a backend replace those of every module
\* recorded under it.
Distribute(mods, b, res, complete) ==
    [m \in Modules |->
        IF mods[m].backend = b
        THEN [backend |-> b, complete |-> complete, parts |-> res[m]]
        ELSE mods[m]]

\* Faulty variant: an update without the lock.
M_UpdateUnlocked(p) == Loads

\* update() needs a locked Operation and a record that loads.
CanUpdate(p) == fd[p] /\ Loads

Update(p, mods) ==
    IF CanUpdate(p) THEN Store([db EXCEPT !.mods = mods]) ELSE Miss

\* assign_modules() with an empty scope: the boot inventory, which replaces a
\* record that does not load and is the only caller that removes "invalid".
FullAssign(p, c) ==
    IF ~fd[p]
    THEN UNCHANGED <<db, invalid, lost>>
    ELSE LET base == IF Loads THEN db
                     ELSE [kind |-> "good", boot |-> boot, gen |-> 1, mods |-> NoModules]
         IN \/ /\ db' = [base EXCEPT !.mods = Assign(base.mods, c, Backends)]
               /\ \/ invalid' = FALSE /\ lost' = FALSE
                  \/ InvalidFails /\ UNCHANGED <<invalid, lost>>
            \/ Miss

-----------------------------------------------------------------------------
(* Operation::Operation().                                                 *)

\* Faulty variants: the writer does not wait for snapshots; it overwrites an old
\* "pending" without looking at it; the generation is not checked for its limit.
M_SnapshotsIgnored == TRUE
M_PendingIgnored == UNCHANGED invalid
M_GenerationUnchecked(gen) == gen <= GenLimit

\* No process holds the shared lock.
NoSnapshot == \A r \in Readers : view[r] = NoView

\* A "pending" at this point is an earlier Operation that never finished.
InspectPending == IF pending THEN Invalidate ELSE UNCHANGED invalid

GenerationLeft(gen) == gen < GenLimit

\* flock(LOCK_EX) is granted.
Begin(p) ==
    /\ pc[p] = "idle"
    /\ holder = None
    /\ NoSnapshot
    /\ holder' = p
    /\ pc' = [pc EXCEPT ![p] = "locked"]
    /\ fd' = [fd EXCEPT ![p] = TRUE]
    /\ InspectPending
    /\ UNCHANGED <<boot, claimed, plan, live, db, pending, choice, todo, cur, stage, result,
                   view, lost>>

\* The directory or the lock file is unusable: the Operation goes on with no
\* descriptor, and every update it makes fails.
BeginUnlocked(p) ==
    /\ LockFails
    /\ pc[p] = "idle"
    /\ pc' = [pc EXCEPT ![p] = "body"]
    /\ fd' = [fd EXCEPT ![p] = FALSE]
    /\ UNCHANGED <<boot, claimed, plan, live, files, holder, choice, todo, cur, stage, result,
                   view, lost>>

Publish(p) ==
    /\ pc[p] = "locked"
    /\ \/ /\ pending' = TRUE
          /\ pc' = [pc EXCEPT ![p] = "published"]
          /\ UNCHANGED <<db, invalid, lost>>
       \/ /\ PendingFails
          /\ Miss
          /\ pc' = [pc EXCEPT ![p] = "body"]
          /\ UNCHANGED pending
    /\ UNCHANGED <<boot, claimed, plan, live, holder, fd, choice, todo, cur, stage, result, view>>

OpenRecord(p) ==
    /\ pc[p] = "published"
    /\ pc' = [pc EXCEPT ![p] = "body"]
    /\ LET gen == IF Loads THEN db.gen ELSE 0
           mods == IF Loads THEN db.mods ELSE NoModules
       IN IF (Loads \/ NoRecordYet) /\ GenerationLeft(gen)
          THEN Store([kind |-> "good", boot |-> boot, gen |-> gen + 1, mods |-> mods])
          ELSE Miss
    /\ UNCHANGED <<boot, claimed, plan, live, pending, holder, fd, choice, todo, cur, stage,
                   result, view>>

-----------------------------------------------------------------------------
(* The bodies of Operations: boot (mount_all_enabled), Kasumi refresh, LKM *)
(* load and unload, teardown and rule clearing, and those that leave the   *)
(* modules alone.                                                          *)

\* The orchestrator claims the boot and drops the old plan; lkm::autoload()
\* empties the Kasumi entries when it has loaded the module.
Claim(p) ==
    /\ pc[p] = "body"
    /\ ~claimed
    /\ claimed' = TRUE
    /\ plan' = {}
    /\ \/ Update(p, Assign(db.mods, NoChoice, {"kasumi"}))
       \/ UNCHANGED <<db, invalid, lost>>
    /\ pc' = [pc EXCEPT ![p] = "claimed"]
    /\ UNCHANGED <<boot, live, pending, holder, fd, choice, todo, cur, stage, result, view>>

\* The fresh inventory: every enabled module, not mounted yet.
Inventory(p) ==
    /\ pc[p] = "claimed"
    /\ \E enabled \in SUBSET Modules :
         LET c == [m \in Modules |-> IF m \in enabled THEN "none" ELSE "absent"]
         IN FullAssign(p, c) /\ choice' = [choice EXCEPT ![p] = c]
    /\ pc' = [pc EXCEPT ![p] = "inventory"]
    /\ UNCHANGED <<boot, claimed, plan, live, pending, holder, fd, todo, cur, stage, result, view>>

\* Module enumeration failed; bootloop protection is on; modes, rules or a
\* module cannot be read: nothing is mounted.
StopBoot(p) ==
    /\ pc[p] \in {"claimed", "inventory"}
    /\ pc' = [pc EXCEPT ![p] = "finishing"]
    /\ UNCHANGED <<boot, claimed, plan, live, files, holder, fd, choice, todo, cur, stage,
                   result, view, lost>>

\* A backend for every module, then the inventory that carries it. Kasumi runs
\* when it is managed and was reset, even with no module of its own.
Select(p) ==
    /\ pc[p] = "inventory"
    /\ \E c \in Choices, kasumi \in SUBSET {"kasumi"} :
         /\ \A m \in Modules : c[m] = "absent" <=> choice[p][m] = "absent"
         /\ FullAssign(p, c)
         /\ choice' = [choice EXCEPT ![p] = c]
         /\ todo' = [todo EXCEPT ![p] =
                        {b \in {"magic", "overlay"} : \E m \in Modules : c[m] = b} \cup kasumi]
    /\ pc' = [pc EXCEPT ![p] = "mounting"]
    /\ UNCHANGED <<boot, claimed, plan, live, pending, holder, fd, cur, stage, result, view>>

\* refresh_kasumi_modules(): only with this boot's plan; clear the rules, then
\* assign the plan's modules that are still selected.
Refresh(p) ==
    /\ pc[p] = "body"
    /\ plan # {}
    /\ \E selected \in SUBSET plan :
         LET c == [m \in Modules |-> IF m \in selected THEN "kasumi" ELSE "absent"]
         IN /\ Update(p, Assign(db.mods, c, {"kasumi"}))
            /\ choice' = [choice EXCEPT ![p] = c]
    /\ live' = live \ KasumiLive
    /\ todo' = [todo EXCEPT ![p] = {"kasumi"}]
    /\ pc' = [pc EXCEPT ![p] = "refreshing"]
    /\ UNCHANGED <<boot, claimed, plan, pending, holder, fd, cur, stage, result, view>>

\* lkm::load() and lkm::unload() that succeed: the kernel holds no rule, and
\* the entries under Kasumi say so.
SwapKasumiModule(p) ==
    /\ pc[p] = "body"
    /\ live' = live \ KasumiLive
    /\ Update(p, Assign(db.mods, NoChoice, {"kasumi"}))
    /\ pc' = [pc EXCEPT ![p] = "finishing"]
    /\ UNCHANGED <<boot, claimed, plan, pending, holder, fd, choice, todo, cur, stage, result, view>>

\* unmount_all(), kasumi clear, a refresh whose reset fails: attachments go, the
\* old evidence is deliberately kept and compared with the live kernel.
Teardown(p) ==
    /\ pc[p] = "body"
    /\ \E rest \in SUBSET live : live' = rest
    /\ plan' \in {plan, {}}
    /\ pc' = [pc EXCEPT ![p] = "finishing"]
    /\ UNCHANGED <<boot, claimed, files, holder, fd, choice, todo, cur, stage, result, view, lost>>

\* The boot orchestrator after its last backend: commit the plan, or give
\* Kasumi up.
EndBoot(p) ==
    /\ pc[p] = "mounting"
    /\ todo[p] = {}
    /\ cur[p] = "none"
    /\ plan' \in {{}, {m \in Modules : choice[p][m] = "kasumi"}}
    /\ live' \in {live, live \ KasumiLive}
    /\ pc' = [pc EXCEPT ![p] = "finishing"]
    /\ UNCHANGED <<boot, claimed, files, holder, fd, choice, todo, cur, stage, result, view, lost>>

\* Policy, features and gate after a refresh; a failed one deactivates Kasumi.
EndRefresh(p) ==
    /\ pc[p] = "refreshing"
    /\ todo[p] = {}
    /\ cur[p] = "none"
    /\ live' \in {live, live \ KasumiLive}
    /\ pc' = [pc EXCEPT ![p] = "finishing"]
    /\ UNCHANGED <<boot, claimed, plan, files, holder, fd, choice, todo, cur, stage, result, view,
                   lost>>

\* finish() and ~Operation(): a failed native operation finishes like a
\* successful one; only the invalid marker keeps "pending".
Finish(p) ==
    /\ pc[p] \in {"body", "finishing"}
    /\ IF fd[p] /\ ~invalid
       THEN pending' = FALSE \/ (PendingFails /\ UNCHANGED pending)
       ELSE UNCHANGED pending
    /\ holder' = IF fd[p] THEN None ELSE holder
    /\ pc' = [pc EXCEPT ![p] = "idle"]
    /\ fd' = [fd EXCEPT ![p] = FALSE]
    /\ choice' = [choice EXCEPT ![p] = NoChoice]
    /\ UNCHANGED <<boot, claimed, plan, live, db, invalid, todo, cur, stage, result, view, lost>>

-----------------------------------------------------------------------------
(* The forked mount child, run_in_init_mount_ns(): it inherits the lock's  *)
(* open file description and records what it attached. Magic and overlay   *)
(* share one child; Kasumi has its own.                                    *)

FirstOf(b, S) ==
    /\ b \in S
    /\ b = "overlay" => "magic" \notin S
    /\ b = "kasumi" => S = {"kasumi"}

\* Faulty variant: something else still holds a copy of the descriptor.
M_DescriptorLeaks(p) == holder

\* The last descriptor of a locked Operation is closed.
Unlocked(p) == IF fd[p] THEN None ELSE holder

\* Faulty variant: a dying process takes the lock from under its child.
M_LockDiesWithParent(p) == None

\* The lock after process p dies: the inherited descriptor keeps it.
LockAfterCrash(p) == IF cur[p] # "none" THEN holder ELSE Unlocked(p)

\* The child is done: an orphan exits, and with it the last descriptor.
ChildGone(p) ==
    /\ cur' = [cur EXCEPT ![p] = "none"]
    /\ stage' = [stage EXCEPT ![p] = "none"]
    /\ result' = [result EXCEPT ![p] = NoResult]
    /\ IF pc[p] = "orphan"
       THEN /\ holder' = Unlocked(p)
            /\ pc' = [pc EXCEPT ![p] = "idle"]
            /\ fd' = [fd EXCEPT ![p] = FALSE]
            /\ choice' = [choice EXCEPT ![p] = NoChoice]
       ELSE UNCHANGED <<holder, pc, fd, choice>>

\* mount_modules() of one backend is over; the shared child goes on to overlay.
PassOver(p) ==
    IF cur[p] = "magic" /\ "overlay" \in todo[p]
    THEN /\ cur' = [cur EXCEPT ![p] = "overlay"]
         /\ stage' = [stage EXCEPT ![p] = "attach"]
         /\ result' = [result EXCEPT ![p] = NoResult]
         /\ todo' = [todo EXCEPT ![p] = @ \ {"overlay"}]
         /\ UNCHANGED <<holder, pc, fd, choice>>
    ELSE /\ ChildGone(p)
         /\ todo' = [todo EXCEPT ![p] = IF pc[p] = "orphan" THEN {} ELSE @]

ForkChild(p) ==
    /\ pc[p] \in {"mounting", "refreshing"}
    /\ cur[p] = "none"
    /\ \E b \in ChildBackends :
         /\ FirstOf(b, todo[p])
         /\ cur' = [cur EXCEPT ![p] = b]
         /\ todo' = [todo EXCEPT ![p] = @ \ {b}]
         /\ stage' = [stage EXCEPT ![p] = IF b = "kasumi" THEN "open" ELSE "attach"]
    /\ UNCHANGED <<boot, claimed, plan, live, files, holder, pc, fd, choice, result, view, lost>>

\* kasumi::mount_modules() first records that its rules are incomplete.
OpenRules(p) ==
    /\ stage[p] = "open"
    /\ Update(p, Distribute(db.mods, "kasumi", NoResult, FALSE))
    /\ stage' = [stage EXCEPT ![p] = "attach"]
    /\ UNCHANGED <<boot, claimed, plan, live, pending, holder, pc, fd, choice, todo, cur, result, view>>

\* Unavailable protocol, unreadable settings, a tree that does not compile, no
\* storage, no work tmpfs: the pass returns before it attaches or records.
AbortPass(p) ==
    /\ stage[p] = "attach"
    /\ PassOver(p)
    /\ UNCHANGED <<boot, claimed, plan, live, files, view, lost>>

\* Mounts of this pass: each part of its modules attached and captured,
\* attached only, or failed. Rules: every expected rule is evidence, whether
\* or not the kernel took it.
Attach(p) ==
    /\ stage[p] = "attach"
    /\ \E res \in [Modules -> Evidence] :
         /\ \A m \in Modules : choice[p][m] # cur[p] => res[m] = NoParts
         /\ result' = [result EXCEPT ![p] = res]
         /\ LET attached == {a \in Attachments :
                                a[3] = cur[p] /\ res[a[1]][a[2]] \in {"blind", "captured"}}
            IN IF cur[p] = "kasumi"
               THEN /\ \A m \in Modules, x \in Parts : res[m][x] \in {"no", "captured"}
                    /\ \E taken \in SUBSET attached : live' = live \cup taken
               ELSE live' = live \cup attached
    /\ stage' = [stage EXCEPT ![p] = "record"]
    /\ UNCHANGED <<boot, claimed, plan, files, holder, pc, fd, choice, todo, cur, view, lost>>

\* A failed mount pass rolls back first: completely, or leaving some behind.
\* The recorded evidence is what was captured before the rollback.
Record(p) ==
    /\ stage[p] = "record"
    /\ LET mine == {a \in live : a[3] = cur[p] /\ result[p][a[1]][a[2]] # "no"}
       IN \E gone \in SUBSET mine, complete \in BOOLEAN :
            /\ gone \in {{}, mine} \/ ~complete
            /\ cur[p] = "kasumi" => gone = {} /\ complete
            /\ live' = live \ gone
            /\ Update(p, Distribute(db.mods, cur[p], result[p], complete))
    /\ PassOver(p)
    /\ UNCHANGED <<boot, claimed, plan, pending, view>>

\* The child is killed; its parent goes on with the passes that follow.
ChildDies(p) ==
    /\ cur[p] # "none"
    /\ ChildGone(p)
    /\ todo' = [todo EXCEPT ![p] =
                  IF cur[p] = "kasumi" \/ pc[p] = "orphan" THEN {} ELSE @ \ {"overlay"}]
    /\ UNCHANGED <<boot, claimed, plan, live, files, view, lost>>

-----------------------------------------------------------------------------
(* Process death and reboot.                                               *)

\* SIGKILL or a fault of a process inside its Operation. A mount child that is
\* still running keeps the lock; otherwise the kernel drops it.
Crash(p) ==
    /\ pc[p] \notin {"idle", "orphan"}
    /\ lost' = (lost \/ (fd[p] /\ pc[p] # "locked"))
    /\ holder' = LockAfterCrash(p)
    /\ IF cur[p] # "none"
       THEN /\ pc' = [pc EXCEPT ![p] = "orphan"]
            /\ todo' = [todo EXCEPT ![p] = IF cur[p] = "magic" THEN @ \ {"kasumi"} ELSE {}]
            /\ UNCHANGED <<fd, choice>>
       ELSE /\ pc' = [pc EXCEPT ![p] = "idle"]
            /\ fd' = [fd EXCEPT ![p] = FALSE]
            /\ choice' = [choice EXCEPT ![p] = NoChoice]
            /\ todo' = [todo EXCEPT ![p] = {}]
    /\ UNCHANGED <<boot, claimed, plan, live, files, cur, stage, result, view>>

\* Files survive; the lock, the processes, the mounts and the rules do not, and
\* the markers of the claim and of the plan carry the old boot's identity.
Reboot ==
    /\ boot < MaxBoots
    /\ boot' = boot + 1
    /\ claimed' = FALSE
    /\ plan' = {}
    /\ live' = {}
    /\ holder' = None
    /\ pc' = [p \in Procs |-> "idle"]
    /\ fd' = [p \in Procs |-> FALSE]
    /\ choice' = [p \in Procs |-> NoChoice]
    /\ todo' = [p \in Procs |-> {}]
    /\ cur' = [p \in Procs |-> "none"]
    /\ stage' = [p \in Procs |-> "none"]
    /\ result' = [p \in Procs |-> NoResult]
    /\ view' = [r \in Readers |-> NoView]
    /\ lost' = (lost \/ \E p \in Procs : fd[p] /\ pc[p] \notin {"idle", "locked"})
    /\ UNCHANGED files

-----------------------------------------------------------------------------
(* Snapshots: prepare_snapshot() and finish_snapshot().                    *)

Publishable == Loads /\ ~pending /\ ~invalid

\* A shared lock, then one read. Anything short of that reports every module
\* unknown and ends at once.
SnapshotBegin(r) ==
    /\ view[r] = NoView
    /\ holder = None
    /\ Publishable
    /\ view' = [view EXCEPT ![r] = db.mods]
    /\ UNCHANGED <<boot, claimed, plan, live, files, holder, procs, lost>>

\* The live kernel has been read and the lock is closed.
SnapshotEnd(r) ==
    /\ view[r] # NoView
    /\ view' = [view EXCEPT ![r] = NoView]
    /\ UNCHANGED <<boot, claimed, plan, live, files, holder, procs, lost>>

\* summarize(): recorded evidence against the live kernel.
Verdict(entry, m) ==
    LET expected == {x \in Parts : entry.parts[x] # "no"}
        present == {x \in Parts : entry.parts[x] = "captured" /\ <<m, x, entry.backend>> \in live}
    IN IF entry.backend = "absent" \/ \E x \in Parts : entry.parts[x] = "blind"
       THEN "unknown"
       ELSE IF present # {}
            THEN IF entry.complete /\ present = expected THEN "mounted" ELSE "partial"
            ELSE IF entry.complete THEN "unmounted" ELSE "unknown"

-----------------------------------------------------------------------------
\* A first boot, an upgrade over an old or damaged record, or a record that an
\* earlier boot left behind, cleanly or not.
Init ==
    /\ boot = 1
    /\ claimed = FALSE
    /\ plan = {}
    /\ live = {}
    /\ db \in [kind : {"none", "bad", "good"}, boot : {0}, gen : {0}, mods : {NoModules}]
    /\ pending \in BOOLEAN
    /\ invalid \in BOOLEAN
    /\ holder = None
    /\ pc = [p \in Procs |-> "idle"]
    /\ fd = [p \in Procs |-> FALSE]
    /\ choice = [p \in Procs |-> NoChoice]
    /\ todo = [p \in Procs |-> {}]
    /\ cur = [p \in Procs |-> "none"]
    /\ stage = [p \in Procs |-> "none"]
    /\ result = [p \in Procs |-> NoResult]
    /\ view = [r \in Readers |-> NoView]
    /\ lost = pending

OperationStep(p) ==
    \/ Publish(p) \/ OpenRecord(p)
    \/ Claim(p) \/ Inventory(p) \/ StopBoot(p) \/ Select(p) \/ EndBoot(p)
    \/ Refresh(p) \/ EndRefresh(p) \/ SwapKasumiModule(p) \/ Teardown(p)
    \/ ForkChild(p) \/ Finish(p)

ChildStep(p) == OpenRules(p) \/ AbortPass(p) \/ Attach(p) \/ Record(p)

Next ==
    \/ \E p \in Procs :
         \/ Begin(p) \/ BeginUnlocked(p)
         \/ OperationStep(p) \/ ChildStep(p)
         \/ ChildDies(p) \/ Crash(p)
    \/ \E r \in Readers : SnapshotBegin(r) \/ SnapshotEnd(r)
    \/ Reboot

Spec == Init /\ [][Next]_vars

\* The scheduler runs every process; nothing promises who is granted the lock.
FairSpec ==
    /\ Spec
    /\ \A p \in Procs : WF_vars(OperationStep(p)) /\ WF_vars(ChildStep(p))
    /\ \A r \in Readers : WF_vars(SnapshotEnd(r))

-----------------------------------------------------------------------------
(* Properties.                                                             *)

\* Every variable has its type.
TypeOK ==
    /\ boot \in 1..MaxBoots
    /\ claimed \in BOOLEAN
    /\ plan \in SUBSET Modules
    /\ live \in SUBSET Attachments
    /\ db \in Database
    /\ pending \in BOOLEAN
    /\ invalid \in BOOLEAN
    /\ holder \in Procs \cup {None}
    /\ pc \in [Procs -> Phases]
    /\ fd \in [Procs -> BOOLEAN]
    /\ choice \in [Procs -> Choices]
    /\ todo \in [Procs -> SUBSET ChildBackends]
    /\ cur \in [Procs -> ChildBackends \cup {"none"}]
    /\ stage \in [Procs -> {"none", "open", "attach", "record"}]
    /\ result \in [Procs -> [Modules -> Evidence]]
    /\ view \in [Readers -> [Modules -> Entry] \cup {NoView}]
    /\ lost \in BOOLEAN

\* Operations are serialized across processes, forked children and crashes: at
\* most one process is inside a locked Operation, it (or the child that
\* outlived it) owns the flock, and no snapshot is being taken meanwhile.
OneWriter ==
    /\ \A p \in Procs : fd[p] => holder = p /\ \A r \in Readers : view[r] = NoView
    /\ holder # None => fd[holder]

\* After an Operation died half-way or an observation could not be published,
\* no snapshot reports anything definite until a full boot inventory has
\* rewritten the record ("An unfinished operation remains visibly unknown").
LostStaysUnknown == lost => ~(Publishable /\ holder = None)

\* A record a snapshot would accept is true of the kernel: a module it calls
\* unmounted has nothing attached, and for one it calls mounted everything
\* attached is evidence it recorded under the right backend.
DefiniteIsTrue ==
    Publishable /\ holder = None =>
        \A m \in Modules, x \in Parts, b \in ChildBackends :
            <<m, x, b>> \in live =>
                LET v == Verdict(db.mods[m], m)
                IN /\ v # "unmounted"
                   /\ v = "mounted" => b = db.mods[m].backend /\ db.mods[m].parts[x] = "captured"

\* The same of the answer a reader computes: the shared lock keeps the record it
\* loaded and the kernel it then reads in step, whoever else is running.
SnapshotIsTrue ==
    \A r \in Readers : view[r] # NoView =>
        /\ view[r] = db.mods
        /\ \A a \in live : Verdict(view[r][a[1]], a[1]) # "unmounted"

\* The lock never stays taken: an Operation ends, or its process dies and the
\* mount child that kept the lock ends.
LockIsReleased == (holder # None) ~> (holder = None)

=============================================================================
