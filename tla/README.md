# Kagami in TLA+

Kagami is an Android metamodule: a root daemon mounts the files of the installed
modules over the system through OverlayFS, Magic Mount or the Kasumi kernel
module. This directory holds TLA+ models of its C++ core (`src/src`), the TLC
configurations that check them and the TLAPS proofs about them. Source lines are
given for every definition in `PROJECT.json`.

    tlc -workers 2 -config MCModuleRuntime.cfg MCModuleRuntime     # any run
    tlapm ModuleRuntimeProofs.tla                                  # any proof module

## 1. The system

| Component | State it keeps | Operations | Talks to |
|---|---|---|---|
| Daemon (`core/daemon.cpp`) | socket, pid file, lifetime lock, Kasumi connection | start, probe, serve one command at a time, stop | clients (socket), every command |
| Boot orchestrator (`mount/backend.cpp`) | `run/mount_orchestrator_boot`, `boot_attempts`, `mount_disabled` | mount-all, unmount-all, refresh, watcher, recovery | LKM, backends, module record |
| Module record (`mount/module_runtime.cpp`) | `lock`, `pending`, `invalid`, `state` under `run/module_runtime` | Operation, assign, capture, record, snapshot | every mount operation, module list |
| LKM (`core/lkm.cpp`, `mount/kasumi_client.cpp`) | ownership file, unload status in memory, control file, instance watch | load, unload, force-unload, retain | kernel, other root processes |
| Kasumi backend (`mount/kasumi.cpp`) | `kasumi_active`, mapping plan, hot-unmounted markers, hide rules | mount, unmount, deactivate, replay, apply config | kernel module, module record |
| OverlayFS (`mount/overlayfs.cpp`) | `overlay_mounts.list` | stack the modules' directories over a leaf, unmount | kernel, mirror, module record |
| Magic Mount (`mount/magic_mount.cpp`) | `magic_mounts.list`, merged tree | merge, bind, move skeletons, unmount | kernel, module record |
| Mount helper (`mount/mount_fs.cpp`) | child in init's mount namespace | run_in_init_mount_ns, journals and their identities | backends |
| Storage (`mount/storage.cpp`) | shared mirror and its image, `mirror_mounts.list` | prepare, copy, release | kernel, OverlayFS, Kasumi |
| Log (`core/log.cpp`) | `daemon.log`, `.old`, `.boot`, `.lock` | rotate once a boot, append | everybody, and `module/metamount.sh` |
| Settings (`core/config.cpp`, `core/lkm.cpp`) | `config.json` in two formats, legacy autoload file | read, merge, replace atomically | commands, `config gen`, the hooks |
| Module rules (`mount/module_settings.cpp`, `mount/kasumi_rule_index.hpp`) | `module_rules.json`, `module_bypass.json` | update, find the rule of a path, plan | commands, Kasumi backend |
| Commands (`core/command.cpp`) | none | dispatch | all of the above |
| Web interface, codecs, packaging | none that matters here | | |

What makes it hard:

- **Several processes.** The hooks, the daemon, other controllers and the user's
  commands share files and the kernel. Mount work runs in a forked child in
  init's namespace, and a child outlives a killed parent with what it inherited.
- **Crashes.** Root processes are killed at will, and a bad mount takes the whole
  device down. Files survive a reboot; mounts, rules, locks and the instance of
  the kernel module do not.
- **The kernel is the truth.** What the files say must not contradict it, whoever
  wrote last.
- **Check, then act.** A module checked may be replaced before it is connected
  to, quiesced or deleted; a socket probed may be bound by another process.
- **Layers.** Two backends mount over one tree, one above the other, each with a
  journal of its own; a mount over a directory hides what was mounted below it.
- **Time.** A watcher polls for five minutes, quiescing for three seconds.

What correctness means, component by component: operations on the record are
serialized and what the record says definitely is true of the kernel; a module
set that keeps the device from booting stops being mounted, and a boot mounts
once; the daemon that serves is the one clients reach, commands never overlap and
clients never hang; Kagami retains, quiesces and deletes only the kernel module it
loaded; an enabled Kasumi serves the plan of the boot or nothing, and commands
report what is installed; every mount that is left is in a journal, unmounting
leaves none of ours and touches nobody else's; whichever backend mounts it, a
module's tree is shown over the stock one as if all were stacked; the log of this
boot and of the last are both kept, apart; an update of the settings changes what it
names and nothing else; and every file of a module follows the rule with the longest
prefix of its path.

## 2. The modules

### ModuleRuntime

The record. Its four files are `db`, `pending`, `invalid` and the flock, of which
`holder` and `fd` say who owns it: `fd[p]` is `writer.fd >= 0`, and an owner that
died stays `holder` while its mount child lives, because the child inherited the
descriptor. `live` is the kernel: which part of which module is attached by which
backend. A part is a mount point or the target of a rule; identity of mounts and
rules is abstracted to whether the recorded evidence matches what is attached
(`captured`), is missing (`missed`) or cannot be told (`blind`).

One action per step between which a process can die: `Begin`, `Publish` and
`OpenRecord` are the constructor of `Operation`; `Claim`, `Inventory`,
`StopBoot`, `Select` and `EndBoot` are mount-all; `Refresh` and `EndRefresh` the
replay of Kasumi's mappings; `SwapKasumiModule` the load or unload of the kernel
module; `Teardown` is unmount-all; `ForkChild`, `OpenRules`, `AbortPass`,
`Attach` and `Record` the pass of one backend in its child; `Finish` is
`finish()` and the destructor. `ChildDies`, `Crash` and `Reboot` may happen
anywhere. `SnapshotBegin` and `SnapshotEnd` are a reader, with the shared lock
held between them, and `Verdict` is `summarize()`.

### BootFuse and BootRecovery

`BootFuse` is what bootloop protection promises: a fuse with a number of tries,
which blows when they are used up and is reset by a completed boot or the user. Two
weaknesses are part of it, as they are of the code: a boot that stays up until its
watcher gives up is confirmed without completing (`Outlast`), and a kill or a reboot may
take along a count that this boot is writing or has written (`Lose`).
`BootRecovery` is the code: the claim marker, the autoload of the kernel module,
the disable marker and counter, the two steps of writing the counter, the
watcher with its polls (`WatcherConfirms` clears the counter however they end), both
confirmations, the reset, kills of the daemon and deaths of the device. The counter is
truncated in place and never synced, so the next boot may find what was there before or
nothing (`Found`). The ghosts `outlasted` and `torn` count how often the counter was
lost in one of these ways since a boot completed. `Chance` and `Count` map the files to
the fuse, and `FuseSpec` is checked by TLC and proved.

### DaemonLifecycle

Processes in `serve_foreground()`, by the place they have reached (`pc`), with
the socket path, the pid file, the lifetime lock, a queue of callers for each
listening socket, and clients that wait for an answer. A command may fork a mount
child (which inherits lock and socket) or run a helper (which inherits the socket
only, since the lock is `O_CLOEXEC`). `Kill` may hit a daemon anywhere.
`start_background()` is a client's ping, a `Launch`, and pings again. Its budget
of 20 pings 50 ms apart is not modelled.

### LkmOwnership

The daemon's `load` and `unload`, step by step, with the kernel's module slot
`lkm`. An instance is numbered by the nonce it was inserted with; another root
process may insert one with a nonce of its own (`other`) or none (`stranger`),
open it, watch it, and remove it when nobody has it open. `Token` is
`module_instance_token()`, and `watch` the eventfd that tells when the cached
nonce is stale; `persistent`, `fd` are the connection; `ready` and `quiesced` are
the unload status kept in memory. The kernel side (GET_FD refused after PREPARE,
READY only without other control files, delete refused while referenced) is
external and follows the interface header `include/kagami/kasumi_uapi.h`.

### KasumiControl

Commands on the state that Kasumi's commands share: the kernel's `gate` (the
enabled switch), mapping `rules` and `hides`, the markers under `run/`
(`kasumi_active`, `kasumi_mapping_plan`, `hot_unmounted/`), the user's hide rules,
and what the runtime record says of Kasumi's modules. Markers that name a boot are
numbers of boots, so one left by an earlier boot matches no other. Commands are
serial (that is `DaemonLifecycle`), so there is one `run`, whose `at` names the
next call or write; every one may fail (`Faults` says which kinds do), and `Kill`,
`ChildDies` or `Reboot` may come before it.

`Config` to `Abandon` are `apply_config_file()`; `Refresh` to `Gate` are
`refresh_kasumi_modules()` with the mount child's `MapModules` to `Commit`, which
mount-all shares (`Inventory`, `Select`, `Plan`); `Down`, `Clear` and `Forget` are
`deactivate()`, which returns to `run.back`. A module's rules are one member of
`rules`, added by one step that succeeds or fails as a whole; merging them into one
index is left to RuleIndex. A failed update of the record leaves it invalid and so
empty, as only a new inventory makes it readable again.

`damaged` is a ghost: in this boot a command was killed, state could not be taken
down, or a module just inserted was left empty. `kasumi_active` may then be true of
a kernel without rules (`config apply` believes it, `command.cpp:695`), and the two
properties that compare files with the kernel say nothing.

### MountJournal

What is attached in init's namespace (`mounts`), KernelSU's list of paths to unmount
for apps (`registered`), and the three journals. A mount has a place and an
identity; the latest one at a place is what is seen there, and detaching a place
takes what was mounted below it along. `ReadJournal` to `RemoveJournal` are the
teardown of a journal, `GatherFiles` to `RegisterMounts` the pass of Magic Mount,
`AttachMirror` to `SyncContent` the mirror, `AttachOverlay` to `SaveOverlays` the pass
of OverlayFS, `RollBackOne` what both do when a call fails. Every call may fail, the
child may be killed before every one, and another root process may mount over or
unmount a place while no pass is under way.

Identities are not reused within a boot. A death between `umount2` and the removal from
KernelSU's list is a failed removal followed by a death. `damaged` and `leaked` are
ghosts: `damaged` says that a pass was killed before its journal named what it had
attached, that `umount2` or the reading of a journal failed, or that somebody else
interfered, in which case the code has nothing to find a mount by. `leaked` holds
paths left on KernelSU's list although no journal is kept: OverlayFS and the mirror
skip a record that no longer matches and then forget it, so a removal from the list that
failed is not tried again; Magic Mount keeps such a record.

### ModuleTrees

What a device shows, for one partition: `Collect` merges a module's tree into Magic
Mount's (`collect_into`), `Walk` binds and builds skeletons, `Plan` validates what
OverlayFS was given, `MountLeaf` overlays one leaf above what is already shown, and
`MountChild` puts back one of the sub-mounts that hides, a shallow one before those
within it, as `child_mounts` lists them. `target`, `pinned` and `children` are the
locals of `mount_overlay` between these steps: the leaf, what was shown when `chdir`
pinned it, and the sub-mounts still to come. Any of `SubMounts` may be the device's own,
and the files Magic Mount has bound are sub-mounts too. What an overlay is stacked on is
the pinned directory as its own file system has it (`Bare`), without what is mounted
below it.

The reference is `Stacked`: for every path, the highest layer that says something of it,
with whiteouts, opaque directories and files hiding what is below. A single module that
cannot be represented makes its backend refuse all of its modules (`refused`), as the
code does. What counts for `CreditedShow` is the stock partition and the modules above: a
module that only hides an entry of a lower module need not be credited, and is not.
The specification is `TreesSpec`, so that one module can hold the proofs about it and
`BootRecovery`.

### BootLog

`prepare_locked()` step by step, under the flock: the marker's two phases, the
rename, the new file, the append; a writer may fail or die at each. `metamount` is the
mount hook, which truncates the log outside of the lock (`metamount.sh:18`). The ghosts
`cut` and `hasty` set aside what that loses: lines written before it in this boot, and
the last boot's log when nothing had rotated it yet (the hook of post-fs-data could
not write).

### Settings

`config.json` as a function from the keys it has to values, or missing, or broken; the
legacy autoload file, which may be there with any of these; and the lock.
`apply_config_document` is what a document means, with the legacy switch,
`merge_config_json` what a patch makes of it, `migrated` the step from
one format to the other. `Begin`, `Prepare`, `Rename` and `RemoveLegacy` are a command,
`Fail` an error or a death at any of them. Two of the four projections stand for all;
the version is a boolean, 2 or more.

### ModuleRules

`RuleIndex` as the code has it: `one_by_one` up to `linear_limit` rules and
`by_prefixes` with `lower_bound` above it, on the order of strings, for which a path is
a sequence of numbers with `-` below `/` and `/` below the letters. `planned` is `compile_tree()`: which
rules the kernel is given for a module's tree. `Load`, `Save` and `SaveBypass` are the
commands that change the two files; setting the mode of a whole module is the
latter with another file. Its specification is `RulesSpec`: the names differ from those of
`DaemonLifecycle`, so that one module can hold the proofs about both.

The `MC` modules only give constants their values. The `M_...` definitions in
each module are faulty variants of the definition after them, each a plausible
mistake in the code: substituting one must make the named property fail
(`PROJECT.json`, "mutants").

## 3. The runs

| Run | Shows | Bounds |
|---|---|---|
| `MCModuleRuntime` | types, one writer, a loss stays visible, what is definite is true, so is every snapshot | 2 processes, 1 reader, 2 modules of 1 part, 2 boots, 2 generations |
| `MCModuleRuntimeFaults` | definite answers stay true, and the lock is always released, when the lock or `pending` fails | 2 processes, 1 reader, 1 module, 1 boot |
| `MCBootRecovery` | bound on unconfirmed boots, one mount pass a boot, the watcher suffices, refinement of the fuse | 3 attempts as in the code, 2 polls, 6 boots, any losses of the counter |
| `MCDaemonLifecycle` | the serving daemon is reached, commands are serial, clients are answered, a launch serves | 2 servers, 2 clients |
| `MCLkmOwnership` | only Kagami's instance is kept, quiesced, deleted; READY is not forgotten | 3 insertions of any kind of module |
| `MCKasumiControl` | an enabled Kasumi serves the plan or nothing, what is reported is installed, rules are added behind the gate, module hides survive the user's | 2 modules that hide one path, a second path only the user hides, 2 boots; every fault but `markers` |
| `MCMountJournal` | what is attached is named by a journal, unmounting leaves nothing of ours, nobody else's mount is detached | one magic bind below an overlaid leaf with a stock sub-mount, a second leaf, a mirror of two mounts, 2 boots, 2 faults a boot of every kind |
| `MCMountJournalRetry` | *violated:* a successful unmount-all leaves nothing of ours | same, 1 boot, 1 failed read |
| `MCModuleTrees` | both backends show what the stacked layers show, and credit the modules that show | 4 paths in 3 levels, any of 2 sub-mounts one in the other, 2 or 3 modules, every backend for each |
| `MCBootLog` | the last boot's log and this one's are kept, apart | 2 writers, 3 boots of 2 lines, 3 inodes |
| `MCSettings` | only what a command names changes, what was saved is in effect | 5 older documents or none, with and without the legacy file, 7 patches, the daemon and one `config gen` |
| `MCModuleRules` | index, search and plan agree with the longest prefix, no rule is lost | 12 rules of 2 modules, 3 at a time, `linear_limit` 1, 3 trees |

Why the bounds suffice: two processes are all a race for one lock needs, and a
third adds only symmetric copies (processes and modules are symmetric, and the
run without liveness uses that). Two modules are needed where one backend's
record could stand for another module; two boots for a stale record; two
generations for the limit. Six boots are twice the attempts, so the count can be
used up, reset or lost, and used up again; two polls tell a watcher that
goes on waiting from one that gives up. Three servers with one client also pass by
hand (83,826 states); the queue of 8 is never full with fewer callers. Three
insertions give an instance of Kagami's, one that replaces it and one that
replaces that. For Kasumi, two modules let one be hot-unmounted or fail while the
other is served, the two paths are one that a module hides and one that none does,
and the second boot is for markers that outlive the first; commands of a boot are
not bounded. A mount is at risk when one backend's place is above another's; two
faults are a failure and the failure of undoing it, or of two boots. The tree
has each case of merging once: an entry, a directory, and an entry within it; the last
two may be sub-mounts, so that one has to be put back within another. Three
boots rotate a log that was itself the result of a rotation, and three inodes are one
more than the files, so that they are reused. With `linear_limit` 1 (8 in the code) the
rules of one file take both ways of searching, and a third rule is one between
the path's and the one that decides.

**Fairness.** `MCBootRecovery`: the kernel schedules the watcher while the device
is up. `MCModuleRuntimeFaults`: every process inside an operation and its child
run; nothing is assumed about who is granted the lock. `MCDaemonLifecycle`: a
server that can take a step takes it, a mount pass or helper ends, and a command
ends (strong fairness on `EndCommand`, since it is disabled whenever it forks;
commands fork finitely often). Nobody is obliged to start, stop or kill anything.

**What the flags show.** With `InvalidFails`, `DefiniteIsTrue` fails: the
`invalid` marker is the last line of defence and an unwritable `run/` defeats it.
With `LockFails`, `SnapshotIsTrue` fails, because an operation without the lock
still mounts. With `SwapsDuringDelete`,
`DeletesOurs` fails, because `delete_module` takes a name. With `markers` among the
`Faults`, `ReportedIsInstalled` fails: `command.cpp:1450` does not look at whether
the `hot_unmounted` marker was written. These are limits the
code accepts; the runs keep the flags FALSE and the proofs assume so.

## 4. Where code and comments disagree

- `backend.hpp:87` says that unmount-all tears everything down. When one read of the
  overlay journal fails, Magic Mount's binds below an overlay are not seen any more,
  their records are dropped, and the next unmount-all reports success with the binds
  attached (`MCMountJournalRetry`, `EverythingTornDown`).
- `module_runtime.hpp:20` promises that an unfinished operation remains visibly
  unknown. If `pending` cannot be written, a later inventory forgets it.
- `boot-completed.sh:7-9` says that a boot that hangs leaves the counter climbing until
  mount-all disables mounting, and `backend.cpp:165` that the watcher clears the counter
  once boot has completed. It also does so after 150 polls without that, so a module set
  whose boots hang for longer than five minutes is mounted in each of them
  (`MCBootHang.cfg`, `HangsAreStopped`). What is left of the bound is `BootloopBound`: as
  many boots again for every boot that outlasts its watcher, and for every count lost to
  a write torn by a death (`backend.cpp:158-163` truncates in place).
- `lkm.cpp:479` says that an explicit legacy autoload setting remains honored. It is while
  `config.json` is missing, until an update of any other setting: that starts the file
  from defaults with `"lkm_autoload": false` (`config.cpp:146`, `285-295`), and autoload
  is off although no command was about it (`MCSettingsLegacy.cfg`, `LegacyStaysHonored`).
  `OnlyTheNamed` therefore excepts autoload in that one update. The hooks rarely leave
  it to an update: `customize.sh:31` and `post-fs-data.sh:12` run `config gen` when the
  file is missing, which loses the legacy setting as well.
- `boot-completed.sh:6` says that a looping boot keeps the counter climbing. A
  crash while autoloading the kernel module is not counted.
- `daemon.cpp:265` says that a control file is kept only for Kagami's own
  instance. A force-unload that fails keeps somebody else's.
- `module_runtime.hpp:20` also promises that a failure to observe never changes
  what is mounted. A record that cannot vouch for the modules' hide rules makes
  `config apply` disable Kasumi (`kasumi.cpp:433`), until the next boot.
- `backend.hpp:66` lists the markers that keep a module out of the enumeration. The
  hot-unmounted marker does too (`backend.cpp:272`) and outlives its boot; the
  module can then not be hot-mounted, and the reboot the message asks for does not
  help (`command.cpp:1438`).

The first is a run that is expected to fail, so a fix of the code and model turns up
as a run that no longer does. `MCBootHang.cfg` (of `MCBootRecovery`) and
`MCSettingsLegacy.cfg` (of `MCSettings`) are not among the runs of `PROJECT.json`: TLC
refutes each with a counterexample of that entry's story (32 and 4 states). The others
are seen by changing a line of a component's `.cfg`: `LostStaysUnknown` fails with
`PendingFails`; and TLC refutes `CrashLoopEnds`, `RetainedIsOurs`,
`ObservationIsPassive` (with `Faults = {"record"}`) and `EveryModuleIsEnumerated` (with
no fault), which state the comments and stand in the modules for that purpose.

## 5. The proofs

All hold for every value of the constants within the modules' named assumptions.

- **ModuleRuntimeProofs.** `TypeCorrect`; `WriterIsExclusive`, where `OneWriter`
  needs only that an idle process has no descriptor (`WriterInv`);
  `LossStaysVisible`, which assumes `MarkersWork` (neither marker fails).
  `LostStaysUnknown` is not inductive: it must be known that every loss is
  covered by `invalid`, or by a `pending` whose owner cannot remove it any more
  (`Covered`), that a published operation has its `pending` (`PendingInv`), and
  that a child runs only under a waiting or dead parent (`ChildInv`).
  `RecordIsTrue` (`DefiniteIsTrue`) assumes that `invalid` can be written, and
  `AnswerIsTrue` (`SnapshotIsTrue`) also that every operation gets its lock; TLC
  refutes both without (§3). Their invariant has two halves. `ControlInv` says who may
  attach and what, whatever becomes of the record: one process claims the boot, nothing
  is attached until it has selected backends (`ClaimInv`), it alone mounts until its plan
  is committed (`MountingInv`), and what is attached for modules of the plan is Kasumi's
  (`PlanInv`). `RecordInv` says what the record owes to that: what a pass has still to
  attach is recorded as incomplete and its result names what it has attached
  (`WorkInv`), an operation that goes on without the lock has left the record invalid or
  naming no module (`LooseInv`), and so a complete entry names all that is attached for
  its module (`TruthInv`).
- **BootProofs.** About `BootRecovery`: `TypeCorrect`; `MountsOnce` from `ClaimInv`, which ties
  the stages of mount-all and the watcher to a claim of this boot;
  `BootloopBounded`, from `CountInv`: the counter, or what the orchestrator read
  of it, and a limit for every loss of it so far (`Budget`) are together ahead of the
  unconfirmed mounts at every instant;
  `FuseImplemented`, that each step is a step of `BootFuse` or stutters. Neither
  assumes anything about hangs or torn writes.
  About `ModuleTrees`, the two backends a boot mounts with: `TreesTypeCorrect`,
  `ShowsUnion` (`UnionShown`) and `CreditsShown` (`CreditedShow`), for any partition, any
  modules and any sub-mounts. Most of it is about the operators. What a path shows of a
  stack of layers is characterised without a minimum: the layer that is there with none
  above it that is, or that cuts it off (`Top`), or else what lies below them all if they
  let it through (`Lets`); `Merged` says so and is what `Stacked` computes. A stack over a stack is one stack (`LayersOver`,
  `LayersOverLayers`), and so OverlayFS above Magic Mount may be taken one backend at a
  time. For Magic Mount, `Grown` says what the merged tree is after some of the modules:
  at each path the first entry that nothing cuts off, and whether a cut below it came
  from a later one; with it the walk shows what the stack does (`MagicShows`), and an
  entry that changes the stack has an owner in the record. For OverlayFS, the layers
  `select_layers` keeps for a path show there what all layers would (`SelectedShows`).
  The union is not inductive, as between two steps sub-mounts are still hidden. The
  invariant, `TreesInv`, says what the merged tree is made of (`Merging`); what is
  shown before and after the overlays, and what was pinned (`Viewed`); that leaves
  done show the union and others what Magic Mount left (`Overlaid`); and that the leaf
  under way shows the union of its layers over the pinned tree without the sub-mounts
  still to be put back (`PutBack`), which is why a sub-mount has to be put back before one
  within it.
- **DaemonProofs.** About `DaemonLifecycle`: `TypeCorrect`; `ServingIsReached` and
  `CommandsSerialized`, from `OwnerInv`: whoever is past the lock holds it (`OwnersLock`),
  so does a mount child (`ChildrenLock`), the owner's socket is at the path (`AtPath`) and
  the pid file names an owner (`Named`). About `ModuleRules`, whose commands the daemon
  serializes: `RulesTypeCorrect`, `RulesKeptCorrect` and `LongestPrefixCorrect`
  (`LongestPrefixDecides`). The invariant, `RulesInv`, is short: a path has one rule, and
  what a command has read is still what the file has. The rest is about the operators, for
  rules and trees of any size: `lower_bound` finds the first element its predicate is false
  of (`BoundFound`, by induction up to a number), strings are ordered (`LessIsTransitive`,
  `LessIsTotal`), so what is sorted by them is what `prepare_index` leaves (`OrderedRight`) and
  `exact` finds a path in it; the walk up the path skips no prefix a rule could be for
  (`CutRight`), so it and the plain search both find the last of the longest (`OneBest`);
  what `nested_at` skips comes first, and of what it does not skip the names inside
  the path come first (`AheadFirst`, `FirstWithin`). With that, what holds of a directory
  that no rule is about part of holds of all in it (`SameInside`), and what is not visited
  lies in a directory that is, at which the planner stopped (`StoppedAbove`): the plan does
  what the rules say (`PlanFollows`).
- **KasumiControlProofs.** `TypeCorrect`; `AddedBehind`, from `GateInv`: between the
  reset and the last rule of a command that installs, the gate is down, provided
  the reset did not fail; `HidesSurvive`, from `HideInv`: nothing is mapped between
  a reset and the first rule, the record knows nothing for certain while rules are
  added, and afterwards a module it calls complete is recorded with the rules it
  hides by. Faults are not restricted: both hold with every kind of them.
  `PlanIsServed` (`ServedIsThePlan`) and `ReportIsTrue` (`ReportedIsInstalled`) assume
  that markers of `hot_unmounted` can be written (`~Fault("markers")`); TLC refutes the
  second without (§3). Neither is inductive: between commands `gate` tells nothing of
  `rules`, and a command begun by changing a marker changes what is due before the
  kernel follows. So the invariant goes by the place a command has reached: which
  commands come there and return where (`RouteInv`); that the module is there and the
  boot's pass came first (`KernelInv`); that the modules selected are still those due
  (`ChosenInv`); and, in a boot that is not `damaged`, that the rules are what is due,
  what was due before the marker changed (`Formerly`), or none and `kasumi_active` does
  not claim them (`RulesInv`), and that as long as nothing failed all selected modules
  but those of `todo` are installed (`BuiltInv`).

- **LkmOwnershipProofs.** `TypeCorrect`; `OnlyOursTouched`, from `NamesOurs` (the ownership
  file names the instance Kagami inserted or one that is gone), `Pinned` (an open
  control file keeps its instance in the slot) and `About` (what each step of load and
  unload has established of it); `ReadyRemembered` from `ReadyInv`. All assume
  that no instance is swapped within `delete_module` (`~SwapsDuringDelete`).
- **BootLogProofs.** `TypeCorrect`; `RotationKeepsLogs`, from four parts: where every
  writer is and what it holds (`PlaceInv`), whose lines the two files have (`LinesInv`),
  that a pending marker names the file to be rotated and no other (`RotationInv`), and
  where the last boot's lines are at every step (`BeforeInv`).
- **SettingsProofs.** `TypeCorrect`; `OnlyNamedChanges`, from what each operation keeps
  (`UpdateKeeps`, `MergeKeeps`, `MigrationKeeps`); `SavedTakesEffect`. The invariant says
  that a `config.json` is written only under its lock (`LockInv`), what the one in
  preparation will say (`DraftInv`), and that a legacy switch survives only where the
  migration leaves it (`LegacyInv`). A patch
  that lowers the version names what the switch drives, as the document is then of the
  old format again (`Switches`).
- **MountJournalProofs.** `TypeCorrect`; `OnlyOursAreDetached`. A roll-back goes by path
  alone, so it must be known where each path leads: what a pass attached is recorded in
  the order of its identities, and what was attached since the first of them is
  Kagami's (`Attached`), and detaching in the reverse order takes no later one along
  (`Detachable`). A teardown goes by identity: records of this boot name Kagami's mounts
  or none (`JournalInv`), and a new mount is above all of them (`Bounded`).
  `EverythingFound` (`Accounted`) and `EverythingDown` (`TornDown`) rest on `FoundAgain`,
  whose invariant says, as long as nothing is `damaged`: how mounts lie upon each other, so
  that detaching one takes none along but what was put back upon it (`LayInv`); that
  records name the mounts of their backend in an order they can be detached in (`RefInv`);
  that OverlayFS and the mirror have no record without a mount whose path is still listed,
  as they would forget it (`GoneInv`); that nothing is there before a boot's pass
  (`ClaimedInv`); and, for each stage, where what is attached is named: by a journal, by
  the work list of the pass, or by what the roll-back has still to detach (`PassInv`).
  They assume `PlansApart`: the places of a backend do not lie within each other (Magic
  Mount binds a file or moves a whole skeleton, leaves are children of partition roots),
  and work_dir and mirror are directories apart. Under it the order of a teardown by path,
  as Magic Mount's, is as good as the reverse one the model takes.

Model-checked only: liveness (`LockIsReleased`, `WatcherIsEnough`,
`ClientsAreAnswered`, `LaunchServes`), which the prover does not reach. Every invariant
and action property of the runs that pass is a theorem.

## 6. Not modelled

- Formats of the storage image, discovery of partitions, parsing, codecs,
  packaging and the web interface: see the notes in `PROJECT.json`.
- In `MountJournal`: journals of the first format, the reuse of a mirror that is
  already there, and others who interfere during a pass.
- In `BootRecovery`: a clearing of the counter that does not reach the disk, which only
  leaves a count that is too high.
- In `ModuleTrees`: partitions inside another one's tree (`system/vendor`),
  permissions, contexts and attributes. A skeleton that Magic Mount has moved into place
  (`magic_mount.cpp:525`) is a mount itself, which OverlayFS would put back when it lies
  below a leaf; the model does not list it among the sub-mounts. The files bound in it
  are listed, and the same is shown.
- In `Settings`: Kasumi missing from the build, values of another type,
  `user_hide_rules.json` (which is truncated in place,
  `command.cpp:157`), and the hooks that test the autoload file outside of the lock.
- In `ModuleRules`: symbolic links and aliases of system directories in a rule's path.
- In `DaemonLifecycle`: daemons of the older protocol, file system failures before
  the lock, a client killed after it sent (its command still runs), a probe's empty
  connection, a helper overlapping a new daemon (`CommandsAreSerial` counts mount
  children).
- In `LkmOwnership`: Kasumi built into the kernel, reboots (a nonce carries the
  boot), a helper that inserts after it was killed, others calling PREPARE, and the
  failure of an eventfd.
- In `KasumiControl`: bypass flags, commands that switch one feature, `kasumi
  hide-path` and `delete-rule`, settings files that cannot be saved, a load that
  fails (that is `LkmOwnership`), others that insert or remove the module, and a
  mount-all whose modules change while it runs.

## 7. Plan

1. An abstract specification of mounts (the set that can be found again), with
   `MountJournal` shown to implement it, and `ModuleRuntime` over it.
2. An abstract specification of Kasumi's control (served or not, and by which
   modules), with `KasumiControl` shown to implement it, and one event "rules lost"
   shared with `ModuleRuntime` and `LkmOwnership`.
