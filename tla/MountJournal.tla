----------------------------- MODULE MountJournal -----------------------------
(***************************************************************************)
(* What Kagami attaches to init's mount namespace, and the journals by     *)
(* which it finds it again: the pass of Magic Mount (magic_mount.cpp), the *)
(* pass of OverlayFS (overlayfs.cpp) with the mirror its layers live in    *)
(* (storage.cpp), and unmount_all() of backend.cpp, on the primitives of   *)
(* mount_fs.cpp.                                                           *)
(*                                                                         *)
(* A pass runs in a child of the controller; the lock of ModuleRuntime     *)
(* keeps two of them apart. Any call may fail, the child may be killed     *)
(* before any of them, and other root processes may mount and unmount      *)
(* while no pass is under way. Journals survive a reboot, mounts do not.   *)
(***************************************************************************)
EXTENDS Naturals, Sequences, FiniteSets, FiniteSetsExt, SequencesExt

CONSTANTS
    Places,      \* mount points
    Above,       \* the places above each of them in the directory tree
    Work,        \* config.work_dir, where Magic Mount builds its skeletons
    Mirrors,     \* the mirror and, on EROFS, its writable layer, in the order they are mounted
    MagicPlan,   \* where Magic Mount binds a file or moves a skeleton, in the order of its walk
    OverlayPlan, \* the leaves OverlayFS has layers for, in the order of their paths
    Stock,       \* what the device comes up with, in the order it was mounted
    MaxBoots,    \* bound: boots of the device
    MaxFaults,   \* bound: faults per boot
    Faults       \* what may go wrong, of FaultKinds

FaultKinds ==
    {"calls",     \* a call that attaches, registers, captures or writes
     "registry",  \* taking a path off KernelSU's list
     "detach",    \* umount2 of a mount that is there
     "reads",     \* reading a journal, or the boot identity
     "deaths",    \* the child is killed
     "others"}    \* another root process mounts over a place or unmounts it

ASSUME JournalAssumption ==
    /\ Above \in [Places -> SUBSET Places]
    /\ Work \in Places
    /\ \A plan \in {Mirrors, MagicPlan, OverlayPlan, Stock} : plan \in Seq(Places)
    /\ Mirrors # <<>> /\ MaxBoots \in Nat \ {0} /\ MaxFaults \in Nat
    /\ Faults \subseteq FaultKinds

\* The places are those of a tree.
ASSUME TreeAssumption ==
    \A p \in Places :
        /\ p \notin Above[p]
        /\ \A q \in Above[p] : Above[q] \subseteq Above[p]
        /\ \A q, r \in Above[p] : q = r \/ q \in Above[r] \/ r \in Above[q]

Unrelated(p, q) == p # q /\ p \notin Above[q] /\ q \notin Above[p]
Scattered(ps) == \A i, j \in DOMAIN ps : i # j => Unrelated(ps[i], ps[j])

\* A skeleton is moved into place with all that was bound in it, leaves are children of
\* partition roots, the writable layer is the mirror's sibling; work_dir and the mirror are
\* directories of Kagami's own, apart from the partitions modules change.
ASSUME PlansApart ==
    /\ Scattered(MagicPlan) /\ Scattered(OverlayPlan) /\ Scattered(Mirrors)
    /\ \A p \in Range(MagicPlan) : \A q \in {Work} \cup Range(Mirrors) : Unrelated(p, q)
    /\ \A q \in Range(Mirrors) : Unrelated(Work, q)

VARIABLES
    boot,        \* the kernel's boot identity
    mounts,      \* what is attached in init's namespace
    registered,  \* KernelSU's list of paths to unmount for apps
    journal,     \* magic_mounts.list, overlay_mounts.list, mirror_mounts.list
    claimed,     \* this boot's mount pass was claimed
    run,         \* the pass under way, or the last one and how it ended
    faults,      \* ghost: faults of this boot
    leaked,      \* ghost: paths that could not be taken off the list, and no journal was kept for
    damaged      \* ghost: in this boot a pass was killed before its journal named what it had
                 \* attached, umount2 or reading a journal failed, or somebody else interfered

vars == <<boot, mounts, registered, journal, claimed, run, faults, leaked, damaged>>
quiet == <<boot, claimed>>

Backends == {"magic", "overlay", "mirror"}
Owners == Backends \cup {"bind", "stock", "other"}
Points == {"idle", "read", "detach", "gather", "work", "first-save", "walk", "save", "register",
           "setup", "finalize", "record", "sync", "leaf", "child", "roll-back"}

\* An identity also tells the order in which mounts were attached: what is
\* attached later hides what lies at or below its place.
Mounts == [at : Places, id : Nat \ {0}, by : Owners]
Records == [at : Places, id : Nat \ {0}]
Attachments == [at : Places, reg : BOOLEAN]
NoJournal == [boot |-> 0, recs |-> <<>>]

\* A pass: its operation ("undo" is Magic Mount cleaning up after itself), the
\* backend, whether all earlier backends and this one went well, the places still to
\* be mounted, the records or attachments still to be detached, what it attached
\* so far, and the sub-mounts of the present leaf still to be put back.
NoRun == [op |-> "none", at |-> "idle", of |-> "magic", all |-> TRUE, ok |-> TRUE,
          plan |-> <<>>, left |-> <<>>, done |-> <<>>, kids |-> {}]
Idle == run.at = "idle"

Ours == {m \in mounts : m.by \notin {"stock", "other"}}

\* A fault happens, within the bound.
Faulty(kind) == kind \in Faults /\ faults < MaxFaults /\ faults' = faults + 1
Smooth == UNCHANGED faults

-----------------------------------------------------------------------------
(* The kernel.                                                             *)

\* The mount a path leads to: the last one at it, unless something was attached
\* above it later.
Seen(p) == {m \in mounts : m.at = p /\ \A x \in mounts : x.id > m.id => x.at \notin {p} \cup Above[p]}
IsMountPoint(p) == Seen(p) # {}

\* Identities in use, those of this boot's journals included.
Named(b) == IF journal[b].boot = boot THEN {rec.id : rec \in Range(journal[b].recs)} ELSE {}
Fresh == 1 + Max({0} \cup {m.id : m \in mounts} \cup UNION {Named(b) : b \in Backends})

Attach(p, who) == mounts' = mounts \cup {[at |-> p, id |-> Fresh, by |-> who]}

\* umount2(path, MNT_DETACH) takes the mount the path leads to, with all that was
\* attached upon it.
Upon(m) == {x \in mounts : x.id > m.id /\ m.at \in Above[x.at]}
Detach(p) == mounts' = mounts \ UNION {{m} \cup Upon(m) : m \in Seen(p)}

\* What mountinfo lists strictly under a place, hidden mounts included.
child_mounts(p) == {q \in Places : p \in Above[q] /\ \E m \in mounts : m.at = q}

-----------------------------------------------------------------------------
(* Journals. A record is the identity found at the path when the journal is  *)
(* written, and counts only in the boot it was written in.                   *)

M_AnyBoot(b) == journal[b].recs
read_mount_journal(b) == IF journal[b].boot = boot THEN journal[b].recs ELSE <<>>

M_Unfilled(p) == [at |-> p, id |-> 0]
Identity(p) == [at |-> p, id |-> (CHOOSE m \in Seen(p) : TRUE).id]
CanWrite(paths) == \A p \in Range(paths) : IsMountPoint(p)
write_mount_journal(b, paths) ==
    /\ CanWrite(paths)
    /\ journal' = [journal EXCEPT ![b] =
                     [boot |-> boot, recs |-> [i \in DOMAIN paths |-> Identity(paths[i])]]]

M_SamePath(rec) == IsMountPoint(rec.at)
mount_matches(rec) == \E m \in Seen(rec.at) : m.id = rec.id

PathsOf(done) == [i \in DOMAIN done |-> done[i].at]
Registered(done) ==
    LET among[n \in 0 .. Len(done)] ==
          IF n = 0 THEN <<>>
          ELSE IF done[n].reg THEN Append(among[n - 1], done[n]) ELSE among[n - 1]
    IN  among[Len(done)]
Did(p, reg) == Append(run.done, [at |-> p, reg |-> reg])

-----------------------------------------------------------------------------
(* Where a pass goes next.                                                 *)

Goes(at) == run' = [run EXCEPT !.at = at]
Onward == [run EXCEPT !.plan = Tail(@)]
Rest == [run EXCEPT !.left = Tail(@)]
Fails(at) == run' = [run EXCEPT !.at = at, !.ok = FALSE]

\* A backend is through: mount_all goes on from Magic Mount to OverlayFS, and
\* unmount_all from each backend to the next, whatever became of the one before.
Over(ok) ==
    LET all == run.all /\ ok
        Then(op, at, of) == [NoRun EXCEPT !.op = op, !.at = at, !.of = of, !.all = all]
    IN  run' = CASE run.op \in {"mount", "undo"} /\ run.of = "magic" -> Then("mount", "setup", "mirror")
                 [] run.op = "unmount" /\ run.of = "overlay" -> Then("unmount", "read", "magic")
                 [] run.op = "unmount" /\ run.of = "magic" -> Then("unmount", "read", "mirror")
                 [] OTHER -> [NoRun EXCEPT !.op = run.op, !.all = all]

\* What a failed backend attached is detached again, the last one first. Magic Mount goes
\* by the paths, in descending order: the same to it, for its places lie apart (PlansApart).
M_FirstFirst(done) == run' = [run EXCEPT !.at = "roll-back", !.ok = FALSE, !.left = done]
RollBack(done) == run' = [run EXCEPT !.at = "roll-back", !.ok = FALSE, !.left = Reverse(done)]

-----------------------------------------------------------------------------
(* Tearing down by the journal: overlay::unmount_all, magic::unmount_all and *)
(* storage::teardown_shared. The second also runs before Magic Mount mounts, *)
(* and when one of its registrations failed.                                 *)

BeginUnmount ==
    /\ Idle
    /\ run' = [NoRun EXCEPT !.op = "unmount", !.at = "read", !.of = "overlay"]
    /\ Smooth /\ UNCHANGED <<quiet, mounts, registered, journal, leaked, damaged>>

ReadJournal ==
    /\ run.at = "read"
    /\ \/ /\ run' = [run EXCEPT !.at = "detach", !.left = Reverse(read_mount_journal(run.of))]
          /\ Smooth /\ UNCHANGED damaged
       \/ Faulty("reads") /\ Over(FALSE) /\ damaged' = TRUE
    /\ UNCHANGED <<quiet, mounts, registered, journal, leaked>>

\* Taking a path off KernelSU's list, in a teardown: a failure keeps the journal,
\* but only Magic Mount's next teardown tries that path again.
Unregister(p) ==
    \/ /\ registered' = registered \ {p} /\ run' = Rest /\ Smooth /\ UNCHANGED leaked
    \/ /\ Faulty("registry") /\ run' = [Rest EXCEPT !.ok = FALSE] /\ UNCHANGED registered
       /\ leaked' = IF run.of = "magic" \/ p \notin registered THEN leaked ELSE leaked \cup {p}

M_MagicForgets(rec) ==
    /\ ~mount_matches(rec)
    /\ run' = Rest /\ Smooth /\ UNCHANGED <<mounts, registered, leaked, damaged>>
SkipRecord(rec) ==
    /\ ~mount_matches(rec)
    /\ UNCHANGED <<mounts, damaged>>
    /\ \/ run.of = "magic" /\ Unregister(rec.at)
       \/ run.of # "magic" /\ run' = Rest /\ Smooth /\ UNCHANGED <<registered, leaked>>

DetachRecord(rec) ==
    /\ mount_matches(rec)
    /\ \/ Detach(rec.at) /\ Unregister(rec.at) /\ UNCHANGED damaged
       \/ /\ Faulty("detach") /\ run' = [Rest EXCEPT !.ok = FALSE]
          /\ damaged' = TRUE /\ UNCHANGED <<mounts, registered, leaked>>

TearDownRecord ==
    /\ run.at = "detach" /\ run.left # <<>>
    /\ SkipRecord(Head(run.left)) \/ DetachRecord(Head(run.left))
    /\ UNCHANGED <<quiet, journal>>

\* The journal is removed only if all went well; Magic Mount's pass goes on after
\* its first teardown and is over after its second.
AfterTeardown(ok) ==
    CASE run.op = "mount" /\ ok -> run' = [NoRun EXCEPT !.op = "mount", !.at = "gather"]
      [] OTHER -> Over(ok /\ run.op # "undo")
RemoveJournal ==
    /\ run.at = "detach" /\ run.left = <<>>
    /\ \/ /\ run.ok /\ journal' = [journal EXCEPT ![run.of] = NoJournal]
          /\ AfterTeardown(TRUE) /\ Smooth
       \/ /\ (run.ok /\ Faulty("calls")) \/ (~run.ok /\ Smooth)
          /\ AfterTeardown(FALSE) /\ UNCHANGED journal
    /\ UNCHANGED <<quiet, mounts, registered, leaked, damaged>>

-----------------------------------------------------------------------------
(* magic::mount_modules, first in the pass: OverlayFS is applied above it.   *)

BeginMount ==
    /\ Idle /\ ~claimed
    /\ claimed' = TRUE
    /\ run' = [NoRun EXCEPT !.op = "mount", !.at = "read"]
    /\ Smooth /\ UNCHANGED <<boot, mounts, registered, journal, leaked, damaged>>

\* The modules may turn out to hold nothing to mount.
GatherFiles ==
    /\ run.at = "gather"
    /\ \/ Goes("work") /\ Smooth
       \/ Over(TRUE) /\ Smooth
       \/ Faulty("calls") /\ Over(FALSE)
    /\ UNCHANGED <<quiet, mounts, registered, journal, leaked, damaged>>

MountWork ==
    /\ run.at = "work"
    /\ \/ ~IsMountPoint(Work) /\ Attach(Work, "magic") /\ Goes("first-save") /\ Smooth
       \/ IsMountPoint(Work) /\ Over(FALSE) /\ Smooth /\ UNCHANGED mounts
       \/ Faulty("calls") /\ Over(FALSE) /\ UNCHANGED mounts
    /\ UNCHANGED <<quiet, registered, journal, leaked, damaged>>

SaveWork ==
    /\ run.at = "first-save"
    /\ \/ /\ write_mount_journal("magic", <<Work>>) /\ Smooth
          /\ run' = [run EXCEPT !.at = "walk", !.plan = MagicPlan]
       \/ /\ Faulty("calls") /\ RollBack(<<[at |-> Work, reg |-> FALSE]>>) /\ UNCHANGED journal
    /\ UNCHANGED <<quiet, mounts, registered, leaked, damaged>>

\* One bind or one skeleton moved into place; it may fail before it is attached,
\* or after, when it is made read-only or private. The walk then stops, and what
\* it committed is saved all the same.
WalkOn ==
    /\ run.at = "walk" /\ run.plan # <<>>
    /\ LET p == Head(run.plan)
       IN  \/ /\ Attach(p, "magic") /\ run' = [Onward EXCEPT !.done = Did(p, FALSE)] /\ Smooth
           \/ /\ Attach(p, "magic") /\ Faulty("calls")
              /\ run' = [run EXCEPT !.at = "save", !.ok = FALSE, !.done = Did(p, FALSE)]
           \/ Faulty("calls") /\ Fails("save") /\ UNCHANGED mounts
    /\ UNCHANGED <<quiet, registered, journal, leaked, damaged>>

SaveMounts ==
    /\ run.at = "save" \/ (run.at = "walk" /\ run.plan = <<>>)
    /\ LET committed == Did(Work, FALSE)
       IN  \/ /\ write_mount_journal("magic", PathsOf(committed)) /\ Smooth
              /\ run' = [run EXCEPT !.at = "register", !.done = committed]
           \/ Faulty("calls") /\ RollBack(committed) /\ UNCHANGED journal
    /\ UNCHANGED <<quiet, mounts, registered, leaked, damaged>>

\* Library directories are never registered; a failure does not stop the others,
\* but has everything torn down.
RegisterMounts ==
    /\ run.at = "register"
    /\ \E paths \in SUBSET Range(PathsOf(run.done)) :
          /\ registered' = registered \cup paths
          /\ \/ run.ok /\ Over(TRUE) /\ Smooth
             \/ /\ (run.ok /\ Faulty("calls")) \/ (~run.ok /\ Smooth)
                /\ run' = [NoRun EXCEPT !.op = "undo", !.at = "read", !.all = run.all]
    /\ UNCHANGED <<quiet, mounts, journal, leaked, damaged>>

-----------------------------------------------------------------------------
(* storage::setup, the mirror OverlayFS takes its layers from.               *)

AttachMirror ==
    /\ run.at = "setup"
    /\ LET p == Mirrors[Len(run.done) + 1]
       IN  \/ /\ ~IsMountPoint(p) /\ Attach(p, "mirror") /\ Smooth
              /\ run' = [run EXCEPT !.done = Did(p, FALSE),
                                    !.at = IF Len(run.done) + 1 = Len(Mirrors) THEN "finalize" ELSE @]
           \/ IsMountPoint(p) /\ RollBack(run.done) /\ Smooth /\ UNCHANGED mounts
           \/ Faulty("calls") /\ RollBack(run.done) /\ UNCHANGED mounts
    /\ UNCHANGED <<quiet, registered, journal, leaked, damaged>>

\* finalize() of each, the last one mounted first. What was registered before one
\* fails is taken off the list by the roll-back.
FinalizeMirror ==
    /\ run.at = "finalize"
    /\ \/ /\ registered' = registered \cup Range(Mirrors)
          /\ run' = [run EXCEPT !.at = "record", !.done = [i \in DOMAIN @ |-> [@[i] EXCEPT !.reg = TRUE]]]
          /\ Smooth
       \/ \E k \in DOMAIN Mirrors :
             /\ Faulty("calls")
             /\ registered' = registered \cup {Mirrors[i] : i \in {j \in DOMAIN Mirrors : j > k}}
             /\ RollBack([i \in DOMAIN run.done |-> [run.done[i] EXCEPT !.reg = i > k]])
    /\ UNCHANGED <<quiet, mounts, journal, leaked, damaged>>

RecordMirror ==
    /\ run.at = "record"
    /\ \/ write_mount_journal("mirror", Mirrors) /\ Goes("sync") /\ Smooth
       \/ Faulty("calls") /\ RollBack(run.done) /\ UNCHANGED journal
    /\ UNCHANGED <<quiet, mounts, registered, leaked, damaged>>

-----------------------------------------------------------------------------
(* overlay::mount_modules.                                                   *)

\* sync_content and plan_overlays; when one fails, or there is no leaf to overlay,
\* the mirror stays, recorded.
SyncContent ==
    /\ run.at = "sync"
    /\ \/ /\ run' = [run EXCEPT !.at = "leaf", !.of = "overlay", !.plan = OverlayPlan, !.done = <<>>]
          /\ Smooth
       \/ (Smooth \/ Faulty("calls")) /\ Over(FALSE)
    /\ UNCHANGED <<quiet, mounts, registered, journal, leaked, damaged>>

\* record_mount after an overlay was attached at p: it is noted before it is
\* registered, so that a failed registration has it detached as well.
M_NotedLate(p, next) ==
    /\ Attach(p, "overlay")
    /\ \/ registered' = registered \cup {p} /\ run' = [next EXCEPT !.done = Did(p, TRUE)] /\ Smooth
       \/ Faulty("calls") /\ RollBack(run.done) /\ UNCHANGED registered
AttachOverlay(p, next) ==
    /\ Attach(p, "overlay")
    /\ \/ registered' = registered \cup {p} /\ run' = [next EXCEPT !.done = Did(p, TRUE)] /\ Smooth
       \/ Faulty("calls") /\ RollBack(Did(p, FALSE)) /\ UNCHANGED registered

\* mount_overlay: the sub-mounts are listed before the leaf hides them. A module
\* that replaces the directory leaves none of them to be put back.
MountLeaf ==
    /\ run.at = "leaf" /\ run.plan # <<>>
    /\ LET p == Head(run.plan)
       IN  \/ \E kids \in {child_mounts(p), {}} :
                 AttachOverlay(p, [run EXCEPT !.at = "child", !.kids = kids])
           \/ Faulty("calls") /\ RollBack(run.done) /\ UNCHANGED <<mounts, registered>>
    /\ UNCHANGED <<quiet, journal, leaked, damaged>>

\* Shallowest first: left hidden (gone, or of another type, or replaced), bound
\* back as it was, or overlaid with the layers that touch it.
MountChild ==
    /\ run.at = "child"
    /\ \E q \in {k \in run.kids : Above[k] \cap run.kids = {}} :
          LET next == [run EXCEPT !.kids = @ \ {q}]
          IN  \/ run' = next /\ Smooth /\ UNCHANGED <<mounts, registered>>
              \/ /\ Attach(q, "bind") /\ run' = [next EXCEPT !.done = Did(q, FALSE)]
                 /\ Smooth /\ UNCHANGED registered
              \/ AttachOverlay(q, next)
              \/ Faulty("calls") /\ RollBack(run.done) /\ UNCHANGED <<mounts, registered>>
    /\ UNCHANGED <<quiet, journal, leaked, damaged>>

\* Kasumi is asked to hide the overlay's attributes, then comes the next leaf.
LeafDone ==
    /\ run.at = "child" /\ run.kids = {}
    /\ \/ run' = [Onward EXCEPT !.at = "leaf"] /\ Smooth
       \/ Faulty("calls") /\ RollBack(run.done)
    /\ UNCHANGED <<quiet, mounts, registered, journal, leaked, damaged>>

SaveOverlays ==
    /\ run.at = "leaf" /\ run.plan = <<>>
    /\ \/ /\ write_mount_journal("overlay", PathsOf(Registered(run.done)))
          /\ Over(TRUE) /\ Smooth
       \/ Faulty("calls") /\ RollBack(run.done) /\ UNCHANGED journal
    /\ UNCHANGED <<quiet, mounts, registered, leaked, damaged>>

\* The roll-back of a backend goes by path alone; a path that cannot be taken off
\* the list is only logged.
RollBackOne ==
    /\ run.at = "roll-back" /\ run.left # <<>>
    /\ run' = Rest
    /\ LET d == Head(run.left)
       IN  \/ /\ Detach(d.at) /\ UNCHANGED damaged
              /\ \/ registered' = registered \ {d.at} /\ Smooth /\ UNCHANGED leaked
                 \/ /\ d.reg /\ Faulty("registry") /\ UNCHANGED registered
                    /\ leaked' = leaked \cup {d.at}
           \/ Faulty("detach") /\ damaged' = TRUE /\ UNCHANGED <<mounts, registered, leaked>>
    /\ UNCHANGED <<quiet, journal>>

RolledBack ==
    /\ run.at = "roll-back" /\ run.left = <<>>
    /\ Over(FALSE)
    /\ Smooth /\ UNCHANGED <<quiet, mounts, registered, journal, leaked, damaged>>

-----------------------------------------------------------------------------
(* The child is killed; the device reboots; somebody else mounts.            *)

\* A mount pass has attached what no journal names yet.
Exposed ==
    /\ run.op = "mount"
    /\ \/ run.at \in {"first-save", "roll-back"}
       \/ run.at \in {"walk", "save", "setup", "finalize", "record", "leaf", "child"} /\ run.done # <<>>

Kill ==
    /\ ~Idle /\ Faulty("deaths")
    /\ run' = [NoRun EXCEPT !.op = run.op, !.all = FALSE]
    /\ damaged' = (damaged \/ Exposed)
    /\ UNCHANGED <<quiet, mounts, registered, journal, leaked>>

StockMounts == {[at |-> Stock[i], id |-> i, by |-> "stock"] : i \in DOMAIN Stock}

Reboot ==
    /\ boot < MaxBoots
    /\ boot' = boot + 1
    /\ mounts' = StockMounts
    /\ registered' = {} /\ leaked' = {} /\ claimed' = FALSE /\ damaged' = FALSE
    /\ run' = NoRun /\ faults' = 0
    /\ UNCHANGED journal

Interfere ==
    /\ Idle /\ Faulty("others")
    /\ \E p \in Places : Attach(p, "other") \/ (IsMountPoint(p) /\ Detach(p))
    /\ damaged' = TRUE
    /\ UNCHANGED <<quiet, registered, journal, run, leaked>>

Init ==
    /\ boot = 1 /\ mounts = StockMounts /\ registered = {} /\ claimed = FALSE
    /\ journal = [b \in Backends |-> NoJournal]
    /\ run = NoRun /\ faults = 0 /\ leaked = {} /\ damaged = FALSE

Kagami ==
    \/ BeginUnmount \/ ReadJournal \/ TearDownRecord \/ RemoveJournal
    \/ BeginMount \/ GatherFiles \/ MountWork \/ SaveWork \/ WalkOn \/ SaveMounts \/ RegisterMounts
    \/ AttachMirror \/ FinalizeMirror \/ RecordMirror \/ SyncContent
    \/ MountLeaf \/ MountChild \/ LeafDone \/ SaveOverlays \/ RollBackOne \/ RolledBack
    \/ Kill

Next == Kagami \/ Reboot \/ Interfere

Spec == Init /\ [][Next]_vars

-----------------------------------------------------------------------------
(* Properties.                                                             *)

\* The state is well formed: identities are unique, and a journal names paths.
TypeOK ==
    /\ boot \in 1 .. MaxBoots /\ claimed \in BOOLEAN /\ damaged \in BOOLEAN
    /\ mounts \in SUBSET Mounts /\ registered \in SUBSET Places /\ leaked \in SUBSET Places
    /\ journal \in [Backends -> [boot : 0 .. MaxBoots, recs : Seq(Records)]]
    /\ run \in [op : {"none", "mount", "undo", "unmount"}, at : Points, of : Backends,
                all : BOOLEAN, ok : BOOLEAN, plan : Seq(Places),
                left : Seq(Records \cup Attachments), done : Seq(Attachments), kids : SUBSET Places]
    /\ faults \in 0 .. MaxFaults
    /\ \A m, n \in mounts : m.id = n.id => m = n

\* Between passes everything Kagami attached can be found again: it is named by a
\* journal of this boot, or was put back upon an overlay that is.
Accounted ==
    (Idle /\ ~damaged) =>
        \A m \in Ours :
            \/ \E rec \in UNION {Range(read_mount_journal(b)) : b \in Backends} :
                  rec.at = m.at /\ rec.id = m.id
            \/ /\ m.by = "bind"
               /\ \E n \in Ours : n.by = "overlay" /\ m \in Upon(n)

\* When unmount_all reports success nothing of Kagami's is attached, and KernelSU's
\* list names none of its paths but those it failed to take off.
TornDown ==
    (Idle /\ run.op = "unmount" /\ run.all /\ ~damaged) => Ours = {} /\ registered \subseteq leaked

\* Kagami never detaches somebody else's mount, unless it was attached upon one of
\* its own that it detaches: not the stock below an overlay being rolled back, not
\* what was mounted over one of its mounts, not what stands in another boot at a
\* path its old journal names.
OnlyOursDetached ==
    [][Kagami => \A x \in (mounts \ mounts') \ Ours :
                     \E m \in Ours \ mounts' : x \in Upon(m)]_vars

\* backend.hpp: "Tear down everything Kagami mounted". Stated of every unmount_all
\* that reports success, whatever went wrong before it.
EverythingTornDown == (Idle /\ run.op = "unmount" /\ run.all) => Ours = {}
=============================================================================
