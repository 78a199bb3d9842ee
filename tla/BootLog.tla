-------------------------------- MODULE BootLog --------------------------------
(***************************************************************************)
(* The controller's log (src/core/log.cpp): daemon.log, the daemon.log.old *)
(* the first writer of a boot rotates it to, the marker daemon.log.boot    *)
(* that says how far the rotation has come, and the mount hook of the      *)
(* module (module/metamount.sh), which truncates the file outside of the   *)
(* lock. Writers are processes: kagamid prepare, which the post-fs-data    *)
(* hook runs first, and after the mount hook any others, each of which may *)
(* fail or be killed at every step; the device may go down at any time.    *)
(***************************************************************************)
EXTENDS Naturals, FiniteSets

CONSTANTS
    Writers,    \* the processes that write to the log
    Inodes,     \* the files the file system can hold
    NoWriter,   \* the lock is free
    MaxBoots,   \* bounds the boots of the device
    MaxLines    \* bounds the lines of one boot

ASSUME LogAssumption ==
    /\ NoWriter \notin Writers /\ 0 \notin Inodes
    /\ MaxBoots \in Nat \ {0} /\ MaxLines \in Nat

VARIABLES
    boot,     \* the boot identity, counted
    stage,    \* the hook that is next: "prepare", "mount", or "late" after them
    log,      \* daemon.log: its inode, 0 when there is no such file, and its lines
    old,      \* daemon.log.old, likewise
    marker,   \* daemon.log.boot: the boot, the phase of its rotation, the inode rotated
    lock,     \* the writer that holds daemon.log.lock
    pc,       \* where each writer is in prepare_locked
    state,    \* the Rotation each writer works with
    st,       \* the inode each writer saw daemon.log to have
    said,     \* the lines written in this boot
    before,   \* the lines of the latest file when this boot began
    cut,      \* the lines the mount hook truncated away in this boot
    hasty     \* it came before this boot had rotated the file

disk == <<log, old, marker>>
local == <<pc, state, st>>
ghosts == <<said, before, cut, hasty>>
vars == <<boot, stage, disk, lock, local, ghosts>>

Boots == 0 .. MaxBoots
Lines == Boots \X (1 .. MaxLines)
Missing == [ino |-> 0, lines |-> {}]
Files == [ino : Inodes \cup {0}, lines : SUBSET Lines]
Rotations == [boot : Boots, phase : {"P", "R"}, ino : Inodes \cup {0}]
Unmarked == [boot |-> 0, phase |-> "R", ino |-> 0]
Steps == {"idle", "pending", "rotate", "create", "ready", "append"}
OfBoot(b) == {l \in Lines : l[1] = b}

Init ==
    /\ boot = 1 /\ stage = "prepare"
    /\ log = Missing /\ old = Missing /\ marker = Unmarked
    /\ lock = NoWriter /\ pc = [w \in Writers |-> "idle"]
    /\ state = [w \in Writers |-> Unmarked] /\ st = [w \in Writers |-> 0]
    /\ said = {} /\ before = {} /\ cut = {} /\ hasty = FALSE

\* The lock goes with the process, whether it returns, fails or is killed.
Release(w) == pc' = [pc EXCEPT ![w] = "idle"] /\ lock' = NoWriter
Goto(w, step) == pc' = [pc EXCEPT ![w] = step] /\ UNCHANGED lock

\* flock on daemon.log.lock.
M_flock(w) == w \in Writers
flock(w) == w \in Writers /\ lock = NoWriter

\* What the marker says of this boot's rotation; an unreadable marker counts as none.
M_rotation == [boot |-> boot, phase |-> "P", ino |-> log.ino]
rotation == IF marker.boot = boot THEN marker ELSE [boot |-> boot, phase |-> "P", ino |-> log.ino]

\* The reading half of prepare_locked. Before the mount hook only the post-fs-data
\* hook's own process writes.
prepare_locked(w) ==
    /\ pc[w] = "idle" /\ flock(w) /\ stage \in {"prepare", "late"}
    /\ stage' = IF stage = "prepare" THEN "mount" ELSE stage
    /\ lock' = w
    /\ st' = [st EXCEPT ![w] = log.ino]
    /\ state' = [state EXCEPT ![w] = rotation]
    /\ pc' = [pc EXCEPT ![w] = IF marker.boot = boot THEN "rotate" ELSE "pending"]
    /\ UNCHANGED <<boot, disk, ghosts>>

\* save_rotation replaces the marker as a whole; what can fail last is making the
\* directory entry durable, and then the writer gives up with the marker in place.
save_rotation(w, step) ==
    \/ marker' = state'[w] /\ Goto(w, step)
    \/ marker' \in {marker, state'[w]} /\ Release(w)

M_SavePending(w) ==
    /\ pc[w] = "pending" /\ UNCHANGED state
    /\ marker' = [state[w] EXCEPT !.phase = "R"] /\ Goto(w, "rotate")
    /\ UNCHANGED <<boot, stage, log, old, st, ghosts>>
SavePending(w) ==
    /\ pc[w] = "pending" /\ UNCHANGED state
    /\ save_rotation(w, "rotate")
    /\ UNCHANGED <<boot, stage, log, old, st, ghosts>>

\* The inode the marker names is the file of the boot before: a writer that died
\* half way must not let the next one rotate the file made since.
M_Rotates(w) == state[w].phase = "P" /\ st[w] # 0
Rotates(w) == state[w].phase = "P" /\ st[w] # 0 /\ state[w].ino = st[w]
Rotate(w) ==
    /\ pc[w] = "rotate"
    /\ \/ /\ IF Rotates(w) THEN old' = log /\ log' = Missing ELSE UNCHANGED <<log, old>>
          /\ Goto(w, "create")
       \/ Release(w) /\ UNCHANGED <<log, old>>
    /\ UNCHANGED <<boot, stage, marker, state, st, ghosts>>

\* A file gets an inode no other has; that of a file renamed over is free again.
FreeInodes == Inodes \ {log.ino, old.ino}
Create(w) ==
    /\ pc[w] = "create"
    /\ \/ /\ IF log.ino = 0 THEN \E i \in FreeInodes : log' = [ino |-> i, lines |-> {}]
                            ELSE UNCHANGED log
          /\ Goto(w, IF state[w].phase = "P" THEN "ready" ELSE "append")
       \/ Release(w) /\ UNCHANGED log
    /\ UNCHANGED <<boot, stage, old, marker, state, st, ghosts>>

SaveReady(w) ==
    /\ pc[w] = "ready" /\ state' = [state EXCEPT ![w].phase = "R"]
    /\ save_rotation(w, "append")
    /\ UNCHANGED <<boot, stage, log, old, st, ghosts>>

\* write appends a line; prepare_boot_log stops short of it, as does a failing append.
write(w) ==
    /\ pc[w] = "append"
    /\ \/ /\ Cardinality(said) < MaxLines
          /\ LET line == <<boot, Cardinality(said) + 1>>
             IN  log' = [log EXCEPT !.lines = @ \cup {line}] /\ said' = said \cup {line}
       \/ UNCHANGED <<log, said>>
    /\ Release(w)
    /\ UNCHANGED <<boot, stage, old, marker, state, st, before, cut, hasty>>

Die(w) ==
    /\ pc[w] # "idle" /\ Release(w)
    /\ UNCHANGED <<boot, stage, disk, state, st, ghosts>>

\* metamount.sh empties the file, or makes it, whatever became of the first hook.
metamount ==
    /\ stage \in {"prepare", "mount"} /\ lock = NoWriter /\ stage' = "late"
    /\ \E i \in FreeInodes :
          log' = [ino |-> IF log.ino = 0 THEN i ELSE log.ino, lines |-> {}]
    /\ cut' = log.lines
    /\ hasty' = (marker.boot # boot \/ ~(before \subseteq old.lines))
    /\ UNCHANGED <<boot, old, marker, lock, local, said, before>>

Reboot ==
    /\ boot < MaxBoots /\ boot' = boot + 1 /\ stage' = "prepare"
    /\ lock' = NoWriter /\ pc' = [w \in Writers |-> "idle"]
    /\ said' = {} /\ cut' = {} /\ hasty' = FALSE
    /\ before' = IF log.ino = 0 THEN old.lines ELSE log.lines
    /\ UNCHANGED <<disk, state, st>>

Writes(w) ==
    prepare_locked(w) \/ SavePending(w) \/ Rotate(w) \/ Create(w) \/ SaveReady(w) \/ write(w) \/ Die(w)
Next == (\E w \in Writers : Writes(w)) \/ metamount \/ Reboot
Spec == Init /\ [][Next]_vars

-----------------------------------------------------------------------------
(* Properties.                                                             *)

TypeOK ==
    /\ boot \in Boots \ {0} /\ stage \in {"prepare", "mount", "late"}
    /\ log \in Files /\ old \in Files /\ marker \in Rotations
    /\ log.ino = 0 => log.lines = {}
    /\ lock \in Writers \cup {NoWriter} /\ pc \in [Writers -> Steps]
    /\ state \in [Writers -> Rotations] /\ st \in [Writers -> Inodes \cup {0}]
    /\ said \subseteq Lines /\ before \subseteq Lines /\ cut \subseteq Lines
    /\ hasty \in BOOLEAN
    /\ log.ino = old.ino => log.ino = 0

\* The history of the boot before stays within reach, in daemon.log until it is
\* rotated and in daemon.log.old from then on, whichever steps writers die or fail
\* between and however many try again, unless the mount hook came first.
PreviousKept == hasty \/ before \subseteq log.lines \cup old.lines

\* No writer rotates the lines of its own boot away: they stay in daemon.log, all
\* but what was said before the mount hook truncated it.
OwnKept == said \subseteq log.lines \cup cut

\* Once its rotation is marked done, neither file mixes this boot with another.
NotMixed ==
    (marker.boot = boot /\ marker.phase = "R") =>
        log.lines \subseteq OfBoot(boot) /\ old.lines \cap OfBoot(boot) = {}

\* What the rotation is for: the file of the boot before and this boot's own are both
\* kept, apart from each other, by however many writers fail or die half-way.
RotationIsSafe == PreviousKept /\ OwnKept /\ NotMixed
=============================================================================
