---------------------------- MODULE BootRecovery ----------------------------
(***************************************************************************)
(* Bootloop protection: the boot orchestrator of mount/backend.cpp, run by *)
(* the daemon for the metamount.sh hook, the watcher it leaves behind, the *)
(* boot-completed.sh hook and the user's recovery commands. They share     *)
(* three files under run/:                                                 *)
(*                                                                         *)
(*   mount_orchestrator_boot   identity of the boot that was claimed       *)
(*   boot_attempts             boots that mounted and were not confirmed   *)
(*   mount_disabled            protection has tripped                      *)
(*                                                                         *)
(* The daemon may be killed and the device may go down between any two     *)
(* steps.                                                                  *)
(***************************************************************************)
EXTENDS Naturals

CONSTANTS
    MaxAttempts,           \* kMaxBootAttempts
    Polls,                 \* polls of the watcher before it gives up (150 in the code)
    MaxBoots               \* bound: boots of the device

ASSUME ConstantsAssumption ==
    /\ MaxAttempts \in Nat \ {0}
    /\ Polls \in Nat
    /\ MaxBoots \in Nat \ {0}

VARIABLES
    boot,          \* /proc/sys/kernel/random/boot_id
    completed,     \* sys.boot_completed
    claim,         \* mount_orchestrator_boot: a boot, 0 for none
    attempts,      \* boot_attempts as it is read, 0 when missing or empty
    disabled,      \* mount_disabled exists
    daemon,        \* what the daemon is doing
    tally,         \* the count the orchestrator read
    watcher,       \* polls the watcher has made, or NoWatcher
    unconfirmed,   \* ghost: boots in a row that mounted and did not complete
    outlasted,     \* ghost: of these, boots that outlasted their watcher
    torn,          \* ghost: how often in that time a count was lost
    deaths,        \* ghost: boots in a row that died while mount-all worked on the kernel
    mounts         \* ghost: mount passes of this boot

disk == <<claim, attempts, disabled>>
ghosts == <<unconfirmed, outlasted, torn, deaths, mounts>>
vars == <<boot, completed, disk, daemon, tally, watcher, ghosts>>

NoWatcher == Polls + 1
InMountAll == {"autoload", "loaded", "counting", "counted", "mounting"}

\* Where mount-all makes the kernel do something that can bring it down.
KernelWork == {"autoload", "mounting"}

-----------------------------------------------------------------------------
(* mount_all_enabled().                                                    *)

\* Faulty variant: the marker is written but not compared.
M_ClaimUnchecked == TRUE

Unclaimed == claim # boot

\* "module mount-all" is refused once the system has booted, or when this boot
\* was claimed before.
ClaimBoot ==
    /\ daemon = "idle"
    /\ ~completed
    /\ Unclaimed
    /\ claim' = boot
    /\ daemon' = "autoload"
    /\ UNCHANGED <<boot, completed, attempts, disabled, tally, watcher, ghosts>>

\* lkm::autoload() comes back; its failure is only logged.
Autoload ==
    /\ daemon = "autoload"
    /\ daemon' = "loaded"
    /\ UNCHANGED <<boot, completed, disk, tally, watcher, ghosts>>

\* Faulty variant: one boot too many.
M_OneMore == attempts > MaxAttempts

TooManyAttempts == attempts >= MaxAttempts

\* Enumeration failed, or protection has tripped in an earlier boot.
Refuse ==
    /\ daemon = "loaded"
    /\ daemon' = "idle"
    /\ UNCHANGED <<boot, completed, disk, tally, watcher, ghosts>>

Trip ==
    /\ daemon = "loaded"
    /\ ~disabled
    /\ TooManyAttempts
    /\ disabled' = TRUE
    /\ daemon' = "idle"
    /\ UNCHANGED <<boot, completed, claim, attempts, tally, watcher, ghosts>>

\* Faulty variant: a boot counts twice.
M_CountsTwice ==
    /\ daemon = "counting"
    /\ attempts' = tally + 2
    /\ tally' = 0
    /\ daemon' = "counted"
    /\ UNCHANGED <<boot, completed, claim, disabled, watcher, ghosts>>

\* write_boot_attempts(): the file is truncated, then written.
TruncateCounter ==
    /\ daemon = "loaded"
    /\ ~disabled
    /\ ~TooManyAttempts
    /\ tally' = attempts
    /\ attempts' = 0
    /\ daemon' = "counting"
    /\ UNCHANGED <<boot, completed, claim, disabled, watcher, ghosts>>

WriteCounter ==
    /\ daemon = "counting"
    /\ attempts' = tally + 1
    /\ tally' = 0
    /\ daemon' = "counted"
    /\ UNCHANGED <<boot, completed, claim, disabled, watcher, ghosts>>

\* Modes, rules or a module cannot be read: counted, but nothing is mounted.
AbandonPlan ==
    /\ daemon = "counted"
    /\ daemon' = "idle"
    /\ UNCHANGED <<boot, completed, disk, tally, watcher, ghosts>>

MountBackends ==
    /\ daemon = "counted"
    /\ daemon' = "mounting"
    /\ mounts' = mounts + 1
    /\ unconfirmed' = IF completed THEN 0 ELSE unconfirmed + 1
    /\ UNCHANGED <<boot, completed, disk, tally, watcher, outlasted, torn, deaths>>

\* A watcher after a successful mount, if it can be forked and can close what
\* it inherited.
EndMountAll ==
    /\ daemon = "mounting"
    /\ daemon' = "idle"
    /\ watcher' \in {0, NoWatcher}
    /\ UNCHANGED <<boot, completed, disk, tally, ghosts>>

-----------------------------------------------------------------------------
(* Confirmation and reset.                                                 *)

Booted == completed

\* spawn_boot_completed_watcher(): it clears the counter when the loop ends,
\* whichever way it ends.
Poll ==
    /\ watcher < Polls
    /\ ~Booted
    /\ watcher' = watcher + 1
    /\ UNCHANGED <<boot, completed, disk, daemon, tally, ghosts>>

\* Faulty variant: a watcher that has made its last poll gives up instead.
M_GivesUp ==
    /\ watcher # NoWatcher
    /\ Booted \/ watcher = Polls
    /\ attempts' = IF watcher = Polls THEN attempts ELSE 0
    /\ watcher' = NoWatcher
    /\ outlasted' = IF completed THEN outlasted ELSE outlasted + 1
    /\ UNCHANGED <<boot, completed, claim, disabled, daemon, tally, unconfirmed, torn, deaths, mounts>>

WatcherConfirms ==
    /\ watcher # NoWatcher
    /\ Booted \/ watcher = Polls
    /\ attempts' = 0
    /\ watcher' = NoWatcher
    /\ outlasted' = IF completed THEN outlasted ELSE outlasted + 1
    /\ UNCHANGED <<boot, completed, claim, disabled, daemon, tally, unconfirmed, torn, deaths, mounts>>

\* boot-completed.sh: the command is lost when no daemon answers.
HookConfirms ==
    /\ completed
    /\ daemon = "idle"
    /\ attempts' = 0
    /\ UNCHANGED <<boot, completed, claim, disabled, daemon, tally, watcher, ghosts>>

\* Faulty variant: only the disabled marker is removed.
M_ResetKeepsCounter ==
    /\ daemon = "idle"
    /\ disabled' = FALSE
    /\ unconfirmed' = 0 /\ outlasted' = 0 /\ torn' = 0
    /\ UNCHANGED <<boot, completed, claim, attempts, daemon, tally, watcher, deaths, mounts>>

\* recovery_reset()
RecoveryReset ==
    /\ daemon = "idle"
    /\ attempts' = 0
    /\ disabled' = FALSE
    /\ unconfirmed' = 0 /\ outlasted' = 0 /\ torn' = 0
    /\ UNCHANGED <<boot, completed, claim, daemon, tally, watcher, deaths, mounts>>

-----------------------------------------------------------------------------
(* The world around it.                                                    *)

StartDaemon ==
    /\ daemon = "down"
    /\ daemon' = "idle"
    /\ UNCHANGED <<boot, completed, disk, tally, watcher, ghosts>>

\* The watcher has its own session and survives. A counter that is truncated stays so.
KillDaemon ==
    /\ daemon # "down"
    /\ daemon' = "down"
    /\ tally' = 0
    /\ torn' = IF daemon = "counting" THEN torn + 1 ELSE torn
    /\ UNCHANGED <<boot, completed, disk, watcher, unconfirmed, outlasted, deaths, mounts>>

SystemCompletes ==
    /\ ~completed
    /\ completed' = TRUE
    /\ unconfirmed' = 0 /\ outlasted' = 0 /\ torn' = 0
    /\ deaths' = 0
    /\ UNCHANGED <<boot, disk, daemon, tally, watcher, mounts>>

\* The next boot may find a count that this one wrote as it was before, or truncated,
\* since nothing makes it reach the disk.
Count == IF daemon = "counting" THEN tally ELSE attempts
Found ==
    {Count} \cup
        CASE daemon = "counting" -> {0}
          [] claim = boot /\ daemon \notin {"autoload", "loaded"} /\ ~disabled /\ attempts > 0 ->
                {attempts - 1, 0}
          [] OTHER -> {}

\* A panic, a power loss or a reboot.
DeviceDies ==
    /\ boot < MaxBoots
    /\ boot' = boot + 1
    /\ completed' = FALSE
    /\ attempts' \in Found
    /\ torn' = IF attempts' # Count THEN torn + 1 ELSE torn
    /\ daemon' = "down"
    /\ tally' = 0
    /\ watcher' = NoWatcher
    /\ deaths' = IF daemon \in KernelWork /\ ~completed THEN deaths + 1 ELSE 0
    /\ mounts' = 0
    /\ UNCHANGED <<claim, disabled, unconfirmed, outlasted>>

Init ==
    /\ boot = 1
    /\ completed = FALSE
    /\ claim = 0
    /\ attempts = 0
    /\ disabled = FALSE
    /\ daemon = "down"
    /\ tally = 0
    /\ watcher = NoWatcher
    /\ unconfirmed = 0 /\ outlasted = 0 /\ torn = 0
    /\ deaths = 0
    /\ mounts = 0

Next ==
    \/ ClaimBoot \/ Autoload \/ Refuse \/ Trip \/ TruncateCounter \/ WriteCounter
    \/ AbandonPlan \/ MountBackends \/ EndMountAll
    \/ Poll \/ WatcherConfirms \/ HookConfirms \/ RecoveryReset
    \/ StartDaemon \/ KillDaemon \/ SystemCompletes \/ DeviceDies

Spec == Init /\ [][Next]_vars

\* The kernel schedules the watcher while the device is up.
FairSpec == Spec /\ WF_vars(Poll) /\ WF_vars(WatcherConfirms)

-----------------------------------------------------------------------------
(* Properties.                                                             *)

\* Every variable has its type.
TypeOK ==
    /\ boot \in 1..MaxBoots
    /\ completed \in BOOLEAN
    /\ claim \in 0..MaxBoots
    /\ attempts \in 0..MaxAttempts
    /\ disabled \in BOOLEAN
    /\ daemon \in InMountAll \cup {"down", "idle"}
    /\ tally \in 0..MaxAttempts
    /\ watcher \in 0..NoWatcher
    /\ unconfirmed \in Nat /\ outlasted \in Nat /\ torn \in Nat
    /\ deaths \in Nat
    /\ mounts \in Nat

\* A module set that keeps the device from booting is mounted at most MaxAttempts times
\* before protection stops it, unless the user resets it; and every time the counter is
\* lost, to a boot that outlasts its watcher or to a torn write, as many times again.
BootloopBound == unconfirmed <= MaxAttempts * (outlasted + torn + 1)

\* "If a boot instead hangs/loops, ... the counter keeps climbing, and mount-all disables
\* mounting after a few unconfirmed boots" (boot-completed.sh:7-9). TLC refutes this of
\* boots that hang for longer than the watcher polls.
HangsAreStopped == torn = 0 => unconfirmed <= MaxAttempts

\* One boot mounts once, however often mount-all is asked for and the daemon dies.
MountsOncePerBoot == mounts <= 1

\* A device that dies again and again while mount-all works on the kernel is
\* stopped by protection ("the counter keeps climbing").
CrashLoopEnds == deaths <= MaxAttempts

\* Whatever becomes of the daemon, a watcher clears the counter of a boot that
\* completes.
WatcherIsEnough == (watcher # NoWatcher /\ completed) ~> (attempts = 0 \/ ~completed)

\* The files and processes implement the fuse: a boot is fresh until it is
\* claimed and counted, and while the counter is being rewritten its value is
\* the one the orchestrator read.
Chance ==
    CASE claim # boot \/ daemon \in {"autoload", "loaded", "counting"} -> "fresh"
      [] daemon = "counted" -> "given"
      [] daemon = "mounting" -> "taken"
      [] watcher # NoWatcher -> "watched"
      [] OTHER -> "spent"

Fuse == INSTANCE BootFuse WITH
    tries <- Count,
    blown <- disabled,
    chance <- Chance

FuseSpec == Fuse!Spec

=============================================================================
