------------------------------ MODULE BootFuse ------------------------------
(***************************************************************************)
(* What the bootloop protection of mount/backend.cpp promises, with no     *)
(* files and no processes: a fuse in front of the boot mounts. It counts   *)
(* the boots that were allowed to mount, blows when too many of them in a  *)
(* row were never confirmed, and is mended only by a reset. Its count is   *)
(* not safe: what this boot has written of it may be lost, and a boot that *)
(* stays up under watch for long enough is confirmed without completing.   *)
(***************************************************************************)
EXTENDS Naturals

CONSTANT MaxAttempts       \* kMaxBootAttempts

VARIABLES
    completed,     \* the system has finished booting (sys.boot_completed)
    tries,         \* boots allowed to mount since the last confirmation
    blown,         \* mounting is disabled
    chance         \* this boot's one chance to mount: "fresh", "given", "taken", "watched"
                   \* (it has mounted and is being watched) or "spent"

fuse == <<completed, tries, blown, chance>>

Allow ==
    /\ chance = "fresh" /\ ~blown /\ tries < MaxAttempts
    /\ chance' = "given"
    /\ tries' = tries + 1
    /\ UNCHANGED <<completed, blown>>

Mount ==
    /\ chance = "given"
    /\ chance' = "taken"
    /\ UNCHANGED <<completed, tries, blown>>

Watch ==
    /\ chance = "taken"
    /\ chance' = "watched"
    /\ UNCHANGED <<completed, tries, blown>>

\* Refused, failed, killed or done: no second chance in this boot.
Spend ==
    /\ chance' = "spent"
    /\ UNCHANGED <<completed, tries, blown>>

Blow ==
    /\ tries >= MaxAttempts
    /\ blown' = TRUE
    /\ chance' = "spent"
    /\ UNCHANGED <<completed, tries>>

Complete ==
    /\ completed' = TRUE
    /\ UNCHANGED <<tries, blown, chance>>

\* A boot that has completed confirms its mounts.
Confirm ==
    /\ completed /\ chance \notin {"given", "taken"}
    /\ tries' = 0
    /\ UNCHANGED <<completed, blown, chance>>

\* So does one that its watcher finds still up at the end.
Outlast ==
    /\ chance = "watched"
    /\ tries' = 0 /\ chance' = "spent"
    /\ UNCHANGED <<completed, blown>>

Reset ==
    /\ tries' = 0
    /\ blown' = FALSE
    /\ UNCHANGED <<completed, chance>>

Reboot ==
    /\ completed' = FALSE
    /\ chance' = "fresh"
    /\ UNCHANGED <<tries, blown>>

\* A kill or a reboot takes a count with it that this boot is writing or has written.
Lose ==
    /\ ~blown /\ (chance # "fresh" \/ tries < MaxAttempts)
    /\ tries' \in 0 .. tries
    /\ \/ chance' = "spent" /\ UNCHANGED completed
       \/ chance' = "fresh" /\ completed' = FALSE
    /\ UNCHANGED blown

Init ==
    /\ completed = FALSE
    /\ tries = 0
    /\ blown = FALSE
    /\ chance = "fresh"

Next ==
    Allow \/ Mount \/ Watch \/ Spend \/ Blow \/ Complete \/ Confirm \/ Outlast \/ Reset
        \/ Reboot \/ Lose

Spec == Init /\ [][Next]_fuse

=============================================================================
