----------------------------- MODULE BootLogProofs -----------------------------
(* Theorems about BootLog for any writers, boots and lines, and any inodes     *)
(* there are to be reused.                                                     *)
EXTENDS BootLog, FiniteSetTheorems, TLAPS

USE LogAssumption DEF disk, local, ghosts

Done == marker.boot = boot /\ marker.phase = "R"
Begun == marker.boot = boot /\ marker.phase = "P"

\* Where a writer is says what it has read and what the marker says.
PlaceInv ==
    \A w \in Writers :
        /\ pc[w] # "idle" => lock = w
        /\ pc[w] \in {"pending", "rotate"} => st[w] = log.ino
        /\ pc[w] = "pending" =>
              marker.boot # boot /\ state[w] = [boot |-> boot, phase |-> "P", ino |-> log.ino]
        /\ pc[w] \in {"rotate", "create", "ready"} => marker.boot = boot /\ marker = state[w]
        /\ pc[w] = "ready" => marker.phase = "P"
        /\ pc[w] \in {"create", "ready"} /\ marker.phase = "P" => log.lines = {}
        /\ pc[w] = "append" => Done
        /\ pc[w] \in {"ready", "append"} => log.ino # 0

\* The marker is of this boot or an earlier one, so are the lines of daemon.log, and
\* those of daemon.log.old are of an earlier one. Writers say nothing before the rotation.
LinesInv ==
    /\ marker.boot <= boot
    /\ \A l \in log.lines : l[1] <= boot /\ (l[1] = boot => l \in said)
    /\ \A l \in old.lines : l[1] < boot
    /\ said # {} => Done
    /\ log.lines \cap old.lines = {}

\* From the rotation's beginning to its end the file it is about is in one of two places,
\* and a file of any other inode is new and empty.
RotationInv ==
    Begun =>
        /\ marker.ino # 0 => marker.ino \in {log.ino, old.ino}
        /\ log.ino # marker.ino => log.lines = {}
        /\ ~hasty /\ log.ino # 0 /\ log.ino = marker.ino => before \subseteq log.lines

\* Before it begins, the latest file is where it was when the device came up.
BeforeInv ==
    /\ marker.boot # boot /\ ~hasty =>
          before = IF log.ino = 0 THEN old.lines ELSE log.lines
    /\ stage # "late" => ~hasty /\ cut = {}
    /\ Done => log.lines \subseteq OfBoot(boot)

LogInv == TypeOK /\ PlaceInv /\ LinesInv /\ RotationInv /\ BeforeInv /\ PreviousKept /\ OwnKept

-----------------------------------------------------------------------------
\* A boot says finitely many lines.
LEMMA Counted == ASSUME said \subseteq Lines PROVE Cardinality(said) \in Nat
<1>1. IsFiniteSet(Boots) /\ IsFiniteSet(1 .. MaxLines)
  BY FS_Interval DEF Boots
<1>2. IsFiniteSet(Lines)
  BY <1>1, FS_Product DEF Lines
<1>3. QED
  BY <1>2, FS_Subset, FS_CardinalityType

\* A device that boots for the first time.
LEMMA InitLog == Init => LogInv
<1> SUFFICES ASSUME Init PROVE LogInv
  OBVIOUS
<1> USE DEF Init
<1>1. TypeOK
  <2>1. 0 \in Boots /\ 1 \in Boots
    BY DEF Boots
  <2>2. Missing \in Files /\ Unmarked \in Rotations
    BY <2>1 DEF Missing, Unmarked, Files, Rotations
  <2>3. pc \in [Writers -> Steps] /\ st \in [Writers -> Inodes \cup {0}]
    BY DEF Steps
  <2>4. state \in [Writers -> Rotations] /\ Missing.ino = 0 /\ Missing.lines = {}
    BY <2>2 DEF Missing
  <2>5. hasty \in BOOLEAN /\ lock \in Writers \cup {NoWriter}
    BY Zenon
  <2>6. /\ boot \in Boots \ {0} /\ stage \in {"prepare", "mount", "late"}
        /\ log \in Files /\ old \in Files /\ marker \in Rotations
        /\ log.ino = 0 /\ log.lines = {}
    BY <2>1, <2>2, <2>4
  <2>7. said \subseteq Lines /\ before \subseteq Lines /\ cut \subseteq Lines
    OBVIOUS
  <2>8. QED
    BY <2>3, <2>4, <2>5, <2>6, <2>7 DEF TypeOK
<1>2. QED
  BY <1>1 DEF LogInv, PlaceInv, LinesInv, RotationInv, BeforeInv, PreviousKept, OwnKept,
     Done, Begun, Missing, Unmarked

\* Each writer's step but that of the writer that has the lock leaves the others idle.
LEMMA Alone ==
    ASSUME LogInv, NEW w \in Writers, pc[w] # "idle"
    PROVE  lock = w /\ \A x \in Writers : x # w => pc[x] = "idle"
BY DEF LogInv, PlaceInv

\* Reading the marker and the file under the lock.
LEMMA StepPrepare == LogInv /\ (\E w \in Writers : prepare_locked(w)) => LogInv'
<1> SUFFICES ASSUME LogInv, NEW w \in Writers, prepare_locked(w) PROVE LogInv'
  OBVIOUS
<1> USE DEF LogInv, prepare_locked, flock
<1>0. \A x \in Writers : x # w => pc'[x] = "idle"
  BY DEF PlaceInv, TypeOK
<1>1. TypeOK'
  BY DEF TypeOK, Files, Rotations, Steps, rotation
<1>2. PlaceInv'
  BY <1>0 DEF TypeOK, PlaceInv, Rotations, rotation, Done
<1>3. QED
  BY <1>1, <1>2 DEF LinesInv, RotationInv, BeforeInv, PreviousKept, OwnKept, Done, Begun, Lines, OfBoot

\* The rotation begins: from now on the marker names the file it is about.
LEMMA StepSavePending == LogInv /\ (\E w \in Writers : SavePending(w)) => LogInv'
<1> SUFFICES ASSUME LogInv, NEW w \in Writers, SavePending(w) PROVE LogInv'
  OBVIOUS
<1> USE DEF LogInv, SavePending, save_rotation, Goto, Release
<1>0. \A x \in Writers : x # w => pc[x] = "idle" /\ pc'[x] = "idle"
  BY Alone DEF TypeOK
<1>1. TypeOK'
  BY DEF TypeOK, Files, Rotations, Steps
<1>2. marker' = marker \/ marker' = [boot |-> boot, phase |-> "P", ino |-> log.ino]
  BY DEF PlaceInv
<1>3. PlaceInv'
  BY <1>0 DEF TypeOK, PlaceInv, Done
<1>4. marker.boot # boot
  BY DEF PlaceInv
<1>5. LinesInv'
  BY <1>2, <1>4 DEF TypeOK, LinesInv, Done, Boots
<1>6. RotationInv'
  BY <1>2, <1>4 DEF TypeOK, RotationInv, BeforeInv, Begun
<1>7. BeforeInv'
  BY <1>2, <1>4 DEF BeforeInv, Done
<1>8. QED
  BY <1>1, <1>3, <1>5, <1>6, <1>7 DEF PreviousKept, OwnKept

\* Only the file the marker names is renamed, and it is the one of the boot before.
LEMMA StepRotate == LogInv /\ (\E w \in Writers : Rotate(w)) => LogInv'
<1> SUFFICES ASSUME LogInv, NEW w \in Writers, Rotate(w) PROVE LogInv'
  OBVIOUS
<1> USE DEF LogInv, Rotate, Rotates, Goto, Release
<1>0. \A x \in Writers : x # w => pc[x] = "idle" /\ pc'[x] = "idle"
  BY Alone DEF TypeOK
<1>1. TypeOK'
  BY DEF TypeOK, Files, Missing, Rotations, Steps
<1>2. marker.boot = boot /\ marker = state[w] /\ st[w] = log.ino
  BY DEF PlaceInv
<1>3. CASE UNCHANGED <<log, old>>
  <2>1. PlaceInv'
    BY <1>0, <1>2, <1>3 DEF TypeOK, PlaceInv, Done, RotationInv, Begun, Rotations, Missing
  <2>2. QED
    BY <1>1, <1>3, <2>1 DEF LinesInv, RotationInv, BeforeInv, PreviousKept, OwnKept, Done, Begun, OfBoot
<1>4. CASE Rotates(w) /\ old' = log /\ log' = Missing
  <2>1. Begun /\ ~Done /\ said = {}
    BY <1>2, <1>4 DEF Begun, Done, LinesInv
  <2>2. PlaceInv'
    BY <1>0, <1>2, <1>4, <2>1 DEF TypeOK, PlaceInv, Done, Begun, Missing
  <2>3. LinesInv'
    BY <1>2, <1>4, <2>1 DEF TypeOK, LinesInv, Begun, Done, Missing, Files, Lines, Boots
  <2>4. RotationInv' /\ BeforeInv' /\ PreviousKept' /\ OwnKept'
    BY <1>2, <1>4, <2>1 DEF TypeOK, LinesInv, RotationInv, BeforeInv, PreviousKept, OwnKept, Done, Begun,
       Missing
  <2>5. QED
    BY <1>1, <2>2, <2>3, <2>4
<1>5. QED
  BY <1>3, <1>4

\* The new file is empty and its inode is not that of the file rotated.
LEMMA StepCreate == LogInv /\ (\E w \in Writers : Create(w)) => LogInv'
<1> SUFFICES ASSUME LogInv, NEW w \in Writers, Create(w) PROVE LogInv'
  OBVIOUS
<1> USE DEF LogInv, Create, Goto, Release, FreeInodes
<1>0. \A x \in Writers : x # w => pc[x] = "idle" /\ pc'[x] = "idle"
  BY Alone DEF TypeOK
<1>1. TypeOK'
  BY DEF TypeOK, Files, Rotations, Steps
<1>2. marker.boot = boot /\ marker = state[w]
  BY DEF PlaceInv
<1>3. log' = log \/ (log.ino = 0 /\ \E i \in FreeInodes : log' = [ino |-> i, lines |-> {}])
  <2>1. CASE log.ino = 0
    BY <2>1
  <2>2. CASE log.ino # 0
    BY <2>2
  <2>3. QED
    BY <2>1, <2>2
<1>4. log'.lines = log.lines
  BY <1>3 DEF TypeOK
<1>5. PlaceInv'
  BY <1>0, <1>2, <1>4 DEF TypeOK, PlaceInv, Done, Rotations
<1>6. RotationInv'
  BY <1>2, <1>3, <1>4 DEF TypeOK, RotationInv, Begun, Files, Rotations
<1>7. QED
  BY <1>1, <1>2, <1>4, <1>5, <1>6 DEF LinesInv, BeforeInv, PreviousKept, OwnKept, Done, OfBoot

\* The rotation is over, and only now lines of this boot appear.
LEMMA StepSaveReady == LogInv /\ (\E w \in Writers : SaveReady(w)) => LogInv'
<1> SUFFICES ASSUME LogInv, NEW w \in Writers, SaveReady(w) PROVE LogInv'
  OBVIOUS
<1> USE DEF LogInv, SaveReady, save_rotation, Goto, Release
<1>0. \A x \in Writers : x # w => pc[x] = "idle" /\ pc'[x] = "idle"
  BY Alone DEF TypeOK
<1>1. TypeOK'
  BY ZenonT(40) DEF TypeOK, Files, Rotations, Steps
<1>2. /\ Begun /\ ~Done /\ said = {} /\ log.lines = {} /\ marker = state[w]
      /\ marker' = marker \/ marker' = [marker EXCEPT !.phase = "R"]
  BY DEF PlaceInv, LinesInv, Begun, Done, TypeOK
<1>3. PlaceInv'
  BY <1>0, <1>2 DEF TypeOK, PlaceInv, Done, Begun, Rotations
<1>4. LinesInv' /\ RotationInv' /\ BeforeInv' /\ PreviousKept' /\ OwnKept'
  BY <1>2 DEF TypeOK, LinesInv, RotationInv, BeforeInv, PreviousKept, OwnKept, Done, Begun, Rotations
<1>5. QED
  BY <1>1, <1>3, <1>4

\* A line of this boot goes to a file of this boot.
LEMMA StepWrite == LogInv /\ (\E w \in Writers : write(w)) => LogInv'
<1> SUFFICES ASSUME LogInv, NEW w \in Writers, write(w) PROVE LogInv'
  OBVIOUS
<1> USE DEF LogInv, write, Release
<1>0. \A x \in Writers : x # w => pc[x] = "idle" /\ pc'[x] = "idle"
  BY Alone DEF TypeOK
<1>1. pc'[w] = "idle" /\ Done
  BY DEF TypeOK, PlaceInv
<1>2. PlaceInv'
  BY <1>0, <1>1 DEF PlaceInv
<1>3. CASE UNCHANGED <<log, said>>
  BY <1>1, <1>2, <1>3 DEF TypeOK, Steps, LinesInv, RotationInv, BeforeInv, PreviousKept, OwnKept, Done,
     Begun, OfBoot
<1>4. ASSUME NEW line \in Lines, line[1] = boot,
             log' = [log EXCEPT !.lines = @ \cup {line}], said' = said \cup {line}
      PROVE  LogInv'
  <2>1. log'.ino = log.ino /\ log'.lines = log.lines \cup {line}
    BY <1>4 DEF TypeOK, Files
  <2>2. TypeOK'
    <3>1. log' \in Files /\ said' \subseteq Lines
      BY <1>4 DEF TypeOK, Files
    <3>2. pc' \in [Writers -> Steps] /\ lock' \in Writers \cup {NoWriter}
      BY DEF TypeOK, Steps
    <3>3. log.ino # 0
      BY DEF PlaceInv
    <3>4. QED
      BY <2>1, <3>1, <3>2, <3>3 DEF TypeOK
  <2>3. LinesInv' /\ RotationInv' /\ BeforeInv' /\ PreviousKept' /\ OwnKept'
    BY <1>1, <1>4, <2>1 DEF TypeOK, LinesInv, RotationInv, BeforeInv, PreviousKept, OwnKept, Done, Begun,
       OfBoot, Lines, Boots
  <2>4. QED
    BY <1>2, <2>2, <2>3
<1>5. CASE Cardinality(said) < MaxLines
  <2> DEFINE line == <<boot, Cardinality(said) + 1>>
  <2>1. Cardinality(said) \in Nat
    BY Counted DEF TypeOK
  <2>2. line \in Lines /\ line[1] = boot
    BY <1>5, <2>1 DEF TypeOK, Lines
  <2>3. QED
    BY <1>3, <1>4, <2>2
<1>6. QED
  BY <1>3, <1>5

\* A death leaves the files to the next writer.
LEMMA StepDie == LogInv /\ (\E w \in Writers : Die(w)) => LogInv'
<1> SUFFICES ASSUME LogInv, NEW w \in Writers, Die(w) PROVE LogInv'
  OBVIOUS
<1> USE DEF LogInv, Die, Release
<1>0. \A x \in Writers : pc'[x] = "idle"
  BY Alone DEF TypeOK
<1>1. TypeOK'
  BY DEF TypeOK, Steps
<1>2. QED
  BY <1>0, <1>1 DEF PlaceInv, LinesInv, RotationInv, BeforeInv, PreviousKept, OwnKept, Done, Begun, OfBoot

\* The hook loses what it truncates, which cut and hasty account for.
LEMMA StepMetamount == LogInv /\ metamount => LogInv'
<1> SUFFICES ASSUME LogInv, metamount PROVE LogInv'
  OBVIOUS
<1> USE DEF LogInv, metamount, FreeInodes
<1>1. TypeOK'
  BY DEF TypeOK, Files
<1>2. \A x \in Writers : pc[x] = "idle"
  BY DEF PlaceInv
<1>3. PlaceInv'
  BY <1>2 DEF PlaceInv
<1>4. log'.lines = {} /\ (log.ino # 0 => log'.ino = log.ino)
  OBVIOUS
<1>5. LinesInv' /\ BeforeInv' /\ OwnKept'
  BY <1>4 DEF LinesInv, BeforeInv, OwnKept, Done
<1>6. PreviousKept'
  BY <1>4 DEF PreviousKept
<1>7. RotationInv'
  BY <1>1, <1>4 DEF TypeOK, RotationInv, BeforeInv, LinesInv, Begun, Rotations, Files
<1>8. QED
  BY <1>1, <1>3, <1>5, <1>6, <1>7

\* The marker becomes one of an earlier boot.
LEMMA StepReboot == LogInv /\ Reboot => LogInv'
<1> SUFFICES ASSUME LogInv, Reboot PROVE LogInv'
  OBVIOUS
<1> USE DEF LogInv, Reboot
<1>1. TypeOK'
  <2>1. boot' \in Boots \ {0} /\ pc' \in [Writers -> Steps]
    BY DEF TypeOK, Boots, Steps
  <2>2. before' \subseteq Lines
    BY DEF TypeOK, Files
  <2>3. QED
    BY <2>1, <2>2 DEF TypeOK
<1>2. marker'.boot # boot'
  BY DEF TypeOK, LinesInv, Boots, Rotations
<1>3. LinesInv'
  BY <1>2 DEF TypeOK, LinesInv, Boots, Rotations, Lines, Files, Done
<1>4. QED
  BY <1>1, <1>2, <1>3 DEF TypeOK, PlaceInv, RotationInv, BeforeInv, PreviousKept, OwnKept, Done, Begun

\* Every step.
LEMMA StepLog == LogInv /\ [Next]_vars => LogInv'
<1>1. LogInv /\ UNCHANGED vars => LogInv'
  BY DEF vars, LogInv, TypeOK, PlaceInv, LinesInv, RotationInv, BeforeInv, PreviousKept, OwnKept, Done,
     Begun, Files, Rotations, Steps, OfBoot
<1>2. QED
  BY <1>1, StepPrepare, StepSavePending, StepRotate, StepCreate, StepSaveReady, StepWrite, StepDie,
     StepMetamount, StepReboot DEF Next, Writes

\* The invariant.
LEMMA LogInvariant == Spec => []LogInv
BY InitLog, StepLog, PTL DEF Spec

\* The type invariant, with no inode in two places.
THEOREM TypeCorrect == Spec => []TypeOK
BY LogInvariant, PTL DEF LogInv

\* However many writers try, fail and die, and whatever the hook does, the history of the
\* boot before and this boot's own are kept and not mixed (prepare_locked).
THEOREM RotationKeepsLogs == Spec => []RotationIsSafe
<1>1. LogInv => RotationIsSafe
  BY DEF LogInv, TypeOK, RotationIsSafe, NotMixed, LinesInv, BeforeInv, Done, OfBoot, Boots
<1>2. QED
  BY LogInvariant, <1>1, PTL
===============================================================================
