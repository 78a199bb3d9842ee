------------------------- MODULE ModuleRuntimeProofs -------------------------
(* Theorems about ModuleRuntime for every set of processes, readers,       *)
(* modules and parts, and every bound.                                     *)
EXTENDS ModuleRuntime, TLAPS

USE DEF Backends, ChildBackends, Outcomes, Phases

\* What the helpers on records return.
LEMMA AssignType ==
    ASSUME NEW mods \in [Modules -> Entry], NEW c \in Choices, NEW scope
    PROVE  Assign(mods, c, scope) \in [Modules -> Entry]
BY DEF Assign, Assigned, Entry, Evidence, NoParts, Choices

LEMMA DistributeType ==
    ASSUME NEW mods \in [Modules -> Entry], NEW b \in ChildBackends,
           NEW res \in [Modules -> Evidence], NEW complete \in BOOLEAN
    PROVE  Distribute(mods, b, res, complete) \in [Modules -> Entry]
BY DEF Distribute, Entry

LEMMA ConstantTypes ==
    /\ NoParts \in Evidence
    /\ NoResult \in [Modules -> Evidence]
    /\ NoChoice \in Choices
    /\ NoModules \in [Modules -> Entry]
BY DEF NoParts, Evidence, NoResult, NoChoice, Choices, NoModules, Absent, Entry

\* Writing the record keeps the types of the files, whatever is written.
LEMMA StoreType ==
    ASSUME TypeOK, NEW new \in Database, Store(new)
    PROVE  db' \in Database /\ invalid' \in BOOLEAN /\ lost' \in BOOLEAN
BY DEF TypeOK, Store, Invalidate

LEMMA MissType ==
    ASSUME TypeOK, Miss
    PROVE  db' \in Database /\ invalid' \in BOOLEAN /\ lost' \in BOOLEAN
BY DEF TypeOK, Miss, Invalidate

LEMMA UpdateType ==
    ASSUME TypeOK, NEW p \in Procs, NEW mods \in [Modules -> Entry], Update(p, mods)
    PROVE  db' \in Database /\ invalid' \in BOOLEAN /\ lost' \in BOOLEAN
<1>1. [db EXCEPT !.mods = mods] \in Database
  BY DEF TypeOK, Database
<1>2. QED
  BY <1>1, StoreType, MissType DEF Update

LEMMA FullAssignType ==
    ASSUME TypeOK, NEW p \in Procs, NEW c \in Choices, FullAssign(p, c)
    PROVE  db' \in Database /\ invalid' \in BOOLEAN /\ lost' \in BOOLEAN
<1> DEFINE fresh == [kind |-> "good", boot |-> boot, gen |-> 1, mods |-> NoModules]
<1> DEFINE base == IF Loads THEN db ELSE fresh
<1>1. base \in Database /\ base.mods \in [Modules -> Entry]
  BY ConstantTypes, ConstantsAssumption DEF TypeOK, Database
<1>2. Assign(base.mods, c, Backends) \in [Modules -> Entry]
  BY <1>1, AssignType
<1>3. [base EXCEPT !.mods = Assign(base.mods, c, Backends)] \in Database
  BY <1>1, <1>2 DEF Database
<1>4. QED
  BY <1>3, MissType DEF FullAssign, TypeOK

-----------------------------------------------------------------------------
(* Type correctness, one lemma for the actions of a kind.                  *)

\* The files after any of the helpers that write them.
FilesTyped == db \in Database /\ invalid \in BOOLEAN /\ lost \in BOOLEAN

\* What the end of a mount child changes.
ProcessesTyped ==
    /\ holder \in Procs \cup {None}
    /\ pc \in [Procs -> Phases]
    /\ fd \in [Procs -> BOOLEAN]
    /\ choice \in [Procs -> Choices]
    /\ cur \in [Procs -> ChildBackends \cup {"none"}]
    /\ stage \in [Procs -> {"none", "open", "attach", "record"}]
    /\ result \in [Procs -> [Modules -> Evidence]]

LEMMA ChildGoneType ==
    ASSUME TypeOK, NEW p \in Procs, ChildGone(p)
    PROVE  ProcessesTyped'
<1>1. /\ cur' = [cur EXCEPT ![p] = "none"]
      /\ stage' = [stage EXCEPT ![p] = "none"]
      /\ result' = [result EXCEPT ![p] = NoResult]
  BY DEF ChildGone
<1>2. CASE pc[p] = "orphan"
  <2>1. /\ holder' = Unlocked(p)
        /\ pc' = [pc EXCEPT ![p] = "idle"]
        /\ fd' = [fd EXCEPT ![p] = FALSE]
        /\ choice' = [choice EXCEPT ![p] = NoChoice]
    BY <1>2 DEF ChildGone
  <2>2. QED
    BY <1>1, <2>1, ConstantTypes DEF TypeOK, ProcessesTyped, Unlocked
<1>3. CASE pc[p] # "orphan"
  <2>1. UNCHANGED <<holder, pc, fd, choice>>
    BY <1>3 DEF ChildGone
  <2>2. QED
    BY <1>1, <2>1, ConstantTypes DEF TypeOK, ProcessesTyped
<1>4. QED
  BY <1>2, <1>3

LEMMA PassOverType ==
    ASSUME TypeOK, NEW p \in Procs, PassOver(p)
    PROVE  ProcessesTyped' /\ todo' \in [Procs -> SUBSET ChildBackends]
<1>1. CASE cur[p] = "magic" /\ "overlay" \in todo[p]
  <2>1. /\ cur' = [cur EXCEPT ![p] = "overlay"]
        /\ stage' = [stage EXCEPT ![p] = "attach"]
        /\ result' = [result EXCEPT ![p] = NoResult]
        /\ todo' = [todo EXCEPT ![p] = @ \ {"overlay"}]
        /\ UNCHANGED <<holder, pc, fd, choice>>
    BY <1>1 DEF PassOver
  <2>2. QED
    BY <2>1, ConstantTypes DEF TypeOK, ProcessesTyped
<1>2. CASE ~(cur[p] = "magic" /\ "overlay" \in todo[p])
  <2>1. ChildGone(p) /\ todo' = [todo EXCEPT ![p] = IF pc[p] = "orphan" THEN {} ELSE @]
    BY <1>2 DEF PassOver
  <2>2. todo' \in [Procs -> SUBSET ChildBackends]
    BY <2>1 DEF TypeOK
  <2>3. QED
    BY <2>1, <2>2, ChildGoneType
<1>3. QED
  BY <1>1, <1>2

LEMMA DatabaseFields ==
    ASSUME TypeOK
    PROVE  db.mods \in [Modules -> Entry] /\ db.gen \in 0..GenLimit /\ boot \in 0..MaxBoots
BY ConstantsAssumption DEF TypeOK, Database

LEMMA InitType == Init => TypeOK
<1> SUFFICES ASSUME Init PROVE TypeOK
  OBVIOUS
<1>1. db \in Database
  BY ConstantTypes, ConstantsAssumption DEF Init, Database
<1>2. boot \in 1..MaxBoots
  BY ConstantsAssumption DEF Init
<1>3. QED
  BY <1>1, <1>2, ConstantTypes DEF Init, TypeOK

\* The constructor of an Operation.
LEMMA OpeningType ==
    ASSUME TypeOK, NEW p \in Procs,
           Begin(p) \/ BeginUnlocked(p) \/ Publish(p) \/ OpenRecord(p)
    PROVE  TypeOK'
<1>1. CASE Begin(p)
  BY <1>1 DEF TypeOK, Begin, InspectPending, Invalidate
<1>2. CASE BeginUnlocked(p)
  BY <1>2 DEF TypeOK, BeginUnlocked, files
<1>3. CASE Publish(p)
  BY <1>3 DEF TypeOK, Publish, Miss, Invalidate
<1>4. CASE OpenRecord(p)
  <2> DEFINE gen == IF Loads THEN db.gen ELSE 0
             mods == IF Loads THEN db.mods ELSE NoModules
             new == [kind |-> "good", boot |-> boot, gen |-> gen + 1, mods |-> mods]
  <2>1. gen \in 0..GenLimit /\ mods \in [Modules -> Entry] /\ boot \in 0..MaxBoots
    BY DatabaseFields, ConstantTypes, ConstantsAssumption
  <2>2. GenerationLeft(gen) => new \in Database
    <3> SUFFICES ASSUME gen < GenLimit PROVE new \in Database
      BY DEF GenerationLeft
    <3>1. gen + 1 \in 0..GenLimit
      BY <2>1, ConstantsAssumption
    <3> HIDE DEF gen, mods
    <3>2. QED
      BY <2>1, <3>1 DEF Database
  <2>3. \/ GenerationLeft(gen) /\ Store(new)
        \/ Miss
    BY <1>4 DEF OpenRecord
  <2>4. FilesTyped'
    BY <2>2, <2>3, StoreType, MissType DEF FilesTyped
  <2>5. QED
    BY <1>4, <2>4 DEF OpenRecord, FilesTyped, TypeOK
<1>5. QED
  BY <1>1, <1>2, <1>3, <1>4

\* The bodies of Operations.
LEMMA BodyType ==
    ASSUME TypeOK, NEW p \in Procs,
           \/ Claim(p) \/ Inventory(p) \/ StopBoot(p) \/ Select(p) \/ EndBoot(p)
           \/ Refresh(p) \/ EndRefresh(p) \/ SwapKasumiModule(p) \/ Teardown(p) \/ Finish(p)
    PROVE  TypeOK'
<1>0. NoChoice \in Choices /\ db.mods \in [Modules -> Entry]
  BY ConstantTypes, DatabaseFields
<1>u. ASSUME Update(p, Assign(db.mods, NoChoice, {"kasumi"})) PROVE FilesTyped'
  BY <1>0, <1>u, AssignType, UpdateType DEF FilesTyped
<1>1. CASE Claim(p)
  <2>1. FilesTyped'
    BY <1>1, <1>u DEF Claim, FilesTyped, TypeOK
  <2>2. QED
    BY <1>1, <2>1 DEF Claim, FilesTyped, TypeOK
<1>2. CASE Inventory(p)
  <2>1. PICK enabled \in SUBSET Modules :
          LET c == [m \in Modules |-> IF m \in enabled THEN "none" ELSE "absent"]
          IN FullAssign(p, c) /\ choice' = [choice EXCEPT ![p] = c]
    BY <1>2 DEF Inventory
  <2> DEFINE c == [m \in Modules |-> IF m \in enabled THEN "none" ELSE "absent"]
  <2>2. c \in Choices
    BY DEF Choices
  <2>3. FilesTyped'
    BY <2>1, <2>2, FullAssignType DEF FilesTyped
  <2>4. choice' \in [Procs -> Choices]
    BY <2>1, <2>2 DEF TypeOK
  <2>5. QED
    BY <1>2, <2>3, <2>4 DEF Inventory, FilesTyped, TypeOK
<1>3. CASE StopBoot(p)
  BY <1>3 DEF StopBoot, TypeOK, files
<1>4. CASE Select(p)
  <2>1. PICK c \in Choices, kasumi \in SUBSET {"kasumi"} :
          /\ FullAssign(p, c)
          /\ choice' = [choice EXCEPT ![p] = c]
          /\ todo' = [todo EXCEPT ![p] =
                         {b \in {"magic", "overlay"} : \E m \in Modules : c[m] = b} \cup kasumi]
    BY <1>4 DEF Select
  <2>2. FilesTyped'
    BY <2>1, FullAssignType DEF FilesTyped
  <2>3. choice' \in [Procs -> Choices] /\ todo' \in [Procs -> SUBSET ChildBackends]
    BY <2>1 DEF TypeOK
  <2>4. QED
    BY <1>4, <2>2, <2>3 DEF Select, FilesTyped, TypeOK
<1>5. CASE EndBoot(p)
  BY <1>5 DEF EndBoot, TypeOK, files, KasumiLive
<1>6. CASE Refresh(p)
  <2>1. PICK selected \in SUBSET plan :
          LET c == [m \in Modules |-> IF m \in selected THEN "kasumi" ELSE "absent"]
          IN /\ Update(p, Assign(db.mods, c, {"kasumi"}))
             /\ choice' = [choice EXCEPT ![p] = c]
    BY <1>6 DEF Refresh
  <2> DEFINE c == [m \in Modules |-> IF m \in selected THEN "kasumi" ELSE "absent"]
  <2>2. c \in Choices
    BY DEF Choices
  <2>3. FilesTyped'
    BY <1>0, <2>1, <2>2, AssignType, UpdateType DEF FilesTyped
  <2>4. choice' \in [Procs -> Choices]
    BY <2>1, <2>2 DEF TypeOK
  <2>5. QED
    BY <1>6, <2>3, <2>4 DEF Refresh, FilesTyped, TypeOK, KasumiLive
<1>7. CASE EndRefresh(p)
  BY <1>7 DEF EndRefresh, TypeOK, files, KasumiLive
<1>8. CASE SwapKasumiModule(p)
  <2>1. FilesTyped'
    BY <1>8, <1>u DEF SwapKasumiModule
  <2>2. QED
    BY <1>8, <2>1 DEF SwapKasumiModule, FilesTyped, TypeOK, KasumiLive
<1>9. CASE Teardown(p)
  BY <1>9 DEF Teardown, TypeOK, files
<1>10. CASE Finish(p)
  BY <1>0, <1>10 DEF Finish, TypeOK
<1>11. QED
  BY <1>1, <1>2, <1>3, <1>4, <1>5, <1>6, <1>7, <1>8, <1>9, <1>10

\* The mount child.
LEMMA ChildType ==
    ASSUME TypeOK, NEW p \in Procs,
           ForkChild(p) \/ OpenRules(p) \/ AbortPass(p) \/ Attach(p) \/ Record(p) \/ ChildDies(p)
    PROVE  TypeOK'
<1>0. NoResult \in [Modules -> Evidence] /\ db.mods \in [Modules -> Entry]
  BY ConstantTypes, DatabaseFields
<1>1. CASE ForkChild(p)
  BY <1>1 DEF ForkChild, TypeOK, files
<1>2. CASE OpenRules(p)
  <2>1. FilesTyped'
    BY <1>0, <1>2, DistributeType, UpdateType DEF OpenRules, FilesTyped
  <2>2. QED
    BY <1>2, <2>1 DEF OpenRules, FilesTyped, TypeOK
<1>3. CASE AbortPass(p)
  BY <1>3, PassOverType DEF AbortPass, ProcessesTyped, TypeOK, files
<1>4. CASE Attach(p)
  <2>1. PICK res \in [Modules -> Evidence] : result' = [result EXCEPT ![p] = res]
    BY <1>4 DEF Attach
  <2>2. live' \in SUBSET Attachments
    <3> HIDE DEF ChildBackends, Outcomes
    <3>1. QED
      BY <1>4 DEF Attach, TypeOK
  <2>3. QED
    BY <1>4, <2>1, <2>2 DEF Attach, TypeOK, files
<1>5. CASE Record(p)
  <2>1. PassOver(p)
    BY <1>5 DEF Record
  <2>2. cur[p] \in ChildBackends \cup {"none"} /\ result[p] \in [Modules -> Evidence]
    BY DEF TypeOK
  <2>3. FilesTyped'
    <3>1. PICK complete \in BOOLEAN : Update(p, Distribute(db.mods, cur[p], result[p], complete))
      BY <1>5 DEF Record
    <3>2. Distribute(db.mods, cur[p], result[p], complete) \in [Modules -> Entry]
      BY <1>0, <2>2 DEF Distribute, Entry
    <3>3. QED
      BY <3>1, <3>2, UpdateType DEF FilesTyped
  <2>4. live' \in SUBSET Attachments
    BY <1>5 DEF Record, TypeOK
  <2>5. QED
    BY <1>5, <2>1, <2>3, <2>4, PassOverType DEF Record, FilesTyped, ProcessesTyped, TypeOK
<1>6. CASE ChildDies(p)
  BY <1>6, ChildGoneType DEF ChildDies, ProcessesTyped, TypeOK, files
<1>7. QED
  BY <1>1, <1>2, <1>3, <1>4, <1>5, <1>6

\* Death, reboot and snapshots.
LEMMA RestType ==
    ASSUME TypeOK,
           \/ \E p \in Procs : Crash(p)
           \/ \E r \in Readers : SnapshotBegin(r) \/ SnapshotEnd(r)
           \/ Reboot
    PROVE  TypeOK'
<1>1. ASSUME NEW p \in Procs, Crash(p) PROVE TypeOK'
  <2>1. holder' \in Procs \cup {None} /\ lost' \in BOOLEAN
    BY <1>1 DEF Crash, TypeOK, LockAfterCrash, Unlocked
  <2>2. CASE cur[p] # "none"
    <3>1. /\ pc' = [pc EXCEPT ![p] = "orphan"]
          /\ todo' = [todo EXCEPT ![p] = IF cur[p] = "magic" THEN @ \ {"kasumi"} ELSE {}]
          /\ UNCHANGED <<fd, choice>>
      BY <1>1, <2>2 DEF Crash
    <3>2. QED
      BY <1>1, <2>1, <3>1 DEF Crash, TypeOK, files
  <2>3. CASE cur[p] = "none"
    <3>1. /\ pc' = [pc EXCEPT ![p] = "idle"]
          /\ fd' = [fd EXCEPT ![p] = FALSE]
          /\ choice' = [choice EXCEPT ![p] = NoChoice]
          /\ todo' = [todo EXCEPT ![p] = {}]
      BY <1>1, <2>3 DEF Crash
    <3>2. QED
      BY <1>1, <2>1, <3>1, ConstantTypes DEF Crash, TypeOK, files
  <2>4. QED
    BY <2>2, <2>3
<1>2. ASSUME NEW r \in Readers, SnapshotBegin(r) PROVE TypeOK'
  BY <1>2, DatabaseFields DEF SnapshotBegin, TypeOK, files, procs
<1>3. ASSUME NEW r \in Readers, SnapshotEnd(r) PROVE TypeOK'
  BY <1>3 DEF SnapshotEnd, TypeOK, files, procs
<1>4. CASE Reboot
  <2>1. boot' \in 1..MaxBoots
    BY <1>4, ConstantsAssumption DEF Reboot, TypeOK
  <2>2. lost' \in BOOLEAN
    BY <1>4 DEF Reboot, TypeOK
  <2>3. QED
    BY <1>4, <2>1, <2>2, ConstantTypes DEF Reboot, TypeOK, files
<1>5. QED
  BY <1>1, <1>2, <1>3, <1>4

LEMMA TypeStep == TypeOK /\ [Next]_vars => TypeOK'
<1> SUFFICES ASSUME TypeOK, [Next]_vars PROVE TypeOK'
  OBVIOUS
<1>1. CASE UNCHANGED vars
  BY <1>1 DEF vars, files, procs, TypeOK
<1>2. CASE Next
  BY <1>2, OpeningType, BodyType, ChildType, RestType DEF Next, OperationStep, ChildStep
<1>3. QED
  BY <1>1, <1>2

\* Every reachable state is well typed: the record, its markers, the processes
\* and the kernel's attachments, whatever fails and whoever dies.
THEOREM TypeCorrect == Spec => []TypeOK
BY InitType, TypeStep, PTL DEF Spec

-----------------------------------------------------------------------------
(* One writer.                                                             *)

\* Inductive: an idle process has no descriptor.
WriterInv == OneWriter /\ \A p \in Procs : pc[p] = "idle" => ~fd[p]

\* Only the owner of the lock has a descriptor.
LEMMA OwnerOnly ==
    ASSUME TypeOK, WriterInv, NEW p \in Procs, fd[p], NEW q \in Procs, q # p
    PROVE  ~fd[q] /\ holder = p
BY DEF WriterInv, OneWriter

\* A process that gives its descriptor up leaves nothing behind.
LEMMA WriterLeaves ==
    ASSUME TypeOK, WriterInv, NEW p \in Procs,
           holder' = Unlocked(p), view' = view,
           pc' = [pc EXCEPT ![p] = "idle"], fd' = [fd EXCEPT ![p] = FALSE]
    PROVE  WriterInv'
<1>1. CASE fd[p]
  <2>1. holder' = None
    BY <1>1 DEF Unlocked
  <2>2. \A q \in Procs : ~fd'[q]
    BY <1>1, OwnerOnly DEF TypeOK
  <2>3. QED
    BY <2>1, <2>2, ConstantsAssumption DEF WriterInv, OneWriter
<1>2. CASE ~fd[p]
  BY <1>2 DEF Unlocked, TypeOK, WriterInv, OneWriter
<1>3. QED
  BY <1>1, <1>2

\* A step inside an Operation that keeps the lock, the descriptor and the readers.
LEMMA WriterStays ==
    ASSUME TypeOK, WriterInv, NEW p \in Procs, NEW at \in Phases \ {"idle"},
           UNCHANGED <<holder, fd, view>>, pc' = pc \/ pc' = [pc EXCEPT ![p] = at]
    PROVE  WriterInv'
BY DEF TypeOK, WriterInv, OneWriter

LEMMA ChildGoneWriter ==
    ASSUME TypeOK, WriterInv, NEW p \in Procs, ChildGone(p), view' = view
    PROVE  WriterInv'
<1>1. CASE pc[p] = "orphan"
  BY <1>1, WriterLeaves DEF ChildGone
<1>2. CASE pc[p] # "orphan"
  <2>1. UNCHANGED <<holder, pc, fd>>
    BY <1>2 DEF ChildGone
  <2>2. QED
    BY <2>1, WriterStays
<1>3. QED
  BY <1>1, <1>2

LEMMA PassOverWriter ==
    ASSUME TypeOK, WriterInv, NEW p \in Procs, PassOver(p), view' = view
    PROVE  WriterInv'
<1>1. CASE cur[p] = "magic" /\ "overlay" \in todo[p]
  <2>1. UNCHANGED <<holder, pc, fd>>
    BY <1>1 DEF PassOver
  <2>2. QED
    BY <2>1, WriterStays
<1>2. CASE ~(cur[p] = "magic" /\ "overlay" \in todo[p])
  BY <1>2, ChildGoneWriter DEF PassOver
<1>3. QED
  BY <1>1, <1>2

LEMMA InitWriter == Init => WriterInv
BY ConstantsAssumption DEF Init, WriterInv, OneWriter

LEMMA WriterStep == TypeOK /\ WriterInv /\ [Next]_vars => WriterInv'
<1> SUFFICES ASSUME TypeOK, WriterInv, [Next]_vars PROVE WriterInv'
  OBVIOUS
<1> USE WriterStays
<1>1. CASE UNCHANGED vars
  BY <1>1 DEF vars, procs, WriterInv, OneWriter
<1>2. ASSUME NEW p \in Procs, Begin(p) PROVE WriterInv'
  <2>1. \A q \in Procs : ~fd[q]
    BY <1>2, ConstantsAssumption DEF Begin, WriterInv, OneWriter
  <2>2. \A r \in Readers : view'[r] = NoView
    BY <1>2 DEF Begin, NoSnapshot
  <2>3. QED
    BY <1>2, <2>1, <2>2 DEF Begin, TypeOK, WriterInv, OneWriter
<1>3. ASSUME NEW p \in Procs, BeginUnlocked(p) PROVE WriterInv'
  <2>1. ~fd[p]
    BY <1>3 DEF BeginUnlocked, WriterInv
  <2>2. UNCHANGED <<holder, fd, view>> /\ pc' = [pc EXCEPT ![p] = "body"]
    BY <1>3, <2>1 DEF BeginUnlocked, TypeOK
  <2>3. QED
    BY <2>2
<1>4. ASSUME NEW p \in Procs, OperationStep(p), ~Finish(p) PROVE WriterInv'
  <2>1. CASE Publish(p) \/ OpenRecord(p) \/ Claim(p) \/ Inventory(p) \/ StopBoot(p)
    BY <2>1 DEF Publish, OpenRecord, Claim, Inventory, StopBoot
  <2>2. CASE Select(p) \/ EndBoot(p) \/ Refresh(p) \/ EndRefresh(p)
    BY <2>2 DEF Select, EndBoot, Refresh, EndRefresh
  <2>3. CASE SwapKasumiModule(p) \/ Teardown(p) \/ ForkChild(p)
    BY <2>3 DEF SwapKasumiModule, Teardown, ForkChild
  <2>4. QED
    BY <1>4, <2>1, <2>2, <2>3 DEF OperationStep
<1>5. ASSUME NEW p \in Procs, Finish(p) PROVE WriterInv'
  BY <1>5, WriterLeaves DEF Finish, Unlocked
<1>6. ASSUME NEW p \in Procs, ChildStep(p) PROVE WriterInv'
  <2>1. CASE OpenRules(p) \/ Attach(p)
    <3>1. UNCHANGED <<holder, fd, view>> /\ pc' = pc
      BY <2>1, Zenon DEF OpenRules, Attach
    <3>2. QED
      BY <3>1
  <2>2. CASE AbortPass(p) \/ Record(p)
    BY <2>2, PassOverWriter DEF AbortPass, Record
  <2>3. QED
    BY <1>6, <2>1, <2>2 DEF ChildStep
<1>7. ASSUME NEW p \in Procs, ChildDies(p) PROVE WriterInv'
  BY <1>7, ChildGoneWriter DEF ChildDies
<1>8. ASSUME NEW p \in Procs, Crash(p) PROVE WriterInv'
  <2>1. CASE cur[p] # "none"
    <3>1. UNCHANGED <<holder, fd, view>> /\ pc' = [pc EXCEPT ![p] = "orphan"]
      BY <1>8, <2>1 DEF Crash, LockAfterCrash
    <3>2. QED
      BY <3>1
  <2>2. CASE cur[p] = "none"
    <3>1. /\ holder' = Unlocked(p) /\ view' = view
          /\ pc' = [pc EXCEPT ![p] = "idle"] /\ fd' = [fd EXCEPT ![p] = FALSE]
      BY <1>8, <2>2 DEF Crash, LockAfterCrash
    <3>2. QED
      BY <3>1, WriterLeaves
  <2>3. QED
    BY <2>1, <2>2
<1>9. ASSUME NEW r \in Readers, SnapshotBegin(r) PROVE WriterInv'
  <2>1. \A q \in Procs : ~fd[q]
    BY <1>9, ConstantsAssumption DEF SnapshotBegin, WriterInv, OneWriter
  <2>2. QED
    BY <1>9, <2>1 DEF SnapshotBegin, procs, WriterInv, OneWriter
<1>10. ASSUME NEW r \in Readers, SnapshotEnd(r) PROVE WriterInv'
  BY <1>10 DEF SnapshotEnd, procs, TypeOK, WriterInv, OneWriter
<1>11. CASE Reboot
  BY <1>11, ConstantsAssumption DEF Reboot, WriterInv, OneWriter
<1>12. QED
  BY <1>1, <1>2, <1>3, <1>4, <1>5, <1>6, <1>7, <1>8, <1>9, <1>10, <1>11 DEF Next

\* Operations are mutually exclusive and exclude snapshots, for any number of
\* processes and readers, through crashes, orphaned mount children and reboots.
THEOREM WriterIsExclusive == Spec => []OneWriter
<1>1. Spec => [](TypeOK /\ WriterInv)
  BY InitType, TypeStep, InitWriter, WriterStep, PTL DEF Spec
<1>2. TypeOK /\ WriterInv => OneWriter
  BY DEF WriterInv
<1>3. QED
  BY <1>1, <1>2, PTL

-----------------------------------------------------------------------------
(* A mount child runs only while its parent waits for it or is dead.       *)

Waiting == {"mounting", "refreshing", "orphan"}
ChildInv == \A p \in Procs : cur[p] # "none" => pc[p] \in Waiting

LEMMA NoChildStays ==
    ASSUME TypeOK, ChildInv, NEW p \in Procs, NEW at \in Phases,
           pc[p] \notin Waiting \/ cur[p] = "none",
           cur' = cur, pc' = [pc EXCEPT ![p] = at]
    PROVE  ChildInv'
BY DEF TypeOK, ChildInv

LEMMA ChildGoneInv ==
    ASSUME TypeOK, ChildInv, NEW p \in Procs, ChildGone(p)
    PROVE  ChildInv'
<1>1. cur' = [cur EXCEPT ![p] = "none"] /\ (pc' = pc \/ pc' = [pc EXCEPT ![p] = "idle"])
  BY Zenon DEF ChildGone
<1>2. QED
  BY <1>1 DEF TypeOK, ChildInv

LEMMA PassOverInv ==
    ASSUME TypeOK, ChildInv, NEW p \in Procs, PassOver(p)
    PROVE  ChildInv'
<1>1. CASE cur[p] = "magic" /\ "overlay" \in todo[p]
  <2>1. cur' = [cur EXCEPT ![p] = "overlay"] /\ pc' = pc
    BY <1>1 DEF PassOver
  <2>2. QED
    BY <1>1, <2>1 DEF TypeOK, ChildInv
<1>2. CASE ~(cur[p] = "magic" /\ "overlay" \in todo[p])
  BY <1>2, ChildGoneInv DEF PassOver
<1>3. QED
  BY <1>1, <1>2

LEMMA ChildInvStep ==
    ASSUME TypeOK, ChildInv, [Next]_vars
    PROVE  ChildInv'
<1>1. CASE UNCHANGED vars
  BY <1>1 DEF vars, procs, ChildInv
<1>2. ASSUME NEW p \in Procs,
             \/ Begin(p) \/ BeginUnlocked(p) \/ Publish(p) \/ OpenRecord(p) \/ Claim(p)
             \/ Inventory(p) \/ StopBoot(p) \/ Select(p) \/ EndBoot(p) \/ Refresh(p)
             \/ EndRefresh(p) \/ SwapKasumiModule(p) \/ Teardown(p) \/ Finish(p)
      PROVE  ChildInv'
  <2>1. (pc[p] \notin Waiting \/ cur[p] = "none") /\ cur' = cur
    BY <1>2, Zenon DEF Begin, BeginUnlocked, Publish, OpenRecord, Claim, Inventory, StopBoot,
       Select, EndBoot, Refresh, EndRefresh, SwapKasumiModule, Teardown, Finish, Waiting
  <2>2. \E at \in Phases : pc' = [pc EXCEPT ![p] = at]
    BY <1>2, Zenon DEF Begin, BeginUnlocked, Publish, OpenRecord, Claim, Inventory, StopBoot,
       Select, EndBoot, Refresh, EndRefresh, SwapKasumiModule, Teardown, Finish
  <2>3. QED
    BY <2>1, <2>2, NoChildStays
<1>3. ASSUME NEW p \in Procs, ForkChild(p) PROVE ChildInv'
  <2>1. pc[p] \in Waiting /\ pc' = pc /\ \E b : cur' = [cur EXCEPT ![p] = b]
    BY <1>3, Zenon DEF ForkChild, Waiting
  <2>2. QED
    BY <2>1 DEF TypeOK, ChildInv
<1>4. ASSUME NEW p \in Procs, OpenRules(p) \/ Attach(p) PROVE ChildInv'
  <2>1. UNCHANGED <<pc, cur>>
    BY <1>4, Zenon DEF OpenRules, Attach
  <2>2. QED
    BY <2>1 DEF ChildInv
<1>5. ASSUME NEW p \in Procs, AbortPass(p) \/ Record(p) \/ ChildDies(p) PROVE ChildInv'
  <2>1. PassOver(p) \/ ChildGone(p)
    BY <1>5, Zenon DEF AbortPass, Record, ChildDies
  <2>2. QED
    BY <2>1, PassOverInv, ChildGoneInv
<1>6. ASSUME NEW p \in Procs, Crash(p) PROVE ChildInv'
  <2>1. cur' = cur /\ (pc' = [pc EXCEPT ![p] = "orphan"]
                       \/ (cur[p] = "none" /\ pc' = [pc EXCEPT ![p] = "idle"]))
    BY <1>6, Zenon DEF Crash
  <2>2. QED
    BY <2>1 DEF TypeOK, ChildInv, Waiting
<1>7. ASSUME NEW r \in Readers, SnapshotBegin(r) \/ SnapshotEnd(r) PROVE ChildInv'
  BY <1>7 DEF SnapshotBegin, SnapshotEnd, procs, ChildInv
<1>8. CASE Reboot
  BY <1>8 DEF Reboot, ChildInv
<1>9. QED
  BY <1>1, <1>2, <1>3, <1>4, <1>5, <1>6, <1>7, <1>8 DEF Next, OperationStep, ChildStep

-----------------------------------------------------------------------------
(* What was lost stays unknown, as long as the markers can be written and  *)
(* removed.                                                                *)

MarkersWork == ~PendingFails /\ ~InvalidFails

\* Inductive with WriterInv: a loss is covered by "invalid", or by a "pending"
\* that nobody alive is going to remove.
Covered == lost => invalid \/ (pending /\ (holder = None \/ pc[holder] = "orphan"))
PendingInv == \A p \in Procs : fd[p] /\ pc[p] \notin {"idle", "locked"} => pending
LossInv == Covered /\ PendingInv

\* The effects a step can have on the files, the markers and the ghost.
LEMMA StoreCovers ==
    ASSUME MarkersWork, NEW new, Store(new)
    PROVE  (lost' => lost \/ invalid') /\ (invalid => invalid')
BY DEF MarkersWork, Store, Invalidate

LEMMA MissCovers ==
    ASSUME MarkersWork, Miss
    PROVE  (lost' => lost \/ invalid') /\ (invalid => invalid')
BY DEF MarkersWork, Miss, Invalidate

LEMMA UpdateCovers ==
    ASSUME MarkersWork, NEW p \in Procs, NEW mods, Update(p, mods)
    PROVE  (lost' => lost \/ invalid') /\ (invalid => invalid')
BY StoreCovers, MissCovers DEF Update

LEMMA FullAssignCovers ==
    ASSUME MarkersWork, NEW p \in Procs, NEW c, FullAssign(p, c)
    PROVE  \/ fd[p] /\ ~lost'
           \/ (lost' => lost \/ invalid') /\ (invalid => invalid')
<1>1. CASE ~fd[p]
  BY <1>1 DEF FullAssign
<1>2. CASE fd[p]
  <2>1. (invalid' = FALSE /\ lost' = FALSE) \/ (InvalidFails /\ UNCHANGED <<invalid, lost>>) \/ Miss
    BY <1>2, Zenon DEF FullAssign
  <2>2. QED
    BY <1>2, <2>1, MissCovers DEF MarkersWork
<1>3. QED
  BY <1>1, <1>2

\* A step inside an Operation.
LEMMA LossStays ==
    ASSUME TypeOK, WriterInv, LossInv, NEW p \in Procs, NEW at \in Phases \ {"idle", "locked"},
           pc[p] \notin {"idle", "locked", "orphan"} \/ (pc' = pc),
           UNCHANGED <<holder, fd, pending>>, pc' = pc \/ pc' = [pc EXCEPT ![p] = at],
           \/ fd[p] /\ ~lost'
           \/ (lost' => lost \/ invalid') /\ (invalid => invalid')
    PROVE  LossInv'
<1>1. Covered'
  <2>1. CASE ~lost'
    BY <2>1 DEF Covered
  <2>2. CASE (lost' => lost \/ invalid') /\ (invalid => invalid')
    BY <2>2 DEF LossInv, Covered, TypeOK
  <2>3. QED
    BY <2>1, <2>2
<1>2. PendingInv'
  BY DEF LossInv, PendingInv, TypeOK
<1>3. QED
  BY <1>1, <1>2 DEF LossInv

\* The child of p is gone, whatever else the step did to the record.
LEMMA ChildGoneLoss ==
    ASSUME TypeOK, WriterInv, LossInv, NEW p \in Procs, ChildGone(p), pending' = pending,
           (lost' => lost \/ invalid') /\ (invalid => invalid')
    PROVE  LossInv'
<1>1. CASE pc[p] = "orphan"
  <2>1. holder' = Unlocked(p) /\ pc' = [pc EXCEPT ![p] = "idle"] /\ fd' = [fd EXCEPT ![p] = FALSE]
    BY <1>1 DEF ChildGone
  <2>2. PendingInv'
    BY <2>1 DEF LossInv, PendingInv, TypeOK
  <2>3. CASE fd[p]
    <3>1. holder' = None
      BY <2>1, <2>3 DEF Unlocked
    <3>2. QED
      BY <2>2, <3>1 DEF LossInv, Covered
  <2>4. CASE ~fd[p]
    <3>1. holder' = holder
      BY <2>1, <2>4 DEF Unlocked
    <3>2. holder # None => holder # p
      BY <2>4 DEF WriterInv, OneWriter
    <3>3. QED
      BY <2>1, <2>2, <3>1, <3>2 DEF LossInv, Covered, TypeOK
  <2>5. QED
    BY <2>3, <2>4
<1>2. CASE pc[p] # "orphan"
  <2>1. UNCHANGED <<holder, pc, fd>>
    BY <1>2 DEF ChildGone
  <2>2. QED
    BY <2>1 DEF LossInv, Covered, PendingInv
<1>3. QED
  BY <1>1, <1>2

LEMMA PassOverLoss ==
    ASSUME TypeOK, WriterInv, LossInv, NEW p \in Procs, PassOver(p), pending' = pending,
           (lost' => lost \/ invalid') /\ (invalid => invalid')
    PROVE  LossInv'
<1>1. CASE cur[p] = "magic" /\ "overlay" \in todo[p]
  <2>1. UNCHANGED <<holder, pc, fd>>
    BY <1>1 DEF PassOver
  <2>2. QED
    BY <2>1 DEF LossInv, Covered, PendingInv
<1>2. CASE ~(cur[p] = "magic" /\ "overlay" \in todo[p])
  BY <1>2, ChildGoneLoss DEF PassOver
<1>3. QED
  BY <1>1, <1>2

LEMMA InitLoss == Init => LossInv
BY DEF Init, LossInv, Covered, PendingInv

LEMMA LossStep ==
    ASSUME MarkersWork, TypeOK, WriterInv, ChildInv, LossInv, [Next]_vars
    PROVE  LossInv'
<1>1. CASE UNCHANGED vars
  BY <1>1 DEF vars, files, procs, LossInv, Covered, PendingInv
<1>2. ASSUME NEW p \in Procs, Begin(p) PROVE LossInv'
  <2>1. \A q \in Procs : ~fd[q]
    BY <1>2, ConstantsAssumption DEF Begin, WriterInv, OneWriter
  <2>2. lost' => invalid'
    BY <1>2 DEF Begin, InspectPending, Invalidate, MarkersWork, LossInv, Covered
  <2>3. QED
    BY <1>2, <2>1, <2>2 DEF Begin, TypeOK, LossInv, Covered, PendingInv
<1>3. ASSUME NEW p \in Procs, BeginUnlocked(p) PROVE LossInv'
  <2>1. holder # None => holder # p
    BY <1>3 DEF BeginUnlocked, WriterInv, OneWriter
  <2>2. QED
    BY <1>3, <2>1 DEF BeginUnlocked, files, TypeOK, LossInv, Covered, PendingInv
<1>4. ASSUME NEW p \in Procs, Publish(p) PROVE LossInv'
  <2>1. pending' = TRUE /\ pc' = [pc EXCEPT ![p] = "published"] /\ UNCHANGED <<invalid, lost, holder, fd>>
    BY <1>4 DEF Publish, MarkersWork
  <2>2. pc[p] = "locked"
    BY <1>4 DEF Publish
  <2>3. QED
    BY <2>1, <2>2 DEF TypeOK, LossInv, Covered, PendingInv
<1>5. ASSUME NEW p \in Procs, OpenRecord(p) PROVE LossInv'
  <2>1. (\E new : Store(new)) \/ Miss
    BY <1>5, Zenon DEF OpenRecord
  <2>2. (lost' => lost \/ invalid') /\ (invalid => invalid')
    BY <2>1, StoreCovers, MissCovers
  <2>3. pc[p] = "published" /\ pc' = [pc EXCEPT ![p] = "body"] /\ UNCHANGED <<holder, fd, pending>>
    BY <1>5 DEF OpenRecord
  <2>4. QED
    BY <2>2, <2>3, LossStays
<1>6. ASSUME NEW p \in Procs, Claim(p) \/ SwapKasumiModule(p) \/ Refresh(p) PROVE LossInv'
  <2>1. (\E mods : Update(p, mods)) \/ UNCHANGED <<db, invalid, lost>>
    BY <1>6, Zenon DEF Claim, SwapKasumiModule, Refresh
  <2>2. (lost' => lost \/ invalid') /\ (invalid => invalid')
    BY <2>1, UpdateCovers
  <2>3. /\ pc[p] = "body"
        /\ \E at \in Phases \ {"idle", "locked"} : pc' = [pc EXCEPT ![p] = at]
        /\ UNCHANGED <<holder, fd, pending>>
    BY <1>6, Zenon DEF Claim, SwapKasumiModule, Refresh
  <2>4. QED
    BY <2>2, <2>3, LossStays
<1>7. ASSUME NEW p \in Procs, Inventory(p) \/ Select(p) PROVE LossInv'
  <2>1. \E c : FullAssign(p, c)
    BY <1>7, Zenon DEF Inventory, Select
  <2>2. /\ pc[p] \in {"claimed", "inventory"}
        /\ \E at \in Phases \ {"idle", "locked"} : pc' = [pc EXCEPT ![p] = at]
        /\ UNCHANGED <<holder, fd, pending>>
    BY <1>7, Zenon DEF Inventory, Select
  <2>3. QED
    BY <2>1, <2>2, FullAssignCovers, LossStays
<1>8. ASSUME NEW p \in Procs,
             StopBoot(p) \/ EndBoot(p) \/ EndRefresh(p) \/ Teardown(p) \/ ForkChild(p)
      PROVE  LossInv'
  <2>1. /\ pc[p] \notin {"idle", "locked", "orphan"}
        /\ pc' = pc \/ pc' = [pc EXCEPT ![p] = "finishing"]
        /\ UNCHANGED <<holder, fd, pending, lost, invalid>>
    BY <1>8, Zenon DEF StopBoot, EndBoot, EndRefresh, Teardown, ForkChild, files
  <2>2. QED
    BY <2>1, LossStays
<1>9. ASSUME NEW p \in Procs, Finish(p) PROVE LossInv'
  <2>1. /\ pc[p] \in {"body", "finishing"}
        /\ pc' = [pc EXCEPT ![p] = "idle"]
        /\ fd' = [fd EXCEPT ![p] = FALSE]
        /\ UNCHANGED <<invalid, lost>>
    BY <1>9 DEF Finish
  <2>2. CASE fd[p]
    <3>1. holder' = None /\ holder = p
      BY <1>9, <2>2, OwnerOnly DEF Finish, WriterInv, OneWriter
    <3>2. \A q \in Procs : ~fd'[q]
      BY <2>1, <2>2, OwnerOnly DEF TypeOK
    <3>3. invalid => pending' = pending
      BY <1>9 DEF Finish
    <3>4. lost => invalid
      BY <2>1, <3>1, ConstantsAssumption DEF LossInv, Covered
    <3>5. QED
      BY <2>1, <3>2, <3>4 DEF LossInv, Covered, PendingInv
  <2>3. CASE ~fd[p]
    <3>1. holder' = holder /\ pending' = pending /\ (holder # None => holder # p)
      BY <1>9, <2>3 DEF Finish, WriterInv, OneWriter
    <3>2. QED
      BY <2>1, <2>3, <3>1 DEF TypeOK, LossInv, Covered, PendingInv
  <2>4. QED
    BY <2>2, <2>3
<1>10. ASSUME NEW p \in Procs, OpenRules(p) PROVE LossInv'
  <2>1. (\E mods : Update(p, mods)) /\ UNCHANGED <<pc, holder, fd, pending>>
    BY <1>10, Zenon DEF OpenRules
  <2>2. (lost' => lost \/ invalid') /\ (invalid => invalid')
    BY <2>1, UpdateCovers
  <2>3. QED
    BY <2>1, <2>2 DEF LossInv, Covered, PendingInv
<1>11. ASSUME NEW p \in Procs, AbortPass(p) PROVE LossInv'
  BY <1>11, PassOverLoss DEF AbortPass, files
<1>12. ASSUME NEW p \in Procs, Attach(p) PROVE LossInv'
  <2>1. UNCHANGED <<pc, holder, fd, pending, lost, invalid>>
    BY <1>12, Zenon DEF Attach, files
  <2>2. QED
    BY <2>1 DEF LossInv, Covered, PendingInv
<1>13. ASSUME NEW p \in Procs, Record(p) PROVE LossInv'
  <2>1. (\E mods : Update(p, mods)) /\ PassOver(p) /\ pending' = pending
    BY <1>13, Zenon DEF Record
  <2>2. (lost' => lost \/ invalid') /\ (invalid => invalid')
    BY <2>1, UpdateCovers
  <2>3. QED
    BY <2>1, <2>2, PassOverLoss
<1>14. ASSUME NEW p \in Procs, ChildDies(p) PROVE LossInv'
  BY <1>14, ChildGoneLoss DEF ChildDies, files
<1>15. ASSUME NEW p \in Procs, Crash(p) PROVE LossInv'
  <2>1. /\ pc[p] \notin {"idle", "orphan"}
        /\ lost' = (lost \/ (fd[p] /\ pc[p] # "locked"))
        /\ holder' = LockAfterCrash(p)
        /\ UNCHANGED <<pending, invalid>>
    BY <1>15 DEF Crash, files
  <2>2. fd[p] /\ pc[p] # "locked" => pending /\ holder = p
    BY <2>1 DEF LossInv, PendingInv, WriterInv, OneWriter
  <2>3. lost => invalid \/ (pending /\ holder # p)
    BY <2>1, ConstantsAssumption DEF LossInv, Covered
  <2>4. CASE cur[p] # "none"
    <3>1. holder' = holder /\ pc' = [pc EXCEPT ![p] = "orphan"] /\ fd' = fd
      BY <1>15, <2>4 DEF Crash, LockAfterCrash
    <3>2. PendingInv'
      BY <2>1, <2>2, <2>4, <3>1 DEF TypeOK, ChildInv, Waiting, LossInv, PendingInv
    <3>3. QED
      BY <2>1, <2>2, <3>1, <3>2 DEF TypeOK, LossInv, Covered
  <2>5. CASE cur[p] = "none"
    <3>1. holder' = Unlocked(p) /\ pc' = [pc EXCEPT ![p] = "idle"] /\ fd' = [fd EXCEPT ![p] = FALSE]
      BY <1>15, <2>5 DEF Crash, LockAfterCrash
    <3>2. PendingInv'
      BY <2>1, <3>1 DEF TypeOK, LossInv, PendingInv
    <3>3. CASE fd[p]
      BY <2>1, <2>2, <2>3, <3>1, <3>2, <3>3 DEF Unlocked, LossInv, Covered
    <3>4. CASE ~fd[p]
      <4>1. holder # None => holder # p
        BY <3>4 DEF WriterInv, OneWriter
      <4>2. QED
        BY <2>1, <3>1, <3>2, <3>4, <4>1 DEF Unlocked, TypeOK, LossInv, Covered
    <3>5. QED
      BY <3>3, <3>4
  <2>6. QED
    BY <2>4, <2>5
<1>16. ASSUME NEW r \in Readers, SnapshotBegin(r) \/ SnapshotEnd(r) PROVE LossInv'
  BY <1>16 DEF SnapshotBegin, SnapshotEnd, files, procs, LossInv, Covered, PendingInv
<1>17. CASE Reboot
  BY <1>17 DEF Reboot, files, LossInv, Covered, PendingInv
<1>18. QED
  BY <1>1, <1>2, <1>3, <1>4, <1>5, <1>6, <1>7, <1>8, <1>9, <1>10, <1>11, <1>12, <1>13, <1>14,
     <1>15, <1>16, <1>17 DEF Next, OperationStep, ChildStep

\* An Operation that died half-way or an observation that could not be published
\* is never reported as definite before a full inventory has replaced the record:
\* for any number of processes, crashes and reboots, if the two marker files can
\* be created and removed. (The record itself may be unwritable.)
THEOREM LossStaysVisible == ASSUME MarkersWork PROVE Spec => []LostStaysUnknown
<1>1. Init => TypeOK /\ WriterInv /\ ChildInv /\ LossInv
  BY InitType, InitWriter, InitLoss DEF Init, ChildInv
<1>2. TypeOK /\ WriterInv /\ ChildInv /\ LossInv /\ [Next]_vars => (TypeOK /\ WriterInv /\ ChildInv /\ LossInv)'
  BY TypeStep, WriterStep, ChildInvStep, LossStep
<1>3. TypeOK /\ WriterInv /\ ChildInv /\ LossInv => LostStaysUnknown
  BY DEF LossInv, Covered, LostStaysUnknown, Publishable
<1>4. QED
  BY <1>1, <1>2, <1>3, PTL DEF Spec

-----------------------------------------------------------------------------
(* Who may attach, and what: the processes alone, whatever becomes of the  *)
(* record.                                                                 *)

Claiming == {"claimed", "inventory", "mounting"}

\* A process whose mount child runs or that waits between two children.
Mounts(p) == cur[p] # "none" \/ pc[p] = "refreshing"

\* Nobody has selected a backend for every module since the boot.
Early == ~claimed \/ \E p \in Procs : pc[p] \in {"claimed", "inventory"}

\* The constructor of an Operation runs with the descriptor open.
OpeningInv == \A p \in Procs : pc[p] \in {"locked", "published"} => fd[p]

\* What a pass is at and what it has still to do.
PassInv ==
    \A p \in Procs :
        /\ stage[p] # "none" => cur[p] # "none"
        /\ cur[p] \notin todo[p]
        /\ pc[p] = "refreshing" => todo[p] \subseteq {"kasumi"}

\* One process claims the boot, before there is a plan. Until it has selected
\* backends nothing is attached.
ClaimInv ==
    /\ ~claimed => plan = {}
    /\ \A p \in Procs : pc[p] \in Claiming => claimed /\ plan = {}
    /\ \A p, q \in Procs : pc[p] \in Claiming /\ pc[q] \in Claiming => p = q
    /\ Early => live = {} /\ \A q \in Procs : ~Mounts(q)

\* While it mounts nobody else does, and all that is attached is what it selected.
MountingInv ==
    \A p \in Procs : pc[p] = "mounting" =>
        /\ \A q \in Procs \ {p} : ~Mounts(q)
        /\ \A a \in live : choice[p][a[1]] = a[3]

\* Modules of the plan are Kasumi's, and so is whatever is attached for them.
PlanInv ==
    /\ plan # {} => \A p \in Procs : cur[p] \in {"none", "kasumi"}
    /\ \A a \in live : a[1] \in plan => a[3] = "kasumi"

ControlInv == OpeningInv /\ PassInv /\ ClaimInv /\ MountingInv /\ PlanInv

LEMMA InitControl == Init => ControlInv
BY DEF Init, ControlInv, OpeningInv, PassInv, ClaimInv, MountingInv, PlanInv, Early, Mounts, Claiming

\* The other processes stay where they are.
OthersStay(p) ==
    \A q \in Procs \ {p} :
        /\ pc'[q] = pc[q] /\ fd'[q] = fd[q] /\ choice'[q] = choice[q]
        /\ todo'[q] = todo[q] /\ cur'[q] = cur[q] /\ stage'[q] = stage[q]

\* The child of p goes on as it was, turns to the next backend or is gone.
ChildGoesOn(p) ==
    /\ \/ cur'[p] = cur[p] \/ cur'[p] = "none"
       \/ cur[p] = "magic" /\ cur'[p] = "overlay" /\ "overlay" \in todo[p]
    /\ todo'[p] \subseteq todo[p] /\ cur'[p] \notin todo'[p]
    /\ stage'[p] # "none" => cur'[p] # "none"

\* p stays where it is, or goes where nothing is mounted.
Withdraws(p) ==
    \/ pc'[p] = pc[p] /\ fd'[p] = fd[p] /\ choice'[p] = choice[p]
    \/ /\ pc'[p] \notin Claiming \cup {"refreshing"}
       /\ pc'[p] \in {"locked", "published"} => fd'[p]

LEMMA WithdrawsControl ==
    ASSUME TypeOK, ControlInv, NEW p \in Procs, OthersStay(p), ChildGoesOn(p), Withdraws(p),
           claimed' = claimed, plan' = plan \/ plan' = {}, live' \subseteq live
    PROVE  ControlInv'
<1>1. OpeningInv'
  BY DEF ControlInv, OpeningInv, OthersStay, Withdraws
<1>2. PassInv'
  BY DEF ControlInv, PassInv, OthersStay, ChildGoesOn, Withdraws
<1>3. \A q \in Procs : (Mounts(q)' => Mounts(q)) /\ (pc'[q] \in Claiming => pc'[q] = pc[q] /\ choice'[q] = choice[q])
  BY DEF OthersStay, ChildGoesOn, Withdraws, Mounts, Claiming
<1>4. ClaimInv'
  BY <1>3 DEF ControlInv, ClaimInv, Early, Claiming
<1>5. MountingInv'
  BY <1>3 DEF ControlInv, MountingInv, Claiming
<1>6. PlanInv'
  <2>1. \A q \in Procs : cur'[q] \in {cur[q], "none"} \/ cur[q] = "magic"
    BY DEF OthersStay, ChildGoesOn
  <2>2. QED
    BY <2>1 DEF ControlInv, PlanInv
<1>7. QED
  BY <1>1, <1>2, <1>4, <1>5, <1>6 DEF ControlInv

LEMMA ChildGoneFrame ==
    ASSUME TypeOK, ControlInv, NEW p \in Procs, ChildGone(p), todo'[p] \subseteq todo[p],
           \A q \in Procs \ {p} : todo'[q] = todo[q]
    PROVE  OthersStay(p) /\ ChildGoesOn(p) /\ Withdraws(p)
<1>1. cur' = [cur EXCEPT ![p] = "none"] /\ stage' = [stage EXCEPT ![p] = "none"]
  BY DEF ChildGone
<1>2. \/ UNCHANGED <<pc, fd, choice>>
      \/ /\ pc' = [pc EXCEPT ![p] = "idle"]
         /\ fd' = [fd EXCEPT ![p] = FALSE]
         /\ choice' = [choice EXCEPT ![p] = NoChoice]
  BY Zenon DEF ChildGone
<1>3. "none" \notin todo[p]
  BY DEF TypeOK
<1>4. OthersStay(p)
  BY <1>1, <1>2 DEF OthersStay, TypeOK
<1>5. ChildGoesOn(p)
  BY <1>1, <1>3 DEF ChildGoesOn, TypeOK
<1>6. Withdraws(p)
  BY <1>2 DEF Withdraws, TypeOK, Claiming
<1>7. QED
  BY <1>4, <1>5, <1>6

LEMMA PassOverFrame ==
    ASSUME TypeOK, ControlInv, NEW p \in Procs, PassOver(p)
    PROVE  OthersStay(p) /\ ChildGoesOn(p) /\ Withdraws(p)
<1>1. CASE cur[p] = "magic" /\ "overlay" \in todo[p]
  <2>1. /\ cur' = [cur EXCEPT ![p] = "overlay"]
        /\ stage' = [stage EXCEPT ![p] = "attach"]
        /\ todo' = [todo EXCEPT ![p] = todo[p] \ {"overlay"}]
        /\ UNCHANGED <<pc, fd, choice>>
    BY <1>1, Zenon DEF PassOver
  <2>2. QED
    BY <1>1, <2>1 DEF TypeOK, OthersStay, ChildGoesOn, Withdraws
<1>2. CASE ~(cur[p] = "magic" /\ "overlay" \in todo[p])
  <2>1. ChildGone(p) /\ todo' = [todo EXCEPT ![p] = IF pc[p] = "orphan" THEN {} ELSE todo[p]]
    BY <1>2, Zenon DEF PassOver
  <2>2. todo'[p] \subseteq todo[p] /\ \A q \in Procs \ {p} : todo'[q] = todo[q]
    BY <2>1 DEF TypeOK
  <2>3. QED
    BY <2>1, <2>2, ChildGoneFrame
<1>3. QED
  BY <1>1, <1>2

\* A step of an Operation that leaves its mount child alone.
LEMMA OperationFrame ==
    ASSUME TypeOK, ControlInv, NEW p \in Procs, NEW at \in Phases \ (Claiming \cup {"refreshing"}),
           at \in {"locked", "published"} => fd'[p],
           pc' = [pc EXCEPT ![p] = at],
           fd' = fd \/ \E b : fd' = [fd EXCEPT ![p] = b],
           choice' = choice \/ \E c : choice' = [choice EXCEPT ![p] = c],
           UNCHANGED <<todo, cur, stage>>
    PROVE  OthersStay(p) /\ ChildGoesOn(p) /\ Withdraws(p)
<1>1. OthersStay(p)
  BY DEF OthersStay, TypeOK
<1>2. ChildGoesOn(p)
  BY DEF ChildGoesOn, ControlInv, PassInv
<1>3. Withdraws(p)
  BY DEF Withdraws, TypeOK
<1>4. QED
  BY <1>1, <1>2, <1>3

\* The claim of the boot up to the selection of backends: nothing is attached.
LEMMA ClaimControl ==
    ASSUME TypeOK, ChildInv, ControlInv, NEW p \in Procs, Claim(p) \/ Inventory(p) \/ Select(p)
    PROVE  ControlInv'
<1>1. /\ pc[p] \in {"body", "claimed", "inventory"} /\ cur[p] = "none"
      /\ Early /\ live' = live /\ live = {}
  BY Zenon DEF Claim, Inventory, Select, Early, ChildInv, Waiting, ControlInv, ClaimInv
<1>2. /\ pc[p] \in Claiming \/ ~claimed
      /\ claimed' = TRUE \/ (claimed' = claimed /\ pc[p] \in Claiming)
      /\ plan' = {} \/ (plan' = plan /\ pc[p] \in Claiming)
  BY Zenon DEF Claim, Inventory, Select, Claiming
<1>3. claimed' /\ plan' = {} /\ plan = {}
  BY <1>2 DEF ControlInv, ClaimInv, TypeOK
<1>4. \A q \in Procs \ {p} : pc[q] \notin Claiming
  BY <1>2 DEF ControlInv, ClaimInv
<1>5. \E at \in Claiming : pc' = [pc EXCEPT ![p] = at]
  BY Zenon DEF Claim, Inventory, Select, Claiming
<1>6. UNCHANGED <<fd, cur, stage>> /\ \A q \in Procs : pc'[q] \in {"locked", "published"} => pc[q] = pc'[q]
  <2>1. UNCHANGED <<fd, cur, stage>>
    BY Zenon DEF Claim, Inventory, Select
  <2>2. QED
    BY <1>5, <2>1 DEF TypeOK, Claiming
<1>7. /\ \A q \in Procs \ {p} : pc'[q] = pc[q] /\ todo'[q] = todo[q]
      /\ pc'[p] \in Claiming
      /\ "none" \notin todo'[p]
  <2>1. todo' = todo \/ (\E c \in Choices, kasumi \in SUBSET {"kasumi"} : todo' = [todo EXCEPT ![p] =
                        {b \in {"magic", "overlay"} : \E m \in Modules : c[m] = b} \cup kasumi])
    BY Zenon DEF Claim, Inventory, Select
  <2>2. "none" \notin todo'[p] /\ \A q \in Procs \ {p} : todo'[q] = todo[q]
    BY <2>1 DEF TypeOK
  <2>3. QED
    BY <1>5, <2>2 DEF TypeOK
<1>8. OpeningInv'
  BY <1>6 DEF ControlInv, OpeningInv
<1>9. PassInv'
  BY <1>1, <1>6, <1>7 DEF ControlInv, PassInv, Claiming
<1>10. \A q \in Procs : ~Mounts(q)'
  BY <1>1, <1>6, <1>7 DEF ControlInv, ClaimInv, Mounts, Claiming
<1>11. ClaimInv'
  <2>1. \A q \in Procs : pc'[q] \in Claiming => q = p
    BY <1>4, <1>7
  <2>2. QED
    BY <2>1, <1>1, <1>3, <1>10 DEF ClaimInv
<1>12. MountingInv'
  BY <1>1, <1>10 DEF MountingInv
<1>13. PlanInv'
  BY <1>1, <1>3 DEF PlanInv
<1>14. QED
  BY <1>8, <1>9, <1>11, <1>12, <1>13 DEF ControlInv

\* A refresh: only with a plan, so after the claim has ended.
LEMMA RefreshControl ==
    ASSUME TypeOK, ChildInv, ControlInv, NEW p \in Procs, Refresh(p)
    PROVE  ControlInv'
<1>1. /\ pc[p] = "body" /\ cur[p] = "none" /\ plan # {}
      /\ UNCHANGED <<claimed, plan, fd, cur, stage>>
      /\ pc' = [pc EXCEPT ![p] = "refreshing"]
      /\ todo' = [todo EXCEPT ![p] = {"kasumi"}]
      /\ \E c : choice' = [choice EXCEPT ![p] = c]
      /\ live' \subseteq live
  BY DEF Refresh, ChildInv, Waiting
<1>2. claimed /\ \A q \in Procs : pc[q] \notin Claiming
  BY <1>1 DEF ControlInv, ClaimInv, TypeOK
<1>3. \A q \in Procs : pc'[q] \notin Claiming \cup {"locked", "published"} \/ (q # p /\ pc'[q] = pc[q])
  BY <1>1 DEF TypeOK, Claiming
<1>4. OpeningInv'
  BY <1>1, <1>3 DEF ControlInv, OpeningInv
<1>5. PassInv'
  BY <1>1 DEF ControlInv, PassInv, TypeOK
<1>6. ClaimInv' /\ MountingInv'
  BY <1>1, <1>2, <1>3 DEF ClaimInv, MountingInv, Early, Claiming
<1>7. PlanInv'
  BY <1>1 DEF ControlInv, PlanInv
<1>8. QED
  BY <1>4, <1>5, <1>6, <1>7 DEF ControlInv

\* The plan is committed: what is attached for its modules is what was selected.
LEMMA EndBootControl ==
    ASSUME TypeOK, ControlInv, NEW p \in Procs, EndBoot(p)
    PROVE  ControlInv'
<1>1. /\ pc[p] = "mounting" /\ cur[p] = "none"
      /\ UNCHANGED <<claimed, fd, todo, cur, stage, choice>>
      /\ pc' = [pc EXCEPT ![p] = "finishing"]
      /\ plan' = {} \/ plan' = {m \in Modules : choice[p][m] = "kasumi"}
      /\ live' \subseteq live
  BY DEF EndBoot
<1>2. claimed /\ (\A q \in Procs : pc[q] \in Claiming => q = p) /\ \A q \in Procs : ~Mounts(q)
  BY <1>1 DEF ControlInv, ClaimInv, MountingInv, Claiming, Mounts
<1>3. \A q \in Procs : pc'[q] \notin Claiming /\ (pc'[q] \in {"locked", "published", "refreshing"} => pc'[q] = pc[q])
  BY <1>1, <1>2 DEF TypeOK, Claiming
<1>4. OpeningInv' /\ PassInv'
  BY <1>1, <1>3 DEF ControlInv, OpeningInv, PassInv
<1>5. ClaimInv' /\ MountingInv'
  BY <1>1, <1>2, <1>3 DEF ClaimInv, MountingInv, Early, Claiming
<1>6. PlanInv'
  BY <1>1, <1>2 DEF ControlInv, MountingInv, PlanInv, Mounts
<1>7. QED
  BY <1>4, <1>5, <1>6 DEF ControlInv

\* A new child: its parent is the only one to mount, or follows the plan.
LEMMA ForkControl ==
    ASSUME TypeOK, ControlInv, NEW p \in Procs, ForkChild(p)
    PROVE  ControlInv'
<1>1. PICK b \in ChildBackends :
         /\ FirstOf(b, todo[p])
         /\ cur' = [cur EXCEPT ![p] = b]
         /\ todo' = [todo EXCEPT ![p] = todo[p] \ {b}]
         /\ \E s : stage' = [stage EXCEPT ![p] = s]
  BY DEF ForkChild
<1>2. /\ pc[p] \in {"mounting", "refreshing"} /\ cur[p] = "none"
      /\ UNCHANGED <<claimed, plan, live, pc, fd, choice>>
  BY DEF ForkChild
<1>3. /\ \A q \in Procs \ {p} : cur'[q] = cur[q] /\ todo'[q] = todo[q] /\ stage'[q] = stage[q]
      /\ cur'[p] = b /\ todo'[p] = todo[p] \ {b} /\ b \in todo[p]
  BY <1>1 DEF TypeOK, FirstOf
<1>4. ~Early
  BY <1>2 DEF ControlInv, ClaimInv, Early, Claiming, Mounts
<1>5. \A q \in Procs \ {p} : pc[q] # "mounting"
  BY <1>2 DEF ControlInv, ClaimInv, MountingInv, Claiming, Mounts
<1>6. OpeningInv' /\ PassInv'
  BY <1>2, <1>3 DEF ControlInv, OpeningInv, PassInv
<1>7. ClaimInv'
  BY <1>2, <1>4 DEF ControlInv, ClaimInv, Early
<1>8. MountingInv'
  BY <1>2, <1>3, <1>5 DEF ControlInv, MountingInv, Mounts
<1>9. PlanInv'
  <2>1. plan # {} => b = "kasumi"
    BY <1>2, <1>3 DEF ControlInv, ClaimInv, PassInv, Claiming
  <2>2. QED
    BY <1>2, <1>3, <2>1 DEF ControlInv, PlanInv
<1>10. QED
  BY <1>6, <1>7, <1>8, <1>9 DEF ControlInv

\* What a pass attaches is under its backend, for modules selected for it.
LEMMA AttachFrame ==
    ASSUME TypeOK, ControlInv, NEW p \in Procs, Attach(p)
    PROVE  /\ stage[p] = "attach" /\ cur[p] # "none"
           /\ UNCHANGED <<boot, claimed, plan, db, invalid, pc, fd, choice, todo, cur>>
           /\ stage' = [stage EXCEPT ![p] = "record"]
           /\ \A q \in Procs \ {p} : result'[q] = result[q]
           /\ \A a \in live' \ live :
                 /\ a \in Attachments /\ a[3] = cur[p] /\ choice[p][a[1]] = cur[p]
                 /\ result'[p][a[1]][a[2]] \in {"blind", "captured"}
<1>1. PICK res \in [Modules -> Evidence] :
         /\ \A m \in Modules : choice[p][m] # cur[p] => res[m] = NoParts
         /\ result' = [result EXCEPT ![p] = res]
         /\ LET attached == {a \in Attachments :
                                a[3] = cur[p] /\ res[a[1]][a[2]] \in {"blind", "captured"}}
            IN IF cur[p] = "kasumi"
               THEN \E taken \in SUBSET attached : live' = live \cup taken
               ELSE live' = live \cup attached
  BY DEF Attach
<1>2. \A a \in live' \ live : a \in Attachments /\ a[3] = cur[p] /\ res[a[1]][a[2]] \in {"blind", "captured"}
  <2> HIDE DEF ChildBackends
  <2>1. QED
    BY <1>1
<1>3. result'[p] = res /\ \A q \in Procs \ {p} : result'[q] = result[q]
  BY <1>1 DEF TypeOK
<1>4. \A a \in Attachments : res[a[1]][a[2]] \in {"blind", "captured"} => choice[p][a[1]] = cur[p]
  BY <1>1 DEF Attachments, NoParts
<1>5. stage[p] = "attach" /\ stage' = [stage EXCEPT ![p] = "record"]
      /\ UNCHANGED <<boot, claimed, plan, db, invalid, pc, fd, choice, todo, cur>>
  BY DEF Attach, files
<1>6. cur[p] # "none"
  BY <1>5 DEF ControlInv, PassInv
<1>7. QED
  BY <1>2, <1>3, <1>4, <1>5, <1>6

LEMMA AttachControl ==
    ASSUME TypeOK, ControlInv, NEW p \in Procs, Attach(p)
    PROVE  ControlInv'
<1>1. /\ cur[p] # "none" /\ UNCHANGED <<claimed, plan, pc, fd, choice, todo, cur>>
      /\ stage' = [stage EXCEPT ![p] = "record"]
      /\ \A a \in live' \ live : a[3] = cur[p] /\ choice[p][a[1]] = cur[p]
  BY AttachFrame
<1>2. OpeningInv' /\ PassInv'
  BY <1>1 DEF ControlInv, OpeningInv, PassInv, TypeOK
<1>3. ClaimInv'
  BY <1>1 DEF ControlInv, ClaimInv, Early, Mounts
<1>4. MountingInv'
  BY <1>1 DEF ControlInv, MountingInv, Mounts
<1>5. PlanInv'
  BY <1>1 DEF ControlInv, PlanInv
<1>6. QED
  BY <1>2, <1>3, <1>4, <1>5 DEF ControlInv

LEMMA ControlStep ==
    ASSUME TypeOK, WriterInv, ChildInv, ControlInv, [Next]_vars
    PROVE  ControlInv'
<1> USE WithdrawsControl
<1>1. CASE UNCHANGED vars
  BY <1>1 DEF vars, procs, ControlInv, OpeningInv, PassInv, ClaimInv, MountingInv, PlanInv, Early, Mounts
<1>2. ASSUME NEW p \in Procs, Claim(p) \/ Inventory(p) \/ Select(p) PROVE ControlInv'
  BY <1>2, ClaimControl
<1>3. ASSUME NEW p \in Procs, Refresh(p) \/ EndBoot(p) \/ ForkChild(p) \/ Attach(p) PROVE ControlInv'
  BY <1>3, RefreshControl, EndBootControl, ForkControl, AttachControl
<1>4. ASSUME NEW p \in Procs,
             \/ Begin(p) \/ BeginUnlocked(p) \/ Publish(p) \/ OpenRecord(p) \/ StopBoot(p)
             \/ EndRefresh(p) \/ SwapKasumiModule(p) \/ Teardown(p) \/ Finish(p)
      PROVE  ControlInv'
  <2>1. /\ UNCHANGED <<claimed, todo, cur, stage>> /\ live' \subseteq live
        /\ plan' = plan \/ plan' = {}
    BY <1>4 DEF Begin, BeginUnlocked, Publish, OpenRecord, StopBoot, EndRefresh,
       SwapKasumiModule, Teardown, Finish
  <2>2. \E at \in Phases \ (Claiming \cup {"refreshing"}) : pc' = [pc EXCEPT ![p] = at]
                 /\ (at \in {"locked", "published"} => fd'[p])
    <3>1. CASE Begin(p)
      BY <3>1 DEF Begin, TypeOK, Claiming
    <3>2. CASE Publish(p)
      BY <3>2 DEF Publish, ControlInv, OpeningInv, Claiming
    <3>3. CASE \/ BeginUnlocked(p) \/ OpenRecord(p) \/ StopBoot(p) \/ EndRefresh(p)
               \/ SwapKasumiModule(p) \/ Teardown(p) \/ Finish(p)
      BY <3>3, Zenon DEF BeginUnlocked, OpenRecord, StopBoot, EndRefresh, SwapKasumiModule,
         Teardown, Finish, Claiming
    <3>4. QED
      BY <1>4, <3>1, <3>2, <3>3
  <2>3. /\ fd' = fd \/ \E b : fd' = [fd EXCEPT ![p] = b]
        /\ choice' = choice \/ \E c : choice' = [choice EXCEPT ![p] = c]
    BY <1>4, Zenon DEF Begin, BeginUnlocked, Publish, OpenRecord, StopBoot, EndRefresh,
       SwapKasumiModule, Teardown, Finish
  <2>4. QED
    BY <2>1, <2>2, <2>3, OperationFrame
<1>5. ASSUME NEW p \in Procs, OpenRules(p) PROVE ControlInv'
  <2>1. /\ stage[p] = "open" /\ stage' = [stage EXCEPT ![p] = "attach"]
        /\ UNCHANGED <<claimed, plan, live, pc, fd, choice, todo, cur>>
    BY <1>5, Zenon DEF OpenRules
  <2>2. OthersStay(p) /\ ChildGoesOn(p) /\ Withdraws(p)
    BY <2>1 DEF OthersStay, ChildGoesOn, Withdraws, ControlInv, PassInv, TypeOK
  <2>3. QED
    BY <2>1, <2>2
<1>6. ASSUME NEW p \in Procs, AbortPass(p) \/ Record(p) PROVE ControlInv'
  <2>1. PassOver(p) /\ UNCHANGED <<claimed, plan>> /\ live' \subseteq live
    BY <1>6 DEF AbortPass, Record
  <2>2. QED
    BY <2>1, PassOverFrame
<1>7. ASSUME NEW p \in Procs, ChildDies(p) PROVE ControlInv'
  <2>1. /\ ChildGone(p) /\ UNCHANGED <<claimed, plan, live>>
        /\ \E t : t \subseteq todo[p] /\ todo' = [todo EXCEPT ![p] = t]
    BY <1>7 DEF ChildDies
  <2>2. todo'[p] \subseteq todo[p] /\ \A q \in Procs \ {p} : todo'[q] = todo[q]
    BY <2>1 DEF TypeOK
  <2>3. QED
    BY <2>1, <2>2, ChildGoneFrame
<1>8. ASSUME NEW p \in Procs, Crash(p) PROVE ControlInv'
  <2>1. UNCHANGED <<claimed, plan, live, cur, stage>>
    BY <1>8, Zenon DEF Crash
  <2>2. \/ /\ pc' = [pc EXCEPT ![p] = "orphan"] /\ UNCHANGED <<fd, choice>>
           /\ \E t : t \subseteq todo[p] /\ todo' = [todo EXCEPT ![p] = t]
        \/ /\ pc' = [pc EXCEPT ![p] = "idle"]
           /\ fd' = [fd EXCEPT ![p] = FALSE] /\ choice' = [choice EXCEPT ![p] = NoChoice]
           /\ todo' = [todo EXCEPT ![p] = {}]
    BY <1>8 DEF Crash
  <2>3. OthersStay(p) /\ ChildGoesOn(p)
    BY <2>1, <2>2 DEF OthersStay, ChildGoesOn, ControlInv, PassInv, TypeOK
  <2>4. Withdraws(p)
    BY <2>2 DEF Withdraws, Claiming, TypeOK
  <2>5. QED
    BY <2>1, <2>3, <2>4
<1>9. ASSUME NEW r \in Readers, SnapshotBegin(r) \/ SnapshotEnd(r) PROVE ControlInv'
  BY <1>9 DEF SnapshotBegin, SnapshotEnd, procs, ControlInv, OpeningInv, PassInv, ClaimInv,
     MountingInv, PlanInv, Early, Mounts
<1>10. CASE Reboot
  BY <1>10 DEF Reboot, ControlInv, OpeningInv, PassInv, ClaimInv, MountingInv, PlanInv, Early,
     Mounts, Claiming
<1>11. QED
  BY <1>1, <1>2, <1>3, <1>4, <1>5, <1>6, <1>7, <1>8, <1>9, <1>10 DEF Next, OperationStep, ChildStep

-----------------------------------------------------------------------------
(* What the record says is so, as long as the invalid marker can be written. *)

Working(p) == cur[p] # "none" \/ pc[p] \in {"mounting", "refreshing"}
AllAbsent == Loads => \A m \in Modules : db.mods[m].backend = "absent"

\* Without the lock nothing can be recorded: either that is known, or the record
\* names no module, and nobody else is attaching anything.
LooseInv ==
    /\ ~claimed => AllAbsent
    /\ \A p \in Procs : pc[p] \in Claiming /\ ~fd[p] => AllAbsent
    /\ \A p \in Procs : ~fd[p] /\ Mounts(p) =>
          \/ invalid
          \/ plan = {} /\ AllAbsent /\ \A q \in Procs \ {p} : ~Mounts(q)

\* What a pass has still to attach is recorded as incomplete, and its result names
\* what it has attached.
Promised(p) ==
    \A m \in Modules : choice[p][m] \in ChildBackends =>
        /\ db.mods[m].backend = choice[p][m]
        /\ choice[p][m] \in todo[p] \cup {cur[p]} => ~db.mods[m].complete
Held(p) ==
    \A a \in live :
        /\ a[3] \notin todo[p]
        /\ a[3] = cur[p] => stage[p] = "record" /\ result[p][a[1]][a[2]] \in {"blind", "captured"}
WorkInv == \A p \in Procs : fd[p] /\ Working(p) /\ Loads /\ ~invalid => Promised(p) /\ Held(p)

\* A complete entry names all that is attached for its module.
Truthful(m) ==
    \/ db.mods[m].backend = "absent"
    \/ /\ \A a \in live : a[1] = m => a[3] = db.mods[m].backend
       /\ \/ ~db.mods[m].complete
          \/ \E x \in Parts : db.mods[m].parts[x] = "blind"
          \/ \A a \in live : a[1] = m => db.mods[m].parts[a[2]] = "captured"
TruthInv == db.boot <= boot /\ (Loads /\ ~invalid => \A m \in Modules : Truthful(m))

RecordInv == LooseInv /\ WorkInv /\ TruthInv

LEMMA InitRecord == Init => RecordInv
<1> SUFFICES ASSUME Init PROVE RecordInv
  OBVIOUS
<1>1. boot = 1 /\ db.boot = 0 /\ ~claimed /\ live = {}
      /\ \A p \in Procs : pc[p] = "idle" /\ cur[p] = "none" /\ ~fd[p]
  BY DEF Init
<1>2. QED
  BY <1>1 DEF RecordInv, LooseInv, WorkInv, TruthInv, AllAbsent, Loads, Claiming, Mounts

\* The effects of the two ways to write modules into the record.
LEMMA UpdateEffect ==
    ASSUME ~InvalidFails, TypeOK, NEW p \in Procs, NEW mods \in [Modules -> Entry], Update(p, mods)
    PROVE  \/ db' = db /\ invalid' = TRUE
           \/ /\ fd[p] /\ Loads /\ invalid' = invalid
              /\ db'.kind = db.kind /\ db'.boot = db.boot /\ db'.mods = mods
BY DEF Update, CanUpdate, Store, Miss, Invalidate, TypeOK, Database

LEMMA FullAssignEffect ==
    ASSUME ~InvalidFails, TypeOK, NEW p \in Procs, NEW c \in Choices, FullAssign(p, c)
    PROVE  \/ db' = db /\ invalid' = TRUE
           \/ db' = db /\ invalid' = invalid /\ ~fd[p]
           \/ /\ fd[p] /\ db'.boot = boot
              /\ \A m \in Modules : c[m] # "absent" => db'.mods[m] = Assigned(c[m])
<1> DEFINE fresh == [kind |-> "good", boot |-> boot, gen |-> 1, mods |-> NoModules]
<1> DEFINE base == IF Loads THEN db ELSE fresh
<1>1. base \in Database /\ base.boot = boot
  BY ConstantTypes, ConstantsAssumption DEF TypeOK, Database, Loads
<1>2. CASE db' = [base EXCEPT !.mods = Assign(base.mods, c, Backends)] /\ fd[p]
  <2>1. db'.mods = Assign(base.mods, c, Backends) /\ db'.boot = boot
    BY <1>1, <1>2 DEF Database
  <2>2. QED
    BY <1>2, <2>1 DEF Assign
<1>3. CASE Miss
  BY <1>3 DEF Miss, Invalidate
<1>4. QED
  BY <1>2, <1>3 DEF FullAssign

\* An observation could not be published, and it is known.
LEMMA MissRecord ==
    ASSUME RecordInv, db' = db, boot' = boot, invalid' = TRUE, ~claimed' => ~claimed,
           \A q \in Procs : pc'[q] \in Claiming /\ ~fd'[q] =>
               ~claimed \/ (pc[q] \in Claiming /\ ~fd[q])
    PROVE  RecordInv'
BY DEF RecordInv, LooseInv, WorkInv, TruthInv, AllAbsent, Loads

\* What a mounting process of an Operation goes on with: nothing that is not done
\* has been dropped from its record.
Advances(q) ==
    fd'[q] /\ Working(q)' =>
        /\ fd[q] /\ Working(q) /\ choice'[q] = choice[q] /\ todo'[q] \subseteq todo[q]
        /\ \/ cur'[q] = cur[q] /\ stage'[q] = stage[q] /\ result'[q] = result[q]
           \/ cur'[q] = "none"
           \/ cur'[q] \in todo[q]

LEMMA KeepWork ==
    ASSUME TypeOK, WorkInv, \A q \in Procs : Advances(q),
           db' = db, boot' = boot, invalid' = invalid, live' \subseteq live
    PROVE  WorkInv'
<1> SUFFICES ASSUME NEW q \in Procs, fd'[q], Working(q)', Loads, ~invalid
             PROVE  Promised(q)' /\ Held(q)'
  BY DEF WorkInv, Loads
<1>1. Promised(q) /\ Held(q)
  BY DEF WorkInv, Advances
<1>2. Promised(q)'
  BY <1>1 DEF Advances, Promised
<1>3. \A a \in live : a[3] # "none"
  BY DEF TypeOK, Attachments
<1>4. Held(q)'
  BY <1>1, <1>3 DEF Advances, Held
<1>5. QED
  BY <1>2, <1>4

\* The record is not touched and nothing is attached.
LEMMA KeepRecord ==
    ASSUME TypeOK, RecordInv, \A q \in Procs : Advances(q),
           \A q \in Procs : Mounts(q)' => Mounts(q) /\ fd'[q] = fd[q],
           db' = db, boot' = boot, invalid' = invalid, live' \subseteq live, claimed' = claimed,
           plan' = plan \/ plan' = {} \/ \A q \in Procs : ~Mounts(q),
           \A q \in Procs : pc'[q] \in Claiming /\ ~fd'[q] =>
               ~claimed \/ (pc[q] \in Claiming /\ ~fd[q])
    PROVE  RecordInv'
<1>1. LooseInv'
  BY DEF RecordInv, LooseInv, AllAbsent, Loads
<1>2. WorkInv'
  BY KeepWork DEF RecordInv
<1>3. TruthInv'
  <2>1. Loads' = Loads
    BY DEF Loads
  <2>2. \A m \in Modules : Truthful(m) => Truthful(m)'
    BY DEF Truthful
  <2>3. QED
    BY <2>1, <2>2 DEF RecordInv, TruthInv
<1>4. QED
  BY <1>1, <1>2, <1>3 DEF RecordInv

\* A child that is gone, or that turns to the next backend of its pass.
LEMMA ChildGoneAdvances ==
    ASSUME TypeOK, NEW p \in Procs, ChildGone(p), todo'[p] \subseteq todo[p],
           \A q \in Procs \ {p} : todo'[q] = todo[q]
    PROVE  /\ \A q \in Procs : Advances(q)
           /\ \A q \in Procs : Mounts(q)' => Mounts(q) /\ fd'[q] = fd[q]
           /\ \A q \in Procs : pc'[q] \in Claiming => pc[q] = pc'[q] /\ fd'[q] = fd[q]
<1>1. /\ cur' = [cur EXCEPT ![p] = "none"] /\ stage' = [stage EXCEPT ![p] = "none"]
      /\ result' = [result EXCEPT ![p] = NoResult]
  BY DEF ChildGone
<1>2. \/ UNCHANGED <<pc, fd, choice>>
      \/ /\ pc[p] = "orphan" /\ pc' = [pc EXCEPT ![p] = "idle"]
         /\ fd' = [fd EXCEPT ![p] = FALSE]
         /\ choice' = [choice EXCEPT ![p] = NoChoice]
  BY Zenon DEF ChildGone
<1>3. \A q \in Procs \ {p} :
         /\ pc'[q] = pc[q] /\ fd'[q] = fd[q] /\ choice'[q] = choice[q] /\ cur'[q] = cur[q]
         /\ stage'[q] = stage[q] /\ result'[q] = result[q]
  BY <1>1, <1>2 DEF TypeOK
<1>4. cur'[p] = "none" /\ \/ pc'[p] = pc[p] /\ fd'[p] = fd[p] /\ choice'[p] = choice[p]
                          \/ pc'[p] = "idle" /\ ~fd'[p]
  BY <1>1, <1>2 DEF TypeOK
<1>5. QED
  BY <1>3, <1>4 DEF Advances, Working, Mounts, Claiming

LEMMA PassOverAdvances ==
    ASSUME TypeOK, NEW p \in Procs, PassOver(p), cur[p] # "none"
    PROVE  /\ \A q \in Procs : Advances(q)
           /\ \A q \in Procs : Mounts(q)' => Mounts(q) /\ fd'[q] = fd[q]
           /\ \A q \in Procs : pc'[q] \in Claiming => pc[q] = pc'[q] /\ fd'[q] = fd[q]
           /\ cur'[p] = "none" \/ cur'[p] \in todo[p]
           /\ todo'[p] \subseteq todo[p]
<1>1. CASE cur[p] = "magic" /\ "overlay" \in todo[p]
  <2>1. /\ cur' = [cur EXCEPT ![p] = "overlay"]
        /\ stage' = [stage EXCEPT ![p] = "attach"]
        /\ result' = [result EXCEPT ![p] = NoResult]
        /\ todo' = [todo EXCEPT ![p] = todo[p] \ {"overlay"}]
        /\ UNCHANGED <<pc, fd, choice>>
    BY <1>1, Zenon DEF PassOver
  <2>2. QED
    BY <1>1, <2>1 DEF TypeOK, Advances, Working, Mounts
<1>2. CASE ~(cur[p] = "magic" /\ "overlay" \in todo[p])
  <2>1. ChildGone(p) /\ todo' = [todo EXCEPT ![p] = IF pc[p] = "orphan" THEN {} ELSE todo[p]]
    BY <1>2, Zenon DEF PassOver
  <2>2. todo'[p] \subseteq todo[p] /\ \A q \in Procs \ {p} : todo'[q] = todo[q]
    BY <2>1 DEF TypeOK
  <2>3. cur'[p] = "none"
    BY <2>1 DEF ChildGone, TypeOK
  <2>4. QED
    BY <2>1, <2>2, <2>3, ChildGoneAdvances
<1>3. QED
  BY <1>1, <1>2

\* Steps that write nothing into the record.
LEMMA UnrecordedRecord ==
    ASSUME ~InvalidFails, TypeOK, WriterInv, ChildInv, ControlInv, RecordInv, NEW p \in Procs,
           \/ Begin(p) \/ BeginUnlocked(p) \/ Publish(p) \/ StopBoot(p) \/ EndBoot(p)
           \/ EndRefresh(p) \/ Teardown(p) \/ Finish(p)
    PROVE  RecordInv'
<1>1. (cur[p] = "none" /\ pc[p] # "refreshing") \/ EndRefresh(p)
  BY Zenon DEF Begin, BeginUnlocked, Publish, StopBoot, EndBoot, Teardown, Finish, ChildInv, Waiting
<1>2. cur[p] = "none"
  BY <1>1 DEF EndRefresh
<1>3. /\ UNCHANGED <<boot, claimed, db, todo, cur, stage, result>> /\ live' \subseteq live
      /\ invalid' = invalid \/ invalid' = TRUE
  BY DEF Begin, BeginUnlocked, Publish, StopBoot, EndBoot, EndRefresh, Teardown, Finish,
     InspectPending, Invalidate, Miss, files
<1>4. /\ \E at \in Phases \ (Claiming \cup {"refreshing"}) : pc' = [pc EXCEPT ![p] = at]
      /\ fd' = fd \/ \E b : fd' = [fd EXCEPT ![p] = b]
      /\ choice' = choice \/ \E c : choice' = [choice EXCEPT ![p] = c]
  <2>1. CASE Begin(p) \/ BeginUnlocked(p) \/ Publish(p)
    BY <2>1, Zenon DEF Begin, BeginUnlocked, Publish, Claiming
  <2>2. CASE StopBoot(p) \/ EndBoot(p) \/ EndRefresh(p) \/ Teardown(p) \/ Finish(p)
    BY <2>2, Zenon DEF StopBoot, EndBoot, EndRefresh, Teardown, Finish, Claiming
  <2>3. QED
    BY <2>1, <2>2
<1>5. /\ pc'[p] \notin Claiming \cup {"refreshing"} /\ cur'[p] = "none"
      /\ \A q \in Procs \ {p} : pc'[q] = pc[q] /\ fd'[q] = fd[q] /\ choice'[q] = choice[q]
  BY <1>2, <1>3, <1>4 DEF TypeOK
<1>6. /\ \A q \in Procs : Advances(q)
      /\ \A q \in Procs : Mounts(q)' => Mounts(q) /\ fd'[q] = fd[q]
      /\ \A q \in Procs : pc'[q] \in Claiming => pc[q] = pc'[q] /\ fd'[q] = fd[q]
  BY <1>3, <1>5 DEF Advances, Working, Mounts, Claiming
<1>7. plan' = plan \/ plan' = {} \/ \A q \in Procs : ~Mounts(q)
  <2>1. CASE EndBoot(p)
    BY <2>1 DEF EndBoot, ControlInv, MountingInv, Mounts
  <2>2. CASE ~EndBoot(p)
    BY <2>2 DEF Begin, BeginUnlocked, Publish, StopBoot, EndRefresh, Teardown, Finish
  <2>3. QED
    BY <2>1, <2>2
<1>8. CASE invalid' = invalid
  BY <1>3, <1>6, <1>7, <1>8, KeepRecord
<1>9. CASE invalid' = TRUE
  BY <1>3, <1>6, <1>9, MissRecord
<1>10. QED
  BY <1>3, <1>8, <1>9

\* A child that ends without recording, and a process that dies.
LEMMA DeathRecord ==
    ASSUME TypeOK, ChildInv, ControlInv, RecordInv, NEW p \in Procs,
           AbortPass(p) \/ ChildDies(p) \/ Crash(p)
    PROVE  RecordInv'
<1>1. UNCHANGED <<boot, claimed, plan, live, db, invalid>>
  BY DEF AbortPass, ChildDies, Crash, files
<1>2. /\ \A q \in Procs : Advances(q)
      /\ \A q \in Procs : Mounts(q)' => Mounts(q) /\ fd'[q] = fd[q]
      /\ \A q \in Procs : pc'[q] \in Claiming => pc[q] = pc'[q] /\ fd'[q] = fd[q]
  <2>1. CASE AbortPass(p)
    BY <2>1, PassOverAdvances DEF AbortPass, ControlInv, PassInv
  <2>2. CASE ChildDies(p)
    <3>1. ChildGone(p) /\ \E t : t \subseteq todo[p] /\ todo' = [todo EXCEPT ![p] = t]
      BY <2>2 DEF ChildDies
    <3>2. todo'[p] \subseteq todo[p] /\ \A q \in Procs \ {p} : todo'[q] = todo[q]
      BY <3>1 DEF TypeOK
    <3>3. QED
      BY <3>1, <3>2, ChildGoneAdvances
  <2>3. CASE Crash(p)
    <3>1. UNCHANGED <<cur, stage, result>>
      BY <2>3 DEF Crash
    <3>2. \/ /\ pc' = [pc EXCEPT ![p] = "orphan"] /\ UNCHANGED <<fd, choice>> /\ cur[p] # "none"
             /\ \E t : t \subseteq todo[p] /\ todo' = [todo EXCEPT ![p] = t]
          \/ /\ pc' = [pc EXCEPT ![p] = "idle"] /\ cur[p] = "none"
             /\ fd' = [fd EXCEPT ![p] = FALSE] /\ choice' = [choice EXCEPT ![p] = NoChoice]
             /\ todo' = [todo EXCEPT ![p] = {}]
      BY <2>3 DEF Crash
    <3>3. \A q \in Procs \ {p} : pc'[q] = pc[q] /\ fd'[q] = fd[q] /\ choice'[q] = choice[q] /\ todo'[q] = todo[q]
      BY <3>2 DEF TypeOK
    <3>4. \/ pc'[p] = "orphan" /\ fd'[p] = fd[p] /\ choice'[p] = choice[p] /\ todo'[p] \subseteq todo[p] /\ cur[p] # "none"
          \/ pc'[p] = "idle" /\ cur[p] = "none"
      BY <3>2 DEF TypeOK
    <3>5. QED
      BY <3>1, <3>3, <3>4 DEF Advances, Working, Mounts, Claiming
  <2>4. QED
    BY <2>1, <2>2, <2>3
<1>3. QED
  BY <1>1, <1>2, KeepRecord

\* The new generation of the record: the modules of this boot's record, or none.
LEMMA OpenRecordRecord ==
    ASSUME ~InvalidFails, TypeOK, WriterInv, ChildInv, ControlInv, RecordInv, NEW p \in Procs,
           OpenRecord(p)
    PROVE  RecordInv'
<1>1. /\ pc[p] = "published" /\ fd[p] /\ cur[p] = "none" /\ pc' = [pc EXCEPT ![p] = "body"]
      /\ UNCHANGED <<boot, claimed, plan, live, fd, choice, todo, cur, stage, result>>
  BY DEF OpenRecord, ChildInv, Waiting, ControlInv, OpeningInv
<1>2. \A q \in Procs : /\ Mounts(q)' <=> Mounts(q)
                       /\ pc'[q] \in Claiming => pc[q] = pc'[q]
                       /\ fd'[q] => ~Working(q)'
  BY <1>1, OwnerOnly DEF Mounts, Working, Claiming, TypeOK
<1>3. CASE db' = db /\ invalid' = TRUE
  BY <1>1, <1>2, <1>3, MissRecord
<1>4. CASE \/ db' = db /\ invalid' = invalid
           \/ /\ db'.boot = boot /\ invalid' = invalid
              /\ \/ Loads /\ db'.mods = db.mods
                 \/ ~Loads /\ db'.mods = NoModules
  <2>1. \A m \in Modules : Loads' => \/ db'.mods[m].backend = "absent"
                                     \/ Loads /\ db'.mods[m] = db.mods[m]
    BY <1>1, <1>4 DEF NoModules, Absent, Loads
  <2>2. AllAbsent => AllAbsent'
    BY <2>1 DEF AllAbsent
  <2>3. LooseInv'
    BY <1>1, <1>2, <1>4, <2>2 DEF RecordInv, LooseInv
  <2>4. WorkInv'
    BY <1>2 DEF WorkInv
  <2>5. TruthInv'
    <3>1. db'.boot <= boot'
      BY <1>1, <1>4 DEF RecordInv, TruthInv, TypeOK
    <3>2. \A m \in Modules : Loads' /\ ~invalid' => Truthful(m)'
      BY <1>1, <1>4, <2>1 DEF RecordInv, TruthInv, Truthful
    <3>3. QED
      BY <3>1, <3>2 DEF TruthInv
  <2>6. QED
    BY <2>3, <2>4, <2>5 DEF RecordInv
<1>5. QED
  <2> DEFINE gen == IF Loads THEN db.gen ELSE 0
             mods == IF Loads THEN db.mods ELSE NoModules
  <2>1. Store([kind |-> "good", boot |-> boot, gen |-> gen + 1, mods |-> mods]) \/ Miss
    BY DEF OpenRecord
  <2>2. CASE Miss
    BY <1>3, <2>2 DEF Miss, Invalidate
  <2>3. CASE Store([kind |-> "good", boot |-> boot, gen |-> gen + 1, mods |-> mods])
    <3>1. CASE db' = db /\ invalid' = TRUE
      BY <1>3, <3>1
    <3>2. CASE /\ db' = [kind |-> "good", boot |-> boot, gen |-> gen + 1, mods |-> mods]
               /\ invalid' = invalid
      <4>1. db'.boot = boot /\ db'.mods = mods
        BY <3>2
      <4>2. QED
        BY <1>4, <3>2, <4>1
    <3>3. QED
      BY <2>3, <3>1, <3>2 DEF Store, Invalidate
  <2>4. QED
    BY <2>1, <2>2, <2>3

\* The entries under Kasumi when nothing is under Kasumi any more.
LEMMA EmptiedRecord ==
    ASSUME ~InvalidFails, TypeOK, WriterInv, ChildInv, ControlInv, RecordInv, NEW p \in Procs,
           Update(p, Assign(db.mods, NoChoice, {"kasumi"})),
           boot' = boot, live' \subseteq live, \A a \in live' : a[3] # "kasumi",
           claimed' = claimed \/ claimed' = TRUE, plan' = plan \/ plan' = {}, fd' = fd,
           cur' = cur, cur[p] = "none", pc'[p] \in {"claimed", "finishing"},
           pc'[p] = "claimed" => ~claimed, \A q \in Procs \ {p} : pc'[q] = pc[q]
    PROVE  RecordInv'
<1>1. Assign(db.mods, NoChoice, {"kasumi"}) \in [Modules -> Entry]
  BY AssignType, ConstantTypes, DatabaseFields
<1>2. \A q \in Procs : /\ Mounts(q)' => Mounts(q)
                       /\ pc'[q] \in Claiming => ~claimed \/ pc[q] = pc'[q]
  BY DEF Mounts, Claiming
<1>3. CASE db' = db /\ invalid' = TRUE
  BY <1>2, <1>3, MissRecord
<1>4. CASE /\ fd[p] /\ Loads /\ invalid' = invalid /\ db'.kind = db.kind /\ db'.boot = db.boot
           /\ db'.mods = Assign(db.mods, NoChoice, {"kasumi"})
  <2>1. \A m \in Modules : \/ db'.mods[m] = db.mods[m]
                           \/ db.mods[m].backend = "kasumi" /\ db'.mods[m].backend = "kasumi"
    BY <1>4 DEF Assign, NoChoice
  <2>2. AllAbsent => AllAbsent'
    BY <1>4, <2>1 DEF AllAbsent, Loads
  <2>3. LooseInv'
    BY <1>2, <1>4, <2>2 DEF RecordInv, LooseInv
  <2>4. WorkInv'
    <3>1. \A q \in Procs : fd'[q] => ~Working(q)'
      BY <1>4, OwnerOnly DEF Working
    <3>2. QED
      BY <3>1 DEF WorkInv
  <2>5. \A m \in Modules : Truthful(m) => Truthful(m)'
    <3> SUFFICES ASSUME NEW m \in Modules, Truthful(m) PROVE Truthful(m)'
      OBVIOUS
    <3>1. CASE db'.mods[m] = db.mods[m]
      BY <3>1 DEF Truthful
    <3>2. CASE db.mods[m].backend = "kasumi" /\ db'.mods[m].backend = "kasumi"
      <4>1. \A a \in live' : a[1] # m
        BY <3>2 DEF Truthful
      <4>2. QED
        BY <4>1 DEF Truthful
    <3>3. QED
      BY <2>1, <3>1, <3>2
  <2>6. TruthInv'
    BY <1>4, <2>5 DEF RecordInv, TruthInv, Loads
  <2>7. QED
    BY <2>3, <2>4, <2>6 DEF RecordInv
<1>5. QED
  BY <1>1, <1>3, <1>4, UpdateEffect

LEMMA ClaimRecord ==
    ASSUME ~InvalidFails, TypeOK, WriterInv, ChildInv, ControlInv, RecordInv, NEW p \in Procs,
           Claim(p)
    PROVE  RecordInv'
<1>1. /\ pc[p] = "body" /\ ~claimed /\ claimed' = TRUE /\ plan' = {}
      /\ pc' = [pc EXCEPT ![p] = "claimed"] /\ cur[p] = "none"
      /\ UNCHANGED <<boot, live, fd, choice, todo, cur, stage, result>>
  BY DEF Claim, ChildInv, Waiting
<1>2. live = {} /\ \A q \in Procs : ~Mounts(q) /\ pc[q] \notin Claiming
  BY <1>1 DEF ControlInv, ClaimInv, Early
<1>3. pc'[p] = "claimed" /\ \A q \in Procs \ {p} : pc'[q] = pc[q]
  BY <1>1 DEF TypeOK
<1>4. CASE Update(p, Assign(db.mods, NoChoice, {"kasumi"}))
  BY <1>1, <1>2, <1>3, <1>4, EmptiedRecord
<1>5. CASE UNCHANGED <<db, invalid, lost>>
  <2>1. AllAbsent /\ AllAbsent'
    BY <1>1, <1>5 DEF RecordInv, LooseInv, AllAbsent, Loads
  <2>2. \A q \in Procs : ~Mounts(q)' /\ ~Working(q)'
    BY <1>1, <1>2, <1>3 DEF Mounts, Working, Claiming
  <2>3. TruthInv'
    BY <1>1, <1>5 DEF RecordInv, TruthInv, Truthful, Loads
  <2>4. QED
    BY <2>1, <2>2, <2>3 DEF RecordInv, LooseInv, WorkInv
<1>6. QED
  BY <1>4, <1>5 DEF Claim

LEMMA SwapRecord ==
    ASSUME ~InvalidFails, TypeOK, WriterInv, ChildInv, ControlInv, RecordInv, NEW p \in Procs,
           SwapKasumiModule(p)
    PROVE  RecordInv'
<1>1. /\ Update(p, Assign(db.mods, NoChoice, {"kasumi"})) /\ cur[p] = "none"
      /\ pc' = [pc EXCEPT ![p] = "finishing"] /\ UNCHANGED <<boot, claimed, plan, fd, cur>>
      /\ live' = live \ KasumiLive
  BY DEF SwapKasumiModule, ChildInv, Waiting
<1>2. live' \subseteq live /\ \A a \in live' : a[3] # "kasumi"
  BY <1>1 DEF KasumiLive
<1>3. pc'[p] = "finishing" /\ \A q \in Procs \ {p} : pc'[q] = pc[q]
  BY <1>1 DEF TypeOK
<1>4. QED
  BY <1>1, <1>2, <1>3, EmptiedRecord

\* What assign_modules() writes for a module that is to be mounted, and for the others.
LEMMA AssignedPromises ==
    ASSUME NEW b \in ChildBackends
    PROVE  Assigned(b).backend = b /\ ~Assigned(b).complete
<1>1. b # "none"
  OBVIOUS
<1>2. QED
  BY <1>1 DEF Assigned

LEMMA AssignAt ==
    ASSUME NEW mods, NEW c, NEW scope, NEW m \in Modules
    PROVE  LET new == Assign(mods, c, scope)[m]
           IN /\ c[m] # "absent" => new = Assigned(c[m])
              /\ c[m] = "absent" => new = mods[m] \/ (mods[m].backend \in scope /\ new.backend = mods[m].backend)
BY DEF Assign

\* The modules to map again are promised to Kasumi, whose rules are gone.
LEMMA RefreshRecord ==
    ASSUME ~InvalidFails, TypeOK, WriterInv, ChildInv, ControlInv, RecordInv, NEW p \in Procs,
           Refresh(p)
    PROVE  RecordInv'
<1>1. PICK selected \in SUBSET plan :
         LET c == [m \in Modules |-> IF m \in selected THEN "kasumi" ELSE "absent"]
         IN /\ Update(p, Assign(db.mods, c, {"kasumi"}))
            /\ choice' = [choice EXCEPT ![p] = c]
  BY DEF Refresh
<1> DEFINE c == [m \in Modules |-> IF m \in selected THEN "kasumi" ELSE "absent"]
<1>2. c \in Choices
  BY DEF Choices
<1>3. Assign(db.mods, c, {"kasumi"}) \in [Modules -> Entry]
  BY <1>2, AssignType, DatabaseFields
<1>4. /\ pc[p] = "body" /\ plan # {} /\ cur[p] = "none"
      /\ UNCHANGED <<boot, claimed, plan, fd, cur, stage, result>>
      /\ live' = {a \in live : a[3] # "kasumi"}
      /\ todo' = [todo EXCEPT ![p] = {"kasumi"}] /\ pc' = [pc EXCEPT ![p] = "refreshing"]
  BY DEF Refresh, ChildInv, Waiting, KasumiLive
<1>5. claimed
  BY <1>4 DEF ControlInv, ClaimInv
<1>6. /\ pc'[p] = "refreshing" /\ todo'[p] = {"kasumi"} /\ choice'[p] = c
      /\ \A q \in Procs \ {p} : pc'[q] = pc[q] /\ todo'[q] = todo[q] /\ choice'[q] = choice[q]
  BY <1>1, <1>4 DEF TypeOK
<1>7. \A q \in Procs : pc'[q] \in Claiming => pc[q] = pc'[q]
  BY <1>6 DEF Claiming
<1>8. CASE db' = db /\ invalid' = TRUE
  BY <1>4, <1>7, <1>8, MissRecord
<1>9. CASE /\ fd[p] /\ Loads /\ invalid' = invalid /\ db'.kind = db.kind /\ db'.boot = db.boot
           /\ db'.mods = Assign(db.mods, c, {"kasumi"})
  <2>1. \A m \in Modules :
           \/ m \notin selected /\ db'.mods[m] = db.mods[m]
           \/ m \notin selected /\ db.mods[m].backend = "kasumi" /\ db'.mods[m].backend = "kasumi"
           \/ m \in selected /\ db'.mods[m].backend = "kasumi" /\ ~db'.mods[m].complete
    <3> SUFFICES ASSUME NEW m \in Modules
                 PROVE  \/ m \notin selected /\ db'.mods[m] = db.mods[m]
                        \/ m \notin selected /\ db.mods[m].backend = "kasumi" /\ db'.mods[m].backend = "kasumi"
                        \/ m \in selected /\ db'.mods[m].backend = "kasumi" /\ ~db'.mods[m].complete
      OBVIOUS
    <3>1. CASE m \in selected
      <4>1. db'.mods[m] = Assigned("kasumi")
        BY <1>9, <3>1, AssignAt
      <4>2. QED
        BY <3>1, <4>1, AssignedPromises
    <3>2. CASE m \notin selected
      <4>1. c[m] = "absent"
        BY <3>2
      <4>2. QED
        BY <1>9, <3>2, <4>1, AssignAt
    <3>3. QED
      BY <3>1, <3>2
  <2>2. LooseInv'
    <3>1. \A q \in Procs : pc'[q] \notin Claiming
      BY <1>4, <1>7 DEF ControlInv, ClaimInv
    <3>2. \A q \in Procs : ~fd'[q] /\ Mounts(q)' => ~fd[q] /\ Mounts(q)
      BY <1>4, <1>6, <1>9 DEF Mounts
    <3>3. \A q \in Procs : ~fd'[q] /\ Mounts(q)' => invalid
      BY <1>4, <3>2 DEF RecordInv, LooseInv
    <3>4. QED
      BY <1>4, <1>5, <1>9, <3>1, <3>3 DEF LooseInv
  <2>3. Promised(p)'
    BY <1>4, <1>6, <2>1 DEF Promised
  <2>4. Held(p)'
    <3>1. \A a \in live : a[3] # "none"
      BY DEF TypeOK, Attachments
    <3>2. QED
      BY <1>4, <1>6, <3>1 DEF Held
  <2>5. WorkInv'
    <3>1. \A q \in Procs \ {p} : ~fd'[q]
      BY <1>4, <1>9, OwnerOnly
    <3>2. QED
      BY <2>3, <2>4, <3>1 DEF WorkInv
  <2>6. ASSUME NEW m \in Modules, Truthful(m) PROVE Truthful(m)'
    <3>1. CASE m \notin selected /\ db'.mods[m] = db.mods[m]
      BY <1>4, <2>6, <3>1 DEF Truthful
    <3>2. CASE db.mods[m].backend = "kasumi" /\ db'.mods[m].backend = "kasumi"
      <4>1. \A a \in live' : a[1] # m
        BY <1>4, <2>6, <3>2 DEF Truthful
      <4>2. QED
        BY <4>1 DEF Truthful
    <3>3. CASE m \in selected /\ db'.mods[m].backend = "kasumi" /\ ~db'.mods[m].complete
      <4>1. \A a \in live : a[1] = m => a[3] = "kasumi"
        BY <3>3 DEF ControlInv, PlanInv
      <4>2. QED
        BY <1>4, <3>3, <4>1 DEF Truthful
    <3>4. QED
      BY <2>1, <3>1, <3>2, <3>3
  <2>7. TruthInv'
    BY <1>4, <1>9, <2>6 DEF RecordInv, TruthInv, Loads
  <2>8. QED
    BY <2>2, <2>5, <2>7 DEF RecordInv
<1>10. QED
  BY <1>1, <1>3, <1>8, <1>9, UpdateEffect

\* The inventories of the boot, while nothing is attached.
LEMMA InventoryRecord ==
    ASSUME ~InvalidFails, TypeOK, WriterInv, ChildInv, ControlInv, RecordInv, NEW p \in Procs,
           Inventory(p) \/ Select(p)
    PROVE  RecordInv'
<1>1. /\ pc[p] \in {"claimed", "inventory"} /\ cur[p] = "none"
      /\ UNCHANGED <<boot, claimed, plan, live, fd, cur, stage, result>>
  BY DEF Inventory, Select, ChildInv, Waiting
<1>2. /\ claimed /\ live = {} /\ \A q \in Procs : ~Mounts(q)
      /\ \A q \in Procs \ {p} : pc[q] \notin Claiming
  BY <1>1 DEF ControlInv, ClaimInv, Early, Claiming
<1>3. PICK c \in Choices :
         FullAssign(p, c) /\ choice' = [choice EXCEPT ![p] = c]
  <2>1. CASE Inventory(p)
    <3>1. PICK enabled \in SUBSET Modules :
             LET c == [m \in Modules |-> IF m \in enabled THEN "none" ELSE "absent"]
             IN FullAssign(p, c) /\ choice' = [choice EXCEPT ![p] = c]
      BY <2>1 DEF Inventory
    <3>2. [m \in Modules |-> IF m \in enabled THEN "none" ELSE "absent"] \in Choices
      BY DEF Choices
    <3>3. QED
      BY <3>1, <3>2
  <2>2. CASE Select(p)
    BY <2>2 DEF Select
  <2>3. QED
    BY <2>1, <2>2
<1>4. /\ pc'[p] \in {"inventory", "mounting"} /\ choice'[p] = c
      /\ \A q \in Procs \ {p} : pc'[q] = pc[q]
  BY <1>3 DEF Inventory, Select, TypeOK
<1>5. \A q \in Procs : ~Mounts(q)'
  BY <1>1, <1>2, <1>4 DEF Mounts
<1>6. \A q \in Procs : Working(q)' => q = p
  BY <1>2, <1>4, <1>5 DEF Working, Mounts, Claiming
<1>7. \A m \in Modules : Truthful(m)'
  BY <1>1, <1>2 DEF Truthful
<1>8. CASE db' = db /\ invalid' = TRUE
  BY <1>1, <1>2, <1>4, <1>8, MissRecord DEF Claiming
<1>9. CASE db' = db /\ invalid' = invalid /\ ~fd[p]
  <2>1. LooseInv'
    <3>1. AllAbsent'
      BY <1>1, <1>9 DEF RecordInv, LooseInv, AllAbsent, Loads, Claiming
    <3>2. QED
      BY <1>1, <1>2, <1>5, <3>1 DEF LooseInv
  <2>2. WorkInv'
    BY <1>1, <1>6, <1>9 DEF WorkInv
  <2>3. TruthInv'
    BY <1>1, <1>7, <1>9 DEF RecordInv, TruthInv
  <2>4. QED
    BY <2>1, <2>2, <2>3 DEF RecordInv
<1>10. CASE /\ fd[p] /\ db'.boot = boot
            /\ \A m \in Modules : c[m] # "absent" => db'.mods[m] = Assigned(c[m])
  <2>1. LooseInv'
    BY <1>1, <1>2, <1>4, <1>5, <1>10 DEF LooseInv
  <2>2. Promised(p)'
    <3> SUFFICES ASSUME NEW m \in Modules, c[m] \in ChildBackends
                 PROVE  db'.mods[m].backend = c[m] /\ ~db'.mods[m].complete
      BY <1>4 DEF Promised
    <3>1. db'.mods[m] = Assigned(c[m])
      BY <1>10
    <3>2. QED
      BY <3>1, AssignedPromises
  <2>3. Held(p)'
    BY <1>1, <1>2 DEF Held
  <2>4. WorkInv'
    BY <1>6, <2>2, <2>3 DEF WorkInv
  <2>5. TruthInv'
    BY <1>1, <1>7, <1>10 DEF TruthInv, TypeOK
  <2>6. QED
    BY <2>1, <2>4, <2>5 DEF RecordInv
<1>11. QED
  BY <1>3, <1>8, <1>9, <1>10, FullAssignEffect

\* A new child has recorded nothing, and what it is to attach was promised.
LEMMA ForkRecord ==
    ASSUME TypeOK, ControlInv, RecordInv, NEW p \in Procs, ForkChild(p)
    PROVE  RecordInv'
<1>1. PICK b \in ChildBackends :
         /\ FirstOf(b, todo[p])
         /\ cur' = [cur EXCEPT ![p] = b]
         /\ todo' = [todo EXCEPT ![p] = todo[p] \ {b}]
         /\ \E s : stage' = [stage EXCEPT ![p] = s]
  BY DEF ForkChild
<1>2. /\ pc[p] \in {"mounting", "refreshing"}
      /\ UNCHANGED <<boot, claimed, plan, live, db, invalid, pc, fd, choice, result>>
  BY DEF ForkChild, files
<1>3. /\ \A q \in Procs \ {p} : cur'[q] = cur[q] /\ todo'[q] = todo[q] /\ stage'[q] = stage[q]
      /\ cur'[p] = b /\ todo'[p] = todo[p] \ {b} /\ b \in todo[p]
  BY <1>1 DEF TypeOK, FirstOf
<1>4. \A q \in Procs : Advances(q)
  BY <1>2, <1>3 DEF Advances, Working
<1>5. WorkInv'
  BY <1>2, <1>4, KeepWork DEF RecordInv
<1>6. (AllAbsent' <=> AllAbsent) /\ TruthInv'
  BY <1>2 DEF RecordInv, TruthInv, Truthful, Loads, AllAbsent
<1>7. LooseInv'
  <2>1. CASE pc[p] = "refreshing"
    <3>1. \A q \in Procs : Mounts(q)' <=> Mounts(q)
      BY <1>2, <1>3, <2>1 DEF Mounts
    <3>2. QED
      BY <1>2, <1>6, <3>1 DEF RecordInv, LooseInv
  <2>2. CASE pc[p] = "mounting"
    <3>1. plan = {} /\ \A q \in Procs \ {p} : ~Mounts(q)
      BY <2>2 DEF ControlInv, ClaimInv, MountingInv, Claiming
    <3>2. \A q \in Procs \ {p} : ~Mounts(q)'
      BY <1>2, <1>3, <3>1 DEF Mounts
    <3>3. ~fd[p] => AllAbsent
      BY <2>2 DEF RecordInv, LooseInv, Claiming
    <3>4. QED
      BY <1>2, <1>6, <3>1, <3>2, <3>3 DEF RecordInv, LooseInv
  <2>3. QED
    BY <1>2, <2>1, <2>2
<1>8. QED
  BY <1>5, <1>6, <1>7 DEF RecordInv

\* What a pass attaches was promised to its backend and is recorded as incomplete.
LEMMA AttachRecord ==
    ASSUME TypeOK, WriterInv, ControlInv, RecordInv, NEW p \in Procs, Attach(p)
    PROVE  RecordInv'
<1>1. /\ stage[p] = "attach" /\ cur[p] # "none"
      /\ UNCHANGED <<boot, claimed, plan, db, invalid, pc, fd, choice, todo, cur>>
      /\ stage' = [stage EXCEPT ![p] = "record"]
      /\ \A q \in Procs \ {p} : result'[q] = result[q]
      /\ \A a \in live' \ live :
            /\ a \in Attachments /\ a[3] = cur[p] /\ choice[p][a[1]] = cur[p]
            /\ result'[p][a[1]][a[2]] \in {"blind", "captured"}
  BY AttachFrame
<1>2. LooseInv'
  BY <1>1 DEF RecordInv, LooseInv, AllAbsent, Loads, Mounts
<1>3. stage'[p] = "record" /\ \A q \in Procs \ {p} : stage'[q] = stage[q]
  BY <1>1 DEF TypeOK
<1>4. ASSUME Loads, ~invalid
      PROVE  \/ fd[p] /\ Promised(p) /\ Held(p)
             \/ ~fd[p] /\ AllAbsent /\ \A q \in Procs \ {p} : ~Working(q)
  <2>1. CASE fd[p]
    BY <1>1, <1>4, <2>1 DEF RecordInv, WorkInv, Working
  <2>2. CASE ~fd[p]
    <3>1. AllAbsent /\ \A q \in Procs \ {p} : ~Mounts(q)
      BY <1>1, <1>4, <2>2 DEF RecordInv, LooseInv, Mounts
    <3>2. \A q \in Procs \ {p} : pc[q] # "mounting"
      BY <1>1 DEF ControlInv, MountingInv, Mounts
    <3>3. QED
      BY <2>2, <3>1, <3>2 DEF Working, Mounts
  <2>3. QED
    BY <2>1, <2>2
<1>5. WorkInv'
  <2> SUFFICES ASSUME NEW q \in Procs, fd[q], Working(q), Loads, ~invalid
               PROVE  Promised(q)' /\ Held(q)'
    BY <1>1 DEF WorkInv, Loads, Working
  <2>1. q = p
    BY <1>4, OwnerOnly
  <2>2. Promised(p) /\ Held(p)
    BY <1>4, <2>1
  <2>3. Promised(p)'
    BY <1>1, <2>2 DEF Promised
  <2>4. cur[p] \notin todo[p]
    BY DEF ControlInv, PassInv
  <2>5. Held(p)'
    BY <1>1, <1>3, <2>2, <2>4 DEF Held
  <2>6. QED
    BY <2>1, <2>3, <2>5
<1>6. TruthInv'
  <2> SUFFICES ASSUME NEW m \in Modules, Loads, ~invalid PROVE Truthful(m)'
    BY <1>1 DEF RecordInv, TruthInv, Loads
  <2>1. Truthful(m)
    BY DEF RecordInv, TruthInv
  <2>2. CASE \A a \in live' \ live : a[1] # m
    BY <1>1, <2>1, <2>2 DEF Truthful
  <2>3. CASE \E a \in live' \ live : a[1] = m
    <3>1. choice[p][m] = cur[p] /\ cur[p] \in ChildBackends
      BY <1>1, <2>3 DEF Attachments
    <3>2. CASE fd[p] /\ Promised(p) /\ Held(p)
      <4>1. db.mods[m].backend = cur[p] /\ ~db.mods[m].complete
        BY <3>1, <3>2 DEF Promised
      <4>2. \A a \in live' : a[1] = m => a[3] = cur[p]
        BY <1>1, <2>1, <3>1, <4>1 DEF Truthful
      <4>3. QED
        BY <1>1, <4>1, <4>2 DEF Truthful
    <3>3. CASE AllAbsent
      BY <1>1, <3>3 DEF AllAbsent, Truthful
    <3>4. QED
      BY <1>4, <3>2, <3>3
  <2>4. QED
    BY <2>2, <2>3
<1>7. QED
  BY <1>2, <1>5, <1>6 DEF RecordInv

\* A child that writes the record: first that its rules are incomplete, then its result.
LEMMA ChildWritesRecord ==
    ASSUME ~InvalidFails, TypeOK, WriterInv, ControlInv, RecordInv, NEW p \in Procs,
           OpenRules(p) \/ Record(p)
    PROVE  RecordInv'
<1>1. PICK b \in ChildBackends, res \in [Modules -> Evidence], complete \in BOOLEAN :
         /\ Update(p, Distribute(db.mods, b, res, complete))
         /\ \/ stage[p] = "open" /\ complete = FALSE
            \/ stage[p] = "record" /\ b = cur[p] /\ res = result[p]
  <2>1. CASE OpenRules(p)
    BY <2>1, ConstantTypes DEF OpenRules
  <2>2. CASE Record(p)
    <3>1. cur[p] \in ChildBackends /\ result[p] \in [Modules -> Evidence]
      BY <2>2 DEF Record, ControlInv, PassInv, TypeOK
    <3>2. QED
      BY <2>2, <3>1 DEF Record
  <2>3. QED
    BY <2>1, <2>2
<1>2. Distribute(db.mods, b, res, complete) \in [Modules -> Entry]
  BY DistributeType, DatabaseFields
<1>3. /\ cur[p] # "none" /\ UNCHANGED <<boot, claimed, plan>> /\ live' \subseteq live
  BY DEF OpenRules, Record, ControlInv, PassInv
<1>4. /\ \A q \in Procs : Mounts(q)' => Mounts(q) /\ fd'[q] = fd[q]
      /\ \A q \in Procs : pc'[q] \in Claiming => pc[q] = pc'[q] /\ fd'[q] = fd[q]
      /\ fd'[p] /\ Working(p)' =>
            /\ choice'[p] = choice[p] /\ todo'[p] \subseteq todo[p]
            /\ \/ stage[p] = "record" /\ cur'[p] \in {"none"} \cup todo[p]
               \/ stage[p] = "open" /\ cur'[p] = cur[p]
      /\ \A q \in Procs \ {p} : fd'[q] /\ Working(q)' => fd[q]
  <2>1. CASE OpenRules(p)
    <3>1. UNCHANGED <<pc, fd, choice, todo, cur>> /\ stage[p] = "open"
      BY <2>1 DEF OpenRules
    <3>2. QED
      BY <3>1 DEF Mounts, Working
  <2>2. CASE Record(p)
    <3>1. PassOver(p) /\ stage[p] = "record"
      BY <2>2 DEF Record
    <3>2. QED
      BY <1>3, <3>1, PassOverAdvances DEF Advances
  <2>3. QED
    BY <2>1, <2>2
<1>5. CASE db' = db /\ invalid' = TRUE
  BY <1>3, <1>4, <1>5, MissRecord
<1>6. CASE /\ fd[p] /\ Loads /\ invalid' = invalid /\ db'.kind = db.kind /\ db'.boot = db.boot
           /\ db'.mods = Distribute(db.mods, b, res, complete)
  <2>1. \A m \in Modules :
           /\ db'.mods[m].backend = db.mods[m].backend
           /\ db.mods[m].backend # b => db'.mods[m] = db.mods[m]
           /\ db.mods[m].backend = b => db'.mods[m].complete = complete /\ db'.mods[m].parts = res[m]
    BY <1>6 DEF Distribute
  <2>2. Loads' <=> Loads
    BY <1>3, <1>6 DEF Loads
  <2>3. LooseInv'
    <3>1. AllAbsent => AllAbsent'
      BY <2>1, <2>2 DEF AllAbsent
    <3>2. QED
      BY <1>3, <1>4, <1>6, <3>1 DEF RecordInv, LooseInv
  <2>4. ~invalid => Promised(p) /\ Held(p)
    BY <1>3, <1>6 DEF RecordInv, WorkInv, Working
  <2>5. \A a \in live : a[3] # "none" /\ a[1] \in Modules /\ a[2] \in Parts
    BY DEF TypeOK, Attachments
  <2>6. WorkInv'
    <3> SUFFICES ASSUME fd'[p], Working(p)', ~invalid PROVE Promised(p)' /\ Held(p)'
      <4>1. \A q \in Procs \ {p} : ~(fd'[q] /\ Working(q)')
        BY <1>4, <1>6, OwnerOnly
      <4>2. QED
        BY <1>6, <4>1 DEF WorkInv
    <3>1. cur[p] \notin todo[p]
      BY DEF ControlInv, PassInv
    <3>2. Promised(p)'
      <4> SUFFICES ASSUME NEW m \in Modules, choice[p][m] \in ChildBackends
                   PROVE  /\ db'.mods[m].backend = choice[p][m]
                          /\ choice[p][m] \in todo'[p] \cup {cur'[p]} => ~db'.mods[m].complete
        BY <1>4 DEF Promised
      <4>1. db'.mods[m].backend = choice[p][m]
        BY <2>1, <2>4 DEF Promised
      <4>2. ASSUME choice[p][m] \in todo'[p] \cup {cur'[p]} PROVE ~db'.mods[m].complete
        <5>1. choice[p][m] \in todo[p] \cup {cur[p]} /\ (stage[p] = "record" => choice[p][m] # cur[p])
          BY <1>4, <3>1, <4>2
        <5>2. ~db.mods[m].complete
          BY <2>4, <5>1 DEF Promised
        <5>3. db.mods[m].backend = choice[p][m]
          BY <2>4 DEF Promised
        <5>4. CASE db.mods[m].backend # b
          BY <2>1, <5>2, <5>4
        <5>5. CASE db.mods[m].backend = b
          <6>1. complete = FALSE
            BY <1>1, <5>1, <5>3, <5>5
          <6>2. QED
            BY <2>1, <5>5, <6>1
        <5>6. QED
          BY <5>4, <5>5
      <4>3. QED
        BY <4>1, <4>2
    <3>3. Held(p)'
      BY <1>3, <1>4, <2>4, <2>5 DEF Held
    <3>4. QED
      BY <3>2, <3>3
  <2>7. ASSUME NEW m \in Modules, ~invalid, Truthful(m) PROVE Truthful(m)'
    <3>1. CASE db.mods[m].backend # b
      BY <1>3, <2>1, <2>7, <3>1 DEF Truthful
    <3>2. CASE db.mods[m].backend = b /\ complete = FALSE
      BY <1>3, <2>1, <2>7, <3>2 DEF Truthful
    <3>3. CASE db.mods[m].backend = b /\ b = cur[p] /\ res = result[p] /\ stage[p] = "record"
      <4>1. \A a \in live : a[1] = m => a[3] = b
        BY <2>7, <3>3 DEF Truthful
      <4>2. \A a \in live : a[1] = m => res[m][a[2]] \in {"blind", "captured"}
        BY <2>4, <2>7, <3>3, <4>1 DEF Held
      <4>3. QED
        BY <1>3, <2>1, <2>5, <3>3, <4>1, <4>2 DEF Truthful
    <3>4. QED
      BY <1>1, <3>1, <3>2, <3>3
  <2>8. TruthInv'
    BY <1>3, <1>6, <2>2, <2>7 DEF RecordInv, TruthInv
  <2>9. QED
    BY <2>3, <2>6, <2>8 DEF RecordInv
<1>7. QED
  BY <1>1, <1>2, <1>5, <1>6, UpdateEffect

LEMMA RecordStep ==
    ASSUME ~InvalidFails, TypeOK, WriterInv, ChildInv, ControlInv, RecordInv, [Next]_vars
    PROVE  RecordInv'
<1>1. ASSUME UNCHANGED <<boot, claimed, plan, live, files, procs>> PROVE RecordInv'
  BY <1>1 DEF files, procs, RecordInv, LooseInv, WorkInv, TruthInv, AllAbsent, Loads, Promised, Held,
     Truthful, Working, Mounts
<1>2. CASE UNCHANGED vars
  BY <1>1, <1>2 DEF vars
<1>3. ASSUME NEW p \in Procs,
             \/ Begin(p) \/ BeginUnlocked(p) \/ Publish(p) \/ StopBoot(p) \/ EndBoot(p)
             \/ EndRefresh(p) \/ Teardown(p) \/ Finish(p)
      PROVE  RecordInv'
  BY <1>3, UnrecordedRecord
<1>4. ASSUME NEW p \in Procs, AbortPass(p) \/ ChildDies(p) \/ Crash(p) PROVE RecordInv'
  BY <1>4, DeathRecord
<1>5. ASSUME NEW p \in Procs, OpenRecord(p) \/ Claim(p) \/ SwapKasumiModule(p) PROVE RecordInv'
  BY <1>5, OpenRecordRecord, ClaimRecord, SwapRecord
<1>6. ASSUME NEW p \in Procs, Refresh(p) \/ Inventory(p) \/ Select(p) PROVE RecordInv'
  BY <1>6, RefreshRecord, InventoryRecord
<1>7. ASSUME NEW p \in Procs, ForkChild(p) \/ Attach(p) PROVE RecordInv'
  BY <1>7, ForkRecord, AttachRecord
<1>8. ASSUME NEW p \in Procs, OpenRules(p) \/ Record(p) PROVE RecordInv'
  BY <1>8, ChildWritesRecord
<1>9. ASSUME NEW r \in Readers, SnapshotBegin(r) \/ SnapshotEnd(r) PROVE RecordInv'
  BY <1>1, <1>9, Zenon DEF SnapshotBegin, SnapshotEnd
<1>10. CASE Reboot
  <2>1. /\ boot' = boot + 1 /\ db' = db /\ ~claimed' /\ plan' = {} /\ live' = {}
        /\ \A p \in Procs : pc'[p] = "idle" /\ cur'[p] = "none" /\ ~fd'[p]
    BY <1>10 DEF Reboot, files
  <2>2. ~Loads' /\ db'.boot <= boot'
    BY <2>1 DEF RecordInv, TruthInv, Loads, TypeOK, Database
  <2>3. QED
    BY <2>1, <2>2 DEF RecordInv, LooseInv, WorkInv, TruthInv, AllAbsent, Claiming, Mounts
<1>11. QED
  BY <1>2, <1>3, <1>4, <1>5, <1>6, <1>7, <1>8, <1>9, <1>10 DEF Next, OperationStep, ChildStep

\* The verdict on a truthful entry.
LEMMA TruthfulVerdict ==
    ASSUME NEW m \in Modules, NEW x \in Parts, NEW b \in ChildBackends, <<m, x, b>> \in live,
           Truthful(m)
    PROVE  LET v == Verdict(db.mods[m], m)
           IN /\ v # "unmounted"
              /\ v = "mounted" => b = db.mods[m].backend /\ db.mods[m].parts[x] = "captured"
<1> DEFINE entry == db.mods[m]
           expected == {y \in Parts : entry.parts[y] # "no"}
           present == {y \in Parts : entry.parts[y] = "captured" /\ <<m, y, entry.backend>> \in live}
           v == Verdict(entry, m)
<1>1. CASE entry.backend = "absent" \/ \E y \in Parts : entry.parts[y] = "blind"
  <2>1. v = "unknown"
    BY <1>1 DEF Verdict
  <2>2. QED
    BY <2>1
<1>2. CASE ~(entry.backend = "absent" \/ \E y \in Parts : entry.parts[y] = "blind")
  <2>1. v = IF present # {}
            THEN IF entry.complete /\ present = expected THEN "mounted" ELSE "partial"
            ELSE IF entry.complete THEN "unmounted" ELSE "unknown"
    BY <1>2 DEF Verdict
  <2>2. b = entry.backend /\ (entry.complete => entry.parts[x] = "captured")
    BY <1>2 DEF Truthful
  <2>3. entry.complete => x \in present
    BY <2>2
  <2> HIDE DEF present, v, entry
  <2>4. QED
    BY <2>1, <2>2, <2>3 DEF v, entry
<1>3. QED
  BY <1>1, <1>2

\* A record a snapshot would accept is true of the kernel, for any number of
\* processes, modules and parts, through crashes, orphaned children and reboots, if
\* the invalid marker can be written: what it calls unmounted has nothing attached,
\* and what it calls mounted has nothing attached but what it names.
THEOREM RecordIsTrue == ASSUME ~InvalidFails PROVE Spec => []DefiniteIsTrue
<1> DEFINE Inv == TypeOK /\ WriterInv /\ ChildInv /\ ControlInv /\ RecordInv
<1>1. Init => Inv
  BY InitType, InitWriter, InitControl, InitRecord DEF Init, ChildInv
<1>2. Inv /\ [Next]_vars => Inv'
  BY TypeStep, WriterStep, ChildInvStep, ControlStep, RecordStep
<1>3. Inv => DefiniteIsTrue
  <2> SUFFICES ASSUME Inv, Publishable, NEW m \in Modules, NEW x \in Parts,
                      NEW b \in ChildBackends, <<m, x, b>> \in live
               PROVE  LET v == Verdict(db.mods[m], m)
                      IN /\ v # "unmounted"
                         /\ v = "mounted" => b = db.mods[m].backend /\ db.mods[m].parts[x] = "captured"
    BY DEF DefiniteIsTrue
  <2>1. Truthful(m)
    BY DEF Publishable, RecordInv, TruthInv
  <2>2. QED
    BY <2>1, TruthfulVerdict
<1>4. QED
  BY <1>1, <1>2, <1>3, PTL DEF Spec

-----------------------------------------------------------------------------
(* While a reader holds the shared lock nothing moves.                     *)

\* With no Operation that goes on unlocked, only the owner of the lock is at work.
LockedInv == \A p \in Procs : pc[p] # "idle" => fd[p]

\* What a reader has loaded is the record, and it still publishes.
ViewInv == \A r \in Readers : view[r] # NoView => view[r] = db.mods /\ Loads /\ ~invalid

LEMMA LockedStep ==
    ASSUME ~LockFails, TypeOK, LockedInv, [Next]_vars
    PROVE  LockedInv'
<1>2. ASSUME UNCHANGED <<pc, fd>> PROVE LockedInv'
  BY <1>2 DEF LockedInv
<1>3. CASE UNCHANGED vars
  BY <1>2, <1>3 DEF vars, procs
<1>4. ASSUME NEW p \in Procs, Begin(p) PROVE LockedInv'
  BY <1>4 DEF Begin, TypeOK, LockedInv
<1>5. ASSUME NEW p \in Procs, OperationStep(p), ~Finish(p) PROVE LockedInv'
  <2>1. pc[p] # "idle" /\ fd' = fd /\ (pc' = pc \/ \E at : pc' = [pc EXCEPT ![p] = at])
    BY <1>5, Zenon DEF OperationStep, Publish, OpenRecord, Claim, Inventory, StopBoot, Select,
       EndBoot, Refresh, EndRefresh, SwapKasumiModule, Teardown, ForkChild
  <2>2. QED
    BY <2>1 DEF LockedInv, TypeOK
<1>6. ASSUME NEW p \in Procs, PassOver(p) \/ ChildGone(p) PROVE LockedInv'
  <2>1. \/ UNCHANGED <<pc, fd>>
        \/ pc' = [pc EXCEPT ![p] = "idle"] /\ fd' = [fd EXCEPT ![p] = FALSE]
    BY <1>6, Zenon DEF PassOver, ChildGone
  <2>2. QED
    BY <2>1 DEF LockedInv, TypeOK
<1>7. ASSUME NEW p \in Procs, ChildStep(p) PROVE LockedInv'
  BY <1>2, <1>6, <1>7, Zenon DEF ChildStep, OpenRules, AbortPass, Attach, Record
<1>8. ASSUME NEW p \in Procs, ChildDies(p) PROVE LockedInv'
  BY <1>6, <1>8, Zenon DEF ChildDies
<1>9. ASSUME NEW p \in Procs, Finish(p) \/ Crash(p) PROVE LockedInv'
  <2>1. \/ pc' = [pc EXCEPT ![p] = "idle"] /\ fd' = [fd EXCEPT ![p] = FALSE]
        \/ pc[p] # "idle" /\ pc' = [pc EXCEPT ![p] = "orphan"] /\ fd' = fd
    BY <1>9, Zenon DEF Finish, Crash
  <2>2. QED
    BY <2>1 DEF LockedInv, TypeOK
<1>10. ASSUME NEW r \in Readers, SnapshotBegin(r) \/ SnapshotEnd(r) PROVE LockedInv'
  BY <1>2, <1>10 DEF SnapshotBegin, SnapshotEnd, procs
<1>11. CASE Reboot
  BY <1>11 DEF Reboot, LockedInv
<1>12. ASSUME NEW p \in Procs, BeginUnlocked(p) PROVE FALSE
  BY <1>12 DEF BeginUnlocked
<1>13. QED
  BY <1>3, <1>4, <1>5, <1>7, <1>8, <1>9, <1>10, <1>11, <1>12 DEF Next, OperationStep

LEMMA ViewStep ==
    ASSUME ~LockFails, TypeOK, WriterInv, ChildInv, ControlInv, LockedInv, ViewInv, [Next]_vars
    PROVE  ViewInv'
<1>1. ASSUME UNCHANGED <<boot, db, invalid>>, \A r \in Readers : view'[r] \in {view[r], NoView}
      PROVE  ViewInv'
  BY <1>1 DEF ViewInv, Loads
<1>2. CASE UNCHANGED vars
  BY <1>1, <1>2 DEF vars, files
<1>3. CASE \A r \in Readers : view'[r] = NoView
  BY <1>3 DEF ViewInv
<1>4. ASSUME NEW p \in Procs, pc[p] # "idle", view' = view PROVE ViewInv'
  <2>1. \A r \in Readers : view[r] = NoView
    BY <1>4 DEF LockedInv, WriterInv, OneWriter
  <2>2. QED
    BY <1>3, <1>4, <2>1
<1>5. ASSUME NEW p \in Procs, Begin(p) PROVE ViewInv'
  BY <1>3, <1>5 DEF Begin, NoSnapshot
<1>6. ASSUME NEW p \in Procs, OperationStep(p) PROVE ViewInv'
  <2>1. pc[p] # "idle" /\ view' = view
    BY <1>6, Zenon DEF OperationStep, Publish, OpenRecord, Claim, Inventory, StopBoot, Select,
       EndBoot, Refresh, EndRefresh, SwapKasumiModule, Teardown, ForkChild, Finish
  <2>2. QED
    BY <1>4, <2>1
<1>7. ASSUME NEW p \in Procs, ChildStep(p) \/ ChildDies(p) PROVE ViewInv'
  <2>1. (stage[p] # "none" \/ cur[p] # "none") /\ view' = view
    BY <1>7, Zenon DEF ChildStep, ChildDies, OpenRules, AbortPass, Attach, Record
  <2>2. pc[p] # "idle"
    BY <2>1 DEF ControlInv, PassInv, ChildInv, Waiting
  <2>3. QED
    BY <1>4, <2>1, <2>2
<1>8. ASSUME NEW p \in Procs, Crash(p) PROVE ViewInv'
  BY <1>4, <1>8 DEF Crash
<1>9. ASSUME NEW r \in Readers, SnapshotBegin(r) PROVE ViewInv'
  BY <1>9 DEF SnapshotBegin, Publishable, Loads, files, TypeOK, ViewInv
<1>10. ASSUME NEW r \in Readers, SnapshotEnd(r) PROVE ViewInv'
  BY <1>1, <1>10 DEF SnapshotEnd, files, TypeOK
<1>11. CASE Reboot
  BY <1>3, <1>11 DEF Reboot
<1>12. ASSUME NEW p \in Procs, BeginUnlocked(p) PROVE FALSE
  BY <1>12 DEF BeginUnlocked
<1>13. QED
  BY <1>2, <1>5, <1>6, <1>7, <1>8, <1>9, <1>10, <1>11, <1>12 DEF Next

\* What a reader answers is true of the kernel as long as it holds the shared lock,
\* for any number of readers and processes, if every Operation gets its lock and the
\* invalid marker can be written.
THEOREM AnswerIsTrue == ASSUME ~InvalidFails, ~LockFails PROVE Spec => []SnapshotIsTrue
<1> DEFINE Inv == TypeOK /\ WriterInv /\ ChildInv /\ ControlInv /\ RecordInv
<1>1. Init => Inv /\ LockedInv /\ ViewInv
  BY InitType, InitWriter, InitControl, InitRecord DEF Init, ChildInv, LockedInv, ViewInv
<1>2. (Inv /\ LockedInv /\ ViewInv) /\ [Next]_vars => (Inv /\ LockedInv /\ ViewInv)'
  BY TypeStep, WriterStep, ChildInvStep, ControlStep, RecordStep, LockedStep, ViewStep
<1>3. Inv /\ LockedInv /\ ViewInv => SnapshotIsTrue
  <2> SUFFICES ASSUME Inv, ViewInv, NEW r \in Readers, view[r] # NoView
               PROVE  /\ view[r] = db.mods
                      /\ \A a \in live : Verdict(db.mods[a[1]], a[1]) # "unmounted"
    BY DEF SnapshotIsTrue, ViewInv
  <2>1. view[r] = db.mods /\ \A m \in Modules : Truthful(m)
    BY DEF ViewInv, RecordInv, TruthInv
  <2>2. \A a \in live : a[1] \in Modules /\ a[2] \in Parts /\ a[3] \in ChildBackends /\ a = <<a[1], a[2], a[3]>>
    BY DEF TypeOK, Attachments
  <2>3. QED
    BY <2>1, <2>2, TruthfulVerdict
<1>4. QED
  BY <1>1, <1>2, <1>3, PTL DEF Spec

=============================================================================
