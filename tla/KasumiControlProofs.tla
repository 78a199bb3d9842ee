------------------------- MODULE KasumiControlProofs -------------------------
(* Theorems about KasumiControl for any modules, paths, hide rules, number *)
(* of boots and faults: the types, that mapping rules are added only       *)
(* behind a lowered gate, that what modules hide stays hidden, that an     *)
(* enabled Kasumi serves the plan, and that what is reported is so.        *)
EXTENDS KasumiControl, TLAPS

LEMMA Boots == MaxBoots \in Nat /\ 1 <= MaxBoots
BY ControlAssumption

LEMMA NoRunType == NoRun \in Runs
BY DEF NoRun, Runs, Commands, Places

LEMMA NoPlanType == NoPlan \in [boot : 0..MaxBoots, ids : SUBSET Modules]
BY Boots DEF NoPlan

LEMMA EntryType ==
    ASSUME NEW kind \in {"absent", "other", "partial", "complete"}
    PROVE  Entry(kind) \in Entries
BY DEF Entry, Entries

LEMMA ReadTypes ==
    ASSUME TypeOK
    PROVE  /\ Replayable \subseteq Modules
           /\ Enumerated \subseteq Modules
           /\ Selected \subseteq Modules
BY DEF TypeOK, Replayable, Enumerated, Selected

LEMMA UnruledType ==
    ASSUME TypeOK, NEW kind \in {"partial", "complete"}
    PROVE  Unruled(kind) \in [Modules -> Entries]
BY EntryType DEF TypeOK, Unruled

\* An update keeps the record a record.
LEMMA RecordsType ==
    ASSUME TypeOK, NEW new \in [Modules -> Entries], Records(new)
    PROVE  record' \in [Modules -> Entries] /\ readable' \in BOOLEAN
BY EntryType DEF TypeOK, Records

\* The ways in which a step moves a command on.
LEMMA MoveTypes ==
    ASSUME run \in Runs
    PROVE  /\ \A at \in Places : Goes(at) \/ Fails(at) => run' \in Runs
           /\ \A ok \in BOOLEAN : Ends(ok) => run' \in Runs
           /\ \A at \in Places, ok \in BOOLEAN : Deactivates(at, ok) => run' \in Runs
<1>1. ASSUME NEW at \in Places, Goes(at) \/ Fails(at) PROVE run' \in Runs
  BY <1>1 DEF Goes, Fails, Runs
<1>2. ASSUME NEW ok \in BOOLEAN, Ends(ok) PROVE run' \in Runs
  BY <1>2, NoRunType DEF Ends, Runs
<1>3. ASSUME NEW at \in Places, NEW ok \in BOOLEAN, Deactivates(at, ok) PROVE run' \in Runs
  <2>1. "down" \in Places
    BY DEF Places
  <2>2. QED
    BY <1>3, <2>1 DEF Deactivates, Runs
<1>4. QED
  BY <1>1, <1>2, <1>3

LEMMA BeginTypes ==
    /\ \A cmd \in Commands, at \in Places, on \in BOOLEAN, arg \in SUBSET Modules :
          Begins(cmd, at, on, arg) => run' \in Runs
    /\ \A cmd \in Commands, ok \in BOOLEAN : Reports(cmd, ok) => run' \in Runs
BY NoRunType DEF Begins, Reports, Runs

LEMMA InitType == Init => TypeOK
<1> SUFFICES ASSUME Init PROVE TypeOK
  OBVIOUS
<1>1. boot \in 1..MaxBoots /\ active \in 0..MaxBoots
  BY Boots DEF Init
<1>2. record \in [Modules -> Entries]
  BY EntryType DEF Init
<1>3. plan \in [boot : 0..MaxBoots, ids : SUBSET Modules] /\ run \in Runs
  BY NoPlanType, NoRunType DEF Init
<1>4. QED
  BY <1>1, <1>2, <1>3 DEF Init, TypeOK

LEMMA TypeStep == TypeOK /\ [Next]_vars => TypeOK'
<1> SUFFICES ASSUME TypeOK, [Next]_vars PROVE TypeOK'
  OBVIOUS
<1>0. run \in Runs
  BY DEF TypeOK
<1>1. CASE BeginApply
  <2>1. run' \in Runs
    BY <1>1, NoRunType DEF BeginApply, Begins, Runs, Places, Commands
  <2>2. QED
    BY <2>1, <1>1 DEF BeginApply, kernel, files, settings, observed, TypeOK
<1>2. CASE BeginLoad
  <2>1. run' \in Runs
    BY <1>2, NoRunType DEF BeginLoad, Begins, Runs, Places, Commands
  <2>2. record' \in [Modules -> Entries] /\ readable' \in BOOLEAN
    BY <1>2, UnruledType, RecordsType DEF BeginLoad
  <2>3. QED
    BY <2>1, <2>2, <1>2 DEF BeginLoad, files, settings, TypeOK
<1>3. CASE ConfigUnreadable
  BY <1>0, <1>3, MoveTypes
     DEF ConfigUnreadable, kernel, files, settings, observed, Places, TypeOK
<1>4. CASE Config
  <2>1. PICK on \in BOOLEAN : on = (run.on \/ conf = "on")
    BY <1>0 DEF Runs
  <2> DEFINE next == [run EXCEPT !.on = on]
  <2>2. next \in Runs
    BY <1>0 DEF Runs
  <2>3. \/ \E at \in {"down", "end"} : run' = [next EXCEPT !.at = at, !.back = "end"]
        \/ run' = [next EXCEPT !.at = "end", !.ok = FALSE]
        \/ \E at \in {"refresh", "policy"} : run' = [next EXCEPT !.at = at]
    BY <2>1, <1>4 DEF Config
  <2> HIDE DEF next
  <2>4. run' \in Runs
    <3>1. ASSUME NEW at \in Places, run' = [next EXCEPT !.at = at]
          PROVE  run' \in Runs
      BY <2>2, <3>1 DEF Runs
    <3>2. ASSUME NEW at \in Places, run' = [next EXCEPT !.at = at, !.back = "end"]
          PROVE  run' \in Runs
      BY <2>2, <3>2 DEF Runs, Places
    <3>3. ASSUME run' = [next EXCEPT !.at = "end", !.ok = FALSE]
          PROVE  run' \in Runs
      BY <2>2, <3>3 DEF Runs, Places
    <3>4. QED
      BY <2>3, <3>1, <3>2, <3>3 DEF Places
  <2>5. QED
    BY <2>4, <1>4 DEF Config, kernel, files, settings, observed, TypeOK
<1>5. CASE ApplyPolicy
  BY <1>0, <1>5, MoveTypes DEF ApplyPolicy, files, settings, observed, Places, TypeOK
<1>6. CASE ApplyHides
  BY <1>0, <1>6, MoveTypes
     DEF ApplyHides, RestoresAll, RestoreFails, files, settings, observed, Places, TypeOK
<1>7. CASE ApplyFeatures
  BY <1>0, <1>7, MoveTypes
     DEF ApplyFeatures, kernel, files, settings, observed, Places, TypeOK
<1>8. CASE Enable
  BY <1>0, <1>8, MoveTypes DEF Enable, files, settings, observed, Places, TypeOK
<1>9. CASE Abandon
  BY <1>0, <1>9, MoveTypes DEF Abandon, files, settings, observed, Places, TypeOK
<1>10. CASE BeginHot(TRUE)
  <2>1. PICK m \in Replayable :
          /\ run' = [NoRun EXCEPT !.cmd = "hot-unmount", !.at = "refresh", !.on = conf # "off",
                                  !.arg = {m}, !.had = m \in hot]
          /\ Marked(hot \cup {m}, hot)
    BY <1>10 DEF BeginHot
  <2>2. m \in Modules
    BY ReadTypes
  <2>3. run' \in Runs
    <3>1. {m} \in SUBSET Modules /\ (conf # "off") \in BOOLEAN /\ (m \in hot) \in BOOLEAN
      BY <2>2
    <3>2. "refresh" \in Places /\ {"hot-mount", "hot-unmount"} \subseteq Commands
      BY DEF Places, Commands
    <3>3. QED
      BY <2>1, <3>1, <3>2, NoRunType DEF Runs
  <2>4. hot' \subseteq Modules
    BY <2>1, <2>2 DEF Marked, TypeOK
  <2>5. QED
    BY <2>3, <2>4, <1>10 DEF BeginHot, kernel, files, observed, TypeOK
<1>11. CASE BeginHot(FALSE)
  <2>1. PICK m \in Replayable :
          /\ run' = [NoRun EXCEPT !.cmd = "hot-mount", !.at = "refresh", !.on = conf # "off",
                                  !.arg = {m}, !.had = m \in hot]
          /\ hot' = hot \ {m}
    BY <1>11 DEF BeginHot
  <2>2. m \in Modules
    BY ReadTypes
  <2>3. run' \in Runs
    <3>1. {m} \in SUBSET Modules /\ (conf # "off") \in BOOLEAN /\ (m \in hot) \in BOOLEAN
      BY <2>2
    <3>2. "refresh" \in Places /\ {"hot-mount", "hot-unmount"} \subseteq Commands
      BY DEF Places, Commands
    <3>3. QED
      BY <2>1, <3>1, <3>2, NoRunType DEF Runs
  <2>4. hot' \subseteq Modules
    BY <2>1 DEF TypeOK
  <2>5. QED
    BY <2>3, <2>4, <1>11 DEF BeginHot, kernel, files, observed, TypeOK
<1>12. CASE RollBack
  <2>1. run' \in Runs
    BY <1>0, <1>12, MoveTypes DEF RollBack, Runs
  <2>2. hot' \subseteq Modules
    <3>1. CASE run.ok \/ (run.cmd = "hot-unmount") = run.had
      BY <3>1, <1>12 DEF RollBack, TypeOK
    <3>2. CASE ~(run.ok \/ (run.cmd = "hot-unmount") = run.had) /\ run.had
      <4>1. Marked(hot \cup run.arg, hot)
        BY <3>2, <1>12 DEF RollBack
      <4>2. run.arg \subseteq Modules
        BY <1>0 DEF Runs
      <4>3. QED
        BY <4>1, <4>2 DEF Marked, TypeOK
    <3>3. CASE ~(run.ok \/ (run.cmd = "hot-unmount") = run.had) /\ ~run.had
      BY <3>3, <1>12 DEF RollBack, TypeOK
    <3>4. QED
      BY <3>1, <3>2, <3>3
  <2>3. QED
    BY <2>1, <2>2, <1>12 DEF RollBack, kernel, files, observed, TypeOK
<1>13. CASE BeginModuleApply
  <2>1. PICK m \in Selected : Begins("module-apply", "refresh", TRUE, {m})
    BY <1>13 DEF BeginModuleApply
  <2>2. {m} \in SUBSET Modules
    BY ReadTypes
  <2>3. run' \in Runs
    BY <2>1, <2>2, NoRunType DEF Begins, Runs, Places, Commands
  <2>4. QED
    BY <2>3, <1>13 DEF BeginModuleApply, kernel, files, settings, observed, TypeOK
<1>14. CASE BeginMountAll
  <2>1. run' \in Runs
    <3>1. PICK on \in BOOLEAN, at \in {"down", "inventory"} :
            run' = [NoRun EXCEPT !.cmd = "mount-all", !.on = on, !.back = "inventory", !.at = at]
      BY <1>14 DEF BeginMountAll
    <3>2. QED
      BY <3>1, NoRunType DEF Runs, Places, Commands
  <2>2. active' \in 0..MaxBoots /\ plan' \in [boot : 0..MaxBoots, ids : SUBSET Modules]
    BY <1>14, Boots, NoPlanType DEF BeginMountAll
  <2>3. QED
    BY <2>1, <2>2, <1>14 DEF BeginMountAll, kernel, settings, observed, TypeOK
<1>15. CASE Inventory
  BY <1>0, <1>15, MoveTypes, EntryType, ReadTypes, ZenonT(40)
     DEF Inventory, kernel, files, settings, Places, TypeOK
<1>16. CASE PassEnds
  BY <1>0, <1>16, MoveTypes DEF PassEnds, kernel, files, settings, observed, Places, TypeOK
<1>17. CASE Select
  <2>1. PICK chosen \in SUBSET Modules, at \in {"end", "map", "gate"} :
          /\ Records([m \in Modules |-> IF m \in chosen THEN Entry("partial") ELSE record[m]])
          /\ run' = [run EXCEPT !.sel = chosen, !.at = at]
    <3>1. PICK chosen \in SUBSET (IF loaded /\ run.on THEN Enumerated ELSE {}) :
            /\ Records([m \in Modules |-> IF m \in chosen THEN Entry("partial") ELSE record[m]])
            /\ run' = [run EXCEPT !.sel = chosen,
                                  !.at = IF ~(loaded /\ run.on) THEN "end"
                                         ELSE IF run.ok THEN "map" ELSE "gate"]
      BY <1>17 DEF Select
    <3>2. chosen \in SUBSET Modules
      BY ReadTypes
    <3>3. QED
      BY <3>1, <3>2
  <2>2. run' \in Runs
    BY <1>0, <2>1 DEF Runs, Places
  <2>3. [m \in Modules |-> IF m \in chosen THEN Entry("partial") ELSE record[m]]
          \in [Modules -> Entries]
    BY EntryType DEF TypeOK
  <2>4. record' \in [Modules -> Entries] /\ readable' \in BOOLEAN
    BY <2>1, <2>3, RecordsType
  <2>5. QED
    BY <2>2, <2>4, <1>17 DEF Select, kernel, files, settings, TypeOK
<1>18. CASE Plan
  <2>1. run' \in Runs
    BY <1>0, <1>18, MoveTypes DEF Plan, Places
  <2>2. run.sel \subseteq Modules
    BY <1>0 DEF Runs
  <2>3. plan' \in [boot : 0..MaxBoots, ids : SUBSET Modules]
    BY <2>2, <1>18, Boots, NoPlanType DEF Plan, TypeOK
  <2>4. QED
    BY <2>1, <2>3, <1>18 DEF Plan, kernel, settings, observed, TypeOK
<1>19. CASE BeginUnmount
  <2>1. PICK at \in {"down", "repeal"} :
          run' = [NoRun EXCEPT !.cmd = "unmount", !.back = "repeal", !.at = at]
    BY <1>19 DEF BeginUnmount
  <2>2. run' \in Runs
    BY <2>1, NoRunType DEF Runs, Places, Commands
  <2>3. QED
    BY <2>2, <1>19 DEF BeginUnmount, kernel, files, settings, observed, TypeOK
<1>20. CASE Repeal
  <2>1. run' \in Runs
    BY <1>0, <1>20, MoveTypes DEF Repeal, Runs
  <2>2. active' \in 0..MaxBoots /\ plan' \in [boot : 0..MaxBoots, ids : SUBSET Modules]
    BY <1>20, Boots, NoPlanType DEF Repeal
  <2>3. QED
    BY <2>1, <2>2, <1>20 DEF Repeal, kernel, settings, observed, TypeOK
<1>21. CASE RefreshOff
  BY <1>0, <1>21, MoveTypes
     DEF RefreshOff, AfterRefresh, kernel, files, settings, observed, Places, TypeOK
<1>22. CASE RefreshRefused
  BY <1>0, <1>22, MoveTypes, ReadTypes
     DEF RefreshRefused, AfterRefresh, kernel, files, settings, observed, Places, TypeOK
<1>23. CASE Refresh
  BY <1>0, <1>23, ReadTypes
     DEF Refresh, Runs, kernel, files, settings, observed, Places, TypeOK
<1>24. CASE Assign
  BY <1>0, <1>24, MoveTypes, RecordsType, UnruledType, EntryType
     DEF Assign, kernel, files, settings, observed, Places, TypeOK
<1>25. CASE MapModules
  <2>1. run' \in Runs
    <3>1. CASE run' = [run EXCEPT !.at = "install", !.todo = run.sel]
      BY <3>1, <1>0 DEF Runs, Places
    <3>2. CASE Fails(AfterMount)
      <4>1. AfterMount \in Places
        BY DEF AfterMount, Places
      <4>2. QED
        BY <4>1, <3>2, <1>0, MoveTypes
    <3>3. QED
      BY <3>1, <3>2, <1>25 DEF MapModules
  <2>2. record' \in [Modules -> Entries] /\ readable' \in BOOLEAN
    BY <1>25, UnruledType, RecordsType DEF MapModules
  <2>3. QED
    BY <2>1, <2>2, <1>25 DEF MapModules, kernel, files, settings, TypeOK
<1>26. CASE MapNothing
  BY <1>0, <1>26, MoveTypes, RecordsType, UnruledType
     DEF MapNothing, kernel, files, settings, Places, TypeOK
<1>27. CASE RestoreOnly
  <2>1. run' \in Runs
    <3>1. AfterMount \in Places
      BY DEF AfterMount, Places
    <3>2. Goes(AfterMount) \/ Fails(AfterMount)
      BY <1>27 DEF RestoreOnly
    <3>3. QED
      BY <3>1, <3>2, <1>0, MoveTypes
  <2>2. active' \in 0..MaxBoots
    BY <1>27, Boots DEF RestoreOnly, TypeOK
  <2>3. hides' \subseteq Paths
    BY <1>27 DEF RestoreOnly, RestoresAll, RestoreFails, TypeOK
  <2>4. QED
    BY <2>1, <2>2, <2>3, <1>27 DEF RestoreOnly, settings, observed, TypeOK
<1>28. CASE Install
  <2>1. PICK m \in run.todo, at \in {"hide", "install"}, ok \in BOOLEAN :
          /\ rules' \in {rules, rules \cup {m}}
          /\ run' = [run EXCEPT !.todo = run.todo \ {m}, !.ok = ok, !.at = at]
    BY <1>0, <1>28 DEF Install, Runs
  <2>2. run.todo \subseteq Modules
    BY <1>0 DEF Runs
  <2>3. run' \in Runs
    BY <2>1, <1>0 DEF Runs, Places
  <2>4. QED
    BY <2>1, <2>2, <2>3, <1>28 DEF Install, files, settings, observed, TypeOK
<1>29. CASE HideMapped
  <2>1. run' \in Runs
    BY <1>0, <1>29, MoveTypes DEF HideMapped, Places
  <2>2. MappedHides \subseteq Paths
    <3>1. run.sel \subseteq Modules
      BY <1>0 DEF Runs
    <3>2. UNION {HiddenBy[m] : m \in run.sel} \subseteq Paths
      BY <3>1, ControlAssumption
    <3>3. userHides \subseteq Paths
      BY DEF TypeOK
    <3>4. QED
      BY <3>2, <3>3 DEF MappedHides
  <2>3. hides' \subseteq Paths
    BY <2>2, <1>29 DEF HideMapped, TypeOK
  <2>4. QED
    BY <2>1, <2>3, <1>29 DEF HideMapped, files, settings, observed, TypeOK
<1>30. CASE Commit
  <2>1. run' \in Runs
    <3>1. AfterMount \in Places
      BY DEF AfterMount, Places
    <3>2. Goes(AfterMount) \/ Fails(AfterMount)
      BY <1>30 DEF Commit
    <3>3. QED
      BY <3>1, <3>2, <1>0, MoveTypes
  <2>2. active' \in 0..MaxBoots
    BY <1>30, Boots DEF Commit, TypeOK
  <2> DEFINE new == [m \in Modules |-> IF m \in run.sel /\ OfKasumi(m)
                                       THEN [kind |-> "complete", hides |-> HiddenBy[m]]
                                       ELSE Unruled("complete")[m]]
  <2>3. new \in [Modules -> Entries]
    <3>1. \A m \in Modules : [kind |-> "complete", hides |-> HiddenBy[m]] \in Entries
      BY ControlAssumption DEF Entries
    <3>2. Unruled("complete") \in [Modules -> Entries]
      BY UnruledType
    <3>3. QED
      BY <3>1, <3>2
  <2>4. Records(new)
    BY <1>30 DEF Commit
  <2>5. record' \in [Modules -> Entries] /\ readable' \in BOOLEAN
    BY <2>3, <2>4, RecordsType
  <2>6. QED
    BY <2>1, <2>2, <2>5, <1>30 DEF Commit, kernel, settings, TypeOK
<1>31. CASE ChildDies
  BY <1>0, <1>31, MoveTypes
     DEF ChildDies, AfterMount, kernel, files, settings, observed, Places, TypeOK
<1>32. CASE Configure
  BY <1>0, <1>32, MoveTypes, ZenonT(40) DEF Configure, files, settings, observed, Places, TypeOK
<1>33. CASE Gate
  BY <1>0, <1>33, MoveTypes, ZenonT(40)
     DEF Gate, AfterRefresh, files, settings, observed, Places, TypeOK
<1>34. CASE Down
  BY <1>0, <1>34, MoveTypes DEF Down, files, settings, observed, Places, TypeOK
<1>35. CASE Clear
  BY <1>0, <1>35, MoveTypes DEF Clear, files, settings, observed, Places, TypeOK
<1>36. CASE Forget
  <2>1. run' \in Runs
    BY <1>0, <1>36, MoveTypes DEF Forget, Runs
  <2>2. QED
    BY <2>1, <1>36, Boots DEF Forget, kernel, settings, observed, TypeOK
<1>37. CASE End
  <2>1. run' \in Runs
    BY <1>0, <1>37, MoveTypes DEF End, Runs
  <2>2. QED
    BY <2>1, <1>37 DEF End, kernel, files, settings, observed, TypeOK
<1>38. CASE Unload
  <2>1. run' \in Runs
    BY <1>38, BeginTypes DEF Unload, Commands
  <2>2. record' \in [Modules -> Entries] /\ readable' \in BOOLEAN
    BY <1>38, UnruledType, RecordsType DEF Unload
  <2>3. QED
    BY <2>1, <2>2, <1>38 DEF Unload, files, settings, TypeOK
<1>39. CASE UnloadLegacy
  <2>1. run' \in Runs
    BY <1>39, BeginTypes DEF UnloadLegacy, Commands
  <2>2. QED
    BY <2>1, <1>39 DEF UnloadLegacy, files, settings, observed, TypeOK
<1>40. CASE BeginClear
  BY <1>0, <1>40, NoRunType, ZenonT(40)
     DEF BeginClear, Runs, files, settings, observed, Places, Commands, TypeOK
<1>41. CASE Disable
  <2>1. run' \in Runs
    BY <1>41, BeginTypes DEF Disable, Commands
  <2>2. QED
    BY <2>1, <1>41 DEF Disable, files, settings, observed, TypeOK
<1>42. CASE BeginPolicy
  BY <1>0, <1>42, NoRunType, ZenonT(40)
     DEF BeginPolicy, Runs, files, settings, observed, Places, Commands, TypeOK
<1>43. CASE Replace
  BY <1>0, <1>43, MoveTypes, ZenonT(40) DEF Replace, files, settings, observed, Places, TypeOK
<1>44. CASE BeginHide(TRUE)
  <2>1. PICK p \in Paths, at \in {"update", "idle"} :
          /\ userHides' \in {userHides \ {p}, userHides \cup {p}}
          /\ run' = [NoRun EXCEPT !.cmd = "hide-remove", !.at = at, !.path = {p}]
    BY <1>44 DEF BeginHide
  <2>2. run' \in Runs
    BY <2>1, NoRunType DEF Runs, Places, Commands
  <2>3. userHides' \subseteq Paths
    BY <2>1 DEF TypeOK
  <2>4. QED
    BY <2>2, <2>3, <1>44 DEF BeginHide, kernel, files, observed, TypeOK
<1>45. CASE BeginHide(FALSE)
  <2>1. PICK p \in Paths, at \in {"update", "idle"} :
          /\ userHides' \in {userHides \ {p}, userHides \cup {p}}
          /\ run' = [NoRun EXCEPT !.cmd = "hide-add", !.at = at, !.path = {p}]
    BY <1>45 DEF BeginHide
  <2>2. run' \in Runs
    BY <2>1, NoRunType DEF Runs, Places, Commands
  <2>3. userHides' \subseteq Paths
    BY <2>1 DEF TypeOK
  <2>4. QED
    BY <2>2, <2>3, <1>45 DEF BeginHide, kernel, files, observed, TypeOK
<1>46. CASE Update
  <2>1. run' \in Runs
    BY <1>0, <1>46, MoveTypes DEF Update
  <2>2. run.path \subseteq Paths
    BY <1>0 DEF Runs
  <2>3. hides' \subseteq Paths
    BY <2>2, <1>46 DEF Update, TypeOK
  <2>4. QED
    BY <2>1, <2>3, <1>46 DEF Update, files, settings, observed, TypeOK
<1>47. CASE EditConfig
  BY <1>0, <1>47 DEF EditConfig, kernel, files, observed, TypeOK
<1>48. CASE Kill
  <2>1. run' \in Runs
    BY <1>48, NoRunType DEF Kill
  <2>2. QED
    BY <2>1, <1>48 DEF Kill, kernel, files, settings, observed, TypeOK
<1>49. CASE Reboot
  <2>1. boot' \in 1..MaxBoots
    BY <1>49, Boots DEF Reboot, TypeOK
  <2>2. record' \in [Modules -> Entries]
    BY <1>49, EntryType DEF Reboot
  <2>3. QED
    BY <2>1, <2>2, <1>49, NoRunType DEF Reboot, files, settings, TypeOK
<1>50. CASE UNCHANGED vars
  BY <1>50 DEF vars, kernel, files, settings, observed, TypeOK
<1>51. QED
  BY <1>1, <1>2, <1>3, <1>4, <1>5, <1>6, <1>7, <1>8, <1>9, <1>10, <1>11, <1>12, <1>13,
     <1>14, <1>15, <1>16, <1>17, <1>18, <1>19, <1>20, <1>21, <1>22, <1>23, <1>24, <1>25,
     <1>26, <1>27, <1>28, <1>29, <1>30, <1>31, <1>32, <1>33, <1>34, <1>35, <1>36, <1>37,
     <1>38, <1>39, <1>40, <1>41, <1>42, <1>43, <1>44, <1>45, <1>46, <1>47, <1>48, <1>49,
     <1>50
     DEF Next

\* The types of every variable, in every reachable state of the control plane.
THEOREM TypeCorrect == Spec => []TypeOK
BY InitType, TypeStep, PTL DEF Spec

-----------------------------------------------------------------------------
(* The gate is lowered by the reset before the first mapping rule, and no  *)
(* step between them raises it.                                            *)

\* Where a deactivate() returns to.
Returns == {"idle", "inventory", "select", "assign", "rollback", "repeal", "end"}

\* From the reset of a command that goes on to install, until its last rule.
BehindGate ==
    \/ run.at \in {"map", "install"}
    \/ run.at = "assign" /\ run.ok
    \/ run.at = "select" /\ run.ok /\ loaded /\ run.on
    \/ run.at \in {"clear", "forget"} /\ run.ok /\ run.back \in {"assign", "select"}

GateInv == run.back \in Returns /\ (BehindGate => ~gate)

LEMMA InitGate == Init => GateInv
BY DEF Init, GateInv, BehindGate, Returns, NoRun

LEMMA GateStep == TypeOK /\ GateInv /\ [Next]_vars => GateInv'
<1> SUFFICES ASSUME TypeOK, GateInv, [Next]_vars PROVE GateInv'
  OBVIOUS
<1>0. run \in Runs /\ gate \in BOOLEAN
  BY DEF TypeOK
<1>1. CASE BeginApply
  BY <1>0, <1>1 DEF BeginApply, Begins, NoRun, kernel, Runs, GateInv, BehindGate, Returns
<1>2. CASE BeginLoad
  BY <1>0, <1>2 DEF BeginLoad, Begins, NoRun, Runs, GateInv, BehindGate, Returns
<1>3. CASE ConfigUnreadable
  BY <1>0, <1>3
     DEF ConfigUnreadable, Ends, NoRun, kernel, Runs, GateInv, BehindGate, Returns
<1>4. CASE Config
  BY <1>0, <1>4 DEF Config, kernel, Runs, GateInv, BehindGate, Returns
<1>5. CASE ApplyPolicy
  BY <1>0, <1>5 DEF ApplyPolicy, Goes, Runs, GateInv, BehindGate, Returns
<1>6. CASE ApplyHides
  BY <1>0, <1>6 DEF ApplyHides, Goes, Runs, GateInv, BehindGate, Returns
<1>7. CASE ApplyFeatures
  BY <1>0, <1>7 DEF ApplyFeatures, Goes, kernel, Runs, GateInv, BehindGate, Returns
<1>8. CASE Enable
  BY <1>0, <1>8 DEF Enable, Goes, Runs, GateInv, BehindGate, Returns
<1>9. CASE Abandon
  BY <1>0, <1>9 DEF Abandon, Ends, NoRun, Runs, GateInv, BehindGate, Returns
<1>10. CASE BeginHot(TRUE)
  BY <1>0, <1>10 DEF BeginHot, NoRun, kernel, Runs, GateInv, BehindGate, Returns
<1>11. CASE BeginHot(FALSE)
  BY <1>0, <1>11 DEF BeginHot, NoRun, kernel, Runs, GateInv, BehindGate, Returns
<1>12. CASE RollBack
  BY <1>0, <1>12 DEF RollBack, Ends, NoRun, kernel, Runs, GateInv, BehindGate, Returns
<1>13. CASE BeginModuleApply
  BY <1>0, <1>13
     DEF BeginModuleApply, Begins, NoRun, kernel, Runs, GateInv, BehindGate, Returns
<1>14. CASE BeginMountAll
  BY <1>0, <1>14 DEF BeginMountAll, NoRun, kernel, Runs, GateInv, BehindGate, Returns
<1>15. CASE Inventory
  <2>1. /\ UNCHANGED <<loaded, gate>>
        /\ \/ \E back \in {"end", "select"} : Deactivates(back, TRUE)
           \/ Goes("end")
           \/ Goes("select") /\ ~(loaded /\ run.on)
    BY <1>15 DEF Inventory, kernel
  <2>2. ASSUME NEW back \in {"end", "select"}, Deactivates(back, TRUE) PROVE GateInv'
    BY <1>0, <2>2 DEF Deactivates, Runs, GateInv, BehindGate, Returns
  <2>3. CASE Goes("end")
    BY <1>0, <2>3 DEF Goes, Runs, GateInv, BehindGate, Returns
  <2>4. CASE Goes("select") /\ ~(loaded /\ run.on)
    BY <1>0, <2>1, <2>4 DEF Goes, Runs, GateInv, BehindGate, Returns
  <2>5. QED
    BY <2>1, <2>2, <2>3, <2>4
<1>16. CASE PassEnds
  BY <1>0, <1>16 DEF PassEnds, Ends, NoRun, kernel, Runs, GateInv, BehindGate, Returns
<1>17. CASE Select
  BY <1>0, <1>17 DEF Select, kernel, Runs, GateInv, BehindGate, Returns
<1>18. CASE Plan
  BY <1>0, <1>18 DEF Plan, Goes, Fails, kernel, Runs, GateInv, BehindGate, Returns
<1>19. CASE BeginUnmount
  BY <1>0, <1>19 DEF BeginUnmount, NoRun, kernel, Runs, GateInv, BehindGate, Returns
<1>20. CASE Repeal
  BY <1>0, <1>20 DEF Repeal, Ends, NoRun, kernel, Runs, GateInv, BehindGate, Returns
<1>21. CASE RefreshOff
  BY <1>0, <1>21, ZenonT(40)
     DEF RefreshOff, Goes, Deactivates, AfterRefresh, kernel, Runs, GateInv, BehindGate,
         Returns
<1>22. CASE RefreshRefused
  BY <1>0, <1>22
     DEF RefreshRefused, Fails, AfterRefresh, kernel, Runs, GateInv, BehindGate, Returns
<1>23. CASE Refresh
  BY <1>0, <1>23 DEF Refresh, kernel, Runs, GateInv, BehindGate, Returns
<1>24. CASE Assign
  BY <1>0, <1>24 DEF Assign, Goes, kernel, Runs, GateInv, BehindGate, Returns
<1>25. CASE MapModules
  BY <1>0, <1>25
     DEF MapModules, Fails, AfterMount, kernel, Runs, GateInv, BehindGate, Returns
<1>26. CASE MapNothing
  BY <1>0, <1>26 DEF MapNothing, Goes, kernel, Runs, GateInv, BehindGate, Returns
<1>27. CASE RestoreOnly
  BY <1>0, <1>27
     DEF RestoreOnly, Goes, Fails, AfterMount, Runs, GateInv, BehindGate, Returns
<1>28. CASE Install
  BY <1>0, <1>28 DEF Install, Runs, GateInv, BehindGate, Returns
<1>29. CASE HideMapped
  BY <1>0, <1>29 DEF HideMapped, Goes, Fails, Runs, GateInv, BehindGate, Returns
<1>30. CASE Commit
  BY <1>0, <1>30
     DEF Commit, Goes, Fails, AfterMount, kernel, Runs, GateInv, BehindGate, Returns
<1>31. CASE ChildDies
  BY <1>0, <1>31
     DEF ChildDies, Fails, AfterMount, kernel, Runs, GateInv, BehindGate, Returns
<1>32. CASE Configure
  BY <1>0, <1>32 DEF Configure, Goes, Fails, Runs, GateInv, BehindGate, Returns
<1>33. CASE Gate
  BY <1>0, <1>33
     DEF Gate, Goes, Deactivates, AfterRefresh, Runs, GateInv, BehindGate, Returns
<1>34. CASE Down
  BY <1>0, <1>34 DEF Down, Goes, Fails, Runs, GateInv, BehindGate, Returns
<1>35. CASE Clear
  BY <1>0, <1>35 DEF Clear, Goes, Fails, Runs, GateInv, BehindGate, Returns
<1>36. CASE Forget
  BY <1>0, <1>36 DEF Forget, Goes, kernel, Runs, GateInv, BehindGate, Returns
<1>37. CASE End
  BY <1>0, <1>37 DEF End, Ends, NoRun, kernel, Runs, GateInv, BehindGate, Returns
<1>38. CASE Unload
  BY <1>0, <1>38 DEF Unload, Reports, NoRun, Runs, GateInv, BehindGate, Returns
<1>39. CASE UnloadLegacy
  BY <1>0, <1>39 DEF UnloadLegacy, Reports, NoRun, Runs, GateInv, BehindGate, Returns
<1>40. CASE BeginClear
  BY <1>0, <1>40 DEF BeginClear, NoRun, Runs, GateInv, BehindGate, Returns
<1>41. CASE Disable
  BY <1>0, <1>41 DEF Disable, Reports, NoRun, Runs, GateInv, BehindGate, Returns
<1>42. CASE BeginPolicy
  BY <1>0, <1>42 DEF BeginPolicy, NoRun, Runs, GateInv, BehindGate, Returns
<1>43. CASE Replace
  BY <1>0, <1>43 DEF Replace, Ends, NoRun, Runs, GateInv, BehindGate, Returns
<1>44. CASE BeginHide(TRUE)
  BY <1>0, <1>44 DEF BeginHide, NoRun, kernel, Runs, GateInv, BehindGate, Returns
<1>45. CASE BeginHide(FALSE)
  BY <1>0, <1>45 DEF BeginHide, NoRun, kernel, Runs, GateInv, BehindGate, Returns
<1>46. CASE Update
  BY <1>0, <1>46, ZenonT(40) DEF Update, Ends, NoRun, Runs, GateInv, BehindGate, Returns
<1>47. CASE EditConfig
  BY <1>0, <1>47 DEF EditConfig, kernel, Runs, GateInv, BehindGate, Returns
<1>48. CASE Kill
  BY <1>0, <1>48 DEF Kill, NoRun, kernel, Runs, GateInv, BehindGate, Returns
<1>49. CASE Reboot
  BY <1>0, <1>49 DEF Reboot, NoRun, Runs, GateInv, BehindGate, Returns
<1>50. CASE UNCHANGED vars
  BY <1>50 DEF vars, kernel, GateInv, BehindGate
<1>51. QED
  BY <1>1, <1>2, <1>3, <1>4, <1>5, <1>6, <1>7, <1>8, <1>9, <1>10, <1>11, <1>12, <1>13,
     <1>14, <1>15, <1>16, <1>17, <1>18, <1>19, <1>20, <1>21, <1>22, <1>23, <1>24, <1>25,
     <1>26, <1>27, <1>28, <1>29, <1>30, <1>31, <1>32, <1>33, <1>34, <1>35, <1>36, <1>37,
     <1>38, <1>39, <1>40, <1>41, <1>42, <1>43, <1>44, <1>45, <1>46, <1>47, <1>48, <1>49,
     <1>50
     DEF Next

\* Only Install adds rules, and it finds the gate down.
LEMMA AddedStep == TypeOK /\ GateInv /\ [Next]_vars => [rules' \subseteq rules \/ ~gate]_vars
<1> SUFFICES ASSUME GateInv, [Next]_vars, ~UNCHANGED vars PROVE rules' \subseteq rules \/ ~gate
  OBVIOUS
<1>1. CASE Install
  BY <1>1 DEF Install, GateInv, BehindGate
<1>2. CASE \/ BeginLoad \/ BeginMountAll \/ Clear
         \/ Unload \/ UnloadLegacy \/ BeginClear
  BY <1>2 DEF BeginLoad, BeginMountAll, Clear, Unload, UnloadLegacy, BeginClear, kernel
<1>3. CASE \/ Reboot
  BY <1>3 DEF Reboot, kernel
<1>4. CASE \/ BeginApply \/ ConfigUnreadable \/ Config
         \/ ApplyFeatures \/ BeginHot(TRUE) \/ BeginHot(FALSE)
  BY <1>4 DEF BeginApply, ConfigUnreadable, Config, ApplyFeatures, BeginHot, kernel
<1>5. CASE \/ RollBack \/ BeginModuleApply \/ Inventory
         \/ PassEnds \/ Select \/ Plan
  BY <1>5 DEF RollBack, BeginModuleApply, Inventory, PassEnds, Select, Plan, kernel
<1>6. CASE \/ BeginUnmount \/ Repeal \/ RefreshOff
         \/ RefreshRefused \/ Refresh \/ Assign
  BY <1>6 DEF BeginUnmount, Repeal, RefreshOff, RefreshRefused, Refresh, Assign, kernel
<1>7. CASE \/ MapModules \/ MapNothing \/ Commit
         \/ ChildDies \/ Forget \/ End
  BY <1>7 DEF MapModules, MapNothing, Commit, ChildDies, Forget, End, kernel
<1>8. CASE \/ BeginHide(TRUE) \/ BeginHide(FALSE) \/ EditConfig
         \/ Kill
  BY <1>8 DEF BeginHide, EditConfig, Kill, kernel
<1>9. CASE \/ ApplyPolicy \/ ApplyHides \/ Enable
         \/ Abandon \/ RestoreOnly \/ HideMapped
  BY <1>9 DEF ApplyPolicy, ApplyHides, Enable, Abandon, RestoreOnly, HideMapped
<1>10. CASE \/ Configure \/ Gate \/ Down
         \/ Disable \/ BeginPolicy \/ Replace
  BY <1>10 DEF Configure, Gate, Down, Disable, BeginPolicy, Replace
<1>11. CASE \/ Update
  BY <1>11 DEF Update
<1>12. QED
  BY <1>1, <1>2, <1>3, <1>4, <1>5, <1>6, <1>7, <1>8, <1>9, <1>10, <1>11 DEF Next

\* Whatever commands are run and whatever fails, mapping rules are added only
\* while the gate is down: no process sees a tree of modules half put together.
THEOREM AddedBehind == Spec => AddedBehindTheGate
<1>1. Spec => [](TypeOK /\ GateInv)
  BY InitType, TypeStep, InitGate, GateStep, PTL DEF Spec
<1>2. QED
  BY <1>1, AddedStep, PTL DEF Spec, AddedBehindTheGate

-----------------------------------------------------------------------------
(* What modules hide: wherever the record calls a mapped module complete,  *)
(* it has that module's hide rules.                                        *)

\* Nothing is mapped: from a reset to the first rule.
Emptied ==
    \/ run.at = "map"
    \/ run.at \in {"forget", "assign"} /\ run.ok
    \/ run.at = "select" /\ run.ok /\ loaded /\ run.on

\* While rules are added the record knows no module of Kasumi's for certain.
Unknown ==
    \/ ~readable
    \/ run.at \in {"install", "hide"}

HideInv ==
    /\ Emptied => rules = {}
    /\ Unknown => \A m \in Modules : record[m].kind # "complete"
    /\ run.at \in {"install", "hide", "commit"} => rules \subseteq run.sel
    /\ run.at = "install" => run.todo \subseteq run.sel
    /\ \A m \in rules : record[m].kind = "complete" => record[m].hides = HiddenBy[m]

\* An update is made, or it finds no record or leaves none.
LEMMA RecordsKinds ==
    ASSUME readable \in BOOLEAN, NEW new, Records(new)
    PROVE  \/ record' = new /\ readable /\ readable'
           \/ record' = record /\ ~readable /\ ~readable'
           \/ (\A m \in Modules : record'[m].kind = "absent") /\ ~readable'
BY DEF Records, Entry

LEMMA InitHide == Init => HideInv
BY DEF Init, HideInv, Emptied, Unknown, NoRun, Entry

\* What holds of the kernel and the record does not depend on the other places.
LEMMA Elsewhere ==
    ASSUME HideInv, UNCHANGED <<loaded, rules, record, readable>>,
           run'.at \notin {"map", "forget", "assign", "select", "install", "hide", "commit"}
    PROVE  HideInv'
BY DEF HideInv, Emptied, Unknown

LEMMA HideStep == TypeOK /\ GateInv /\ HideInv /\ [Next]_vars => HideInv'
<1> SUFFICES ASSUME TypeOK, GateInv, HideInv, [Next]_vars PROVE HideInv'
  OBVIOUS
<1>0. /\ run \in Runs /\ readable \in BOOLEAN /\ loaded \in BOOLEAN
      /\ record \in [Modules -> Entries] /\ rules \subseteq Modules
  BY DEF TypeOK
<1>1. CASE BeginApply
  BY <1>0, <1>1
     DEF BeginApply, Begins, NoRun, kernel, observed, Runs, HideInv, Emptied, Unknown
<1>2. CASE BeginLoad
  <2>1. run'.at = "config" /\ rules' = {} /\ Records(Unruled("complete"))
    BY <1>2 DEF BeginLoad, Begins, NoRun
  <2>2. QED
    BY <1>0, <2>1, RecordsKinds DEF HideInv, Emptied, Unknown
<1>3. CASE ConfigUnreadable
  BY <1>0, <1>3
     DEF ConfigUnreadable, Ends, NoRun, kernel, observed, Runs, HideInv, Emptied, Unknown
<1>4. CASE Config
  BY <1>0, <1>4, ZenonT(40) DEF Config, kernel, observed, Runs, HideInv, Emptied, Unknown
<1>5. CASE ApplyPolicy
  BY <1>0, <1>5 DEF ApplyPolicy, Goes, observed, Runs, HideInv, Emptied, Unknown
<1>6. CASE ApplyHides
  BY <1>0, <1>6 DEF ApplyHides, Goes, observed, Runs, HideInv, Emptied, Unknown
<1>7. CASE ApplyFeatures
  BY <1>0, <1>7 DEF ApplyFeatures, Goes, kernel, observed, Runs, HideInv, Emptied, Unknown
<1>8. CASE Enable
  BY <1>0, <1>8 DEF Enable, Goes, observed, Runs, HideInv, Emptied, Unknown
<1>9. CASE Abandon
  BY <1>0, <1>9 DEF Abandon, Ends, NoRun, observed, Runs, HideInv, Emptied, Unknown
<1>10. CASE BeginHot(TRUE)
  BY <1>0, <1>10 DEF BeginHot, NoRun, kernel, observed, Runs, HideInv, Emptied, Unknown
<1>11. CASE BeginHot(FALSE)
  BY <1>0, <1>11 DEF BeginHot, NoRun, kernel, observed, Runs, HideInv, Emptied, Unknown
<1>12. CASE RollBack
  BY <1>0, <1>12
     DEF RollBack, Ends, NoRun, kernel, observed, Runs, HideInv, Emptied, Unknown
<1>13. CASE BeginModuleApply
  BY <1>0, <1>13
     DEF BeginModuleApply, Begins, NoRun, kernel, observed, Runs, HideInv, Emptied, Unknown
<1>14. CASE BeginMountAll
  BY <1>0, <1>14 DEF BeginMountAll, NoRun, kernel, observed, Runs, HideInv, Emptied, Unknown
<1>15. CASE Inventory
  <2>1. UNCHANGED <<loaded, rules>> /\ \A m \in Modules : record'[m].kind # "complete"
    BY <1>15 DEF Inventory, Entry, kernel
  <2>2. \/ \E back \in {"end", "select"} : Deactivates(back, TRUE)
        \/ Goes("end")
        \/ Goes("select") /\ ~(loaded /\ run.on)
    BY <1>15 DEF Inventory
  <2>3. \/ run'.at \in {"down", "end"}
        \/ run'.at = "select" /\ run'.on = run.on /\ ~(loaded /\ run.on)
    BY <1>0, <2>2 DEF Deactivates, Goes, Runs
  <2>4. QED
    BY <1>0, <2>1, <2>3 DEF HideInv, Emptied, Unknown, Runs
<1>16. CASE PassEnds
  BY <1>0, <1>16
     DEF PassEnds, Ends, NoRun, kernel, observed, Runs, HideInv, Emptied, Unknown
<1>17. CASE Select
  <2>1. PICK chosen \in SUBSET Modules :
          /\ Records([m \in Modules |-> IF m \in chosen THEN Entry("partial") ELSE record[m]])
          /\ run' = [run EXCEPT !.sel = chosen,
                                !.at = IF ~(loaded /\ run.on) THEN "end"
                                       ELSE IF run.ok THEN "map" ELSE "gate"]
    BY <1>17, ReadTypes DEF Select
  <2>2. \/ run'.at \in {"end", "gate"}
        \/ run'.at = "map" /\ run.ok /\ loaded /\ run.on
    BY <1>0, <2>1 DEF Runs
  <2>3. UNCHANGED <<loaded, rules>>
    BY <1>17 DEF Select, kernel
  <2>4. \A m \in Modules : record'[m].kind = "complete" => record'[m] = record[m] /\ readable'
    BY <1>0, <2>1, RecordsKinds DEF HideInv, Unknown, Entry
  <2>5. QED
    BY <1>17, <1>0, <2>2, <2>3, <2>4 DEF Select, HideInv, Emptied, Unknown
<1>18. CASE Plan
  <2>1. Goes("configure") \/ Fails("gate") \/ Goes("gate")
    BY <1>18 DEF Plan
  <2>2. run'.at \in {"configure", "gate"}
    BY <1>0, <2>1 DEF Goes, Fails, Runs
  <2>3. UNCHANGED <<loaded, rules, record, readable>>
    BY <1>18 DEF Plan, kernel, observed
  <2>4. QED
    BY <2>2, <2>3, Elsewhere
<1>19. CASE BeginUnmount
  BY <1>0, <1>19 DEF BeginUnmount, NoRun, kernel, observed, Runs, HideInv, Emptied, Unknown
<1>20. CASE Repeal
  BY <1>0, <1>20 DEF Repeal, Ends, NoRun, kernel, observed, Runs, HideInv, Emptied, Unknown
<1>21. CASE RefreshOff
  <2>1. \/ Deactivates(AfterRefresh, TRUE)
        \/ Goes(AfterRefresh)
    BY <1>21 DEF RefreshOff
  <2>2. run'.at \in {"down", "rollback", "end"}
    BY <1>0, <2>1 DEF Deactivates, Goes, AfterRefresh, Runs
  <2>3. UNCHANGED <<loaded, rules, record, readable>>
    BY <1>21 DEF RefreshOff, kernel, observed
  <2>4. QED
    BY <2>2, <2>3, Elsewhere
<1>22. CASE RefreshRefused
  BY <1>0, <1>22
     DEF RefreshRefused, Fails, AfterRefresh, kernel, observed, Runs, HideInv, Emptied,
         Unknown
<1>23. CASE Refresh
  BY <1>0, <1>23 DEF Refresh, kernel, observed, Runs, HideInv, Emptied, Unknown
<1>24. CASE Assign
  BY <1>0, <1>24, RecordsKinds
     DEF Assign, Goes, kernel, observed, Runs, HideInv, Emptied, Unknown
<1>25. CASE MapModules
  <2>1. \/ run' = [run EXCEPT !.at = "install", !.todo = run.sel]
        \/ Fails(AfterMount)
    BY <1>25 DEF MapModules
  <2>2. \/ run'.at = "install" /\ run'.todo = run'.sel
        \/ run'.at \in {"plan", "configure"}
    BY <1>0, <2>1 DEF Fails, AfterMount, Runs
  <2>3. rules = {} /\ UNCHANGED <<loaded, rules>>
    BY <1>25 DEF MapModules, kernel, HideInv, Emptied
  <2>4. \A m \in Modules : Unruled("partial")[m].kind # "complete"
    BY DEF Unruled, OfKasumi, Entry
  <2>5. \A m \in Modules : record'[m].kind # "complete"
    BY <1>25, <1>0, <2>4, RecordsKinds DEF MapModules, HideInv, Unknown
  <2>6. QED
    BY <2>2, <2>3, <2>5 DEF HideInv, Emptied, Unknown
<1>26. CASE MapNothing
  BY <1>0, <1>26, RecordsKinds DEF MapNothing, Goes, kernel, Runs, HideInv, Emptied, Unknown
<1>27. CASE RestoreOnly
  BY <1>0, <1>27
     DEF RestoreOnly, Goes, Fails, AfterMount, observed, Runs, HideInv, Emptied, Unknown
<1>28. CASE Install
  <2>1. PICK m \in run.todo, at \in {"hide", "install"}, ok \in BOOLEAN :
          /\ rules' \in {rules, rules \cup {m}}
          /\ run' = [run EXCEPT !.todo = run.todo \ {m}, !.ok = ok, !.at = at]
    BY <1>0, <1>28 DEF Install, Runs
  <2>2. run'.at = at /\ run'.todo = run.todo \ {m} /\ run'.sel = run.sel
    BY <1>0, <2>1 DEF Runs
  <2>3. UNCHANGED <<loaded, record, readable>>
    BY <1>28 DEF Install, observed
  <2>4. m \in Modules /\ m \in run.sel
    BY <1>28, <1>0, <2>1 DEF Install, HideInv, Runs
  <2>5. QED
    BY <1>28, <2>1, <2>2, <2>3, <2>4 DEF Install, HideInv, Emptied, Unknown
<1>29. CASE HideMapped
  BY <1>0, <1>29 DEF HideMapped, Goes, Fails, observed, Runs, HideInv, Emptied, Unknown
<1>30. CASE Commit
  <2> DEFINE new == [m \in Modules |-> IF m \in run.sel /\ OfKasumi(m)
                                       THEN [kind |-> "complete", hides |-> HiddenBy[m]]
                                       ELSE Unruled("complete")[m]]
  <2>1. Records(new) /\ UNCHANGED <<loaded, rules>>
    BY <1>30 DEF Commit, kernel
  <2>2. run'.at \in {"plan", "configure"}
    <3>1. Goes(AfterMount) \/ Fails(AfterMount)
      BY <1>30 DEF Commit
    <3>2. QED
      BY <1>0, <3>1 DEF Goes, Fails, AfterMount, Runs
  <2>3. rules \subseteq run.sel
    BY <1>30 DEF Commit, HideInv
  <2>4. \A m \in rules : new[m].kind = "complete" => new[m].hides = HiddenBy[m]
    BY <1>0, <2>3 DEF Unruled, OfKasumi
  <2>5. QED
    BY <1>0, <2>1, <2>2, <2>4, RecordsKinds DEF HideInv, Emptied, Unknown
<1>31. CASE ChildDies
  BY <1>0, <1>31
     DEF ChildDies, Fails, AfterMount, kernel, observed, Runs, HideInv, Emptied, Unknown
<1>32. CASE Configure
  BY <1>0, <1>32 DEF Configure, Goes, Fails, observed, Runs, HideInv, Emptied, Unknown
<1>33. CASE Gate
  BY <1>0, <1>33, ZenonT(40)
     DEF Gate, Goes, Deactivates, AfterRefresh, observed, Runs, HideInv, Emptied, Unknown
<1>34. CASE Down
  BY <1>0, <1>34 DEF Down, Goes, Fails, observed, Runs, HideInv, Emptied, Unknown
<1>35. CASE Clear
  BY <1>0, <1>35 DEF Clear, Goes, Fails, observed, Runs, HideInv, Emptied, Unknown
<1>36. CASE Forget
  <2>1. run.back \in Returns
    BY DEF GateInv
  <2>2. run' = [run EXCEPT !.at = run.back]
    BY <1>36 DEF Forget, Goes
  <2>3. run'.at \in Returns /\ run'.ok = run.ok /\ run'.on = run.on
    BY <1>0, <2>1, <2>2 DEF Runs
  <2>4. UNCHANGED <<loaded, rules, record, readable>>
    BY <1>36 DEF Forget, kernel, observed
  <2>5. QED
    BY <1>36, <1>0, <2>3, <2>4 DEF Forget, Returns, HideInv, Emptied, Unknown
<1>37. CASE End
  BY <1>0, <1>37 DEF End, Ends, NoRun, kernel, observed, Runs, HideInv, Emptied, Unknown
<1>38. CASE Unload
  BY <1>0, <1>38, RecordsKinds DEF Unload, Reports, NoRun, Runs, HideInv, Emptied, Unknown
<1>39. CASE UnloadLegacy
  BY <1>0, <1>39 DEF UnloadLegacy, Reports, NoRun, observed, Runs, HideInv, Emptied, Unknown
<1>40. CASE BeginClear
  BY <1>0, <1>40 DEF BeginClear, NoRun, observed, Runs, HideInv, Emptied, Unknown
<1>41. CASE Disable
  BY <1>0, <1>41 DEF Disable, Reports, NoRun, observed, Runs, HideInv, Emptied, Unknown
<1>42. CASE BeginPolicy
  BY <1>0, <1>42 DEF BeginPolicy, NoRun, observed, Runs, HideInv, Emptied, Unknown
<1>43. CASE Replace
  <2>1. run'.at = "idle" /\ UNCHANGED <<loaded, rules, record, readable>>
    BY <1>43 DEF Replace, Ends, NoRun, observed
  <2>2. QED
    BY <2>1, Elsewhere
<1>44. CASE BeginHide(TRUE)
  BY <1>0, <1>44 DEF BeginHide, NoRun, kernel, observed, Runs, HideInv, Emptied, Unknown
<1>45. CASE BeginHide(FALSE)
  BY <1>0, <1>45 DEF BeginHide, NoRun, kernel, observed, Runs, HideInv, Emptied, Unknown
<1>46. CASE Update
  <2>1. run'.at = "idle" /\ UNCHANGED <<loaded, rules, record, readable>>
    BY <1>46 DEF Update, Ends, NoRun, observed
  <2>2. QED
    BY <2>1, Elsewhere
<1>47. CASE EditConfig
  BY <1>0, <1>47 DEF EditConfig, kernel, observed, Runs, HideInv, Emptied, Unknown
<1>48. CASE Kill
  BY <1>0, <1>48 DEF Kill, NoRun, kernel, observed, Runs, HideInv, Emptied, Unknown
<1>49. CASE Reboot
  <2>1. rules' = {} /\ \A m \in Modules : record'[m].kind = "absent"
    BY <1>49 DEF Reboot, Entry
  <2>2. run'.at = "idle"
    BY <1>49 DEF Reboot, NoRun
  <2>3. QED
    BY <2>1, <2>2 DEF HideInv, Emptied, Unknown
<1>50. CASE UNCHANGED vars
  BY <1>50 DEF vars, kernel, observed, HideInv, Emptied, Unknown
<1>51. QED
  BY <1>1, <1>2, <1>3, <1>4, <1>5, <1>6, <1>7, <1>8, <1>9, <1>10, <1>11, <1>12, <1>13,
     <1>14, <1>15, <1>16, <1>17, <1>18, <1>19, <1>20, <1>21, <1>22, <1>23, <1>24, <1>25,
     <1>26, <1>27, <1>28, <1>29, <1>30, <1>31, <1>32, <1>33, <1>34, <1>35, <1>36, <1>37,
     <1>38, <1>39, <1>40, <1>41, <1>42, <1>43, <1>44, <1>45, <1>46, <1>47, <1>48, <1>49,
     <1>50
     DEF Next

\* With the record complete for every module of the plan, removing a rule of the
\* user's keeps what a mapped module hides.
LEMMA SurviveStep ==
    TypeOK /\ HideInv /\ [Next]_vars =>
        [run.at = "update" /\ boot' = boot =>
            \A m \in Replayable \cap rules : HiddenBy[m] \cap hides \subseteq hides']_vars
<1> SUFFICES ASSUME TypeOK, HideInv, [Next]_vars, run.at = "update", boot' = boot,
                    NEW m \in Replayable \cap rules
             PROVE  HiddenBy[m] \cap hides \subseteq hides'
  OBVIOUS
<1>1. CASE Update
  <2>1. CASE HidesKnown
    <3>1. record[m].hides = HiddenBy[m]
      BY <2>1 DEF HidesKnown, HideInv
    <3>2. HiddenBy[m] \subseteq RecordedHides
      BY <3>1 DEF RecordedHides
    <3>3. QED
      BY <1>1, <3>2 DEF Update
  <2>2. CASE UNCHANGED hides
    BY <2>2
  <2>3. QED
    BY <1>1, <2>1, <2>2 DEF Update
<1>2. CASE Kill
  BY <1>2 DEF Kill, kernel
<1>3. CASE Reboot
  BY <1>3 DEF Reboot, TypeOK
<1>4. CASE \/ BeginApply \/ BeginLoad \/ BeginHot(TRUE)
         \/ BeginHot(FALSE) \/ BeginModuleApply \/ BeginMountAll
         \/ BeginUnmount \/ Unload \/ UnloadLegacy
  BY <1>4
     DEF BeginApply, BeginLoad, BeginHot, BeginModuleApply, BeginMountAll, BeginUnmount,
         Unload, UnloadLegacy, Idle
<1>5. CASE \/ BeginClear \/ Disable \/ BeginPolicy
         \/ BeginHide(TRUE) \/ BeginHide(FALSE) \/ EditConfig
  BY <1>5 DEF BeginClear, Disable, BeginPolicy, BeginHide, EditConfig, Idle
<1>6. CASE \/ ConfigUnreadable \/ Config \/ ApplyPolicy
         \/ ApplyHides \/ ApplyFeatures \/ Enable
         \/ Abandon \/ RollBack \/ Inventory
  BY <1>6
     DEF ConfigUnreadable, Config, ApplyPolicy, ApplyHides, ApplyFeatures, Enable, Abandon,
         RollBack, Inventory
<1>7. CASE \/ PassEnds \/ Select \/ Plan
         \/ Repeal \/ RefreshOff \/ RefreshRefused
         \/ Refresh \/ Assign \/ MapModules
  BY <1>7
     DEF PassEnds, Select, Plan, Repeal, RefreshOff, RefreshRefused, Refresh, Assign,
         MapModules
<1>8. CASE \/ MapNothing \/ RestoreOnly \/ Install
         \/ HideMapped \/ Commit \/ ChildDies
         \/ Configure \/ Gate \/ Down
  BY <1>8
     DEF MapNothing, RestoreOnly, Install, HideMapped, Commit, ChildDies, Configure, Gate,
         Down
<1>9. CASE \/ Clear \/ Forget \/ End
         \/ Replace
  BY <1>9 DEF Clear, Forget, End, Replace
<1>10. CASE UNCHANGED vars
  BY <1>10 DEF vars, kernel
<1>11. QED
  BY <1>1, <1>2, <1>3, <1>4, <1>5, <1>6, <1>7, <1>8, <1>9, <1>10 DEF Next

\* Removing one of the user's hide rules never shows a path that a mapped module
\* of the plan hides, whatever failed before and whatever became of the record.
THEOREM HidesSurvive == Spec => ModuleHidesSurvive
<1>1. Spec => [](TypeOK /\ GateInv /\ HideInv)
  BY InitType, TypeStep, InitGate, GateStep, InitHide, HideStep, PTL DEF Spec
<1>2. QED
  BY <1>1, SurviveStep, PTL DEF Spec, ModuleHidesSurvive
-----------------------------------------------------------------------------
(* What is served and what is reported: by the place a command has reached *)
(* the rules in the kernel are those of the plan, those to be installed so *)
(* far, or none.                                                           *)

\* Groups of commands and of places.
Hot == {"hot-mount", "hot-unmount"}
Rebuilding == {"apply", "load", "module-apply"} \cup Hot
Applying == {"policy", "hides", "features", "enable", "abandon"}
Resetting == {"down", "clear", "forget"}
Mapping == {"map", "restore", "install", "hide", "commit"}

\* Which command is where, and what it has to go back to.
RouteInv ==
    /\ run.at \in Applying \cup {"config"} => run.cmd \in {"apply", "load"}
    /\ run.at = "refresh" \/ run.back = "assign" => run.cmd \in Rebuilding
    /\ run.at \in {"inventory", "select", "plan"} \/ run.back \in {"inventory", "select"} =>
          run.cmd = "mount-all"
    /\ run.at = "rollback" \/ run.back = "rollback" => run.cmd \in Hot
    /\ run.at = "end" \/ run.back = "end" =>
          run.cmd \in {"apply", "load", "module-apply", "mount-all", "clear"}
    /\ run.at = "repeal" \/ run.back = "repeal" => run.cmd = "unmount"
    /\ run.at = "update" => run.cmd \in {"hide-add", "hide-remove"}
    /\ run.at = "replace" => run.cmd = "policy"
    /\ run.at \in Mapping \cup {"configure", "gate"} => run.cmd \in Rebuilding \cup {"mount-all"}
    /\ run.on => run.cmd \in Rebuilding \cup {"mount-all"}
    /\ run.at = "assign" => run.back = "assign"
    /\ run.at \in Mapping => run.back = "assign" \/ run.cmd = "mount-all"
    /\ run.at \in Resetting => run.back # "idle"
    /\ run.cmd = "hot-unmount" /\ ~Idle => run.arg \subseteq hot
    /\ run.cmd = "hot-mount" /\ ~Idle => run.arg \cap hot = {}

\* Commands talk to a module that is there; the boot's pass comes first, and its
\* files are of no later boot.
KernelInv ==
    /\ ~loaded => ~gate /\ rules = {} /\ hides = {}
    /\ run.at \in Applying \cup Resetting \cup Mapping
                    \cup {"assign", "configure", "gate", "plan", "update", "replace"} => loaded
    /\ active <= boot /\ plan.boot <= boot
    /\ ~mounted => rules = {} /\ plan.boot < boot
    /\ run.cmd = "mount-all" /\ ~Idle => mounted
    /\ run.back = "assign" => mounted

\* What a success stands for, and what may be served when a set of modules is due.
Installed == gate /\ rules = Selected /\ userHides \subseteq hides
Serves(due) == rules = due \/ (rules = {} /\ ~IsActive)

\* What was due before the marker of a hot-unmounted module was changed.
Formerly == Replayable \cap (Modules \ (IF run.had THEN hot \cup run.arg ELSE hot \ run.arg))

\* Wherever a command may stop the rules are those that are due, or none and known
\* to be none; where it starts from nothing they are none.
RulesInv ==
    /\ Idle \/ run.at \in {"update", "replace"} => ~loaded \/ Serves(Selected)
    /\ run.at \in {"config", "refresh"} /\ run.cmd = "load" => rules = {}
    /\ run.at \in {"config", "refresh"} /\ run.cmd \in {"apply", "module-apply"} =>
          ~loaded \/ Serves(Selected)
    /\ run.at = "refresh" /\ run.cmd \in Hot => ~loaded \/ Serves(Formerly)
    /\ run.at = "end" => ~loaded \/ Serves(Selected)
    /\ run.at = "rollback" => ~loaded \/ Serves(IF run.ok THEN Selected ELSE Formerly)
    /\ run.at \in Applying => rules = Selected
    /\ run.at \in {"forget", "assign", "inventory", "select", "map", "restore", "repeal"} =>
          rules = {}
    /\ run.at \in {"inventory", "select"} => active = 0

\* The modules selected are those due, and are still due when they are installed.
ChosenInv ==
    /\ run.back = "assign" => run.sel = Selected
    /\ run.cmd = "mount-all" /\ run.at \in Mapping \cup {"plan"} => run.sel \subseteq Enumerated
    /\ run.at = "restore" => run.sel = {}
    /\ run.at = "install" => run.todo \subseteq run.sel

\* As long as nothing failed, what was to be installed so far is.
BuiltInv ==
    /\ run.at = "install" /\ run.ok => rules = run.sel \ run.todo
    /\ run.at \in {"hide", "commit", "plan"} /\ run.ok => rules = run.sel
    /\ run.at \in {"configure", "gate"} /\ run.ok => rules = Selected
    /\ run.at \in {"commit", "plan", "configure", "gate"} /\ run.ok => userHides \subseteq hides
    /\ run.at \in {"features", "enable"} => userHides \subseteq hides
    /\ run.at \in Resetting /\ run.back \in {"end", "rollback"} /\ run.ok /\ run.on =>
          run.cmd = "mount-all"
    /\ run.at \in {"end", "rollback"} /\ run.ok /\ run.on => run.cmd = "mount-all" \/ Installed

\* A command has moved on to another place, or has ended.
Moved(at, back, ok) ==
    /\ run'.at = at /\ run'.back = back /\ run'.ok = ok
    /\ run'.cmd = run.cmd /\ run'.on = run.on /\ run'.arg = run.arg /\ run'.had = run.had
    /\ run'.sel = run.sel /\ run'.todo = run.todo
Ended(ok) ==
    /\ run'.at = "idle" /\ run'.back = "idle" /\ run'.ok = ok
    /\ run'.cmd = run.cmd /\ run'.on = run.on /\ run'.arg = run.arg /\ run'.path = run.path

LEMMA Moves ==
    ASSUME run \in Runs
    PROVE  /\ \A at : Goes(at) => Moved(at, run.back, run.ok)
           /\ \A at : Fails(at) => Moved(at, run.back, FALSE)
           /\ \A back, ok : Deactivates(back, ok) => Moved("down", back, ok)
           /\ \A ok : Ends(ok) => Ended(ok)
<1>1. \A at : Goes(at) => Moved(at, run.back, run.ok)
  BY DEF Goes, Moved, Runs
<1>2. \A at : Fails(at) => Moved(at, run.back, FALSE)
  BY DEF Fails, Moved, Runs
<1>3. \A back, ok : Deactivates(back, ok) => Moved("down", back, ok)
  BY DEF Deactivates, Moved, Runs
<1>4. \A ok : Ends(ok) => Ended(ok)
  BY DEF Ends, NoRun, Ended
<1>5. QED
  BY <1>1, <1>2, <1>3, <1>4

\* Where the configuration sends a command, and one installed module.
LEMMA ConfigMoves ==
    ASSUME run \in Runs, Config
    PROVE  /\ run'.cmd = run.cmd /\ run'.arg = run.arg /\ run'.sel = run.sel
           /\ run.back = "idle" => run'.back \in {"idle", "end"}
           /\ \/ run'.at = "down" /\ run'.back = "end" /\ ~run'.on /\ loaded
              \/ run'.at = "end" /\ run'.back = "end" /\ ~run'.on /\ ~loaded
              \/ run'.at = "end" /\ run'.back = run.back /\ ~run'.ok /\ ~loaded
              \/ run'.at = "refresh" /\ run'.back = run.back /\ loaded
              \/ /\ run'.at = "policy" /\ run'.back = run.back /\ loaded
                 /\ Replayable = {} \/ (run.cmd # "load" /\ IsActive)
<1>1. PICK on \in BOOLEAN : on = (run.on \/ conf = "on")
  BY DEF Runs
<1> DEFINE next == [run EXCEPT !.on = on]
           lost == run.cmd = "load" \/ ~IsActive
<1>2. /\ next \in Runs
      /\ next.cmd = run.cmd /\ next.arg = run.arg /\ next.sel = run.sel /\ next.back = run.back
      /\ next.on = on
  BY DEF Runs
<1>3. \/ ~on /\ run' = [next EXCEPT !.at = IF loaded THEN "down" ELSE "end", !.back = "end"]
      \/ on /\ ~loaded /\ run' = [next EXCEPT !.at = "end", !.ok = FALSE]
      \/ /\ on /\ loaded
         /\ run' = [next EXCEPT !.at = IF Replayable # {} /\ lost THEN "refresh" ELSE "policy"]
  BY <1>1 DEF Config
<1>4. lost \in BOOLEAN
  OBVIOUS
<1> HIDE DEF next
<1>5. CASE ~on /\ run' = [next EXCEPT !.at = IF loaded THEN "down" ELSE "end", !.back = "end"]
  BY <1>2, <1>5 DEF Runs
<1>6. CASE on /\ ~loaded /\ run' = [next EXCEPT !.at = "end", !.ok = FALSE]
  BY <1>2, <1>6 DEF Runs
<1>7. CASE /\ on /\ loaded
           /\ run' = [next EXCEPT !.at = IF Replayable # {} /\ lost THEN "refresh" ELSE "policy"]
  <2>1. CASE Replayable # {} /\ lost
    BY <1>2, <1>7, <2>1 DEF Runs
  <2>2. CASE ~(Replayable # {} /\ lost)
    BY <1>2, <1>7, <2>2 DEF Runs
  <2>3. QED
    BY <2>1, <2>2
<1>8. QED
  BY <1>3, <1>5, <1>6, <1>7

LEMMA InstallMoves ==
    ASSUME run \in Runs, Install
    PROVE  /\ run'.cmd = run.cmd /\ run'.arg = run.arg /\ run'.sel = run.sel
           /\ run'.on = run.on /\ run'.back = run.back
           /\ \E m \in run.todo :
                 /\ run'.todo = run.todo \ {m}
                 /\ \/ rules' = rules \cup {m} /\ run'.ok = run.ok
                    \/ rules' = rules /\ ~run'.ok
                 /\ run'.at \in {"hide", "install"}
                 /\ run'.at = "hide" => run'.todo = {}
<1>1. PICK m \in run.todo :
        \/ /\ rules' = rules \cup {m}
           /\ run' = [run EXCEPT !.todo = run.todo \ {m}, !.ok = run.ok,
                                 !.at = IF run.todo = {m} THEN "hide" ELSE "install"]
        \/ /\ rules' = rules
           /\ run' = [run EXCEPT !.todo = run.todo \ {m}, !.ok = FALSE,
                                 !.at = IF run.todo = {m} THEN "hide" ELSE "install"]
  BY Zenon DEF Install
<1>2. /\ run'.cmd = run.cmd /\ run'.arg = run.arg /\ run'.sel = run.sel
      /\ run'.on = run.on /\ run'.back = run.back
      /\ run'.todo = run.todo \ {m}
      /\ \/ rules' = rules \cup {m} /\ run'.ok = run.ok
         \/ rules' = rules /\ ~run'.ok
      /\ run'.at = IF run.todo = {m} THEN "hide" ELSE "install"
  BY <1>1 DEF Runs
<1>3. QED
  BY <1>2

LEMMA InitRoute == Init => RouteInv
BY DEF Init, NoRun, RouteInv, Idle, Hot, Rebuilding, Applying, Resetting, Mapping

\* A command goes only to the places of its kind, and comes back from a reset to
\* where it left.
LEMMA RouteStep == ~Fault("markers") /\ TypeOK /\ GateInv /\ RouteInv /\ [Next]_vars => RouteInv'
<1> SUFFICES ASSUME ~Fault("markers"), TypeOK, GateInv, RouteInv, [Next]_vars PROVE RouteInv'
  OBVIOUS
<1>0. run \in Runs
  BY DEF TypeOK
<1>1. CASE BeginApply
  BY <1>0, <1>1
     DEF BeginApply, Begins, NoRun, kernel, files, settings, observed, Runs, Returns,
         GateInv, Idle, RouteInv, Hot, Rebuilding, Applying, Resetting, Mapping
<1>2. CASE BeginLoad
  BY <1>0, <1>2
     DEF BeginLoad, Begins, NoRun, files, settings, Runs, Returns, GateInv, Idle, RouteInv,
         Hot, Rebuilding, Applying, Resetting, Mapping
<1>3. CASE ConfigUnreadable
  BY <1>0, <1>3
     DEF ConfigUnreadable, Ends, NoRun, kernel, files, settings, observed, Runs, Returns,
         GateInv, Idle, RouteInv, Hot, Rebuilding, Applying, Resetting, Mapping
<1>4. CASE Config
  <2>1. UNCHANGED hot /\ run.cmd \in {"apply", "load"} /\ run.at = "config"
    BY <1>4 DEF Config, settings, RouteInv, Applying
  <2>2. QED
    BY <1>0, <1>4, <2>1, ConfigMoves
       DEF Idle, RouteInv, Hot, Rebuilding, Applying, Resetting, Mapping
<1>5. CASE ApplyPolicy
  BY <1>0, <1>5
     DEF ApplyPolicy, Goes, files, settings, observed, Runs, Returns, GateInv, Idle,
         RouteInv, Hot, Rebuilding, Applying, Resetting, Mapping
<1>6. CASE ApplyHides
  BY <1>0, <1>6
     DEF ApplyHides, Goes, RestoresAll, RestoreFails, files, settings, observed, Runs,
         Returns, GateInv, Idle, RouteInv, Hot, Rebuilding, Applying, Resetting, Mapping
<1>7. CASE ApplyFeatures
  BY <1>0, <1>7
     DEF ApplyFeatures, Goes, kernel, files, settings, observed, Runs, Returns, GateInv,
         Idle, RouteInv, Hot, Rebuilding, Applying, Resetting, Mapping
<1>8. CASE Enable
  BY <1>0, <1>8
     DEF Enable, Goes, files, settings, observed, Runs, Returns, GateInv, Idle, RouteInv,
         Hot, Rebuilding, Applying, Resetting, Mapping
<1>9. CASE Abandon
  BY <1>0, <1>9
     DEF Abandon, Ends, NoRun, files, settings, observed, Runs, Returns, GateInv, Idle,
         RouteInv, Hot, Rebuilding, Applying, Resetting, Mapping
<1>10. CASE BeginHot(TRUE)
  BY <1>0, <1>10
     DEF BeginHot, Marked, NoRun, kernel, files, observed, Runs, Returns, GateInv, Idle,
         RouteInv, Hot, Rebuilding, Applying, Resetting, Mapping
<1>11. CASE BeginHot(FALSE)
  BY <1>0, <1>11
     DEF BeginHot, NoRun, kernel, files, observed, Runs, Returns, GateInv, Idle, RouteInv,
         Hot, Rebuilding, Applying, Resetting, Mapping
<1>12. CASE RollBack
  BY <1>0, <1>12
     DEF RollBack, Marked, Ends, NoRun, kernel, files, observed, Runs, Returns, GateInv,
         Idle, RouteInv, Hot, Rebuilding, Applying, Resetting, Mapping
<1>13. CASE BeginModuleApply
  BY <1>0, <1>13
     DEF BeginModuleApply, Begins, NoRun, kernel, files, settings, observed, Runs, Returns,
         GateInv, Idle, RouteInv, Hot, Rebuilding, Applying, Resetting, Mapping
<1>14. CASE BeginMountAll
  BY <1>0, <1>14
     DEF BeginMountAll, NoRun, kernel, settings, observed, Runs, Returns, GateInv, Idle,
         RouteInv, Hot, Rebuilding, Applying, Resetting, Mapping
<1>15. CASE Inventory
  <2>1. \/ Moved("down", "end", TRUE)
        \/ Moved("down", "select", TRUE)
        \/ Moved("end", run.back, run.ok)
        \/ Moved("select", run.back, run.ok)
    BY <1>0, <1>15, Moves DEF Inventory
  <2>2. UNCHANGED hot
    BY <1>15 DEF Inventory, settings
  <2>3. QED
    BY <1>0, <1>15, <2>1, <2>2
       DEF Inventory, Returns, GateInv, Moved, Idle, RouteInv, Hot, Rebuilding, Applying,
           Resetting, Mapping
<1>16. CASE PassEnds
  BY <1>0, <1>16
     DEF PassEnds, Ends, NoRun, kernel, files, settings, observed, Runs, Returns, GateInv,
         Idle, RouteInv, Hot, Rebuilding, Applying, Resetting, Mapping
<1>17. CASE Select
  BY <1>0, <1>17
     DEF Select, kernel, files, settings, Runs, Returns, GateInv, Idle, RouteInv, Hot,
         Rebuilding, Applying, Resetting, Mapping
<1>18. CASE Plan
  <2>1. \/ Moved("configure", run.back, run.ok)
        \/ Moved("gate", run.back, FALSE)
        \/ Moved("gate", run.back, run.ok)
    BY <1>0, <1>18, Moves DEF Plan
  <2>2. UNCHANGED hot
    BY <1>18 DEF Plan, settings
  <2>3. QED
    BY <1>0, <1>18, <2>1, <2>2
       DEF Plan, Returns, GateInv, Moved, Idle, RouteInv, Hot, Rebuilding, Applying,
           Resetting, Mapping
<1>19. CASE BeginUnmount
  BY <1>0, <1>19
     DEF BeginUnmount, NoRun, kernel, files, settings, observed, Runs, Returns, GateInv,
         Idle, RouteInv, Hot, Rebuilding, Applying, Resetting, Mapping
<1>20. CASE Repeal
  BY <1>0, <1>20
     DEF Repeal, Ends, NoRun, kernel, settings, observed, Runs, Returns, GateInv, Idle,
         RouteInv, Hot, Rebuilding, Applying, Resetting, Mapping
<1>21. CASE RefreshOff
  <2>1. \/ Moved("down", AfterRefresh, TRUE)
        \/ Moved(AfterRefresh, run.back, run.ok)
    BY <1>0, <1>21, Moves DEF RefreshOff
  <2>2. UNCHANGED hot
    BY <1>21 DEF RefreshOff, settings
  <2>3. QED
    BY <1>0, <1>21, <2>1, <2>2
       DEF RefreshOff, Returns, GateInv, Moved, AfterRefresh, Idle, RouteInv, Hot, Rebuilding, Applying,
           Resetting, Mapping
<1>22. CASE RefreshRefused
  BY <1>0, <1>22
     DEF RefreshRefused, Fails, AfterRefresh, kernel, files, settings, observed, Runs,
         Returns, GateInv, Idle, RouteInv, Hot, Rebuilding, Applying, Resetting, Mapping
<1>23. CASE Refresh
  BY <1>0, <1>23
     DEF Refresh, kernel, files, settings, observed, Runs, Returns, GateInv, Idle, RouteInv,
         Hot, Rebuilding, Applying, Resetting, Mapping
<1>24. CASE Assign
  BY <1>0, <1>24
     DEF Assign, Goes, kernel, files, settings, Runs, Returns, GateInv, Idle, RouteInv, Hot,
         Rebuilding, Applying, Resetting, Mapping
<1>25. CASE MapModules
  <2>1. \/ Moved(AfterMount, run.back, FALSE)
        \/ /\ run'.at = "install" /\ run'.back = run.back
           /\ run'.cmd = run.cmd /\ run'.on = run.on /\ run'.arg = run.arg
    BY <1>0, <1>25, Moves DEF MapModules, Runs
  <2>2. UNCHANGED hot
    BY <1>25 DEF MapModules, settings
  <2>3. QED
    BY <1>25, <2>1, <2>2
       DEF MapModules, AfterMount, Moved, Idle, RouteInv, Hot, Rebuilding, Applying,
           Resetting, Mapping
<1>26. CASE MapNothing
  BY <1>0, <1>26
     DEF MapNothing, Goes, kernel, files, settings, Runs, Returns, GateInv, Idle, RouteInv,
         Hot, Rebuilding, Applying, Resetting, Mapping
<1>27. CASE RestoreOnly
  <2>1. \/ Moved(AfterMount, run.back, run.ok)
        \/ Moved(AfterMount, run.back, FALSE)
    BY <1>0, <1>27, Moves DEF RestoreOnly
  <2>2. UNCHANGED hot
    BY <1>27 DEF RestoreOnly, settings
  <2>3. QED
    BY <1>0, <1>27, <2>1, <2>2
       DEF RestoreOnly, Returns, GateInv, Moved, AfterMount, Idle, RouteInv, Hot, Rebuilding, Applying,
           Resetting, Mapping
<1>28. CASE Install
  <2>1. UNCHANGED hot /\ run.at = "install"
    BY <1>28 DEF Install, settings
  <2>2. QED
    BY <1>0, <1>28, <2>1, InstallMoves
       DEF Idle, RouteInv, Hot, Rebuilding, Applying, Resetting, Mapping
<1>29. CASE HideMapped
  <2>1. \/ Moved("commit", run.back, run.ok)
        \/ Moved("commit", run.back, FALSE)
    BY <1>0, <1>29, Moves DEF HideMapped
  <2>2. UNCHANGED hot
    BY <1>29 DEF HideMapped, settings
  <2>3. QED
    BY <1>0, <1>29, <2>1, <2>2
       DEF HideMapped, Returns, GateInv, Moved, Idle, RouteInv, Hot, Rebuilding, Applying,
           Resetting, Mapping
<1>30. CASE Commit
  BY <1>0, <1>30, ZenonT(40)
     DEF Commit, Goes, Fails, AfterMount, kernel, settings, Runs, Returns, GateInv, Idle,
         RouteInv, Hot, Rebuilding, Applying, Resetting, Mapping
<1>31. CASE ChildDies
  BY <1>0, <1>31
     DEF ChildDies, Fails, AfterMount, kernel, files, settings, observed, Runs, Returns,
         GateInv, Idle, RouteInv, Hot, Rebuilding, Applying, Resetting, Mapping
<1>32. CASE Configure
  <2>1. \/ Moved("gate", run.back, run.ok)
        \/ Moved("gate", run.back, FALSE)
    BY <1>0, <1>32, Moves DEF Configure
  <2>2. UNCHANGED hot
    BY <1>32 DEF Configure, settings
  <2>3. QED
    BY <1>0, <1>32, <2>1, <2>2
       DEF Configure, Returns, GateInv, Moved, Idle, RouteInv, Hot, Rebuilding, Applying,
           Resetting, Mapping
<1>33. CASE Gate
  <2>1. \/ Moved(AfterRefresh, run.back, run.ok)
        \/ Moved("down", AfterRefresh, FALSE)
    BY <1>0, <1>33, Moves DEF Gate
  <2>2. UNCHANGED hot
    BY <1>33 DEF Gate, settings
  <2>3. QED
    BY <1>0, <1>33, <2>1, <2>2
       DEF Gate, Returns, GateInv, Moved, AfterRefresh, Idle, RouteInv, Hot, Rebuilding, Applying,
           Resetting, Mapping
<1>34. CASE Down
  <2>1. \/ Moved("clear", run.back, run.ok)
        \/ Moved("clear", run.back, FALSE)
    BY <1>0, <1>34, Moves DEF Down
  <2>2. UNCHANGED hot
    BY <1>34 DEF Down, settings
  <2>3. QED
    BY <1>0, <1>34, <2>1, <2>2
       DEF Down, Returns, GateInv, Moved, Idle, RouteInv, Hot, Rebuilding, Applying,
           Resetting, Mapping
<1>35. CASE Clear
  <2>1. \/ Moved("forget", run.back, run.ok)
        \/ Moved("forget", run.back, FALSE)
    BY <1>0, <1>35, Moves DEF Clear
  <2>2. UNCHANGED hot
    BY <1>35 DEF Clear, settings
  <2>3. QED
    BY <1>0, <1>35, <2>1, <2>2
       DEF Clear, Returns, GateInv, Moved, Idle, RouteInv, Hot, Rebuilding, Applying,
           Resetting, Mapping
<1>36. CASE Forget
  BY <1>0, <1>36
     DEF Forget, Goes, kernel, settings, observed, Runs, Returns, GateInv, Idle, RouteInv,
         Hot, Rebuilding, Applying, Resetting, Mapping
<1>37. CASE End
  BY <1>0, <1>37
     DEF End, Ends, NoRun, kernel, files, settings, observed, Runs, Returns, GateInv, Idle,
         RouteInv, Hot, Rebuilding, Applying, Resetting, Mapping
<1>38. CASE Unload
  BY <1>0, <1>38
     DEF Unload, Reports, NoRun, files, settings, Runs, Returns, GateInv, Idle, RouteInv,
         Hot, Rebuilding, Applying, Resetting, Mapping
<1>39. CASE UnloadLegacy
  BY <1>0, <1>39
     DEF UnloadLegacy, Reports, NoRun, files, settings, observed, Runs, Returns, GateInv,
         Idle, RouteInv, Hot, Rebuilding, Applying, Resetting, Mapping
<1>40. CASE BeginClear
  BY <1>0, <1>40
     DEF BeginClear, NoRun, files, settings, observed, Runs, Returns, GateInv, Idle,
         RouteInv, Hot, Rebuilding, Applying, Resetting, Mapping
<1>41. CASE Disable
  BY <1>0, <1>41
     DEF Disable, Reports, NoRun, files, settings, observed, Runs, Returns, GateInv, Idle,
         RouteInv, Hot, Rebuilding, Applying, Resetting, Mapping
<1>42. CASE BeginPolicy
  BY <1>0, <1>42
     DEF BeginPolicy, NoRun, files, settings, observed, Runs, Returns, GateInv, Idle,
         RouteInv, Hot, Rebuilding, Applying, Resetting, Mapping
<1>43. CASE Replace
  <2>1. \/ Ended(TRUE)
        \/ Ended(FALSE)
    BY <1>0, <1>43, Moves DEF Replace
  <2>2. UNCHANGED hot
    BY <1>43 DEF Replace, settings
  <2>3. QED
    BY <1>0, <1>43, <2>1, <2>2
       DEF Replace, Returns, Ended, Idle, RouteInv, Hot, Rebuilding, Applying,
           Resetting, Mapping
<1>44. CASE BeginHide(TRUE)
  BY <1>0, <1>44
     DEF BeginHide, NoRun, kernel, files, observed, Runs, Returns, GateInv, Idle, RouteInv,
         Hot, Rebuilding, Applying, Resetting, Mapping
<1>45. CASE BeginHide(FALSE)
  BY <1>0, <1>45
     DEF BeginHide, NoRun, kernel, files, observed, Runs, Returns, GateInv, Idle, RouteInv,
         Hot, Rebuilding, Applying, Resetting, Mapping
<1>46. CASE Update
  <2>1. \/ Ended(TRUE)
        \/ Ended(FALSE)
    BY <1>0, <1>46, Moves DEF Update
  <2>2. UNCHANGED hot
    BY <1>46 DEF Update, settings
  <2>3. QED
    BY <1>0, <1>46, <2>1, <2>2
       DEF Update, Returns, Ended, Idle, RouteInv, Hot, Rebuilding, Applying,
           Resetting, Mapping
<1>47. CASE EditConfig
  BY <1>0, <1>47
     DEF EditConfig, kernel, files, observed, Runs, Returns, GateInv, Idle, RouteInv, Hot,
         Rebuilding, Applying, Resetting, Mapping
<1>48. CASE Kill
  BY <1>0, <1>48
     DEF Kill, NoRun, kernel, files, settings, observed, Runs, Returns, GateInv, Idle,
         RouteInv, Hot, Rebuilding, Applying, Resetting, Mapping
<1>49. CASE Reboot
  BY <1>0, <1>49
     DEF Reboot, NoRun, files, settings, Runs, Returns, GateInv, Idle, RouteInv, Hot,
         Rebuilding, Applying, Resetting, Mapping
<1>50. CASE UNCHANGED vars
  BY <1>0, <1>50
     DEF vars, kernel, files, settings, observed, Runs, Returns, GateInv, Idle, RouteInv,
         Hot, Rebuilding, Applying, Resetting, Mapping
<1>51. QED
  BY <1>1, <1>2, <1>3, <1>4, <1>5, <1>6, <1>7, <1>8, <1>9, <1>10, <1>11, <1>12, <1>13,
     <1>14, <1>15, <1>16, <1>17, <1>18, <1>19, <1>20, <1>21, <1>22, <1>23, <1>24, <1>25,
     <1>26, <1>27, <1>28, <1>29, <1>30, <1>31, <1>32, <1>33, <1>34, <1>35, <1>36, <1>37,
     <1>38, <1>39, <1>40, <1>41, <1>42, <1>43, <1>44, <1>45, <1>46, <1>47, <1>48, <1>49,
     <1>50
     DEF Next

LEMMA InitKernel == Init => KernelInv
BY DEF Init, NoRun, NoPlan, KernelInv, Idle, Applying, Resetting, Mapping

\* No step works on a module that is not there, nor before the pass of the boot.
LEMMA KernelStep ==
    TypeOK /\ GateInv /\ RouteInv /\ KernelInv /\ [Next]_vars => KernelInv'
<1> SUFFICES ASSUME TypeOK, GateInv, RouteInv, KernelInv, [Next]_vars PROVE KernelInv'
  OBVIOUS
<1>0. /\ run \in Runs /\ boot \in Nat /\ active \in Nat /\ plan.boot \in Nat
      /\ loaded \in BOOLEAN /\ gate \in BOOLEAN /\ mounted \in BOOLEAN
  BY Boots DEF TypeOK
<1>1. CASE BeginApply
  BY <1>0, <1>1
     DEF BeginApply, Begins, NoRun, kernel, files, settings, observed, Runs, Returns,
         GateInv, Replayable, NoPlan, RouteInv, Idle, KernelInv, Applying, Resetting,
         Mapping
<1>2. CASE BeginLoad
  BY <1>0, <1>2
     DEF BeginLoad, Begins, NoRun, files, settings, Runs, Returns, GateInv, Replayable,
         NoPlan, RouteInv, Idle, KernelInv, Applying, Resetting, Mapping
<1>3. CASE ConfigUnreadable
  BY <1>0, <1>3
     DEF ConfigUnreadable, Ends, NoRun, kernel, files, settings, observed, Runs, Returns,
         GateInv, Replayable, NoPlan, RouteInv, Idle, KernelInv, Applying, Resetting,
         Mapping
<1>4. CASE Config
  BY <1>0, <1>4, ConfigMoves
     DEF Config, RouteInv, kernel, files, Idle, KernelInv, Applying, Resetting, Mapping
<1>5. CASE ApplyPolicy
  BY <1>0, <1>5
     DEF ApplyPolicy, Goes, files, settings, observed, Runs, Returns, GateInv, Replayable,
         NoPlan, RouteInv, Idle, KernelInv, Applying, Resetting, Mapping
<1>6. CASE ApplyHides
  BY <1>0, <1>6
     DEF ApplyHides, Goes, RestoresAll, RestoreFails, files, settings, observed, Runs,
         Returns, GateInv, Replayable, NoPlan, RouteInv, Idle, KernelInv, Applying,
         Resetting, Mapping
<1>7. CASE ApplyFeatures
  BY <1>0, <1>7
     DEF ApplyFeatures, Goes, kernel, files, settings, observed, Runs, Returns, GateInv,
         Replayable, NoPlan, RouteInv, Idle, KernelInv, Applying, Resetting, Mapping
<1>8. CASE Enable
  BY <1>0, <1>8
     DEF Enable, Goes, files, settings, observed, Runs, Returns, GateInv, Replayable,
         NoPlan, RouteInv, Idle, KernelInv, Applying, Resetting, Mapping
<1>9. CASE Abandon
  BY <1>0, <1>9
     DEF Abandon, Ends, NoRun, files, settings, observed, Runs, Returns, GateInv,
         Replayable, NoPlan, RouteInv, Idle, KernelInv, Applying, Resetting, Mapping
<1>10. CASE BeginHot(TRUE)
  BY <1>0, <1>10
     DEF BeginHot, Marked, NoRun, kernel, files, observed, Runs, Returns, GateInv,
         Replayable, NoPlan, RouteInv, Idle, KernelInv, Applying, Resetting, Mapping
<1>11. CASE BeginHot(FALSE)
  BY <1>0, <1>11
     DEF BeginHot, NoRun, kernel, files, observed, Runs, Returns, GateInv, Replayable,
         NoPlan, RouteInv, Idle, KernelInv, Applying, Resetting, Mapping
<1>12. CASE RollBack
  BY <1>0, <1>12
     DEF RollBack, Marked, Ends, NoRun, kernel, files, observed, Runs, Returns, GateInv,
         Replayable, NoPlan, RouteInv, Idle, KernelInv, Applying, Resetting, Mapping
<1>13. CASE BeginModuleApply
  BY <1>0, <1>13
     DEF BeginModuleApply, Begins, NoRun, kernel, files, settings, observed, Runs, Returns,
         GateInv, Replayable, NoPlan, RouteInv, Idle, KernelInv, Applying, Resetting,
         Mapping
<1>14. CASE BeginMountAll
  BY <1>0, <1>14
     DEF BeginMountAll, NoRun, kernel, settings, observed, Runs, Returns, GateInv,
         Replayable, NoPlan, RouteInv, Idle, KernelInv, Applying, Resetting, Mapping
<1>15. CASE Inventory
  <2>1. \/ Moved("down", "end", TRUE) /\ loaded
        \/ Moved("down", "select", TRUE) /\ loaded
        \/ Moved("end", run.back, run.ok)
        \/ Moved("select", run.back, run.ok)
    BY <1>0, <1>15, Moves DEF Inventory
  <2>2. mounted
    BY <1>15 DEF Inventory, RouteInv, KernelInv, Idle
  <2>3. QED
    BY <1>0, <1>15, <2>1, <2>2
       DEF Inventory, Moved, kernel, files, Idle, KernelInv, Applying, Resetting, Mapping
<1>16. CASE PassEnds
  BY <1>0, <1>16
     DEF PassEnds, Ends, NoRun, kernel, files, settings, observed, Runs, Returns, GateInv,
         Replayable, NoPlan, RouteInv, Idle, KernelInv, Applying, Resetting, Mapping
<1>17. CASE Select
  BY <1>0, <1>17
     DEF Select, kernel, files, settings, Runs, Returns, GateInv, Replayable, NoPlan,
         RouteInv, Idle, KernelInv, Applying, Resetting, Mapping
<1>18. CASE Plan
  <2>1. \/ Moved("configure", run.back, run.ok)
        \/ Moved("gate", run.back, FALSE)
        \/ Moved("gate", run.back, run.ok)
    BY <1>0, <1>18, Moves DEF Plan
  <2>2. QED
    BY <1>0, <1>18, <2>1
       DEF Plan, kernel, settings, observed, Moved, NoPlan, RouteInv, Idle, KernelInv,
           Applying, Resetting, Mapping
<1>19. CASE BeginUnmount
  BY <1>0, <1>19
     DEF BeginUnmount, NoRun, kernel, files, settings, observed, Runs, Returns, GateInv,
         Replayable, NoPlan, RouteInv, Idle, KernelInv, Applying, Resetting, Mapping
<1>20. CASE Repeal
  BY <1>0, <1>20
     DEF Repeal, Ends, NoRun, kernel, settings, observed, Runs, Returns, GateInv,
         Replayable, NoPlan, RouteInv, Idle, KernelInv, Applying, Resetting, Mapping
<1>21. CASE RefreshOff
  <2>1. \/ Moved("down", AfterRefresh, TRUE) /\ loaded
        \/ Moved(AfterRefresh, run.back, run.ok)
    BY <1>0, <1>21, Moves DEF RefreshOff
  <2>2. QED
    BY <1>0, <1>21, <2>1
       DEF RefreshOff, Moved, AfterRefresh, kernel, files, Idle, KernelInv, Applying,
           Resetting, Mapping
<1>22. CASE RefreshRefused
  BY <1>0, <1>22
     DEF RefreshRefused, Fails, AfterRefresh, kernel, files, settings, observed, Runs,
         Returns, GateInv, Replayable, NoPlan, RouteInv, Idle, KernelInv, Applying,
         Resetting, Mapping
<1>23. CASE Refresh
  BY <1>0, <1>23
     DEF Refresh, kernel, files, settings, observed, Runs, Returns, GateInv, Replayable,
         NoPlan, RouteInv, Idle, KernelInv, Applying, Resetting, Mapping
<1>24. CASE Assign
  BY <1>0, <1>24
     DEF Assign, Goes, kernel, files, settings, Runs, Returns, GateInv, Replayable, NoPlan,
         RouteInv, Idle, KernelInv, Applying, Resetting, Mapping
<1>25. CASE MapModules
  <2>1. \/ Moved(AfterMount, run.back, FALSE)
        \/ run'.at = "install" /\ run'.back = run.back /\ run'.cmd = run.cmd
    BY <1>0, <1>25, Moves DEF MapModules, Runs
  <2>2. QED
    BY <1>25, <2>1
       DEF MapModules, AfterMount, Moved, kernel, files, Idle, KernelInv, Applying,
           Resetting, Mapping
<1>26. CASE MapNothing
  BY <1>0, <1>26
     DEF MapNothing, Goes, kernel, files, settings, Runs, Returns, GateInv, Replayable,
         NoPlan, RouteInv, Idle, KernelInv, Applying, Resetting, Mapping
<1>27. CASE RestoreOnly
  <2>1. \/ Moved(AfterMount, run.back, run.ok)
        \/ Moved(AfterMount, run.back, FALSE)
    BY <1>0, <1>27, Moves DEF RestoreOnly
  <2>2. QED
    BY <1>0, <1>27, <2>1
       DEF RestoreOnly, settings, observed, Moved, AfterMount, RestoresAll, RestoreFails,
           Idle, KernelInv, Applying, Resetting, Mapping
<1>28. CASE Install
  <2>1. mounted /\ loaded
    BY <1>28 DEF Install, RouteInv, KernelInv, Mapping, Idle
  <2>2. QED
    BY <1>0, <1>28, <2>1, InstallMoves
       DEF Install, files, Idle, KernelInv, Applying, Resetting, Mapping
<1>29. CASE HideMapped
  <2>1. \/ Moved("commit", run.back, run.ok)
        \/ Moved("commit", run.back, FALSE)
    BY <1>0, <1>29, Moves DEF HideMapped
  <2>2. QED
    BY <1>0, <1>29, <2>1
       DEF HideMapped, files, settings, observed, Moved, Idle, KernelInv, Applying,
           Resetting, Mapping
<1>30. CASE Commit
  BY <1>0, <1>30
     DEF Commit, Goes, Fails, AfterMount, kernel, settings, Runs, Returns, GateInv,
         Replayable, NoPlan, RouteInv, Idle, KernelInv, Applying, Resetting, Mapping
<1>31. CASE ChildDies
  BY <1>0, <1>31
     DEF ChildDies, Fails, AfterMount, kernel, files, settings, observed, Runs, Returns,
         GateInv, Replayable, NoPlan, RouteInv, Idle, KernelInv, Applying, Resetting,
         Mapping
<1>32. CASE Configure
  <2>1. \/ Moved("gate", run.back, run.ok)
        \/ Moved("gate", run.back, FALSE)
    BY <1>0, <1>32, Moves DEF Configure
  <2>2. QED
    BY <1>0, <1>32, <2>1
       DEF Configure, files, settings, observed, Moved, Idle, KernelInv, Applying,
           Resetting, Mapping
<1>33. CASE Gate
  <2>1. \/ Moved(AfterRefresh, run.back, run.ok)
        \/ Moved("down", AfterRefresh, FALSE)
    BY <1>0, <1>33, Moves DEF Gate
  <2>2. QED
    BY <1>0, <1>33, <2>1
       DEF Gate, files, settings, observed, Moved, AfterRefresh, Idle, KernelInv, Applying,
           Resetting, Mapping
<1>34. CASE Down
  <2>1. \/ Moved("clear", run.back, run.ok)
        \/ Moved("clear", run.back, FALSE)
    BY <1>0, <1>34, Moves DEF Down
  <2>2. QED
    BY <1>0, <1>34, <2>1
       DEF Down, files, settings, observed, Moved, Idle, KernelInv, Applying, Resetting,
           Mapping
<1>35. CASE Clear
  <2>1. \/ Moved("forget", run.back, run.ok)
        \/ Moved("forget", run.back, FALSE)
    BY <1>0, <1>35, Moves DEF Clear
  <2>2. QED
    BY <1>0, <1>35, <2>1
       DEF Clear, files, settings, observed, Moved, Idle, KernelInv, Applying, Resetting,
           Mapping
<1>36. CASE Forget
  BY <1>0, <1>36
     DEF Forget, Goes, kernel, settings, observed, Runs, Returns, GateInv, Replayable,
         NoPlan, RouteInv, Idle, KernelInv, Applying, Resetting, Mapping
<1>37. CASE End
  BY <1>0, <1>37
     DEF End, Ends, NoRun, kernel, files, settings, observed, Runs, Returns, GateInv,
         Replayable, NoPlan, RouteInv, Idle, KernelInv, Applying, Resetting, Mapping
<1>38. CASE Unload
  BY <1>0, <1>38
     DEF Unload, Reports, NoRun, files, settings, Runs, Returns, GateInv, Replayable,
         NoPlan, RouteInv, Idle, KernelInv, Applying, Resetting, Mapping
<1>39. CASE UnloadLegacy
  BY <1>0, <1>39
     DEF UnloadLegacy, Reports, NoRun, files, settings, observed, Runs, Returns, GateInv,
         Replayable, NoPlan, RouteInv, Idle, KernelInv, Applying, Resetting, Mapping
<1>40. CASE BeginClear
  BY <1>0, <1>40
     DEF BeginClear, NoRun, files, settings, observed, Runs, Returns, GateInv, Replayable,
         NoPlan, RouteInv, Idle, KernelInv, Applying, Resetting, Mapping
<1>41. CASE Disable
  BY <1>0, <1>41
     DEF Disable, Reports, NoRun, files, settings, observed, Runs, Returns, GateInv,
         Replayable, NoPlan, RouteInv, Idle, KernelInv, Applying, Resetting, Mapping
<1>42. CASE BeginPolicy
  BY <1>0, <1>42
     DEF BeginPolicy, NoRun, files, settings, observed, Runs, Returns, GateInv, Replayable,
         NoPlan, RouteInv, Idle, KernelInv, Applying, Resetting, Mapping
<1>43. CASE Replace
  <2>1. \/ Ended(TRUE)
        \/ Ended(FALSE)
    BY <1>0, <1>43, Moves DEF Replace
  <2>2. QED
    BY <1>0, <1>43, <2>1
       DEF Replace, files, settings, observed, Ended, Idle, KernelInv, Applying, Resetting,
           Mapping
<1>44. CASE BeginHide(TRUE)
  BY <1>0, <1>44
     DEF BeginHide, NoRun, kernel, files, observed, Runs, Returns, GateInv, Replayable,
         NoPlan, RouteInv, Idle, KernelInv, Applying, Resetting, Mapping
<1>45. CASE BeginHide(FALSE)
  BY <1>0, <1>45
     DEF BeginHide, NoRun, kernel, files, observed, Runs, Returns, GateInv, Replayable,
         NoPlan, RouteInv, Idle, KernelInv, Applying, Resetting, Mapping
<1>46. CASE Update
  <2>1. \/ Ended(TRUE)
        \/ Ended(FALSE)
    BY <1>0, <1>46, Moves DEF Update
  <2>2. QED
    BY <1>0, <1>46, <2>1
       DEF Update, files, settings, observed, Ended, Idle, KernelInv, Applying, Resetting,
           Mapping
<1>47. CASE EditConfig
  BY <1>0, <1>47
     DEF EditConfig, kernel, files, observed, Runs, Returns, GateInv, Replayable, NoPlan,
         RouteInv, Idle, KernelInv, Applying, Resetting, Mapping
<1>48. CASE Kill
  BY <1>0, <1>48
     DEF Kill, NoRun, kernel, files, settings, observed, Runs, Returns, GateInv, Replayable,
         NoPlan, RouteInv, Idle, KernelInv, Applying, Resetting, Mapping
<1>49. CASE Reboot
  BY <1>0, <1>49
     DEF Reboot, NoRun, files, settings, Runs, Returns, GateInv, Replayable, NoPlan,
         RouteInv, Idle, KernelInv, Applying, Resetting, Mapping
<1>50. CASE UNCHANGED vars
  BY <1>0, <1>50
     DEF vars, kernel, files, settings, observed, Runs, Returns, GateInv, Replayable,
         NoPlan, RouteInv, Idle, KernelInv, Applying, Resetting, Mapping
<1>51. QED
  BY <1>1, <1>2, <1>3, <1>4, <1>5, <1>6, <1>7, <1>8, <1>9, <1>10, <1>11, <1>12, <1>13,
     <1>14, <1>15, <1>16, <1>17, <1>18, <1>19, <1>20, <1>21, <1>22, <1>23, <1>24, <1>25,
     <1>26, <1>27, <1>28, <1>29, <1>30, <1>31, <1>32, <1>33, <1>34, <1>35, <1>36, <1>37,
     <1>38, <1>39, <1>40, <1>41, <1>42, <1>43, <1>44, <1>45, <1>46, <1>47, <1>48, <1>49,
     <1>50
     DEF Next

LEMMA InitChosen == Init => ChosenInv
BY DEF Init, NoRun, ChosenInv, Mapping

\* The plan and hot_unmounted stay as they are while modules are installed.
LEMMA ChosenStep ==
    TypeOK /\ GateInv /\ RouteInv /\ KernelInv /\ ChosenInv /\ [Next]_vars => ChosenInv'
<1> SUFFICES ASSUME TypeOK, GateInv, RouteInv, KernelInv, ChosenInv, [Next]_vars
             PROVE  ChosenInv'
  OBVIOUS
<1>0. run \in Runs /\ boot \in Nat
  BY Boots DEF TypeOK
<1>1. CASE BeginApply
  BY <1>0, <1>1
     DEF BeginApply, Begins, NoRun, kernel, files, settings, observed, Runs, Returns,
         GateInv, RouteInv, Hot, Rebuilding, Idle, ChosenInv, Mapping, Selected, Replayable,
         Enumerated
<1>2. CASE BeginLoad
  BY <1>0, <1>2
     DEF BeginLoad, Begins, NoRun, files, settings, Runs, Returns, GateInv, RouteInv, Hot,
         Rebuilding, Idle, ChosenInv, Mapping, Selected, Replayable, Enumerated
<1>3. CASE ConfigUnreadable
  BY <1>0, <1>3
     DEF ConfigUnreadable, Ends, NoRun, kernel, files, settings, observed, Runs, Returns,
         GateInv, RouteInv, Hot, Rebuilding, Idle, ChosenInv, Mapping, Selected, Replayable,
         Enumerated
<1>4. CASE Config
  <2>1. UNCHANGED <<boot, plan, hot>> /\ run.cmd # "mount-all"
    BY <1>4 DEF Config, files, settings, RouteInv
  <2>2. QED
    BY <1>0, <1>4, <2>1, ConfigMoves
       DEF Config, Idle, ChosenInv, Mapping, Selected, Replayable, Enumerated
<1>5. CASE ApplyPolicy
  BY <1>0, <1>5
     DEF ApplyPolicy, Goes, files, settings, observed, Runs, Returns, GateInv, RouteInv,
         Hot, Rebuilding, Idle, ChosenInv, Mapping, Selected, Replayable, Enumerated
<1>6. CASE ApplyHides
  BY <1>0, <1>6
     DEF ApplyHides, Goes, RestoresAll, RestoreFails, files, settings, observed, Runs,
         Returns, GateInv, RouteInv, Hot, Rebuilding, Idle, ChosenInv, Mapping, Selected,
         Replayable, Enumerated
<1>7. CASE ApplyFeatures
  BY <1>0, <1>7
     DEF ApplyFeatures, Goes, kernel, files, settings, observed, Runs, Returns, GateInv,
         RouteInv, Hot, Rebuilding, Idle, ChosenInv, Mapping, Selected, Replayable,
         Enumerated
<1>8. CASE Enable
  BY <1>0, <1>8
     DEF Enable, Goes, files, settings, observed, Runs, Returns, GateInv, RouteInv, Hot,
         Rebuilding, Idle, ChosenInv, Mapping, Selected, Replayable, Enumerated
<1>9. CASE Abandon
  BY <1>0, <1>9
     DEF Abandon, Ends, NoRun, files, settings, observed, Runs, Returns, GateInv, RouteInv,
         Hot, Rebuilding, Idle, ChosenInv, Mapping, Selected, Replayable, Enumerated
<1>10. CASE BeginHot(TRUE)
  BY <1>0, <1>10
     DEF BeginHot, Marked, NoRun, kernel, files, observed, Runs, Returns, GateInv, RouteInv,
         Hot, Rebuilding, Idle, ChosenInv, Mapping, Selected, Replayable, Enumerated
<1>11. CASE BeginHot(FALSE)
  BY <1>0, <1>11
     DEF BeginHot, NoRun, kernel, files, observed, Runs, Returns, GateInv, RouteInv, Hot,
         Rebuilding, Idle, ChosenInv, Mapping, Selected, Replayable, Enumerated
<1>12. CASE RollBack
  BY <1>0, <1>12
     DEF RollBack, Marked, Ends, NoRun, kernel, files, observed, Runs, Returns, GateInv,
         RouteInv, Hot, Rebuilding, Idle, ChosenInv, Mapping, Selected, Replayable,
         Enumerated
<1>13. CASE BeginModuleApply
  BY <1>0, <1>13
     DEF BeginModuleApply, Begins, NoRun, kernel, files, settings, observed, Runs, Returns,
         GateInv, RouteInv, Hot, Rebuilding, Idle, ChosenInv, Mapping, Selected, Replayable,
         Enumerated
<1>14. CASE BeginMountAll
  BY <1>0, <1>14
     DEF BeginMountAll, NoRun, kernel, settings, observed, Runs, Returns, GateInv, RouteInv,
         Hot, Rebuilding, Idle, ChosenInv, Mapping, Selected, Replayable, Enumerated
<1>15. CASE Inventory
  <2>1. \/ Moved("down", "end", TRUE)
        \/ Moved("down", "select", TRUE)
        \/ Moved("end", run.back, run.ok)
        \/ Moved("select", run.back, run.ok)
    BY <1>0, <1>15, Moves DEF Inventory
  <2>2. UNCHANGED <<boot, plan, hot>>
    BY <1>15 DEF Inventory, files, settings
  <2>3. QED
    BY <1>15, <2>1, <2>2
       DEF Inventory, Moved, Idle, ChosenInv, Mapping, Selected, Replayable, Enumerated
<1>16. CASE PassEnds
  BY <1>0, <1>16
     DEF PassEnds, Ends, NoRun, kernel, files, settings, observed, Runs, Returns, GateInv,
         RouteInv, Hot, Rebuilding, Idle, ChosenInv, Mapping, Selected, Replayable,
         Enumerated
<1>17. CASE Select
  BY <1>0, <1>17
     DEF Select, kernel, files, settings, Runs, Returns, GateInv, RouteInv, Hot, Rebuilding,
         Idle, ChosenInv, Mapping, Selected, Replayable, Enumerated
<1>18. CASE Plan
  <2>1. \/ Moved("configure", run.back, run.ok)
        \/ Moved("gate", run.back, FALSE)
        \/ Moved("gate", run.back, run.ok)
    BY <1>0, <1>18, Moves DEF Plan
  <2>2. run.back # "assign"
    BY <1>18 DEF Plan, RouteInv, Rebuilding, Hot
  <2>3. QED
    BY <2>1, <2>2 DEF Moved, ChosenInv, Mapping
<1>19. CASE BeginUnmount
  BY <1>0, <1>19
     DEF BeginUnmount, NoRun, kernel, files, settings, observed, Runs, Returns, GateInv,
         RouteInv, Hot, Rebuilding, Idle, ChosenInv, Mapping, Selected, Replayable,
         Enumerated
<1>20. CASE Repeal
  BY <1>0, <1>20
     DEF Repeal, Ends, NoRun, kernel, settings, observed, Runs, Returns, GateInv, RouteInv,
         Hot, Rebuilding, Idle, ChosenInv, Mapping, Selected, Replayable, Enumerated
<1>21. CASE RefreshOff
  <2>1. \/ Moved("down", AfterRefresh, TRUE)
        \/ Moved(AfterRefresh, run.back, run.ok)
    BY <1>0, <1>21, Moves DEF RefreshOff
  <2>2. UNCHANGED <<boot, plan, hot>>
    BY <1>21 DEF RefreshOff, files, settings
  <2>3. QED
    BY <1>0, <1>21, <2>1, <2>2
       DEF RefreshOff, Moved, AfterRefresh, Idle, ChosenInv, Mapping, Selected, Replayable,
           Enumerated
<1>22. CASE RefreshRefused
  BY <1>0, <1>22
     DEF RefreshRefused, Fails, AfterRefresh, kernel, files, settings, observed, Runs,
         Returns, GateInv, RouteInv, Hot, Rebuilding, Idle, ChosenInv, Mapping, Selected,
         Replayable, Enumerated
<1>23. CASE Refresh
  BY <1>0, <1>23
     DEF Refresh, kernel, files, settings, observed, Runs, Returns, GateInv, RouteInv, Hot,
         Rebuilding, Idle, ChosenInv, Mapping, Selected, Replayable, Enumerated
<1>24. CASE Assign
  BY <1>0, <1>24
     DEF Assign, Goes, kernel, files, settings, Runs, Returns, GateInv, RouteInv, Hot,
         Rebuilding, Idle, ChosenInv, Mapping, Selected, Replayable, Enumerated
<1>25. CASE MapModules
  <2>1. \/ Moved(AfterMount, run.back, FALSE)
        \/ /\ run'.at = "install" /\ run'.back = run.back /\ run'.cmd = run.cmd
           /\ run'.sel = run.sel /\ run'.todo = run.sel
    BY <1>0, <1>25, Moves DEF MapModules, Runs
  <2>2. UNCHANGED <<boot, plan, hot>>
    BY <1>25 DEF MapModules, files, settings
  <2>3. QED
    BY <1>25, <2>1, <2>2
       DEF MapModules, AfterMount, Moved, Idle, ChosenInv, Mapping, Selected, Replayable,
           Enumerated
<1>26. CASE MapNothing
  BY <1>0, <1>26
     DEF MapNothing, Goes, kernel, files, settings, Runs, Returns, GateInv, RouteInv, Hot,
         Rebuilding, Idle, ChosenInv, Mapping, Selected, Replayable, Enumerated
<1>27. CASE RestoreOnly
  <2>1. \/ Moved(AfterMount, run.back, run.ok)
        \/ Moved(AfterMount, run.back, FALSE)
    BY <1>0, <1>27, Moves DEF RestoreOnly
  <2>2. UNCHANGED <<boot, plan, hot>>
    BY <1>27 DEF RestoreOnly, settings
  <2>3. QED
    BY <1>0, <1>27, <2>1, <2>2
       DEF RestoreOnly, Moved, AfterMount, Idle, ChosenInv, Mapping, Selected, Replayable,
           Enumerated
<1>28. CASE Install
  <2>1. UNCHANGED <<boot, plan, hot>>
    BY <1>28 DEF Install, files, settings
  <2>2. QED
    BY <1>0, <1>28, <2>1, InstallMoves
       DEF Install, Idle, ChosenInv, Mapping, Selected, Replayable, Enumerated
<1>29. CASE HideMapped
  <2>1. \/ Moved("commit", run.back, run.ok)
        \/ Moved("commit", run.back, FALSE)
    BY <1>0, <1>29, Moves DEF HideMapped
  <2>2. UNCHANGED <<boot, plan, hot>>
    BY <1>29 DEF HideMapped, files, settings
  <2>3. QED
    BY <1>0, <1>29, <2>1, <2>2
       DEF HideMapped, Moved, Idle, ChosenInv, Mapping, Selected, Replayable, Enumerated
<1>30. CASE Commit
  BY <1>0, <1>30
     DEF Commit, Goes, Fails, AfterMount, kernel, settings, Runs, Returns, GateInv,
         RouteInv, Hot, Rebuilding, Idle, ChosenInv, Mapping, Selected, Replayable,
         Enumerated
<1>31. CASE ChildDies
  BY <1>0, <1>31
     DEF ChildDies, Fails, AfterMount, kernel, files, settings, observed, Runs, Returns,
         GateInv, RouteInv, Hot, Rebuilding, Idle, ChosenInv, Mapping, Selected, Replayable,
         Enumerated
<1>32. CASE Configure
  <2>1. \/ Moved("gate", run.back, run.ok)
        \/ Moved("gate", run.back, FALSE)
    BY <1>0, <1>32, Moves DEF Configure
  <2>2. UNCHANGED <<boot, plan, hot>>
    BY <1>32 DEF Configure, files, settings
  <2>3. QED
    BY <1>0, <1>32, <2>1, <2>2
       DEF Configure, Moved, Idle, ChosenInv, Mapping, Selected, Replayable, Enumerated
<1>33. CASE Gate
  <2>1. \/ Moved(AfterRefresh, run.back, run.ok)
        \/ Moved("down", AfterRefresh, FALSE)
    BY <1>0, <1>33, Moves DEF Gate
  <2>2. UNCHANGED <<boot, plan, hot>>
    BY <1>33 DEF Gate, files, settings
  <2>3. QED
    BY <1>0, <1>33, <2>1, <2>2
       DEF Gate, Moved, AfterRefresh, Idle, ChosenInv, Mapping, Selected, Replayable,
           Enumerated
<1>34. CASE Down
  <2>1. \/ Moved("clear", run.back, run.ok)
        \/ Moved("clear", run.back, FALSE)
    BY <1>0, <1>34, Moves DEF Down
  <2>2. UNCHANGED <<boot, plan, hot>>
    BY <1>34 DEF Down, files, settings
  <2>3. QED
    BY <1>0, <1>34, <2>1, <2>2
       DEF Down, Moved, Idle, ChosenInv, Mapping, Selected, Replayable, Enumerated
<1>35. CASE Clear
  <2>1. \/ Moved("forget", run.back, run.ok)
        \/ Moved("forget", run.back, FALSE)
    BY <1>0, <1>35, Moves DEF Clear
  <2>2. UNCHANGED <<boot, plan, hot>>
    BY <1>35 DEF Clear, files, settings
  <2>3. QED
    BY <1>0, <1>35, <2>1, <2>2
       DEF Clear, Moved, Idle, ChosenInv, Mapping, Selected, Replayable, Enumerated
<1>36. CASE Forget
  BY <1>0, <1>36
     DEF Forget, Goes, kernel, settings, observed, Runs, Returns, GateInv, RouteInv, Hot,
         Rebuilding, Idle, ChosenInv, Mapping, Selected, Replayable, Enumerated
<1>37. CASE End
  BY <1>0, <1>37
     DEF End, Ends, NoRun, kernel, files, settings, observed, Runs, Returns, GateInv,
         RouteInv, Hot, Rebuilding, Idle, ChosenInv, Mapping, Selected, Replayable,
         Enumerated
<1>38. CASE Unload
  BY <1>0, <1>38
     DEF Unload, Reports, NoRun, files, settings, Runs, Returns, GateInv, RouteInv, Hot,
         Rebuilding, Idle, ChosenInv, Mapping, Selected, Replayable, Enumerated
<1>39. CASE UnloadLegacy
  BY <1>0, <1>39
     DEF UnloadLegacy, Reports, NoRun, files, settings, observed, Runs, Returns, GateInv,
         RouteInv, Hot, Rebuilding, Idle, ChosenInv, Mapping, Selected, Replayable,
         Enumerated
<1>40. CASE BeginClear
  BY <1>0, <1>40
     DEF BeginClear, NoRun, files, settings, observed, Runs, Returns, GateInv, RouteInv,
         Hot, Rebuilding, Idle, ChosenInv, Mapping, Selected, Replayable, Enumerated
<1>41. CASE Disable
  BY <1>0, <1>41
     DEF Disable, Reports, NoRun, files, settings, observed, Runs, Returns, GateInv,
         RouteInv, Hot, Rebuilding, Idle, ChosenInv, Mapping, Selected, Replayable,
         Enumerated
<1>42. CASE BeginPolicy
  BY <1>0, <1>42
     DEF BeginPolicy, NoRun, files, settings, observed, Runs, Returns, GateInv, RouteInv,
         Hot, Rebuilding, Idle, ChosenInv, Mapping, Selected, Replayable, Enumerated
<1>43. CASE Replace
  <2>1. Ended(TRUE) \/ Ended(FALSE)
    BY <1>0, <1>43, Moves DEF Replace
  <2>2. QED
    BY <2>1 DEF Ended, ChosenInv, Mapping
<1>44. CASE BeginHide(TRUE)
  BY <1>0, <1>44
     DEF BeginHide, NoRun, kernel, files, observed, Runs, Returns, GateInv, RouteInv, Hot,
         Rebuilding, Idle, ChosenInv, Mapping, Selected, Replayable, Enumerated
<1>45. CASE BeginHide(FALSE)
  BY <1>0, <1>45
     DEF BeginHide, NoRun, kernel, files, observed, Runs, Returns, GateInv, RouteInv, Hot,
         Rebuilding, Idle, ChosenInv, Mapping, Selected, Replayable, Enumerated
<1>46. CASE Update
  <2>1. Ended(TRUE) \/ Ended(FALSE)
    BY <1>0, <1>46, Moves DEF Update
  <2>2. QED
    BY <2>1 DEF Ended, ChosenInv, Mapping
<1>47. CASE EditConfig
  BY <1>0, <1>47
     DEF EditConfig, kernel, files, observed, Runs, Returns, GateInv, RouteInv, Hot,
         Rebuilding, Idle, ChosenInv, Mapping, Selected, Replayable, Enumerated
<1>48. CASE Kill
  BY <1>0, <1>48
     DEF Kill, NoRun, kernel, files, settings, observed, Runs, Returns, GateInv, RouteInv,
         Hot, Rebuilding, Idle, ChosenInv, Mapping, Selected, Replayable, Enumerated
<1>49. CASE Reboot
  BY <1>0, <1>49
     DEF Reboot, NoRun, files, settings, Runs, Returns, GateInv, RouteInv, Hot, Rebuilding,
         Idle, ChosenInv, Mapping, Selected, Replayable, Enumerated
<1>50. CASE UNCHANGED vars
  BY <1>0, <1>50
     DEF vars, kernel, files, settings, observed, Runs, Returns, GateInv, RouteInv, Hot,
         Rebuilding, Idle, ChosenInv, Mapping, Selected, Replayable, Enumerated
<1>51. QED
  BY <1>1, <1>2, <1>3, <1>4, <1>5, <1>6, <1>7, <1>8, <1>9, <1>10, <1>11, <1>12, <1>13,
     <1>14, <1>15, <1>16, <1>17, <1>18, <1>19, <1>20, <1>21, <1>22, <1>23, <1>24, <1>25,
     <1>26, <1>27, <1>28, <1>29, <1>30, <1>31, <1>32, <1>33, <1>34, <1>35, <1>36, <1>37,
     <1>38, <1>39, <1>40, <1>41, <1>42, <1>43, <1>44, <1>45, <1>46, <1>47, <1>48, <1>49,
     <1>50
     DEF Next

LEMMA InitRules == Init => RulesInv
BY DEF Init, NoRun, RulesInv, Idle, Applying

\* A step leaves what is due in the kernel, or nothing, unless it damages the boot.
LEMMA RulesStep ==
    /\ ~Fault("markers")
    /\ TypeOK /\ GateInv /\ RouteInv /\ KernelInv /\ ChosenInv
    /\ ~damaged => RulesInv /\ BuiltInv
    /\ [Next]_vars
    => (~damaged' => RulesInv')
<1> SUFFICES ASSUME ~Fault("markers"), TypeOK, GateInv, RouteInv, KernelInv, ChosenInv,
                    ~damaged => RulesInv /\ BuiltInv, ~damaged', [Next]_vars
             PROVE  RulesInv'
  OBVIOUS
<1>0. /\ run \in Runs /\ boot \in Nat \ {0} /\ active \in Nat /\ plan.boot \in Nat
      /\ loaded \in BOOLEAN /\ damaged \in BOOLEAN
  BY Boots DEF TypeOK
<1>1. CASE BeginApply
  BY <1>0, <1>1
     DEF BeginApply, Begins, NoRun, kernel, files, settings, observed, Runs, Returns,
         GateInv, RouteInv, KernelInv, NoPlan, Stale, Idle, RulesInv, Serves, Formerly,
         IsActive, Hot, Applying, Selected, Replayable, Enumerated
<1>2. CASE BeginLoad
  BY <1>0, <1>2
     DEF BeginLoad, Begins, NoRun, files, settings, Runs, Returns, GateInv, RouteInv,
         KernelInv, NoPlan, Stale, Idle, RulesInv, Serves, Formerly, IsActive, Hot,
         Applying, Selected, Replayable, Enumerated
<1>3. CASE ConfigUnreadable
  BY <1>0, <1>3
     DEF ConfigUnreadable, Ends, NoRun, kernel, files, settings, observed, Runs, Returns,
         GateInv, RouteInv, KernelInv, NoPlan, Stale, Idle, RulesInv, Serves, Formerly,
         IsActive, Hot, Applying, Selected, Replayable, Enumerated
<1>4. CASE Config
  <2>1. /\ UNCHANGED <<boot, plan, hot, active, rules, loaded, damaged>>
        /\ run.at = "config" /\ run.cmd \in {"apply", "load"}
    BY <1>4 DEF Config, kernel, files, settings, RouteInv
  <2>2. /\ run.cmd = "load" => rules = {}
        /\ run.cmd = "apply" => ~loaded \/ Serves(Selected)
    BY <2>1 DEF RulesInv
  <2>3. ~loaded \/ Serves(Selected) \/ run.cmd = "load"
    BY <2>1, <2>2
  <2>4. Serves(Selected)' <=> Serves(Selected)
    BY <2>1 DEF Serves, Selected, Replayable, Enumerated, IsActive
  <2>5. CASE run'.at = "policy"
    <3>1. loaded /\ (Replayable = {} \/ (run.cmd # "load" /\ IsActive))
      BY <1>0, <1>4, <2>5, ConfigMoves
    <3>2. rules = Selected
      BY <2>1, <2>2, <3>1 DEF Serves, Selected
    <3>3. rules' = Selected'
      BY <2>1, <3>2 DEF Selected, Replayable, Enumerated
    <3>4. QED
      BY <2>5, <3>3 DEF RulesInv, Idle
  <2>6. CASE run'.at \in {"end", "refresh", "down"}
    <3>1. run'.cmd = run.cmd /\ (run'.at = "end" => ~loaded)
      BY <1>0, <1>4, <2>6, ConfigMoves
    <3>2. QED
      BY <2>1, <2>2, <2>4, <2>6, <3>1 DEF RulesInv, Idle, Applying, Hot
  <2>7. QED
    BY <1>0, <1>4, <2>5, <2>6, ConfigMoves
<1>5. CASE ApplyPolicy
  BY <1>0, <1>5
     DEF ApplyPolicy, Goes, files, settings, observed, Runs, Returns, GateInv, RouteInv,
         KernelInv, NoPlan, Stale, Idle, RulesInv, Serves, Formerly, IsActive, Hot,
         Applying, Selected, Replayable, Enumerated
<1>6. CASE ApplyHides
  <2>1. \/ Moved("features", run.back, run.ok)
        \/ Moved("abandon", run.back, run.ok)
    BY <1>0, <1>6, Moves DEF ApplyHides
  <2>2. UNCHANGED <<boot, plan, hot, active, rules, loaded, damaged>>
    BY <1>6 DEF ApplyHides, files, settings
  <2>3. QED
    BY <1>0, <1>6, <2>1, <2>2
       DEF ApplyHides, Moved, Idle, RulesInv, Serves, Formerly, IsActive, Hot, Applying,
           Selected, Replayable, Enumerated
<1>7. CASE ApplyFeatures
  BY <1>0, <1>7
     DEF ApplyFeatures, Goes, kernel, files, settings, observed, Runs, Returns, GateInv,
         RouteInv, KernelInv, NoPlan, Stale, Idle, RulesInv, Serves, Formerly, IsActive,
         Hot, Applying, Selected, Replayable, Enumerated
<1>8. CASE Enable
  BY <1>0, <1>8
     DEF Enable, Goes, files, settings, observed, Runs, Returns, GateInv, RouteInv,
         KernelInv, NoPlan, Stale, Idle, RulesInv, Serves, Formerly, IsActive, Hot,
         Applying, Selected, Replayable, Enumerated
<1>9. CASE Abandon
  BY <1>0, <1>9
     DEF Abandon, Ends, NoRun, files, settings, observed, Runs, Returns, GateInv, RouteInv,
         KernelInv, NoPlan, Stale, Idle, RulesInv, Serves, Formerly, IsActive, Hot,
         Applying, Selected, Replayable, Enumerated
<1>10. CASE BeginHot(TRUE)
  <2>1. PICK m \in Replayable :
          /\ run'.at = "refresh" /\ run'.back = "idle" /\ run'.cmd = "hot-unmount"
          /\ run'.arg = {m} /\ run'.had = (m \in hot)
          /\ hot' = hot \cup {m}
    BY <1>10 DEF BeginHot, Marked, NoRun
  <2>2. /\ UNCHANGED <<boot, plan, active, rules, loaded, damaged>>
        /\ ~loaded \/ Serves(Selected)
    BY <1>10 DEF BeginHot, kernel, files, Idle, RulesInv
  <2>3. hot = IF run'.had THEN hot' \cup run'.arg ELSE hot' \ run'.arg
    BY <2>1
  <2>4. Formerly' = Selected
    BY <2>2, <2>3 DEF Formerly, Selected, Replayable, Enumerated
  <2>5. Serves(Selected) => Serves(Formerly)'
    BY <2>2, <2>4 DEF Serves, IsActive
  <2>6. QED
    BY <2>1, <2>2, <2>5 DEF RulesInv, Idle, Applying, Hot
<1>11. CASE BeginHot(FALSE)
  <2>1. PICK m \in Replayable :
          /\ run'.at = "refresh" /\ run'.back = "idle" /\ run'.cmd = "hot-mount"
          /\ run'.arg = {m} /\ run'.had = (m \in hot)
          /\ hot' = hot \ {m}
    BY <1>11 DEF BeginHot, Marked, NoRun
  <2>2. /\ UNCHANGED <<boot, plan, active, rules, loaded, damaged>>
        /\ ~loaded \/ Serves(Selected)
    BY <1>11 DEF BeginHot, kernel, files, Idle, RulesInv
  <2>3. hot = IF run'.had THEN hot' \cup run'.arg ELSE hot' \ run'.arg
    BY <2>1
  <2>4. Formerly' = Selected
    BY <2>2, <2>3 DEF Formerly, Selected, Replayable, Enumerated
  <2>5. Serves(Selected) => Serves(Formerly)'
    BY <2>2, <2>4 DEF Serves, IsActive
  <2>6. QED
    BY <2>1, <2>2, <2>5 DEF RulesInv, Idle, Applying, Hot
<1>12. CASE RollBack
  <2>1. Ended(run.ok)
    BY <1>0, <1>12, Moves DEF RollBack
  <2>2. UNCHANGED <<boot, plan, active, rules, loaded, damaged>>
    BY <1>12 DEF RollBack, kernel, files
  <2>3. ~loaded \/ Serves(IF run.ok THEN Selected ELSE Formerly)
    BY <1>12, <2>2 DEF RollBack, RulesInv
  <2>4. ~run.ok => hot' = IF run.had THEN hot \cup run.arg ELSE hot \ run.arg
    BY <1>0, <1>12 DEF RollBack, Marked, RouteInv, Idle, Hot
  <2>5. run.ok => hot' = hot
    BY <1>12 DEF RollBack
  <2>6. ~loaded \/ Serves(Selected)'
    BY <2>2, <2>3, <2>4, <2>5 DEF Serves, Selected, Formerly, Enumerated, Replayable, IsActive
  <2>7. QED
    BY <2>1, <2>2, <2>6 DEF Ended, RulesInv, Idle, Applying
<1>13. CASE BeginModuleApply
  BY <1>0, <1>13
     DEF BeginModuleApply, Begins, NoRun, kernel, files, settings, observed, Runs, Returns,
         GateInv, RouteInv, KernelInv, NoPlan, Stale, Idle, RulesInv, Serves, Formerly,
         IsActive, Hot, Applying, Selected, Replayable, Enumerated
<1>14. CASE BeginMountAll
  BY <1>0, <1>14
     DEF BeginMountAll, NoRun, kernel, settings, observed, Runs, Returns, GateInv, RouteInv,
         KernelInv, NoPlan, Stale, Idle, RulesInv, Serves, Formerly, IsActive, Hot,
         Applying, Selected, Replayable, Enumerated
<1>15. CASE Inventory
  <2>1. \/ Moved("down", "end", TRUE)
        \/ Moved("down", "select", TRUE)
        \/ Moved("end", run.back, run.ok)
        \/ Moved("select", run.back, run.ok)
    BY <1>0, <1>15, Moves DEF Inventory
  <2>2. UNCHANGED <<boot, plan, hot, active, rules, loaded, damaged>>
    BY <1>15 DEF Inventory, kernel, files, settings
  <2>3. QED
    BY <1>0, <1>15, <2>1, <2>2
       DEF Inventory, Moved, Idle, RulesInv, Serves, Formerly, IsActive, Hot, Applying,
           Selected, Replayable, Enumerated
<1>16. CASE PassEnds
  BY <1>0, <1>16
     DEF PassEnds, Ends, NoRun, kernel, files, settings, observed, Runs, Returns, GateInv,
         RouteInv, KernelInv, NoPlan, Stale, Idle, RulesInv, Serves, Formerly, IsActive,
         Hot, Applying, Selected, Replayable, Enumerated
<1>17. CASE Select
  BY <1>0, <1>17
     DEF Select, kernel, files, settings, Runs, Returns, GateInv, RouteInv, KernelInv,
         NoPlan, Stale, Idle, RulesInv, Serves, Formerly, IsActive, Hot, Applying, Selected,
         Replayable, Enumerated
<1>18. CASE Plan
  <2>1. \/ Moved("configure", run.back, run.ok)
        \/ Moved("gate", run.back, FALSE)
        \/ Moved("gate", run.back, run.ok)
    BY <1>0, <1>18, Moves DEF Plan
  <2>2. QED
    BY <2>1 DEF Moved, RulesInv, Idle, Applying
<1>19. CASE BeginUnmount
  BY <1>0, <1>19
     DEF BeginUnmount, NoRun, kernel, files, settings, observed, Runs, Returns, GateInv,
         RouteInv, KernelInv, NoPlan, Stale, Idle, RulesInv, Serves, Formerly, IsActive,
         Hot, Applying, Selected, Replayable, Enumerated
<1>20. CASE Repeal
  BY <1>0, <1>20
     DEF Repeal, Ends, NoRun, kernel, settings, observed, Runs, Returns, GateInv, RouteInv,
         KernelInv, NoPlan, Stale, Idle, RulesInv, Serves, Formerly, IsActive, Hot,
         Applying, Selected, Replayable, Enumerated
<1>21. CASE RefreshOff
  <2>1. \/ Moved("down", AfterRefresh, TRUE)
        \/ Moved(AfterRefresh, run.back, run.ok) /\ ~loaded
    BY <1>0, <1>21, Moves DEF RefreshOff
  <2>2. UNCHANGED loaded
    BY <1>21 DEF RefreshOff, kernel
  <2>3. QED
    BY <2>1, <2>2 DEF AfterRefresh, Moved, RulesInv, Idle, Applying
<1>22. CASE RefreshRefused
  <2>1. Moved(AfterRefresh, run.back, FALSE)
    BY <1>0, <1>22, Moves DEF RefreshRefused
  <2>2. /\ UNCHANGED <<boot, plan, hot, active, rules, loaded>>
        /\ run.at = "refresh" /\ run.cmd \in Rebuilding /\ ~Stale /\ ~damaged
    BY <1>0, <1>22 DEF RefreshRefused, kernel, files, settings, RouteInv
  <2>3. /\ run.cmd \notin Hot => ~loaded \/ Serves(Selected)
        /\ run.cmd \in Hot => ~loaded \/ Serves(Formerly)
    BY <2>2 DEF RulesInv, Stale, Serves, Rebuilding
  <2>4. /\ Serves(Selected)' <=> Serves(Selected)
        /\ Serves(Formerly)' <=> Serves(Formerly)
    BY <2>1, <2>2
       DEF Moved, Serves, Selected, Formerly, Replayable, Enumerated, IsActive
  <2>5. QED
    BY <2>1, <2>2, <2>3, <2>4 DEF AfterRefresh, Moved, RulesInv, Idle, Applying, Hot
<1>23. CASE Refresh
  BY <1>0, <1>23
     DEF Refresh, kernel, files, settings, observed, Runs, Returns, GateInv, RouteInv,
         KernelInv, NoPlan, Stale, Idle, RulesInv, Serves, Formerly, IsActive, Hot,
         Applying, Selected, Replayable, Enumerated
<1>24. CASE Assign
  BY <1>0, <1>24
     DEF Assign, Goes, kernel, files, settings, Runs, Returns, GateInv, RouteInv, KernelInv,
         NoPlan, Stale, Idle, RulesInv, Serves, Formerly, IsActive, Hot, Applying, Selected,
         Replayable, Enumerated
<1>25. CASE MapModules
  <2>1. \/ Moved(AfterMount, run.back, FALSE)
        \/ run'.at = "install"
    BY <1>0, <1>25, Moves DEF MapModules, Runs
  <2>2. QED
    BY <2>1 DEF AfterMount, Moved, RulesInv, Idle, Applying
<1>26. CASE MapNothing
  BY <1>0, <1>26
     DEF MapNothing, Goes, kernel, files, settings, Runs, Returns, GateInv, RouteInv,
         KernelInv, NoPlan, Stale, Idle, RulesInv, Serves, Formerly, IsActive, Hot,
         Applying, Selected, Replayable, Enumerated
<1>27. CASE RestoreOnly
  <2>1. \/ Moved(AfterMount, run.back, run.ok)
        \/ Moved(AfterMount, run.back, FALSE)
    BY <1>0, <1>27, Moves DEF RestoreOnly
  <2>2. QED
    BY <2>1 DEF AfterMount, Moved, RulesInv, Idle, Applying
<1>28. CASE Install
  <2>1. run'.at \in {"install", "hide"}
    BY <1>0, <1>28, InstallMoves
  <2>2. QED
    BY <2>1 DEF RulesInv, Idle, Applying
<1>29. CASE HideMapped
  <2>1. \/ Moved("commit", run.back, run.ok)
        \/ Moved("commit", run.back, FALSE)
    BY <1>0, <1>29, Moves DEF HideMapped
  <2>2. QED
    BY <2>1 DEF Moved, RulesInv, Idle, Applying
<1>30. CASE Commit
  <2>1. \/ Moved(AfterMount, run.back, run.ok)
        \/ Moved(AfterMount, run.back, FALSE)
    BY <1>0, <1>30, Moves DEF Commit
  <2>2. QED
    BY <2>1 DEF AfterMount, Moved, RulesInv, Idle, Applying
<1>31. CASE ChildDies
  BY <1>0, <1>31
     DEF ChildDies, Fails, AfterMount, kernel, files, settings, observed, Runs, Returns,
         GateInv, RouteInv, KernelInv, NoPlan, Stale, Idle, RulesInv, Serves, Formerly,
         IsActive, Hot, Applying, Selected, Replayable, Enumerated
<1>32. CASE Configure
  <2>1. \/ Moved("gate", run.back, run.ok)
        \/ Moved("gate", run.back, FALSE)
    BY <1>0, <1>32, Moves DEF Configure
  <2>2. QED
    BY <2>1 DEF Moved, RulesInv, Idle, Applying
<1>33. CASE Gate
  <2>1. \/ Moved(AfterRefresh, run.back, run.ok) /\ run.ok
        \/ Moved("down", AfterRefresh, FALSE)
    BY <1>0, <1>33, Moves DEF Gate
  <2>2. UNCHANGED <<boot, plan, hot, active, rules, loaded, damaged>>
    BY <1>33 DEF Gate, files, settings
  <2>3. QED
    BY <1>0, <1>33, <2>1, <2>2
       DEF Gate, Moved, AfterRefresh, BuiltInv, Idle, RulesInv, Serves, Formerly, IsActive,
           Hot, Applying, Selected, Replayable, Enumerated
<1>34. CASE Down
  <2>1. \/ Moved("clear", run.back, run.ok)
        \/ Moved("clear", run.back, FALSE)
    BY <1>0, <1>34, Moves DEF Down
  <2>2. QED
    BY <2>1 DEF Moved, RulesInv, Idle, Applying
<1>35. CASE Clear
  <2>1. \/ Moved("forget", run.back, run.ok) /\ rules' = {}
        \/ damaged' = TRUE
    BY <1>0, <1>35, Moves DEF Clear
  <2>2. QED
    BY <2>1 DEF Moved, RulesInv, Idle, Applying
<1>36. CASE Forget
  <2>1. Moved(run.back, run.back, run.ok)
    BY <1>0, <1>36, Moves DEF Forget
  <2>2. rules = {} /\ UNCHANGED <<boot, rules>> /\ active' = 0 /\ boot # 0
    BY <1>0, <1>36 DEF Forget, kernel, RulesInv
  <2>3. run.back \in Returns \ {"idle"}
    BY <1>36 DEF Forget, GateInv, RouteInv, Resetting
  <2>4. QED
    BY <2>1, <2>2, <2>3 DEF Moved, Returns, RulesInv, Serves, IsActive, Idle, Applying
<1>37. CASE End
  BY <1>0, <1>37
     DEF End, Ends, NoRun, kernel, files, settings, observed, Runs, Returns, GateInv,
         RouteInv, KernelInv, NoPlan, Stale, Idle, RulesInv, Serves, Formerly, IsActive,
         Hot, Applying, Selected, Replayable, Enumerated
<1>38. CASE Unload
  BY <1>0, <1>38
     DEF Unload, Reports, NoRun, files, settings, Runs, Returns, GateInv, RouteInv,
         KernelInv, NoPlan, Stale, Idle, RulesInv, Serves, Formerly, IsActive, Hot,
         Applying, Selected, Replayable, Enumerated
<1>39. CASE UnloadLegacy
  BY <1>0, <1>39
     DEF UnloadLegacy, Reports, NoRun, files, settings, observed, Runs, Returns, GateInv,
         RouteInv, KernelInv, NoPlan, Stale, Idle, RulesInv, Serves, Formerly, IsActive,
         Hot, Applying, Selected, Replayable, Enumerated
<1>40. CASE BeginClear
  BY <1>0, <1>40
     DEF BeginClear, NoRun, files, settings, observed, Runs, Returns, GateInv, RouteInv,
         KernelInv, NoPlan, Stale, Idle, RulesInv, Serves, Formerly, IsActive, Hot,
         Applying, Selected, Replayable, Enumerated
<1>41. CASE Disable
  BY <1>0, <1>41
     DEF Disable, Reports, NoRun, files, settings, observed, Runs, Returns, GateInv,
         RouteInv, KernelInv, NoPlan, Stale, Idle, RulesInv, Serves, Formerly, IsActive,
         Hot, Applying, Selected, Replayable, Enumerated
<1>42. CASE BeginPolicy
  BY <1>0, <1>42
     DEF BeginPolicy, NoRun, files, settings, observed, Runs, Returns, GateInv, RouteInv,
         KernelInv, NoPlan, Stale, Idle, RulesInv, Serves, Formerly, IsActive, Hot,
         Applying, Selected, Replayable, Enumerated
<1>43. CASE Replace
  <2>1. Ended(TRUE) \/ Ended(FALSE)
    BY <1>0, <1>43, Moves DEF Replace
  <2>2. UNCHANGED <<boot, plan, hot, active, rules, loaded, damaged>>
    BY <1>43 DEF Replace, files, settings
  <2>3. QED
    BY <1>43, <2>1, <2>2
       DEF Replace, Ended, RulesInv, Serves, IsActive, Idle, Applying, Selected, Replayable,
       Enumerated
<1>44. CASE BeginHide(TRUE)
  BY <1>0, <1>44
     DEF BeginHide, NoRun, kernel, files, observed, Runs, Returns, GateInv, RouteInv,
         KernelInv, NoPlan, Stale, Idle, RulesInv, Serves, Formerly, IsActive, Hot,
         Applying, Selected, Replayable, Enumerated
<1>45. CASE BeginHide(FALSE)
  BY <1>0, <1>45
     DEF BeginHide, NoRun, kernel, files, observed, Runs, Returns, GateInv, RouteInv,
         KernelInv, NoPlan, Stale, Idle, RulesInv, Serves, Formerly, IsActive, Hot,
         Applying, Selected, Replayable, Enumerated
<1>46. CASE Update
  <2>1. Ended(TRUE) \/ Ended(FALSE)
    BY <1>0, <1>46, Moves DEF Update
  <2>2. UNCHANGED <<boot, plan, hot, active, rules, loaded, damaged>>
    BY <1>46 DEF Update, files, settings
  <2>3. QED
    BY <1>46, <2>1, <2>2
       DEF Update, Ended, RulesInv, Serves, IsActive, Idle, Applying, Selected, Replayable,
       Enumerated
<1>47. CASE EditConfig
  BY <1>0, <1>47
     DEF EditConfig, kernel, files, observed, Runs, Returns, GateInv, RouteInv, KernelInv,
         NoPlan, Stale, Idle, RulesInv, Serves, Formerly, IsActive, Hot, Applying, Selected,
         Replayable, Enumerated
<1>48. CASE Kill
  BY <1>0, <1>48
     DEF Kill, NoRun, kernel, files, settings, observed, Runs, Returns, GateInv, RouteInv,
         KernelInv, NoPlan, Stale, Idle, RulesInv, Serves, Formerly, IsActive, Hot,
         Applying, Selected, Replayable, Enumerated
<1>49. CASE Reboot
  BY <1>0, <1>49
     DEF Reboot, NoRun, files, settings, Runs, Returns, GateInv, RouteInv, KernelInv,
         NoPlan, Stale, Idle, RulesInv, Serves, Formerly, IsActive, Hot, Applying, Selected,
         Replayable, Enumerated
<1>50. CASE UNCHANGED vars
  BY <1>0, <1>50
     DEF vars, kernel, files, settings, observed, Runs, Returns, GateInv, RouteInv,
         KernelInv, NoPlan, Stale, Idle, RulesInv, Serves, Formerly, IsActive, Hot,
         Applying, Selected, Replayable, Enumerated
<1>51. QED
  BY <1>1, <1>2, <1>3, <1>4, <1>5, <1>6, <1>7, <1>8, <1>9, <1>10, <1>11, <1>12, <1>13,
     <1>14, <1>15, <1>16, <1>17, <1>18, <1>19, <1>20, <1>21, <1>22, <1>23, <1>24, <1>25,
     <1>26, <1>27, <1>28, <1>29, <1>30, <1>31, <1>32, <1>33, <1>34, <1>35, <1>36, <1>37,
     <1>38, <1>39, <1>40, <1>41, <1>42, <1>43, <1>44, <1>45, <1>46, <1>47, <1>48, <1>49,
     <1>50
     DEF Next

LEMMA InitBuilt == Init => BuiltInv
BY DEF Init, NoRun, BuiltInv, Resetting

\* A step that succeeds brings the kernel nearer to what is due.
LEMMA BuiltStep ==
    /\ TypeOK /\ GateInv /\ RouteInv /\ KernelInv /\ ChosenInv
    /\ ~damaged => RulesInv /\ BuiltInv
    /\ [Next]_vars
    => (~damaged' => BuiltInv')
<1> SUFFICES ASSUME TypeOK, GateInv, RouteInv, KernelInv, ChosenInv,
                    ~damaged => RulesInv /\ BuiltInv, ~damaged', [Next]_vars
             PROVE  BuiltInv'
  OBVIOUS
<1>0. /\ run \in Runs /\ boot \in Nat \ {0} /\ damaged \in BOOLEAN
  BY Boots DEF TypeOK
<1>1. CASE BeginApply
  BY <1>0, <1>1
     DEF BeginApply, Begins, NoRun, kernel, files, settings, observed, Runs, Installed,
         Idle, BuiltInv, Resetting, Selected, Replayable, Enumerated
<1>2. CASE BeginLoad
  BY <1>0, <1>2
     DEF BeginLoad, Begins, NoRun, files, settings, Runs, Installed, Idle, BuiltInv,
         Resetting, Selected, Replayable, Enumerated
<1>3. CASE ConfigUnreadable
  <2>1. Ended(FALSE)
    BY <1>0, <1>3, Moves DEF ConfigUnreadable
  <2>2. QED
    BY <2>1 DEF Ended, BuiltInv, Resetting
<1>4. CASE Config
  <2>1. run'.on => ~(run'.at = "end" /\ run'.ok) /\ run'.at # "down"
    BY <1>0, <1>4, ConfigMoves
  <2>2. run'.at \in {"down", "end", "refresh", "policy"}
    BY <1>0, <1>4, ConfigMoves
  <2>3. QED
    BY <2>1, <2>2 DEF BuiltInv, Resetting
<1>5. CASE ApplyPolicy
  BY <1>0, <1>5
     DEF ApplyPolicy, Goes, files, settings, observed, Runs, Installed, Idle, BuiltInv,
         Resetting, Selected, Replayable, Enumerated
<1>6. CASE ApplyHides
  <2>1. \/ Moved("features", run.back, run.ok) /\ userHides \subseteq hides'
        \/ Moved("abandon", run.back, run.ok)
    BY <1>0, <1>6, Moves DEF ApplyHides, RestoresAll
  <2>2. UNCHANGED userHides
    BY <1>6 DEF ApplyHides, settings
  <2>3. QED
    BY <2>1, <2>2 DEF Moved, BuiltInv, Resetting
<1>7. CASE ApplyFeatures
  <2>1. \/ Moved("enable", run.back, run.ok)
        \/ Moved("abandon", run.back, run.ok)
    BY <1>0, <1>7, Moves DEF ApplyFeatures
  <2>2. userHides \subseteq hides /\ UNCHANGED <<userHides, hides>>
    BY <1>7 DEF ApplyFeatures, kernel, settings, BuiltInv
  <2>3. QED
    BY <2>1, <2>2 DEF Moved, BuiltInv, Resetting
<1>8. CASE Enable
  <2>1. \/ Moved("end", run.back, run.ok) /\ gate'
        \/ Moved("abandon", run.back, run.ok)
    BY <1>0, <1>8, Moves DEF Enable
  <2>2. /\ rules = Selected /\ userHides \subseteq hides
        /\ UNCHANGED <<boot, plan, hot, rules, hides, userHides>>
    BY <1>8 DEF Enable, files, settings, RulesInv, Applying, BuiltInv
  <2>3. gate' => Installed'
    BY <2>2 DEF Installed, Selected, Replayable, Enumerated
  <2>4. QED
    BY <2>1, <2>3 DEF Moved, BuiltInv, Resetting
<1>9. CASE Abandon
  <2>1. Ended(FALSE)
    BY <1>0, <1>9, Moves DEF Abandon
  <2>2. QED
    BY <2>1 DEF Ended, BuiltInv, Resetting
<1>10. CASE BeginHot(TRUE)
  BY <1>0, <1>10
     DEF BeginHot, Marked, NoRun, kernel, files, observed, Runs, Installed, Idle, BuiltInv,
         Resetting, Selected, Replayable, Enumerated
<1>11. CASE BeginHot(FALSE)
  BY <1>0, <1>11
     DEF BeginHot, NoRun, kernel, files, observed, Runs, Installed, Idle, BuiltInv,
         Resetting, Selected, Replayable, Enumerated
<1>12. CASE RollBack
  <2>1. Ended(run.ok)
    BY <1>0, <1>12, Moves DEF RollBack
  <2>2. QED
    BY <2>1 DEF Ended, BuiltInv, Resetting
<1>13. CASE BeginModuleApply
  BY <1>0, <1>13
     DEF BeginModuleApply, Begins, NoRun, kernel, files, settings, observed, Runs,
         Installed, Idle, BuiltInv, Resetting, Selected, Replayable, Enumerated
<1>14. CASE BeginMountAll
  BY <1>0, <1>14
     DEF BeginMountAll, NoRun, kernel, settings, observed, Runs, Installed, Idle, BuiltInv,
         Resetting, Selected, Replayable, Enumerated
<1>15. CASE Inventory
  <2>1. \/ Moved("down", "end", TRUE)
        \/ Moved("down", "select", TRUE)
        \/ Moved("end", run.back, run.ok)
        \/ Moved("select", run.back, run.ok)
    BY <1>0, <1>15, Moves DEF Inventory
  <2>2. run.cmd = "mount-all"
    BY <1>15 DEF Inventory, RouteInv
  <2>3. QED
    BY <2>1, <2>2 DEF Moved, BuiltInv, Resetting
<1>16. CASE PassEnds
  <2>1. Ended(FALSE)
    BY <1>0, <1>16, Moves DEF PassEnds
  <2>2. QED
    BY <2>1 DEF Ended, BuiltInv, Resetting
<1>17. CASE Select
  <2>1. run'.at \in {"end", "map", "gate"} /\ (run'.at = "gate" => ~run'.ok)
        /\ run'.cmd = run.cmd
    BY <1>0, <1>17 DEF Select, Runs
  <2>2. run.cmd = "mount-all"
    BY <1>17 DEF Select, RouteInv
  <2>3. QED
    BY <2>1, <2>2 DEF BuiltInv, Resetting
<1>18. CASE Plan
  <2>1. \/ Moved("configure", run.back, run.ok)
        \/ Moved("gate", run.back, FALSE)
        \/ Moved("gate", run.back, run.ok) /\ ~run.ok
    BY <1>0, <1>18, Moves DEF Plan
  <2>2. CASE Moved("configure", run.back, run.ok) /\ run.ok
    <3>1. rules = run.sel /\ userHides \subseteq hides
      BY <1>18, <2>2 DEF Plan, BuiltInv
    <3>2. UNCHANGED <<boot, hot, rules, hides, userHides>>
      BY <1>18 DEF Plan, kernel, settings
    <3>3. plan' = [boot |-> boot, ids |-> run.sel] \/ (plan' = NoPlan /\ run.sel = {})
      BY <1>0, <1>18, <2>2, Moves DEF Plan, Moved
    <3>4. run.sel \subseteq Enumerated
      BY <1>18 DEF Plan, RouteInv, ChosenInv
    <3>5. Selected' = run.sel
      BY <1>0, <3>2, <3>3, <3>4 DEF Selected, Replayable, Enumerated, NoPlan
    <3>6. QED
      BY <2>2, <3>1, <3>2, <3>5 DEF Moved, BuiltInv, Resetting
  <2>3. CASE ~run'.ok /\ run'.at \in {"configure", "gate"}
    BY <2>3 DEF BuiltInv, Resetting
  <2>4. QED
    BY <1>0, <2>1, <2>2, <2>3 DEF Moved, Runs
<1>19. CASE BeginUnmount
  BY <1>0, <1>19
     DEF BeginUnmount, NoRun, kernel, files, settings, observed, Runs, Installed, Idle,
         BuiltInv, Resetting, Selected, Replayable, Enumerated
<1>20. CASE Repeal
  <2>1. Ended(run.ok)
    BY <1>0, <1>20, Moves DEF Repeal
  <2>2. QED
    BY <2>1 DEF Ended, BuiltInv, Resetting
<1>21. CASE RefreshOff
  <2>1. \/ Moved("down", AfterRefresh, TRUE)
        \/ Moved(AfterRefresh, run.back, run.ok)
    BY <1>0, <1>21, Moves DEF RefreshOff
  <2>2. ~run.on
    BY <1>21 DEF RefreshOff
  <2>3. QED
    BY <2>1, <2>2 DEF AfterRefresh, Moved, BuiltInv, Resetting
<1>22. CASE RefreshRefused
  <2>1. Moved(AfterRefresh, run.back, FALSE)
    BY <1>0, <1>22, Moves DEF RefreshRefused
  <2>2. QED
    BY <2>1 DEF AfterRefresh, Moved, BuiltInv, Resetting
<1>23. CASE Refresh
  BY <1>0, <1>23
     DEF Refresh, kernel, files, settings, observed, Runs, Installed, Idle, BuiltInv,
         Resetting, Selected, Replayable, Enumerated
<1>24. CASE Assign
  <2>1. \/ Moved("map", run.back, run.ok)
        \/ Moved("gate", run.back, run.ok) /\ ~run.ok
    BY <1>0, <1>24, Moves DEF Assign
  <2>2. QED
    BY <2>1 DEF Moved, BuiltInv, Resetting
<1>25. CASE MapModules
  <2>1. \/ Moved(AfterMount, run.back, FALSE)
        \/ run'.at = "install" /\ run'.sel = run.sel /\ run'.todo = run.sel
    BY <1>0, <1>25, Moves DEF MapModules, Runs
  <2>2. rules = {} /\ UNCHANGED rules
    BY <1>25 DEF MapModules, kernel, RulesInv
  <2>3. QED
    BY <2>1, <2>2 DEF AfterMount, Moved, BuiltInv, Resetting
<1>26. CASE MapNothing
  <2>1. Moved("restore", run.back, run.ok)
    BY <1>0, <1>26, Moves DEF MapNothing
  <2>2. QED
    BY <2>1 DEF Moved, BuiltInv, Resetting
<1>27. CASE RestoreOnly
  <2>1. \/ Moved(AfterMount, run.back, run.ok) /\ RestoresAll
        \/ Moved(AfterMount, run.back, FALSE)
    BY <1>0, <1>27, Moves DEF RestoreOnly
  <2>2. CASE run'.at \in {"plan", "configure"} /\ ~run'.ok
    BY <2>2 DEF BuiltInv, Resetting
  <2>3. CASE Moved(AfterMount, run.back, run.ok) /\ run.ok /\ RestoresAll
    <3>1. rules = run.sel /\ userHides \subseteq hides'
      BY <1>27, <2>3 DEF RestoreOnly, RulesInv, ChosenInv, RestoresAll
    <3>2. UNCHANGED <<boot, plan, hot, rules, userHides>>
      BY <1>27 DEF RestoreOnly, settings
    <3>3. run'.at = "configure" => run.sel = Selected
      BY <1>27, <2>3 DEF RestoreOnly, AfterMount, Moved, RouteInv, Mapping, ChosenInv
    <3>4. QED
      BY <2>3, <3>1, <3>2, <3>3
         DEF AfterMount, Moved, BuiltInv, Resetting, Selected, Replayable, Enumerated
  <2>4. QED
    BY <1>0, <2>1, <2>2, <2>3 DEF AfterMount, Moved, Runs
<1>28. CASE Install
  <2>1. PICK m \in run.todo :
          /\ run'.todo = run.todo \ {m}
          /\ \/ rules' = rules \cup {m} /\ run'.ok = run.ok
             \/ rules' = rules /\ ~run'.ok
          /\ run'.at \in {"hide", "install"}
          /\ run'.at = "hide" => run'.todo = {}
    BY <1>0, <1>28, InstallMoves
  <2>2. run.ok => rules = run.sel \ run.todo
    BY <1>28 DEF Install, BuiltInv
  <2>3. run.todo \subseteq run.sel /\ run'.sel = run.sel
    BY <1>0, <1>28, InstallMoves DEF Install, ChosenInv
  <2>4. run'.ok => rules' = run'.sel \ run'.todo
    BY <2>1, <2>2, <2>3
  <2>5. QED
    BY <2>1, <2>4 DEF BuiltInv, Resetting
<1>29. CASE HideMapped
  <2>1. \/ Moved("commit", run.back, run.ok) /\ userHides \subseteq hides'
        \/ Moved("commit", run.back, FALSE)
    BY <1>0, <1>29, Moves DEF HideMapped, MappedHides
  <2>2. UNCHANGED <<rules, userHides>> /\ (run.ok => rules = run.sel)
    BY <1>29 DEF HideMapped, settings, BuiltInv
  <2>3. QED
    BY <2>1, <2>2 DEF Moved, BuiltInv, Resetting
<1>30. CASE Commit
  <2>1. \/ Moved(AfterMount, run.back, run.ok)
        \/ Moved(AfterMount, run.back, FALSE)
    BY <1>0, <1>30, Moves DEF Commit
  <2>2. CASE run'.at \in {"plan", "configure"} /\ ~run'.ok
    BY <2>2 DEF BuiltInv, Resetting
  <2>3. CASE Moved(AfterMount, run.back, run.ok) /\ run.ok
    <3>1. rules = run.sel /\ userHides \subseteq hides'
      BY <1>30, <2>3 DEF Commit, kernel, BuiltInv
    <3>2. UNCHANGED <<boot, plan, hot, rules, userHides>>
      BY <1>30 DEF Commit, kernel, settings
    <3>3. run'.at = "configure" => run.sel = Selected
      BY <1>30, <2>3 DEF Commit, AfterMount, Moved, RouteInv, Mapping, ChosenInv
    <3>4. QED
      BY <2>3, <3>1, <3>2, <3>3
         DEF AfterMount, Moved, BuiltInv, Resetting, Selected, Replayable, Enumerated
  <2>4. QED
    BY <1>0, <2>1, <2>2, <2>3 DEF AfterMount, Moved, Runs
<1>31. CASE ChildDies
  <2>1. Moved(AfterMount, run.back, FALSE)
    BY <1>0, <1>31, Moves DEF ChildDies
  <2>2. QED
    BY <2>1 DEF AfterMount, Moved, BuiltInv, Resetting
<1>32. CASE Configure
  <2>1. \/ Moved("gate", run.back, run.ok)
        \/ Moved("gate", run.back, FALSE)
    BY <1>0, <1>32, Moves DEF Configure
  <2>2. /\ run.ok => rules = Selected /\ userHides \subseteq hides
        /\ UNCHANGED <<boot, plan, hot, rules, hides, userHides>>
    BY <1>32 DEF Configure, files, settings, BuiltInv
  <2>3. QED
    BY <2>1, <2>2 DEF Moved, BuiltInv, Resetting, Selected, Replayable, Enumerated
<1>33. CASE Gate
  <2>1. \/ Moved(AfterRefresh, run.back, run.ok) /\ run.ok /\ gate'
        \/ Moved("down", AfterRefresh, FALSE)
    BY <1>0, <1>33, Moves DEF Gate
  <2>2. /\ run.ok => rules = Selected /\ userHides \subseteq hides
        /\ UNCHANGED <<boot, plan, hot, rules, hides, userHides>>
    BY <1>33 DEF Gate, files, settings, BuiltInv
  <2>3. run.ok /\ gate' => Installed'
    BY <2>2 DEF Installed, Selected, Replayable, Enumerated
  <2>4. QED
    BY <2>1, <2>3 DEF AfterRefresh, Moved, BuiltInv, Resetting
<1>34. CASE Down
  <2>1. \/ Moved("clear", run.back, run.ok)
        \/ Moved("clear", run.back, FALSE)
    BY <1>0, <1>34, Moves DEF Down
  <2>2. run.back \in {"end", "rollback"} /\ run.ok /\ run.on => run.cmd = "mount-all"
    BY <1>34 DEF Down, BuiltInv, Resetting
  <2>3. QED
    BY <2>1, <2>2 DEF Moved, BuiltInv, Resetting
<1>35. CASE Clear
  <2>1. \/ Moved("forget", run.back, run.ok)
        \/ Moved("forget", run.back, FALSE)
    BY <1>0, <1>35, Moves DEF Clear
  <2>2. run.back \in {"end", "rollback"} /\ run.ok /\ run.on => run.cmd = "mount-all"
    BY <1>35 DEF Clear, BuiltInv, Resetting
  <2>3. QED
    BY <2>1, <2>2 DEF Moved, BuiltInv, Resetting
<1>36. CASE Forget
  <2>1. Moved(run.back, run.back, run.ok)
    BY <1>0, <1>36, Moves DEF Forget
  <2>2. run.back \in {"end", "rollback"} /\ run.ok /\ run.on => run.cmd = "mount-all"
    BY <1>36 DEF Forget, BuiltInv, Resetting
  <2>3. run.back \in Returns
    BY DEF GateInv
  <2>4. QED
    BY <2>1, <2>2, <2>3 DEF Moved, Returns, BuiltInv, Resetting
<1>37. CASE End
  <2>1. Ended(run.ok)
    BY <1>0, <1>37, Moves DEF End
  <2>2. QED
    BY <2>1 DEF Ended, BuiltInv, Resetting
<1>38. CASE Unload
  BY <1>0, <1>38
     DEF Unload, Reports, NoRun, files, settings, Runs, Installed, Idle, BuiltInv,
         Resetting, Selected, Replayable, Enumerated
<1>39. CASE UnloadLegacy
  BY <1>0, <1>39
     DEF UnloadLegacy, Reports, NoRun, files, settings, observed, Runs, Installed, Idle,
         BuiltInv, Resetting, Selected, Replayable, Enumerated
<1>40. CASE BeginClear
  BY <1>0, <1>40
     DEF BeginClear, NoRun, files, settings, observed, Runs, Installed, Idle, BuiltInv,
         Resetting, Selected, Replayable, Enumerated
<1>41. CASE Disable
  BY <1>0, <1>41
     DEF Disable, Reports, NoRun, files, settings, observed, Runs, Installed, Idle,
         BuiltInv, Resetting, Selected, Replayable, Enumerated
<1>42. CASE BeginPolicy
  BY <1>0, <1>42
     DEF BeginPolicy, NoRun, files, settings, observed, Runs, Installed, Idle, BuiltInv,
         Resetting, Selected, Replayable, Enumerated
<1>43. CASE Replace
  <2>1. \/ Ended(TRUE)
        \/ Ended(FALSE)
    BY <1>0, <1>43, Moves DEF Replace
  <2>2. QED
    BY <2>1 DEF Ended, BuiltInv, Resetting
<1>44. CASE BeginHide(TRUE)
  BY <1>0, <1>44
     DEF BeginHide, NoRun, kernel, files, observed, Runs, Installed, Idle, BuiltInv,
         Resetting, Selected, Replayable, Enumerated
<1>45. CASE BeginHide(FALSE)
  BY <1>0, <1>45
     DEF BeginHide, NoRun, kernel, files, observed, Runs, Installed, Idle, BuiltInv,
         Resetting, Selected, Replayable, Enumerated
<1>46. CASE Update
  <2>1. \/ Ended(TRUE)
        \/ Ended(FALSE)
    BY <1>0, <1>46, Moves DEF Update
  <2>2. QED
    BY <2>1 DEF Ended, BuiltInv, Resetting
<1>47. CASE EditConfig
  BY <1>0, <1>47
     DEF EditConfig, kernel, files, observed, Runs, Installed, Idle, BuiltInv, Resetting,
         Selected, Replayable, Enumerated
<1>48. CASE Kill
  BY <1>0, <1>48
     DEF Kill, NoRun, kernel, files, settings, observed, Runs, Installed, Idle, BuiltInv,
         Resetting, Selected, Replayable, Enumerated
<1>49. CASE Reboot
  BY <1>0, <1>49
     DEF Reboot, NoRun, files, settings, Runs, Installed, Idle, BuiltInv, Resetting,
         Selected, Replayable, Enumerated
<1>50. CASE UNCHANGED vars
  BY <1>0, <1>50
     DEF vars, kernel, files, settings, observed, Runs, Installed, Idle, BuiltInv,
         Resetting, Selected, Replayable, Enumerated
<1>51. QED
  BY <1>1, <1>2, <1>3, <1>4, <1>5, <1>6, <1>7, <1>8, <1>9, <1>10, <1>11, <1>12, <1>13,
     <1>14, <1>15, <1>16, <1>17, <1>18, <1>19, <1>20, <1>21, <1>22, <1>23, <1>24, <1>25,
     <1>26, <1>27, <1>28, <1>29, <1>30, <1>31, <1>32, <1>33, <1>34, <1>35, <1>36, <1>37,
     <1>38, <1>39, <1>40, <1>41, <1>42, <1>43, <1>44, <1>45, <1>46, <1>47, <1>48, <1>49,
     <1>50
     DEF Next

\* A command that goes on has reported nothing yet.
Silent ==
    \/ BeginApply \/ BeginLoad \/ Config \/ ApplyPolicy \/ ApplyHides \/ ApplyFeatures \/ Enable
    \/ BeginHot(TRUE) \/ BeginHot(FALSE) \/ BeginModuleApply \/ BeginMountAll \/ Inventory
    \/ Select \/ Plan \/ BeginUnmount \/ RefreshOff \/ RefreshRefused \/ Refresh \/ Assign
    \/ MapModules \/ MapNothing \/ RestoreOnly \/ Install \/ HideMapped \/ Commit \/ ChildDies
    \/ Configure \/ Gate \/ Down \/ Clear \/ Forget \/ BeginClear \/ BeginPolicy

LEMMA SilentGoesOn ==
    ASSUME run \in Runs, GateInv, RouteInv, Silent
    PROVE  run'.at # "idle"
<1>1. CASE BeginApply \/ BeginLoad \/ BeginHot(TRUE) \/ BeginHot(FALSE) \/ BeginModuleApply
  BY <1>1 DEF BeginApply, BeginLoad, BeginHot, BeginModuleApply, Begins, NoRun
<1>2. CASE BeginMountAll \/ BeginUnmount \/ BeginClear \/ BeginPolicy
  BY <1>2 DEF BeginMountAll, BeginUnmount, BeginClear, BeginPolicy, NoRun
<1>3. CASE Config
  BY <1>3, ConfigMoves
<1>4. CASE ApplyPolicy \/ ApplyHides \/ ApplyFeatures \/ Enable
  BY <1>4, Moves DEF ApplyPolicy, ApplyHides, ApplyFeatures, Enable, Moved
<1>5. CASE Inventory \/ Assign
  <2>1. \/ \E back, ok : Moved("down", back, ok)
        \/ \E at \in {"end", "select", "map", "gate"} : Moved(at, run.back, run.ok)
    BY <1>5, Moves DEF Inventory, Assign
  <2>2. QED
    BY <2>1 DEF Moved
<1>6. CASE RefreshOff \/ RefreshRefused
  <2>1. \/ \E back, ok : Moved("down", back, ok)
        \/ \E ok : Moved(AfterRefresh, run.back, ok)
    BY <1>6, Moves DEF RefreshOff, RefreshRefused
  <2>2. QED
    BY <2>1 DEF AfterRefresh, Moved
<1>7. CASE Plan
  <2>1. \/ \E ok : Moved("configure", run.back, ok)
        \/ \E ok : Moved("gate", run.back, ok)
    BY <1>7, Moves DEF Plan
  <2>2. QED
    BY <2>1 DEF Moved
<1>8. CASE Select
  BY <1>8 DEF Select, Runs
<1>9. CASE Refresh
  BY <1>9 DEF Refresh, Runs
<1>10. CASE MapModules
  <2>1. \/ Moved(AfterMount, run.back, FALSE)
        \/ run'.at = "install"
    BY <1>10, Moves DEF MapModules, Runs
  <2>2. QED
    BY <2>1 DEF AfterMount, Moved
<1>11. CASE Install
  BY <1>11, InstallMoves
<1>12. CASE RestoreOnly \/ Commit \/ ChildDies
  <2>1. \E ok : Moved(AfterMount, run.back, ok)
    BY <1>12, Moves DEF RestoreOnly, Commit, ChildDies
  <2>2. QED
    BY <2>1 DEF AfterMount, Moved
<1>13. CASE Gate
  <2>1. \/ Moved("down", AfterRefresh, FALSE)
        \/ Moved(AfterRefresh, run.back, run.ok)
    BY <1>13, Moves DEF Gate
  <2>2. QED
    BY <2>1 DEF AfterRefresh, Moved
<1>14. CASE MapNothing \/ HideMapped
  <2>1. \/ \E ok : Moved("restore", run.back, ok)
        \/ \E ok : Moved("commit", run.back, ok)
    BY <1>14, Moves DEF MapNothing, HideMapped
  <2>2. QED
    BY <2>1 DEF Moved
<1>15. CASE Configure
  <2>1. \/ Moved("gate", run.back, run.ok)
        \/ Moved("gate", run.back, FALSE)
    BY <1>15, Moves DEF Configure
  <2>2. QED
    BY <2>1 DEF Moved
<1>16. CASE Down \/ Clear
  <2>1. \/ \E ok : Moved("clear", run.back, ok)
        \/ \E ok : Moved("forget", run.back, ok)
    BY <1>16, Moves DEF Down, Clear
  <2>2. QED
    BY <2>1 DEF Moved
<1>17. CASE Forget
  <2>1. run'.at = run.back
    BY <1>17, Moves DEF Forget, Moved
  <2>2. run.back # "idle"
    BY <1>17 DEF Forget, RouteInv, Resetting
  <2>3. QED
    BY <2>1, <2>2
<1>18. QED
  BY <1>1, <1>2, <1>3, <1>4, <1>5, <1>6, <1>7, <1>8, <1>9, <1>10, <1>11, <1>12,
     <1>13, <1>14, <1>15, <1>16, <1>17
     DEF Silent

LEMMA InitReported == Init => ReportedIsInstalled
BY DEF Init, NoRun, ReportedIsInstalled

\* What the last command reported stays so until the next one begins.
LEMMA ReportedStep ==
    /\ TypeOK /\ GateInv /\ RouteInv /\ KernelInv /\ ChosenInv
    /\ ~damaged => RulesInv /\ BuiltInv
    /\ ReportedIsInstalled /\ [Next]_vars
    => ReportedIsInstalled'
<1> SUFFICES ASSUME TypeOK, GateInv, RouteInv, KernelInv, ChosenInv,
                    ~damaged => RulesInv /\ BuiltInv, ReportedIsInstalled, [Next]_vars,
                    Idle', run'.ok, ~damaged'
             PROVE  ReportedIsInstalled'
  BY DEF ReportedIsInstalled
<1>0. /\ run \in Runs /\ loaded \in BOOLEAN /\ damaged \in BOOLEAN /\ hot \subseteq Modules
  BY DEF TypeOK
<1>1. ASSUME run'.cmd \notin {"hot-unmount", "hide-add", "hide-remove"},
             ~run'.on \/ run'.cmd \in {"mount-all", "unmount"}
      PROVE  ReportedIsInstalled'
  BY <1>1 DEF ReportedIsInstalled
<1>2. CASE Silent
  BY <1>0, <1>2, SilentGoesOn DEF Idle
<1>3. CASE ConfigUnreadable \/ Abandon \/ PassEnds
  BY <1>0, <1>3, Moves DEF ConfigUnreadable, Abandon, PassEnds, Ended
<1>4. CASE RollBack
  <2>1. Ended(run.ok) /\ run.ok
    BY <1>0, <1>4, Moves DEF RollBack, Ended
  <2>2. /\ UNCHANGED <<boot, gate, loaded, rules, hides, active, plan, userHides, damaged>>
        /\ run.cmd \in Hot
    BY <1>4 DEF RollBack, kernel, files, RouteInv
  <2>3. UNCHANGED hot
    BY <1>4, <2>1 DEF RollBack
  <2>4. run.on => Installed
    BY <1>4, <2>1, <2>2 DEF RollBack, BuiltInv, Hot
  <2>5. run.cmd = "hot-unmount" => run.arg \cap rules = {}
    <3>1. rules = {} \/ rules = Selected
      BY <1>4, <2>1, <2>2 DEF RollBack, RulesInv, KernelInv, Serves
    <3>2. run.cmd = "hot-unmount" => run.arg \subseteq hot
      BY <1>4 DEF RollBack, RouteInv, Idle
    <3>3. QED
      BY <3>1, <3>2 DEF Selected, Enumerated
  <2>6. QED
    BY <2>1, <2>2, <2>3, <2>4, <2>5
       DEF Ended, Installed, ReportedIsInstalled, Selected, Replayable, Enumerated, Hot
<1>5. CASE Repeal
  <2>1. Ended(run.ok) /\ run.cmd = "unmount"
    BY <1>0, <1>5, Moves DEF Repeal, RouteInv
  <2>2. QED
    BY <1>1, <2>1 DEF Ended
<1>6. CASE End
  <2>1. Ended(run.ok) /\ run.ok
    BY <1>0, <1>6, Moves DEF End, Ended
  <2>2. UNCHANGED <<boot, gate, loaded, rules, hides, plan, hot, userHides, damaged>>
    BY <1>6 DEF End, kernel, files, settings
  <2>3. run.on => run.cmd = "mount-all" \/ Installed
    BY <1>6, <2>1, <2>2 DEF End, BuiltInv
  <2>4. run.cmd \notin {"hot-unmount", "hide-add", "hide-remove"}
    BY <1>6 DEF End, RouteInv
  <2>5. QED
    BY <2>1, <2>2, <2>3, <2>4
       DEF Ended, Installed, ReportedIsInstalled, Selected, Replayable, Enumerated
<1>7. CASE Unload \/ UnloadLegacy \/ Disable
  <2>1. \E cmd \in {"unload", "disable"}, ok \in BOOLEAN : Reports(cmd, ok)
    BY <1>7 DEF Unload, UnloadLegacy, Disable
  <2>2. run'.cmd \in {"unload", "disable"} /\ ~run'.on
    BY <2>1 DEF Reports, NoRun
  <2>3. QED
    BY <1>1, <2>2
<1>8. CASE Replace
  <2>1. (Ended(TRUE) \/ Ended(FALSE)) /\ run.cmd = "policy"
    BY <1>0, <1>8, Moves DEF Replace, RouteInv
  <2>2. ~run.on
    BY <1>0, <2>1 DEF RouteInv, Rebuilding, Hot, Runs
  <2>3. QED
    BY <1>1, <2>1, <2>2 DEF Ended
<1>9. CASE BeginHide(TRUE) \/ BeginHide(FALSE)
  <2>1. PICK p \in Paths, cmd \in {"hide-add", "hide-remove"} :
          run' = [NoRun EXCEPT !.cmd = cmd, !.at = IF loaded THEN "update" ELSE "idle",
                               !.path = {p}]
    BY <1>9 DEF BeginHide
  <2>2. ~loaded /\ ~run'.on /\ run'.cmd \in {"hide-add", "hide-remove"}
    BY <2>1 DEF NoRun, Idle
  <2>3. hides' = hides /\ loaded' = loaded
    BY <1>9 DEF BeginHide, kernel
  <2>4. hides' = {} /\ ~loaded'
    BY <2>2, <2>3 DEF KernelInv
  <2>5. QED
    BY <2>2, <2>4 DEF ReportedIsInstalled
<1>10. CASE Update
  <2>1. /\ Ended(TRUE) /\ run.cmd \in {"hide-add", "hide-remove"} /\ HidesKnown
        /\ hides' = IF run.cmd = "hide-remove"
                    THEN (hides \ run.path) \cup (run.path \cap RecordedHides)
                    ELSE hides \cup run.path
    BY <1>0, <1>10, Moves DEF Update, Ended, RouteInv
  <2>2. ~run.on
    BY <1>0, <2>1 DEF RouteInv, Rebuilding, Hot, Runs
  <2>3. UNCHANGED <<boot, plan, record>>
    BY <1>10 DEF Update, files, observed
  <2>4. RecordedHides' = RecordedHides
    BY <2>3 DEF RecordedHides, Replayable
  <2>5. QED
    BY <2>1, <2>2, <2>4 DEF Ended, ReportedIsInstalled
<1>11. CASE EditConfig
  BY <1>11
     DEF EditConfig, kernel, files, observed, Idle, ReportedIsInstalled, Selected, Replayable,
         Enumerated, RecordedHides
<1>12. CASE Kill \/ Reboot
  BY <1>1, <1>12 DEF Kill, Reboot, NoRun
<1>13. CASE UNCHANGED vars
  BY <1>13
     DEF vars, kernel, files, settings, observed, Idle, ReportedIsInstalled, Selected,
         Replayable, Enumerated, RecordedHides
<1>14. QED
  BY <1>2, <1>3, <1>4, <1>5, <1>6, <1>7, <1>8, <1>9, <1>10, <1>11, <1>12, <1>13
     DEF Next, Silent

\* With marker files that can be written, the invariant of every reachable state.
LEMMA PlanInvariant ==
    ASSUME ~Fault("markers")
    PROVE  Spec => [](TypeOK /\ KernelInv /\ (~damaged => RulesInv) /\ ReportedIsInstalled)
<1> DEFINE Inv == /\ TypeOK /\ GateInv /\ RouteInv /\ KernelInv /\ ChosenInv
                  /\ ~damaged => RulesInv /\ BuiltInv
                  /\ ReportedIsInstalled
<1>1. Init => Inv
  BY InitType, InitGate, InitRoute, InitKernel, InitChosen, InitRules, InitBuilt, InitReported
<1>2. Inv /\ [Next]_vars => Inv'
  BY TypeStep, GateStep, RouteStep, KernelStep, ChosenStep, RulesStep, BuiltStep, ReportedStep
<1>3. Inv => TypeOK /\ KernelInv /\ (~damaged => RulesInv) /\ ReportedIsInstalled
  OBVIOUS
<1>4. QED
  BY <1>1, <1>2, <1>3, PTL DEF Spec

\* With marker files that can be written, and whatever else fails: between
\* commands an enabled Kasumi serves all the modules of the boot's plan that are
\* not hot-unmounted, or none, and then kasumi_active does not say otherwise.
THEOREM PlanIsServed == ASSUME ~Fault("markers") PROVE Spec => []ServedIsThePlan
<1>1. TypeOK /\ KernelInv /\ (~damaged => RulesInv) => ServedIsThePlan
  BY DEF TypeOK, KernelInv, RulesInv, Serves, ServedIsThePlan
<1>2. QED
  BY <1>1, PlanInvariant, PTL

\* With marker files that can be written, and whatever else fails: the success
\* of a command means that the kernel has what was asked for.
THEOREM ReportIsTrue == ASSUME ~Fault("markers") PROVE Spec => []ReportedIsInstalled
BY PlanInvariant, PTL
=============================================================================
