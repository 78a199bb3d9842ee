----------------------------- MODULE SettingsProofs -----------------------------
(***************************************************************************)
(* Proofs about Settings, for any documents and patches: an update keeps   *)
(* the effect of every setting that it does not name.                      *)
(***************************************************************************)
EXTENDS Settings, TLAPS

Document(d) == DOMAIN d \subseteq Keys /\ d \in [DOMAIN d -> BOOLEAN]

Shape ==
    /\ \A d \in config : config = {d} /\ Document(d)
    /\ broken \in BOOLEAN /\ (broken => config = {}) /\ legacy \in BOOLEAN
    /\ lock \in Processes \cup {Nobody}
    /\ pc \in [Processes -> {"idle", "locked", "config", "legacy"}]
    /\ op \in [Processes -> Commands] /\ DOMAIN draft = Processes

\* The lock is held from the first step to the rename.
LockInv == \A w \in Processes : pc[w] \in {"locked", "config"} <=> lock = w

\* A process under way runs a command it may be given.
GivenInv == \A w \in Processes : pc[w] # "idle" => op[w] \in Given(w) /\ Accepted(op[w])

\* What is prepared is made of the file that is still there.
DraftInv ==
    \A w \in Processes : pc[w] = "config" =>
        \E root \in IF op[w] = Gen THEN {default_config_json} ELSE prepare_config_input :
            draft[w] = {update_config(op[w], root)}

\* The legacy file is of no effect when it is removed.
LegacyInv ==
    \A w \in Processes : pc[w] = "legacy" =>
        op[w].kind = "autoload" /\ \E d \in config : "autoload" \in DOMAIN d

SettingsInv == Shape /\ LockInv /\ GivenInv /\ DraftInv /\ LegacyInv

-------------------------------------------------------------------------------
\* Documents.

LEMMA DefaultDocument == Document(default_config_json)
BY DEF Document, default_config_json, Keys, Features, Projections

LEMMA OverDocument ==
    ASSUME NEW f, NEW g, Document(f), Document(g)
    PROVE  Document(Over(f, g))
BY DEF Document, Over

LEMMA WithoutDocument ==
    ASSUME NEW f, NEW ks, Document(f)
    PROVE  Document(Without(f, ks))
BY DEF Document, Without

LEMMA OnlyDocument ==
    ASSUME NEW k \in Keys, NEW b \in BOOLEAN
    PROVE  Document(Only(k, b))
BY DEF Document, Only

LEMMA Settled ==
    ASSUME NEW d, Document(d), NEW k, NEW b \in BOOLEAN
    PROVE  json_bool_or(d, k, b) \in BOOLEAN
BY DEF Document, json_bool_or

LEMMA MigratedDocument ==
    ASSUME NEW root, Document(root)
    PROVE  Document(migrated(root))
<1> DEFINE switch == json_bool_or(root, "hidexattr", FALSE)
           own == [k \in Projections \cup {"version", "selinux", "stealth"} |->
                     \/ k = "version" \/ switch
                     \/ k = "selinux" /\ json_bool_or(root, k, FALSE)
                     \/ k = "stealth" /\ json_bool_or(root, k, TRUE)]
<1>1. switch \in BOOLEAN
  BY Settled
<1>2. Document(own)
  <2>1. DOMAIN own \subseteq Keys
    BY DEF Keys, Features
  <2>2. ASSUME NEW k \in DOMAIN own PROVE own[k] \in BOOLEAN
    BY <1>1 DEF Projections
  <2> QED BY <2>1, <2>2 DEF Document
<1>3. Document(Over(own, Without(root, {"hidexattr"})))
  BY <1>2, WithoutDocument, OverDocument
<1> QED BY <1>3 DEF migrated

LEMMA UpdatedDocument ==
    ASSUME NEW o \in Commands, NEW root, Document(root)
    PROVE  Document(update_config(o, root))
<1>1. CASE o.kind = "gen"
  BY <1>1, DefaultDocument DEF update_config
<1>2. CASE o.kind = "merge"
  <2>1. Document(o.patch)
    BY <1>2, SettingsAssumption DEF Commands, ConfigCommands, Gen, Document
  <2>2. Document(IF ~has_split_features(root) /\ has_split_features(o.patch)
                 THEN migrated(root) ELSE root)
    BY MigratedDocument
  <2>3. Document(merge_config_json(root, o.patch))
    BY <2>1, <2>2, OverDocument, WithoutDocument DEF merge_config_json
  <2> QED BY <1>2, <2>3 DEF update_config
<1>3. CASE o.kind \in {"policy", "autoload"}
  <2>1. o.kind \in Keys /\ o.on \in BOOLEAN
    BY <1>3 DEF Commands, ConfigCommands, Gen, Keys, Features
  <2>2. Document(Over(Only(o.kind, o.on), root))
    BY <2>1, OnlyDocument, OverDocument
  <2> QED BY <1>3, <2>2 DEF update_config
<1>4. o.kind \in {"gen", "merge", "policy", "autoload"}
  BY DEF Commands, ConfigCommands, Gen
<1> QED BY <1>1, <1>2, <1>3, <1>4

-------------------------------------------------------------------------------
\* Effects.

\* What a document says of a feature, by the format it has.
LEMMA Applied ==
    ASSUME NEW d, NEW k \in Features
    PROVE  /\ has_split_features(d) \/ k \notin Projections \cup {"selinux", "stealth"}
                => apply_config_document(d)[k] = json_bool_or(d, k, Config[k])
           /\ ~has_split_features(d) /\ k \in Projections
                => apply_config_document(d)[k] = json_bool_or(d, "hidexattr", FALSE)
           /\ ~has_split_features(d) /\ k \in {"selinux", "stealth"}
                => apply_config_document(d)[k]
                     = (json_bool_or(d, k, Config[k]) \/ json_bool_or(d, "hidexattr", FALSE))
<1> DEFINE read == [x \in Features |-> json_bool_or(d, x, Config[x])]
           switch == json_bool_or(d, "hidexattr", FALSE)
<1> HIDE DEF switch
<1>1. CASE has_split_features(d)
  <2>1. apply_config_document(d) = read
    BY <1>1 DEF apply_config_document
  <2> QED BY <1>1, <2>1
<1>2. CASE ~has_split_features(d)
  <2>1. apply_config_document(d) = [x \in Features |->
                CASE x \in Projections -> switch
                  [] x \in {"selinux", "stealth"} -> read[x] \/ switch
                  [] OTHER -> read[x]]
    BY <1>2, Zenon DEF apply_config_document, switch
  <2>2. CASE k \in Projections
    <3>1. apply_config_document(d)[k] = switch
      BY <2>1, <2>2 DEF Projections
    <3> QED BY <1>2, <2>2, <3>1 DEF Projections, switch
  <2>3. CASE k \in {"selinux", "stealth"}
    <3>1. k \notin Projections
      BY <2>3 DEF Projections
    <3>2. apply_config_document(d)[k] = (read[k] \/ switch)
      BY <2>1, <2>3, <3>1
    <3> QED BY <1>2, <2>3, <3>1, <3>2 DEF switch
  <2>4. CASE k \notin Projections \cup {"selinux", "stealth"}
    <3>1. apply_config_document(d)[k] = read[k]
      BY <2>1, <2>4
    <3> QED BY <1>2, <2>4, <3>1
  <2> QED BY <2>2, <2>3, <2>4
<1> QED BY <1>1, <1>2

LEMMA EffectOf ==
    ASSUME NEW d, Document(d), NEW old \in BOOLEAN, NEW k \in Features
    PROVE  InEffect({d}, old)[k] =
             IF k # "autoload" THEN apply_config_document(d)[k]
             ELSE json_bool_or(d, k, old)
<1>1. {d} # {} /\ (CHOOSE x \in {d} : TRUE) = d
  OBVIOUS
<1>2. InEffect({d}, old) = [apply_config_document(d) EXCEPT !["autoload"] = get_autoload({d}, old)]
  BY <1>1 DEF InEffect
<1>3. DOMAIN apply_config_document(d) = Features
  BY DEF apply_config_document
<1>4. get_autoload({d}, old) = json_bool_or(d, "autoload", old)
  <2>1. CASE "autoload" \in DOMAIN d
    <3>1. d["autoload"] \in BOOLEAN
      BY <2>1 DEF Document
    <3>2. (\E x \in {d} : x["autoload"]) = d["autoload"]
      BY <3>1
    <3> QED BY <2>1, <3>2 DEF get_autoload, json_bool_or
  <2>2. CASE "autoload" \notin DOMAIN d
    BY <2>2 DEF get_autoload, json_bool_or
  <2> QED BY <2>1, <2>2
<1> QED BY <1>2, <1>3, <1>4

LEMMA EffectOfNone ==
    ASSUME NEW k \in Features, NEW old \in BOOLEAN, old => k # "autoload"
    PROVE  InEffect({}, old)[k] = Config[k]
<1>1. get_autoload({}, old) = old
  BY DEF get_autoload
<1>2. InEffect({}, old) = [Config EXCEPT !["autoload"] = old]
  BY <1>1 DEF InEffect
<1> QED BY <1>2 DEF Config

LEMMA EffectOfDefault ==
    ASSUME NEW k \in Features, NEW old \in BOOLEAN
    PROVE  InEffect({default_config_json}, old)[k] = Config[k]
<1> DEFINE d == default_config_json
<1>1. /\ DOMAIN d = Features \cup {"version"}
      /\ d["version"]
  BY DEF default_config_json
<1>2. k # "version"
  BY DEF Features, Projections
<1>3. d[k] = (k = "stealth")
  BY <1>2 DEF default_config_json
<1>4. d[k] = Config[k]
  BY <1>3 DEF Config
<1>5. has_split_features(d)
  BY <1>1 DEF has_split_features, json_bool_or
<1>6. apply_config_document(d)[k] = Config[k]
  BY <1>1, <1>5, <1>4, Applied DEF json_bool_or
<1>7. json_bool_or(d, k, old) = Config[k]
  BY <1>1, <1>4 DEF json_bool_or
<1> QED BY <1>6, <1>7, EffectOf, DefaultDocument

\* Documents that agree on a feature, and on the switch if they have no features of their
\* own, are of one effect on it.
LEMMA SameEffect ==
    ASSUME NEW c, NEW d, NEW k \in Features,
           json_bool_or(c, k, Config[k]) = json_bool_or(d, k, Config[k]),
           \/ k \notin Projections \cup {"selinux", "stealth"}
           \/ /\ has_split_features(c) <=> has_split_features(d)
              /\ json_bool_or(c, "hidexattr", FALSE) = json_bool_or(d, "hidexattr", FALSE)
    PROVE  apply_config_document(c)[k] = apply_config_document(d)[k]
<1>1. CASE k \notin Projections \cup {"selinux", "stealth"}
  BY <1>1, Applied
<1>2. CASE k \in Projections
  BY <1>2, Applied
<1>3. CASE k \in {"selinux", "stealth"}
  BY <1>3, Applied
<1> QED BY <1>1, <1>2, <1>3

\* The migration keeps the effect of a file of the legacy format.
LEMMA MigrationKeeps ==
    ASSUME NEW root, Document(root), ~has_split_features(root), NEW k \in Features
    PROVE  /\ json_bool_or(migrated(root), k, Config[k]) = apply_config_document(root)[k]
           /\ "autoload" \in DOMAIN migrated(root) <=> "autoload" \in DOMAIN root
           /\ "autoload" \in DOMAIN root => migrated(root)["autoload"] = root["autoload"]
<1> DEFINE switch == json_bool_or(root, "hidexattr", FALSE)
           new == Projections \cup {"version", "selinux", "stealth"}
           own == [x \in new |->
                     \/ x = "version" \/ switch
                     \/ x = "selinux" /\ json_bool_or(root, x, FALSE)
                     \/ x = "stealth" /\ json_bool_or(root, x, TRUE)]
           rest == Without(root, {"hidexattr"})
<1>1. migrated(root) = Over(own, rest)
  BY DEF migrated
<1>2. DOMAIN rest = DOMAIN root \ {"hidexattr"} /\ \A x \in DOMAIN rest : rest[x] = root[x]
  BY DEF Without
<1>3. /\ DOMAIN migrated(root) = new \cup (DOMAIN root \ {"hidexattr"})
      /\ \A x \in DOMAIN migrated(root) :
            migrated(root)[x] = IF x \in new THEN own[x] ELSE root[x]
  BY <1>1, <1>2 DEF Over
<1>4. "autoload" \notin new
  BY DEF Projections
<1>5. ~(DOMAIN root \cap Projections # {})
  BY DEF has_split_features
<1>6. switch \in BOOLEAN /\ json_bool_or(root, "selinux", FALSE) \in BOOLEAN
      /\ json_bool_or(root, "stealth", TRUE) \in BOOLEAN
  BY Settled
<1>7. json_bool_or(migrated(root), k, Config[k]) = apply_config_document(root)[k]
  <2>1. CASE k \in Projections
    <3>1. k \in new /\ k \notin {"version", "selinux", "stealth"}
      BY <2>1 DEF Projections
    <3>2. own[k] = switch
      BY <3>1, <1>6
    <3>3. json_bool_or(migrated(root), k, Config[k]) = own[k]
      BY <3>1, <1>3 DEF json_bool_or
    <3>4. apply_config_document(root)[k] = switch
      BY <2>1, Applied
    <3> QED BY <3>2, <3>3, <3>4
  <2>2. CASE k = "selinux"
    <3>1. json_bool_or(migrated(root), k, Config[k]) = (switch \/ json_bool_or(root, "selinux", FALSE))
      BY <2>2, <1>3 DEF json_bool_or, Projections
    <3>2. apply_config_document(root)[k] = (json_bool_or(root, "selinux", Config["selinux"]) \/ switch)
      BY <2>2, Applied
    <3>3. Config["selinux"] = FALSE
      BY <2>2 DEF Config
    <3> QED BY <3>1, <3>2, <3>3, <1>6
  <2>3. CASE k = "stealth"
    <3>1. json_bool_or(migrated(root), k, Config[k]) = (switch \/ json_bool_or(root, "stealth", TRUE))
      BY <2>3, <1>3 DEF json_bool_or, Projections
    <3>2. apply_config_document(root)[k] = (json_bool_or(root, "stealth", Config["stealth"]) \/ switch)
      BY <2>3, Applied
    <3>3. Config["stealth"] = TRUE
      BY <2>3 DEF Config
    <3> QED BY <3>1, <3>2, <3>3, <1>6
  <2>4. CASE k \notin Projections \cup {"selinux", "stealth"}
    <3>1. k \notin new /\ k # "hidexattr"
      BY <2>4 DEF Features, Projections
    <3>2. json_bool_or(migrated(root), k, Config[k]) = json_bool_or(root, k, Config[k])
      BY <3>1, <1>3 DEF json_bool_or
    <3>3. apply_config_document(root)[k] = json_bool_or(root, k, Config[k])
      BY <2>4, Applied
    <3> QED BY <3>2, <3>3
  <2> QED BY <2>1, <2>2, <2>3, <2>4
<1> QED BY <1>3, <1>4, <1>7

\* A patch keeps the effect of the features it does not name.
LEMMA MergeKeeps ==
    ASSUME NEW root, Document(root), NEW patch, Document(patch),
           NEW k \in Features, k \notin DOMAIN patch,
           Switches(patch) => k \notin Projections \cup {"selinux", "stealth"},
           NEW new, new = merge_config_json(root, patch)
    PROVE  /\ apply_config_document(new)[k] = apply_config_document(root)[k]
           /\ k = "autoload" =>
                \A old : json_bool_or(new, k, old) = json_bool_or(root, k, old)
<1> DEFINE base == IF ~has_split_features(root) /\ has_split_features(patch)
                   THEN migrated(root) ELSE root
<1>1. /\ DOMAIN new = (DOMAIN patch \cup DOMAIN base) \ {"mode"}
      /\ \A x \in DOMAIN new : new[x] = IF x \in DOMAIN patch THEN patch[x] ELSE base[x]
  <2>1. new = Without(Over(patch, base), {"mode"})
    BY DEF merge_config_json
  <2> QED BY <2>1 DEF Without, Over
<1>2. k # "mode" /\ k # "hidexattr"
  BY DEF Features, Projections
<1>3. \A old : json_bool_or(new, k, old) = json_bool_or(base, k, old)
  BY <1>1, <1>2 DEF json_bool_or
<1>4. CASE ~has_split_features(root) /\ has_split_features(patch)
  <2>1. base = migrated(root)
    BY <1>4
  <2>2. apply_config_document(new)[k] = json_bool_or(new, k, Config[k])
    <3>1. CASE DOMAIN patch \cap Projections # {}
      <4>1. DOMAIN new \cap Projections # {}
        BY <3>1, <1>1 DEF Projections
      <4>2. has_split_features(new)
        BY <4>1 DEF has_split_features
      <4> QED BY <4>2, Applied
    <3>2. CASE DOMAIN patch \cap Projections = {}
      <4>1. "version" \in DOMAIN patch /\ patch["version"]
        BY <3>2, <1>4 DEF has_split_features, json_bool_or
      <4>2. "version" \in DOMAIN new /\ new["version"]
        BY <4>1, <1>1
      <4>3. has_split_features(new)
        BY <4>2 DEF has_split_features, json_bool_or
      <4> QED BY <4>3, Applied
    <3> QED BY <3>1, <3>2
  <2>3. apply_config_document(new)[k] = apply_config_document(root)[k]
    BY <2>1, <2>2, <1>3, <1>4, MigrationKeeps
  <2>4. ASSUME k = "autoload", NEW old
        PROVE  json_bool_or(new, k, old) = json_bool_or(root, k, old)
    <3>1. json_bool_or(new, k, old) = json_bool_or(migrated(root), k, old)
      BY <2>1, <1>3
    <3>2. json_bool_or(migrated(root), k, old) = json_bool_or(root, k, old)
      BY <2>4, <1>4, MigrationKeeps DEF json_bool_or
    <3> QED BY <3>1, <3>2
  <2> QED BY <2>3, <2>4
<1>5. CASE ~(~has_split_features(root) /\ has_split_features(patch))
  <2>1. base = root
    BY <1>5
  <2>2. \A old : json_bool_or(new, k, old) = json_bool_or(root, k, old)
    BY <2>1, <1>3
  <2>3. CASE k \notin Projections \cup {"selinux", "stealth"}
    BY <2>2, <2>3, SameEffect
  <2>4. CASE k \in Projections \cup {"selinux", "stealth"}
    <3>1. "hidexattr" \notin DOMAIN patch /\ ("version" \in DOMAIN patch => patch["version"])
      BY <2>4 DEF Switches
    <3>2. json_bool_or(new, "hidexattr", FALSE) = json_bool_or(root, "hidexattr", FALSE)
      BY <3>1, <2>1, <1>1 DEF json_bool_or
    <3>3. has_split_features(new) <=> has_split_features(root)
      <4>1. CASE has_split_features(root)
        <5>1. CASE DOMAIN root \cap Projections # {}
          <6>1. DOMAIN new \cap Projections # {}
            BY <5>1, <2>1, <1>1 DEF Projections
          <6> QED BY <6>1, <4>1 DEF has_split_features
        <5>2. CASE DOMAIN root \cap Projections = {}
          <6>1. "version" \in DOMAIN root /\ root["version"]
            BY <5>2, <4>1 DEF has_split_features, json_bool_or
          <6>2. "version" \in DOMAIN new /\ new["version"]
            BY <6>1, <3>1, <2>1, <1>1
          <6> QED BY <6>2, <4>1 DEF has_split_features, json_bool_or
        <5> QED BY <5>1, <5>2
      <4>2. CASE ~has_split_features(root)
        <5>1. ~has_split_features(patch)
          BY <4>2, <1>5
        <5>2. DOMAIN patch \cap Projections = {} /\ "version" \notin DOMAIN patch
          BY <5>1, <3>1 DEF has_split_features, json_bool_or
        <5>3. DOMAIN root \cap Projections = {}
          BY <4>2 DEF has_split_features
        <5>4. DOMAIN new \cap Projections = {}
          BY <5>2, <5>3, <2>1, <1>1
        <5>5. json_bool_or(new, "version", FALSE) = json_bool_or(root, "version", FALSE)
          BY <5>2, <2>1, <1>1 DEF json_bool_or
        <5> QED BY <5>3, <5>4, <5>5, <4>2 DEF has_split_features
      <4> QED BY <4>1, <4>2
    <3> QED BY <2>2, <3>2, <3>3, SameEffect
  <2> QED BY <2>2, <2>3, <2>4
<1> QED BY <1>4, <1>5

\* So does every update of a file.
LEMMA UpdateKeeps ==
    ASSUME NEW o \in Commands, NEW root, Document(root),
           NEW k \in Features \ Named(o), NEW old \in BOOLEAN
    PROVE  InEffect({update_config(o, root)}, old)[k] = InEffect({root}, old)[k]
<1> DEFINE new == update_config(o, root)
<1>1. Document(new)
  BY UpdatedDocument
<1>2. /\ apply_config_document(new)[k] = apply_config_document(root)[k]
      /\ k = "autoload" => json_bool_or(new, k, old) = json_bool_or(root, k, old)
  <2>1. CASE o.kind = "gen"
    BY <2>1 DEF Named
  <2>2. CASE o.kind = "merge"
    <3>1. o.patch \in Patches
      BY <2>2 DEF Commands, ConfigCommands, Gen
    <3>2. Document(o.patch)
      BY <3>1, SettingsAssumption DEF Document
    <3>3. k \notin DOMAIN o.patch
          /\ (Switches(o.patch) => k \notin Projections \cup {"selinux", "stealth"})
      BY <2>2 DEF Named
    <3>4. new = merge_config_json(root, o.patch)
      BY <2>2 DEF update_config
    <3> QED BY <3>2, <3>3, <3>4, MergeKeeps
  <2>3. CASE o.kind \in {"policy", "autoload"}
    <3>1. new = Over(Only(o.kind, o.on), root)
      BY <2>3 DEF update_config
    <3>2. /\ DOMAIN new = {o.kind} \cup DOMAIN root
          /\ \A x \in DOMAIN root \ {o.kind} : new[x] = root[x]
      BY <3>1 DEF Over, Only
    <3>3. k # o.kind
      BY <2>3 DEF Named
    <3>4. \A x : x # o.kind => \A b : json_bool_or(new, x, b) = json_bool_or(root, x, b)
      BY <3>2 DEF json_bool_or
    <3>5. o.kind \notin Projections \cup {"version", "hidexattr"}
      BY <2>3 DEF Projections
    <3>6. has_split_features(new) <=> has_split_features(root)
      <4>1. DOMAIN new \cap Projections = DOMAIN root \cap Projections
        BY <3>2, <3>5
      <4>2. json_bool_or(new, "version", FALSE) = json_bool_or(root, "version", FALSE)
        BY <3>4, <3>5
      <4> QED BY <4>1, <4>2 DEF has_split_features
    <3>7. json_bool_or(new, "hidexattr", FALSE) = json_bool_or(root, "hidexattr", FALSE)
      BY <3>4, <3>5
    <3>8. json_bool_or(new, k, Config[k]) = json_bool_or(root, k, Config[k])
      BY <3>3, <3>4
    <3>9. apply_config_document(new)[k] = apply_config_document(root)[k]
      BY <3>6, <3>7, <3>8, SameEffect
    <3> QED BY <3>3, <3>4, <3>9
  <2>4. o.kind \in {"gen", "merge", "policy", "autoload"}
    BY DEF Commands, ConfigCommands, Gen
  <2> QED BY <2>1, <2>2, <2>3, <2>4
<1> QED BY <1>1, <1>2, EffectOf

-------------------------------------------------------------------------------
\* The inductive invariant.

LEMMA InitInv == Init => SettingsInv
<1> SUFFICES ASSUME Init PROVE SettingsInv
  OBVIOUS
<1>1. \A d \in config : config = {d} /\ Document(d)
  BY SettingsAssumption DEF Init, Document
<1>2. \A w \in Processes : pc[w] = "idle" /\ w # Nobody
  BY SettingsAssumption DEF Init, Processes
<1>3. Shape
  <2>1. op \in [Processes -> Commands] /\ DOMAIN draft = Processes
    BY DEF Init, Commands
  <2>2. broken \in BOOLEAN /\ (broken => config = {}) /\ legacy \in BOOLEAN
    BY DEF Init
  <2> QED BY <1>1, <2>1, <2>2 DEF Init, Shape
<1>4. LockInv
  BY <1>2 DEF Init, LockInv
<1>5. GivenInv /\ DraftInv
  BY <1>2 DEF GivenInv, DraftInv
<1>6. LegacyInv
  BY <1>2 DEF Init, LegacyInv
<1> QED BY <1>3, <1>4, <1>5, <1>6 DEF SettingsInv

\* What is about to be renamed is one document, of the file that is still there.
LEMMA Prepared ==
    ASSUME SettingsInv, NEW w \in Processes, pc[w] = "config"
    PROVE  \E root : /\ draft[w] = {update_config(op[w], root)}
                     /\ Document(root) /\ Document(update_config(op[w], root))
                     /\ op[w] # Gen => root \in prepare_config_input
<1>1. PICK root \in IF op[w] = Gen THEN {default_config_json} ELSE prepare_config_input :
           draft[w] = {update_config(op[w], root)}
  BY DEF SettingsInv, DraftInv
<1>2. Document(root)
  BY <1>1, DefaultDocument DEF prepare_config_input, SettingsInv, Shape
<1>3. op[w] \in Commands
  BY DEF SettingsInv, Shape
<1> QED BY <1>1, <1>2, <1>3, UpdatedDocument

\* An autoload command leaves the setting in config.json.
LEMMA AutoloadSaved ==
    ASSUME NEW o, o.kind = "autoload", NEW root
    PROVE  "autoload" \in DOMAIN update_config(o, root)
BY DEF update_config, Over, Only

LEMMA NextInv == SettingsInv /\ [Next]_vars => SettingsInv'
<1> SUFFICES ASSUME SettingsInv, [Next]_vars PROVE SettingsInv'
  OBVIOUS
<1> USE DEF SettingsInv
<1>1. ASSUME NEW w \in Processes, Begin(w) PROVE SettingsInv'
  <2>1. w # Nobody /\ \A v \in Processes : v # Nobody
    BY SettingsAssumption DEF Processes
  <2>2. PICK o \in Given(w) : Accepted(o) /\ op' = [op EXCEPT ![w] = o]
    BY <1>1 DEF Begin
  <2>3. o \in Commands
    BY DEF Given, Commands
  <2>4. lock = Nobody /\ lock' = w /\ pc[w] = "idle" /\ pc' = [pc EXCEPT ![w] = "locked"]
        /\ UNCHANGED <<stores, draft>>
    BY <1>1 DEF Begin, ConfigFileLock, Goto
  <2>5. Shape'
    BY <2>2, <2>3, <2>4 DEF Shape, stores, Document
  <2>6. LockInv'
    BY <2>1, <2>4 DEF LockInv, Shape
  <2>7. GivenInv'
    BY <2>2, <2>4 DEF GivenInv, Shape
  <2>8. DraftInv'
    BY <2>2, <2>4 DEF DraftInv, Shape, stores, prepare_config_input
  <2>9. LegacyInv'
    BY <2>2, <2>4 DEF LegacyInv, Shape, stores
  <2> QED BY <2>5, <2>6, <2>7, <2>8, <2>9
<1>2. ASSUME NEW w \in Processes, Prepare(w) PROVE SettingsInv'
  <2>1. PICK root \in IF op[w] = Gen THEN {default_config_json} ELSE prepare_config_input :
             draft' = [draft EXCEPT ![w] = {update_config(op[w], root)}]
    BY <1>2 DEF Prepare
  <2>2. pc[w] = "locked" /\ pc' = [pc EXCEPT ![w] = "config"] /\ UNCHANGED <<stores, lock, op>>
    BY <1>2 DEF Prepare, Goto
  <2>3. Shape'
    BY <2>1, <2>2 DEF Shape, stores, Document
  <2>4. LockInv'
    BY <2>2 DEF LockInv, Shape
  <2>5. GivenInv'
    BY <2>2 DEF GivenInv, Shape
  <2>6. DraftInv'
    <3> SUFFICES ASSUME NEW v \in Processes, pc'[v] = "config"
                 PROVE  \E r \in IF op[v] = Gen THEN {default_config_json} ELSE prepare_config_input :
                            draft'[v] = {update_config(op[v], r)}
      BY <2>2 DEF DraftInv, stores, prepare_config_input
    <3>1. CASE v = w
      BY <3>1, <2>1 DEF Shape
    <3>2. CASE v # w
      BY <3>2, <2>1, <2>2 DEF Shape, DraftInv
    <3> QED BY <3>1, <3>2
  <2>7. LegacyInv'
    BY <2>2 DEF LegacyInv, Shape, stores
  <2> QED BY <2>3, <2>4, <2>5, <2>6, <2>7
<1>3. ASSUME NEW w \in Processes, Rename(w) PROVE SettingsInv'
  <2>1. PICK root : /\ draft[w] = {update_config(op[w], root)}
                    /\ Document(update_config(op[w], root))
    BY <1>3, Prepared DEF Rename
  <2> DEFINE new == update_config(op[w], root)
  <2>2. config' = {new} /\ Document(new) /\ broken' = FALSE /\ legacy' = legacy
    BY <1>3, <2>1 DEF Rename
  <2>3. lock = w /\ lock' = Nobody /\ pc[w] = "config"
    BY <1>3 DEF Rename, Release, LockInv
  <2>4. \/ op[w].kind = "autoload" /\ pc' = [pc EXCEPT ![w] = "legacy"] /\ UNCHANGED <<op, draft>>
        \/ /\ pc' = [pc EXCEPT ![w] = "idle"]
           /\ op' = [op EXCEPT ![w] = Gen] /\ draft' = [draft EXCEPT ![w] = {}]
    BY <1>3, Zenon DEF Rename, Done, Goto
  <2>5. Gen \in Commands
    BY DEF Commands
  <2> HIDE DEF new
  <2>6. Shape'
    <3>1. \A d \in config' : config' = {d} /\ Document(d)
      BY <2>2
    <3>2. (\A d \in config : config = {d} /\ Document(d))'
      BY <3>1 DEF Document
    <3>3. pc' \in [Processes -> {"idle", "locked", "config", "legacy"}]
          /\ op' \in [Processes -> Commands] /\ DOMAIN draft' = Processes
      BY <2>4, <2>5 DEF Shape
    <3> QED BY <2>2, <2>3, <3>2, <3>3 DEF Shape
  <2>7. LockInv'
    <3>1. \A v \in Processes : v # Nobody
      BY SettingsAssumption DEF Processes
    <3> QED BY <2>3, <2>4, <3>1 DEF LockInv, Shape
  <2>8. GivenInv'
    BY <2>3, <2>4 DEF GivenInv, Shape
  <2>9. DraftInv'
    <3>1. \A v \in Processes : pc'[v] # "config"
      BY <2>3, <2>4 DEF LockInv, Shape
    <3> QED BY <3>1 DEF DraftInv
  <2>10. LegacyInv'
    <3> SUFFICES ASSUME NEW v \in Processes, pc'[v] = "legacy"
                 PROVE  op'[v].kind = "autoload" /\ \E d \in config' : "autoload" \in DOMAIN d
      BY <2>2 DEF LegacyInv
    <3>1. CASE v = w
      <4>1. op[w].kind = "autoload" /\ op' = op
        BY <3>1, <2>4 DEF Shape
      <4>2. "autoload" \in DOMAIN new
        BY <4>1, AutoloadSaved DEF new
      <4> QED BY <3>1, <4>1, <4>2, <2>2
    <3>2. CASE v # w
      <4>1. pc[v] = "legacy" /\ op'[v] = op[v]
        BY <3>2, <2>4 DEF Shape
      <4>2. op[v].kind = "autoload" /\ op[v] \in Given(v)
        BY <4>1 DEF LegacyInv, GivenInv
      <4>3. v = Daemon
        BY <4>2 DEF Given, Gen
      <4>4. op[w] = Gen
        BY <3>2, <4>3, <2>3 DEF GivenInv, Given
      <4>5. new = default_config_json
        BY <4>4 DEF new, update_config, Gen
      <4>6. "autoload" \in DOMAIN new
        BY <4>5 DEF default_config_json, Features
      <4> QED BY <4>1, <4>2, <4>6, <2>2
    <3> QED BY <3>1, <3>2
  <2> QED BY <2>6, <2>7, <2>8, <2>9, <2>10
<1>4. ASSUME NEW w \in Processes, RemoveLegacy(w) PROVE SettingsInv'
  <2>1. /\ pc[w] = "legacy" /\ legacy' = FALSE /\ pc' = [pc EXCEPT ![w] = "idle"]
        /\ op' = [op EXCEPT ![w] = Gen] /\ draft' = [draft EXCEPT ![w] = {}]
        /\ UNCHANGED <<config, broken, lock>>
    BY <1>4 DEF RemoveLegacy, Done, Goto
  <2>2. Shape'
    BY <2>1 DEF Shape, Document, Commands
  <2>3. LockInv' /\ GivenInv'
    BY <2>1 DEF LockInv, GivenInv, Shape
  <2>4. DraftInv'
    BY <2>1 DEF DraftInv, Shape, prepare_config_input
  <2>5. LegacyInv'
    BY <2>1 DEF LegacyInv, Shape
  <2> QED BY <2>2, <2>3, <2>4, <2>5
<1>5. ASSUME NEW w \in Processes, Fail(w) PROVE SettingsInv'
  <2>1. /\ pc[w] # "idle" /\ pc' = [pc EXCEPT ![w] = "idle"]
        /\ op' = [op EXCEPT ![w] = Gen] /\ draft' = [draft EXCEPT ![w] = {}]
        /\ lock' = (IF lock = w THEN Nobody ELSE lock) /\ UNCHANGED stores
    BY <1>5 DEF Fail, Release, Done, Goto
  <2>2. Shape'
    BY <2>1 DEF Shape, stores, Document, Commands
  <2>3. LockInv'
    <3>1. \A v \in Processes : v # Nobody
      BY SettingsAssumption DEF Processes
    <3> QED BY <2>1, <3>1 DEF LockInv, Shape
  <2>4. GivenInv'
    BY <2>1 DEF GivenInv, Shape
  <2>5. DraftInv'
    BY <2>1 DEF DraftInv, Shape, stores, prepare_config_input
  <2>6. LegacyInv'
    BY <2>1 DEF LegacyInv, Shape, stores
  <2> QED BY <2>2, <2>3, <2>4, <2>5, <2>6
<1>6. ASSUME UNCHANGED vars PROVE SettingsInv'
  BY <1>6 DEF vars, stores, local, Shape, Document, LockInv, GivenInv, DraftInv, LegacyInv,
     prepare_config_input
<1> QED BY <1>1, <1>2, <1>3, <1>4, <1>5, <1>6 DEF Next

\* The invariant of every step of every command, of the migration and of a death.
THEOREM Invariance == Spec => []SettingsInv
<1> QED BY InitInv, NextInv, PTL DEF Spec

\* The variables have their types, and a config.json is in preparation only where its
\* lock is held.
THEOREM TypeCorrect == Spec => []TypeOK
<1>1. SettingsInv => TypeOK
  BY DEF SettingsInv, Shape, LockInv, TypeOK, Document
<1> QED BY <1>1, Invariance, PTL

-------------------------------------------------------------------------------
\* A step changes the effect of no setting that its command does not name.

LEMMA RenameKeeps ==
    ASSUME SettingsInv, NEW w \in Processes, Rename(w),
           NEW k \in Features \ Named(op[w]), ~(k = "autoload" /\ Unmigrated)
    PROVE  InEffect(config', legacy')[k] = InEffect(config, legacy)[k]
<1>1. PICK root : /\ draft[w] = {update_config(op[w], root)}
                  /\ Document(root)
                  /\ op[w] # Gen => root \in prepare_config_input
  BY Prepared DEF Rename
<1>2. config' = {update_config(op[w], root)} /\ legacy' = legacy
  BY <1>1 DEF Rename
<1>3. op[w] # Gen
  BY DEF Named, Gen
<1>4. op[w] \in Commands /\ legacy \in BOOLEAN
  BY DEF SettingsInv, Shape
<1>5. InEffect(config', legacy')[k] = InEffect({root}, legacy)[k]
  BY <1>1, <1>2, <1>4, UpdateKeeps
<1>6. CASE config = {} /\ ~broken
  <2>1. root = default_config_json /\ (legacy => k # "autoload")
    BY <1>1, <1>3, <1>6 DEF prepare_config_input, Unmigrated
  <2> QED BY <1>4, <1>5, <1>6, <2>1, EffectOfDefault, EffectOfNone
<1>7. CASE ~(config = {} /\ ~broken)
  <2>1. root \in config
    BY <1>1, <1>3, <1>7 DEF prepare_config_input
  <2>2. config = {root}
    BY <2>1 DEF SettingsInv, Shape
  <2> QED BY <1>5, <2>2
<1> QED BY <1>6, <1>7

\* The legacy file is removed when it has no effect any more.
LEMMA RemovalKeeps ==
    ASSUME SettingsInv, NEW w \in Processes, RemoveLegacy(w), NEW k \in Features
    PROVE  InEffect(config', legacy')[k] = InEffect(config, legacy)[k]
<1>1. pc[w] = "legacy" /\ legacy' = FALSE /\ config' = config
  BY DEF RemoveLegacy
<1>2. PICK d \in config : "autoload" \in DOMAIN d
  BY <1>1 DEF SettingsInv, LegacyInv
<1>3. config = {d} /\ Document(d) /\ legacy \in BOOLEAN
  BY DEF SettingsInv, Shape
<1>4. json_bool_or(d, "autoload", legacy) = json_bool_or(d, "autoload", FALSE)
  BY <1>2 DEF json_bool_or
<1>5. FALSE \in BOOLEAN
  OBVIOUS
<1>6. InEffect({d}, legacy)[k] = InEffect({d}, FALSE)[k]
  <2>1. CASE k = "autoload"
    BY <2>1, <1>3, <1>4, <1>5, EffectOf
  <2>2. CASE k # "autoload"
    BY <2>2, <1>3, <1>5, EffectOf
  <2> QED BY <2>1, <2>2
<1> QED BY <1>1, <1>3, <1>6

\* A file that does not parse is replaced by config gen only.
LEMMA BrokenKept ==
    ASSUME SettingsInv, NEW w \in Processes, Rename(w), broken
    PROVE  w \in Generators
<1>1. pc[w] = "config" /\ config = {}
  BY DEF Rename, SettingsInv, Shape
<1>2. op[w] = Gen
  BY <1>1, Prepared DEF prepare_config_input
<1>3. op[w] \in Given(w)
  BY <1>1 DEF SettingsInv, GivenInv
<1> QED BY <1>2, <1>3 DEF Given, ConfigCommands, Gen, Processes

\* From any config.json or none, with the legacy file or without, and for any patches:
\* only what a command names changes, and autoload where a missing file is started over a
\* legacy setting; and a broken file is left alone.
THEOREM OnlyNamedChanges == Spec => OnlyTheNamed
<1> DEFINE Keeps ==
      /\ \A k \in Features : InEffect(config', legacy')[k] # InEffect(config, legacy)[k]
           => \E w \in Processes :
                Rename(w) /\ (k \in Named(op[w]) \/ (k = "autoload" /\ Unmigrated))
      /\ broken /\ ~broken' => \E g \in Generators : Rename(g)
<1>1. SettingsInv /\ [Next]_vars => [Keeps]_vars
  <2> SUFFICES ASSUME SettingsInv, Next PROVE Keeps
    OBVIOUS
  <2>1. PICK w \in Processes :
          Begin(w) \/ Prepare(w) \/ Rename(w) \/ RemoveLegacy(w) \/ Fail(w)
    BY DEF Next
  <2>2. CASE Begin(w) \/ Prepare(w) \/ Fail(w)
    BY <2>2 DEF Begin, Prepare, Fail, stores
  <2>3. CASE Rename(w)
    BY <2>3, RenameKeeps, BrokenKept
  <2>4. CASE RemoveLegacy(w)
    <3>1. broken' = broken
      BY <2>4 DEF RemoveLegacy
    <3> QED BY <2>4, <3>1, RemovalKeeps
  <2> QED BY <2>1, <2>2, <2>3, <2>4
<1> QED BY <1>1, Invariance, PTL DEF Spec, OnlyTheNamed

-------------------------------------------------------------------------------
\* What a command saved is in effect at once.

\* A document that says something of a feature is followed, except that the legacy switch
\* may turn on what it implies.
LEMMA SaidIsFollowed ==
    ASSUME NEW d, Document(d), NEW k \in Features, k \in DOMAIN d, NEW old \in BOOLEAN
    PROVE  \/ InEffect({d}, old)[k] = d[k]
           \/ /\ k \in {"selinux", "stealth"} /\ InEffect({d}, old)[k]
              /\ ~has_split_features(d) /\ d["hidexattr"]
<1>1. \A b : json_bool_or(d, k, b) = d[k]
  BY DEF json_bool_or
<1>2. CASE k = "autoload"
  BY <1>1, <1>2, EffectOf
<1>3. CASE k # "autoload"
  <2>1. InEffect({d}, old)[k] = apply_config_document(d)[k]
    BY <1>3, EffectOf
  <2>2. CASE has_split_features(d) \/ k \notin Projections \cup {"selinux", "stealth"}
    BY <1>1, <2>1, <2>2, Applied
  <2>3. CASE ~has_split_features(d) /\ k \in Projections
    BY <2>3 DEF has_split_features
  <2>4. CASE ~has_split_features(d) /\ k \in {"selinux", "stealth"}
    <3>1. apply_config_document(d)[k] = (d[k] \/ json_bool_or(d, "hidexattr", FALSE))
      BY <1>1, <2>4, Applied
    <3>2. CASE json_bool_or(d, "hidexattr", FALSE)
      <4>1. d["hidexattr"]
        BY <3>2 DEF json_bool_or
      <4> QED BY <2>1, <2>4, <3>1, <3>2, <4>1
    <3>3. CASE ~json_bool_or(d, "hidexattr", FALSE)
      <4>1. d[k] \in BOOLEAN
        BY DEF Document
      <4> QED BY <2>1, <3>1, <3>3, <4>1
    <3> QED BY <3>2, <3>3
  <2> QED BY <2>2, <2>3, <2>4
<1> QED BY <1>2, <1>3

\* What a command says of a feature is what it writes.
LEMMA SaidIsWritten ==
    ASSUME NEW o \in Commands, o.kind # "gen", NEW root, NEW said,
           said = IF o.kind = "merge" THEN o.patch ELSE Only(o.kind, o.on),
           NEW k \in DOMAIN said \cap Features
    PROVE  k \in DOMAIN update_config(o, root) /\ update_config(o, root)[k] = said[k]
<1>1. k # "mode"
  BY DEF Features, Projections
<1>2. CASE o.kind = "merge"
  <2>1. update_config(o, root) = merge_config_json(root, o.patch)
    BY <1>2 DEF update_config
  <2> QED BY <1>1, <1>2, <2>1 DEF merge_config_json, Without, Over
<1>3. CASE o.kind \in {"policy", "autoload"}
  <2>1. update_config(o, root) = Over(said, root)
    BY <1>3 DEF update_config
  <2> QED BY <2>1 DEF Over
<1>4. o.kind \in {"gen", "merge", "policy", "autoload"}
  BY DEF Commands, ConfigCommands, Gen
<1> QED BY <1>2, <1>3, <1>4

\* For any documents and patches, what a command saved is in effect at once, but for the
\* features that a legacy switch it leaves in place keeps on.
THEOREM SavedTakesEffect == Spec => SavedIsInEffect
<1> DEFINE Effective ==
      \A w \in Processes : Rename(w) /\ op[w].kind # "gen" =>
        LET after == InEffect(config', legacy')
            said == IF op[w].kind = "merge" THEN op[w].patch ELSE Only(op[w].kind, op[w].on)
        IN  \A k \in DOMAIN said \cap Features :
              after[k] = said[k] \/
                (k \in {"selinux", "stealth"} /\ after[k]
                   /\ \E d \in config' : ~has_split_features(d) /\ d["hidexattr"])
<1>1. SettingsInv => [Effective]_vars
  <2> SUFFICES ASSUME SettingsInv, NEW w \in Processes, Rename(w), op[w].kind # "gen",
                      NEW said,
                      said = IF op[w].kind = "merge" THEN op[w].patch
                             ELSE Only(op[w].kind, op[w].on),
                      NEW k \in DOMAIN said \cap Features
               PROVE  \/ InEffect(config', legacy')[k] = said[k]
                      \/ /\ k \in {"selinux", "stealth"} /\ InEffect(config', legacy')[k]
                         /\ \E d \in config' : ~has_split_features(d) /\ d["hidexattr"]
    OBVIOUS
  <2>1. PICK root : draft[w] = {update_config(op[w], root)} /\ Document(update_config(op[w], root))
    BY Prepared DEF Rename
  <2> DEFINE new == update_config(op[w], root)
  <2>2. config' = {new} /\ legacy' = legacy /\ legacy \in BOOLEAN /\ op[w] \in Commands
    BY <2>1 DEF Rename, SettingsInv, Shape
  <2>3. k \in DOMAIN new /\ new[k] = said[k]
    BY <2>2, SaidIsWritten
  <2> HIDE DEF new
  <2> QED BY <2>1, <2>2, <2>3, SaidIsFollowed DEF new
<1> QED BY <1>1, Invariance, PTL DEF SavedIsInEffect

================================================================================
