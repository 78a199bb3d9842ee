-------------------------- MODULE LkmOwnershipProofs --------------------------
(* Theorems about LkmOwnership for any number of insertions of any kinds of    *)
(* modules: an instance is known by its nonce, and no nonce comes twice.       *)
EXTENDS LkmOwnership, TLAPS

USE DEF kernel, status, locals, ghosts

Recorded == {"open", "verify", "record"}
Owned == {"prelude", "capability", "still", "prepare", "look", "delete"}
Away == {"look", "delete", "failed"}

\* Types, with the nonces that are known: none is of an instance yet to come.
Shape ==
    /\ lkm \in Modules \cup {NoModule}
    /\ made \in Nonces /\ lkm.id <= made
    /\ owner \in 0..made /\ instance \in 0..made /\ ready \in 0..made
    /\ pc \in {"down", "idle", "retain", "recheck", "insert", "open", "verify", "record", "owns",
               "prelude", "capability", "still", "prepare", "look", "delete", "failed"}
    /\ watch \in {0, lkm.id}

Booleans ==
    /\ alias \in BOOLEAN /\ heir \in BOOLEAN /\ force \in BOOLEAN /\ fd \in BOOLEAN
    /\ persistent \in BOOLEAN /\ quiesced \in BOOLEAN /\ again \in BOOLEAN
    /\ checked \in BOOLEAN /\ orphaned \in BOOLEAN /\ stolen \in BOOLEAN

\* The ownership file, and the nonce a load expects, name Kagami's module or none.
NamesOurs ==
    /\ owner # 0 /\ owner = lkm.id => Ours
    /\ pc \in Recorded => instance # 0 /\ (instance = lkm.id => Ours)

\* Where the daemon relies on its control file to pin the module, it has it open.
Pinned ==
    /\ fd => Loaded
    /\ pc = "retain" => persistent
    /\ pc \in {"recheck", "verify", "record"} => fd /\ persistent /\ Loaded /\ lkm.kind # "alien"
    /\ pc = "record" => lkm.id = instance
    /\ checked => fd /\ persistent /\ Ours /\ lkm.kind # "alien"
    /\ pc \in {"still", "prepare"} => fd /\ lkm.kind # "alien"
    /\ pc \in Away => ~fd /\ ~persistent

\* What a plain unload is about is Kagami's, from the first look at the ownership file on.
About ==
    /\ pc = "owns" => ~force /\ (instance = 0 => ~Owns)
    /\ pc \in Owned /\ ~force => instance # 0 /\ (instance = lkm.id => Ours)
    /\ pc = "delete" /\ ~force => lkm.id \in {0, instance}

OursInv == Shape /\ Booleans /\ NamesOurs /\ Pinned /\ About /\ QuiescesOurs /\ DeletesOurs

\* A module of Kagami's that is READY and that this daemon quiesced.
Quiesced == lkm.state = "ready" /\ owner = lkm.id /\ ~orphaned

ReadyInv ==
    /\ lkm.state = "ready" => ~fd /\ ~alias /\ lkm.kind = "modern"
    /\ Quiesced =>
        /\ ready = lkm.id /\ watch = lkm.id
        /\ pc \in {"idle", "owns", "prelude", "look", "delete", "failed"}
        /\ IF pc \in {"owns", "prelude"} THEN again ELSE quiesced

-----------------------------------------------------------------------------
\* A nonce that is told is the loaded module's.
LEMMA TokenIs == Token \in {0, lkm.id}
BY DEF Token

\* Nothing loaded is the nonce 0.
LEMMA Instance ==
    ASSUME Shape
    PROVE  /\ lkm.id \in Nat /\ made \in Nat /\ (Loaded <=> lkm.id # 0)
           /\ Ours => Loaded
BY ConstantsAssumption DEF Shape, Modules, NoModule, Loaded, Ours, Nonces

\* The daemon's start and end, and the commands that use the module.
LEMMA DaemonStep ==
    ASSUME OursInv,
           \/ StartDaemon \/ RetainOpen \/ RetainCheck \/ Query
           \/ Fork \/ HeirExits \/ Stop
    PROVE  OursInv'
<1> USE ConstantsAssumption, TokenIs, Instance DEF OursInv
<1>1. CASE StartDaemon
  <2>1. Shape'
    BY <1>1 DEF StartDaemon, Retain, Shape
  <2>2. Booleans'
    BY <1>1 DEF StartDaemon, Retain, Booleans
  <2>3. NamesOurs'
    BY <1>1 DEF StartDaemon, Retain, NamesOurs, Recorded, Ours
  <2>4. Pinned'
    BY <1>1 DEF StartDaemon, Retain, Pinned, Away, Loaded
  <2>5. About'
    BY <1>1 DEF StartDaemon, Retain, About, Owned
  <2>6. QuiescesOurs' /\ DeletesOurs'
    BY <1>1 DEF StartDaemon, Retain, QuiescesOurs, DeletesOurs
  <2>7. QED
    BY <2>1, <2>2, <2>3, <2>4, <2>5, <2>6
<1>2. CASE RetainOpen
  <2>1. Shape'
    BY <1>2 DEF RetainOpen, Disconnect, Shape
  <2>2. Booleans'
    BY <1>2 DEF RetainOpen, Disconnect, Booleans
  <2>3. NamesOurs'
    BY <1>2 DEF RetainOpen, Disconnect, NamesOurs, Recorded, Ours
  <2>4. Pinned'
    <3>1. CASE Opens /\ fd' = TRUE /\ pc' = "recheck" /\ UNCHANGED <<persistent, checked, kernel>>
      <4>1. Loaded' /\ lkm'.kind # "alien" /\ persistent' /\ fd'
        BY <1>2, <3>1 DEF RetainOpen, Pinned, Opens, GivesFile, Loaded
      <4>2. checked' => Ours'
        BY <3>1 DEF Pinned, Ours
      <4>3. QED
        BY <3>1, <4>1, <4>2 DEF Pinned, Away
    <3>2. CASE Disconnect /\ pc' = "idle"
      BY <1>2, <3>2 DEF Disconnect, Pinned, Away
    <3>3. QED
      BY <1>2, <3>1, <3>2 DEF RetainOpen
  <2>5. About'
    BY <1>2 DEF RetainOpen, Disconnect, About, Owned, Owns, Loaded, Token, Exposed, Usable
  <2>6. QuiescesOurs' /\ DeletesOurs'
    BY <1>2 DEF RetainOpen, Disconnect, QuiescesOurs, DeletesOurs
  <2>7. QED
    BY <2>1, <2>2, <2>3, <2>4, <2>5, <2>6
<1>3. CASE RetainCheck
  <2>1. Shape'
    BY <1>3 DEF RetainCheck, Disconnect, Shape
  <2>2. Booleans'
    BY <1>3 DEF RetainCheck, Disconnect, Booleans
  <2>3. NamesOurs'
    BY <1>3 DEF RetainCheck, Disconnect, NamesOurs, Recorded, Ours
  <2>4. Pinned'
    BY <1>3 DEF RetainCheck, Disconnect, Pinned, Away, Loaded, Owns, NamesOurs, Ours
  <2>5. About'
    BY <1>3 DEF RetainCheck, Disconnect, About, Owned
  <2>6. QuiescesOurs' /\ DeletesOurs'
    BY <1>3 DEF RetainCheck, Disconnect, QuiescesOurs, DeletesOurs
  <2>7. QED
    BY <2>1, <2>2, <2>3, <2>4, <2>5, <2>6
<1>4. CASE Query
  <2>1. Shape'
    BY <1>4 DEF Query, Shape
  <2>2. Booleans'
    BY <1>4 DEF Query, Booleans
  <2>3. NamesOurs'
    BY <1>4 DEF Query, NamesOurs, Recorded, Ours
  <2>4. Pinned'
    BY <1>4 DEF Query, Pinned, Away, Loaded, Ours, GivesFile
  <2>5. About'
    BY <1>4 DEF Query, About, Owned
  <2>6. QuiescesOurs' /\ DeletesOurs'
    BY <1>4 DEF Query, QuiescesOurs, DeletesOurs
  <2>7. QED
    BY <2>1, <2>2, <2>3, <2>4, <2>5, <2>6
<1>5. CASE Fork
  <2>1. Shape'
    BY <1>5 DEF Fork, Shape
  <2>2. Booleans'
    BY <1>5 DEF Fork, Booleans
  <2>3. NamesOurs'
    BY <1>5 DEF Fork, NamesOurs, Recorded, Ours
  <2>4. Pinned'
    BY <1>5 DEF Fork, Pinned, Away, Loaded, Ours
  <2>5. About'
    BY <1>5 DEF Fork, About, Owned
  <2>6. QuiescesOurs' /\ DeletesOurs'
    BY <1>5 DEF Fork, QuiescesOurs, DeletesOurs
  <2>7. QED
    BY <2>1, <2>2, <2>3, <2>4, <2>5, <2>6
<1>6. CASE HeirExits
  <2>1. Shape'
    BY <1>6 DEF HeirExits, Shape
  <2>2. Booleans'
    BY <1>6 DEF HeirExits, Booleans
  <2>3. NamesOurs'
    BY <1>6 DEF HeirExits, NamesOurs, Recorded, Ours
  <2>4. Pinned'
    BY <1>6 DEF HeirExits, Pinned, Away, Loaded, Ours
  <2>5. About'
    BY <1>6 DEF HeirExits, About, Owned, Owns, Loaded, Token, Exposed, Usable, GivesFile, Ours
  <2>6. QuiescesOurs' /\ DeletesOurs'
    BY <1>6 DEF HeirExits, QuiescesOurs, DeletesOurs, Ours
  <2>7. QED
    BY <2>1, <2>2, <2>3, <2>4, <2>5, <2>6
<1>7. CASE Stop
  <2>1. Shape'
    BY <1>7 DEF Stop, Disconnect, Shape, Pinned
  <2>2. Booleans'
    BY <1>7 DEF Stop, Disconnect, Booleans
  <2>3. NamesOurs'
    BY <1>7 DEF Stop, Disconnect, NamesOurs, Recorded, Ours, Pinned
  <2>4. Pinned'
    BY <1>7 DEF Stop, Disconnect, Pinned, Away, Loaded
  <2>5. About'
    BY <1>7 DEF Stop, Disconnect, About, Owned
  <2>6. QuiescesOurs' /\ DeletesOurs'
    BY <1>7 DEF Stop, Disconnect, QuiescesOurs, DeletesOurs
  <2>7. QED
    BY <2>1, <2>2, <2>3, <2>4, <2>5, <2>6
<1>8. QED
  BY <1>1, <1>2, <1>3, <1>4, <1>5, <1>6, <1>7

\* load().
LEMMA LoadStep ==
    ASSUME OursInv, BeginLoad \/ Insert \/ LoadOpen \/ LoadVerify \/ LoadRecord
    PROVE  OursInv'
<1> USE ConstantsAssumption, TokenIs, Instance DEF OursInv
<1>1. CASE BeginLoad
  <2>1. Shape'
    BY <1>1 DEF BeginLoad, Shape
  <2>2. Booleans'
    BY <1>1 DEF BeginLoad, Booleans
  <2>3. NamesOurs'
    BY <1>1 DEF BeginLoad, NamesOurs, Recorded, Ours
  <2>4. Pinned'
    BY <1>1 DEF BeginLoad, Pinned, Away, Loaded, Ours, NoModule
  <2>5. About'
    BY <1>1 DEF BeginLoad, About, Owned
  <2>6. QuiescesOurs' /\ DeletesOurs'
    BY <1>1 DEF BeginLoad, QuiescesOurs, DeletesOurs
  <2>7. QED
    BY <2>1, <2>2, <2>3, <2>4, <2>5, <2>6
<1>2. CASE Insert
  <2>1. Shape'
    BY <1>2 DEF Insert, Inserted, Shape, Modules, Nonces, NoModule, Loaded
  <2>2. Booleans'
    BY <1>2 DEF Insert, Inserted, Booleans
  <2>3. NamesOurs'
    BY <1>2 DEF Insert, Inserted, NamesOurs, Recorded, Ours, Shape, Nonces, Loaded, NoModule
  <2>4. Pinned'
    BY <1>2 DEF Insert, Inserted, Pinned, Away, Loaded, Ours, NoModule
  <2>5. About'
    BY <1>2 DEF Insert, Inserted, About, Owned
  <2>6. QuiescesOurs' /\ DeletesOurs'
    BY <1>2 DEF Insert, Inserted, QuiescesOurs, DeletesOurs
  <2>7. QED
    BY <2>1, <2>2, <2>3, <2>4, <2>5, <2>6
<1>3. CASE LoadOpen
  <2>1. Shape'
    BY <1>3 DEF LoadOpen, Disconnect, Shape
  <2>2. Booleans'
    BY <1>3 DEF LoadOpen, Disconnect, Booleans
  <2>3. NamesOurs'
    BY <1>3 DEF LoadOpen, Disconnect, NamesOurs, Recorded, Ours
  <2>4. Pinned'
    BY <1>3 DEF LoadOpen, Disconnect, Pinned, Away, Loaded, Opens, GivesFile, Ours
  <2>5. About'
    BY <1>3 DEF LoadOpen, Disconnect, About, Owned
  <2>6. QuiescesOurs' /\ DeletesOurs'
    BY <1>3 DEF LoadOpen, Disconnect, QuiescesOurs, DeletesOurs
  <2>7. QED
    BY <2>1, <2>2, <2>3, <2>4, <2>5, <2>6
<1>4. CASE LoadVerify
  <2>1. Shape'
    BY <1>4 DEF LoadVerify, Disconnect, Shape
  <2>2. Booleans'
    BY <1>4 DEF LoadVerify, Disconnect, Booleans
  <2>3. NamesOurs'
    BY <1>4 DEF LoadVerify, Disconnect, NamesOurs, Recorded, Ours
  <2>4. Pinned'
    BY <1>4 DEF LoadVerify, Disconnect, Pinned, Away, Loaded, Ours, NamesOurs, Recorded
  <2>5. About'
    BY <1>4 DEF LoadVerify, Disconnect, About, Owned
  <2>6. QuiescesOurs' /\ DeletesOurs'
    BY <1>4 DEF LoadVerify, Disconnect, QuiescesOurs, DeletesOurs
  <2>7. QED
    BY <2>1, <2>2, <2>3, <2>4, <2>5, <2>6
<1>5. CASE LoadRecord
  <2>1. Shape'
    BY <1>5 DEF LoadRecord, Disconnect, Shape
  <2>2. Booleans'
    BY <1>5 DEF LoadRecord, Disconnect, Booleans
  <2>3. NamesOurs'
    BY <1>5 DEF LoadRecord, Disconnect, NamesOurs, Recorded, Ours, Pinned
  <2>4. Pinned'
    BY <1>5 DEF LoadRecord, Disconnect, Pinned, Away, Loaded, Ours, NamesOurs, Recorded
  <2>5. About'
    BY <1>5 DEF LoadRecord, Disconnect, About, Owned
  <2>6. QuiescesOurs' /\ DeletesOurs'
    BY <1>5 DEF LoadRecord, Disconnect, QuiescesOurs, DeletesOurs
  <2>7. QED
    BY <2>1, <2>2, <2>3, <2>4, <2>5, <2>6
<1>6. QED
  BY <1>1, <1>2, <1>3, <1>4, <1>5

\* unload().
LEMMA UnloadStep ==
    ASSUME OursInv,
           \/ UnloadNothing \/ BeginUnload \/ UnloadOwns \/ Prelude \/ Capability \/ StillOwns
           \/ PrepareLegacy \/ PrepareReady \/ PrepareFails \/ Look \/ Delete \/ UnloadFails
    PROVE  OursInv'
<1> USE ConstantsAssumption, TokenIs, Instance DEF OursInv
<1>1. CASE UnloadNothing
  <2>1. Shape'
    BY <1>1 DEF UnloadNothing, Disconnect, Shape
  <2>2. Booleans'
    BY <1>1 DEF UnloadNothing, Disconnect, Booleans
  <2>3. NamesOurs'
    BY <1>1 DEF UnloadNothing, Disconnect, NamesOurs, Recorded, Ours
  <2>4. Pinned'
    BY <1>1 DEF UnloadNothing, Disconnect, Pinned, Away, Loaded, Ours, NoModule
  <2>5. About'
    BY <1>1 DEF UnloadNothing, Disconnect, About, Owned
  <2>6. QuiescesOurs' /\ DeletesOurs'
    BY <1>1 DEF UnloadNothing, Disconnect, QuiescesOurs, DeletesOurs
  <2>7. QED
    BY <2>1, <2>2, <2>3, <2>4, <2>5, <2>6
<1>2. CASE BeginUnload
  <2>1. Shape'
    BY <1>2 DEF BeginUnload, ReadToken, Shape
  <2>2. Booleans'
    BY <1>2 DEF BeginUnload, ReadToken, Booleans, Usable
  <2>3. NamesOurs'
    BY <1>2 DEF BeginUnload, ReadToken, NamesOurs, Recorded, Ours
  <2>4. Pinned'
    BY <1>2 DEF BeginUnload, ReadToken, Pinned, Away, Loaded, Ours, Usable, GivesFile
  <2>5. About'
    BY <1>2 DEF BeginUnload, ReadToken, About, Owned, Owns, Loaded, Token, Exposed, Usable,
       GivesFile, Modules, Shape, NoModule
  <2>6. QuiescesOurs' /\ DeletesOurs'
    BY <1>2 DEF BeginUnload, ReadToken, QuiescesOurs, DeletesOurs
  <2>7. QED
    BY <2>1, <2>2, <2>3, <2>4, <2>5, <2>6
<1>3. CASE UnloadOwns
  <2>1. Shape'
    BY <1>3 DEF UnloadOwns, ReadToken, Shape
  <2>2. Booleans'
    BY <1>3 DEF UnloadOwns, ReadToken, Booleans, Usable
  <2>3. NamesOurs'
    BY <1>3 DEF UnloadOwns, ReadToken, NamesOurs, Recorded, Ours
  <2>4. Pinned'
    BY <1>3 DEF UnloadOwns, ReadToken, Pinned, Away, Loaded, Ours, Usable, GivesFile
  <2>5. About'
    BY <1>3 DEF UnloadOwns, ReadToken, About, Owned, NamesOurs, Owns, Ours
  <2>6. QuiescesOurs' /\ DeletesOurs'
    BY <1>3 DEF UnloadOwns, ReadToken, QuiescesOurs, DeletesOurs
  <2>7. QED
    BY <2>1, <2>2, <2>3, <2>4, <2>5, <2>6
<1>4. CASE Prelude
  <2>1. Shape'
    BY <1>4 DEF Prelude, Disconnect, Shape
  <2>2. Booleans'
    BY <1>4 DEF Prelude, Disconnect, Booleans
  <2>3. NamesOurs'
    BY <1>4 DEF Prelude, Disconnect, NamesOurs, Recorded, Ours
  <2>4. Pinned'
    BY <1>4 DEF Prelude, Disconnect, Pinned, Away, Loaded, Ours
  <2>5. About'
    BY <1>4 DEF Prelude, Disconnect, About, Owned, Ours
  <2>6. QuiescesOurs' /\ DeletesOurs'
    BY <1>4 DEF Prelude, Disconnect, QuiescesOurs, DeletesOurs
  <2>7. QED
    BY <2>1, <2>2, <2>3, <2>4, <2>5, <2>6
<1>5. CASE Capability
  <2>1. Shape'
    BY <1>5 DEF Capability, Shape
  <2>2. Booleans'
    BY <1>5 DEF Capability, Booleans
  <2>3. NamesOurs'
    BY <1>5 DEF Capability, NamesOurs, Recorded, Ours
  <2>4. Pinned'
    BY <1>5 DEF Capability, Pinned, Away, Loaded, Ours, Usable, GivesFile
  <2>5. About'
    BY <1>5 DEF Capability, About, Owned, Ours
  <2>6. QuiescesOurs' /\ DeletesOurs'
    BY <1>5 DEF Capability, QuiescesOurs, DeletesOurs
  <2>7. QED
    BY <2>1, <2>2, <2>3, <2>4, <2>5, <2>6
<1>6. CASE StillOwns
  <2>1. Shape'
    BY <1>6 DEF StillOwns, Disconnect, Shape
  <2>2. Booleans'
    BY <1>6 DEF StillOwns, Disconnect, Booleans
  <2>3. NamesOurs'
    BY <1>6 DEF StillOwns, Disconnect, NamesOurs, Recorded, Ours
  <2>4. Pinned'
    <3>1. CASE pc' = "prepare" /\ UNCHANGED <<fd, persistent, checked, kernel>>
      BY <1>6, <3>1 DEF StillOwns, Pinned, Away, Ours, Loaded
    <3>2. CASE Disconnect /\ pc' = "idle"
      BY <1>6, <3>2 DEF Disconnect, Pinned, Away
    <3>3. QED
      BY <1>6, <3>1, <3>2 DEF StillOwns
  <2>5. About'
    BY <1>6 DEF StillOwns, Disconnect, About, Owned, Ours
  <2>6. QuiescesOurs' /\ DeletesOurs'
    BY <1>6 DEF StillOwns, Disconnect, QuiescesOurs, DeletesOurs, Owns, NamesOurs, Ours
  <2>7. QED
    BY <2>1, <2>2, <2>3, <2>4, <2>5, <2>6
<1>7. CASE PrepareLegacy
  <2>1. Shape'
    BY <1>7 DEF PrepareLegacy, Disconnect, Shape
  <2>2. Booleans'
    BY <1>7 DEF PrepareLegacy, Disconnect, Booleans
  <2>3. NamesOurs'
    BY <1>7 DEF PrepareLegacy, Disconnect, NamesOurs, Recorded, Ours
  <2>4. Pinned'
    BY <1>7 DEF PrepareLegacy, Disconnect, Pinned, Away, Loaded, Ours
  <2>5. About'
    BY <1>7 DEF PrepareLegacy, Disconnect, About, Owned, Ours
  <2>6. QuiescesOurs' /\ DeletesOurs'
    BY <1>7 DEF PrepareLegacy, Disconnect, QuiescesOurs, DeletesOurs
  <2>7. QED
    BY <2>1, <2>2, <2>3, <2>4, <2>5, <2>6
<1>8. CASE PrepareReady
  <2>1. Shape'
    BY <1>8 DEF PrepareReady, Disconnect, Shape, Modules, NoModule, Pinned
  <2>2. Booleans'
    BY <1>8 DEF PrepareReady, Disconnect, Booleans
  <2>3. NamesOurs'
    BY <1>8 DEF PrepareReady, Disconnect, NamesOurs, Recorded, Ours, Shape, Modules, NoModule
  <2>4. Pinned'
    BY <1>8 DEF PrepareReady, Disconnect, Pinned, Away, Loaded
  <2>5. About'
    BY <1>8 DEF PrepareReady, Disconnect, About, Owned, Ours, Shape, Modules, NoModule
  <2>6. QuiescesOurs' /\ DeletesOurs'
    BY <1>8 DEF PrepareReady, Disconnect, QuiescesOurs, DeletesOurs
  <2>7. QED
    BY <2>1, <2>2, <2>3, <2>4, <2>5, <2>6
<1>9. CASE PrepareFails
  <2>1. Shape'
    BY <1>9 DEF PrepareFails, Shape, Modules, NoModule
  <2>2. Booleans'
    BY <1>9 DEF PrepareFails, Booleans
  <2>3. NamesOurs'
    BY <1>9 DEF PrepareFails, NamesOurs, Recorded, Ours, Shape, Modules, NoModule
  <2>4. Pinned'
    BY <1>9 DEF PrepareFails, Pinned, Away, Loaded, Ours, Shape, Modules, NoModule
  <2>5. About'
    BY <1>9 DEF PrepareFails, About, Owned, Ours
  <2>6. QuiescesOurs' /\ DeletesOurs'
    BY <1>9 DEF PrepareFails, QuiescesOurs, DeletesOurs
  <2>7. QED
    BY <2>1, <2>2, <2>3, <2>4, <2>5, <2>6
<1>10. CASE Look
  <2>1. Shape'
    BY <1>10 DEF Look, ReadToken, Shape
  <2>2. Booleans'
    BY <1>10 DEF Look, ReadToken, Booleans, Usable
  <2>3. NamesOurs'
    BY <1>10 DEF Look, ReadToken, NamesOurs, Recorded, Ours
  <2>4. Pinned'
    BY <1>10 DEF Look, ReadToken, Pinned, Away, Loaded, Ours
  <2>5. About'
    BY <1>10 DEF Look, ReadToken, About, Owned, Ours
  <2>6. QuiescesOurs' /\ DeletesOurs'
    BY <1>10 DEF Look, ReadToken, QuiescesOurs, DeletesOurs
  <2>7. QED
    BY <2>1, <2>2, <2>3, <2>4, <2>5, <2>6
<1>11. CASE Delete
  <2>1. Shape'
    BY <1>11 DEF Delete, Deleted, Shape, NoModule, Nonces
  <2>2. Booleans'
    BY <1>11 DEF Delete, Deleted, Booleans
  <2>3. NamesOurs'
    BY <1>11 DEF Delete, Deleted, NamesOurs, Recorded, Ours, NoModule
  <2>4. Pinned'
    BY <1>11 DEF Delete, Deleted, Pinned, Away, Loaded, Ours
  <2>5. About'
    BY <1>11 DEF Delete, Deleted, About, Owned, Ours, NoModule
  <2>6. QuiescesOurs' /\ DeletesOurs'
    <3>1. Loaded /\ ~force => Ours
      BY <1>11 DEF Delete, About, Owned
    <3>2. ~stolen'
      BY <1>11, <3>1 DEF Delete, DeletesOurs
    <3>3. QED
      BY <1>11, <3>2 DEF Delete, QuiescesOurs, DeletesOurs
  <2>7. QED
    BY <2>1, <2>2, <2>3, <2>4, <2>5, <2>6
<1>12. CASE UnloadFails
  <2>1. Shape'
    BY <1>12 DEF UnloadFails, Retain, Shape
  <2>2. Booleans'
    BY <1>12 DEF UnloadFails, Retain, Booleans
  <2>3. NamesOurs'
    BY <1>12 DEF UnloadFails, Retain, NamesOurs, Recorded, Ours
  <2>4. Pinned'
    BY <1>12 DEF UnloadFails, Retain, Pinned, Away, Loaded, Ours
  <2>5. About'
    BY <1>12 DEF UnloadFails, Retain, About, Owned, Ours
  <2>6. QuiescesOurs' /\ DeletesOurs'
    BY <1>12 DEF UnloadFails, Retain, QuiescesOurs, DeletesOurs
  <2>7. QED
    BY <2>1, <2>2, <2>3, <2>4, <2>5, <2>6
<1>13. QED
  BY <1>1, <1>2, <1>3, <1>4, <1>5, <1>6, <1>7, <1>8, <1>9, <1>10, <1>11, <1>12

\* Other root processes, which do not take the name away once it was compared.
LEMMA OthersStep ==
    ASSUME OursInv, ~SwapsDuringDelete,
           \/ OtherInserts \/ OtherRemoves \/ OtherOpens
           \/ OtherCloses \/ OtherWatches
    PROVE  OursInv'
<1> USE ConstantsAssumption, TokenIs, Instance DEF OursInv
<1>1. CASE OtherInserts
  <2>1. Shape'
    BY <1>1 DEF OtherInserts, Inserted, Calm, Shape, Modules, Nonces, NoModule, Loaded
  <2>2. Booleans'
    BY <1>1 DEF OtherInserts, Inserted, Calm, Booleans
  <2>3. NamesOurs'
    BY <1>1 DEF OtherInserts, Inserted, Calm, NamesOurs, Recorded, Ours, Shape, Nonces, Loaded,
       NoModule
  <2>4. Pinned'
    BY <1>1 DEF OtherInserts, Inserted, Calm, Pinned, Away, Loaded, Ours, NoModule
  <2>5. About'
    <3>1. Token' \in {0, lkm'.id}
      BY DEF Token
    <3>2. lkm'.id = made + 1 /\ UNCHANGED <<owner, instance, pc, force>>
      BY <1>1 DEF OtherInserts, Inserted
    <3>3. ~Owns' /\ instance # lkm'.id
      BY <3>1, <3>2 DEF Owns, Shape
    <3>4. pc # "delete"
      BY <1>1 DEF OtherInserts, Calm
    <3>5. QED
      BY <3>2, <3>3, <3>4 DEF About, Owned
  <2>6. QuiescesOurs' /\ DeletesOurs'
    BY <1>1 DEF OtherInserts, Inserted, Calm, QuiescesOurs, DeletesOurs, Pinned
  <2>7. QED
    BY <2>1, <2>2, <2>3, <2>4, <2>5, <2>6
<1>2. CASE OtherRemoves
  <2>1. Shape'
    BY <1>2 DEF OtherRemoves, Deleted, Calm, Shape, NoModule, Nonces
  <2>2. Booleans'
    BY <1>2 DEF OtherRemoves, Deleted, Calm, Booleans
  <2>3. NamesOurs'
    BY <1>2 DEF OtherRemoves, Deleted, Calm, NamesOurs, Recorded, Ours, NoModule
  <2>4. Pinned'
    BY <1>2 DEF OtherRemoves, Deleted, Calm, Pinned, Away, Loaded, Ours
  <2>5. About'
    BY <1>2 DEF OtherRemoves, Deleted, Calm, About, Owned, Owns, Loaded, NoModule
  <2>6. QuiescesOurs' /\ DeletesOurs'
    BY <1>2 DEF OtherRemoves, Deleted, Calm, QuiescesOurs, DeletesOurs, Pinned
  <2>7. QED
    BY <2>1, <2>2, <2>3, <2>4, <2>5, <2>6
<1>3. CASE OtherOpens
  <2>1. Shape'
    BY <1>3 DEF OtherOpens, Shape
  <2>2. Booleans'
    BY <1>3 DEF OtherOpens, Booleans
  <2>3. NamesOurs'
    BY <1>3 DEF OtherOpens, NamesOurs, Recorded, Ours
  <2>4. Pinned'
    BY <1>3 DEF OtherOpens, Pinned, Away, Loaded, Ours
  <2>5. About'
    BY <1>3 DEF OtherOpens, About, Owned, Owns, Loaded, Token, Exposed, Usable, GivesFile, Ours
  <2>6. QuiescesOurs' /\ DeletesOurs'
    BY <1>3 DEF OtherOpens, QuiescesOurs, DeletesOurs, Ours
  <2>7. QED
    BY <2>1, <2>2, <2>3, <2>4, <2>5, <2>6
<1>4. CASE OtherCloses
  <2>1. Shape'
    BY <1>4 DEF OtherCloses, Shape
  <2>2. Booleans'
    BY <1>4 DEF OtherCloses, Booleans
  <2>3. NamesOurs'
    BY <1>4 DEF OtherCloses, NamesOurs, Recorded, Ours
  <2>4. Pinned'
    BY <1>4 DEF OtherCloses, Pinned, Away, Loaded, Ours
  <2>5. About'
    BY <1>4 DEF OtherCloses, About, Owned, Owns, Loaded, Token, Exposed, Usable, GivesFile, Ours
  <2>6. QuiescesOurs' /\ DeletesOurs'
    BY <1>4 DEF OtherCloses, QuiescesOurs, DeletesOurs, Ours
  <2>7. QED
    BY <2>1, <2>2, <2>3, <2>4, <2>5, <2>6
<1>5. CASE OtherWatches
  <2>1. Shape'
    BY <1>5 DEF OtherWatches, Shape
  <2>2. Booleans'
    BY <1>5 DEF OtherWatches, Booleans
  <2>3. NamesOurs'
    BY <1>5 DEF OtherWatches, NamesOurs, Recorded, Ours
  <2>4. Pinned'
    BY <1>5 DEF OtherWatches, Pinned, Away, Loaded, Ours
  <2>5. About'
    BY <1>5 DEF OtherWatches, About, Owned, Owns, Loaded, Token, Exposed, Usable, GivesFile, Ours
  <2>6. QuiescesOurs' /\ DeletesOurs'
    BY <1>5 DEF OtherWatches, QuiescesOurs, DeletesOurs, Ours
  <2>7. QED
    BY <2>1, <2>2, <2>3, <2>4, <2>5, <2>6
<1>6. QED
  BY <1>1, <1>2, <1>3, <1>4, <1>5

\* The memory of a module that was quiesced, from its quiescing to its deletion.
LEMMA ReadyStep == ASSUME OursInv, ReadyInv, Next PROVE ReadyInv'
<1> USE ConstantsAssumption, TokenIs, Instance DEF OursInv, ReadyInv, Quiesced
<1>1. CASE StartDaemon
  BY <1>1 DEF StartDaemon, Retain
<1>2. CASE RetainOpen
  BY <1>2 DEF RetainOpen, Disconnect, Opens, GivesFile
<1>3. CASE RetainCheck
  BY <1>3 DEF RetainCheck, Disconnect, Pinned
<1>4. CASE Query
  BY <1>4 DEF Query, GivesFile
<1>5. CASE Fork
  BY <1>5 DEF Fork
<1>6. CASE HeirExits
  BY <1>6 DEF HeirExits
<1>7. CASE Stop
  <2>1. lkm.state = "ready" => Loaded
    BY DEF Loaded, NoModule
  <2>2. lkm.state = "ready" => orphaned'
    BY <1>7, <2>1 DEF Stop
  <2>3. QED
    BY <1>7, <2>2 DEF Stop, Disconnect
<1>8. CASE BeginLoad
  BY <1>8 DEF BeginLoad, NoModule, Loaded
<1>9. CASE Insert
  BY <1>9 DEF Insert, Inserted
<1>10. CASE LoadOpen
  BY <1>10 DEF LoadOpen, Disconnect, Opens, GivesFile
<1>11. CASE LoadVerify
  BY <1>11 DEF LoadVerify, Disconnect
<1>12. CASE LoadRecord
  BY <1>12 DEF LoadRecord, Disconnect, Pinned
<1>13. CASE UnloadNothing
  BY <1>13 DEF UnloadNothing, Disconnect, Loaded, NoModule
<1>14. CASE BeginUnload
  BY <1>14 DEF BeginUnload, ReadToken, Token, Usable, GivesFile
<1>15. CASE UnloadOwns
  <2>1. Quiesced => Owns
    BY DEF Owns, Token, Loaded, NoModule
  <2>2. lkm.state = "ready" => ~fd'
    BY <1>15 DEF UnloadOwns, ReadToken, Usable, GivesFile
  <2>3. Quiesced => watch' = lkm.id
    BY <1>15 DEF UnloadOwns, ReadToken, Token
  <2>4. QED
    BY <1>15, <2>1, <2>2, <2>3 DEF UnloadOwns
<1>16. CASE Prelude
  BY <1>16 DEF Prelude, Disconnect
<1>17. CASE Capability
  BY <1>17 DEF Capability, Usable, GivesFile
<1>18. CASE StillOwns
  BY <1>18 DEF StillOwns, Disconnect
<1>19. CASE PrepareLegacy
  BY <1>19 DEF PrepareLegacy, Disconnect
<1>20. CASE PrepareReady
  BY <1>20 DEF PrepareReady, Disconnect, Token, Usable, Exposed, NamesOurs, Ours, Shape, Modules,
     NoModule, Pinned
<1>21. CASE PrepareFails
  BY <1>21 DEF PrepareFails, Pinned, Shape, Modules, NoModule
<1>22. CASE Look
  BY <1>22 DEF Look, ReadToken, Token, Usable, GivesFile
<1>23. CASE Delete
  BY <1>23 DEF Delete, Deleted, NoModule
<1>24. CASE UnloadFails
  BY <1>24 DEF UnloadFails, Retain, Opens, GivesFile, Token
<1>25. CASE OtherInserts
  BY <1>25 DEF OtherInserts, Inserted, Calm
<1>26. CASE OtherRemoves
  BY <1>26 DEF OtherRemoves, Deleted, Calm, NoModule
<1>27. CASE OtherOpens
  BY <1>27 DEF OtherOpens, Opens, GivesFile
<1>28. CASE OtherCloses
  BY <1>28 DEF OtherCloses
<1>29. CASE OtherWatches
  BY <1>29 DEF OtherWatches
<1>30. QED
  BY <1>1, <1>2, <1>3, <1>4, <1>5, <1>6, <1>7, <1>8, <1>9, <1>10, <1>11, <1>12, <1>13, <1>14, <1>15,
     <1>16, <1>17, <1>18, <1>19, <1>20, <1>21, <1>22, <1>23, <1>24, <1>25, <1>26, <1>27, <1>28, <1>29
  DEF Next

\* A boot begins with nothing loaded and nothing known.
LEMMA InitOurs == Init => OursInv /\ ReadyInv
<1> SUFFICES ASSUME Init PROVE OursInv /\ ReadyInv
  OBVIOUS
<1> USE ConstantsAssumption DEF Init
<1>1. Shape
  BY DEF Shape, Nonces, NoModule
<1>2. Booleans
  BY DEF Booleans
<1>3. NamesOurs /\ Pinned /\ About /\ QuiescesOurs /\ DeletesOurs
  BY DEF NamesOurs, Pinned, About, QuiescesOurs, DeletesOurs, Recorded, Owned, Away
<1>4. ReadyInv
  BY DEF ReadyInv, Quiesced, NoModule
<1>5. QED
  BY <1>1, <1>2, <1>3, <1>4 DEF OursInv

\* Both invariants together, under the assumption the theorems make.
LEMMA OursInvariant ==
    ASSUME ~SwapsDuringDelete
    PROVE  Spec => [](OursInv /\ ReadyInv)
<1>1. OursInv /\ ReadyInv /\ [Next]_vars => (OursInv /\ ReadyInv)'
  <2> SUFFICES ASSUME OursInv, ReadyInv, [Next]_vars PROVE OursInv' /\ ReadyInv'
    OBVIOUS
  <2>1. CASE Next
    BY <2>1, DaemonStep, LoadStep, UnloadStep, OthersStep, ReadyStep DEF Next
  <2>2. CASE UNCHANGED vars
    BY <2>2 DEF vars, OursInv, Shape, Booleans, NamesOurs, Pinned, About, QuiescesOurs, DeletesOurs,
       ReadyInv, Quiesced, Ours, Loaded, Owns, Token, Exposed, Usable, GivesFile
  <2>3. QED
    BY <2>1, <2>2
<1>2. QED
  BY <1>1, InitOurs, PTL DEF Spec

\* The type invariant. Like the two that follow it assumes that nobody replaces the module
\* between the last look at its nonce and delete_module().
THEOREM TypeCorrect ==
    ASSUME ~SwapsDuringDelete
    PROVE  Spec => []TypeOK
<1>1. OursInv => TypeOK
  <2> SUFFICES ASSUME OursInv PROVE TypeOK
    OBVIOUS
  <2>1. {owner, watch, ready, instance} \subseteq Nonces
    BY ConstantsAssumption, Instance DEF OursInv, Shape, Nonces
  <2>2. /\ {alias, heir, force, fd, persistent, quiesced, again} \subseteq BOOLEAN
        /\ {checked, orphaned, stolen} \subseteq BOOLEAN
    BY DEF OursInv, Booleans
  <2>3. QED
    BY <2>1, <2>2 DEF OursInv, Shape, TypeOK
<1>2. QED
  BY <1>1, OursInvariant, PTL

\* Whoever inserts, removes and watches modules of the same name, and however the steps of
\* the daemon come between, it keeps open, quiesces and deletes only what it loaded.
THEOREM OnlyOursTouched ==
    ASSUME ~SwapsDuringDelete
    PROVE  Spec => []OnlyOurs
<1>1. OursInv => OnlyOurs
  BY DEF OursInv, Pinned, OnlyOurs, CheckedIsOurs, QuiescesOurs, DeletesOurs
<1>2. QED
  BY <1>1, OursInvariant, PTL

\* A module this daemon quiesced can be deleted by a later unload, after any number of
\* deletions that failed.
THEOREM ReadyRemembered ==
    ASSUME ~SwapsDuringDelete
    PROVE  Spec => []ReadyIsRemembered
<1>1. OursInv /\ ReadyInv => ReadyIsRemembered
  BY TokenIs DEF ReadyInv, Quiesced, ReadyIsRemembered, Token
<1>2. QED
  BY <1>1, OursInvariant, PTL
===============================================================================
