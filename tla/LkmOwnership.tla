---------------------------- MODULE LkmOwnership ----------------------------
(***************************************************************************)
(* Ownership of the Kasumi kernel module (core/lkm.cpp and the connection  *)
(* of mount/kasumi_client.cpp): how the daemon loads kasumi_lkm, recognises*)
(* the instance it loaded, keeps a control file that pins it, quiesces it  *)
(* and deletes it, while other root processes may insert, use and remove   *)
(* modules of the same name. One boot of the device.                       *)
(*                                                                         *)
(* An instance is known by the nonce it was inserted with. Older modules   *)
(* expose it in sysfs; newer ones tell it to whoever registers a watch,    *)
(* and the cached answer is good until the watch is signalled.             *)
(***************************************************************************)
EXTENDS Naturals

CONSTANTS
    Kinds,                 \* what the modules at hand can do, see below
    MaxLoads,              \* bound: insertions of the module
    SwapsDuringDelete      \* may another process replace the module between the last look
                           \* at its nonce and delete_module(), which takes a name?

\* "modern": watch and quiesce; "legacy": nonce in sysfs, no quiesce;
\* "alien": another protocol version, which the client refuses to talk to.
ASSUME ConstantsAssumption ==
    /\ Kinds \subseteq {"modern", "legacy", "alien"}
    /\ MaxLoads \in Nat
    /\ SwapsDuringDelete \in BOOLEAN

VARIABLES
    lkm,           \* the loaded kasumi_lkm, or NoModule
    made,          \* insertions so far; instance n carries nonce n
    alias,         \* another process has a control file of the module
    heir,          \* a child of the daemon inherited its control file and keeps it
    owner,         \* the ownership file: a nonce, 0 when missing or torn
    pc,            \* where the daemon is in its lkm command
    force,         \* the command is force-unload
    fd,            \* s_kasumi_fd is open (and so pins the module)
    persistent,    \* s_connection_persistent
    watch,         \* the nonce whose watch is live in this daemon, 0 for none
    ready,         \* g_ready_unload_instance
    quiesced,      \* g_unload_status says that quiescing ended in READY
    instance,      \* the nonce this load expects, or this unload is about
    again,         \* this unload retries a deletion after READY
    checked,       \* ghost: the open connection was verified by load or at the start
    orphaned,      \* ghost: the daemon that began to quiesce the module is gone
    stolen         \* ghost: a plain unload deleted a module that is not Kagami's

kernel == <<lkm, made, alias, heir>>
status == <<ready, quiesced>>
locals == <<force, instance, again>>
ghosts == <<checked, orphaned, stolen>>
vars == <<kernel, owner, pc, fd, persistent, watch, status, locals, ghosts>>

NoModule == [id |-> 0, by |-> "nobody", kind |-> "none", state |-> "none"]
Loaded == lkm # NoModule
Ours == lkm.by = "kagami"

\* An active module gives anyone a control file; only one of the client's own
\* protocol can be used for more than asking for its version.
GivesFile == Loaded /\ lkm.state = "active"
Opens == GivesFile /\ lkm.kind # "alien"
Usable == (fd \/ GivesFile) /\ lkm.kind # "alien"

Disconnect == fd' = FALSE /\ persistent' = FALSE /\ checked' = FALSE

-----------------------------------------------------------------------------
(* Recognising an instance.                                                *)

\* A module inserted without a nonce, by a stranger, cannot be told apart.
Exposed == lkm.kind = "legacy" /\ lkm.by # "stranger"

\* module_instance_token(): 0 when the instance cannot be identified.
Token ==
    IF Exposed \/ watch = lkm.id \/ (Usable /\ lkm.kind = "modern" /\ lkm.by # "stranger")
    THEN lkm.id
    ELSE 0

\* Asking for a new watch goes through the control file, which stays open when
\* the connection is persistent and the protocol is the client's.
ReadToken ==
    LET asks == ~Exposed /\ watch # lkm.id IN
    /\ watch' = IF Exposed THEN watch ELSE Token
    /\ fd' = IF asks THEN Usable /\ persistent ELSE fd

\* owns_loaded_module()
Owns == Loaded /\ Token # 0 /\ owner = Token

-----------------------------------------------------------------------------
(* The daemon starts and goes, and other commands use the module.          *)

\* retain_owned_connection(), first part; it is also the end of an unload that
\* could not delete a module without quiesce.
Retain ==
    /\ checked' = FALSE
    /\ IF Loaded /\ ~Owns
       THEN pc' = "idle" /\ persistent' = FALSE
       ELSE pc' = "retain" /\ persistent' = TRUE
    /\ fd' = FALSE
    /\ watch' = IF Exposed \/ ~Opens THEN watch ELSE Token

StartDaemon ==
    /\ pc = "down"
    /\ Retain
    /\ UNCHANGED <<kernel, owner, status, locals, orphaned, stolen>>

RetainOpen ==
    /\ pc = "retain"
    /\ \/ /\ Opens
          /\ fd' = TRUE
          /\ pc' = "recheck"
          /\ UNCHANGED <<persistent, checked>>
       \/ ~Opens /\ Disconnect /\ pc' = "idle"
    /\ UNCHANGED <<kernel, owner, watch, status, locals, orphaned, stolen>>

\* Faulty variant: the instance is trusted once it is connected to.
M_TrustConnection ==
    /\ pc = "recheck"
    /\ pc' = "idle"
    /\ checked' = TRUE
    /\ UNCHANGED <<kernel, owner, fd, persistent, watch, status, locals, orphaned, stolen>>

RetainCheck ==
    /\ pc = "recheck"
    /\ pc' = "idle"
    /\ watch' = IF Exposed THEN watch ELSE Token
    /\ \/ Owns /\ checked' = TRUE /\ UNCHANGED <<fd, persistent>>
       \/ ~Owns /\ Disconnect
    /\ UNCHANGED <<kernel, owner, status, locals, orphaned, stolen>>

\* Any command that asks for the version while the connection is to be kept.
Query ==
    /\ pc = "idle"
    /\ persistent /\ ~fd /\ GivesFile
    /\ fd' = TRUE
    /\ UNCHANGED <<kernel, owner, pc, persistent, watch, status, locals, ghosts>>

\* A command forks a child, which inherits the control file and may outlive it.
Fork ==
    /\ pc = "idle"
    /\ fd
    /\ heir' = TRUE
    /\ UNCHANGED <<lkm, made, alias, owner, pc, fd, persistent, watch, status, locals, ghosts>>

HeirExits ==
    /\ heir
    /\ heir' = FALSE
    /\ UNCHANGED <<lkm, made, alias, owner, pc, fd, persistent, watch, status, locals, ghosts>>

\* A death or a stop; the ownership file may be torn by it.
Stop ==
    /\ pc # "down"
    /\ pc' = "down"
    /\ Disconnect
    /\ watch' = 0
    /\ ready' = 0
    /\ quiesced' = FALSE
    /\ owner' \in IF pc = "record" THEN {owner, 0, instance} ELSE {owner}
    /\ orphaned' = (orphaned \/ (Loaded /\ lkm.state # "active"))
    /\ UNCHANGED <<kernel, locals, stolen>>

-----------------------------------------------------------------------------
(* load().                                                                 *)

\* With a usable module there is nothing to load, with another one nothing can be.
BeginLoad ==
    /\ pc = "idle"
    /\ ~Loaded
    /\ pc' = "insert"
    /\ UNCHANGED <<kernel, owner, fd, persistent, watch, status, locals, ghosts>>

Inserted(by) ==
    /\ ~Loaded
    /\ made < MaxLoads
    /\ made' = made + 1
    /\ \E kind \in Kinds : lkm' = [id |-> made', by |-> by, kind |-> kind, state |-> "active"]

\* Faulty variant: the token is made from a second nonce.
M_SecondNonce ==
    /\ pc = "insert"
    /\ \/ Inserted("kagami") /\ instance' = made' + 1 /\ pc' = "open"
       \/ pc' = "idle" /\ UNCHANGED <<lkm, made, instance>>
    /\ UNCHANGED <<alias, heir, owner, fd, persistent, watch, status, force, again, ghosts>>

\* finit_module(), the helper or init_module(); EEXIST is a failure.
Insert ==
    /\ pc = "insert"
    /\ \/ Inserted("kagami") /\ instance' = made' /\ pc' = "open"
       \/ pc' = "idle" /\ UNCHANGED <<lkm, made, instance>>
    /\ UNCHANGED <<alias, heir, owner, fd, persistent, watch, status, force, again, ghosts>>

LoadOpen ==
    /\ pc = "open"
    /\ \/ Opens /\ fd' = TRUE /\ persistent' = TRUE /\ checked' = FALSE /\ pc' = "verify"
       \/ ~Opens /\ Disconnect /\ pc' = "idle"
    /\ UNCHANGED <<kernel, owner, watch, status, locals, orphaned, stolen>>

LoadVerify ==
    /\ pc = "verify"
    /\ watch' = IF Exposed THEN watch ELSE Token
    /\ \/ Token = instance /\ pc' = "record" /\ UNCHANGED <<fd, persistent, checked>>
       \/ Token # instance /\ pc' = "idle" /\ Disconnect
    /\ UNCHANGED <<kernel, owner, status, locals, orphaned, stolen>>

LoadRecord ==
    /\ pc = "record"
    /\ pc' = "idle"
    /\ \/ /\ owner' = instance
          /\ ready' = 0 /\ quiesced' = FALSE
          /\ checked' = TRUE
          /\ UNCHANGED <<fd, persistent>>
       \/ owner' \in {owner, 0} /\ Disconnect /\ UNCHANGED status
    /\ UNCHANGED <<kernel, watch, locals, orphaned, stolen>>

-----------------------------------------------------------------------------
(* unload(require_ownership).                                              *)

\* Nothing is loaded: the traces of an earlier module are removed.
UnloadNothing ==
    /\ pc = "idle"
    /\ ~Loaded
    /\ ready' = 0 /\ quiesced' = FALSE
    /\ owner' = 0
    /\ Disconnect
    /\ UNCHANGED <<kernel, pc, watch, locals, orphaned, stolen>>

\* The previous status is looked at, and forgotten.
BeginUnload ==
    /\ pc = "idle"
    /\ Loaded
    /\ force' \in BOOLEAN
    /\ instance' = Token
    /\ again' = (ready # 0 /\ ready = Token /\ quiesced)
    /\ ready' = IF again' THEN ready ELSE 0
    /\ quiesced' = FALSE
    /\ ReadToken
    /\ pc' = IF force' THEN "prelude" ELSE "owns"
    /\ UNCHANGED <<kernel, owner, persistent, ghosts>>

UnloadOwns ==
    /\ pc = "owns"
    /\ pc' = IF Owns THEN "prelude" ELSE "idle"
    /\ ReadToken
    /\ UNCHANGED <<kernel, owner, persistent, status, locals, ghosts>>

\* Faulty variant: the READY status of the first attempt is not carried over.
M_StatusForgotten ==
    /\ pc = "prelude"
    /\ \/ again /\ pc' = "look" /\ Disconnect
       \/ ~again /\ pc' = "capability" /\ persistent' = TRUE /\ UNCHANGED <<fd, checked>>
    /\ UNCHANGED <<kernel, owner, watch, status, locals, orphaned, stolen>>

\* After READY only the deletion is retried.
Prelude ==
    /\ pc = "prelude"
    /\ \/ again /\ pc' = "look" /\ quiesced' = TRUE /\ Disconnect
       \/ /\ ~again /\ pc' = "capability"
          /\ persistent' = TRUE
          /\ UNCHANGED <<quiesced, fd, checked>>
    /\ UNCHANGED <<kernel, owner, watch, ready, locals, orphaned, stolen>>

\* A failure here leaves the connection to be kept.
Capability ==
    /\ pc = "capability"
    /\ \/ Usable /\ fd' = TRUE /\ pc' = IF force THEN "prepare" ELSE "still"
       \/ ~Usable /\ fd' = FALSE /\ pc' = "idle"
    /\ UNCHANGED <<kernel, owner, persistent, watch, status, locals, ghosts>>

\* Faulty variant: ownership is not looked at again under the pinned module.
M_StillUnchecked ==
    /\ pc = "still"
    /\ pc' = "prepare"
    /\ UNCHANGED <<kernel, owner, fd, persistent, watch, status, locals, ghosts>>

StillOwns ==
    /\ pc = "still"
    /\ watch' = IF Exposed THEN watch ELSE Token
    /\ \/ Owns /\ pc' = "prepare" /\ UNCHANGED <<fd, persistent, checked>>
       \/ ~Owns /\ pc' = "idle" /\ Disconnect
    /\ UNCHANGED <<kernel, owner, status, locals, orphaned, stolen>>

\* A module without quiesce: its rules are cleared, and the deletion is tried.
PrepareLegacy ==
    /\ pc = "prepare"
    /\ lkm.kind = "legacy"
    /\ Disconnect
    /\ pc' = "look"
    /\ UNCHANGED <<kernel, owner, watch, status, locals, orphaned, stolen>>

\* PREPARE_UNLOAD stops GET_FD at once and for good; READY needs every other
\* control file closed.
PrepareReady ==
    /\ pc = "prepare"
    /\ lkm.kind = "modern"
    /\ ~alias
    /\ lkm' = [lkm EXCEPT !.state = "ready"]
    /\ quiesced' = TRUE
    /\ ready' = Token
    /\ watch' = Token
    /\ Disconnect
    /\ pc' = "look"
    /\ UNCHANGED <<made, alias, heir, owner, locals, orphaned, stolen>>

\* 30 polls were not enough, or the call fails, before or after it took effect.
PrepareFails ==
    /\ pc = "prepare"
    /\ lkm.kind = "modern"
    /\ lkm.state # "ready"
    /\ \E state \in {lkm.state, "draining"} : lkm' = [lkm EXCEPT !.state = state]
    /\ pc' = "idle"
    /\ UNCHANGED <<made, alias, heir, owner, fd, persistent, watch, status, locals, ghosts>>

\* Faulty variant: the nonce is not compared before the deletion.
M_NeverLooks ==
    /\ pc = "look"
    /\ pc' = "delete"
    /\ ReadToken
    /\ UNCHANGED <<kernel, owner, persistent, status, locals, ghosts>>

Look ==
    /\ pc = "look"
    /\ pc' = IF instance # 0 /\ Token # instance THEN "failed" ELSE "delete"
    /\ ReadToken
    /\ UNCHANGED <<kernel, owner, persistent, status, locals, ghosts>>

Deleted == lkm' = NoModule /\ watch' = 0 /\ orphaned' = FALSE

\* delete_module(): the name decides; a reference that is left means another of
\* the five attempts, anything else the end.
Delete ==
    /\ pc = "delete"
    /\ \/ /\ Loaded /\ ~alias /\ ~heir
          /\ Deleted
          /\ stolen' = (stolen \/ (~force /\ ~Ours))
          /\ owner' = 0 /\ ready' = 0
          /\ pc' = "idle"
       \/ /\ Loaded => alias \/ heir
          /\ pc' \in IF Loaded THEN {"look", "failed"} ELSE {"failed"}
          /\ UNCHANGED <<lkm, owner, watch, ready, orphaned, stolen>>
    /\ UNCHANGED <<made, alias, heir, fd, persistent, quiesced, locals, checked>>

\* A module without quiesce that is still Kagami's is connected to again.
UnloadFails ==
    /\ pc = "failed"
    /\ \/ ~quiesced /\ ~force /\ Owns /\ Retain
       \/ (quiesced \/ force \/ ~Owns) /\ pc' = "idle" /\ UNCHANGED <<fd, persistent, watch, checked>>
    /\ UNCHANGED <<kernel, owner, status, locals, orphaned, stolen>>

-----------------------------------------------------------------------------
(* Other root processes.                                                   *)

\* A module that somebody has open cannot be removed.
Calm == pc = "delete" => SwapsDuringDelete

OtherInserts ==
    /\ Calm
    /\ \E by \in {"other", "stranger"} : Inserted(by)
    /\ UNCHANGED <<alias, heir, owner, pc, fd, persistent, watch, status, locals, ghosts>>

OtherRemoves ==
    /\ Calm
    /\ Loaded /\ ~fd /\ ~alias /\ ~heir
    /\ Deleted
    /\ UNCHANGED <<made, alias, heir, owner, pc, fd, persistent, status, locals, checked, stolen>>

OtherOpens ==
    /\ Opens
    /\ ~alias
    /\ alias' = TRUE
    /\ UNCHANGED <<lkm, made, heir, owner, pc, fd, persistent, watch, status, locals, ghosts>>

OtherCloses ==
    /\ alias
    /\ alias' = FALSE
    /\ UNCHANGED <<lkm, made, heir, owner, pc, fd, persistent, watch, status, locals, ghosts>>

\* Only the last watch of a module lives.
OtherWatches ==
    /\ alias
    /\ lkm.kind = "modern"
    /\ watch' = 0
    /\ UNCHANGED <<kernel, owner, pc, fd, persistent, status, locals, ghosts>>

Init ==
    /\ lkm = NoModule
    /\ made = 0
    /\ alias = FALSE
    /\ heir = FALSE
    /\ owner = 0
    /\ pc = "down"
    /\ force = FALSE
    /\ fd = FALSE
    /\ persistent = FALSE
    /\ watch = 0
    /\ ready = 0
    /\ quiesced = FALSE
    /\ instance = 0
    /\ again = FALSE
    /\ checked = FALSE
    /\ orphaned = FALSE
    /\ stolen = FALSE

Next ==
    \/ StartDaemon \/ RetainOpen \/ RetainCheck \/ Query \/ Fork \/ HeirExits \/ Stop
    \/ BeginLoad \/ Insert \/ LoadOpen \/ LoadVerify \/ LoadRecord
    \/ UnloadNothing \/ BeginUnload \/ UnloadOwns \/ Prelude \/ Capability \/ StillOwns
    \/ PrepareLegacy \/ PrepareReady \/ PrepareFails \/ Look \/ Delete \/ UnloadFails
    \/ OtherInserts \/ OtherRemoves \/ OtherOpens \/ OtherCloses \/ OtherWatches

Spec == Init /\ [][Next]_vars

-----------------------------------------------------------------------------
(* Properties.                                                             *)

Nonces == 0..MaxLoads
Modules ==
    [id : 1..MaxLoads, by : {"kagami", "other", "stranger"}, kind : Kinds,
     state : {"active", "draining", "ready"}]

\* Every variable has its type.
TypeOK ==
    /\ lkm \in Modules \cup {NoModule}
    /\ made \in Nonces
    /\ pc \in {"down", "idle", "retain", "recheck", "insert", "open", "verify", "record", "owns",
               "prelude", "capability", "still", "prepare", "look", "delete", "failed"}
    /\ {owner, watch, ready, instance} \subseteq Nonces
    /\ {alias, heir, force, fd, persistent, quiesced, again} \subseteq BOOLEAN
    /\ {checked, orphaned, stolen} \subseteq BOOLEAN

\* A connection that load() or the start of the daemon kept pins a module that
\* Kagami loaded, whatever was removed and inserted while it was being opened.
CheckedIsOurs == checked => Ours

\* A plain unload neither quiesces nor clears the rules of a module that Kagami
\* did not load.
QuiescesOurs == pc = "prepare" /\ ~force => Ours

\* A plain unload deletes nobody else's module.
DeletesOurs == ~stolen

\* What Kagami keeps open, quiesces and deletes without being forced to is the module it
\* loaded itself, at each of the three places where another may have taken its name.
OnlyOurs == CheckedIsOurs /\ QuiescesOurs /\ DeletesOurs

\* Quiescing is terminal, so a module that reached READY must stay deletable:
\* between commands, the daemon that quiesced its own module remembers enough to
\* retry the deletion, however often that failed.
ReadyIsRemembered ==
    pc = "idle" /\ lkm.state = "ready" /\ owner = lkm.id /\ ~orphaned =>
        ready = lkm.id /\ Token = lkm.id /\ quiesced

\* "Keep a capability FD only for built-in Kasumi or for the exact LKM instance
\* loaded by this Kagami boot" (core/daemon.cpp).
RetainedIsOurs == pc = "idle" /\ fd => Ours

=============================================================================
