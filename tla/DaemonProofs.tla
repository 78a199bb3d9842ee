----------------------------- MODULE DaemonProofs -----------------------------
(***************************************************************************)
(* Theorems about the daemon's life cycle and about the path rules that    *)
(* its serialized commands keep. DaemonLifecycle, for any number of        *)
(* servers and clients: the lifetime lock decides who may touch the socket *)
(* path and the pid file, and who may run commands. ModuleRules, for any   *)
(* rules and trees: the index of the Kasumi planner finds the rule of a    *)
(* path by binary search, and what is planned with it is what the rules    *)
(* say.                                                                    *)
(***************************************************************************)
EXTENDS DaemonLifecycle, ModuleRules, FiniteSetTheorems, SequenceTheorems,
        WellFoundedInduction, TLAPS

Places == {"down", "orphan"} \cup Starting \cup Owning

Shape ==
    /\ pc \in [Servers -> Places]
    /\ child \in [Servers -> {"none", "mount", "helper"}]
    /\ pidfile \in Servers \cup {None, Stale}

\* Whoever has passed flock() and lives holds the lock.
OwnersLock == \A s \in Servers : pc[s] \in Owning => lock = s

\* A child belongs to a command, or to a daemon killed under one; a mount child
\* keeps the lock.
ChildrenLock ==
    \A s \in Servers :
        /\ child[s] # "none" => pc[s] \in {"run", "orphan"}
        /\ child[s] = "mount" => lock = s

\* From bind() to unlink() the path names the server's socket.
AtPath ==
    \A s \in Servers :
        pc[s] \in {"listen", "publish", "accept", "run", "close", "unlink"} => path = s

\* The pid file names a process only while that process serves or leaves.
Named ==
    \A s \in Servers :
        pidfile = s => pc[s] \in {"accept", "run", "close", "unlink", "unpid"}

OwnerInv == Shape /\ OwnersLock /\ ChildrenLock /\ AtPath /\ Named

LEMMA NoneIsNobody == None \notin Servers /\ Stale \notin Servers /\ None # Stale
BY ConstantsAssumption

\* Callers that get an answer are not owners, before or after.
LEMMA Replied ==
    ASSUME NEW s \in Servers, NEW at \in [Servers -> Places], Reply(s, at)
    PROVE  /\ pc' \in [Servers -> Places]
           /\ \A t \in Servers :
                \/ pc'[t] = at[t]
                \/ at[t] \in {"pinging", "courting"} /\ pc'[t] \in {"lock", "probe"}
BY DEF Reply, Places, Starting

LEMMA InitOwner == Init => OwnerInv
BY NoneIsNobody
   DEF Init, OwnerInv, Shape, OwnersLock, ChildrenLock, AtPath, Named, Places, Owning, Closing

LEMMA OwnerStep == OwnerInv /\ [Next]_vars => OwnerInv'
<1> SUFFICES ASSUME OwnerInv, [Next]_vars PROVE OwnerInv'
  OBVIOUS
<1> USE NoneIsNobody
    DEF OwnerInv, Shape, OwnersLock, ChildrenLock, AtPath, Named, Places, Starting, Owning, Closing
<1>1. CASE UNCHANGED vars
  BY <1>1 DEF vars
<1>2. CASE \E c \in Clients, what \in Requests : Send(c, what)
  BY <1>2 DEF Send
<1>3. ASSUME NEW s \in Servers, Launch(s) \/ Look(s) \/ Probe(s) \/ AlreadyRunning(s)
      PROVE  OwnerInv'
  BY <1>3 DEF Launch, Look, Probe, AlreadyRunning, GoTo
<1>4. ASSUME NEW s \in Servers, Ping(s) \/ Court(s)
      PROVE  OwnerInv'
  BY <1>4 DEF Ping, Court, Ask, GoTo
<1>5. ASSUME NEW s \in Servers, TakeLock(s)
      PROVE  OwnerInv'
  BY <1>5 DEF TakeLock, LockFree
<1>6. ASSUME NEW s \in Servers, Clear(s)
      PROVE  OwnerInv'
  BY <1>6 DEF Clear
<1>7. ASSUME NEW s \in Servers, Bind(s)
      PROVE  OwnerInv'
  BY <1>7 DEF Bind
<1>8. ASSUME NEW s \in Servers, Listen(s)
      PROVE  OwnerInv'
  BY <1>8 DEF Listen
<1>9. ASSUME NEW s \in Servers, SetupFails(s)
      PROVE  OwnerInv'
  BY <1>9 DEF SetupFails
<1>10. ASSUME NEW s \in Servers, Publish(s)
       PROVE  OwnerInv'
  BY <1>10 DEF Publish
<1>11. ASSUME NEW s \in Servers, Answer(s)
       PROVE  OwnerInv'
  <2>1. Reply(s, pc) /\ UNCHANGED <<path, pidfile, lock, child>>
    BY <1>11 DEF Answer
  <2>2. QED
    BY <2>1, Replied
<1>12. ASSUME NEW s \in Servers, AcceptStop(s)
       PROVE  OwnerInv'
  <2> DEFINE at == [pc EXCEPT ![s] = "close"]
  <2>1. Reply(s, at) /\ UNCHANGED <<path, pidfile, lock, child>> /\ pc[s] = "accept"
    BY <1>12 DEF AcceptStop, Accepts
  <2>2. at \in [Servers -> Places]
    OBVIOUS
  <2>3. /\ pc' \in [Servers -> Places]
        /\ \A t \in Servers :
             \/ pc'[t] = at[t]
             \/ at[t] \in {"pinging", "courting"} /\ pc'[t] \in {"lock", "probe"}
    BY <2>1, <2>2, Replied
  <2>4. child[s] = "none"
    BY <1>12, <2>1
  <2>5. QED
    BY <2>1, <2>3, <2>4
<1>13. ASSUME NEW s \in Servers, AcceptCommand(s)
       PROVE  OwnerInv'
  BY <1>13 DEF AcceptCommand, Accepts
<1>14. ASSUME NEW s \in Servers, Fork(s)
       PROVE  OwnerInv'
  BY <1>14 DEF Fork
<1>15. ASSUME NEW s \in Servers, EndCommand(s)
       PROVE  OwnerInv'
  BY <1>15 DEF EndCommand
<1>16. ASSUME NEW s \in Servers, Close(s)
       PROVE  OwnerInv'
  <2> DEFINE at == [pc EXCEPT ![s] = "unlink"]
  <2>1. pc' = Disappoint(Dropped(s), at)
    BY <1>16 DEF Close, CloseSocket
  <2>2. UNCHANGED <<path, pidfile, lock, child>> /\ pc[s] = "close"
    BY <1>16 DEF Close
  <2>3. at \in [Servers -> Places]
    OBVIOUS
  <2>4. /\ pc' \in [Servers -> Places]
        /\ \A t \in Servers :
             \/ pc'[t] = at[t]
             \/ at[t] \in {"pinging", "courting"} /\ pc'[t] \in {"court", "probe"}
    BY <2>1, <2>3 DEF Disappoint
  <2>5. QED
    BY <2>2, <2>4
<1>17. ASSUME NEW s \in Servers, Unlink(s) \/ Unpid(s) \/ Unlock(s)
       PROVE  OwnerInv'
  BY <1>17 DEF Unlink, Unpid, Unlock
<1>18. ASSUME NEW s \in Servers, Kill(s)
       PROVE  OwnerInv'
  <2> DEFINE at == [pc EXCEPT ![s] = "down"]
  <2>1. pc' = Disappoint(Dropped(s), at)
    BY <1>18, Zenon DEF Kill, Vanish
  <2>2. /\ lock' = IF lock = s THEN None ELSE lock
        /\ path' = IF path = s THEN Stale ELSE path
        /\ pidfile' = IF pidfile = s THEN Stale ELSE pidfile
        /\ child[s] = "none" /\ child' = child
    BY <1>18, Zenon DEF Kill, Vanish
  <2>3. at \in [Servers -> Places]
    OBVIOUS
  <2>4. /\ pc' \in [Servers -> Places]
        /\ \A t \in Servers :
             \/ pc'[t] = at[t]
             \/ at[t] \in {"pinging", "courting"} /\ pc'[t] \in {"court", "probe"}
    BY <2>1, <2>3 DEF Disappoint
  <2>5. QED
    BY <2>2, <2>4
<1>19. ASSUME NEW s \in Servers, KillParent(s)
       PROVE  OwnerInv'
  BY <1>19 DEF KillParent, ChildKeepsLock
<1>20. ASSUME NEW s \in Servers, ChildExits(s)
       PROVE  OwnerInv'
  <2>1. child' = [child EXCEPT ![s] = "none"] /\ pidfile' = pidfile
    BY <1>20 DEF ChildExits
  <2>2. CASE pc[s] = "run"
    BY <1>20, <2>1, <2>2 DEF ChildExits
  <2>3. CASE pc[s] = "orphan"
    <3> DEFINE at == [pc EXCEPT ![s] = "down"]
    <3>1. pc' = Disappoint(Dropped(s), at)
      BY <1>20, <2>3, Zenon DEF ChildExits, Vanish
    <3>2. /\ lock' = IF lock = s THEN None ELSE lock
          /\ path' = IF path = s THEN Stale ELSE path
      BY <1>20, <2>3, Zenon DEF ChildExits, Vanish
    <3>3. at \in [Servers -> Places]
      OBVIOUS
    <3>4. /\ pc' \in [Servers -> Places]
          /\ \A t \in Servers :
               \/ pc'[t] = at[t]
               \/ at[t] \in {"pinging", "courting"} /\ pc'[t] \in {"court", "probe"}
      BY <3>1, <3>3 DEF Disappoint
    <3>5. /\ pc'[s] = "down" /\ child'[s] = "none"
          /\ \A t \in Servers \ {s} :
               /\ child'[t] = child[t]
               /\ \/ pc'[t] = pc[t]
                  \/ pc[t] \in {"pinging", "courting"} /\ pc'[t] \in {"court", "probe"}
      BY <2>1, <2>3, <3>4
    <3>6. Shape'
      BY <2>1, <3>4
    <3>7. OwnersLock' /\ ChildrenLock'
      BY <3>2, <3>5
    <3>8. AtPath' /\ Named'
      BY <2>1, <2>3, <3>2, <3>5
    <3>9. QED
      BY <3>6, <3>7, <3>8
  <2>4. QED
    BY <1>20, <2>2, <2>3 DEF ChildExits
<1>21. QED
  BY <1>1, <1>2, <1>3, <1>4, <1>5, <1>6, <1>7, <1>8, <1>9, <1>10, <1>11, <1>12, <1>13, <1>14,
     <1>15, <1>16, <1>17, <1>18, <1>19, <1>20 DEF Next

\* A serving daemon is the one its socket path leads to and the one its pid file
\* names, if it names a live process: through concurrent starts, stops, kills and
\* the children they leave.
THEOREM ServingIsReached == Spec => []ServerIsReached
<1>1. OwnerInv => ServerIsReached
  BY DEF OwnerInv, Shape, OwnersLock, AtPath, Named, ServerIsReached, Serving, Owning, Closing
<1>2. QED
  BY <1>1, InitOwner, OwnerStep, PTL DEF Spec

\* Commands, and the mount passes that survive their daemon, never overlap.
THEOREM CommandsSerialized == Spec => []CommandsAreSerial
<1>1. OwnerInv => CommandsAreSerial
  BY DEF OwnerInv, OwnersLock, ChildrenLock, CommandsAreSerial, Owning
<1>2. QED
  BY <1>1, InitOwner, OwnerStep, PTL DEF Spec

-----------------------------------------------------------------------------
\* Types. A queue stays one of callers, whoever is served or hangs up.
LEMMA QueueShorter ==
    ASSUME NEW q \in Seq(Callers), NEW x
    PROVE  /\ HungUp(q, x) \in Seq(Callers)
           /\ q # <<>> => Head(q) \in Callers /\ Tail(q) \in Seq(Callers)
<1> DEFINE i == CHOOSE j \in DOMAIN q : q[j] = x
<1>1. CASE x \in Members(q)
  <2>1. i \in 1 .. Len(q)
    BY <1>1 DEF Members
  <2> HIDE DEF i
  <2>2. SubSeq(q, 1, i - 1) \in Seq(Callers) /\ SubSeq(q, i + 1, Len(q)) \in Seq(Callers)
    BY <2>1
  <2>3. HungUp(q, x) = SubSeq(q, 1, i - 1) \o SubSeq(q, i + 1, Len(q))
    BY <1>1 DEF HungUp, i
  <2> QED BY <2>2, <2>3, SMTT(30)
<1>2. CASE x \notin Members(q)
  BY <1>2 DEF HungUp
<1> QED BY <1>1, <1>2

LEMMA RepliedTyped ==
    ASSUME TypeOK, NEW s \in Servers, NEW at \in [Servers -> Places], Reply(s, at),
           queue[s] # <<>>
    PROVE  /\ pc' \in [Servers -> Places] /\ queue' \in [Servers -> Seq(Callers)]
           /\ request' \in [Clients -> Requests \cup {"none"}]
<1>1. queue[s] \in Seq(Callers)
  BY DEF TypeOK
<1>2. Tail(queue[s]) \in Seq(Callers)
  BY <1>1, QueueShorter
<1>3. queue' \in [Servers -> Seq(Callers)]
  BY <1>2 DEF Reply, TypeOK
<1>4. request' \in [Clients -> Requests \cup {"none"}]
  BY DEF Reply, TypeOK
<1> QED BY <1>3, <1>4, Replied

\* Whoever leaves and whoever it disappoints have places in serve_foreground().
LEMMA Disappointed ==
    ASSUME NEW at \in [Servers -> Places], NEW lost
    PROVE  Disappoint(lost, at) \in [Servers -> Places]
BY DEF Disappoint, Places, Starting

LEMMA VanishTyped ==
    ASSUME TypeOK, NEW s \in Servers, NEW others \in [Servers -> Seq(Callers)], Vanish(s, others)
    PROVE  /\ path' \in Servers \cup {None, Stale} /\ lock' \in Servers \cup {None}
           /\ sock' \in [Servers -> {"none", "bound", "listening"}]
           /\ queue' \in [Servers -> Seq(Callers)]
           /\ pc' \in [Servers -> Places]
           /\ busy' \in [Servers -> Clients \cup {None}]
           /\ request' \in [Clients -> Requests \cup {"none"}]
<1> DEFINE at == [pc EXCEPT ![s] = "down"]
<1>1. at \in [Servers -> Places]
  BY DEF TypeOK, Places
<1>2. pc' = Disappoint(Dropped(s), at)
  BY Zenon DEF Vanish
<1>3. queue' = [t \in Servers |-> IF t = s THEN <<>> ELSE others[t]]
  BY Zenon DEF Vanish
<1>4. queue' \in [Servers -> Seq(Callers)]
  BY <1>3
<1>5. /\ lock' = IF lock = s THEN None ELSE lock
      /\ path' = IF path = s THEN Stale ELSE path
      /\ sock' = [sock EXCEPT ![s] = "none"] /\ busy' = [busy EXCEPT ![s] = None]
      /\ request' = [c \in Clients |-> IF c \in Dropped(s) THEN "none" ELSE request[c]]
  BY Zenon DEF Vanish
<1> HIDE DEF at
<1> QED BY <1>1, <1>2, <1>4, <1>5, Disappointed DEF TypeOK

LEMMA TypeStep == TypeOK /\ [Next]_vars => TypeOK'
<1> SUFFICES ASSUME TypeOK, [Next]_vars PROVE TypeOK'
  OBVIOUS
<1>0. Places = {"down", "orphan"} \cup Starting \cup Owning
  BY DEF Places
<1>1. CASE UNCHANGED vars
  BY <1>1 DEF vars, TypeOK
<1>2. ASSUME NEW c \in Clients, NEW what \in Requests, Send(c, what)
      PROVE  TypeOK'
  BY <1>2 DEF Send, Connect, Reachable, Callers, TypeOK
<1>3. ASSUME NEW s \in Servers, Launch(s) \/ Look(s) \/ Probe(s) \/ AlreadyRunning(s)
      PROVE  TypeOK'
  BY <1>3 DEF Launch, Look, Probe, AlreadyRunning, GoTo, TypeOK, Starting
<1>4. ASSUME NEW s \in Servers, Ping(s) \/ Court(s)
      PROVE  TypeOK'
  <2>1. ASSUME NEW from, NEW to \in Starting, NEW other \in Starting, Ask(s, from, to, other)
        PROVE  TypeOK'
    <3>1. CASE Reachable /\ Connect(s)
      <4>1. queue' \in [Servers -> Seq(Callers)]
        BY <3>1 DEF Connect, Reachable, Callers, TypeOK
      <4>2. \/ pc' = [pc EXCEPT ![s] = to]
               /\ UNCHANGED <<path, pidfile, lock, sock, busy, child, request, calm>>
            \/ ~Reachable
        BY <2>1 DEF Ask
      <4> QED BY <3>1, <4>1, <4>2 DEF TypeOK
    <3>2. CASE GoTo(s, other)
      BY <3>2 DEF GoTo, TypeOK
    <3> QED BY <2>1, <3>1, <3>2 DEF Ask
  <2> QED BY <1>4, <2>1 DEF Ping, Court, Starting
<1>5. ASSUME NEW s \in Servers, TakeLock(s) \/ Clear(s) \/ Bind(s) \/ Listen(s)
      PROVE  TypeOK'
  BY <1>5 DEF TakeLock, Clear, Bind, Listen, TypeOK, Owning
<1>6. ASSUME NEW s \in Servers, SetupFails(s) \/ Publish(s)
      PROVE  TypeOK'
  BY <1>6 DEF SetupFails, Publish, TypeOK, Owning, Closing
<1>7. ASSUME NEW s \in Servers, Answer(s)
      PROVE  TypeOK'
  <2>1. Reply(s, pc) /\ queue[s] # <<>> /\ pc \in [Servers -> Places]
    BY <1>7, <1>0 DEF Answer, Accepts, TypeOK
  <2>2. UNCHANGED <<path, pidfile, lock, sock, busy, child, calm>>
    BY <1>7 DEF Answer
  <2> QED BY <1>0, <2>1, <2>2, RepliedTyped DEF TypeOK
<1>8. ASSUME NEW s \in Servers, AcceptStop(s)
      PROVE  TypeOK'
  <2> DEFINE at == [pc EXCEPT ![s] = "close"]
  <2>1. Reply(s, at) /\ queue[s] # <<>>
    BY <1>8 DEF AcceptStop, Accepts
  <2>2. at \in [Servers -> Places]
    BY <1>0 DEF TypeOK, Owning, Closing
  <2>3. /\ UNCHANGED <<path, pidfile, lock, sock, busy, child>>
        /\ calm' = [t \in Servers |-> FALSE]
    BY <1>8 DEF AcceptStop
  <2> HIDE DEF at
  <2> QED BY <1>0, <2>1, <2>2, <2>3, RepliedTyped DEF TypeOK
<1>9. ASSUME NEW s \in Servers, AcceptCommand(s)
      PROVE  TypeOK'
  <2>1. queue[s] \in Seq(Callers) /\ queue[s] # <<>> /\ Asks(Head(queue[s])) = "command"
    BY <1>9 DEF AcceptCommand, Accepts, TypeOK
  <2>2. Head(queue[s]) \in Callers /\ Tail(queue[s]) \in Seq(Callers)
    BY <2>1, QueueShorter
  <2>3. Head(queue[s]) \in Clients
    BY <2>1, <2>2 DEF Asks, Callers
  <2> QED BY <1>9, <2>2, <2>3 DEF AcceptCommand, TypeOK, Owning
<1>10. ASSUME NEW s \in Servers, Fork(s) \/ EndCommand(s)
       PROVE  TypeOK'
  BY <1>10, ZenonT(40) DEF Fork, EndCommand, TypeOK, Owning
<1>11. ASSUME NEW s \in Servers, Close(s)
       PROVE  TypeOK'
  <2> DEFINE at == [pc EXCEPT ![s] = "unlink"]
  <2>1. at \in [Servers -> Places]
    BY <1>0 DEF TypeOK, Owning, Closing
  <2>2. /\ sock' = [sock EXCEPT ![s] = "none"] /\ queue' = [queue EXCEPT ![s] = <<>>]
        /\ busy' = [busy EXCEPT ![s] = None]
        /\ pc' = Disappoint(Dropped(s), at)
        /\ request' = [c \in Clients |-> IF c \in Dropped(s) THEN "none" ELSE request[c]]
        /\ UNCHANGED <<path, pidfile, lock, child, calm>>
    BY <1>11, Zenon DEF Close, CloseSocket
  <2>3. pc' \in [Servers -> Places]
    BY <2>1, <2>2, Disappointed
  <2>4. queue' \in [Servers -> Seq(Callers)] /\ busy' \in [Servers -> Clients \cup {None}]
    BY <2>2 DEF TypeOK
  <2>5. sock' \in [Servers -> {"none", "bound", "listening"}]
    BY <2>2 DEF TypeOK
  <2>6. request' \in [Clients -> Requests \cup {"none"}]
    BY <2>2 DEF TypeOK
  <2>7. UNCHANGED <<path, pidfile, lock, child, calm>>
    BY <2>2
  <2> QED BY <1>0, <2>3, <2>4, <2>5, <2>6, <2>7 DEF TypeOK
<1>12. ASSUME NEW s \in Servers, Unlink(s) \/ Unpid(s) \/ Unlock(s)
       PROVE  TypeOK'
  <2>1. CASE Unlink(s)
    BY <2>1 DEF Unlink, TypeOK, Owning, Closing
  <2>2. CASE Unpid(s)
    BY <2>2 DEF Unpid, TypeOK, Owning, Closing
  <2>3. CASE Unlock(s)
    BY <2>3 DEF Unlock, TypeOK
  <2> QED BY <1>12, <2>1, <2>2, <2>3
<1>13. ASSUME NEW s \in Servers, Kill(s)
       PROVE  TypeOK'
  <2> DEFINE others == [t \in Servers |-> HungUp(queue[t], s)]
  <2>1. others \in [Servers -> Seq(Callers)]
    BY QueueShorter DEF TypeOK
  <2>2. /\ Vanish(s, others) /\ child' = child /\ calm' = [t \in Servers |-> FALSE]
        /\ pidfile' = IF pidfile = s THEN Stale ELSE pidfile
    BY <1>13, Zenon DEF Kill
  <2> HIDE DEF others
  <2> QED BY <1>0, <2>1, <2>2, VanishTyped DEF TypeOK
<1>14. ASSUME NEW s \in Servers, KillParent(s)
       PROVE  TypeOK'
  BY <1>14 DEF KillParent, TypeOK
<1>15. ASSUME NEW s \in Servers, ChildExits(s)
       PROVE  TypeOK'
  <2>1. child' = [child EXCEPT ![s] = "none"] /\ UNCHANGED <<pidfile, calm>>
    BY <1>15 DEF ChildExits
  <2>2. CASE UNCHANGED <<path, lock, sock, queue, busy, pc, request>>
    BY <2>1, <2>2 DEF TypeOK
  <2>3. CASE Vanish(s, queue)
    <3>1. queue \in [Servers -> Seq(Callers)]
      BY DEF TypeOK
    <3> QED BY <1>0, <2>1, <2>3, <3>1, VanishTyped DEF TypeOK
  <2> QED BY <1>15, <2>2, <2>3 DEF ChildExits
<1> QED
  BY <1>1, <1>2, <1>3, <1>4, <1>5, <1>6, <1>7, <1>8, <1>9, <1>10, <1>11, <1>12, <1>13, <1>14,
     <1>15 DEF Next

\* The state is well formed: every queue is one of callers, and only clients' commands run.
THEOREM TypeCorrect == Spec => []TypeOK
<1>1. Init => TypeOK
  BY DEF Init, TypeOK
<1> QED BY <1>1, TypeStep, PTL DEF Spec

-------------------------------------------------------------------------------
\* Numbers: induction, and the least of some.

\* Induction up to a number, on sets of naturals.
LEMMA UpTo ==
    ASSUME NEW N \in Nat, NEW G, 0 \in G, \A n \in 0 .. N : n \in G /\ n < N => n + 1 \in G
    PROVE  \A n \in 0 .. N : n \in G
<1> DEFINE Below == OpToRel(<, Nat)
           Bad == {n \in 0 .. N : n \notin G}
<1>1. \A x, y \in Nat : x < y => <<x, y>> \in Below
  BY DEF OpToRel
<1>2. IsWellFoundedOn(Below, Nat)
  BY NatLessThanWellFounded
<1> HIDE DEF Below
<1> SUFFICES ASSUME Bad # {} PROVE FALSE
  OBVIOUS
<1>3. Bad \subseteq Nat
  OBVIOUS
<1>4. PICK n \in Bad : \A k \in Bad : <<k, n>> \notin Below
  BY <1>2, <1>3, WFMin
<1>5. n # 0 /\ n \in 0 .. N /\ n \notin G
  BY <1>4
<1>6. PICK k \in 0 .. N : k + 1 = n
  BY <1>5
<1>7. k < n /\ k < N /\ k \in Nat /\ n \in Nat
  BY <1>5, <1>6
<1>8. k \notin G
  BY <1>5, <1>6, <1>7
<1>9. <<k, n>> \in Below
  BY <1>1, <1>7
<1> QED BY <1>4, <1>6, <1>8, <1>9

\* A set of naturals has a least element.
LEMMA Least ==
    ASSUME NEW S, S \subseteq Nat, S # {}
    PROVE  \E n \in S : \A k \in S : n <= k
<1> DEFINE Below == OpToRel(<, Nat)
<1>1. \A x, y \in Nat : x < y => <<x, y>> \in Below
  BY DEF OpToRel
<1>2. IsWellFoundedOn(Below, Nat)
  BY NatLessThanWellFounded
<1> HIDE DEF Below
<1>3. PICK n \in S : \A k \in S : <<k, n>> \notin Below
  BY <1>2, WFMin
<1>4. ASSUME NEW k \in S PROVE n <= k
  <2>1. k \in Nat /\ n \in Nat /\ <<k, n>> \notin Below
    BY <1>3
  <2>2. ~(k < n)
    BY <1>1, <2>1
  <2> QED BY <2>1, <2>2
<1> QED BY <1>4

-------------------------------------------------------------------------------
\* std::lower_bound.

\* One step of the search among count elements, given those among fewer.
Halved(s, below, f, count) ==
    [first \in 1 .. Len(s) + 1 |->
        LET half == count \div 2
        IN  IF count = 0 THEN first
            ELSE IF s[first + half] \in below THEN f[count - half - 1][first + half + 1]
            ELSE f[half][first]]
Searches(s, below, f, n) == f = [count \in 0 .. n |-> Halved(s, below, f, count)]

LEMMA HalvedAlike ==
    ASSUME NEW s, NEW below, NEW f, NEW g, NEW n \in Nat, NEW count \in 0 .. n,
           \A c \in 0 .. n : c < count => f[c] = g[c]
    PROVE  Halved(s, below, f, count) = Halved(s, below, g, count)
<1>1. CASE count = 0
  BY <1>1 DEF Halved
<1>2. CASE count # 0
  <2> DEFINE half == count \div 2
  <2>1. half \in 0 .. n /\ half < count /\ count - half - 1 \in 0 .. n /\ count - half - 1 < count
    BY <1>2
  <2>2. f[half] = g[half] /\ f[count - half - 1] = g[count - half - 1]
    BY <2>1
  <2> QED BY <2>2, <1>2 DEF Halved
<1> QED BY <1>1, <1>2

LEMMA SearchExists ==
    ASSUME NEW s, NEW below, NEW N \in Nat
    PROVE  \E f : Searches(s, below, f, N)
<1> DEFINE G == {n \in Nat : \E f : Searches(s, below, f, n)}
<1>1. 0 \in G
  <2> DEFINE f == [count \in 0 .. 0 |-> Halved(s, below, <<>>, count)]
  <2>1. \A count \in 0 .. 0 : Halved(s, below, <<>>, count) = Halved(s, below, f, count)
    BY HalvedAlike
  <2>2. Searches(s, below, f, 0)
    BY <2>1 DEF Searches
  <2> QED BY <2>2
<1>2. ASSUME NEW n \in 0 .. N, n \in G, n < N
      PROVE  n + 1 \in G
  <2>1. PICK f : Searches(s, below, f, n)
    BY <1>2
  <2> DEFINE g == [count \in 0 .. n + 1 |-> Halved(s, below, f, count)]
  <2>2. \A count \in 0 .. n : f[count] = Halved(s, below, f, count)
    BY <2>1 DEF Searches
  <2>3. \A count \in 0 .. n : g[count] = f[count]
    BY <2>2
  <2> HIDE DEF g
  <2>4. ASSUME NEW count \in 0 .. n + 1, NEW c \in 0 .. n + 1, c < count
        PROVE  f[c] = g[c]
    <3>1. c \in 0 .. n
      BY <2>4
    <3> QED BY <2>3, <3>1
  <2>5. ASSUME NEW count \in 0 .. n + 1
        PROVE  Halved(s, below, f, count) = Halved(s, below, g, count)
    <3>1. n + 1 \in Nat
      OBVIOUS
    <3> QED BY <2>4, <3>1, HalvedAlike
  <2>6. Searches(s, below, g, n + 1)
    BY <2>5 DEF Searches, g
  <2> QED BY <2>6
<1> HIDE DEF G
<1>3. \A n \in 0 .. N : n \in G
  BY <1>1, <1>2, UpTo
<1> QED BY <1>3 DEF G

LEMMA LowerBound ==
    ASSUME NEW S, NEW s \in Seq(S), NEW below
    PROVE  \E f : /\ Searches(s, below, f, Len(s))
                  /\ lower_bound(s, below) = f[Len(s)][1]
<1> DEFINE f == CHOOSE f : f = [count \in 0 .. Len(s) |-> Halved(s, below, f, count)]
<1>1. PICK g : g = [count \in 0 .. Len(s) |-> Halved(s, below, g, count)]
  <2>1. Len(s) \in Nat
    OBVIOUS
  <2>2. PICK g : Searches(s, below, g, Len(s))
    BY <2>1, SearchExists
  <2> QED BY <2>2 DEF Searches
<1>2. f = [count \in 0 .. Len(s) |-> Halved(s, below, f, count)]
  BY <1>1
<1>3. lower_bound(s, below) = f[Len(s)][1]
  BY DEF lower_bound, Halved
<1> QED BY <1>2, <1>3 DEF Searches

\* Among elements of which those in below come first, the first of the others is found.
Split(s, below, k) ==
    /\ k \in 1 .. Len(s) + 1
    /\ \A i \in DOMAIN s : s[i] \in below <=> i < k
LEMMA BoundFound ==
    ASSUME NEW S, NEW s \in Seq(S), NEW below,
           \A i, j \in DOMAIN s : i < j /\ s[j] \in below => s[i] \in below
    PROVE  Split(s, below, lower_bound(s, below))
<1> DEFINE N == Len(s)
           Around(first, count) ==
              /\ first \in 1 .. N + 1 /\ first + count \in 1 .. N + 1
              /\ \A i \in 1 .. N : (i < first => s[i] \in below)
                                  /\ (i >= first + count => s[i] \notin below)
<1>1. PICK f : Searches(s, below, f, N) /\ lower_bound(s, below) = f[N][1]
  BY LowerBound
<1>2. N \in Nat /\ DOMAIN s = 1 .. N
  OBVIOUS
<1> DEFINE Finds(count) == \A first \in 1 .. N + 1 :
                             Around(first, count) => Split(s, below, f[count][first])
           G == {n \in 0 .. N : \A count \in 0 .. n : Finds(count)}
<1> HIDE DEF N
<1>3. \A count \in 0 .. N, first \in 1 .. N + 1 :
         f[count][first] = LET half == count \div 2
                           IN  IF count = 0 THEN first
                               ELSE IF s[first + half] \in below
                               THEN f[count - half - 1][first + half + 1] ELSE f[half][first]
  <2>1. f = [count \in 0 .. N |-> Halved(s, below, f, count)]
    BY <1>1 DEF Searches
  <2>2. \A count \in 0 .. N : f[count] = Halved(s, below, f, count)
    BY <2>1
  <2> SUFFICES ASSUME NEW count \in 0 .. N, NEW first \in 1 .. N + 1
               PROVE  f[count][first] =
                        LET half == count \div 2
                        IN  IF count = 0 THEN first
                            ELSE IF s[first + half] \in below
                            THEN f[count - half - 1][first + half + 1] ELSE f[half][first]
    OBVIOUS
  <2>3. f[count] = Halved(s, below, f, count)
    BY <2>2
  <2>4. Halved(s, below, f, count)[first] =
          LET half == count \div 2
          IN  IF count = 0 THEN first
              ELSE IF s[first + half] \in below
              THEN f[count - half - 1][first + half + 1] ELSE f[half][first]
    BY Zenon DEF Halved, N
  <2> QED BY <2>3, <2>4
<1>4. 0 \in G
  <2> SUFFICES ASSUME NEW first \in 1 .. N + 1, Around(first, 0) PROVE Split(s, below, f[0][first])
    BY <1>2
  <2>1. f[0][first] = first
    BY <1>2, <1>3
  <2> QED BY <1>2, <2>1 DEF Split, N
<1>5. ASSUME NEW n \in 0 .. N, n \in G, n < N
      PROVE  n + 1 \in G
  <2> SUFFICES ASSUME NEW first \in 1 .. N + 1, Around(first, n + 1)
               PROVE  Split(s, below, f[n + 1][first])
    BY <1>2, <1>5
  <2> DEFINE half == (n + 1) \div 2
             mid == first + half
  <2>1. half \in 0 .. n /\ n + 1 - half - 1 \in 0 .. n /\ mid \in 1 .. N /\ mid < first + n + 1
    BY <1>2, <1>5
  <2>2. f[n + 1][first] = IF s[mid] \in below THEN f[n + 1 - half - 1][mid + 1] ELSE f[half][first]
    BY <1>2, <1>3, <1>5
  <2> HIDE DEF half
  <2>3. CASE s[mid] \in below
    <3>1. \A i \in 1 .. N : i < mid + 1 => s[i] \in below
      BY <1>2, <2>1, <2>3
    <3>2. Around(mid + 1, n + 1 - half - 1)
      BY <1>2, <1>5, <2>1, <3>1
    <3>3. Finds(n + 1 - half - 1)
      BY <1>5, <2>1
    <3> QED BY <1>2, <2>1, <2>2, <2>3, <3>2, <3>3
  <2>4. CASE s[mid] \notin below
    <3>1. \A i \in 1 .. N : i >= mid => s[i] \notin below
      BY <1>2, <2>1, <2>4
    <3>2. Around(first, half)
      BY <1>2, <1>5, <2>1, <3>1
    <3>3. Finds(half)
      BY <1>5, <2>1
    <3> QED BY <2>2, <2>4, <3>2, <3>3
  <2> QED BY <2>3, <2>4
<1> HIDE DEF G
<1>6. N \in G
  <2>1. 0 \in G /\ \A n \in 0 .. N : n \in G /\ n < N => n + 1 \in G
    BY <1>4, <1>5
  <2>2. \A n \in 0 .. N : n \in G
    BY <1>2, <2>1, UpTo
  <2> QED BY <1>2, <2>2
<1>7. Around(1, N)
  BY <1>2
<1>8. Finds(N)
  BY <1>2, <1>6 DEF G
<1> QED BY <1>1, <1>2, <1>7, <1>8

-------------------------------------------------------------------------------
\* The order of strings.

Text == Seq(Nat)

LEMMA PrefixMeans ==
    ASSUME NEW s \in Text, NEW t \in Text
    PROVE  IsPrefix(s, t) <=> Len(s) <= Len(t) /\ \A i \in 1 .. Len(s) : s[i] = t[i]
<1>1. CASE Len(s) <= Len(t)
  <2>1. /\ SubSeq(s, 1, Len(s)) = [i \in 1 .. Len(s) |-> s[i]]
        /\ SubSeq(t, 1, Len(s)) = [i \in 1 .. Len(s) |-> t[i]]
    BY <1>1 DEF Text
  <2> QED BY <1>1, <2>1 DEF IsPrefix
<1>2. CASE ~(Len(s) <= Len(t))
  BY <1>2 DEF IsPrefix
<1> QED BY <1>1, <1>2

LEMMA SameText ==
    ASSUME NEW s \in Text, NEW t \in Text, Len(s) = Len(t), \A i \in 1 .. Len(s) : s[i] = t[i]
    PROVE  s = t
<1>1. s \in [1 .. Len(s) -> Nat] /\ t \in [1 .. Len(s) -> Nat]
  BY DEF Text
<1> QED BY <1>1

\* The first difference, where s is over or has the smaller character.
Earlier(s, t, k) ==
    /\ k \in 1 .. Len(t) /\ k \in 1 .. Len(s) + 1
    /\ \A j \in 1 .. k - 1 : s[j] = t[j]
    /\ k <= Len(s) => s[k] < t[k]

LEMMA LessAt ==
    ASSUME NEW s \in Text, NEW t \in Text
    PROVE  Less(s, t) <=> \E k \in Nat : Earlier(s, t, k)
<1>0. Len(s) \in Nat /\ Len(t) \in Nat
  BY DEF Text
<1>7. DOMAIN s = 1 .. Len(s) /\ DOMAIN t = 1 .. Len(t)
  BY DEF Text
<1>1. ASSUME IsStrictPrefix(s, t) PROVE \E k \in Nat : Earlier(s, t, k)
  <2>1. (\A i \in 1 .. Len(s) : s[i] = t[i]) /\ s # t
    BY <1>1, PrefixMeans DEF IsStrictPrefix
  <2>2. Len(s) # Len(t)
    BY <2>1, SameText
  <2>3. Len(s) <= Len(t)
    BY <1>1, PrefixMeans DEF IsStrictPrefix
  <2>4. PICK k \in Nat : k = Len(s) + 1
    BY <1>0
  <2>5. k \in 1 .. Len(t) /\ k \in 1 .. Len(s) + 1 /\ ~(k <= Len(s)) /\ k - 1 = Len(s)
    BY <1>0, <2>2, <2>3, <2>4
  <2>6. Earlier(s, t, k)
    BY <2>1, <2>5, Zenon DEF Earlier
  <2> QED BY <2>6
<1>2. ASSUME NEW i \in DOMAIN s \cap DOMAIN t, s[i] < t[i], \A j \in 1 .. i - 1 : s[j] = t[j]
      PROVE  Earlier(s, t, i)
  BY <1>0, <1>7, <1>2 DEF Earlier
<1>3. ASSUME NEW k \in Nat, Earlier(s, t, k), k <= Len(s)
      PROVE  Less(s, t)
  <2>1. k \in DOMAIN s \cap DOMAIN t /\ s[k] < t[k] /\ \A j \in 1 .. k - 1 : s[j] = t[j]
    BY <1>0, <1>7, <1>3 DEF Earlier
  <2> QED BY <2>1 DEF Less
<1>4. ASSUME NEW k \in Nat, Earlier(s, t, k), k = Len(s) + 1
      PROVE  IsStrictPrefix(s, t)
  <2>1. Len(s) < Len(t) /\ \A i \in 1 .. Len(s) : s[i] = t[i]
    BY <1>0, <1>4 DEF Earlier
  <2> QED BY <1>0, <2>1, PrefixMeans DEF IsStrictPrefix
<1>5. ASSUME NEW k \in Nat, Earlier(s, t, k)
      PROVE  k <= Len(s) \/ k = Len(s) + 1
  BY <1>0, <1>5 DEF Earlier
<1>6. Less(s, t) => \E k \in Nat : Earlier(s, t, k)
  BY <1>0, <1>7, <1>1, <1>2 DEF Less
<1> QED BY <1>3, <1>4, <1>5, <1>6 DEF Less

LEMMA LessIsStrict ==
    ASSUME NEW s \in Text
    PROVE  ~Less(s, s)
<1> SUFFICES ASSUME NEW k \in Nat, Earlier(s, s, k) PROVE FALSE
  BY LessAt
<1>1. k \in 1 .. Len(s) /\ s[k] \in Nat /\ s[k] < s[k]
  BY DEF Earlier, Text
<1> QED BY <1>1

LEMMA LessIsTransitive ==
    ASSUME NEW s \in Text, NEW t \in Text, NEW u \in Text, Less(s, t), Less(t, u)
    PROVE  Less(s, u)
<1>0. Len(s) \in Nat /\ Len(t) \in Nat /\ Len(u) \in Nat
      /\ (\A i \in 1 .. Len(s) : s[i] \in Nat) /\ (\A i \in 1 .. Len(t) : t[i] \in Nat)
      /\ (\A i \in 1 .. Len(u) : u[i] \in Nat)
  BY DEF Text
<1>1. PICK k \in Nat : Earlier(s, t, k)
  BY LessAt
<1>2. PICK l \in Nat : Earlier(t, u, l)
  BY LessAt
<1>3. CASE k <= l
  <2>1. Earlier(s, u, k)
    BY <1>0, <1>1, <1>2, <1>3 DEF Earlier
  <2> QED BY <2>1, LessAt
<1>4. CASE l < k
  <2>1. Earlier(s, u, l)
    BY <1>0, <1>1, <1>2, <1>4 DEF Earlier
  <2> QED BY <2>1, LessAt
<1> QED BY <1>3, <1>4

LEMMA LessIsTotal ==
    ASSUME NEW s \in Text, NEW t \in Text, s # t
    PROVE  Less(s, t) \/ Less(t, s)
<1>0. Len(s) \in Nat /\ Len(t) \in Nat
      /\ (\A i \in 1 .. Len(s) : s[i] \in Nat) /\ (\A i \in 1 .. Len(t) : t[i] \in Nat)
  BY DEF Text
<1> DEFINE D == {k \in 1 .. Len(s) + 1 : /\ k \in 1 .. Len(t) + 1
                                         /\ k <= Len(s) /\ k <= Len(t) => s[k] # t[k]}
<1>1. D # {}
  <2>1. CASE Len(s) <= Len(t)
    <3>1. Len(s) + 1 \in D
      BY <1>0, <2>1
    <3> QED BY <3>1
  <2>2. CASE Len(t) < Len(s)
    <3>1. Len(t) + 1 \in D
      BY <1>0, <2>2
    <3> QED BY <3>1
  <2> QED BY <1>0, <2>1, <2>2
<1>2. PICK k \in D : \A j \in D : k <= j
  <2>1. D \subseteq Nat
    BY <1>0
  <2> HIDE DEF D
  <2> QED BY <1>1, <2>1, Least
<1>3. \A j \in 1 .. k - 1 : j <= Len(s) /\ j <= Len(t) /\ s[j] = t[j]
  <2> SUFFICES ASSUME NEW j \in 1 .. k - 1 PROVE j <= Len(s) /\ j <= Len(t) /\ s[j] = t[j]
    OBVIOUS
  <2>1. k \in 1 .. Len(s) + 1 /\ k \in 1 .. Len(t) + 1
    BY <1>2
  <2>2. j \in 1 .. Len(s) + 1 /\ j \in 1 .. Len(t) + 1 /\ j <= Len(s) /\ j <= Len(t) /\ ~(k <= j)
    BY <1>0, <2>1
  <2>3. j \notin D
    BY <1>2, <2>2
  <2> QED BY <2>2, <2>3
<1>4. ~(k = Len(s) + 1 /\ k = Len(t) + 1)
  BY <1>0, <1>3, SameText
<1>5. Earlier(s, t, k) \/ Earlier(t, s, k)
  BY <1>0, <1>2, <1>3, <1>4 DEF Earlier
<1> QED BY <1>2, <1>5, LessAt

-------------------------------------------------------------------------------
\* Sorting.

Orders(before, S) ==
    /\ \A x \in S : <<x, x>> \notin before
    /\ \A x, y \in S : x # y => <<x, y>> \in before \/ <<y, x>> \in before
    /\ \A x, y, z \in S : <<x, y>> \in before /\ <<y, z>> \in before => <<x, z>> \in before

\* Each element goes to the place its rank gives it.
LEMMA SortedRight ==
    ASSUME NEW S, IsFiniteSet(S), NEW before, Orders(before, S)
    PROVE  /\ Sorted(S, before) \in [1 .. Cardinality(S) -> S]
           /\ \A k, l \in 1 .. Cardinality(S) :
                k < l => <<Sorted(S, before)[k], Sorted(S, before)[l]>> \in before
           /\ \A x \in S : \E k \in 1 .. Cardinality(S) : Sorted(S, before)[k] = x
           /\ Cardinality(S) \in Nat
<1> DEFINE N == Cardinality(S)
           Preceding(x) == {y \in S : y = x \/ <<y, x>> \in before}
           rank == [x \in S |-> Cardinality(Preceding(x))]
<1>1. N \in Nat
  BY FS_CardinalityType
<1>2. \A x \in S : Preceding(x) \in SUBSET S /\ IsFiniteSet(Preceding(x)) /\ Cardinality(Preceding(x)) \in 1 .. N
  <2> SUFFICES ASSUME NEW x \in S
               PROVE  /\ Preceding(x) \in SUBSET S /\ IsFiniteSet(Preceding(x))
                      /\ Cardinality(Preceding(x)) \in 1 .. N
    OBVIOUS
  <2>1. Preceding(x) \in SUBSET S /\ x \in Preceding(x)
    OBVIOUS
  <2> HIDE DEF Preceding
  <2>2. IsFiniteSet(Preceding(x)) /\ Cardinality(Preceding(x)) <= N
    BY <2>1, FS_Subset
  <2>3. Cardinality(Preceding(x)) \in Nat /\ Cardinality(Preceding(x)) # 0
    BY <2>1, <2>2, FS_CardinalityType, FS_EmptySet
  <2> QED BY <1>1, <2>1, <2>2, <2>3
<1>3. ASSUME NEW x \in S, NEW y \in S, <<x, y>> \in before
      PROVE  rank[x] < rank[y]
  <2>1. Preceding(x) \subseteq Preceding(y) /\ y \notin Preceding(x) /\ y \in Preceding(y)
    BY <1>3 DEF Orders
  <2>2. /\ IsFiniteSet(Preceding(x)) /\ IsFiniteSet(Preceding(y))
        /\ Cardinality(Preceding(x)) \in Nat /\ Cardinality(Preceding(y)) \in Nat
    BY <1>1, <1>2
  <2>3. rank[x] = Cardinality(Preceding(x)) /\ rank[y] = Cardinality(Preceding(y))
    OBVIOUS
  <2> HIDE DEF Preceding, rank
  <2>4. Preceding(x) \in SUBSET Preceding(y) /\ Preceding(x) # Preceding(y)
    BY <2>1
  <2>5. Cardinality(Preceding(x)) <= Cardinality(Preceding(y)) /\ Cardinality(Preceding(x)) # Cardinality(Preceding(y))
    BY <2>2, <2>4, FS_Subset
  <2> QED BY <2>2, <2>3, <2>5
<1>4. rank \in [S -> 1 .. N]
  BY <1>2
<1> HIDE DEF rank, Preceding, N
<1>5. rank \in Injection(S, 1 .. N)
  <2>1. \A x, y \in S : x # y => rank[x] # rank[y]
    <3> SUFFICES ASSUME NEW x \in S, NEW y \in S, x # y PROVE rank[x] # rank[y]
      OBVIOUS
    <3>1. rank[x] \in Nat /\ rank[y] \in Nat
      BY <1>1, <1>4
    <3>2. <<x, y>> \in before \/ <<y, x>> \in before
      BY DEF Orders
    <3> QED BY <1>3, <3>1, <3>2
  <2> QED BY <1>4, <2>1 DEF Injection, IsInjective
<1>6. \A k \in 1 .. N : \E x \in S : rank[x] = k
  <2>1. IsFiniteSet(1 .. N) /\ Cardinality(1 .. N) = N
    BY <1>1, FS_Interval
  <2>2. rank \in Surjection(S, 1 .. N)
    BY <1>5, <2>1, FS_Injection DEF N
  <2> QED BY <2>2 DEF Surjection
<1> DEFINE t == [k \in 1 .. N |-> CHOOSE x \in S : rank[x] = k]
<1>7. \A k \in 1 .. N : t[k] \in S /\ rank[t[k]] = k
  BY <1>6
<1>8. t \in [1 .. N -> S]
  BY <1>7
<1>9. ASSUME NEW k \in 1 .. N, NEW l \in 1 .. N, k < l
      PROVE  <<t[k], t[l]>> \in before
  <2>1. t[k] \in S /\ t[l] \in S /\ rank[t[k]] = k /\ rank[t[l]] = l
    BY <1>7
  <2>2. t[k] # t[l]
    BY <1>9, <2>1
  <2>3. ~(<<t[l], t[k]>> \in before)
    BY <1>1, <1>3, <1>9, <2>1
  <2> QED BY <2>1, <2>2, <2>3 DEF Orders
<1> DEFINE s == Sorted(S, before)
<1>10. s \in [1 .. N -> S] /\ \A k, l \in DOMAIN s : k < l => <<s[k], s[l]>> \in before
  <2>1. \E u \in [1 .. N -> S] : \A k, l \in DOMAIN u : k < l => <<u[k], u[l]>> \in before
    BY <1>8, <1>9
  <2> QED BY <2>1 DEF Sorted, N
<1> HIDE DEF s, t
<1>11. s \in Injection(1 .. N, S)
  <2>1. \A k, l \in 1 .. N : k # l => s[k] # s[l]
    <3> SUFFICES ASSUME NEW k \in 1 .. N, NEW l \in 1 .. N, k # l PROVE s[k] # s[l]
      OBVIOUS
    <3>1. k < l \/ l < k
      BY <1>1
    <3> QED BY <1>10, <3>1 DEF Orders
  <2> QED BY <1>10, <2>1 DEF Injection, IsInjective
<1>12. s \in Surjection(1 .. N, S)
  <2>1. Cardinality(1 .. N) = N
    BY <1>1, FS_Interval
  <2> QED BY <1>11, <2>1, FS_Injection DEF N
<1> QED BY <1>1, <1>10, <1>12 DEF Surjection, N, s

-------------------------------------------------------------------------------
\* The index.

Ruling == [path : {p \in Text : Absolute(p)}, mode : Modes, bypass : BOOLEAN]
Lasts(rs) == {i \in DOMAIN rs : \A j \in i + 1 .. Len(rs) : rs[j].path # rs[i].path}

LEMMA Greatest ==
    ASSUME NEW b \in Nat, NEW S \in SUBSET (0 .. b), S # {}
    PROVE  \E n \in S : \A k \in S : k <= n
<1> DEFINE T == {n \in Nat : \A k \in S : k <= n}
<1>1. b \in T
  OBVIOUS
<1>2. PICK n \in T : \A k \in T : n <= k
  BY <1>1, Least
<1>3. n \in S
  <2> SUFFICES ASSUME n \notin S PROVE FALSE
    OBVIOUS
  <2>1. PICK m \in S : TRUE
    OBVIOUS
  <2>2. m < n /\ n - 1 \in Nat
    BY <1>2, <2>1
  <2>3. n - 1 \in T
    BY <1>2, <2>2
  <2> QED BY <1>2, <2>2, <2>3
<1> QED BY <1>2, <1>3

LEMMA RulingText ==
    ASSUME NEW rs \in Seq(Ruling), NEW i \in DOMAIN rs
    PROVE  /\ rs[i] \in Ruling /\ rs[i].path \in Text /\ Len(rs[i].path) \in Nat \ {0}
           /\ rs[i].path # <<>> /\ i \in 1 .. Len(rs) /\ Len(rs) \in Nat
<1>1. rs[i] \in Ruling
  OBVIOUS
<1>2. rs[i].path \in Text /\ rs[i].path # <<>>
  BY <1>1 DEF Ruling, Absolute
<1> QED BY <1>1, <1>2 DEF Text

LEMMA LastOf ==
    ASSUME NEW rs \in Seq(Ruling), NEW i \in DOMAIN rs
    PROVE  \E j \in Lasts(rs) : rs[j].path = rs[i].path /\ i <= j
<1> DEFINE S == {j \in 1 .. Len(rs) : rs[j].path = rs[i].path}
<1>1. S \in SUBSET (0 .. Len(rs)) /\ i \in S /\ Len(rs) \in Nat
  OBVIOUS
<1>2. PICK j \in S : \A k \in S : k <= j
  BY <1>1, Greatest
<1>3. j \in Lasts(rs)
  BY <1>2 DEF Lasts
<1> QED BY <1>1, <1>2, <1>3

LEMMA OrderedRight ==
    ASSUME NEW rs \in Seq(Ruling)
    PROVE  LET order == ordered(rs)
           IN  /\ order \in Seq(DOMAIN rs)
               /\ \A k, l \in DOMAIN order :
                    k < l => Less(rs[order[k]].path, rs[order[l]].path)
               /\ \A k \in DOMAIN order : order[k] \in Lasts(rs)
               /\ \A i \in Lasts(rs) : \E k \in DOMAIN order : order[k] = i
<1> DEFINE S == Lasts(rs)
           before == {x \in S \X S : Less(rs[x[1]].path, rs[x[2]].path)}
           order == ordered(rs)
<1>1. order = Sorted(S, before)
  BY Zenon DEF ordered, Lasts
<1>2. IsFiniteSet(S)
  <2>1. Len(rs) \in Nat /\ S \in SUBSET (1 .. Len(rs))
    BY DEF Lasts
  <2>2. IsFiniteSet(1 .. Len(rs))
    BY <2>1, FS_Interval
  <2> QED BY <2>1, <2>2, FS_Subset
<1>3. \A x, y \in S : <<x, y>> \in before <=> Less(rs[x].path, rs[y].path)
  OBVIOUS
<1> HIDE DEF before
<1>4. \A x \in S : rs[x].path \in Text
  BY RulingText DEF Lasts
<1>5. \A x, y \in S : x # y => rs[x].path # rs[y].path
  BY DEF Lasts
<1>6. Orders(before, S)
  <2>1. \A x \in S : <<x, x>> \notin before
    BY <1>3, <1>4, LessIsStrict
  <2>2. \A x, y \in S : x # y => <<x, y>> \in before \/ <<y, x>> \in before
    BY <1>3, <1>4, <1>5, LessIsTotal
  <2>3. \A x, y, z \in S : <<x, y>> \in before /\ <<y, z>> \in before => <<x, z>> \in before
    BY <1>3, <1>4, LessIsTransitive
  <2> QED BY <2>1, <2>2, <2>3 DEF Orders
<1> DEFINE N == Cardinality(S)
<1>7. /\ order \in [1 .. N -> S]
      /\ \A k, l \in 1 .. N : k < l => <<order[k], order[l]>> \in before
      /\ \A x \in S : \E k \in 1 .. N : order[k] = x
      /\ N \in Nat
  BY <1>1, <1>2, <1>6, SortedRight
<1> HIDE DEF N, order
<1>8. DOMAIN order = 1 .. N /\ order \in Seq(S) /\ \A k \in 1 .. N : order[k] \in S
  BY <1>7
<1>9. S \subseteq DOMAIN rs
  BY DEF Lasts
<1>10. order \in Seq(DOMAIN rs)
  BY <1>8, <1>9
<1> QED BY <1>3, <1>7, <1>8, <1>10 DEF order

\* A path has a rule of its own if one is found, and the last one is.
Said(rs, q, e) ==
    \/ e = 0 /\ \A i \in DOMAIN rs : rs[i].path # q
    \/ e \in DOMAIN rs /\ rs[e].path = q /\ \A i \in DOMAIN rs : rs[i].path = q => i <= e
LEMMA ExactRight ==
    ASSUME NEW rs \in Seq(Ruling), NEW q \in Text
    PROVE  Said(rs, q, exact(rs, ordered(rs), q))
<1> DEFINE order == ordered(rs)
           below == {i \in DOMAIN rs : Less(rs[i].path, q)}
           it == lower_bound(order, below)
<1>1. /\ order \in Seq(DOMAIN rs)
      /\ \A k, l \in DOMAIN order : k < l => Less(rs[order[k]].path, rs[order[l]].path)
      /\ \A k \in DOMAIN order : order[k] \in Lasts(rs)
      /\ \A i \in Lasts(rs) : \E k \in DOMAIN order : order[k] = i
  BY OrderedRight
<1>2. exact(rs, order, q) = IF it \in DOMAIN order /\ rs[order[it]].path = q THEN order[it] ELSE 0
  BY DEF exact
<1> HIDE DEF order
<1>3. \A k \in DOMAIN order : order[k] \in DOMAIN rs /\ rs[order[k]].path \in Text
  BY <1>1, RulingText
<1>4. ASSUME NEW k \in DOMAIN order, NEW l \in DOMAIN order, k < l, order[l] \in below
      PROVE  order[k] \in below
  BY <1>1, <1>3, <1>4, LessIsTransitive
<1>5. Split(order, below, it)
  BY <1>1, <1>4, BoundFound
<1> HIDE DEF it
<1>6. ASSUME NEW i \in DOMAIN rs, rs[i].path = q
      PROVE  it \in DOMAIN order /\ rs[order[it]].path = q
  <2>1. PICK j \in Lasts(rs) : rs[j].path = q
    BY <1>6, LastOf
  <2>2. PICK k \in DOMAIN order : order[k] = j
    BY <1>1, <2>1
  <2>3. order[k] \notin below
    BY <2>1, <2>2, LessIsStrict
  <2>4. k \in 1 .. Len(order) /\ Len(order) \in Nat /\ it \in 1 .. Len(order) + 1 /\ ~(k < it)
    BY <1>1, <1>5, <2>3 DEF Split
  <2>5. it \in DOMAIN order
    BY <1>1, <2>4
  <2>6. order[it] \notin below
    BY <1>5, <2>4, <2>5 DEF Split
  <2>7. ~(it < k)
    BY <1>1, <1>3, <2>1, <2>2, <2>5, <2>6
  <2> QED BY <2>1, <2>2, <2>4, <2>5, <2>7
<1>7. CASE it \in DOMAIN order /\ rs[order[it]].path = q
  <2>1. order[it] \in Lasts(rs) /\ order[it] \in DOMAIN rs
    BY <1>1, <1>3, <1>7
  <2>2. ASSUME NEW i \in DOMAIN rs, rs[i].path = q PROVE i <= order[it]
    BY <1>7, <2>1, <2>2 DEF Lasts
  <2> QED BY <1>2, <1>7, <2>1, <2>2 DEF Said, order
<1>8. CASE ~(it \in DOMAIN order /\ rs[order[it]].path = q)
  BY <1>2, <1>6, <1>8 DEF Said, order
<1> QED BY <1>7, <1>8

-------------------------------------------------------------------------------
\* The prefixes of a path that can have a rule for it.

Mark(p, L) == L = Len(p) \/ p[L] = Slash \/ p[L + 1] = Slash

LEMMA Prefix ==
    ASSUME NEW p \in Text, NEW L \in 0 .. Len(p)
    PROVE  /\ SubSeq(p, 1, L) \in Text /\ Len(SubSeq(p, 1, L)) = L
           /\ \A i \in 1 .. L : SubSeq(p, 1, L)[i] = p[i]
BY DEF Text

LEMMA MatchesAt ==
    ASSUME NEW p \in Text, NEW q \in Text, q # <<>>
    PROVE  matches_path(p, q) <=>
             Len(q) \in 1 .. Len(p) /\ q = SubSeq(p, 1, Len(q)) /\ Mark(p, Len(q))
<1> DEFINE L == Len(q)
<1>1. L \in Nat \ {0} /\ Len(p) \in Nat /\ Last(q) = q[L]
  BY DEF Text, Last
<1>2. ASSUME matches_path(p, q)
      PROVE  L \in 1 .. Len(p) /\ q = SubSeq(p, 1, L) /\ Mark(p, L)
  <2>1. CASE p = q
    BY <1>1, <2>1 DEF Text, Mark
  <2>2. CASE p # q
    <3>1. IsStrictPrefix(q, p) /\ Slash \in {q[L], p[L + 1]}
      BY <1>1, <1>2, <2>2 DEF matches_path
    <3>2. L <= Len(p) /\ \A i \in 1 .. L : q[i] = p[i]
      BY <3>1, PrefixMeans DEF IsStrictPrefix
    <3>3. L \in 0 .. Len(p)
      BY <1>1, <3>2
    <3>4. q = SubSeq(p, 1, L)
      <4>1. /\ SubSeq(p, 1, L) \in Text /\ Len(SubSeq(p, 1, L)) = L
            /\ \A i \in 1 .. L : SubSeq(p, 1, L)[i] = p[i]
        BY <3>3, Prefix
      <4>2. \A i \in 1 .. L : q[i] = SubSeq(p, 1, L)[i]
        BY <3>2, <4>1
      <4>3. Len(q) = Len(SubSeq(p, 1, L)) /\ \A i \in 1 .. Len(q) : q[i] = SubSeq(p, 1, L)[i]
        BY <4>1, <4>2
      <4> DEFINE r == SubSeq(p, 1, L)
      <4> HIDE DEF r, L
      <4> QED BY <4>1, <4>3, SameText DEF r
    <3> QED BY <1>1, <3>1, <3>2, <3>4 DEF Mark
  <2> QED BY <2>1, <2>2
<1>3. ASSUME L \in 1 .. Len(p), q = SubSeq(p, 1, L), Mark(p, L)
      PROVE  matches_path(p, q)
  <2>1. \A i \in 1 .. L : q[i] = p[i]
    <3>1. L \in 0 .. Len(p)
      BY <1>1, <1>3
    <3> QED BY <1>3, <3>1, Prefix
  <2>2. CASE L = Len(p)
    BY <1>1, <2>1, <2>2, SameText DEF matches_path
  <2>3. CASE L # Len(p)
    <3>1. IsStrictPrefix(q, p)
      BY <1>1, <1>3, <2>1, <2>3, PrefixMeans DEF IsStrictPrefix
    <3>2. Slash \in {q[L], p[L + 1]}
      BY <1>1, <1>3, <2>1, <2>3 DEF Mark
    <3> QED BY <1>1, <3>1, <3>2 DEF matches_path
  <2> QED BY <2>2, <2>3
<1> QED BY <1>2, <1>3

\* The rule of a path: among those that match it, the last of the longest.
Covers(rs, p) == {i \in DOMAIN rs : matches_path(p, rs[i].path)}
Over(rs, p, e) ==
    \A i \in Covers(rs, p) : /\ Len(rs[i].path) <= Len(rs[e].path)
                             /\ Len(rs[i].path) = Len(rs[e].path) => i <= e
Best(rs, p, e) ==
    \/ e = 0 /\ Covers(rs, p) = {}
    \/ e \in Covers(rs, p) /\ Over(rs, p, e)

\* The rules for two prefixes of one length are for the same path.
LEMMA CoverAt ==
    ASSUME NEW rs \in Seq(Ruling), NEW p \in Text, NEW i \in Covers(rs, p)
    PROVE  /\ Len(rs[i].path) \in 1 .. Len(p) /\ Mark(p, Len(rs[i].path))
           /\ rs[i].path = SubSeq(p, 1, Len(rs[i].path)) /\ i \in DOMAIN rs
           /\ rs[i].path \in Text /\ i \in Nat \ {0}
<1>1. i \in DOMAIN rs /\ matches_path(p, rs[i].path)
  BY DEF Covers
<1>2. rs[i].path \in Text /\ rs[i].path # <<>> /\ i \in 1 .. Len(rs) /\ Len(rs) \in Nat
  BY <1>1, RulingText
<1> QED BY <1>1, <1>2, MatchesAt

\* There is but one.
LEMMA OneBest ==
    ASSUME NEW rs \in Seq(Ruling), NEW p \in Text, NEW d, NEW e, Best(rs, p, d), Best(rs, p, e)
    PROVE  d = e
<1>1. CASE Covers(rs, p) = {}
  BY <1>1 DEF Best
<1>2. CASE Covers(rs, p) # {}
  <2>1. d \in Covers(rs, p) /\ e \in Covers(rs, p)
    BY <1>2 DEF Best
  <2>2. /\ d \in Nat \ {0} /\ e \in Nat \ {0}
        /\ Len(rs[d].path) \in Nat /\ Len(rs[e].path) \in Nat
    BY <2>1, CoverAt
  <2>3. /\ Len(rs[d].path) <= Len(rs[e].path) /\ Len(rs[e].path) <= Len(rs[d].path)
        /\ Len(rs[d].path) = Len(rs[e].path) => d <= e /\ e <= d
    BY <1>2, <2>1, <2>2 DEF Best, Over
  <2> QED BY <2>2, <2>3
<1> QED BY <1>1, <1>2

-------------------------------------------------------------------------------
\* The search by shorter and shorter prefixes.

CutAt(p, n) ==
    IF p[n] = Slash THEN n - 1
    ELSE Max({0} \cup {k \in 1 .. n - 1 : p[k] = Slash})
Walked(rs, order, p, f, n) ==
    IF n = 0 THEN 0
    ELSE LET found == exact(rs, order, SubSeq(p, 1, n))
         IN  IF found # 0 THEN found ELSE f[CutAt(p, n)]
Walks(rs, order, p, f, N) == f = [n \in 0 .. N |-> Walked(rs, order, p, f, n)]

\* Where the search goes on, no prefix in between can have a rule.
LEMMA CutRight ==
    ASSUME NEW p \in Text, NEW n \in 1 .. Len(p)
    PROVE  /\ CutAt(p, n) \in 0 .. n - 1
           /\ CutAt(p, n) # 0 => Mark(p, CutAt(p, n))
           /\ \A L \in 1 .. n - 1 : Mark(p, L) => L <= CutAt(p, n)
<1>1. CASE p[n] = Slash
  <2>1. CutAt(p, n) = n - 1
    BY <1>1 DEF CutAt
  <2> QED BY <1>1, <2>1 DEF Mark
<1>2. CASE p[n] # Slash
  <2> DEFINE K == {0} \cup {k \in 1 .. n - 1 : p[k] = Slash}
  <2>1. K \in SUBSET (0 .. n - 1) /\ K # {} /\ n - 1 \in Nat
    OBVIOUS
  <2>2. \E m \in K : \A k \in K : k <= m
    BY <2>1, Greatest
  <2>3. CutAt(p, n) = Max(K)
    BY <1>2 DEF CutAt
  <2> HIDE DEF K
  <2>4. \E m \in K : \A k \in K : m >= k
    BY <2>1, <2>2
  <2>5. Max(K) \in K /\ \A k \in K : Max(K) >= k
    BY <2>4 DEF Max
  <2> DEFINE m == Max(K)
  <2> HIDE DEF m
  <2>6. CutAt(p, n) = m /\ m \in K /\ \A k \in K : m >= k
    BY <2>3, <2>5 DEF m
  <2>7. m \in 0 .. n - 1 /\ (m # 0 => p[m] = Slash)
    BY <2>6 DEF K
  <2>8. ASSUME NEW L \in 1 .. n - 1, Mark(p, L)
        PROVE  L <= m
    <3>1. CASE p[L] = Slash
      <4>1. L \in K
        BY <3>1 DEF K
      <4> QED BY <2>6, <2>7, <4>1
    <3>2. CASE p[L + 1] = Slash
      <4>1. L + 1 # n
        BY <1>2, <3>2
      <4>2. L + 1 \in 1 .. n - 1
        BY <4>1
      <4>3. L + 1 \in K
        BY <3>2, <4>2 DEF K
      <4> QED BY <2>6, <2>7, <4>3
    <3>3. L # Len(p)
      BY DEF Text
    <3> QED BY <2>8, <3>1, <3>2, <3>3 DEF Mark
  <2> QED BY <2>6, <2>7, <2>8 DEF Mark
<1> QED BY <1>1, <1>2

LEMMA WalkExists ==
    ASSUME NEW rs, NEW order, NEW p \in Text
    PROVE  \E f : Walks(rs, order, p, f, Len(p))
<1> DEFINE G == {n \in Nat : \E f : Walks(rs, order, p, f, n)}
<1>0. Len(p) \in Nat
  BY DEF Text
<1>1. 0 \in G
  <2> DEFINE f == [n \in 0 .. 0 |-> 0]
  <2>1. \A n \in 0 .. 0 : Walked(rs, order, p, f, n) = 0
    BY DEF Walked
  <2>2. Walks(rs, order, p, f, 0)
    BY <2>1 DEF Walks
  <2> QED BY <2>2
<1>2. ASSUME NEW n \in 0 .. Len(p), n \in G, n < Len(p)
      PROVE  n + 1 \in G
  <2>1. PICK f : Walks(rs, order, p, f, n)
    BY <1>2
  <2> DEFINE g == [m \in 0 .. n + 1 |-> Walked(rs, order, p, f, m)]
  <2>2. \A m \in 0 .. n : f[m] = Walked(rs, order, p, f, m)
    BY <2>1 DEF Walks
  <2>3. \A m \in 0 .. n : g[m] = f[m]
    BY <2>2
  <2> HIDE DEF g
  <2>4. ASSUME NEW m \in 0 .. n + 1
        PROVE  Walked(rs, order, p, f, m) = Walked(rs, order, p, g, m)
    <3>1. CASE m = 0
      BY <3>1 DEF Walked
    <3>2. CASE m # 0
      <4>1. m \in 1 .. Len(p)
        BY <1>0, <1>2, <3>2
      <4>2. CutAt(p, m) \in 0 .. m - 1
        BY <4>1, CutRight
      <4>3. CutAt(p, m) \in 0 .. n
        BY <4>2
      <4>4. f[CutAt(p, m)] = g[CutAt(p, m)]
        BY <2>3, <4>3
      <4> QED BY <4>4, Zenon DEF Walked
    <3> QED BY <3>1, <3>2
  <2>5. Walks(rs, order, p, g, n + 1)
    BY <2>4 DEF Walks, g
  <2>6. n + 1 \in Nat
    OBVIOUS
  <2> QED BY <2>5, <2>6
<1> HIDE DEF G
<1>3. \A n \in 0 .. Len(p) : n \in G
  BY <1>0, <1>1, <1>2, UpTo
<1>4. Len(p) \in G
  BY <1>0, <1>3
<1> QED BY <1>4 DEF G

LEMMA ByPrefixes ==
    ASSUME NEW rs, NEW order, NEW p \in Text
    PROVE  \E f : /\ Walks(rs, order, p, f, Len(p))
                  /\ by_prefixes(rs, order, p) = f[Len(p)]
<1> DEFINE f == CHOOSE f : f = [n \in 0 .. Len(p) |-> Walked(rs, order, p, f, n)]
<1>1. PICK g : g = [n \in 0 .. Len(p) |-> Walked(rs, order, p, g, n)]
  BY WalkExists DEF Walks
<1>2. f = [n \in 0 .. Len(p) |-> Walked(rs, order, p, f, n)]
  BY <1>1
<1>3. by_prefixes(rs, order, p) = f[Len(p)]
  BY DEF by_prefixes, Walked, CutAt
<1> QED BY <1>2, <1>3 DEF Walks

\* The lengths up to n where a rule for the path can end, and has one; n is always one.
Ruled(rs, p, n) ==
    {L \in 1 .. n : (Mark(p, L) \/ L = n) /\ \E i \in DOMAIN rs : rs[i].path = SubSeq(p, 1, L)}
Found(rs, p, n, e) ==
    \/ e = 0 /\ Ruled(rs, p, n) = {}
    \/ e # 0 /\ \E L \in Ruled(rs, p, n) : /\ \A M \in Ruled(rs, p, n) : M <= L
                                            /\ Said(rs, SubSeq(p, 1, L), e)

LEMMA WalkRight ==
    ASSUME NEW rs \in Seq(Ruling), NEW p \in Text, NEW f, Walks(rs, ordered(rs), p, f, Len(p))
    PROVE  Found(rs, p, Len(p), f[Len(p)])
<1> DEFINE order == ordered(rs)
           G == {n \in Nat : \A m \in 0 .. n : m <= Len(p) => Found(rs, p, m, f[m])}
<1> HIDE DEF order
<1>0. Len(p) \in Nat
  BY DEF Text
<1>1. \A n \in 0 .. Len(p) : f[n] = Walked(rs, order, p, f, n)
  BY DEF Walks, order
<1>2. 0 \in G
  <2>1. f[0] = 0
    BY <1>0, <1>1 DEF Walked
  <2>2. Ruled(rs, p, 0) = {}
    BY DEF Ruled
  <2>3. \A m \in 0 .. 0 : m = 0
    OBVIOUS
  <2> QED BY <2>1, <2>2, <2>3 DEF Found
<1>3. ASSUME NEW n \in 0 .. Len(p), n \in G, n < Len(p)
      PROVE  n + 1 \in G
  <2> DEFINE m == n + 1
             found == exact(rs, order, SubSeq(p, 1, m))
             cut == CutAt(p, m)
  <2>0. m \in 1 .. Len(p) /\ m \in 0 .. Len(p) /\ m # 0 /\ m \in Nat
    BY <1>0, <1>3
  <2> HIDE DEF m
  <2>1. f[m] = IF found # 0 THEN found ELSE f[cut]
    BY <1>1, <2>0 DEF Walked
  <2>2. SubSeq(p, 1, m) \in Text
    BY <2>0, Prefix
  <2>3. Said(rs, SubSeq(p, 1, m), found)
    BY <2>2, ExactRight DEF order
  <2>4. /\ cut \in 0 .. m - 1
        /\ cut # 0 => Mark(p, cut)
        /\ \A L \in 1 .. m - 1 : Mark(p, L) => L <= cut
    BY <2>0, CutRight
  <2> HIDE DEF found, cut
  <2>5. CASE found # 0
    <3>1. m \in Ruled(rs, p, m)
      BY <2>0, <2>3, <2>5 DEF Said, Ruled
    <3>2. \A M \in Ruled(rs, p, m) : M <= m
      BY <2>0 DEF Ruled
    <3>3. f[m] = found
      BY <2>1, <2>5
    <3>4. Found(rs, p, m, f[m])
      BY <2>3, <2>5, <3>1, <3>2, <3>3 DEF Found
    <3> QED BY <1>3, <2>0, <3>4 DEF m
  <2>6. CASE found = 0
    <3>1. \A i \in DOMAIN rs : rs[i].path # SubSeq(p, 1, m)
      BY <2>3, <2>6 DEF Said
    <3>2. ASSUME NEW L \in Ruled(rs, p, m) PROVE L \in Ruled(rs, p, cut)
      <4>1. L \in 1 .. m /\ L # m
        BY <3>1 DEF Ruled
      <4>2. Mark(p, L) /\ \E i \in DOMAIN rs : rs[i].path = SubSeq(p, 1, L)
        BY <4>1 DEF Ruled
      <4>3. L \in 1 .. m - 1
        BY <2>0, <4>1
      <4>4. L \in 1 .. cut
        BY <2>0, <2>4, <4>2, <4>3
      <4> QED BY <4>2, <4>4 DEF Ruled
    <3>3. ASSUME NEW L \in Ruled(rs, p, cut) PROVE L \in Ruled(rs, p, m)
      <4>1. L \in 1 .. cut /\ \E i \in DOMAIN rs : rs[i].path = SubSeq(p, 1, L)
        BY DEF Ruled
      <4>2. L \in 1 .. m /\ cut # 0
        BY <2>0, <2>4, <4>1
      <4>3. Mark(p, L)
        BY <2>4, <4>2 DEF Ruled
      <4> QED BY <4>1, <4>2, <4>3 DEF Ruled
    <3>4. Ruled(rs, p, m) = Ruled(rs, p, cut)
      BY <3>2, <3>3
    <3>5. cut \in 0 .. n /\ cut <= Len(p)
      BY <1>0, <2>0, <2>4 DEF m
    <3>6. Found(rs, p, cut, f[cut])
      BY <1>3, <3>5
    <3>7. f[m] = f[cut]
      BY <2>1, <2>6
    <3>8. Found(rs, p, m, f[m])
      BY <3>4, <3>6, <3>7 DEF Found
    <3> QED BY <1>3, <2>0, <3>8 DEF m
  <2> QED BY <2>5, <2>6
<1> HIDE DEF G
<1>4. \A n \in 0 .. Len(p) : n \in G
  BY <1>0, <1>2, <1>3, UpTo
<1>5. Len(p) \in G
  BY <1>0, <1>4
<1> QED BY <1>0, <1>5 DEF G

\* The rule found by prefixes is the last of the longest that match the path.
LEMMA ByPrefixesRight ==
    ASSUME NEW rs \in Seq(Ruling), NEW p \in Text
    PROVE  Best(rs, p, by_prefixes(rs, ordered(rs), p))
<1> DEFINE e == by_prefixes(rs, ordered(rs), p)
<1>0. Len(p) \in Nat
  BY DEF Text
<1>1. Found(rs, p, Len(p), e)
  <2>1. PICK f : Walks(rs, ordered(rs), p, f, Len(p)) /\ e = f[Len(p)]
    BY ByPrefixes
  <2> HIDE DEF e
  <2>2. Found(rs, p, Len(p), f[Len(p)])
    BY <2>1, WalkRight
  <2> QED BY <2>1, <2>2
<1> HIDE DEF e
<1>2. ASSUME NEW i \in Covers(rs, p)
      PROVE  /\ Len(rs[i].path) \in Ruled(rs, p, Len(p)) /\ i \in DOMAIN rs
             /\ rs[i].path = SubSeq(p, 1, Len(rs[i].path))
  BY CoverAt, Zenon DEF Ruled
<1>3. CASE e = 0
  <2>1. Ruled(rs, p, Len(p)) = {}
    BY <1>1, <1>3 DEF Found
  <2>2. Covers(rs, p) = {}
    BY <1>2, <2>1
  <2> QED BY <1>3, <2>2 DEF Best, e
<1>4. CASE e # 0
  <2>1. PICK L \in Ruled(rs, p, Len(p)) : /\ \A M \in Ruled(rs, p, Len(p)) : M <= L
                                           /\ Said(rs, SubSeq(p, 1, L), e)
    BY <1>1, <1>4 DEF Found
  <2>2. L \in 1 .. Len(p) /\ Mark(p, L) /\ L \in 0 .. Len(p)
    BY <1>0, <2>1 DEF Ruled, Mark
  <2>3. /\ e \in DOMAIN rs /\ rs[e].path = SubSeq(p, 1, L)
        /\ \A i \in DOMAIN rs : rs[i].path = SubSeq(p, 1, L) => i <= e
    BY <1>4, <2>1 DEF Said
  <2>4. rs[e].path \in Text /\ rs[e].path # <<>>
    BY <2>3, RulingText
  <2>5. Len(rs[e].path) = L
    BY <2>2, <2>3, Prefix
  <2>6. matches_path(p, rs[e].path)
    BY <2>2, <2>3, <2>4, <2>5, MatchesAt
  <2>7. e \in Covers(rs, p)
    BY <2>3, <2>6 DEF Covers
  <2>8. ASSUME NEW i \in Covers(rs, p)
        PROVE  /\ Len(rs[i].path) <= Len(rs[e].path)
               /\ Len(rs[i].path) = Len(rs[e].path) => i <= e
    BY <1>2, <2>1, <2>3, <2>5
  <2>9. Over(rs, p, e)
    BY <2>8 DEF Over
  <2>10. Best(rs, p, e)
    BY <2>7, <2>9 DEF Best
  <2> QED BY <2>10 DEF e
<1> QED BY <1>3, <1>4

LEMMA OneByOneRight ==
    ASSUME NEW rs \in Seq(Ruling), NEW p \in Text
    PROVE  Best(rs, p, one_by_one(rs, p))
<1> DEFINE M == Covers(rs, p)
           Before(i, j) == Len(rs[j].path) < Len(rs[i].path)
                           \/ (Len(rs[j].path) = Len(rs[i].path) /\ j <= i)
<1>1. one_by_one(rs, p) = IF M = {} THEN 0 ELSE CHOOSE i \in M : \A j \in M : Before(i, j)
  BY DEF one_by_one, Covers
<1>2. CASE M = {}
  BY <1>1, <1>2 DEF Best
<1>3. CASE M # {}
  <2>0. \A i \in M : Len(rs[i].path) \in Nat
    BY CoverAt
  <2>1. PICK e \in M : \A i \in M : /\ Len(rs[i].path) <= Len(rs[e].path)
                                    /\ Len(rs[i].path) = Len(rs[e].path) => i <= e
    BY <1>3, ByPrefixesRight DEF Best, Over
  <2>2. \A j \in M : Before(e, j)
    BY <2>0, <2>1
  <2> HIDE DEF M, Before
  <2>3. /\ one_by_one(rs, p) \in M /\ \A j \in M : Before(one_by_one(rs, p), j)
    BY <1>1, <1>3, <2>2
  <2> DEFINE d == one_by_one(rs, p)
  <2> HIDE DEF d
  <2>4. d \in M /\ \A j \in M : Before(d, j)
    BY <2>3 DEF d
  <2>5. \A j \in M : /\ Len(rs[j].path) <= Len(rs[d].path)
                     /\ Len(rs[j].path) = Len(rs[d].path) => j <= d
    BY <2>0, <2>4 DEF Before
  <2> QED BY <2>4, <2>5 DEF Best, Over, M, d
<1> QED BY <1>2, <1>3

LEMMA RuleAgrees ==
    ASSUME NEW rs \in Seq(Ruling), NEW p \in Text
    PROVE  one_by_one(rs, p) = by_prefixes(rs, ordered(rs), p)
BY OneByOneRight, ByPrefixesRight, OneBest

-------------------------------------------------------------------------------
\* The search for a rule about part of what is at a path.

\* q is the beginning of c, which goes on.
Starts(q, c) == Len(c) > Len(q) /\ \A j \in 1 .. Len(q) : c[j] = q[j]
\* What comes before the names inside q.
Ahead(q, c) ==
    \/ Less(c, q) \/ c = q
    \/ Starts(q, c) /\ q[Len(q)] # Slash /\ c[Len(q) + 1] < Slash
BelowAt(candidate, q) ==
    LET head == SubSeq(candidate, 1, Min({Len(q), Len(candidate)}))
    IN  IF head # q THEN Less(head, q)
        ELSE \/ candidate = q
             \/ q # <<>> /\ Last(q) # Slash /\ candidate[Len(q) + 1] < Slash

LEMMA LeastOfTwo ==
    ASSUME NEW a \in Nat, NEW b \in Nat
    PROVE  Min({a, b}) = IF a <= b THEN a ELSE b
<1> DEFINE S == {a, b}
<1>1. \E x \in S : \A y \in S : x =< y
  OBVIOUS
<1> HIDE DEF S
<1>2. Min(S) \in S /\ \A y \in S : Min(S) =< y
  BY <1>1 DEF Min
<1> QED BY <1>2 DEF S

\* No text that q begins comes before q.
LEMMA StartsAfter ==
    ASSUME NEW q \in Text, NEW c \in Text, Starts(q, c)
    PROVE  ~Less(c, q) /\ c # q
<1>0. Len(q) \in Nat /\ Len(c) \in Nat /\ \A i \in 1 .. Len(q) : q[i] \in Nat
  BY DEF Text
<1>1. ASSUME NEW k \in Nat, Earlier(c, q, k) PROVE FALSE
  <2>1. k \in 1 .. Len(q) /\ Len(c) > Len(q)
    BY <1>1 DEF Earlier, Starts
  <2>2. k <= Len(c)
    BY <1>0, <2>1
  <2>3. c[k] < q[k] /\ c[k] = q[k]
    BY <1>1, <2>1, <2>2 DEF Earlier, Starts
  <2> QED BY <1>0, <2>1, <2>3
<1>2. ~Less(c, q)
  BY <1>1, LessAt
<1>3. c # q
  BY <1>0 DEF Starts
<1> QED BY <1>2, <1>3

LEMMA BelowIsAhead ==
    ASSUME NEW q \in Text, q # <<>>, NEW c \in Text
    PROVE  BelowAt(c, q) <=> Ahead(q, c)
<1>0. Len(q) \in Nat /\ Len(c) \in Nat /\ Last(q) = q[Len(q)]
  BY DEF Text, Last
<1>1. CASE Len(c) <= Len(q)
  <2>1. Min({Len(q), Len(c)}) = Len(c)
    BY <1>0, <1>1, LeastOfTwo
  <2>2. SubSeq(c, 1, Len(c)) = c
    BY DEF Text
  <2>3. BelowAt(c, q) <=> (c # q => Less(c, q))
    BY <2>1, <2>2, Zenon DEF BelowAt
  <2>4. ~Starts(q, c)
    BY <1>0, <1>1 DEF Starts
  <2> QED BY <2>3, <2>4 DEF Ahead
<1>2. CASE Len(c) > Len(q)
  <2> DEFINE head == SubSeq(c, 1, Len(q))
  <2>1. Min({Len(q), Len(c)}) = Len(q)
    BY <1>0, <1>2, LeastOfTwo
  <2>2. BelowAt(c, q) <=> IF head # q THEN Less(head, q)
                          ELSE c = q \/ (q[Len(q)] # Slash /\ c[Len(q) + 1] < Slash)
    BY <1>0, <2>1, Zenon DEF BelowAt
  <2>3. Len(q) \in 0 .. Len(c)
    BY <1>0, <1>2
  <2>4. head \in Text /\ Len(head) = Len(q) /\ \A i \in 1 .. Len(q) : head[i] = c[i]
    BY <2>3, Prefix
  <2> HIDE DEF head
  <2>5. CASE head = q
    <3>1. Starts(q, c)
      BY <1>2, <2>4, <2>5 DEF Starts
    <3> QED BY <2>2, <2>5, <3>1, StartsAfter DEF Ahead
  <2>6. CASE head # q
    <3>1. ~Starts(q, c)
      <4> SUFFICES ASSUME \A j \in 1 .. Len(q) : c[j] = q[j] PROVE FALSE
        BY DEF Starts
      <4>1. \A j \in 1 .. Len(head) : head[j] = q[j]
        BY <2>4
      <4> QED BY <2>4, <2>6, <4>1, SameText
    <3>2. c # q
      BY <1>0, <1>2
    <3>3. ASSUME NEW k \in Nat PROVE Earlier(head, q, k) <=> Earlier(c, q, k)
      <4>1. CASE k \in 1 .. Len(q)
        <5>1. k \in 1 .. Len(head) + 1 /\ k \in 1 .. Len(c) + 1 /\ k <= Len(head) /\ k <= Len(c)
          BY <1>0, <1>2, <2>4, <4>1
        <5>2. head[k] = c[k] /\ \A j \in 1 .. k - 1 : head[j] = c[j]
          BY <1>0, <2>4, <4>1
        <5> QED BY <5>1, <5>2 DEF Earlier
      <4>2. CASE k \notin 1 .. Len(q)
        BY <4>2 DEF Earlier
      <4> QED BY <4>1, <4>2
    <3>4. Less(head, q) <=> Less(c, q)
      BY <2>4, <3>3, LessAt
    <3> QED BY <2>2, <2>6, <3>1, <3>2, <3>4 DEF Ahead
  <2> QED BY <2>5, <2>6
<1> QED BY <1>0, <1>1, <1>2

\* What comes before a text that is ahead is ahead, if that is first different within q.
LEMMA EarlierAhead ==
    ASSUME NEW q \in Text, NEW b \in Text, NEW c \in Text, NEW k \in Nat, Earlier(b, c, k),
           \A j \in 1 .. Len(q) : c[j] = q[j], Len(c) > Len(q)
    PROVE  Less(b, q) \/ b = q \/ (Starts(q, b) /\ k > Len(q))
<1>0. Len(q) \in Nat /\ Len(b) \in Nat /\ Len(c) \in Nat
  BY DEF Text
<1>1. CASE k <= Len(q)
  <2>1. k \in 1 .. Len(q) /\ k \in 1 .. Len(b) + 1
    BY <1>0, <1>1 DEF Earlier
  <2>2. (\A j \in 1 .. k - 1 : b[j] = q[j]) /\ (k <= Len(b) => b[k] < q[k])
    BY <1>0, <2>1 DEF Earlier
  <2>3. Earlier(b, q, k)
    BY <2>1, <2>2 DEF Earlier
  <2> QED BY <2>3, LessAt
<1>2. CASE k > Len(q)
  <2>1. Len(b) >= Len(q) /\ \A j \in 1 .. Len(q) : b[j] = q[j]
    BY <1>0, <1>2 DEF Earlier
  <2>2. CASE Len(b) = Len(q)
    BY <2>1, <2>2, SameText
  <2>3. CASE Len(b) # Len(q)
    BY <1>0, <1>2, <2>1, <2>3 DEF Starts
  <2> QED BY <2>2, <2>3
<1> QED BY <1>0, <1>1, <1>2

LEMMA AheadFirst ==
    ASSUME NEW q \in Text, NEW b \in Text, NEW c \in Text, Less(b, c), Ahead(q, c)
    PROVE  Ahead(q, b)
<1>0. Len(q) \in Nat /\ Len(b) \in Nat /\ Len(c) \in Nat /\ Slash \in Nat
      /\ (\A i \in 1 .. Len(b) : b[i] \in Nat) /\ (\A i \in 1 .. Len(c) : c[i] \in Nat)
  BY ModuleRulesAssumption DEF Text
<1>1. CASE Less(c, q) \/ c = q
  BY <1>1, LessIsTransitive DEF Ahead
<1>2. CASE Starts(q, c) /\ q[Len(q)] # Slash /\ c[Len(q) + 1] < Slash
  <2>1. PICK k \in Nat : Earlier(b, c, k)
    BY LessAt
  <2>2. (\A j \in 1 .. Len(q) : c[j] = q[j]) /\ Len(c) > Len(q)
    BY <1>2 DEF Starts
  <2>3. Less(b, q) \/ b = q \/ (Starts(q, b) /\ k > Len(q))
    BY <2>1, <2>2, EarlierAhead
  <2>4. CASE Starts(q, b) /\ k > Len(q)
    <3> DEFINE n == Len(q) + 1
    <3>1. n \in 1 .. Len(b) /\ n \in 1 .. Len(c) /\ (n = k \/ n \in 1 .. k - 1)
      BY <1>0, <2>2, <2>4 DEF Starts
    <3>2. b[n] < c[n] \/ b[n] = c[n]
      BY <1>0, <2>1, <3>1 DEF Earlier
    <3>3. b[n] \in Nat /\ c[n] \in Nat /\ c[n] < Slash
      BY <1>0, <1>2, <3>1
    <3>4. b[n] < Slash
      BY <1>0, <3>2, <3>3
    <3> QED BY <1>2, <2>4, <3>4 DEF Ahead
  <2> QED BY <2>3, <2>4 DEF Ahead
<1> QED BY <1>1, <1>2 DEF Ahead

\* c names something inside what q names.
Within(q, c) == Starts(q, c) /\ Slash \in {q[Len(q)], c[Len(q) + 1]}

LEMMA WithinMeans ==
    ASSUME NEW q \in Text, q # <<>>, NEW c \in Text
    PROVE  Len(c) > Len(q) /\ matches_path(c, q) <=> Within(q, c)
<1>0. Len(q) \in Nat \ {0} /\ Len(c) \in Nat
  BY DEF Text
<1>1. matches_path(c, q) <=> Len(q) \in 1 .. Len(c) /\ q = SubSeq(c, 1, Len(q)) /\ Mark(c, Len(q))
  BY MatchesAt
<1>2. CASE Len(c) > Len(q)
  <2>1. Len(q) \in 1 .. Len(c) /\ Len(q) \in 0 .. Len(c) /\ Len(q) # Len(c)
    BY <1>0, <1>2
  <2> DEFINE r == SubSeq(c, 1, Len(q))
  <2>2. r \in Text /\ Len(r) = Len(q) /\ \A i \in 1 .. Len(q) : r[i] = c[i]
    BY <2>1, Prefix
  <2> HIDE DEF r
  <2>3. q = r <=> \A i \in 1 .. Len(q) : c[i] = q[i]
    <3>1. ASSUME q = r PROVE \A i \in 1 .. Len(q) : c[i] = q[i]
      BY <2>2, <3>1
    <3>2. ASSUME \A i \in 1 .. Len(q) : c[i] = q[i] PROVE q = r
      BY <2>2, <3>2, SameText
    <3> QED BY <3>1, <3>2
  <2>4. q = r <=> Starts(q, c)
    BY <1>2, <2>3 DEF Starts
  <2>5. ASSUME Starts(q, c)
        PROVE  Mark(c, Len(q)) <=> Slash \in {q[Len(q)], c[Len(q) + 1]}
    <3>1. c[Len(q)] = q[Len(q)]
      BY <1>0, <2>5 DEF Starts
    <3> QED BY <2>1, <3>1 DEF Mark
  <2> QED BY <1>1, <1>2, <2>1, <2>4, <2>5 DEF Within, r
<1>3. CASE ~(Len(c) > Len(q))
  BY <1>3 DEF Within, Starts
<1> QED BY <1>2, <1>3

\* Of two texts that are not ahead of q, the first is within if the second is.
LEMMA FirstWithin ==
    ASSUME NEW q \in Text, q # <<>>, NEW b \in Text, NEW c \in Text,
           Within(q, c), ~Ahead(q, b), Less(b, c)
    PROVE  Within(q, b)
<1>0. Len(q) \in Nat /\ Len(b) \in Nat /\ Len(c) \in Nat /\ Slash \in Nat
      /\ (\A i \in 1 .. Len(b) : b[i] \in Nat) /\ (\A i \in 1 .. Len(c) : c[i] \in Nat)
  BY ModuleRulesAssumption DEF Text
<1>1. PICK k \in Nat : Earlier(b, c, k)
  BY LessAt
<1>2. (\A j \in 1 .. Len(q) : c[j] = q[j]) /\ Len(c) > Len(q)
  BY DEF Within, Starts
<1>3. Starts(q, b) /\ k > Len(q)
  BY <1>1, <1>2, EarlierAhead DEF Ahead
<1>4. CASE q[Len(q)] = Slash
  BY <1>3, <1>4 DEF Within
<1>5. CASE q[Len(q)] # Slash
  <2> DEFINE n == Len(q) + 1
  <2>1. n \in 1 .. Len(b) /\ n \in 1 .. Len(c) /\ (n = k \/ n \in 1 .. k - 1)
    BY <1>0, <1>2, <1>3 DEF Starts
  <2>2. c[n] = Slash
    BY <1>5 DEF Within
  <2>3. ~(b[n] < Slash)
    BY <1>3, <1>5 DEF Ahead
  <2>4. (n = k /\ b[n] < c[n]) \/ b[n] = c[n]
    BY <1>0, <1>1, <2>1 DEF Earlier
  <2>5. b[n] = Slash
    BY <2>2, <2>3, <2>4
  <2> QED BY <1>3, <2>5 DEF Within
<1> QED BY <1>4, <1>5

LEMMA WithinNotAhead ==
    ASSUME NEW q \in Text, q # <<>>, NEW c \in Text, Within(q, c)
    PROVE  ~Ahead(q, c)
<1>1. Starts(q, c) /\ ~Less(c, q) /\ c # q
  BY StartsAfter DEF Within
<1>2. Slash \in Nat
  BY ModuleRulesAssumption
<1> QED BY <1>1, <1>2 DEF Within, Ahead

LEMMA NestedAgrees ==
    ASSUME NEW rs \in Seq(Ruling), NEW q \in Text, q # <<>>
    PROVE  any_nested(rs, q) <=> nested_found(rs, ordered(rs), q)
<1> DEFINE order == ordered(rs)
           below == {i \in DOMAIN rs : BelowAt(rs[i].path, q)}
           it == lower_bound(order, below)
<1>1. /\ order \in Seq(DOMAIN rs)
      /\ \A k, l \in DOMAIN order : k < l => Less(rs[order[k]].path, rs[order[l]].path)
      /\ \A k \in DOMAIN order : order[k] \in Lasts(rs)
      /\ \A i \in Lasts(rs) : \E k \in DOMAIN order : order[k] = i
  BY OrderedRight
<1>2. nested_found(rs, order, q) <=>
        it \in DOMAIN order /\ Len(rs[order[it]].path) > Len(q) /\ matches_path(rs[order[it]].path, q)
  BY DEF nested_found, nested_at, BelowAt
<1> HIDE DEF order
<1>3. \A k \in DOMAIN order : order[k] \in DOMAIN rs /\ rs[order[k]].path \in Text
  BY <1>1, RulingText
<1>4. \A i \in DOMAIN rs : rs[i].path \in Text /\ (i \in below <=> Ahead(q, rs[i].path))
  BY RulingText, BelowIsAhead
<1> HIDE DEF below
<1>5. ASSUME NEW k \in DOMAIN order, NEW l \in DOMAIN order, k < l, order[l] \in below
      PROVE  order[k] \in below
  BY <1>1, <1>3, <1>4, <1>5, AheadFirst
<1>6. Split(order, below, it)
  BY <1>1, <1>5, BoundFound
<1> HIDE DEF it
<1>7. ASSUME NEW i \in DOMAIN rs, Len(rs[i].path) > Len(q), matches_path(rs[i].path, q)
      PROVE  it \in DOMAIN order /\ Within(q, rs[order[it]].path)
  <2>1. PICK j \in Lasts(rs) : rs[j].path = rs[i].path
    BY LastOf
  <2>2. PICK k \in DOMAIN order : order[k] = j
    BY <1>1, <2>1
  <2>3. Within(q, rs[order[k]].path)
    BY <1>4, <1>7, <2>1, <2>2, WithinMeans
  <2>4. order[k] \notin below
    BY <1>3, <1>4, <2>3, WithinNotAhead
  <2>5. k \in 1 .. Len(order) /\ Len(order) \in Nat /\ it \in 1 .. Len(order) + 1 /\ ~(k < it)
    BY <1>1, <1>6, <2>4 DEF Split
  <2>6. it \in DOMAIN order
    BY <1>1, <2>5
  <2>7. order[it] \notin below
    BY <1>6, <2>5, <2>6 DEF Split
  <2>8. ~Ahead(q, rs[order[it]].path)
    BY <1>3, <1>4, <2>6, <2>7
  <2>9. CASE it = k
    BY <2>3, <2>6, <2>9
  <2>10. CASE it # k
    <3>1. it < k
      BY <2>5, <2>10
    <3>2. Less(rs[order[it]].path, rs[order[k]].path)
      BY <1>1, <2>6, <3>1
    <3> QED BY <1>3, <2>3, <2>6, <2>8, <3>2, FirstWithin
  <2> QED BY <2>9, <2>10
<1>8. ASSUME any_nested(rs, q) PROVE nested_found(rs, order, q)
  <2>1. it \in DOMAIN order /\ Within(q, rs[order[it]].path)
    BY <1>7, <1>8 DEF any_nested
  <2> QED BY <1>2, <1>3, <2>1, WithinMeans DEF it
<1>9. ASSUME nested_found(rs, order, q) PROVE any_nested(rs, q)
  BY <1>2, <1>3, <1>9 DEF any_nested, it
<1> QED BY <1>8, <1>9 DEF order

\* The planner's index finds what a search of all rules does.
LEMMA IndexAgrees ==
    ASSUME NEW rs \in Seq(Ruling), NEW p \in Text, p # <<>>
    PROVE  /\ one_by_one(rs, p) = by_prefixes(rs, ordered(rs), p)
           /\ any_nested(rs, p) = nested_found(rs, ordered(rs), p)
           /\ Best(rs, p, effective_rule(rs, ordered(rs), p))
           /\ has_nested_rule(rs, ordered(rs), p) <=> any_nested(rs, p)
<1>1. one_by_one(rs, p) = by_prefixes(rs, ordered(rs), p)
  BY RuleAgrees
<1>2. any_nested(rs, p) <=> nested_found(rs, ordered(rs), p)
  BY NestedAgrees
<1>3. any_nested(rs, p) \in BOOLEAN /\ nested_found(rs, ordered(rs), p) \in BOOLEAN
  BY DEF any_nested, nested_found
<1>4. Best(rs, p, effective_rule(rs, ordered(rs), p))
  BY OneByOneRight, ByPrefixesRight DEF effective_rule
<1>5. has_nested_rule(rs, ordered(rs), p) <=> any_nested(rs, p)
  BY <1>2 DEF has_nested_rule
<1> QED BY <1>1, <1>2, <1>3, <1>4, <1>5

-------------------------------------------------------------------------------
\* What is planned.

LEMMA MatchesLike ==
    ASSUME NEW p \in Text, NEW q \in Text, q # <<>>
    PROVE  matches_path(p, q) <=>
             /\ Len(q) \in 1 .. Len(p) /\ Mark(p, Len(q))
             /\ \A i \in 1 .. Len(q) : q[i] = p[i]
<1>1. CASE Len(q) \in 1 .. Len(p)
  <2> DEFINE r == SubSeq(p, 1, Len(q))
  <2>1. Len(q) \in 0 .. Len(p)
    BY <1>1 DEF Text
  <2>2. r \in Text /\ Len(r) = Len(q) /\ \A i \in 1 .. Len(q) : r[i] = p[i]
    BY <2>1, Prefix
  <2> HIDE DEF r
  <2>3. q = r <=> \A i \in 1 .. Len(q) : q[i] = p[i]
    <3>1. ASSUME q = r PROVE \A i \in 1 .. Len(q) : q[i] = p[i]
      BY <2>2, <3>1
    <3>2. ASSUME \A i \in 1 .. Len(q) : q[i] = p[i] PROVE q = r
      BY <2>2, <3>2, SameText
    <3> QED BY <3>1, <3>2
  <2>4. matches_path(p, q) <=> q = r /\ Mark(p, Len(q))
    BY <1>1, MatchesAt DEF r
  <2> QED BY <1>1, <2>3, <2>4
<1>2. CASE Len(q) \notin 1 .. Len(p)
  BY <1>2, MatchesAt
<1> QED BY <1>1, <1>2

LEMMA InsideInside ==
    ASSUME NEW p \in Text, NEW a \in Text, NEW q \in Text, a # <<>>, q # <<>>,
           matches_path(p, a), matches_path(a, q)
    PROVE  matches_path(p, q)
<1>0. Len(p) \in Nat /\ Len(a) \in Nat /\ Len(q) \in Nat
  BY DEF Text
<1>1. /\ Len(a) \in 1 .. Len(p) /\ Mark(p, Len(a))
      /\ \A i \in 1 .. Len(a) : a[i] = p[i]
  BY MatchesLike
<1>2. /\ Len(q) \in 1 .. Len(a) /\ Mark(a, Len(q))
      /\ \A i \in 1 .. Len(q) : q[i] = a[i]
  BY MatchesLike
<1>3. Len(q) \in 1 .. Len(p)
  BY <1>0, <1>1, <1>2
<1>4. \A i \in 1 .. Len(q) : q[i] = p[i]
  BY <1>0, <1>1, <1>2
<1>5. Mark(p, Len(q))
  <2>1. CASE Len(q) = Len(a)
    BY <1>1, <2>1
  <2>2. CASE Len(q) # Len(a)
    <3>1. Len(q) \in 1 .. Len(a) /\ Len(q) + 1 \in 1 .. Len(a)
      BY <1>0, <1>2, <2>2
    <3>2. a[Len(q)] = p[Len(q)] /\ a[Len(q) + 1] = p[Len(q) + 1]
      BY <1>1, <3>1
    <3> QED BY <1>2, <2>2, <3>2, Zenon DEF Mark
  <2> QED BY <2>1, <2>2
<1> QED BY <1>3, <1>4, <1>5, MatchesLike

\* Of two that hold a path, the longer is inside the shorter.
LEMMA OneInside ==
    ASSUME NEW p \in Text, NEW a \in Text, NEW n \in Text, a # <<>>, n # <<>>,
           matches_path(p, a), matches_path(p, n), Len(n) <= Len(a)
    PROVE  matches_path(a, n) /\ (Len(n) = Len(a) => a = n)
<1>0. Len(p) \in Nat /\ Len(a) \in Nat /\ Len(n) \in Nat
  BY DEF Text
<1>1. /\ Len(a) \in 1 .. Len(p) /\ Mark(p, Len(a))
      /\ \A i \in 1 .. Len(a) : a[i] = p[i]
  BY MatchesLike
<1>2. /\ Len(n) \in 1 .. Len(p) /\ Mark(p, Len(n))
      /\ \A i \in 1 .. Len(n) : n[i] = p[i]
  BY MatchesLike
<1>3. Len(n) \in 1 .. Len(a)
  BY <1>0, <1>2
<1>4. \A i \in 1 .. Len(n) : n[i] = a[i]
  BY <1>0, <1>1, <1>2, <1>3
<1>5. Mark(a, Len(n))
  <2>1. CASE Len(n) = Len(a)
    BY <2>1 DEF Mark
  <2>2. CASE Len(n) # Len(a)
    <3>1. Len(n) \in 1 .. Len(a) /\ Len(n) + 1 \in 1 .. Len(a) /\ Len(n) # Len(p)
      BY <1>0, <1>1, <1>3, <2>2
    <3>2. a[Len(n)] = p[Len(n)] /\ a[Len(n) + 1] = p[Len(n) + 1]
      BY <1>1, <3>1
    <3> QED BY <1>2, <3>1, <3>2, Zenon DEF Mark
  <2> QED BY <2>1, <2>2
<1>6. Len(n) = Len(a) => a = n
  BY <1>4, SameText
<1> QED BY <1>3, <1>4, <1>5, <1>6, MatchesLike

\* Where no rule is about part of a directory, its rule is the one of all in it.
LEMMA SameRule ==
    ASSUME NEW rs \in Seq(Ruling), NEW p \in Text, NEW n \in Text, n # <<>>,
           matches_path(p, n), ~any_nested(rs, n), NEW e
    PROVE  Best(rs, p, e) <=> Best(rs, n, e)
<1>1. ASSUME NEW i \in Covers(rs, n) PROVE i \in Covers(rs, p)
  <2>1. i \in DOMAIN rs /\ matches_path(n, rs[i].path)
    BY DEF Covers
  <2>2. rs[i].path \in Text /\ rs[i].path # <<>>
    BY <2>1, RulingText
  <2>3. matches_path(p, rs[i].path)
    BY <2>1, <2>2, InsideInside
  <2> QED BY <2>1, <2>3 DEF Covers
<1>2. ASSUME NEW i \in Covers(rs, p) PROVE i \in Covers(rs, n)
  <2>1. i \in DOMAIN rs /\ matches_path(p, rs[i].path)
    BY DEF Covers
  <2>2. rs[i].path \in Text /\ rs[i].path # <<>> /\ Len(rs[i].path) \in Nat /\ Len(n) \in Nat
    BY <2>1, RulingText DEF Text
  <2>3. CASE Len(rs[i].path) <= Len(n)
    <3>1. matches_path(n, rs[i].path)
      BY <2>1, <2>2, <2>3, OneInside
    <3> QED BY <2>1, <3>1 DEF Covers
  <2>4. CASE Len(n) < Len(rs[i].path)
    <3>1. matches_path(rs[i].path, n)
      BY <2>1, <2>2, <2>4, OneInside
    <3> QED BY <2>1, <2>4, <3>1 DEF any_nested
  <2> QED BY <2>2, <2>3, <2>4
<1>3. Covers(rs, p) = Covers(rs, n)
  BY <1>1, <1>2
<1> QED BY <1>3 DEF Best, Over

\* What the rules say of a path, by the one that is found for it.
Single(rs) == \A i, j \in DOMAIN rs : rs[i].path = rs[j].path => i = j
Longest(rs, p) ==
    {r \in {rs[i] : i \in DOMAIN rs} :
       /\ matches_path(p, r.path)
       /\ \A i \in DOMAIN rs : matches_path(p, rs[i].path) => Len(rs[i].path) <= Len(r.path)}

LEMMA LongestIs ==
    ASSUME NEW rs \in Seq(Ruling), Single(rs), NEW p \in Text, NEW e, Best(rs, p, e)
    PROVE  /\ Longest(rs, p) = IF e = 0 THEN {} ELSE {rs[e]}
           /\ e # 0 => e \in DOMAIN rs /\ matches_path(p, rs[e].path)
<1>1. ASSUME NEW r \in Longest(rs, p)
      PROVE  e # 0 /\ r = rs[e]
  <2>1. PICK i \in DOMAIN rs : r = rs[i] /\ matches_path(p, rs[i].path)
    BY DEF Longest
  <2>2. i \in Covers(rs, p)
    BY <2>1 DEF Covers
  <2>3. e \in Covers(rs, p) /\ Over(rs, p, e)
    BY <2>2 DEF Best
  <2>4. /\ Len(rs[i].path) \in Nat /\ rs[i].path = SubSeq(p, 1, Len(rs[i].path))
        /\ Len(rs[e].path) \in Nat /\ rs[e].path = SubSeq(p, 1, Len(rs[e].path))
        /\ e \in Nat \ {0} /\ e \in DOMAIN rs
    BY <2>2, <2>3, CoverAt
  <2>5. matches_path(p, rs[e].path)
    BY <2>3 DEF Covers
  <2>6. Len(rs[e].path) <= Len(rs[i].path)
    BY <2>1, <2>4, <2>5 DEF Longest
  <2>7. Len(rs[i].path) <= Len(rs[e].path)
    BY <2>2, <2>3 DEF Over
  <2>8. Len(rs[i].path) = Len(rs[e].path)
    BY <2>4, <2>6, <2>7
  <2>9. rs[i].path = rs[e].path
    BY <2>4, <2>8, Zenon
  <2>10. i = e
    BY <2>4, <2>9 DEF Single
  <2> QED BY <2>1, <2>4, <2>10
<1>2. ASSUME e # 0
      PROVE  rs[e] \in Longest(rs, p) /\ e \in DOMAIN rs /\ matches_path(p, rs[e].path)
  <2>1. e \in Covers(rs, p) /\ Over(rs, p, e)
    BY <1>2 DEF Best
  <2>2. e \in DOMAIN rs /\ matches_path(p, rs[e].path)
    BY <2>1 DEF Covers
  <2>3. ASSUME NEW i \in DOMAIN rs, matches_path(p, rs[i].path)
        PROVE  Len(rs[i].path) <= Len(rs[e].path)
    BY <2>1, <2>3 DEF Over, Covers
  <2> QED BY <2>2, <2>3 DEF Longest
<1> QED BY <1>1, <1>2

\* A path with a rule of its own has that one.
LEMMA OwnRule ==
    ASSUME NEW rs \in Seq(Ruling), Single(rs), NEW p \in Text, NEW e, Best(rs, p, e),
           NEW i \in DOMAIN rs, rs[i].path = p
    PROVE  e = i
<1>1. i \in Covers(rs, p)
  BY DEF Covers, matches_path
<1>2. e \in Covers(rs, p) /\ Over(rs, p, e)
  BY <1>1 DEF Best
<1>3. /\ Len(rs[e].path) \in 1 .. Len(p) /\ rs[e].path = SubSeq(p, 1, Len(rs[e].path))
      /\ e \in DOMAIN rs
  BY <1>2, CoverAt
<1>4. Len(p) <= Len(rs[e].path) /\ Len(p) \in Nat
  BY <1>1, <1>2 DEF Over, Text
<1>5. Len(rs[e].path) = Len(p) /\ SubSeq(p, 1, Len(p)) = p
  BY <1>3, <1>4 DEF Text
<1>6. rs[e].path = p
  BY <1>3, <1>5, Zenon
<1> QED BY <1>3, <1>6 DEF Single

-------------------------------------------------------------------------------
TreeTyped == \A n \in DOMAIN tree : n \in Text /\ n # <<>> /\ tree[n] \in Kinds

LEMMA AncestorIs ==
    ASSUME TreeTyped, NEW p \in DOMAIN tree, NEW a \in Ancestors(p)
    PROVE  /\ a \in DOMAIN tree /\ a \in Text /\ a # <<>> /\ matches_path(p, a) /\ a # p
           /\ Len(a) \in Nat /\ Len(p) \in Nat /\ Len(a) < Len(p) /\ p \in Text
<1>1. a \in DOMAIN tree /\ a \in Text /\ a # <<>> /\ matches_path(p, a) /\ a # p /\ p \in Text
      /\ p # <<>>
  BY DEF Ancestors, TreeTyped
<1>2. Len(a) \in 1 .. Len(p) /\ \A i \in 1 .. Len(a) : a[i] = p[i]
  BY <1>1, MatchesLike
<1>3. Len(a) # Len(p)
  BY <1>1, <1>2, SameText
<1>4. Len(a) \in Nat /\ Len(p) \in Nat
  BY <1>1 DEF Text
<1> QED BY <1>1, <1>2, <1>3, <1>4

\* A path that is not visited is inside one that is, and at which the planner stopped.
LEMMA StoppedAbove ==
    ASSUME TreeTyped, NEW of, NEW p \in DOMAIN tree, p \notin Visited(of)
    PROVE  \E a \in Ancestors(p) : a \in Visited(of) /\ Pruned(of, a)
<1> DEFINE Stops == {a \in Ancestors(p) : Pruned(of, a)}
           L == {Len(a) : a \in Stops}
<1>1. Stops # {}
  BY DEF Visited
<1>2. L \subseteq Nat /\ L # {}
  BY <1>1, AncestorIs
<1>3. PICK n \in L : \A k \in L : n <= k
  BY <1>2, Least, Zenon
<1>4. PICK a \in Stops : Len(a) = n
  BY <1>3
<1>5. ASSUME NEW b \in Ancestors(a) PROVE ~Pruned(of, b)
  <2>1. /\ a \in DOMAIN tree /\ a \in Text /\ a # <<>> /\ matches_path(p, a)
        /\ Len(a) < Len(p) /\ Len(a) \in Nat /\ Len(p) \in Nat /\ p \in Text
    BY <1>4, AncestorIs
  <2>2. /\ b \in DOMAIN tree /\ b \in Text /\ b # <<>> /\ matches_path(a, b)
        /\ Len(b) < Len(a) /\ Len(b) \in Nat
    BY <2>1, AncestorIs
  <2>3. matches_path(p, b)
    BY <2>1, <2>2, InsideInside
  <2>4. b # p
    BY <2>1, <2>2
  <2>5. b \in Ancestors(p)
    BY <2>2, <2>3, <2>4 DEF Ancestors
  <2>6. b \notin Stops
    BY <1>3, <1>4, <2>1, <2>2
  <2> QED BY <2>5, <2>6
<1>6. a \in DOMAIN tree
  BY <1>4 DEF Ancestors
<1> QED BY <1>4, <1>5, <1>6 DEF Visited

\* What the planner knows of a node is what the rules say of it.
Told(rs, bypass, of) ==
    \A n \in DOMAIN tree :
        /\ of[n].mode \in {"hide", "none", "kasumi"}
        /\ \A md \in {"hide", "none"} :
             of[n].mode = md <=> \E r \in Longest(rs, n) : r.mode = md
        /\ of[n].flag = (bypass \/ \E r \in Longest(rs, n) : r.bypass)
        /\ of[n].nested <=> any_nested(rs, n)

LEMMA DecisionsTell ==
    ASSUME TreeTyped, NEW rs \in Seq(Ruling), Single(rs), NEW bypass \in BOOLEAN
    PROVE  Told(rs, bypass, Decisions(rs, ordered(rs), bypass))
<1> DEFINE order == ordered(rs)
           of == Decisions(rs, order, bypass)
<1> SUFFICES ASSUME NEW n \in DOMAIN tree
             PROVE  /\ of[n].mode \in {"hide", "none", "kasumi"}
                    /\ \A md \in {"hide", "none"} :
                         of[n].mode = md <=> \E r \in Longest(rs, n) : r.mode = md
                    /\ of[n].flag = (bypass \/ \E r \in Longest(rs, n) : r.bypass)
                    /\ of[n].nested <=> any_nested(rs, n)
  BY DEF Told
<1> DEFINE e == effective_rule(rs, order, n)
<1>1. n \in Text /\ n # <<>>
  BY DEF TreeTyped
<1>2. Best(rs, n, e) /\ (has_nested_rule(rs, order, n) <=> any_nested(rs, n))
  BY <1>1, IndexAgrees
<1>3. of[n] = [mode |-> IF e # 0 /\ rs[e].mode \in {"hide", "none"} THEN rs[e].mode ELSE "kasumi",
               flag |-> bypass \/ (e # 0 /\ rs[e].bypass),
               nested |-> has_nested_rule(rs, order, n)]
  BY DEF Decisions, Decided
<1> HIDE DEF e, order, of
<1>4. /\ of[n].mode = IF e # 0 /\ rs[e].mode \in {"hide", "none"} THEN rs[e].mode ELSE "kasumi"
      /\ of[n].flag = (bypass \/ (e # 0 /\ rs[e].bypass))
      /\ of[n].nested = has_nested_rule(rs, order, n)
  <2> DEFINE mode == IF e # 0 /\ rs[e].mode \in {"hide", "none"} THEN rs[e].mode ELSE "kasumi"
             flag == bypass \/ (e # 0 /\ rs[e].bypass)
             nested == has_nested_rule(rs, order, n)
  <2>1. of[n] = [mode |-> mode, flag |-> flag, nested |-> nested]
    BY <1>3
  <2> HIDE DEF mode, flag, nested
  <2>2. of[n].mode = mode /\ of[n].flag = flag /\ of[n].nested = nested
    BY <2>1
  <2> QED BY <2>2 DEF mode, flag, nested
<1>5. Longest(rs, n) = (IF e = 0 THEN {} ELSE {rs[e]}) /\ (e # 0 => e \in DOMAIN rs)
  BY <1>1, <1>2, LongestIs
<1>6. CASE e = 0
  <2>1. Longest(rs, n) = {} /\ of[n].mode = "kasumi"
    BY <1>4, <1>5, <1>6, Zenon
  <2>2. of[n].flag = (bypass \/ \E r \in Longest(rs, n) : r.bypass)
    BY <1>4, <1>6, <2>1, Zenon
  <2> QED BY <1>2, <1>4, <2>1, <2>2
<1>7. CASE e # 0
  <2>1. Longest(rs, n) = {rs[e]}
    BY <1>5, <1>7
  <2>2. of[n].mode = IF rs[e].mode \in {"hide", "none"} THEN rs[e].mode ELSE "kasumi"
    BY <1>4, <1>7, Zenon
  <2>3. of[n].mode \in {"hide", "none", "kasumi"}
    BY <2>2
  <2>4. ASSUME NEW md \in {"hide", "none"}
        PROVE  of[n].mode = md <=> \E r \in Longest(rs, n) : r.mode = md
    BY <2>1, <2>2
  <2>5. (\E r \in Longest(rs, n) : r.bypass) <=> rs[e].bypass
    BY <2>1
  <2>6. of[n].flag = (bypass \/ \E r \in Longest(rs, n) : r.bypass)
    BY <1>4, <1>7, <2>5, Zenon
  <2> QED BY <1>2, <1>4, <2>3, <2>4, <2>6
<1> QED BY <1>6, <1>7

\* What is true of a directory that no rule is about part of is true of all in it.
LEMMA SameInside ==
    ASSUME TreeTyped, NEW rs \in Seq(Ruling), Single(rs), NEW bypass, NEW of, Told(rs, bypass, of),
           NEW p \in DOMAIN tree, NEW n \in DOMAIN tree, matches_path(p, n), ~of[n].nested
    PROVE  of[p].mode = of[n].mode /\ of[p].flag = of[n].flag
<1>1. p \in Text /\ n \in Text /\ n # <<>> /\ p # <<>>
  BY DEF TreeTyped
<1>2. ~any_nested(rs, n)
  BY DEF Told
<1>3. PICK e : Best(rs, p, e)
  BY <1>1, OneByOneRight
<1>4. Best(rs, n, e)
  BY <1>1, <1>2, <1>3, SameRule
<1>5. Longest(rs, p) = Longest(rs, n)
  BY <1>1, <1>3, <1>4, LongestIs
<1>6. of[p].flag = of[n].flag
  <2> DEFINE F(S) == bypass \/ \E r \in S : r.bypass
  <2>1. of[p].flag = F(Longest(rs, p)) /\ of[n].flag = F(Longest(rs, n))
    BY DEF Told
  <2> HIDE DEF F
  <2> QED BY <1>5, <2>1
<1>7. \A md \in {"hide", "none"} : of[p].mode = md <=> of[n].mode = md
  BY <1>5, Zenon DEF Told
<1>8. of[p].mode \in {"hide", "none", "kasumi"} /\ of[n].mode \in {"hide", "none", "kasumi"}
  BY DEF Told
<1> QED BY <1>6, <1>7, <1>8

LEMMA PlanFollows ==
    ASSUME TreeTyped, NEW rs \in Seq(Ruling), Single(rs), NEW bypass \in BOOLEAN
    PROVE  Follows(rs, bypass, compile_tree(rs, bypass))
<1> DEFINE of == Decisions(rs, ordered(rs), bypass)
           plan == planned(rs, of)
           Mode(p, md) == \E r \in Longest(rs, p) : r.mode = md
           Covering(p) == {x \in plan.mappings : x.path = p \/ (x.merge /\ matches_path(p, x.path))}
           Hidden(p) == Mode(p, "hide") \/ \E a \in Ancestors(p) : Mode(a, "hide")
           Right(p) ==
             IF Hidden(p) THEN Covering(p) = {} /\ \E h \in plan.hide : matches_path(p, h)
             ELSE IF Mode(p, "none") THEN Covering(p) = {} /\ p \notin plan.hide
             ELSE /\ Covering(p) # {} \/ (tree[p] = "whiteout" /\ p \in plan.hide)
                  /\ \A x \in Covering(p) :
                       x.bypass = (bypass \/ \E r \in Longest(rs, p) : r.bypass)
           mine == {n \in Visited(of) : of[n].mode = "kasumi"}
<1>1. (\A p \in {q \in DOMAIN tree : tree[q] \in {"file", "whiteout"}} : Right(p))
        => Follows(rs, bypass, compile_tree(rs, bypass))
  BY DEF Follows, Longest, compile_tree
<1>2. Told(rs, bypass, of)
  BY DecisionsTell
<1>3. \A x : x \in plan.mappings <=>
        \/ \E n \in mine : Merged(of, n) /\ x = [path |-> n, merge |-> TRUE, bypass |-> of[n].flag]
        \/ \E n \in mine : tree[n] = "file"
                             /\ x = [path |-> n, merge |-> FALSE, bypass |-> of[n].flag]
  BY DEF planned
<1>4. \A h : h \in plan.hide <=>
        \/ \E i \in DOMAIN rs : rs[i].mode = "hide" /\ h = rs[i].path
        \/ h \in Visited(of) /\ of[h].mode = "hide"
        \/ h \in mine /\ tree[h] = "whiteout"
  BY DEF planned
<1> HIDE DEF of, plan
<1>5. ASSUME NEW n \in mine
      PROVE  /\ n \in DOMAIN tree /\ n \in Text /\ n # <<>> /\ of[n].mode = "kasumi"
             /\ \A a \in Ancestors(n) : ~Pruned(of, a)
  BY DEF Visited, TreeTyped
<1>6. ASSUME NEW n \in DOMAIN tree
      PROVE  /\ of[n].mode = "hide" <=> Mode(n, "hide")
             /\ of[n].mode = "none" <=> Mode(n, "none")
             /\ of[n].mode \in {"hide", "none", "kasumi"}
  BY <1>2, Zenon DEF Told
<1> HIDE DEF mine, Mode
<1> SUFFICES ASSUME NEW p \in DOMAIN tree, tree[p] \in {"file", "whiteout"} PROVE Right(p)
  BY <1>1
<1>7. p \in Text /\ p # <<>> /\ ~Merged(of, p) /\ matches_path(p, p)
  BY DEF TreeTyped, Merged, IsDirectory, matches_path
\* A tree that is mapped as a whole and holds the path says of it what it says of itself.
<1>8. ASSUME NEW n \in mine, Merged(of, n), matches_path(p, n)
      PROVE  /\ n \in Ancestors(p) /\ ~of[n].nested /\ n \in DOMAIN tree
             /\ of[p].mode = of[n].mode /\ of[p].flag = of[n].flag
  <2>1. n # p /\ ~of[n].nested
    BY <1>7, <1>8 DEF Merged
  <2> QED BY <1>2, <1>5, <1>8, <2>1, SameInside DEF Ancestors
\* What covers the path.
<1>9. ASSUME NEW x \in Covering(p)
      PROVE  \E n \in mine :
               /\ x.bypass = of[n].flag
               /\ n = p \/ (Merged(of, n) /\ matches_path(p, n))
  <2>1. x \in plan.mappings /\ (x.path = p \/ (x.merge /\ matches_path(p, x.path)))
    OBVIOUS
  <2>2. CASE \E n \in mine : Merged(of, n) /\ x = [path |-> n, merge |-> TRUE, bypass |-> of[n].flag]
    <3>1. PICK n \in mine : Merged(of, n) /\ x = [path |-> n, merge |-> TRUE, bypass |-> of[n].flag]
      BY <2>2
    <3>2. x.path = n /\ x.bypass = of[n].flag
      BY <3>1
    <3> QED BY <2>1, <3>1, <3>2
  <2>3. CASE \E n \in mine : x = [path |-> n, merge |-> FALSE, bypass |-> of[n].flag]
    <3>1. PICK n \in mine : x = [path |-> n, merge |-> FALSE, bypass |-> of[n].flag]
      BY <2>3
    <3>2. x.path = n /\ x.merge = FALSE /\ x.bypass = of[n].flag
      BY <3>1
    <3> QED BY <2>1, <3>2
  <2> QED BY <1>3, <2>1, <2>2, <2>3
<1> HIDE DEF Covering
<1>10. CASE Hidden(p)
  <2>1. ASSUME NEW n \in mine, n = p \/ (Merged(of, n) /\ matches_path(p, n)) PROVE FALSE
    <3>1. of[p].mode = "kasumi"
      BY <1>5, <1>8, <2>1
    <3>2. ~Mode(p, "hide")
      BY <1>6, <3>1
    <3>3. PICK a \in Ancestors(p) : Mode(a, "hide")
      BY <1>10, <3>2
    <3>4. /\ a \in DOMAIN tree /\ a \in Text /\ a # <<>> /\ matches_path(p, a) /\ a # p
          /\ Len(a) \in Nat
      BY <3>3, AncestorIs
    <3>5. of[a].mode = "hide" /\ Pruned(of, a)
      BY <1>6, <3>3, <3>4 DEF Pruned
    <3>6. a \notin Ancestors(n)
      BY <1>5, <3>5
    <3>7. CASE n = p
      BY <3>3, <3>6, <3>7
    <3>8. CASE Merged(of, n) /\ matches_path(p, n)
      <4>1. n \in Text /\ n # <<>> /\ n \in DOMAIN tree /\ of[n].mode = "kasumi" /\ Len(n) \in Nat
        BY <1>5 DEF Text
      <4>2. CASE Len(n) <= Len(a)
        <5>1. matches_path(a, n)
          BY <1>7, <3>4, <3>8, <4>1, <4>2, OneInside
        <5>2. of[a].mode = of[n].mode
          BY <1>2, <1>8, <3>4, <3>8, <4>1, <5>1, SameInside
        <5> QED BY <3>5, <4>1, <5>2
      <4>3. CASE Len(a) < Len(n)
        <5>1. matches_path(n, a)
          BY <1>7, <3>4, <3>8, <4>1, <4>3, OneInside
        <5>2. a # n
          BY <3>4, <4>1, <4>3
        <5> QED BY <3>4, <3>6, <5>1, <5>2 DEF Ancestors
      <4> QED BY <3>4, <4>1, <4>2, <4>3
    <3> QED BY <2>1, <3>7, <3>8
  <2>2. Covering(p) = {}
    BY <1>9, <2>1
  <2>3. PICK a \in DOMAIN tree : matches_path(p, a) /\ Mode(a, "hide")
    BY <1>7, <1>10, AncestorIs
  <2>4. PICK i \in DOMAIN rs : rs[i].mode = "hide" /\ matches_path(a, rs[i].path)
    BY <2>3 DEF Mode, Longest
  <2>5. rs[i].path \in plan.hide
    BY <1>4, <2>4
  <2>6. a \in Text /\ a # <<>> /\ rs[i].path \in Text /\ rs[i].path # <<>>
    BY RulingText DEF TreeTyped
  <2>7. matches_path(p, rs[i].path)
    BY <1>7, <2>3, <2>4, <2>6, InsideInside
  <2> QED BY <1>10, <2>2, <2>5, <2>7
<1>11. CASE ~Hidden(p) /\ Mode(p, "none")
  <2>1. of[p].mode = "none"
    BY <1>6, <1>11
  <2>2. Covering(p) = {}
    BY <1>5, <1>8, <1>9, <2>1
  <2>3. ASSUME p \in plan.hide PROVE FALSE
    <3>1. CASE \E i \in DOMAIN rs : rs[i].mode = "hide" /\ p = rs[i].path
      <4>1. PICK i \in DOMAIN rs : rs[i].mode = "hide" /\ p = rs[i].path
        BY <3>1
      <4>2. PICK e : Best(rs, p, e)
        BY <1>7, OneByOneRight
      <4>3. e = i
        BY <1>7, <4>1, <4>2, OwnRule
      <4>4. Longest(rs, p) \subseteq {rs[e]}
        BY <1>7, <4>2, LongestIs
      <4>5. PICK r \in Longest(rs, p) : r.mode = "none"
        BY <1>11 DEF Mode
      <4> QED BY <4>1, <4>3, <4>4, <4>5
    <3>2. CASE ~\E i \in DOMAIN rs : rs[i].mode = "hide" /\ p = rs[i].path
      <4>1. of[p].mode = "hide" \/ p \in mine
        BY <1>4, <2>3, <3>2
      <4> QED BY <1>5, <2>1, <4>1
    <3> QED BY <3>1, <3>2
  <2> QED BY <1>11, <2>2, <2>3
<1>12. CASE ~Hidden(p) /\ ~Mode(p, "none")
  <2>1. of[p].mode = "kasumi"
    BY <1>6, <1>12
  <2>2. \A x \in Covering(p) : x.bypass = of[p].flag
    BY <1>8, <1>9
  <2>3. of[p].flag = (bypass \/ \E r \in Longest(rs, p) : r.bypass)
    BY <1>2 DEF Told
  <2>4. CASE p \in Visited(of)
    <3>1. p \in mine
      BY <2>1, <2>4 DEF mine
    <3>2. CASE tree[p] = "file"
      <4> DEFINE x == [path |-> p, merge |-> FALSE, bypass |-> of[p].flag]
      <4>1. x \in plan.mappings
        BY <1>3, <3>1, <3>2
      <4>2. x.path = p
        OBVIOUS
      <4> HIDE DEF x
      <4>3. x \in Covering(p)
        BY <4>1, <4>2 DEF Covering
      <4> QED BY <1>12, <2>2, <2>3, <4>3
    <3>3. CASE tree[p] = "whiteout"
      <4>1. p \in plan.hide
        BY <1>4, <3>1, <3>3
      <4> QED BY <1>12, <2>2, <2>3, <3>3, <4>1
    <3> QED BY <3>2, <3>3
  <2>5. CASE p \notin Visited(of)
    <3>1. PICK a \in Ancestors(p) : a \in Visited(of) /\ Pruned(of, a)
      BY <2>5, StoppedAbove
    <3>2. a \in DOMAIN tree /\ a \in Text /\ a # <<>> /\ matches_path(p, a)
      BY <3>1, AncestorIs
    <3>3. of[a].mode # "hide"
      BY <1>6, <1>12, <3>1, <3>2
    <3>4. ~(of[a].mode = "none" /\ ~of[a].nested)
      <4> SUFFICES ASSUME of[a].mode = "none", ~of[a].nested PROVE FALSE
        OBVIOUS
      <4>1. of[p].mode = of[a].mode
        BY <1>2, <3>2, SameInside
      <4> QED BY <2>1, <4>1
    <3>5. Merged(of, a)
      BY <3>1, <3>3, <3>4 DEF Pruned
    <3>6. a \in mine
      BY <3>1, <3>5 DEF mine, Merged
    <3> DEFINE x == [path |-> a, merge |-> TRUE, bypass |-> of[a].flag]
    <3>7. x \in plan.mappings
      BY <1>3, <3>5, <3>6
    <3>8. x.path = a /\ x.merge
      OBVIOUS
    <3> HIDE DEF x
    <3>9. x \in Covering(p)
      BY <3>2, <3>7, <3>8 DEF Covering
    <3> QED BY <1>12, <2>2, <2>3, <3>9
  <2> QED BY <2>4, <2>5
<1> QED BY <1>10, <1>11, <1>12

-------------------------------------------------------------------------------
\* What the commands make of the rules of a module.

OfModule(m) == {Rule(o) : o \in {a \in Additions : a.id = m}}
Kept(rs, m) == rs \in Seq(OfModule(m)) /\ Single(rs)

LEMMA RuleFields ==
    ASSUME NEW o \in Additions
    PROVE  /\ Rule(o) \in Ruling /\ Rule(o) \in OfModule(o.id) /\ Rule(o).path = o.path
           /\ o.path \in Text /\ o.path # <<>>
<1>1. o.path \in Text /\ Absolute(o.path) /\ o.mode \in Modes /\ o.bypass \in BOOLEAN
  BY ModuleRulesAssumption DEF Text
<1>2. o.path # <<>>
  BY <1>1 DEF Absolute
<1>3. Rule(o) \in Ruling /\ Rule(o).path = o.path
  BY <1>1 DEF Rule, Ruling
<1>4. Rule(o) \in OfModule(o.id)
  BY DEF OfModule
<1> QED BY <1>1, <1>2, <1>3, <1>4

LEMMA KeptRuling ==
    ASSUME NEW m, NEW rs, Kept(rs, m)
    PROVE  rs \in Seq(Ruling) /\ Single(rs)
<1>1. OfModule(m) \subseteq Ruling
  BY RuleFields DEF OfModule
<1>2. Len(rs) \in Nat /\ rs \in [1 .. Len(rs) -> OfModule(m)]
  BY DEF Kept
<1>3. rs \in [1 .. Len(rs) -> Ruling]
  BY <1>1, <1>2
<1> QED BY <1>2, <1>3, SeqDef DEF Kept

\* What is left has the other rules, in their order.
LEMMA WithoutRight ==
    ASSUME NEW S, NEW rs \in Seq(S), NEW q
    PROVE  LET w == Without(rs, q)
               kept == {i \in DOMAIN rs : rs[i].path # q}
           IN  /\ w \in Seq(S)
               /\ \E s \in [DOMAIN w -> kept] :
                    /\ \A k \in DOMAIN w : w[k] = rs[s[k]]
                    /\ \A k, l \in DOMAIN w : s[k] = s[l] => k = l
                    /\ \A i \in kept : \E k \in DOMAIN w : s[k] = i
<1> DEFINE w == Without(rs, q)
           kept == {i \in DOMAIN rs : rs[i].path # q}
           before == {x \in kept \X kept : x[1] < x[2]}
           s == Sorted(kept, before)
           N == Cardinality(kept)
<1>0. DOMAIN rs = 1 .. Len(rs) /\ Len(rs) \in Nat
  OBVIOUS
<1>1. w = [k \in DOMAIN s |-> rs[s[k]]]
  BY DEF Without
<1>2. IsFiniteSet(kept)
  <2>1. kept \subseteq 1 .. Len(rs) /\ IsFiniteSet(1 .. Len(rs))
    BY <1>0, FS_Interval
  <2> QED BY <2>1, FS_Subset
<1>3. kept \subseteq Nat /\ \A i \in kept : rs[i] \in S
  BY <1>0
<1>4. \A i, j \in kept : <<i, j>> \in before <=> i < j
  OBVIOUS
<1>5. before \subseteq kept \X kept
  OBVIOUS
<1> HIDE DEF kept, before, w
<1>6. Orders(before, kept)
  BY <1>3, <1>4, <1>5 DEF Orders
<1>7. /\ s \in [1 .. N -> kept] /\ N \in Nat
      /\ \A k, l \in 1 .. N : k < l => <<s[k], s[l]>> \in before
      /\ \A i \in kept : \E k \in 1 .. N : s[k] = i
  BY <1>2, <1>6, SortedRight
<1> HIDE DEF s, N
<1>8. DOMAIN w = 1 .. N /\ \A k \in 1 .. N : w[k] = rs[s[k]]
  BY <1>1, <1>7
<1>9. w \in [1 .. N -> S]
  BY <1>1, <1>3, <1>7
<1>10. w \in Seq(S)
  BY <1>7, <1>9, SeqDef
<1>11. ASSUME NEW k \in 1 .. N, NEW l \in 1 .. N, s[k] = s[l] PROVE k = l
  <2>1. ASSUME NEW a \in 1 .. N, NEW b \in 1 .. N, a < b PROVE s[a] # s[b]
    <3>1. s[a] \in kept /\ s[b] \in kept /\ s[a] \in Nat /\ s[b] \in Nat
      BY <1>3, <1>7
    <3>2. <<s[a], s[b]>> \in before
      BY <1>7, <2>1
    <3>3. s[a] < s[b]
      BY <1>4, <3>1, <3>2
    <3> QED BY <3>1, <3>3
  <2>2. ~(k < l) /\ ~(l < k)
    BY <1>11, <2>1
  <2> QED BY <1>7, <2>2
<1>12. \E t \in [DOMAIN w -> kept] :
          /\ \A k \in DOMAIN w : w[k] = rs[t[k]]
          /\ \A k, l \in DOMAIN w : t[k] = t[l] => k = l
          /\ \A i \in kept : \E k \in DOMAIN w : t[k] = i
  <2>1. s \in [DOMAIN w -> kept]
    BY <1>7, <1>8
  <2>2. \A k, l \in DOMAIN w : s[k] = s[l] => k = l
    BY <1>8, <1>11
  <2>3. \A i \in kept : \E k \in DOMAIN w : s[k] = i
    BY <1>7, <1>8
  <2>4. \A k \in DOMAIN w : w[k] = rs[s[k]]
    BY <1>8
  <2> QED BY <2>1, <2>2, <2>3, <2>4
<1> QED BY <1>10, <1>12 DEF w, kept

\* Removing the rule of a path.
LEMMA Removed ==
    ASSUME NEW m, NEW rs, Kept(rs, m), NEW q
    PROVE  /\ Kept(Without(rs, q), m)
           /\ \A p : RulesFor(Without(rs, q), p) = IF p = q THEN {} ELSE RulesFor(rs, p)
<1> DEFINE w == Without(rs, q)
           kept == {i \in DOMAIN rs : rs[i].path # q}
<1>1. w \in Seq(OfModule(m))
  BY WithoutRight DEF Kept
<1>2. PICK s \in [DOMAIN w -> kept] :
          /\ \A k \in DOMAIN w : w[k] = rs[s[k]]
          /\ \A k, l \in DOMAIN w : s[k] = s[l] => k = l
          /\ \A i \in kept : \E k \in DOMAIN w : s[k] = i
  <2>1. rs \in Seq(OfModule(m))
    BY DEF Kept
  <2> QED BY <2>1, WithoutRight, SMTT(30)
<1> HIDE DEF w
<1>3. \A k \in DOMAIN w : s[k] \in DOMAIN rs /\ rs[s[k]].path # q
  BY <1>2
<1>4. Single(w)
  BY <1>2, <1>3 DEF Single, Kept
<1>5. ASSUME NEW p, p # q PROVE RulesFor(w, p) = RulesFor(rs, p)
  <2>1. ASSUME NEW r \in RulesFor(w, p) PROVE r \in RulesFor(rs, p)
    BY <1>2, <1>3 DEF RulesFor
  <2>2. ASSUME NEW r \in RulesFor(rs, p) PROVE r \in RulesFor(w, p)
    <3>1. PICK i \in DOMAIN rs : r = rs[i] /\ rs[i].path = p
      BY DEF RulesFor
    <3>2. i \in kept
      BY <1>5, <3>1
    <3>3. PICK k \in DOMAIN w : s[k] = i
      BY <1>2, <3>2
    <3> QED BY <1>2, <3>1, <3>3 DEF RulesFor
  <2> QED BY <2>1, <2>2
<1>6. RulesFor(w, q) = {}
  BY <1>2, <1>3 DEF RulesFor
<1> QED BY <1>1, <1>4, <1>5, <1>6 DEF Kept, w

\* Adding one, or replacing it.
LEMMA Added ==
    ASSUME NEW o \in Additions, NEW rs, Kept(rs, o.id), NEW c, c.kind = "add", c.of = o
    PROVE  /\ Kept(write_update(rs, c), o.id)
           /\ \A p : RulesFor(write_update(rs, c), p) = IF p = o.path THEN {Rule(o)} ELSE RulesFor(rs, p)
<1> DEFINE m == o.id
           r == Rule(o)
           same == {i \in DOMAIN rs : rs[i].path = o.path}
           new == write_update(rs, c)
<1>0. r \in OfModule(m) /\ r.path = o.path
  BY RuleFields
<1>1. new = IF same = {} THEN Append(rs, r) ELSE [rs EXCEPT ![Min(same)] = r]
  BY DEF write_update
<1>2. rs \in Seq(OfModule(m)) /\ Single(rs)
  BY DEF Kept
<1> HIDE DEF r, m, new
<1>3. CASE same = {}
  <2>1. /\ new \in Seq(OfModule(m)) /\ DOMAIN new = 1 .. Len(rs) + 1 /\ DOMAIN rs = 1 .. Len(rs)
        /\ new[Len(rs) + 1] = r /\ Len(rs) \in Nat
        /\ \A i \in DOMAIN rs : new[i] = rs[i]
    BY <1>0, <1>1, <1>2, <1>3
  <2>2. \A i \in DOMAIN new : i \in DOMAIN rs \/ i = Len(rs) + 1
    BY <2>1
  <2>3. Single(new)
    BY <1>0, <1>2, <1>3, <2>1, <2>2 DEF Single
  <2>4. ASSUME NEW p PROVE RulesFor(new, p) = IF p = o.path THEN {r} ELSE RulesFor(rs, p)
    <3>1. CASE p = o.path
      <4>1. \A x : x \in RulesFor(new, p) <=> x = r
        BY <1>0, <1>3, <2>1, <2>2, <3>1 DEF RulesFor
      <4> QED BY <3>1, <4>1
    <3>2. CASE p # o.path
      <4>1. \A x : x \in RulesFor(new, p) <=> x \in RulesFor(rs, p)
        BY <1>0, <2>1, <2>2, <3>2 DEF RulesFor
      <4> QED BY <3>2, <4>1
    <3> QED BY <3>1, <3>2
  <2> QED BY <2>1, <2>3, <2>4 DEF Kept, m, r, new
<1>4. CASE same # {}
  <2>1. PICK i \in DOMAIN rs : rs[i].path = o.path
    BY <1>4
  <2>2. same = {i}
    BY <1>2, <2>1 DEF Single
  <2>3. Min(same) = i
    <3>1. i \in Nat /\ i =< i
      BY <1>2
    <3>2. \A x \in same : x = i
      BY <2>2
    <3> QED BY <2>2, <3>1, <3>2 DEF Min
  <2>4. /\ new \in Seq(OfModule(m)) /\ DOMAIN new = DOMAIN rs
        /\ new[i] = r /\ \A j \in DOMAIN rs : j # i => new[j] = rs[j]
    <3>1. new = [rs EXCEPT ![i] = r]
      BY <1>1, <1>4, <2>3
    <3>2. DOMAIN rs = 1 .. Len(rs) /\ Len(rs) \in Nat /\ rs \in [1 .. Len(rs) -> OfModule(m)]
      BY <1>2
    <3>3. new \in [1 .. Len(rs) -> OfModule(m)]
      BY <1>0, <2>1, <3>1, <3>2
    <3>4. new \in Seq(OfModule(m))
      BY <3>2, <3>3, SeqDef
    <3> QED BY <2>1, <3>1, <3>2, <3>3, <3>4
  <2>5. \A j \in DOMAIN rs : new[j].path = rs[j].path
    BY <1>0, <2>1, <2>4
  <2>6. Single(new)
    BY <1>2, <2>4, <2>5 DEF Single
  <2>7. ASSUME NEW p PROVE RulesFor(new, p) = IF p = o.path THEN {r} ELSE RulesFor(rs, p)
    <3>1. CASE p = o.path
      <4>1. \A j \in DOMAIN rs : new[j].path = p <=> j = i
        BY <2>2, <2>5, <3>1
      <4>2. \A x : x \in RulesFor(new, p) <=> x = r
        BY <2>1, <2>4, <4>1 DEF RulesFor
      <4> QED BY <3>1, <4>2
    <3>2. CASE p # o.path
      <4>1. \A j \in DOMAIN rs : rs[j].path = p => j # i
        BY <2>1, <3>2
      <4>2. \A x : x \in RulesFor(new, p) <=> x \in RulesFor(rs, p)
        BY <2>4, <2>5, <4>1 DEF RulesFor
      <4> QED BY <3>2, <4>2
    <3> QED BY <3>1, <3>2
  <2> QED BY <2>4, <2>6, <2>7 DEF Kept, m, r, new
<1> QED BY <1>3, <1>4

-------------------------------------------------------------------------------
\* The invariant: the files hold rules that were said of their modules, one for a path, and
\* a command has read what it replaces, which no one else has changed since.

RulesInv ==
    /\ rules \in [Modules -> Seq(Ruling)] /\ \A m \in Modules : Kept(rules[m], m)
    /\ bypasses \subseteq Modules /\ tree \in Trees
    /\ op \in Commands \cup {Idle} /\ (op # Idle => draft = rules)

LEMMA RulesInvInit == RulesInit => RulesInv
<1> SUFFICES ASSUME RulesInit PROVE RulesInv
  OBVIOUS
<1>1. \A m : Kept(<<>>, m)
  BY DEF Kept, Single
<1>2. rules \in [Modules -> Seq(Ruling)] /\ \A m \in Modules : Kept(rules[m], m)
  BY <1>1 DEF RulesInit
<1> QED BY <1>2 DEF RulesInit, RulesInv

\* What Save makes of the rules.
LEMMA SaveRight ==
    ASSUME RulesInv, Save
    PROVE  /\ op # Idle /\ op.kind \in {"add", "remove"} /\ op.of \in Additions
           /\ rules' \in [Modules -> Seq(Ruling)] /\ \A m \in Modules : Kept(rules'[m], m)
           /\ \A m \in Modules : m # op.of.id => rules'[m] = rules[m]
           /\ \A p : RulesFor(rules'[op.of.id], p) =
                IF p = op.of.path THEN (IF op.kind = "add" THEN {Rule(op.of)} ELSE {})
                ELSE RulesFor(rules[op.of.id], p)
<1> DEFINE m == op.of.id
           new == write_update(rules[m], op)
<1>1. op.kind \in {"add", "remove"} /\ op # Idle
  BY DEF Save, Idle
<1>2. op.of \in Additions /\ op \in Commands
  BY <1>1 DEF RulesInv, Commands
<1>3. m \in Modules /\ draft = rules
  BY <1>1, <1>2 DEF RulesInv, Modules
<1>4. rules \in [Modules -> Seq(Ruling)] /\ Kept(rules[m], m)
  BY <1>3 DEF RulesInv
<1>5. rules' = [rules EXCEPT ![m] = new]
  BY <1>3, <1>4 DEF Save
<1>6. /\ Kept(new, m)
      /\ \A p : RulesFor(new, p) =
           IF p = op.of.path THEN (IF op.kind = "add" THEN {Rule(op.of)} ELSE {})
           ELSE RulesFor(rules[m], p)
  <2>1. CASE op.kind = "add"
    <3>1. /\ Kept(new, m)
          /\ \A p : RulesFor(new, p) =
               IF p = op.of.path THEN {Rule(op.of)} ELSE RulesFor(rules[m], p)
      <4>1. Kept(rules[op.of.id], op.of.id)
        BY <1>4
      <4> HIDE DEF new, m
      <4>2. /\ Kept(write_update(rules[op.of.id], op), op.of.id)
            /\ \A p : RulesFor(write_update(rules[op.of.id], op), p) =
                 IF p = op.of.path THEN {Rule(op.of)} ELSE RulesFor(rules[op.of.id], p)
        BY <1>2, <2>1, <4>1, Added
      <4> QED BY <4>2, Zenon DEF new, m
    <3> HIDE DEF new, m
    <3> QED BY <2>1, <3>1
  <2>2. CASE op.kind = "remove"
    <3>1. new = Without(rules[m], op.of.path)
      BY <2>2 DEF write_update
    <3>2. ~(op.kind = "add")
      BY <2>2
    <3>3. /\ Kept(new, m)
          /\ \A p : RulesFor(new, p) =
               IF p = op.of.path THEN {} ELSE RulesFor(rules[m], p)
      <4> DEFINE old == rules[m]
                 q == op.of.path
      <4>0. Kept(old, m)
        BY <1>4
      <4> HIDE DEF m, old, q
      <4>1. /\ Kept(Without(old, q), m)
            /\ \A p : RulesFor(Without(old, q), p) = IF p = q THEN {} ELSE RulesFor(old, p)
        BY <4>0, Removed
      <4> QED BY <3>1, <4>1, Zenon DEF old, q
    <3> HIDE DEF new, m
    <3> QED BY <3>2, <3>3
  <2> QED BY <1>1, <2>1, <2>2
<1>7. new \in Seq(Ruling)
  BY <1>6, KeptRuling
<1> HIDE DEF new
<1>8. rules' \in [Modules -> Seq(Ruling)] /\ rules'[m] = new
      /\ \A k \in Modules : k # m => rules'[k] = rules[k]
  BY <1>3, <1>4, <1>5, <1>7
<1>9. \A k \in Modules : Kept(rules'[k], k)
  BY <1>6, <1>8 DEF RulesInv
<1> QED BY <1>1, <1>2, <1>6, <1>8, <1>9

LEMMA RulesInvNext ==
    ASSUME RulesInv, [RulesNext]_rulevars
    PROVE  RulesInv'
<1>1. CASE Load
  <2>1. op' \in Commands /\ draft' = rules /\ UNCHANGED <<rules, bypasses, tree>>
    BY <1>1 DEF Load, load
  <2> QED BY <2>1 DEF RulesInv
<1>2. CASE Save
  <2>1. rules' \in [Modules -> Seq(Ruling)] /\ \A m \in Modules : Kept(rules'[m], m)
    BY <1>2, SaveRight
  <2>2. op' = Idle /\ UNCHANGED <<tree, bypasses>>
    BY <1>2 DEF Save, Done
  <2> QED BY <2>1, <2>2 DEF RulesInv
<1>3. CASE SaveBypass
  <2>1. op \in Commands /\ op.id \in Modules
    BY <1>3 DEF SaveBypass, RulesInv, Commands, Idle
  <2>2. bypasses' \subseteq Modules
    BY <1>3, <2>1 DEF SaveBypass, RulesInv
  <2>3. op' = Idle /\ UNCHANGED <<tree, rules>>
    BY <1>3 DEF SaveBypass, Done
  <2> QED BY <2>2, <2>3 DEF RulesInv
<1>4. CASE Fail
  <2>1. op' = Idle /\ UNCHANGED <<tree, rules, bypasses>>
    BY <1>4 DEF Fail, Done
  <2> QED BY <2>1 DEF RulesInv
<1>5. CASE UNCHANGED rulevars
  BY <1>5 DEF RulesInv, rulevars
<1> QED BY <1>1, <1>2, <1>3, <1>4, <1>5 DEF RulesNext

LEMMA RulesInvariant == RulesSpec => []RulesInv
BY RulesInvInit, RulesInvNext, PTL DEF RulesSpec

\* The files hold values of their kinds, and no path has two rules in one module: adding a
\* rule replaces the one its path has (module_settings.cpp).
THEOREM RulesTypeCorrect == RulesSpec => []RulesTyped
<1>1. RulesInv => RulesTyped
  <2> SUFFICES ASSUME RulesInv PROVE RulesTyped
    OBVIOUS
  <2>1. DOMAIN rules = Modules /\ bypasses \subseteq Modules /\ tree \in Trees
        /\ op \in Commands \cup {Idle}
    BY DEF RulesInv
  <2>2. ASSUME NEW m \in Modules
        PROVE  /\ \A i \in DOMAIN rules[m] : \E o \in Additions : o.id = m /\ rules[m][i] = Rule(o)
               /\ \A i, j \in DOMAIN rules[m] : rules[m][i].path = rules[m][j].path => i = j
    <3>1. rules[m] \in Seq(OfModule(m)) /\ Single(rules[m])
      BY DEF RulesInv, Kept
    <3>2. \A i \in DOMAIN rules[m] : rules[m][i] \in OfModule(m)
      BY <3>1
    <3>3. \A r \in OfModule(m) : \E o \in Additions : o.id = m /\ r = Rule(o)
      BY DEF OfModule
    <3> QED BY <3>1, <3>2, <3>3 DEF Single
  <2> QED BY <2>1, <2>2 DEF RulesTyped
<1> QED BY <1>1, RulesInvariant, PTL

\* The planner's binary search and its walk up the path find the rule that comparing each
\* rule would, the last of the longest that match, and what compile_tree plans for the
\* kernel is what these rules say of every file (kasumi_rule_index.hpp, kasumi.cpp).
THEOREM LongestPrefixCorrect == RulesSpec => []LongestPrefixDecides
<1>1. RulesInv => LongestPrefixDecides
  <2> SUFFICES ASSUME RulesInv, NEW m \in Modules
               PROVE  /\ Agree(rules[m], ordered(rules[m]))
                      /\ Follows(rules[m], m \in bypasses,
                                 compile_tree(rules[m], m \in bypasses))
    BY DEF LongestPrefixDecides
  <2> DEFINE rs == rules[m]
  <2>1. rs \in Seq(Ruling) /\ Single(rs)
    BY KeptRuling DEF RulesInv
  <2>2. TreeTyped
    <3>1. tree \in Trees
      BY DEF RulesInv
    <3>2. \A n \in DOMAIN tree : n \in Text /\ Absolute(n) /\ tree[n] \in Kinds
      BY <3>1, ModuleRulesAssumption DEF Text
    <3> QED BY <3>2 DEF TreeTyped, Absolute
  <2> HIDE DEF rs
  <2>3. Agree(rs, ordered(rs))
    <3> SUFFICES ASSUME NEW p \in DOMAIN tree \cup PathsSaid
                 PROVE  /\ one_by_one(rs, p) = by_prefixes(rs, ordered(rs), p)
                        /\ any_nested(rs, p) = nested_found(rs, ordered(rs), p)
      BY DEF Agree
    <3>1. p \in Text /\ p # <<>>
      BY <2>2, RuleFields DEF TreeTyped, PathsSaid
    <3> QED BY <2>1, <3>1, IndexAgrees
  <2>4. (m \in bypasses) \in BOOLEAN
    OBVIOUS
  <2>5. Follows(rs, m \in bypasses, compile_tree(rs, m \in bypasses))
    BY <2>1, <2>2, <2>4, PlanFollows
  <2> QED BY <2>3, <2>5 DEF rs
<1> QED BY <1>1, RulesInvariant, PTL

\* A command changes the rule of the path it names, to what it says, and no other rule
\* (update_module_rule, with write_file_atomic's rename as the one step that changes them).
THEOREM RulesKeptCorrect == RulesSpec => RulesKept
<1> DEFINE A == \A m \in Modules, p \in PathsSaid :
              RulesFor(rules'[m], p) # RulesFor(rules[m], p) =>
                /\ op.kind \in {"add", "remove"} /\ op.of.id = m /\ op.of.path = p
                /\ RulesFor(rules'[m], p) = IF op.kind = "add" THEN {Rule(op.of)} ELSE {}
<1>1. ASSUME RulesInv, [RulesNext]_rulevars PROVE A
  <2>1. CASE Save
    <3> SUFFICES ASSUME NEW m \in Modules, NEW p \in PathsSaid,
                        RulesFor(rules'[m], p) # RulesFor(rules[m], p)
                 PROVE  /\ op.kind \in {"add", "remove"} /\ op.of.id = m /\ op.of.path = p
                        /\ RulesFor(rules'[m], p) =
                             IF op.kind = "add" THEN {Rule(op.of)} ELSE {}
      OBVIOUS
    <3>1. op.kind \in {"add", "remove"} /\ op.of.id = m
      BY <1>1, <2>1, SaveRight
    <3>2. RulesFor(rules'[m], p) =
             IF p = op.of.path THEN (IF op.kind = "add" THEN {Rule(op.of)} ELSE {})
             ELSE RulesFor(rules[m], p)
      BY <1>1, <2>1, <3>1, SaveRight
    <3> QED BY <3>1, <3>2
  <2>2. CASE ~Save
    <3>1. rules' = rules
      BY <1>1, <2>2 DEF RulesNext, Load, SaveBypass, Fail, rulevars
    <3> QED BY <3>1
  <2> QED BY <2>1, <2>2
<1>2. RulesInv /\ [RulesNext]_rulevars => [A]_rulevars
  BY <1>1
<1> HIDE DEF A
<1>3. RulesSpec => [][A]_rulevars
  BY <1>2, RulesInvariant, PTL DEF RulesSpec
<1> QED BY <1>3, PTL DEF RulesKept, A

===============================================================================
