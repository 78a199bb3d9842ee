--------------------------- MODULE DaemonLifecycle ---------------------------
(***************************************************************************)
(* The daemon (core/daemon.cpp): processes that run serve_foreground() and *)
(* compete for one socket path, one pid file and one lifetime lock, and    *)
(* clients that send one request each over the socket. The daemon accepts  *)
(* one connection at a time and runs its command to the end; a command may *)
(* fork a mount child, or run a helper program, that outlives a killed     *)
(* daemon with the descriptors it inherited: a mount child with the lock   *)
(* and the listening socket, a helper with the socket alone (the lock is   *)
(* opened O_CLOEXEC, the sockets are not).                                 *)
(***************************************************************************)
EXTENDS Naturals, Sequences, FiniteSets

CONSTANTS
    Servers,       \* processes that run serve_foreground()
    Clients,       \* processes that send a request (fewer than the backlog of 8)
    None,          \* no process
    Stale          \* a file left by a process that is gone

ASSUME ConstantsAssumption ==
    /\ Servers \cap Clients = {}
    /\ None \notin Servers \cup Clients
    /\ Stale \notin Servers \cup Clients \cup {None}

VARIABLES
    path,          \* whose socket the path kagamid.sock names
    pidfile,       \* who the pid file names
    lock,          \* who holds the flock on the daemon lock, itself or through its child
    sock,          \* each server's socket: "none", "bound" or "listening"
    queue,         \* callers connected to it and not accepted yet
    pc,            \* where each server is in serve_foreground()
    busy,          \* whose command it runs
    child,         \* what its command has forked: "none", "mount" or "helper"
    request,       \* what each client waits for an answer to
    calm           \* ghost: no daemon has stopped, failed or died since this server started

vars == <<path, pidfile, lock, sock, queue, pc, busy, child, request, calm>>

Callers == Servers \cup Clients
Requests == {"ping", "command", "stop", "malformed"}
Closing == {"close", "unlink", "unpid", "unlock"}
Starting == {"look", "ping", "pinging", "court", "courting", "probe", "lock"}
Owning == {"clear", "bind", "listen", "publish", "accept", "run"} \cup Closing

Serving(s) == pc[s] \in {"accept", "run"}

-----------------------------------------------------------------------------
(* The socket.                                                             *)

Members(q) == {q[i] : i \in DOMAIN q}

\* connect() succeeds on a listening socket, even if its process is gone and
\* only a child holds it.
Reachable == path \in Servers /\ sock[path] = "listening"

Connect(x) == queue' = [queue EXCEPT ![path] = Append(@, x)]

\* What callers do when their connection ends without an answer: a client
\* reports "daemon unavailable", a starting server takes the next step.
Disappoint(lost, at) ==
    [s \in Servers |->
        IF s \in lost /\ at[s] = "pinging" THEN "court"
        ELSE IF s \in lost /\ at[s] = "courting" THEN "probe"
        ELSE at[s]]

\* The queue without a caller that is gone: it has one connection at a time.
HungUp(q, x) ==
    IF x \in Members(q)
    THEN LET i == CHOOSE j \in DOMAIN q : q[j] = x
         IN  SubSeq(q, 1, i - 1) \o SubSeq(q, i + 1, Len(q))
    ELSE q

\* Faulty variant: the backlog of a closed socket is not reset.
M_BacklogKept(s) == {busy[s]}

Dropped(s) == Members(queue[s]) \cup {busy[s]}

\* The last descriptor of s's socket closes.
CloseSocket(s, at) ==
    /\ sock' = [sock EXCEPT ![s] = "none"]
    /\ queue' = [queue EXCEPT ![s] = <<>>]
    /\ busy' = [busy EXCEPT ![s] = None]
    /\ pc' = Disappoint(Dropped(s), at)
    /\ request' = [c \in Clients |-> IF c \in Dropped(s) THEN "none" ELSE request[c]]

-----------------------------------------------------------------------------
(* Clients: daemon ping|stop|status|call, and every command that           *)
(* run_via_daemon() forwards.                                              *)

Send(c, what) ==
    /\ request[c] = "none"
    /\ Reachable
    /\ Connect(c)
    /\ request' = [request EXCEPT ![c] = what]
    /\ UNCHANGED <<path, pidfile, lock, sock, pc, busy, child, calm>>

-----------------------------------------------------------------------------
(* Starting: "daemon serve", or the process start_background() forks.      *)

Launch(s) ==
    /\ pc[s] = "down"
    /\ pc' = [pc EXCEPT ![s] = "look"]
    /\ calm' = [calm EXCEPT ![s] = \A t \in Servers : pc[t] \notin Closing \cup {"orphan"}]
    /\ UNCHANGED <<path, pidfile, lock, sock, queue, busy, child, request>>

GoTo(s, at) ==
    /\ pc' = [pc EXCEPT ![s] = at]
    /\ UNCHANGED <<path, pidfile, lock, sock, queue, busy, child, request, calm>>

\* fs::exists(socket)
Look(s) ==
    /\ pc[s] = "look"
    /\ GoTo(s, IF path = None THEN "lock" ELSE "ping")

\* daemon_running(), then the same question in the legacy protocol, which a
\* daemon of this version rejects.
Ask(s, at, waiting, refused) ==
    /\ pc[s] = at
    /\ \/ /\ Reachable
          /\ Connect(s)
          /\ pc' = [pc EXCEPT ![s] = waiting]
          /\ UNCHANGED <<path, pidfile, lock, sock, busy, child, request, calm>>
       \/ ~Reachable /\ GoTo(s, refused)

Ping(s) == Ask(s, "ping", "pinging", "court")
Court(s) == Ask(s, "court", "courting", "probe")

\* Something that does not speak this protocol still accepts connections there.
Probe(s) ==
    /\ pc[s] = "probe"
    /\ GoTo(s, IF Reachable THEN "down" ELSE "lock")

\* Faulty variant: the result of flock() is not looked at.
M_LockIgnored(s) == TRUE

LockFree(s) == lock = None

TakeLock(s) ==
    /\ pc[s] = "lock"
    /\ LockFree(s)
    /\ lock' = s
    /\ pc' = [pc EXCEPT ![s] = "clear"]
    /\ UNCHANGED <<path, pidfile, sock, queue, busy, child, request, calm>>

AlreadyRunning(s) ==
    /\ pc[s] = "lock"
    /\ ~LockFree(s)
    /\ GoTo(s, "down")

\* Faulty variant: the socket a killed daemon left is not removed.
M_StaleKept(s) ==
    /\ pc[s] = "clear"
    /\ pc' = [pc EXCEPT ![s] = "bind"]
    /\ UNCHANGED <<path, pidfile, lock, sock, queue, busy, child, request, calm>>

Clear(s) ==
    /\ pc[s] = "clear"
    /\ path' = None
    /\ pc' = [pc EXCEPT ![s] = "bind"]
    /\ UNCHANGED <<pidfile, lock, sock, queue, busy, child, request, calm>>

\* bind() refuses a path that exists.
Bind(s) ==
    /\ pc[s] = "bind"
    /\ \/ /\ path = None
          /\ path' = s
          /\ sock' = [sock EXCEPT ![s] = "bound"]
          /\ pc' = [pc EXCEPT ![s] = "listen"]
          /\ UNCHANGED lock
       \/ /\ path # None
          /\ lock' = None
          /\ pc' = [pc EXCEPT ![s] = "down"]
          /\ UNCHANGED <<path, sock>>
    /\ UNCHANGED <<pidfile, queue, busy, child, request, calm>>

Listen(s) ==
    /\ pc[s] = "listen"
    /\ sock' = [sock EXCEPT ![s] = "listening"]
    /\ pc' = [pc EXCEPT ![s] = "publish"]
    /\ UNCHANGED <<path, pidfile, lock, queue, busy, child, request, calm>>

\* socket() or listen() fails: the exit closes the descriptors and leaves the path.
SetupFails(s) ==
    /\ pc[s] \in {"bind", "listen"}
    /\ lock' = None
    /\ sock' = [sock EXCEPT ![s] = "none"]
    /\ path' = IF path = s THEN Stale ELSE path
    /\ pc' = [pc EXCEPT ![s] = "down"]
    /\ calm' = [t \in Servers |-> FALSE]
    /\ UNCHANGED <<pidfile, queue, busy, child, request>>

\* The pid file, if it can be written; then the command storage, without which
\* the daemon leaves the way it leaves when it is stopped.
Publish(s) ==
    /\ pc[s] = "publish"
    /\ pidfile' \in {s, pidfile}
    /\ \/ pc' = [pc EXCEPT ![s] = "accept"] /\ UNCHANGED calm
       \/ pc' = [pc EXCEPT ![s] = "close"] /\ calm' = [t \in Servers |-> FALSE]
    /\ UNCHANGED <<path, lock, sock, queue, busy, child, request>>

-----------------------------------------------------------------------------
(* Serving: one connection after the other.                                *)

Asks(x) ==
    IF x \in Clients THEN request[x]
    ELSE IF pc[x] = "pinging" THEN "ping" ELSE "malformed"

Accepts(s, kinds) == pc[s] = "accept" /\ queue[s] # <<>> /\ Asks(Head(queue[s])) \in kinds

\* The answer reaches the caller at the head of the queue.
Reply(s, at) ==
    LET x == Head(queue[s]) IN
    /\ queue' = [queue EXCEPT ![s] = Tail(@)]
    /\ request' = [c \in Clients |-> IF c = x THEN "none" ELSE request[c]]
    /\ pc' = [t \in Servers |->
                IF t = x /\ at[t] = "pinging" THEN "lock"
                ELSE IF t = x /\ at[t] = "courting" THEN "probe"
                ELSE at[t]]

\* ping, status, a daemon command that cannot be forwarded, or a request that
\* is malformed or does not come within the receive timeout.
Answer(s) ==
    /\ Accepts(s, {"ping", "malformed"})
    /\ Reply(s, pc)
    /\ UNCHANGED <<path, pidfile, lock, sock, busy, child, calm>>

AcceptStop(s) ==
    /\ Accepts(s, {"stop"})
    /\ Reply(s, [pc EXCEPT ![s] = "close"])
    /\ calm' = [t \in Servers |-> FALSE]
    /\ UNCHANGED <<path, pidfile, lock, sock, busy, child>>

\* Faulty variant: requests to the daemon itself are run like any other.
M_RunsAnything(s) ==
    /\ Accepts(s, Requests)
    /\ queue' = [queue EXCEPT ![s] = Tail(@)]
    /\ busy' = [busy EXCEPT ![s] = Head(queue[s])]
    /\ pc' = [pc EXCEPT ![s] = "run"]
    /\ UNCHANGED <<path, pidfile, lock, sock, child, request, calm>>

AcceptCommand(s) ==
    /\ Accepts(s, {"command"})
    /\ queue' = [queue EXCEPT ![s] = Tail(@)]
    /\ busy' = [busy EXCEPT ![s] = Head(queue[s])]
    /\ pc' = [pc EXCEPT ![s] = "run"]
    /\ UNCHANGED <<path, pidfile, lock, sock, child, request, calm>>

\* run_in_init_mount_ns(), or a tool that is forked and executed.
Fork(s) ==
    /\ pc[s] = "run" /\ child[s] = "none"
    /\ \E kind \in {"mount", "helper"} : child' = [child EXCEPT ![s] = kind]
    /\ UNCHANGED <<path, pidfile, lock, sock, queue, pc, busy, request, calm>>

\* The command waits for its child before it ends.
EndCommand(s) ==
    /\ pc[s] = "run" /\ child[s] = "none"
    /\ request' = [request EXCEPT ![busy[s]] = "none"]
    /\ busy' = [busy EXCEPT ![s] = None]
    /\ pc' = [pc EXCEPT ![s] = "accept"]
    /\ UNCHANGED <<path, pidfile, lock, sock, queue, child, calm>>

-----------------------------------------------------------------------------
(* Leaving.                                                                *)

\* Faulty variant: the lock goes first.
M_UnlocksFirst(s) ==
    /\ pc[s] = "close"
    /\ CloseSocket(s, [pc EXCEPT ![s] = "unlink"])
    /\ lock' = None
    /\ UNCHANGED <<path, pidfile, child, calm>>

Close(s) ==
    /\ pc[s] = "close"
    /\ CloseSocket(s, [pc EXCEPT ![s] = "unlink"])
    /\ UNCHANGED <<path, pidfile, lock, child, calm>>

Unlink(s) ==
    /\ pc[s] = "unlink"
    /\ path' = None
    /\ pc' = [pc EXCEPT ![s] = "unpid"]
    /\ UNCHANGED <<pidfile, lock, sock, queue, busy, child, request, calm>>

Unpid(s) ==
    /\ pc[s] = "unpid"
    /\ pidfile' = None
    /\ pc' = [pc EXCEPT ![s] = "unlock"]
    /\ UNCHANGED <<path, lock, sock, queue, busy, child, request, calm>>

Unlock(s) ==
    /\ pc[s] = "unlock"
    /\ lock' = None
    /\ pc' = [pc EXCEPT ![s] = "down"]
    /\ UNCHANGED <<path, pidfile, sock, queue, busy, child, request, calm>>

\* The descriptors of s are gone with its last process.
Vanish(s, others) ==
    /\ lock' = IF lock = s THEN None ELSE lock
    /\ path' = IF path = s THEN Stale ELSE path
    /\ sock' = [sock EXCEPT ![s] = "none"]
    /\ queue' = [t \in Servers |-> IF t = s THEN <<>> ELSE others[t]]
    /\ busy' = [busy EXCEPT ![s] = None]
    /\ pc' = Disappoint(Dropped(s), [pc EXCEPT ![s] = "down"])
    /\ request' = [c \in Clients |-> IF c \in Dropped(s) THEN "none" ELSE request[c]]

\* Faulty variant: the lock does not follow the descriptor into the mount child.
M_LockNotInherited(s) == FALSE

ChildKeepsLock(s) == child[s] = "mount"

\* SIGKILL, or the default action of a signal, while s has no child. What s
\* itself had asked of another daemon is forgotten.
Kill(s) ==
    /\ pc[s] \notin {"down", "orphan"} /\ child[s] = "none"
    /\ Vanish(s, [t \in Servers |-> HungUp(queue[t], s)])
    /\ pidfile' = IF pidfile = s THEN Stale ELSE pidfile
    /\ calm' = [t \in Servers |-> FALSE]
    /\ UNCHANGED child

\* The same while its command waits for a child.
KillParent(s) ==
    /\ pc[s] = "run" /\ child[s] # "none"
    /\ pc' = [pc EXCEPT ![s] = "orphan"]
    /\ lock' = IF lock = s /\ ~ChildKeepsLock(s) THEN None ELSE lock
    /\ pidfile' = IF pidfile = s THEN Stale ELSE pidfile
    /\ calm' = [t \in Servers |-> FALSE]
    /\ UNCHANGED <<path, sock, queue, busy, child, request>>

ChildExits(s) ==
    /\ child[s] # "none"
    /\ child' = [child EXCEPT ![s] = "none"]
    /\ \/ pc[s] = "run" /\ UNCHANGED <<path, lock, sock, queue, busy, pc, request>>
       \/ pc[s] = "orphan" /\ Vanish(s, queue)
    /\ UNCHANGED <<pidfile, calm>>

-----------------------------------------------------------------------------
\* A data directory that earlier boots may have left in any state.
Init ==
    /\ path \in {None, Stale}
    /\ pidfile \in {None, Stale}
    /\ lock = None
    /\ sock = [s \in Servers |-> "none"]
    /\ queue = [s \in Servers |-> <<>>]
    /\ pc = [s \in Servers |-> "down"]
    /\ busy = [s \in Servers |-> None]
    /\ child = [s \in Servers |-> "none"]
    /\ request = [c \in Clients |-> "none"]
    /\ calm = [s \in Servers |-> FALSE]

Step(s) ==
    \/ Look(s) \/ Ping(s) \/ Court(s) \/ Probe(s) \/ TakeLock(s) \/ AlreadyRunning(s)
    \/ Clear(s) \/ Bind(s) \/ Listen(s) \/ Publish(s)
    \/ Answer(s) \/ AcceptStop(s) \/ AcceptCommand(s) \/ EndCommand(s)
    \/ Close(s) \/ Unlink(s) \/ Unpid(s) \/ Unlock(s)

Next ==
    \/ \E c \in Clients, what \in Requests : Send(c, what)
    \/ \E s \in Servers :
        \/ Launch(s) \/ Look(s) \/ Ping(s) \/ Court(s) \/ Probe(s)
        \/ TakeLock(s) \/ AlreadyRunning(s) \/ Clear(s) \/ Bind(s) \/ Listen(s)
        \/ SetupFails(s) \/ Publish(s)
        \/ Answer(s) \/ AcceptStop(s) \/ AcceptCommand(s) \/ Fork(s) \/ EndCommand(s)
        \/ Close(s) \/ Unlink(s) \/ Unpid(s) \/ Unlock(s)
        \/ Kill(s) \/ KillParent(s) \/ ChildExits(s)

Spec == Init /\ [][Next]_vars

\* Processes run: a server that can take a step takes it, a mount pass or a
\* helper comes to its end, and so does a command, which forks finitely often.
FairSpec ==
    /\ Spec
    /\ \A s \in Servers :
        WF_vars(Step(s)) /\ WF_vars(ChildExits(s)) /\ SF_vars(EndCommand(s))

-----------------------------------------------------------------------------
(* Properties.                                                             *)

\* Every variable has its type.
TypeOK ==
    /\ path \in Servers \cup {None, Stale}
    /\ pidfile \in Servers \cup {None, Stale}
    /\ lock \in Servers \cup {None}
    /\ sock \in [Servers -> {"none", "bound", "listening"}]
    /\ queue \in [Servers -> Seq(Callers)]
    /\ pc \in [Servers -> {"down", "orphan"} \cup Starting \cup Owning]
    /\ busy \in [Servers -> Clients \cup {None}]
    /\ child \in [Servers -> {"none", "mount", "helper"}]
    /\ request \in [Clients -> Requests \cup {"none"}]
    /\ calm \in [Servers -> BOOLEAN]

\* A daemon that accepts requests is the one the socket path leads to, and the
\* pid file does not name another: whatever starts, stops or dies beside it,
\* nobody removes or replaces the socket of a live daemon.
ServerIsReached ==
    \A s \in Servers : Serving(s) => path = s /\ pidfile \in {s, None, Stale}

\* At most one command at work, counting the mount child of a daemon that was
\* killed: what the commands share (configuration, boot claim, runtime record,
\* Kasumi's plan) is never changed by two of them at once.
CommandsAreSerial ==
    \A s, t \in Servers :
        /\ pc[s] = "run" \/ child[s] = "mount"
        /\ pc[t] = "run" \/ child[t] = "mount"
        => s = t

\* Every request is answered or fails: no client waits forever on a daemon that
\* stops, dies, or leaves a child behind with its socket.
ClientsAreAnswered ==
    \A c \in Clients : request[c] # "none" ~> request[c] = "none"

\* Starting the daemon leaves a daemon that serves, whoever else starts one at
\* the same time and whatever a killed one left, unless one was leaving meanwhile.
LaunchServes ==
    \A s \in Servers : pc[s] = "look" ~> (~calm[s] \/ \E t \in Servers : Serving(t))

=============================================================================
