---------------------------- MODULE ServerStart ----------------------------
(***************************************************************************)
(* How clients that find no server start one (client_connect and           *)
(* client_get_lock of client.c, server_start and server_create_socket of   *)
(* server.c): a file beside the socket is locked with flock, the client     *)
(* that has the lock unlinks the socket and forks the server, and the       *)
(* server binds a new socket, unlinks the file and lets go of the lock.     *)
(*                                                                         *)
(* Each step is one system call.  A server has the name of the client that  *)
(* forked it, and shares the open lock file with it.  Foreground servers    *)
(* (-D) and sockets given by systemd are left out.                          *)
(***************************************************************************)
EXTENDS Naturals, FiniteSets

CONSTANTS
  Processes,
  Starters,      \* the clients whose command may start a server
  NoServer,      \* no socket at the path
  MaxFaults      \* bound: processes that end or are signalled, files that cannot be opened

ASSUME ClientsAssumption == Starters \subseteq Processes /\ NoServer \notin Processes

VARIABLES
  pc,            \* where a client is in client_connect
  locked,        \* clients for which "locked" is set
  fd,            \* the lock file that a client and its server have open, 0 if none
  holds,         \* who of "client" and "server" has it open
  flocked,       \* clients whose open file has the lock
  lockfile,      \* the file at <path>.lock, 0 if there is none
  files,         \* how many lock files have been created
  server,        \* where the server that a client forked is in server_start
  listening,     \* the servers whose socket listens
  path,          \* the server whose socket is at the path, or NoServer
  faults         \* what has gone wrong

clientVars == <<pc, locked>>
lockVars   == <<fd, holds, flocked, lockfile, files>>
socketVars == <<server, listening, path>>
startVars == <<clientVars, lockVars, socketVars, faults>>

Done == {"connected", "failed", "killed"}
Places == Done \cup {"connect", "open", "flock", "wait", "unlink", "start", "leave"}
Stages == {"none", "forked", "unlinked", "bound", "created", "unlocking", "up",
           "recreating", "gone"}

Locked_slip(file) == FALSE
Locked(file) == \E c \in flocked : fd[c] = file /\ file # 0
\* close(lockfd), by the client or by its server: the lock goes with the last.
Close(c, who) ==
  /\ holds' = [holds EXCEPT ![c] = @ \ {who}]
  /\ flocked' = IF holds'[c] = {} THEN flocked \ {c} ELSE flocked
  /\ fd' = IF holds'[c] = {} THEN [fd EXCEPT ![c] = 0] ELSE fd
  /\ UNCHANGED <<lockfile, files>>

Goto(c, where) == pc' = [pc EXCEPT ![c] = where]

-----------------------------------------------------------------------------
(* A client: client_connect.                                                *)

\* The connect that fails at first is tried again with the lock held.
AfterRefusal(c) ==
  IF c \notin Starters THEN "failed"
  ELSE IF c \notin locked THEN "open"
  ELSE IF fd[c] # 0 THEN "unlink" ELSE "start"

TryConnect(c) ==
  /\ pc[c] = "connect"
  /\ Goto(c, IF path \in listening THEN "leave" ELSE AfterRefusal(c))
  /\ UNCHANGED <<locked, lockVars, socketVars, faults>>

\* open(lockfile, O_WRONLY|O_CREAT)
Open(c) ==
  /\ pc[c] = "open"
  /\ files' = IF lockfile = 0 THEN files + 1 ELSE files
  /\ lockfile' = IF lockfile = 0 THEN files' ELSE lockfile
  /\ fd' = [fd EXCEPT ![c] = lockfile']
  /\ holds' = [holds EXCEPT ![c] = {"client"}]
  /\ Goto(c, "flock")
  /\ UNCHANGED <<locked, flocked, socketVars, faults>>

\* With the lock it always connects again: another client may have started the
\* server and let go of the lock since this one was refused.
Taken_slip(c) ==
  /\ Goto(c, "unlink")
  /\ locked' = locked \cup {c}
  /\ flocked' = flocked \cup {c}
Taken(c) ==
  /\ Goto(c, "connect")
  /\ locked' = locked \cup {c}
  /\ flocked' = flocked \cup {c}
\* flock(lockfd, LOCK_EX|LOCK_NB)
Flock(c) ==
  /\ pc[c] = "flock"
  /\ IF Locked(fd[c])
     THEN Goto(c, "wait") /\ UNCHANGED <<locked, flocked>>
     ELSE Taken(c)
  /\ UNCHANGED <<fd, holds, lockfile, files, socketVars, faults>>

\* flock(lockfd, LOCK_EX), and the lock is given up at once
Wait(c) ==
  /\ pc[c] = "wait"
  /\ ~Locked(fd[c])
  /\ Close(c, "client")
  /\ Goto(c, "connect")
  /\ UNCHANGED <<locked, socketVars, faults>>

\* unlink(path)
Unlink(c) ==
  /\ pc[c] = "unlink"
  /\ path' = NoServer
  /\ Goto(c, "start")
  /\ UNCHANGED <<locked, lockVars, server, listening, faults>>

\* server_start in the parent
Start(c) ==
  /\ pc[c] = "start"
  /\ server' = [server EXCEPT ![c] = "forked"]
  /\ holds' = [holds EXCEPT ![c] = IF fd[c] # 0 THEN @ \cup {"server"} ELSE @]
  /\ Goto(c, "leave")
  /\ UNCHANGED <<locked, fd, flocked, lockfile, files, listening, path, faults>>

\* The end of client_connect.
Leave(c) ==
  /\ pc[c] = "leave"
  /\ Close(c, "client")
  /\ Goto(c, "connected")
  /\ UNCHANGED <<locked, socketVars, faults>>

-----------------------------------------------------------------------------
(* The server: server_create_socket and the rest of server_start.           *)

At(s, here, there) == server[s] = here /\ server' = [server EXCEPT ![s] = there]

ServerUnlink(s) ==
  /\ At(s, "forked", "unlinked")
  /\ path' = NoServer
  /\ UNCHANGED <<clientVars, lockVars, listening, faults>>

\* bind, which fails if another has bound a socket there since
Bind(s) ==
  /\ At(s, "unlinked", IF path = NoServer THEN "bound" ELSE "created")
  /\ path' = IF path = NoServer THEN s ELSE path
  /\ UNCHANGED <<clientVars, lockVars, listening, faults>>

Listen(s) ==
  /\ At(s, "bound", "created")
  /\ listening' = listening \cup {s}
  /\ UNCHANGED <<clientVars, lockVars, path, faults>>

\* unlink(lockfile), whatever file is there by now
UnlinkLock(s) ==
  /\ At(s, "created", "unlocking")
  /\ lockfile' = IF fd[s] # 0 THEN 0 ELSE lockfile
  /\ UNCHANGED <<clientVars, fd, holds, flocked, files, listening, path, faults>>

LetsGo_slip(s) == UNCHANGED lockVars
LetsGo(s) == Close(s, "server")
Unlock(s) ==
  /\ At(s, "unlocking", "up")
  /\ LetsGo(s)
  /\ UNCHANGED <<clientVars, listening, path, faults>>

\* A server without a socket tells its client and exits.
ExitUnbound(s) ==
  /\ s \notin listening
  /\ At(s, "up", "gone")
  /\ UNCHANGED <<clientVars, lockVars, listening, path, faults>>

\* SIGUSR1: the socket is made again, with a moment when there is none.
Rebind(s) ==
  /\ At(s, "recreating", "up")
  /\ path' = IF path = NoServer THEN s ELSE path
  /\ UNCHANGED <<clientVars, lockVars, listening, faults>>

-----------------------------------------------------------------------------
(* What may go wrong.                                                       *)

Fault(what) ==
  /\ Cardinality(faults) < MaxFaults
  /\ faults' = faults \cup {what}

Recreate(s) ==
  /\ Fault("recreated")
  /\ s \in listening
  /\ At(s, "up", "recreating")
  /\ path' = NoServer
  /\ UNCHANGED <<clientVars, lockVars, listening>>

\* It exits or is killed: its socket stays where it is.
ServerEnds(s) ==
  /\ Fault("ended")
  /\ server[s] \notin {"none", "gone"}
  /\ server' = [server EXCEPT ![s] = "gone"]
  /\ listening' = listening \ {s}
  /\ Close(s, "server")
  /\ UNCHANGED <<clientVars, path>>

ClientKilled(c) ==
  /\ Fault("killed")
  /\ pc[c] \notin Done
  /\ Goto(c, "killed")
  /\ Close(c, "client")
  /\ UNCHANGED <<locked, socketVars>>

\* The lock file cannot be opened, or not locked: the client goes on without.
LockFails(c) ==
  /\ Fault("unlocked")
  /\ pc[c] \in {"open", "flock"}
  /\ Goto(c, "connect")
  /\ locked' = locked \cup {c}
  /\ UNCHANGED <<lockVars, socketVars>>

-----------------------------------------------------------------------------

StartInit ==
  /\ pc = [c \in Processes |-> "connect"]
  /\ locked = {}
  /\ fd = [c \in Processes |-> 0]
  /\ holds = [c \in Processes |-> {}]
  /\ flocked = {}
  /\ lockfile = 0
  /\ files = 0
  /\ server = [c \in Processes |-> "none"]
  /\ listening = {}
  /\ path = NoServer
  /\ faults = {}

ClientStep(c) ==
  TryConnect(c) \/ Open(c) \/ Flock(c) \/ Wait(c) \/ Unlink(c) \/ Start(c) \/ Leave(c)
ServerStep(s) ==
  \/ ServerUnlink(s) \/ Bind(s) \/ Listen(s) \/ UnlinkLock(s) \/ Unlock(s)
  \/ ExitUnbound(s) \/ Rebind(s)

StartNext ==
  \/ \E c \in Processes : ClientStep(c)
  \/ \E s \in Processes : ServerStep(s)
  \/ \E s \in Processes : Recreate(s)
  \/ \E s \in Processes : ServerEnds(s)
  \/ \E c \in Processes : ClientKilled(c)
  \/ \E c \in Processes : LockFails(c)

StartSpec == StartInit /\ [][StartNext]_startVars

\* The kernel runs every process that can go on, and gives the lock to one that
\* waits for it.
Fairness ==
  \A c \in Processes : WF_startVars(ClientStep(c)) /\ WF_startVars(ServerStep(c))
StartFairSpec == StartSpec /\ Fairness

-----------------------------------------------------------------------------

\* Type correctness, and a file that is locked is locked once.
StartTypeOK ==
  /\ pc \in [Processes -> Places] /\ server \in [Processes -> Stages]
  /\ locked \subseteq Starters /\ flocked \subseteq Starters
  /\ files \in Nat /\ lockfile \in 0 .. files
  /\ fd \in [Processes -> 0 .. files]
  /\ holds \in [Processes -> SUBSET {"client", "server"}]
  /\ listening \subseteq Processes
  /\ path \in Processes \cup {NoServer}
  /\ \A c \in Processes : fd[c] = 0 <=> holds[c] = {}
  /\ \A c, d \in flocked : c # d => fd[c] # fd[d]

\* Every server that has started can be reached at the path, so there are never
\* two, in whatever order clients find no server, lock, retry, unlink and fork:
\* unless a server ended, made its socket again or was started without the lock
\* meanwhile (client_get_lock, the retry in client_connect).
Reachable ==
  faults \subseteq {"killed"} =>
    \A s \in Processes : server[s] \in {"created", "unlocking", "up"} => path = s

\* In the end each client is connected or has failed, whoever is killed and
\* whoever had the lock, and, if there is a client that may start a server and
\* nothing went wrong, a server can be reached and no lock is left.
Settles ==
  <>[](/\ \A c \in Processes : pc[c] \in Done
       /\ flocked = {}
       /\ faults = {} /\ Starters # {} => path \in listening)
=============================================================================
