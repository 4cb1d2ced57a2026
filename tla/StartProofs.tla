----------------------------- MODULE StartProofs -----------------------------
(***************************************************************************)
(* Proofs about the start of a server, for any number of clients: that one *)
(* server is started (ServerStart), and that it loads the files before it  *)
(* runs the command of the first client (Config), whichever clients are    *)
(* nested or may be lost.  At the end, how the files are read that source  *)
(* others (SourceFile).                                                    *)
(*                                                                         *)
(* That every server can be reached is not inductive: it holds because the *)
(* clients and servers between the second refusal and the new socket all   *)
(* have the lock of the one lock file (Owned, Before), so there is one of  *)
(* them at a time, and because from then on there is a socket to connect   *)
(* to, which whoever takes the lock of a later file tries first (After).   *)
(*                                                                         *)
(* That no blocked client's command runs early is not inductive: it rests  *)
(* on cfg_item, the one callback that waits.  Blocking says that cfg_item  *)
(* is the callback of cfg_client, that this is the first client of the     *)
(* list, and that until the files are loaded nobody else who is still      *)
(* there was blocked.                                                      *)
(***************************************************************************)
EXTENDS Config, ServerStart, SourceFile, FiniteSetTheorems, SequenceTheorems, TLAPS

-----------------------------------------------------------------------------
(* Config.                                                                  *)

Blocking ==
  /\ loads = IF started THEN 1 ELSE 0
  /\ blocked \cup early \subseteq identified
  /\ cfgItem # NoClient =>
       /\ ~finished /\ cfgItem = cfgClient /\ cfgItem \in identified
       /\ clients # <<>> /\ cfgItem = Head(clients)
  /\ ~finished => \A c \in blocked \ lost : c = cfgItem
  /\ \A c \in Clients :
       /\ item[c] # "none" => c \in blocked
       /\ item[c] = "continued" => finished

IInv == LoadingSound /\ Blocking
-----------------------------------------------------------------------------
LEMMA LiveClients == TypeOK => Live \subseteq Clients
  BY DEF TypeOK, Live

(* Appending a client that is not listed, and TAILQ_REMOVE of one that is. *)
LEMMA AppendClient ==
  ASSUME TypeOK, NEW c \in Clients \ Live, clients' = Append(clients, c)
  PROVE  /\ clients' \in Seq(Clients) /\ clients' # <<>>
         /\ \A i, j \in DOMAIN clients' : clients'[i] = clients'[j] => i = j
         /\ Live' = Live \cup {c}
         /\ clients # <<>> => Head(clients') = Head(clients)
  <1>1. /\ clients' \in Seq(Clients) /\ Len(clients') = Len(clients) + 1
        /\ clients'[Len(clients) + 1] = c
        /\ \A i \in 1 .. Len(clients) : clients'[i] = clients[i]
    BY DEF TypeOK
  <1>2. /\ DOMAIN clients = 1 .. Len(clients) /\ DOMAIN clients' = 1 .. Len(clients) + 1
        /\ Len(clients) \in Nat
    BY <1>1 DEF TypeOK
  <1>3. Live' = Live \cup {c}
    BY <1>1, <1>2 DEF Live
  <1>4. \A i, j \in DOMAIN clients' : clients'[i] = clients'[j] => i = j
    BY <1>1, <1>2 DEF TypeOK, Live
  <1> QED BY <1>1, <1>2, <1>3, <1>4 DEF TypeOK

LEMMA RemoveClient ==
  ASSUME TypeOK, NEW c \in Live, clients' = Removed(c)
  PROVE  /\ clients' \in Seq(Clients)
         /\ \A i, j \in DOMAIN clients' : clients'[i] = clients'[j] => i = j
         /\ Live' = Live \ {c}
         /\ c # Head(clients) => clients' # <<>> /\ Head(clients') = Head(clients)
  <1> DEFINE p == Position(c)
             n == Len(clients)
  <1>1. p \in DOMAIN clients /\ clients[p] = c
    BY DEF Live, Position
  <1>2. /\ clients \in [1 .. n -> Clients] /\ n \in Nat \ {0}
        /\ DOMAIN clients = 1 .. n /\ Head(clients) = clients[1]
    BY <1>1 DEF TypeOK
  <1>3. clients' = [j \in 1 .. n - 1 |-> clients[IF j < p THEN j ELSE j + 1]]
    BY DEF Removed
  <1>4. \A i, j \in 1 .. n : clients[i] = clients[j] => i = j
    BY <1>2 DEF TypeOK
  <1> HIDE DEF p, n
  <1>5. clients' \in Seq(Clients) /\ DOMAIN clients' = 1 .. n - 1 /\ Len(clients') = n - 1
    BY <1>1, <1>2, <1>3
  <1>6. \A i, j \in DOMAIN clients' : clients'[i] = clients'[j] => i = j
    BY <1>1, <1>2, <1>3, <1>4, <1>5
  <1>7. Live' = Live \ {c}
    <2>1. ASSUME NEW d \in Live' PROVE d \in Live \ {c}
      <3>1. PICK j \in 1 .. n - 1 : d = clients'[j]
        BY <1>5 DEF Live
      <3>2. PICK i \in 1 .. n : i # p /\ d = clients[i]
        BY <1>1, <1>2, <1>3, <3>1
      <3> QED BY <1>1, <1>2, <1>4, <3>2 DEF Live
    <2>2. ASSUME NEW d \in Live \ {c} PROVE d \in Live'
      <3>1. PICK i \in 1 .. n : i # p /\ d = clients[i]
        BY <1>1, <1>2 DEF Live
      <3>2. CASE i < p
        <4>1. i \in 1 .. n - 1 /\ clients'[i] = d
          BY <1>1, <1>2, <1>3, <3>1, <3>2
        <4> QED BY <1>5, <4>1 DEF Live
      <3>3. CASE i > p
        <4>1. i - 1 \in 1 .. n - 1 /\ clients'[i - 1] = d
          BY <1>1, <1>2, <1>3, <3>1, <3>3
        <4> QED BY <1>5, <4>1 DEF Live
      <3> QED BY <1>1, <1>2, <3>1, <3>2, <3>3
    <2> QED BY <2>1, <2>2
  <1>8. ASSUME c # Head(clients) PROVE clients' # <<>> /\ Head(clients') = Head(clients)
    <2>1. p > 1 /\ n > 1 /\ clients'[1] = clients[1]
      BY <1>1, <1>2, <1>3, <1>8
    <2> QED BY <1>2, <1>5, <2>1
  <1> QED BY <1>5, <1>6, <1>7, <1>8
-----------------------------------------------------------------------------
LEMMA InitInv == Init => IInv
  <1> SUFFICES ASSUME Init PROVE IInv
    OBVIOUS
  <1>1. Live = {}
    BY DEF Init, Live
  <1>2. TypeOK
    <2>1. clients \in Seq(Clients) /\ DOMAIN clients = {}
      BY DEF Init
    <2> QED BY <1>1, <2>1 DEF Init, TypeOK
  <1> QED
    BY <1>1, <1>2, ConfigAssumption
    DEF Init, IInv, LoadingSound, LoadedOnce, BlockedUntilLoaded, WaiterIsCfgItem,
        LostNotBlocked, Blocking

LEMMA ConnectStep ==
  ASSUME IInv, NEW c \in Clients, NEW refused \in BOOLEAN, Connect(c, refused)
  PROVE  IInv'
  <1> USE DEF IInv, LoadingSound
  <1>1. c \in Clients \ Live /\ c \notin lost /\ clients' = Append(clients, c)
    BY DEF Connect
  <1>2. /\ clients' \in Seq(Clients) /\ clients' # <<>> /\ Live' = Live \cup {c}
        /\ \A i, j \in DOMAIN clients' : clients'[i] = clients'[j] => i = j
        /\ clients # <<>> => Head(clients') = Head(clients)
    BY <1>1, AppendClient
  <1>3. TypeOK'
    BY <1>1, <1>2 DEF TypeOK, Connect, cfgVars
  <1>4. WaiterIsCfgItem' /\ Blocking'
    BY <1>2 DEF WaiterIsCfgItem, Blocking, Connect, cfgVars
  <1> QED
    BY <1>3, <1>4 DEF Connect, cfgVars, LoadedOnce, BlockedUntilLoaded, LostNotBlocked

(* The client that is blocked is the first, so no other was blocked before *)
(* it: such a client would be lost or the first itself.                    *)
LEMMA IdentifyStep ==
  ASSUME IInv, NEW c \in Clients, Identify(c)
  PROVE  IInv'
  <1> USE DEF IInv, LoadingSound
  <1>1. Live' = Live
    BY DEF Identify, Live
  <1>2. TypeOK'
    <2>1. /\ UNCHANGED <<clients, exiting, lost, command>>
          /\ identified' \subseteq Live \cup lost
      BY DEF Identify, TypeOK
    <2>2. /\ {cfgClient', cfgItem'} \subseteq Clients \cup {NoClient}
          /\ item' \in [Clients -> {"none", "queued", "waiting", "continued", "done"}]
      BY DEF Identify, TypeOK
    <2>3. started' \in BOOLEAN /\ finished' \in BOOLEAN
      BY DEF Identify, Loads, Starts, TypeOK
    <2> QED BY <1>1, <2>1, <2>2, <2>3 DEF TypeOK
  <1>3. LoadedOnce' /\ loads' = IF started' THEN 1 ELSE 0
    <2>1. loads = (IF started THEN 1 ELSE 0) /\ started \in BOOLEAN
      BY DEF Blocking, TypeOK
    <2>2. CASE Loads(c)
      <3>1. loads' = loads + 1 /\ ~started /\ started'
        BY <2>2 DEF Identify, Loads
      <3> QED BY <2>1, <3>1 DEF LoadedOnce
    <2>3. CASE ~Loads(c)
      <3>1. loads' = loads /\ (started' <=> started)
        BY <2>3 DEF Identify
      <3> QED BY <2>1, <3>1 DEF LoadedOnce
    <2> QED BY <2>2, <2>3
  <1>4. CASE Starts(c)
    <2>1. /\ cfgClient' = c /\ cfgItem' = c /\ ~finished /\ c = Head(clients)
          /\ c \in Live \ identified /\ clients # <<>>
          /\ item' = [item EXCEPT ![c] = "queued"] /\ blocked' = blocked \cup {c}
          /\ identified' = identified \cup {c}
          /\ UNCHANGED <<clients, lost, finished, early>>
      BY <1>4 DEF Identify, Starts, Live
    <2>2. cfgItem = NoClient
      BY <2>1 DEF Blocking
    <2>3. \A d \in blocked : d \in lost
      BY <2>1, <2>2, LiveClients, ConfigAssumption DEF Blocking, TypeOK
    <2>4. c \notin lost /\ c \notin early
      BY <2>1 DEF TypeOK, Blocking
    <2>5. WaiterIsCfgItem'
      BY <1>1, <2>1, <2>2, ConfigAssumption DEF WaiterIsCfgItem, TypeOK
    <2>6. BlockedUntilLoaded' /\ LostNotBlocked'
      BY <2>1, <2>4 DEF BlockedUntilLoaded, LostNotBlocked, TypeOK
    <2>7. Blocking'
      BY <1>3, <2>1, <2>3 DEF Blocking, TypeOK
    <2> QED BY <1>2, <1>3, <2>5, <2>6, <2>7
  <1>5. CASE ~Starts(c)
    BY <1>1, <1>2, <1>3, <1>5
    DEF Identify, Blocking, WaiterIsCfgItem, BlockedUntilLoaded, LostNotBlocked
  <1> QED BY <1>4, <1>5

LEMMA SendCommandStep ==
  ASSUME IInv, NEW c \in Clients, SendCommand(c)
  PROVE  IInv'
  <1>1. TypeOK'
    BY DEF IInv, LoadingSound, TypeOK, SendCommand, cfgVars, Live
  <1> QED
    BY <1>1 DEF IInv, LoadingSound, SendCommand, cfgVars, Live, LoadedOnce, BlockedUntilLoaded,
                WaiterIsCfgItem, LostNotBlocked, Blocking

(* A callback is continued only after the files are loaded.                *)
LEMMA RunItemStep ==
  ASSUME IInv, NEW c \in Clients, RunItem(c)
  PROVE  IInv'
  <1> USE DEF IInv, LoadingSound
  <1>1. Live' = Live /\ c \notin lost
    BY DEF RunItem, Live, TypeOK
  <1>2. /\ \/ /\ item[c] = "queued"
              /\ item' = [item EXCEPT ![c] = IF finished THEN "done" ELSE "waiting"]
           \/ /\ item[c] = "continued" /\ finished
              /\ item' = [item EXCEPT ![c] = "done"]
    BY DEF RunItem, Blocking
  <1>3. TypeOK'
    BY <1>1, <1>2 DEF RunItem, TypeOK, cfgVars
  <1>4. WaiterIsCfgItem'
    BY <1>1, <1>2 DEF RunItem, WaiterIsCfgItem, Blocking, TypeOK, cfgVars
  <1>5. LostNotBlocked'
    BY <1>1, <1>2 DEF RunItem, LostNotBlocked, TypeOK
  <1>6. Blocking'
    BY <1>2 DEF RunItem, Blocking, TypeOK, cfgVars
  <1> QED
    BY <1>3, <1>4, <1>5, <1>6 DEF RunItem, LoadedOnce, BlockedUntilLoaded

(* A blocked client is there and its callback waits until the files are    *)
(* loaded, so that its command is not reached.                             *)
LEMMA RunCommandStep ==
  ASSUME IInv, NEW c \in Clients, RunCommand(c)
  PROVE  IInv'
  <1> USE DEF IInv, LoadingSound
  <1>1. Live' = Live /\ c \notin lost /\ c \in identified
    BY DEF RunCommand, Live, TypeOK
  <1>2. TypeOK'
    BY <1>1 DEF RunCommand, TypeOK, cfgVars
  <1>3. ~finished => c \notin blocked
    BY <1>1, ConfigAssumption DEF RunCommand, Blocking, WaiterIsCfgItem
  <1>4. BlockedUntilLoaded'
    BY <1>3 DEF RunCommand, BlockedUntilLoaded
  <1>5. Blocking'
    BY <1>1 DEF RunCommand, Blocking, cfgVars
  <1> QED
    BY <1>1, <1>2, <1>4, <1>5
    DEF RunCommand, LoadedOnce, WaiterIsCfgItem, LostNotBlocked, cfgVars

LEMMA FinishStep ==
  ASSUME IInv, Finish
  PROVE  IInv'
  <1> USE DEF IInv, LoadingSound
  <1>1. Live' = Live
    BY DEF Finish, Live
  <1>2. /\ cfgItem' = NoClient /\ finished'
        /\ \A c \in Clients : item'[c] = IF item[c] = "waiting" THEN "continued" ELSE item[c]
        /\ item' \in [Clients -> {"none", "queued", "waiting", "continued", "done"}]
    BY DEF Finish, ContinueItem, WaiterIsCfgItem, TypeOK
  <1>3. TypeOK'
    BY <1>1, <1>2 DEF Finish, TypeOK
  <1>4. WaiterIsCfgItem' /\ Blocking'
    BY <1>2 DEF Finish, WaiterIsCfgItem, Blocking
  <1>5. LostNotBlocked'
    BY <1>2 DEF Finish, LostNotBlocked, TypeOK
  <1> QED BY <1>3, <1>4, <1>5 DEF Finish, LoadedOnce, BlockedUntilLoaded

(* The client whose callback waits is cfg_client, and is let go.           *)
LEMMA ClientLostStep ==
  ASSUME IInv, NEW c \in Clients, ClientLost(c)
  PROVE  IInv'
  <1> USE DEF IInv, LoadingSound
  <1>1. /\ c \in Live /\ clients' = Removed(c) /\ lost' = lost \cup {c}
        /\ UNCHANGED <<identified, exiting, started, finished, loads, blocked, early>>
    BY DEF ClientLost
  <1>2. /\ clients' \in Seq(Clients) /\ Live' = Live \ {c}
        /\ \A i, j \in DOMAIN clients' : clients'[i] = clients'[j] => i = j
        /\ c # Head(clients) => clients' # <<>> /\ Head(clients') = Head(clients)
    BY <1>1, RemoveClient
  <1>3. cfgItem' = (IF c = cfgItem THEN NoClient ELSE cfgItem)
    BY ConfigAssumption DEF ClientLost, Lets, Blocking
  <1>4. /\ \A d \in Clients : d # c => item'[d] = item[d]
        /\ item'[c] = IF item[c] = "none" THEN "none" ELSE "done"
        /\ item' \in [Clients -> {"none", "queued", "waiting", "continued", "done"}]
    <2> DEFINE continued == [d \in Clients |->
          IF Lets(c) /\ d = cfgItem /\ item[d] = "waiting" THEN "continued" ELSE item[d]]
    <2>1. item' = [continued EXCEPT ![c] =
                     IF @ \in {"queued", "continued"} THEN "done" ELSE @]
      BY DEF ClientLost
    <2>2. \A d \in Clients : d # c => continued[d] = item[d]
      BY ConfigAssumption DEF Lets, Blocking
    <2>3. continued[c] = IF item[c] = "waiting" THEN "continued" ELSE item[c]
      BY ConfigAssumption DEF Lets, Blocking, WaiterIsCfgItem
    <2> HIDE DEF continued
    <2>4. continued \in [Clients -> {"none", "queued", "waiting", "continued", "done"}]
      BY DEF continued, TypeOK
    <2> QED BY <2>1, <2>2, <2>3, <2>4 DEF TypeOK
  <1>5. TypeOK'
    BY <1>1, <1>2, <1>3, <1>4 DEF TypeOK, ClientLost
  <1>6. WaiterIsCfgItem'
    BY <1>1, <1>2, <1>3, <1>4, LiveClients DEF WaiterIsCfgItem
  <1>7. LostNotBlocked'
    BY <1>1, <1>4, <1>5 DEF LostNotBlocked, TypeOK
  <1>8. Blocking'
    BY <1>1, <1>2, <1>3, <1>4 DEF Blocking, ClientLost, Lets
  <1> QED BY <1>1, <1>5, <1>6, <1>7, <1>8 DEF LoadedOnce, BlockedUntilLoaded
-----------------------------------------------------------------------------
LEMMA NextInv == IInv /\ [Next]_vars => IInv'
  <1> SUFFICES ASSUME IInv, [Next]_vars PROVE IInv'
    OBVIOUS
  <1>1. CASE UNCHANGED vars
    BY <1>1 DEF vars, cfgVars, Live, IInv, LoadingSound, TypeOK, LoadedOnce, BlockedUntilLoaded,
                WaiterIsCfgItem, LostNotBlocked, Blocking
  <1> QED
    BY <1>1, ConnectStep, IdentifyStep, SendCommandStep, RunItemStep, RunCommandStep,
       FinishStep, ClientLostStep DEF Next

LEMMA Invariance == Spec => []IInv
  BY InitInv, NextInv, PTL DEF Spec

(* The files are loaded once, and before what was blocked for them; only   *)
(* cfg_item waits; and a lost client is not kept (cfg.c, server_client_    *)
(* dispatch_identify).                                                     *)
THEOREM LoadingIsSound == Spec => []LoadingSound
  BY Invariance, PTL DEF IInv

(* Until the files are loaded at most one client that is still there has   *)
(* been blocked, and it is the one cfg_done will continue.                 *)
OneBlocked == ~finished => \A c \in blocked \ lost : c = cfgItem
THEOREM OneIsBlocked == Spec => []OneBlocked
  <1>1. IInv => OneBlocked
    BY DEF IInv, Blocking, OneBlocked
  <1> QED BY <1>1, Invariance, PTL

-----------------------------------------------------------------------------
(* ServerStart.                                                             *)

\* Clients that have not locked yet, and those that never will again.
Placed ==
  \A c \in Processes :
    /\ c \notin locked /\ pc[c] \in {"connect", "open"} => fd[c] = 0
    /\ pc[c] \in {"open", "flock", "wait"} => c \in Starters /\ c \notin locked
    /\ pc[c] \in {"flock", "wait"} => holds[c] = {"client"} /\ c \notin flocked
    /\ c \in flocked => fd[c] # 0
    /\ server[c] # "none" => pc[c] \in {"leave"} \cup Done

\* Who connects again, unlinks or forks has the lock, and so has its server.
Owned ==
  \A c \in Processes :
    /\ pc[c] \in {"unlink", "start"} => c \in locked
    /\ c \in locked /\ pc[c] \in {"connect", "unlink", "start"} =>
         c \in flocked /\ "client" \in holds[c]
    /\ server[c] \in {"forked", "unlinked", "bound"} =>
         c \in flocked /\ "server" \in holds[c]

\* Until a server listens there is one lock file, and one socket at most.
Before ==
  listening = {} =>
    \A c \in Processes :
      /\ fd[c] \in {0, lockfile}
      /\ server[c] \in {"none", "forked", "unlinked", "bound"}
      /\ server[c] = "unlinked" => path = NoServer
      /\ server[c] = "bound" => path = c

\* From then on nobody unlinks the socket, and nobody forks another server.
After ==
  \A s \in listening :
    /\ path = s /\ server[s] \in {"created", "unlocking", "up"}
    /\ \A c \in Processes :
         pc[c] \notin {"unlink", "start"} /\ (c # s => server[c] = "none")

OnlyKills == faults \subseteq {"killed"}
StartInv == StartTypeOK /\ Placed /\ (OnlyKills => Owned /\ Before /\ After)
-----------------------------------------------------------------------------
\* What has gone wrong stays so.
LEMMA FaultsStay ==
  ASSUME [StartNext]_startVars PROVE faults \subseteq faults'
  BY DEF StartNext, ClientStep, ServerStep, startVars, Fault, TryConnect, Open, Flock,
         Wait, Unlink, Start, Leave, ServerUnlink, Bind, Listen,
         UnlinkLock, Unlock, ExitUnbound, Rebind, Recreate, ServerEnds,
         ClientKilled, LockFails

\* Each system call keeps the types; Placed says that a lock is taken once.
LEMMA TypeStep ==
  ASSUME StartTypeOK, Placed, [StartNext]_startVars PROVE StartTypeOK'
  <1>1. ASSUME NEW c \in Processes, TryConnect(c) PROVE StartTypeOK'
    BY <1>1
      DEF TryConnect, AfterRefusal, Goto, StartTypeOK, Places, Done, lockVars,
          socketVars
  <1>2. ASSUME NEW c \in Processes, Open(c) PROVE StartTypeOK'
    BY <1>2
      DEF Open, Goto, StartTypeOK, Placed, Places, socketVars
  <1>3. ASSUME NEW c \in Processes, Flock(c) PROVE StartTypeOK'
    BY <1>3
      DEF Flock, Taken, Goto, StartTypeOK, Placed, Places, Locked, socketVars
  <1>4. ASSUME NEW c \in Processes, Wait(c) PROVE StartTypeOK'
    BY <1>4
      DEF Wait, Close, Goto, StartTypeOK, Places, socketVars
  <1>5. ASSUME NEW c \in Processes, Unlink(c) PROVE StartTypeOK'
    BY <1>5 DEF Unlink, Goto, StartTypeOK, Places, lockVars
  <1>6. ASSUME NEW c \in Processes, Start(c) PROVE StartTypeOK'
    BY <1>6 DEF Start, Goto, StartTypeOK, Places, Stages
  <1>7. ASSUME NEW c \in Processes, Leave(c) PROVE StartTypeOK'
    BY <1>7
      DEF Leave, Close, Goto, StartTypeOK, Places, Done, socketVars
  <1>8. ASSUME NEW s \in Processes, ServerUnlink(s) PROVE StartTypeOK'
    BY <1>8
      DEF ServerUnlink, At, StartTypeOK, Stages, clientVars, lockVars
  <1>9. ASSUME NEW s \in Processes, Bind(s) PROVE StartTypeOK'
    BY <1>9
      DEF Bind, At, StartTypeOK, Stages, clientVars, lockVars
  <1>10. ASSUME NEW s \in Processes, Listen(s) PROVE StartTypeOK'
    BY <1>10
      DEF Listen, At, StartTypeOK, Stages, clientVars, lockVars
  <1>11. ASSUME NEW s \in Processes, UnlinkLock(s) PROVE StartTypeOK'
    BY <1>11 DEF UnlinkLock, At, StartTypeOK, Stages, clientVars
  <1>12. ASSUME NEW s \in Processes, Unlock(s) PROVE StartTypeOK'
    BY <1>12
      DEF Unlock, At, LetsGo, Close, StartTypeOK, Stages, clientVars
  <1>13. ASSUME NEW s \in Processes, ExitUnbound(s) PROVE StartTypeOK'
    BY <1>13
      DEF ExitUnbound, At, StartTypeOK, Stages, clientVars, lockVars
  <1>14. ASSUME NEW s \in Processes, Rebind(s) PROVE StartTypeOK'
    BY <1>14
      DEF Rebind, At, StartTypeOK, Stages, clientVars, lockVars
  <1>15. ASSUME NEW s \in Processes, Recreate(s) PROVE StartTypeOK'
    BY <1>15
      DEF Recreate, At, StartTypeOK, Stages, clientVars, lockVars
  <1>16. ASSUME NEW s \in Processes, ServerEnds(s) PROVE StartTypeOK'
    BY <1>16
      DEF ServerEnds, Close, StartTypeOK, Stages, clientVars
  <1>17. ASSUME NEW c \in Processes, ClientKilled(c) PROVE StartTypeOK'
    BY <1>17
      DEF ClientKilled, Close, Goto, StartTypeOK, Places, Done, socketVars
  <1>18. ASSUME NEW c \in Processes, LockFails(c) PROVE StartTypeOK'
    BY <1>18
      DEF LockFails, Goto, StartTypeOK, Placed, Places, lockVars, socketVars
  <1>19. CASE UNCHANGED startVars
    BY <1>19 DEF StartTypeOK, startVars, clientVars, lockVars, socketVars
  <1> QED BY <1>1, <1>2, <1>3, <1>4, <1>5, <1>6, <1>7, <1>8, <1>9, <1>10, <1>11, <1>12,
             <1>13, <1>14, <1>15, <1>16, <1>17, <1>18, <1>19
          DEF StartNext, ClientStep, ServerStep

\* A client without the lock has no file open, unless it is about to lock it.
LEMMA PlacedStep ==
  ASSUME StartTypeOK, Placed, [StartNext]_startVars PROVE Placed'
  <1>1. ASSUME NEW c \in Processes, TryConnect(c) PROVE Placed'
    BY <1>1
      DEF TryConnect, AfterRefusal, Goto, Placed, Done, lockVars, socketVars
  <1>2. ASSUME NEW c \in Processes, Open(c) PROVE Placed'
    BY <1>2 DEF Open, Goto, StartTypeOK, Placed, Done, socketVars
  <1>3. ASSUME NEW c \in Processes, Flock(c) PROVE Placed'
    BY <1>3
      DEF Flock, Taken, Goto, StartTypeOK, Placed, Done, socketVars
  <1>4. ASSUME NEW c \in Processes, Wait(c) PROVE Placed'
    BY <1>4
      DEF Wait, Close, Goto, StartTypeOK, Placed, Done, socketVars
  <1>5. ASSUME NEW c \in Processes, Unlink(c) PROVE Placed'
    BY <1>5 DEF Unlink, Goto, Placed, Done, lockVars
  <1>6. ASSUME NEW c \in Processes, Start(c) PROVE Placed'
    BY <1>6 DEF Start, Goto, StartTypeOK, Placed
  <1>7. ASSUME NEW c \in Processes, Leave(c) PROVE Placed'
    BY <1>7 DEF Leave, Close, Goto, Placed, Done, socketVars
  <1>8. ASSUME NEW s \in Processes, ServerUnlink(s) PROVE Placed'
    BY <1>8
      DEF ServerUnlink, At, Placed, clientVars, lockVars
  <1>9. ASSUME NEW s \in Processes, Bind(s) PROVE Placed'
    BY <1>9 DEF Bind, At, Placed, clientVars, lockVars
  <1>10. ASSUME NEW s \in Processes, Listen(s) PROVE Placed'
    BY <1>10 DEF Listen, At, Placed, clientVars, lockVars
  <1>11. ASSUME NEW s \in Processes, UnlinkLock(s) PROVE Placed'
    BY <1>11 DEF UnlinkLock, At, Placed, clientVars
  <1>12. ASSUME NEW s \in Processes, Unlock(s) PROVE Placed'
    BY <1>12
      DEF Unlock, At, LetsGo, Close, Placed, clientVars
  <1>13. ASSUME NEW s \in Processes, ExitUnbound(s) PROVE Placed'
    BY <1>13
      DEF ExitUnbound, At, Placed, clientVars, lockVars
  <1>14. ASSUME NEW s \in Processes, Rebind(s) PROVE Placed'
    BY <1>14 DEF Rebind, At, Placed, clientVars, lockVars
  <1>15. ASSUME NEW s \in Processes, Recreate(s) PROVE Placed'
    BY <1>15 DEF Recreate, At, Placed, clientVars, lockVars
  <1>16. ASSUME NEW s \in Processes, ServerEnds(s) PROVE Placed'
    BY <1>16 DEF ServerEnds, Close, Placed, clientVars
  <1>17. ASSUME NEW c \in Processes, ClientKilled(c) PROVE Placed'
    BY <1>17
      DEF ClientKilled, Close, Goto, StartTypeOK, Placed, Done, socketVars
  <1>18. ASSUME NEW c \in Processes, LockFails(c) PROVE Placed'
    BY <1>18
      DEF LockFails, Goto, StartTypeOK, Placed, Done, lockVars, socketVars
  <1>19. CASE UNCHANGED startVars
    BY <1>19 DEF Placed, startVars, clientVars, lockVars, socketVars
  <1> QED BY <1>1, <1>2, <1>3, <1>4, <1>5, <1>6, <1>7, <1>8, <1>9, <1>10, <1>11, <1>12,
             <1>13, <1>14, <1>15, <1>16, <1>17, <1>18, <1>19
          DEF StartNext, ClientStep, ServerStep

\* The lock is let go of only by who will not go near the socket again.
LEMMA OwnedStep ==
  ASSUME StartTypeOK, Placed, OnlyKills', [StartNext]_startVars, Owned, Before, After
  PROVE  Owned'
  <1>1. ASSUME NEW c \in Processes, TryConnect(c) PROVE Owned'
    BY <1>1
      DEF TryConnect, AfterRefusal, Goto, Owned, lockVars, socketVars
  <1>2. ASSUME NEW c \in Processes, Open(c) PROVE Owned'
    BY <1>2 DEF Open, Goto, Placed, Owned, socketVars
  <1>3. ASSUME NEW c \in Processes, Flock(c) PROVE Owned'
    BY <1>3
      DEF Flock, Taken, Goto, StartTypeOK, Placed, Owned, socketVars
  <1>4. ASSUME NEW c \in Processes, Wait(c) PROVE Owned'
    BY <1>4 DEF Wait, Close, Goto, Placed, Owned, socketVars
  <1>5. ASSUME NEW c \in Processes, Unlink(c) PROVE Owned'
    BY <1>5 DEF Unlink, Goto, Owned, lockVars
  <1>6. ASSUME NEW c \in Processes, Start(c) PROVE Owned'
    BY <1>6 DEF Start, Goto, StartTypeOK, Owned
  <1>7. ASSUME NEW c \in Processes, Leave(c) PROVE Owned'
    BY <1>7 DEF Leave, Close, Goto, Owned, socketVars
  <1>8. ASSUME NEW s \in Processes, ServerUnlink(s) PROVE Owned'
    BY <1>8
      DEF ServerUnlink, At, Owned, clientVars, lockVars
  <1>9. ASSUME NEW s \in Processes, Bind(s) PROVE Owned'
    BY <1>9 DEF Bind, At, Owned, clientVars, lockVars
  <1>10. ASSUME NEW s \in Processes, Listen(s) PROVE Owned'
    BY <1>10 DEF Listen, At, Owned, clientVars, lockVars
  <1>11. ASSUME NEW s \in Processes, UnlinkLock(s) PROVE Owned'
    BY <1>11 DEF UnlinkLock, At, Owned, clientVars
  <1>12. ASSUME NEW s \in Processes, Unlock(s) PROVE Owned'
    BY <1>12
      DEF Unlock, At, LetsGo, Close, Owned, clientVars
  <1>13. ASSUME NEW s \in Processes, ExitUnbound(s) PROVE Owned'
    BY <1>13
      DEF ExitUnbound, At, Owned, clientVars, lockVars
  <1>14. ASSUME NEW s \in Processes, Rebind(s) PROVE Owned'
    BY <1>14 DEF Rebind, At, Owned, clientVars, lockVars
  <1>15. ASSUME NEW s \in Processes, Recreate(s) PROVE Owned'
    BY <1>15 DEF Recreate, Fault, OnlyKills
  <1>16. ASSUME NEW s \in Processes, ServerEnds(s) PROVE Owned'
    BY <1>16 DEF ServerEnds, Fault, OnlyKills
  <1>17. ASSUME NEW c \in Processes, ClientKilled(c) PROVE Owned'
    BY <1>17
      DEF ClientKilled, Close, Goto, StartTypeOK, Owned, socketVars
  <1>18. ASSUME NEW c \in Processes, LockFails(c) PROVE Owned'
    BY <1>18 DEF LockFails, Fault, OnlyKills
  <1>19. CASE UNCHANGED startVars
    BY <1>19 DEF Owned, startVars, clientVars, lockVars, socketVars
  <1> QED BY <1>1, <1>2, <1>3, <1>4, <1>5, <1>6, <1>7, <1>8, <1>9, <1>10, <1>11, <1>12,
             <1>13, <1>14, <1>15, <1>16, <1>17, <1>18, <1>19
          DEF StartNext, ClientStep, ServerStep

\* The lock file stays until its owner listens: all others wait for that file.
LEMMA BeforeStep ==
  ASSUME StartTypeOK, Placed, OnlyKills', [StartNext]_startVars, Owned, Before, After
  PROVE  Before'
  <1>1. ASSUME NEW c \in Processes, TryConnect(c) PROVE Before'
    BY <1>1 DEF TryConnect, Before, lockVars, socketVars
  <1>2. ASSUME NEW c \in Processes, Open(c) PROVE Before'
    BY <1>2 DEF Open, Before, socketVars
  <1>3. ASSUME NEW c \in Processes, Flock(c) PROVE Before'
    BY <1>3 DEF Flock, Before, socketVars
  <1>4. ASSUME NEW c \in Processes, Wait(c) PROVE Before'
    BY <1>4 DEF Wait, Close, Before, socketVars
  <1>5. ASSUME NEW c \in Processes, Unlink(c) PROVE Before'
    BY <1>5
      DEF Unlink, StartTypeOK, Placed, Done, Owned, Before, lockVars
  <1>6. ASSUME NEW c \in Processes, Start(c) PROVE Before'
    BY <1>6 DEF Start, Before
  <1>7. ASSUME NEW c \in Processes, Leave(c) PROVE Before'
    BY <1>7 DEF Leave, Close, Before, socketVars
  <1>8. ASSUME NEW s \in Processes, ServerUnlink(s) PROVE Before'
    BY <1>8
      DEF ServerUnlink, At, StartTypeOK, Owned, Before, lockVars
  <1>9. ASSUME NEW s \in Processes, Bind(s) PROVE Before'
    BY <1>9 DEF Bind, At, StartTypeOK, Owned, Before, lockVars
  <1>10. ASSUME NEW s \in Processes, Listen(s) PROVE Before'
    BY <1>10 DEF Listen, Before
  <1>11. ASSUME NEW s \in Processes, UnlinkLock(s) PROVE Before'
    BY <1>11 DEF UnlinkLock, At, Before
  <1>12. ASSUME NEW s \in Processes, Unlock(s) PROVE Before'
    BY <1>12 DEF Unlock, At, Before
  <1>13. ASSUME NEW s \in Processes, ExitUnbound(s) PROVE Before'
    BY <1>13 DEF ExitUnbound, At, Before
  <1>14. ASSUME NEW s \in Processes, Rebind(s) PROVE Before'
    BY <1>14 DEF Rebind, At, Before
  <1>15. ASSUME NEW s \in Processes, Recreate(s) PROVE Before'
    BY <1>15 DEF Recreate, Before
  <1>16. ASSUME NEW s \in Processes, ServerEnds(s) PROVE Before'
    BY <1>16 DEF ServerEnds, Fault, OnlyKills
  <1>17. ASSUME NEW c \in Processes, ClientKilled(c) PROVE Before'
    BY <1>17 DEF ClientKilled, Close, Before, socketVars
  <1>18. ASSUME NEW c \in Processes, LockFails(c) PROVE Before'
    BY <1>18 DEF LockFails, Before, lockVars, socketVars
  <1>19. CASE UNCHANGED startVars
    BY <1>19 DEF Before, startVars, lockVars, socketVars
  <1> QED BY <1>1, <1>2, <1>3, <1>4, <1>5, <1>6, <1>7, <1>8, <1>9, <1>10, <1>11, <1>12,
             <1>13, <1>14, <1>15, <1>16, <1>17, <1>18, <1>19
          DEF StartNext, ClientStep, ServerStep

\* The one who listens was the only one near the socket; from then on a client
\* that connects is not refused.
LEMMA AfterStep ==
  ASSUME StartTypeOK, Placed, OnlyKills', [StartNext]_startVars, Owned, Before, After
  PROVE  After'
  <1>1. ASSUME NEW c \in Processes, TryConnect(c) PROVE After'
    BY <1>1 DEF TryConnect, Goto, After, socketVars
  <1>2. ASSUME NEW c \in Processes, Open(c) PROVE After'
    BY <1>2 DEF Open, Goto, After, socketVars
  <1>3. ASSUME NEW c \in Processes, Flock(c) PROVE After'
    BY <1>3
      DEF Flock, Taken, Goto, StartTypeOK, After, socketVars
  <1>4. ASSUME NEW c \in Processes, Wait(c) PROVE After'
    BY <1>4 DEF Wait, Goto, After, socketVars
  <1>5. ASSUME NEW c \in Processes, Unlink(c) PROVE After'
    BY <1>5 DEF Unlink, After
  <1>6. ASSUME NEW c \in Processes, Start(c) PROVE After'
    BY <1>6 DEF Start, After
  <1>7. ASSUME NEW c \in Processes, Leave(c) PROVE After'
    BY <1>7 DEF Leave, Goto, After, socketVars
  <1>8. ASSUME NEW s \in Processes, ServerUnlink(s) PROVE After'
    BY <1>8 DEF ServerUnlink, At, After
  <1>9. ASSUME NEW s \in Processes, Bind(s) PROVE After'
    BY <1>9 DEF Bind, At, After
  <1>10. ASSUME NEW s \in Processes, Listen(s) PROVE After'
    BY <1>10
      DEF Listen, At, StartTypeOK, Placed, Done, Owned, Before, After, clientVars
  <1>11. ASSUME NEW s \in Processes, UnlinkLock(s) PROVE After'
    BY <1>11 DEF UnlinkLock, At, After, clientVars
  <1>12. ASSUME NEW s \in Processes, Unlock(s) PROVE After'
    BY <1>12 DEF Unlock, At, After, clientVars
  <1>13. ASSUME NEW s \in Processes, ExitUnbound(s) PROVE After'
    BY <1>13 DEF ExitUnbound, At, After
  <1>14. ASSUME NEW s \in Processes, Rebind(s) PROVE After'
    BY <1>14 DEF Rebind, At, After
  <1>15. ASSUME NEW s \in Processes, Recreate(s) PROVE After'
    BY <1>15 DEF Recreate, Fault, OnlyKills
  <1>16. ASSUME NEW s \in Processes, ServerEnds(s) PROVE After'
    BY <1>16 DEF ServerEnds, After
  <1>17. ASSUME NEW c \in Processes, ClientKilled(c) PROVE After'
    BY <1>17 DEF ClientKilled, Goto, After, socketVars
  <1>18. ASSUME NEW c \in Processes, LockFails(c) PROVE After'
    BY <1>18 DEF LockFails, Goto, After, socketVars
  <1>19. CASE UNCHANGED startVars
    BY <1>19 DEF After, startVars, clientVars, socketVars
  <1> QED BY <1>1, <1>2, <1>3, <1>4, <1>5, <1>6, <1>7, <1>8, <1>9, <1>10, <1>11, <1>12,
             <1>13, <1>14, <1>15, <1>16, <1>17, <1>18, <1>19
          DEF StartNext, ClientStep, ServerStep

LEMMA StartBase == StartInit => StartInv
  BY DEF StartInit, StartInv, StartTypeOK, Placed, Owned, Before, After, Places, Stages

LEMMA StartPreserved == StartInv /\ [StartNext]_startVars => StartInv'
  <1> SUFFICES ASSUME StartInv, [StartNext]_startVars PROVE StartInv'
    OBVIOUS
  <1>1. StartTypeOK /\ Placed
    BY DEF StartInv
  <1>2. StartTypeOK' /\ Placed'
    BY <1>1, TypeStep, PlacedStep
  <1>3. ASSUME OnlyKills' PROVE Owned' /\ Before' /\ After'
    <2>1. OnlyKills
      BY <1>3, FaultsStay DEF OnlyKills
    <2>2. Owned /\ Before /\ After
      BY <2>1 DEF StartInv
    <2> QED BY <1>1, <1>3, <2>2, OwnedStep, BeforeStep, AfterStep
  <1> QED BY <1>2, <1>3 DEF StartInv

-----------------------------------------------------------------------------
(* Type correctness, and no two open files of clients and servers have the *)
(* lock of the same lock file (client_get_lock).                           *)
THEOREM StartTypeCorrect == StartSpec => []StartTypeOK
  <1>1. StartInv => StartTypeOK
    BY DEF StartInv
  <1> QED BY <1>1, StartBase, StartPreserved, PTL DEF StartSpec

(* However many clients find no server at once and are killed on the way,  *)
(* every server that has started can be reached: nobody unlinks its socket *)
(* and there are never two (client_connect, server_create_socket).         *)
THEOREM ServersReachable == StartSpec => []Reachable
  <1>1. StartInv => Reachable
    <2> SUFFICES ASSUME StartInv, OnlyKills, NEW s \in Processes,
                        server[s] \in {"created", "unlocking", "up"}
                 PROVE  path = s
      BY DEF Reachable, OnlyKills
    <2>1. Before /\ After
      BY DEF StartInv
    <2>2. PICK t \in listening : t \in Processes
      BY <2>1 DEF Before, StartInv, StartTypeOK
    <2> QED BY <2>1, <2>2 DEF After
  <1> QED BY <1>1, StartBase, StartPreserved, PTL DEF StartSpec
-----------------------------------------------------------------------------
(* Proofs about SourceFile for any limit and any number of files, lines    *)
(* and commands.                                                           *)
(*                                                                         *)
(* The counter is the size of a set, the source-file commands that are     *)
(* Counted, and the commands an item is nested in are all in that set:     *)
(* each is reading, has leaked, or has its callback later in the queue.    *)
(* So a callback that is reached is the last of its command's items.       *)
(*                                                                         *)
(* The invariant is stated of a queue q, a reading r and so on, and not of *)
(* the variables: an action that reads a last file inserts its commands    *)
(* and ends, which are two steps to reason about.                          *)

Numbered(x) == x.kind \in {"source", "complete"}
EndIds(q) == {q[i].id : i \in {j \in DOMAIN q : q[j].kind = "complete"}}
Counted(q, r, l) == EndIds(q) \cup l \cup (IF r = Nothing THEN {} ELSE {r.id})

(* A source-file command is in the queue, itself or as its callback, or it *)
(* has ended or leaked; what came from it runs after it and before its end.*)
Identified(q, s, l, o) ==
  /\ l \subseteq 1 .. s
  /\ \A i \in DOMAIN q : Numbered(q[i]) =>
       /\ q[i].id \in 1 .. s /\ q[i].id \notin l
       /\ \A n \in DOMAIN o : o[n].end # q[i].id
  /\ \A i \in DOMAIN q, n \in DOMAIN o : q[i].kind = "source" => q[i].id \notin o[n].of
  /\ \A i, j \in DOMAIN q : Numbered(q[i]) /\ Numbered(q[j]) /\ q[i].id = q[j].id => i = j
  /\ \A n \in DOMAIN o : o[n].of \subseteq 1 .. s /\ o[n].end \in 0 .. s /\ o[n].end \notin l

(* What an item is nested in has not ended.                                *)
Enclosed(q, r, l) ==
  \A i \in DOMAIN q : \A k \in q[i].within :
    \/ k \in l
    \/ r # Nothing /\ k = r.id
    \/ \E j \in DOMAIN q : j > i /\ q[j].kind = "complete" /\ q[j].id = k

(* While the files of the head are read, what came from them is behind it, *)
(* up to r.after.                                                          *)
Reads(q, r) ==
  r # Nothing =>
    /\ r.after \in 1 .. Len(q) /\ r.file \in Nat
    /\ q[1].kind = "source" /\ q[1].id = r.id /\ r.id \notin q[1].within
    /\ \A i \in 2 .. r.after :
         /\ q[i].kind \in {"source", "plain"} /\ q[i].file < r.file
         /\ q[i].within = q[1].within \cup {r.id}
    /\ \A i \in DOMAIN q : i > r.after => r.id \notin q[i].within

(* The files of a command are in order, in the queue and in what ran.      *)
InFiles(q, o) ==
  /\ \A i, j \in DOMAIN q :
       i < j /\ q[i].kind = "plain" /\ q[j].kind = "plain" /\ q[i].within = q[j].within
         => q[i].file <= q[j].file
  /\ \A n \in DOMAIN o, i \in DOMAIN q :
       o[n].of # {} /\ q[i].kind = "plain" /\ o[n].of = q[i].within => o[n].file <= q[i].file

Good(q, r, s, l, o) ==
  Identified(q, s, l, o) /\ Enclosed(q, r, l) /\ Reads(q, r) /\ InFiles(q, o)

(* A read ends with the last of at most MaxFiles files.                    *)
FilesLeft(r) == r # Nothing => r.left >= 1 /\ r.file + r.left <= MaxFiles + 1

SourceInv ==
  /\ SourceTypeOK
  /\ depth = Cardinality(Counted(queue, reading, leaked))
  /\ Good(queue, reading, sources, leaked, order)
  /\ FilesLeft(reading)
  /\ RunsInOrder
-----------------------------------------------------------------------------
LEMMA ItemFile ==
  ASSUME NEW q \in Seq(Items), NEW i \in DOMAIN q
  PROVE  q[i] \in Items /\ q[i].file \in Int
  <1>1. q[i] \in Items
    OBVIOUS
  <1> QED BY <1>1 DEF Items

(* Where each item of a queue is after an insertion, and after the head is *)
(* removed.                                                                *)
IsInsertion(q, pos, new, t) ==
  /\ Len(t) = Len(q) + Len(new)
  /\ \A i \in 1 .. Len(t) :
       /\ i <= pos => t[i] = q[i]
       /\ pos < i /\ i <= pos + Len(new) => t[i] = new[i - pos]
       /\ i > pos + Len(new) => t[i] = q[i - Len(new)]

LEMMA Insertion ==
  ASSUME NEW S, NEW q \in Seq(S), NEW new \in Seq(S), NEW pos \in 0 .. Len(q)
  PROVE  /\ InsertAfter(q, pos, new) \in Seq(S)
         /\ IsInsertion(q, pos, new, InsertAfter(q, pos, new))
  <1> DEFINE t == InsertAfter(q, pos, new)
  <1> DEFINE a == SubSeq(q, 1, pos)
             b == SubSeq(q, pos + 1, Len(q))
  <1>1. /\ Len(q) \in Nat /\ DOMAIN q = 1 .. Len(q)
        /\ Len(new) \in Nat /\ DOMAIN new = 1 .. Len(new)
    OBVIOUS
  <1>2. a \in Seq(S) /\ Len(a) = pos /\ \A i \in 1 .. pos : a[i] = q[i]
    BY <1>1, SubSeqProperties
  <1>3. /\ b \in Seq(S) /\ Len(b) = Len(q) - pos
        /\ \A i \in 1 .. Len(q) - pos : b[i] = q[pos + i]
    <2>1. /\ b \in Seq(S)
          /\ Len(b) = IF pos + 1 <= Len(q) THEN Len(q) - (pos + 1) + 1 ELSE 0
          /\ \A i \in 1 .. Len(q) - (pos + 1) + 1 : b[i] = q[(pos + 1) + i - 1]
      <3>1. pos + 1 \in Int /\ Len(q) \in Int /\ \A i \in pos + 1 .. Len(q) : q[i] \in S
        BY <1>1
      <3> QED BY <3>1, SubSeqProperties
    <2> HIDE DEF b
    <2>2. \A i \in 1 .. Len(q) - pos : (pos + 1) + i - 1 = pos + i
      BY <1>1
    <2>3. Len(q) - (pos + 1) + 1 = Len(q) - pos
      BY <1>1
    <2>4. Len(b) = Len(q) - pos
      <3>1. CASE pos + 1 <= Len(q)
        BY <2>1, <2>3, <3>1
      <3>2. CASE ~(pos + 1 <= Len(q))
        <4>1. pos \in Nat /\ Len(q) \in Nat /\ pos <= Len(q) /\ Len(q) < pos + 1
          BY <1>1, <3>2
        <4>2. Len(q) = pos
          BY <4>1
        <4>3. Len(b) = 0
          BY <2>1, <3>2
        <4>4. Len(q) - pos = 0
          BY <4>1, <4>2
        <4> QED BY <4>3, <4>4
      <3> QED BY <3>1, <3>2
    <2>5. \A i \in 1 .. Len(q) - pos : b[i] = q[pos + i]
      BY <2>1, <2>2, <2>3
    <2> QED BY <2>1, <2>4, <2>5
  <1> HIDE DEF a, b
  <1>4. t = (a \o new) \o b
    BY DEF InsertAfter, a, b
  <1>5. /\ t \in Seq(S) /\ Len(t) = pos + Len(new) + (Len(q) - pos)
        /\ \A i \in 1 .. Len(t) :
             t[i] = IF i <= pos THEN a[i]
                    ELSE IF i <= pos + Len(new) THEN new[i - pos]
                    ELSE b[i - (pos + Len(new))]
    <2> DEFINE c == a \o new
    <2>1. /\ c \in Seq(S) /\ Len(c) = Len(a) + Len(new)
          /\ \A i \in 1 .. Len(a) + Len(new) :
               c[i] = IF i <= Len(a) THEN a[i] ELSE new[i - Len(a)]
      BY <1>2, ConcatProperties
    <2>2. t = c \o b
      BY <1>4
    <2> HIDE DEF c, t
    <2>3. /\ t \in Seq(S) /\ Len(t) = Len(c) + Len(b)
          /\ \A i \in 1 .. Len(c) + Len(b) :
               t[i] = IF i <= Len(c) THEN c[i] ELSE b[i - Len(c)]
      <3>1. c \in Seq(S) /\ b \in Seq(S)
        BY <1>3, <2>1
      <3>2. /\ c \o b \in Seq(S) /\ Len(c \o b) = Len(c) + Len(b)
            /\ \A i \in 1 .. Len(c) + Len(b) :
                 (c \o b)[i] = IF i <= Len(c) THEN c[i] ELSE b[i - Len(c)]
        BY <3>1, ConcatProperties
      <3> QED BY <2>2, <3>2
    <2>4. Len(c) = pos + Len(new) /\ Len(t) = pos + Len(new) + (Len(q) - pos)
      BY <1>2, <1>3, <2>1, <2>3
    <2>5. ASSUME NEW i \in 1 .. Len(t)
          PROVE  t[i] = IF i <= pos THEN a[i]
                        ELSE IF i <= pos + Len(new) THEN new[i - pos]
                        ELSE b[i - (pos + Len(new))]
      <3>1. t[i] = IF i <= pos + Len(new) THEN c[i] ELSE b[i - (pos + Len(new))]
        BY <2>3, <2>4
      <3>2. i <= pos + Len(new) => c[i] = IF i <= pos THEN a[i] ELSE new[i - pos]
        BY <1>1, <1>2, <2>1
      <3>3. i \in Int /\ (i <= pos => i <= pos + Len(new))
        BY <1>1
      <3> QED BY <3>1, <3>2, <3>3
    <2> QED BY <2>3, <2>4, <2>5
  <1>6. Len(t) = Len(q) + Len(new)
    BY <1>1, <1>5
  <1> HIDE DEF t
  <1>7. ASSUME NEW i \in 1 .. Len(t)
        PROVE  /\ i <= pos => t[i] = q[i]
               /\ pos < i /\ i <= pos + Len(new) => t[i] = new[i - pos]
               /\ i > pos + Len(new) => t[i] = q[i - Len(new)]
    <2>1. CASE i <= pos
      <3>1. i \in 1 .. pos /\ ~(i > pos) /\ ~(i > pos + Len(new))
        BY <1>1, <2>1
      <3> QED BY <1>2, <1>5, <3>1, <2>1
    <2>2. CASE i > pos /\ i <= pos + Len(new)
      <3>1. ~(i <= pos) /\ ~(i > pos + Len(new))
        BY <1>1, <2>2
      <3> QED BY <1>5, <2>2, <3>1
    <2>3. CASE i > pos + Len(new)
      <3>1. i - (pos + Len(new)) \in 1 .. Len(q) - pos
        BY <1>1, <1>6, <2>3
      <3>2. t[i] = b[i - (pos + Len(new))]
        BY <1>1, <1>5, <2>3
      <3>3. b[i - (pos + Len(new))] = q[pos + (i - (pos + Len(new)))]
        BY <1>3, <3>1
      <3>4. pos + (i - (pos + Len(new))) = i - Len(new) /\ ~(i <= pos) /\ ~(i <= pos + Len(new))
        BY <1>1, <2>3
      <3> QED BY <3>2, <3>3, <3>4
    <2> QED BY <1>1, <2>1, <2>2, <2>3
  <1> QED BY <1>5, <1>6, <1>7 DEF IsInsertion, t

LEMMA Removal ==
  ASSUME NEW S, NEW q \in Seq(S), q # <<>>
  PROVE  /\ Tail(q) \in Seq(S) /\ Head(q) = q[1] /\ 1 \in DOMAIN q
         /\ DOMAIN Tail(q) = 1 .. Len(q) - 1 /\ Len(Tail(q)) = Len(q) - 1
         /\ \A i \in DOMAIN Tail(q) : i + 1 \in DOMAIN q /\ Tail(q)[i] = q[i + 1]
         /\ \A j \in DOMAIN q : j # 1 => j - 1 \in DOMAIN Tail(q) /\ Tail(q)[j - 1] = q[j]
  OBVIOUS
-----------------------------------------------------------------------------
(* The head starts to read its files.                                      *)
LEMMA Beginning ==
  ASSUME NEW q \in Seq(Items), NEW s \in Nat, NEW l, NEW o,
         Good(q, Nothing, s, l, o), q # <<>>, q[1].kind = "source",
         NEW r, r.id = q[1].id, r.after = 1, r.file = 1
  PROVE  /\ Good(q, r, s, l, o) /\ r # Nothing
         /\ r.id \notin Counted(q, Nothing, l)
         /\ Counted(q, r, l) = Counted(q, Nothing, l) \cup {r.id}
  <1>1. /\ Head(q) = q[1] /\ 1 \in DOMAIN q /\ DOMAIN q = 1 .. Len(q) /\ Len(q) \in Nat
        /\ r.id = q[1].id /\ r.after = 1 /\ r.file = 1 /\ q[1].kind = "source"
    BY Removal
  <1>2. r.id \in 1 .. s /\ r.id \notin l /\ Numbered(q[1])
    BY <1>1 DEF Good, Identified, Numbered
  <1>3. r # Nothing
    BY <1>1, <1>2 DEF Nothing
  <1>4. r.id \notin EndIds(q)
    BY <1>1, <1>2 DEF Good, Identified, Numbered, EndIds
  <1>5. \A i \in DOMAIN q : r.id \notin q[i].within
    BY <1>2, <1>4 DEF Good, Enclosed, EndIds
  <1>6. Reads(q, r)
    BY <1>1, <1>5 DEF Reads
  <1>7. Enclosed(q, r, l)
    BY DEF Good, Enclosed
  <1>8. Counted(q, r, l) = EndIds(q) \cup l \cup {r.id} /\ Counted(q, Nothing, l) = EndIds(q) \cup l
    BY <1>3 DEF Counted
  <1> QED BY <1>2, <1>3, <1>4, <1>6, <1>7, <1>8 DEF Good

(* The commands of a file are inserted behind those of the files before it.*)
IsFile(new, w, f, s, u) ==
  /\ new \in Seq(Items) /\ u \in Nat /\ u >= s
  /\ \A i \in DOMAIN new :
       /\ new[i].kind \in {"source", "plain"} /\ new[i].file = f /\ new[i].within = w
       /\ new[i].kind = "source" => new[i].id \in s + 1 .. u
  /\ \A i, j \in DOMAIN new :
       new[i].kind = "source" /\ new[j].kind = "source" /\ new[i].id = new[j].id => i = j
ReadFrom(new, q, r, s, u) == IsFile(new, q[1].within \cup {r.id}, r.file, s, u)
NextFile(r, n) ==
  [id |-> r.id, left |-> r.left - 1, after |-> r.after + n, file |-> r.file + 1]

LEMMA Lines ==
  ASSUME NEW q \in Seq(Items), NEW r, NEW s \in Nat, NEW l, NEW o, NEW u, NEW new,
         Good(q, r, s, l, o), r # Nothing,
         ReadFrom(new, q, r, s, u),
         NEW t \in Seq(Items), IsInsertion(q, r.after, new, t)
  PROVE  /\ t # <<>> /\ Good(t, NextFile(r, Len(new)), u, l, o)
         /\ Counted(t, NextFile(r, Len(new)), l) = Counted(q, r, l)
  <1> DEFINE p == r.after
             n == Len(new)
             v == NextFile(r, n)
  <1> SUFFICES ASSUME
        new \in Seq(Items), u \in Nat, u >= s,
        \A i \in DOMAIN new :
          /\ new[i].kind \in {"source", "plain"} /\ new[i].file = r.file
          /\ new[i].within = q[1].within \cup {r.id}
          /\ new[i].kind = "source" => new[i].id \in s + 1 .. u,
        \A i, j \in DOMAIN new :
          new[i].kind = "source" /\ new[j].kind = "source" /\ new[i].id = new[j].id => i = j
      PROVE  /\ t # <<>> /\ Good(t, v, u, l, o)
             /\ Counted(t, v, l) = Counted(q, r, l)
    BY DEF IsFile, ReadFrom
  <1> USE DEF Good
  <1>1. /\ p \in 1 .. Len(q) /\ r.file \in Nat /\ q[1].kind = "source" /\ q[1].id = r.id
        /\ r.id \notin q[1].within
        /\ DOMAIN q = 1 .. Len(q) /\ Len(q) \in Nat /\ DOMAIN new = 1 .. n /\ n \in Nat
    BY DEF Reads
  <1>2. /\ Len(t) = Len(q) + n /\ DOMAIN t = 1 .. Len(q) + n
        /\ \A i \in DOMAIN t :
             /\ i <= p => t[i] = q[i]
             /\ p < i /\ i <= p + n => t[i] = new[i - p]
             /\ i > p + n => t[i] = q[i - n]
    BY <1>1, SMTT(30) DEF IsInsertion
  <1>12. v.id = r.id /\ v.after = p + n /\ v.file = r.file + 1 /\ v # Nothing
    <2>1. r.id # 0
      BY <1>1 DEF Identified, Numbered
    <2> QED BY <2>1 DEF NextFile, Nothing
  <1> HIDE DEF p, n, v
  <1>10. \A j \in DOMAIN q :
           /\ j <= p => j \in DOMAIN t /\ t[j] = q[j]
           /\ j > p => j + n \in DOMAIN t /\ t[j + n] = q[j]
    <2> TAKE j \in DOMAIN q
    <2>1. j + n \in DOMAIN t /\ (j <= p => j \in DOMAIN t) /\ (j + n) - n = j
      BY <1>1, <1>2
    <2>2. j > p => j + n > p + n
      BY <1>1
    <2> QED BY <1>2, <2>1, <2>2
  <1>11. p \in Int /\ n \in Nat /\ DOMAIN t \subseteq Int
    BY <1>1, <1>2
  <1>3. t # <<>> /\ 1 \in DOMAIN t /\ t[1] = q[1] /\ q[1] \in Items
    BY <1>1, <1>2, <1>10
  (* an item of t is one of new or one of q *)
  <1> DEFINE IsNew(i) == i > p /\ i <= p + n
  <1>4. ASSUME NEW i \in DOMAIN t
        PROVE  /\ IsNew(i) => \E j \in DOMAIN new : t[i] = new[j] /\ j = i - p
               /\ ~IsNew(i) => \E j \in DOMAIN q :
                     t[i] = q[j] /\ j = (IF i <= p THEN i ELSE i - n)
    <2>1. CASE IsNew(i)
      <3>1. i - p \in DOMAIN new /\ t[i] = new[i - p]
        BY <1>1, <1>2, <2>1
      <3> QED BY <2>1, <3>1
    <2>2. CASE i <= p
      <3>1. i \in DOMAIN q /\ t[i] = q[i] /\ ~IsNew(i)
        BY <1>1, <1>2, <2>2
      <3> QED BY <2>2, <3>1
    <2>3. CASE i > p + n
      <3>1. i - n \in DOMAIN q /\ t[i] = q[i - n] /\ ~IsNew(i) /\ ~(i <= p)
        BY <1>1, <1>2, <2>3
      <3> QED BY <3>1
    <2> QED BY <1>1, <1>2, <2>1, <2>2, <2>3
  <1>0. \A i \in DOMAIN t : IsNew(i) <=> (i > p /\ i <= p + n)
    OBVIOUS
  <1> HIDE DEF IsNew
  <1>5. Identified(t, u, l, o)
    <2>1. \A i \in DOMAIN t : Numbered(t[i]) =>
            /\ t[i].id \in 1 .. u /\ t[i].id \notin l
            /\ \A m \in DOMAIN o : o[m].end # t[i].id
      BY <1>4 DEF Identified, Numbered
    <2>2. \A i \in DOMAIN t, m \in DOMAIN o : t[i].kind = "source" => t[i].id \notin o[m].of
      BY <1>4 DEF Identified
    <2>3. ASSUME NEW i \in DOMAIN t, NEW j \in DOMAIN t, Numbered(t[i]), Numbered(t[j]),
                 t[i].id = t[j].id
          PROVE  i = j
      <3>1. CASE IsNew(i) /\ IsNew(j)
        <4>1. i - p \in DOMAIN new /\ j - p \in DOMAIN new /\ t[i] = new[i - p] /\ t[j] = new[j - p]
          BY <1>0, <1>1, <1>2, <3>1, SMTT(30)
        <4>2. i - p = j - p
          BY <2>3, <4>1 DEF Numbered
        <4> QED BY <1>1, <1>2, <4>2
      <3>2. CASE ~IsNew(i) /\ ~IsNew(j)
        <4>1. PICK k \in DOMAIN q : t[i] = q[k] /\ k = (IF i <= p THEN i ELSE i - n)
          BY <1>4, <3>2
        <4>2. PICK m \in DOMAIN q : t[j] = q[m] /\ m = (IF j <= p THEN j ELSE j - n)
          BY <1>4, <3>2
        <4>3. k = m
          BY <2>3, <4>1, <4>2 DEF Identified
        <4>4. i \in Int /\ j \in Int /\ (i <= p \/ i > p + n) /\ (j <= p \/ j > p + n)
          BY <1>0, <1>11, <3>2, SMTT(30)
        <4>5. (IF i <= p THEN i ELSE i - n) = (IF j <= p THEN j ELSE j - n)
          BY <4>1, <4>2, <4>3
        <4> QED BY <1>11, <4>4, <4>5
      <3>3. CASE ~IsNew(i) /\ IsNew(j)
        <4>1. PICK k \in DOMAIN q : t[i] = q[k]
          BY <1>4, <3>3
        <4>2. PICK m \in DOMAIN new : t[j] = new[m]
          BY <1>4, <3>3
        <4>3. t[i].id \in 1 .. s /\ t[j].id \in s + 1 .. u
          BY <2>3, <4>1, <4>2 DEF Identified, Numbered
        <4> QED BY <2>3, <4>3
      <3>4. CASE ~IsNew(j) /\ IsNew(i)
        <4>1. PICK k \in DOMAIN q : t[j] = q[k]
          BY <1>4, <3>4
        <4>2. PICK m \in DOMAIN new : t[i] = new[m]
          BY <1>4, <3>4
        <4>3. t[j].id \in 1 .. s /\ t[i].id \in s + 1 .. u
          BY <2>3, <4>1, <4>2 DEF Identified, Numbered
        <4> QED BY <2>3, <4>3
      <3> QED BY <3>1, <3>2, <3>3, <3>4
    <2> QED BY <2>1, <2>2, <2>3 DEF Identified
  <1>6. Enclosed(t, v, l)
    <2> SUFFICES ASSUME NEW i \in DOMAIN t, NEW k \in t[i].within, k \notin l, k # r.id
                 PROVE  \E j \in DOMAIN t : j > i /\ t[j].kind = "complete" /\ t[j].id = k
      BY <1>12 DEF Enclosed
    <2>1. ASSUME NEW h \in DOMAIN q, k \in q[h].within, i <= p \/ h > p,
                 h = (IF i <= p THEN i ELSE i - n)
          PROVE  \E j \in DOMAIN t : j > i /\ t[j].kind = "complete" /\ t[j].id = k
      <3>1. PICK j \in DOMAIN q : j > h /\ q[j].kind = "complete" /\ q[j].id = k
        BY <2>1 DEF Enclosed
      <3>2. CASE j <= p
        <4>1. j \in DOMAIN t /\ t[j] = q[j]
          BY <1>10, <3>2
        <4>2. j > i
          BY <1>1, <1>11, <2>1, <3>1, <3>2
        <4> QED BY <3>1, <4>1, <4>2
      <3>3. CASE j > p
        <4>1. j + n \in DOMAIN t /\ t[j + n] = q[j]
          BY <1>10, <3>3
        <4>2. j + n > i
          BY <1>0, <1>1, <1>2, <2>1, <3>1, <3>3
        <4> QED BY <3>1, <4>1, <4>2
      <3> QED BY <1>1, <3>2, <3>3
    <2>2. CASE i <= p \/ i > p + n
      <3>1. PICK h \in DOMAIN q : t[i] = q[h] /\ h = (IF i <= p THEN i ELSE i - n)
        BY <1>0, <1>1, <1>2, <1>4, <2>2
      <3>2. i <= p \/ h > p
        BY <1>0, <1>1, <1>2, <2>2, <3>1
      <3> QED BY <2>1, <3>1, <3>2
    <2>3. CASE IsNew(i)
      <3>1. k \in q[1].within
        <4>1. PICK m \in DOMAIN new : t[i] = new[m]
          BY <1>4, <2>3
        <4>2. t[i].within = q[1].within \cup {r.id}
          BY <4>1
        <4> QED BY <4>2
      <3>2. PICK j \in DOMAIN q : j > 1 /\ q[j].kind = "complete" /\ q[j].id = k
        BY <1>1, <3>1 DEF Enclosed
      <3>3. j > p
        <4>1. \A m \in 2 .. p : q[m].kind \in {"source", "plain"}
          BY DEF Reads, p
        <4>2. j \notin 2 .. p
          BY <3>2, <4>1
        <4> QED BY <1>1, <1>11, <3>2, <4>2
      <3>4. j + n \in DOMAIN t /\ t[j + n] = q[j] /\ j + n > i
        BY <1>0, <1>1, <1>2, <1>10, <2>3, <3>3
      <3> QED BY <3>2, <3>4
    <2>4. i <= p \/ i > p + n \/ IsNew(i)
      <3>1. i \in Int /\ p \in Int /\ n \in Int
        BY <1>11
      <3>2. IsNew(i) <=> (i > p /\ i <= p + n)
        BY <1>0
      <3> QED BY <3>1, <3>2
    <2> QED BY <2>2, <2>3, <2>4
  <1>7. Reads(t, v)
    <2>1. v.after \in 1 .. Len(t) /\ v.file \in Nat /\ v.after = p + n
      BY <1>1, <1>2, <1>12
    <2>2. ASSUME NEW i \in 2 .. v.after
          PROVE  /\ t[i].kind \in {"source", "plain"} /\ t[i].file < r.file + 1
                 /\ t[i].within = q[1].within \cup {r.id}
      <3>1. i \in DOMAIN t
        BY <1>0, <1>1, <1>2, <2>1
      <3>2. CASE i <= p
        <4>1. t[i] = q[i] /\ i \in 2 .. r.after /\ q[i] \in Items
          BY <1>1, <1>2, <3>1, <3>2 DEF p
        <4>2. q[i].kind \in {"source", "plain"} /\ q[i].file < r.file /\ q[i].file \in Int
              /\ q[i].within = q[1].within \cup {r.id}
          BY <4>1, ItemFile DEF Reads
        <4> QED BY <1>1, <4>1, <4>2
      <3>3. CASE i > p
        <4>0. IsNew(i)
          <5>1. i \in Int /\ p + n \in Int /\ i <= p + n
            BY <1>11, <2>1
          <5> QED BY <1>0, <3>1, <3>3, <5>1
        <4>1. PICK j \in DOMAIN new : t[i] = new[j]
          BY <1>4, <3>1, <4>0
        <4> QED BY <1>1, <4>1
      <3> QED BY <1>1, <3>2, <3>3
    <2>3. ASSUME NEW i \in DOMAIN t, i > v.after PROVE r.id \notin t[i].within
      <3>1. i - n \in DOMAIN q /\ t[i] = q[i - n] /\ i - n > p
        BY <1>0, <1>1, <1>2, <2>1, <2>3
      <3> QED BY <3>1 DEF Reads, p
    <2> QED BY <1>1, <1>3, <1>12, <2>1, <2>2, <2>3 DEF Reads
  <1>8. InFiles(t, o)
    (* an item of q that came from this command is not behind the new ones *)
    <2>1. ASSUME NEW j \in DOMAIN q, q[j].within = q[1].within \cup {r.id}
          PROVE  j \in 2 .. p /\ q[j].file < r.file
      <3>1. r.id \in q[j].within
        BY <2>1
      <3>2. ~(j > p) /\ j # 1
        BY <1>1, <3>1 DEF Reads, p
      <3>3. j \in 2 .. p
        BY <1>1, <3>2
      <3> QED BY <3>3 DEF Reads, p
    <2>2. ASSUME NEW i \in DOMAIN t, NEW j \in DOMAIN t, i < j,
                 t[i].kind = "plain", t[j].kind = "plain", t[i].within = t[j].within
          PROVE  t[i].file <= t[j].file
      <3>1. CASE IsNew(i) /\ IsNew(j)
        <4>1. t[i].file = r.file /\ t[j].file = r.file
          BY <1>4, <3>1
        <4> QED BY <1>1, <4>1
      <3>2. CASE ~IsNew(i) /\ ~IsNew(j)
        <4>1. PICK k \in DOMAIN q : t[i] = q[k] /\ k = (IF i <= p THEN i ELSE i - n)
          BY <1>4, <3>2
        <4>2. PICK m \in DOMAIN q : t[j] = q[m] /\ m = (IF j <= p THEN j ELSE j - n)
          BY <1>4, <3>2
        <4>3. k < m
          BY <1>0, <1>1, <1>2, <2>2, <3>2, <4>1, <4>2
        <4> QED BY <2>2, <4>1, <4>2, <4>3 DEF InFiles
      <3>3. CASE ~IsNew(i) /\ IsNew(j)
        <4>1. PICK k \in DOMAIN q : t[i] = q[k]
          BY <1>4, <3>3
        <4>2. t[j].file = r.file /\ t[j].within = q[1].within \cup {r.id}
          BY <1>4, <3>3
        <4>3. q[k].file < r.file /\ q[k].file \in Int
          BY <2>1, <2>2, <4>1, <4>2, ItemFile
        <4> QED BY <1>1, <4>1, <4>2, <4>3
      <3>4. CASE ~IsNew(j) /\ IsNew(i)
        <4>1. PICK m \in DOMAIN q : t[j] = q[m] /\ m = (IF j <= p THEN j ELSE j - n)
          BY <1>4, <3>4
        <4>2. t[i].within = q[1].within \cup {r.id}
          BY <1>4, <3>4
        <4>3. m \in 2 .. p
          BY <2>1, <2>2, <4>1, <4>2
        <4>4. j <= p
          BY <1>0, <1>11, <3>4, <4>1, <4>3, SMTT(30)
        <4> QED BY <1>0, <1>11, <2>2, <3>4, <4>4
      <3> QED BY <3>1, <3>2, <3>3, <3>4
    <2>3. ASSUME NEW m \in DOMAIN o, NEW i \in DOMAIN t, o[m].of # {}, t[i].kind = "plain",
                 o[m].of = t[i].within
          PROVE  o[m].file <= t[i].file
      <3>1. CASE \E j \in DOMAIN q : t[i] = q[j]
        BY <2>3, <3>1 DEF InFiles
      <3>2. CASE \E j \in DOMAIN new : t[i] = new[j]
        <4>1. r.id \in o[m].of
          <5>1. PICK j \in DOMAIN new : t[i] = new[j]
            BY <3>2
          <5>2. t[i].within = q[1].within \cup {r.id}
            BY <5>1
          <5> QED BY <2>3, <5>2
        <4> QED BY <1>1, <4>1, SMTT(30) DEF Identified
      <3> QED BY <1>4, <3>1, <3>2
    <2> QED BY <2>2, <2>3 DEF InFiles
  <1>9. EndIds(t) = EndIds(q)
    <2>1. ASSUME NEW x \in EndIds(t) PROVE x \in EndIds(q)
      <3>1. PICK i \in DOMAIN t : t[i].kind = "complete" /\ x = t[i].id
        BY DEF EndIds
      <3>2. PICK j \in DOMAIN q : t[i] = q[j]
        BY <1>4, <3>1
      <3> QED BY <3>1, <3>2 DEF EndIds
    <2>2. ASSUME NEW x \in EndIds(q) PROVE x \in EndIds(t)
      <3>1. PICK j \in DOMAIN q : q[j].kind = "complete" /\ x = q[j].id
        BY DEF EndIds
      <3>2. PICK i \in DOMAIN t : t[i] = q[j]
        BY <1>1, <1>2, <1>10
      <3> QED BY <3>1, <3>2 DEF EndIds
    <2> QED BY <2>1, <2>2
  <1> QED BY <1>2, <1>3, <1>5, <1>6, <1>7, <1>8, <1>9, <1>12 DEF Counted

(* The head leaves the queue.  If its files were read it has leaked.       *)
LEMMA Popped ==
  ASSUME NEW q \in Seq(Items), NEW r, NEW s \in Nat, NEW l, NEW o,
         Good(q, r, s, l, o), q # <<>>,
         NEW m, m = l \cup (IF r = Nothing THEN {} ELSE {r.id})
  PROVE  /\ Good(Tail(q), Nothing, s, m, o)
         /\ EndIds(Tail(q)) = IF q[1].kind = "complete" THEN EndIds(q) \ {q[1].id} ELSE EndIds(q)
  <1> DEFINE t == Tail(q)
  <1> USE DEF Good
  <1>1. /\ 1 \in DOMAIN q /\ DOMAIN q = 1 .. Len(q) /\ Len(q) \in Nat
        /\ DOMAIN t = 1 .. Len(q) - 1
    BY Removal
  <1>2. \A i \in DOMAIN t : i + 1 \in DOMAIN q /\ t[i] = q[i + 1] /\ i + 1 # 1
    BY <1>1, Removal
  <1>3. \A j \in DOMAIN q : j # 1 => j - 1 \in DOMAIN t /\ t[j - 1] = q[j]
    BY Removal
  <1> HIDE DEF t
  <1>4. r # Nothing => Numbered(q[1]) /\ q[1].id = r.id
    BY DEF Reads, Numbered
  <1>5. Identified(t, s, m, o)
    <2>1. m \subseteq 1 .. s
      BY <1>1, <1>4 DEF Identified
    <2>2. \A i \in DOMAIN t : Numbered(t[i]) =>
            /\ t[i].id \in 1 .. s /\ t[i].id \notin m
            /\ \A n \in DOMAIN o : o[n].end # t[i].id
      BY <1>1, <1>2, <1>4 DEF Identified
    <2>3. \A i \in DOMAIN t, n \in DOMAIN o : t[i].kind = "source" => t[i].id \notin o[n].of
      BY <1>2 DEF Identified
    <2>4. ASSUME NEW i \in DOMAIN t, NEW j \in DOMAIN t, Numbered(t[i]), Numbered(t[j]),
                 t[i].id = t[j].id
          PROVE  i = j
      <3>1. i + 1 = j + 1
        BY <1>2, <2>4 DEF Identified
      <3> QED BY <1>1, <3>1
    <2>5. \A n \in DOMAIN o : o[n].of \subseteq 1 .. s /\ o[n].end \in 0 .. s /\ o[n].end \notin m
      BY <1>1, <1>4 DEF Identified
    <2> QED BY <2>1, <2>2, <2>3, <2>4, <2>5 DEF Identified
  <1>6. Enclosed(t, Nothing, m)
    <2> SUFFICES ASSUME NEW i \in DOMAIN t, NEW k \in t[i].within, k \notin m
                 PROVE  \E j \in DOMAIN t : j > i /\ t[j].kind = "complete" /\ t[j].id = k
      BY DEF Enclosed
    <2>1. i + 1 \in DOMAIN q /\ k \in q[i + 1].within
      BY <1>2
    <2>2. PICK j \in DOMAIN q : j > i + 1 /\ q[j].kind = "complete" /\ q[j].id = k
      BY <2>1 DEF Enclosed
    <2>3. j # 1 /\ j - 1 > i
      BY <1>1, <2>2
    <2> QED BY <1>3, <2>2, <2>3
  <1>7. Reads(t, Nothing)
    BY DEF Reads
  <1>8. InFiles(t, o)
    <2>1. \A i, j \in DOMAIN t : i < j => i + 1 < j + 1
      BY <1>1
    <2> QED BY <1>2, <2>1 DEF InFiles
  <1>9. EndIds(t) = IF q[1].kind = "complete" THEN EndIds(q) \ {q[1].id} ELSE EndIds(q)
    <2>1. \A x : x \in EndIds(t) <=> \E i \in DOMAIN q : i # 1 /\ q[i].kind = "complete" /\ x = q[i].id
      BY <1>2, <1>3 DEF EndIds
    <2>2. \A x : x \in EndIds(q) <=> \E i \in DOMAIN q : q[i].kind = "complete" /\ x = q[i].id
      BY DEF EndIds
    <2>3. \A i \in DOMAIN q : i # 1 /\ q[i].kind = "complete" /\ q[1].kind = "complete"
                                => q[i].id # q[1].id
      BY <1>1 DEF Identified, Numbered
    <2> HIDE DEF Good
    <2>4. CASE q[1].kind = "complete"
      <3>1. EndIds(t) = EndIds(q) \ {q[1].id}
        BY <1>1, <2>1, <2>2, <2>3, <2>4
      <3> QED BY <2>4, <3>1
    <2>5. CASE q[1].kind # "complete"
      <3>1. \A x : x \in EndIds(t) <=> x \in EndIds(q)
        BY <2>1, <2>2, <2>5
      <3>2. EndIds(t) = EndIds(q)
        <4> HIDE DEF EndIds
        <4> QED BY <3>1
      <3> QED BY <2>5, <3>2
    <2> QED BY <2>4, <2>5
  <1> QED BY <1>5, <1>6, <1>7, <1>8, <1>9 DEF t

(* The head has read its files and leaves a callback behind what it loaded.*)
LEMMA Ended ==
  ASSUME NEW q \in Seq(Items), NEW r, NEW s \in Nat, NEW l, NEW o,
         Good(q, r, s, l, o), r # Nothing,
         NEW c \in Items, c.kind = "complete", c.id = r.id, c.within = q[1].within,
         NEW u \in Seq(Items), IsInsertion(q, r.after, <<c>>, u)
  PROVE  /\ u # <<>> /\ Good(Tail(u), Nothing, s, l, o)
         /\ Counted(Tail(u), Nothing, l) = Counted(q, r, l)
  <1> DEFINE t == Tail(u)
             p == r.after
  <1> USE DEF Good
  <1>1. /\ p \in 1 .. Len(q) /\ q[1].kind = "source" /\ q[1].id = r.id
        /\ r.id \notin q[1].within
        /\ DOMAIN q = 1 .. Len(q) /\ Len(q) \in Nat /\ 1 \in DOMAIN q
        /\ DOMAIN u = 1 .. Len(q) + 1 /\ u # <<>>
    BY DEF Reads, IsInsertion
  <1>2. /\ DOMAIN t = DOMAIN q
        /\ \A i \in DOMAIN t : t[i] = u[i + 1] /\ i + 1 \in DOMAIN u
    BY <1>1, Removal
  <1>3. \A i \in DOMAIN t :
          /\ i < p => i + 1 \in DOMAIN q /\ t[i] = q[i + 1]
          /\ i = p => t[i] = c
          /\ i > p => t[i] = q[i]
    <2> TAKE i \in DOMAIN t
    <2>1. t[i] = u[i + 1] /\ i + 1 \in 1 .. Len(u)
      BY <1>1, <1>2
    <2>2. CASE i < p
      <3>1. i + 1 <= p /\ i + 1 \in DOMAIN q /\ ~(i = p) /\ ~(i > p)
        BY <1>1, <1>2, <2>2
      <3> QED BY <2>1, <3>1 DEF IsInsertion
    <2>3. CASE i = p
      <3>1. p < i + 1 /\ i + 1 <= p + Len(<<c>>) /\ (i + 1) - p = 1 /\ ~(i < p) /\ ~(i > p)
        BY <1>1, <2>3
      <3>2. u[i + 1] = <<c>>[(i + 1) - p]
        BY <2>1, <3>1 DEF IsInsertion
      <3> QED BY <2>1, <3>1, <3>2
    <2>4. CASE i > p
      <3>1. i + 1 > p + Len(<<c>>) /\ (i + 1) - Len(<<c>>) = i /\ ~(i < p) /\ ~(i = p)
        BY <1>1, <1>2, <2>4, SMTT(30)
      <3>2. u[i + 1] = q[(i + 1) - Len(<<c>>)]
        BY <2>1, <3>1 DEF IsInsertion
      <3> QED BY <2>1, <3>1, <3>2
    <2> QED BY <1>1, <1>2, <2>2, <2>3, <2>4
  <1> HIDE DEF t, p
  <1>4. \A j \in DOMAIN q : j # 1 =>
          /\ j <= p => j - 1 \in DOMAIN t /\ t[j - 1] = q[j]
          /\ j > p => j \in DOMAIN t /\ t[j] = q[j]
    <2> SUFFICES ASSUME NEW j \in DOMAIN q, j # 1
                 PROVE  /\ j <= p => j - 1 \in DOMAIN t /\ t[j - 1] = q[j]
                        /\ j > p => j \in DOMAIN t /\ t[j] = q[j]
      OBVIOUS
    <2>1. j - 1 \in DOMAIN t /\ (j - 1) + 1 = j /\ (j <= p => j - 1 < p)
      BY <1>1, <1>2
    <2> QED BY <1>2, <1>3, <2>1
  <1>5. p \in Int /\ DOMAIN t \subseteq Int /\ DOMAIN q \subseteq Int /\ p \in DOMAIN t /\ t[p] = c
    BY <1>1, <1>2, <1>3
  (* an item of t is the callback, or an item of q that was not the head *)
  <1>6. \A i \in DOMAIN t : i # p =>
          \E j \in DOMAIN q : t[i] = q[j] /\ j # 1 /\ j = (IF i < p THEN i + 1 ELSE i)
    <2> SUFFICES ASSUME NEW i \in DOMAIN t, i # p
                 PROVE  \E j \in DOMAIN q : t[i] = q[j] /\ j # 1 /\ j = (IF i < p THEN i + 1 ELSE i)
      OBVIOUS
    <2>1. CASE i < p
      BY <1>1, <1>2, <1>3, <2>1
    <2>2. CASE i > p
      <3>1. i \in DOMAIN q /\ t[i] = q[i] /\ i # 1 /\ ~(i < p)
        BY <1>1, <1>2, <1>3, <2>2
      <3> QED BY <3>1
    <2> QED BY <1>5, <2>1, <2>2
  <1>7. Identified(t, s, l, o)
    <2>1. \A i \in DOMAIN t : Numbered(t[i]) =>
            /\ t[i].id \in 1 .. s /\ t[i].id \notin l
            /\ \A n \in DOMAIN o : o[n].end # t[i].id
      BY <1>1, <1>5, <1>6 DEF Identified, Numbered
    <2>2. \A i \in DOMAIN t, n \in DOMAIN o : t[i].kind = "source" => t[i].id \notin o[n].of
      BY <1>5, <1>6 DEF Identified
    <2>3. ASSUME NEW i \in DOMAIN t, i # p, Numbered(t[i]) PROVE t[i].id # r.id
      BY <1>1, <1>6, <2>3 DEF Identified, Numbered
    <2>4. ASSUME NEW i \in DOMAIN t, NEW j \in DOMAIN t, Numbered(t[i]), Numbered(t[j]),
                 t[i].id = t[j].id
          PROVE  i = j
      <3>1. CASE i = p \/ j = p
        BY <1>5, <2>3, <2>4, <3>1
      <3>2. CASE i # p /\ j # p
        <4>1. PICK k \in DOMAIN q : t[i] = q[k] /\ k = (IF i < p THEN i + 1 ELSE i)
          BY <1>6, <3>2
        <4>2. PICK m \in DOMAIN q : t[j] = q[m] /\ m = (IF j < p THEN j + 1 ELSE j)
          BY <1>6, <3>2
        <4>3. k = m
          BY <2>4, <4>1, <4>2 DEF Identified
        <4>4. i \in Int /\ j \in Int
          BY <1>5
        <4>5. (IF i < p THEN i + 1 ELSE i) = (IF j < p THEN j + 1 ELSE j)
          BY <4>1, <4>2, <4>3
        <4> QED BY <1>5, <3>2, <4>4, <4>5
      <3> QED BY <3>1, <3>2
    <2> QED BY <2>1, <2>2, <2>4 DEF Identified
  <1>8. Enclosed(t, Nothing, l)
    <2> SUFFICES ASSUME NEW i \in DOMAIN t, NEW k \in t[i].within, k \notin l
                 PROVE  \E j \in DOMAIN t : j > i /\ t[j].kind = "complete" /\ t[j].id = k
      BY DEF Enclosed
    (* a callback that was in the queue is behind what was loaded *)
    <2>1. ASSUME NEW j \in DOMAIN q, q[j].kind = "complete" PROVE j > p
      <3>1. \A m \in 2 .. p : q[m].kind \in {"source", "plain"}
        BY DEF Reads, p
      <3>2. j \notin 2 .. p /\ j # 1
        BY <1>1, <2>1, <3>1
      <3> QED BY <1>1, <1>5, <3>2
    <2>2. ASSUME NEW h \in DOMAIN q, k \in q[h].within, h = i + 1 \/ h = i \/ h = 1, i <= p \/ h = i,
                 k # r.id
          PROVE  \E j \in DOMAIN t : j > i /\ t[j].kind = "complete" /\ t[j].id = k
      <3>1. PICK j \in DOMAIN q : j > h /\ q[j].kind = "complete" /\ q[j].id = k
        BY <2>2 DEF Enclosed
      <3>2. j > p /\ j # 1
        BY <1>1, <2>1, <3>1
      <3>3. j > i
        BY <1>5, <2>2, <3>1, <3>2
      <3> QED BY <1>4, <3>1, <3>2, <3>3
    <2>3. CASE i < p
      <3>1. i + 1 \in DOMAIN q /\ t[i] = q[i + 1] /\ i <= p
        BY <1>3, <1>5, <2>3
      <3>2. CASE k = r.id
        <4>1. p > i
          BY <1>5, <2>3
        <4> QED BY <1>5, <3>2, <4>1
      <3>3. CASE k # r.id
        BY <2>2, <3>1, <3>3
      <3> QED BY <3>2, <3>3
    <2>4. CASE i = p
      <3>1. k \in q[1].within /\ k # r.id /\ i <= p
        BY <1>1, <1>5, <2>4
      <3> QED BY <1>1, <2>2, <3>1
    <2>5. CASE i > p
      <3>1. i \in DOMAIN q /\ t[i] = q[i]
        BY <1>2, <1>3, <2>5
      <3>2. k # r.id
        BY <2>5, <3>1 DEF Reads, p
      <3> QED BY <2>2, <3>1, <3>2
    <2>6. i < p \/ i = p \/ i > p
      <3>1. i \in Int /\ p \in Int
        BY <1>5
      <3> QED BY <3>1
    <2> QED BY <2>3, <2>4, <2>5, <2>6
  <1>9. Reads(t, Nothing)
    BY DEF Reads
  <1>10. InFiles(t, o)
    <2>1. \A i, j \in DOMAIN t : i < j /\ i # p /\ j # p =>
             (IF i < p THEN i + 1 ELSE i) < (IF j < p THEN j + 1 ELSE j)
      BY <1>5
    <2>2. \A i \in DOMAIN t : t[i].kind = "plain" => i # p
      BY <1>5
    <2>3. ASSUME NEW i \in DOMAIN t, NEW j \in DOMAIN t, i < j, t[i].kind = "plain",
                 t[j].kind = "plain", t[i].within = t[j].within
          PROVE  t[i].file <= t[j].file
      <3>1. PICK k \in DOMAIN q : t[i] = q[k] /\ k = (IF i < p THEN i + 1 ELSE i)
        BY <1>6, <2>2, <2>3
      <3>2. PICK m \in DOMAIN q : t[j] = q[m] /\ m = (IF j < p THEN j + 1 ELSE j)
        BY <1>6, <2>2, <2>3
      <3>3. k < m
        BY <2>1, <2>2, <2>3, <3>1, <3>2
      <3> QED BY <2>3, <3>1, <3>2, <3>3 DEF InFiles
    <2>4. ASSUME NEW n \in DOMAIN o, NEW i \in DOMAIN t, o[n].of # {}, t[i].kind = "plain",
                 o[n].of = t[i].within
          PROVE  o[n].file <= t[i].file
      <3>1. PICK k \in DOMAIN q : t[i] = q[k]
        BY <1>6, <2>2, <2>4
      <3> QED BY <2>4, <3>1 DEF InFiles
    <2> QED BY <2>3, <2>4 DEF InFiles
  <1>11. EndIds(t) = EndIds(q) \cup {r.id}
    <2>1. ASSUME NEW x \in EndIds(t) PROVE x \in EndIds(q) \cup {r.id}
      <3>1. PICK i \in DOMAIN t : t[i].kind = "complete" /\ x = t[i].id
        BY DEF EndIds
      <3>2. i = p \/ \E j \in DOMAIN q : t[i] = q[j]
        BY <1>6
      <3> QED BY <1>5, <3>1, <3>2 DEF EndIds
    <2>2. ASSUME NEW x \in EndIds(q) PROVE x \in EndIds(t)
      <3>1. PICK j \in DOMAIN q : q[j].kind = "complete" /\ x = q[j].id
        BY DEF EndIds
      <3>2. j # 1 /\ (j <= p \/ j > p)
        BY <1>1, <1>5, <3>1
      <3>3. PICK i \in DOMAIN t : t[i] = q[j]
        BY <1>4, <3>2
      <3> QED BY <3>1, <3>3 DEF EndIds
    <2>3. r.id \in EndIds(t)
      BY <1>5 DEF EndIds
    <2> QED BY <2>1, <2>2, <2>3
  <1> QED BY <1>1, <1>7, <1>8, <1>9, <1>10, <1>11 DEF Counted, t

(* The head has read its files: what cmd_source_file_complete does.        *)
QueueEnded(q, r) == Tail(InsertAfter(q, r.after, Callback(r.id, q[1].within)))
LeakedEnded(l, r) == IF cfgFinished THEN l ELSE l \cup {r.id}

LEMMA Finishing ==
  ASSUME NEW q \in Seq(Items), NEW r, NEW s \in Nat, NEW l, NEW o,
         Good(q, r, s, l, o), r # Nothing, r.id \in 0 .. MaxSources, cfgFinished \in BOOLEAN
  PROVE  /\ QueueEnded(q, r) \in Seq(Items)
         /\ Good(QueueEnded(q, r), Nothing, s, LeakedEnded(l, r), o)
         /\ Counted(QueueEnded(q, r), Nothing, LeakedEnded(l, r)) = Counted(q, r, l)
  <1> DEFINE t == QueueEnded(q, r)
             m == LeakedEnded(l, r)
             c == Item("complete", r.id, q[1].within, 0)
  <1>1. r.after \in 1 .. Len(q) /\ r.after \in 0 .. Len(q) /\ 1 \in DOMAIN q /\ q[1] \in Items
        /\ q # <<>> /\ q[1].kind = "source"
    BY DEF Good, Reads
  <1>2. CASE cfgFinished
    <2>1. c \in Items /\ c.kind = "complete" /\ c.id = r.id /\ c.within = q[1].within
      BY <1>1, SourceAssumption DEF Items, Item
    <2> DEFINE w == InsertAfter(q, r.after, <<c>>)
    <2>2. t = Tail(w) /\ <<c>> \in Seq(Items) /\ m = l
      BY <1>2, <2>1 DEF Callback, QueueEnded, LeakedEnded
    <2> HIDE DEF c
    <2>3. w \in Seq(Items) /\ IsInsertion(q, r.after, <<c>>, w)
      BY <1>1, <2>2, Insertion
    <2> HIDE DEF w
    <2>4. w # <<>> /\ Good(Tail(w), Nothing, s, l, o) /\ Counted(Tail(w), Nothing, l) = Counted(q, r, l)
      BY <2>1, <2>3, Ended
    <2>5. Tail(w) \in Seq(Items)
      BY <2>3, <2>4, Removal
    <2> QED BY <2>2, <2>4, <2>5
  <1>3. CASE ~cfgFinished
    <2> DEFINE u == InsertAfter(q, r.after, <<>>)
    <2>1. t = Tail(u) /\ <<>> \in Seq(Items) /\ m = l \cup {r.id}
      BY <1>3 DEF Callback, QueueEnded, LeakedEnded
    <2>2. u \in Seq(Items) /\ IsInsertion(q, r.after, <<>>, u)
      BY <1>1, <2>1, Insertion
    <2> HIDE DEF u
    <2>3. u = q
      <3>1. Len(u) = Len(q) /\ Len(q) \in Nat /\ \A i \in 1 .. Len(u) : i - Len(<<>>) = i
        BY <2>2 DEF IsInsertion
      <3>2. \A i \in 1 .. Len(u) : u[i] = q[i]
        <4> TAKE i \in 1 .. Len(u)
        <4>1. CASE i <= r.after
          BY <2>2, <4>1 DEF IsInsertion
        <4>2. CASE i > r.after + Len(<<>>)
          BY <2>2, <3>1, <4>2 DEF IsInsertion
        <4> QED BY <1>1, <3>1, <4>1, <4>2
      <3> QED BY <2>2, <3>1, <3>2, SeqEqual
    <2>4. m = l \cup (IF r = Nothing THEN {} ELSE {r.id})
      BY <2>1
    <2>5. Good(Tail(q), Nothing, s, m, o) /\ EndIds(Tail(q)) = EndIds(q)
      BY <1>1, <2>4, Popped
    <2>6. Tail(q) \in Seq(Items)
      BY <1>1, Removal
    <2>7. Counted(Tail(q), Nothing, m) = EndIds(q) \cup m /\ Counted(q, r, l) = EndIds(q) \cup l \cup {r.id}
      BY <2>5 DEF Counted
    <2> QED BY <2>1, <2>3, <2>5, <2>6, <2>7
  <1> QED BY <1>2, <1>3

(* A plain command or a callback runs.                                     *)
Entries == [of : SUBSET (1 .. MaxSources), file : 0 .. MaxFiles, end : 0 .. MaxSources]
InOrder(o) ==
  \A i, j \in DOMAIN o : i < j =>
    /\ o[i].end # 0 => o[i].end \notin o[j].of
    /\ o[i].of = o[j].of /\ o[i].of # {} => o[i].file <= o[j].file

LEMMA Ran ==
  ASSUME NEW q \in Seq(Items), NEW s \in Nat, NEW l, NEW o \in Seq(Entries),
         Good(q, Nothing, s, l, o), InOrder(o), q # <<>>, NEW e \in Entries,
         \/ q[1].kind = "plain" /\ e.of = q[1].within /\ e.file = q[1].file /\ e.end = 0
         \/ q[1].kind = "complete" /\ e.of = {} /\ e.end = q[1].id
  PROVE  Good(Tail(q), Nothing, s, l, Append(o, e)) /\ InOrder(Append(o, e))
  <1> DEFINE t == Tail(q)
             z == Append(o, e)
  <1>1. /\ 1 \in DOMAIN q /\ DOMAIN q \subseteq Int
        /\ \A i \in DOMAIN t : i + 1 \in DOMAIN q /\ t[i] = q[i + 1] /\ i + 1 # 1 /\ 1 < i + 1
    BY Removal
  <1>2. l \cup (IF Nothing = Nothing THEN {} ELSE {Nothing.id}) = l
    OBVIOUS
  <1>3. Good(t, Nothing, s, l, o)
    BY <1>2, Popped
  <1>4. /\ DOMAIN z = 1 .. Len(o) + 1 /\ DOMAIN o = 1 .. Len(o) /\ Len(o) \in Nat
        /\ \A n \in DOMAIN z : IF n \in DOMAIN o THEN z[n] = o[n] ELSE z[n] = e /\ n = Len(o) + 1
    OBVIOUS
  <1> HIDE DEF t, z
  (* what the head is nested in *)
  <1>5. \A k \in q[1].within : k \in l \/ \E j \in DOMAIN q : q[j].kind = "complete" /\ q[j].id = k
    BY <1>1 DEF Good, Enclosed
  <1>6. Identified(t, s, l, z)
    <2>1. e.of \subseteq 1 .. s /\ e.end \in 0 .. s /\ e.end \notin l
      <3>1. l \subseteq 1 .. s /\ \A j \in DOMAIN q : q[j].kind = "complete" => q[j].id \in 1 .. s /\ q[j].id \notin l
        BY DEF Good, Identified, Numbered
      <3>2. q[1].within \subseteq 1 .. s
        BY <1>5, <3>1
      <3>3. 0 \notin 1 .. s /\ \A x \in 1 .. s : x \in 0 .. s
        OBVIOUS
      <3> QED BY <1>1, <3>1, <3>2, <3>3
    <2>2. \A i \in DOMAIN t : Numbered(t[i]) => e.end # t[i].id
      BY <1>1 DEF Good, Identified, Numbered
    <2>3. \A i \in DOMAIN t : t[i].kind = "source" => t[i].id \notin e.of
      <3>1. \A i, j \in DOMAIN q : q[i].kind = "source" /\ q[j].kind = "complete" => q[i].id # q[j].id
        BY DEF Good, Identified, Numbered
      <3>2. \A i \in DOMAIN q : q[i].kind = "source" => q[i].id \notin l
        BY DEF Good, Identified, Numbered
      <3> QED BY <1>1, <1>5, <3>1, <3>2
    <2>4. Identified(t, s, l, o)
      BY <1>3 DEF Good
    <2> QED BY <1>4, <2>1, <2>2, <2>3, <2>4 DEF Identified
  <1>7. InFiles(t, z)
    <2>1. \A i \in DOMAIN t :
            e.of # {} /\ t[i].kind = "plain" /\ e.of = t[i].within => e.file <= t[i].file
      BY <1>1 DEF Good, InFiles
    <2>2. InFiles(t, o)
      BY <1>3 DEF Good
    <2> QED BY <1>4, <2>1, <2>2 DEF InFiles
  <1>8. InOrder(z)
    <2>1. ASSUME NEW i \in DOMAIN o
          PROVE  /\ o[i].end # 0 => o[i].end \notin e.of
                 /\ o[i].of = e.of /\ o[i].of # {} => o[i].file <= e.file
      <3>1. o[i].end \notin l /\ \A j \in DOMAIN q : q[j].kind = "complete" => q[j].id # o[i].end
        BY DEF Good, Identified, Numbered
      <3>2. o[i].end \notin e.of
        BY <1>5, <3>1
      <3>3. o[i].of = e.of /\ o[i].of # {} => o[i].file <= e.file
        BY <1>1 DEF Good, InFiles
      <3> QED BY <3>2, <3>3
    <2>2. \A i, j \in DOMAIN z : i < j => i \in DOMAIN o
      BY <1>4
    <2> QED BY <1>4, <2>1, <2>2 DEF InOrder
  <1> QED BY <1>3, <1>6, <1>7, <1>8 DEF Good, t, z

(* A user's source-file command is added.                                  *)
LEMMA Submitted ==
  ASSUME NEW q \in Seq(Items), NEW r, NEW s \in Nat, NEW l, NEW o, Good(q, r, s, l, o),
         NEW c \in Items, c.kind = "source", c.id = s + 1, c.within = {}
  PROVE  /\ Good(Append(q, c), r, s + 1, l, o)
         /\ Counted(Append(q, c), r, l) = Counted(q, r, l)
  <1> DEFINE t == Append(q, c)
  <1>1. /\ DOMAIN t = 1 .. Len(q) + 1 /\ DOMAIN q = 1 .. Len(q) /\ Len(q) \in Nat
        /\ Len(t) = Len(q) + 1 /\ DOMAIN q \subseteq DOMAIN t
        /\ \A i \in DOMAIN q : t[i] = q[i]
        /\ \A i \in DOMAIN t : i \notin DOMAIN q => t[i] = c /\ i = Len(q) + 1
    OBVIOUS
  <1> HIDE DEF t
  <1>2. Identified(t, s + 1, l, o)
    <2> USE DEF Good
    <2>1. l \subseteq 1 .. s + 1 /\ s + 1 \notin l /\ s + 1 \notin 1 .. s
      BY DEF Identified
    <2>2. \A n \in DOMAIN o : o[n].of \subseteq 1 .. s + 1 /\ o[n].end \in 0 .. s + 1 /\ o[n].end \notin l
      BY DEF Identified
    <2>3. \A n \in DOMAIN o : o[n].end # s + 1 /\ s + 1 \notin o[n].of
      BY DEF Identified
    <2>4. \A i \in DOMAIN q : Numbered(q[i]) => q[i].id \in 1 .. s + 1 /\ q[i].id # s + 1
      BY DEF Identified
    <2>5. \A i \in DOMAIN t : Numbered(t[i]) =>
            /\ t[i].id \in 1 .. s + 1 /\ t[i].id \notin l
            /\ \A n \in DOMAIN o : o[n].end # t[i].id
      BY <1>1, <2>1, <2>3, <2>4 DEF Identified
    <2>6. \A i \in DOMAIN t, n \in DOMAIN o : t[i].kind = "source" => t[i].id \notin o[n].of
      BY <1>1, <2>3 DEF Identified
    <2>7. \A i, j \in DOMAIN t : Numbered(t[i]) /\ Numbered(t[j]) /\ t[i].id = t[j].id => i = j
      BY <1>1, <2>4 DEF Identified
    <2> QED BY <2>1, <2>2, <2>5, <2>6, <2>7 DEF Identified
  <1>3. Enclosed(t, r, l)
    BY <1>1 DEF Good, Enclosed
  <1>4. Reads(t, r)
    <2> SUFFICES ASSUME r # Nothing PROVE Reads(t, r)
      BY DEF Reads
    <2>1. r.after \in 1 .. Len(q) /\ 1 \in DOMAIN q /\ t[1] = q[1] /\ r.after \in 1 .. Len(t)
      BY <1>1 DEF Good, Reads
    <2>2. \A i \in 2 .. r.after : i \in DOMAIN q /\ t[i] = q[i]
      BY <1>1, <2>1
    <2> QED BY <1>1, <2>1, <2>2 DEF Good, Reads
  <1>5. InFiles(t, o)
    BY <1>1 DEF Good, InFiles
  <1>6. EndIds(t) = EndIds(q)
    BY <1>1 DEF EndIds
  <1> QED BY <1>2, <1>3, <1>4, <1>5, <1>6 DEF Good, Counted, t

(* The commands of a file, as they are inserted.                           *)
Commands(n, p, w, f) == Sources(n, w, f) \o Plains(p, w, f)
LEMMA FileLines ==
  ASSUME NEW n \in Nat, NEW p \in Nat, sources \in Nat, sources + n <= MaxSources,
         NEW w \in SUBSET (1 .. MaxSources), NEW f \in 0 .. MaxFiles
  PROVE  IsFile(Commands(n, p, w, f), w, f, sources, sources + n)
  <1> DEFINE new == Commands(n, p, w, f)
             src(i) == Item("source", sources + i, w, f)
             pln == Item("plain", 0, w, f)
             a == [k \in 1 .. n |-> src(k)]
             b == [k \in 1 .. p |-> pln]
  <1>1. /\ pln \in Items /\ pln.kind = "plain" /\ pln.file = f /\ pln.within = w
        /\ \A i \in 1 .. n :
             /\ src(i) \in Items /\ src(i).kind = "source" /\ src(i).file = f
             /\ src(i).within = w /\ src(i).id = sources + i
             /\ sources + i \in sources + 1 .. sources + n
    BY SourceAssumption DEF Item, Items
  <1>2. new = a \o b
    BY DEF Sources, Plains, Commands
  <1> HIDE DEF src, pln, new
  <1>3. /\ a \in Seq(Items) /\ Len(a) = n /\ b \in Seq(Items) /\ Len(b) = p
    BY <1>1
  <1>4. (\A i \in 1 .. n : a[i] = src(i)) /\ (\A i \in 1 .. p : b[i] = pln)
    OBVIOUS
  <1> HIDE DEF a, b
  <1>5. /\ new \in Seq(Items) /\ Len(new) = n + p /\ DOMAIN new = 1 .. n + p
        /\ \A i \in 1 .. n + p : new[i] = IF i <= n THEN a[i] ELSE b[i - n]
    <2>1. new \in Seq(Items) /\ Len(new) = n + p
      BY <1>2, <1>3, ConcatProperties, Zenon
    <2>2. \A i \in 1 .. n + p : new[i] = IF i <= n THEN a[i] ELSE b[i - n]
      BY <1>2, <1>3
    <2> QED BY <2>1, <2>2
  <1>6. \A i \in DOMAIN new : (i \in 1 .. n /\ new[i] = src(i)) \/ new[i] = pln
    <2> TAKE i \in DOMAIN new
    <2>1. CASE i <= n
      <3>1. new[i] = a[i] /\ i \in 1 .. n + p
        BY <1>5, <2>1
      <3>2. i \in 1 .. n
        BY <2>1, <3>1
      <3> QED BY <1>4, <3>1, <3>2
    <2>2. CASE ~(i <= n)
      <3>1. new[i] = b[i - n] /\ i \in 1 .. n + p
        BY <1>5, <2>2
      <3>2. i - n \in 1 .. p
        BY <2>2, <3>1
      <3> QED BY <1>4, <3>1, <3>2
    <2> QED BY <2>1, <2>2
  <1>7. \A i \in DOMAIN new : new[i].kind = "source" => i \in 1 .. n /\ new[i].id = sources + i
    BY <1>1, <1>6
  <1>8. \A i \in DOMAIN new :
          /\ new[i].kind \in {"source", "plain"} /\ new[i].file = f /\ new[i].within = w
          /\ new[i].kind = "source" => new[i].id \in sources + 1 .. sources + n
    <2> TAKE i \in DOMAIN new
    <2>1. CASE i \in 1 .. n /\ new[i] = src(i)
      BY <1>1, <2>1
    <2>2. CASE new[i] = pln
      BY <1>1, <2>2
    <2> QED BY <1>6, <2>1, <2>2
  <1>9. \A i, j \in DOMAIN new :
          new[i].kind = "source" /\ new[j].kind = "source" /\ new[i].id = new[j].id => i = j
    <2> SUFFICES ASSUME NEW i \in DOMAIN new, NEW j \in DOMAIN new, new[i].kind = "source",
                        new[j].kind = "source", new[i].id = new[j].id
                 PROVE  i = j
      OBVIOUS
    <2>1. sources + i = sources + j /\ i \in 1 .. n /\ j \in 1 .. n
      BY <1>7
    <2> QED BY <2>1
  <1>10. sources + n \in Nat /\ sources + n >= sources
    OBVIOUS
  <1> QED BY <1>5, <1>8, <1>9, <1>10 DEF IsFile, new
-----------------------------------------------------------------------------
(* The size of what is counted.                                            *)
LEMMA CountedFinite ==
  ASSUME SourceTypeOK, Good(queue, reading, sources, leaked, order)
  PROVE  /\ IsFiniteSet(Counted(queue, reading, leaked))
         /\ Cardinality(Counted(queue, reading, leaked)) \in Nat
  <1>1. EndIds(queue) \subseteq 1 .. sources
    BY DEF Good, Identified, Numbered, EndIds
  <1>2. reading # Nothing => reading.id \in 1 .. sources
    BY DEF SourceTypeOK, Good, Identified, Reads, Numbered
  <1>3. Counted(queue, reading, leaked) \subseteq 1 .. sources
    BY <1>1, <1>2 DEF Good, Identified, Counted
  <1>4. IsFiniteSet(1 .. sources)
    BY FS_Interval DEF SourceTypeOK
  <1> QED BY <1>3, <1>4, FS_Subset, FS_CardinalityType

LEMMA SourceBase == SourceInit => SourceInv
  <1> SUFFICES ASSUME SourceInit PROVE SourceInv
    OBVIOUS
  <1> USE SourceAssumption DEF SourceInit
  <1>1. sources \in 0 .. MaxSources
    BY DEF SourceInit
  <1>2. /\ queue \in Seq(Items)
        /\ \A i \in DOMAIN queue :
             /\ queue[i].kind \in {"source", "cfg_done"} /\ queue[i].within = {}
             /\ queue[i].kind = "source" => queue[i].id = i /\ i \in 1 .. sources
    <2>1. CASE cfgFinished
      BY <2>1
    <2>2. CASE ~cfgFinished
      <3> DEFINE a == [k \in 1 .. sources |-> Item("source", k, {}, 0)]
                 e == Item("cfg_done", 0, {}, 0)
      <3>1. queue = Append(a, e)
        BY <2>2
      <3>2. e \in Items /\ \A k \in 1 .. sources : Item("source", k, {}, 0) \in Items
        BY <1>1 DEF Item, Items
      <3>3. a \in Seq(Items) /\ Len(a) = sources /\ \A k \in 1 .. sources : a[k] = Item("source", k, {}, 0)
        <4>1. sources \in Nat
          BY <1>1
        <4> HIDE DEF e, SourceInit
        <4> DEFINE it(k) == Item("source", k, {}, 0)
        <4>2. \A k \in 1 .. sources : it(k) \in Items
          BY <3>2
        <4> HIDE DEF it
        <4>3. [k \in 1 .. sources |-> it(k)] \in Seq(Items) /\ Len([k \in 1 .. sources |-> it(k)]) = sources
          BY <4>1, <4>2
        <4> QED BY <4>3 DEF it
      <3>4. e.kind = "cfg_done" /\ e.within = {}
        BY DEF Item
      <3> HIDE DEF a, e
      <3>5. /\ queue \in Seq(Items) /\ DOMAIN queue = 1 .. sources + 1
            /\ \A i \in DOMAIN queue : (i \in 1 .. sources /\ queue[i] = a[i]) \/ queue[i] = e
        BY <1>1, <3>1, <3>2, <3>3
      <3> QED BY <3>3, <3>4, <3>5 DEF Item
    <2> QED BY <2>1, <2>2
  <1>3. SourceTypeOK
    BY <1>1, <1>2 DEF SourceTypeOK, Nothing
  <1>4. Good(queue, reading, sources, leaked, order)
    <2>1. Identified(queue, sources, leaked, order)
      BY <1>1, <1>2 DEF Identified, Numbered
    <2>2. Enclosed(queue, reading, leaked)
      BY <1>2 DEF Enclosed
    <2>3. Reads(queue, reading)
      BY DEF Reads
    <2>4. InFiles(queue, order)
      BY <1>2 DEF InFiles
    <2> QED BY <2>1, <2>2, <2>3, <2>4 DEF Good
  <1>5. depth = Cardinality(Counted(queue, reading, leaked))
    <2>1. Counted(queue, reading, leaked) = {}
      BY <1>2 DEF Counted, EndIds
    <2> QED BY <2>1, FS_EmptySet
  <1>6. FilesLeft(reading) /\ RunsInOrder
    BY DEF FilesLeft, RunsInOrder
  <1> QED BY <1>3, <1>4, <1>5, <1>6 DEF SourceInv
-----------------------------------------------------------------------------
LEMMA HeadFacts ==
  ASSUME SourceTypeOK, queue # <<>>
  PROVE  /\ queue \in Seq(Items) /\ Head(queue) = queue[1] /\ 1 \in DOMAIN queue
         /\ queue[1] \in Items /\ Tail(queue) \in Seq(Items)
         /\ queue[1].id \in 0 .. MaxSources /\ queue[1].within \subseteq 1 .. MaxSources
         /\ queue[1].file \in 0 .. MaxFiles
  <1>1. queue[1] \in Items
    BY DEF SourceTypeOK
  <1>2. /\ queue[1].id \in 0 .. MaxSources /\ queue[1].within \subseteq 1 .. MaxSources
        /\ queue[1].file \in 0 .. MaxFiles
    BY <1>1 DEF Items
  <1> QED BY <1>1, <1>2, Removal DEF SourceTypeOK

LEMMA State ==
  ASSUME SourceTypeOK
  PROVE  /\ queue \in Seq(Items) /\ sources \in Nat /\ order \in Seq(Entries)
         /\ RunsInOrder <=> InOrder(order)
  <1>1. RunsInOrder <=> InOrder(order)
    BY DEF RunsInOrder, InOrder
  <1> QED BY <1>1 DEF SourceTypeOK, Entries

LEMMA ExecInv ==
  ASSUME SourceInv, NEW n \in 0 .. MaxFiles, Exec(n)
  PROVE  SourceInv'
  <1> DEFINE r == [id |-> Head(queue).id, left |-> n, after |-> 1, file |-> 1]
             c == Counted(queue, reading, leaked)
  <1>0. /\ SourceTypeOK /\ Good(queue, reading, sources, leaked, order) /\ RunsInOrder
        /\ depth = Cardinality(c)
    BY DEF SourceInv
  <1>1. /\ reading = Nothing /\ queue # <<>> /\ Head(queue).kind = "source"
        /\ depth' = depth + 1 /\ UNCHANGED <<cfgFinished, sources, order>>
        /\ n = 0 => /\ reading' = Nothing /\ leaked' = Leak(Head(queue).id)
                    /\ queue' = Tail(InsertAfter(queue, 1, Callback(Head(queue).id, Head(queue).within)))
        /\ n # 0 => reading' = r /\ queue' = queue /\ leaked' = leaked
    BY DEF Exec, HeadIs, DepthWith
  <1>2. /\ queue \in Seq(Items) /\ Head(queue) = queue[1]
        /\ queue[1].id \in 0 .. MaxSources /\ sources \in Nat /\ cfgFinished \in BOOLEAN
        /\ sources <= MaxSources
    BY <1>0, <1>1, HeadFacts, SourceAssumption, SMTT(30) DEF SourceTypeOK
  <1>3. /\ r.id = queue[1].id /\ r.after = 1 /\ r.left = n /\ r.file = 1
        /\ r \in [id : 0 .. MaxSources, left : 0 .. MaxFiles, after : Nat, file : {1}]
    BY <1>2
  <1> HIDE DEF r
  <1>5. /\ Good(queue, r, sources, leaked, order) /\ r # Nothing
        /\ r.id \notin c /\ Counted(queue, r, leaked) = c \cup {r.id}
    <2>1. /\ Good(queue, Nothing, sources, leaked, order) /\ c = Counted(queue, Nothing, leaked)
          /\ queue[1].kind = "source"
      BY <1>0, <1>1, <1>2
    <2> HIDE DEF c
    <2>2. /\ Good(queue, r, sources, leaked, order) /\ r # Nothing
          /\ r.id \notin Counted(queue, Nothing, leaked)
          /\ Counted(queue, r, leaked) = Counted(queue, Nothing, leaked) \cup {r.id}
      BY <1>1, <1>2, <1>3, <2>1, Beginning
    <2> QED BY <2>1, <2>2
  <1>6. /\ queue' \in Seq(Items) /\ leaked' \subseteq 1 .. MaxSources
        /\ Good(queue', reading', sources', leaked', order')
        /\ Counted(queue', reading', leaked') = c \cup {r.id}
    <2>1. CASE n = 0
      <3>1. queue' = QueueEnded(queue, r)
        BY <1>1, <1>2, <1>3, <2>1 DEF QueueEnded
      <3>2. leaked' = LeakedEnded(leaked, r)
        BY <1>1, <1>2, <1>3, <2>1 DEF Leak, LeakedEnded
      <3>3. r.id \in 0 .. MaxSources
        BY <1>2, <1>3
      <3>4. /\ queue' \in Seq(Items) /\ Good(queue', Nothing, sources, leaked', order)
            /\ Counted(queue', Nothing, leaked') = Counted(queue, r, leaked)
        BY <1>2, <1>5, <3>1, <3>2, <3>3, Finishing
      <3>5. leaked' \subseteq 1 .. MaxSources
        <4>1. leaked' \subseteq 1 .. sources
          BY <3>4 DEF Good, Identified
        <4> QED BY <1>2, <4>1, SourceAssumption
      <3> QED BY <1>1, <1>5, <2>1, <3>4, <3>5
    <2>2. CASE n # 0
      BY <1>0, <1>1, <1>2, <1>5, <2>2 DEF SourceTypeOK
    <2> QED BY <2>1, <2>2
  <1>7. reading' \in [id : 0 .. MaxSources, left : 0 .. MaxFiles, after : Nat, file : 0 .. MaxFiles]
        /\ FilesLeft(reading')
    <2>1. CASE n = 0
      BY <1>1, <2>1, SourceAssumption DEF Nothing, FilesLeft
    <2>2. CASE n # 0
      <3>1. 1 \in 0 .. MaxFiles /\ n >= 1 /\ 1 + n <= MaxFiles + 1
        BY <2>2, SourceAssumption
      <3>2. r \in [id : 0 .. MaxSources, left : 0 .. MaxFiles, after : Nat, file : 0 .. MaxFiles]
        BY <1>3, <3>1
      <3> QED BY <1>1, <1>3, <2>2, <3>1, <3>2 DEF FilesLeft
    <2> QED BY <2>1, <2>2
  <1>8. depth' = Cardinality(Counted(queue', reading', leaked')) /\ depth' \in Nat
    <2>1. IsFiniteSet(c) /\ Cardinality(c) = depth /\ depth \in Nat
      BY <1>0, CountedFinite DEF SourceTypeOK
    <2>2. Cardinality(c \cup {r.id}) = depth + 1
      BY <1>5, <2>1, FS_AddElement
    <2> QED BY <1>1, <1>6, <2>1, <2>2
  <1>9. SourceTypeOK'
    BY <1>0, <1>1, <1>6, <1>7, <1>8 DEF SourceTypeOK
  <1>10. RunsInOrder'
    BY <1>0, <1>1 DEF RunsInOrder
  <1> QED BY <1>6, <1>7, <1>8, <1>9, <1>10 DEF SourceInv

(* A head that was not read leaves the queue, the counter stays.           *)
LEMMA Pop ==
  ASSUME SourceInv, queue # <<>>, reading = Nothing, queue[1].kind # "complete",
         queue' = Tail(queue), UNCHANGED <<depth, reading, sources, leaked>>
  PROVE  /\ queue' \in Seq(Items)
         /\ Good(queue', reading', sources', leaked', order)
         /\ depth' = Cardinality(Counted(queue', reading', leaked'))
         /\ FilesLeft(reading')
  <1> USE DEF SourceInv
  <1>1. queue' \in Seq(Items) /\ queue \in Seq(Items) /\ sources \in Nat
    BY HeadFacts DEF SourceTypeOK
  <1>2. leaked = leaked \cup (IF reading = Nothing THEN {} ELSE {reading.id})
    OBVIOUS
  <1>3. Good(Tail(queue), Nothing, sources, leaked, order) /\ EndIds(Tail(queue)) = EndIds(queue)
    BY <1>1, <1>2, Popped
  <1>4. Counted(queue', reading', leaked') = Counted(queue, reading, leaked)
    BY <1>3 DEF Counted
  <1> QED BY <1>1, <1>3, <1>4 DEF FilesLeft

LEMMA RefuseInv == SourceInv /\ Refuse => SourceInv'
  <1> SUFFICES ASSUME SourceInv, Refuse PROVE SourceInv'
    OBVIOUS
  <1>1. queue # <<>> /\ queue[1].kind # "complete"
    BY HeadFacts DEF SourceInv, Refuse, HeadIs
  <1>2. /\ queue' \in Seq(Items) /\ Good(queue', reading', sources', leaked', order)
        /\ depth' = Cardinality(Counted(queue', reading', leaked')) /\ FilesLeft(reading')
    BY <1>1, Pop DEF Refuse, HeadIs
  <1> QED BY <1>2 DEF SourceInv, SourceTypeOK, RunsInOrder, Refuse

LEMMA CfgDoneInv == SourceInv /\ CfgDone => SourceInv'
  <1> SUFFICES ASSUME SourceInv, CfgDone PROVE SourceInv'
    OBVIOUS
  <1>1. queue # <<>> /\ queue[1].kind # "complete"
    BY HeadFacts DEF SourceInv, CfgDone, HeadIs
  <1>2. /\ queue' \in Seq(Items) /\ Good(queue', reading', sources', leaked', order)
        /\ depth' = Cardinality(Counted(queue', reading', leaked')) /\ FilesLeft(reading')
    BY <1>1, Pop DEF CfgDone, HeadIs
  <1> QED BY <1>2 DEF SourceInv, SourceTypeOK, RunsInOrder, CfgDone

LEMMA RunPlainInv == SourceInv /\ RunPlain => SourceInv'
  <1> SUFFICES ASSUME SourceInv, RunPlain PROVE SourceInv'
    OBVIOUS
  <1> DEFINE e == [of |-> queue[1].within, file |-> queue[1].file, end |-> 0]
  <1>1. /\ queue # <<>> /\ reading = Nothing /\ queue[1].kind = "plain" /\ queue' = Tail(queue)
        /\ order' = Append(order, e) /\ UNCHANGED <<depth, cfgFinished, reading, sources, leaked>>
    BY HeadFacts DEF SourceInv, RunPlain, HeadIs
  <1>2. /\ queue' \in Seq(Items) /\ depth' = Cardinality(Counted(queue', reading', leaked'))
        /\ FilesLeft(reading')
    BY <1>1, Pop
  <1>3. /\ e \in Entries /\ e.of = queue[1].within /\ e.file = queue[1].file /\ e.end = 0
    BY <1>1, HeadFacts, SourceAssumption DEF SourceInv, Entries
  <1> HIDE DEF e
  <1>4. /\ queue \in Seq(Items) /\ sources \in Nat /\ order \in Seq(Entries)
        /\ Good(queue, Nothing, sources, leaked, order) /\ InOrder(order)
    BY <1>1, State DEF SourceInv
  <1>5. Good(queue', Nothing, sources, leaked, order') /\ InOrder(order')
    BY <1>1, <1>3, <1>4, Ran
  <1>6. RunsInOrder'
    BY <1>5 DEF RunsInOrder, InOrder
  <1>7. order' \in Seq(Entries)
    BY <1>1, <1>3, <1>4
  <1>8. SourceTypeOK'
    BY <1>1, <1>2, <1>7 DEF SourceInv, SourceTypeOK, Entries
  <1> QED BY <1>1, <1>2, <1>5, <1>6, <1>8 DEF SourceInv

LEMMA RunCompleteInv == SourceInv /\ RunComplete => SourceInv'
  <1> SUFFICES ASSUME SourceInv, RunComplete PROVE SourceInv'
    OBVIOUS
  <1> DEFINE e == [of |-> {}, file |-> 0, end |-> queue[1].id]
             c == Counted(queue, reading, leaked)
  <1>1. /\ queue # <<>> /\ reading = Nothing /\ queue[1].kind = "complete" /\ queue' = Tail(queue)
        /\ order' = Append(order, e) /\ depth' = depth - 1
        /\ UNCHANGED <<cfgFinished, reading, sources, leaked>>
    BY HeadFacts DEF SourceInv, RunComplete, HeadIs, DepthEnded
  <1>2. /\ e \in Entries /\ e.of = {} /\ e.file = 0 /\ e.end = queue[1].id
    BY <1>1, HeadFacts, SourceAssumption DEF SourceInv, Entries
  <1> HIDE DEF e
  <1>3. /\ queue \in Seq(Items) /\ queue' \in Seq(Items) /\ sources \in Nat /\ order \in Seq(Entries)
        /\ Good(queue, Nothing, sources, leaked, order) /\ InOrder(order) /\ 1 \in DOMAIN queue
    BY <1>1, State, HeadFacts DEF SourceInv
  <1>4. Good(queue', Nothing, sources, leaked, order') /\ InOrder(order')
    BY <1>1, <1>2, <1>3, Ran
  <1>5. Counted(queue', reading', leaked') = c \ {queue[1].id} /\ queue[1].id \in c
    <2>1. leaked = leaked \cup (IF reading = Nothing THEN {} ELSE {reading.id})
      BY <1>1
    <2>2. EndIds(queue') = EndIds(queue) \ {queue[1].id}
      BY <1>1, <1>3, <2>1, Popped
    <2>3. queue[1].id \notin leaked /\ queue[1].id \in EndIds(queue)
      BY <1>1, <1>3 DEF Good, Identified, Numbered, EndIds
    <2> QED BY <1>1, <2>2, <2>3 DEF Counted
  <1>6. depth' = Cardinality(Counted(queue', reading', leaked')) /\ depth' \in Nat
    <2>1. IsFiniteSet(c) /\ Cardinality(c) = depth
      BY CountedFinite DEF SourceInv
    <2>2. /\ IsFiniteSet(c \ {queue[1].id}) /\ Cardinality(c \ {queue[1].id}) = depth - 1
      BY <1>5, <2>1, FS_RemoveElement
    <2> QED BY <1>1, <1>5, <2>2, FS_CardinalityType
  <1>7. RunsInOrder'
    BY <1>4 DEF RunsInOrder, InOrder
  <1>8. order' \in Seq(Entries)
    BY <1>1, <1>2, <1>3
  <1>9. SourceTypeOK'
    BY <1>1, <1>3, <1>6, <1>8 DEF SourceInv, SourceTypeOK, Entries
  <1> QED BY <1>1, <1>4, <1>6, <1>7, <1>9 DEF SourceInv, FilesLeft

LEMMA SubmitInv == SourceInv /\ Submit => SourceInv'
  <1> SUFFICES ASSUME SourceInv, Submit PROVE SourceInv'
    OBVIOUS
  <1> DEFINE c == Item("source", sources + 1, {}, 0)
  <1>1. /\ queue' = Append(queue, c) /\ sources' = sources + 1 /\ sources < MaxSources
        /\ UNCHANGED <<depth, cfgFinished, reading, leaked, order>>
    BY DEF Submit
  <1>2. queue \in Seq(Items) /\ sources \in Nat
    BY DEF SourceInv, SourceTypeOK
  <1>3. c \in Items /\ c.kind = "source" /\ c.id = sources + 1 /\ c.within = {}
    BY <1>1, <1>2, SourceAssumption DEF Item, Items
  <1> HIDE DEF c
  <1>4. /\ Good(Append(queue, c), reading, sources + 1, leaked, order)
        /\ Counted(Append(queue, c), reading, leaked) = Counted(queue, reading, leaked)
    <2>1. Good(queue, reading, sources, leaked, order)
      BY DEF SourceInv
    <2>2. c.id = sources + 1 /\ c.kind = "source" /\ c.within = {}
      BY <1>3
    <2>3. \A r, l, o : Good(queue, r, sources, l, o) =>
            /\ Good(Append(queue, c), r, sources + 1, l, o)
            /\ Counted(Append(queue, c), r, l) = Counted(queue, r, l)
      BY <1>2, <1>3, Submitted
    <2> QED BY <2>1, <2>3
  <1>5. /\ Good(queue', reading', sources', leaked', order')
        /\ Counted(queue', reading', leaked') = Counted(queue, reading, leaked)
    BY <1>1, <1>4
  <1>6. queue' \in Seq(Items) /\ sources' \in 0 .. MaxSources
    BY <1>1, <1>2, <1>3, SourceAssumption
  <1>7. SourceTypeOK'
    BY <1>1, <1>6 DEF SourceInv, SourceTypeOK
  <1>8. RunsInOrder'
    BY <1>1 DEF SourceInv, RunsInOrder
  <1> QED BY <1>1, <1>5, <1>7, <1>8 DEF SourceInv, FilesLeft

LEMMA FileReadInv ==
  ASSUME SourceInv, NEW nested \in 0 .. MaxLines, NEW plain \in 0 .. MaxLines, FileRead(nested, plain)
  PROVE  SourceInv'
  <1> DEFINE w == queue[1].within \cup {reading.id}
             f == reading.file
             new == Commands(nested, plain, w, f)
             t == InsertAfter(queue, reading.after, new)
             c == Counted(queue, reading, leaked)
             next == NextFile(reading, Len(new))
             u == sources + nested
  <1>1. /\ SourceTypeOK /\ Good(queue, reading, sources, leaked, order) /\ RunsInOrder
        /\ depth = Cardinality(c) /\ FilesLeft(reading)
    BY DEF SourceInv
  <1>2. /\ queue \in Seq(Items) /\ sources \in Nat /\ sources <= MaxSources /\ cfgFinished \in BOOLEAN
        /\ reading # Nothing /\ reading.id \in 0 .. MaxSources
        /\ reading \in [id : 0 .. MaxSources, left : 0 .. MaxFiles, after : Nat, file : 0 .. MaxFiles]
    BY <1>1, SourceAssumption DEF SourceTypeOK, FileRead
  <1>3. /\ reading.after \in 1 .. Len(queue) /\ queue # <<>> /\ 1 \in DOMAIN queue
        /\ queue[1].id = reading.id /\ Head(queue) = queue[1]
    BY <1>1, <1>2 DEF Good, Reads
  <1>4. /\ queue[1].within \subseteq 1 .. MaxSources /\ reading.id \in 1 .. sources
        /\ reading.file \in 0 .. MaxFiles
    <2>1. reading.id \in 1 .. sources
      BY <1>1, <1>2, <1>3 DEF Good, Reads, Identified, Numbered
    <2> QED BY <1>1, <1>2, <1>3, <2>1, HeadFacts
  <1>5. /\ sources + nested <= MaxSources /\ sources' = sources + nested
        /\ UNCHANGED <<depth, cfgFinished, order>>
        /\ reading.left > 1 => /\ queue' = t /\ leaked' = leaked
                               /\ reading' = [reading EXCEPT !.left = @ - 1,
                                                 !.after = reading.after + Len(new), !.file = @ + 1]
        /\ ~(reading.left > 1) =>
             /\ queue' = Tail(InsertAfter(t, reading.after + Len(new), Callback(queue[1].id, queue[1].within)))
             /\ reading' = Nothing /\ leaked' = Leak(queue[1].id)
    BY <1>3 DEF FileRead, NextAfter, Commands
  <1>6. IsFile(new, w, f, sources, u)
    <2>1. w \in SUBSET (1 .. MaxSources) /\ f \in 0 .. MaxFiles /\ nested \in Nat /\ plain \in Nat
      BY <1>2, <1>4, SourceAssumption
    <2> HIDE DEF w, f
    <2> QED BY <1>2, <1>5, <2>1, FileLines
  <1> HIDE DEF new
  <1>7. t \in Seq(Items) /\ IsInsertion(queue, reading.after, new, t)
    <2>1. reading.after \in 0 .. Len(queue)
      BY <1>3
    <2> QED BY <1>2, <1>6, <2>1, Insertion DEF IsFile
  <1> HIDE DEF t
  <1>8. /\ next.id = reading.id /\ next.after = reading.after + Len(new)
        /\ next.file = reading.file + 1 /\ next.left = reading.left - 1 /\ next # Nothing
    BY <1>4 DEF Nothing, NextFile
  <1>9. Len(new) \in Nat /\ next.after \in Nat
    BY <1>2, <1>6, <1>8 DEF IsFile
  <1>10. t[1] = queue[1]
    BY <1>2, <1>3, <1>7, <1>9 DEF IsInsertion
  <1>17. reading.left > 1 => reading' = next
    BY <1>2, <1>5 DEF NextFile
  <1> HIDE DEF next
  <1>11. t # <<>> /\ Good(t, next, u, leaked, order) /\ Counted(t, next, leaked) = c
    <2>1. ReadFrom(new, queue, reading, sources, u)
      BY <1>6 DEF ReadFrom
    <2> HIDE DEF u, c
    <2>2. /\ t # <<>> /\ Good(t, NextFile(reading, Len(new)), u, leaked, order)
          /\ Counted(t, NextFile(reading, Len(new)), leaked) = Counted(queue, reading, leaked)
      BY <1>1, <1>2, <1>7, <2>1, Lines
    <2> QED BY <2>2 DEF next, c
  <1>18. u \in Nat /\ sources' = u /\ u <= MaxSources
    BY <1>2, <1>5
  <1> HIDE DEF u
  <1>12. /\ queue' \in Seq(Items) /\ leaked' \subseteq 1 .. MaxSources
         /\ Good(queue', reading', sources', leaked', order')
         /\ Counted(queue', reading', leaked') = c
    <2>1. CASE reading.left > 1
      BY <1>1, <1>5, <1>7, <1>11, <1>17, <1>18, <2>1 DEF SourceTypeOK
    <2>2. CASE ~(reading.left > 1)
      <3>1. queue' = QueueEnded(t, next)
        BY <1>3, <1>5, <1>8, <1>10, <2>2 DEF QueueEnded
      <3>2. leaked' = LeakedEnded(leaked, next)
        BY <1>3, <1>5, <1>8, <2>2 DEF Leak, LeakedEnded
      <3>3. next.id \in 0 .. MaxSources /\ next # Nothing
        BY <1>2, <1>8
      <3>5. /\ queue' \in Seq(Items) /\ Good(queue', Nothing, u, leaked', order)
            /\ Counted(queue', Nothing, leaked') = Counted(t, next, leaked)
        BY <1>2, <1>7, <1>11, <1>18, <3>1, <3>2, <3>3, Finishing
      <3>6. leaked' \subseteq 1 .. MaxSources
        <4>1. leaked' \subseteq 1 .. u
          BY <3>5 DEF Good, Identified
        <4> QED BY <1>18, <4>1, SourceAssumption
      <3> QED BY <1>5, <1>11, <1>18, <2>2, <3>5, <3>6
    <2> QED BY <2>1, <2>2
  <1>13. reading' \in [id : 0 .. MaxSources, left : 0 .. MaxFiles, after : Nat, file : 0 .. MaxFiles]
         /\ FilesLeft(reading')
    <2>1. CASE reading.left > 1
      <3>1. reading.file + reading.left <= MaxFiles + 1 /\ reading.left \in 0 .. MaxFiles /\ reading.file \in 0 .. MaxFiles
        BY <1>1, <1>2 DEF FilesLeft
      <3>2. /\ reading.left - 1 \in 0 .. MaxFiles /\ reading.file + 1 \in 0 .. MaxFiles
            /\ (reading.file + 1) + (reading.left - 1) <= MaxFiles + 1 /\ reading.left - 1 >= 1
        BY <2>1, <3>1, SourceAssumption
      <3>3. next \in [id : 0 .. MaxSources, left : 0 .. MaxFiles, after : Nat, file : 0 .. MaxFiles]
        BY <1>2, <1>9, <3>2 DEF next, NextFile
      <3> QED BY <1>8, <1>17, <2>1, <3>2, <3>3 DEF FilesLeft
    <2>2. CASE ~(reading.left > 1)
      BY <1>5, <2>2, SourceAssumption DEF Nothing, FilesLeft
    <2> QED BY <2>1, <2>2
  <1>14. SourceTypeOK'
    <2>1. sources' \in 0 .. MaxSources
      BY <1>18, SourceAssumption
    <2> QED BY <1>1, <1>5, <1>12, <1>13, <2>1 DEF SourceTypeOK
  <1>15. RunsInOrder'
    BY <1>1, <1>5 DEF RunsInOrder
  <1>16. depth' = Cardinality(Counted(queue', reading', leaked'))
    BY <1>1, <1>5, <1>12
  <1> QED BY <1>12, <1>13, <1>14, <1>15, <1>16 DEF SourceInv

LEMMA SourcePreserved == SourceInv /\ [SourceNext]_sourceVars => SourceInv'
  <1> SUFFICES ASSUME SourceInv, [SourceNext]_sourceVars PROVE SourceInv'
    OBVIOUS
  <1>1. CASE \E n \in 0 .. MaxFiles : Exec(n)
    BY <1>1, ExecInv
  <1>2. CASE Refuse
    BY <1>2, RefuseInv
  <1>3. CASE \E nested, plain \in 0 .. MaxLines :
               nested + plain <= MaxLines /\ FileRead(nested, plain)
    BY <1>3, FileReadInv
  <1>4. CASE RunPlain
    BY <1>4, RunPlainInv
  <1>5. CASE RunComplete
    BY <1>5, RunCompleteInv
  <1>6. CASE CfgDone
    BY <1>6, CfgDoneInv
  <1>7. CASE Submit
    BY <1>7, SubmitInv
  <1>8. CASE UNCHANGED sourceVars
    BY <1>8 DEF sourceVars, SourceInv, SourceTypeOK, RunsInOrder
  <1> QED BY <1>1, <1>2, <1>3, <1>4, <1>5, <1>6, <1>7, <1>8 DEF SourceNext
-----------------------------------------------------------------------------
(* From the set that is counted to the numbers the properties are about.   *)
LEMMA CountedIsExact == SourceInv => DepthExact
  <1> SUFFICES ASSUME SourceInv PROVE DepthExact
    OBVIOUS
  <1> DEFINE e == EndIds(queue)
             h == IF reading = Nothing THEN {} ELSE {reading.id}
             c == Counted(queue, reading, leaked)
  <1>1. Identified(queue, sources, leaked, order) /\ Reads(queue, reading)
    BY DEF SourceInv, Good
  <1>2. /\ IsFiniteSet(c) /\ depth = Cardinality(c) /\ c = (e \cup leaked) \cup h
    BY CountedFinite DEF SourceInv, Counted
  <1>3. IsFiniteSet(e) /\ IsFiniteSet(leaked) /\ IsFiniteSet(h) /\ IsFiniteSet(e \cup leaked)
    BY <1>2, FS_Subset
  <1>4. e \cap leaked = {}
    BY <1>1 DEF Identified, Numbered, EndIds
  <1>5. (e \cup leaked) \cap h = {}
    <2>1. CASE reading # Nothing
      <3>1. 1 \in DOMAIN queue /\ queue[1].kind = "source" /\ queue[1].id = reading.id
        BY <1>1, <2>1 DEF Reads, SourceInv, SourceTypeOK
      <3>2. reading.id \notin leaked /\ reading.id \notin e
        BY <1>1, <3>1 DEF Identified, Numbered, EndIds
      <3> QED BY <3>2
    <2>2. CASE reading = Nothing
      BY <2>2
    <2> QED BY <2>1, <2>2
  <1>6. Cardinality(h) = IF reading = Nothing THEN 0 ELSE 1
    BY FS_EmptySet, FS_Singleton
  <1>7. Cardinality(Ends) = Cardinality(e)
    <2> DEFINE f == [i \in Ends |-> queue[i].id]
    <2>1. \A i, j \in Ends : queue[i].id = queue[j].id => i = j
      BY <1>1 DEF Identified, Numbered, Ends
    <2>2. e = {queue[i].id : i \in Ends}
      BY DEF EndIds, Ends
    <2>3. f \in Bijection(Ends, e)
      <3>1. f \in [Ends -> e] /\ \A i \in Ends : f[i] = queue[i].id
        BY <2>2
      <3>2. \A x \in e : \E i \in Ends : f[i] = x
        BY <2>2, <3>1
      <3> HIDE DEF f, e
      <3> QED BY <2>1, <3>1, <3>2 DEF Bijection, Injection, Surjection, IsInjective
    <2>4. IsFiniteSet(Ends)
      <3>1. Ends \subseteq 1 .. Len(queue) /\ Len(queue) \in Int
        <4>1. queue \in Seq(Items)
          BY DEF SourceInv, SourceTypeOK
        <4>2. DOMAIN queue = 1 .. Len(queue) /\ Len(queue) \in Int
          BY <4>1
        <4> QED BY <4>2 DEF Ends
      <3>2. IsFiniteSet(1 .. Len(queue))
        BY <3>1, FS_Interval
      <3> QED BY <3>1, <3>2, FS_Subset
    <2> QED BY <2>3, <2>4, FS_Bijection DEF ExistsBijection
  <1> HIDE DEF e, h, c
  <1>8. Cardinality(e \cup leaked) = Cardinality(e) + Cardinality(leaked)
    BY <1>3, <1>4, FS_Union, FS_EmptySet, FS_CardinalityType
  <1>9. Cardinality(c) = Cardinality(e \cup leaked) + Cardinality(h)
    <2>1. Cardinality((e \cup leaked) \cup h)
            = Cardinality(e \cup leaked) + Cardinality(h) - Cardinality((e \cup leaked) \cap h)
      BY <1>3, FS_Union
    <2>2. Cardinality(e \cup leaked) \in Nat /\ Cardinality(h) \in Nat
      BY <1>3, FS_CardinalityType
    <2> QED BY <1>2, <1>5, <2>1, <2>2, FS_EmptySet
  <1>10. Cardinality(e) \in Nat /\ Cardinality(leaked) \in Nat /\ Cardinality(h) \in Nat
    BY <1>3, FS_CardinalityType
  <1>11. depth = Cardinality(Ends) + Cardinality(h) + Cardinality(leaked)
    BY <1>2, <1>7, <1>8, <1>9, <1>10
  <1> QED BY <1>6, <1>11 DEF DepthExact

LEMMA CountedCoversNesting == SourceInv => DepthCoversNesting
  <1> SUFFICES ASSUME SourceInv, NEW i \in DOMAIN queue PROVE Cardinality(queue[i].within) <= depth
    BY DEF DepthCoversNesting
  <1> DEFINE c == Counted(queue, reading, leaked)
  <1>1. IsFiniteSet(c) /\ depth = Cardinality(c)
    BY CountedFinite DEF SourceInv
  <1>2. queue[i].within \subseteq c
    BY DEF SourceInv, Good, Enclosed, Counted, EndIds
  <1> QED BY <1>1, <1>2, FS_Subset

LEMMA Invariant == SourceSpec => []SourceInv
  <1> QED BY SourceBase, SourcePreserved, PTL DEF SourceSpec

(* The counter of cmd-source-file.c is exactly the number of source-file   *)
(* commands in progress and of those that ended while the configuration    *)
(* was loading, and no command is nested deeper than it says: however many *)
(* files, lines and commands there are, a file that sources itself stops.  *)
THEOREM DepthIsSound == SourceSpec => []DepthSound
  <1>1. SourceInv => DepthSound
    BY CountedIsExact, CountedCoversNesting DEF DepthSound, SourceInv
  <1> QED BY <1>1, Invariant, PTL

(* Whatever is inserted behind a source-file command while it waits, its   *)
(* files run in the order they were named and its end, where a client that *)
(* waits is answered, comes after all that came from them.                 *)
THEOREM FilesRunInOrder == SourceSpec => []RunsInOrder
  <1>1. SourceInv => RunsInOrder
    BY DEF SourceInv
  <1> QED BY <1>1, Invariant, PTL
=============================================================================
