------------------------------- MODULE Config -------------------------------
(***************************************************************************)
(* Loading the configuration when the server starts (cfg.c and the end of  *)
(* server_client_dispatch_identify).  The files are loaded by commands in  *)
(* the global queue; the client that started the server is blocked by a    *)
(* callback in front of its own commands until they have run.  A command   *)
(* of the files may itself run tmux and wait for it: such a client is      *)
(* nested, and the files are not done before its command is.               *)
(***************************************************************************)
EXTENDS Naturals, Sequences

CONSTANTS Clients, NoClient,
          Nested,       \* clients that commands of the files run and wait for
          Losable       \* clients that may be lost

ASSUME ConfigAssumption ==
  NoClient \notin Clients /\ Nested \subseteq Clients /\ Losable \subseteq Clients

VARIABLES
  clients,      \* the clients list, in order of connection
  identified,   \* CLIENT_IDENTIFIED
  exiting,      \* refused when accepted: CLIENT_EXIT
  lost,
  cfgClient,    \* cfg_client
  cfgItem,      \* the client whose queue holds cfg_item, NoClient for NULL
  started,      \* cfg_started
  finished,     \* cfg_finished
  item,         \* per client, its cfg_client_done callback
  command,      \* per client, its command
  \* history
  loads,        \* times the files were put on the global queue
  blocked,      \* clients that start_cfg was called for
  early         \* clients whose command ran before the files were loaded

cfgVars == <<cfgClient, cfgItem, started, finished>>
vars == <<clients, identified, exiting, lost, cfgVars, item, command, loads,
          blocked, early>>

Live == {clients[i] : i \in DOMAIN clients}

Init ==
  /\ clients = <<>> /\ identified = {} /\ exiting = {} /\ lost = {}
  /\ cfgClient = NoClient /\ cfgItem = NoClient
  /\ started = FALSE /\ finished = FALSE
  /\ item = [c \in Clients |-> "none"]
  /\ command = [c \in Clients |-> "none"]
  /\ loads = 0 /\ blocked = {} /\ early = {}
-----------------------------------------------------------------------------
(* Definitions named X_slip are X as a plausible mistake would have it: no  *)
(* specification uses them, they show that a property notices the mistake. *)

(* server_client_create for the initial client and in server_accept, where *)
(* the access list may refuse the client.  Nested clients come when the    *)
(* files run them.                                                         *)
Connect(c, refused) ==
  /\ c \notin Live \cup lost
  /\ c \in Nested => started /\ ~finished /\ ~refused
  /\ clients' = Append(clients, c)
  /\ exiting' = IF refused THEN exiting \cup {c} ELSE exiting
  /\ UNCHANGED <<identified, lost, cfgVars, item, command, loads, blocked, early>>

(* Only the first client of the list starts or waits for the files.        *)
Starts_slip(c) == ~finished /\ c \notin exiting
Starts(c) == ~finished /\ c \notin exiting /\ c = Head(clients)

(* start_cfg does not load the files twice.                                *)
Loads_slip(c) == Starts(c)
Loads(c) == Starts(c) /\ ~started

(* server_client_dispatch_identify, with start_cfg.                        *)
Identify(c) ==
  /\ c \in Live \ identified
  /\ identified' = identified \cup {c}
  /\ IF Starts(c)
     THEN /\ cfgClient' = c /\ cfgItem' = c
          /\ item' = [item EXCEPT ![c] = "queued"]
          /\ blocked' = blocked \cup {c}
     ELSE UNCHANGED <<cfgClient, cfgItem, item, blocked>>
  /\ started' = (started \/ Loads(c))
  /\ loads' = IF Loads(c) THEN loads + 1 ELSE loads
  /\ UNCHANGED <<clients, exiting, lost, finished, command, early>>

(* MSG_COMMAND: the command is behind the callback.                        *)
SendCommand(c) ==
  /\ c \in (Live \cap identified) \ exiting /\ command[c] = "none"
  /\ command' = [command EXCEPT ![c] = "queued"]
  /\ UNCHANGED <<clients, identified, exiting, lost, cfgVars, item, loads, blocked, early>>

(* cfg_client_done, fired once, and its removal when it is continued.      *)
RunItem(c) ==
  /\ c \in Live \cap identified
  /\ \/ /\ item[c] = "queued"
        /\ item' = [item EXCEPT ![c] = IF finished THEN "done" ELSE "waiting"]
     \/ /\ item[c] = "continued"
        /\ item' = [item EXCEPT ![c] = "done"]
  /\ UNCHANGED <<clients, identified, exiting, lost, cfgVars, command, loads,
                 blocked, early>>

RunCommand(c) ==
  /\ c \in Live \cap identified
  /\ item[c] \in {"none", "done"} /\ command[c] = "queued"
  /\ command' = [command EXCEPT ![c] = "ran"]
  /\ early' = IF finished THEN early ELSE early \cup {c}
  /\ UNCHANGED <<clients, identified, exiting, lost, cfgVars, item, loads, blocked>>

(* cmdq_continue of cfg_item, and cfg_item = NULL.                         *)
ContinueItem ==
  /\ cfgItem' = NoClient
  /\ item' = [c \in Clients |->
       IF c = cfgItem /\ item[c] = "waiting" THEN "continued" ELSE item[c]]

(* cfg_done, behind the commands of the files in the global queue.         *)
Finish ==
  /\ started /\ ~finished
  /\ \A c \in Nested : command[c] = "ran" \/ c \in lost
  /\ finished' = TRUE
  /\ ContinueItem
  /\ UNCHANGED <<clients, identified, exiting, lost, cfgClient, started,
                 command, loads, blocked, early>>

(* server_client_lost: cfg_client_lost continues cfg_item, and cmdq_next   *)
(* drains the queue up to an item that waits.  A callback that is fired    *)
(* for a dead client does not wait.                                        *)
Lets(c) == c = cfgClient
Position(c) == CHOOSE i \in DOMAIN clients : clients[i] = c
Removed(c) ==
  [j \in 1 .. Len(clients) - 1 |-> clients[IF j < Position(c) THEN j ELSE j + 1]]
ClientLost(c) ==
  /\ c \in Live \cap Losable
  /\ clients' = Removed(c)
  /\ lost' = lost \cup {c}
  /\ cfgClient' = IF Lets(c) THEN NoClient ELSE cfgClient
  /\ cfgItem' = IF Lets(c) THEN NoClient ELSE cfgItem
  /\ LET continued == [d \in Clients |->
           IF Lets(c) /\ d = cfgItem /\ item[d] = "waiting" THEN "continued" ELSE item[d]]
     IN  item' = [continued EXCEPT ![c] = IF @ \in {"queued", "continued"} THEN "done" ELSE @]
  /\ command' = [command EXCEPT ![c] = IF @ = "queued" THEN "none" ELSE @]
  /\ UNCHANGED <<identified, exiting, started, finished, loads, blocked, early>>
-----------------------------------------------------------------------------
Next ==
  \/ Finish
  \/ \E c \in Clients, refused \in BOOLEAN : Connect(c, refused)
  \/ \E c \in Clients : Identify(c)
  \/ \E c \in Clients : SendCommand(c)
  \/ \E c \in Clients : RunItem(c)
  \/ \E c \in Clients : RunCommand(c)
  \/ \E c \in Clients : ClientLost(c)

Spec == Init /\ [][Next]_vars

(* The server loop runs what a queue holds; a client that has connected    *)
(* identifies and sends its command; the files run their nested clients.   *)
FairSpec ==
  /\ Spec
  /\ WF_vars(Finish)
  /\ \A c \in Clients :
       /\ WF_vars(Identify(c)) /\ WF_vars(SendCommand(c))
       /\ WF_vars(RunItem(c)) /\ WF_vars(RunCommand(c))
  /\ \A c \in Nested : WF_vars(Connect(c, FALSE))
-----------------------------------------------------------------------------
TypeOK ==
  /\ clients \in Seq(Clients)
  /\ \A i, j \in DOMAIN clients : clients[i] = clients[j] => i = j
  /\ identified \subseteq Live \cup lost /\ exiting \subseteq Live \cup lost
  /\ lost \subseteq Clients /\ Live \cap lost = {}
  /\ {cfgClient, cfgItem} \subseteq Clients \cup {NoClient}
  /\ started \in BOOLEAN /\ finished \in BOOLEAN
  /\ item \in [Clients -> {"none", "queued", "waiting", "continued", "done"}]
  /\ command \in [Clients -> {"none", "queued", "ran"}]

(* The files are loaded once (regress/cfg-load-once.sh).                   *)
LoadedOnce == loads <= 1

(* A blocked client's command runs after the files are loaded (cfg.c:92).  *)
BlockedUntilLoaded == blocked \cap early = {}

(* cfg_item is NULL or an item that is still in its client's queue, and    *)
(* whatever waits is what cfg_done will continue.                          *)
WaiterIsCfgItem ==
  /\ cfgItem # NoClient => cfgItem \in Live /\ item[cfgItem] \in {"queued", "waiting"}
  /\ \A c \in Clients : item[c] = "waiting" => cfgItem = c

(* A lost client is not kept by its callback (regress/cfg-client-free.sh). *)
LostNotBlocked == \A c \in lost : item[c] \in {"none", "done"}

(* The configuration is loaded once, and before what was blocked for it;   *)
(* and the loss of a client at any moment leaves neither an item that      *)
(* waits for ever nor a pointer to one that is freed.                      *)
LoadingSound ==
  TypeOK /\ LoadedOnce /\ BlockedUntilLoaded /\ WaiterIsCfgItem /\ LostNotBlocked

(* Once started, the files are loaded, though they wait for clients that   *)
(* they run: while the initial client stays, no such client is blocked.    *)
LoadingEnds == started ~> finished \/ blocked \cap lost # {}
=============================================================================
