------------------------------ MODULE WaitFor ------------------------------
(***************************************************************************)
(* The wait-for command of the tmux server (cmd-wait-for.c).               *)
(*                                                                         *)
(* A command queue stops at an item that has CMDQ_WAITING set, so at most  *)
(* one item of a queue waits, its first, and this module names a waiting   *)
(* item by its queue: a client's queue by the client, the global queue     *)
(* (configuration files and hooks) by Global.  wait-for keeps the waiting  *)
(* items on lists: the waiters and the lockers of a channel, and the event *)
(* waiters.  The flag and the lists are separate state in the program and  *)
(* are separate variables here: what can go wrong is that they disagree.   *)
(***************************************************************************)
EXTENDS Naturals, Sequences

CONSTANTS Clients,      \* clients, each with a command queue of its own
          Global,       \* the global command queue
          NoClient,     \* the client of an item that has none
          Channels,     \* channel names
          Events        \* event names of wait-for -E

ASSUME QueueAssumption == Global \notin Clients /\ NoClient \notin Clients

Queues == Clients \cup {Global}

VARIABLES
  live,         \* clients on the clients list, not CLIENT_DEAD
  attached,     \* those of them with a session
  waiting,      \* queues whose first item has CMDQ_WAITING set
  owner,        \* item->client of the global queue's item that last waited
  channels,     \* names in the wait_channels tree
  locked,       \* wc->locked
  woken,        \* wc->woken
  waiters,      \* wc->waiters, as a set: its order decides nothing
  lockers,      \* wc->lockers, oldest first
  listening,    \* wait_event_items: the queues waiting for each event
  filtered,     \* the event waiters that gave a filter with -F
  keep          \* server_loop returns early: a session is left, or the
                \* exit-empty and exit-unattached options say to stay

vars == <<live, attached, waiting, owner, channels, locked, woken, waiters, lockers,
          listening, filtered, keep>>
channelVars == <<channels, locked, woken, waiters, lockers>>
eventVars   == <<listening, filtered>>
serverVars  == <<live, attached, keep>>
clientVars  == <<serverVars, owner>>

Init ==
  /\ live = {} /\ attached = {} /\ keep = FALSE
  /\ waiting = {} /\ owner = NoClient
  /\ channels = {}
  /\ locked  = [ch \in Channels |-> FALSE]
  /\ woken   = [ch \in Channels |-> FALSE]
  /\ waiters = [ch \in Channels |-> {}]
  /\ lockers = [ch \in Channels |-> <<>>]
  /\ listening = [e \in Events |-> {}]
  /\ filtered  = {}
-----------------------------------------------------------------------------
(* Definitions named X_slip are X as a plausible mistake would have it: no  *)
(* specification uses them, they show that a property notices the mistake. *)

(* A queue can run its next command: its first item is not waiting, and    *)
(* cmdq_fire_command fails every command of a dead client.                 *)
CanRun(q) == q \in live \cup {Global} /\ q \notin waiting

(* cmdq_get_client: the client of the item that waits in q.                *)
ClientOf(q) == IF q = Global THEN owner ELSE q

(* A command waits only if its item has a client.  An item of the global   *)
(* queue has none, and borrows an attached one while its command runs, or  *)
(* it was inserted by a command that had borrowed one and keeps that one.  *)
Owners == live \cup {NoClient : c \in attached}
Waits(q) ==
  /\ waiting' = waiting \cup {q}
  /\ owner' \in IF q = Global THEN Owners ELSE {owner}
HasClient(q) == q # Global \/ Owners # {}

(* The members of a list, and TAILQ_REMOVE of an entry that is on it once. *)
Members(s) == {s[i] : i \in DOMAIN s}
Position(s, q) == CHOOSE i \in DOMAIN s : s[i] = q
Without_slip(s, q) == s
Without(s, q) ==
  IF q \in Members(s)
  THEN [j \in 1 .. Len(s) - 1 |-> IF j < Position(s, q) THEN s[j] ELSE s[j + 1]]
  ELSE s

(* TAILQ_INSERT_TAIL                                                       *)
InsertTail_slip(s, q) == <<q>> \o s
InsertTail(s, q) == Append(s, q)

(* cmd_wait_for_remove drops a channel whose pending signal is used up; it *)
(* does not look at the lockers.                                           *)
Spent(lkd, wkn, wtrs) == ~lkd /\ wkn /\ wtrs = {}

(* cmd_wait_for_remove_empty drops a channel with no use left.             *)
Unused(lkd, wkn, wtrs, lkrs) == ~lkd /\ ~wkn /\ wtrs = {} /\ lkrs = <<>>
-----------------------------------------------------------------------------
(* wait-for name: take the pending signal or join the waiters.             *)
Wait(q, ch) ==
  /\ CanRun(q) /\ HasClient(q)
  /\ IF woken[ch]
     THEN /\ UNCHANGED <<waiting, owner, waiters>>
          /\ LET spent == Spent(locked[ch], TRUE, waiters[ch])
             IN  /\ channels' = IF spent THEN channels \ {ch} ELSE channels
                 /\ woken' = [woken EXCEPT ![ch] = ~spent]
     ELSE /\ Waits(q)
          /\ waiters' = [waiters EXCEPT ![ch] = @ \cup {q}]
          /\ channels' = channels \cup {ch}
          /\ woken' = woken
  /\ UNCHANGED <<locked, lockers, eventVars, serverVars>>

(* A signal nobody waits for stays pending.                                *)
StaysPending_slip(ch) == ~woken[ch]
StaysPending(ch) == waiters[ch] = {} /\ ~woken[ch]

(* wait-for -S name: wake the waiters, or leave a pending signal.          *)
Signal(q, ch) ==
  /\ CanRun(q)
  /\ IF StaysPending(ch)
     THEN /\ woken' = [woken EXCEPT ![ch] = TRUE]
          /\ channels' = channels \cup {ch}
          /\ UNCHANGED <<waiting, waiters>>
     ELSE LET spent == Spent(locked[ch], woken[ch], {})
          IN  /\ waiting' = waiting \ waiters[ch]
              /\ waiters' = [waiters EXCEPT ![ch] = {}]
              /\ channels' = IF spent THEN channels \ {ch} ELSE channels
              /\ woken' = [woken EXCEPT ![ch] = @ /\ ~spent]
  /\ UNCHANGED <<locked, lockers, eventVars, clientVars>>

(* wait-for -L name: take the lock or join the end of the lockers.         *)
Lock(q, ch) ==
  /\ CanRun(q) /\ HasClient(q)
  /\ channels' = channels \cup {ch}
  /\ IF locked[ch]
     THEN /\ Waits(q)
          /\ lockers' = [lockers EXCEPT ![ch] = InsertTail(@, q)]
          /\ locked' = locked
     ELSE /\ locked' = [locked EXCEPT ![ch] = TRUE]
          /\ UNCHANGED <<waiting, owner, lockers>>
  /\ UNCHANGED <<woken, waiters, eventVars, serverVars>>

(* wait-for -U name: pass the lock to the first locker or release it.  The *)
(* program does not ask whether q took the lock.                           *)
Unlock_slip(q, ch) ==
  /\ CanRun(q)
  /\ locked[ch]
  /\ locked' = [locked EXCEPT ![ch] = FALSE]
  /\ IF lockers[ch] # <<>>
     THEN /\ waiting' = waiting \ {Head(lockers[ch])}
          /\ lockers' = [lockers EXCEPT ![ch] = Tail(@)]
     ELSE UNCHANGED <<waiting, lockers>>
  /\ UNCHANGED <<channels, woken, waiters, eventVars, clientVars>>
Unlock(q, ch) ==
  /\ CanRun(q)
  /\ locked[ch]
  /\ IF lockers[ch] # <<>>
     THEN /\ waiting' = waiting \ {Head(lockers[ch])}
          /\ lockers' = [lockers EXCEPT ![ch] = Tail(@)]
          /\ UNCHANGED <<channels, locked, woken>>
     ELSE LET spent == Spent(FALSE, woken[ch], waiters[ch])
          IN  /\ locked' = [locked EXCEPT ![ch] = FALSE]
              /\ channels' = IF spent THEN channels \ {ch} ELSE channels
              /\ woken' = [woken EXCEPT ![ch] = @ /\ ~spent]
              /\ UNCHANGED <<waiting, lockers>>
  /\ UNCHANGED <<waiters, eventVars, clientVars>>

(* wait-for -w name: the first item of a client of that name, among the    *)
(* waiters and then among the lockers.                                     *)
Found(ch, w) ==
  \/ w \in waiters[ch]
  \/ /\ w \in Members(lockers[ch])
     /\ \A v \in waiters[ch] : ClientOf(v) # ClientOf(w)
     /\ \A i \in 1 .. Position(lockers[ch], w) - 1 :
          ClientOf(lockers[ch][i]) # ClientOf(w)
Wake(q, ch, w) ==
  /\ CanRun(q)
  /\ Found(ch, w)
  /\ waiting' = waiting \ {w}
  /\ waiters' = [waiters EXCEPT ![ch] = @ \ {w}]
  /\ lockers' = [lockers EXCEPT ![ch] =
                   IF w \in waiters[ch] THEN @ ELSE Without(@, w)]
  /\ channels' = IF Unused(locked[ch], woken[ch], waiters'[ch], lockers'[ch])
                 THEN channels \ {ch} ELSE channels
  /\ UNCHANGED <<locked, woken, eventVars, clientVars>>

(* wait-for -E name, with or without a filter.                             *)
Listen(q, e) ==
  /\ CanRun(q) /\ HasClient(q)
  /\ Waits(q)
  /\ listening' = [listening EXCEPT ![e] = @ \cup {q}]
  /\ filtered' \in {filtered, filtered \cup {q}}
  /\ UNCHANGED <<channelVars, serverVars>>

(* wait-for -E -w w name.                                                  *)
WakeListener(q, e, w) ==
  /\ CanRun(q)
  /\ w \in listening[e]
  /\ waiting' = waiting \ {w}
  /\ listening' = [listening EXCEPT ![e] = @ \ {w}]
  /\ filtered' = filtered \ {w}
  /\ UNCHANGED <<channelVars, clientVars>>

(* An event fires: every sink's callback runs, those whose filter expands  *)
(* to true (pass) and those without a filter wake their item.              *)
FireEvent(e, pass) ==
  /\ LET woke == listening[e] \cap (pass \cup (Queues \ filtered))
     IN  /\ waiting' = waiting \ woke
         /\ listening' = [listening EXCEPT ![e] = @ \ woke]
         /\ filtered' = filtered \ woke
  /\ UNCHANGED <<channelVars, clientVars>>
-----------------------------------------------------------------------------
(* server_client_create, and a client taking or leaving a session.         *)
Connect(c) ==
  /\ c \in Clients \ live
  /\ live' = live \cup {c}
  /\ UNCHANGED <<attached, keep, waiting, owner, channelVars, eventVars>>

Attach_slip(c) ==
  /\ c \in Clients \ attached
  /\ attached' = attached \cup {c}
  /\ UNCHANGED <<live, keep, waiting, owner, channelVars, eventVars>>
Attach(c) ==
  /\ c \in live \ attached
  /\ attached' = attached \cup {c}
  /\ UNCHANGED <<live, keep, waiting, owner, channelVars, eventVars>>

Detach(c) ==
  /\ c \in attached
  /\ attached' = attached \ {c}
  /\ UNCHANGED <<live, keep, waiting, owner, channelVars, eventVars>>

(* cmd_wait_for_client_lost, called by server_client_lost: take the        *)
(* client's items off every list, its own and one it has in the global     *)
(* queue.  A lock the client took stays taken.                             *)
ItemsOf(c) == {q \in {c, Global} : ClientOf(q) = c}
ClientLost(c) ==
  /\ c \in live
  /\ live' = live \ {c}
  /\ attached' = attached \ {c}
  /\ waiting' = waiting \ ItemsOf(c)
  /\ listening' = [e \in Events |-> listening[e] \ ItemsOf(c)]
  /\ waiters' = [ch \in Channels |-> waiters[ch] \ ItemsOf(c)]
  /\ lockers' = [ch \in Channels |->
                   LET others == Without(lockers[ch], c)
                   IN  IF Global \in ItemsOf(c) THEN Without(others, Global) ELSE others]
  /\ channels' = {ch \in channels :
                    ~Unused(locked[ch], woken[ch], waiters'[ch], lockers'[ch])}
  /\ filtered' = filtered \ ItemsOf(c)
  /\ UNCHANGED <<locked, woken, keep, owner>>

(* The last session goes or the first is made, or an option changes.       *)
KeepChange ==
  /\ keep' = ~keep
  /\ UNCHANGED <<live, attached, waiting, owner, channelVars, eventVars>>

(* What server_loop asks before it flushes.                                *)
NothingToStayFor_slip == ~keep /\ live = {}
NothingToStayFor == ~keep /\ attached = {}

(* server_loop with nothing to stay for: cmd_wait_for_flush wakes all and  *)
(* leaves each channel unlocked and woken, so that it is removed.          *)
Flush ==
  /\ NothingToStayFor
  /\ waiting' = {}
  /\ listening' = [e \in Events |-> {}]
  /\ waiters' = [ch \in Channels |-> {}]
  /\ lockers' = [ch \in Channels |-> <<>>]
  /\ locked' = [ch \in Channels |-> FALSE]
  /\ woken' = [ch \in Channels |-> FALSE]
  /\ channels' = {}
  /\ filtered' = {}
  /\ UNCHANGED clientVars

Command(q) ==
  \/ \E ch \in Channels : Wait(q, ch)
  \/ \E ch \in Channels : Signal(q, ch)
  \/ \E ch \in Channels : Lock(q, ch)
  \/ \E ch \in Channels : Unlock(q, ch)
  \/ \E ch \in Channels, w \in Queues : Wake(q, ch, w)
  \/ \E e \in Events : Listen(q, e)
  \/ \E e \in Events, w \in Queues : WakeListener(q, e, w)

Next ==
  \/ \E q \in Queues : Command(q)
  \/ \E e \in Events, pass \in SUBSET Queues : FireEvent(e, pass)
  \/ \E c \in Clients : Connect(c)
  \/ \E c \in Clients : Attach(c)
  \/ \E c \in Clients : ClientLost(c)
  \/ \E c \in Clients : Detach(c)
  \/ KeepChange
  \/ Flush

Spec == Init /\ [][Next]_vars

(* server_loop runs after every turn of the event loop, and flushes each   *)
(* time it finds no reason to keep the server.                             *)
FairSpec == Spec /\ WF_vars(Flush)
-----------------------------------------------------------------------------
TypeOK ==
  /\ live \subseteq Clients
  /\ attached \subseteq live
  /\ waiting \subseteq Queues /\ owner \in Clients \cup {NoClient}
  /\ channels \subseteq Channels
  /\ locked \in [Channels -> BOOLEAN]
  /\ woken \in [Channels -> BOOLEAN]
  /\ waiters \in [Channels -> SUBSET Queues]
  /\ lockers \in [Channels -> Seq(Queues)]
  /\ listening \in [Events -> SUBSET Queues]
  /\ filtered \subseteq Queues
  /\ keep \in BOOLEAN

(* Every waiting item is on a list, so that something can still wake it,   *)
(* and every item on a list is waiting: cmdq_continue through a stale      *)
(* entry would be a use after free.                                        *)
WaitingIffListed ==
  \A q \in Queues :
    q \in waiting <=>
      \/ \E ch \in Channels : q \in waiters[ch]
      \/ \E ch \in Channels : q \in Members(lockers[ch])
      \/ \E e \in Events : q \in listening[e]

Distinct(s) == \A i, j \in DOMAIN s : s[i] = s[j] => i = j

(* An item is on one list, and once: the wake that takes it off a list is  *)
(* the only one that can reach it.                                         *)
ListedOnce ==
  /\ \A ch \in Channels : Distinct(lockers[ch])
  /\ \A ch, d \in Channels :
       /\ waiters[ch] \cap Members(lockers[d]) = {}
       /\ ch # d => waiters[ch] \cap waiters[d] = {}
       /\ ch # d => Members(lockers[ch]) \cap Members(lockers[d]) = {}
  /\ \A ch \in Channels, e \in Events :
       listening[e] \cap (waiters[ch] \cup Members(lockers[ch])) = {}
  /\ \A e, f \in Events : e # f => listening[e] \cap listening[f] = {}

(* Only a locked channel has lockers.  cmd_wait_for_remove relies on it:   *)
(* it frees a channel without a look at wc->lockers.                       *)
LockersNeedLock == \A ch \in Channels : lockers[ch] # <<>> => locked[ch]

(* A pending signal and waiters exclude each other: wait-for takes the     *)
(* signal, so no waiter sleeps through one.                                *)
SignalNotMissed == \A ch \in Channels : woken[ch] => waiters[ch] = {}

(* A channel that is not in the tree has been freed: no state and no list  *)
(* of it is left behind.                                                   *)
FreedChannelClean ==
  \A ch \in Channels \ channels :
    ~locked[ch] /\ ~woken[ch] /\ waiters[ch] = {} /\ lockers[ch] = <<>>

(* No item of a lost client waits (regress/wait-for-client-lost.sh).       *)
LostNeverWaits == \A q \in waiting : ClientOf(q) \in live \cup {NoClient}

(* Every item that waits can be woken, once, and is gone with its client.  *)
ItemsWakeable == WaitingIffListed /\ ListedOnce /\ LostNeverWaits

(* The fields of a channel agree, so that removing it loses nothing.       *)
ChannelsSound == LockersNeedLock /\ SignalNotMissed /\ FreedChannelClean

(* The lock passes only from its holder's unlock to the oldest locker; no  *)
(* locker overtakes another.                                               *)
LockersFIFO ==
  [][\A ch \in Channels : \A i, j \in DOMAIN lockers'[ch] : i < j =>
       \/ lockers'[ch][j] \notin Members(lockers[ch])
       \/ \E k, l \in DOMAIN lockers[ch] :
            k < l /\ lockers[ch][k] = lockers'[ch][i]
                  /\ lockers[ch][l] = lockers'[ch][j]]_vars

(* A server with nothing to stay for wakes every item again and again, so  *)
(* that its clients can leave (server.c:299-305).                          *)
FlushWakes ==
  <>[](~keep /\ attached = {}) => \A q \in Queues : []<>(q \notin waiting)

(* What each waiting queue waits for, and the promise the lists implement. *)
BlockedOn(q) ==
  {<<"signal", ch>> : ch \in {d \in Channels : q \in waiters[d]}}
    \cup {<<"lock", ch>> : ch \in {d \in Channels : q \in Members(lockers[d])}}
    \cup {<<"event", e>> : e \in {f \in Events : q \in listening[f]}}

Promise == INSTANCE WaitPromise WITH
  blocked <- [q \in Queues |-> BlockedOn(q)],
  taken   <- {ch \in Channels : locked[ch]},
  pending <- {ch \in Channels : woken[ch]}

(* The lists of waiting items, and the channels made and removed for them, *)
(* do what wait-for promises its users.                                    *)
ImplementsPromise == Promise!Spec
=============================================================================
