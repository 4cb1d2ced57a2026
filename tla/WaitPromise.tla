---------------------------- MODULE WaitPromise ----------------------------
(***************************************************************************)
(* What wait-for promises the clients that use it (tmux.1, wait-for): the  *)
(* abstract specification that WaitFor implements.  There are no channel   *)
(* objects and no lists, only what each queue is blocked on, if anything.  *)
(***************************************************************************)
CONSTANTS Clients, Global, Channels, Events

VARIABLES blocked,    \* per queue, the one thing it waits for, if any
          taken,      \* locked channels
          pending     \* channels with a signal nobody has waited for yet

Queues == Clients \cup {Global}
Reasons == ({"signal", "lock"} \X Channels) \cup ({"event"} \X Events)
BlockedFor(r) == {q \in Queues : r \in blocked[q]}

Init == blocked = [q \in Queues |-> {}] /\ taken = {} /\ pending = {}

(* Release queues, whatever they wait for.                                 *)
Release(Q) == blocked' = [q \in Queues |-> IF q \in Q THEN {} ELSE blocked[q]]

(* A queue that runs blocks for one reason; it does not wait for a signal  *)
(* that is pending, or for a lock that is free.                            *)
Block(q, r) ==
  /\ blocked[q] = {}
  /\ r[1] = "signal" => r[2] \notin pending
  /\ r[1] = "lock" => r[2] \in taken
  /\ blocked' = [blocked EXCEPT ![q] = {r}]
  /\ UNCHANGED <<taken, pending>>

(* A wait takes the pending signal, and so does a second signal that finds *)
(* no waiter either; on a locked channel the signal stays.                 *)
TakeSignal(ch) ==
  /\ ch \in pending \ taken
  /\ pending' = pending \ {ch}
  /\ UNCHANGED <<blocked, taken>>

(* A signal releases all who wait, or stays pending if nobody does.        *)
Signal(ch) ==
  \/ /\ BlockedFor(<<"signal", ch>>) # {}
     /\ Release(BlockedFor(<<"signal", ch>>))
     /\ UNCHANGED <<taken, pending>>
  \/ /\ BlockedFor(<<"signal", ch>>) = {}
     /\ pending' = pending \cup {ch}
     /\ UNCHANGED <<blocked, taken>>

TakeLock(ch) ==
  /\ ch \notin taken
  /\ taken' = taken \cup {ch}
  /\ UNCHANGED <<blocked, pending>>

(* An unlock lets one locker in, and frees the lock only if none waits; a  *)
(* pending signal does not outlive the lock.                               *)
Unlock(ch) ==
  /\ ch \in taken
  /\ \/ /\ \E q \in BlockedFor(<<"lock", ch>>) : Release({q})
        /\ UNCHANGED <<taken, pending>>
     \/ /\ BlockedFor(<<"lock", ch>>) = {}
        /\ taken' = taken \ {ch}
        /\ pending' = pending \ {ch}
        /\ UNCHANGED blocked

(* An event, a wake by name or a lost client releases some queues and      *)
(* touches neither locks nor signals.                                      *)
ReleaseSome ==
  /\ \E Q \in SUBSET {q \in Queues : blocked[q] # {}} : Release(Q)
  /\ UNCHANGED <<taken, pending>>

(* The server is to exit: everything is let go.                            *)
ReleaseAll ==
  /\ Release(Queues)
  /\ taken' = {} /\ pending' = {}

Next ==
  \/ \E q \in Queues, r \in Reasons : Block(q, r)
  \/ \E ch \in Channels :
       TakeSignal(ch) \/ Signal(ch) \/ TakeLock(ch) \/ Unlock(ch)
  \/ ReleaseSome
  \/ ReleaseAll

Spec == Init /\ [][Next]_<<blocked, taken, pending>>
=============================================================================
