--------------------------- MODULE WaitForProofs ---------------------------
(***************************************************************************)
(* Proofs about WaitFor for any number of clients, channels and events.    *)
(*                                                                         *)
(* WaitingIffListed is not inductive by itself: an item leaves one list    *)
(* when it is woken, and it must be known to be on no other (ListedOnce);  *)
(* ListedOnce in turn needs that an item that is about to be listed runs,  *)
(* so that it is on no list yet, which is WaitingIffListed.  IInv is their *)
(* conjunction with what the channels themselves keep true.                *)
(*                                                                         *)
(* The event waiters are woken by a dispatch of events (Events), for any   *)
(* number of sinks, names and nested calls.  What a call still owes is     *)
(* exactly what lies ahead of it in the list, alive, of its name and no    *)
(* younger than it is (Coherent): so what it reaches it owes, and at the   *)
(* end of the list nothing is ahead.                                       *)
(***************************************************************************)
EXTENDS WaitFor, Events, TLAPS

ListsAgree == WaitingIffListed /\ ListedOnce
ChannelsAgree == LockersNeedLock /\ SignalNotMissed /\ FreedChannelClean
IInv == TypeOK /\ ListsAgree /\ ChannelsAgree /\ LostNeverWaits
-----------------------------------------------------------------------------
(* The three ways the program changes a list of lockers.                   *)

(* TAILQ_INSERT_TAIL of an item that is not on the list.                   *)
LEMMA InsertTailList ==
  ASSUME NEW S, NEW s \in Seq(S), NEW q \in S
  PROVE  /\ InsertTail(s, q) \in Seq(S)
         /\ InsertTail(s, q) # <<>>
         /\ Members(InsertTail(s, q)) = Members(s) \cup {q}
         /\ Distinct(s) /\ q \notin Members(s) => Distinct(InsertTail(s, q))
  <1> DEFINE t == InsertTail(s, q)
  <1>1. /\ t \in Seq(S) /\ Len(t) = Len(s) + 1 /\ t[Len(s) + 1] = q
        /\ \A i \in 1 .. Len(s) : t[i] = s[i]
    BY DEF InsertTail
  <1>2. DOMAIN s = 1 .. Len(s) /\ DOMAIN t = 1 .. Len(s) + 1 /\ Len(s) \in Nat
    BY <1>1
  <1>3. Members(t) = Members(s) \cup {q}
    BY <1>1, <1>2 DEF Members
  <1>4. Distinct(s) /\ q \notin Members(s) => Distinct(t)
    BY <1>1, <1>2 DEF Members, Distinct
  <1>5. t # <<>>
    BY <1>1, <1>2
  <1> QED BY <1>1, <1>3, <1>4, <1>5

(* TAILQ_REMOVE of the first item.                                         *)
LEMMA TailList ==
  ASSUME NEW S, NEW s \in Seq(S), s # <<>>, Distinct(s)
  PROVE  /\ Tail(s) \in Seq(S) /\ Head(s) \in S
         /\ Head(s) \in Members(s)
         /\ Members(Tail(s)) = Members(s) \ {Head(s)}
         /\ Distinct(Tail(s))
  <1>1. /\ Tail(s) \in Seq(S) /\ Head(s) \in S /\ Head(s) = s[1]
        /\ Len(s) \in Nat \ {0} /\ Len(Tail(s)) = Len(s) - 1
        /\ \A i \in 1 .. Len(s) - 1 : Tail(s)[i] = s[i + 1]
    OBVIOUS
  <1>2. DOMAIN s = 1 .. Len(s) /\ DOMAIN Tail(s) = 1 .. Len(s) - 1
    BY <1>1
  <1>3. Distinct(Tail(s))
    BY <1>1, <1>2 DEF Distinct
  <1>4. Members(Tail(s)) \subseteq Members(s) \ {Head(s)}
    BY <1>1, <1>2 DEF Members, Distinct
  <1>5. ASSUME NEW q \in Members(s), q # Head(s) PROVE q \in Members(Tail(s))
    <2>1. PICK i \in 1 .. Len(s) : q = s[i]
      BY <1>2 DEF Members
    <2>2. i - 1 \in 1 .. Len(s) - 1 /\ Tail(s)[i - 1] = q
      BY <1>1, <1>5, <2>1
    <2> QED BY <1>2, <2>2 DEF Members
  <1>6. Head(s) \in Members(s)
    BY <1>1, <1>2 DEF Members
  <1> QED BY <1>1, <1>3, <1>4, <1>5, <1>6

(* TAILQ_REMOVE of any item.                                               *)
LEMMA WithoutList ==
  ASSUME NEW S, NEW s \in Seq(S), NEW q, Distinct(s)
  PROVE  /\ Without(s, q) \in Seq(S)
         /\ Members(Without(s, q)) = Members(s) \ {q}
         /\ Distinct(Without(s, q))
  <1>1. CASE q \notin Members(s)
    BY <1>1 DEF Without
  <1>2. CASE q \in Members(s)
    <2> DEFINE p == Position(s, q)
               t == Without(s, q)
    <2>1. p \in DOMAIN s /\ s[p] = q
      BY <1>2 DEF Members, Position
    <2>2. DOMAIN s = 1 .. Len(s) /\ Len(s) \in Nat \ {0}
      BY <1>2 DEF Members
    <2>3. t = [j \in 1 .. Len(s) - 1 |-> IF j < p THEN s[j] ELSE s[j + 1]]
      BY <1>2 DEF Without
    <2> HIDE DEF p, t
    <2>4. t \in Seq(S) /\ DOMAIN t = 1 .. Len(s) - 1
      BY <2>1, <2>2, <2>3
    <2>5. ASSUME NEW i \in DOMAIN t, NEW j \in DOMAIN t, t[i] = t[j] PROVE i = j
      <3>1. PICK k \in DOMAIN s : t[i] = s[k] /\ k = IF i < p THEN i ELSE i + 1
        BY <2>2, <2>3, <2>4
      <3>2. PICK l \in DOMAIN s : t[j] = s[l] /\ l = IF j < p THEN j ELSE j + 1
        BY <2>2, <2>3, <2>4
      <3>3. k = l
        BY <2>5, <3>1, <3>2 DEF Distinct
      <3> QED BY <2>1, <2>2, <2>4, <3>1, <3>2, <3>3
    <2>6. ASSUME NEW r \in Members(t) PROVE r \in Members(s) \ {q}
      <3>1. PICK j \in 1 .. Len(s) - 1 : r = t[j]
        BY <2>4 DEF Members
      <3>2. PICK i \in DOMAIN s : r = s[i] /\ i # p
        BY <2>1, <2>2, <2>3, <3>1, SMTT(30)
      <3> QED BY <2>1, <3>2 DEF Members, Distinct
    <2>7. ASSUME NEW r \in Members(s), r # q PROVE r \in Members(t)
      <3>1. PICK i \in 1 .. Len(s) : r = s[i] /\ i # p
        BY <2>1, <2>2, <2>7 DEF Members
      <3>2. CASE i < p
        BY <2>1, <2>2, <2>3, <2>4, <3>1, <3>2 DEF Members
      <3>3. CASE i > p
        <4>1. i - 1 \in DOMAIN t /\ t[i - 1] = r
          BY <2>1, <2>2, <2>3, <2>4, <3>1, <3>3
        <4> QED BY <4>1 DEF Members
      <3> QED BY <2>1, <2>2, <3>1, <3>2, <3>3
    <2> QED BY <2>4, <2>5, <2>6, <2>7 DEF t, Distinct
  <1> QED BY <1>1, <1>2
-----------------------------------------------------------------------------
(* A queue that can run is on no list.                                     *)
LEMMA RunningOnNoList ==
  ASSUME TypeOK, ListsAgree, NEW q, CanRun(q)
  PROVE  /\ q \in Queues /\ q \notin waiting
         /\ \A ch \in Channels : q \notin waiters[ch] /\ q \notin Members(lockers[ch])
         /\ \A e \in Events : q \notin listening[e]
  <1>1. q \in Queues /\ q \notin waiting
    BY DEF TypeOK, CanRun, Queues
  <1> QED BY <1>1 DEF ListsAgree, WaitingIffListed

(* The item that a command makes wait belongs to no lost client.           *)
LEMMA WaitsForLive ==
  ASSUME TypeOK, LostNeverWaits, NEW q, CanRun(q), Waits(q), live' = live
  PROVE  /\ waiting' = waiting \cup {q}
         /\ owner' \in Clients \cup {NoClient}
         /\ LostNeverWaits'
  <1>1. Owners \subseteq live \cup {NoClient} /\ live \subseteq Clients
    BY DEF TypeOK, Owners
  <1>2. /\ waiting' = waiting \cup {q} /\ q \notin waiting
        /\ q \in live \cup {Global}
        /\ owner' \in IF q = Global THEN Owners ELSE {owner}
    BY DEF Waits, CanRun
  <1>3. owner' \in Clients \cup {NoClient}
    BY <1>1, <1>2 DEF TypeOK
  <1>4. ASSUME NEW r \in waiting' PROVE ClientOf(r)' \in live \cup {NoClient}
    <2>1. CASE r = Global
      <3>1. CASE q = Global
        BY <1>1, <1>2, <2>1, <3>1 DEF ClientOf
      <3>2. CASE q # Global
        BY <1>2, <1>4, <2>1, <3>2 DEF ClientOf, LostNeverWaits
      <3> QED BY <3>1, <3>2
    <2>2. CASE r # Global
      BY <1>2, <1>4, <2>2 DEF ClientOf, LostNeverWaits
    <2> QED BY <2>1, <2>2
  <1> QED BY <1>2, <1>3, <1>4 DEF LostNeverWaits

(* Waking items leaves no item of a lost client waiting.                   *)
LEMMA WakingLosesNone ==
  ASSUME LostNeverWaits, waiting' \subseteq waiting, UNCHANGED <<live, owner>>
  PROVE  LostNeverWaits'
  BY DEF LostNeverWaits, ClientOf

(* Taking items off lists leaves each of the rest on its one list.         *)
LEMMA ListedOnceShrinks ==
  ASSUME ListedOnce,
         \A ch \in Channels : /\ waiters'[ch] \subseteq waiters[ch]
                             /\ Members(lockers'[ch]) \subseteq Members(lockers[ch])
                             /\ Distinct(lockers'[ch]),
         \A e \in Events : listening'[e] \subseteq listening[e]
  PROVE  ListedOnce'
  BY ZenonT(30) DEF ListedOnce

LEMMA WaitStep ==
  ASSUME IInv, NEW q \in Queues, NEW ch \in Channels, Wait(q, ch)
  PROVE  IInv'
  <1> USE DEF IInv, ListsAgree, ChannelsAgree
  <1>1. CASE woken[ch]
    <2>1. /\ UNCHANGED <<waiting, waiters, locked, lockers, live, owner, listening>>
      BY <1>1 DEF Wait, eventVars, clientVars, serverVars
    <2>2. TypeOK'
      BY <1>1 DEF Wait, TypeOK, eventVars, clientVars, serverVars
    <2>3. ListsAgree' /\ LockersNeedLock' /\ LostNeverWaits'
      BY <2>1, WakingLosesNone DEF WaitingIffListed, ListedOnce, LockersNeedLock
    <2>4. SignalNotMissed'
      BY <1>1, <2>1 DEF Wait, TypeOK, SignalNotMissed
    <2>5. FreedChannelClean'
      BY <1>1, <2>1 DEF Wait, Spent, TypeOK, FreedChannelClean, LockersNeedLock
    <2> QED BY <2>2, <2>3, <2>4, <2>5
  <1>2. CASE ~woken[ch]
    <2>1. /\ waiting' = waiting \cup {q}
          /\ waiters' = [waiters EXCEPT ![ch] = @ \cup {q}]
          /\ channels' = channels \cup {ch}
          /\ UNCHANGED <<woken, locked, lockers, live, listening>>
          /\ owner' \in Clients \cup {NoClient} /\ LostNeverWaits'
      BY <1>2, WaitsForLive DEF Wait, Waits, eventVars, serverVars
    <2>2. TypeOK'
      BY <1>2, <2>1 DEF Wait, TypeOK, eventVars, serverVars
    <2>3. /\ q \in live \cup {Global}
          /\ \A d \in Channels : q \notin waiters[d] /\ q \notin Members(lockers[d])
          /\ \A e \in Events : q \notin listening[e]
      BY RunningOnNoList DEF Wait, CanRun
    <2>4. WaitingIffListed'
      BY <2>1 DEF WaitingIffListed, TypeOK
    <2>5. ListedOnce'
      BY <2>1, <2>3 DEF ListedOnce, TypeOK
    <2>6. ChannelsAgree' /\ LostNeverWaits'
      BY <1>2, <2>1, <2>3
         DEF TypeOK, LockersNeedLock, SignalNotMissed, FreedChannelClean
    <2> QED BY <2>2, <2>4, <2>5, <2>6
  <1> QED BY <1>1, <1>2

LEMMA SignalStep ==
  ASSUME IInv, NEW q \in Queues, NEW ch \in Channels, Signal(q, ch)
  PROVE  IInv'
  <1> USE DEF IInv, ListsAgree, ChannelsAgree
  <1>1. CASE StaysPending(ch)
    <2>1. /\ UNCHANGED <<waiting, waiters, locked, lockers, live, owner, listening>>
          /\ woken' = [woken EXCEPT ![ch] = TRUE]
          /\ channels' = channels \cup {ch}
      BY <1>1 DEF Signal, eventVars, clientVars, serverVars
    <2>2. TypeOK'
      BY <1>1 DEF Signal, TypeOK, eventVars, clientVars, serverVars
    <2>3. ListsAgree' /\ LockersNeedLock' /\ LostNeverWaits'
      BY <2>1, WakingLosesNone DEF WaitingIffListed, ListedOnce, LockersNeedLock
    <2>4. SignalNotMissed' /\ FreedChannelClean'
      BY <1>1, <2>1 DEF StaysPending, TypeOK, SignalNotMissed, FreedChannelClean
    <2> QED BY <2>2, <2>3, <2>4
  <1>2. CASE ~StaysPending(ch)
    <2> DEFINE spent == Spent(locked[ch], woken[ch], {})
    <2>1. /\ waiting' = waiting \ waiters[ch]
          /\ waiters' = [waiters EXCEPT ![ch] = {}]
          /\ channels' = IF spent THEN channels \ {ch} ELSE channels
          /\ woken' = [woken EXCEPT ![ch] = @ /\ ~spent]
          /\ UNCHANGED <<locked, lockers, live, owner, listening>>
      BY <1>2 DEF Signal, eventVars, clientVars, serverVars
    <2>2. TypeOK'
      BY <1>2, <2>1 DEF Signal, TypeOK, eventVars, clientVars, serverVars
    <2>3. WaitingIffListed'
      BY <2>1 DEF WaitingIffListed, ListedOnce, TypeOK
    <2>4. ListedOnce' /\ LockersNeedLock' /\ LostNeverWaits'
      BY <2>1, WakingLosesNone DEF ListedOnce, TypeOK, LockersNeedLock
    <2>5. SignalNotMissed' /\ FreedChannelClean'
      BY <2>1 DEF Spent, TypeOK, SignalNotMissed, FreedChannelClean, LockersNeedLock
    <2> QED BY <2>2, <2>3, <2>4, <2>5
  <1> QED BY <1>1, <1>2

LEMMA LockStep ==
  ASSUME IInv, NEW q \in Queues, NEW ch \in Channels, Lock(q, ch)
  PROVE  IInv'
  <1> USE DEF IInv, ListsAgree, ChannelsAgree
  <1>1. CASE ~locked[ch]
    <2>1. /\ UNCHANGED <<waiting, waiters, woken, lockers, live, owner, listening>>
          /\ locked' = [locked EXCEPT ![ch] = TRUE]
          /\ channels' = channels \cup {ch}
      BY <1>1 DEF Lock, eventVars, clientVars, serverVars
    <2>2. TypeOK'
      BY <1>1 DEF Lock, TypeOK, eventVars, clientVars, serverVars
    <2>3. ListsAgree' /\ SignalNotMissed' /\ LostNeverWaits'
      BY <2>1, WakingLosesNone DEF WaitingIffListed, ListedOnce, SignalNotMissed
    <2>4. LockersNeedLock' /\ FreedChannelClean'
      BY <2>1 DEF TypeOK, LockersNeedLock, FreedChannelClean
    <2> QED BY <2>2, <2>3, <2>4
  <1>2. CASE locked[ch]
    <2> DEFINE t == InsertTail(lockers[ch], q)
    <2>1. /\ waiting' = waiting \cup {q}
          /\ lockers' = [lockers EXCEPT ![ch] = t]
          /\ channels' = channels \cup {ch}
          /\ UNCHANGED <<woken, locked, waiters, live, listening>>
          /\ owner' \in Clients \cup {NoClient} /\ LostNeverWaits'
      BY <1>2, WaitsForLive DEF Lock, Waits, eventVars, serverVars
    <2>2. /\ q \in live \cup {Global}
          /\ \A d \in Channels : q \notin waiters[d] /\ q \notin Members(lockers[d])
          /\ \A e \in Events : q \notin listening[e]
      BY RunningOnNoList DEF Lock, CanRun
    <2>3. /\ t \in Seq(Queues) /\ t # <<>> /\ Distinct(t)
          /\ Members(t) = Members(lockers[ch]) \cup {q}
      BY <2>2, InsertTailList DEF TypeOK, ListedOnce
    <2> HIDE DEF t
    <2>4. TypeOK'
      BY <2>1, <2>3 DEF Lock, TypeOK, eventVars, clientVars, serverVars
    <2>5. \A d \in Channels : lockers'[d] = IF d = ch THEN t ELSE lockers[d]
      BY <2>1 DEF TypeOK
    <2>6. WaitingIffListed'
      <3>1. ASSUME NEW r \in Queues
            PROVE  (\E d \in Channels : r \in Members(lockers'[d]))
                     <=> r = q \/ \E d \in Channels : r \in Members(lockers[d])
        BY <2>3, <2>5
      <3> QED BY <2>1, <3>1 DEF WaitingIffListed
    <2>7. ListedOnce'
      <3>1. \A d \in Channels :
              /\ Distinct(lockers'[d])
              /\ Members(lockers'[d]) =
                   IF d = ch THEN Members(lockers[d]) \cup {q} ELSE Members(lockers[d])
        BY <2>3, <2>5 DEF ListedOnce
      <3>2. UNCHANGED <<waiters, listening>>
        BY <2>1
      <3> DEFINE old(d) == Members(lockers[d])
                 new(d) == Members(lockers'[d])
      <3>3. \A d \in Channels : new(d) = IF d = ch THEN old(d) \cup {q} ELSE old(d)
        BY <3>1
      <3>4. \A d \in Channels : q \notin waiters[d] /\ q \notin old(d)
        BY <2>2
      <3>5. /\ \A c, d \in Channels : waiters[c] \cap old(d) = {}
            /\ \A c, d \in Channels : c # d => old(c) \cap old(d) = {}
            /\ \A c \in Channels, e \in Events :
                 listening[e] \cap (waiters[c] \cup old(c)) = {}
        BY DEF ListedOnce
      <3> HIDE DEF old, new
      <3>6. \A c, d \in Channels : waiters[c] \cap new(d) = {}
        BY <3>3, <3>4, <3>5
      <3>7. \A c, d \in Channels : c # d => new(c) \cap new(d) = {}
        BY <3>3, <3>4, <3>5
      <3>8. \A c \in Channels, e \in Events :
              listening[e] \cap (waiters[c] \cup new(c)) = {}
        BY <2>2, <3>3, <3>5
      <3> QED BY <3>1, <3>2, <3>6, <3>7, <3>8 DEF ListedOnce, new
    <2>8. ChannelsAgree' /\ LostNeverWaits'
      BY <1>2, <2>1, <2>2, <2>3, <2>5
         DEF LockersNeedLock, SignalNotMissed, FreedChannelClean
    <2> QED BY <2>4, <2>6, <2>7, <2>8
  <1> QED BY <1>1, <1>2 DEF TypeOK

LEMMA UnlockStep ==
  ASSUME IInv, NEW q \in Queues, NEW ch \in Channels, Unlock(q, ch)
  PROVE  IInv'
  <1> USE DEF IInv, ListsAgree, ChannelsAgree
  <1> DEFINE s == lockers[ch]
  <1>1. CASE s # <<>>
    <2> DEFINE t == Tail(s)
               w == Head(s)
    <2>1. /\ waiting' = waiting \ {w}
          /\ lockers' = [lockers EXCEPT ![ch] = t]
          /\ UNCHANGED <<channels, woken, locked, waiters, live, owner, listening>>
      BY <1>1 DEF Unlock, eventVars, clientVars, serverVars
    <2>2. /\ t \in Seq(Queues) /\ w \in Queues /\ Distinct(t)
          /\ w \in Members(s) /\ Members(t) = Members(s) \ {w}
      BY <1>1, TailList DEF TypeOK, ListedOnce
    <2> HIDE DEF t, w
    <2>3. TypeOK'
      BY <1>1, <2>1, <2>2 DEF Unlock, TypeOK, eventVars, clientVars, serverVars
    <2>4. \A d \in Channels : lockers'[d] = IF d = ch THEN t ELSE lockers[d]
      BY <2>1 DEF TypeOK
    <2>5. WaitingIffListed'
      <3>1. \A d \in Channels : Members(lockers'[d]) = Members(lockers[d]) \ {w}
        BY <2>2, <2>4 DEF ListedOnce
      <3>2. /\ \A d \in Channels : w \notin waiters[d]
            /\ \A e \in Events : w \notin listening[e]
        BY <2>2 DEF ListedOnce
      <3> QED BY <2>1, <3>1, <3>2 DEF WaitingIffListed
    <2>6. ListedOnce'
      <3>1. \A d \in Channels : /\ Members(lockers'[d]) \subseteq Members(lockers[d])
                               /\ Distinct(lockers'[d])
        BY <2>2, <2>4 DEF ListedOnce
      <3> QED BY <2>1, <3>1, ListedOnceShrinks
    <2>7. ChannelsAgree' /\ LostNeverWaits'
      BY <1>1, <2>1, <2>4, WakingLosesNone
         DEF LockersNeedLock, SignalNotMissed, FreedChannelClean
    <2> QED BY <2>3, <2>5, <2>6, <2>7
  <1>2. CASE s = <<>>
    <2> DEFINE spent == Spent(FALSE, woken[ch], waiters[ch])
    <2>1. /\ locked' = [locked EXCEPT ![ch] = FALSE]
          /\ channels' = IF spent THEN channels \ {ch} ELSE channels
          /\ woken' = [woken EXCEPT ![ch] = @ /\ ~spent]
          /\ UNCHANGED <<waiting, lockers, waiters, live, owner, listening>>
      BY <1>2 DEF Unlock, eventVars, clientVars, serverVars
    <2>2. TypeOK'
      BY <1>2, <2>1 DEF Unlock, TypeOK, eventVars, clientVars, serverVars
    <2>3. ListsAgree' /\ LostNeverWaits'
      BY <2>1, WakingLosesNone DEF WaitingIffListed, ListedOnce
    <2>4. ChannelsAgree'
      BY <1>2, <2>1
         DEF Spent, TypeOK, LockersNeedLock, SignalNotMissed, FreedChannelClean
    <2> QED BY <2>2, <2>3, <2>4
  <1> QED BY <1>1, <1>2

LEMMA WakeStep ==
  ASSUME IInv, NEW q \in Queues, NEW ch \in Channels, NEW w \in Queues,
         Wake(q, ch, w)
  PROVE  IInv'
  <1> USE DEF IInv, ListsAgree, ChannelsAgree
  <1> DEFINE s == lockers[ch]
             t == IF w \in waiters[ch] THEN s ELSE Without(s, w)
  <1>1. /\ waiting' = waiting \ {w}
        /\ waiters' = [waiters EXCEPT ![ch] = @ \ {w}]
        /\ lockers' = [lockers EXCEPT ![ch] = t]
        /\ UNCHANGED <<woken, locked, live, owner, listening>>
    BY DEF Wake, eventVars, clientVars, serverVars
  <1>2. /\ t \in Seq(Queues) /\ Distinct(t) /\ Members(t) = Members(s) \ {w}
        /\ s = <<>> => t = <<>>
    <2>1. CASE w \in waiters[ch]
      BY <2>1 DEF TypeOK, ListedOnce
    <2>2. CASE w \notin waiters[ch]
      <3>1. s = <<>> => Without(s, w) = s
        BY DEF Without, Members
      <3> QED BY <2>2, <3>1, WithoutList DEF TypeOK, ListedOnce
    <2> QED BY <2>1, <2>2
  <1> HIDE DEF t
  <1>3. \A d \in Channels :
          /\ lockers'[d] = IF d = ch THEN t ELSE lockers[d]
          /\ waiters'[d] = IF d = ch THEN waiters[ch] \ {w} ELSE waiters[d]
    BY <1>1 DEF TypeOK
  <1>4. channels' = IF Unused(locked[ch], woken[ch], waiters'[ch], lockers'[ch])
                    THEN channels \ {ch} ELSE channels
    BY DEF Wake
  <1>5. TypeOK'
    BY <1>1, <1>2, <1>4 DEF Wake, TypeOK, eventVars, clientVars, serverVars
  <1>6. WaitingIffListed'
    <2>1. w \in waiters[ch] \cup Members(s)
      BY DEF Wake, Found
    <2>2. \A d \in Channels : /\ waiters'[d] = waiters[d] \ {w}
                             /\ Members(lockers'[d]) = Members(lockers[d]) \ {w}
      BY <1>2, <1>3, <2>1, SMTT(30) DEF ListedOnce
    <2>3. \A e \in Events : w \notin listening[e]
      BY <2>1 DEF ListedOnce
    <2> QED BY <1>1, <2>2, <2>3 DEF WaitingIffListed
  <1>7. ListedOnce'
    <2>1. \A d \in Channels : /\ waiters'[d] \subseteq waiters[d]
                             /\ Members(lockers'[d]) \subseteq Members(lockers[d])
                             /\ Distinct(lockers'[d])
      BY <1>2, <1>3 DEF ListedOnce
    <2> QED BY <1>1, <2>1, ListedOnceShrinks
  <1>8. LockersNeedLock' /\ SignalNotMissed' /\ LostNeverWaits'
    BY <1>1, <1>2, <1>3, WakingLosesNone DEF LockersNeedLock, SignalNotMissed
  <1>9. FreedChannelClean'
    BY <1>1, <1>2, <1>3, <1>4 DEF Unused, FreedChannelClean
  <1> QED BY <1>5, <1>6, <1>7, <1>8, <1>9

LEMMA ListenStep ==
  ASSUME IInv, NEW q \in Queues, NEW e \in Events, Listen(q, e)
  PROVE  IInv'
  <1> USE DEF IInv, ListsAgree, ChannelsAgree
  <1>1. /\ waiting' = waiting \cup {q}
        /\ listening' = [listening EXCEPT ![e] = @ \cup {q}]
        /\ UNCHANGED <<channels, waiters, lockers, woken, locked, live>>
        /\ owner' \in Clients \cup {NoClient} /\ LostNeverWaits'
    BY WaitsForLive DEF Listen, Waits, channelVars, serverVars
  <1>2. /\ q \in live \cup {Global}
        /\ \A d \in Channels : q \notin waiters[d] /\ q \notin Members(lockers[d])
        /\ \A f \in Events : q \notin listening[f]
    BY RunningOnNoList DEF Listen, CanRun
  <1>3. TypeOK'
    BY <1>1 DEF Listen, TypeOK, channelVars, serverVars
  <1>4. WaitingIffListed'
    BY <1>1 DEF WaitingIffListed, TypeOK
  <1>5. ListedOnce'
    BY <1>1, <1>2 DEF ListedOnce, TypeOK
  <1>6. ChannelsAgree' /\ LostNeverWaits'
    BY <1>1, <1>2
       DEF LockersNeedLock, SignalNotMissed, FreedChannelClean
  <1> QED BY <1>3, <1>4, <1>5, <1>6

(* WakeListener and FireEvent both take some listeners of one event away.  *)
LEMMA ListenersLeave ==
  ASSUME IInv, NEW e \in Events, NEW gone, gone \subseteq listening[e],
         waiting' = waiting \ gone,
         listening' = [listening EXCEPT ![e] = @ \ gone],
         filtered' \subseteq filtered,
         UNCHANGED <<channelVars, clientVars>>
  PROVE  IInv'
  <1> USE DEF IInv, ListsAgree, ChannelsAgree
  <1>1. UNCHANGED <<channels, waiters, lockers, woken, locked, live, attached, keep, owner>>
    BY DEF channelVars, clientVars, serverVars
  <1>2. TypeOK'
    BY <1>1 DEF TypeOK
  <1>3. \A f \in Events : listening'[f] = listening[f] \ gone
    BY DEF TypeOK, ListedOnce
  <1>4. WaitingIffListed'
    <2>1. \A d \in Channels : gone \cap (waiters[d] \cup Members(lockers[d])) = {}
      BY DEF ListedOnce
    <2> QED BY <1>1, <1>3, <2>1 DEF WaitingIffListed
  <1>5. ListedOnce'
    BY <1>1, <1>3, ListedOnceShrinks DEF ListedOnce
  <1>6. ChannelsAgree' /\ LostNeverWaits'
    BY <1>1, WakingLosesNone DEF LockersNeedLock, SignalNotMissed, FreedChannelClean
  <1> QED BY <1>2, <1>4, <1>5, <1>6

LEMMA WakeListenerStep ==
  ASSUME IInv, NEW q \in Queues, NEW e \in Events, NEW w \in Queues,
         WakeListener(q, e, w)
  PROVE  IInv'
  <1>1. {w} \subseteq listening[e] /\ filtered' \subseteq filtered
    BY DEF WakeListener
  <1> QED BY <1>1, ListenersLeave DEF WakeListener

LEMMA FireEventStep ==
  ASSUME IInv, NEW e \in Events, NEW pass \in SUBSET Queues, FireEvent(e, pass)
  PROVE  IInv'
  <1> DEFINE woke == listening[e] \cap (pass \cup (Queues \ filtered))
  <1>1. woke \subseteq listening[e] /\ filtered' \subseteq filtered
    BY DEF FireEvent
  <1> QED BY <1>1, ListenersLeave DEF FireEvent

LEMMA ClientLostStep ==
  ASSUME IInv, NEW c \in Clients, ClientLost(c)
  PROVE  IInv'
  <1> USE DEF IInv, ListsAgree, ChannelsAgree
  <1> DEFINE gone == ItemsOf(c)
             Others(s) == LET t == Without(s, c)
                          IN  IF Global \in gone THEN Without(t, Global) ELSE t
  <1>1. /\ waiting' = waiting \ gone /\ live' = live \ {c}
        /\ UNCHANGED <<woken, locked, owner>>
        /\ \A ch \in Channels : /\ waiters'[ch] = waiters[ch] \ gone
                                /\ lockers'[ch] = Others(lockers[ch])
        /\ \A e \in Events : listening'[e] = listening[e] \ gone
    BY DEF ClientLost
  <1>2. c \in gone /\ gone = IF Global \in gone THEN {c, Global} ELSE {c}
    BY QueueAssumption DEF ItemsOf, ClientOf
  <1>3. \A q : ClientOf(q) = c => q \in gone
    BY DEF ItemsOf, ClientOf
  <1> HIDE DEF gone
  <1>4. \A ch \in Channels : /\ lockers'[ch] \in Seq(Queues)
                            /\ Members(lockers'[ch]) = Members(lockers[ch]) \ gone
                            /\ Distinct(lockers'[ch])
    <2> SUFFICES ASSUME NEW ch \in Channels
                 PROVE  /\ Others(lockers[ch]) \in Seq(Queues)
                        /\ Members(Others(lockers[ch])) = Members(lockers[ch]) \ gone
                        /\ Distinct(Others(lockers[ch]))
      BY <1>1
    <2> DEFINE t == Without(lockers[ch], c)
    <2>1. t \in Seq(Queues) /\ Members(t) = Members(lockers[ch]) \ {c} /\ Distinct(t)
      BY WithoutList DEF TypeOK, ListedOnce
    <2> HIDE DEF t
    <2>2. /\ Without(t, Global) \in Seq(Queues)
          /\ Members(Without(t, Global)) = Members(t) \ {Global}
          /\ Distinct(Without(t, Global))
      BY <2>1, WithoutList
    <2>3. Others(lockers[ch]) = IF Global \in gone THEN Without(t, Global) ELSE t
      BY DEF t
    <2> QED BY <1>2, <2>1, <2>2, <2>3
  <1>5. \A ch \in Channels : lockers[ch] = <<>> => lockers'[ch] = <<>>
    <2>1. Without(<<>>, c) = <<>> /\ Without(<<>>, Global) = <<>>
      BY DEF Without, Members
    <2> QED BY <1>1, <2>1
  <1>6. TypeOK'
    BY <1>4 DEF ClientLost, TypeOK
  <1>7. WaitingIffListed'
    <2>1. \A q \in Queues : q \in gone => q \notin waiting'
      BY <1>1
    <2> QED BY <1>1, <1>4, <2>1 DEF WaitingIffListed
  <1>8. ListedOnce'
    BY <1>1, <1>4, ListedOnceShrinks
  <1>9. LockersNeedLock' /\ SignalNotMissed'
    BY <1>1, <1>5 DEF LockersNeedLock, SignalNotMissed
  <1>10. LostNeverWaits'
    BY <1>1, <1>3 DEF LostNeverWaits, ClientOf
  <1>11. FreedChannelClean'
    <2>1. channels' = {ch \in channels :
              ~Unused(locked[ch], woken[ch], waiters'[ch], lockers'[ch])}
      BY DEF ClientLost
    <2> QED BY <1>1, <1>5, <2>1 DEF FreedChannelClean, Unused
  <1> QED BY <1>6, <1>7, <1>8, <1>9, <1>10, <1>11

LEMMA FlushStep ==
  ASSUME IInv, Flush
  PROVE  IInv'
  <1>1. Members(<<>>) = {} /\ Distinct(<<>>)
    BY DEF Members, Distinct
  <1>2. TypeOK'
    BY DEF IInv, Flush, TypeOK, clientVars, serverVars
  <1>3. ListsAgree'
    BY <1>1 DEF Flush, ListsAgree, WaitingIffListed, ListedOnce
  <1>4. ChannelsAgree' /\ LostNeverWaits'
    BY DEF Flush, ChannelsAgree, LockersNeedLock, SignalNotMissed,
           FreedChannelClean, LostNeverWaits
  <1> QED BY <1>2, <1>3, <1>4 DEF IInv
-----------------------------------------------------------------------------
(* The steps that touch no list and no channel.                            *)
LEMMA ListsUntouched ==
  ASSUME IInv, TypeOK', live \subseteq live',
         UNCHANGED <<waiting, owner, channelVars, eventVars>>
  PROVE  IInv'
  BY DEF IInv, ListsAgree, ChannelsAgree, WaitingIffListed, ListedOnce,
         LockersNeedLock, SignalNotMissed, FreedChannelClean, LostNeverWaits,
         ClientOf, channelVars, eventVars

LEMMA InitInv == Init => IInv
  <1> SUFFICES ASSUME Init PROVE IInv
    OBVIOUS
  <1>1. Members(<<>>) = {} /\ Distinct(<<>>)
    BY DEF Members, Distinct
  <1>2. TypeOK
    <2>1. <<>> \in Seq(Queues)
      OBVIOUS
    <2>2. /\ lockers \in [Channels -> Seq(Queues)]
          /\ waiters \in [Channels -> SUBSET Queues]
          /\ listening \in [Events -> SUBSET Queues]
      BY <2>1 DEF Init
    <2>3. /\ locked \in [Channels -> BOOLEAN]
          /\ woken \in [Channels -> BOOLEAN]
      BY DEF Init
    <2> QED BY <2>2, <2>3 DEF Init, TypeOK
  <1>3. ListsAgree
    BY <1>1 DEF Init, ListsAgree, WaitingIffListed, ListedOnce
  <1>4. ChannelsAgree /\ LostNeverWaits
    BY DEF Init, ChannelsAgree, LockersNeedLock, SignalNotMissed,
           FreedChannelClean, LostNeverWaits
  <1> QED BY <1>2, <1>3, <1>4 DEF IInv

LEMMA NextInv == IInv /\ [Next]_vars => IInv'
  <1> SUFFICES ASSUME IInv, [Next]_vars PROVE IInv'
    OBVIOUS
  <1>1. ASSUME NEW q \in Queues, Command(q) PROVE IInv'
    BY <1>1, WaitStep, SignalStep, LockStep, UnlockStep, WakeStep, ListenStep,
       WakeListenerStep DEF Command
  <1>2. ASSUME NEW c \in Clients, Connect(c) \/ Attach(c) \/ Detach(c) PROVE IInv'
    <2>1. TypeOK'
      BY <1>2 DEF IInv, TypeOK, Connect, Attach, Detach, channelVars, eventVars
    <2> QED BY <1>2, <2>1, ListsUntouched DEF Connect, Attach, Detach
  <1>3. CASE KeepChange
    <2>1. TypeOK'
      BY <1>3 DEF IInv, TypeOK, KeepChange, channelVars, eventVars
    <2> QED BY <1>3, <2>1, ListsUntouched DEF KeepChange
  <1>4. CASE UNCHANGED vars
    <2>1. TypeOK'
      BY <1>4 DEF IInv, TypeOK, vars
    <2> QED BY <1>4, <2>1, ListsUntouched DEF vars, channelVars, eventVars
  <1> QED
    BY <1>1, <1>2, <1>3, <1>4, FireEventStep, ClientLostStep, FlushStep DEF Next

(* The inductive invariant of the wait-for command.                        *)
THEOREM Invariance == Spec => []IInv
  BY InitInv, NextInv, PTL DEF Spec

(* Types of the lists and of the channels' fields.                         *)
THEOREM TypeCorrect == Spec => []TypeOK
  BY Invariance, PTL DEF IInv

(* Every waiting item can be woken, and nothing else is ever woken.        *)
THEOREM WaitingItemsListed == Spec => []WaitingIffListed
  BY Invariance, PTL DEF IInv, ListsAgree

(* No item is on two lists, or twice on one.                               *)
THEOREM ItemsListedOnce == Spec => []ListedOnce
  BY Invariance, PTL DEF IInv, ListsAgree

(* cmd_wait_for_remove never frees a channel that has lockers.             *)
THEOREM LockersHaveLock == Spec => []LockersNeedLock
  BY Invariance, PTL DEF IInv, ChannelsAgree

(* No waiter sleeps through a signal that is pending.                      *)
THEOREM SignalsNotMissed == Spec => []SignalNotMissed
  BY Invariance, PTL DEF IInv, ChannelsAgree

(* A freed channel leaves no lock, signal or waiting item behind.          *)
THEOREM FreedChannelsClean == Spec => []FreedChannelClean
  BY Invariance, PTL DEF IInv, ChannelsAgree

(* No item of a lost client waits.                                         *)
THEOREM LostClientsReleased == Spec => []LostNeverWaits
  BY Invariance, PTL DEF IInv

(* Every item that waits can be woken, by one wake, and is gone with its   *)
(* client.                                                                 *)
THEOREM WaitingItemsWakeable == Spec => []ItemsWakeable
  BY WaitingItemsListed, ItemsListedOnce, LostClientsReleased, PTL DEF ItemsWakeable

(* What cmd_wait_for_remove frees is empty, and no signal is slept through. *)
THEOREM ChannelsAreSound == Spec => []ChannelsSound
  BY LockersHaveLock, SignalsNotMissed, FreedChannelsClean, PTL DEF ChannelsSound
-----------------------------------------------------------------------------
(* WaitFor implements WaitPromise: how the lists change what the queues    *)
(* are blocked on, and then a step of the promise for each operation.      *)

BlockedUnchanged == \A q \in Queues : BlockedOn(q)' = BlockedOn(q)
Releases(Q) == \A q \in Queues : BlockedOn(q)' = IF q \in Q THEN {} ELSE BlockedOn(q)
Blocks(q, r) ==
  /\ BlockedOn(q) = {}
  /\ \A p \in Queues : BlockedOn(p)' = IF p = q THEN {r} ELSE BlockedOn(p)

LEMMA ListsSame ==
  ASSUME UNCHANGED <<waiters, lockers, listening>>
  PROVE  BlockedUnchanged
  BY DEF BlockedUnchanged, BlockedOn

LEMMA ListsLose ==
  ASSUME NEW Q,
         \A ch \in Channels : /\ waiters'[ch] = waiters[ch] \ Q
                              /\ Members(lockers'[ch]) = Members(lockers[ch]) \ Q,
         \A e \in Events : listening'[e] = listening[e] \ Q
  PROVE  Releases(Q)
  <1> SUFFICES ASSUME NEW q \in Queues
               PROVE  BlockedOn(q)' = IF q \in Q THEN {} ELSE BlockedOn(q)
    BY DEF Releases
  <1>1. CASE q \in Q
    <2>1. /\ {d \in Channels : q \in waiters'[d]} = {}
          /\ {d \in Channels : q \in Members(lockers'[d])} = {}
          /\ {f \in Events : q \in listening'[f]} = {}
      BY <1>1
    <2> QED BY <1>1, <2>1 DEF BlockedOn
  <1>2. CASE q \notin Q
    <2>1. /\ {d \in Channels : q \in waiters'[d]} = {d \in Channels : q \in waiters[d]}
          /\ {d \in Channels : q \in Members(lockers'[d])} = {d \in Channels : q \in Members(lockers[d])}
          /\ {f \in Events : q \in listening'[f]} = {f \in Events : q \in listening[f]}
      BY <1>2
    <2> QED BY <1>2, <2>1 DEF BlockedOn
  <1> QED BY <1>1, <1>2

(* One of the lists gains a queue that was on none.                        *)
LEMMA ListsGain ==
  ASSUME NEW q,
         \A ch \in Channels : q \notin waiters[ch] /\ q \notin Members(lockers[ch]),
         \A e \in Events : q \notin listening[e],
         NEW W \in SUBSET Channels, NEW L \in SUBSET Channels, NEW E \in SUBSET Events,
         \A ch \in Channels :
            /\ waiters'[ch] = IF ch \in W THEN waiters[ch] \cup {q} ELSE waiters[ch]
            /\ Members(lockers'[ch]) = IF ch \in L THEN Members(lockers[ch]) \cup {q} ELSE Members(lockers[ch]),
         \A e \in Events : listening'[e] = IF e \in E THEN listening[e] \cup {q} ELSE listening[e],
         NEW r,
         {<<"signal", ch>> : ch \in W} \cup {<<"lock", ch>> : ch \in L} \cup {<<"event", e>> : e \in E} = {r}
  PROVE  Blocks(q, r)
  <1>1. BlockedOn(q) = {}
    <2>1. /\ {d \in Channels : q \in waiters[d]} = {}
          /\ {d \in Channels : q \in Members(lockers[d])} = {}
          /\ {f \in Events : q \in listening[f]} = {}
      OBVIOUS
    <2> QED BY <2>1 DEF BlockedOn
  <1>2. BlockedOn(q)' = {r}
    <2>1. /\ {d \in Channels : q \in waiters'[d]} = W
          /\ {d \in Channels : q \in Members(lockers'[d])} = L
          /\ {f \in Events : q \in listening'[f]} = E
      OBVIOUS
    <2> QED BY <2>1 DEF BlockedOn
  <1>3. ASSUME NEW p \in Queues, p # q PROVE BlockedOn(p)' = BlockedOn(p)
    <2>1. /\ {d \in Channels : p \in waiters'[d]} = {d \in Channels : p \in waiters[d]}
          /\ {d \in Channels : p \in Members(lockers'[d])} = {d \in Channels : p \in Members(lockers[d])}
          /\ {f \in Events : p \in listening'[f]} = {f \in Events : p \in listening[f]}
      BY <1>3
    <2> QED BY <2>1 DEF BlockedOn
  <1> QED BY <1>1, <1>2, <1>3 DEF Blocks

LEMMA BlockedForReason ==
  ASSUME TypeOK, NEW ch \in Channels
  PROVE  /\ Promise!BlockedFor(<<"signal", ch>>) = waiters[ch]
         /\ Promise!BlockedFor(<<"lock", ch>>) = Members(lockers[ch])
  <1>1. waiters[ch] \subseteq Queues /\ Members(lockers[ch]) \subseteq Queues
    <2>1. lockers[ch] \in Seq(Queues)
      BY DEF TypeOK
    <2> QED BY <2>1 DEF TypeOK, Members
  <1>2. ASSUME NEW q \in Queues
        PROVE  /\ <<"signal", ch>> \in BlockedOn(q) <=> q \in waiters[ch]
               /\ <<"lock", ch>> \in BlockedOn(q) <=> q \in Members(lockers[ch])
    BY DEF BlockedOn
  <1>3. \A r : Promise!BlockedFor(r) = {q \in Queues : r \in BlockedOn(q)}
    BY DEF Promise!BlockedFor, Promise!Queues, Queues
  <1> QED BY <1>1, <1>2, <1>3

Queued == [q \in Queues |-> BlockedOn(q)]
Taken == {ch \in Channels : locked[ch]}
Pending == {ch \in Channels : woken[ch]}
PromiseStep == Promise!Next \/ UNCHANGED <<Queued, Taken, Pending>>

LEMMA QueuedReleases ==
  ASSUME NEW Q, Releases(Q)
  PROVE  Promise!Release(Q)
  BY DEF Releases, Promise!Release, Promise!Queues, Queues

LEMMA QueuedSame ==
  ASSUME BlockedUnchanged
  PROVE  UNCHANGED Queued
  BY DEF BlockedUnchanged, Queued

LEMMA FlagsSame ==
  ASSUME UNCHANGED <<locked, woken>>
  PROVE  UNCHANGED <<Taken, Pending>>
  BY DEF Taken, Pending

LEMMA QueuedBlocks ==
  ASSUME NEW q \in Queues, NEW r \in Promise!Reasons, Blocks(q, r),
         UNCHANGED <<locked, woken>>,
         \A ch \in Channels : r = <<"signal", ch>> => ~woken[ch],
         \A ch \in Channels : r = <<"lock", ch>> => locked[ch],
         r[1] \in {"signal", "lock"} => r[2] \in Channels
  PROVE  PromiseStep
  <1>1. Promise!Block(q, r)
    <2>1. Queued[q] = {}
      BY DEF Blocks, Queued
    <2>2. r = <<r[1], r[2]>>
      BY DEF Promise!Reasons
    <2>3. /\ r[1] = "signal" => r[2] \notin Pending
          /\ r[1] = "lock" => r[2] \in Taken
      BY <2>2 DEF Pending, Taken
    <2>4. Queued' = [Queued EXCEPT ![q] = {r}]
      BY DEF Blocks, Queued
    <2> QED BY <2>1, <2>3, <2>4, FlagsSame DEF Promise!Block, Queued, Pending, Taken
  <1>2. q \in Promise!Queues
    BY DEF Promise!Queues, Queues
  <1> QED BY <1>1, <1>2 DEF PromiseStep, Promise!Next

LEMMA QueuedReleaseSome ==
  ASSUME NEW Q, Releases(Q), UNCHANGED <<locked, woken>>
  PROVE  PromiseStep
  <1> DEFINE B == {q \in Queues : Queued[q] # {}}
  <1>1. Releases(Q \cap B)
    BY DEF Releases, Queued
  <1>2. Promise!Release(Q \cap B) /\ UNCHANGED <<Taken, Pending>>
    BY <1>1, QueuedReleases, FlagsSame
  <1>3. Promise!ReleaseSome
    <2>1. Q \cap B \in SUBSET {q \in Promise!Queues : Queued[q] # {}}
      BY DEF Promise!Queues, Queues
    <2> QED BY <1>2, <2>1 DEF Promise!ReleaseSome, Queued, Taken, Pending
  <1> QED BY <1>3 DEF PromiseStep, Promise!Next

LEMMA TakesSignal ==
  ASSUME TypeOK, NEW ch \in Channels, woken[ch], UNCHANGED <<waiters, lockers, listening, locked>>,
         woken' = [woken EXCEPT ![ch] = locked[ch]]
  PROVE  PromiseStep
  <1>1. UNCHANGED <<Queued, Taken>>
    BY ListsSame, QueuedSame DEF Taken
  <1>2. CASE locked[ch]
    <2>1. \A d \in Channels : woken'[d] = woken[d]
      BY <1>2 DEF TypeOK
    <2>2. UNCHANGED Pending
      BY <2>1 DEF Pending
    <2> QED BY <1>1, <2>2 DEF PromiseStep
  <1>3. CASE ~locked[ch]
    <2>1. ch \in Pending \ Taken
      BY <1>3 DEF Pending, Taken
    <2>2. Pending' = Pending \ {ch}
      BY <1>3 DEF TypeOK, Pending
    <2>3. Promise!TakeSignal(ch)
      BY <1>1, <2>1, <2>2 DEF Promise!TakeSignal, Queued, Taken, Pending
    <2> QED BY <2>3 DEF PromiseStep, Promise!Next
  <1> QED BY <1>2, <1>3 DEF TypeOK

LEMMA WaitPromised ==
  ASSUME IInv, NEW q \in Queues, NEW ch \in Channels, Wait(q, ch)
  PROVE  PromiseStep
  <1>1. TypeOK /\ ListsAgree /\ SignalNotMissed
    BY DEF IInv, ChannelsAgree
  <1>2. CASE woken[ch]
    <2>1. UNCHANGED <<waiters, lockers, listening, locked>>
      BY <1>2 DEF Wait, eventVars
    <2>2. woken' = [woken EXCEPT ![ch] = locked[ch]]
      BY <1>1, <1>2 DEF Wait, Spent, SignalNotMissed, TypeOK
    <2> QED BY <1>1, <1>2, <2>1, <2>2, TakesSignal
  <1>3. CASE ~woken[ch]
    <2>1. /\ UNCHANGED <<locked, woken, lockers, listening>>
          /\ waiters' = [waiters EXCEPT ![ch] = @ \cup {q}]
      BY <1>3 DEF Wait, eventVars
    <2>2. /\ \A d \in Channels : q \notin waiters[d] /\ q \notin Members(lockers[d])
          /\ \A e \in Events : q \notin listening[e]
      BY <1>1, RunningOnNoList DEF Wait
    <2> DEFINE r == <<"signal", ch>>
               W == {ch}
               L == {}
               E == {}
    <2>3. \A d \in Channels : waiters'[d] = IF d \in W THEN waiters[d] \cup {q} ELSE waiters[d]
      BY <1>1, <2>1 DEF TypeOK
    <2>4. {<<"signal", d>> : d \in W} \cup {<<"lock", d>> : d \in L} \cup {<<"event", e>> : e \in E} = {r}
      OBVIOUS
    <2>5. r \in Promise!Reasons /\ r[1] = "signal" /\ r[2] = ch
      BY DEF Promise!Reasons
    <2>6. Blocks(q, r)
      <3>1. /\ \A d \in Channels : Members(lockers'[d]) = IF d \in L THEN Members(lockers[d]) \cup {q} ELSE Members(lockers[d])
            /\ \A e \in Events : listening'[e] = IF e \in E THEN listening[e] \cup {q} ELSE listening[e]
            /\ W \in SUBSET Channels /\ L \in SUBSET Channels /\ E \in SUBSET Events
        BY <2>1
      <3> HIDE DEF W, L, E, r
      <3> QED BY <2>2, <2>3, <2>4, <3>1, ListsGain
    <2>7. \A d \in Channels : (r = <<"signal", d>> => ~woken[d]) /\ (r = <<"lock", d>> => locked[d])
      BY <1>3
    <2> HIDE DEF r
    <2> QED BY <2>1, <2>5, <2>6, <2>7, QueuedBlocks
  <1> QED BY <1>2, <1>3

LEMMA ListenPromised ==
  ASSUME IInv, NEW q \in Queues, NEW e \in Events, Listen(q, e)
  PROVE  PromiseStep
  <1>1. TypeOK /\ ListsAgree
    BY DEF IInv
  <1>2. /\ UNCHANGED <<locked, woken, lockers, waiters>>
        /\ listening' = [listening EXCEPT ![e] = @ \cup {q}]
    BY DEF Listen, channelVars
  <1>3. /\ \A d \in Channels : q \notin waiters[d] /\ q \notin Members(lockers[d])
        /\ \A f \in Events : q \notin listening[f]
    BY <1>1, RunningOnNoList DEF Listen
  <1> DEFINE r == <<"event", e>>
             W == {}
             L == {}
             E == {e}
  <1>4. \A f \in Events : listening'[f] = IF f \in E THEN listening[f] \cup {q} ELSE listening[f]
    BY <1>1, <1>2 DEF TypeOK
  <1>5. {<<"signal", d>> : d \in W} \cup {<<"lock", d>> : d \in L} \cup {<<"event", f>> : f \in E} = {r}
    OBVIOUS
  <1>6. r \in Promise!Reasons /\ r[1] = "event"
    BY DEF Promise!Reasons
  <1>7. Blocks(q, r)
    <2>1. /\ \A d \in Channels :
               /\ waiters'[d] = IF d \in W THEN waiters[d] \cup {q} ELSE waiters[d]
               /\ Members(lockers'[d]) = IF d \in L THEN Members(lockers[d]) \cup {q} ELSE Members(lockers[d])
          /\ W \in SUBSET Channels /\ L \in SUBSET Channels /\ E \in SUBSET Events
      BY <1>2
    <2> HIDE DEF W, L, E, r
    <2> QED BY <1>3, <1>4, <1>5, <2>1, ListsGain
  <1>8. \A d \in Channels : r # <<"signal", d>> /\ r # <<"lock", d>>
    OBVIOUS
  <1> HIDE DEF r
  <1> QED BY <1>2, <1>6, <1>7, <1>8, QueuedBlocks

LEMMA LockPromised ==
  ASSUME IInv, NEW q \in Queues, NEW ch \in Channels, Lock(q, ch)
  PROVE  PromiseStep
  <1>1. TypeOK /\ ListsAgree
    BY DEF IInv
  <1>2. CASE ~locked[ch]
    <2>1. /\ UNCHANGED <<waiters, lockers, listening, woken>>
          /\ locked' = [locked EXCEPT ![ch] = TRUE]
      BY <1>2 DEF Lock, eventVars
    <2>2. UNCHANGED <<Queued, Pending>>
      BY <2>1, ListsSame, QueuedSame DEF Pending
    <2>3. ch \notin Taken /\ Taken' = Taken \cup {ch}
      BY <1>1, <1>2, <2>1 DEF Taken, TypeOK
    <2>4. Promise!TakeLock(ch)
      BY <2>2, <2>3 DEF Promise!TakeLock, Queued, Taken, Pending
    <2> QED BY <2>4 DEF PromiseStep, Promise!Next
  <1>3. CASE locked[ch]
    <2>1. /\ UNCHANGED <<locked, woken, waiters, listening>>
          /\ lockers' = [lockers EXCEPT ![ch] = InsertTail(@, q)]
      BY <1>3 DEF Lock, eventVars
    <2>2. /\ \A d \in Channels : q \notin waiters[d] /\ q \notin Members(lockers[d])
          /\ \A e \in Events : q \notin listening[e]
      BY <1>1, RunningOnNoList DEF Lock
    <2> DEFINE r == <<"lock", ch>>
               W == {}
               L == {ch}
               E == {}
    <2>3. \A d \in Channels : Members(lockers'[d]) = IF d \in L THEN Members(lockers[d]) \cup {q} ELSE Members(lockers[d])
      <3>1. lockers[ch] \in Seq(Queues)
        BY <1>1 DEF TypeOK
      <3>2. Members(InsertTail(lockers[ch], q)) = Members(lockers[ch]) \cup {q}
        BY <3>1, InsertTailList
      <3>3. \A d \in Channels : lockers'[d] = IF d = ch THEN InsertTail(lockers[ch], q) ELSE lockers[d]
        BY <1>1, <2>1 DEF TypeOK
      <3> QED BY <3>2, <3>3
    <2>4. {<<"signal", d>> : d \in W} \cup {<<"lock", d>> : d \in L} \cup {<<"event", e>> : e \in E} = {r}
      OBVIOUS
    <2>5. r \in Promise!Reasons /\ r[1] = "lock" /\ r[2] = ch
      BY DEF Promise!Reasons
    <2>6. Blocks(q, r)
      <3>1. /\ \A d \in Channels : waiters'[d] = IF d \in W THEN waiters[d] \cup {q} ELSE waiters[d]
            /\ \A e \in Events : listening'[e] = IF e \in E THEN listening[e] \cup {q} ELSE listening[e]
            /\ W \in SUBSET Channels /\ L \in SUBSET Channels /\ E \in SUBSET Events
        BY <2>1
      <3> HIDE DEF W, L, E, r
      <3> QED BY <2>2, <2>3, <2>4, <3>1, ListsGain
    <2>7. \A d \in Channels : (r = <<"signal", d>> => ~woken[d]) /\ (r = <<"lock", d>> => locked[d])
      BY <1>3
    <2> HIDE DEF r
    <2> QED BY <2>1, <2>5, <2>6, <2>7, QueuedBlocks
  <1> QED BY <1>1, <1>2, <1>3 DEF TypeOK

LEMMA SignalPromised ==
  ASSUME IInv, NEW q \in Queues, NEW ch \in Channels, Signal(q, ch)
  PROVE  PromiseStep
  <1>1. TypeOK /\ ListedOnce /\ SignalNotMissed
    BY DEF IInv, ListsAgree, ChannelsAgree
  <1>2. /\ Promise!BlockedFor(<<"signal", ch>>) = waiters[ch]
        /\ UNCHANGED <<locked, lockers, listening>>
    BY <1>1, BlockedForReason DEF Signal, eventVars
  <1>3. CASE StaysPending(ch)
    <2>1. UNCHANGED waiters /\ woken' = [woken EXCEPT ![ch] = TRUE] /\ waiters[ch] = {}
      BY <1>3 DEF Signal, StaysPending
    <2>2. UNCHANGED <<Queued, Taken>> /\ Pending' = Pending \cup {ch}
      BY <1>1, <1>2, <2>1, ListsSame, QueuedSame DEF Taken, Pending, TypeOK
    <2>3. Promise!Signal(ch)
      BY <1>2, <2>1, <2>2 DEF Promise!Signal, Queued, Taken, Pending
    <2> QED BY <2>3 DEF PromiseStep, Promise!Next
  <1>4. CASE waiters[ch] = {} /\ woken[ch]
    <2>1. ~StaysPending(ch)
      BY <1>4 DEF StaysPending
    <2>2. woken' = [woken EXCEPT ![ch] = locked[ch]] /\ waiters' = waiters
      <3>1. /\ waiters' = [waiters EXCEPT ![ch] = {}]
            /\ woken' = [woken EXCEPT ![ch] = @ /\ ~Spent(locked[ch], woken[ch], {})]
        BY <2>1 DEF Signal
      <3>2. locked[ch] \in BOOLEAN
        BY <1>1 DEF TypeOK
      <3>3. (woken[ch] /\ ~Spent(locked[ch], woken[ch], {})) = locked[ch]
        BY <1>4, <3>2 DEF Spent
      <3>4. waiters' = waiters
        BY <1>1, <1>4, <3>1 DEF TypeOK
      <3> QED BY <3>1, <3>3, <3>4
    <2> QED BY <1>1, <1>2, <1>4, <2>2, TakesSignal
  <1>5. CASE waiters[ch] # {}
    <2>1. ~StaysPending(ch) /\ ~woken[ch]
      BY <1>1, <1>5 DEF StaysPending, SignalNotMissed
    <2>2. woken' = woken /\ waiters' = [waiters EXCEPT ![ch] = {}]
      <3>1. /\ waiters' = [waiters EXCEPT ![ch] = {}]
            /\ woken' = [woken EXCEPT ![ch] = @ /\ ~Spent(locked[ch], woken[ch], {})]
        BY <2>1 DEF Signal
      <3>2. woken[ch] = FALSE /\ woken \in [Channels -> BOOLEAN]
        BY <1>1, <2>1 DEF TypeOK
      <3>3. (woken[ch] /\ ~Spent(locked[ch], woken[ch], {})) = FALSE
        BY <3>2
      <3>4. woken' = [woken EXCEPT ![ch] = FALSE]
        BY <3>1, <3>3
      <3> QED BY <3>1, <3>2, <3>4
    <2>3. Releases(waiters[ch])
      <3> DEFINE Q == waiters[ch]
      <3>1. /\ \A d \in Channels : /\ waiters'[d] = waiters[d] \ Q
                                   /\ Members(lockers'[d]) = Members(lockers[d]) \ Q
            /\ \A e \in Events : listening'[e] = listening[e] \ Q
        BY <1>1, <1>2, <2>2 DEF TypeOK, ListedOnce
      <3> HIDE DEF Q
      <3> QED BY <3>1, ListsLose DEF Q
    <2>4. Promise!Release(waiters[ch]) /\ UNCHANGED <<Taken, Pending>>
      BY <1>2, <2>2, <2>3, QueuedReleases, FlagsSame
    <2>5. Promise!Signal(ch)
      BY <1>2, <1>5, <2>4 DEF Promise!Signal, Queued, Taken, Pending
    <2> QED BY <2>5 DEF PromiseStep, Promise!Next
  <1> QED BY <1>1, <1>3, <1>4, <1>5 DEF StaysPending, TypeOK

LEMMA UnlockPromised ==
  ASSUME IInv, NEW q \in Queues, NEW ch \in Channels, Unlock(q, ch)
  PROVE  PromiseStep
  <1>1. TypeOK /\ ListedOnce /\ SignalNotMissed
    BY DEF IInv, ListsAgree, ChannelsAgree
  <1>2. /\ Promise!BlockedFor(<<"lock", ch>>) = Members(lockers[ch])
        /\ UNCHANGED <<waiters, listening>> /\ locked[ch] /\ ch \in Taken
    BY <1>1, BlockedForReason DEF Unlock, eventVars, Taken
  <1>3. CASE lockers[ch] # <<>>
    <2> DEFINE s == lockers[ch]
               w == Head(s)
    <2>1. /\ lockers' = [lockers EXCEPT ![ch] = Tail(s)]
          /\ UNCHANGED <<locked, woken>>
      BY <1>3 DEF Unlock
    <2>2. w \in Members(s) /\ Members(Tail(s)) = Members(s) \ {w}
      BY <1>1, <1>3, TailList DEF TypeOK, ListedOnce
    <2> HIDE DEF w
    <2>3. Releases({w})
      <3>1. \A d \in Channels : Members(lockers'[d]) = Members(lockers[d]) \ {w}
        <4>1. \A d \in Channels : lockers'[d] = IF d = ch THEN Tail(s) ELSE lockers[d]
          BY <1>1, <2>1 DEF TypeOK
        <4>2. \A d \in Channels : d # ch => w \notin Members(lockers[d])
          BY <1>1, <2>2 DEF ListedOnce
        <4> QED BY <2>2, <4>1, <4>2
      <3>2. /\ \A d \in Channels : waiters'[d] = waiters[d] \ {w}
            /\ \A e \in Events : listening'[e] = listening[e] \ {w}
        BY <1>1, <1>2, <2>2 DEF ListedOnce
      <3> QED BY <3>1, <3>2, ListsLose
    <2>4. Promise!Release({w}) /\ UNCHANGED <<Taken, Pending>>
      BY <2>1, <2>3, QueuedReleases, FlagsSame
    <2>5. Promise!Unlock(ch)
      BY <1>2, <2>2, <2>4 DEF Promise!Unlock, Queued, Taken, Pending
    <2> QED BY <2>5 DEF PromiseStep, Promise!Next
  <1>4. CASE lockers[ch] = <<>>
    <2>1. /\ UNCHANGED lockers
          /\ locked' = [locked EXCEPT ![ch] = FALSE]
          /\ woken' = [woken EXCEPT ![ch] = FALSE]
      BY <1>1, <1>4 DEF Unlock, Spent, SignalNotMissed, TypeOK
    <2>2. UNCHANGED Queued
      BY <1>2, <2>1, ListsSame, QueuedSame
    <2>3. Taken' = Taken \ {ch} /\ Pending' = Pending \ {ch}
      BY <1>1, <2>1 DEF TypeOK, Taken, Pending
    <2>4. Members(lockers[ch]) = {}
      BY <1>4 DEF Members
    <2>5. Promise!Unlock(ch)
      BY <1>2, <2>2, <2>3, <2>4 DEF Promise!Unlock, Queued, Taken, Pending
    <2> QED BY <2>5 DEF PromiseStep, Promise!Next
  <1> QED BY <1>3, <1>4

LEMMA WakePromised ==
  ASSUME IInv, NEW q \in Queues, NEW ch \in Channels, NEW w \in Queues, Wake(q, ch, w)
  PROVE  PromiseStep
  <1>1. TypeOK /\ ListedOnce
    BY DEF IInv, ListsAgree
  <1>2. /\ waiters' = [waiters EXCEPT ![ch] = @ \ {w}]
        /\ lockers' = [lockers EXCEPT ![ch] = IF w \in waiters[ch] THEN @ ELSE Without(@, w)]
        /\ UNCHANGED <<woken, locked, listening>> /\ w \in waiters[ch] \cup Members(lockers[ch])
    BY DEF Wake, eventVars, Found
  <1>3. \A d \in Channels : Members(lockers'[d]) = Members(lockers[d]) \ {w}
    <2>1. CASE w \in waiters[ch]
      <3>1. \A d \in Channels : lockers'[d] = lockers[d] /\ w \notin Members(lockers[d])
        BY <1>1, <1>2, <2>1 DEF TypeOK, ListedOnce
      <3> QED BY <3>1
    <2>2. CASE w \notin waiters[ch]
      <3>1. Members(Without(lockers[ch], w)) = Members(lockers[ch]) \ {w}
        BY <1>1, WithoutList DEF TypeOK, ListedOnce
      <3>2. \A d \in Channels : lockers'[d] = IF d = ch THEN Without(lockers[ch], w) ELSE lockers[d]
        BY <1>1, <1>2, <2>2 DEF TypeOK
      <3>3. \A d \in Channels : d # ch => w \notin Members(lockers[d])
        BY <1>1, <1>2, <2>2 DEF ListedOnce
      <3> QED BY <3>1, <3>2, <3>3
    <2> QED BY <2>1, <2>2
  <1>4. \A d \in Channels : waiters'[d] = waiters[d] \ {w}
    BY <1>1, <1>2 DEF TypeOK, ListedOnce
  <1>5. \A e \in Events : listening'[e] = listening[e] \ {w}
    BY <1>1, <1>2 DEF ListedOnce
  <1>6. Releases({w})
    BY <1>3, <1>4, <1>5, ListsLose
  <1> QED BY <1>2, <1>6, QueuedReleaseSome

LEMMA ListenersPromised ==
  ASSUME IInv, NEW e \in Events, NEW gone, gone \subseteq listening[e],
         listening' = [listening EXCEPT ![e] = @ \ gone], UNCHANGED channelVars
  PROVE  PromiseStep
  <1>1. TypeOK /\ ListedOnce /\ UNCHANGED <<woken, locked, waiters, lockers>>
    BY DEF IInv, ListsAgree, channelVars
  <1>2. \A d \in Channels : waiters'[d] = waiters[d] \ gone /\ Members(lockers'[d]) = Members(lockers[d]) \ gone
    BY <1>1 DEF ListedOnce
  <1>3. \A f \in Events : listening'[f] = listening[f] \ gone
    BY <1>1 DEF TypeOK, ListedOnce
  <1>4. Releases(gone)
    BY <1>2, <1>3, ListsLose
  <1> QED BY <1>1, <1>4, QueuedReleaseSome

LEMMA WakeListenerPromised ==
  ASSUME IInv, NEW q \in Queues, NEW e \in Events, NEW w \in Queues, WakeListener(q, e, w)
  PROVE  PromiseStep
  <1>1. {w} \subseteq listening[e]
    BY DEF WakeListener
  <1> QED BY <1>1, ListenersPromised DEF WakeListener

LEMMA FireEventPromised ==
  ASSUME IInv, NEW e \in Events, NEW pass \in SUBSET Queues, FireEvent(e, pass)
  PROVE  PromiseStep
  <1> DEFINE woke == listening[e] \cap (pass \cup (Queues \ filtered))
  <1>1. woke \subseteq listening[e]
    OBVIOUS
  <1> QED BY <1>1, ListenersPromised DEF FireEvent

LEMMA ClientLostPromised ==
  ASSUME IInv, NEW c \in Clients, ClientLost(c)
  PROVE  PromiseStep
  <1> DEFINE gone == ItemsOf(c)
             Others(s) == LET t == Without(s, c)
                          IN  IF Global \in gone THEN Without(t, Global) ELSE t
  <1>1. TypeOK /\ ListedOnce
    BY DEF IInv, ListsAgree
  <1>2. /\ UNCHANGED <<woken, locked>>
        /\ \A ch \in Channels : /\ waiters'[ch] = waiters[ch] \ gone
                                /\ lockers'[ch] = Others(lockers[ch])
        /\ \A e \in Events : listening'[e] = listening[e] \ gone
    BY DEF ClientLost
  <1>3. gone = IF Global \in gone THEN {c, Global} ELSE {c}
    BY QueueAssumption DEF ItemsOf, ClientOf
  <1> HIDE DEF gone
  <1>4. ASSUME NEW ch \in Channels PROVE Members(lockers'[ch]) = Members(lockers[ch]) \ gone
    <2> DEFINE t == Without(lockers[ch], c)
    <2>1. t \in Seq(Queues) /\ Members(t) = Members(lockers[ch]) \ {c} /\ Distinct(t)
      BY <1>1, WithoutList DEF TypeOK, ListedOnce
    <2>2. lockers'[ch] = IF Global \in gone THEN Without(t, Global) ELSE t
      BY <1>2
    <2> HIDE DEF t
    <2>3. Members(Without(t, Global)) = Members(t) \ {Global}
      BY <2>1, WithoutList
    <2> QED BY <1>3, <2>1, <2>2, <2>3
  <1>5. Releases(gone)
    BY <1>2, <1>4, ListsLose
  <1> QED BY <1>2, <1>5, QueuedReleaseSome

LEMMA FlushPromised ==
  ASSUME IInv, Flush
  PROVE  PromiseStep
  <1>1. \A q \in Queues : BlockedOn(q)' = {}
    <2>1. Members(<<>>) = {}
      BY DEF Members
    <2>2. /\ \A ch \in Channels : waiters'[ch] = {} /\ Members(lockers'[ch]) = {}
          /\ \A e \in Events : listening'[e] = {}
      BY <2>1 DEF Flush
    <2>3. ASSUME NEW q \in Queues
          PROVE  /\ {d \in Channels : q \in waiters'[d]} = {}
                 /\ {d \in Channels : q \in Members(lockers'[d])} = {}
                 /\ {f \in Events : q \in listening'[f]} = {}
      BY <2>2
    <2> QED BY <2>3 DEF BlockedOn
  <1>2. Releases(Queues)
    BY <1>1 DEF Releases
  <1>3. Promise!Release(Queues) /\ Promise!Queues = Queues
    BY <1>2, QueuedReleases DEF Promise!Queues, Queues
  <1>4. Taken' = {} /\ Pending' = {}
    BY DEF Flush, Taken, Pending
  <1>5. Promise!ReleaseAll
    BY <1>3, <1>4 DEF Promise!ReleaseAll, Taken, Pending
  <1> QED BY <1>5 DEF PromiseStep, Promise!Next

LEMMA StepPromised == IInv /\ [Next]_vars => PromiseStep
  <1> SUFFICES ASSUME IInv, [Next]_vars PROVE PromiseStep
    OBVIOUS
  <1>1. ASSUME NEW q \in Queues, Command(q) PROVE PromiseStep
    BY <1>1, WaitPromised, SignalPromised, LockPromised, UnlockPromised, WakePromised,
       ListenPromised, WakeListenerPromised DEF Command
  <1>2. ASSUME UNCHANGED <<channelVars, eventVars>> PROVE PromiseStep
    BY <1>2, ListsSame, QueuedSame, FlagsSame DEF PromiseStep, channelVars, eventVars
  <1>3. ASSUME NEW c \in Clients, Connect(c) \/ Attach(c) \/ Detach(c) PROVE PromiseStep
    BY <1>2, <1>3 DEF Connect, Attach, Detach
  <1>4. CASE KeepChange
    BY <1>2, <1>4 DEF KeepChange
  <1>5. CASE UNCHANGED vars
    BY <1>2, <1>5 DEF vars, channelVars, eventVars
  <1> QED
    BY <1>1, <1>3, <1>4, <1>5, FireEventPromised, ClientLostPromised, FlushPromised DEF Next

LEMMA InitPromised == Init => Promise!Init
  <1> SUFFICES ASSUME Init PROVE Promise!Init
    OBVIOUS
  <1>1. \A q \in Queues : BlockedOn(q) = {}
    <2>1. Members(<<>>) = {}
      BY DEF Members
    <2>2. ASSUME NEW q \in Queues
          PROVE  /\ {d \in Channels : q \in waiters[d]} = {}
                 /\ {d \in Channels : q \in Members(lockers[d])} = {}
                 /\ {f \in Events : q \in listening[f]} = {}
      BY <2>1 DEF Init
    <2> QED BY <2>2 DEF BlockedOn
  <1>2. {ch \in Channels : locked[ch]} = {} /\ {ch \in Channels : woken[ch]} = {}
    BY DEF Init
  <1> QED BY <1>1, <1>2 DEF Promise!Init, Promise!Queues, Queues

(* The lists of cmd-wait-for.c and its channels, made and removed as they  *)
(* are needed, do what wait-for promises, whatever the number of clients,  *)
(* channels and events: a queue that is blocked is blocked for one reason  *)
(* and is released by what it waits for, an unlock lets one locker in, and *)
(* a signal nobody waits for is kept for the next wait.                    *)
THEOREM WaitForImplementsPromise == Spec => ImplementsPromise
  <1>1. IInv /\ [Next]_vars => [Promise!Next]_<<Queued, Taken, Pending>>
    BY StepPromised DEF PromiseStep
  <1> QED BY <1>1, Invariance, InitPromised, PTL
          DEF Spec, ImplementsPromise, Promise!Spec, Queued, Taken, Pending
-----------------------------------------------------------------------------
(* The order of the lockers: what stays on a list stays in its order, and  *)
(* what joins it is behind the rest.                                       *)

Keeps(s, t) ==
  \A i, j \in DOMAIN t : i < j =>
    \E k, l \in DOMAIN s : k < l /\ s[k] = t[i] /\ s[l] = t[j]
Follows(s, t) ==
  \A i, j \in DOMAIN t : i < j =>
    \/ t[j] \notin Members(s)
    \/ \E k, l \in DOMAIN s : k < l /\ s[k] = t[i] /\ s[l] = t[j]

LEMMA KeepsFollows ==
  ASSUME NEW s, NEW t, Keeps(s, t)
  PROVE  Follows(s, t)
  BY DEF Keeps, Follows

LEMMA SameKeeps ==
  ASSUME NEW s
  PROVE  Keeps(s, s) /\ Keeps(s, <<>>)
  BY DEF Keeps

LEMMA KeepsTransitive ==
  ASSUME NEW s, NEW t, NEW u, Keeps(s, t), Keeps(t, u)
  PROVE  Keeps(s, u)
  BY DEF Keeps

LEMMA InsertTailFollows ==
  ASSUME NEW s \in Seq(Queues), NEW q \in Queues, q \notin Members(s)
  PROVE  Follows(s, InsertTail(s, q))
  <1> DEFINE t == InsertTail(s, q)
  <1>1. /\ DOMAIN s = 1 .. Len(s) /\ DOMAIN t = 1 .. Len(s) + 1 /\ Len(s) \in Nat
        /\ t[Len(s) + 1] = q /\ \A i \in 1 .. Len(s) : t[i] = s[i]
    BY DEF InsertTail
  <1> HIDE DEF t
  <1>2. ASSUME NEW i \in DOMAIN t, NEW j \in DOMAIN t, i < j, t[j] \in Members(s)
        PROVE  \E k, l \in DOMAIN s : k < l /\ s[k] = t[i] /\ s[l] = t[j]
    <2>1. j # Len(s) + 1
      BY <1>1, <1>2
    <2>2. i \in DOMAIN s /\ j \in DOMAIN s
      BY <1>1, <1>2, <2>1
    <2> QED BY <1>1, <1>2, <2>2
  <1> QED BY <1>2 DEF Follows, t

LEMMA TailKeeps ==
  ASSUME NEW s \in Seq(Queues), s # <<>>
  PROVE  Keeps(s, Tail(s))
  <1>1. /\ DOMAIN s = 1 .. Len(s) /\ DOMAIN Tail(s) = 1 .. Len(s) - 1 /\ Len(s) \in Nat
        /\ \A i \in DOMAIN Tail(s) : i + 1 \in DOMAIN s /\ Tail(s)[i] = s[i + 1]
    OBVIOUS
  <1>2. \A i, j \in DOMAIN Tail(s) : i < j => i + 1 < j + 1
    BY <1>1
  <1> QED BY <1>1, <1>2 DEF Keeps

LEMMA WithoutKeeps ==
  ASSUME NEW s \in Seq(Queues), NEW q
  PROVE  Without(s, q) \in Seq(Queues) /\ Keeps(s, Without(s, q))
  <1>1. CASE q \notin Members(s)
    BY <1>1, SameKeeps DEF Without
  <1>2. CASE q \in Members(s)
    <2> DEFINE p == Position(s, q)
               t == Without(s, q)
    <2>1. p \in DOMAIN s
      BY <1>2 DEF Members, Position
    <2>2. DOMAIN s = 1 .. Len(s) /\ Len(s) \in Nat \ {0}
      BY <1>2 DEF Members
    <2>3. t = [j \in 1 .. Len(s) - 1 |-> IF j < p THEN s[j] ELSE s[j + 1]]
      BY <1>2 DEF Without
    <2> HIDE DEF p, t
    <2>4. t \in Seq(Queues) /\ DOMAIN t = 1 .. Len(s) - 1
      BY <2>1, <2>2, <2>3
    <2>5. \A i \in DOMAIN t : LET k == IF i < p THEN i ELSE i + 1
                              IN  k \in DOMAIN s /\ t[i] = s[k]
      BY <2>2, <2>3, <2>4
    <2>6. \A i, j \in DOMAIN t : i < j => (IF i < p THEN i ELSE i + 1) < (IF j < p THEN j ELSE j + 1)
      BY <2>1, <2>2, <2>4
    <2>7. Keeps(s, t)
      BY <2>5, <2>6 DEF Keeps
    <2> QED BY <2>4, <2>7 DEF t
  <1> QED BY <1>1, <1>2

LEMMA StepFollows ==
  ASSUME IInv, [Next]_vars, NEW ch \in Channels
  PROVE  Follows(lockers[ch], lockers'[ch])
  <1> DEFINE s == lockers[ch]
             t == lockers'[ch]
  <1>1. TypeOK /\ ListsAgree /\ s \in Seq(Queues)
    BY DEF IInv, TypeOK
  <1>2. CASE UNCHANGED lockers
    BY <1>2, SameKeeps, KeepsFollows
  <1>3. ASSUME NEW q \in Queues, NEW d \in Channels, Lock(q, d) PROVE Follows(s, t)
    <2>1. CASE locked[d]
      <3>1. t = IF ch = d THEN InsertTail(s, q) ELSE s
        BY <1>1, <1>3, <2>1 DEF Lock, TypeOK
      <3>2. q \notin Members(s)
        BY <1>1, <1>3, RunningOnNoList DEF Lock
      <3> QED BY <1>1, <3>1, <3>2, InsertTailFollows, SameKeeps, KeepsFollows
    <2>2. CASE ~locked[d]
      BY <1>2, <1>3, <2>2 DEF Lock
    <2> QED BY <2>1, <2>2
  <1>4. ASSUME NEW q \in Queues, NEW d \in Channels, Unlock(q, d) PROVE Follows(s, t)
    <2>1. CASE lockers[d] # <<>>
      <3>1. t = IF ch = d THEN Tail(s) ELSE s
        BY <1>1, <1>4, <2>1 DEF Unlock, TypeOK
      <3> QED BY <1>1, <2>1, <3>1, TailKeeps, SameKeeps, KeepsFollows
    <2>2. CASE lockers[d] = <<>>
      BY <1>2, <1>4, <2>2 DEF Unlock
    <2> QED BY <2>1, <2>2
  <1>5. ASSUME NEW q \in Queues, NEW d \in Channels, NEW w \in Queues, Wake(q, d, w)
        PROVE  Follows(s, t)
    <2>1. t = s \/ t = Without(s, w)
      BY <1>1, <1>5 DEF Wake, TypeOK
    <2> QED BY <1>1, <2>1, WithoutKeeps, SameKeeps, KeepsFollows
  <1>6. ASSUME NEW c \in Clients, ClientLost(c) PROVE Follows(s, t)
    <2> DEFINE u == Without(s, c)
    <2>1. t = u \/ t = Without(u, Global)
      BY <1>6 DEF ClientLost
    <2>2. u \in Seq(Queues) /\ Keeps(s, u) /\ Keeps(u, Without(u, Global))
      BY <1>1, WithoutKeeps
    <2> HIDE DEF u
    <2> QED BY <2>1, <2>2, KeepsTransitive, KeepsFollows
  <1>7. CASE Flush
    BY <1>7, SameKeeps, KeepsFollows DEF Flush
  <1>8. ASSUME NEW q \in Queues, Command(q) PROVE Follows(s, t)
    <2>1. ASSUME NEW d \in Channels, Wait(q, d) \/ Signal(q, d) PROVE Follows(s, t)
      BY <1>2, <2>1 DEF Wait, Signal
    <2>2. ASSUME NEW e \in Events, Listen(q, e) PROVE Follows(s, t)
      BY <1>2, <2>2 DEF Listen, channelVars
    <2>3. ASSUME NEW e \in Events, NEW w \in Queues, WakeListener(q, e, w) PROVE Follows(s, t)
      BY <1>2, <2>3 DEF WakeListener, channelVars
    <2> QED BY <1>3, <1>4, <1>5, <1>8, <2>1, <2>2, <2>3 DEF Command
  <1>9. ASSUME NEW e \in Events, NEW pass, FireEvent(e, pass) PROVE Follows(s, t)
    BY <1>2, <1>9 DEF FireEvent, channelVars
  <1>10. ASSUME NEW c \in Clients, Connect(c) \/ Attach(c) \/ Detach(c) PROVE Follows(s, t)
    BY <1>2, <1>10 DEF Connect, Attach, Detach, channelVars
  <1>11. CASE KeepChange \/ UNCHANGED vars
    BY <1>2, <1>11 DEF KeepChange, vars, channelVars
  <1> QED BY <1>6, <1>7, <1>8, <1>9, <1>10, <1>11 DEF Next

(* The lock of a channel passes to its lockers in the order they came: no  *)
(* wake, lost client or unlock lets one overtake another.                  *)
THEOREM LockersInOrder == Spec => LockersFIFO
  <1>1. IInv /\ [Next]_vars => \A ch \in Channels : Follows(lockers[ch], lockers'[ch])
    BY StepFollows
  <1>2. IInv /\ [Next]_vars =>
          [\A ch \in Channels : \A i, j \in DOMAIN lockers'[ch] : i < j =>
             \/ lockers'[ch][j] \notin Members(lockers[ch])
             \/ \E k, l \in DOMAIN lockers[ch] :
                  k < l /\ lockers[ch][k] = lockers'[ch][i]
                        /\ lockers[ch][l] = lockers'[ch][j]]_vars
    BY <1>1 DEF Follows
  <1> QED BY <1>2, Invariance, PTL DEF Spec, LockersFIFO

-----------------------------------------------------------------------------
(* Events: the dispatch that wakes the event waiters.                       *)

Ahead(call, e) ==
  /\ call.at # NoSink
  /\ IF call.inside THEN generation[e] > generation[call.at]
     ELSE generation[e] >= generation[call.at]
StillOwed(call) ==
  {e \in sinks \ dead : /\ named[e] = call.name
                        /\ generation[e] <= call.generation
                        /\ Ahead(call, e)}
Coherent(call) ==
  /\ call.at \in sinks \cup {NoSink}
  /\ call.inside => call.at # NoSink
  /\ call.generation <= latest
  /\ call.owed = StillOwed(call)
StackCoherent == \A k \in DOMAIN stack : Coherent(stack[k])
DispatchInv ==
  /\ DispatchTypeOK
  /\ ListOrdered /\ StackCoherent /\ DeadFreed /\ OnlyOwedCalled
-----------------------------------------------------------------------------
(* The stack is a function on 1 .. Len(stack).                             *)
LEMMA StackShape ==
  ASSUME DispatchTypeOK
  PROVE  /\ Len(stack) \in Nat /\ DOMAIN stack = 1 .. Len(stack)
         /\ \A k \in DOMAIN stack : stack[k] \in Calls
         /\ stack # <<>> => /\ Len(stack) \in DOMAIN stack /\ Top \in Calls
                            /\ Top = stack[Len(stack)]
  BY DEF DispatchTypeOK, Top

(* Writing the top leaves the other calls.                                 *)
LEMMA SetTopShape ==
  ASSUME DispatchTypeOK, stack # <<>>, NEW call \in Calls
  PROVE  /\ SetTop(call) \in Seq(Calls)
         /\ SetTop(call) # <<>>
         /\ DOMAIN SetTop(call) = DOMAIN stack
         /\ \A k \in DOMAIN stack :
              SetTop(call)[k] = IF k = Len(stack) THEN call ELSE stack[k]
  <1>1. stack \in Seq(Calls) /\ Len(stack) \in Nat /\ Len(stack) # 0
    BY DEF DispatchTypeOK
  <1> QED BY <1>1 DEF SetTop

(* Moving on: the sinks ahead of the one that follows are those behind the *)
(* one that is left.                                                       *)
LEMMA AfterIsNext ==
  ASSUME DispatchTypeOK, NEW e \in sinks, NEW n \in After(e)
  PROVE  /\ n \in sinks \cup {NoSink}
         /\ \A f \in sinks : generation[f] > generation[e] <=>
              n # NoSink /\ generation[f] >= generation[n]
  <1> DEFINE S == {f \in sinks : generation[f] > generation[e]}
  <1>1. /\ \A f \in sinks : generation[f] \in Nat
        /\ NoSink \notin sinks
    BY EventsAssumption DEF DispatchTypeOK
  <1>2. CASE S = {}
    BY <1>1, <1>2 DEF After, FirstOf
  <1>3. CASE S # {}
    <2>1. n \in S /\ \A f \in S : generation[n] <= generation[f]
      BY <1>3 DEF After, FirstOf
    <2> QED BY <1>1, <2>1
  <1> QED BY <1>2, <1>3

LEMMA FirstIsFirst ==
  ASSUME DispatchTypeOK, NEW n \in FirstOf(sinks)
  PROVE  /\ n \in sinks \cup {NoSink}
         /\ \A f \in sinks : n # NoSink /\ generation[f] >= generation[n]
  <1>1. /\ \A f \in sinks : generation[f] \in Nat
        /\ NoSink \notin sinks
    BY EventsAssumption DEF DispatchTypeOK
  <1> QED BY <1>1 DEF FirstOf

(* A step that leaves the stack, and every call coherent that was.         *)
LEMMA CoherentElsewhere ==
  ASSUME DispatchTypeOK, StackCoherent, stack' = stack,
         \A call \in Calls : Coherent(call) => Coherent(call)'
  PROVE  StackCoherent'
  BY StackShape DEF StackCoherent, Coherent, StillOwed, Ahead

(* A step that only changes the top of the stack to a coherent call.       *)
LEMMA CoherentWithTop ==
  ASSUME DispatchTypeOK, StackCoherent, stack # <<>>, NEW call \in Calls, Coherent(call),
         stack' = SetTop(call),
         UNCHANGED <<sinks, named, dead, generation, latest>>
  PROVE  stack' \in Seq(Calls) /\ stack' # <<>> /\ StackCoherent'
  <1>1. \A c \in Calls : Coherent(c)' <=> Coherent(c)
    BY DEF Coherent, StillOwed, Ahead
  <1>2. \A k \in DOMAIN stack' : stack'[k] \in Calls /\ Coherent(stack'[k])
    BY StackShape, SetTopShape DEF StackCoherent
  <1> QED BY <1>1, <1>2, SetTopShape DEF StackCoherent, Coherent, StillOwed, Ahead

(* What remains owed when the sink a call stands on is left.               *)
LEMMA OwedAfter ==
  ASSUME DispatchTypeOK, ListOrdered, NEW call \in Calls, Coherent(call),
         call.at # NoSink, NEW n \in After(call.at),
         NEW next \in Calls, next.name = call.name,
         next.generation = call.generation, next.at = n, ~next.inside
  PROVE  /\ next.at \in sinks \cup {NoSink}
         /\ StillOwed(next) = StillOwed(call) \ {call.at}
  <1>1. /\ call.at \in sinks
        /\ n \in sinks \cup {NoSink}
        /\ \A f \in sinks : generation[f] > generation[call.at] <=>
             n # NoSink /\ generation[f] >= generation[n]
    BY AfterIsNext DEF Coherent
  <1>2. \A f \in sinks : /\ generation[f] \in Nat /\ generation[call.at] \in Nat
                         /\ generation[f] = generation[call.at] => f = call.at
    BY <1>1 DEF DispatchTypeOK, ListOrdered
  <1>3. \A f \in sinks : Ahead(next, f) <=> generation[f] > generation[call.at]
    BY <1>1 DEF Ahead
  <1>4. \A f \in sinks : Ahead(next, f) <=> Ahead(call, f) /\ f # call.at
    BY <1>1, <1>2, <1>3 DEF Ahead, Calls
  <1> QED BY <1>1, <1>4 DEF StillOwed
-----------------------------------------------------------------------------
LEMMA DispatchBase == DispatchInit => DispatchInv
  <1> SUFFICES ASSUME DispatchInit PROVE DispatchInv
    OBVIOUS
  <1>1. stack = <<>> /\ stack \in Seq(Calls) /\ DOMAIN stack = {}
    BY DEF DispatchInit
  <1>2. DispatchTypeOK
    BY <1>1 DEF DispatchInit, DispatchTypeOK
  <1> QED BY <1>1, <1>2
        DEF DispatchInit, DispatchInv, ListOrdered, StackCoherent, DeadFreed,
            OnlyOwedCalled

LEMMA AddStep ==
  ASSUME DispatchInv, NEW e \in Sinks, NEW name \in Names, Add(e, name)
  PROVE  DispatchInv'
  <1> USE DEF DispatchInv
  <1>1. /\ latest' = latest + 1 /\ sinks' = sinks \cup {e}
        /\ generation' \in [Sinks -> Nat] /\ named' \in [Sinks -> Names]
        /\ generation'[e] = latest + 1 /\ e \notin sinks
        /\ \A f \in sinks : generation'[f] = generation[f] /\ named'[f] = named[f]
        /\ UNCHANGED <<dead, stack, wrong>>
    BY DEF Add, DispatchTypeOK
  <1>2. DispatchTypeOK'
    BY <1>1 DEF DispatchTypeOK
  <1>3. ListOrdered'
    BY <1>1 DEF ListOrdered, DispatchTypeOK
  <1>4. ASSUME NEW call \in Calls, Coherent(call) PROVE Coherent(call)'
    <2>1. call.generation \in Nat /\ latest \in Nat /\ call.generation <= latest
      BY <1>4 DEF Calls, DispatchTypeOK, Coherent
    <2>2. e \notin StillOwed(call)'
      BY <1>1, <2>1 DEF StillOwed
    <2>3. \A f \in sinks : Ahead(call, f)' <=> Ahead(call, f)
      BY <1>1, <1>4 DEF Ahead, Coherent
    <2>4. StillOwed(call)' = StillOwed(call)
      BY <1>1, <2>2, <2>3 DEF StillOwed
    <2> QED BY <1>1, <1>4, <2>1, <2>4 DEF Coherent
  <1>5. StackCoherent'
    BY <1>1, <1>4, StackShape, CoherentElsewhere
  <1> QED BY <1>1, <1>2, <1>3, <1>5 DEF DeadFreed, OnlyOwedCalled

LEMMA FireStep ==
  ASSUME DispatchInv, NEW name \in Names, Fire(name)
  PROVE  DispatchInv'
  <1> USE DEF DispatchInv
  <1>1. PICK first \in FirstOf(sinks) :
          stack' = Append(stack,
            [name |-> name, generation |-> latest, at |-> first, inside |-> FALSE,
             owed |-> {e \in sinks \ dead : named[e] = name}])
    BY DEF Fire
  <1> DEFINE call == [name |-> name, generation |-> latest, at |-> first,
                      inside |-> FALSE,
                      owed |-> {e \in sinks \ dead : named[e] = name}]
  <1>2. /\ first \in sinks \cup {NoSink}
        /\ \A f \in sinks : first # NoSink /\ generation[f] >= generation[first]
    BY FirstIsFirst
  <1>3. call \in Calls
    BY <1>2 DEF Calls, DispatchTypeOK
  <1>4. Coherent(call)
    <2>1. StillOwed(call) = {e \in sinks \ dead : named[e] = name}
      BY <1>2 DEF StillOwed, Ahead, ListOrdered
    <2>2. /\ call.at = first /\ ~call.inside /\ call.generation = latest
          /\ call.owed = StillOwed(call)
      BY <2>1
    <2> HIDE DEF call
    <2> QED BY <1>2, <2>2 DEF Coherent, DispatchTypeOK
  <1> HIDE DEF call
  <1>5. /\ stack' \in Seq(Calls) /\ stack' # <<>>
        /\ \A k \in DOMAIN stack' : stack'[k] \in Calls /\ Coherent(stack'[k])
    <2>1. stack' = Append(stack, call) /\ stack \in Seq(Calls)
      BY <1>1 DEF call, DispatchTypeOK
    <2> QED BY <1>3, <1>4, <2>1, StackShape DEF StackCoherent
  <1>6. UNCHANGED <<sinks, named, dead, generation, latest, wrong>>
    BY DEF Fire
  <1>7. StackCoherent'
    BY <1>5, <1>6 DEF StackCoherent, Coherent, StillOwed, Ahead
  <1> QED BY <1>5, <1>6, <1>7
          DEF DispatchTypeOK, ListOrdered, DeadFreed, OnlyOwedCalled

LEMMA RemoveStep ==
  ASSUME DispatchInv, NEW e \in Sinks, Remove(e)
  PROVE  DispatchInv'
  <1> USE DEF DispatchInv
  <1>1. /\ e \in sinks \ dead
        /\ stack' = [k \in DOMAIN stack |-> [stack[k] EXCEPT !.owed = @ \ {e}]]
        /\ UNCHANGED <<named, generation, latest, wrong>>
    BY DEF Remove
  <1>2. CASE stack = <<>>
    <2>1. /\ sinks' = sinks \ {e} /\ dead' = dead
          /\ stack' = <<>> /\ DOMAIN stack' = {}
      BY <1>1, <1>2 DEF Remove, FreesNow
    <2> QED BY <1>1, <1>2, <2>1
            DEF DispatchTypeOK, ListOrdered, StackCoherent, DeadFreed, OnlyOwedCalled
  <1>3. CASE stack # <<>>
    <2>1. /\ sinks' = sinks /\ dead' = dead \cup {e}
      BY <1>3 DEF Remove, FreesNow
    <2>2. /\ DOMAIN stack' = DOMAIN stack
          /\ \A k \in DOMAIN stack :
               /\ stack'[k] \in Calls
               /\ stack'[k] = [stack[k] EXCEPT !.owed = @ \ {e}]
      BY <1>1, StackShape DEF Calls
    <2>3. stack' \in Seq(Calls) /\ stack' # <<>>
      BY <1>1, <1>3, <2>2, StackShape
    <2>4. ASSUME NEW k \in DOMAIN stack
          PROVE  /\ stack'[k].at = stack[k].at /\ stack'[k].name = stack[k].name
                 /\ stack'[k].generation = stack[k].generation
                 /\ stack'[k].inside = stack[k].inside
                 /\ stack'[k].owed = stack[k].owed \ {e}
      BY <2>2, StackShape DEF Calls
    <2>5. StackCoherent'
      BY <1>1, <2>1, <2>2, <2>4 DEF StackCoherent, Coherent, StillOwed, Ahead
    <2> QED BY <1>1, <2>1, <2>3, <2>5
            DEF DispatchTypeOK, ListOrdered, DeadFreed, OnlyOwedCalled
  <1> QED BY <1>2, <1>3

LEMMA SkipStep ==
  ASSUME DispatchInv, Skip
  PROVE  DispatchInv'
  <1> USE DEF DispatchInv
  <1>1. PICK n \in After(Top.at) : stack' = SetTop([Top EXCEPT !.at = n])
    BY DEF Skip
  <1> DEFINE next == [Top EXCEPT !.at = n]
  <1>2. /\ stack # <<>> /\ ~Top.inside /\ Top.at # NoSink /\ Skips(Top)
        /\ UNCHANGED <<sinks, named, dead, generation, latest, wrong>>
    BY DEF Skip, Looping
  <1>3. Top \in Calls /\ Coherent(Top)
    BY <1>2, StackShape DEF StackCoherent
  <1>4. n \in sinks \cup {NoSink}
    BY <1>2, <1>3, AfterIsNext DEF Coherent
  <1>5. /\ next \in Calls /\ next.at = n /\ next.name = Top.name
        /\ next.generation = Top.generation /\ ~next.inside
        /\ next.owed = Top.owed
    BY <1>2, <1>3, <1>4 DEF Calls, DispatchTypeOK
  <1>6. Top.at \notin StillOwed(Top)
    <2>1. Top.at \in sinks /\ Top.generation \in Nat /\ generation[Top.at] \in Nat
      BY <1>2, <1>3 DEF DispatchTypeOK, Calls, Coherent
    <2> QED BY <1>2, <2>1 DEF StillOwed, Skips
  <1> HIDE DEF next
  <1>7. Coherent(next)
    <2>1. /\ next.at \in sinks \cup {NoSink}
          /\ StillOwed(next) = StillOwed(Top) \ {Top.at}
      BY <1>2, <1>3, <1>5, OwedAfter
    <2> QED BY <1>3, <1>5, <1>6, <2>1 DEF Coherent
  <1>8. stack' \in Seq(Calls) /\ stack' # <<>> /\ StackCoherent'
    BY <1>1, <1>2, <1>5, <1>7, CoherentWithTop DEF next
  <1> QED BY <1>2, <1>8 DEF DispatchTypeOK, ListOrdered, DeadFreed, OnlyOwedCalled

LEMMA CallStep ==
  ASSUME DispatchInv, Call
  PROVE  DispatchInv'
  <1> USE DEF DispatchInv
  <1> DEFINE next == [Top EXCEPT !.inside = TRUE, !.owed = @ \ {Top.at}]
  <1>1. /\ stack # <<>> /\ ~Top.inside /\ Top.at # NoSink /\ ~Skips(Top)
        /\ stack' = SetTop(next)
        /\ wrong' = (wrong \/ Top.at \notin Top.owed)
        /\ UNCHANGED <<sinks, named, dead, generation, latest>>
    BY DEF Call, Looping
  <1>2. Top \in Calls /\ Coherent(Top)
    BY <1>1, StackShape DEF StackCoherent
  <1>3. /\ next \in Calls /\ next.at = Top.at /\ next.name = Top.name
        /\ next.generation = Top.generation /\ next.inside
        /\ next.owed = Top.owed \ {Top.at}
    BY <1>2 DEF Calls
  <1>4. Top.at \in sinks /\ generation[Top.at] \in Nat /\ Top.generation \in Nat
    BY <1>1, <1>2 DEF Coherent, DispatchTypeOK, Calls
  <1>5. Top.at \in StillOwed(Top)
    BY <1>1, <1>4 DEF StillOwed, Skips, Ahead
  <1>6. OnlyOwedCalled' /\ wrong' \in BOOLEAN
    BY <1>1, <1>2, <1>5 DEF Coherent, OnlyOwedCalled
  <1>7. \A f \in sinks : Ahead(next, f) <=> Ahead(Top, f) /\ f # Top.at
    BY <1>1, <1>3, <1>4 DEF Ahead, ListOrdered, DispatchTypeOK
  <1>8. Coherent(next)
    <2>1. StillOwed(next) = StillOwed(Top) \ {Top.at}
      BY <1>3, <1>7 DEF StillOwed
    <2> QED BY <1>1, <1>2, <1>3, <2>1 DEF Coherent
  <1> HIDE DEF next
  <1>9. stack' \in Seq(Calls) /\ stack' # <<>> /\ StackCoherent'
    BY <1>1, <1>3, <1>8, CoherentWithTop
  <1> QED BY <1>1, <1>6, <1>9 DEF DispatchTypeOK, ListOrdered, DeadFreed

LEMMA ReturnStep ==
  ASSUME DispatchInv, Return
  PROVE  DispatchInv'
  <1> USE DEF DispatchInv
  <1>1. PICK n \in After(Top.at) :
          stack' = SetTop([Top EXCEPT !.inside = FALSE, !.at = n])
    BY DEF Return
  <1> DEFINE next == [Top EXCEPT !.inside = FALSE, !.at = n]
  <1>2. /\ stack # <<>> /\ Top.inside
        /\ UNCHANGED <<sinks, named, dead, generation, latest, wrong>>
    BY DEF Return
  <1>3. Top \in Calls /\ Coherent(Top) /\ Top.at # NoSink
    BY <1>2, StackShape DEF StackCoherent, Coherent
  <1>4. n \in sinks \cup {NoSink}
    BY <1>3, AfterIsNext DEF Coherent
  <1>5. /\ next \in Calls /\ next.at = n /\ next.name = Top.name
        /\ next.generation = Top.generation /\ ~next.inside
        /\ next.owed = Top.owed
    BY <1>3, <1>4 DEF Calls, DispatchTypeOK
  <1>6. Top.at \notin StillOwed(Top)
    BY <1>2, <1>3 DEF StillOwed, Ahead, DispatchTypeOK, Coherent
  <1> HIDE DEF next
  <1>7. Coherent(next)
    <2>1. /\ next.at \in sinks \cup {NoSink}
          /\ StillOwed(next) = StillOwed(Top) \ {Top.at}
      BY <1>3, <1>5, OwedAfter
    <2> QED BY <1>3, <1>5, <1>6, <2>1 DEF Coherent
  <1>8. stack' \in Seq(Calls) /\ stack' # <<>> /\ StackCoherent'
    BY <1>1, <1>2, <1>5, <1>7, CoherentWithTop DEF next
  <1> QED BY <1>2, <1>8 DEF DispatchTypeOK, ListOrdered, DeadFreed, OnlyOwedCalled

LEMMA EndStep ==
  ASSUME DispatchInv, End
  PROVE  DispatchInv'
  <1> USE DEF DispatchInv
  <1>1. /\ stack # <<>> /\ stack' = SubSeq(stack, 1, Len(stack) - 1)
        /\ UNCHANGED <<named, generation, latest, wrong>>
    BY DEF End, Looping
  <1>2. stack \in Seq(Calls) /\ Len(stack) \in Nat /\ Len(stack) # 0
    BY <1>1 DEF DispatchTypeOK
  <1>3. /\ stack' \in Seq(Calls) /\ Len(stack') = Len(stack) - 1
        /\ DOMAIN stack' \subseteq DOMAIN stack
        /\ \A k \in DOMAIN stack' : stack'[k] = stack[k]
    <2> DEFINE m == Len(stack) - 1
    <2>1. m \in Nat /\ 1 .. m \subseteq 1 .. Len(stack)
      BY <1>2
    <2>2. stack' = [k \in 1 .. m |-> stack[k]]
      BY <1>1, <1>2
    <2>3. \A k \in 1 .. m : stack[k] \in Calls
      BY <1>2, <2>1
    <2> HIDE DEF m
    <2>4. stack' \in Seq(Calls) /\ Len(stack') = m /\ DOMAIN stack' = 1 .. m
      BY <2>1, <2>2, <2>3
    <2> QED BY <1>2, <2>1, <2>2, <2>4 DEF m
  <1>4. CASE Len(stack) = 1
    <2>1. sinks' = sinks \ dead /\ dead' = {}
      BY <1>4 DEF End, FreesDead
    <2>2. stack' = <<>> /\ DOMAIN stack' = {}
      BY <1>3, <1>4
    <2> QED BY <1>1, <1>3, <2>1, <2>2
            DEF DispatchTypeOK, ListOrdered, StackCoherent, DeadFreed, OnlyOwedCalled
  <1>5. CASE Len(stack) # 1
    <2>1. UNCHANGED <<sinks, dead>>
      BY <1>5 DEF End, FreesDead
    <2>2. stack' # <<>>
      BY <1>2, <1>3, <1>5
    <2>3. StackCoherent'
      BY <1>1, <1>3, <2>1 DEF StackCoherent, Coherent, StillOwed, Ahead
    <2> QED BY <1>1, <1>3, <2>1, <2>2, <2>3
            DEF DispatchTypeOK, ListOrdered, DeadFreed, OnlyOwedCalled
  <1> QED BY <1>4, <1>5
-----------------------------------------------------------------------------
LEMMA DispatchPreserved == DispatchInv /\ [DispatchNext]_dispatchVars => DispatchInv'
  <1> SUFFICES ASSUME DispatchInv, [DispatchNext]_dispatchVars PROVE DispatchInv'
    OBVIOUS
  <1>1. CASE UNCHANGED dispatchVars
    BY <1>1 DEF dispatchVars, DispatchInv, DispatchTypeOK, ListOrdered, StackCoherent, Coherent,
                StillOwed, Ahead, DeadFreed, OnlyOwedCalled
  <1>2. CASE DispatchNext
    BY <1>2, AddStep, RemoveStep, FireStep, SkipStep, CallStep, ReturnStep, EndStep
       DEF DispatchNext
  <1> QED BY <1>1, <1>2

LEMMA DispatchInvariant == DispatchSpec => []DispatchInv
  BY DispatchBase, DispatchPreserved, PTL DEF DispatchSpec

(* The list, the dead and the stack have their types.                      *)
THEOREM DispatchTypeCorrect == DispatchSpec => []DispatchTypeOK
  <1>1. DispatchInv => DispatchTypeOK
    BY DEF DispatchInv
  <1> QED BY <1>1, DispatchInvariant, PTL

(* The generations order the list.                                         *)
THEOREM GenerationsOrder == DispatchSpec => []ListOrdered
  <1>1. DispatchInv => ListOrdered
    BY DEF DispatchInv
  <1> QED BY <1>1, DispatchInvariant, PTL

(* However dispatches nest and whatever callbacks add or remove, a call of *)
(* events_fire never stands on a freed sink.                               *)
THEOREM NeverOnFreed == DispatchSpec => []StandsOnListed
  <1>1. DispatchInv => StandsOnListed
    BY DEF DispatchInv, StackCoherent, Coherent, StandsOnListed
  <1> QED BY <1>1, DispatchInvariant, PTL

(* It runs no callback that was removed, added since, or run before.       *)
THEOREM CalledWereOwed == DispatchSpec => []OnlyOwedCalled
  <1>1. DispatchInv => OnlyOwedCalled
    BY DEF DispatchInv
  <1> QED BY <1>1, DispatchInvariant, PTL

(* At the end of the list it has run all that it owed.                     *)
THEOREM AllOwedCalled == DispatchSpec => []NoneMissed
  <1>1. DispatchInv => NoneMissed
    BY DEF DispatchInv, StackCoherent, Coherent, StillOwed, Ahead, NoneMissed
  <1> QED BY <1>1, DispatchInvariant, PTL

(* No removed sink is kept when no call is left.                           *)
THEOREM NoDeadKept == DispatchSpec => []DeadFreed
  <1>1. DispatchInv => DeadFreed
    BY DEF DispatchInv
  <1> QED BY <1>1, DispatchInvariant, PTL

(* The list is safe to walk, and gives up the sinks that were removed, once *)
(* each.                                                                   *)
THEOREM SinksAreSafe == DispatchSpec => []SinksSafe
  BY DispatchTypeCorrect, NeverOnFreed, NoDeadKept, PTL DEF SinksSafe

(* A dispatch runs the callbacks it owes, and no other.                    *)
THEOREM CalledExactly == DispatchSpec => []CalledAsOwed
  BY CalledWereOwed, AllOwedCalled, PTL DEF CalledAsOwed
=============================================================================
