------------------------------ MODULE Sessions ------------------------------
(***************************************************************************)
(* Sessions, their winlinks and session groups (session.c, the winlinks of *)
(* window.c, server-fn.c and the commands that link, move, swap and kill   *)
(* windows).                                                               *)
(*                                                                         *)
(* A winlink is a session and an index: the program replaces the winlinks  *)
(* of a session when it synchronizes a group and maps its pointers to them *)
(* by index.  The operators below take the state of the sessions and give  *)
(* the state after a call of the function of that name.                    *)
(***************************************************************************)
EXTENDS Integers, Sequences, FiniteSets, FiniteSetsExt, Functions

CONSTANTS MaxSessions,  \* sessions are 1 .. MaxSessions, in the order of names
          Windows,
          MaxIndex,     \* INT_MAX
          BaseIndex,    \* the base-index option
          Renumbering,  \* sessions with renumber-windows
          Monitored     \* windows with monitor-activity

ASSUME SessionsAssumption ==
  /\ MaxSessions \in Nat /\ MaxIndex \in Nat /\ BaseIndex \in 0 .. MaxIndex
  /\ Renumbering \subseteq 1 .. MaxSessions /\ Monitored \subseteq Windows

Sessions == 1 .. MaxSessions
Indexes == 0 .. MaxIndex
NoIndex == -1

VARIABLES
  session,      \* the sessions, with s->windows, s->curw and s->lastw
  groups,       \* session_groups, each the sequence of its sessions
  queued        \* windows with w->alerts_queued, which holds a reference

vars == <<session, groups, queued>>

State == [session |-> session, groups |-> groups, queued |-> queued]
Become(st) ==
  session' = st.session /\ groups' = st.groups /\ queued' = st.queued

Dead == [alive |-> FALSE, windows |-> [i \in {} |-> {}], cur |-> NoIndex, lastw |-> <<>>]
Live == {s \in Sessions : session[s].alive}

Links(st, w) ==
  {l \in Sessions \X Indexes : /\ l[2] \in DOMAIN st.session[l[1]].windows
                               /\ st.session[l[1]].windows[l[2]] = w}
Linked(st) == UNION {Range(st.session[s].windows) : s \in Sessions}
Existing(st) == Linked(st) \cup st.queued
References(st, w) == Cardinality(Links(st, w)) + (IF w \in st.queued THEN 1 ELSE 0)

Init ==
  /\ session = [s \in Sessions |-> Dead]
  /\ groups = {} /\ queued = {}
-----------------------------------------------------------------------------
(* Definitions named X_slip are X as a plausible mistake would have it: no  *)
(* specification uses them, they show that a property notices the mistake. *)

(* The elements of a sequence that are in S, in order.                     *)
Kept(seq, S) ==
  LET kept[n \in 0 .. Len(seq)] ==
        IF n = 0 THEN <<>>
        ELSE IF seq[n] \in S THEN Append(kept[n - 1], seq[n]) ELSE kept[n - 1]
  IN  kept[Len(seq)]
Without(seq, i) == Kept(seq, Range(seq) \ {i})
Only(f, S) == [i \in DOMAIN f \cap S |-> f[i]]
With(f, i, w) == [j \in DOMAIN f \cup {i} |-> IF j = i THEN w ELSE f[j]]

(* alerts_queue, by window_update_activity                                 *)
Queue(st, W) == [st EXCEPT !.queued = @ \cup (W \cap Monitored)]

(* session_set_current, of a session r: alerts_queue is for those who call. *)
Pushed(r, i) ==
  LET rest == Without(r.lastw, i)
  IN  IF r.cur = NoIndex THEN rest ELSE <<r.cur>> \o Without(rest, r.cur)
Current(r, i) == IF i = r.cur THEN r ELSE [r EXCEPT !.cur = i, !.lastw = Pushed(r, i)]
SetCurrent(st, s, i) ==
  LET r == st.session[s]
  IN  IF i = r.cur THEN st
      ELSE Queue([st EXCEPT !.session[s] = Current(r, i)], {r.windows[i]})

(* winlink_previous, around the end as session_previous goes.              *)
Previous(I, i) == LET before == {j \in I : j < i}
                  IN  IF before = {} THEN Max(I) ELSE Max(before)

(* session_last, else session_previous; session_next then finds no other.  *)
MoveAway(r) ==
  Current(r, IF r.lastw # <<>> /\ Head(r.lastw) # r.cur THEN Head(r.lastw)
             ELSE Previous(DOMAIN r.windows, r.cur))

(* session_group_contains, the empty sequence for none.                    *)
GroupOf(st, s) ==
  LET G == {g \in st.groups : s \in Range(g)}
  IN  IF G = {} THEN <<>> ELSE CHOOSE g \in G : TRUE

(* session_group_synchronize1, of the sessions S with the session t, whose *)
(* windows are never gone: a session moves away from a window that is gone, *)
(* takes the windows of t, and then its pointers by their indexes.         *)
Fallback_slip(ww, cur) == cur
Fallback(ww, cur) == IF cur \in DOMAIN ww THEN cur ELSE Min(DOMAIN ww)
Moved(ww, r) == IF r.cur \in DOMAIN ww THEN r ELSE MoveAway(r)
Taken(ww, r) ==
  [r EXCEPT !.windows = ww, !.cur = Fallback(ww, @),
            !.lastw = Kept(@, DOMAIN ww)]
Synchronize(st, t, S) ==
  LET ww == st.session[t].windows
      moved == [s \in S |-> Moved(ww, st.session[s])]
  IN  Queue([st EXCEPT !.session = [s \in Sessions |->
                                     IF s \in S THEN Taken(ww, moved[s]) ELSE @[s]]],
            {moved[s].windows[moved[s].cur] :
               s \in {z \in S : moved[z].cur # st.session[z].cur}})

(* session_group_synchronize_from and _to                                  *)
SynchronizeFrom_slip(st, t) == st
SynchronizeFrom(st, t) ==
  LET others == Range(GroupOf(st, t)) \ {t}
  IN  IF others = {} THEN st ELSE Synchronize(st, t, others)
SynchronizeTo(st, s) ==
  LET others == Without(GroupOf(st, s), s)
  IN  IF others = <<>> THEN st ELSE Synchronize(st, Head(others), {s})

(* session_attach                                                          *)
Added(r, i, w) == [r EXCEPT !.windows = With(@, i, w)]
Attach(st, s, w, i) ==
  SynchronizeFrom([st EXCEPT !.session[s] = Added(@, i, w)], s)

(* session_detach, of a window that is not the only one.                   *)
IsOnly(st, s) == Cardinality(DOMAIN st.session[s].windows) = 1
Detached(r, i) ==
  [r EXCEPT !.windows = Only(@, Indexes \ {i}), !.lastw = Without(@, i)]
Detach(st, s, i) ==
  LET moved == IF st.session[s].cur = i
               THEN SetCurrent(st, s, MoveAway(st.session[s]).cur) ELSE st
  IN  SynchronizeFrom(
        [moved EXCEPT !.session[s] = Detached(@, i)], s)

(* session_destroy, of a session or a group of sessions.                   *)
Destroy(st, S) ==
  [st EXCEPT !.session = [s \in Sessions |-> IF s \in S THEN Dead ELSE @[s]],
             !.groups = {Kept(g, Sessions \ S) : g \in @} \ {<<>>}]

(* The sessions of the group of s, if it is in one.                        *)
Fellows(st, s) == {s} \cup Range(GroupOf(st, s))

(* server_destroy_session_group                                            *)
DestroyGroup(st, s) == Destroy(st, Fellows(st, s))

(* session_renumber_windows.  lastw is mapped by window: a window that is  *)
(* linked twice may come twice.                                            *)
Renumbered(r) ==
  LET I == DOMAIN r.windows
      new(i) == BaseIndex + Cardinality({j \in I : j < i})
      windows == [k \in {new(i) : i \in I} |->
                    r.windows[CHOOSE i \in I : new(i) = k]]
      first(w) == Min({k \in DOMAIN windows : windows[k] = w})
  IN  IF Cardinality(I) > MaxIndex - BaseIndex + 1 \/ I = {} THEN r
      ELSE [r EXCEPT !.windows = windows, !.cur = new(@),
                     !.lastw = [k \in DOMAIN @ |-> first(r.windows[@[k]])]]
Renumber(st, S) ==
  [st EXCEPT !.session = [s \in Sessions |-> IF s \in S THEN Renumbered(@[s]) ELSE @[s]]]

(* winlink_shuffle_up makes room at an index; pointers follow.             *)
Room(r, i) == {j \in i .. MaxIndex - 1 : j \notin DOMAIN r.windows}
Shuffled(r, i, j) == IF j \in i .. Min(Room(r, i)) THEN j + 1 ELSE j
Raised(r, i) ==
  LET to(j) == Shuffled(r, i, j)
      I == {to(j) : j \in DOMAIN r.windows}
  IN  [r EXCEPT !.windows = [k \in I |-> @[CHOOSE j \in DOMAIN r.windows : to(j) = k]],
                !.cur = to(@),
                !.lastw = [k \in DOMAIN @ |-> to(@[k])]]
ShuffleUp(st, s, i) == [st EXCEPT !.session[s] = Raised(@, i)]

(* What link-window -k and new-window -k do to the window in the way: unlike *)
(* session_detach, also when it is the only one.                           *)
Displaced(r, i) == [Detached(r, i) EXCEPT !.cur = IF @ = i THEN NoIndex ELSE @]
Displace(st, s, i) ==
  [st EXCEPT !.session[s] = Displaced(@, i)]
MakeWay(st, s, i) ==
  IF i \in DOMAIN st.session[s].windows THEN Displace(st, s, i) ELSE st
InUse(st, s, i) == i \in DOMAIN st.session[s].windows

(* spawn_window, of a new window w.                                        *)
Begun(r, i, w) == [Added(r, i, w) EXCEPT !.cur = IF @ = NoIndex THEN i ELSE @]
Spawn(st, s, w, i, detached) ==
  LET clear == MakeWay(st, s, i)
      made == Queue([clear EXCEPT !.session[s] = Begun(@, i, w)], {w})
  IN  SynchronizeFrom(IF detached THEN made ELSE SetCurrent(made, s, i), s)

(* server_link_window, not refused: what replaces the current window is    *)
(* selected.                                                               *)
Grouped(s, t) == s # t /\ s \in Fellows(State, t)
LinkWindow(st, w, dst, i, select) ==
  LET clear == MakeWay(st, dst, i)
      attached == Attach(clear, dst, w, i)
  IN  IF select \/ clear.session[dst].cur = NoIndex THEN SetCurrent(attached, dst, i)
      ELSE attached

(* server_unlink_window                                                    *)
Unlink(st, s, i) == IF IsOnly(st, s) THEN DestroyGroup(st, s) ELSE Detach(st, s, i)

(* server_renumber_session and server_renumber_all, in the order of the    *)
(* sessions tree.                                                          *)
RenumberSession(st, s) ==
  IF s \in Renumbering THEN Renumber(st, Fellows(st, s)) ELSE st
RenumberAll(st) ==
  LET through[s \in 0 .. MaxSessions] ==
        IF s = 0 THEN st ELSE RenumberSession(through[s - 1], s)
  IN  through[MaxSessions]

(* server_kill_window                                                      *)
Has(st, s, w) == w \in Range(st.session[s].windows)
KillAt(st, w, s, i) ==
  IF InUse(st, s, i) /\ st.session[s].windows[i] = w THEN Unlink(st, s, i) ELSE st
KillIn(st, w, s) ==
  LET below[n \in 0 .. MaxIndex + 1] ==
        IF n = 0 THEN st ELSE KillAt(below[n - 1], w, s, n - 1)
  IN  below[MaxIndex + 1]
KillFrom(st, w, renumber, s) ==
  IF ~Has(st, s, w) THEN st
  ELSE IF renumber THEN RenumberSession(KillIn(st, w, s), s)
  ELSE KillIn(st, w, s)
Killed(st, w, renumber) ==
  LET through[s \in 0 .. MaxSessions] ==
        IF s = 0 THEN st ELSE KillFrom(through[s - 1], w, renumber, s)
  IN  through[MaxSessions]

(* The loop of cmd_kill_window_all: the first window of s that is in W,    *)
(* until there is none.                                                    *)
KilledFirst(st, s, W) ==
  LET I == {i \in DOMAIN st.session[s].windows : st.session[s].windows[i] \in W}
  IN  IF I = {} THEN st ELSE Killed(st, st.session[s].windows[Min(I)], FALSE)
KilledAll(st, s, W) ==
  LET after[n \in 0 .. Cardinality(W)] ==
        IF n = 0 THEN st ELSE KilledFirst(after[n - 1], s, W)
  IN  after[Cardinality(W)]
-----------------------------------------------------------------------------
(* Nothing is said of a session after its list of last windows is broken,  *)
(* which a window that comes twice does: see Renumber.                     *)
Intact == \A s \in Sessions : IsInjective(session[s].lastw)

(* cmd_new_session_exec: alone, in a new group, or in the group of t.      *)
NewSession(s, w, with) ==
  LET alone == Queue([State EXCEPT !.session[s] =
                 [alive |-> TRUE, windows |-> [i \in {BaseIndex} |-> w],
                  cur |-> BaseIndex, lastw |-> <<>>]], {w})
      before == IF with = s THEN <<>>
                ELSE IF GroupOf(alone, with) = <<>> THEN <<with>>
                ELSE GroupOf(alone, with)
      shared == SynchronizeTo(
                  [alone EXCEPT !.groups = (@ \ {before}) \cup {Append(before, s)}], s)
  IN  \/ with = 0 /\ Become(alone)
      \/ /\ with \in Live \cup {s}
         /\ Become(SetCurrent(shared, s, Min(DOMAIN shared.session[s].windows)))

(* cmd_new_window_exec: an index in use needs -k, and none given is the     *)
(* next that is not, one of those.  -a and -b make room at an index in use. *)
NewWindow(s, w, i, detached) == Become(Spawn(State, s, w, i, detached))
NewWindowBeside(s, w, i, detached) ==
  /\ Room(session[s], i) # {}
  /\ Become(Spawn(ShuffleUp(State, s, i), s, w, i, detached))

(* session_set_current, by select-window, next-window, previous-window and *)
(* last-window.                                                            *)
SelectWindow(s, i) ==
  /\ session[s].cur # i
  /\ Become(SetCurrent(State, s, i))

(* cmd_move_window_exec: link-window, or move-window if it unlinks, and     *)
(* with -s nothing is renumbered.  Sessions of one group are refused, after *)
(* -a or -b has made room.                                                 *)
LinkThen(st, src, i, dst, at) ==
  \E select, unlink \in BOOLEAN :
    LET linked == LinkWindow(st, st.session[src].windows[i], dst, at, select)
        moved == IF unlink THEN Unlink(linked, src, i) ELSE linked
    IN  \/ Become(moved)
        \/ src \in Renumbering /\ Become(Renumber(moved, {src}))
LinkOrMove(src, i, dst, at) ==
  /\ ~Grouped(src, dst)
  /\ InUse(State, dst, at) => session[dst].windows[at] # session[src].windows[i]
  /\ LinkThen(State, src, i, dst, at)
LinkOrMoveBeside(src, i, dst, at) ==
  LET shuffled == ShuffleUp(State, dst, at)
  IN  /\ Room(session[dst], at) # {}
      /\ IF Grouped(src, dst) THEN Become(shuffled)
         ELSE LinkThen(shuffled, src,
                       IF src = dst THEN Shuffled(session[dst], at, i) ELSE i, dst, at)

(* move-window -r                                                          *)
RenumberWindows(s) == s \in Live /\ Become(Renumber(State, {s}))

(* cmd_kill_window_exec, of unlink-window.  session_is_linked takes every  *)
(* reference to the window for a link.                                     *)
IsLinked(s, w) ==
  References(State, w) # Cardinality(Fellows(State, s))
UnlinkWindow(s, i, kill) ==
  /\ kill \/ IsLinked(s, session[s].windows[i])
  /\ Become(Unlink(State, s, i))

KillWindow(w) ==
  /\ w \in Linked(State)
  /\ Become(Killed(State, w, TRUE))

(* kill-window -a of the windows W that the filter of -f lets through: all *)
(* but w, and w too if it is linked more than once in s.                   *)
KillOthers(s, w, W) ==
  /\ Cardinality(DOMAIN session[s].windows) > 1
  /\ LET others == KilledAll(State, s, W \ {w})
         links == {i \in DOMAIN others.session[s].windows :
                     others.session[s].windows[i] = w}
         killed == IF w \in W /\ Cardinality(links) > 1
                   THEN Killed(others, w, FALSE) ELSE others
     IN  Become(RenumberAll(killed))

(* cmd_swap_window_exec, and window_tree_swap within a session.            *)
Exchanged(src, i, dst, j) ==
  LET first == [State EXCEPT !.session[src] = Added(@, i, session[dst].windows[j])]
  IN  [first EXCEPT !.session[dst] = Added(@, j, session[src].windows[i])]
SwapWindow(src, i, dst, j, select) ==
  /\ ~Grouped(src, dst)
  /\ session[src].windows[i] # session[dst].windows[j]
  /\ LET swapped == Exchanged(src, i, dst, j)
         first == IF select THEN SetCurrent(swapped, dst, j) ELSE swapped
         second == IF select /\ src # dst THEN SetCurrent(first, src, i) ELSE first
         shared == SynchronizeFrom(second, src)
     IN  Become(IF src = dst THEN shared ELSE SynchronizeFrom(shared, dst))
SwapInTree(s, i, j) ==
  LET swapped == Exchanged(s, i, s, j)
      current == IF session[s].cur = i THEN SetCurrent(swapped, s, j)
                 ELSE IF session[s].cur = j THEN SetCurrent(swapped, s, i)
                 ELSE swapped
  IN  Become(SynchronizeFrom(current, s))

(* cmd_kill_session_exec, with -g in the second.                           *)
KillSession(s) == s \in Live /\ Become(Destroy(State, {s}))
KillSessionGroup(s) == s \in Live /\ Become(DestroyGroup(State, s))

(* window_update_activity on output, and alerts_callback.                  *)
Activity(w) ==
  w \in (Linked(State) \cap Monitored) \ queued /\ Become(Queue(State, {w}))
AlertsCallback == queued # {} /\ Become([State EXCEPT !.queued = {}])

Uses(s) == DOMAIN session[s].windows
Create ==
  \E w \in Windows \ Existing(State) :
    \/ \E s \in Sessions \ Live, with \in Sessions \cup {0} : NewSession(s, w, with)
    \/ \E s \in Live, detached \in BOOLEAN :
         \/ \E i \in Indexes : NewWindow(s, w, i, detached)
         \/ \E i \in Uses(s) : NewWindowBeside(s, w, i, detached)
Rearrange ==
  \/ \E src, dst \in Live : \E i \in Uses(src) :
       \/ \E at \in Indexes : LinkOrMove(src, i, dst, at)
       \/ \E at \in Uses(dst) : LinkOrMoveBeside(src, i, dst, at)
  \/ \E src, dst \in Live : \E i \in Uses(src), j \in Uses(dst), select \in BOOLEAN :
       SwapWindow(src, i, dst, j, select)
  \/ \E s \in Live :
       \/ \E i \in Uses(s) : SelectWindow(s, i)
       \/ \E i, j \in Uses(s) : i < j /\ SwapInTree(s, i, j)
       \/ RenumberWindows(s)
Close ==
  \/ \E s \in Live, kill \in BOOLEAN : \E i \in Uses(s) : UnlinkWindow(s, i, kill)
  \/ \E w \in Windows : KillWindow(w)
  \/ \E s \in Live : \E w \in Range(session[s].windows) :
       \E W \in SUBSET Range(session[s].windows) : KillOthers(s, w, W)
  \/ \E s \in Live : KillSession(s) \/ KillSessionGroup(s)

Next ==
  /\ Intact
  /\ \/ Create
     \/ Rearrange
     \/ Close
     \/ \E w \in Windows : Activity(w)
     \/ AlertsCallback

Spec == Init /\ [][Next]_vars
-----------------------------------------------------------------------------
TypeOK ==
  /\ \A s \in Sessions :
       /\ session[s].alive \in BOOLEAN
       /\ DOMAIN session[s].windows \subseteq Indexes
       /\ session[s].windows \in [DOMAIN session[s].windows -> Windows]
       /\ session[s].cur \in Indexes \cup {NoIndex}
       /\ session[s].lastw \in Seq(Indexes)
       /\ ~session[s].alive => session[s] = Dead
  /\ \A g \in groups : g # <<>> /\ IsInjective(g) /\ Range(g) \subseteq Live
  /\ queued \subseteq Monitored

(* Between two commands a session has windows, and its current window is   *)
(* one of them: the code uses s->curw without looking (session.c,          *)
(* server-client.c, status.c).                                             *)
CurrentListed ==
  \A s \in Live : session[s].cur \in DOMAIN session[s].windows

(* The stack of last windows holds winlinks of the session, none that was  *)
(* freed, and each once if no window is linked twice in the session: the   *)
(* stack is rebuilt by index (session.c:725) or by window (session.c:786). *)
LinkedTwice(s) == ~IsInjective(session[s].windows)
LastListed ==
  \A s \in Live :
    /\ Range(session[s].lastw) \subseteq DOMAIN session[s].windows
    /\ IsInjective(session[s].lastw) \/ LinkedTwice(s)

(* No pointer of a session to its winlinks is left behind by what removes, *)
(* renumbers, swaps or replaces them.                                      *)
PointersListed == TypeOK /\ CurrentListed /\ LastListed

(* tmux.1:1407: "Sessions in the same group share the same set of windows": *)
(* the calls of session_group_synchronize_from are enough for that.        *)
GroupShares ==
  \A g \in groups : \A s, t \in Range(g) :
    Range(session[s].windows) = Range(session[t].windows)
=============================================================================
