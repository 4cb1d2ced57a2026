----------------------------- MODULE CmdQueue -----------------------------
(***************************************************************************)
(* The command queues of the tmux server (cmd-queue.c), the server loop    *)
(* that drains them (server_loop in server.c) and the life of the clients  *)
(* that own them (server-client.c).                                        *)
(*                                                                         *)
(* The server is one thread.  In the event loop (phase "poll") callbacks   *)
(* append items, continue waiting items and lose clients.  Then            *)
(* server_loop visits the global queue and the queue of each client, one   *)
(* cmdq_next each, again and again until a sweep fires nothing.  A step of *)
(* this module is one callback or one item.                                *)
(*                                                                         *)
(* What a command does is left open, but for what it does to the queues:   *)
(* it succeeds, fails or waits; it inserts commands after itself, starts a *)
(* job, fires an event that has a hook, or wakes another item.             *)
(***************************************************************************)
EXTENDS Naturals, Sequences, FiniteSets

CONSTANTS Clients, Global, NoClient,
          MaxItems,       \* bound: items made in a behaviour
          MaxSequence,    \* bound: commands of one command sequence
          Hooks           \* of "after", "error", "event": the hooks that are set

ASSUME QueueAssumption ==
  /\ MaxItems \in Nat /\ MaxSequence \in Nat \ {0}
  /\ Global \notin Clients /\ NoClient \notin Clients \cup {Global}
  /\ "poll" \notin Clients \cup {Global}
  /\ Hooks \subseteq {"after", "error", "event"}

Queues == Clients \cup {Global}

VARIABLES
  items,      \* every item made, by number: what does not change about it
  list,       \* queue->list, item numbers
  current,    \* queue->item, 0 for NULL
  fired,      \* CMDQ_FIRED
  waits,      \* CMDQ_WAITING
  clients,    \* the clients list, in order
  dead,       \* CLIENT_DEAD and not yet freed
  freed,      \* clients that server_client_free has freed
  refs,       \* c->references
  jobs,       \* running jobs of run-shell and if-shell
  phase,      \* "poll", or the queue that server_loop is in
  progress,   \* items # 0 in this sweep
  \* history
  ran,        \* commands executed, in order
  failed      \* commands that returned CMD_RETURN_ERROR

itemVars   == <<items, list, current, fired, waits>>
clientVars == <<clients, dead, freed>>
historyVars == <<ran, failed>>
vars == <<itemVars, clientVars, refs, jobs, phase, progress, historyVars>>

Live == {clients[i] : i \in DOMAIN clients}
Ids(q) == {list[q][i] : i \in DOMAIN list[q]}
Listed == UNION {Ids(q) : q \in Queues}
JobItems == {j.item : j \in jobs}
(* s without the elements of S, in the order of s: the k-th element that   *)
(* stays is the one with k - 1 such elements before it.                    *)
Stay(s, S) == {i \in DOMAIN s : s[i] \notin S}
Nth(K, k) == CHOOSE i \in K : Cardinality({m \in K : m < i}) = k - 1
Without(s, S) == [k \in 1 .. Cardinality(Stay(s, S)) |-> s[Nth(Stay(s, S), k)]]

CountOf(c, recs) == Cardinality({k \in DOMAIN recs : recs[k].client = c})

Init ==
  /\ items = <<>> /\ list = [q \in Queues |-> <<>>]
  /\ current = [q \in Queues |-> 0]
  /\ fired = {} /\ waits = {}
  /\ clients = <<>> /\ dead = {} /\ freed = {}
  /\ refs = [c \in Clients |-> 0]
  /\ jobs = {}
  /\ phase = "poll" /\ progress = FALSE
  /\ ran = <<>> /\ failed = {}
-----------------------------------------------------------------------------
(* Definitions named X_slip are X as a plausible mistake would have it: no  *)
(* specification uses them, they show that a property notices the mistake. *)

(* Making items.  seq is the execution the item belongs to, numbered by    *)
(* its first item; group is the number cmdq_remove_group compares.  A list *)
(* parsed anew has a group of its own; every execution of a key binding or *)
(* of a hook uses the stored list and so the same group.                   *)
KeyGroup  == MaxItems + 1
HookGroup(h) == MaxItems + CASE h = "after" -> 2 [] h = "error" -> 3 [] h = "event" -> 4

(* cmdq_get_command: n commands of one list, the first with number first.  *)
Commands(n, first, group, client, hooks, parent) ==
  [k \in 1 .. n |-> [kind |-> "command", seq |-> first, group |-> group,
                     client |-> client, hooks |-> hooks, parent |-> parent]]

(* cmdq_get_callback: an item that calls a function, group 0.              *)
Callback(kind, id, client) ==
  <<[kind |-> kind, seq |-> id, group |-> 0, client |-> client,
     hooks |-> TRUE, parent |-> 0]>>

Numbers(from, recs) == [k \in DOMAIN recs |-> from + k]
NextId == Len(items) + 1
Room(n) == Len(items) + n <= MaxItems

(* The commands of a hook, CMDQ_STATE_NOHOOKS, if the hook is set.         *)
HookCommands(h, first, client, parent) ==
  IF h \in Hooks THEN Commands(1, first, HookGroup(h), client, FALSE, parent)
  ELSE <<>>

(* cmdq_append: at the end of a queue, with a reference to its client.     *)
Append_(q, recs) ==
  /\ Room(Len(recs))
  /\ items' = items \o recs
  /\ list' = [list EXCEPT ![q] = @ \o Numbers(Len(items), recs)]
-----------------------------------------------------------------------------
(* Firing the head of a queue.                                             *)
Head_(q) == Head(list[q])
HeadOrNull(q) == IF list[q] = <<>> THEN 0 ELSE Head_(q)
Ready(q) == phase = q /\ list[q] # <<>> /\ Head_(q) \notin waits
ToFire(q) == Ready(q) /\ Head_(q) \notin fired
Dead(c) == c \in dead \cup freed
IsCommand(q) == items[Head_(q)].kind = "command"
Executes(q) == ToFire(q) /\ IsCommand(q) /\ ~Dead(items[Head_(q)].client)

(* cmdq_remove_group: the later items of the head's group.                 *)
SameGroup(q) ==
  {x \in Ids(q) \ {Head_(q)} :
     items[x].group # 0 /\ items[x].group = items[Head_(q)].group}

(* What cmdq_next does around the execution of the head h of q: ins was    *)
(* inserted after it, app appended to the global queue, and ret returned.  *)
After_slip(ins, rest) == rest \o ins
After(ins, rest) == ins \o rest
Fire(q, ins, app, ret) ==
  LET h == Head_(q)
      gone == IF ret = "error" THEN SameGroup(q) ELSE {}
      rest == Without(Tail(list[q]), gone)
      mine == (IF ret = "wait" THEN <<h>> ELSE <<>>)
                \o After(Numbers(Len(items), ins), rest)
  IN  /\ Room(Len(ins) + Len(app))
      /\ items' = items \o ins \o app
      /\ list' = LET l == [list EXCEPT ![q] = mine]
                 IN [l EXCEPT ![Global] = @ \o Numbers(Len(items) + Len(ins), app)]
      /\ fired' = IF ret = "wait" THEN fired \cup {h} ELSE fired
      /\ progress' = (progress \/ ret # "wait")
      /\ UNCHANGED <<current, clientVars, phase>>

(* The change of the reference counts that goes with it: cmdq_insert_after *)
(* and cmdq_remove; extra is the client of a job that was started.         *)
FireRefs_slip(q, ins, ret, extra) ==
  LET out == (IF ret = "error" THEN SameGroup(q) ELSE {})
               \cup (IF ret = "wait" THEN {} ELSE {Head_(q)})
  IN  refs' = [c \in Clients |->
        refs[c] + CountOf(c, ins) - Cardinality({x \in out : items[x].client = c})]
FireRefs(q, ins, ret, extra) ==
  LET h == Head_(q)
      out == (IF ret = "error" THEN SameGroup(q) ELSE {})
               \cup (IF ret = "wait" THEN {} ELSE {h})
  IN  refs' = [c \in Clients |->
        refs[c] + CountOf(c, ins) + (IF extra = c THEN 1 ELSE 0)
          - Cardinality({x \in out : items[x].client = c})]

Ran(q) == ran' = Append(ran, Head_(q))

(* cmd_find_client: an item of the global queue without a client borrows   *)
(* one while its command runs.                                             *)
Borrowed(q) ==
  LET c == items[Head_(q)].client
  IN  IF c = NoClient THEN Live \cup {NoClient} ELSE {c}

(* cmdq_insert_hook, unless the command is run by a hook itself.           *)
HookFor(q, h, client) ==
  IF items[Head_(q)].hooks THEN HookCommands(h, NextId, client, Head_(q)) ELSE <<>>

(* The command succeeds; with CMD_AFTERHOOK its after hook is inserted.    *)
RunNormal(q, c) ==
  /\ Executes(q) /\ c \in Borrowed(q)
  /\ \E ins \in {<<>>, HookFor(q, "after", c)} :
       /\ Fire(q, ins, <<>>, "normal")
       /\ FireRefs(q, ins, "normal", NoClient)
  /\ Ran(q)
  /\ UNCHANGED <<waits, jobs, failed>>

(* The command fails: command-error hook, and the rest of the group goes.  *)
RunFail(q) ==
  /\ Executes(q)
  /\ LET ins == HookFor(q, "error", items[Head_(q)].client)
     IN  /\ Fire(q, ins, <<>>, "error")
         /\ FireRefs(q, ins, "error", NoClient)
  /\ Ran(q)
  /\ failed' = failed \cup {Head_(q)}
  /\ UNCHANGED <<waits, jobs>>

(* if-shell -F, run-shell -C, source-file: a list is parsed and inserted   *)
(* after the item, with the item's own state and so its NOHOOKS flag.      *)
RunNested_slip(q, c, n) ==
  /\ Executes(q) /\ c \in Borrowed(q)
  /\ LET ins == Commands(n, NextId, NextId, c, TRUE, Head_(q))
     IN  /\ Fire(q, ins, <<>>, "normal")
         /\ FireRefs(q, ins, "normal", NoClient)
  /\ Ran(q)
  /\ UNCHANGED <<waits, jobs, failed>>
RunNested(q, c, n) ==
  /\ Executes(q) /\ c \in Borrowed(q)
  /\ LET ins == Commands(n, NextId, NextId, c, items[Head_(q)].hooks, Head_(q))
     IN  /\ Fire(q, ins, <<>>, "normal")
         /\ FireRefs(q, ins, "normal", NoClient)
  /\ Ran(q)
  /\ UNCHANGED <<waits, jobs, failed>>

(* wait-for, command-prompt, confirm-before: wait for something outside.   *)
RunWait(q) ==
  /\ Executes(q)
  /\ Fire(q, <<>>, <<>>, "wait")
  /\ FireRefs(q, <<>>, "wait", NoClient)
  /\ waits' = waits \cup {Head_(q)}
  /\ Ran(q)
  /\ UNCHANGED <<jobs, failed>>

(* run-shell and if-shell: a job holds its client; with -b the item goes   *)
(* on and the job is for the target client.                                *)
RunJob(q, c, background) ==
  /\ Executes(q)
  /\ c \in IF background THEN Live \cup {NoClient} ELSE Borrowed(q)
  /\ LET ret == IF background THEN "normal" ELSE "wait"
     IN  /\ Fire(q, <<>>, <<>>, ret)
         /\ FireRefs(q, <<>>, ret, c)
  /\ waits' = IF background THEN waits ELSE waits \cup {Head_(q)}
  /\ jobs' = jobs \cup {[item |-> IF background THEN 0 ELSE Head_(q),
                         client |-> c, made |-> Head_(q)]}
  /\ Ran(q)
  /\ UNCHANGED failed

(* cmdq_running(NULL): queue->item of the global queue, unless it waits.   *)
Running ==
  IF phase = Global /\ list[Global] # <<>> THEN Head_(Global) ELSE current[Global]
RunningNow == IF Running \in waits THEN 0 ELSE Running

(* hooks_event_cb: an event's hook goes to the end of the global queue,    *)
(* unless the item it takes for the running one was itself run by a hook.  *)
Suppressed == RunningNow # 0 /\ ~items[RunningNow].hooks
EventHook(n) ==
  IF Suppressed THEN <<>> ELSE HookCommands("event", NextId + n, NoClient, 0)

(* The command fires an event, and then it succeeds, waits (split-window   *)
(* -W) or fails.                                                           *)
RunEvent(q, c, ret) ==
  /\ Executes(q) /\ c \in Borrowed(q) /\ "event" \in Hooks
  /\ \E ins \in IF ret = "error" THEN {HookFor(q, "error", items[Head_(q)].client)}
                ELSE {<<>>, HookFor(q, "after", c)} :
       /\ Fire(q, ins, EventHook(Len(ins)), ret)
       /\ FireRefs(q, ins, ret, NoClient)
  /\ waits' = IF ret = "wait" THEN waits \cup {Head_(q)} ELSE waits
  /\ failed' = IF ret = "error" THEN failed \cup {Head_(q)} ELSE failed
  /\ Ran(q)
  /\ UNCHANGED jobs

(* wait-for -S: another item continues.                                    *)
RunWake(q, x) ==
  /\ Executes(q)
  /\ x \in waits \ JobItems
  /\ Fire(q, <<>>, <<>>, "normal")
  /\ FireRefs(q, <<>>, "normal", NoClient)
  /\ waits' = waits \ {x}
  /\ Ran(q)
  /\ UNCHANGED <<jobs, failed>>

(* server_client_key_callback: key_bindings_dispatch inserts the binding,  *)
(* if the key has one.                                                     *)
RunKey(q, n) ==
  /\ ToFire(q) /\ items[Head_(q)].kind = "key"
  /\ LET ins == Commands(n, NextId, KeyGroup, items[Head_(q)].client, TRUE, Head_(q))
     IN  /\ Fire(q, ins, <<>>, "normal")
         /\ FireRefs(q, ins, "normal", NoClient)
  /\ UNCHANGED <<waits, jobs, ran, failed>>

(* Another callback, such as server_client_command_done.                   *)
RunCallback(q) ==
  /\ ToFire(q) /\ items[Head_(q)].kind = "done"
  /\ Fire(q, <<>>, <<>>, "normal")
  /\ FireRefs(q, <<>>, "normal", NoClient)
  /\ UNCHANGED <<waits, jobs, ran, failed>>

(* cmdq_fire_command does not run a command of a dead client.              *)
RunDead(q) ==
  /\ ToFire(q) /\ IsCommand(q) /\ Dead(items[Head_(q)].client)
  /\ Fire(q, <<>>, <<>>, "error")
  /\ FireRefs(q, <<>>, "error", NoClient)
  /\ UNCHANGED <<waits, jobs, ran, failed>>

(* An item that has been continued is removed and not fired again.         *)
RemoveFired(q) ==
  /\ Ready(q) /\ Head_(q) \in fired
  /\ list' = [list EXCEPT ![q] = Tail(@)]
  /\ fired' = fired \ {Head_(q)}
  /\ refs' = [c \in Clients |->
       refs[c] - (IF items[Head_(q)].client = c THEN 1 ELSE 0)]
  /\ UNCHANGED <<items, current, waits, clientVars, jobs, phase, progress, historyVars>>
-----------------------------------------------------------------------------
(* The loop: cmdq_next leaves a queue that is empty or whose head waits;   *)
(* the next is that of the next client; after the last the sweep starts    *)
(* again if it fired an item.                                              *)
EnterLoop ==
  /\ phase = "poll"
  /\ phase' = Global /\ progress' = FALSE
  /\ UNCHANGED <<itemVars, clientVars, refs, jobs, historyVars>>

NextQueue_slip(q) ==
  IF ~progress THEN "poll"
  ELSE LET i == IF q = Global THEN 1
                ELSE 1 + CHOOSE k \in DOMAIN clients : clients[k] = q
       IN  IF i <= Len(clients) THEN clients[i] ELSE Global
NextQueue(q) ==
  LET i == IF q = Global THEN 1
           ELSE 1 + CHOOSE k \in DOMAIN clients : clients[k] = q
  IN  IF i <= Len(clients) THEN clients[i]
      ELSE IF progress THEN Global ELSE "poll"

LeaveQueue_slip(q) ==
  /\ phase = q
  /\ HeadOrNull(q) \in {0} \cup waits
  /\ current' = IF list[q] = <<>> THEN current
                ELSE [current EXCEPT ![q] = HeadOrNull(q)]
  /\ phase' = NextQueue(q)
  /\ progress' = (progress /\ NextQueue(q) \in Clients)
  /\ UNCHANGED <<items, list, fired, waits, clientVars, refs, jobs, historyVars>>
LeaveQueue(q) ==
  /\ phase = q
  /\ HeadOrNull(q) \in {0} \cup waits
  /\ current' = [current EXCEPT ![q] = HeadOrNull(q)]
  /\ phase' = NextQueue(q)
  /\ progress' = (progress /\ NextQueue(q) \in Clients)
  /\ UNCHANGED <<items, list, fired, waits, clientVars, refs, jobs, historyVars>>
-----------------------------------------------------------------------------
(* Callbacks of the event loop.                                            *)
Connect(c) ==
  /\ phase = "poll"
  /\ c \notin Live \cup dead \cup freed
  /\ clients' = Append(clients, c)
  /\ refs' = [refs EXCEPT ![c] = 1]
  /\ UNCHANGED <<itemVars, dead, freed, jobs, phase, progress, historyVars>>

(* server_client_dispatch_command: a sequence, and a callback to end it.   *)
Dispatch(c, n) ==
  /\ phase = "poll" /\ c \in Live
  /\ Append_(c, Commands(n, NextId, NextId, c, TRUE, 0)
                  \o Callback("done", NextId + n, c))
  /\ refs' = [refs EXCEPT ![c] = @ + n + 1]
  /\ UNCHANGED <<current, fired, waits, clientVars, jobs, phase, progress, historyVars>>

(* server_client_handle_key: the key is looked up when its turn comes.     *)
Key_slip(c) ==
  /\ phase = "poll" /\ c \in Live
  /\ Append_(c, Callback("key", NextId, c))
  /\ UNCHANGED <<current, fired, waits, clientVars, refs, jobs, phase, progress, historyVars>>
Key(c) ==
  /\ phase = "poll" /\ c \in Live
  /\ Append_(c, Callback("key", NextId, c))
  /\ refs' = [refs EXCEPT ![c] = @ + 1]
  /\ UNCHANGED <<current, fired, waits, clientVars, jobs, phase, progress, historyVars>>

(* An event of the program: a pane exits, a client resizes.                *)
Event ==
  /\ phase = "poll" /\ "event" \in Hooks
  /\ Append_(Global, EventHook(0))
  /\ UNCHANGED <<current, fired, waits, clientVars, refs, jobs, phase, progress,
                 historyVars>>

(* cmdq_continue from a prompt, a file, a pane or an event.                *)
Continue(x) ==
  /\ phase = "poll"
  /\ x \in waits \ JobItems
  /\ waits' = waits \ {x}
  /\ UNCHANGED <<items, list, current, fired, clientVars, refs, jobs, phase,
                 progress, historyVars>>

(* The job of a waiting item ends: if-shell inserts its commands after the *)
(* item, the item continues, and the job's reference to the client goes.   *)
QueueOf(x) == CHOOSE q \in Queues : x \in Ids(q)
JobDone(j, n) ==
  /\ phase = "poll" /\ j \in jobs /\ j.item # 0
  /\ Room(n)
  /\ LET q == QueueOf(j.item)
         c == items[j.item].client
         ins == Commands(n, NextId, NextId, c, items[j.item].hooks, j.item)
     IN  /\ items' = items \o ins
         /\ list' = [list EXCEPT ![q] =
                       <<Head(@)>> \o Numbers(Len(items), ins) \o Tail(@)]
         /\ refs' = [d \in Clients |-> refs[d] + CountOf(d, ins)
                                         - (IF j.client = d THEN 1 ELSE 0)]
  /\ waits' = waits \ {j.item}
  /\ jobs' = jobs \ {j}
  /\ UNCHANGED <<current, fired, clientVars, phase, progress, historyVars>>

(* The job of a -b command ends: if-shell -b appends its commands to the   *)
(* queue of the client, dead or not.                                       *)
BackgroundDone(j, n) ==
  /\ phase = "poll" /\ j \in jobs /\ j.item = 0
  /\ LET q == IF j.client = NoClient THEN Global ELSE j.client
     IN  Append_(q, Commands(n, NextId, NextId, j.client, TRUE, 0))
  /\ refs' = [d \in Clients |-> IF j.client = d THEN refs[d] + n - 1 ELSE refs[d]]
  /\ jobs' = jobs \ {j}
  /\ UNCHANGED <<current, fired, waits, clientVars, phase, progress, historyVars>>

(* server_client_lost: cmd_wait_for_client_lost continues the client's     *)
(* items, in whatever queue; cmdq_next drains the client's own queue,      *)
(* which it will not visit again, unless its head waits for a job; and the *)
(* client gives up its own reference.                                      *)
Released(c) == {x \in waits \ JobItems : items[x].client = c}
Drained(c) ==
  IF list[c] # <<>> /\ Head_(c) \in waits \ Released(c) THEN {} ELSE Ids(c)
ClientLost(c) ==
  /\ phase = "poll" /\ c \in Live
  /\ clients' = Without(clients, {c})
  /\ dead' = dead \cup {c}
  /\ waits' = waits \ Released(c)
  /\ list' = [list EXCEPT ![c] = IF Drained(c) = {} THEN @ ELSE <<>>]
  /\ current' = [current EXCEPT ![c] =
                   IF Drained(c) = {} THEN HeadOrNull(c) ELSE 0]
  /\ fired' = fired \ Drained(c)
  /\ refs' = [refs EXCEPT ![c] = @ - 1 - Cardinality(Drained(c))]
  /\ UNCHANGED <<items, freed, jobs, phase, progress, historyVars>>

(* server_client_unref asked for server_client_free in the event loop when *)
(* the last reference went.                                                *)
FreeClient(c) ==
  /\ phase = "poll"
  /\ c \in dead /\ refs[c] = 0
  /\ dead' = dead \ {c}
  /\ freed' = freed \cup {c}
  /\ UNCHANGED <<itemVars, clients, refs, jobs, phase, progress, historyVars>>
-----------------------------------------------------------------------------
Lengths == 1 .. MaxSequence

RunHead(q) ==
  \/ \E c \in Borrowed(q) : RunNormal(q, c)
  \/ RunFail(q)
  \/ \E c \in Borrowed(q), n \in Lengths : RunNested(q, c, n)
  \/ RunWait(q)
  \/ \E c \in Live \cup Borrowed(q) \cup {NoClient}, b \in BOOLEAN : RunJob(q, c, b)
  \/ \E c \in Borrowed(q), ret \in {"normal", "wait", "error"} : RunEvent(q, c, ret)
  \/ \E x \in waits : RunWake(q, x)
  \/ \E n \in {0} \cup Lengths : RunKey(q, n)
  \/ RunCallback(q)
  \/ RunDead(q)
  \/ RemoveFired(q)

Sweep ==
  \E q \in Queues :
    \/ Ready(q) /\ RunHead(q)
    \/ LeaveQueue(q)

Callbacks ==
  \/ \E c \in Clients : Connect(c) \/ Key(c) \/ ClientLost(c) \/ FreeClient(c)
  \/ \E c \in Clients, n \in Lengths : Dispatch(c, n)
  \/ Event
  \/ \E x \in waits : Continue(x)
  \/ \E j \in jobs, n \in {0} \cup Lengths : JobDone(j, n) \/ BackgroundDone(j, n)

Next == EnterLoop \/ Sweep \/ Callbacks

Spec == Init /\ [][Next]_vars

(* proc_loop calls server_loop after every turn of the event loop, which   *)
(* turns at least when server_tidy_event is due, and the loop runs what it *)
(* can.  Callbacks are possible in phase "poll" only, so theirs is strong  *)
(* fairness: a turn of libevent runs every callback that is due before it  *)
(* returns, and a job that has ended stays due.                            *)
FairSpec ==
  /\ Spec
  /\ WF_vars(EnterLoop)
  /\ WF_vars(Sweep)
  /\ SF_vars(\E j \in jobs : JobDone(j, 0) \/ BackgroundDone(j, 0))
  /\ \A c \in Clients : SF_vars(FreeClient(c))
-----------------------------------------------------------------------------
ItemRecords ==
  [kind : {"command", "key", "done"}, seq : 1 .. MaxItems, group : 0 .. MaxItems + 4,
   client : Clients \cup {NoClient}, hooks : BOOLEAN, parent : 0 .. MaxItems]
JobRecords ==
  [item : 0 .. MaxItems, client : Clients \cup {NoClient}, made : 1 .. MaxItems]
TypeOK ==
  /\ items \in Seq(ItemRecords) /\ Len(items) <= MaxItems
  /\ list \in [Queues -> Seq(DOMAIN items)]
  /\ current \in [Queues -> 0 .. MaxItems]
  /\ fired \subseteq Listed /\ waits \subseteq fired
  /\ clients \in Seq(Clients) /\ dead \subseteq Clients /\ freed \subseteq Clients
  /\ refs \in [Clients -> Nat]
  /\ jobs \subseteq JobRecords
  /\ ran \in Seq(DOMAIN items) /\ failed \subseteq DOMAIN items
  /\ phase \in Queues \cup {"poll"}

(* Items are fired once: one that waited does not run again when it is     *)
(* continued (cmd-queue.c:747).                                            *)
RanOnce == \A i, j \in DOMAIN ran : ran[i] = ran[j] => i = j

(* The commands of a sequence run in order, and what a command inserted    *)
(* runs before the rest of its sequence.                                   *)
InOrder ==
  \A i, j \in DOMAIN ran : i < j =>
    LET a == ran[i]
        b == ran[j]
    IN  /\ items[a].seq = items[b].seq => a < b
        /\ items[b].parent # 0 /\ items[b].parent # a
             => ~(items[a].seq = items[items[b].parent].seq /\ a > items[b].parent)

(* After an error no later command of the sequence runs (tmux.1:540).      *)
ErrorStops ==
  \A i, j \in DOMAIN ran :
    i < j /\ ran[i] \in failed => items[ran[i]].seq # items[ran[j]].seq

(* Whatever waits, jobs and hooks come between, the commands of a queue run *)
(* once each and in the order of their sequences, up to the first error.   *)
SequencesKept == RanOnce /\ InOrder /\ ErrorStops

(* No hook is run for a command that a hook ran, directly or through what  *)
(* it inserted or its job did (tmux.1:6632): hooks do not run for ever.    *)
OfHook(i) == items[i].group \in {HookGroup(h) : h \in Hooks}
WithParents(S) == \A k \in S : items[k].parent # 0 => items[k].parent \in S
PartOfHook(i) ==
  \A S \in SUBSET DOMAIN items : i \in S /\ WithParents(S) => \E k \in S : OfHook(k)
NoHooksOfHooks ==
  \A i \in DOMAIN items :
    OfHook(i) /\ items[i].parent # 0 => ~PartOfHook(items[i].parent)

(* Between two turns queue->item is NULL or the head of the list, so that  *)
(* cmdq_running never returns a freed item.                                *)
RunningIsListed ==
  phase = "poll" => \A q \in Queues : current[q] # 0 => current[q] = HeadOrNull(q)

(* Only the head of a queue waits: nothing behind it is lost to a wait.    *)
WaiterIsHead == \A x \in waits : \E q \in Queues : HeadOrNull(q) = x

(* A job that a waiting item started has an item to continue.              *)
JobItemsWait == JobItems \ {0} \subseteq waits

(* The queues agree with what waits: a wait can be continued, and its       *)
(* continuation reaches the item it was for and no freed one.              *)
QueuesAgree == RunningIsListed /\ WaiterIsHead /\ JobItemsWait

(* c->references counts the client itself, the items that run for it and   *)
(* the jobs that hold it.                                                  *)
RefsExact ==
  \A c \in Clients :
    refs[c] = (IF c \in Live THEN 1 ELSE 0)
              + Cardinality({x \in Listed : items[x].client = c})
              + Cardinality({j \in jobs : j.client = c})

(* cmdq_free is not called on a queue with items ("queue not empty"), and  *)
(* nothing refers to a client that has been freed.                         *)
FreedClientUnused ==
  \A c \in freed : /\ list[c] = <<>>
                   /\ \A x \in Listed : items[x].client # c
                   /\ \A j \in jobs : j.client # c

(* A client is freed neither early nor while something refers to it.       *)
ReferencesExact == RefsExact /\ FreedClientUnused

(* The server goes back to the event loop only when no queue has work, but *)
(* for what a command that then waited appended to the global queue.       *)
QueuesServed ==
  \A q \in Queues :
    []<>(\/ list[q] = <<>>
         \/ Head_(q) \in waits \ JobItems
         \/ q \in dead)
=============================================================================
