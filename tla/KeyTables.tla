----------------------------- MODULE KeyTables -----------------------------
(***************************************************************************)
(* Key tables (key-bindings.c) and the keys of clients that are looked up  *)
(* in them (server_client_key_callback of server-client.c): the prefix and *)
(* its timeout, keys that repeat and their timer, tables that are removed  *)
(* while clients use them.                                                 *)
(*                                                                         *)
(* A table is a piece of memory: 1, 2, ... .  A binding is "once" or       *)
(* "repeat" (bind -r).  Keys that never reach a table (pastes, focus,      *)
(* panes that capture all keys) change nothing here and are left out.      *)
(***************************************************************************)
EXTENDS Naturals, FiniteSets

CONSTANTS
  Clients,
  Names,         \* of tables, with "root", "prefix" and "copy"
  Keys,          \* keys that may be bound; the prefix key is "C-b"
  Defaults,      \* of each name, the bindings that the server starts with
  Rebindable,    \* bound: the names and keys that commands bind and unbind
  Options,       \* bound: the tables that commands switch to or make the default
  Timeout,       \* whether the option prefix-timeout is set
  MaxTables,     \* bound: tables in memory
  MaxEvents      \* bound: commands, modes and clients that come and go

VARIABLES
  tree,          \* key_tables: the table of each name, 0 if there is none
  tables,        \* the tables in memory
  client,        \* what the server knows of each client
  hangs,         \* the callback of a key does not return
  wrong,         \* history: keys that were "misread" or left a client "astray"
  events

vars == <<tree, tables, client, hangs, wrong, events>>

\* "any" is KEYC_ANY, bound for all keys that are not; "move" is a movement of
\* the mouse (KEYC_MOUSEMOVE_PANE and others), which is not bound here.
Bound == Keys \cup {"any"}
Pressed == Keys \cup {"move"}
Bindings == [Bound -> {"none", "once", "repeat"}]
NoBindings == [k \in Bound |-> "none"]
Free == [name |-> "none", references |-> 0, bound |-> NoBindings,
         defaults |-> NoBindings, age |-> "unset"]
NoClient == [alive |-> FALSE, table |-> 0, repeat |-> FALSE, timer |-> FALSE,
             mode |-> FALSE, default |-> "root", prefixed |-> FALSE]

\* There is room for a table of each name, and one that each client alone has.
ASSUME KeysAssumption ==
  /\ {"root", "prefix", "copy"} \subseteq Names /\ IsFiniteSet(Names)
  /\ IsFiniteSet(Clients)
  /\ "C-b" \in Keys /\ "move" \notin Keys
  /\ Defaults \in [Names -> Bindings] /\ Defaults["root"] # NoBindings
  /\ Rebindable \subseteq Names \X Bound /\ Options \subseteq Names
  /\ Timeout \in BOOLEAN /\ MaxEvents \in Nat
  /\ MaxTables \in Nat /\ MaxTables >= Cardinality(Names) + Cardinality(Clients)

-----------------------------------------------------------------------------
(* Tables and their references.                                             *)

State == [tree |-> tree, tables |-> tables, client |-> client]
Becomes(st) == tree' = st.tree /\ tables' = st.tables /\ client' = st.client

\* key_bindings_get_table, which leaves activity_time uninitialised
Opened(name) == [Free EXCEPT !.name = name, !.references = 1]
Created(st, name) ==
  IF st.tree[name] # 0 THEN st
  ELSE LET t == CHOOSE u \in DOMAIN st.tables : st.tables[u] = Free
       IN [st EXCEPT !.tree[name] = t, !.tables[t] = Opened(name)]

\* key_bindings_unref_table
Dropped(table) ==
  IF table.references = 1 THEN Free ELSE [table EXCEPT !.references = @ - 1]
Unref(st, t) == [st EXCEPT !.tables[t] = Dropped(@)]
Held(table) == [table EXCEPT !.references = @ + 1]
Ref(st, t) == [st EXCEPT !.tables[t] = Held(@)]

\* server_client_set_key_table; the activity of other tables is never read.
Used(table) == [Held(table) EXCEPT !.age = IF table.name = "prefix" THEN "new" ELSE @]
Entered(st, c, t) == [st EXCEPT !.tables[t] = Used(@), !.client[c].table = t]
SetTable(st, c, name) ==
  LET v == Created(Unref(st, st.client[c].table), name)
  IN Entered(v, c, v.tree[name])
SetDefault(st, c) == SetTable(st, c, st.client[c].default)

-----------------------------------------------------------------------------
(* A key: server_client_key_callback.                                       *)

Stopped(st, c) == [st EXCEPT !.client[c].repeat = FALSE]
Armed_slip(st, c) == [st EXCEPT !.client[c].repeat = TRUE]
\* evtimer_add of the repeat timer
Armed(st, c) == [st EXCEPT !.client[c].repeat = TRUE, !.client[c].timer = TRUE]

\* Where the callback has got to.  It is late when the activity of the table and
\* of the client are too far apart, or when the table was set since the key came:
\* the difference is then negative and wraps.
Looking(st, t, late) ==
  [state |-> st, table |-> t, first |-> t, late |-> late, what |-> "again", from |-> "none"]
Again(m, c, st, first) ==
  [m EXCEPT !.state = st, !.table = st.client[c].table, !.first = first, !.late = TRUE]
Ends(m, st, what) ==
  [m EXCEPT !.state = st, !.what = what, !.from = m.state.tables[m.table].name]

\* Execute the binding "how" of the table, which the callback holds meanwhile.
Executed(m, c, how) ==
  IF how = "repeat" THEN Ends(m, Armed(m.state, c), "repeats")
  ELSE Ends(m, Unref(SetDefault(Stopped(Ref(m.state, m.table), c), c), m.table), "once")

\* The binding of the key, or of any key, in the table that the callback is at.
Own(m, k) == IF k \in Keys THEN m.state.tables[m.table].bound[k] ELSE "none"
Binding(m, k) ==
  IF Own(m, k) # "none" THEN Own(m, k) ELSE m.state.tables[m.table].bound["any"]
\* prefix-timeout is over, but for a key that repeats.
Exceeded(m, c, k) ==
  /\ Timeout /\ m.state.tables[m.table].name = "prefix" /\ m.late
  /\ ~(m.state.client[c].repeat /\ Own(m, k) = "repeat")

\* One turn, from the label table_changed.
Turn(m, c, k) ==
  LET me    == m.state.client[c]
      name  == m.state.tables[m.table].name
      reset == SetDefault(m.state, c)
      new   == reset.client[c].table
  IN
  IF m.what # "again" THEN m
  ELSE IF k = "C-b" /\ name # "prefix"
  THEN Ends(m, SetTable(m.state, c, "prefix"), "prefix")
  ELSE IF Exceeded(m, c, k)
  THEN IF new = m.table THEN Ends(m, m.state, "hangs") ELSE Again(m, c, reset, new)
  ELSE IF Binding(m, k) # "none"
  THEN IF me.repeat /\ Binding(m, k) = "once" THEN Again(m, c, Stopped(reset, c), new)
       ELSE Executed(m, c, Binding(m, k))
  ELSE IF k # "move" /\ (name # me.default \/ me.repeat)
  THEN Again(m, c, Stopped(reset, c), IF me.repeat THEN new ELSE m.first)
  ELSE IF k # "move" /\ m.first # m.table THEN Ends(m, reset, "dropped")
  ELSE Ends(m, m.state, "forwarded")

\* There are three at most: the second is in the default table, the third does
\* not repeat.
LookUp(st, c, k, t, late) == Turn(Turn(Turn(Looking(st, t, late), c, k), c, k), c, k)

\* The table that a key is looked up in first: that of the mode of the pane
\* instead of the default.
First(st, c) ==
  IF st.tables[st.client[c].table].name = st.client[c].default /\ st.client[c].mode
  THEN Created(st, "copy") ELSE st
FirstTable(st, c) ==
  IF st.tables[st.client[c].table].name = st.client[c].default /\ st.client[c].mode
  THEN st.tree["copy"] ELSE st.client[c].table

Lateness(table) ==
  IF table.name # "prefix" THEN {FALSE}
  ELSE CASE table.age = "new" -> {FALSE} [] table.age = "old" -> {TRUE}
         [] table.age = "unset" -> BOOLEAN

\* The key is bound in the prefix table, which it should have been looked up in.
Misread(c, k, r) ==
  /\ client[c].prefixed /\ k # "move" /\ tree["prefix"] # 0
  /\ LET bound == tables[tree["prefix"]].bound
     IN bound[k] # "none" \/ bound["any"] # "none"
  /\ r.from # "prefix"

\* The client is in another table than it should be after what became of the key.
Astray(c, k, r) ==
  LET me   == r.state.client[c]
      name == r.state.tables[me.table].name
  IN CASE r.what = "prefix"    -> name # "prefix"
       [] r.what = "repeats"   -> ~(me.repeat /\ me.timer)
       [] r.what \in {"once", "dropped"} -> me.table # r.state.tree[me.default] \/ me.repeat
       [] r.what = "forwarded" -> k # "move" /\ (name # me.default \/ me.repeat)
       [] r.what = "hangs"     -> FALSE
       [] r.what = "again"     -> TRUE

\* History: from the prefix on, the client waits for the next key.
Marked(c, r) ==
  [r.state EXCEPT !.client[c].prefixed =
     r.what = "prefix" /\ ~client[c].repeat /\ client[c].default # "prefix"]

Press(c, k, late) ==
  /\ ~hangs /\ client[c].alive
  /\ late \in Lateness(tables[client[c].table])
  /\ LET st == First(State, c)
         t  == FirstTable(st, c)
     IN \E r \in {LookUp(st, c, k, t, late)} :
          /\ Becomes(Marked(c, r))
          /\ hangs' = (r.what = "hangs")
          /\ wrong' = wrong \cup (IF Misread(c, k, r) THEN {"misread"} ELSE {})
                            \cup (IF Astray(c, k, r) THEN {"astray"} ELSE {})
  /\ UNCHANGED events

-----------------------------------------------------------------------------
(* Timers.                                                                  *)

Expired_slip(st, c) == Stopped(SetDefault(st, c), c)
\* A timer that a key left behind does nothing.
Expired(st, c) == IF st.client[c].repeat THEN Stopped(SetDefault(st, c), c) ELSE st
RepeatTimer(c) ==
  /\ ~hangs /\ client[c].timer
  /\ Becomes(Expired([State EXCEPT !.client[c].timer = FALSE], c))
  /\ UNCHANGED <<hangs, wrong, events>>

\* More than prefix-timeout since the table was set.
Ages(t) ==
  /\ ~hangs /\ tables[t].age = "new"
  /\ tables' = [tables EXCEPT ![t].age = "old"]
  /\ client' = [c \in Clients |-> IF client[c].table = t
                                  THEN [client[c] EXCEPT !.prefixed = FALSE] ELSE client[c]]
  /\ UNCHANGED <<tree, hangs, wrong, events>>

-----------------------------------------------------------------------------
(* Commands.                                                                *)

Event ==
  /\ ~hangs /\ events < MaxEvents /\ events' = events + 1
  /\ UNCHANGED <<hangs, wrong>>

\* From here on a client of the table is not only waiting for the next key.
Disturbed(st, name) ==
  [st EXCEPT !.client = [c \in Clients |->
     IF name = "prefix" THEN [@[c] EXCEPT !.prefixed = FALSE] ELSE @[c]]]

\* key_bindings_add; "note" is bind without a command, which may make a table.
Bind(name, k, how) ==
  /\ Event
  /\ LET st == Created(State, name)
     IN Becomes(Disturbed([st EXCEPT !.tables[st.tree[name]].bound[k] =
                             IF how = "note" THEN @ ELSE how], name))

\* key_bindings_remove: a table that is left empty goes, but for its clients.
Without(st, name, k) ==
  LET t == st.tree[name]
      v == [st EXCEPT !.tables[t].bound[k] = "none"]
  IN IF v.tables[t].bound = NoBindings /\ v.tables[t].defaults = NoBindings
     THEN Unref([v EXCEPT !.tree[name] = 0], t) ELSE v
Unbind(name, k) ==
  /\ Event
  /\ tree[name] # 0 /\ tables[tree[name]].bound[k] # "none"
  /\ Becomes(Disturbed(Without(State, name, k), name))

\* key_bindings_reset
Reset(name, k) ==
  /\ Event
  /\ tree[name] # 0 /\ tables[tree[name]].bound[k] # "none"
  /\ LET how == tables[tree[name]].defaults[k]
     IN Becomes(Disturbed(IF how = "none" THEN Without(State, name, k)
                          ELSE [State EXCEPT !.tables[tree[name]].bound[k] = how], name))

\* key_bindings_remove_table: its clients get their default table, one by one.
Inside(st, t) == {c \in Clients : st.client[c].alive /\ st.client[c].table = t}
ReturnOne(st, t) ==
  IF Inside(st, t) = {} THEN st ELSE SetDefault(st, CHOOSE c \in Inside(st, t) : TRUE)
Returned(st, t) ==
  LET after[n \in 0 .. Cardinality(Clients)] ==
        IF n = 0 THEN st ELSE ReturnOne(after[n - 1], t)
  IN after[Cardinality(Clients)]
UnbindAll(name) ==
  /\ Event
  /\ tree[name] # 0
  /\ LET t == tree[name]
         st == Returned([State EXCEPT !.tree[name] = 0], t)
     IN Becomes(Disturbed(Unref(st, t), name))

\* switch-client -T
SwitchedClient_slip(c, name) == Unref(State, client[c].table)
SwitchedClient(c, name) == Unref(Ref(State, tree[name]), client[c].table)
SwitchTable(c, name) ==
  /\ Event
  /\ client[c].alive /\ tree[name] # 0
  /\ Becomes([SwitchedClient(c, name) EXCEPT
                !.client[c].table = tree[name], !.client[c].prefixed = FALSE])

\* The option key-table of the client's session; a pane that enters or leaves a mode.
SetOption(c, name) ==
  /\ Event
  /\ client[c].alive
  /\ Becomes([State EXCEPT !.client[c].default = name, !.client[c].prefixed = FALSE])
Mode(c) ==
  /\ Event
  /\ client[c].alive
  /\ Becomes([State EXCEPT !.client[c].mode = ~@])

\* server_client_create and server_client_lost
Attach(c) ==
  /\ Event
  /\ ~client[c].alive
  /\ LET st == Created(State, "root")
     IN Becomes([Ref(st, st.tree["root"]) EXCEPT
          !.client[c] = [NoClient EXCEPT !.alive = TRUE, !.table = st.tree["root"]]])
Lost(c) ==
  /\ Event
  /\ client[c].alive
  /\ Becomes([Unref(State, client[c].table) EXCEPT !.client[c] = NoClient])

-----------------------------------------------------------------------------

\* key_bindings_init, and clients that have been created
Init ==
  LET named == {n \in Names : Defaults[n] # NoBindings}
      id    == CHOOSE f \in [named -> 1 .. Cardinality(named)] :
                 \A m, n \in named : f[m] = f[n] => m = n
      users(n) == IF n = "root" THEN Cardinality(Clients) ELSE 0
      table(n) == [name |-> n, references |-> 1 + users(n), bound |-> Defaults[n],
                   defaults |-> Defaults[n], age |-> "unset"]
  IN /\ tree = [n \in Names |-> IF n \in named THEN id[n] ELSE 0]
     /\ tables = [t \in 1 .. MaxTables |->
                    IF t \in 1 .. Cardinality(named)
                    THEN table(CHOOSE n \in named : id[n] = t) ELSE Free]
     /\ client = [c \in Clients |-> [NoClient EXCEPT !.alive = TRUE, !.table = id["root"]]]
     /\ hangs = FALSE
     /\ wrong = {}
     /\ events = 0

Next ==
  \/ \E c \in Clients, k \in Pressed, late \in BOOLEAN : Press(c, k, late)
  \/ \E c \in Clients : RepeatTimer(c)
  \/ \E t \in DOMAIN tables : Ages(t)
  \/ \E b \in Rebindable, how \in {"once", "repeat", "note"} : Bind(b[1], b[2], how)
  \/ \E b \in Rebindable : Unbind(b[1], b[2])
  \/ \E b \in Rebindable : Reset(b[1], b[2])
  \/ \E n \in Names : UnbindAll(n)
  \/ \E c \in Clients, n \in Options : SwitchTable(c, n)
  \/ \E c \in Clients, n \in Options : SetOption(c, n)
  \/ \E c \in Clients : Mode(c)
  \/ \E c \in Clients : Attach(c)
  \/ \E c \in Clients : Lost(c)

Spec == Init /\ [][Next]_vars

-----------------------------------------------------------------------------

Live == {c \in Clients : client[c].alive}

TypeOK ==
  /\ \A n \in Names : tree[n] \in {0} \cup {t \in DOMAIN tables : tables[t].name = n}
  /\ \A t \in DOMAIN tables :
       /\ tables[t].bound \in [Bound -> {"none", "once", "repeat"}]
       /\ tables[t].references \in 0 .. Cardinality(Clients) + 1
  /\ \A c \in Clients \ Live : client[c] = NoClient
  /\ events \in 0 .. MaxEvents

\* A table is in memory exactly as long as a name or a client refers to it:
\* whatever is bound, removed or switched to while clients are in it, nobody has
\* a table that has been freed and none is left over (key-bindings.c:173).
TablesSound ==
  TypeOK /\
  \A t \in DOMAIN tables :
    /\ tables[t].references =
         Cardinality({n \in Names : tree[n] = t}) + Cardinality({c \in Live : client[c].table = t})
    /\ tables[t].references = 0 => tables[t] = Free

\* After a key the client is back in its default table (tmux.1:1790), unless the
\* key may repeat or was the prefix; and a client that repeats has a timer that
\* will bring it back, whatever other keys, tables and commands come meanwhile.
ReturnsAfterKey ==
  /\ "astray" \notin wrong
  /\ \A c \in Clients : client[c].repeat => client[c].timer

\* A key that is pressed after the prefix, in time, is looked up in the prefix
\* table (tmux.1:4478), whatever other clients, timers, modes and options do, if
\* the client was not repeating when the prefix came and nobody rebound keys of
\* the table or switched the client.
PrefixObeyed == "misread" \notin wrong
=============================================================================
