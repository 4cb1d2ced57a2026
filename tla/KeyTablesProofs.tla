-------------------------- MODULE KeyTablesProofs --------------------------
(***************************************************************************)
(* Proofs about KeyTables for any number of clients, names and keys.       *)
(*                                                                         *)
(* The references of a table are counted while a handler is between two    *)
(* steps: Counts has the clients H that hold a table at that moment and    *)
(* the table "held" that the callback of a key, or the removal of a table, *)
(* holds itself.  A client that waits for the key after the prefix         *)
(* (Waiting) is in the table that has the name "prefix", and no step of    *)
(* another client takes that table away or sets its time (Stays).          *)
(***************************************************************************)
EXTENDS KeyTables, FiniteSetTheorems, TLAPS

Slots == 1 .. MaxTables
TableType == [name : Names \cup {"none"}, references : Nat, bound : Bindings,
              defaults : Bindings, age : {"unset", "new", "old"}]
ClientType == [alive : BOOLEAN, table : 0 .. MaxTables, repeat : BOOLEAN,
               timer : BOOLEAN, mode : BOOLEAN, default : Names, prefixed : BOOLEAN]
States == [tree : [Names -> 0 .. MaxTables], tables : [Slots -> TableType],
           client : [Clients -> ClientType]]

Named(st, t) == {n \in Names : st.tree[n] = t}
Users(st, H, t) == {c \in H : st.client[c].table = t}
Holding(held, t) == IF t = held THEN 1 ELSE 0
References(st, H, held, t) ==
  Cardinality(Named(st, t)) + Cardinality(Users(st, H, t)) + Holding(held, t)

Listed(st) == \A n \in Names : st.tree[n] # 0 => st.tables[st.tree[n]].name = n
Counted(st, H, held) ==
  \A t \in Slots : /\ st.tables[t].references = References(st, H, held, t)
                   /\ st.tables[t].references = 0 => st.tables[t] = Free
Counts(st, H, held) ==
  /\ st \in States /\ H \subseteq Clients /\ held \in 0 .. MaxTables
  /\ \A c \in H : st.client[c].table \in Slots
  /\ Listed(st) /\ Counted(st, H, held)

Fresh(st) == st.tree["prefix"] # 0 /\ st.tables[st.tree["prefix"]].age = "new"
Waiting(st, c) ==
  /\ st.client[c].alive /\ ~st.client[c].repeat /\ st.client[c].default # "prefix"
  /\ st.client[c].table = st.tree["prefix"] /\ Fresh(st)
Timed(st, c) == st.client[c].repeat => st.client[c].timer
Kept(st, c) ==
  /\ Timed(st, c)
  /\ st.client[c].prefixed => Waiting(st, c)
  /\ ~st.client[c].alive => st.client[c] = NoClient

Alive(st) == {c \in Clients : st.client[c].alive}
Good(st) == Counts(st, Alive(st), 0) /\ \A c \in Clients : Kept(st, c)
IInv ==
  /\ Good(State)
  /\ wrong = {} /\ hangs \in BOOLEAN /\ events \in 0 .. MaxEvents

\* What keeps a client that waits waiting, as far as the tables go.
Stays(st, n) == Fresh(st) => n.tree["prefix"] = st.tree["prefix"] /\ Fresh(n)

-----------------------------------------------------------------------------
(* Who refers to a table.                                                   *)

(* Both kinds of references are finitely many; there is one at least as soon *)
(* as a name or a client refers to the table.                                *)
LEMMA Counting ==
  ASSUME NEW st, NEW H \in SUBSET Clients, NEW t
  PROVE  /\ IsFiniteSet(Named(st, t)) /\ IsFiniteSet(Users(st, H, t))
         /\ Cardinality(Named(st, t)) \in Nat /\ Cardinality(Users(st, H, t)) \in Nat
         /\ \A n \in Names : st.tree[n] = t => Cardinality(Named(st, t)) >= 1
         /\ \A c \in H : st.client[c].table = t => Cardinality(Users(st, H, t)) >= 1
  <1>1. Named(st, t) \in SUBSET Names /\ Users(st, H, t) \in SUBSET Clients
    BY DEF Named, Users
  <1>2. IsFiniteSet(Named(st, t)) /\ IsFiniteSet(Users(st, H, t))
    BY <1>1, FS_Subset, KeysAssumption
  <1>3. Cardinality(Named(st, t)) \in Nat /\ Cardinality(Users(st, H, t)) \in Nat
    BY <1>2, FS_CardinalityType
  <1>4. \A n \in Names : st.tree[n] = t => Cardinality(Named(st, t)) >= 1
    <2>1. ASSUME NEW n \in Names, st.tree[n] = t PROVE Cardinality(Named(st, t)) # 0
      BY <2>1, <1>2, FS_EmptySet DEF Named
    <2> QED BY <2>1, <1>3
  <1>5. \A c \in H : st.client[c].table = t => Cardinality(Users(st, H, t)) >= 1
    <2>1. ASSUME NEW c \in H, st.client[c].table = t
          PROVE  Cardinality(Users(st, H, t)) # 0
      BY <2>1, <1>2, FS_EmptySet DEF Users
    <2> QED BY <2>1, <1>3
  <1> QED BY <1>2, <1>3, <1>4, <1>5

(* A name that is given a table, or loses it, changes one count by one.      *)
LEMMA NamedChanges ==
  ASSUME NEW st, NEW n, NEW name \in Names, NEW t,
         st.tree \in [Names -> 0 .. MaxTables], n.tree = [st.tree EXCEPT ![name] = t]
  PROVE  /\ st.tree[name] # t => Cardinality(Named(n, t)) = Cardinality(Named(st, t)) + 1
         /\ st.tree[name] # t => Cardinality(Named(n, st.tree[name]))
                                   = Cardinality(Named(st, st.tree[name])) - 1
         /\ \A u : u # t /\ u # st.tree[name] => Named(n, u) = Named(st, u)
  <1>1. \A m \in Names : n.tree[m] = IF m = name THEN t ELSE st.tree[m]
    OBVIOUS
  <1>2. \A u : u # t /\ u # st.tree[name] => Named(n, u) = Named(st, u)
    BY <1>1 DEF Named
  <1>3. ASSUME st.tree[name] # t
        PROVE  /\ Named(n, t) = Named(st, t) \cup {name} /\ name \notin Named(st, t)
               /\ Named(n, st.tree[name]) = Named(st, st.tree[name]) \ {name}
               /\ name \in Named(st, st.tree[name])
    BY <1>1, <1>3 DEF Named
  <1>4. IsFiniteSet(Named(st, t)) /\ IsFiniteSet(Named(st, st.tree[name]))
    BY Counting, {} \in SUBSET Clients
  <1> QED BY <1>2, <1>3, <1>4, FS_AddElement, FS_RemoveElement

(* A client that holds no table any more.                                    *)
LEMMA UsersWithout ==
  ASSUME NEW st, NEW H \in SUBSET Clients, NEW c \in H
  PROVE  /\ Cardinality(Users(st, H \ {c}, st.client[c].table))
              = Cardinality(Users(st, H, st.client[c].table)) - 1
         /\ \A u : u # st.client[c].table => Users(st, H \ {c}, u) = Users(st, H, u)
  <1> DEFINE t == st.client[c].table
  <1>1. Users(st, H \ {c}, t) = Users(st, H, t) \ {c} /\ c \in Users(st, H, t)
    BY DEF Users
  <1>2. \A u : u # t => Users(st, H \ {c}, u) = Users(st, H, u)
    BY DEF Users
  <1>3. IsFiniteSet(Users(st, H, t))
    BY Counting
  <1>4. Cardinality(Users(st, H, t) \ {c}) = Cardinality(Users(st, H, t)) - 1
    BY <1>1, <1>3, FS_RemoveElement
  <1> QED BY <1>1, <1>2, <1>4

LEMMA UsersSame ==
  ASSUME NEW st, NEW n, NEW H, \A d \in H : n.client[d].table = st.client[d].table
  PROVE  \A u : Users(n, H, u) = Users(st, H, u)
  BY DEF Users

LEMMA NamedSame ==
  ASSUME NEW st, NEW n, n.tree = st.tree
  PROVE  \A u : Named(n, u) = Named(st, u)
  BY DEF Named

LEMMA Types ==
  ASSUME NEW st \in States
  PROVE  /\ st.tree \in [Names -> 0 .. MaxTables]
         /\ st.tables \in [Slots -> TableType]
         /\ st.client \in [Clients -> ClientType]
         /\ \A c \in Clients : st.client[c] \in ClientType
         /\ \A t \in Slots : st.tables[t] \in TableType
         /\ {"root", "prefix", "copy"} \subseteq Names
  BY KeysAssumption DEF States

(* A handler that gives the clients other tables leaves the rest of them.    *)
LEMMA WithTables ==
  ASSUME NEW st \in States, NEW tables1 \in [Slots -> TableType]
  PROVE  LET n == [st EXCEPT !.tables = tables1]
         IN n \in States /\ n.tree = st.tree /\ n.tables = tables1 /\ n.client = st.client
  BY DEF States
-----------------------------------------------------------------------------
(* The steps that every handler is made of keep the counts.                 *)

LEMMA DroppedIs ==
  ASSUME NEW table \in TableType, table.references # 0
  PROVE  /\ Dropped(table) \in TableType
         /\ Dropped(table).references = table.references - 1
         /\ Dropped(table).references = 0 => Dropped(table) = Free
         /\ table.references # 1 => /\ Dropped(table).name = table.name
                                    /\ Dropped(table).age = table.age
  <1>1. CASE table.references = 1
    <2>1. Free \in TableType /\ Free.references = 0
      BY DEF Free, TableType, NoBindings, Bindings, Bound
    <2> QED BY <1>1, <2>1 DEF Dropped
  <1>2. CASE table.references # 1
    BY <1>2 DEF Dropped, TableType
  <1> QED BY <1>1, <1>2

LEMMA UnrefFields ==
  ASSUME NEW st \in States, NEW t \in Slots, st.tables[t].references # 0
  PROVE  /\ Unref(st, t) \in States
         /\ Unref(st, t).tree = st.tree /\ Unref(st, t).client = st.client
         /\ Unref(st, t).tables = [st.tables EXCEPT ![t] = Dropped(st.tables[t])]
  <1>1. Dropped(st.tables[t]) \in TableType
    BY Types, DroppedIs
  <1> QED BY <1>1 DEF Unref, States

(* What a reference that goes leaves: "others" and "users" are what counts   *)
(* when it is gone.                                                          *)
LEMMA UnrefIs ==
  ASSUME NEW st \in States, NEW t \in Slots, NEW H \in SUBSET Clients,
         NEW held \in 0 .. MaxTables, NEW H1 \in SUBSET H, NEW held1 \in 0 .. MaxTables,
         Counts(st, H, held),
         References(st, H1, held1, t) = References(st, H, held, t) - 1,
         \A u \in Slots : u # t => References(st, H1, held1, u) = References(st, H, held, u)
  PROVE  Counts(Unref(st, t), H1, held1) /\ Stays(st, Unref(st, t))
  <1> DEFINE n == Unref(st, t)
  <1>1. /\ Cardinality(Named(st, t)) \in Nat
        /\ Cardinality(Users(st, H1, t)) \in Nat /\ Holding(held1, t) \in Nat
        /\ st.tables[t].references \in Nat
    BY Counting, Types DEF Holding, TableType
  <1>2. /\ st.tables[t].references = References(st, H, held, t)
        /\ st.tables[t].references = References(st, H1, held1, t) + 1
    BY <1>1 DEF Counts, Counted
  <1>3. References(st, H1, held1, t) \in Nat /\ st.tables[t].references # 0
    BY <1>1, <1>2 DEF References
  <1>4. /\ n \in States /\ n.tree = st.tree /\ n.client = st.client
        /\ n.tables = [st.tables EXCEPT ![t] = Dropped(st.tables[t])]
    BY <1>3, UnrefFields
  <1> HIDE DEF n
  <1>5. \A u : References(n, H1, held1, u) = References(st, H1, held1, u)
    BY <1>4, NamedSame, UsersSame DEF References
  <1>6. /\ st.tables[t] \in TableType /\ st.tables \in [Slots -> TableType]
        /\ st.tree \in [Names -> 0 .. MaxTables] /\ "prefix" \in Names
    BY Types
  <1>7. /\ Dropped(st.tables[t]).references = References(st, H1, held1, t)
        /\ Dropped(st.tables[t]).references = 0 => Dropped(st.tables[t]) = Free
        /\ References(st, H1, held1, t) # 0 =>
              /\ Dropped(st.tables[t]).name = st.tables[t].name
              /\ Dropped(st.tables[t]).age = st.tables[t].age
    <2>1. /\ Dropped(st.tables[t]).references = st.tables[t].references - 1
          /\ Dropped(st.tables[t]).references = 0 => Dropped(st.tables[t]) = Free
          /\ st.tables[t].references # 1 =>
                /\ Dropped(st.tables[t]).name = st.tables[t].name
                /\ Dropped(st.tables[t]).age = st.tables[t].age
      BY <1>3, <1>6, DroppedIs
    <2> QED BY <2>1, <1>2, <1>3
  <1>8. Counted(n, H1, held1)
    <2>1. n.tables[t] = Dropped(st.tables[t]) /\ \A u \in Slots \ {t} : n.tables[u] = st.tables[u]
      BY <1>4, <1>6
    <2>2. /\ n.tables[t].references = References(n, H1, held1, t)
          /\ n.tables[t].references = 0 => n.tables[t] = Free
      BY <1>5, <1>7, <2>1
    <2>3. ASSUME NEW u \in Slots
          PROVE  /\ n.tables[u].references = References(n, H1, held1, u)
                 /\ n.tables[u].references = 0 => n.tables[u] = Free
      <3>1. CASE u = t
        BY <2>2, <3>1
      <3>2. CASE u # t
        <4>1. n.tables[u] = st.tables[u]
          BY <2>1, <3>2
        <4>2. /\ st.tables[u].references = References(st, H1, held1, u)
              /\ st.tables[u].references = 0 => st.tables[u] = Free
          BY <1>1, <3>2 DEF Counts, Counted
        <4> QED BY <1>5, <4>1, <4>2
      <3> QED BY <3>1, <3>2
    <2> QED BY <2>3 DEF Counted
  <1>9. \A m \in Names : st.tree[m] = t => References(st, H1, held1, t) # 0
    <2>1. ASSUME NEW m \in Names, st.tree[m] = t PROVE Cardinality(Named(st, t)) >= 1
      BY <2>1, Counting
    <2>2. Cardinality(Named(st, t)) >= 1 => References(st, H1, held1, t) # 0
      BY <1>1 DEF References
    <2> QED BY <2>1, <2>2
  <1>10. Listed(n)
    BY <1>4, <1>6, <1>7, <1>9 DEF Counts, Listed
  <1>11. Stays(st, n)
    BY <1>4, <1>6, <1>7, <1>9 DEF Stays, Fresh
  <1>12. \A c \in H1 : n.client[c].table \in Slots
    BY <1>4 DEF Counts
  <1> QED BY <1>4, <1>8, <1>10, <1>11, <1>12 DEF Counts, n

(* A client leaves its table.                                                *)
LEMMA LeavesIs ==
  ASSUME NEW st, NEW H, NEW held, NEW c \in H, Counts(st, H, held)
  PROVE  /\ Counts(Unref(st, st.client[c].table), H \ {c}, held)
         /\ Stays(st, Unref(st, st.client[c].table))
         /\ Unref(st, st.client[c].table).tree = st.tree
         /\ Unref(st, st.client[c].table).client = st.client
  <1> DEFINE t == st.client[c].table
  <1>1. /\ st \in States /\ H \in SUBSET Clients /\ t \in Slots
        /\ held \in 0 .. MaxTables
    BY DEF Counts
  <1>2. /\ Cardinality(Users(st, H \ {c}, t)) = Cardinality(Users(st, H, t)) - 1
        /\ \A u : u # t => Users(st, H \ {c}, u) = Users(st, H, u)
    BY <1>1, UsersWithout
  <1>3. /\ Cardinality(Named(st, t)) \in Nat /\ Cardinality(Users(st, H, t)) \in Nat
        /\ Cardinality(Users(st, H, t)) >= 1 /\ Holding(held, t) \in Nat
    BY <1>1, Counting DEF Holding
  <1>4. /\ References(st, H \ {c}, held, t) = References(st, H, held, t) - 1
        /\ \A u \in Slots : u # t => References(st, H \ {c}, held, u) = References(st, H, held, u)
    <2> HIDE DEF t
    <2>1. References(st, H \ {c}, held, t) = References(st, H, held, t) - 1
      BY <1>2, <1>3 DEF References
    <2>2. \A u : u # t => References(st, H \ {c}, held, u) = References(st, H, held, u)
      BY <1>2 DEF References
    <2> QED BY <2>1, <2>2
  <1>5. st.tables[t].references # 0
    BY <1>1, <1>3 DEF Counts, Counted, References
  <1>6. H \ {c} \in SUBSET H
    OBVIOUS
  <1>7. Counts(Unref(st, t), H \ {c}, held) /\ Stays(st, Unref(st, t))
    BY <1>1, <1>4, <1>6, UnrefIs
  <1> QED BY <1>1, <1>5, <1>7, UnrefFields

(* The table that is held is let go.                                         *)
LEMMA LetGoIs ==
  ASSUME NEW st, NEW H, NEW t \in Slots, Counts(st, H, t)
  PROVE  /\ Counts(Unref(st, t), H, 0) /\ Stays(st, Unref(st, t))
         /\ Unref(st, t).tree = st.tree /\ Unref(st, t).client = st.client
  <1>1. st \in States /\ H \in SUBSET Clients /\ t \in 0 .. MaxTables /\ 0 \in 0 .. MaxTables
    BY KeysAssumption DEF Counts, Slots
  <1>2. Cardinality(Named(st, t)) \in Nat /\ Cardinality(Users(st, H, t)) \in Nat
    BY <1>1, Counting
  <1>3. /\ Holding(t, t) = 1 /\ Holding(0, t) = 0
        /\ \A u \in Slots : u # t => Holding(t, u) = Holding(0, u)
    BY DEF Holding, Slots
  <1>4. /\ References(st, H, 0, t) = References(st, H, t, t) - 1
        /\ \A u \in Slots : u # t => References(st, H, 0, u) = References(st, H, t, u)
    BY <1>2, <1>3 DEF References
  <1>5. st.tables[t].references # 0
    BY <1>1, <1>2, <1>3 DEF Counts, Counted, References
  <1> QED BY <1>1, <1>4, <1>5, UnrefIs, UnrefFields
-----------------------------------------------------------------------------
(* There is always a table that is free for a name that has none.           *)

LEMMA Image ==
  ASSUME NEW S, IsFiniteSet(S), NEW f, f = [x \in S |-> f[x]]
  PROVE  /\ IsFiniteSet({f[x] : x \in S})
         /\ Cardinality({f[x] : x \in S}) <= Cardinality(S)
         /\ Cardinality({f[x] : x \in S}) \in Nat
  <1> DEFINE T == {f[x] : x \in S}
  <1>1. f \in Surjection(S, T)
    BY DEF Surjection
  <1>2. IsFiniteSet(T) /\ Cardinality(T) <= Cardinality(S)
    BY <1>1, FS_Surjection
  <1> QED BY <1>2, FS_CardinalityType

LEMMA UnionBound ==
  ASSUME NEW S, IsFiniteSet(S), NEW T, IsFiniteSet(T)
  PROVE  /\ IsFiniteSet(S \cup T)
         /\ Cardinality(S \cup T) <= Cardinality(S) + Cardinality(T)
         /\ Cardinality(S \cup T) \in Nat
  <1>1. IsFiniteSet(S \cap T) /\ IsFiniteSet(S \cup T)
    BY FS_Intersection, FS_Union
  <1>2. Cardinality(S \cup T) = Cardinality(S) + Cardinality(T) - Cardinality(S \cap T)
    BY FS_Union
  <1>3. /\ Cardinality(S) \in Nat /\ Cardinality(T) \in Nat
        /\ Cardinality(S \cap T) \in Nat /\ Cardinality(S \cup T) \in Nat
    BY <1>1, FS_CardinalityType
  <1> QED BY <1>1, <1>2, <1>3

(* A name without a table and, while a table is held, a client without one   *)
(* leave one of the tables to be opened: key_bindings_get_table is called    *)
(* when the client has left its table.                                       *)
LEMMA FreeTable ==
  ASSUME NEW st, NEW H, NEW held, Counts(st, H, held),
         NEW name \in Names, st.tree[name] = 0, H # Clients \/ held = 0
  PROVE  \E u \in Slots : st.tables[u] = Free
  <1> DEFINE A == {st.tree[n] : n \in Names \ {name}}
             B == {st.client[c].table : c \in H}
             C == {held} \ {0}
  <1> SUFFICES ASSUME \A u \in Slots : st.tables[u] # Free PROVE FALSE
    OBVIOUS
  <1>1. /\ st \in States /\ H \in SUBSET Clients /\ held \in 0 .. MaxTables
        /\ MaxTables \in Nat /\ MaxTables >= Cardinality(Names) + Cardinality(Clients)
        /\ IsFiniteSet(Names) /\ IsFiniteSet(Clients)
    BY KeysAssumption DEF Counts
  <1>2. Slots \subseteq A \cup B \cup C
    <2> SUFFICES ASSUME NEW t \in Slots, t \notin A \cup B \cup C PROVE FALSE
      OBVIOUS
    <2>1. Named(st, t) = {} /\ Users(st, H, t) = {} /\ Holding(held, t) = 0
      BY DEF Named, Users, Holding, Slots
    <2>2. References(st, H, held, t) = 0
      BY <2>1, FS_EmptySet DEF References
    <2> QED BY <2>2 DEF Counts, Counted
  <1>3. /\ IsFiniteSet(A) /\ Cardinality(A) \in Nat
        /\ Cardinality(A) <= Cardinality(Names) - 1
    <2> DEFINE f == [n \in Names \ {name} |-> st.tree[n]]
    <2>1. /\ IsFiniteSet(Names \ {name})
          /\ Cardinality(Names \ {name}) = Cardinality(Names) - 1
      BY <1>1, FS_RemoveElement
    <2>2. /\ f = [n \in Names \ {name} |-> f[n]]
          /\ {f[n] : n \in Names \ {name}} = A
      OBVIOUS
    <2> HIDE DEF f, A
    <2> QED BY <2>1, <2>2, Image
  <1>4. /\ IsFiniteSet(B) /\ Cardinality(B) \in Nat /\ IsFiniteSet(H)
        /\ Cardinality(B) <= Cardinality(H) /\ Cardinality(H) \in Nat
    <2> DEFINE f == [c \in H |-> st.client[c].table]
    <2>1. IsFiniteSet(H) /\ Cardinality(H) \in Nat
      BY <1>1, FS_Subset, FS_CardinalityType
    <2>2. f = [c \in H |-> f[c]] /\ {f[c] : c \in H} = B
      OBVIOUS
    <2> HIDE DEF f, B
    <2> QED BY <2>1, <2>2, Image
  <1>5. /\ IsFiniteSet(C) /\ Cardinality(C) \in Nat
        /\ Cardinality(C) <= 1
        /\ held = 0 => Cardinality(C) = 0
    <2>1. CASE held = 0
      <3>1. C = {}
        BY <2>1
      <3> QED BY <3>1, FS_EmptySet
    <2>2. CASE held # 0
      <3>1. C = {held}
        BY <2>2
      <3>2. IsFiniteSet({held}) /\ Cardinality({held}) = 1
        BY FS_Singleton
      <3> QED BY <2>2, <3>1, <3>2
    <2> QED BY <2>1, <2>2
  <1>6. /\ Cardinality(H) <= Cardinality(Clients) /\ Cardinality(Clients) \in Nat
        /\ H # Clients => Cardinality(H) # Cardinality(Clients)
    BY <1>1, FS_Subset, FS_CardinalityType
  <1> HIDE DEF A, B, C
  <1>7. /\ IsFiniteSet(A \cup B \cup C) /\ Cardinality(A \cup B \cup C) \in Nat
        /\ Cardinality(A \cup B \cup C) <= Cardinality(A) + Cardinality(B) + Cardinality(C)
    <2>1. /\ IsFiniteSet(A \cup B) /\ Cardinality(A \cup B) \in Nat
          /\ Cardinality(A \cup B) <= Cardinality(A) + Cardinality(B)
      BY <1>3, <1>4, UnionBound
    <2>2. /\ IsFiniteSet((A \cup B) \cup C) /\ Cardinality((A \cup B) \cup C) \in Nat
          /\ Cardinality((A \cup B) \cup C) <= Cardinality(A \cup B) + Cardinality(C)
      BY <2>1, <1>5, UnionBound
    <2> QED BY <2>1, <2>2, <1>3, <1>4, <1>5
  <1>8. Cardinality(Slots) = MaxTables /\ IsFiniteSet(Slots)
    <2>1. 1 \in Int /\ MaxTables \in Int
      BY <1>1
    <2>2. /\ IsFiniteSet(1 .. MaxTables)
          /\ Cardinality(1 .. MaxTables) = IF 1 > MaxTables THEN 0 ELSE MaxTables - 1 + 1
      BY <2>1, FS_Interval
    <2> QED BY <1>1, <2>2 DEF Slots
  <1>9. MaxTables <= Cardinality(A \cup B \cup C)
    BY <1>2, <1>7, <1>8, FS_Subset
  <1>10. Cardinality(Names) \in Nat
    BY <1>1, FS_CardinalityType
  <1>11. Cardinality(H) + Cardinality(C) <= Cardinality(Clients)
    <2>1. CASE held = 0
      BY <2>1, <1>4, <1>5, <1>6
    <2>2. CASE H # Clients
      BY <2>2, <1>4, <1>5, <1>6
    <2> QED BY <2>1, <2>2
  <1> QED BY <1>1, <1>3, <1>4, <1>5, <1>6, <1>7, <1>9, <1>10, <1>11
-----------------------------------------------------------------------------
(* A table is opened, and a client enters it.                               *)

(* key_bindings_get_table: the table of the name, which is opened with the   *)
(* one reference of its name.                                                *)
LEMMA CreatedIs ==
  ASSUME NEW st, NEW H, NEW held, Counts(st, H, held),
         NEW name \in Names, H # Clients \/ held = 0
  PROVE  /\ Counts(Created(st, name), H, held) /\ Stays(st, Created(st, name))
         /\ Created(st, name).client = st.client
         /\ Created(st, name).tree[name] \in Slots
         /\ st.tree[name] # 0 => Created(st, name) = st
         /\ \A m \in Names \ {name} : Created(st, name).tree[m] = st.tree[m]
  <1> DEFINE n == Created(st, name)
             t == CHOOSE u \in DOMAIN st.tables : st.tables[u] = Free
  <1>1. /\ st \in States /\ H \in SUBSET Clients /\ held \in 0 .. MaxTables
        /\ st.tree \in [Names -> 0 .. MaxTables] /\ st.tables \in [Slots -> TableType]
        /\ st.client \in [Clients -> ClientType] /\ "prefix" \in Names
    BY Types DEF Counts
  <1>2. CASE st.tree[name] # 0
    <2>1. n = st
      BY <1>2 DEF Created
    <2>2. st.tree[name] \in Slots
      BY <1>1, <1>2 DEF Slots
    <2> QED BY <1>2, <2>1, <2>2 DEF Stays
  <1>3. CASE st.tree[name] = 0
    <2>1. t \in Slots /\ st.tables[t] = Free
      <3>1. \E u \in DOMAIN st.tables : st.tables[u] = Free
        BY <1>1, <1>3, FreeTable
      <3> QED BY <3>1, <1>1
    <2> HIDE DEF t
    <2>2. /\ Opened(name) \in TableType /\ Opened(name).references = 1
          /\ Opened(name).name = name /\ Free.references = 0
      BY DEF Opened, Free, TableType, NoBindings, Bindings, Bound
    <2>3. /\ n \in States /\ n.client = st.client
          /\ n.tree = [st.tree EXCEPT ![name] = t]
          /\ n.tables = [st.tables EXCEPT ![t] = Opened(name)]
      <3>1. n = [st EXCEPT !.tree[name] = t, !.tables[t] = Opened(name)]
        BY <1>3 DEF Created, t
      <3>2. t \in 0 .. MaxTables
        BY <2>1 DEF Slots
      <3>3. st = [tree |-> st.tree, tables |-> st.tables, client |-> st.client]
        BY <1>1 DEF States
      <3>4. n = [tree |-> [st.tree EXCEPT ![name] = t],
                 tables |-> [st.tables EXCEPT ![t] = Opened(name)], client |-> st.client]
        BY <3>1, <3>3
      <3>5. /\ [st.tree EXCEPT ![name] = t] \in [Names -> 0 .. MaxTables]
            /\ [st.tables EXCEPT ![t] = Opened(name)] \in [Slots -> TableType]
        BY <3>2, <1>1, <2>1, <2>2
      <3> QED BY <3>4, <3>5, <1>1 DEF States
    <2> HIDE DEF n
    <2>4. References(st, H, held, t) = 0
      BY <1>1, <2>1, <2>2 DEF Counts, Counted
    <2>5. /\ Cardinality(Named(st, t)) \in Nat /\ Cardinality(Users(st, H, t)) \in Nat
          /\ Holding(held, t) \in Nat
      BY <1>1, Counting DEF Holding
    <2>6. /\ Cardinality(Named(n, t)) = Cardinality(Named(st, t)) + 1
          /\ \A u \in Slots : u # t => Named(n, u) = Named(st, u)
      <3>1. st.tree[name] # t
        BY <1>3, <2>1 DEF Slots
      <3>2. /\ st.tree \in [Names -> 0 .. MaxTables]
            /\ n.tree = [st.tree EXCEPT ![name] = t]
        BY <1>1, <2>3
      <3>3. /\ Cardinality(Named(n, t)) = Cardinality(Named(st, t)) + 1
            /\ \A u : u # t /\ u # st.tree[name] => Named(n, u) = Named(st, u)
        BY <3>1, <3>2, NamedChanges
      <3>4. \A u \in Slots : u # st.tree[name]
        BY <1>3 DEF Slots
      <3> QED BY <3>3, <3>4
    <2>7. \A u : Users(n, H, u) = Users(st, H, u)
      BY <2>3, UsersSame
    <2>8. /\ References(n, H, held, t) = 1
          /\ \A u \in Slots : u # t => References(n, H, held, u) = References(st, H, held, u)
      BY <2>4, <2>5, <2>6, <2>7 DEF References
    <2>9. Counted(n, H, held)
      BY <1>1, <2>1, <2>2, <2>3, <2>8 DEF Counts, Counted
    <2>10. \A m \in Names : st.tree[m] # t
      <3>1. ASSUME NEW m \in Names, st.tree[m] = t PROVE Cardinality(Named(st, t)) >= 1
        BY <3>1, <1>1, Counting
      <3>2. ~(Cardinality(Named(st, t)) >= 1)
        BY <2>4, <2>5 DEF References
      <3> QED BY <3>1, <3>2
    <2>11. Listed(n)
      <3> SUFFICES ASSUME NEW m \in Names, n.tree[m] # 0
                   PROVE  n.tables[n.tree[m]].name = m
        BY DEF Listed
      <3>1. CASE m = name
        BY <3>1, <1>1, <2>1, <2>2, <2>3
      <3>2. CASE m # name
        <4>1. n.tree[m] = st.tree[m] /\ st.tree[m] # 0 /\ st.tree[m] # t
          BY <3>2, <1>1, <2>3, <2>10
        <4>2. st.tree[m] \in Slots
          BY <1>1, <4>1 DEF Slots
        <4>3. n.tables[st.tree[m]] = st.tables[st.tree[m]]
          BY <1>1, <2>3, <4>1, <4>2
        <4> QED BY <4>1, <4>3 DEF Counts, Listed
      <3> QED BY <3>1, <3>2
    <2>12. Stays(st, n)
      BY <1>1, <1>3, <2>3, <2>10 DEF Stays, Fresh
    <2>13. Counts(n, H, held)
      BY <1>1, <2>3, <2>9, <2>11 DEF Counts
    <2> QED BY <1>1, <1>3, <2>1, <2>3, <2>12, <2>13 DEF n
  <1> QED BY <1>2, <1>3

LEMMA UsedIs ==
  ASSUME NEW table \in TableType
  PROVE  /\ Used(table) \in TableType /\ Used(table).references = table.references + 1
         /\ Used(table).name = table.name
         /\ table.name = "prefix" => Used(table).age = "new"
         /\ table.age = "new" => Used(table).age = "new"
  <1>1. /\ Held(table) \in TableType /\ Held(table).references = table.references + 1
        /\ Held(table).name = table.name /\ Held(table).age = table.age
    BY DEF Held, TableType
  <1> DEFINE h == Held(table)
             age == IF table.name = "prefix" THEN "new" ELSE h.age
  <1>2. Used(table) = [h EXCEPT !.age = age]
    BY DEF Used
  <1>3. age \in {"unset", "new", "old"}
    BY <1>1 DEF TableType
  <1>4. /\ table.name = "prefix" => age = "new"
        /\ table.age = "new" => age = "new"
    BY <1>1
  <1> HIDE DEF h, age
  <1>5. h \in TableType /\ h.references = table.references + 1 /\ h.name = table.name
    BY <1>1 DEF h
  <1>6. /\ [h EXCEPT !.age = age] \in TableType
        /\ [h EXCEPT !.age = age].references = h.references
        /\ [h EXCEPT !.age = age].name = h.name
        /\ [h EXCEPT !.age = age].age = age
    BY <1>3, <1>5 DEF TableType
  <1> QED BY <1>2, <1>4, <1>5, <1>6

(* server_client_set_key_table, when the client has left its table.          *)
InTable(me, t) == [me EXCEPT !.table = t]

LEMMA EnteredFields ==
  ASSUME NEW st \in States, NEW c \in Clients, NEW t \in Slots
  PROVE  /\ Entered(st, c, t) \in States /\ Entered(st, c, t).tree = st.tree
         /\ \A d \in Clients : d # c => Entered(st, c, t).client[d] = st.client[d]
         /\ Entered(st, c, t).client[c] = InTable(st.client[c], t)
         /\ Entered(st, c, t).client[c].table = t
         /\ \A u \in Slots : u # t => Entered(st, c, t).tables[u] = st.tables[u]
         /\ Entered(st, c, t).tables[t] = Used(st.tables[t])
  <1> DEFINE n == Entered(st, c, t)
  <1>1. /\ st.tables \in [Slots -> TableType] /\ st.tables[t] \in TableType
        /\ st.client \in [Clients -> ClientType] /\ st.client[c] \in ClientType
    BY Types
  <1>2. Used(st.tables[t]) \in TableType
    BY <1>1, UsedIs
  <1>3. [st.client[c] EXCEPT !.table = t] \in ClientType
    <2>1. t \in 0 .. MaxTables
      BY DEF Slots
    <2> QED BY <1>1, <2>1 DEF ClientType
  <1>4. /\ n \in States /\ n.tree = st.tree
        /\ n.tables = [st.tables EXCEPT ![t] = Used(st.tables[t])]
        /\ n.client = [st.client EXCEPT ![c] = [st.client[c] EXCEPT !.table = t]]
    BY <1>1, <1>2, <1>3 DEF Entered, States
  <1> HIDE DEF n
  <1>5. /\ n.client[c].table = t /\ n.tables[t] = Used(st.tables[t])
        /\ \A u \in Slots : u # t => n.tables[u] = st.tables[u]
        /\ n.client[c] = [st.client[c] EXCEPT !.table = t]
        /\ \A d \in Clients : d # c => n.client[d] = st.client[d]
    BY <1>1, <1>4 DEF ClientType
  <1> QED BY <1>4, <1>5 DEF n, InTable

LEMMA EnteredIs ==
  ASSUME NEW st, NEW H \in SUBSET Clients, NEW held, NEW c \in H, NEW t \in Slots,
         Counts(st, H \ {c}, held)
  PROVE  Counts(Entered(st, c, t), H, held) /\ Stays(st, Entered(st, c, t))
  <1> DEFINE n == Entered(st, c, t)
             J == H \ {c}
  <1>1. /\ st \in States /\ held \in 0 .. MaxTables
        /\ st.tree \in [Names -> 0 .. MaxTables] /\ st.tables \in [Slots -> TableType]
        /\ "prefix" \in Names /\ st.tables[t] \in TableType
    BY Types DEF Counts
  <1>2. /\ Used(st.tables[t]).references = st.tables[t].references + 1
        /\ Used(st.tables[t]).name = st.tables[t].name
        /\ st.tables[t].age = "new" => Used(st.tables[t]).age = "new"
    BY <1>1, UsedIs
  <1>3. /\ J \in SUBSET Clients /\ c \notin J /\ c \in Clients
        /\ Counts(st, J, held) /\ \A d \in H : d # c => d \in J
    OBVIOUS
  <1>4. /\ n \in States /\ n.tree = st.tree
        /\ \A u \in Slots : u # t => n.tables[u] = st.tables[u]
        /\ n.tables[t] = Used(st.tables[t]) /\ n.client[c].table = t
        /\ \A d \in Clients : d # c => n.client[d] = st.client[d]
    BY <1>1, <1>3, EnteredFields
  <1> HIDE DEF n
  <1>5. /\ Cardinality(Users(n, H, t)) = Cardinality(Users(st, J, t)) + 1
        /\ \A u : u # t => Users(n, H, u) = Users(st, J, u)
    <2>3. Users(n, H, t) = Users(st, J, t) \cup {c} /\ c \notin Users(st, J, t)
      BY <1>3, <1>4 DEF Users
    <2>4. \A u : u # t => Users(n, H, u) = Users(st, J, u)
      BY <1>3, <1>4 DEF Users
    <2>5. IsFiniteSet(Users(st, J, t))
      BY <1>3, Counting
    <2>6. Cardinality(Users(st, J, t) \cup {c}) = Cardinality(Users(st, J, t)) + 1
      BY <2>3, <2>5, FS_AddElement
    <2> QED BY <2>3, <2>4, <2>6
  <1> HIDE DEF J
  <1>6. \A u : Named(n, u) = Named(st, u)
    BY <1>4, NamedSame
  <1>7. /\ Cardinality(Named(st, t)) \in Nat /\ Cardinality(Users(st, J, t)) \in Nat
        /\ Holding(held, t) \in Nat
    BY <1>3, Counting DEF Holding
  <1>8. References(n, H, held, t) = References(st, J, held, t) + 1
    BY <1>5, <1>6, <1>7 DEF References
  <1>9. \A u : u # t => References(n, H, held, u) = References(st, J, held, u)
    BY <1>5, <1>6 DEF References
  <1>10. References(st, J, held, t) \in Nat
    BY <1>7 DEF References
  <1>11. Counted(n, H, held)
    <2> SUFFICES ASSUME NEW u \in Slots
                 PROVE  /\ n.tables[u].references = References(n, H, held, u)
                        /\ n.tables[u].references = 0 => n.tables[u] = Free
      BY DEF Counted
    <2>1. /\ st.tables[u].references = References(st, J, held, u)
          /\ st.tables[u].references = 0 => st.tables[u] = Free
      BY <1>3 DEF Counts, Counted
    <2>2. CASE u = t
      BY <2>1, <2>2, <1>1, <1>2, <1>4, <1>8, <1>10
    <2>3. CASE u # t
      BY <2>1, <2>3, <1>1, <1>4, <1>9
    <2> QED BY <2>2, <2>3
  <1>12. \A m \in Names : st.tree[m] # 0 => st.tree[m] \in Slots
    BY <1>1 DEF Slots
  <1>13. Listed(n)
    BY <1>2, <1>3, <1>4, <1>12 DEF Counts, Listed
  <1>14. Stays(st, n)
    BY <1>1, <1>2, <1>4, <1>12 DEF Stays, Fresh
  <1>15. \A d \in H : n.client[d].table \in Slots
    BY <1>3, <1>4 DEF Counts
  <1> QED BY <1>1, <1>4, <1>11, <1>13, <1>14, <1>15 DEF Counts, n
-----------------------------------------------------------------------------
(* server_client_set_key_table and the handlers that call it.               *)

(* The other clients are as they were; of this one only the table changes.   *)
Moves(st, n, c) ==
  /\ \A d \in Clients : d # c => n.client[d] = st.client[d]
  /\ n.client[c] = InTable(st.client[c], n.client[c].table)

LEMMA SetTableIs ==
  ASSUME NEW st, NEW H, NEW held, Counts(st, H, held), NEW c \in H, NEW name \in Names
  PROVE  LET n == SetTable(st, c, name)
         IN /\ Counts(n, H, held) /\ Stays(st, n) /\ Moves(st, n, c)
            /\ n.client[c].table = n.tree[name]
            /\ n.tree[name] \in Slots /\ n.tables[n.tree[name]].name = name
            /\ name = "prefix" => n.tables[n.tree[name]].age = "new"
            /\ \A m \in Names \ {name} : n.tree[m] = st.tree[m]
            /\ st.tree[name] # 0 => n.tree = st.tree
  <1> DEFINE J == H \ {c}
             u == Unref(st, st.client[c].table)
             v == Created(u, name)
             t == v.tree[name]
             n == Entered(v, c, t)
  <1>1. /\ st \in States /\ H \in SUBSET Clients /\ c \in Clients
    BY DEF Counts
  <1>2. /\ Counts(u, J, held) /\ Stays(st, u)
        /\ u.tree = st.tree /\ u.client = st.client
    BY LeavesIs
  <1> HIDE DEF u
  <1>3. J # Clients
    BY <1>1
  <1> HIDE DEF J
  <1>4. /\ Counts(v, J, held) /\ Stays(u, v) /\ v.client = u.client
        /\ t \in Slots /\ v \in States
        /\ u.tree[name] # 0 => v = u
        /\ \A m \in Names \ {name} : v.tree[m] = u.tree[m]
    BY <1>2, <1>3, CreatedIs DEF Counts
  <1> HIDE DEF v
  <1> HIDE DEF t
  <1>5. /\ n.tree = v.tree
        /\ \A d \in Clients : d # c => n.client[d] = v.client[d]
        /\ n.client[c] = InTable(v.client[c], t)
        /\ n.tables[t] = Used(v.tables[t])
    BY <1>1, <1>4, EnteredFields
  <1>6. Counts(n, H, held) /\ Stays(v, n)
    BY <1>1, <1>4, EnteredIs DEF J
  <1>7. st.client[c] \in ClientType
    BY <1>1, Types
  <1>8. n.client[c].table = t /\ n.tree[name] = t
    BY <1>2, <1>4, <1>5, <1>7 DEF ClientType, t, InTable
  <1>9. v.tables[t] \in TableType /\ v.tables[t].name = name
    <2>1. v \in States /\ Listed(v) /\ v.tree[name] # 0
      BY <1>4 DEF Counts, Slots, t
    <2> QED BY <1>4, <2>1, Types DEF Listed, t
  <1>10. n.tables[t].name = name /\ (name = "prefix" => n.tables[t].age = "new")
    BY <1>5, <1>9, UsedIs
  <1>11. SetTable(st, c, name) = n
    BY DEF SetTable, u, v, t
  <1> HIDE DEF n
  <1>12. Stays(st, n)
    BY <1>2, <1>4, <1>6 DEF Stays
  <1>13. Moves(st, n, c)
    BY <1>2, <1>4, <1>5, <1>8 DEF Moves
  <1>14. Counts(n, H, held)
    BY <1>6
  <1>15. /\ \A m \in Names \ {name} : n.tree[m] = st.tree[m]
         /\ st.tree[name] # 0 => n.tree = st.tree
    BY <1>2, <1>4, <1>5
  <1>16. n.tree[name] \in Slots /\ n.tables[n.tree[name]].name = name
    BY <1>4, <1>8, <1>10
  <1>17. name = "prefix" => n.tables[n.tree[name]].age = "new"
    BY <1>8, <1>10
  <1>18. n.client[c].table = n.tree[name]
    BY <1>8
  <1> QED BY <1>11, <1>12, <1>13, <1>14, <1>15, <1>16, <1>17, <1>18
-----------------------------------------------------------------------------
(* What a key may do to the server, for a client.                           *)

Alike(me, you) ==
  /\ you.alive = me.alive /\ you.mode = me.mode
  /\ you.default = me.default /\ you.prefixed = me.prefixed

\* From st to n: the counts hold, no other client changes, none that waits is
\* disturbed, and the client itself changes in its table and its repeat.
Serves(st, n, H, held, c) ==
  /\ Counts(n, H, held) /\ Stays(st, n)
  /\ \A d \in Clients : d # c => n.client[d] = st.client[d]
  /\ Alike(st.client[c], n.client[c])

LEMMA ServesOn ==
  ASSUME NEW st, NEW u, NEW n, NEW H, NEW h, NEW held, NEW c,
         Serves(st, u, H, h, c), Serves(u, n, H, held, c)
  PROVE  Serves(st, n, H, held, c)
  BY DEF Serves, Stays, Alike

(* A handler that leaves the tables alone keeps the counts.                  *)
LEMMA CountsSame ==
  ASSUME NEW st, NEW H, NEW held, Counts(st, H, held), NEW n \in States,
         n.tree = st.tree, n.tables = st.tables,
         \A d \in H : n.client[d].table = st.client[d].table
  PROVE  Counts(n, H, held) /\ Stays(st, n)
  <1>1. \A u : References(n, H, held, u) = References(st, H, held, u)
    BY NamedSame, UsersSame DEF References
  <1> QED BY <1>1 DEF Counts, Counted, Listed, Stays, Fresh

LEMMA StoppedFields ==
  ASSUME NEW st \in States, NEW c \in Clients
  PROVE  LET n == Stopped(st, c)
         IN /\ n \in States /\ n.tree = st.tree /\ n.tables = st.tables
            /\ \A d \in Clients : d # c => n.client[d] = st.client[d]
            /\ Alike(st.client[c], n.client[c])
            /\ n.client[c].table = st.client[c].table
            /\ n.client[c].timer = st.client[c].timer /\ n.client[c].repeat = FALSE
  <1> DEFINE me == [st.client[c] EXCEPT !.repeat = FALSE]
             n == Stopped(st, c)
  <1>1. st.client \in [Clients -> ClientType] /\ st.client[c] \in ClientType
    BY Types
  <1>2. /\ me \in ClientType /\ Alike(st.client[c], me) /\ me.table = st.client[c].table
        /\ me.timer = st.client[c].timer /\ me.repeat = FALSE
    BY <1>1 DEF ClientType, Alike
  <1>3. n = [st EXCEPT !.client = [st.client EXCEPT ![c] = me]]
    BY <1>1 DEF Stopped
  <1> HIDE DEF me, n
  <1>4. /\ n \in States /\ n.tree = st.tree /\ n.tables = st.tables
        /\ n.client = [st.client EXCEPT ![c] = me]
    BY <1>1, <1>2, <1>3 DEF States
  <1>5. n.client[c] = me /\ \A d \in Clients : d # c => n.client[d] = st.client[d]
    BY <1>1, <1>4
  <1> QED BY <1>2, <1>4, <1>5 DEF n

LEMMA ArmedFields ==
  ASSUME NEW st \in States, NEW c \in Clients
  PROVE  LET n == Armed(st, c)
         IN /\ n \in States /\ n.tree = st.tree /\ n.tables = st.tables
            /\ \A d \in Clients : d # c => n.client[d] = st.client[d]
            /\ Alike(st.client[c], n.client[c])
            /\ n.client[c].table = st.client[c].table
            /\ n.client[c].timer = TRUE /\ n.client[c].repeat = TRUE
  <1> DEFINE me == [st.client[c] EXCEPT !.repeat = TRUE, !.timer = TRUE]
             n == Armed(st, c)
  <1>1. st.client \in [Clients -> ClientType] /\ st.client[c] \in ClientType
    BY Types
  <1>2. /\ me \in ClientType /\ Alike(st.client[c], me) /\ me.table = st.client[c].table
        /\ me.timer = TRUE /\ me.repeat = TRUE
    BY <1>1 DEF ClientType, Alike
  <1>3. n = [st EXCEPT !.client = [st.client EXCEPT ![c] = me]]
    BY <1>1 DEF Armed
  <1> HIDE DEF me, n
  <1>4. /\ n \in States /\ n.tree = st.tree /\ n.tables = st.tables
        /\ n.client = [st.client EXCEPT ![c] = me]
    BY <1>1, <1>2, <1>3 DEF States
  <1>5. n.client[c] = me /\ \A d \in Clients : d # c => n.client[d] = st.client[d]
    BY <1>1, <1>4
  <1> QED BY <1>2, <1>4, <1>5 DEF n

LEMMA StoppedIs ==
  ASSUME NEW st, NEW H, NEW held, Counts(st, H, held), NEW c \in Clients
  PROVE  LET n == Stopped(st, c)
         IN /\ Serves(st, n, H, held, c) /\ n.tree = st.tree /\ n.tables = st.tables
            /\ n.client[c].table = st.client[c].table
            /\ n.client[c].timer = st.client[c].timer /\ n.client[c].repeat = FALSE
  <1> DEFINE n == Stopped(st, c)
  <1>1. st \in States /\ H \subseteq Clients
    BY DEF Counts
  <1>2. /\ n \in States /\ n.tree = st.tree /\ n.tables = st.tables
        /\ \A d \in Clients : d # c => n.client[d] = st.client[d]
        /\ Alike(st.client[c], n.client[c])
        /\ n.client[c].table = st.client[c].table
        /\ n.client[c].timer = st.client[c].timer /\ n.client[c].repeat = FALSE
    BY <1>1, StoppedFields
  <1> HIDE DEF n
  <1>3. Counts(n, H, held) /\ Stays(st, n)
    <2>1. \A d \in H : n.client[d].table = st.client[d].table
      BY <1>1, <1>2
    <2> QED BY <1>2, <2>1, CountsSame
  <1> QED BY <1>2, <1>3 DEF Serves, n

LEMMA ArmedIs ==
  ASSUME NEW st, NEW H, NEW held, Counts(st, H, held), NEW c \in Clients
  PROVE  LET n == Armed(st, c)
         IN /\ Serves(st, n, H, held, c)
            /\ n.client[c].timer = TRUE /\ n.client[c].repeat = TRUE
  <1> DEFINE n == Armed(st, c)
  <1>1. st \in States /\ H \subseteq Clients
    BY DEF Counts
  <1>2. /\ n \in States /\ n.tree = st.tree /\ n.tables = st.tables
        /\ \A d \in Clients : d # c => n.client[d] = st.client[d]
        /\ Alike(st.client[c], n.client[c])
        /\ n.client[c].table = st.client[c].table
        /\ n.client[c].timer = TRUE /\ n.client[c].repeat = TRUE
    BY <1>1, ArmedFields
  <1> HIDE DEF n
  <1>3. Counts(n, H, held) /\ Stays(st, n)
    <2>1. \A d \in H : n.client[d].table = st.client[d].table
      BY <1>1, <1>2
    <2> QED BY <1>2, <2>1, CountsSame
  <1> QED BY <1>2, <1>3 DEF Serves, n

(* The callback takes a reference of the table whose binding it executes.    *)
LEMMA HeldIs ==
  ASSUME NEW st, NEW H, Counts(st, H, 0), NEW t \in Slots, NEW c
  PROVE  /\ Serves(st, Ref(st, t), H, t, c)
         /\ Ref(st, t).tree = st.tree /\ Ref(st, t).client = st.client
  <1> DEFINE n == Ref(st, t)
             held == Held(st.tables[t])
  <1>1. /\ st \in States /\ H \in SUBSET Clients /\ t \in 0 .. MaxTables
        /\ st.tree \in [Names -> 0 .. MaxTables] /\ st.tables \in [Slots -> TableType]
        /\ "prefix" \in Names /\ st.tables[t] \in TableType
    BY Types DEF Counts, Slots
  <1>2. /\ held \in TableType /\ held.references = st.tables[t].references + 1
        /\ held.name = st.tables[t].name /\ held.age = st.tables[t].age
        /\ st.tables[t].references \in Nat
    BY <1>1 DEF Held, TableType
  <1>3. n = [st EXCEPT !.tables = [st.tables EXCEPT ![t] = held]]
    BY DEF Ref
  <1> HIDE DEF n, held
  <1>4. /\ n \in States /\ n.tree = st.tree /\ n.client = st.client
        /\ n.tables = [st.tables EXCEPT ![t] = held]
    BY <1>1, <1>2, <1>3 DEF States
  <1>5. /\ Cardinality(Named(st, t)) \in Nat /\ Cardinality(Users(st, H, t)) \in Nat
        /\ Holding(0, t) = 0 /\ Holding(t, t) = 1
        /\ \A u \in Slots : u # t => Holding(t, u) = Holding(0, u)
    BY <1>1, Counting DEF Holding, Slots
  <1>6. /\ \A u : Named(n, u) = Named(st, u)
        /\ \A u : Users(n, H, u) = Users(st, H, u)
    BY <1>4, NamedSame, UsersSame
  <1>7. References(n, H, t, t) = References(st, H, 0, t) + 1
    BY <1>5, <1>6 DEF References
  <1>8. \A u \in Slots : u # t => References(n, H, t, u) = References(st, H, 0, u)
    BY <1>5, <1>6 DEF References
  <1>9. Counted(n, H, t)
    BY <1>1, <1>2, <1>4, <1>7, <1>8 DEF Counts, Counted
  <1>10. Listed(n) /\ Stays(st, n)
    <2>1. \A m \in Names : st.tree[m] # 0 => st.tree[m] \in Slots
      BY <1>1 DEF Slots
    <2>2. \A u \in Slots : /\ n.tables[u].name = st.tables[u].name
                           /\ n.tables[u].age = st.tables[u].age
      BY <1>1, <1>2, <1>4
    <2> QED BY <1>1, <1>4, <2>1, <2>2 DEF Counts, Listed, Stays, Fresh
  <1>11. Counts(n, H, t)
    BY <1>1, <1>4, <1>9, <1>10 DEF Counts
  <1> QED BY <1>4, <1>10, <1>11 DEF Serves, Alike, n

(* server_client_set_key_table as what it does for the client.               *)
LEMMA SetTableServes ==
  ASSUME NEW st, NEW H, NEW held, Counts(st, H, held), NEW c \in H, NEW name \in Names
  PROVE  LET n == SetTable(st, c, name)
         IN /\ Serves(st, n, H, held, c)
            /\ n.client[c].table = n.tree[name]
            /\ n.client[c].repeat = st.client[c].repeat
            /\ n.client[c].timer = st.client[c].timer
            /\ n.tree[name] \in Slots /\ n.tables[n.tree[name]].name = name
            /\ name = "prefix" => n.tables[n.tree[name]].age = "new"
            /\ st.tree[name] # 0 => n.tree = st.tree
  <1> DEFINE n == SetTable(st, c, name)
  <1>1. /\ Counts(n, H, held) /\ Stays(st, n) /\ Moves(st, n, c)
        /\ n.client[c].table = n.tree[name]
        /\ n.tree[name] \in Slots /\ n.tables[n.tree[name]].name = name
        /\ name = "prefix" => n.tables[n.tree[name]].age = "new"
        /\ st.tree[name] # 0 => n.tree = st.tree
    BY SetTableIs
  <1> HIDE DEF n
  <1>2. st.client[c] \in ClientType
    BY Types DEF Counts
  <1>3. /\ n.client[c].repeat = st.client[c].repeat
        /\ n.client[c].timer = st.client[c].timer
        /\ Alike(st.client[c], n.client[c])
    BY <1>1, <1>2 DEF Moves, InTable, ClientType, Alike
  <1>4. Serves(st, n, H, held, c)
    BY <1>1, <1>3 DEF Serves, Moves
  <1> QED BY <1>1, <1>3, <1>4 DEF n

\* The client is in its default table.
Home(st, c) ==
  /\ st.client[c].table = st.tree[st.client[c].default]
  /\ st.client[c].table \in Slots
  /\ st.tables[st.client[c].table].name = st.client[c].default

LEMMA SetDefaultIs ==
  ASSUME NEW st, NEW H, NEW held, Counts(st, H, held), NEW c \in H
  PROVE  LET n == SetDefault(st, c)
         IN /\ Serves(st, n, H, held, c) /\ Home(n, c)
            /\ n.client[c].repeat = st.client[c].repeat
            /\ n.client[c].timer = st.client[c].timer
            /\ Home(st, c) => n.client[c].table = st.client[c].table
  <1> DEFINE n == SetDefault(st, c)
             name == st.client[c].default
  <1>1. st.client[c] \in ClientType
    BY Types DEF Counts
  <1>2. name \in Names
    BY <1>1 DEF ClientType
  <1>3. n = SetTable(st, c, name)
    BY DEF SetDefault
  <1> HIDE DEF n, name
  <1>4. /\ Serves(st, n, H, held, c)
        /\ n.client[c].table = n.tree[name]
        /\ n.client[c].repeat = st.client[c].repeat
        /\ n.client[c].timer = st.client[c].timer
        /\ n.tree[name] \in Slots /\ n.tables[n.tree[name]].name = name
        /\ st.tree[name] # 0 => n.tree = st.tree
    BY <1>2, <1>3, SetTableServes
  <1>5. n.client[c].default = name
    BY <1>4 DEF Serves, Alike, name
  <1>6. Home(n, c)
    BY <1>4, <1>5 DEF Home
  <1>7. Home(st, c) => n.client[c].table = st.client[c].table
    BY <1>4 DEF Home, Slots, name
  <1> QED BY <1>4, <1>6, <1>7 DEF n

(* A binding that does not repeat is executed: the client goes back to its   *)
(* default table, whatever becomes of the table that the key was found in.   *)
Once(st, c, t) == Unref(SetDefault(Stopped(Ref(st, t), c), c), t)
Returns(st, n, H, c) ==
  /\ Serves(st, n, H, 0, c)
  /\ n.client[c].table = n.tree[n.client[c].default] /\ n.client[c].repeat = FALSE
LEMMA OnceIs ==
  ASSUME NEW st, NEW H, Counts(st, H, 0), NEW c \in H, NEW t \in Slots
  PROVE  Returns(st, Once(st, c, t), H, c)
  <1> DEFINE u == Ref(st, t)
             v == Stopped(u, c)
             w == SetDefault(v, c)
             n == Unref(w, t)
  <1>1. c \in Clients
    BY DEF Counts
  <1>2. Serves(st, u, H, t, c) /\ u.client = st.client
    BY HeldIs
  <1> HIDE DEF u
  <1>3. /\ Serves(u, v, H, t, c)
        /\ v.client[c].timer = u.client[c].timer /\ v.client[c].repeat = FALSE
    <2>1. Counts(u, H, t)
      BY <1>2 DEF Serves
    <2> QED BY <1>1, <2>1, StoppedIs
  <1> HIDE DEF v
  <1>4. /\ Serves(v, w, H, t, c) /\ Home(w, c)
        /\ w.client[c].timer = v.client[c].timer /\ w.client[c].repeat = v.client[c].repeat
    BY <1>3, SetDefaultIs DEF Serves
  <1> HIDE DEF w
  <1>5. /\ Counts(n, H, 0) /\ Stays(w, n) /\ n.tree = w.tree /\ n.client = w.client
    BY <1>4, LetGoIs DEF Serves
  <1>6. n = Once(st, c, t)
    BY DEF u, v, w, Once
  <1> HIDE DEF n
  <1>7. Serves(w, n, H, 0, c)
    BY <1>5 DEF Serves, Alike
  <1>8. Serves(st, n, H, 0, c)
    BY <1>2, <1>3, <1>4, <1>7, ServesOn
  <1>9. /\ n.client[c].table = n.tree[n.client[c].default]
        /\ n.client[c].repeat = FALSE
    BY <1>2, <1>3, <1>4, <1>5 DEF Home
  <1> QED BY <1>6, <1>8, <1>9 DEF Returns
-----------------------------------------------------------------------------
(* One turn of the callback of a key.                                       *)

Whats == {"again", "prefix", "repeats", "once", "dropped", "forwarded", "hangs"}
Turns == [state : States, table : Slots, first : Slots, late : BOOLEAN, what : Whats,
          from : Names \cup {"none"}]

LEMMA AgainIs ==
  ASSUME NEW m \in Turns, NEW c, NEW n \in States, n.client[c].table \in Slots,
         NEW first \in Slots
  PROVE  LET r == Again(m, c, n, first)
         IN /\ r \in Turns /\ r.state = n /\ r.table = n.client[c].table
            /\ r.what = m.what
  BY DEF Again, Turns

LEMMA EndsIs ==
  ASSUME NEW m \in Turns, NEW n \in States, NEW what \in Whats
  PROVE  LET r == Ends(m, n, what)
         IN /\ r \in Turns /\ r.state = n /\ r.what = what
            /\ r.from = m.state.tables[m.table].name
  <1>1. m.state.tables[m.table] \in TableType
    BY Types DEF Turns
  <1>2. m.state.tables[m.table].name \in Names \cup {"none"}
    BY <1>1 DEF TableType
  <1> QED BY <1>2 DEF Ends, Turns

(* The five ways in which a key ends well.                                   *)
LEMMA NotAstray ==
  ASSUME NEW r, NEW c, NEW k,
         LET me   == r.state.client[c]
             name == r.state.tables[me.table].name
         IN \/ r.what = "prefix" /\ name = "prefix"
            \/ r.what = "repeats" /\ me.repeat /\ me.timer
            \/ /\ r.what \in {"once", "dropped"}
               /\ me.table = r.state.tree[me.default] /\ ~me.repeat
            \/ r.what = "forwarded" /\ (k # "move" => name = me.default /\ ~me.repeat)
            \/ r.what = "hangs"
  PROVE  ~Astray(c, k, r)
  BY DEF Astray

\* The client repeats only if it did when the key came.
Calm(st, n, c) == n.client[c].repeat => st.client[c].repeat /\ n.client[c].timer
\* Before a turn, the key is looked up in the table of the client, or in that of
\* the mode when the client is in its default table.
Before(st, H, c, m) ==
  /\ m \in Turns /\ m.what = "again" /\ Serves(st, m.state, H, 0, c) /\ Calm(st, m.state, c)
  /\ \/ m.table = m.state.client[c].table
     \/ m.state.tables[m.state.client[c].table].name = m.state.client[c].default
\* After a turn that is not the last, the client is in its default table.
Turned(st, c, m) ==
  Calm(st, m.state, c) /\ Home(m.state, c) /\ m.table = m.state.client[c].table
Ended(st, c, k, m) ==
  /\ ~Astray(c, k, m) /\ Timed(m.state, c)
  /\ m.what = "prefix" => /\ Calm(st, m.state, c)
                          /\ m.state.client[c].table = m.state.tree["prefix"]
                          /\ Fresh(m.state)
After(st, H, c, k, m) ==
  /\ m \in Turns /\ Serves(st, m.state, H, 0, c)
  /\ IF m.what = "again" THEN Turned(st, c, m) ELSE Ended(st, c, k, m)

(* A turn that starts again: the client was given its default table, and may *)
(* have stopped repeating.                                                   *)
LEMMA AgainAfter ==
  ASSUME NEW st, NEW H, NEW c \in H, NEW k, NEW m, Before(st, H, c, m),
         NEW n, Serves(m.state, n, H, 0, c), Home(n, c), Calm(st, n, c), NEW first \in Slots
  PROVE  /\ After(st, H, c, k, Again(m, c, n, first))
         /\ Again(m, c, n, first).state = n /\ Again(m, c, n, first).what = "again"
  <1> DEFINE r == Again(m, c, n, first)
  <1>1. n \in States /\ n.client[c].table \in Slots
    BY DEF Serves, Counts, Home
  <1>2. /\ r \in Turns /\ r.state = n /\ r.table = n.client[c].table
        /\ r.what = m.what
    BY <1>1, AgainIs DEF Before
  <1> HIDE DEF r
  <1>3. Serves(st, n, H, 0, c)
    BY ServesOn DEF Before
  <1>4. r.what = "again"
    BY <1>2 DEF Before
  <1> QED BY <1>2, <1>3, <1>4 DEF After, Turned, r

(* A turn that is the last one.                                              *)
LEMMA EndsAfter ==
  ASSUME NEW st, NEW H, NEW c \in H, NEW k, NEW m, Before(st, H, c, m),
         NEW n, Serves(m.state, n, H, 0, c), NEW what \in Whats, what # "again",
         Ended(st, c, k, Ends(m, n, what))
  PROVE  /\ After(st, H, c, k, Ends(m, n, what))
         /\ Ends(m, n, what).what # "again"
  <1> DEFINE r == Ends(m, n, what)
  <1>1. r \in Turns /\ r.state = n /\ r.what = what
    BY EndsIs DEF Before, Serves, Counts
  <1> HIDE DEF r
  <1>2. Serves(st, n, H, 0, c)
    BY ServesOn DEF Before
  <1> QED BY <1>1, <1>2 DEF After, r

(* A binding is executed.                                                    *)
Finishes(st, H, c, k, m, r) ==
  /\ After(st, H, c, k, r) /\ r.what # "again"
  /\ r.from = m.state.tables[m.table].name
LEMMA ExecutedIs ==
  ASSUME NEW st, NEW H, NEW c \in H, NEW k, NEW m, Before(st, H, c, m), NEW how
  PROVE  Finishes(st, H, c, k, m, Executed(m, c, how))
  <1>1. /\ m \in Turns /\ Counts(m.state, H, 0) /\ c \in Clients /\ m.table \in Slots
    BY DEF Before, Serves, Counts, Turns
  <1>2. CASE how = "repeat"
    <2> DEFINE n == Armed(m.state, c)
               r == Ends(m, n, "repeats")
    <2>1. Executed(m, c, how) = r
      BY <1>2 DEF Executed
    <2>2. Serves(m.state, n, H, 0, c) /\ n.client[c].timer = TRUE /\ n.client[c].repeat = TRUE
      BY <1>1, ArmedIs
    <2> HIDE DEF n
    <2>3. n \in States /\ "repeats" \in Whats
      BY <2>2 DEF Serves, Counts, Whats
    <2>4. /\ r.state = n /\ r.what = "repeats"
          /\ r.from = m.state.tables[m.table].name
      BY <1>1, <2>3, EndsIs
    <2> HIDE DEF r
    <2>5. ~Astray(c, k, r)
      BY <2>2, <2>4, NotAstray
    <2>6. Ended(st, c, k, r)
      BY <2>2, <2>4, <2>5 DEF Ended, Timed
    <2>7. After(st, H, c, k, r)
      BY <2>2, <2>3, <2>6, EndsAfter DEF r
    <2> QED BY <2>1, <2>4, <2>7 DEF Finishes
  <1>3. CASE how # "repeat"
    <2> DEFINE n == Once(m.state, c, m.table)
               r == Ends(m, n, "once")
    <2>1. Executed(m, c, how) = r
      BY <1>3 DEF Executed, Once
    <2>2. /\ Serves(m.state, n, H, 0, c) /\ n.client[c].repeat = FALSE
          /\ n.client[c].table = n.tree[n.client[c].default]
      <3>1. Returns(m.state, n, H, c)
        BY <1>1, OnceIs
      <3> QED BY <3>1 DEF Returns
    <2> HIDE DEF n
    <2>3. n \in States /\ "once" \in Whats
      BY <2>2 DEF Serves, Counts, Whats
    <2>4. /\ r.state = n /\ r.what = "once"
          /\ r.from = m.state.tables[m.table].name
      BY <1>1, <2>3, EndsIs
    <2> HIDE DEF r
    <2>5. ~Astray(c, k, r)
      BY <2>2, <2>4, NotAstray
    <2>6. Ended(st, c, k, r)
      BY <2>2, <2>4, <2>5 DEF Ended, Timed
    <2>7. After(st, H, c, k, r)
      BY <2>2, <2>3, <2>6, EndsAfter DEF r
    <2> QED BY <2>1, <2>4, <2>7 DEF Finishes
  <1> QED BY <1>2, <1>3

(* The prefix key.                                                           *)
LEMMA PrefixIs ==
  ASSUME NEW st, NEW H, NEW c \in H, NEW k, NEW m, Before(st, H, c, m)
  PROVE  LET r == Ends(m, SetTable(m.state, c, "prefix"), "prefix")
         IN After(st, H, c, k, r) /\ r.what # "again"
  <1> DEFINE n == SetTable(m.state, c, "prefix")
             r == Ends(m, n, "prefix")
  <1>1. /\ m \in Turns /\ Counts(m.state, H, 0) /\ "prefix" \in Names /\ Calm(st, m.state, c)
    BY KeysAssumption DEF Before, Serves
  <1>2. /\ Serves(m.state, n, H, 0, c) /\ n.client[c].table = n.tree["prefix"]
        /\ n.client[c].repeat = m.state.client[c].repeat
        /\ n.client[c].timer = m.state.client[c].timer
        /\ n.tree["prefix"] \in Slots /\ n.tables[n.tree["prefix"]].name = "prefix"
        /\ n.tables[n.tree["prefix"]].age = "new"
    BY <1>1, SetTableServes
  <1> HIDE DEF n
  <1>3. n \in States /\ "prefix" \in Whats
    BY <1>2 DEF Serves, Counts, Whats
  <1>4. r.state = n /\ r.what = "prefix"
    BY <1>1, <1>3, EndsIs
  <1> HIDE DEF r
  <1>5. ~Astray(c, k, r)
    BY <1>2, <1>4, NotAstray
  <1>6. Calm(st, n, c) /\ Fresh(n) /\ Timed(n, c)
    BY <1>1, <1>2 DEF Calm, Fresh, Timed, Slots
  <1>7. Ended(st, c, k, r)
    BY <1>2, <1>4, <1>5, <1>6 DEF Ended
  <1> QED BY <1>2, <1>3, <1>4, <1>7, EndsAfter DEF n, r

(* A turn keeps what a key needs; the second is in the default table, and    *)
(* the third does not repeat, so that it is the last.                        *)
LEMMA TurnIs ==
  ASSUME NEW st, NEW H, NEW c \in H, NEW k, NEW m, Before(st, H, c, m)
  PROVE  LET r == Turn(m, c, k)
         IN /\ After(st, H, c, k, r)
            /\ Turned(st, c, m) /\ r.what = "again" => ~r.state.client[c].repeat
            /\ Turned(st, c, m) /\ ~m.state.client[c].repeat => r.what # "again"
  <1> DEFINE me       == m.state.client[c]
             table    == m.state.tables[m.table]
             how      == Binding(m, k)
             reset    == SetDefault(m.state, c)
             calm     == Stopped(reset, c)
             new      == reset.client[c].table
             exceeded == Exceeded(m, c, k)
             r        == Turn(m, c, k)
  <1> SUFFICES /\ After(st, H, c, k, r)
               /\ Turned(st, c, m) /\ r.what = "again" => ~r.state.client[c].repeat
               /\ Turned(st, c, m) /\ ~me.repeat => r.what # "again"
    OBVIOUS
  <1>1. /\ m \in Turns /\ Counts(m.state, H, 0) /\ c \in Clients /\ m.table \in Slots
        /\ m.state \in States /\ m.first \in Slots /\ m.what = "again"
        /\ me \in ClientType /\ Calm(st, m.state, c)
    BY Types DEF Before, Serves, Counts, Turns
  <1>2. /\ Serves(m.state, reset, H, 0, c) /\ Home(reset, c)
        /\ reset.client[c].repeat = me.repeat /\ reset.client[c].timer = me.timer
        /\ Home(m.state, c) => new = me.table
    BY <1>1, SetDefaultIs
  <1>3. /\ Serves(m.state, calm, H, 0, c) /\ Home(calm, c) /\ ~calm.client[c].repeat
    <2> HIDE DEF reset
    <2>1. /\ Serves(reset, calm, H, 0, c) /\ calm.tree = reset.tree
          /\ calm.tables = reset.tables /\ calm.client[c].table = reset.client[c].table
          /\ calm.client[c].repeat = FALSE
      <3>1. Counts(reset, H, 0)
        BY <1>2 DEF Serves
      <3>2. c \in Clients
        BY <1>1
      <3> QED BY <3>1, <3>2, StoppedIs
    <2> HIDE DEF calm
    <2>2. calm.client[c].default = reset.client[c].default
      BY <2>1 DEF Serves, Alike
    <2> QED BY <1>2, <2>1, <2>2, ServesOn DEF Home
  <1>4. Calm(st, reset, c) /\ Calm(st, calm, c) /\ new \in Slots
    BY <1>1, <1>2, <1>3 DEF Calm, Home
  <1>5. Turned(st, c, m) => new = m.table
    BY <1>2 DEF Turned
  <1>6. r =
      IF k = "C-b" /\ table.name # "prefix"
      THEN Ends(m, SetTable(m.state, c, "prefix"), "prefix")
      ELSE IF exceeded
      THEN IF new = m.table THEN Ends(m, m.state, "hangs") ELSE Again(m, c, reset, new)
      ELSE IF how # "none"
      THEN IF me.repeat /\ how = "once" THEN Again(m, c, calm, new)
           ELSE Executed(m, c, how)
      ELSE IF k # "move" /\ (table.name # me.default \/ me.repeat)
      THEN Again(m, c, calm, IF me.repeat THEN new ELSE m.first)
      ELSE IF k # "move" /\ m.first # m.table THEN Ends(m, reset, "dropped")
      ELSE Ends(m, m.state, "forwarded")
    BY <1>1 DEF Turn
  <1> HIDE DEF reset, calm, new, exceeded, how, r
  <1>7. Serves(m.state, m.state, H, 0, c)
    BY <1>1 DEF Serves, Stays, Alike
  <1>8. Turned(st, c, m) => table.name = me.default
    BY DEF Turned, Home
  <1>9. /\ \A first \in Slots : /\ After(st, H, c, k, Again(m, c, calm, first))
                                /\ Again(m, c, calm, first).state = calm
        /\ After(st, H, c, k, Again(m, c, reset, new))
    BY <1>2, <1>3, <1>4, AgainAfter
  <1>10. /\ After(st, H, c, k, Executed(m, c, how)) /\ Executed(m, c, how).what # "again"
         /\ After(st, H, c, k, Ends(m, SetTable(m.state, c, "prefix"), "prefix"))
         /\ Ends(m, SetTable(m.state, c, "prefix"), "prefix").what # "again"
    <2>1. /\ After(st, H, c, k, Executed(m, c, how)) /\ Executed(m, c, how).what # "again"
      <3>1. Finishes(st, H, c, k, m, Executed(m, c, how))
        BY ExecutedIs
      <3> QED BY <3>1 DEF Finishes
    <2> QED BY <2>1, PrefixIs
  <1>11. /\ After(st, H, c, k, Ends(m, m.state, "hangs"))
         /\ Ends(m, m.state, "hangs").what # "again"
    <2> DEFINE e == Ends(m, m.state, "hangs")
    <2>1. "hangs" \in Whats /\ e.state = m.state /\ e.what = "hangs"
      <3>1. "hangs" \in Whats
        BY DEF Whats
      <3> QED BY <1>1, <3>1, EndsIs
    <2> HIDE DEF e
    <2>2. ~Astray(c, k, e)
      BY <2>1, NotAstray
    <2>3. Ended(st, c, k, e)
      BY <1>1, <2>1, <2>2 DEF Ended, Timed, Calm
    <2> QED BY <1>7, <2>1, <2>3, EndsAfter DEF e
  <1>12. ASSUME ~me.repeat
         PROVE  /\ After(st, H, c, k, Ends(m, reset, "dropped"))
                /\ Ends(m, reset, "dropped").what # "again"
    <2> DEFINE e == Ends(m, reset, "dropped")
    <2>1. reset \in States /\ "dropped" \in Whats
      BY <1>2 DEF Serves, Counts, Whats
    <2>2. e.state = reset /\ e.what = "dropped"
      BY <1>1, <2>1, EndsIs
    <2> HIDE DEF e
    <2>3. ~Astray(c, k, e)
      <3>1. /\ e.state.client[c].table = e.state.tree[e.state.client[c].default]
            /\ ~e.state.client[c].repeat
        BY <1>2, <1>12, <2>2 DEF Home
      <3> QED BY <2>2, <3>1, NotAstray
    <2>4. Ended(st, c, k, e)
      BY <1>2, <1>12, <2>2, <2>3 DEF Ended, Timed
    <2> QED BY <1>2, <2>1, <2>2, <2>4, EndsAfter DEF e
  <1>13. ASSUME k # "move" => table.name = me.default /\ ~me.repeat
         PROVE  /\ After(st, H, c, k, Ends(m, m.state, "forwarded"))
                /\ Ends(m, m.state, "forwarded").what # "again"
    <2> DEFINE e == Ends(m, m.state, "forwarded")
    <2>1. "forwarded" \in Whats /\ e.state = m.state /\ e.what = "forwarded"
      <3>1. "forwarded" \in Whats
        BY DEF Whats
      <3> QED BY <1>1, <3>1, EndsIs
    <2> HIDE DEF e
    <2>2. k # "move" => m.state.tables[me.table].name = me.default /\ ~me.repeat
      BY <1>13 DEF Before
    <2>3. ~Astray(c, k, e)
      BY <2>1, <2>2, NotAstray
    <2>4. Ended(st, c, k, e)
      BY <1>1, <2>1, <2>3 DEF Ended, Timed, Calm
    <2> QED BY <1>7, <2>1, <2>4, EndsAfter DEF e
  <1>14. CASE k = "C-b" /\ table.name # "prefix"
    BY <1>6, <1>10, <1>14
  <1>15. CASE ~(k = "C-b" /\ table.name # "prefix") /\ exceeded
    BY <1>5, <1>6, <1>9, <1>11, <1>15
  <1>16. CASE ~(k = "C-b" /\ table.name # "prefix") /\ ~exceeded /\ how # "none"
    BY <1>3, <1>4, <1>6, <1>9, <1>10, <1>16
  <1>17. CASE ~(k = "C-b" /\ table.name # "prefix") /\ ~exceeded /\ how = "none"
    <2>1. CASE k # "move" /\ (table.name # me.default \/ me.repeat)
      <3>1. (IF me.repeat THEN new ELSE m.first) \in Slots
        BY <1>1, <1>4
      <3>2. r = Again(m, c, calm, IF me.repeat THEN new ELSE m.first)
        BY <1>6, <1>17, <2>1
      <3>3. After(st, H, c, k, r) /\ r.state = calm
        BY <1>9, <3>1, <3>2
      <3> QED BY <1>3, <1>8, <2>1, <3>3
    <2>2. CASE ~(k # "move" /\ (table.name # me.default \/ me.repeat))
      <3>1. /\ k # "move" => ~me.repeat
            /\ k # "move" => table.name = me.default /\ ~me.repeat
        BY <1>1, <2>2 DEF ClientType
      <3> QED BY <1>6, <1>12, <1>13, <1>17, <2>2, <3>1
    <2> QED BY <2>1, <2>2
  <1> QED BY <1>14, <1>15, <1>16, <1>17
-----------------------------------------------------------------------------
(* What becomes of a key.                                                   *)

LEMMA TurnEnds ==
  ASSUME NEW m, NEW c, NEW k, m.what # "again"
  PROVE  Turn(m, c, k) = m
  BY DEF Turn

LEMMA LookingIs ==
  ASSUME NEW st, NEW H, Counts(st, H, 0), NEW c \in H, Timed(st, c),
         NEW t \in Slots, NEW late \in BOOLEAN,
         \/ t = st.client[c].table
         \/ st.tables[st.client[c].table].name = st.client[c].default
  PROVE  Before(st, H, c, Looking(st, t, late))
  <1> DEFINE m == Looking(st, t, late)
  <1>1. /\ m \in Turns /\ m.state = st /\ m.table = t /\ m.what = "again"
    BY DEF Looking, Turns, Whats, Counts
  <1> HIDE DEF m
  <1>2. Serves(st, st, H, 0, c) /\ Calm(st, st, c)
    BY DEF Serves, Stays, Alike, Calm, Timed
  <1> QED BY <1>1, <1>2 DEF Before, m

(* A key is looked up three times at most, and the client is where it should *)
(* be.                                                                       *)
LEMMA LookUpIs ==
  ASSUME NEW st, NEW H, Counts(st, H, 0), NEW c \in H, Timed(st, c),
         NEW k, NEW t \in Slots, NEW late \in BOOLEAN,
         \/ t = st.client[c].table
         \/ st.tables[st.client[c].table].name = st.client[c].default
  PROVE  LET r == LookUp(st, c, k, t, late)
         IN Serves(st, r.state, H, 0, c) /\ Ended(st, c, k, r)
  <1> DEFINE m0 == Looking(st, t, late)
             m1 == Turn(m0, c, k)
             m2 == Turn(m1, c, k)
             m3 == Turn(m2, c, k)
  <1>1. Before(st, H, c, m0)
    BY LookingIs
  <1> HIDE DEF m0
  <1>2. After(st, H, c, k, m1)
    BY <1>1, TurnIs
  <1> HIDE DEF m1
  <1>3. \A m : After(st, H, c, k, m) /\ m.what = "again"
               => Before(st, H, c, m) /\ Turned(st, c, m)
    BY DEF After, Before, Turned, Home
  <1>4. /\ After(st, H, c, k, m2)
        /\ m2.what = "again" => Before(st, H, c, m2) /\ ~m2.state.client[c].repeat
                                /\ Turned(st, c, m2)
    <2>1. CASE m1.what = "again"
      <3>1. Before(st, H, c, m1) /\ Turned(st, c, m1)
        BY <1>2, <1>3, <2>1
      <3>2. /\ After(st, H, c, k, m2)
            /\ m2.what = "again" => ~m2.state.client[c].repeat
        BY <3>1, TurnIs
      <3> HIDE DEF m2
      <3> QED BY <1>3, <3>2
    <2>2. CASE m1.what # "again"
      <3>1. m2 = m1
        BY <2>2, TurnEnds
      <3> QED BY <1>2, <2>2, <3>1
    <2> QED BY <2>1, <2>2
  <1> HIDE DEF m2
  <1>5. After(st, H, c, k, m3) /\ m3.what # "again"
    <2>1. CASE m2.what = "again"
      BY <1>4, <2>1, TurnIs
    <2>2. CASE m2.what # "again"
      <3>1. m3 = m2
        BY <2>2, TurnEnds
      <3> QED BY <1>4, <2>2, <3>1
    <2> QED BY <2>1, <2>2
  <1>6. LookUp(st, c, k, t, late) = m3
    BY DEF LookUp, m0, m1, m2
  <1> HIDE DEF m3
  <1> QED BY <1>5, <1>6 DEF After

(* A key that is bound in the prefix table is found there, in time, by a     *)
(* client that does not repeat.                                              *)
LEMMA FoundThere ==
  ASSUME NEW st, Good(st), NEW c \in Alive(st),
         NEW t \in Slots, t = st.client[c].table, st.tables[t].name = "prefix",
         ~st.client[c].repeat, NEW k \in Keys,
         \/ st.tables[t].bound[k] # "none"
         \/ st.tables[t].bound["any"] # "none"
  PROVE  LookUp(st, c, k, t, FALSE).from = "prefix"
  <1> DEFINE m   == Looking(st, t, FALSE)
             how == IF st.tables[t].bound[k] # "none" THEN st.tables[t].bound[k]
                    ELSE st.tables[t].bound["any"]
             r   == Executed(m, c, how)
  <1>1. /\ m.state = st /\ m.table = t /\ m.what = "again" /\ m.late = FALSE
    BY DEF Looking
  <1> DEFINE H == Alive(st)
  <1>2. Before(st, H, c, m)
    BY LookingIs DEF Timed, Good
  <1> HIDE DEF m, H
  <1>3. how # "none"
    OBVIOUS
  <1> HIDE DEF how
  <1>4. Turn(m, c, k) = r
    <2>1. /\ m.state.tables[m.table].name = "prefix" /\ ~m.late
          /\ ~m.state.client[c].repeat
      BY <1>1
    <2>2. Binding(m, k) = how
      BY <1>1 DEF Binding, Own, how
    <2>3. ~Exceeded(m, c, k)
      BY <2>1 DEF Exceeded
    <2> QED BY <1>1, <1>3, <2>1, <2>2, <2>3 DEF Turn
  <1>5. r.what # "again" /\ r.from = "prefix"
    <2>1. Finishes(st, H, c, k, m, r)
      BY <1>2, ExecutedIs DEF H
    <2> HIDE DEF r
    <2> QED BY <1>1, <2>1 DEF Finishes
  <1> HIDE DEF r
  <1>6. Turn(r, c, k) = r
    BY <1>5, TurnEnds
  <1>7. LookUp(st, c, k, t, FALSE) = r
    BY <1>4, <1>6 DEF LookUp, m
  <1> QED BY <1>5, <1>7
-----------------------------------------------------------------------------
(* What every handler has to show.                                          *)

LEMMA StateIs ==
  ASSUME NEW n \in States, Becomes(n)
  PROVE  State' = n
  BY DEF State, Becomes, States

LEMMA StayWaiting ==
  ASSUME NEW st, NEW n, NEW d, Kept(st, d), Stays(st, n), n.client[d] = st.client[d]
  PROVE  Kept(n, d)
  BY DEF Kept, Timed, Waiting, Stays

(* A handler that serves one client.                                         *)
LEMMA ServesGood ==
  ASSUME NEW st, NEW n, NEW c \in Clients, Good(st), st.client[c].alive,
         Serves(st, n, Alive(st), 0, c), Timed(n, c),
         n.client[c].prefixed => Waiting(n, c)
  PROVE  Good(n)
  <1>1. n.client[c].alive = st.client[c].alive
    BY DEF Serves, Alike
  <1>2. Alive(n) = Alive(st)
    BY <1>1 DEF Alive, Serves
  <1>3. \A d \in Clients : d # c => Kept(n, d)
    BY StayWaiting DEF Good, Serves
  <1>4. Kept(n, c)
    BY <1>1 DEF Kept
  <1> QED BY <1>2, <1>3, <1>4 DEF Good, Serves

\* A client that is given other values, in the same table.
Updated(st, c, me) == [st EXCEPT !.client = [st.client EXCEPT ![c] = me]]

LEMMA UpdatedFields ==
  ASSUME NEW st \in States, NEW c \in Clients, NEW me \in ClientType
  PROVE  LET n == Updated(st, c, me)
         IN /\ n \in States /\ n.tree = st.tree /\ n.tables = st.tables /\ n.client[c] = me
            /\ \A d \in Clients : d # c => n.client[d] = st.client[d]
  BY Types DEF Updated, States

LEMMA UpdatedIs ==
  ASSUME NEW st, NEW H, NEW held, Counts(st, H, held), NEW c \in Clients,
         NEW me \in ClientType, c \in H => me.table = st.client[c].table
  PROVE  Counts(Updated(st, c, me), H, held) /\ Stays(st, Updated(st, c, me))
  <1> DEFINE n == Updated(st, c, me)
  <1>1. st \in States /\ H \in SUBSET Clients
    BY DEF Counts
  <1>2. /\ n \in States /\ n.tree = st.tree /\ n.tables = st.tables /\ n.client[c] = me
        /\ \A d \in Clients : d # c => n.client[d] = st.client[d]
    BY <1>1, UpdatedFields
  <1> HIDE DEF n
  <1>3. \A d \in H : n.client[d].table = st.client[d].table
    BY <1>1, <1>2
  <1> QED BY <1>2, <1>3, CountsSame DEF n

-----------------------------------------------------------------------------
(* Keys and the repeat timer.                                               *)

(* Where a key is looked up first; a client that waits stays in its table.   *)
LEMMA FirstIs ==
  ASSUME NEW st, Good(st), NEW c \in Alive(st)
  PROVE  LET u == First(st, c)
             t == FirstTable(u, c)
         IN /\ Counts(u, Alive(st), 0) /\ Stays(st, u) /\ u.client = st.client
            /\ t \in Slots
            /\ \/ t = u.client[c].table
               \/ u.tables[u.client[c].table].name = u.client[c].default
            /\ Waiting(st, c) => u = st /\ t = st.client[c].table
  <1> DEFINE u == First(st, c)
             t == FirstTable(u, c)
             H == Alive(st)
  <1>1. /\ Counts(st, H, 0) /\ st \in States /\ c \in Clients /\ "copy" \in Names
        /\ st.client[c].table \in Slots
    BY KeysAssumption DEF Good, Counts, Alive
  <1>2. CASE st.tables[st.client[c].table].name = st.client[c].default /\ st.client[c].mode
    <2>1. u = Created(st, "copy")
      BY <1>2 DEF First
    <2>2. /\ Counts(u, H, 0) /\ Stays(st, u) /\ u.client = st.client
          /\ u.tree["copy"] \in Slots
      BY <1>1, <2>1, CreatedIs
    <2>3. ~Waiting(st, c)
      BY <1>1, <1>2, KeysAssumption DEF Waiting, Counts, Listed, Fresh
    <2> HIDE DEF u
    <2>4. t \in Slots
      BY <1>1, <2>2 DEF FirstTable
    <2>5. \/ t = u.client[c].table
          \/ u.tables[u.client[c].table].name = u.client[c].default
      BY DEF FirstTable
    <2> QED BY <2>2, <2>3, <2>4, <2>5 DEF u
  <1>3. CASE ~(/\ st.tables[st.client[c].table].name = st.client[c].default
               /\ st.client[c].mode)
    <2>1. u = st
      BY <1>3 DEF First
    <2>2. t = st.client[c].table
      BY <1>3, <2>1 DEF FirstTable
    <2> QED BY <1>1, <2>1, <2>2 DEF Stays
  <1> QED BY <1>2, <1>3

LEMMA PressKeeps ==
  ASSUME IInv, NEW c \in Clients, NEW k \in Pressed, NEW late, Press(c, k, late)
  PROVE  IInv'
  <1> DEFINE st == First(State, c)
             t  == FirstTable(st, c)
             r  == LookUp(st, c, k, t, late)
             p  == r.what = "prefix" /\ ~client[c].repeat /\ client[c].default # "prefix"
             me == [r.state.client[c] EXCEPT !.prefixed = p]
             n  == Updated(r.state, c, me)
             H  == Alive(State)
  <1>1. /\ State.client = client /\ State.tree = tree /\ State.tables = tables
        /\ Good(State) /\ Counts(State, H, 0) /\ State \in States
        /\ c \in H /\ client[c].alive /\ Kept(State, c)
    BY DEF State, IInv, Good, Counts, Alive, Press
  <1>2. /\ late \in Lateness(tables[client[c].table])
        /\ Becomes(Marked(c, r))
        /\ wrong' = wrong \cup (IF Misread(c, k, r) THEN {"misread"} ELSE {})
                          \cup (IF Astray(c, k, r) THEN {"astray"} ELSE {})
        /\ hangs' = (r.what = "hangs") /\ events' = events
    <2>1. \E q \in {r} :
            /\ Becomes(Marked(c, q)) /\ hangs' = (q.what = "hangs")
            /\ wrong' = wrong \cup (IF Misread(c, k, q) THEN {"misread"} ELSE {})
                              \cup (IF Astray(c, k, q) THEN {"astray"} ELSE {})
      BY DEF Press
    <2>2. late \in Lateness(tables[client[c].table]) /\ events' = events
      BY DEF Press
    <2> HIDE DEF r
    <2> QED BY <2>1, <2>2
  <1>3. late \in BOOLEAN
    <2>1. tables[client[c].table] \in TableType
      BY <1>1, Types DEF Counts
    <2> QED BY <1>2, <2>1 DEF Lateness, TableType
  <1>4. /\ Counts(st, H, 0) /\ Stays(State, st) /\ st.client = client
        /\ t \in Slots
        /\ \/ t = st.client[c].table
           \/ st.tables[st.client[c].table].name = st.client[c].default
        /\ Waiting(State, c) => st = State /\ t = client[c].table
    BY <1>1, FirstIs
  <1> HIDE DEF st, t
  <1>5. Timed(st, c)
    BY <1>1, <1>4 DEF Kept, Timed
  <1>6. Serves(st, r.state, H, 0, c) /\ Ended(st, c, k, r)
    BY <1>1, <1>3, <1>4, <1>5, LookUpIs
  <1>7. ~Misread(c, k, r)
    <2> SUFFICES ASSUME Misread(c, k, r) PROVE FALSE
      OBVIOUS
    <2>1. /\ client[c].prefixed /\ k # "move" /\ r.from # "prefix"
          /\ \/ tables[tree["prefix"]].bound[k] # "none"
             \/ tables[tree["prefix"]].bound["any"] # "none"
      BY DEF Misread
    <2>2. /\ Waiting(State, c) /\ client[c].table = tree["prefix"] /\ tree["prefix"] # 0
          /\ ~client[c].repeat /\ tables[tree["prefix"]].age = "new"
      BY <1>1, <2>1 DEF Kept, Waiting, Fresh
    <2>3. tables[tree["prefix"]].name = "prefix"
      BY <1>1, <2>2, KeysAssumption DEF Counts, Listed
    <2>4. late = FALSE
      BY <1>2, <2>2, <2>3 DEF Lateness
    <2>5. st = State /\ t = client[c].table /\ t = State.client[c].table
      BY <1>1, <1>4, <2>2
    <2>6. k \in Keys
      BY <2>1 DEF Pressed
    <2>7. LookUp(State, c, k, t, FALSE).from = "prefix"
      <3>1. /\ Good(State) /\ c \in Alive(State) /\ t \in Slots
            /\ t = State.client[c].table /\ ~State.client[c].repeat
        BY <1>1, <1>4, <2>2, <2>5
      <3>2. t = tree["prefix"] /\ State.tables[t] = tables[tree["prefix"]]
        BY <1>1, <2>2, <2>5
      <3>3. /\ State.tables[t].name = "prefix"
            /\ \/ State.tables[t].bound[k] # "none"
               \/ State.tables[t].bound["any"] # "none"
        BY <2>1, <2>3, <3>2
      <3> QED BY <2>6, <3>1, <3>3, FoundThere
    <2>8. r = LookUp(State, c, k, t, FALSE)
      BY <2>4, <2>5
    <2> HIDE DEF r
    <2> QED BY <2>1, <2>7, <2>8
  <1>8. ~Astray(c, k, r)
    BY <1>6 DEF Ended
  <1>9. wrong' = {} /\ hangs' \in BOOLEAN /\ events' \in 0 .. MaxEvents
    BY <1>2, <1>7, <1>8 DEF IInv
  <1> HIDE DEF r
  <1>10. /\ r.state \in States /\ Counts(r.state, H, 0) /\ r.state.client[c] \in ClientType
         /\ r.state.client \in [Clients -> ClientType]
    BY <1>6, Types DEF Serves, Counts
  <1>11. /\ me \in ClientType /\ me.prefixed = p /\ me.table = r.state.client[c].table
         /\ me.alive = r.state.client[c].alive /\ me.default = r.state.client[c].default
         /\ me.repeat = r.state.client[c].repeat /\ me.timer = r.state.client[c].timer
    BY <1>10 DEF ClientType
  <1>12. Marked(c, r) = n
    BY <1>10 DEF Updated, Marked
  <1> HIDE DEF me, p
  <1>13. /\ n \in States /\ Counts(n, H, 0) /\ n.client[c] = me /\ Stays(r.state, n)
         /\ n.tree = r.state.tree /\ n.tables = r.state.tables
         /\ \A d \in Clients : d # c => n.client[d] = r.state.client[d]
    BY <1>10, <1>11, UpdatedFields, UpdatedIs
  <1> HIDE DEF n
  <1>14. /\ me.alive /\ me.default = client[c].default
    BY <1>1, <1>4, <1>6, <1>11 DEF Serves, Alike
  <1>15. /\ \A d \in Clients : d # c => n.client[d] = State.client[d]
         /\ Stays(State, n)
    BY <1>1, <1>4, <1>6, <1>13 DEF Serves, Stays
  <1>16. Kept(n, c)
    <2>1. Timed(n, c)
      BY <1>6, <1>11, <1>13 DEF Ended, Timed
    <2>2. p => Waiting(n, c)
      <3> SUFFICES ASSUME p PROVE Waiting(n, c)
        OBVIOUS
      <3>1. r.what = "prefix" /\ ~client[c].repeat /\ client[c].default # "prefix"
        BY DEF p
      <3>2. /\ Calm(st, r.state, c) /\ Fresh(r.state)
            /\ r.state.client[c].table = r.state.tree["prefix"]
        BY <1>6, <3>1 DEF Ended
      <3>3. ~me.repeat
        BY <1>4, <1>11, <3>1, <3>2 DEF Calm
      <3> QED BY <1>11, <1>13, <1>14, <3>1, <3>2, <3>3 DEF Waiting, Fresh
    <2> QED BY <1>11, <1>13, <1>14, <2>1, <2>2 DEF Kept
  <1>17. Alive(n) = H
    BY <1>1, <1>13, <1>14, <1>15 DEF Alive
  <1>18. \A d \in Clients : d # c => Kept(n, d)
    BY <1>1, <1>15, StayWaiting DEF Good
  <1>19. Good(n)
    BY <1>13, <1>16, <1>17, <1>18 DEF Good
  <1>20. State' = n
    BY <1>2, <1>12, <1>13, StateIs
  <1>21. Good(State)'
    BY <1>19, <1>20 DEF Good, Counts, Alive, Kept
  <1> QED BY <1>9, <1>21 DEF IInv

(* The timer fires: it does nothing to a client that no longer repeats.      *)
LEMMA RepeatTimerKeeps ==
  ASSUME IInv, NEW c \in Clients, RepeatTimer(c)
  PROVE  IInv'
  <1> DEFINE me == [client[c] EXCEPT !.timer = FALSE]
             u  == Updated(State, c, me)
             v  == SetDefault(u, c)
             n  == Expired(u, c)
             H  == Alive(State)
  <1>1. /\ State.client = client /\ Good(State) /\ Counts(State, H, 0) /\ State \in States
        /\ client[c].timer /\ Kept(State, c) /\ client[c] \in ClientType
        /\ client \in [Clients -> ClientType]
    BY Types DEF State, IInv, Good, Counts, RepeatTimer
  <1>2. client[c].alive /\ c \in H
    BY <1>1 DEF Kept, NoClient, Alive
  <1>3. /\ me \in ClientType /\ me.timer = FALSE /\ me.table = client[c].table
        /\ Alike(client[c], me) /\ me.repeat = client[c].repeat
    BY <1>1 DEF ClientType, Alike
  <1>4. [State EXCEPT !.client[c].timer = FALSE] = u
    BY <1>1 DEF Updated
  <1> HIDE DEF me
  <1>5. /\ u \in States /\ Counts(u, H, 0) /\ u.client[c] = me /\ Stays(State, u)
        /\ u.tree = State.tree /\ u.tables = State.tables
        /\ \A d \in Clients : d # c => u.client[d] = State.client[d]
    <2>1. me.table = State.client[c].table
      BY <1>1, <1>3
    <2>2. Counts(u, H, 0) /\ Stays(State, u)
      BY <1>1, <1>3, <2>1, UpdatedIs
    <2>3. /\ u \in States /\ u.client[c] = me /\ u.tables = State.tables
          /\ u.tree = State.tree
      BY <1>1, <1>3, UpdatedFields
    <2>4. \A d \in Clients : d # c => u.client[d] = State.client[d]
      BY <1>1 DEF Updated, States
    <2> QED BY <2>2, <2>3, <2>4
  <1> HIDE DEF u
  <1>6. Serves(State, u, H, 0, c)
    BY <1>1, <1>3, <1>5 DEF Serves
  <1>7. ASSUME ~me.repeat PROVE Good(n)
    <2>1. n = u
      BY <1>5, <1>7 DEF Expired
    <2>2. u.client[c].prefixed => Waiting(u, c)
      BY <1>1, <1>3, <1>5, <1>7 DEF Alike, Kept, Waiting, Fresh
    <2>3. Timed(u, c)
      BY <1>5, <1>7 DEF Timed
    <2> QED BY <1>1, <1>2, <1>6, <2>1, <2>2, <2>3, ServesGood
  <1>8. ASSUME me.repeat PROVE Good(n)
    <2>1. n = Stopped(v, c)
      BY <1>5, <1>8 DEF Expired
    <2>2. Serves(u, v, H, 0, c)
      BY <1>2, <1>5, SetDefaultIs
    <2> HIDE DEF v, n
    <2>3. Serves(v, n, H, 0, c) /\ n.client[c].repeat = FALSE
      BY <2>1, <2>2, StoppedIs DEF Serves
    <2>4. Serves(State, n, H, 0, c)
      BY <1>6, <2>2, <2>3, ServesOn
    <2>5. ~n.client[c].prefixed /\ Timed(n, c)
      BY <1>1, <1>3, <1>8, <2>3, <2>4 DEF Serves, Alike, Kept, Waiting, Timed
    <2> QED BY <1>1, <1>2, <2>4, <2>5, ServesGood
  <1>9. Good(n)
    BY <1>7, <1>8
  <1>10. Becomes(n) /\ wrong' = wrong /\ hangs' = hangs /\ events' = events
    BY <1>4 DEF RepeatTimer
  <1> HIDE DEF n
  <1>11. State' = n
    BY <1>9, <1>10, StateIs DEF Good, Counts
  <1>12. Good(State)'
    BY <1>9, <1>11 DEF Good, Counts, Alive, Kept
  <1> QED BY <1>10, <1>12 DEF IInv

(* prefix-timeout passes: nobody waits in the table any more.                *)
LEMMA AgesKeeps ==
  ASSUME IInv, NEW t \in DOMAIN tables, Ages(t)
  PROVE  IInv'
  <1> DEFINE old == [tables[t] EXCEPT !.age = "old"]
             n   == State'
             H   == Alive(State)
  <1>1. /\ State.client = client /\ State.tables = tables /\ State.tree = tree
        /\ Good(State) /\ Counts(State, H, 0) /\ State \in States
        /\ tree \in [Names -> 0 .. MaxTables] /\ "prefix" \in Names
        /\ tables \in [Slots -> TableType] /\ client \in [Clients -> ClientType]
    BY Types DEF State, IInv, Good, Counts
  <1>2. t \in Slots /\ tables[t] \in TableType
    BY <1>1
  <1>3. /\ old \in TableType /\ old.references = tables[t].references
        /\ old.name = tables[t].name
    BY <1>2 DEF TableType
  <1>4. /\ n.tree = tree /\ n.tables = [tables EXCEPT ![t] = old]
        /\ n.client = [c \in Clients |-> IF client[c].table = t
                         THEN [client[c] EXCEPT !.prefixed = FALSE] ELSE client[c]]
        /\ tables[t].age = "new" /\ wrong' = wrong /\ hangs' = hangs /\ events' = events
        /\ n = [tree |-> n.tree, tables |-> n.tables, client |-> n.client]
    BY DEF Ages, State
  <1> HIDE DEF old, n
  <1>5. \A c \in Clients :
          /\ n.client[c] \in ClientType /\ n.client[c].table = client[c].table
          /\ n.client[c].repeat = client[c].repeat /\ n.client[c].timer = client[c].timer
          /\ n.client[c].alive = client[c].alive
          /\ client[c].table # t => n.client[c] = client[c]
          /\ client[c].table = t => ~n.client[c].prefixed
    <2> SUFFICES ASSUME NEW c \in Clients
                 PROVE  /\ n.client[c] \in ClientType /\ n.client[c].table = client[c].table
                        /\ n.client[c].repeat = client[c].repeat
                        /\ n.client[c].timer = client[c].timer
                        /\ n.client[c].alive = client[c].alive
                        /\ client[c].table # t => n.client[c] = client[c]
                        /\ client[c].table = t => ~n.client[c].prefixed
      OBVIOUS
    <2>1. client[c] \in ClientType
      BY <1>1
    <2>2. CASE client[c].table = t
      <3>1. n.client[c] = [client[c] EXCEPT !.prefixed = FALSE]
        BY <1>4, <2>2
      <3> QED BY <2>1, <2>2, <3>1 DEF ClientType
    <2>3. CASE client[c].table # t
      BY <1>4, <2>1, <2>3
    <2> QED BY <2>2, <2>3
  <1>6. n \in States
    <2>1. n.client \in [Clients -> ClientType]
      BY <1>4, <1>5
    <2>2. n.tables \in [Slots -> TableType]
      BY <1>1, <1>3, <1>4
    <2> QED BY <1>1, <1>4, <2>1, <2>2 DEF States
  <1>7. Alive(n) = H
    BY <1>1, <1>5 DEF Alive
  <1>8. \A u : References(n, H, 0, u) = References(State, H, 0, u)
    <2>1. \A d \in H : n.client[d].table = State.client[d].table
      BY <1>1, <1>5 DEF Alive
    <2>2. /\ \A u : Named(n, u) = Named(State, u)
          /\ \A u : Users(n, H, u) = Users(State, H, u)
      <3>1. n.tree = State.tree
        BY <1>1, <1>4
      <3>2. \A u : Named(n, u) = Named(State, u)
        BY <3>1, NamedSame
      <3> QED BY <2>1, <3>2, UsersSame
    <2> QED BY <2>2 DEF References
  <1>9. Counts(n, H, 0)
    <2>1. \A m \in Names : tree[m] # 0 => tree[m] \in Slots
      BY <1>1 DEF Slots
    <2>2. \A u \in Slots : /\ n.tables[u].name = tables[u].name
                           /\ n.tables[u].references = tables[u].references
                           /\ u # t => n.tables[u] = tables[u]
      BY <1>1, <1>3, <1>4
    <2>3. tables[t].references # 0
      BY <1>1, <1>2, <1>4 DEF Counts, Counted, Free
    <2>4. Listed(n)
      BY <1>1, <1>4, <2>1, <2>2 DEF Counts, Listed
    <2>5. Counted(n, H, 0)
      BY <1>1, <1>8, <2>2, <2>3 DEF Counts, Counted
    <2>6. \A c \in H : n.client[c].table \in Slots
      BY <1>1, <1>5 DEF Counts, Alive
    <2> QED BY <1>1, <1>6, <2>4, <2>5, <2>6 DEF Counts
  <1>10. \A c \in Clients : Kept(n, c)
    <2> SUFFICES ASSUME NEW c \in Clients PROVE Kept(n, c)
      OBVIOUS
    <2>1. Kept(State, c)
      BY <1>1 DEF Good
    <2>2. CASE client[c].table = t
      <3>1. client[c].alive
        BY <1>1, <1>2, <2>1, <2>2 DEF Kept, NoClient, Slots
      <3> QED BY <1>1, <1>5, <2>1, <2>2, <3>1 DEF Kept, Timed
    <2>3. CASE client[c].table # t
      <3>1. Waiting(State, c) => n.tables[tree["prefix"]] = tables[tree["prefix"]]
        BY <1>1, <1>4, <2>3 DEF Waiting, Fresh, Slots
      <3>2. Waiting(State, c) => Waiting(n, c)
        BY <1>1, <1>4, <1>5, <2>3, <3>1 DEF Waiting, Fresh
      <3> QED BY <1>1, <1>5, <2>1, <2>3, <3>2 DEF Kept, Timed
    <2> QED BY <2>2, <2>3
  <1>11. Good(n)
    BY <1>7, <1>9, <1>10 DEF Good
  <1>12. Good(State)'
    BY <1>11 DEF Good, Counts, Alive, Kept, n
  <1> QED BY <1>4, <1>12 DEF IInv

-----------------------------------------------------------------------------
(* Options, modes and clients that come and go.                             *)

(* A client whose values change, and that waits no longer or still does.     *)
LEMMA UpdatedGood ==
  ASSUME NEW st, Good(st), NEW c \in Alive(st), NEW me \in ClientType,
         me.table = st.client[c].table, me.alive = st.client[c].alive,
         me.repeat = st.client[c].repeat, me.timer = st.client[c].timer,
         me.prefixed => st.client[c].prefixed /\ me.default = st.client[c].default
  PROVE  Good(Updated(st, c, me))
  <1> DEFINE n == Updated(st, c, me)
             H == Alive(st)
  <1>1. /\ Counts(st, H, 0) /\ st \in States /\ c \in Clients /\ Kept(st, c)
        /\ st.client[c].alive
    BY DEF Good, Counts, Alive
  <1>2. /\ n \in States /\ Counts(n, H, 0) /\ n.client[c] = me /\ Stays(st, n)
        /\ n.tree = st.tree /\ n.tables = st.tables
        /\ \A d \in Clients : d # c => n.client[d] = st.client[d]
    BY <1>1, UpdatedFields, UpdatedIs
  <1> HIDE DEF n
  <1>3. Alive(n) = H
    BY <1>1, <1>2 DEF Alive
  <1>4. \A d \in Clients : d # c => Kept(n, d)
    BY <1>2, StayWaiting DEF Good
  <1>5. Kept(n, c)
    BY <1>1, <1>2 DEF Kept, Timed, Waiting, Fresh
  <1> QED BY <1>2, <1>3, <1>4, <1>5 DEF Good, n

LEMMA SetOptionKeeps ==
  ASSUME IInv, NEW c \in Clients, NEW name \in Options, SetOption(c, name)
  PROVE  IInv'
  <1> DEFINE me == [client[c] EXCEPT !.default = name, !.prefixed = FALSE]
             n  == Updated(State, c, me)
  <1>1. /\ State.client = client /\ Good(State) /\ State \in States /\ c \in Alive(State)
        /\ client[c] \in ClientType /\ client \in [Clients -> ClientType] /\ name \in Names
    BY Types, KeysAssumption DEF State, IInv, Good, Counts, SetOption, Alive
  <1>2. /\ me \in ClientType /\ me.table = client[c].table /\ me.alive = client[c].alive
        /\ me.repeat = client[c].repeat /\ me.timer = client[c].timer /\ ~me.prefixed
    BY <1>1 DEF ClientType
  <1>3. [State EXCEPT !.client[c].default = name, !.client[c].prefixed = FALSE] = n
    BY <1>1 DEF Updated
  <1> HIDE DEF me
  <1>4. Good(n)
    BY <1>1, <1>2, UpdatedGood
  <1>5. /\ Becomes(n) /\ wrong' = wrong /\ hangs' = hangs
        /\ events < MaxEvents /\ events' = events + 1
    BY <1>3 DEF SetOption, Event
  <1> HIDE DEF n
  <1>6. State' = n
    BY <1>4, <1>5, StateIs DEF Good, Counts
  <1>7. Good(State)'
    BY <1>4, <1>6 DEF Good, Counts, Alive, Kept
  <1> QED BY <1>5, <1>7, KeysAssumption DEF IInv

LEMMA ModeKeeps ==
  ASSUME IInv, NEW c \in Clients, Mode(c)
  PROVE  IInv'
  <1> DEFINE me == [client[c] EXCEPT !.mode = ~client[c].mode]
             n  == Updated(State, c, me)
  <1>1. /\ State.client = client /\ Good(State) /\ State \in States /\ c \in Alive(State)
        /\ client[c] \in ClientType /\ client \in [Clients -> ClientType]
    BY Types DEF State, IInv, Good, Counts, Mode, Alive
  <1>2. /\ me \in ClientType /\ me.table = client[c].table /\ me.alive = client[c].alive
        /\ me.repeat = client[c].repeat /\ me.timer = client[c].timer
        /\ me.prefixed = client[c].prefixed /\ me.default = client[c].default
    BY <1>1 DEF ClientType
  <1>3. [State EXCEPT !.client[c].mode = ~@] = n
    BY <1>1 DEF Updated
  <1> HIDE DEF me
  <1>4. Good(n)
    BY <1>1, <1>2, UpdatedGood
  <1>5. /\ Becomes(n) /\ wrong' = wrong /\ hangs' = hangs
        /\ events < MaxEvents /\ events' = events + 1
    BY <1>3 DEF Mode, Event
  <1> HIDE DEF n
  <1>6. State' = n
    BY <1>4, <1>5, StateIs DEF Good, Counts
  <1>7. Good(State)'
    BY <1>4, <1>6 DEF Good, Counts, Alive, Kept
  <1> QED BY <1>5, <1>7, KeysAssumption DEF IInv

(* A client takes a table that was held for it.                              *)
LEMMA TakesIs ==
  ASSUME NEW st, NEW H \in SUBSET Clients, NEW t \in Slots, NEW c \in H,
         Counts(st, H \ {c}, t), NEW me \in ClientType, me.table = t
  PROVE  Counts(Updated(st, c, me), H, 0) /\ Stays(st, Updated(st, c, me))
  <1> DEFINE n == Updated(st, c, me)
             J == H \ {c}
  <1>1. /\ st \in States /\ Counts(st, J, t) /\ J \in SUBSET Clients /\ c \notin J
        /\ c \in Clients /\ 0 \in 0 .. MaxTables
    BY KeysAssumption DEF Counts
  <1>2. /\ n \in States /\ n.tree = st.tree /\ n.tables = st.tables /\ n.client[c] = me
        /\ \A d \in Clients : d # c => n.client[d] = st.client[d]
    BY <1>1, UpdatedFields
  <1> HIDE DEF n
  <1>3. Users(n, H, t) = Users(st, J, t) \cup {c} /\ c \notin Users(st, J, t)
    BY <1>1, <1>2 DEF Users
  <1>4. \A u : u # t => Users(n, H, u) = Users(st, J, u)
    BY <1>1, <1>2 DEF Users
  <1> HIDE DEF J
  <1>5. IsFiniteSet(Users(st, J, t))
    BY <1>1, Counting
  <1>6. Cardinality(Users(n, H, t)) = Cardinality(Users(st, J, t)) + 1
    BY <1>3, <1>5, FS_AddElement
  <1>7. \A u : Named(n, u) = Named(st, u)
    BY <1>2, NamedSame
  <1>8. /\ Cardinality(Named(st, t)) \in Nat /\ Cardinality(Users(st, J, t)) \in Nat
        /\ Holding(0, t) = 0 /\ Holding(t, t) = 1
        /\ \A u \in Slots : u # t => Holding(t, u) = Holding(0, u)
    <2>1. Cardinality(Named(st, t)) \in Nat /\ Cardinality(Users(st, J, t)) \in Nat
      BY <1>1, Counting
    <2> QED BY <2>1 DEF Holding, Slots
  <1>9. References(n, H, 0, t) = References(st, J, t, t)
    BY <1>6, <1>7, <1>8 DEF References
  <1>10. \A u \in Slots : u # t => References(n, H, 0, u) = References(st, J, t, u)
    BY <1>4, <1>7, <1>8 DEF References
  <1>11. Counted(n, H, 0)
    BY <1>1, <1>2, <1>9, <1>10 DEF Counts, Counted
  <1>12. Listed(n) /\ Stays(st, n)
    BY <1>1, <1>2 DEF Counts, Listed, Stays, Fresh
  <1>13. \A d \in H : n.client[d].table \in Slots
    BY <1>1, <1>2 DEF Counts, J
  <1> QED BY <1>1, <1>2, <1>11, <1>12, <1>13 DEF Counts, n

(* A step after which one client has new values, and the others as before.   *)
LEMMA OneGood ==
  ASSUME NEW st, NEW n, NEW c \in Clients, Good(st), Stays(st, n),
         \A d \in Clients : d # c => n.client[d] = st.client[d],
         Counts(n, Alive(n), 0), Kept(n, c)
  PROVE  Good(n)
  <1>1. \A d \in Clients : d # c => Kept(n, d)
    BY StayWaiting DEF Good
  <1> QED BY <1>1 DEF Good

LEMMA NoClientType ==
  NoClient \in ClientType
  BY KeysAssumption DEF NoClient, ClientType

LEMMA LostKeeps ==
  ASSUME IInv, NEW c \in Clients, Lost(c)
  PROVE  IInv'
  <1> DEFINE H == Alive(State)
             u == Unref(State, client[c].table)
             n == Updated(u, c, NoClient)
  <1>1. /\ State.client = client /\ Good(State) /\ Counts(State, H, 0) /\ c \in H
        /\ H \in SUBSET Clients
    BY DEF State, IInv, Good, Lost, Alive
  <1> HIDE DEF H
  <1>2. /\ Counts(u, H \ {c}, 0) /\ Stays(State, u) /\ u.client = State.client
    BY <1>1, LeavesIs
  <1>3. [u EXCEPT !.client[c] = NoClient] = n
    BY DEF Updated
  <1>4. Becomes(n) /\ wrong' = wrong /\ hangs' = hangs
        /\ events < MaxEvents /\ events' = events + 1
    BY <1>3 DEF Lost, Event
  <1> HIDE DEF u
  <1>5. u \in States
    BY <1>2 DEF Counts
  <1>6. /\ n \in States /\ n.client[c] = NoClient
        /\ \A d \in Clients : d # c => n.client[d] = u.client[d]
    BY <1>5, NoClientType, UpdatedFields
  <1>7. Counts(n, H \ {c}, 0) /\ Stays(u, n)
    BY <1>2, NoClientType, UpdatedIs
  <1> HIDE DEF n
  <1>8. Alive(n) = H \ {c}
    BY <1>1, <1>2, <1>6 DEF Alive, NoClient, H
  <1>9. Kept(n, c)
    BY <1>6 DEF Kept, Timed, NoClient
  <1>10. Stays(State, n)
    BY <1>2, <1>7 DEF Stays
  <1>11. \A d \in Clients : d # c => n.client[d] = State.client[d]
    BY <1>2, <1>6
  <1>12. Counts(n, Alive(n), 0)
    BY <1>7, <1>8
  <1>13. Good(n)
    BY <1>1, <1>9, <1>10, <1>11, <1>12, OneGood
  <1>14. State' = n
    BY <1>4, <1>6, StateIs
  <1>15. Good(State)'
    BY <1>13, <1>14 DEF Good, Counts, Alive, Kept
  <1> QED BY <1>4, <1>15, KeysAssumption DEF IInv

LEMMA AttachKeeps ==
  ASSUME IInv, NEW c \in Clients, Attach(c)
  PROVE  IInv'
  <1> DEFINE H  == Alive(State)
             J  == H \cup {c}
             st == Created(State, "root")
             t  == st.tree["root"]
             u  == Ref(st, t)
             me == [NoClient EXCEPT !.alive = TRUE, !.table = t]
             n  == Updated(u, c, me)
  <1>1. /\ State.client = client /\ Good(State) /\ Counts(State, H, 0) /\ c \notin H
        /\ H \in SUBSET Clients /\ "root" \in Names
    BY KeysAssumption DEF State, IInv, Good, Attach, Alive
  <1>2. /\ Counts(st, H, 0) /\ Stays(State, st) /\ st.client = State.client /\ t \in Slots
    BY <1>1, CreatedIs
  <1>3. [u EXCEPT !.client[c] = me] = n
    BY DEF Updated
  <1>4. Becomes(n) /\ wrong' = wrong /\ hangs' = hangs
        /\ events < MaxEvents /\ events' = events + 1
    BY <1>3 DEF Attach, Event
  <1> HIDE DEF st, t
  <1>5. /\ Counts(u, H, t) /\ Stays(st, u) /\ u.client = st.client
    BY <1>2, HeldIs DEF Serves
  <1> HIDE DEF u
  <1>6. /\ me \in ClientType /\ me.table = t /\ me.alive /\ ~me.repeat /\ ~me.prefixed
    <2>1. t \in 0 .. MaxTables
      BY <1>2 DEF Slots
    <2> QED BY <2>1, KeysAssumption DEF NoClient, ClientType
  <1> HIDE DEF me
  <1>7. /\ J \in SUBSET Clients /\ c \in J /\ J \ {c} = H /\ u \in States
    BY <1>1, <1>5 DEF Counts
  <1>8. /\ n \in States /\ n.client[c] = me
        /\ \A d \in Clients : d # c => n.client[d] = u.client[d]
    BY <1>6, <1>7, UpdatedFields
  <1> HIDE DEF J
  <1>9. Counts(n, J, 0) /\ Stays(u, n)
    <2>1. Counts(u, J \ {c}, t)
      BY <1>5, <1>7
    <2> QED BY <1>2, <1>6, <1>7, <2>1, TakesIs
  <1> HIDE DEF n
  <1>10. Alive(n) = J
    BY <1>1, <1>2, <1>5, <1>6, <1>7, <1>8 DEF Alive, J
  <1>11. Kept(n, c)
    BY <1>6, <1>8 DEF Kept, Timed
  <1>12. Stays(State, n)
    BY <1>2, <1>5, <1>9 DEF Stays
  <1>13. \A d \in Clients : d # c => n.client[d] = State.client[d]
    BY <1>2, <1>5, <1>8
  <1>14. Counts(n, Alive(n), 0)
    BY <1>9, <1>10
  <1>15. Good(n)
    BY <1>1, <1>11, <1>12, <1>13, <1>14, OneGood
  <1>16. State' = n
    BY <1>4, <1>8, StateIs
  <1>17. Good(State)'
    BY <1>15, <1>16 DEF Good, Counts, Alive, Kept
  <1> QED BY <1>4, <1>17, KeysAssumption DEF IInv

(* switch-client -T: the new table is held before the old one is left.       *)
LEMMA SwitchTableKeeps ==
  ASSUME IInv, NEW c \in Clients, NEW name \in Options, SwitchTable(c, name)
  PROVE  IInv'
  <1> DEFINE H  == Alive(State)
             t  == tree[name]
             u  == Ref(State, t)
             v  == Unref(u, client[c].table)
             me == [client[c] EXCEPT !.table = t, !.prefixed = FALSE]
             n  == Updated(v, c, me)
  <1>1. /\ State.client = client /\ State.tree = tree /\ Good(State)
        /\ Counts(State, H, 0) /\ c \in H /\ H \in SUBSET Clients
        /\ client[c] \in ClientType /\ client[c].alive
        /\ client \in [Clients -> ClientType] /\ Kept(State, c)
    BY Types DEF State, IInv, Good, Counts, SwitchTable, Alive
  <1>2. t \in Slots
    BY <1>1, Types, KeysAssumption DEF SwitchTable, Counts, Slots
  <1>3. /\ me \in ClientType /\ me.table = t /\ me.alive /\ ~me.prefixed
        /\ me.repeat = client[c].repeat /\ me.timer = client[c].timer
    <2>1. t \in 0 .. MaxTables
      BY <1>2 DEF Slots
    <2> QED BY <1>1, <2>1 DEF ClientType
  <1>4. Counts(u, H, t) /\ Stays(State, u) /\ u.client = client
    BY <1>1, <1>2, HeldIs DEF Serves
  <1>5. /\ Counts(v, H \ {c}, t) /\ Stays(u, v) /\ v.client = client
    <2> HIDE DEF u
    <2>1. v = Unref(u, u.client[c].table)
      BY <1>4
    <2> HIDE DEF v
    <2> QED BY <1>1, <1>4, <2>1, LeavesIs
  <1>6. [SwitchedClient(c, name) EXCEPT
           !.client[c].table = tree[name], !.client[c].prefixed = FALSE] = n
    BY <1>1, <1>5 DEF Updated, SwitchedClient
  <1>7. Becomes(n) /\ wrong' = wrong /\ hangs' = hangs
        /\ events < MaxEvents /\ events' = events + 1
    BY <1>6 DEF SwitchTable, Event
  <1> HIDE DEF u, v, me
  <1>8. v \in States
    BY <1>5 DEF Counts
  <1>9. /\ n \in States /\ n.client[c] = me
        /\ \A d \in Clients : d # c => n.client[d] = v.client[d]
    BY <1>3, <1>8, UpdatedFields
  <1>10. Counts(n, H, 0) /\ Stays(v, n)
    BY <1>1, <1>2, <1>3, <1>5, TakesIs
  <1> HIDE DEF n
  <1>11. Alive(n) = H
    BY <1>1, <1>3, <1>5, <1>9 DEF Alive
  <1>12. Kept(n, c)
    BY <1>1, <1>3, <1>9 DEF Kept, Timed
  <1>13. Stays(State, n)
    BY <1>4, <1>5, <1>10 DEF Stays
  <1>14. \A d \in Clients : d # c => n.client[d] = State.client[d]
    BY <1>1, <1>5, <1>9
  <1>15. Good(n)
    BY <1>1, <1>10, <1>11, <1>12, <1>13, <1>14, OneGood
  <1>16. State' = n
    BY <1>7, <1>9, StateIs
  <1>17. Good(State)'
    BY <1>15, <1>16 DEF Good, Counts, Alive, Kept
  <1> QED BY <1>7, <1>17, KeysAssumption DEF IInv
-----------------------------------------------------------------------------
(* Bindings: tables that gain and lose them, and that go.                   *)

\* The client does not wait for a key of a table that is not the prefix table.
Steady(st, name) ==
  \A c \in Clients : /\ Timed(st, c) /\ (~st.client[c].alive => st.client[c] = NoClient)
                     /\ name # "prefix" /\ st.client[c].prefixed => Waiting(st, c)

LEMMA DisturbedIs ==
  ASSUME NEW st, NEW name, Counts(st, Alive(st), 0), Steady(st, name)
  PROVE  Good(Disturbed(st, name)) /\ Disturbed(st, name) \in States
  <1> DEFINE n == Disturbed(st, name)
             H == Alive(st)
             after == [c \in Clients |-> IF name = "prefix"
                         THEN [st.client[c] EXCEPT !.prefixed = FALSE] ELSE st.client[c]]
  <1>1. /\ st \in States /\ st.client \in [Clients -> ClientType]
    BY Types DEF Counts
  <1>2. n = [st EXCEPT !.client = after]
    BY DEF Disturbed
  <1>3. \A c \in Clients :
          /\ after[c] \in ClientType /\ after[c].table = st.client[c].table
          /\ after[c].alive = st.client[c].alive /\ after[c].repeat = st.client[c].repeat
          /\ after[c].timer = st.client[c].timer
          /\ name = "prefix" => ~after[c].prefixed
          /\ name # "prefix" => after[c] = st.client[c]
          /\ st.client[c] = NoClient => after[c] = NoClient
    <2> SUFFICES ASSUME NEW c \in Clients
        PROVE  /\ after[c] \in ClientType /\ after[c].table = st.client[c].table
               /\ after[c].alive = st.client[c].alive /\ after[c].repeat = st.client[c].repeat
               /\ after[c].timer = st.client[c].timer
               /\ name = "prefix" => ~after[c].prefixed
               /\ name # "prefix" => after[c] = st.client[c]
               /\ st.client[c] = NoClient => after[c] = NoClient
      OBVIOUS
    <2>1. st.client[c] \in ClientType
      BY <1>1
    <2>2. CASE name = "prefix"
      <3>1. after[c] = [st.client[c] EXCEPT !.prefixed = FALSE]
        BY <2>2
      <3> HIDE DEF after
      <3>2. st.client[c] = NoClient => after[c] = NoClient
        <4>1. [NoClient EXCEPT !.prefixed = FALSE] = NoClient
          BY NoClientType DEF NoClient, ClientType
        <4> QED BY <3>1, <4>1
      <3> QED BY <2>1, <2>2, <3>1, <3>2 DEF ClientType
    <2>3. CASE name # "prefix"
      BY <2>1, <2>3
    <2> QED BY <2>2, <2>3
  <1>4. after \in [Clients -> ClientType]
    BY <1>3
  <1> HIDE DEF after, n
  <1>5. n \in States /\ n.tree = st.tree /\ n.tables = st.tables /\ n.client = after
    BY <1>1, <1>2, <1>4 DEF States
  <1>6. Alive(n) = H
    BY <1>3, <1>5 DEF Alive
  <1>7. Counts(n, H, 0)
    <2>1. \A d \in H : n.client[d].table = st.client[d].table
      BY <1>3, <1>5 DEF Alive
    <2> QED BY <1>5, <2>1, CountsSame
  <1>8. \A c \in Clients : Kept(n, c)
    <2> SUFFICES ASSUME NEW c \in Clients PROVE Kept(n, c)
      OBVIOUS
    <2>1. /\ Timed(st, c) /\ (~st.client[c].alive => st.client[c] = NoClient)
          /\ name # "prefix" /\ st.client[c].prefixed => Waiting(st, c)
      BY DEF Steady
    <2>2. CASE name = "prefix"
      BY <1>3, <1>5, <2>1, <2>2 DEF Kept, Timed
    <2>3. CASE name # "prefix"
      BY <1>3, <1>5, <2>1, <2>3 DEF Kept, Timed, Waiting, Fresh
    <2> QED BY <2>2, <2>3
  <1> QED BY <1>5, <1>6, <1>7, <1>8 DEF Good, n

(* What a command on the tables may do to the clients.                       *)
LEMMA SteadyOn ==
  ASSUME NEW st, Good(st), NEW n, NEW name,
         n.client = st.client, name # "prefix" => Stays(st, n)
  PROVE  Steady(n, name)
  BY DEF Good, Kept, Steady, Timed, Waiting, Stays

(* The end of each of these commands.                                        *)
LEMMA CommandKeeps ==
  ASSUME IInv, Event, NEW n, NEW name, Becomes(Disturbed(n, name)),
         Counts(n, Alive(n), 0), Steady(n, name)
  PROVE  IInv'
  <1> DEFINE v == Disturbed(n, name)
  <1>1. Good(v) /\ v \in States /\ Becomes(v)
    BY DisturbedIs
  <1> HIDE DEF v
  <1>2. State' = v
    BY <1>1, StateIs
  <1>3. Good(State)'
    BY <1>1, <1>2 DEF Good, Counts, Alive, Kept
  <1>4. /\ wrong' = wrong /\ hangs' = hangs
        /\ events < MaxEvents /\ events' = events + 1
    BY DEF Event
  <1> QED BY <1>3, <1>4, KeysAssumption DEF IInv

\* A key of a table that has a name is bound, or no longer.
Rebound(st, t, k, how) == [st EXCEPT !.tables[t].bound[k] = how]

LEMMA ReboundIs ==
  ASSUME NEW st, NEW H, Counts(st, H, 0), NEW name \in Names, st.tree[name] # 0,
         NEW k \in Bound, NEW how \in {"none", "once", "repeat"}
  PROVE  LET n == Rebound(st, st.tree[name], k, how)
         IN Counts(n, H, 0) /\ Stays(st, n) /\ n.tree = st.tree /\ n.client = st.client
  <1> DEFINE t     == st.tree[name]
             bound == [st.tables[t].bound EXCEPT ![k] = how]
             table == [st.tables[t] EXCEPT !.bound = bound]
             n     == Rebound(st, t, k, how)
  <1>1. /\ st \in States /\ t \in Slots /\ H \in SUBSET Clients
        /\ st.tables \in [Slots -> TableType] /\ st.tables[t] \in TableType
        /\ st.tree \in [Names -> 0 .. MaxTables] /\ "prefix" \in Names
    BY Types DEF Counts, Slots
  <1>2. bound \in Bindings
    BY <1>1 DEF TableType, Bindings
  <1>3. n = [st EXCEPT !.tables = [st.tables EXCEPT ![t] = table]]
    BY <1>1 DEF Rebound, TableType, Bindings
  <1> HIDE DEF bound, n
  <1>4. /\ table \in TableType /\ table.references = st.tables[t].references
        /\ table.name = st.tables[t].name /\ table.age = st.tables[t].age
    BY <1>1, <1>2 DEF TableType
  <1> HIDE DEF table, t
  <1>5. /\ n \in States /\ n.tree = st.tree /\ n.client = st.client
        /\ n.tables = [st.tables EXCEPT ![t] = table]
    BY <1>1, <1>3, <1>4 DEF States
  <1>6. \A u : References(n, H, 0, u) = References(st, H, 0, u)
    <2>1. \A u : Named(n, u) = Named(st, u)
      BY <1>5, NamedSame
    <2>2. \A u : Users(n, H, u) = Users(st, H, u)
      BY <1>5, UsersSame
    <2> QED BY <2>1, <2>2 DEF References
  <1>7. st.tables[t].references # 0
    <2>1. Cardinality(Named(st, t)) \in Nat /\ Cardinality(Users(st, H, t)) \in Nat
      BY <1>1, Counting
    <2>2. Cardinality(Named(st, t)) >= 1
      BY <1>1, Counting DEF t
    <2>3. Holding(0, t) = 0
      BY <1>1 DEF Holding, Slots
    <2> QED BY <1>1, <2>1, <2>2, <2>3 DEF Counts, Counted, References
  <1>8. \A u \in Slots : /\ n.tables[u].name = st.tables[u].name
                         /\ n.tables[u].age = st.tables[u].age
                         /\ n.tables[u].references = st.tables[u].references
                         /\ u # t => n.tables[u] = st.tables[u]
    BY <1>1, <1>4, <1>5
  <1>9. Counted(n, H, 0)
    BY <1>6, <1>7, <1>8 DEF Counts, Counted
  <1>10. Listed(n) /\ Stays(st, n)
    <2>1. \A m \in Names : st.tree[m] # 0 => st.tree[m] \in Slots
      BY <1>1 DEF Slots
    <2> QED BY <1>1, <1>5, <1>8, <2>1 DEF Counts, Listed, Stays, Fresh
  <1>11. Counts(n, H, 0)
    BY <1>5, <1>9, <1>10 DEF Counts
  <1> QED BY <1>5, <1>10, <1>11 DEF n, t

(* A name loses its table, which is held meanwhile.                          *)
Nameless(st, name) == [st EXCEPT !.tree[name] = 0]

LEMMA NamelessIs ==
  ASSUME NEW st, NEW H, Counts(st, H, 0), NEW name \in Names, st.tree[name] # 0
  PROVE  LET n == Nameless(st, name)
         IN /\ Counts(n, H, st.tree[name]) /\ n.client = st.client /\ n.tables = st.tables
            /\ name # "prefix" => Stays(st, n)
  <1> DEFINE t == st.tree[name]
             n == Nameless(st, name)
  <1>1. /\ st \in States /\ t \in Slots /\ H \in SUBSET Clients /\ t \in 0 .. MaxTables
        /\ st.tree \in [Names -> 0 .. MaxTables] /\ "prefix" \in Names
        /\ 0 \in 0 .. MaxTables
    BY Types, KeysAssumption DEF Counts, Slots
  <1>2. n = [st EXCEPT !.tree = [st.tree EXCEPT ![name] = 0]]
    BY DEF Nameless
  <1> HIDE DEF n
  <1>3. /\ n \in States /\ n.tables = st.tables /\ n.client = st.client
        /\ n.tree = [st.tree EXCEPT ![name] = 0]
    BY <1>1, <1>2 DEF States
  <1>4. /\ Cardinality(Named(n, t)) = Cardinality(Named(st, t)) - 1
        /\ \A u : u # 0 /\ u # t => Named(n, u) = Named(st, u)
    <2>1. st.tree[name] # 0
      OBVIOUS
    <2>2. Cardinality(Named(n, st.tree[name])) = Cardinality(Named(st, st.tree[name])) - 1
      <3>1. \A z : n.tree = [st.tree EXCEPT ![name] = z] /\ st.tree[name] # z =>
              Cardinality(Named(n, st.tree[name])) = Cardinality(Named(st, st.tree[name])) - 1
        BY <1>1, NamedChanges
      <3> QED BY <1>3, <2>1, <3>1
    <2>3. \A u : u # 0 /\ u # st.tree[name] => Named(n, u) = Named(st, u)
      BY <1>1, <1>3 DEF Named
    <2> QED BY <2>2, <2>3
  <1> HIDE DEF t
  <1>5. \A u : Users(n, H, u) = Users(st, H, u)
    BY <1>3, UsersSame
  <1>6. Cardinality(Named(st, t)) \in Nat /\ Cardinality(Users(st, H, t)) \in Nat
    BY <1>1, Counting
  <1>7. /\ Holding(0, t) = 0 /\ Holding(t, t) = 1
        /\ \A u \in Slots : u # t => Holding(t, u) = Holding(0, u)
    BY <1>1 DEF Holding, Slots
  <1>8. References(n, H, t, t) = References(st, H, 0, t)
    BY <1>4, <1>5, <1>6, <1>7 DEF References
  <1>9. \A u \in Slots : u # t => References(n, H, t, u) = References(st, H, 0, u)
    BY <1>4, <1>5, <1>7 DEF References, Slots
  <1>10. Counted(n, H, t)
    BY <1>3, <1>8, <1>9 DEF Counts, Counted
  <1>11. Listed(n)
    BY <1>1, <1>3 DEF Counts, Listed
  <1>12. name # "prefix" => Stays(st, n)
    BY <1>1, <1>3 DEF Stays, Fresh
  <1>13. Counts(n, H, t)
    BY <1>1, <1>3, <1>10, <1>11 DEF Counts
  <1> QED BY <1>3, <1>12, <1>13 DEF n, t

(* key_bindings_add: also one of a table that has no binding yet.            *)
LEMMA BindKeeps ==
  ASSUME IInv, NEW name \in Names, NEW k \in Bound, NEW how \in {"once", "repeat", "note"},
         Bind(name, k, how)
  PROVE  IInv'
  <1> DEFINE H  == Alive(State)
             st == Created(State, name)
             t  == st.tree[name]
             is == IF how = "note" THEN st.tables[t].bound[k] ELSE how
             n  == Rebound(st, t, k, is)
  <1>1. Good(State) /\ Counts(State, H, 0)
    BY DEF IInv, Good
  <1>2. /\ Counts(st, H, 0) /\ Stays(State, st) /\ st.client = State.client /\ t \in Slots
    BY <1>1, CreatedIs
  <1>3. [st EXCEPT !.tables[st.tree[name]].bound[k] = IF how = "note" THEN @ ELSE how] = n
    <2> HIDE DEF st
    <2> QED BY DEF Rebound
  <1>4. Event /\ Becomes(Disturbed(n, name))
    BY <1>3 DEF Bind
  <1> HIDE DEF st
  <1>5. is \in {"none", "once", "repeat"}
    <2>1. st.tables[t] \in TableType
      BY <1>2, Types DEF Counts
    <2>2. st.tables[t].bound[k] \in {"none", "once", "repeat"}
      BY <2>1 DEF TableType, Bindings
    <2> QED BY <2>2
  <1> HIDE DEF is
  <1>6. Counts(n, H, 0) /\ Stays(st, n) /\ n.client = st.client
    BY <1>2, <1>5, ReboundIs DEF Slots
  <1> HIDE DEF n, t
  <1>7. Alive(n) = H /\ n.client = State.client
    BY <1>2, <1>6 DEF Alive
  <1>8. Stays(State, n)
    BY <1>2, <1>6 DEF Stays
  <1>9. Steady(n, name)
    BY <1>1, <1>7, <1>8, SteadyOn
  <1> QED BY <1>4, <1>6, <1>7, <1>9, CommandKeeps

(* key_bindings_remove: a table that is left without bindings goes.          *)
LEMMA WithoutIs ==
  ASSUME NEW st, NEW H, Counts(st, H, 0), NEW name \in Names, st.tree[name] # 0,
         NEW k \in Bound
  PROVE  LET n == Without(st, name, k)
         IN /\ Counts(n, H, 0) /\ n.client = st.client
            /\ name # "prefix" => Stays(st, n)
  <1> DEFINE t == st.tree[name]
             v == Rebound(st, t, k, "none")
             u == Nameless(v, name)
             n == Without(st, name, k)
  <1>1. Counts(v, H, 0) /\ Stays(st, v) /\ v.tree = st.tree /\ v.client = st.client
    BY ReboundIs
  <1>2. n = v \/ n = Unref(u, t)
    BY DEF Without, Rebound, Nameless
  <1> HIDE DEF v, n
  <1>3. /\ Counts(u, H, v.tree[name]) /\ u.client = v.client
        /\ name # "prefix" => Stays(v, u)
    BY <1>1, NamelessIs
  <1> HIDE DEF u
  <1>4. t \in Slots
    BY Types DEF Counts, Slots
  <1>5. Counts(Unref(u, t), H, 0) /\ Stays(u, Unref(u, t)) /\ Unref(u, t).client = u.client
    BY <1>1, <1>3, <1>4, LetGoIs
  <1>6. CASE n = v
    BY <1>1, <1>6 DEF n
  <1>7. CASE n = Unref(u, t)
    <2>1. name # "prefix" => Stays(st, n)
      BY <1>1, <1>3, <1>5, <1>7 DEF Stays
    <2> QED BY <1>1, <1>3, <1>5, <1>7, <2>1 DEF n
  <1> QED BY <1>2, <1>6, <1>7

LEMMA WithoutKeeps ==
  ASSUME IInv, Event, NEW name \in Names, State.tree[name] # 0, NEW k \in Bound,
         Becomes(Disturbed(Without(State, name, k), name))
  PROVE  IInv'
  <1> DEFINE H == Alive(State)
             n == Without(State, name, k)
  <1>1. Good(State) /\ Counts(State, H, 0)
    BY DEF IInv, Good
  <1>2. /\ Counts(n, H, 0) /\ n.client = State.client
        /\ name # "prefix" => Stays(State, n)
    BY <1>1, WithoutIs
  <1>3. Becomes(Disturbed(n, name))
    OBVIOUS
  <1> HIDE DEF n
  <1>4. Alive(n) = H
    BY <1>2 DEF Alive
  <1>5. Steady(n, name)
    BY <1>1, <1>2, SteadyOn
  <1> QED BY <1>2, <1>3, <1>4, <1>5, CommandKeeps

LEMMA UnbindKeeps ==
  ASSUME IInv, NEW name \in Names, NEW k \in Bound, Unbind(name, k)
  PROVE  IInv'
  BY WithoutKeeps DEF Unbind, State

LEMMA ResetKeeps ==
  ASSUME IInv, NEW name \in Names, NEW k \in Bound, Reset(name, k)
  PROVE  IInv'
  <1> DEFINE H   == Alive(State)
             t   == tree[name]
             how == tables[t].defaults[k]
             n   == Rebound(State, t, k, how)
  <1>1. /\ Good(State) /\ Counts(State, H, 0) /\ State \in States
        /\ State.tree = tree /\ State.tables = tables /\ State.client = client
    BY DEF IInv, Good, State, Counts
  <1>2. Event /\ tree[name] # 0
    BY DEF Reset
  <1>3. CASE how = "none"
    <2>1. Becomes(Disturbed(Without(State, name, k), name))
      BY <1>3 DEF Reset
    <2> QED BY <1>1, <1>2, <2>1, WithoutKeeps
  <1>4. CASE how # "none"
    <2>1. [State EXCEPT !.tables[tree[name]].bound[k] = how] = n
      BY DEF Rebound
    <2>2. Becomes(Disturbed(n, name))
      BY <1>4, <2>1 DEF Reset
    <2>3. how \in {"none", "once", "repeat"}
      <3>1. t \in Slots
        BY <1>1, <1>2, Types DEF Slots
      <3>2. tables[t] \in TableType
        BY <1>1, <3>1, Types
      <3> QED BY <3>2 DEF TableType, Bindings
    <2> HIDE DEF how
    <2>4. Counts(n, H, 0) /\ Stays(State, n) /\ n.client = State.client
      BY <1>1, <1>2, <2>3, ReboundIs
    <2> HIDE DEF n
    <2>5. Alive(n) = H
      BY <2>4 DEF Alive
    <2>6. Steady(n, name)
      BY <1>1, <2>4, SteadyOn
    <2> QED BY <1>2, <2>2, <2>4, <2>5, <2>6, CommandKeeps
  <1> QED BY <1>3, <1>4
-----------------------------------------------------------------------------
(* The loop of key_bindings_remove_table over the clients.                  *)

(* The least of some natural numbers, and from it induction over the turns   *)
(* of a loop.                                                                *)
LEMMA Least ==
  ASSUME NEW T, T \subseteq Nat, T # {}
  PROVE  \E n \in T : \A m \in T : n <= m
  <1> DEFINE R == OpToRel(<, Nat)
  <1>1. IsWellFoundedOn(R, Nat)
    BY NatLessThanWellFounded
  <1>2. \A x, y \in Nat : x < y => <<x, y>> \in R
    BY DEF OpToRel
  <1> HIDE DEF R
  <1>3. PICK x \in T : \A y \in T : ~ (<<y, x>> \in R)
    BY <1>1, WFMin
  <1>4. ASSUME NEW m \in T PROVE x <= m
    <2>1. x \in Nat /\ m \in Nat
      OBVIOUS
    <2>2. ~ (m < x)
      BY <1>2, <1>3, <2>1
    <2> QED BY <2>1, <2>2
  <1> QED BY <1>4

LEMMA Induction ==
  ASSUME NEW N \in Nat, NEW T, 0 \in T, \A n \in 1 .. N : n - 1 \in T => n \in T
  PROVE  \A n \in 0 .. N : n \in T
  <1> DEFINE B == {n \in 0 .. N : n \notin T}
  <1> SUFFICES ASSUME B # {} PROVE FALSE
    OBVIOUS
  <1>1. B \subseteq Nat
    OBVIOUS
  <1>2. PICK n \in B : \A m \in B : n <= m
    BY <1>1, Least
  <1>3. n \in 0 .. N /\ n \notin T
    OBVIOUS
  <1>4. n \in 1 .. N /\ n - 1 \in 0 .. N
    BY <1>3
  <1>5. n - 1 \in B
    BY <1>3, <1>4
  <1> QED BY <1>2, <1>4, <1>5

\* The states before and after each of the N turns of a loop, from a.
Turning(f, N, F, a) ==
  /\ f = [n \in 0 .. N |-> f[n]] /\ f[0] = a
  /\ \A n \in 1 .. N : f[n] = F[f[n - 1]]
Keeps(F, S) == \A x \in S : F[x] \in S

(* A loop of which every turn leads from S to S is in S throughout.          *)
LEMMA LoopKeeps ==
  ASSUME NEW N \in Nat, NEW S, NEW F, Keeps(F, S), NEW f, f[0] \in S,
         \A n \in 1 .. N : f[n - 1] \in S => f[n] = F[f[n - 1]]
  PROVE  \A n \in 0 .. N : f[n] \in S
  <1> DEFINE T == {n \in 0 .. N : f[n] \in S}
  <1>1. 0 \in T
    OBVIOUS
  <1>2. ASSUME NEW n \in 1 .. N, n - 1 \in T PROVE n \in T
    <2>1. f[n - 1] \in S /\ n \in 0 .. N
      BY <1>2
    <2> QED BY <2>1 DEF Keeps
  <1> HIDE DEF T
  <1>3. \A n \in 0 .. N : n \in T
    BY <1>1, <1>2, Induction
  <1> QED BY <1>3 DEF T

LEMMA LoopExists ==
  ASSUME NEW N \in Nat, NEW F, NEW a
  PROVE  \E f : Turning(f, N, F, a)
  <1> DEFINE T == {m \in 0 .. N : \E f : Turning(f, m, F, a)}
  <1>1. 0 \in T
    <2> DEFINE f == [n \in 0 .. 0 |-> a]
    <2>1. Turning(f, 0, F, a)
      BY DEF Turning
    <2> HIDE DEF f
    <2> QED BY <2>1
  <1>2. ASSUME NEW m \in 1 .. N, m - 1 \in T PROVE m \in T
    <2>1. PICK f : Turning(f, m - 1, F, a)
      BY <1>2
    <2> DEFINE g == [n \in 0 .. m |-> IF n = m THEN F[f[m - 1]] ELSE f[n]]
    <2>2. /\ g = [n \in 0 .. m |-> g[n]] /\ g[m] = F[f[m - 1]]
          /\ \A n \in 0 .. m - 1 : g[n] = f[n]
      OBVIOUS
    <2> HIDE DEF g
    <2>3. 0 \in 0 .. m - 1 /\ m - 1 \in 0 .. m - 1
      OBVIOUS
    <2>4. ASSUME NEW n \in 1 .. m PROVE g[n] = F[g[n - 1]]
      <3>1. CASE n = m
        BY <2>2, <2>3, <3>1
      <3>2. CASE n # m
        <4>1. n \in 1 .. m - 1 /\ n \in 0 .. m - 1 /\ n - 1 \in 0 .. m - 1
          BY <3>2
        <4> QED BY <2>1, <2>2, <4>1 DEF Turning
      <3> QED BY <3>1, <3>2
    <2>5. Turning(g, m, F, a)
      BY <2>1, <2>2, <2>3, <2>4 DEF Turning
    <2> QED BY <2>5
  <1> HIDE DEF T
  <1>3. \A n \in 0 .. N : n \in T
    BY <1>1, <1>2, Induction
  <1>4. N \in T
    BY <1>3
  <1> QED BY <1>4 DEF T

\* Between two turns: from st to n only clients of the table t have moved.
Returning(st, n, H, t) ==
  /\ Counts(n, H, t) /\ Stays(st, n)
  /\ \A c \in Clients :
       /\ Alike(st.client[c], n.client[c])
       /\ n.client[c].repeat = st.client[c].repeat
       /\ n.client[c].timer = st.client[c].timer
       /\ st.client[c].table # t \/ ~st.client[c].alive => n.client[c] = st.client[c]

LEMMA ReturnOneIs ==
  ASSUME NEW st, NEW n, NEW t, Returning(st, n, Alive(st), t)
  PROVE  Returning(st, ReturnOne(n, t), Alive(st), t)
  <1> DEFINE H == Alive(st)
  <1>1. CASE Inside(n, t) = {}
    BY <1>1 DEF ReturnOne
  <1>2. CASE Inside(n, t) # {}
    <2> DEFINE c == CHOOSE d \in Inside(n, t) : TRUE
               v == SetDefault(n, c)
    <2>1. c \in Inside(n, t)
      BY <1>2
    <2> HIDE DEF c
    <2>2. c \in Clients /\ n.client[c].alive /\ n.client[c].table = t
      BY <2>1 DEF Inside
    <2>3. st.client[c].alive /\ st.client[c].table = t /\ c \in H
      BY <2>2 DEF Returning, Alike, Alive
    <2>4. Counts(n, H, t)
      BY DEF Returning
    <2>5. /\ Serves(n, v, H, t, c)
          /\ v.client[c].repeat = n.client[c].repeat
          /\ v.client[c].timer = n.client[c].timer
      BY <2>3, <2>4, SetDefaultIs
    <2> HIDE DEF v
    <2>6. Counts(v, H, t) /\ Stays(st, v)
      BY <2>5 DEF Serves, Returning, Stays
    <2>7. ASSUME NEW d \in Clients
          PROVE  /\ Alike(st.client[d], v.client[d])
                 /\ v.client[d].repeat = st.client[d].repeat
                 /\ v.client[d].timer = st.client[d].timer
                 /\ st.client[d].table # t \/ ~st.client[d].alive
                      => v.client[d] = st.client[d]
      <3>1. CASE d = c
        BY <2>2, <2>3, <2>5, <3>1 DEF Serves, Returning, Alike
      <3>2. CASE d # c
        BY <2>5, <3>2 DEF Serves, Returning
      <3> QED BY <3>1, <3>2
    <2>8. ReturnOne(n, t) = v
      BY <1>2 DEF ReturnOne, c, v
    <2> QED BY <2>6, <2>7, <2>8 DEF Returning
  <1> QED BY <1>1, <1>2

LEMMA ReturnedIs ==
  ASSUME NEW st, NEW H, NEW t, H = Alive(st), Counts(st, H, t)
  PROVE  Returning(st, Returned(st, t), H, t)
  <1> DEFINE N == Cardinality(Clients)
             S == {x \in States : Returning(st, x, H, t)}
             F == [x \in S |-> ReturnOne(x, t)]
             after[n \in 0 .. N] == IF n = 0 THEN st ELSE ReturnOne(after[n - 1], t)
  <1>1. N \in Nat
    BY KeysAssumption, FS_CardinalityType
  <1>2. Returned(st, t) = after[N]
    BY DEF Returned
  <1> HIDE DEF after
  <1>3. st \in S
    BY DEF Returning, Stays, Alike, Counts
  <1>4. \A x \in S : ReturnOne(x, t) \in S
    <2>1. ASSUME NEW x \in S PROVE Returning(st, ReturnOne(x, t), H, t)
      BY ReturnOneIs
    <2>2. \A x : Returning(st, x, H, t) => x \in States
      BY DEF Returning, Counts
    <2> QED BY <2>1, <2>2
  <1> HIDE DEF S, N
  <1>5. Keeps(F, S) /\ \A x \in S : F[x] = ReturnOne(x, t)
    BY <1>4 DEF Keeps
  <1> HIDE DEF F
  <1>6. PICK f : Turning(f, N, F, st)
    BY <1>1, LoopExists
  <1>7. /\ N \in 0 .. N /\ 0 \in 0 .. N
        /\ \A n \in 1 .. N : n \in 0 .. N /\ n # 0 /\ n - 1 \in 0 .. N
        /\ \A n \in 0 .. N : n # 0 => n \in 1 .. N
    BY <1>1
  <1>8. \A n \in 0 .. N : f[n] \in S
    <2>1. f[0] \in S /\ \A n \in 1 .. N : f[n - 1] \in S => f[n] = F[f[n - 1]]
      BY <1>3, <1>6 DEF Turning
    <2> QED BY <1>1, <1>5, <2>1, LoopKeeps
  <1>9. f = [n \in 0 .. N |-> IF n = 0 THEN st ELSE ReturnOne(f[n - 1], t)]
    <2>1. \A n \in 0 .. N : f[n] = IF n = 0 THEN st ELSE ReturnOne(f[n - 1], t)
      BY <1>5, <1>6, <1>7, <1>8 DEF Turning
    <2> QED BY <1>6, <2>1 DEF Turning
  <1>10. after = [n \in 0 .. N |-> IF n = 0 THEN st ELSE ReturnOne(after[n - 1], t)]
    BY <1>9 DEF after
  <1>11. after[0] = st /\ \A n \in 1 .. N : after[n] = ReturnOne(after[n - 1], t)
    BY <1>7, <1>10
  <1>12. \A n \in 0 .. N : after[n] \in S
    BY <1>1, <1>3, <1>5, <1>11, LoopKeeps
  <1>13. after[N] \in S
    BY <1>7, <1>12
  <1> QED BY <1>2, <1>13 DEF S

(* A table is removed while clients are in it.                               *)
LEMMA UnbindAllKeeps ==
  ASSUME IInv, NEW name \in Names, UnbindAll(name)
  PROVE  IInv'
  <1> DEFINE H == Alive(State)
             t == tree[name]
             u == Nameless(State, name)
             v == Returned(u, t)
             n == Unref(v, t)
  <1>1. /\ Good(State) /\ Counts(State, H, 0) /\ State \in States
        /\ State.tree = tree /\ State.tables = tables /\ State.client = client
    BY DEF IInv, Good, State, Counts
  <1>2. Event /\ t # 0 /\ Becomes(Disturbed(n, name))
    BY DEF UnbindAll, Nameless
  <1>3. t \in Slots /\ tables[t].name = name
    BY <1>1, <1>2, Types DEF Slots, Counts, Listed
  <1>4. /\ Counts(u, H, t) /\ u.client = client
        /\ name # "prefix" => Stays(State, u)
    BY <1>1, <1>2, NamelessIs
  <1> HIDE DEF u
  <1>5. Alive(u) = H
    BY <1>1, <1>4 DEF Alive
  <1>6. Returning(u, v, H, t)
    BY <1>4, <1>5, ReturnedIs
  <1> HIDE DEF v
  <1>7. Counts(n, H, 0) /\ Stays(v, n) /\ n.client = v.client
    BY <1>3, <1>6, LetGoIs DEF Returning
  <1> HIDE DEF n, t
  <1>8. Alive(n) = H
    BY <1>1, <1>4, <1>6, <1>7 DEF Alive, Returning, Alike
  <1>9. Steady(n, name)
    <2> SUFFICES ASSUME NEW c \in Clients
                 PROVE  /\ Timed(n, c) /\ (~n.client[c].alive => n.client[c] = NoClient)
                        /\ name # "prefix" /\ n.client[c].prefixed => Waiting(n, c)
      BY DEF Steady
    <2>1. Kept(State, c)
      BY <1>1 DEF Good
    <2>2. /\ Alike(client[c], n.client[c]) /\ n.client[c].repeat = client[c].repeat
          /\ n.client[c].timer = client[c].timer
          /\ client[c].table # t \/ ~client[c].alive => n.client[c] = client[c]
      BY <1>4, <1>6, <1>7 DEF Returning
    <2>3. Timed(n, c) /\ (~n.client[c].alive => n.client[c] = NoClient)
      BY <1>1, <2>1, <2>2 DEF Kept, Timed, Alike
    <2>4. ASSUME name # "prefix", n.client[c].prefixed PROVE Waiting(n, c)
      <3>1. Waiting(State, c)
        BY <1>1, <2>1, <2>2, <2>4 DEF Kept, Alike
      <3>2. Stays(State, n)
        BY <1>4, <1>6, <1>7, <2>4 DEF Stays, Returning
      <3>3. client[c].table # t
        BY <1>1, <1>3, <2>4, <3>1, KeysAssumption DEF Waiting, Fresh, Counts, Listed
      <3> QED BY <1>1, <2>2, <3>1, <3>2, <3>3 DEF Waiting, Stays
    <2> QED BY <2>3, <2>4
  <1> QED BY <1>2, <1>7, <1>8, <1>9, CommandKeeps

-----------------------------------------------------------------------------
(* The tables that the server starts with.                                  *)

AtStart == {n \in Names : Defaults[n] # NoBindings}
Number == Cardinality(AtStart)
Numbered ==
  CHOOSE f \in [AtStart -> 1 .. Number] : \A m, n \in AtStart : f[m] = f[n] => m = n
Numbers(t) == CHOOSE n \in AtStart : Numbered[n] = t

(* Each of the tables has one name, and each of the names has one table.     *)
LEMMA NumberedIs ==
  /\ Number \in 0 .. MaxTables /\ "root" \in AtStart
  /\ Numbered \in [AtStart -> 1 .. Number]
  /\ \A m, n \in AtStart : Numbered[m] = Numbered[n] => m = n
  /\ \A t \in 1 .. Number : Numbers(t) \in AtStart /\ Numbered[Numbers(t)] = t
  <1>1. IsFiniteSet(AtStart) /\ Number <= Cardinality(Names)
    <2>1. AtStart \in SUBSET Names
      BY DEF AtStart
    <2> QED BY <2>1, FS_Subset, KeysAssumption DEF Number
  <1>2. Number \in Nat /\ Cardinality(Names) \in Nat /\ Cardinality(Clients) \in Nat
    BY <1>1, FS_CardinalityType, KeysAssumption DEF Number
  <1>3. Number \in 0 .. MaxTables
    BY <1>1, <1>2, KeysAssumption
  <1>4. "root" \in AtStart
    BY KeysAssumption DEF AtStart
  <1>5. IsFiniteSet(1 .. Number) /\ Cardinality(1 .. Number) = Number
    <2>1. 1 \in Int /\ Number \in Int
      BY <1>2
    <2>2. /\ IsFiniteSet(1 .. Number)
          /\ Cardinality(1 .. Number) = IF 1 > Number THEN 0 ELSE Number - 1 + 1
      BY <2>1, FS_Interval
    <2> QED BY <1>2, <2>2
  <1>6. ExistsBijection(AtStart, 1 .. Number)
    BY <1>1, <1>5, FS_SameCardinalityBij DEF Number
  <1>7. \E f \in [AtStart -> 1 .. Number] : \A m, n \in AtStart : f[m] = f[n] => m = n
    BY <1>6 DEF ExistsBijection, Bijection, Injection, IsInjective
  <1>8. /\ Numbered \in [AtStart -> 1 .. Number]
        /\ \A m, n \in AtStart : Numbered[m] = Numbered[n] => m = n
    BY <1>7 DEF Numbered
  <1>9. Numbered \in Injection(AtStart, 1 .. Number)
    BY <1>8 DEF Injection, IsInjective
  <1>10. Numbered \in Surjection(AtStart, 1 .. Number)
    BY <1>5, <1>9, FS_Injection DEF Number
  <1>11. ASSUME NEW t \in 1 .. Number
         PROVE  Numbers(t) \in AtStart /\ Numbered[Numbers(t)] = t
    <2>1. \E n \in AtStart : Numbered[n] = t
      BY <1>10 DEF Surjection
    <2> QED BY <2>1 DEF Numbers
  <1> QED BY <1>3, <1>4, <1>8, <1>11

\* A table at the start, and a client of it.
Starting(t) ==
  IF t \in 1 .. Number
  THEN [name |-> Numbers(t),
        references |-> 1 + IF Numbers(t) = "root" THEN Cardinality(Clients) ELSE 0,
        bound |-> Defaults[Numbers(t)], defaults |-> Defaults[Numbers(t)],
        age |-> "unset"]
  ELSE Free
Present == [NoClient EXCEPT !.alive = TRUE, !.table = Numbered["root"]]

LEMMA InitIs ==
  ASSUME Init
  PROVE  /\ tree = [n \in Names |-> IF n \in AtStart THEN Numbered[n] ELSE 0]
         /\ tables = [t \in Slots |-> Starting(t)]
         /\ client = [c \in Clients |-> Present]
         /\ hangs = FALSE /\ wrong = {} /\ events = 0
  BY DEF Init, AtStart, Number, Numbered, Numbers, Starting, Present, Slots

(* Initially every named table is referred to by its name, and the root      *)
(* table by all clients.                                                     *)
LEMMA InitInv == Init => IInv
  <1> SUFFICES ASSUME Init PROVE IInv
    OBVIOUS
  <1>1. /\ Number \in 0 .. MaxTables /\ "root" \in AtStart /\ AtStart \subseteq Names
        /\ Numbered \in [AtStart -> 1 .. Number]
        /\ \A m, n \in AtStart : Numbered[m] = Numbered[n] => m = n
        /\ \A t \in 1 .. Number : Numbers(t) \in AtStart /\ Numbered[Numbers(t)] = t
        /\ MaxTables \in Nat
    BY NumberedIs, KeysAssumption DEF AtStart
  <1>2. /\ tree = [n \in Names |-> IF n \in AtStart THEN Numbered[n] ELSE 0]
        /\ tables = [t \in Slots |-> Starting(t)]
        /\ client = [c \in Clients |-> Present]
        /\ hangs = FALSE /\ wrong = {} /\ events = 0
    BY InitIs
  <1>3. NoBindings \in Bindings /\ Cardinality(Clients) \in Nat
    BY KeysAssumption, FS_CardinalityType DEF NoBindings, Bindings
  <1>4. \A t \in Slots : Starting(t) \in TableType
    BY <1>1, <1>3, KeysAssumption DEF Starting, TableType, Free, Slots
  <1>5. /\ Present \in ClientType /\ Present.alive /\ ~Present.repeat /\ ~Present.prefixed
        /\ Present.table = Numbered["root"] /\ Present.table \in Slots
    <2>1. Numbered["root"] \in Slots /\ Numbered["root"] \in 0 .. MaxTables
      BY <1>1 DEF Slots
    <2>2. NoClient \in ClientType /\ ~NoClient.repeat /\ ~NoClient.prefixed
      BY NoClientType DEF NoClient
    <2> QED BY <2>1, <2>2 DEF ClientType, Present
  <1>6. State \in States
    BY <1>1, <1>2, <1>4, <1>5 DEF State, States, Slots
  <1>7. /\ State.tree = tree /\ State.tables = tables /\ State.client = client
    BY DEF State
  <1>8. Alive(State) = Clients
    BY <1>2, <1>5, <1>7 DEF Alive
  <1>9. Listed(State)
    <2>1. ASSUME NEW n \in Names, tree[n] # 0 PROVE tables[tree[n]].name = n
      <3>1. n \in AtStart /\ tree[n] = Numbered[n] /\ Numbered[n] \in 1 .. Number
        BY <1>1, <1>2, <2>1
      <3>2. Numbers(Numbered[n]) = n
        BY <1>1, <3>1
      <3>3. tables[tree[n]] = Starting(Numbered[n])
        BY <1>1, <1>2, <3>1 DEF Slots
      <3> QED BY <3>1, <3>2, <3>3 DEF Starting
    <2> QED BY <1>7, <2>1 DEF Listed
  <1>10. Counted(State, Clients, 0)
    <2> SUFFICES ASSUME NEW t \in Slots
                 PROVE  /\ tables[t].references = References(State, Clients, 0, t)
                        /\ tables[t].references = 0 => tables[t] = Free
      BY <1>7 DEF Counted
    <2>1. Holding(0, t) = 0 /\ tables[t] = Starting(t)
      BY <1>2 DEF Holding, Slots
    <2>2. Users(State, Clients, t) = IF t = Numbered["root"] THEN Clients ELSE {}
      BY <1>2, <1>5, <1>7 DEF Users
    <2>3. Named(State, t) = IF t \in 1 .. Number THEN {Numbers(t)} ELSE {}
      <3>1. \A n \in Names : State.tree[n] = t <=> n \in AtStart /\ Numbered[n] = t
        BY <1>2, <1>7 DEF Slots
      <3>2. CASE t \in 1 .. Number
        BY <1>1, <3>1, <3>2 DEF Named
      <3>3. CASE t \notin 1 .. Number
        BY <1>1, <3>1, <3>3 DEF Named
      <3> QED BY <3>2, <3>3
    <2>4. Cardinality({}) = 0 /\ Cardinality({Numbers(t)}) = 1
      BY FS_EmptySet, FS_Singleton
    <2>5. CASE t \in 1 .. Number
      <3>1. Numbers(t) = "root" <=> t = Numbered["root"]
        BY <1>1, <2>5
      <3>2. Starting(t).references
              = 1 + IF Numbers(t) = "root" THEN Cardinality(Clients) ELSE 0
        BY <2>5 DEF Starting
      <3>3. CASE t = Numbered["root"]
        BY <1>3, <2>1, <2>2, <2>3, <2>4, <2>5, <3>1, <3>2, <3>3 DEF References
      <3>4. CASE t # Numbered["root"]
        BY <2>1, <2>2, <2>3, <2>4, <2>5, <3>1, <3>2, <3>4 DEF References
      <3> QED BY <3>3, <3>4
    <2>6. CASE t \notin 1 .. Number
      <3>1. t # Numbered["root"] /\ Starting(t) = Free /\ Free.references = 0
        BY <1>1, <2>6 DEF Starting, Free
      <3> QED BY <2>1, <2>2, <2>3, <2>4, <2>6, <3>1 DEF References
    <2> QED BY <2>5, <2>6
  <1>11. Counts(State, Clients, 0)
    BY <1>1, <1>2, <1>5, <1>6, <1>7, <1>9, <1>10 DEF Counts
  <1>12. \A c \in Clients : Kept(State, c)
    BY <1>2, <1>5, <1>7 DEF Kept, Timed
  <1>13. events \in 0 .. MaxEvents
    BY <1>2, KeysAssumption
  <1> QED BY <1>2, <1>8, <1>11, <1>12, <1>13 DEF IInv, Good

-----------------------------------------------------------------------------

LEMMA NextInv == IInv /\ [Next]_vars => IInv'
  <1> SUFFICES ASSUME IInv, [Next]_vars PROVE IInv'
    OBVIOUS
  <1>1. Rebindable \subseteq Names \X Bound
    BY KeysAssumption
  <1>2. \A b \in Rebindable : b[1] \in Names /\ b[2] \in Bound
    BY <1>1
  <1>3. CASE \E c \in Clients, k \in Pressed, late \in BOOLEAN : Press(c, k, late)
    BY <1>3, PressKeeps
  <1>4. CASE \E c \in Clients : RepeatTimer(c)
    BY <1>4, RepeatTimerKeeps
  <1>5. CASE \E t \in DOMAIN tables : Ages(t)
    BY <1>5, AgesKeeps
  <1>6. CASE \E b \in Rebindable, how \in {"once", "repeat", "note"} :
               Bind(b[1], b[2], how)
    BY <1>2, <1>6, BindKeeps
  <1>7. CASE \E b \in Rebindable : Unbind(b[1], b[2])
    BY <1>2, <1>7, UnbindKeeps
  <1>8. CASE \E b \in Rebindable : Reset(b[1], b[2])
    BY <1>2, <1>8, ResetKeeps
  <1>9. CASE \E n \in Names : UnbindAll(n)
    BY <1>9, UnbindAllKeeps
  <1>10. CASE \E c \in Clients, n \in Options : SwitchTable(c, n)
    BY <1>10, SwitchTableKeeps
  <1>11. CASE \E c \in Clients, n \in Options : SetOption(c, n)
    BY <1>11, SetOptionKeeps
  <1>12. CASE \E c \in Clients : Mode(c)
    BY <1>12, ModeKeeps
  <1>13. CASE \E c \in Clients : Attach(c)
    BY <1>13, AttachKeeps
  <1>14. CASE \E c \in Clients : Lost(c)
    BY <1>14, LostKeeps
  <1>15. CASE UNCHANGED vars
    <2>1. /\ tree' = tree /\ tables' = tables /\ client' = client
          /\ hangs' = hangs /\ wrong' = wrong /\ events' = events
      BY <1>15 DEF vars
    <2>2. State' = State
      BY <2>1 DEF State
    <2>3. Good(State)' <=> Good(State)
      BY <2>2 DEF Good, Counts, Kept, Timed, Waiting, Fresh, Listed, Counted, References,
                  Named, Users, Holding, Alive
    <2> QED BY <2>1, <2>3 DEF IInv
  <1> QED BY <1>3, <1>4, <1>5, <1>6, <1>7, <1>8, <1>9, <1>10, <1>11, <1>12, <1>13,
             <1>14, <1>15 DEF Next

(* The invariant counts what TablesSound counts: a table has one name at      *)
(* most, and so no more references than clients and that name.               *)
LEMMA SoundThen == IInv => TablesSound
  <1> SUFFICES ASSUME IInv PROVE TablesSound
    OBVIOUS
  <1> DEFINE H == Alive(State)
  <1>1. /\ Good(State) /\ Counts(State, H, 0) /\ State \in States
        /\ State.tree = tree /\ State.tables = tables /\ State.client = client
        /\ H \in SUBSET Clients /\ H = Live /\ events \in 0 .. MaxEvents
    BY DEF IInv, Good, State, Counts, Alive, Live
  <1>2. /\ DOMAIN tables = Slots /\ \A t \in Slots : tables[t] \in TableType
        /\ tree \in [Names -> 0 .. MaxTables]
    BY <1>1, Types
  <1>3. ASSUME NEW t \in Slots
        PROVE  /\ tables[t].references = Cardinality({n \in Names : tree[n] = t})
                                           + Cardinality({c \in Live : client[c].table = t})
               /\ tables[t].references = 0 => tables[t] = Free
               /\ tables[t].references \in 0 .. Cardinality(Clients) + 1
    <2>1. /\ Named(State, t) = {n \in Names : tree[n] = t}
          /\ Users(State, H, t) = {c \in Live : client[c].table = t}
          /\ Holding(0, t) = 0
      BY <1>1 DEF Named, Users, Holding, Slots
    <2>2. /\ IsFiniteSet(Named(State, t)) /\ Cardinality(Named(State, t)) \in Nat
          /\ Cardinality(Users(State, H, t)) \in Nat
      BY <1>1, Counting
    <2>3. Cardinality(Users(State, H, t)) <= Cardinality(Clients)
          /\ Cardinality(Clients) \in Nat
      <3>1. Users(State, H, t) \in SUBSET Clients
        BY <1>1 DEF Users
      <3> QED BY <3>1, FS_Subset, FS_CardinalityType, KeysAssumption
    <2>4. Cardinality(Named(State, t)) <= 1
      <3>1. Named(State, t) \in SUBSET {tables[t].name}
        BY <1>1 DEF Counts, Listed, Named, Slots
      <3>2. IsFiniteSet({tables[t].name}) /\ Cardinality({tables[t].name}) = 1
        BY FS_Singleton
      <3> QED BY <3>1, <3>2, FS_Subset
    <2>5. /\ tables[t].references = References(State, H, 0, t)
          /\ tables[t].references = 0 => tables[t] = Free
      BY <1>1 DEF Counts, Counted
    <2>6. tables[t].references
            = Cardinality(Named(State, t)) + Cardinality(Users(State, H, t))
      BY <2>1, <2>2, <2>5 DEF References
    <2> QED BY <2>1, <2>2, <2>3, <2>4, <2>5, <2>6
  <1>4. TypeOK
    <2>1. \A n \in Names : tree[n] \in {0} \cup {t \in DOMAIN tables : tables[t].name = n}
      BY <1>1, <1>2 DEF Counts, Listed, Slots
    <2>2. \A t \in DOMAIN tables : tables[t].bound \in [Bound -> {"none", "once", "repeat"}]
      BY <1>2 DEF TableType, Bindings
    <2>3. \A c \in Clients \ Live : client[c] = NoClient
      BY <1>1 DEF Good, Kept, Live
    <2> QED BY <1>1, <1>2, <1>3, <2>1, <2>2, <2>3 DEF TypeOK
  <1> QED BY <1>2, <1>3, <1>4 DEF TablesSound

(* Whatever keys, timers and commands come, a table has as many references as *)
(* names and clients that refer to it, and is in memory as long as it has     *)
(* one: key_bindings_unref_table never frees a table that somebody has        *)
(* (key-bindings.c:173).                                                      *)
THEOREM TablesStaySound == Spec => []TablesSound
  <1>1. Spec => []IInv
    BY InitInv, NextInv, PTL DEF Spec
  <1> QED BY <1>1, SoundThen, PTL

(* A key leaves the client where server_client_key_callback should: after a   *)
(* binding in its default table, after one that repeats with a timer running, *)
(* after the prefix in the prefix table; no other handler takes the timer     *)
(* from a client that repeats.                                                *)
THEOREM KeysReturn == Spec => []ReturnsAfterKey
  <1>1. Spec => []IInv
    BY InitInv, NextInv, PTL DEF Spec
  <1>2. IInv => ReturnsAfterKey
    BY DEF IInv, Good, Kept, Timed, State, ReturnsAfterKey
  <1> QED BY <1>1, <1>2, PTL

(* The key after the prefix is looked up in the prefix table, although other  *)
(* clients, which share the table and set its time, come in between.          *)
THEOREM PrefixIsObeyed == Spec => []PrefixObeyed
  <1>1. Spec => []IInv
    BY InitInv, NextInv, PTL DEF Spec
  <1>2. IInv => PrefixObeyed
    BY DEF IInv, PrefixObeyed
  <1> QED BY <1>1, <1>2, PTL
=============================================================================
