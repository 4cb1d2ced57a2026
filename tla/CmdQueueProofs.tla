--------------------------- MODULE CmdQueueProofs ---------------------------
(***************************************************************************)
(* Proofs about CmdQueue: its types, the order and the end of command      *)
(* sequences, the queues and what waits, the references of clients, and    *)
(* the hooks, for any clients, hooks and bounds.                           *)
(*                                                                         *)
(* None of these is inductive.  That a sequence runs in order says nothing *)
(* of what is still in the lists, and a step may run any of it; a count is *)
(* exact only if no item is in two lists and a job ends once; a client     *)
(* may be freed only if no item or job is left that is for it.  IInv adds  *)
(* what relates the lists to what has run: what is left of a sequence is   *)
(* in one list, in order and later than what has run; what an item         *)
(* inserted comes before the rest; only the head of a list has been fired. *)
(*                                                                         *)
(* Every step changes the lists in one shape, SpliceSound: items go after  *)
(* a head, others leave, others go to the end of a list.  The lemmas about *)
(* this shape carry the order, the heads and the counts; FireKept sums     *)
(* them up for the steps of cmdq_next, AddKept for the callbacks, and the  *)
(* lemma of each action says which splice it is.                           *)
(***************************************************************************)
EXTENDS CmdQueue, FiniteSetTheorems, SequenceTheorems, TLAPS

-----------------------------------------------------------------------------
(* The inductive invariant.                                                *)

Elems(s) == {s[i] : i \in DOMAIN s}
Distinct(s) == \A i, j \in DOMAIN s : s[i] = s[j] => i = j
Precedes(s, x, y) == \E i, j \in DOMAIN s : i < j /\ s[i] = x /\ s[j] = y

SeqOf(x) == items[x].seq
ParentOf(x) == items[x].parent
IsHead(x) == \E q \in Queues : list[q] # <<>> /\ x = Head(list[q])

(* What is typed, without what the other parts give.                       *)
Typed ==
  /\ items \in Seq(ItemRecords) /\ Len(items) <= MaxItems
  /\ list \in [Queues -> Seq(DOMAIN items)]
  /\ current \in [Queues -> 0 .. MaxItems]
  /\ clients \in Seq(Clients) /\ dead \subseteq Clients /\ freed \subseteq Clients
  /\ refs \in [Clients -> Nat]
  /\ jobs \subseteq JobRecords /\ IsFiniteSet(jobs)
  /\ ran \in Seq(DOMAIN items) /\ failed \subseteq Elems(ran)
  /\ phase \in Queues \cup {"poll"}
  /\ phase \in Clients => phase \in Live

(* A sequence is numbered by its first item, has one group, and is made    *)
(* after the item that inserts it.                                         *)
ItemsMade ==
  /\ \A x \in DOMAIN items :
       /\ SeqOf(x) <= x
       /\ ParentOf(x) # 0 => ParentOf(x) < SeqOf(x)
       /\ items[x].kind = "command" => items[x].group # 0
  /\ \A x, y \in DOMAIN items : SeqOf(x) = SeqOf(y) => items[x].group = items[y].group

(* No item is twice in a list or in two lists, and those of a client's     *)
(* list are for the client.                                                *)
ListsSound ==
  /\ \A q \in Queues : Distinct(list[q])
  /\ \A q, r \in Queues : \A x \in Elems(list[q]) : x \in Elems(list[r]) => q = r
  /\ \A c \in Clients : \A x \in Elems(list[c]) : items[x].client = c

(* Only a head has been fired and waits, and a job has its own.            *)
WaitsSound ==
  /\ waits \subseteq fired
  /\ \A x \in fired : IsHead(x)
  /\ \A j \in jobs : j.item # 0 => j.item \in waits
  /\ \A j, k \in jobs : j.item # 0 /\ j.item = k.item => j = k

CurrentSound ==
  \A q \in Queues : q # phase /\ current[q] # 0 => current[q] = HeadOrNull(q)

(* What has run is not in a list, unless it waits or waited.               *)
RanSound ==
  /\ \A i, j \in DOMAIN ran : ran[i] = ran[j] => i = j
  /\ \A x \in Elems(ran) \cap Listed : x \in fired
  /\ \A j \in jobs : j.made \in Elems(ran)

(* What is left of a sequence is in one list, in order, and is later than  *)
(* what has run of it; nothing is left of one that failed.                 *)
OrderLeft ==
  /\ \A q, r \in Queues : \A x \in Elems(list[q]), y \in Elems(list[r]) :
       SeqOf(x) = SeqOf(y) => q = r
  /\ \A q \in Queues : \A x, y \in Elems(list[q]) :
       SeqOf(x) = SeqOf(y) /\ Precedes(list[q], x, y) => x < y
  /\ \A a \in Elems(ran), b \in Listed : SeqOf(a) = SeqOf(b) => a <= b
  /\ \A a \in failed, b \in Listed : SeqOf(a) # SeqOf(b)

(* What an item inserted comes before the rest of the item's sequence.     *)
InsertedFirst ==
  \A b \in Listed : ParentOf(b) # 0 =>
    /\ \A a \in Elems(ran) : SeqOf(a) = SeqOf(ParentOf(b)) => a <= ParentOf(b)
    /\ \A a \in Listed : SeqOf(a) = SeqOf(ParentOf(b)) /\ a > ParentOf(b)
         => \E q \in Queues : Precedes(list[q], b, a)

(* Clients that items and jobs are for have not been freed.                *)
OwnersSound ==
  /\ Live \cap dead = {} /\ Live \cap freed = {} /\ dead \cap freed = {}
  /\ \A x \in Listed : items[x].client \in Live \cup dead \cup {NoClient}
  /\ \A j \in jobs : j.client \in Live \cup dead \cup {NoClient}

(* CMDQ_STATE_NOHOOKS goes to everything that a hook inserts; callbacks do *)
(* not have it.                                                            *)
HooksSound ==
  \A x \in DOMAIN items :
    /\ OfHook(x) => ~items[x].hooks
    /\ ParentOf(x) # 0 /\ (items[x].hooks \/ OfHook(x)) => items[ParentOf(x)].hooks
    /\ items[x].kind # "command" => items[x].hooks

IInv ==
  /\ Typed /\ ItemsMade /\ ListsSound /\ WaitsSound /\ CurrentSound
  /\ RanSound /\ OrderLeft /\ InsertedFirst /\ InOrder /\ ErrorStops
  /\ OwnersSound /\ RefsExact /\ HooksSound
-----------------------------------------------------------------------------
(* Lists of items: what is in them and in which order.                     *)

Below(K, i) == {m \in K : m < i}
Rank(K, i) == Cardinality(Below(K, i))

LEMMA RankSmall ==
  ASSUME NEW K, IsFiniteSet(K), NEW i \in K, K \subseteq Nat
  PROVE  /\ IsFiniteSet(Below(K, i))
         /\ Rank(K, i) \in Nat /\ Rank(K, i) < Cardinality(K)
         /\ Cardinality(K) \in Nat
<1>1. Below(K, i) \in SUBSET (K \ {i})
  BY DEF Below
<1>2. IsFiniteSet(K \ {i}) /\ Cardinality(K \ {i}) = Cardinality(K) - 1
  BY FS_RemoveElement
<1>3. IsFiniteSet(Below(K, i)) /\ Cardinality(Below(K, i)) <= Cardinality(K \ {i})
  BY <1>1, <1>2, FS_Subset
<1>4. Cardinality(K) \in Nat /\ Cardinality(Below(K, i)) \in Nat
  BY <1>3, FS_CardinalityType
<1> QED BY <1>2, <1>3, <1>4 DEF Rank

LEMMA RankGrows ==
  ASSUME NEW K, IsFiniteSet(K), K \subseteq Nat, NEW i \in K, NEW j \in K, i < j
  PROVE  Rank(K, i) < Rank(K, j)
<1>1. IsFiniteSet(Below(K, i)) /\ IsFiniteSet(Below(K, j))
  BY RankSmall
<1>2. i \notin Below(K, i) /\ Below(K, i) \cup {i} \in SUBSET Below(K, j)
  <2>1. \A m \in K : m \in Nat
    OBVIOUS
  <2>2. \A m \in Below(K, i) : m \in K /\ m < j
    BY <2>1 DEF Below
  <2>3. i \in Nat /\ j \in Nat
    BY <2>1
  <2>4. i \notin Below(K, i)
    BY <2>3 DEF Below
  <2>5. \A m \in Below(K, i) \cup {i} : m \in Below(K, j)
    BY <2>2 DEF Below
  <2> QED BY <2>4, <2>5
<1>3. Cardinality(Below(K, i) \cup {i}) = Cardinality(Below(K, i)) + 1
  BY <1>1, <1>2, FS_AddElement
<1>4. Cardinality(Below(K, i) \cup {i}) <= Cardinality(Below(K, j))
  BY <1>1, <1>2, FS_Subset
<1>5. Cardinality(Below(K, i)) \in Nat /\ Cardinality(Below(K, j)) \in Nat
  BY <1>1, FS_CardinalityType
<1> QED BY <1>3, <1>4, <1>5 DEF Rank

(* Every place below the number of elements is the rank of one of them:    *)
(* otherwise the ranks would not have room for all.                        *)
LEMMA RankOnto ==
  ASSUME NEW K, IsFiniteSet(K), K \subseteq Nat, NEW k \in 1 .. Cardinality(K)
  PROVE  \E i \in K : Rank(K, i) = k - 1
<1> DEFINE n == Cardinality(K)
           f == [i \in K |-> Rank(K, i)]
           T == (0 .. n - 1) \ {k - 1}
<1>1. n \in Nat /\ k \in Nat /\ 1 <= k /\ k <= n
  BY FS_CardinalityType
<1> SUFFICES ASSUME \A i \in K : Rank(K, i) # k - 1 PROVE FALSE
  OBVIOUS
<1>2. IsFiniteSet(0 .. n - 1) /\ Cardinality(0 .. n - 1) = n
  <2>1. 0 \in Int /\ n - 1 \in Int /\ ~(0 > n - 1)
    BY <1>1
  <2> QED BY <1>1, <2>1, FS_Interval
<1>3. IsFiniteSet(T) /\ Cardinality(T) = n - 1
  <2>1. k - 1 \in 0 .. n - 1
    BY <1>1
  <2> HIDE DEF n
  <2> QED BY <1>2, <2>1, FS_RemoveElement, ZenonT(30)
<1>4. f \in [K -> T]
  <2> SUFFICES ASSUME NEW i \in K PROVE Rank(K, i) \in T
    OBVIOUS
  <2>1. Rank(K, i) \in Nat /\ Rank(K, i) < n
    BY RankSmall
  <2>2. Rank(K, i) # k - 1
    OBVIOUS
  <2> HIDE DEF n
  <2> QED BY <1>1, <2>1, <2>2
<1>5. Cardinality(T) < Cardinality(K)
  BY <1>1, <1>3
<1>6. PICK x \in K, y \in K : x # y /\ f[x] = f[y]
  <2> HIDE DEF f, T
  <2> QED BY <1>3, <1>4, <1>5, FS_PigeonHole
<1>7. Rank(K, x) = Rank(K, y) /\ Rank(K, x) \in Nat /\ x \in Nat /\ y \in Nat
  BY <1>6, RankSmall
<1>8. x < y => Rank(K, x) < Rank(K, y)
  BY RankGrows
<1>9. y < x => Rank(K, y) < Rank(K, x)
  BY RankGrows
<1> QED BY <1>6, <1>7, <1>8, <1>9

LEMMA NthIs ==
  ASSUME NEW K, IsFiniteSet(K), K \subseteq Nat, NEW k \in 1 .. Cardinality(K)
  PROVE  Nth(K, k) \in K /\ Rank(K, Nth(K, k)) = k - 1
BY RankOnto DEF Nth, Rank, Below

LEMMA NthGrows ==
  ASSUME NEW K, IsFiniteSet(K), K \subseteq Nat,
         NEW k \in 1 .. Cardinality(K), NEW l \in 1 .. Cardinality(K), k < l
  PROVE  Nth(K, k) < Nth(K, l)
<1>1. /\ Nth(K, k) \in K /\ Rank(K, Nth(K, k)) = k - 1
      /\ Nth(K, l) \in K /\ Rank(K, Nth(K, l)) = l - 1
  BY NthIs
<1>2. Nth(K, k) \in Nat /\ Nth(K, l) \in Nat
  BY <1>1
<1>3. k \in Int /\ l \in Int
  BY FS_CardinalityType
<1>4. Nth(K, l) < Nth(K, k) => Rank(K, Nth(K, l)) < Rank(K, Nth(K, k))
  BY <1>1, RankGrows
<1> QED BY <1>1, <1>2, <1>3, <1>4

(* The element at i is the one of its rank.                                *)
LEMMA NthOfRank ==
  ASSUME NEW K, IsFiniteSet(K), K \subseteq Nat, NEW i \in K
  PROVE  Rank(K, i) + 1 \in 1 .. Cardinality(K) /\ Nth(K, Rank(K, i) + 1) = i
<1> DEFINE k == Rank(K, i) + 1
<1>1. Rank(K, i) \in Nat /\ Rank(K, i) < Cardinality(K) /\ Cardinality(K) \in Nat
  BY RankSmall
<1>2. k \in 1 .. Cardinality(K) /\ k - 1 = Rank(K, i)
  BY <1>1
<1> HIDE DEF k
<1>3. Nth(K, k) \in K /\ Rank(K, Nth(K, k)) = k - 1
  BY <1>2, NthIs
<1>4. Nth(K, k) \in Nat /\ i \in Nat
  BY <1>3
<1>5. i < Nth(K, k) => Rank(K, i) < Rank(K, Nth(K, k))
  BY <1>3, RankGrows
<1>6. Nth(K, k) < i => Rank(K, Nth(K, k)) < Rank(K, i)
  BY <1>3, RankGrows
<1>7. Nth(K, k) = i
  BY <1>1, <1>2, <1>3, <1>4, <1>5, <1>6
<1> QED BY <1>2, <1>7 DEF k

LEMMA StayFinite ==
  ASSUME NEW T, NEW s \in Seq(T), NEW S
  PROVE  /\ IsFiniteSet(Stay(s, S)) /\ Stay(s, S) \subseteq Nat
         /\ Stay(s, S) \subseteq DOMAIN s
         /\ Cardinality(Stay(s, S)) \in Nat
<1>1. DOMAIN s = 1 .. Len(s) /\ Len(s) \in Nat
  OBVIOUS
<1>2. Stay(s, S) \in SUBSET (1 .. Len(s))
  BY <1>1 DEF Stay
<1>3. IsFiniteSet(1 .. Len(s))
  BY <1>1, FS_Interval
<1>4. IsFiniteSet(Stay(s, S))
  BY <1>2, <1>3, FS_Subset
<1> QED BY <1>1, <1>2, <1>4, FS_CardinalityType

(* What cmdq_remove_group, or the loss of a client, leaves of a list: the  *)
(* other elements, each once and in the same order.                        *)
LEMMA WithoutIs ==
  ASSUME NEW T, NEW s \in Seq(T), NEW S
  PROVE  /\ Without(s, S) \in Seq(T)
         /\ Elems(Without(s, S)) = Elems(s) \ S
<1> DEFINE K == Stay(s, S)
           n == Cardinality(K)
           w == Without(s, S)
<1>1. IsFiniteSet(K) /\ K \subseteq Nat /\ K \subseteq DOMAIN s /\ n \in Nat
  BY StayFinite
<1>2. w = [k \in 1 .. n |-> s[Nth(K, k)]]
  BY DEF Without
<1>3. \A i \in K : s[i] \in T /\ s[i] \notin S
  BY <1>1 DEF Stay
<1>4. \A i \in DOMAIN s : s[i] \notin S => i \in K
  BY DEF Stay
<1> HIDE DEF K, n, w
<1>5. \A k \in 1 .. n : Nth(K, k) \in K
  BY <1>1, NthIs DEF n
<1>6. w \in Seq(T)
  <2>1. \A k \in 1 .. n : s[Nth(K, k)] \in T
    BY <1>3, <1>5
  <2> QED BY <1>1, <1>2, <2>1, IsASeq
<1>7. DOMAIN w = 1 .. n /\ \A k \in 1 .. n : w[k] = s[Nth(K, k)]
  BY <1>2
<1>8. \A x : x \in Elems(w) => x \in Elems(s) /\ x \notin S
  BY <1>1, <1>3, <1>5, <1>7 DEF Elems
<1>9. ASSUME NEW i \in DOMAIN s, s[i] \notin S PROVE s[i] \in Elems(w)
  <2>1. i \in K
    BY <1>4, <1>9
  <2>2. Rank(K, i) + 1 \in 1 .. n /\ Nth(K, Rank(K, i) + 1) = i
    BY <1>1, <2>1, NthOfRank DEF n
  <2>3. w[Rank(K, i) + 1] = s[i]
    BY <1>7, <2>2
  <2> QED BY <1>7, <2>2, <2>3 DEF Elems
<1>10. \A x : x \in Elems(w) <=> x \in Elems(s) \ S
  BY <1>8, <1>9 DEF Elems
<1>11. Elems(w) = Elems(s) \ S
  BY <1>10
<1> QED BY <1>6, <1>11 DEF w

LEMMA WithoutOrder ==
  ASSUME NEW T, NEW s \in Seq(T), NEW S
  PROVE  /\ Distinct(s) => Distinct(Without(s, S))
         /\ \A x, y : Precedes(Without(s, S), x, y) => Precedes(s, x, y)
<1> DEFINE K == Stay(s, S)
           n == Cardinality(K)
           w == Without(s, S)
<1>1. IsFiniteSet(K) /\ K \subseteq Nat /\ K \subseteq DOMAIN s /\ n \in Nat
  BY StayFinite
<1>2. w = [k \in 1 .. n |-> s[Nth(K, k)]]
  BY DEF Without
<1> HIDE DEF K, n, w
<1>3. \A k \in 1 .. n : Nth(K, k) \in DOMAIN s /\ Nth(K, k) \in Nat
  BY <1>1, NthIs DEF n
<1>4. \A k, l \in 1 .. n : k < l => Nth(K, k) < Nth(K, l)
  BY <1>1, NthGrows DEF n
<1>5. DOMAIN w = 1 .. n /\ \A k \in 1 .. n : w[k] = s[Nth(K, k)]
  BY <1>2
<1>6. ASSUME Distinct(s) PROVE Distinct(w)
  <2> SUFFICES ASSUME NEW k \in 1 .. n, NEW l \in 1 .. n, w[k] = w[l] PROVE k = l
    BY <1>5 DEF Distinct
  <2>1. Nth(K, k) = Nth(K, l)
    BY <1>3, <1>5, <1>6 DEF Distinct
  <2>2. Nth(K, k) \in Nat /\ Nth(K, l) \in Nat
    BY <1>3
  <2>3. ~(k < l) /\ ~(l < k)
    BY <1>4, <2>1, <2>2
  <2> QED BY <1>1, <2>3
<1>7. ASSUME NEW x, NEW y, Precedes(w, x, y) PROVE Precedes(s, x, y)
  <2>1. PICK k \in 1 .. n, l \in 1 .. n : k < l /\ w[k] = x /\ w[l] = y
    BY <1>5, <1>7 DEF Precedes
  <2>2. /\ Nth(K, k) \in DOMAIN s /\ Nth(K, l) \in DOMAIN s
        /\ Nth(K, k) < Nth(K, l) /\ s[Nth(K, k)] = x /\ s[Nth(K, l)] = y
    BY <1>3, <1>4, <1>5, <2>1
  <2> QED BY <2>2 DEF Precedes
<1> QED BY <1>6, <1>7 DEF w

LEMMA PrecedesIn ==
  ASSUME NEW s, NEW x, NEW y, Precedes(s, x, y)
  PROVE  x \in Elems(s) /\ y \in Elems(s)
BY DEF Precedes, Elems

(* Of two elements of a list without repetition one precedes the other.    *)
LEMMA PrecedesTotal ==
  ASSUME NEW T, NEW s \in Seq(T), NEW x \in Elems(s), NEW y \in Elems(s), x # y
  PROVE  Precedes(s, x, y) \/ Precedes(s, y, x)
<1>1. PICK i \in DOMAIN s : s[i] = x
  BY DEF Elems
<1>2. PICK j \in DOMAIN s : s[j] = y
  BY DEF Elems
<1>3. i \in Nat /\ j \in Nat /\ i # j
  BY <1>1, <1>2
<1>4. i < j \/ j < i
  BY <1>3
<1> QED BY <1>1, <1>2, <1>4 DEF Precedes

LEMMA PrecedesOneWay ==
  ASSUME NEW T, NEW s \in Seq(T), Distinct(s), NEW x, NEW y, Precedes(s, x, y)
  PROVE  ~Precedes(s, y, x) /\ x # y
<1>1. PICK i \in DOMAIN s, j \in DOMAIN s : i < j /\ s[i] = x /\ s[j] = y
  BY DEF Precedes
<1>2. i \in Nat /\ j \in Nat
  OBVIOUS
<1>3. x # y
  BY <1>1, <1>2 DEF Distinct
<1>4. ASSUME NEW k \in DOMAIN s, NEW l \in DOMAIN s, k < l, s[k] = y, s[l] = x PROVE FALSE
  <2>1. k = j /\ l = i
    BY <1>1, <1>4 DEF Distinct
  <2> QED BY <1>1, <1>2, <1>4, <2>1
<1> QED BY <1>3, <1>4 DEF Precedes

(* One list after another.                                                 *)
LEMMA ConcatIs ==
  ASSUME NEW T, NEW s \in Seq(T), NEW t \in Seq(T)
  PROVE  /\ s \o t \in Seq(T)
         /\ Elems(s \o t) = Elems(s) \cup Elems(t)
         /\ Distinct(s) /\ Distinct(t) /\ Elems(s) \cap Elems(t) = {} => Distinct(s \o t)
<1> DEFINE u == s \o t
           m == Len(s)
           n == Len(t)
<1>1. /\ u \in Seq(T) /\ m \in Nat /\ n \in Nat
      /\ DOMAIN s = 1 .. m /\ DOMAIN t = 1 .. n /\ DOMAIN u = 1 .. (m + n)
  BY ConcatProperties
<1>2. \A i \in 1 .. (m + n) : u[i] = IF i <= m THEN s[i] ELSE t[i - m]
  BY <1>1, ConcatProperties
<1> HIDE DEF u, m, n
<1>3. \A i \in 1 .. (m + n) : i <= m => i \in 1 .. m
  BY <1>1
<1>4. \A i \in 1 .. (m + n) : ~(i <= m) => i - m \in 1 .. n
  BY <1>1
<1>5. \A i \in 1 .. m : i \in 1 .. (m + n) /\ i <= m
  BY <1>1
<1>6. \A i \in 1 .. n : m + i \in 1 .. (m + n) /\ ~(m + i <= m) /\ m + i - m = i
  BY <1>1
<1>7. ASSUME NEW x, x \in Elems(u) PROVE x \in Elems(s) \cup Elems(t)
  <2>1. PICK i \in 1 .. (m + n) : u[i] = x
    BY <1>1, <1>7 DEF Elems
  <2>2. CASE i <= m
    BY <1>1, <1>2, <1>3, <2>1, <2>2 DEF Elems
  <2>3. CASE ~(i <= m)
    <3>1. i - m \in DOMAIN t /\ t[i - m] = x
      BY <1>1, <1>2, <1>4, <2>1, <2>3
    <3> QED BY <3>1 DEF Elems
  <2> QED BY <2>2, <2>3
<1>8. ASSUME NEW i \in 1 .. m PROVE s[i] \in Elems(u)
  <2>1. i \in DOMAIN u /\ u[i] = s[i]
    BY <1>1, <1>2, <1>5
  <2> QED BY <2>1 DEF Elems
<1>9. ASSUME NEW i \in 1 .. n PROVE t[i] \in Elems(u)
  <2>1. m + i \in DOMAIN u /\ u[m + i] = t[i]
    BY <1>1, <1>2, <1>6
  <2> QED BY <2>1 DEF Elems
<1>10. \A x : x \in Elems(u) <=> x \in Elems(s) \cup Elems(t)
  BY <1>1, <1>7, <1>8, <1>9 DEF Elems
<1>11. Elems(u) = Elems(s) \cup Elems(t)
  BY <1>10
<1>12. ASSUME Distinct(s), Distinct(t), Elems(s) \cap Elems(t) = {} PROVE Distinct(u)
  <2> SUFFICES ASSUME NEW i \in 1 .. (m + n), NEW j \in 1 .. (m + n), u[i] = u[j]
               PROVE  i = j
    BY <1>1 DEF Distinct
  <2>1. CASE i <= m /\ j <= m
    BY <1>1, <1>2, <1>3, <1>12, <2>1 DEF Distinct
  <2>2. CASE ~(i <= m) /\ ~(j <= m)
    <3>1. i - m \in DOMAIN t /\ j - m \in DOMAIN t /\ t[i - m] = t[j - m]
      BY <1>1, <1>2, <1>4, <2>2
    <3>2. i - m = j - m
      BY <1>12, <3>1 DEF Distinct
    <3> QED BY <1>1, <3>2
  <2>3. CASE i <= m /\ ~(j <= m)
    <3>1. s[i] \in Elems(s) /\ t[j - m] \in Elems(t) /\ s[i] = t[j - m]
      BY <1>1, <1>2, <1>3, <1>4, <2>3 DEF Elems
    <3> QED BY <1>12, <3>1
  <2>4. CASE ~(i <= m) /\ j <= m
    <3>1. s[j] \in Elems(s) /\ t[i - m] \in Elems(t) /\ s[j] = t[i - m]
      BY <1>1, <1>2, <1>3, <1>4, <2>4 DEF Elems
    <3> QED BY <1>12, <3>1
  <2> QED BY <2>1, <2>2, <2>3, <2>4
<1> QED BY <1>1, <1>11, <1>12 DEF u

LEMMA ConcatOrder ==
  ASSUME NEW T, NEW s \in Seq(T), NEW t \in Seq(T), NEW x, NEW y
  PROVE  /\ Precedes(s, x, y) => Precedes(s \o t, x, y)
         /\ Precedes(t, x, y) => Precedes(s \o t, x, y)
         /\ x \in Elems(s) /\ y \in Elems(t) => Precedes(s \o t, x, y)
         /\ Precedes(s \o t, x, y) =>
              Precedes(s, x, y) \/ Precedes(t, x, y) \/ (x \in Elems(s) /\ y \in Elems(t))
<1> DEFINE u == s \o t
           m == Len(s)
           n == Len(t)
<1>1. /\ m \in Nat /\ n \in Nat
      /\ DOMAIN s = 1 .. m /\ DOMAIN t = 1 .. n /\ DOMAIN u = 1 .. (m + n)
  BY ConcatProperties
<1>2. \A i \in 1 .. (m + n) : u[i] = IF i <= m THEN s[i] ELSE t[i - m]
  BY <1>1, ConcatProperties
<1> HIDE DEF u, m, n
<1>3. \A i \in 1 .. m : i \in 1 .. (m + n) /\ u[i] = s[i]
  BY <1>1, <1>2
<1>4. \A i \in 1 .. n : m + i \in 1 .. (m + n) /\ u[m + i] = t[i]
  <2> SUFFICES ASSUME NEW i \in 1 .. n
               PROVE  m + i \in 1 .. (m + n) /\ u[m + i] = t[i]
    OBVIOUS
  <2> DEFINE k == m + i
  <2>1. k \in 1 .. (m + n) /\ ~(k <= m) /\ k - m = i
    BY <1>1
  <2> HIDE DEF k
  <2>2. u[k] = t[i]
    BY <1>2, <2>1
  <2> QED BY <2>1, <2>2 DEF k
<1>5. ASSUME Precedes(s, x, y) PROVE Precedes(u, x, y)
  BY <1>1, <1>3, <1>5 DEF Precedes
<1>6. ASSUME Precedes(t, x, y) PROVE Precedes(u, x, y)
  <2>1. PICK i \in 1 .. n, j \in 1 .. n : i < j /\ t[i] = x /\ t[j] = y
    BY <1>1, <1>6 DEF Precedes
  <2>2. m + i < m + j
    BY <1>1, <2>1
  <2>3. m + i \in DOMAIN u /\ m + j \in DOMAIN u /\ u[m + i] = x /\ u[m + j] = y
    BY <1>1, <1>4, <2>1
  <2> QED BY <2>2, <2>3 DEF Precedes
<1>7. ASSUME x \in Elems(s), y \in Elems(t) PROVE Precedes(u, x, y)
  <2>1. PICK i \in 1 .. m : s[i] = x
    BY <1>1, <1>7 DEF Elems
  <2>2. PICK j \in 1 .. n : t[j] = y
    BY <1>1, <1>7 DEF Elems
  <2>3. i < m + j
    BY <1>1
  <2>4. i \in DOMAIN u /\ m + j \in DOMAIN u /\ u[i] = x /\ u[m + j] = y
    BY <1>1, <1>3, <1>4, <2>1, <2>2
  <2> QED BY <2>3, <2>4 DEF Precedes
<1>8. ASSUME Precedes(u, x, y)
      PROVE  Precedes(s, x, y) \/ Precedes(t, x, y) \/ (x \in Elems(s) /\ y \in Elems(t))
  <2>1. PICK i \in 1 .. (m + n), j \in 1 .. (m + n) : i < j /\ u[i] = x /\ u[j] = y
    BY <1>1, <1>8 DEF Precedes
  <2>2. CASE j <= m
    <3>1. i \in 1 .. m /\ j \in 1 .. m /\ i <= m
      BY <1>1, <2>1, <2>2
    <3>2. s[i] = x /\ s[j] = y
      BY <1>2, <2>1, <2>2, <3>1
    <3> QED BY <1>1, <2>1, <3>1, <3>2 DEF Precedes
  <2>3. CASE i <= m /\ ~(j <= m)
    <3>1. i \in 1 .. m /\ j - m \in 1 .. n
      BY <1>1, <2>1, <2>3
    <3>2. s[i] = x /\ t[j - m] = y
      BY <1>2, <2>1, <2>3
    <3> QED BY <1>1, <3>1, <3>2 DEF Elems
  <2>4. CASE ~(i <= m)
    <3>1. i - m \in 1 .. n /\ j - m \in 1 .. n /\ i - m < j - m /\ ~(j <= m)
      BY <1>1, <2>1, <2>4
    <3>2. t[i - m] = x /\ t[j - m] = y
      BY <1>2, <2>1, <2>4, <3>1
    <3> QED BY <1>1, <3>1, <3>2 DEF Precedes
  <2> QED BY <2>2, <2>3, <2>4
<1> QED BY <1>5, <1>6, <1>7, <1>8 DEF u

(* A list is its head before its tail.                                     *)
LEMMA HeadTailIs ==
  ASSUME NEW T, NEW s \in Seq(T), s # <<>>
  PROVE  /\ Head(s) \in T /\ Tail(s) \in Seq(T)
         /\ Elems(s) = {Head(s)} \cup Elems(Tail(s))
         /\ s = <<Head(s)>> \o Tail(s)
<1> DEFINE h == Head(s)
           a == <<h>>
           t == Tail(s)
<1>1. h \in T /\ t \in Seq(T) /\ s = a \o t
  BY HeadTailProperties
<1>2. a \in Seq(T) /\ DOMAIN a = {1} /\ a[1] = h
  BY <1>1
<1> HIDE DEF h, a, t
<1>3. Elems(a) = {h}
  BY <1>2 DEF Elems
<1>4. Elems(a \o t) = Elems(a) \cup Elems(t)
  BY <1>1, <1>2, ConcatIs
<1> QED BY <1>1, <1>3, <1>4 DEF h, a, t

LEMMA HeadFirst ==
  ASSUME NEW T, NEW s \in Seq(T), s # <<>>, Distinct(s)
  PROVE  /\ Distinct(Tail(s)) /\ Head(s) \notin Elems(Tail(s))
         /\ \A x \in Elems(Tail(s)) : Precedes(s, Head(s), x)
         /\ \A x, y : Precedes(Tail(s), x, y) => Precedes(s, x, y)
         /\ \A x : ~Precedes(s, x, Head(s))
<1> DEFINE t == Tail(s)
<1>1. /\ Len(s) \in Nat /\ DOMAIN s = 1 .. Len(s) /\ Len(s) # 0 /\ t \in Seq(T)
      /\ Len(t) = Len(s) - 1 /\ Head(s) = s[1]
      /\ DOMAIN t = 1 .. Len(t)
  BY HeadTailProperties
<1>2. \A i \in DOMAIN t : t[i] = s[i + 1]
  BY HeadTailProperties
<1>3. \A i \in DOMAIN t : i + 1 \in DOMAIN s /\ 1 < i + 1 /\ i \in Nat
  BY <1>1
<1>4. 1 \in DOMAIN s /\ \A i \in DOMAIN s : ~(i < 1)
  BY <1>1
<1> HIDE DEF t
<1>5. Distinct(t)
  <2> SUFFICES ASSUME NEW i \in DOMAIN t, NEW j \in DOMAIN t, t[i] = t[j] PROVE i = j
    BY DEF Distinct
  <2>1. i + 1 = j + 1
    BY <1>2, <1>3 DEF Distinct
  <2> QED BY <1>3, <2>1
<1>6. ASSUME NEW x \in Elems(t) PROVE Precedes(s, Head(s), x) /\ x # Head(s)
  <2>1. PICK i \in DOMAIN t : t[i] = x
    BY DEF Elems
  <2>2. i + 1 \in DOMAIN s /\ 1 < i + 1 /\ s[i + 1] = x
    BY <1>2, <1>3, <2>1
  <2>3. Precedes(s, Head(s), x)
    BY <1>1, <1>4, <2>2 DEF Precedes
  <2>4. i + 1 # 1
    BY <1>3
  <2> QED BY <1>1, <1>4, <2>2, <2>3, <2>4 DEF Distinct
<1>7. ASSUME NEW x, NEW y, Precedes(t, x, y) PROVE Precedes(s, x, y)
  <2>1. PICK i \in DOMAIN t, j \in DOMAIN t : i < j /\ t[i] = x /\ t[j] = y
    BY <1>7 DEF Precedes
  <2>2. i + 1 < j + 1
    BY <1>3, <2>1
  <2>3. i + 1 \in DOMAIN s /\ j + 1 \in DOMAIN s /\ s[i + 1] = x /\ s[j + 1] = y
    BY <1>2, <1>3, <2>1
  <2> QED BY <2>2, <2>3 DEF Precedes
<1>8. ASSUME NEW x, Precedes(s, x, Head(s)) PROVE FALSE
  <2>1. PICK i \in DOMAIN s, j \in DOMAIN s : i < j /\ s[j] = s[1]
    BY <1>1, <1>8 DEF Precedes
  <2>2. j = 1
    BY <1>4, <2>1 DEF Distinct
  <2> QED BY <1>4, <2>1, <2>2
<1> QED BY <1>5, <1>6, <1>7, <1>8 DEF t

LEMMA EmptyIs ==
  ASSUME NEW T
  PROVE  <<>> \in Seq(T) /\ Elems(<<>>) = {} /\ Distinct(<<>>)
         /\ \A x, y : ~Precedes(<<>>, x, y)
BY DEF Elems, Distinct, Precedes

LEMMA SingleIs ==
  ASSUME NEW T, NEW h \in T
  PROVE  <<h>> \in Seq(T) /\ Elems(<<h>>) = {h} /\ Distinct(<<h>>)
         /\ \A x, y : ~Precedes(<<h>>, x, y)
<1> DEFINE a == <<h>>
<1>1. a \in Seq(T) /\ DOMAIN a = {1} /\ a[1] = h
  OBVIOUS
<1> HIDE DEF a
<1>2. Elems(a) = {h} /\ Distinct(a) /\ \A x, y : ~Precedes(a, x, y)
  BY <1>1 DEF Elems, Distinct, Precedes
<1> QED BY <1>1, <1>2 DEF a

(* The numbers that cmdq_append or cmdq_insert_after gives to new items.   *)
LEMMA NumbersIs ==
  ASSUME NEW R, NEW recs \in Seq(R), NEW from \in Nat, NEW top \in Nat,
         from + Len(recs) <= top
  PROVE  /\ Numbers(from, recs) \in Seq(1 .. top)
         /\ Elems(Numbers(from, recs)) = from + 1 .. from + Len(recs)
         /\ Distinct(Numbers(from, recs))
         /\ \A x, y : Precedes(Numbers(from, recs), x, y) => x < y
<1> DEFINE s == Numbers(from, recs)
           n == Len(recs)
<1>1. n \in Nat /\ DOMAIN recs = 1 .. n /\ from + n <= top
  OBVIOUS
<1>2. s = [k \in 1 .. n |-> from + k]
  BY <1>1 DEF Numbers
<1> HIDE DEF s, n
<1>3. DOMAIN s = 1 .. n /\ \A k \in 1 .. n : s[k] = from + k
  BY <1>2
<1>4. s \in Seq(1 .. top)
  <2>1. \A k \in 1 .. n : from + k \in 1 .. top
    BY <1>1
  <2> QED BY <1>1, <1>2, <2>1, IsASeq
<1>5. Elems(s) = from + 1 .. from + n
  <2>1. \A k \in 1 .. n : from + k \in from + 1 .. from + n
    BY <1>1
  <2>2. \A x \in from + 1 .. from + n : x - from \in 1 .. n /\ from + (x - from) = x
    BY <1>1
  <2>3. \A x \in from + 1 .. from + n : x - from \in DOMAIN s /\ s[x - from] = x
    BY <1>3, <2>2
  <2>4. \A x : x \in Elems(s) <=> x \in from + 1 .. from + n
    BY <1>3, <2>1, <2>3 DEF Elems
  <2> QED BY <2>4
<1>6. Distinct(s)
  <2> SUFFICES ASSUME NEW i \in 1 .. n, NEW j \in 1 .. n, s[i] = s[j] PROVE i = j
    BY <1>3 DEF Distinct
  <2> QED BY <1>1, <1>3
<1>7. ASSUME NEW x, NEW y, Precedes(s, x, y) PROVE x < y
  <2>1. PICK i \in 1 .. n, j \in 1 .. n : i < j /\ s[i] = x /\ s[j] = y
    BY <1>3, <1>7 DEF Precedes
  <2>2. x = from + i /\ y = from + j
    BY <1>3, <2>1
  <2> QED BY <1>1, <2>1, <2>2
<1> QED BY <1>4, <1>5, <1>6, <1>7 DEF s, n

(* Items inserted after the head of a list, of which some others go: pre   *)
(* is the head, if it stays.                                               *)
LEMMA SpliceIs ==
  ASSUME NEW T, NEW l \in Seq(T), l # <<>>, Distinct(l),
         NEW pre, pre \in {<<>>, <<Head(l)>>},
         NEW new \in Seq(T), Distinct(new), Elems(new) \cap Elems(l) = {},
         NEW rest \in Seq(T), Distinct(rest), Elems(rest) \subseteq Elems(Tail(l)),
         \A x, y : Precedes(rest, x, y) => Precedes(Tail(l), x, y)
  PROVE  /\ pre \o (new \o rest) \in Seq(T)
         /\ Distinct(pre \o (new \o rest))
         /\ Elems(pre \o (new \o rest)) = Elems(pre) \cup (Elems(new) \cup Elems(rest))
         /\ \A x, y \in Elems(l) : Precedes(pre \o (new \o rest), x, y) => Precedes(l, x, y)
         /\ \A x, y \in Elems(new) : Precedes(pre \o (new \o rest), x, y) => Precedes(new, x, y)
         /\ \A x \in Elems(new), y \in Elems(rest) : Precedes(pre \o (new \o rest), x, y)
<1> DEFINE h == Head(l)
           t == Tail(l)
           back == new \o rest
           mine == pre \o back
<1>1. h \in T /\ t \in Seq(T) /\ Elems(l) = {h} \cup Elems(t)
  BY HeadTailIs
<1>2. /\ h \notin Elems(t)
      /\ \A x \in Elems(t) : Precedes(l, h, x)
      /\ \A x, y : Precedes(t, x, y) => Precedes(l, x, y)
  BY HeadFirst
<1> HIDE DEF h, t
<1>3. /\ pre \in Seq(T) /\ Distinct(pre) /\ Elems(pre) \subseteq {h}
      /\ \A x, y : ~Precedes(pre, x, y)
  <2>1. CASE pre = <<>>
    BY <2>1, EmptyIs
  <2>2. CASE pre = <<h>>
    BY <1>1, <2>2, SingleIs
  <2> QED BY <2>1, <2>2 DEF h
<1>4. Elems(rest) \subseteq Elems(t) /\ \A x, y : Precedes(rest, x, y) => Precedes(t, x, y)
  BY DEF t
<1>5. /\ back \in Seq(T) /\ Elems(back) = Elems(new) \cup Elems(rest)
      /\ Distinct(back)
  <2>1. Elems(new) \cap Elems(rest) = {}
    BY <1>1, <1>4
  <2> QED BY <2>1, ConcatIs
<1>6. \A x, y : /\ x \in Elems(new) /\ y \in Elems(rest) => Precedes(back, x, y)
                /\ Precedes(back, x, y) =>
                     Precedes(new, x, y) \/ Precedes(rest, x, y)
                       \/ (x \in Elems(new) /\ y \in Elems(rest))
  BY ConcatOrder
<1> HIDE DEF back
<1>7. /\ mine \in Seq(T) /\ Elems(mine) = Elems(pre) \cup Elems(back)
      /\ Distinct(mine)
  <2>1. Elems(pre) \cap Elems(back) = {}
    BY <1>1, <1>2, <1>3, <1>4, <1>5
  <2> QED BY <1>3, <1>5, <2>1, ConcatIs
<1>8. \A x, y : /\ Precedes(back, x, y) => Precedes(mine, x, y)
                /\ Precedes(mine, x, y) =>
                     Precedes(pre, x, y) \/ Precedes(back, x, y)
                       \/ (x \in Elems(pre) /\ y \in Elems(back))
  BY <1>3, <1>5, ConcatOrder
<1> HIDE DEF mine
<1>9. ASSUME NEW x \in Elems(l), NEW y \in Elems(l), Precedes(mine, x, y)
      PROVE  Precedes(l, x, y)
  <2>1. x \notin Elems(new) /\ y \notin Elems(new)
    OBVIOUS
  <2>2. CASE Precedes(back, x, y)
    <3>1. ~Precedes(new, x, y)
      BY <2>1, PrecedesIn
    <3> QED BY <1>2, <1>4, <1>6, <2>1, <2>2, <3>1
  <2>3. CASE x \in Elems(pre) /\ y \in Elems(back)
    <3>1. x = h /\ y \in Elems(t)
      BY <1>3, <1>4, <1>5, <2>1, <2>3
    <3> QED BY <1>2, <3>1
  <2> QED BY <1>3, <1>8, <1>9, <2>2, <2>3
<1>10. ASSUME NEW x \in Elems(new), NEW y \in Elems(new), Precedes(mine, x, y)
       PROVE  Precedes(new, x, y)
  <2>1. x \notin Elems(l) /\ y \notin Elems(l)
    OBVIOUS
  <2>2. x \notin Elems(pre) /\ x \notin Elems(rest) /\ y \notin Elems(rest)
    BY <1>1, <1>3, <1>4, <2>1
  <2>3. ~Precedes(rest, x, y)
    BY <2>2, PrecedesIn
  <2> QED BY <1>3, <1>6, <1>8, <1>10, <2>2, <2>3
<1>11. ASSUME NEW x \in Elems(new), NEW y \in Elems(rest) PROVE Precedes(mine, x, y)
  BY <1>6, <1>8
<1>12. Elems(mine) = Elems(pre) \cup (Elems(new) \cup Elems(rest))
  BY <1>5, <1>7
<1> QED BY <1>7, <1>9, <1>10, <1>11, <1>12 DEF mine, back

LEMMA SpliceHead ==
  ASSUME NEW T, NEW h \in T, NEW s \in Seq(T)
  PROVE  <<h>> \o s # <<>> /\ Head(<<h>> \o s) = h
<1>1. <<h>> \in Seq(T) /\ Len(<<h>>) = 1
  OBVIOUS
<1>2. /\ <<h>> \o s \in Seq(T) /\ Len(<<h>> \o s) = 1 + Len(s)
      /\ 1 <= Len(<<h>> \o s) /\ (<<h>> \o s)[1] = h
  BY <1>1, ConcatProperties
<1> QED BY <1>2
-----------------------------------------------------------------------------
(* A step makes items, moves them into lists and takes some away.          *)

Made(x) == x \in DOMAIN items' /\ x \notin DOMAIN items

ItemsStep ==
  /\ items' \in Seq(ItemRecords) /\ Len(items') <= MaxItems
  /\ Len(items) <= Len(items')
  /\ \A x \in DOMAIN items : items'[x] = items[x]

(* The new items: their sequence is new, and they come from an item that   *)
(* is in a list.                                                           *)
MadeSound ==
  /\ \A x : Made(x) =>
       /\ items'[x].seq <= x /\ Len(items) < items'[x].seq
       /\ items'[x].parent # 0 => items'[x].parent \in Listed
       /\ items'[x].kind = "command" => items'[x].group # 0
  /\ \A x, y : Made(x) /\ Made(y) /\ items'[x].seq = items'[y].seq
       => items'[x].group = items'[y].group

MadeHooks ==
  \A x : Made(x) =>
    /\ items'[x].group \in {HookGroup(g) : g \in Hooks} => ~items'[x].hooks
    /\ items'[x].parent # 0
         /\ (items'[x].hooks \/ items'[x].group \in {HookGroup(g) : g \in Hooks})
         => items[items'[x].parent].hooks
    /\ items'[x].kind # "command" => items'[x].hooks

(* What stays in a list keeps its order, and what is new is in order, for  *)
(* the client of the list, and before the rest of what inserted it.        *)
ListStep ==
  /\ list' \in [Queues -> Seq(DOMAIN items')]
  /\ \A q \in Queues : Distinct(list'[q])
  /\ \A q \in Queues : \A x \in DOMAIN items :
       x \in Elems(list'[q]) => x \in Elems(list[q])
  /\ \A q \in Queues : \A x, y \in DOMAIN items :
       Precedes(list'[q], x, y) => Precedes(list[q], x, y)
  /\ \A q \in Queues : \A x, y :
       Made(x) /\ Made(y) /\ Precedes(list'[q], x, y) => x < y
  /\ \A q, r \in Queues : \A x \in Elems(list'[q]), y \in Elems(list'[r]) :
       Made(x) /\ Made(y) /\ items'[x].seq = items'[y].seq => q = r
  /\ \A c \in Clients : \A x \in Elems(list'[c]) : Made(x) => items'[x].client = c
  /\ \A q \in Queues : \A x \in Elems(list'[q]) : Made(x) =>
       \A a \in Elems(list'[q]) \cap DOMAIN items :
         a # items'[x].parent /\ items'[x].parent \in Elems(list[q])
           => Precedes(list'[q], x, a)
  /\ \A q \in Queues : \A x \in Elems(list'[q]) :
       Made(x) /\ items'[x].parent # 0 => items'[x].parent \in Elems(list[q])

LEMMA TypedItems ==
  ASSUME IInv
  PROVE  /\ DOMAIN items = 1 .. Len(items) /\ Len(items) \in Nat /\ MaxItems \in Nat
         /\ \A x \in DOMAIN items : items[x] \in ItemRecords /\ x \in Nat /\ SeqOf(x) \in Nat
                                     /\ ParentOf(x) \in Nat
<1>1. items \in Seq(ItemRecords) /\ MaxItems \in Nat
  BY QueueAssumption DEF IInv, Typed
<1>2. \A r \in ItemRecords : r.seq \in Nat /\ r.parent \in Nat
  BY <1>1 DEF ItemRecords
<1> QED BY <1>1, <1>2 DEF SeqOf, ParentOf

LEMMA ListedIs ==
  ASSUME IInv
  PROVE  /\ \A q \in Queues : list[q] \in Seq(DOMAIN items)
         /\ \A q \in Queues : Ids(q) = Elems(list[q])
         /\ \A x : x \in Listed <=> \E q \in Queues : x \in Elems(list[q])
         /\ Listed \subseteq DOMAIN items
<1>1. \A q \in Queues : list[q] \in Seq(DOMAIN items)
  BY DEF IInv, Typed
<1>2. \A q \in Queues : Ids(q) = Elems(list[q])
  BY DEF Ids, Elems
<1>3. \A x : x \in Listed <=> \E q \in Queues : x \in Elems(list[q])
  BY <1>2 DEF Listed
<1>4. \A q \in Queues : \A x \in Elems(list[q]) : x \in DOMAIN items
  <2> SUFFICES ASSUME NEW q \in Queues, NEW i \in DOMAIN list[q]
               PROVE  list[q][i] \in DOMAIN items
    BY DEF Elems
  <2> QED BY <1>1
<1> QED BY <1>1, <1>2, <1>3, <1>4

LEMMA MadeIs ==
  ASSUME IInv, ItemsStep
  PROVE  /\ \A x \in DOMAIN items : x \in DOMAIN items' /\ ~Made(x)
         /\ \A x \in DOMAIN items' : x \in DOMAIN items \/ Made(x)
         /\ \A x : Made(x) => Len(items) < x /\ x \in DOMAIN items' /\ x \in Nat
         /\ \A x \in DOMAIN items' : items'[x] \in ItemRecords
              /\ items'[x].seq \in Nat /\ items'[x].parent \in Nat
         /\ \A x \in DOMAIN items : SeqOf(x) <= Len(items) /\ x <= Len(items)
         /\ DOMAIN items' = 1 .. Len(items') /\ Len(items') \in Nat
<1>1. /\ DOMAIN items = 1 .. Len(items) /\ Len(items) \in Nat
      /\ DOMAIN items' = 1 .. Len(items') /\ Len(items') \in Nat
      /\ Len(items) <= Len(items')
  BY TypedItems DEF ItemsStep
<1>2. \A x \in DOMAIN items' : items'[x] \in ItemRecords
  BY DEF ItemsStep
<1>3. \A r \in ItemRecords : r.seq \in Nat /\ r.parent \in Nat
  BY QueueAssumption DEF ItemRecords
<1>4. \A x \in DOMAIN items : SeqOf(x) <= x /\ SeqOf(x) \in Nat
  BY TypedItems DEF IInv, ItemsMade
<1>5. \A x \in DOMAIN items : SeqOf(x) <= Len(items) /\ x <= Len(items)
  BY <1>1, <1>4
<1>6. \A x : Made(x) => Len(items) < x /\ x \in DOMAIN items' /\ x \in Nat
  BY <1>1 DEF Made
<1>7. \A x \in DOMAIN items : x \in DOMAIN items'
  BY <1>1
<1> QED BY <1>1, <1>2, <1>3, <1>5, <1>6, <1>7 DEF Made

LEMMA ItemsMadeKept ==
  ASSUME IInv, ItemsStep, MadeSound
  PROVE  ItemsMade'
<1>1. \A x \in DOMAIN items : items'[x] = items[x]
  BY DEF ItemsStep
<1>2. /\ \A x \in DOMAIN items :
           /\ items[x].seq <= x
           /\ items[x].parent # 0 => items[x].parent < items[x].seq
           /\ items[x].kind = "command" => items[x].group # 0
      /\ \A x, y \in DOMAIN items :
           items[x].seq = items[y].seq => items[x].group = items[y].group
  BY DEF IInv, ItemsMade, SeqOf, ParentOf
<1>3. ASSUME NEW x \in DOMAIN items'
      PROVE  /\ items'[x].seq <= x
             /\ items'[x].parent # 0 => items'[x].parent < items'[x].seq
             /\ items'[x].kind = "command" => items'[x].group # 0
  <2>1. CASE x \in DOMAIN items
    BY <1>1, <1>2, <2>1
  <2>2. CASE Made(x)
    <3>1. /\ items'[x].seq <= x /\ Len(items) < items'[x].seq
          /\ items'[x].parent # 0 => items'[x].parent \in Listed
          /\ items'[x].kind = "command" => items'[x].group # 0
      BY <2>2 DEF MadeSound
    <3>2. ASSUME items'[x].parent # 0 PROVE items'[x].parent < items'[x].seq
      <4>1. items'[x].parent \in DOMAIN items
        BY <3>1, <3>2, ListedIs
      <4>2. items'[x].parent <= Len(items) /\ Len(items) \in Nat
        BY <4>1, MadeIs, TypedItems
      <4>3. items'[x].parent \in Nat /\ items'[x].seq \in Nat
        BY MadeIs
      <4> QED BY <3>1, <4>2, <4>3
    <3> QED BY <3>1, <3>2
  <2> QED BY <2>1, <2>2, MadeIs
<1>4. ASSUME NEW x \in DOMAIN items', NEW y \in DOMAIN items', items'[x].seq = items'[y].seq
      PROVE  items'[x].group = items'[y].group
  <2>1. CASE x \in DOMAIN items /\ y \in DOMAIN items
    BY <1>1, <1>2, <1>4, <2>1
  <2>2. CASE Made(x) /\ Made(y)
    BY <1>4, <2>2 DEF MadeSound
  <2>3. ASSUME NEW u \in DOMAIN items, NEW v, Made(v) PROVE items'[u].seq # items'[v].seq
    <3>1. items'[u].seq <= Len(items) /\ Len(items) < items'[v].seq
      BY <1>1, <2>3, MadeIs DEF MadeSound, SeqOf
    <3>2. items'[u].seq \in Nat /\ items'[v].seq \in Nat /\ Len(items) \in Nat
      BY <2>3, MadeIs, TypedItems
    <3> QED BY <3>1, <3>2
  <2> QED BY <1>4, <2>1, <2>2, <2>3, MadeIs
<1> QED BY <1>3, <1>4 DEF ItemsMade, SeqOf, ParentOf

LEMMA HooksKept ==
  ASSUME IInv, ItemsStep, MadeSound, MadeHooks
  PROVE  HooksSound'
<1>1. \A x \in DOMAIN items : items'[x] = items[x]
  BY DEF ItemsStep
<1>2. \A x \in DOMAIN items :
        /\ items[x].group \in {HookGroup(g) : g \in Hooks} => ~items[x].hooks
        /\ items[x].parent # 0
             /\ (items[x].hooks \/ items[x].group \in {HookGroup(g) : g \in Hooks})
             => items[items[x].parent].hooks
        /\ items[x].kind # "command" => items[x].hooks
  BY DEF IInv, HooksSound, OfHook, ParentOf
<1>3. \A x \in DOMAIN items : items[x].parent # 0 => items[x].parent \in DOMAIN items
  <2> SUFFICES ASSUME NEW x \in DOMAIN items, items[x].parent # 0
               PROVE  items[x].parent \in DOMAIN items
    OBVIOUS
  <2>1. ParentOf(x) < SeqOf(x) /\ SeqOf(x) <= x /\ x \in DOMAIN items
    BY DEF IInv, ItemsMade, ParentOf
  <2> QED BY <2>1, TypedItems DEF ParentOf
<1> SUFFICES ASSUME NEW x \in DOMAIN items'
             PROVE  /\ items'[x].group \in {HookGroup(g) : g \in Hooks} => ~items'[x].hooks
                    /\ items'[x].parent # 0
                         /\ (items'[x].hooks
                              \/ items'[x].group \in {HookGroup(g) : g \in Hooks})
                         => items'[items'[x].parent].hooks
                    /\ items'[x].kind # "command" => items'[x].hooks
  BY DEF HooksSound, OfHook, ParentOf, HookGroup
<1>4. CASE x \in DOMAIN items
  BY <1>1, <1>2, <1>3, <1>4
<1>5. CASE Made(x)
  <2>1. items'[x].parent # 0 => items'[x].parent \in DOMAIN items
    BY <1>5, ListedIs DEF MadeSound
  <2> QED BY <1>1, <1>5, <2>1 DEF MadeHooks
<1> QED BY <1>4, <1>5, MadeIs

LEMMA ListsKept ==
  ASSUME IInv, ItemsStep, MadeSound, ListStep
  PROVE  ListsSound'
<1>1. \A q \in Queues : Distinct(list'[q])
  BY DEF ListStep
<1>2. \A q \in Queues : \A x \in Elems(list'[q]) : x \in DOMAIN items'
  <2> SUFFICES ASSUME NEW q \in Queues, NEW i \in DOMAIN list'[q]
               PROVE  list'[q][i] \in DOMAIN items'
    BY DEF Elems
  <2> QED BY DEF ListStep
<1>3. ASSUME NEW q \in Queues, NEW r \in Queues, NEW x, x \in Elems(list'[q]), x \in Elems(list'[r])
      PROVE  q = r
  <2>1. CASE x \in DOMAIN items
    <3>1. x \in Elems(list[q]) /\ x \in Elems(list[r])
      BY <1>3, <2>1 DEF ListStep
    <3> QED BY <3>1 DEF IInv, ListsSound
  <2>2. CASE Made(x)
    BY <1>3, <2>2 DEF ListStep
  <2> QED BY <1>2, <1>3, <2>1, <2>2, MadeIs
<1>4. ASSUME NEW c \in Clients, NEW x \in Elems(list'[c]) PROVE items'[x].client = c
  <2>1. CASE x \in DOMAIN items
    <3>1. x \in Elems(list[c])
      BY <2>1 DEF ListStep, Queues
    <3> QED BY <2>1, <3>1 DEF IInv, ListsSound, ItemsStep
  <2>2. CASE Made(x)
    BY <2>2 DEF ListStep
  <2> QED BY <1>2, <2>1, <2>2, MadeIs DEF Queues
<1> QED BY <1>1, <1>3, <1>4 DEF ListsSound, Elems, Distinct, Queues

(* What a step runs: nothing, or the head of a list that was not fired.    *)
Runs(h) == IsHead(h) /\ h \notin fired

RanStep(H) ==
  /\ \A h \in H : Runs(h)
  /\ Elems(ran') = Elems(ran) \cup H
  /\ \A x \in fired \cup H : (\E q \in Queues : x \in Elems(list'[q])) => x \in fired'
  /\ failed' \subseteq failed \cup H
  /\ \A h \in H \cap failed' : \A q \in Queues : \A x \in Elems(list'[q]) \cap DOMAIN items :
       SeqOf(x) # SeqOf(h)

LEMMA HeadIs ==
  ASSUME IInv, NEW q \in Queues, list[q] # <<>>
  PROVE  /\ Head(list[q]) \in Elems(list[q]) /\ Head(list[q]) \in Listed
         /\ Head(list[q]) \in DOMAIN items
         /\ \A x \in Elems(list[q]) : x # Head(list[q]) => Precedes(list[q], Head(list[q]), x)
         /\ \A x : ~Precedes(list[q], x, Head(list[q]))
<1>1. list[q] \in Seq(DOMAIN items) /\ Distinct(list[q])
  BY ListedIs DEF IInv, ListsSound
<1>2. Elems(list[q]) = {Head(list[q])} \cup Elems(Tail(list[q]))
  BY <1>1, HeadTailIs
<1> QED BY <1>1, <1>2, HeadFirst, ListedIs

(* What has run of a sequence is not later than what is listed of it, also *)
(* when the head has just run.                                             *)
LEMMA RunsInOrder ==
  ASSUME IInv, NEW H, RanStep(H), NEW a \in Elems(ran'), NEW b \in Listed,
         SeqOf(a) = SeqOf(b)
  PROVE  a <= b
<1>1. CASE a \in Elems(ran)
  BY <1>1 DEF IInv, OrderLeft
<1>2. CASE a \in H
  <2>1. PICK q \in Queues : list[q] # <<>> /\ a = Head(list[q])
    BY <1>2 DEF RanStep, Runs, IsHead
  <2>2. a \in Elems(list[q]) /\ a \in DOMAIN items
    BY <2>1, HeadIs
  <2>3. PICK r \in Queues : b \in Elems(list[r])
    BY ListedIs
  <2>4. r = q
    BY <2>2, <2>3 DEF IInv, OrderLeft
  <2>5. a # b => Precedes(list[q], a, b)
    BY <2>1, <2>3, <2>4, HeadIs
  <2>6. a # b => a < b
    BY <2>2, <2>3, <2>4, <2>5 DEF IInv, OrderLeft
  <2>7. a \in Nat /\ b \in Nat
    BY <2>2, ListedIs, TypedItems
  <2> QED BY <2>6, <2>7
<1> QED BY <1>1, <1>2 DEF RanStep

LEMMA ListedStep ==
  ASSUME IInv, ItemsStep, MadeSound, ListStep, NEW q \in Queues, NEW x \in Elems(list'[q])
  PROVE  /\ x \in DOMAIN items'
         /\ x \in DOMAIN items => x \in Elems(list[q]) /\ x \in Listed
                                  /\ items'[x].seq = SeqOf(x)
                                  /\ items'[x].parent = ParentOf(x)
                                  /\ SeqOf(x) <= Len(items) /\ ~Made(x)
         /\ x \notin DOMAIN items => Made(x) /\ Len(items) < items'[x].seq
<1>1. x \in DOMAIN items'
  <2> SUFFICES ASSUME NEW i \in DOMAIN list'[q]
               PROVE  list'[q][i] \in DOMAIN items'
    BY DEF Elems
  <2> QED BY DEF ListStep
<1>2. ASSUME x \in DOMAIN items
      PROVE  /\ x \in Elems(list[q]) /\ x \in Listed
             /\ items'[x].seq = SeqOf(x) /\ items'[x].parent = ParentOf(x)
             /\ SeqOf(x) <= Len(items) /\ ~Made(x)
  <2>1. x \in Elems(list[q])
    BY <1>2 DEF ListStep
  <2> QED BY <1>2, <2>1, ListedIs, MadeIs DEF ItemsStep, SeqOf, ParentOf
<1>3. x \notin DOMAIN items => Made(x)
  BY <1>1 DEF Made
<1> QED BY <1>1, <1>2, <1>3 DEF MadeSound

(* Old and new items are of different sequences.                           *)
LEMMA SeqApart ==
  ASSUME IInv, ItemsStep, MadeSound, NEW x \in DOMAIN items, NEW y, Made(y)
  PROVE  items'[x].seq # items'[y].seq /\ SeqOf(x) # items'[y].seq
<1>1. items'[x].seq = SeqOf(x) /\ SeqOf(x) <= Len(items) /\ Len(items) < items'[y].seq
  BY MadeIs DEF ItemsStep, SeqOf, MadeSound
<1>2. SeqOf(x) \in Nat /\ Len(items) \in Nat /\ items'[y].seq \in Nat
  BY MadeIs, TypedItems
<1> QED BY <1>1, <1>2

LEMMA OrderKept ==
  ASSUME IInv, ItemsStep, MadeSound, ListStep, NEW H, RanStep(H)
  PROVE  OrderLeft'
<1> DEFINE S(x) == items'[x].seq
<1>1. ASSUME NEW q \in Queues, NEW r \in Queues,
             NEW x \in Elems(list'[q]), NEW y \in Elems(list'[r]), S(x) = S(y)
      PROVE  q = r
  <2>1. CASE x \in DOMAIN items /\ y \in DOMAIN items
    <3>1. SeqOf(x) = SeqOf(y) /\ x \in Elems(list[q]) /\ y \in Elems(list[r])
      BY <1>1, <2>1, ListedStep
    <3> QED BY <3>1 DEF IInv, OrderLeft
  <2>2. CASE x \notin DOMAIN items /\ y \notin DOMAIN items
    <3>1. Made(x) /\ Made(y)
      BY <2>2, ListedStep
    <3> QED BY <1>1, <3>1 DEF ListStep
  <2>3. CASE x \in DOMAIN items /\ y \notin DOMAIN items
    BY <1>1, <2>3, ListedStep, SeqApart
  <2>4. CASE x \notin DOMAIN items /\ y \in DOMAIN items
    BY <1>1, <2>4, ListedStep, SeqApart
  <2> QED BY <2>1, <2>2, <2>3, <2>4
<1>2. ASSUME NEW q \in Queues, NEW x \in Elems(list'[q]), NEW y \in Elems(list'[q]),
             S(x) = S(y), Precedes(list'[q], x, y)
      PROVE  x < y
  <2>1. CASE x \in DOMAIN items /\ y \in DOMAIN items
    <3>1. SeqOf(x) = SeqOf(y) /\ x \in Elems(list[q]) /\ y \in Elems(list[q])
      BY <1>2, <2>1, ListedStep
    <3>2. Precedes(list[q], x, y)
      BY <1>2, <2>1 DEF ListStep
    <3> QED BY <3>1, <3>2 DEF IInv, OrderLeft
  <2>2. CASE x \notin DOMAIN items /\ y \notin DOMAIN items
    <3>1. Made(x) /\ Made(y)
      BY <2>2, ListedStep
    <3> QED BY <1>2, <3>1 DEF ListStep
  <2>3. CASE x \in DOMAIN items /\ y \notin DOMAIN items
    BY <1>2, <2>3, ListedStep, SeqApart
  <2>4. CASE x \notin DOMAIN items /\ y \in DOMAIN items
    BY <1>2, <2>4, ListedStep, SeqApart
  <2> QED BY <2>1, <2>2, <2>3, <2>4
<1>3. \A a \in Elems(ran') : a \in DOMAIN items
  <2>1. \A a \in Elems(ran) : a \in DOMAIN items
    <3> SUFFICES ASSUME NEW i \in DOMAIN ran PROVE ran[i] \in DOMAIN items
      BY DEF Elems
    <3> QED BY DEF IInv, Typed
  <2>2. \A a \in H : a \in DOMAIN items
    BY HeadIs DEF RanStep, Runs, IsHead
  <2> QED BY <2>1, <2>2 DEF RanStep
<1>4. ASSUME NEW a \in Elems(ran'), NEW q \in Queues, NEW b \in Elems(list'[q]), S(a) = S(b)
      PROVE  a <= b
  <2>1. a \in DOMAIN items
    BY <1>3
  <2>2. CASE b \in DOMAIN items
    <3>1. b \in Listed /\ SeqOf(a) = SeqOf(b)
      BY <1>4, <2>1, <2>2, ListedStep DEF ItemsStep, SeqOf
    <3> QED BY <3>1, RunsInOrder
  <2>3. CASE b \notin DOMAIN items
    BY <1>4, <2>1, <2>3, ListedStep, SeqApart
  <2> QED BY <2>2, <2>3
<1>5. ASSUME NEW a \in failed', NEW q \in Queues, NEW b \in Elems(list'[q])
      PROVE  S(a) # S(b)
  <2>1. a \in DOMAIN items
    BY <1>3 DEF RanStep, IInv, Typed
  <2>2. CASE b \in DOMAIN items
    <3>1. b \in Listed /\ S(a) = SeqOf(a) /\ S(b) = SeqOf(b)
      BY <2>1, <2>2, ListedStep DEF ItemsStep, SeqOf
    <3>2. CASE a \in failed
      BY <3>1, <3>2 DEF IInv, OrderLeft
    <3>3. CASE a \in H
      BY <2>2, <3>1, <3>3 DEF RanStep
    <3> QED BY <3>2, <3>3 DEF RanStep
  <2>3. CASE b \notin DOMAIN items
    BY <2>1, <2>3, ListedStep, SeqApart
  <2> QED BY <2>2, <2>3
<1> HIDE DEF S
<1>6. \A x : x \in Listed' <=> \E q \in Queues : x \in Elems(list'[q])
  BY DEF Listed, Ids, Elems, Queues
<1>7. /\ \A q, r \in Queues : \A x \in Elems(list'[q]), y \in Elems(list'[r]) :
           S(x) = S(y) => q = r
      /\ \A q \in Queues : \A x, y \in Elems(list'[q]) :
           S(x) = S(y) /\ Precedes(list'[q], x, y) => x < y
      /\ \A a \in Elems(ran'), b \in Listed' : S(a) = S(b) => a <= b
      /\ \A a \in failed', b \in Listed' : S(a) # S(b)
  BY <1>1, <1>2, <1>4, <1>5, <1>6
<1> QED BY <1>7 DEF OrderLeft, S, SeqOf, Elems, Precedes, Queues

LEMMA InsertedKept ==
  ASSUME IInv, ItemsStep, MadeSound, ListStep, NEW H, RanStep(H)
  PROVE  InsertedFirst'
<1> DEFINE S(x) == items'[x].seq
           P(x) == items'[x].parent
<1>1. \A a \in Elems(ran') : a \in DOMAIN items
  <2>1. \A a \in Elems(ran) : a \in DOMAIN items
    <3> SUFFICES ASSUME NEW i \in DOMAIN ran PROVE ran[i] \in DOMAIN items
      BY DEF Elems
    <3> QED BY DEF IInv, Typed
  <2>2. \A a \in H : a \in DOMAIN items
    BY HeadIs DEF RanStep, Runs, IsHead
  <2> QED BY <2>1, <2>2 DEF RanStep
<1>2. \A a \in DOMAIN items : S(a) = SeqOf(a)
  BY DEF ItemsStep, SeqOf
<1>3. \A x \in DOMAIN items : ParentOf(x) # 0 => ParentOf(x) \in DOMAIN items
  <2> SUFFICES ASSUME NEW x \in DOMAIN items, ParentOf(x) # 0
               PROVE  ParentOf(x) \in DOMAIN items
    OBVIOUS
  <2>1. ParentOf(x) < SeqOf(x) /\ SeqOf(x) <= x
    BY DEF IInv, ItemsMade
  <2> QED BY <2>1, TypedItems
<1>4. ASSUME NEW q \in Queues, NEW b \in Elems(list'[q]), b \in DOMAIN items, P(b) # 0
      PROVE  /\ \A a \in Elems(ran') : S(a) = S(P(b)) => a <= P(b)
             /\ \A r \in Queues : \A a \in Elems(list'[r]) :
                  S(a) = S(P(b)) /\ a > P(b) => Precedes(list'[q], b, a)
  <2>1. b \in Elems(list[q]) /\ b \in Listed /\ P(b) = ParentOf(b)
    BY <1>4, ListedStep
  <2>2. P(b) \in DOMAIN items /\ S(P(b)) = SeqOf(ParentOf(b))
    BY <1>2, <1>3, <1>4, <2>1
  <2>3. \A a \in Elems(ran) : SeqOf(a) = SeqOf(P(b)) => a <= P(b)
    BY <1>4, <2>1 DEF IInv, InsertedFirst
  <2>4. \A a \in Listed : SeqOf(a) = SeqOf(P(b)) /\ a > P(b)
          => \E r \in Queues : Precedes(list[r], b, a)
    BY <1>4, <2>1 DEF IInv, InsertedFirst
  <2>5. ASSUME NEW a \in Listed, SeqOf(a) = SeqOf(P(b)), a > P(b)
        PROVE  Precedes(list[q], b, a) /\ a \in Elems(list[q])
    <3>1. PICK r \in Queues : Precedes(list[r], b, a)
      BY <2>4, <2>5
    <3>2. b \in Elems(list[r]) /\ a \in Elems(list[r])
      BY <3>1, PrecedesIn
    <3>3. r = q
      BY <2>1, <3>2 DEF IInv, ListsSound
    <3> QED BY <3>1, <3>2, <3>3
  <2>6. ASSUME NEW a \in Elems(ran'), S(a) = S(P(b)) PROVE a <= P(b)
    <3>1. SeqOf(a) = SeqOf(P(b))
      BY <1>1, <1>2, <2>1, <2>2, <2>6
    <3>2. CASE a \in Elems(ran)
      BY <2>3, <3>1, <3>2
    <3>3. CASE a \in H
      <4>1. PICK r \in Queues : list[r] # <<>> /\ a = Head(list[r])
        BY <3>3 DEF RanStep, Runs, IsHead
      <4>2. a \in Elems(list[r]) /\ a \in Listed /\ ~Precedes(list[r], b, a)
        BY <4>1, HeadIs
      <4>3. ASSUME a > P(b) PROVE FALSE
        <5>1. Precedes(list[q], b, a) /\ a \in Elems(list[q])
          BY <2>5, <3>1, <4>2, <4>3
        <5>2. r = q
          BY <4>2, <5>1 DEF IInv, ListsSound
        <5> QED BY <4>2, <5>1, <5>2
      <4>4. a \in Nat /\ P(b) \in Nat
        BY <1>1, <2>2, TypedItems
      <4> QED BY <4>3, <4>4
    <3> QED BY <3>2, <3>3 DEF RanStep
  <2>7. ASSUME NEW r \in Queues, NEW a \in Elems(list'[r]), S(a) = S(P(b)), a > P(b)
        PROVE  Precedes(list'[q], b, a)
    <3>1. a \in DOMAIN items
      BY <2>2, <2>7, ListedStep, SeqApart
    <3>2. a \in Elems(list[r]) /\ a \in Listed /\ SeqOf(a) = SeqOf(P(b))
      BY <1>2, <2>1, <2>2, <2>7, <3>1, ListedStep
    <3>3. Precedes(list[q], b, a) /\ a \in Elems(list[q])
      BY <2>5, <2>7, <3>2
    <3>4. r = q
      BY <3>2, <3>3 DEF IInv, ListsSound
    <3>5. ~Precedes(list[q], a, b) /\ a # b
      BY <3>3, ListedIs, PrecedesOneWay DEF IInv, ListsSound
    <3>6. ~Precedes(list'[q], a, b)
      BY <1>4, <3>1, <3>5 DEF ListStep
    <3>7. list'[q] \in Seq(DOMAIN items')
      BY DEF ListStep
    <3> QED BY <2>7, <3>4, <3>5, <3>6, <3>7, <1>4, PrecedesTotal
  <2> QED BY <2>6, <2>7
<1>5. ASSUME NEW q \in Queues, NEW b \in Elems(list'[q]), b \notin DOMAIN items, P(b) # 0
      PROVE  /\ \A a \in Elems(ran') : S(a) = S(P(b)) => a <= P(b)
             /\ \A r \in Queues : \A a \in Elems(list'[r]) :
                  S(a) = S(P(b)) /\ a > P(b) => Precedes(list'[q], b, a)
  <2>1. Made(b)
    BY <1>5, ListedStep
  <2>2. P(b) \in Listed /\ P(b) \in Elems(list[q]) /\ P(b) \in DOMAIN items
    BY <1>5, <2>1, ListedIs DEF ListStep
  <2>3. S(P(b)) = SeqOf(P(b))
    BY <1>2, <2>2
  <2>4. \A a \in Elems(ran') : S(a) = S(P(b)) => a <= P(b)
    <3> SUFFICES ASSUME NEW a \in Elems(ran'), S(a) = S(P(b)) PROVE a <= P(b)
      OBVIOUS
    <3>1. SeqOf(a) = SeqOf(P(b))
      BY <1>1, <1>2, <2>3
    <3> HIDE DEF S, P
    <3> QED BY <2>2, <3>1, RunsInOrder
  <2>5. ASSUME NEW r \in Queues, NEW a \in Elems(list'[r]), S(a) = S(P(b)), a > P(b)
        PROVE  Precedes(list'[q], b, a)
    <3>1. a \in DOMAIN items
      BY <2>2, <2>5, ListedStep, SeqApart
    <3>2. a \in Elems(list[r]) /\ SeqOf(a) = SeqOf(P(b))
      BY <1>2, <2>3, <2>5, <3>1, ListedStep
    <3>3. r = q
      BY <2>2, <3>2 DEF IInv, OrderLeft
    <3>4. a # P(b)
      BY <2>2, <2>5, TypedItems
    <3> QED BY <2>1, <2>2, <2>5, <3>1, <3>3, <3>4 DEF ListStep
  <2> QED BY <2>4, <2>5
<1> HIDE DEF S, P
<1>6. \A x : x \in Listed' <=> \E q \in Queues : x \in Elems(list'[q])
  BY DEF Listed, Ids, Elems, Queues
<1>7. ASSUME NEW b \in Listed', P(b) # 0
      PROVE  /\ \A a \in Elems(ran') : S(a) = S(P(b)) => a <= P(b)
             /\ \A a \in Listed' : S(a) = S(P(b)) /\ a > P(b)
                  => \E q \in Queues : Precedes(list'[q], b, a)
  <2>1. PICK q \in Queues : b \in Elems(list'[q])
    BY <1>6
  <2> QED BY <1>4, <1>5, <1>6, <1>7, <2>1
<1> QED BY <1>7 DEF InsertedFirst, S, P, SeqOf, ParentOf, Elems, Precedes, Queues

(* The last command to run is in order with those before it.               *)
LEMMA RanKept ==
  ASSUME IInv, ItemsStep, MadeSound, ListStep,
         \/ UNCHANGED <<ran, failed>> /\ RanStep({})
         \/ \E h : /\ RanStep({h}) /\ ran' = Append(ran, h)
  PROVE  /\ OrderLeft' /\ InsertedFirst' /\ InOrder' /\ ErrorStops'
         /\ \A i, j \in DOMAIN ran' : ran'[i] = ran'[j] => i = j
         /\ \A x \in Elems(ran') : \A q \in Queues : x \in Elems(list'[q]) => x \in fired'
<1>1. PICK H : RanStep(H)
  OBVIOUS
<1>2. OrderLeft' /\ InsertedFirst'
  BY <1>1, OrderKept, InsertedKept
<1>3. /\ ran \in Seq(DOMAIN items) /\ failed \subseteq Elems(ran)
      /\ \A i \in DOMAIN ran : ran[i] \in DOMAIN items /\ ran[i] \in Elems(ran)
      /\ Len(ran) \in Nat /\ DOMAIN ran = 1 .. Len(ran)
  BY DEF IInv, Typed, Elems
<1>4. \A x \in DOMAIN items : items'[x] = items[x]
  BY DEF ItemsStep
<1>5. \A x \in DOMAIN items : items[x].parent # 0 => items[x].parent \in DOMAIN items
  <2> SUFFICES ASSUME NEW x \in DOMAIN items, items[x].parent # 0
               PROVE  items[x].parent \in DOMAIN items
    OBVIOUS
  <2>1. ParentOf(x) < SeqOf(x) /\ SeqOf(x) <= x /\ x \in DOMAIN items
    BY DEF IInv, ItemsMade, ParentOf
  <2> QED BY <2>1, TypedItems DEF ParentOf
<1>6. ASSUME NEW x \in Elems(ran'), NEW q \in Queues, x \in Elems(list'[q]) PROVE x \in fired'
  <2>1. CASE x \in H
    BY <1>1, <1>6, <2>1 DEF RanStep
  <2>2. CASE x \in Elems(ran)
    <3>1. x \in DOMAIN items
      BY <1>3, <2>2 DEF Elems
    <3>2. x \in Listed
      BY <1>6, <3>1, ListedStep
    <3>3. x \in fired
      BY <2>2, <3>2 DEF IInv, RanSound
    <3> QED BY <1>1, <1>6, <3>3 DEF RanStep
  <2> QED BY <1>1, <2>1, <2>2 DEF RanStep
<1>7. CASE UNCHANGED <<ran, failed>>
  <2>1. ran' = ran /\ failed' = failed
    BY <1>7
  <2>2. ASSUME NEW i \in DOMAIN ran, NEW j \in DOMAIN ran, i < j
        PROVE  /\ items'[ran[i]].seq = items'[ran[j]].seq => ran[i] < ran[j]
               /\ items'[ran[j]].parent # 0 /\ items'[ran[j]].parent # ran[i]
                    => ~(items'[ran[i]].seq = items'[items'[ran[j]].parent].seq
                           /\ ran[i] > items'[ran[j]].parent)
               /\ ran[i] \in failed => items'[ran[i]].seq # items'[ran[j]].seq
    <3> DEFINE a == ran[i]
               b == ran[j]
    <3>1. a \in DOMAIN items /\ b \in DOMAIN items
      BY <1>3
    <3>2. /\ items[a].seq = items[b].seq => a < b
          /\ items[b].parent # 0 /\ items[b].parent # a
               => ~(items[a].seq = items[items[b].parent].seq /\ a > items[b].parent)
          /\ a \in failed => items[a].seq # items[b].seq
      BY <2>2 DEF IInv, InOrder, ErrorStops
    <3> HIDE DEF a, b
    <3>3. items'[a] = items[a] /\ items'[b] = items[b]
      BY <1>4, <3>1
    <3>4. items[b].parent # 0 => items'[items[b].parent] = items[items[b].parent]
      BY <1>4, <1>5, <3>1
    <3>5. /\ items'[a].seq = items'[b].seq => a < b
          /\ items'[b].parent # 0 /\ items'[b].parent # a
               => ~(items'[a].seq = items'[items'[b].parent].seq /\ a > items'[b].parent)
          /\ a \in failed => items'[a].seq # items'[b].seq
      BY <3>2, <3>3, <3>4
    <3> QED BY <3>5 DEF a, b
  <2>3. InOrder' /\ ErrorStops'
    BY <2>1, <2>2 DEF InOrder, ErrorStops
  <2>4. \A i, j \in DOMAIN ran' : ran'[i] = ran'[j] => i = j
    BY <2>1 DEF IInv, RanSound
  <2> QED BY <1>2, <1>6, <2>3, <2>4
<1>8. ASSUME NEW h, RanStep({h}), ran' = Append(ran, h)
      PROVE  /\ InOrder' /\ ErrorStops'
             /\ \A i, j \in DOMAIN ran' : ran'[i] = ran'[j] => i = j
  <2> DEFINE n == Len(ran)
  <2>1. PICK q \in Queues : list[q] # <<>> /\ h = Head(list[q])
    BY <1>8 DEF RanStep, Runs, IsHead
  <2>2. h \notin fired /\ h \in Listed /\ h \in DOMAIN items
    BY <1>8, <2>1, HeadIs DEF RanStep, Runs
  <2>3. h \notin Elems(ran)
    BY <2>2 DEF IInv, RanSound
  <2>4. /\ DOMAIN ran' = 1 .. (n + 1) /\ n \in Nat
        /\ ran'[n + 1] = h
        /\ \A i \in 1 .. n : ran'[i] = ran[i]
    <3> DEFINE D == DOMAIN items
    <3>1. ran \in Seq(D) /\ h \in D
      BY <1>3, <2>2
    <3> HIDE DEF D
    <3>2. ran' = Append(ran, h)
      BY <1>8
    <3>3. /\ ran' \in Seq(D) /\ Len(ran') = n + 1
          /\ \A i \in 1 .. n : ran'[i] = ran[i]
          /\ ran'[n + 1] = h
      BY <3>1, <3>2, AppendProperties
    <3> QED BY <1>3, <3>3
  <2>5. \A i \in 1 .. (n + 1) : i \in 1 .. n \/ i = n + 1
    BY <2>4
  <2>6. \A i, j \in 1 .. (n + 1) : i < j => i \in 1 .. n
    BY <2>4
  <2>7. \A i \in 1 .. n : ran[i] # h /\ ran[i] \in Elems(ran) /\ ran[i] \in DOMAIN items
    BY <1>3, <2>3
  <2> HIDE DEF n
  <2>8. \A i, j \in DOMAIN ran' : ran'[i] = ran'[j] => i = j
    <3> SUFFICES ASSUME NEW i \in 1 .. (n + 1), NEW j \in 1 .. (n + 1), ran'[i] = ran'[j]
                 PROVE  i = j
      BY <2>4
    <3>1. CASE i \in 1 .. n /\ j \in 1 .. n
      BY <1>3, <2>4, <3>1 DEF IInv, RanSound, n
    <3>2. CASE i = n + 1 /\ j \in 1 .. n
      BY <2>4, <2>7, <3>2
    <3>3. CASE j = n + 1 /\ i \in 1 .. n
      BY <2>4, <2>7, <3>3
    <3> QED BY <2>5, <3>1, <3>2, <3>3
  <2>9. ASSUME NEW i \in DOMAIN ran', NEW j \in DOMAIN ran', i < j
        PROVE  /\ items'[ran'[i]].seq = items'[ran'[j]].seq => ran'[i] < ran'[j]
               /\ items'[ran'[j]].parent # 0 /\ items'[ran'[j]].parent # ran'[i]
                    => ~(items'[ran'[i]].seq = items'[items'[ran'[j]].parent].seq
                           /\ ran'[i] > items'[ran'[j]].parent)
               /\ ran'[i] \in failed' => items'[ran'[i]].seq # items'[ran'[j]].seq
    <3> DEFINE a == ran'[i]
    <3>1. i \in 1 .. n /\ a = ran[i] /\ a \in DOMAIN items /\ a \in Elems(ran) /\ a # h
      BY <2>4, <2>6, <2>7, <2>9
    <3>2. a \in failed' => a \in failed
      BY <1>8, <3>1 DEF RanStep
    <3>3. CASE j \in 1 .. n
      <4>1. ran'[j] = ran[j] /\ ran[j] \in DOMAIN items
        BY <2>4, <2>7, <3>3
      <4>2. /\ items[ran[i]].seq = items[ran[j]].seq => ran[i] < ran[j]
            /\ items[ran[j]].parent # 0 /\ items[ran[j]].parent # ran[i]
                 => ~(items[ran[i]].seq = items[items[ran[j]].parent].seq
                        /\ ran[i] > items[ran[j]].parent)
            /\ ran[i] \in failed => items[ran[i]].seq # items[ran[j]].seq
        BY <1>3, <2>9, <3>1, <3>3 DEF IInv, InOrder, ErrorStops, n
      <4> HIDE DEF a
      <4> QED BY <1>4, <1>5, <3>1, <3>2, <4>1, <4>2 DEF a
    <3>4. CASE j = n + 1
      <4>1. ran'[j] = h /\ items'[h] = items[h] /\ items'[a] = items[a]
        BY <1>4, <2>2, <2>4, <3>1, <3>4
      <4>2. SeqOf(a) = SeqOf(h) => a <= h
        BY <2>2, <3>1 DEF IInv, OrderLeft
      <4>3. SeqOf(a) = SeqOf(h) => a < h
        BY <2>2, <3>1, <4>2, TypedItems
      <4>4. ParentOf(h) # 0 /\ SeqOf(a) = SeqOf(ParentOf(h)) => a <= ParentOf(h)
        BY <2>2, <3>1 DEF IInv, InsertedFirst
      <4>5. ParentOf(h) # 0 => ~(SeqOf(a) = SeqOf(ParentOf(h)) /\ a > ParentOf(h))
        <5>1. a \in Nat /\ ParentOf(h) \in Nat
          BY <2>2, <3>1, TypedItems
        <5> HIDE DEF a
        <5> QED BY <4>4, <5>1
      <4>6. a \in failed => SeqOf(a) # SeqOf(h)
        BY <2>2 DEF IInv, OrderLeft
      <4>7. ParentOf(h) # 0 => items'[ParentOf(h)] = items[ParentOf(h)]
        BY <1>4, <1>5, <2>2 DEF ParentOf
      <4> QED BY <3>2, <4>1, <4>3, <4>5, <4>6, <4>7 DEF SeqOf, ParentOf
    <3> QED BY <2>4, <2>5, <3>3, <3>4
  <2> QED BY <2>8, <2>9 DEF InOrder, ErrorStops
<1> QED BY <1>2, <1>6, <1>7, <1>8
-----------------------------------------------------------------------------
(* The one shape of every change of the lists: ins goes into list q after  *)
(* the head, which stays if pre has it, rest is what stays of the others,  *)
(* and app goes to the end of list g.  With q = NoClient no list is cut.   *)

NewIns(ins) == Len(items) + 1 .. Len(items) + Len(ins)
NewApp(ins, app) == Len(items) + Len(ins) + 1 .. Len(items) + Len(ins) + Len(app)

Front(r, q, pre, ins, rest) ==
  IF r = q THEN pre \o (Numbers(Len(items), ins) \o rest) ELSE list[r]
Back(r, g, ins, app) ==
  IF r = g THEN Numbers(Len(items) + Len(ins), app) ELSE <<>>

Spliced(q, pre, ins, rest, g, app) ==
  /\ q \in Queues \cup {NoClient} /\ g \in Queues
  /\ Len(items) + Len(ins) + Len(app) <= MaxItems
  /\ items' = (items \o ins) \o app
  /\ list' = [r \in Queues |-> Front(r, q, pre, ins, rest) \o Back(r, g, ins, app)]

(* What stays of list q.                                                   *)
CutSound(q, pre, ins, rest) ==
  /\ q = NoClient => ins = <<>>
  /\ q # NoClient =>
       /\ list[q] # <<>> /\ pre \in {<<>>, <<Head(list[q])>>}
       /\ rest \in Seq(DOMAIN items) /\ Distinct(rest)
       /\ Elems(rest) \subseteq Elems(Tail(list[q]))
       /\ \A x, y : Precedes(rest, x, y) => Precedes(Tail(list[q]), x, y)

(* Records of items numbered from from + 1: whole sequences.               *)
RecsSound(recs, from) ==
  /\ recs \in Seq(ItemRecords)
  /\ \A k \in DOMAIN recs :
       /\ from < recs[k].seq /\ recs[k].seq <= from + k
       /\ recs[k].kind = "command" => recs[k].group # 0
       /\ recs[k].kind # "command" => recs[k].hooks
  /\ \A k, l \in DOMAIN recs : recs[k].seq = recs[l].seq => recs[k].group = recs[l].group

IsHookGroup(n) == n \in {HookGroup(h) : h \in Hooks}

(* What is inserted comes from the head of the list, what is appended from *)
(* no item.                                                                *)
InsSound(q, ins) ==
  \A k \in DOMAIN ins :
    /\ ins[k].parent = Head(list[q])
    /\ q \in Clients => ins[k].client = q
    /\ IsHookGroup(ins[k].group) => ~ins[k].hooks
    /\ ins[k].hooks \/ IsHookGroup(ins[k].group) => items[Head(list[q])].hooks
AppSound(g, app) ==
  \A k \in DOMAIN app :
    /\ app[k].parent = 0
    /\ g \in Clients => app[k].client = g
    /\ IsHookGroup(app[k].group) => ~app[k].hooks

SpliceSound(q, pre, ins, rest, g, app) ==
  /\ Spliced(q, pre, ins, rest, g, app)
  /\ CutSound(q, pre, ins, rest)
  /\ RecsSound(ins, Len(items)) /\ RecsSound(app, Len(items) + Len(ins))
  /\ InsSound(q, ins) /\ AppSound(g, app)

(* The items that such a step makes.                                       *)
LEMMA SpliceItems ==
  ASSUME IInv, NEW q, NEW pre, NEW ins, NEW rest, NEW g, NEW app,
         SpliceSound(q, pre, ins, rest, g, app)
  PROVE  /\ ItemsStep
         /\ Len(items') = Len(items) + Len(ins) + Len(app)
         /\ Len(ins) \in Nat /\ Len(app) \in Nat
         /\ DOMAIN ins = 1 .. Len(ins) /\ DOMAIN app = 1 .. Len(app)
         /\ \A k \in DOMAIN ins : items'[Len(items) + k] = ins[k]
         /\ \A k \in DOMAIN app : items'[Len(items) + Len(ins) + k] = app[k]
<1> DEFINE n == Len(items)
           m == Len(ins)
           p == Len(app)
           R == ItemRecords
           both == items \o ins
<1>1. items \in Seq(R) /\ ins \in Seq(R) /\ app \in Seq(R) /\ MaxItems \in Nat
  BY QueueAssumption DEF IInv, Typed, SpliceSound, RecsSound
<1>2. /\ n \in Nat /\ m \in Nat /\ p \in Nat
      /\ DOMAIN items = 1 .. n /\ DOMAIN ins = 1 .. m /\ DOMAIN app = 1 .. p
  BY <1>1
<1>3. items' = both \o app /\ n + m + p <= MaxItems
  BY DEF SpliceSound, Spliced
<1> HIDE DEF R
<1>4. /\ both \in Seq(R) /\ Len(both) = n + m
      /\ \A i \in 1 .. n + m : both[i] = IF i <= n THEN items[i] ELSE ins[i - n]
  BY <1>1, ConcatProperties
<1> HIDE DEF both
<1>5. /\ items' \in Seq(R) /\ Len(items') = n + m + p
      /\ \A i \in 1 .. n + m + p :
           items'[i] = IF i <= n + m THEN both[i] ELSE app[i - (n + m)]
  <2> DEFINE all == both \o app
  <2>1. /\ all \in Seq(R) /\ Len(all) = Len(both) + p
        /\ \A i \in 1 .. Len(both) + p :
             all[i] = IF i <= Len(both) THEN both[i] ELSE app[i - Len(both)]
    <3>1. both \in Seq(R) /\ app \in Seq(R)
      BY <1>1, <1>4
    <3> QED BY <3>1, ConcatProperties
  <2>2. items' = all /\ Len(both) = n + m
    BY <1>3, <1>4
  <2> HIDE DEF all, p, n, m
  <2> QED BY <2>1, <2>2
<1> HIDE DEF n, m, p
<1>6. ASSUME NEW i \in 1 .. n PROVE items'[i] = items[i]
  BY <1>2, <1>4, <1>5
<1>7. ASSUME NEW k \in 1 .. m PROVE items'[n + k] = ins[k]
  <2> DEFINE i == n + k
  <2>1. i \in 1 .. n + m /\ i \in 1 .. n + m + p /\ i <= n + m /\ ~(i <= n) /\ i - n = k
    BY <1>2
  <2> HIDE DEF i
  <2> QED BY <1>4, <1>5, <2>1 DEF i
<1>8. ASSUME NEW k \in 1 .. p PROVE items'[n + m + k] = app[k]
  <2> DEFINE i == n + m + k
  <2>1. i \in 1 .. n + m + p /\ ~(i <= n + m) /\ i - (n + m) = k
    BY <1>2
  <2> HIDE DEF i
  <2> QED BY <1>5, <2>1 DEF i
<1>9. n <= n + m + p
  BY <1>2
<1>10. ItemsStep
  BY <1>2, <1>3, <1>5, <1>6, <1>9 DEF ItemsStep, n, R
<1> QED BY <1>2, <1>5, <1>7, <1>8, <1>10 DEF n, m, p

LEMMA SpliceMade ==
  ASSUME IInv, NEW q, NEW pre, NEW ins, NEW rest, NEW g, NEW app,
         SpliceSound(q, pre, ins, rest, g, app)
  PROVE  /\ \A x : Made(x) <=> x \in NewIns(ins) \/ x \in NewApp(ins, app)
         /\ \A x \in NewIns(ins) : \E k \in DOMAIN ins :
              x = Len(items) + k /\ items'[x] = ins[k]
         /\ \A x \in NewApp(ins, app) : \E k \in DOMAIN app :
              x = Len(items) + Len(ins) + k /\ items'[x] = app[k]
         /\ NewIns(ins) \cap NewApp(ins, app) = {}
         /\ NewIns(ins) \cap DOMAIN items = {} /\ NewApp(ins, app) \cap DOMAIN items = {}
<1> DEFINE n == Len(items)
           m == Len(ins)
           p == Len(app)
<1>1. /\ ItemsStep /\ Len(items') = n + m + p /\ m \in Nat /\ p \in Nat
      /\ DOMAIN ins = 1 .. m /\ DOMAIN app = 1 .. p
      /\ \A k \in DOMAIN ins : items'[n + k] = ins[k]
      /\ \A k \in DOMAIN app : items'[n + m + k] = app[k]
  BY SpliceItems
<1>2. n \in Nat /\ DOMAIN items = 1 .. n /\ DOMAIN items' = 1 .. n + m + p
  BY <1>1, TypedItems, MadeIs
<1> HIDE DEF n, m, p
<1>3. \A x : Made(x) <=> x \in n + 1 .. n + m \/ x \in n + m + 1 .. n + m + p
  BY <1>1, <1>2 DEF Made
<1>4. ASSUME NEW x \in n + 1 .. n + m
      PROVE  \E k \in DOMAIN ins : x = n + k /\ items'[x] = ins[k]
  <2>1. x - n \in DOMAIN ins /\ x = n + (x - n)
    BY <1>1, <1>2
  <2>2. items'[n + (x - n)] = ins[x - n]
    BY <1>1, <2>1
  <2> QED BY <2>1, <2>2
<1>5. ASSUME NEW x \in n + m + 1 .. n + m + p
      PROVE  \E k \in DOMAIN app : x = n + m + k /\ items'[x] = app[k]
  <2>1. x - (n + m) \in DOMAIN app /\ x = n + m + (x - (n + m))
    BY <1>1, <1>2
  <2>2. items'[n + m + (x - (n + m))] = app[x - (n + m)]
    BY <1>1, <2>1
  <2> QED BY <2>1, <2>2
<1>6. /\ (n + 1 .. n + m) \cap (n + m + 1 .. n + m + p) = {}
      /\ (n + 1 .. n + m) \cap (1 .. n) = {} /\ (n + m + 1 .. n + m + p) \cap (1 .. n) = {}
  BY <1>1, <1>2
<1> QED BY <1>2, <1>3, <1>4, <1>5, <1>6 DEF NewIns, NewApp, n, m, p

LEMMA SpliceMadeSound ==
  ASSUME IInv, NEW q, NEW pre, NEW ins, NEW rest, NEW g, NEW app,
         SpliceSound(q, pre, ins, rest, g, app)
  PROVE  MadeSound /\ MadeHooks
<1> DEFINE n == Len(items)
           m == Len(ins)
<1>1. RecsSound(ins, n) /\ RecsSound(app, n + m) /\ InsSound(q, ins) /\ AppSound(g, app)
  BY DEF SpliceSound
<1>2. /\ n \in Nat /\ m \in Nat
      /\ DOMAIN ins = 1 .. m /\ DOMAIN app = 1 .. Len(app) /\ Len(app) \in Nat
  BY SpliceItems, TypedItems
<1>3. ASSUME NEW x \in NewIns(ins)
      PROVE  /\ items'[x].seq <= x /\ n < items'[x].seq /\ items'[x].seq <= n + m
             /\ items'[x].seq \in Nat
             /\ items'[x].parent = Head(list[q]) /\ items'[x].parent \in Listed
             /\ items'[x].kind = "command" => items'[x].group # 0
             /\ items'[x].kind # "command" => items'[x].hooks
             /\ IsHookGroup(items'[x].group) => ~items'[x].hooks
             /\ items'[x].hooks \/ IsHookGroup(items'[x].group)
                  => items[items'[x].parent].hooks
  <2>1. PICK k \in DOMAIN ins : x = n + k /\ items'[x] = ins[k]
    BY SpliceMade
  <2>2. /\ n < ins[k].seq /\ ins[k].seq <= n + k
        /\ ins[k].kind = "command" => ins[k].group # 0
        /\ ins[k].kind # "command" => ins[k].hooks
    BY <1>1 DEF RecsSound
  <2>3. ins[k].seq \in Nat
    <3>1. ins[k] \in ItemRecords
      BY <1>1 DEF RecsSound
    <3> QED BY <3>1, QueueAssumption DEF ItemRecords
  <2>4. q \in Queues /\ list[q] # <<>>
    <3>1. ins # <<>>
      BY <1>2
    <3> QED BY <3>1 DEF SpliceSound, Spliced, CutSound
  <2>5. Head(list[q]) \in Listed
    BY <2>4, HeadIs
  <2>6. /\ ins[k].parent = Head(list[q])
        /\ IsHookGroup(ins[k].group) => ~ins[k].hooks
        /\ ins[k].hooks \/ IsHookGroup(ins[k].group) => items[Head(list[q])].hooks
    BY <1>1 DEF InsSound
  <2>7. k \in Nat /\ k <= m
    BY <1>2
  <2> HIDE DEF n, m
  <2>8. ins[k].seq <= n + m
    BY <1>2, <2>2, <2>3, <2>7
  <2> QED BY <2>1, <2>2, <2>3, <2>5, <2>6, <2>8
<1>4. ASSUME NEW x \in NewApp(ins, app)
      PROVE  /\ items'[x].seq <= x /\ n + m < items'[x].seq /\ n < items'[x].seq
             /\ items'[x].seq \in Nat
             /\ items'[x].parent = 0
             /\ items'[x].kind = "command" => items'[x].group # 0
             /\ items'[x].kind # "command" => items'[x].hooks
             /\ IsHookGroup(items'[x].group) => ~items'[x].hooks
  <2>1. PICK k \in DOMAIN app : x = n + m + k /\ items'[x] = app[k]
    BY SpliceMade
  <2>2. /\ n + m < app[k].seq /\ app[k].seq <= n + m + k
        /\ app[k].kind = "command" => app[k].group # 0
        /\ app[k].kind # "command" => app[k].hooks
    BY <1>1 DEF RecsSound
  <2>3. app[k].seq \in Nat
    <3>1. app[k] \in ItemRecords
      BY <1>1 DEF RecsSound
    <3> QED BY <3>1, QueueAssumption DEF ItemRecords
  <2>4. n < app[k].seq
    BY <1>2, <2>2, <2>3
  <2> QED BY <1>1, <2>1, <2>2, <2>3, <2>4 DEF AppSound
<1>5. \A x : Made(x) <=> x \in NewIns(ins) \/ x \in NewApp(ins, app)
  BY SpliceMade
<1> HIDE DEF n, m
<1>6. ASSUME NEW x, NEW y, Made(x), Made(y), items'[x].seq = items'[y].seq
      PROVE  items'[x].group = items'[y].group
  <2>1. CASE x \in NewIns(ins) /\ y \in NewIns(ins)
    <3>1. PICK k \in DOMAIN ins : items'[x] = ins[k]
      BY <2>1, SpliceMade
    <3>2. PICK l \in DOMAIN ins : items'[y] = ins[l]
      BY <2>1, SpliceMade
    <3> QED BY <1>1, <1>6, <3>1, <3>2 DEF RecsSound
  <2>2. CASE x \in NewApp(ins, app) /\ y \in NewApp(ins, app)
    <3>1. PICK k \in DOMAIN app : items'[x] = app[k]
      BY <2>2, SpliceMade
    <3>2. PICK l \in DOMAIN app : items'[y] = app[l]
      BY <2>2, SpliceMade
    <3> QED BY <1>1, <1>6, <3>1, <3>2 DEF RecsSound
  <2>3. ASSUME NEW u \in NewIns(ins), NEW v \in NewApp(ins, app)
        PROVE  items'[u].seq # items'[v].seq
    BY <1>2, <1>3, <1>4
  <2> QED BY <1>5, <1>6, <2>1, <2>2, <2>3
<1>7. MadeSound
  <2>1. \A x : Made(x) =>
          /\ items'[x].seq <= x /\ n < items'[x].seq
          /\ items'[x].parent # 0 => items'[x].parent \in Listed
          /\ items'[x].kind = "command" => items'[x].group # 0
    BY <1>3, <1>4, <1>5
  <2> QED BY <1>6, <2>1 DEF MadeSound, n
<1>8. MadeHooks
  BY <1>3, <1>4, <1>5 DEF MadeHooks, IsHookGroup
<1> QED BY <1>7, <1>8

(* The lists that such a step makes: first what is before the appended     *)
(* items.                                                                  *)
FrontSound(r, m, N) ==
  /\ m \in Seq(DOMAIN items') /\ Distinct(m)
  /\ \A x \in Elems(m) : x \in Elems(list[r]) \/ x \in N
  /\ \A x, y \in Elems(list[r]) : Precedes(m, x, y) => Precedes(list[r], x, y)
  /\ \A x, y \in N : Precedes(m, x, y) => x < y
  /\ \A x \in Elems(m) \cap N, a \in Elems(m) \cap Elems(list[r]) :
       a # Head(list[r]) => Precedes(m, x, a)

LEMMA FrontIs ==
  ASSUME IInv, NEW q, NEW pre, NEW ins, NEW rest, NEW g, NEW app,
         SpliceSound(q, pre, ins, rest, g, app), NEW r \in Queues
  PROVE  /\ FrontSound(r, Front(r, q, pre, ins, rest),
                       IF r = q THEN NewIns(ins) ELSE {})
         /\ Elems(Front(r, q, pre, ins, rest)) =
              IF r = q THEN Elems(pre) \cup (NewIns(ins) \cup Elems(rest))
              ELSE Elems(list[r])
<1> DEFINE T == DOMAIN items'
           l == list[r]
           new == Numbers(Len(items), ins)
<1>1. DOMAIN items' = 1 .. Len(items') /\ DOMAIN items \subseteq DOMAIN items'
  BY SpliceItems, MadeIs
<1>2. l \in Seq(T) /\ Distinct(l) /\ Elems(l) \subseteq DOMAIN items
  <2>1. l \in Seq(DOMAIN items)
    BY ListedIs
  <2>2. l \in Seq(T)
    BY <1>1, <2>1, SeqMonotonic
  <2>3. Elems(l) \subseteq DOMAIN items
    BY ListedIs
  <2> QED BY <2>2, <2>3 DEF IInv, ListsSound
<1>3. CASE r # q
  <2>1. Front(r, q, pre, ins, rest) = l
    BY <1>3 DEF Front
  <2>2. FrontSound(r, l, {})
    BY <1>2 DEF FrontSound
  <2> QED BY <1>3, <2>1, <2>2
<1>4. CASE r = q
  <2>1. /\ l # <<>> /\ pre \in {<<>>, <<Head(l)>>}
        /\ rest \in Seq(DOMAIN items) /\ Distinct(rest)
        /\ Elems(rest) \subseteq Elems(Tail(l))
        /\ \A x, y : Precedes(rest, x, y) => Precedes(Tail(l), x, y)
    <3>1. q # NoClient
      BY <1>4, QueueAssumption DEF Queues
    <3> QED BY <1>4, <3>1 DEF SpliceSound, CutSound
  <2>2. rest \in Seq(T)
    BY <1>1, <2>1, SeqMonotonic
  <2>3. /\ new \in Seq(T) /\ Distinct(new) /\ Elems(new) = NewIns(ins)
        /\ \A x, y : Precedes(new, x, y) => x < y
    <3>1. ins \in Seq(ItemRecords) /\ Len(items) \in Nat /\ Len(items') \in Nat
      BY SpliceItems, TypedItems, MadeIs DEF SpliceSound, RecsSound
    <3>2. Len(items) + Len(ins) <= Len(items')
      BY SpliceItems, TypedItems
    <3> QED BY <1>1, <3>1, <3>2, NumbersIs DEF NewIns
  <2>4. Elems(new) \cap Elems(l) = {}
    BY <1>2, <2>3, SpliceMade
  <2>5. Elems(Tail(l)) \subseteq Elems(l) /\ Head(l) \notin Elems(Tail(l))
    <3> HIDE DEF T, l
    <3>1. Elems(l) = {Head(l)} \cup Elems(Tail(l))
      BY <1>2, <2>1, HeadTailIs
    <3>2. Head(l) \notin Elems(Tail(l))
      BY <1>2, <2>1, HeadFirst
    <3> QED BY <3>1, <3>2
  <2> DEFINE m == pre \o (new \o rest)
  <2> HIDE DEF T, l, new
  <2>6. /\ m \in Seq(T) /\ Distinct(m)
        /\ Elems(m) = Elems(pre) \cup (Elems(new) \cup Elems(rest))
        /\ \A x, y \in Elems(l) : Precedes(m, x, y) => Precedes(l, x, y)
        /\ \A x, y \in Elems(new) : Precedes(m, x, y) => Precedes(new, x, y)
        /\ \A x \in Elems(new), y \in Elems(rest) : Precedes(m, x, y)
    BY <1>2, <2>1, <2>2, <2>3, <2>4, SpliceIs, SMTT(30)
  <2>7. m = Front(r, q, pre, ins, rest)
    BY <1>4 DEF Front, new
  <2> HIDE DEF m
  <2>8. Elems(pre) \subseteq {Head(l)} /\ Head(l) \in Elems(l)
    <3>1. Elems(<<>>) = {} /\ Elems(<<Head(l)>>) = {Head(l)}
      BY EmptyIs, SingleIs
    <3> QED BY <1>2, <2>1, <3>1, HeadTailIs
  <2>9. \A x \in Elems(m) : x \in Elems(l) \/ x \in NewIns(ins)
    BY <2>1, <2>3, <2>5, <2>6, <2>8
  <2>10. ASSUME NEW x \in Elems(m) \cap NewIns(ins), NEW a \in Elems(m) \cap Elems(l),
                a # Head(l)
         PROVE  Precedes(m, x, a)
    <3>1. a \in Elems(rest)
      BY <2>4, <2>6, <2>8, <2>10
    <3> QED BY <2>3, <2>6, <3>1
  <2>11. FrontSound(r, m, NewIns(ins))
    BY <2>3, <2>6, <2>9, <2>10 DEF FrontSound, l, T
  <2> QED BY <1>4, <2>3, <2>6, <2>7, <2>11
<1> QED BY <1>3, <1>4

LEMMA BackIs ==
  ASSUME IInv, NEW q, NEW pre, NEW ins, NEW rest, NEW g, NEW app,
         SpliceSound(q, pre, ins, rest, g, app), NEW r \in Queues
  PROVE  /\ Back(r, g, ins, app) \in Seq(DOMAIN items') /\ Distinct(Back(r, g, ins, app))
         /\ Elems(Back(r, g, ins, app)) = IF r = g THEN NewApp(ins, app) ELSE {}
         /\ \A x, y : Precedes(Back(r, g, ins, app), x, y) => x < y
<1>1. CASE r # g
  BY <1>1, EmptyIs DEF Back
<1>2. CASE r = g
  <2> DEFINE from == Len(items) + Len(ins)
  <2>1. DOMAIN items' = 1 .. Len(items')
    BY SpliceItems, MadeIs
  <2>2. app \in Seq(ItemRecords) /\ from \in Nat /\ Len(items') \in Nat
    BY SpliceItems, TypedItems, MadeIs DEF SpliceSound, RecsSound
  <2>3. from + Len(app) <= Len(items')
    BY SpliceItems, TypedItems
  <2>4. NewApp(ins, app) = from + 1 .. from + Len(app)
    BY DEF NewApp
  <2>5. Back(r, g, ins, app) = Numbers(from, app)
    BY <1>2 DEF Back
  <2> HIDE DEF from
  <2> QED BY <1>2, <2>1, <2>2, <2>3, <2>4, <2>5, NumbersIs
<1> QED BY <1>1, <1>2

(* What is in the lists then.                                              *)
LEMMA SpliceElems ==
  ASSUME IInv, NEW q, NEW pre, NEW ins, NEW rest, NEW g, NEW app,
         SpliceSound(q, pre, ins, rest, g, app), NEW r \in Queues
  PROVE  /\ list'[r] = Front(r, q, pre, ins, rest) \o Back(r, g, ins, app)
         /\ list'[r] \in Seq(DOMAIN items') /\ Distinct(list'[r])
         /\ \A x : x \in Elems(list'[r]) <=>
              \/ r # q /\ x \in Elems(list[r])
              \/ r = q /\ x \in Elems(pre) \cup Elems(rest)
              \/ r = q /\ x \in NewIns(ins)
              \/ r = g /\ x \in NewApp(ins, app)
<1> DEFINE T == DOMAIN items'
           f == Front(r, q, pre, ins, rest)
           b == Back(r, g, ins, app)
           N == IF r = q THEN NewIns(ins) ELSE {}
           M == IF r = g THEN NewApp(ins, app) ELSE {}
<1>1. list'[r] = f \o b
  BY DEF SpliceSound, Spliced
<1>2. /\ FrontSound(r, f, N)
      /\ Elems(f) = IF r = q THEN Elems(pre) \cup (NewIns(ins) \cup Elems(rest))
                    ELSE Elems(list[r])
  BY FrontIs
<1>3. b \in Seq(T) /\ Distinct(b) /\ Elems(b) = M
  BY BackIs
<1>4. f \in Seq(T) /\ Distinct(f)
  BY <1>2 DEF FrontSound
<1>5. Elems(f) \cap Elems(b) = {}
  <2>1. \A x \in Elems(f) : x \in DOMAIN items \/ x \in NewIns(ins)
    BY <1>2, ListedIs DEF FrontSound
  <2>2. \A x \in Elems(b) : x \in NewApp(ins, app)
    BY <1>3
  <2>3. NewIns(ins) \cap NewApp(ins, app) = {} /\ NewApp(ins, app) \cap DOMAIN items = {}
    BY SpliceMade
  <2> QED BY <2>1, <2>2, <2>3
<1> HIDE DEF f, b, T, N, M
<1>6. f \o b \in Seq(T) /\ Elems(f \o b) = Elems(f) \cup Elems(b) /\ Distinct(f \o b)
  BY <1>3, <1>4, <1>5, ConcatIs
<1>7. \A x : x \in Elems(list'[r]) <=> x \in Elems(f) \/ x \in M
  BY <1>1, <1>3, <1>6
<1>8. \A x : x \in M <=> r = g /\ x \in NewApp(ins, app)
  BY DEF M
<1>9. \A x : x \in Elems(f) <=>
        \/ r # q /\ x \in Elems(list[r])
        \/ r = q /\ x \in Elems(pre) \cup Elems(rest)
        \/ r = q /\ x \in NewIns(ins)
  <2>1. CASE r = q
    <3>1. Elems(f) = Elems(pre) \cup (NewIns(ins) \cup Elems(rest))
      BY <1>2, <2>1
    <3> QED BY <2>1, <3>1
  <2>2. CASE r # q
    <3>1. Elems(f) = Elems(list[r])
      BY <1>2, <2>2
    <3> QED BY <2>2, <3>1
  <2> QED BY <2>1, <2>2
<1>10. list'[r] \in Seq(DOMAIN items') /\ Distinct(list'[r])
  BY <1>1, <1>6 DEF T
<1>11. list'[r] = Front(r, q, pre, ins, rest) \o Back(r, g, ins, app)
  BY <1>1 DEF f, b
<1>12. \A x : x \in Elems(list'[r]) <=>
         \/ r # q /\ x \in Elems(list[r])
         \/ r = q /\ x \in Elems(pre) \cup Elems(rest)
         \/ r = q /\ x \in NewIns(ins)
         \/ r = g /\ x \in NewApp(ins, app)
  BY <1>7, <1>8, <1>9
<1> QED BY <1>10, <1>11, <1>12

(* In which order they are.                                                *)
LEMMA SpliceOrder ==
  ASSUME IInv, NEW q, NEW pre, NEW ins, NEW rest, NEW g, NEW app,
         SpliceSound(q, pre, ins, rest, g, app), NEW r \in Queues
  PROVE  /\ \A x, y \in DOMAIN items : Precedes(list'[r], x, y) => Precedes(list[r], x, y)
         /\ \A x, y : Made(x) /\ Made(y) /\ Precedes(list'[r], x, y) => x < y
         /\ \A x \in NewIns(ins), a \in DOMAIN items :
              /\ x \in Elems(list'[r]) /\ a \in Elems(list'[r]) /\ a # Head(list[r])
              => Precedes(list'[r], x, a)
<1> DEFINE T == DOMAIN items'
           f == Front(r, q, pre, ins, rest)
           b == Back(r, g, ins, app)
           N == IF r = q THEN NewIns(ins) ELSE {}
           M == IF r = g THEN NewApp(ins, app) ELSE {}
<1>1. list'[r] = f \o b
  BY SpliceElems
<1>2. FrontSound(r, f, N)
  BY FrontIs
<1>3. /\ b \in Seq(T) /\ Elems(b) = M
      /\ \A x, y : Precedes(b, x, y) => x < y
  BY BackIs
<1>4. /\ f \in Seq(T)
      /\ \A x \in Elems(f) : x \in Elems(list[r]) \/ x \in N
      /\ \A x, y \in Elems(list[r]) : Precedes(f, x, y) => Precedes(list[r], x, y)
      /\ \A x, y \in N : Precedes(f, x, y) => x < y
      /\ \A x \in Elems(f) \cap N, a \in Elems(f) \cap Elems(list[r]) :
           a # Head(list[r]) => Precedes(f, x, a)
  BY <1>2 DEF FrontSound
<1>5. /\ N \subseteq NewIns(ins) /\ M \subseteq NewApp(ins, app)
      /\ NewIns(ins) \cap NewApp(ins, app) = {}
      /\ NewIns(ins) \cap DOMAIN items = {} /\ NewApp(ins, app) \cap DOMAIN items = {}
      /\ \A x : Made(x) <=> x \in NewIns(ins) \/ x \in NewApp(ins, app)
      /\ \A x \in Elems(list[r]) : x \in DOMAIN items
  BY SpliceMade, ListedIs
<1> HIDE DEF f, b, T, N, M
<1>6. \A x, y : /\ Precedes(f, x, y) => Precedes(f \o b, x, y)
                /\ Precedes(f \o b, x, y) =>
                     Precedes(f, x, y) \/ Precedes(b, x, y) \/ (x \in Elems(f) /\ y \in Elems(b))
  BY <1>3, <1>4, ConcatOrder
<1>7. ASSUME NEW x \in DOMAIN items, NEW y \in DOMAIN items, Precedes(list'[r], x, y)
      PROVE  Precedes(list[r], x, y)
  <2>1. y \notin Elems(b)
    BY <1>3, <1>5
  <2>2. Precedes(f, x, y)
    BY <1>1, <1>6, <1>7, <2>1, PrecedesIn
  <2>3. x \in Elems(list[r]) /\ y \in Elems(list[r])
    BY <1>4, <1>5, <2>2, PrecedesIn
  <2> QED BY <1>4, <2>2, <2>3
<1>8. ASSUME NEW x, NEW y, Made(x), Made(y), Precedes(list'[r], x, y)
      PROVE  x < y
  <2>1. CASE Precedes(f, x, y)
    <3>1. x \in N /\ y \in N
      BY <1>4, <1>5, <1>8, <2>1, PrecedesIn
    <3> QED BY <1>4, <2>1, <3>1
  <2>2. CASE Precedes(b, x, y)
    BY <1>3, <2>2
  <2>3. CASE x \in Elems(f) /\ y \in Elems(b)
    <3>1. x \in NewIns(ins) /\ y \in NewApp(ins, app)
      BY <1>3, <1>4, <1>5, <1>8, <2>3
    <3>2. Len(items) \in Nat /\ Len(ins) \in Nat /\ Len(app) \in Nat
      BY SpliceItems, TypedItems
    <3> QED BY <3>1, <3>2 DEF NewIns, NewApp
  <2> QED BY <1>1, <1>6, <1>8, <2>1, <2>2, <2>3
<1>9. ASSUME NEW x \in NewIns(ins), NEW a \in DOMAIN items,
             x \in Elems(list'[r]), a \in Elems(list'[r]), a # Head(list[r])
      PROVE  Precedes(list'[r], x, a)
  <2>1. Elems(list'[r]) = Elems(f) \cup Elems(b)
    BY <1>1, <1>3, <1>4, ConcatIs
  <2>2. x \in Elems(f) /\ a \in Elems(f)
    BY <1>3, <1>5, <1>9, <2>1
  <2>3. x \in N /\ a \in Elems(list[r])
    BY <1>4, <1>5, <2>2
  <2> QED BY <1>1, <1>4, <1>6, <1>9, <2>2, <2>3
<1> QED BY <1>7, <1>8, <1>9

LEMMA SpliceLists ==
  ASSUME IInv, NEW q, NEW pre, NEW ins, NEW rest, NEW g, NEW app,
         SpliceSound(q, pre, ins, rest, g, app)
  PROVE  ListStep
<1>1. \A x : Made(x) <=> x \in NewIns(ins) \/ x \in NewApp(ins, app)
  BY SpliceMade
<1>2. /\ NewIns(ins) \cap NewApp(ins, app) = {}
      /\ NewIns(ins) \cap DOMAIN items = {} /\ NewApp(ins, app) \cap DOMAIN items = {}
  BY SpliceMade
<1>3. \A r \in Queues : \A x \in Elems(list'[r]) :
        /\ x \in NewIns(ins) => r = q
        /\ x \in NewApp(ins, app) => r = g
        /\ x \in DOMAIN items => x \in Elems(list[r])
  <2> SUFFICES ASSUME NEW r \in Queues, NEW x \in Elems(list'[r])
               PROVE  /\ x \in NewIns(ins) => r = q
                      /\ x \in NewApp(ins, app) => r = g
                      /\ x \in DOMAIN items => x \in Elems(list[r])
    OBVIOUS
  <2>1. x \in Elems(list[r]) \/ (r = q /\ x \in NewIns(ins)) \/ (r = g /\ x \in NewApp(ins, app))
    <3>1. CASE r # q
      BY <3>1, SpliceElems
    <3>2. CASE r = q
      <4>1. x \in Elems(Front(r, q, pre, ins, rest)) =>
              x \in Elems(list[r]) \/ x \in NewIns(ins)
        BY <3>2, FrontIs DEF FrontSound
      <4>2. Elems(Front(r, q, pre, ins, rest)) = Elems(pre) \cup (NewIns(ins) \cup Elems(rest))
        BY <3>2, FrontIs
      <4> QED BY <3>2, <4>1, <4>2, SpliceElems
    <3> QED BY <3>1, <3>2
  <2>2. x \in Elems(list[r]) => x \in DOMAIN items
    BY ListedIs
  <2> QED BY <1>2, <2>1, <2>2
<1>4. list' \in [Queues -> Seq(DOMAIN items')] /\ \A r \in Queues : Distinct(list'[r])
  <2>1. list' = [r \in Queues |-> list'[r]]
    BY DEF SpliceSound, Spliced
  <2>2. \A r \in Queues : list'[r] \in Seq(DOMAIN items') /\ Distinct(list'[r])
    BY SpliceElems
  <2> QED BY <2>1, <2>2
<1>5. ASSUME NEW x \in NewIns(ins)
      PROVE  /\ items'[x].parent = Head(list[q]) /\ (q \in Clients => items'[x].client = q)
             /\ q \in Queues => Head(list[q]) \in Elems(list[q])
             /\ items'[x].seq \in Nat /\ items'[x].seq <= Len(items) + Len(ins)
  <2>1. PICK k \in DOMAIN ins : x = Len(items) + k /\ items'[x] = ins[k]
    BY SpliceMade
  <2>2. ins[k].parent = Head(list[q]) /\ (q \in Clients => ins[k].client = q)
    BY DEF SpliceSound, InsSound
  <2>3. /\ ins[k] \in ItemRecords /\ ins[k].seq <= Len(items) + k
        /\ DOMAIN ins = 1 .. Len(ins) /\ Len(ins) \in Nat /\ Len(items) \in Nat
    BY SpliceItems, TypedItems DEF SpliceSound, RecsSound
  <2>4. ins[k].seq \in Nat
    BY <2>3, QueueAssumption DEF ItemRecords
  <2>5. ins[k].seq <= Len(items) + Len(ins)
    BY <2>3, <2>4
  <2>6. q \in Queues => Head(list[q]) \in Elems(list[q])
    <3>1. q \in Queues => q # NoClient
      BY QueueAssumption DEF Queues
    <3> QED BY <3>1, HeadIs DEF SpliceSound, CutSound
  <2> QED BY <2>1, <2>2, <2>4, <2>5, <2>6
<1>6. ASSUME NEW x \in NewApp(ins, app)
      PROVE  /\ items'[x].parent = 0 /\ (g \in Clients => items'[x].client = g)
             /\ items'[x].seq \in Nat /\ Len(items) + Len(ins) < items'[x].seq
  <2>1. PICK k \in DOMAIN app : items'[x] = app[k]
    BY SpliceMade
  <2>2. app[k] \in ItemRecords /\ Len(items) + Len(ins) < app[k].seq
    BY DEF SpliceSound, RecsSound
  <2>3. app[k].seq \in Nat
    BY <2>2, QueueAssumption DEF ItemRecords
  <2> QED BY <2>1, <2>2, <2>3 DEF SpliceSound, AppSound
<1>7. ASSUME NEW r \in Queues, NEW s \in Queues,
             NEW x \in Elems(list'[r]), NEW y \in Elems(list'[s]),
             Made(x), Made(y), items'[x].seq = items'[y].seq
      PROVE  r = s
  <2>1. ASSUME NEW u \in NewIns(ins), NEW v \in NewApp(ins, app)
        PROVE  items'[u].seq # items'[v].seq
    <3>1. Len(items) \in Nat /\ Len(ins) \in Nat
      BY SpliceItems, TypedItems
    <3> QED BY <1>5, <1>6, <3>1
  <2> QED BY <1>1, <1>3, <1>7, <2>1
<1>8. ASSUME NEW c \in Clients, NEW x \in Elems(list'[c]), Made(x)
      PROVE  items'[x].client = c
  BY <1>1, <1>3, <1>5, <1>6, <1>8 DEF Queues
<1>9. ASSUME NEW r \in Queues, NEW x \in Elems(list'[r]), Made(x),
             NEW a \in Elems(list'[r]) \cap DOMAIN items,
             a # items'[x].parent, items'[x].parent \in Elems(list[r])
      PROVE  Precedes(list'[r], x, a)
  <2>1. x \in NewIns(ins)
    <3>1. 0 \notin Elems(list[r])
      <4>1. Elems(list[r]) \subseteq DOMAIN items /\ 0 \notin DOMAIN items
        BY ListedIs, TypedItems
      <4> QED BY <4>1
    <3> QED BY <1>1, <1>6, <1>9, <3>1
  <2>2. r = q /\ a # Head(list[r])
    BY <1>3, <1>5, <1>9, <2>1
  <2> QED BY <2>1, <2>2, SpliceOrder
<1>10. ASSUME NEW r \in Queues, NEW x \in Elems(list'[r]), Made(x), items'[x].parent # 0
       PROVE  items'[x].parent \in Elems(list[r])
  BY <1>1, <1>3, <1>5, <1>6, <1>10
<1>11. \A r \in Queues : \A x, y \in DOMAIN items :
         Precedes(list'[r], x, y) => Precedes(list[r], x, y)
  BY SpliceOrder
<1>12. \A r \in Queues : \A x, y :
         Made(x) /\ Made(y) /\ Precedes(list'[r], x, y) => x < y
  BY SpliceOrder
<1>13. \A r \in Queues : \A x \in DOMAIN items : x \in Elems(list'[r]) => x \in Elems(list[r])
  BY <1>3
<1> QED BY <1>4, <1>7, <1>8, <1>9, <1>10, <1>11, <1>12, <1>13 DEF ListStep

(* Whatever is added behind it, a head stays the head.                     *)
LEMMA HeadOfConcat ==
  ASSUME NEW T, NEW s \in Seq(T), s # <<>>, NEW t \in Seq(T)
  PROVE  s \o t # <<>> /\ Head(s \o t) = Head(s)
<1>1. Len(s) \in Nat /\ Len(s) # 0 /\ Len(t) \in Nat
  BY EmptySeq
<1>2. /\ s \o t \in Seq(T) /\ Len(s \o t) = Len(s) + Len(t)
      /\ \A i \in 1 .. Len(s) + Len(t) : (s \o t)[i] = IF i <= Len(s) THEN s[i] ELSE t[i - Len(s)]
  BY ConcatProperties
<1>3. 1 \in 1 .. Len(s) + Len(t) /\ 1 <= Len(s) /\ Len(s) + Len(t) # 0
  BY <1>1
<1>4. (s \o t)[1] = s[1] /\ s \o t # <<>>
  BY <1>2, <1>3
<1> QED BY <1>2, <1>4

LEMMA SpliceHeads ==
  ASSUME IInv, NEW q, NEW pre, NEW ins, NEW rest, NEW g, NEW app,
         SpliceSound(q, pre, ins, rest, g, app), NEW r \in Queues, list[r] # <<>>,
         r = q => pre = <<Head(list[q])>>
  PROVE  list'[r] # <<>> /\ Head(list'[r]) = Head(list[r])
<1> DEFINE T == DOMAIN items'
           f == Front(r, q, pre, ins, rest)
           b == Back(r, g, ins, app)
<1>1. f \in Seq(T) /\ b \in Seq(T) /\ list'[r] = f \o b
  BY FrontIs, BackIs, SpliceElems DEF FrontSound
<1>2. f # <<>> /\ Head(f) = Head(list[r])
  <2>1. CASE r # q
    BY <2>1 DEF Front
  <2>2. CASE r = q
    <3> DEFINE h == Head(list[r])
               new == Numbers(Len(items), ins)
    <3>1. f = <<h>> \o (new \o rest)
      BY <2>2 DEF Front
    <3>2. h \in T
      BY HeadIs, SpliceItems, MadeIs
    <3>3. new \in Seq(T)
      <4>1. DOMAIN items' = 1 .. Len(items')
        BY SpliceItems, MadeIs
      <4>2. ins \in Seq(ItemRecords) /\ Len(items) \in Nat /\ Len(items') \in Nat
        BY SpliceItems, TypedItems, MadeIs DEF SpliceSound, RecsSound
      <4>3. Len(items) + Len(ins) <= Len(items')
        BY SpliceItems, TypedItems
      <4> QED BY <4>1, <4>2, <4>3, NumbersIs
    <3>4. rest \in Seq(T)
      <4>1. rest \in Seq(DOMAIN items)
        BY <2>2, QueueAssumption DEF SpliceSound, CutSound, Queues
      <4>2. DOMAIN items \subseteq DOMAIN items'
        BY SpliceItems, MadeIs
      <4> QED BY <4>1, <4>2, SeqMonotonic
    <3> HIDE DEF h, new, f, T
    <3>5. new \o rest \in Seq(T)
      BY <3>3, <3>4, ConcatIs
    <3>6. f # <<>> /\ Head(f) = h
      BY <3>1, <3>2, <3>5, SpliceHead
    <3> QED BY <3>6 DEF h
  <2> QED BY <2>1, <2>2
<1> HIDE DEF f, b, T
<1> QED BY <1>1, <1>2, HeadOfConcat

(* The items that leave the lists.                                         *)
Out(q, pre, rest) ==
  IF q = NoClient THEN {} ELSE Elems(list[q]) \ (Elems(pre) \cup Elems(rest))

LEMMA SpliceListed ==
  ASSUME IInv, NEW q, NEW pre, NEW ins, NEW rest, NEW g, NEW app,
         SpliceSound(q, pre, ins, rest, g, app)
  PROVE  /\ \A x : x \in Listed' <=> \E r \in Queues : x \in Elems(list'[r])
         /\ \A x : x \in Listed' <=>
              \/ x \in Listed /\ x \notin Out(q, pre, rest)
              \/ x \in NewIns(ins) \/ x \in NewApp(ins, app)
         /\ Out(q, pre, rest) \subseteq Listed
<1>1. \A x : x \in Listed' <=> \E r \in Queues : x \in Elems(list'[r])
  BY DEF Listed, Ids, Elems, Queues
<1>2. q \in Queues \cup {NoClient} /\ g \in Queues /\ NoClient \notin Queues
  BY QueueAssumption DEF SpliceSound, Spliced, Queues
<1>3. q # NoClient => Elems(pre) \cup Elems(rest) \subseteq Elems(list[q])
  <2> SUFFICES ASSUME q # NoClient PROVE Elems(pre) \cup Elems(rest) \subseteq Elems(list[q])
    OBVIOUS
  <2>1. /\ q \in Queues /\ list[q] # <<>> /\ pre \in {<<>>, <<Head(list[q])>>}
        /\ Elems(rest) \subseteq Elems(Tail(list[q]))
    BY <1>2 DEF SpliceSound, CutSound
  <2>2. list[q] \in Seq(DOMAIN items)
    BY <2>1, ListedIs
  <2>3. Elems(list[q]) = {Head(list[q])} \cup Elems(Tail(list[q]))
    BY <2>1, <2>2, HeadTailIs
  <2>4. Elems(<<>>) = {} /\ Elems(<<Head(list[q])>>) = {Head(list[q])}
    BY EmptyIs, SingleIs
  <2> QED BY <2>1, <2>3, <2>4
<1>4. NewIns(ins) # {} => q # NoClient
  <2>1. Len(items) \in Nat /\ (ins = <<>> => Len(ins) = 0)
    BY TypedItems
  <2>2. ins = <<>> => NewIns(ins) = {}
    BY <2>1 DEF NewIns
  <2> QED BY <2>2 DEF SpliceSound, CutSound
<1>5. ASSUME NEW x
      PROVE  x \in Listed' <=> \/ x \in Listed /\ x \notin Out(q, pre, rest)
                               \/ x \in NewIns(ins) \/ x \in NewApp(ins, app)
  <2>1. ASSUME NEW r \in Queues, x \in Elems(list'[r])
        PROVE  \/ x \in Listed /\ x \notin Out(q, pre, rest)
               \/ x \in NewIns(ins) \/ x \in NewApp(ins, app)
    <3>1. ASSUME r # q, x \in Elems(list[r])
          PROVE  x \in Listed /\ x \notin Out(q, pre, rest)
      <4>1. x \in Listed
        BY <3>1, ListedIs
      <4>2. q \in Queues => x \notin Elems(list[q])
        BY <3>1 DEF IInv, ListsSound
      <4> QED BY <1>2, <4>1, <4>2 DEF Out
    <3>2. ASSUME r = q, x \in Elems(pre) \cup Elems(rest)
          PROVE  x \in Listed /\ x \notin Out(q, pre, rest)
      <4>1. x \in Listed
        BY <1>2, <1>3, <3>2, ListedIs
      <4> QED BY <3>2, <4>1 DEF Out
    <3> QED BY <2>1, <3>1, <3>2, SpliceElems
  <2>2. ASSUME x \in Listed, x \notin Out(q, pre, rest) PROVE x \in Listed'
    <3>1. PICK r \in Queues : x \in Elems(list[r])
      BY <2>2, ListedIs
    <3>2. r = q => x \in Elems(pre) \cup Elems(rest)
      BY <1>2, <2>2, <3>1 DEF Out
    <3>3. x \in Elems(list'[r])
      BY <3>1, <3>2, SpliceElems
    <3> QED BY <1>1, <3>3
  <2>3. ASSUME x \in NewIns(ins) PROVE x \in Listed'
    <3>1. q \in Queues
      BY <1>2, <1>4, <2>3
    <3>2. x \in Elems(list'[q])
      BY <2>3, <3>1, SpliceElems
    <3> QED BY <1>1, <3>1, <3>2
  <2>4. ASSUME x \in NewApp(ins, app) PROVE x \in Listed'
    <3>1. x \in Elems(list'[g])
      BY <1>2, <2>4, SpliceElems
    <3> QED BY <1>1, <1>2, <3>1
  <2> QED BY <1>1, <2>1, <2>2, <2>3, <2>4
<1>6. Out(q, pre, rest) \subseteq Listed
  BY <1>2, ListedIs DEF Out
<1> QED BY <1>1, <1>5, <1>6
-----------------------------------------------------------------------------
(* The references that items hold.                                         *)
Held(c) == Cardinality({x \in Listed : items[x].client = c})
(* The items of S that are for c.                                          *)
Owned(S, its, c) == {x \in S : its[x].client = c}
HeldBy(S, c) == Cardinality({x \in S : items[x].client = c})
JobsOf(c) == Cardinality({j \in jobs : j.client = c})

LEMMA ShiftCount ==
  ASSUME NEW K, IsFiniteSet(K), K \subseteq Nat, NEW from \in Nat, NEW T,
         T = {from + k : k \in K}
  PROVE  IsFiniteSet(T) /\ Cardinality(T) = Cardinality(K)
<1> DEFINE f == [k \in K |-> from + k]
<1>1. \A k, l \in K : from + k = from + l => k = l
  OBVIOUS
<1>2. f \in [K -> T] /\ (\A k \in K : f[k] = from + k)
  OBVIOUS
<1>3. \A t \in T : \E k \in K : from + k = t
  OBVIOUS
<1> HIDE DEF f
<1>4. \A k, l \in K : f[k] = f[l] => k = l
  BY <1>1, <1>2
<1>5. \A t \in T : \E k \in K : f[k] = t
  BY <1>2, <1>3
<1>6. f \in Injection(K, T)
  BY <1>2, <1>4 DEF Injection, IsInjective
<1>7. f \in Surjection(K, T)
  BY <1>2, <1>5 DEF Surjection
<1> QED BY <1>6, <1>7, FS_Surjection

(* New items count as their records do.                                    *)
LEMMA NewCount ==
  ASSUME NEW R, NEW recs \in Seq(R), NEW from \in Nat, NEW its, NEW c,
         \A k \in DOMAIN recs : its[from + k] = recs[k]
  PROVE  /\ IsFiniteSet(Owned(from + 1 .. from + Len(recs), its, c))
         /\ Cardinality(Owned(from + 1 .. from + Len(recs), its, c)) = CountOf(c, recs)
         /\ CountOf(c, recs) \in Nat
<1> DEFINE n == Len(recs)
           K == {k \in DOMAIN recs : recs[k].client = c}
           T == {x \in from + 1 .. from + n : its[x].client = c}
<1>1. n \in Nat /\ DOMAIN recs = 1 .. n
  OBVIOUS
<1>2. IsFiniteSet(K) /\ K \subseteq Nat
  <2>1. K \subseteq 1 .. n /\ IsFiniteSet(1 .. n)
    BY <1>1, FS_Interval
  <2>2. IsFiniteSet(K)
    BY <2>1, FS_Subset
  <2> QED BY <1>1, <2>2
<1> HIDE DEF n
<1>3. \A x : x \in T <=> x \in {from + k : k \in K}
  <2>1. ASSUME NEW x \in T PROVE \E k \in K : x = from + k
    <3> DEFINE k == x - from
    <3>1. k \in 1 .. n /\ x = from + k /\ its[x].client = c
      BY <1>1
    <3> HIDE DEF k
    <3>2. k \in K
      BY <1>1, <3>1
    <3> QED BY <3>1, <3>2
  <2>2. ASSUME NEW k \in K PROVE from + k \in T
    <3>1. k \in 1 .. n /\ recs[k].client = c
      BY <1>1
    <3>2. its[from + k].client = c
      BY <1>1, <3>1
    <3>3. from + k \in from + 1 .. from + n
      BY <1>1, <3>1
    <3> QED BY <3>2, <3>3
  <2> HIDE DEF K, T
  <2> QED BY <2>1, <2>2
<1> HIDE DEF K, T
<1>4. T = {from + k : k \in K}
  BY <1>3
<1>5. IsFiniteSet(T) /\ Cardinality(T) = Cardinality(K) /\ Cardinality(K) \in Nat
  BY <1>2, <1>4, ShiftCount, FS_CardinalityType
<1> QED BY <1>5 DEF K, T, n, CountOf, Owned

(* Records that are all for one client.                                    *)
LEMMA SameClientCount ==
  ASSUME NEW R, NEW recs \in Seq(R), NEW d, \A k \in DOMAIN recs : recs[k].client = d,
         NEW c
  PROVE  CountOf(c, recs) = IF c = d THEN Len(recs) ELSE 0
<1> DEFINE n == Len(recs)
<1>1. n \in Nat /\ DOMAIN recs = 1 .. n
  OBVIOUS
<1>2. CASE c = d
  <2>1. {k \in DOMAIN recs : recs[k].client = c} = 1 .. n
    BY <1>1, <1>2
  <2>2. Cardinality(1 .. n) = n
    <3>1. 1 \in Int /\ n \in Int /\ n - 1 + 1 = n /\ (1 > n => n = 0)
      BY <1>1
    <3> HIDE DEF n
    <3> QED BY <3>1, FS_Interval
  <2> QED BY <1>2, <2>1, <2>2 DEF CountOf
<1>3. CASE c # d
  <2>1. {k \in DOMAIN recs : recs[k].client = c} = {}
    BY <1>3
  <2> QED BY <1>3, <2>1, FS_EmptySet DEF CountOf
<1> QED BY <1>2, <1>3

LEMMA ListedFinite ==
  ASSUME IInv, NEW S, S \subseteq Listed, NEW c
  PROVE  /\ IsFiniteSet({x \in S : items[x].client = c})
         /\ HeldBy(S, c) \in Nat
<1>1. DOMAIN items = 1 .. Len(items) /\ Len(items) \in Nat /\ Listed \subseteq DOMAIN items
  BY TypedItems, ListedIs
<1>2. IsFiniteSet(DOMAIN items)
  BY <1>1, FS_Interval
<1>3. {x \in S : items[x].client = c} \in SUBSET DOMAIN items
  BY <1>1
<1> QED BY <1>2, <1>3, FS_Subset, FS_CardinalityType DEF HeldBy

LEMMA SpliceHeld ==
  ASSUME IInv, NEW q, NEW pre, NEW ins, NEW rest, NEW g, NEW app,
         SpliceSound(q, pre, ins, rest, g, app), NEW c
  PROVE  /\ Held(c)' = Held(c) + CountOf(c, ins) + CountOf(c, app)
                         - HeldBy(Out(q, pre, rest), c)
         /\ Held(c)' \in Nat /\ Held(c) \in Nat /\ HeldBy(Out(q, pre, rest), c) \in Nat
         /\ CountOf(c, ins) \in Nat /\ CountOf(c, app) \in Nat
<1> DEFINE A == {x \in Listed : items[x].client = c}
           O == {x \in Out(q, pre, rest) : items[x].client = c}
           I == {x \in NewIns(ins) : items'[x].client = c}
           P == {x \in NewApp(ins, app) : items'[x].client = c}
           B == {x \in Listed' : items'[x].client = c}
<1>1. /\ IsFiniteSet(A) /\ IsFiniteSet(O) /\ O \subseteq A
      /\ Cardinality(A) \in Nat /\ Cardinality(O) \in Nat
  <2>1. Out(q, pre, rest) \subseteq Listed
    BY SpliceListed
  <2>2. O \subseteq A
    BY <2>1
  <2> QED BY <2>1, <2>2, ListedFinite DEF HeldBy
<1>2. /\ IsFiniteSet(I) /\ Cardinality(I) = CountOf(c, ins) /\ CountOf(c, ins) \in Nat
  <2> DEFINE its == items'
             from == Len(items)
  <2>1. /\ ins \in Seq(ItemRecords) /\ from \in Nat
        /\ \A k \in DOMAIN ins : its[from + k] = ins[k]
    BY SpliceItems, TypedItems DEF SpliceSound, RecsSound
  <2>2. I = Owned(from + 1 .. from + Len(ins), its, c)
    BY DEF NewIns, Owned
  <2> HIDE DEF its, from, I
  <2> QED BY <2>1, <2>2, NewCount
<1>3. /\ IsFiniteSet(P) /\ Cardinality(P) = CountOf(c, app) /\ CountOf(c, app) \in Nat
  <2> DEFINE its == items'
             from == Len(items) + Len(ins)
  <2>1. /\ app \in Seq(ItemRecords) /\ from \in Nat
        /\ \A k \in DOMAIN app : its[from + k] = app[k]
    BY SpliceItems, TypedItems DEF SpliceSound, RecsSound
  <2>2. P = Owned(from + 1 .. from + Len(app), its, c)
    BY DEF NewApp, Owned
  <2> HIDE DEF its, from, P
  <2> QED BY <2>1, <2>2, NewCount
<1>4. /\ NewIns(ins) \cap NewApp(ins, app) = {}
      /\ NewIns(ins) \cap DOMAIN items = {} /\ NewApp(ins, app) \cap DOMAIN items = {}
      /\ Listed \subseteq DOMAIN items
  BY SpliceMade, ListedIs
<1>5. \A x \in Listed : items'[x] = items[x]
  BY <1>4, SpliceItems DEF ItemsStep
<1>6. \A x : x \in B <=> x \in ((A \ O) \cup I) \cup P
  <2>1. \A x : x \in Listed' <=> \/ x \in Listed /\ x \notin Out(q, pre, rest)
                                \/ x \in NewIns(ins) \/ x \in NewApp(ins, app)
    BY SpliceListed
  <2> QED BY <1>5, <2>1
<1>7. (A \ O) \cap I = {} /\ ((A \ O) \cup I) \cap P = {}
  BY <1>4
<1> HIDE DEF A, O, I, P, B
<1>8. B = ((A \ O) \cup I) \cup P
  BY <1>6
<1>9. IsFiniteSet(A \ O) /\ Cardinality(A \ O) = Cardinality(A) - Cardinality(O)
  <2>1. A \cap O = O
    BY <1>1
  <2> QED BY <1>1, <2>1, FS_Difference
<1>10. /\ IsFiniteSet((A \ O) \cup I)
       /\ Cardinality((A \ O) \cup I) = Cardinality(A \ O) + Cardinality(I)
  <2>1. /\ IsFiniteSet((A \ O) \cup I)
        /\ Cardinality((A \ O) \cup I) =
             Cardinality(A \ O) + Cardinality(I) - Cardinality((A \ O) \cap I)
    BY <1>2, <1>9, FS_Union
  <2>2. Cardinality((A \ O) \cap I) = 0
    BY <1>7, FS_EmptySet
  <2>3. Cardinality(A \ O) \in Nat /\ Cardinality(I) \in Nat
    BY <1>2, <1>9, FS_CardinalityType
  <2> QED BY <2>1, <2>2, <2>3
<1>11. IsFiniteSet(B) /\ Cardinality(B) = Cardinality((A \ O) \cup I) + Cardinality(P)
  <2> DEFINE F == (A \ O) \cup I
  <2>1. IsFiniteSet(F) /\ F \cap P = {} /\ B = F \cup P /\ Cardinality(F) \in Nat
    BY <1>7, <1>8, <1>10, FS_CardinalityType
  <2> HIDE DEF F
  <2>2. /\ IsFiniteSet(F \cup P)
        /\ Cardinality(F \cup P) = Cardinality(F) + Cardinality(P) - Cardinality(F \cap P)
    BY <1>3, <2>1, FS_Union
  <2>3. Cardinality(F \cap P) = 0
    BY <2>1, FS_EmptySet
  <2>4. IsFiniteSet(B) /\ Cardinality(B) = Cardinality(F) + Cardinality(P)
    BY <1>3, <2>1, <2>2, <2>3
  <2> QED BY <2>4 DEF F
<1>12. Cardinality(B) = Cardinality(A) + CountOf(c, ins) + CountOf(c, app) - Cardinality(O)
  BY <1>1, <1>2, <1>3, <1>9, <1>10, <1>11
<1>13. Cardinality(B) \in Nat
  BY <1>11, FS_CardinalityType
<1>14. /\ Held(c)' = Cardinality(B) /\ Held(c) = Cardinality(A)
       /\ HeldBy(Out(q, pre, rest), c) = Cardinality(O)
  BY DEF Held, HeldBy, A, B, O
<1> QED BY <1>1, <1>2, <1>3, <1>12, <1>13, <1>14
-----------------------------------------------------------------------------
(* cmdq_next as such a step: pre, rest and what leaves the list.           *)
FirePre(q, ret) == IF ret = "wait" THEN <<Head_(q)>> ELSE <<>>
FireGone(q, ret) == IF ret = "error" THEN SameGroup(q) ELSE {}
FireRest(q, ret) == Without(Tail(list[q]), FireGone(q, ret))

LEMMA FireCut ==
  ASSUME IInv, NEW q \in Queues, list[q] # <<>>, NEW ins, NEW ret
  PROVE  /\ CutSound(q, FirePre(q, ret), ins, FireRest(q, ret))
         /\ Out(q, FirePre(q, ret), FireRest(q, ret)) =
              FireGone(q, ret) \cup (IF ret = "wait" THEN {} ELSE {Head_(q)})
         /\ Elems(FirePre(q, ret)) = IF ret = "wait" THEN {Head_(q)} ELSE {}
         /\ Elems(FireRest(q, ret)) = Elems(Tail(list[q])) \ FireGone(q, ret)
         /\ FirePre(q, ret) \in Seq(DOMAIN items) /\ FireRest(q, ret) \in Seq(DOMAIN items)
<1> DEFINE T == DOMAIN items
           l == list[q]
           h == Head(l)
           t == Tail(l)
           gone == FireGone(q, ret)
           rest == FireRest(q, ret)
           pre == FirePre(q, ret)
<1>1. l \in Seq(T) /\ Distinct(l) /\ l # <<>> /\ q # NoClient
  BY ListedIs, QueueAssumption DEF IInv, ListsSound, Queues
<1>2. gone \subseteq Elems(l) \ {h}
  BY ListedIs DEF FireGone, SameGroup, Head_
<1>3. rest = Without(t, gone) /\ pre = IF ret = "wait" THEN <<h>> ELSE <<>>
  BY DEF FireRest, FirePre, Head_
<1> HIDE DEF T, l, gone, rest, pre
<1>4. /\ h \in T /\ t \in Seq(T) /\ Elems(l) = {h} \cup Elems(t)
  BY <1>1, HeadTailIs
<1>5. Distinct(t) /\ h \notin Elems(t)
  BY <1>1, HeadFirst
<1> HIDE DEF h, t
<1>6. rest \in Seq(T) /\ Elems(rest) = Elems(t) \ gone
  BY <1>3, <1>4, WithoutIs
<1>7. Distinct(rest) /\ \A x, y : Precedes(rest, x, y) => Precedes(t, x, y)
  BY <1>3, <1>4, <1>5, WithoutOrder
<1>8. /\ pre \in {<<>>, <<h>>} /\ pre \in Seq(T)
      /\ Elems(pre) = IF ret = "wait" THEN {h} ELSE {}
  <2>1. CASE ret = "wait"
    BY <1>3, <1>4, <2>1, SingleIs
  <2>2. CASE ret # "wait"
    BY <1>3, <2>2, EmptyIs
  <2> QED BY <2>1, <2>2
<1>9. CutSound(q, pre, ins, rest)
  BY <1>1, <1>6, <1>7, <1>8 DEF CutSound, l, h, t, T
<1>10. Elems(l) \ (Elems(pre) \cup Elems(rest))
         = gone \cup (IF ret = "wait" THEN {} ELSE {h})
  <2>1. CASE ret = "wait"
    <3>1. Elems(pre) = {h}
      BY <1>8, <2>1
    <3>2. \A x : x \in Elems(l) \ (Elems(pre) \cup Elems(rest)) <=> x \in gone
      BY <1>2, <1>4, <1>6, <3>1
    <3> QED BY <2>1, <3>2
  <2>2. CASE ret # "wait"
    <3>1. Elems(pre) = {}
      BY <1>8, <2>2
    <3>2. \A x : x \in Elems(l) \ (Elems(pre) \cup Elems(rest)) <=> x \in gone \cup {h}
      BY <1>2, <1>4, <1>5, <1>6, <3>1
    <3> QED BY <2>2, <3>2
  <2> QED BY <2>1, <2>2
<1>11. Out(q, pre, rest) = gone \cup (IF ret = "wait" THEN {} ELSE {h})
  BY <1>1, <1>10 DEF Out, l
<1> QED BY <1>6, <1>8, <1>9, <1>11 DEF pre, rest, gone, h, t, l, T, Head_

LEMMA FireIs ==
  ASSUME IInv, NEW q \in Queues, list[q] # <<>>, NEW ins, NEW app, NEW ret,
         Fire(q, ins, app, ret),
         RecsSound(ins, Len(items)), RecsSound(app, Len(items) + Len(ins)),
         InsSound(q, ins), AppSound(Global, app)
  PROVE  SpliceSound(q, FirePre(q, ret), ins, FireRest(q, ret), Global, app)
<1> DEFINE pre == FirePre(q, ret)
           rest == FireRest(q, ret)
           new == Numbers(Len(items), ins)
           more == Numbers(Len(items) + Len(ins), app)
           mine == pre \o (new \o rest)
<1>1. /\ list \in [Queues -> Seq(DOMAIN items)] /\ Global \in Queues
      /\ Len(items) \in Nat /\ DOMAIN items = 1 .. Len(items) /\ MaxItems \in Nat
  BY TypedItems DEF IInv, Typed, Queues
<1>2. ins \in Seq(ItemRecords) /\ app \in Seq(ItemRecords) /\ Len(ins) \in Nat /\ Len(app) \in Nat
  BY DEF RecsSound
<1>3. /\ Len(items) + Len(ins) + Len(app) <= MaxItems
      /\ items' = (items \o ins) \o app
  <2>1. /\ Len(items) + (Len(ins) + Len(app)) <= MaxItems
        /\ items' = items \o ins \o app
    BY DEF Fire, Room
  <2>2. items \in Seq(ItemRecords)
    BY DEF IInv, Typed
  <2> QED BY <1>1, <1>2, <2>1, <2>2, ConcatAssociative
<1>4. list' = [[list EXCEPT ![q] = mine] EXCEPT ![Global] = @ \o more]
  BY DEF Fire, After, FirePre, FireRest, FireGone
<1>5. pre \in Seq(Nat) /\ rest \in Seq(Nat) /\ \A r \in Queues : list[r] \in Seq(Nat)
  <2>1. DOMAIN items \subseteq Nat
    BY <1>1
  <2>2. pre \in Seq(DOMAIN items) /\ rest \in Seq(DOMAIN items)
    BY FireCut
  <2>3. \A r \in Queues : list[r] \in Seq(DOMAIN items)
    BY <1>1
  <2> QED BY <2>1, <2>2, <2>3, SeqMonotonic
<1>6. new \in Seq(Nat)
  <2>1. Len(items) + Len(ins) \in Nat
    BY <1>1, <1>2
  <2>2. new \in Seq(1 .. Len(items) + Len(ins))
    BY <1>1, <1>2, <2>1, NumbersIs
  <2>3. 1 .. Len(items) + Len(ins) \subseteq Nat
    BY <2>1
  <2> QED BY <2>2, <2>3, SeqMonotonic
<1> HIDE DEF pre, rest, new, more
<1>7. mine \in Seq(Nat)
  BY <1>5, <1>6, ConcatProperties
<1>8. ASSUME NEW r \in Queues
      PROVE  list'[r] = Front(r, q, pre, ins, rest) \o Back(r, Global, ins, app)
  <2> DEFINE f == IF r = q THEN mine ELSE list[r]
  <2>1. f = Front(r, q, pre, ins, rest) /\ f \in Seq(Nat)
    BY <1>5, <1>7 DEF Front, new
  <2>2. list'[r] = IF r = Global THEN f \o more ELSE f
    <3> HIDE DEF mine
    <3> QED BY <1>1, <1>4
  <2> HIDE DEF f
  <2>3. f \o <<>> = f
    BY <2>1, ConcatEmptySeq
  <2> QED BY <2>1, <2>2, <2>3 DEF Back, more
<1>9. DOMAIN list' = Queues /\ list' = [r \in Queues |-> list'[r]]
  BY <1>1, <1>4
<1>10. list' = [r \in Queues |-> Front(r, q, pre, ins, rest) \o Back(r, Global, ins, app)]
  BY <1>8, <1>9
<1>11. Spliced(q, pre, ins, rest, Global, app)
  BY <1>1, <1>3, <1>10 DEF Spliced
<1> QED BY <1>11, FireCut DEF SpliceSound, pre, rest

(* A head is fired: ins is inserted, app appended, ret returned.           *)
FireSound(q, ins, app, ret) ==
  /\ q \in Queues /\ ToFire(q) /\ Fire(q, ins, app, ret)
  /\ ret = "error" => IsCommand(q)
  /\ RecsSound(ins, Len(items)) /\ RecsSound(app, Len(items) + Len(ins))
  /\ InsSound(q, ins) /\ AppSound(Global, app)
FireHistory(q, ret) ==
  \/ ran' = ran /\ failed' = failed
  \/ /\ ran' = Append(ran, Head_(q))
     /\ failed' = IF ret = "error" THEN failed \cup {Head_(q)} ELSE failed

LEMMA FireSplice ==
  ASSUME IInv, NEW q, NEW ins, NEW app, NEW ret, FireSound(q, ins, app, ret)
  PROVE  /\ SpliceSound(q, FirePre(q, ret), ins, FireRest(q, ret), Global, app)
         /\ q \in Queues /\ list[q] # <<>> /\ phase = q
         /\ Head_(q) \in Elems(list[q]) /\ Head_(q) \in Listed /\ Head_(q) \in DOMAIN items
         /\ Head_(q) \notin waits /\ Head_(q) \notin fired
         /\ ItemsStep /\ MadeSound /\ MadeHooks /\ ListStep
<1>1. q \in Queues /\ list[q] # <<>> /\ phase = q /\ Head_(q) \notin waits /\ Head_(q) \notin fired
  BY DEF FireSound, ToFire, Ready
<1>2. SpliceSound(q, FirePre(q, ret), ins, FireRest(q, ret), Global, app)
  BY <1>1, FireIs DEF FireSound
<1>3. ItemsStep /\ MadeSound /\ MadeHooks /\ ListStep
  BY <1>2, SpliceItems, SpliceMadeSound, SpliceLists
<1> QED BY <1>1, <1>2, <1>3, HeadIs DEF Head_

(* The heads that wait stay heads.                                         *)
LEMMA FireHeads ==
  ASSUME IInv, NEW q, NEW ins, NEW app, NEW ret, FireSound(q, ins, app, ret)
  PROVE  /\ \A r \in Queues : r # q /\ list[r] # <<>>
                                => list'[r] # <<>> /\ Head(list'[r]) = Head(list[r])
         /\ \A x \in fired' : \E r \in Queues : list'[r] # <<>> /\ x = Head(list'[r])
<1> DEFINE h == Head_(q)
<1>1. /\ SpliceSound(q, FirePre(q, ret), ins, FireRest(q, ret), Global, app)
      /\ q \in Queues /\ list[q] # <<>> /\ h \notin fired
  BY FireSplice
<1>2. \A r \in Queues : r # q /\ list[r] # <<>>
        => list'[r] # <<>> /\ Head(list'[r]) = Head(list[r])
  BY <1>1, SpliceHeads
<1>3. ret = "wait" => list'[q] # <<>> /\ Head(list'[q]) = h
  BY <1>1, SpliceHeads DEF FirePre, Head_
<1>4. ASSUME NEW x \in fired
      PROVE  \E r \in Queues : list'[r] # <<>> /\ x = Head(list'[r])
  <2>1. PICK r \in Queues : list[r] # <<>> /\ x = Head(list[r])
    BY DEF IInv, WaitsSound, IsHead
  <2>2. r # q
    BY <1>1, <2>1 DEF Head_
  <2> QED BY <1>2, <2>1, <2>2
<1>5. fired' = IF ret = "wait" THEN fired \cup {h} ELSE fired
  BY DEF FireSound, Fire
<1> QED BY <1>1, <1>2, <1>3, <1>4, <1>5

(* What runs is in order.                                                  *)
LEMMA FireInOrder ==
  ASSUME IInv, NEW q, NEW ins, NEW app, NEW ret, FireSound(q, ins, app, ret),
         FireHistory(q, ret)
  PROVE  /\ OrderLeft' /\ InsertedFirst' /\ InOrder' /\ ErrorStops'
         /\ \A i, j \in DOMAIN ran' : ran'[i] = ran'[j] => i = j
         /\ \A x \in Elems(ran') : \A r \in Queues : x \in Elems(list'[r]) => x \in fired'
         /\ \A x : x \in Elems(ran) \/ (ran' = Append(ran, Head_(q)) /\ x = Head_(q))
              => x \in Elems(ran')
         /\ ran' \in Seq(DOMAIN items') /\ failed' \subseteq Elems(ran')
<1> DEFINE h == Head_(q)
<1>1. /\ SpliceSound(q, FirePre(q, ret), ins, FireRest(q, ret), Global, app)
      /\ q \in Queues /\ list[q] # <<>> /\ h \notin fired /\ h \in Listed /\ h \in DOMAIN items
      /\ h \in Elems(list[q]) /\ ItemsStep /\ MadeSound /\ MadeHooks /\ ListStep
  BY FireSplice
<1>2. fired' = IF ret = "wait" THEN fired \cup {h} ELSE fired
  BY DEF FireSound, Fire
<1>3. ran \in Seq(DOMAIN items) /\ failed \subseteq Elems(ran)
  BY DEF IInv, Typed
<1>4. h \notin Elems(ran)
  BY <1>1 DEF IInv, RanSound
<1>5. DOMAIN items \subseteq DOMAIN items'
  BY <1>1, MadeIs
<1>6. CASE ran' = ran /\ failed' = failed
  <2>1. RanStep({})
    BY <1>2, <1>6 DEF RanStep, Elems
  <2>2. UNCHANGED <<ran, failed>>
    BY <1>6
  <2>3. ran' \in Seq(DOMAIN items')
    BY <1>3, <1>5, <1>6, SeqMonotonic
  <2>4. Elems(ran') = Elems(ran) /\ ran' # Append(ran, h)
    <3>1. Len(Append(ran, h)) = Len(ran) + 1 /\ Len(ran) \in Nat
      BY <1>1, <1>3, AppendProperties
    <3>2. Len(Append(ran, h)) # Len(ran)
      BY <3>1
    <3> QED BY <1>6, <3>2 DEF Elems
  <2> QED BY <1>1, <1>3, <1>6, <2>1, <2>2, <2>3, <2>4, RanKept
<1>7. CASE /\ ran' = Append(ran, h)
           /\ failed' = IF ret = "error" THEN failed \cup {h} ELSE failed
  <2>1. Elems(ran') = Elems(ran) \cup {h} /\ ran' \in Seq(DOMAIN items')
    <3> DEFINE T == DOMAIN items
               single == <<h>>
    <3>1. ran \in Seq(T) /\ h \in T
      BY <1>1, <1>3
    <3> HIDE DEF T, h
    <3>2. single \in Seq(T) /\ Elems(single) = {h}
      BY <3>1, SingleIs
    <3>3. Append(ran, h) = ran \o single
      BY <3>1, AppendIsConcat
    <3> HIDE DEF single
    <3>4. ran \o single \in Seq(T) /\ Elems(ran \o single) = Elems(ran) \cup {h}
      BY <3>1, <3>2, ConcatIs
    <3>5. ran' \in Seq(T) /\ Elems(ran') = Elems(ran) \cup {h}
      BY <1>7, <3>3, <3>4
    <3> QED BY <1>5, <3>5, SeqMonotonic DEF T
  <2>2. \A r \in Queues : h \in Elems(list'[r]) => ret = "wait"
    <3> SUFFICES ASSUME NEW r \in Queues, h \in Elems(list'[r]), ret # "wait" PROVE FALSE
      OBVIOUS
    <3>1. r = q
      <4>1. h \in Elems(list[r])
        BY <1>1 DEF ListStep
      <4> QED BY <1>1, <4>1 DEF IInv, ListsSound
    <3>2. h \in Elems(FirePre(q, ret)) \cup Elems(FireRest(q, ret))
      <4>1. h \notin NewIns(ins) /\ h \notin NewApp(ins, app)
        BY <1>1, SpliceMade
      <4> QED BY <1>1, <3>1, <4>1, SpliceElems
    <3>3. Out(q, FirePre(q, ret), FireRest(q, ret)) = FireGone(q, ret) \cup {h}
      BY <1>1, FireCut
    <3>4. q # NoClient
      BY <1>1, QueueAssumption DEF Queues
    <3> QED BY <3>2, <3>3, <3>4 DEF Out
  <2>3. ASSUME NEW x \in fired \cup {h}, NEW r \in Queues, x \in Elems(list'[r])
        PROVE  x \in fired'
    BY <1>2, <2>2, <2>3
  <2>4. ASSUME h \in failed', NEW r \in Queues, NEW x \in Elems(list'[r]) \cap DOMAIN items
        PROVE  SeqOf(x) # SeqOf(h)
    <3>1. ret = "error"
      BY <1>3, <1>4, <1>7, <2>4
    <3> SUFFICES ASSUME SeqOf(x) = SeqOf(h) PROVE FALSE
      OBVIOUS
    <3>2. x \in Elems(list[r])
      BY <1>1 DEF ListStep
    <3>3. r = q
      BY <1>1, <3>2 DEF IInv, OrderLeft
    <3>4. x \in Elems(FirePre(q, ret)) \cup Elems(FireRest(q, ret))
      <4>1. x \notin NewIns(ins) /\ x \notin NewApp(ins, app)
        BY <1>1, SpliceMade
      <4> QED BY <1>1, <3>3, <4>1, SpliceElems
    <3>5. x \in Elems(Tail(list[q])) /\ x \notin SameGroup(q)
      BY <1>1, <3>1, <3>4, FireCut DEF FireGone
    <3>6. x # h
      <4>1. list[q] \in Seq(DOMAIN items) /\ Distinct(list[q])
        BY <1>1, ListedIs DEF IInv, ListsSound
      <4> QED BY <1>1, <3>5, <4>1, HeadFirst DEF Head_
    <3>7. items[h].group # 0
      BY <1>1, <3>1 DEF FireSound, IsCommand, IInv, ItemsMade
    <3>8. items[x].group = items[h].group
      BY <1>1 DEF IInv, ItemsMade
    <3>9. x \in Ids(q)
      BY <1>1, <3>2, <3>3, ListedIs
    <3> QED BY <3>5, <3>6, <3>7, <3>8, <3>9 DEF SameGroup
  <2>5. Runs(h)
    BY <1>1 DEF Runs, IsHead, Head_
  <2>6. failed' \subseteq failed \cup {h}
    BY <1>7
  <2>7. RanStep({h})
    BY <2>1, <2>3, <2>4, <2>5, <2>6 DEF RanStep
  <2>8. failed' \subseteq Elems(ran')
    BY <1>3, <2>1, <2>6
  <2> QED BY <1>1, <1>7, <2>1, <2>7, <2>8, RanKept
<1> QED BY <1>6, <1>7 DEF FireHistory

(* What the commands change besides: the waits, the jobs and the counts.   *)
FireWaits(q, ret) ==
  /\ waits' \subseteq waits \cup (IF ret = "wait" THEN {Head_(q)} ELSE {})
  /\ \A x \in waits : x \in JobItems => x \in waits'
  /\ ret = "wait" => Head_(q) \in waits'
Owner(c) == c \in Live \cup dead \cup {NoClient}
FireJobs(q, ret, extra) ==
  \/ extra = NoClient /\ jobs' = jobs
  \/ /\ ran' = Append(ran, Head_(q)) /\ Owner(extra)
     /\ jobs' = jobs \cup {[item |-> IF ret = "wait" THEN Head_(q) ELSE 0,
                            client |-> extra, made |-> Head_(q)]}
FireOwners(ins, app) ==
  /\ \A k \in DOMAIN ins : Owner(ins[k].client)
  /\ \A k \in DOMAIN app : app[k].client = NoClient

LEMMA OwnersTyped ==
  ASSUME IInv
  PROVE  /\ Live \subseteq Clients /\ dead \subseteq Clients /\ NoClient \notin Clients
         /\ \A c : Owner(c) => c \in Clients \cup {NoClient}
<1>1. clients \in Seq(Clients) /\ dead \subseteq Clients
  BY DEF IInv, Typed
<1>2. Live \subseteq Clients
  BY <1>1 DEF Live
<1> QED BY <1>1, <1>2, QueueAssumption DEF Owner

LEMMA FireJobsKept ==
  ASSUME IInv, NEW q, NEW ins, NEW app, NEW ret, NEW extra,
         FireSound(q, ins, app, ret), FireHistory(q, ret), FireWaits(q, ret),
         FireJobs(q, ret, extra)
  PROVE  /\ WaitsSound'
         /\ jobs' \subseteq JobRecords /\ IsFiniteSet(jobs')
         /\ \A j \in jobs' : j.made \in Elems(ran')
         /\ \A j \in jobs' : Owner(j.client)
         /\ \A c \in Clients : JobsOf(c)' = JobsOf(c) + (IF extra = c THEN 1 ELSE 0)
         /\ \A c \in Clients : JobsOf(c) \in Nat
<1> DEFINE h == Head_(q)
           new == [item |-> IF ret = "wait" THEN h ELSE 0, client |-> extra, made |-> h]
<1>1. /\ jobs \subseteq JobRecords /\ IsFiniteSet(jobs) /\ waits \subseteq fired
      /\ \A j \in jobs : j.item # 0 => j.item \in waits
      /\ \A j, k \in jobs : j.item # 0 /\ j.item = k.item => j = k
      /\ \A j \in jobs : j.made \in Elems(ran)
      /\ \A j \in jobs : Owner(j.client)
  BY DEF IInv, Typed, WaitsSound, RanSound, OwnersSound, Owner
<1>2. /\ h \notin waits /\ h \notin fired /\ h \in DOMAIN items /\ h \in Listed
  BY FireSplice
<1>3. h \in 1 .. MaxItems
  BY <1>2, TypedItems DEF IInv, Typed
<1>4. h \notin Elems(ran)
  BY <1>2 DEF IInv, RanSound
<1>5. \A x : x \in Elems(ran) => x \in Elems(ran')
  BY FireInOrder
<1>6. /\ fired' = IF ret = "wait" THEN fired \cup {h} ELSE fired
      /\ \A j \in jobs : j.item # 0 => j.item \in waits'
      /\ waits' \subseteq waits \cup (IF ret = "wait" THEN {h} ELSE {})
      /\ ret = "wait" => h \in waits'
  BY <1>1 DEF FireSound, Fire, FireWaits, JobItems
<1>7. waits' \subseteq fired'
  BY <1>1, <1>6
<1>8. \A x \in fired' : IsHead(x)'
  BY FireHeads DEF IsHead, Queues
<1>9. ASSUME NEW c \in Clients
      PROVE  IsFiniteSet({j \in jobs : j.client = c}) /\ JobsOf(c) \in Nat
  <2>1. {j \in jobs : j.client = c} \in SUBSET jobs
    OBVIOUS
  <2> QED BY <1>1, <2>1, FS_Subset, FS_CardinalityType DEF JobsOf
<1> HIDE DEF h
<1>10. CASE extra = NoClient /\ jobs' = jobs
  <2>1. ASSUME NEW c \in Clients
        PROVE  JobsOf(c)' = JobsOf(c) + (IF extra = c THEN 1 ELSE 0)
    <3> DEFINE n == JobsOf(c)
               m == JobsOf(c)'
    <3>1. m = n /\ n \in Nat /\ extra # c
      <4>1. jobs' = jobs
        BY <1>10
      <4>2. m = n
        BY <4>1 DEF JobsOf
      <4> QED BY <1>9, <1>10, <4>2, OwnersTyped
    <3> HIDE DEF n, m
    <3>2. m = n + (IF extra = c THEN 1 ELSE 0)
      BY <3>1
    <3> QED BY <3>2 DEF n, m
  <2>2. WaitsSound'
    BY <1>1, <1>6, <1>7, <1>8, <1>10 DEF WaitsSound
  <2> QED BY <1>1, <1>5, <1>9, <1>10, <2>1, <2>2
<1>11. CASE ran' = Append(ran, h) /\ Owner(extra) /\ jobs' = jobs \cup {new}
  <2>1. /\ new.client = extra /\ new.made = h /\ new.item = IF ret = "wait" THEN h ELSE 0
        /\ new \in JobRecords
    <3>1. extra \in Clients \cup {NoClient} /\ MaxItems \in Nat
      BY <1>11, OwnersTyped, QueueAssumption
    <3> QED BY <1>3, <3>1 DEF JobRecords
  <2>2. h \in Elems(ran')
    BY <1>11, FireInOrder DEF h
  <2> HIDE DEF new
  <2>3. new \notin jobs
    BY <1>1, <1>4, <2>1
  <2>4. jobs' \subseteq JobRecords /\ IsFiniteSet(jobs')
    BY <1>1, <1>11, <2>1, FS_AddElement
  <2>5. \A j \in jobs' : j.made \in Elems(ran') /\ Owner(j.client)
    BY <1>1, <1>5, <1>11, <2>1, <2>2
  <2>6. \A j \in jobs' : j.item # 0 => j.item \in waits'
    BY <1>6, <1>11, <2>1
  <2>7. \A j, k \in jobs' : j.item # 0 /\ j.item = k.item => j = k
    <3>1. \A j \in jobs : j.item # 0 => j.item # new.item
      BY <1>1, <1>2, <2>1
    <3> QED BY <1>1, <1>11, <3>1
  <2>8. WaitsSound'
    BY <1>7, <1>8, <2>6, <2>7 DEF WaitsSound
  <2>9. ASSUME NEW c \in Clients
        PROVE  JobsOf(c)' = JobsOf(c) + (IF extra = c THEN 1 ELSE 0)
    <3> DEFINE A == {j \in jobs : j.client = c}
               B == {j \in jobs' : j.client = c}
    <3>1. IsFiniteSet(A) /\ new \notin A
      BY <1>9, <2>3
    <3>2. CASE extra = c
      <4>1. \A j : j \in B <=> j \in A \cup {new}
        BY <1>11, <2>1, <3>2
      <4> HIDE DEF A, B
      <4>2. B = A \cup {new}
        BY <4>1
      <4>3. Cardinality(B) = Cardinality(A) + 1
        BY <3>1, <4>2, FS_AddElement
      <4> QED BY <3>2, <4>3 DEF JobsOf, A, B
    <3>3. CASE extra # c
      <4>1. \A j : j \in B <=> j \in A
        BY <1>11, <2>1, <3>3
      <4> HIDE DEF A, B
      <4>2. B = A
        BY <4>1
      <4>3. Cardinality(B) = Cardinality(A) + 0
        <5>1. Cardinality(A) \in Nat
          BY <3>1, FS_CardinalityType
        <5> QED BY <4>2, <5>1
      <4> QED BY <3>3, <4>3 DEF JobsOf, A, B
    <3> QED BY <3>2, <3>3
  <2> QED BY <1>9, <2>4, <2>5, <2>8, <2>9
<1> QED BY <1>10, <1>11 DEF FireJobs, h

LEMMA FireRefsKept ==
  ASSUME IInv, NEW q, NEW ins, NEW app, NEW ret, NEW extra,
         FireSound(q, ins, app, ret), FireHistory(q, ret), FireWaits(q, ret),
         FireJobs(q, ret, extra), FireOwners(ins, app), FireRefs(q, ins, ret, extra)
  PROVE  RefsExact' /\ refs' \in [Clients -> Nat]
<1> DEFINE pre == FirePre(q, ret)
           rest == FireRest(q, ret)
           out == Out(q, pre, rest)
           e(c) == IF extra = c THEN 1 ELSE 0
           L(c) == IF c \in Live THEN 1 ELSE 0
<1>1. /\ SpliceSound(q, pre, ins, rest, Global, app)
      /\ q \in Queues /\ list[q] # <<>>
  BY FireSplice
<1>2. out = FireGone(q, ret) \cup (IF ret = "wait" THEN {} ELSE {Head_(q)})
  BY <1>1, FireCut
<1>3. refs' = [c \in Clients |-> refs[c] + CountOf(c, ins) + e(c) - HeldBy(out, c)]
  BY <1>2 DEF FireRefs, FireGone, HeldBy
<1>4. ASSUME NEW c \in Clients PROVE CountOf(c, app) = 0
  <2>1. app \in Seq(ItemRecords) /\ \A k \in DOMAIN app : app[k].client = NoClient
    BY DEF FireSound, RecsSound, FireOwners
  <2>2. c # NoClient
    BY OwnersTyped
  <2> QED BY <2>1, <2>2, SameClientCount
<1>5. \A c \in Clients : refs[c] = L(c) + Held(c) + JobsOf(c)
  BY DEF IInv, RefsExact, Held, JobsOf
<1>6. Live' = Live
  BY DEF FireSound, Fire, clientVars, Live
<1> HIDE DEF pre, rest, out
<1>7. ASSUME NEW c \in Clients
      PROVE  refs'[c] = L(c) + Held(c)' + JobsOf(c)' /\ refs'[c] \in Nat
  <2> DEFINE held == Held(c)'
             of == JobsOf(c)'
  <2>1. /\ held = Held(c) + CountOf(c, ins) + CountOf(c, app) - HeldBy(out, c)
        /\ held \in Nat /\ Held(c) \in Nat /\ HeldBy(out, c) \in Nat /\ CountOf(c, ins) \in Nat
    BY <1>1, SpliceHeld DEF out
  <2>2. of = JobsOf(c) + e(c) /\ JobsOf(c) \in Nat
    BY FireJobsKept
  <2>3. e(c) \in Nat /\ L(c) \in Nat
    OBVIOUS
  <2>4. refs'[c] = refs[c] + CountOf(c, ins) + e(c) - HeldBy(out, c)
    BY <1>3
  <2>5. refs[c] = L(c) + Held(c) + JobsOf(c)
    BY <1>5
  <2>6. held = Held(c) + CountOf(c, ins) - HeldBy(out, c)
    BY <1>4, <2>1
  <2> HIDE DEF held, of, e, L
  <2>7. refs'[c] = L(c) + held + of
    BY <2>1, <2>2, <2>3, <2>4, <2>5, <2>6
  <2>8. of \in Nat
    BY <2>2, <2>3
  <2>9. refs'[c] \in Nat
    BY <2>1, <2>3, <2>7, <2>8
  <2> QED BY <2>7, <2>9 DEF held, of
<1>8. RefsExact'
  <2> SUFFICES ASSUME NEW c \in Clients
               PROVE  refs'[c] = (IF c \in Live' THEN 1 ELSE 0)
                                   + Cardinality({x \in Listed' : items'[x].client = c})
                                   + Cardinality({j \in jobs' : j.client = c})
    BY DEF RefsExact
  <2>1. /\ Held(c)' = Cardinality({x \in Listed' : items'[x].client = c})
        /\ JobsOf(c)' = Cardinality({j \in jobs' : j.client = c})
    BY DEF Held, JobsOf
  <2>2. refs'[c] = L(c) + Held(c)' + JobsOf(c)'
    BY <1>7
  <2> QED BY <1>6, <2>1, <2>2
<1>9. refs' \in [Clients -> Nat]
  <2>1. \A c \in Clients : refs'[c] \in Nat
    BY <1>7
  <2>2. refs' = [c \in Clients |-> refs'[c]]
    BY <1>3
  <2> QED BY <2>1, <2>2
<1> QED BY <1>8, <1>9

LEMMA FireOwnersKept ==
  ASSUME IInv, NEW q, NEW ins, NEW app, NEW ret, NEW extra,
         FireSound(q, ins, app, ret), FireHistory(q, ret), FireWaits(q, ret),
         FireJobs(q, ret, extra), FireOwners(ins, app)
  PROVE  OwnersSound' /\ CurrentSound'
<1>1. SpliceSound(q, FirePre(q, ret), ins, FireRest(q, ret), Global, app) /\ phase = q
  BY FireSplice
<1>2. Live' = Live /\ dead' = dead /\ freed' = freed /\ current' = current /\ phase' = phase
  BY DEF FireSound, Fire, clientVars, Live
<1>3. ASSUME NEW x \in Listed' PROVE Owner(items'[x].client)
  <2>1. CASE x \in Listed
    <3>1. items'[x] = items[x]
      BY <1>1, <2>1, SpliceItems, ListedIs DEF ItemsStep
    <3> QED BY <2>1, <3>1 DEF IInv, OwnersSound, Owner
  <2>2. CASE x \in NewIns(ins)
    <3>1. PICK k \in DOMAIN ins : items'[x] = ins[k]
      BY <1>1, <2>2, SpliceMade
    <3> QED BY <3>1 DEF FireOwners
  <2>3. CASE x \in NewApp(ins, app)
    <3>1. PICK k \in DOMAIN app : items'[x] = app[k]
      BY <1>1, <2>3, SpliceMade
    <3> QED BY <3>1 DEF FireOwners, Owner
  <2> QED BY <1>1, <2>1, <2>2, <2>3, SpliceListed
<1>4. \A j \in jobs' : Owner(j.client)
  BY FireJobsKept
<1>5. OwnersSound'
  <2>1. /\ Live \cap dead = {} /\ Live \cap freed = {} /\ dead \cap freed = {}
    BY DEF IInv, OwnersSound
  <2> QED BY <1>2, <1>3, <1>4, <2>1 DEF OwnersSound, Owner
<1>6. CurrentSound'
  <2> SUFFICES ASSUME NEW r \in Queues, r # phase, current[r] # 0
               PROVE  list'[r] # <<>> /\ current[r] = Head(list'[r])
    BY <1>2 DEF CurrentSound, HeadOrNull, Head_, Queues
  <2>1. list[r] # <<>> /\ current[r] = Head(list[r])
    BY DEF IInv, CurrentSound, HeadOrNull, Head_
  <2> QED BY <1>1, <2>1, FireHeads
<1> QED BY <1>5, <1>6

(* Firing a head keeps the invariant.                                      *)
LEMMA FireKept ==
  ASSUME IInv, NEW q, NEW ins, NEW app, NEW ret, NEW extra,
         FireSound(q, ins, app, ret), FireHistory(q, ret), FireWaits(q, ret),
         FireJobs(q, ret, extra), FireOwners(ins, app), FireRefs(q, ins, ret, extra)
  PROVE  IInv'
<1>1. ItemsStep /\ MadeSound /\ MadeHooks /\ ListStep
  BY FireSplice
<1>2. ItemsMade' /\ HooksSound' /\ ListsSound'
  BY <1>1, ItemsMadeKept, HooksKept, ListsKept
<1>3. OrderLeft' /\ InsertedFirst' /\ InOrder' /\ ErrorStops'
  BY FireInOrder
<1>4. RanSound'
  <2>1. \A j \in jobs' : j.made \in Elems(ran')
    BY FireJobsKept
  <2>2. \A i, j \in DOMAIN ran' : ran'[i] = ran'[j] => i = j
    BY FireInOrder
  <2>3. \A x \in Elems(ran') : x \in Listed' => x \in fired'
    <3>1. \A x \in Elems(ran') : \A r \in Queues : x \in Elems(list'[r]) => x \in fired'
      BY FireInOrder
    <3>2. \A x : x \in Listed' <=> \E r \in Queues : x \in Elems(list'[r])
      BY FireSplice, SpliceListed
    <3> QED BY <3>1, <3>2
  <2> QED BY <2>1, <2>2, <2>3 DEF RanSound, Elems
<1>5. WaitsSound' /\ jobs' \subseteq JobRecords /\ IsFiniteSet(jobs')
  BY FireJobsKept
<1>6. OwnersSound' /\ CurrentSound' /\ RefsExact' /\ refs' \in [Clients -> Nat]
  BY FireOwnersKept, FireRefsKept
<1>7. Typed'
  <2>1. items' \in Seq(ItemRecords) /\ Len(items') <= MaxItems
    BY <1>1 DEF ItemsStep
  <2>2. list' \in [Queues -> Seq(DOMAIN items')]
    BY <1>1 DEF ListStep
  <2>3. ran' \in Seq(DOMAIN items') /\ failed' \subseteq Elems(ran')
    BY FireInOrder
  <2>4. /\ current' = current /\ clients' = clients /\ dead' = dead /\ freed' = freed
        /\ phase' = phase
    BY DEF FireSound, Fire, clientVars
  <2>5. /\ current \in [Queues -> 0 .. MaxItems]
        /\ clients \in Seq(Clients) /\ dead \subseteq Clients /\ freed \subseteq Clients
        /\ phase \in Queues \cup {"poll"} /\ (phase \in Clients => phase \in Live)
    BY DEF IInv, Typed
  <2>6. Live' = Live
    BY <2>4 DEF Live
  <2> QED BY <1>5, <1>6, <2>1, <2>2, <2>3, <2>4, <2>5, <2>6 DEF Typed, Queues, Elems, ItemRecords, JobRecords
<1> QED BY <1>2, <1>3, <1>4, <1>5, <1>6, <1>7 DEF IInv
-----------------------------------------------------------------------------
(* The items that commands make.                                           *)
LEMMA HookGroupIs ==
  /\ \A h \in Hooks : HookGroup(h) \in 1 .. MaxItems + 4 /\ IsHookGroup(HookGroup(h))
  /\ \A n \in 0 .. MaxItems + 1 : ~IsHookGroup(n)
  /\ MaxItems \in Nat
<1>1. MaxItems \in Nat /\ Hooks \subseteq {"after", "error", "event"}
  BY QueueAssumption
<1>2. \A h \in Hooks : h = "after" \/ h = "error" \/ h = "event"
  BY <1>1
<1>3. /\ HookGroup("after") = MaxItems + 2 /\ HookGroup("error") = MaxItems + 3
      /\ HookGroup("event") = MaxItems + 4
  BY DEF HookGroup
<1>4. \A h \in Hooks : HookGroup(h) \in MaxItems + 2 .. MaxItems + 4
  BY <1>1, <1>2, <1>3
<1>5. ASSUME NEW n \in 0 .. MaxItems + 1, NEW h \in Hooks PROVE n # HookGroup(h)
  BY <1>1, <1>4
<1>6. \A n \in 0 .. MaxItems + 1 : ~IsHookGroup(n)
  BY <1>5 DEF IsHookGroup
<1>7. \A h \in Hooks : HookGroup(h) \in 1 .. MaxItems + 4
  BY <1>1, <1>4
<1> QED BY <1>1, <1>6, <1>7 DEF IsHookGroup

(* cmdq_get_command for a list of n commands, the first of them numbered   *)
(* from + 1.                                                               *)
Fits(recs, n, from, first, group, client, hooks, parent) ==
  /\ n \in Nat /\ from \in Nat /\ first = from + 1 /\ from + n <= MaxItems
  /\ n # 0 => group \in 1 .. MaxItems + 4
  /\ client \in Clients \cup {NoClient} /\ hooks \in BOOLEAN /\ parent \in 0 .. MaxItems
  /\ recs = Commands(n, first, group, client, hooks, parent)

LEMMA CommandsSound ==
  ASSUME NEW n, NEW from, NEW first, NEW group, NEW client, NEW hooks, NEW parent, NEW recs,
         Fits(recs, n, from, first, group, client, hooks, parent)
  PROVE  /\ RecsSound(recs, from) /\ Len(recs) = n
         /\ \A k \in DOMAIN recs :
              /\ recs[k].parent = parent /\ recs[k].client = client
              /\ recs[k].hooks = hooks /\ recs[k].group = group
<1> USE DEF Fits
<1> DEFINE rec == [kind |-> "command", seq |-> first, group |-> group,
                   client |-> client, hooks |-> hooks, parent |-> parent]
<1>1. recs = [k \in 1 .. n |-> rec]
  BY DEF Commands
<1>2. /\ rec.kind = "command" /\ rec.seq = first /\ rec.group = group
      /\ rec.client = client /\ rec.hooks = hooks /\ rec.parent = parent
  OBVIOUS
<1>3. n # 0 => first \in 1 .. MaxItems /\ group # 0
  BY QueueAssumption
<1>4. n # 0 => rec \in ItemRecords
  BY <1>3, QueueAssumption DEF ItemRecords
<1> HIDE DEF rec
<1>5. DOMAIN recs = 1 .. n /\ (\A k \in 1 .. n : recs[k] = rec) /\ (\A k \in 1 .. n : n # 0)
  BY <1>1
<1>6. recs \in Seq(ItemRecords) /\ Len(recs) = n
  <2>1. \A k \in 1 .. n : rec \in ItemRecords
    BY <1>4, <1>5
  <2>2. recs \in Seq(ItemRecords)
    BY <1>1, <2>1, IsASeq
  <2> QED BY <1>5, <2>2
<1>7. \A k \in 1 .. n : from < rec.seq /\ rec.seq <= from + k
  BY <1>2
<1>8. \A k \in DOMAIN recs : /\ from < recs[k].seq /\ recs[k].seq <= from + k
                             /\ recs[k].kind = "command" => recs[k].group # 0
                             /\ recs[k].kind # "command" => recs[k].hooks
  BY <1>2, <1>3, <1>5, <1>7
<1>9. \A k, l \in DOMAIN recs : recs[k].seq = recs[l].seq => recs[k].group = recs[l].group
  BY <1>5
<1>10. RecsSound(recs, from)
  BY <1>6, <1>8, <1>9 DEF RecsSound
<1>11. \A k \in DOMAIN recs :
         /\ recs[k].parent = parent /\ recs[k].client = client
         /\ recs[k].hooks = hooks /\ recs[k].group = group
  BY <1>2, <1>5
<1> QED BY <1>6, <1>10, <1>11

LEMMA NoneSound ==
  ASSUME NEW from, NEW q
  PROVE  /\ RecsSound(<<>>, from) /\ InsSound(q, <<>>) /\ AppSound(q, <<>>)
         /\ Len(<<>>) = 0 /\ DOMAIN <<>> = {} /\ \A c : CountOf(c, <<>>) = 0
<1>1. <<>> \in Seq(ItemRecords) /\ DOMAIN <<>> = {} /\ Len(<<>>) = 0
  OBVIOUS
<1>2. \A c : CountOf(c, <<>>) = 0
  <2> SUFFICES ASSUME NEW c PROVE CountOf(c, <<>>) = 0
    OBVIOUS
  <2>1. {k \in DOMAIN <<>> : <<>>[k].client = c} = {}
    BY <1>1
  <2> QED BY <2>1, FS_EmptySet DEF CountOf
<1> QED BY <1>1, <1>2 DEF RecsSound, InsSound, AppSound

(* The head and those it may act for.                                      *)
LEMMA BorrowedIs ==
  ASSUME IInv, NEW q \in Queues, list[q] # <<>>
  PROVE  /\ items[Head_(q)].client \in Borrowed(q)
         /\ \A c \in Borrowed(q) :
              Owner(c) /\ c \in Clients \cup {NoClient} /\ (q \in Clients => c = q)
         /\ Head_(q) \in 1 .. MaxItems /\ Head_(q) # 0 /\ items[Head_(q)].hooks \in BOOLEAN
         /\ items[Head_(q)].group \in 0 .. MaxItems + 4
<1> DEFINE h == Head_(q)
           d == items[h].client
<1>1. h \in Elems(list[q]) /\ h \in Listed /\ h \in DOMAIN items
  BY HeadIs DEF Head_
<1>2. items[h] \in ItemRecords /\ h \in 1 .. MaxItems /\ h # 0
  <2>1. /\ DOMAIN items = 1 .. Len(items) /\ Len(items) \in Nat /\ MaxItems \in Nat
        /\ items[h] \in ItemRecords
    BY <1>1, TypedItems
  <2>2. Len(items) <= MaxItems
    BY DEF IInv, Typed
  <2> HIDE DEF h
  <2> QED BY <1>1, <2>1, <2>2
<1>3. items[h].hooks \in BOOLEAN /\ items[h].group \in 0 .. MaxItems + 4
  BY <1>2 DEF ItemRecords
<1>4. Owner(d) /\ (q \in Clients => d = q)
  BY <1>1 DEF IInv, OwnersSound, ListsSound, Owner
<1>5. Borrowed(q) = IF d = NoClient THEN Live \cup {NoClient} ELSE {d}
  BY DEF Borrowed
<1> HIDE DEF h, d
<1>6. d \in Borrowed(q)
  BY <1>5
<1>7. ASSUME NEW c \in Borrowed(q)
      PROVE  Owner(c) /\ c \in Clients \cup {NoClient} /\ (q \in Clients => c = q)
  <2>1. CASE d = NoClient
    <3>1. q \notin Clients
      BY <1>4, <2>1, OwnersTyped
    <3>2. Owner(c)
      BY <1>5, <2>1 DEF Owner
    <3> QED BY <3>1, <3>2, OwnersTyped
  <2>2. CASE d # NoClient
    BY <1>4, <1>5, <2>2, OwnersTyped
  <2> QED BY <2>1, <2>2
<1> QED BY <1>2, <1>3, <1>6, <1>7 DEF h, d

(* cmdq_insert_hook and hooks_event_cb.                                    *)
LEMMA HookForSound ==
  ASSUME IInv, NEW q \in Queues, list[q] # <<>>, NEW g, NEW c \in Borrowed(q),
         NEW ins, ins = HookFor(q, g, c), Len(items) + Len(ins) <= MaxItems
  PROVE  /\ RecsSound(ins, Len(items)) /\ InsSound(q, ins)
         /\ \A k \in DOMAIN ins : Owner(ins[k].client)
<1>1. CASE ins = <<>>
  BY <1>1, NoneSound
<1>2. CASE ins # <<>>
  <2>1. /\ items[Head_(q)].hooks /\ g \in Hooks
        /\ ins = Commands(1, NextId, HookGroup(g), c, FALSE, Head_(q))
    BY <1>2 DEF HookFor, HookCommands
  <2>2. Len(items) \in Nat /\ MaxItems \in Nat
    BY TypedItems
  <2>3. Len(ins) = 1
    BY <2>1 DEF Commands
  <2>4. NextId = Len(items) + 1 /\ Len(items) + 1 <= MaxItems
    BY <2>3 DEF NextId
  <2>5. /\ Owner(c) /\ c \in Clients \cup {NoClient} /\ (q \in Clients => c = q)
        /\ Head_(q) \in 0 .. MaxItems
    BY BorrowedIs
  <2>6. /\ HookGroup(g) \in 1 .. MaxItems + 4 /\ IsHookGroup(HookGroup(g))
    BY <2>1, HookGroupIs
  <2>7. /\ RecsSound(ins, Len(items))
        /\ \A k \in DOMAIN ins :
             /\ ins[k].parent = Head_(q) /\ ins[k].client = c
             /\ ins[k].hooks = FALSE /\ ins[k].group = HookGroup(g)
    <3> DEFINE G == HookGroup(g)
               p == Head_(q)
               from == Len(items)
               one == 1
               no == FALSE
    <3>1. /\ from \in Nat /\ NextId = from + 1 /\ from + one <= MaxItems /\ one \in Nat
          /\ G \in 1 .. MaxItems + 4 /\ c \in Clients \cup {NoClient} /\ p \in 0 .. MaxItems
      BY <2>1, <2>2, <2>4, <2>5, <2>6
    <3>2. ins = Commands(one, NextId, G, c, no, p) /\ no \in BOOLEAN
      BY <2>1
    <3> HIDE DEF G, p, from, one, no
    <3>3. Fits(ins, one, from, NextId, G, c, no, p)
      BY <3>1, <3>2 DEF Fits
    <3>4. /\ RecsSound(ins, from)
          /\ \A k \in DOMAIN ins : /\ ins[k].parent = p /\ ins[k].client = c
                                   /\ ins[k].hooks = no /\ ins[k].group = G
      BY <3>3, CommandsSound
    <3> QED BY <3>4 DEF G, p, from, no
  <2> QED BY <2>1, <2>5, <2>7 DEF InsSound, Head_
<1> QED BY <1>1, <1>2

LEMMA EventHookSound ==
  ASSUME IInv, NEW n \in Nat, NEW app, app = EventHook(n),
         Len(items) + n + Len(app) <= MaxItems
  PROVE  /\ RecsSound(app, Len(items) + n) /\ AppSound(Global, app)
         /\ \A k \in DOMAIN app : app[k].client = NoClient
<1>1. CASE app = <<>>
  BY <1>1, NoneSound
<1>2. CASE app # <<>>
  <2> DEFINE from == Len(items) + n
             G == HookGroup("event")
             first == NextId + n
             one == 1
             no == FALSE
             null == 0
  <2>1. /\ "event" \in Hooks /\ app = Commands(1, first, G, NoClient, FALSE, 0)
    BY <1>2 DEF EventHook, HookCommands
  <2>2. Len(items) \in Nat /\ MaxItems \in Nat
    BY TypedItems
  <2>3. Len(app) = 1
    BY <2>1 DEF Commands
  <2>4. /\ from \in Nat /\ first = from + 1 /\ from + one <= MaxItems /\ one \in Nat
        /\ null \in 0 .. MaxItems /\ NoClient \in Clients \cup {NoClient}
    BY <2>2, <2>3 DEF NextId
  <2>5. G \in 1 .. MaxItems + 4
    BY <2>1, HookGroupIs
  <2>6. app = Commands(one, first, G, NoClient, no, null) /\ no \in BOOLEAN
    BY <2>1
  <2> HIDE DEF from, first, G, one, no, null
  <2>7. Fits(app, one, from, first, G, NoClient, no, null)
    BY <2>4, <2>5, <2>6 DEF Fits
  <2>8. /\ RecsSound(app, from)
        /\ \A k \in DOMAIN app :
             /\ app[k].parent = null /\ app[k].client = NoClient
             /\ app[k].hooks = no /\ app[k].group = G
    BY <2>7, CommandsSound
  <2> QED BY <2>8, QueueAssumption DEF AppSound, from, no, null
<1> QED BY <1>1, <1>2

(* A list inserted after the head: by if-shell and its like, or by a key.  *)
LEMMA NestedSound ==
  ASSUME IInv, NEW q \in Queues, list[q] # <<>>, NEW c \in Borrowed(q), NEW n \in Nat,
         NEW group \in 1 .. MaxItems + 1, NEW hooks \in BOOLEAN, NEW ins,
         hooks => items[Head_(q)].hooks,
         ins = Commands(n, NextId, group, c, hooks, Head_(q)),
         Len(items) + Len(ins) <= MaxItems
  PROVE  /\ RecsSound(ins, Len(items)) /\ InsSound(q, ins)
         /\ \A k \in DOMAIN ins : Owner(ins[k].client)
<1> DEFINE p == Head_(q)
           from == Len(items)
           first == NextId
<1>1. from \in Nat /\ first = from + 1 /\ MaxItems \in Nat
  BY TypedItems DEF NextId
<1>2. Len(ins) = n
  BY DEF Commands
<1>3. /\ Owner(c) /\ c \in Clients \cup {NoClient} /\ (q \in Clients => c = q)
      /\ p \in 0 .. MaxItems
  BY BorrowedIs
<1>4. group \in 1 .. MaxItems + 4 /\ ~IsHookGroup(group)
  BY <1>1, HookGroupIs
<1>5. from + n <= MaxItems
  BY <1>2
<1> HIDE DEF p, from, first
<1>6. Fits(ins, n, from, first, group, c, hooks, p)
  BY <1>1, <1>3, <1>4, <1>5 DEF Fits, p, first
<1>7. /\ RecsSound(ins, from)
      /\ \A k \in DOMAIN ins : /\ ins[k].parent = p /\ ins[k].client = c
                               /\ ins[k].hooks = hooks /\ ins[k].group = group
  BY <1>6, CommandsSound
<1>8. InsSound(q, ins)
  BY <1>3, <1>4, <1>7 DEF InsSound, p, Head_
<1> QED BY <1>3, <1>7, <1>8 DEF from

(* Every way to fire the head, one after the other.                        *)
LEMMA RoomIs ==
  ASSUME IInv, NEW q, NEW ins, NEW app, NEW ret, Fire(q, ins, app, ret),
         Len(ins) \in Nat, Len(app) \in Nat
  PROVE  /\ Len(items) + Len(ins) <= MaxItems
         /\ Len(items) + Len(ins) + Len(app) <= MaxItems
<1>1. Len(items) + (Len(ins) + Len(app)) <= MaxItems
  BY DEF Fire, Room
<1> QED BY <1>1, TypedItems

LEMMA HookForLen ==
  ASSUME NEW q, NEW g, NEW c
  PROVE  Len(HookFor(q, g, c)) \in Nat
<1>1. HookFor(q, g, c) = <<>>
        \/ HookFor(q, g, c) = Commands(1, NextId, HookGroup(g), c, FALSE, Head_(q))
  BY DEF HookFor, HookCommands
<1>2. Len(Commands(1, NextId, HookGroup(g), c, FALSE, Head_(q))) = 1
  BY DEF Commands
<1> QED BY <1>1, <1>2

LEMMA EventHookLen ==
  ASSUME NEW n
  PROVE  Len(EventHook(n)) \in Nat
<1>1. EventHook(n) = <<>>
        \/ EventHook(n) = Commands(1, NextId + n, HookGroup("event"), NoClient, FALSE, 0)
  BY DEF EventHook, HookCommands
<1>2. Len(Commands(1, NextId + n, HookGroup("event"), NoClient, FALSE, 0)) = 1
  BY DEF Commands
<1> QED BY <1>1, <1>2

(* The waits that do not change, or to which the head is added.            *)
LEMMA WaitsPlain ==
  ASSUME IInv, NEW q, NEW ret,
         waits' = IF ret = "wait" THEN waits \cup {Head_(q)} ELSE waits
  PROVE  FireWaits(q, ret)
BY DEF FireWaits

LEMMA RunNormalKept ==
  ASSUME IInv, NEW q \in Queues, NEW c, RunNormal(q, c)
  PROVE  IInv'
<1>1. /\ ToFire(q) /\ c \in Borrowed(q) /\ list[q] # <<>>
      /\ ran' = Append(ran, Head_(q)) /\ waits' = waits /\ jobs' = jobs /\ failed' = failed
  BY DEF RunNormal, Executes, ToFire, Ready, Ran
<1>2. PICK ins \in {<<>>, HookFor(q, "after", c)} :
        Fire(q, ins, <<>>, "normal") /\ FireRefs(q, ins, "normal", NoClient)
  BY DEF RunNormal
<1>3. Len(ins) \in Nat /\ Len(<<>>) = 0
  BY HookForLen
<1>4. Len(items) + Len(ins) <= MaxItems
  BY <1>2, <1>3, RoomIs
<1>5. /\ RecsSound(ins, Len(items)) /\ InsSound(q, ins)
      /\ \A k \in DOMAIN ins : Owner(ins[k].client)
  <2>1. CASE ins = <<>>
    BY <2>1, NoneSound
  <2>2. CASE ins = HookFor(q, "after", c)
    BY <1>1, <1>4, <2>2, HookForSound
  <2> QED BY <1>2, <2>1, <2>2
<1>6. FireSound(q, ins, <<>>, "normal")
  BY <1>1, <1>2, <1>5, NoneSound DEF FireSound
<1>7. /\ FireHistory(q, "normal") /\ FireWaits(q, "normal") /\ FireJobs(q, "normal", NoClient)
      /\ FireOwners(ins, <<>>)
  BY <1>1, <1>5, NoneSound DEF FireHistory, FireWaits, FireJobs, FireOwners
<1> QED BY <1>2, <1>6, <1>7, FireKept

LEMMA RunFailKept ==
  ASSUME IInv, NEW q \in Queues, RunFail(q)
  PROVE  IInv'
<1> DEFINE c == items[Head_(q)].client
           ins == HookFor(q, "error", c)
<1>1. /\ ToFire(q) /\ IsCommand(q) /\ list[q] # <<>>
      /\ ran' = Append(ran, Head_(q)) /\ waits' = waits /\ jobs' = jobs
      /\ failed' = failed \cup {Head_(q)}
  BY DEF RunFail, Executes, ToFire, Ready, Ran
<1>2. Fire(q, ins, <<>>, "error") /\ FireRefs(q, ins, "error", NoClient)
  BY DEF RunFail
<1>3. Len(ins) \in Nat /\ Len(<<>>) = 0 /\ c \in Borrowed(q)
  BY <1>1, HookForLen, BorrowedIs
<1> HIDE DEF c
<1>4. Len(items) + Len(ins) <= MaxItems
  BY <1>2, <1>3, RoomIs
<1>5. /\ RecsSound(ins, Len(items)) /\ InsSound(q, ins)
      /\ \A k \in DOMAIN ins : Owner(ins[k].client)
  BY <1>1, <1>3, <1>4, HookForSound
<1> HIDE DEF ins
<1>6. FireSound(q, ins, <<>>, "error")
  BY <1>1, <1>2, <1>5, NoneSound DEF FireSound
<1>7. /\ FireHistory(q, "error") /\ FireWaits(q, "error") /\ FireJobs(q, "error", NoClient)
      /\ FireOwners(ins, <<>>)
  BY <1>1, <1>5, NoneSound DEF FireHistory, FireWaits, FireJobs, FireOwners
<1> QED BY <1>2, <1>6, <1>7, FireKept

LEMMA RunNestedKept ==
  ASSUME IInv, NEW q \in Queues, NEW c, NEW n \in Lengths, RunNested(q, c, n)
  PROVE  IInv'
<1> DEFINE hooks == items[Head_(q)].hooks
           ins == Commands(n, NextId, NextId, c, hooks, Head_(q))
<1>1. /\ ToFire(q) /\ c \in Borrowed(q) /\ list[q] # <<>>
      /\ ran' = Append(ran, Head_(q)) /\ waits' = waits /\ jobs' = jobs /\ failed' = failed
  BY DEF RunNested, Executes, ToFire, Ready, Ran
<1>2. Fire(q, ins, <<>>, "normal") /\ FireRefs(q, ins, "normal", NoClient)
  BY DEF RunNested
<1>3. n \in Nat /\ n # 0 /\ Len(ins) = n /\ Len(<<>>) = 0
  BY QueueAssumption DEF Lengths, Commands
<1>4. Len(items) + Len(ins) <= MaxItems
  BY <1>2, <1>3, RoomIs
<1>5. NextId \in 1 .. MaxItems + 1
  <2>1. Len(items) \in Nat /\ MaxItems \in Nat
    BY TypedItems
  <2> QED BY <1>3, <1>4, <2>1 DEF NextId
<1>6. hooks \in BOOLEAN
  BY <1>1, BorrowedIs
<1>7. /\ RecsSound(ins, Len(items)) /\ InsSound(q, ins)
      /\ \A k \in DOMAIN ins : Owner(ins[k].client)
  <2> DEFINE all == ins
             hk == hooks
             g == NextId
  <2>1. /\ all = Commands(n, NextId, g, c, hk, Head_(q)) /\ (hk => items[Head_(q)].hooks)
        /\ hk \in BOOLEAN /\ g \in 1 .. MaxItems + 1 /\ Len(items) + Len(all) <= MaxItems
    BY <1>4, <1>5, <1>6
  <2> HIDE DEF all, hk, g, ins, hooks
  <2>2. /\ RecsSound(all, Len(items)) /\ InsSound(q, all)
        /\ \A k \in DOMAIN all : Owner(all[k].client)
    BY <1>1, <1>3, <2>1, NestedSound
  <2> QED BY <2>2 DEF all
<1> HIDE DEF ins, hooks
<1>8. FireSound(q, ins, <<>>, "normal")
  BY <1>1, <1>2, <1>7, NoneSound DEF FireSound
<1>9. /\ FireHistory(q, "normal") /\ FireWaits(q, "normal") /\ FireJobs(q, "normal", NoClient)
      /\ FireOwners(ins, <<>>)
  BY <1>1, <1>7, NoneSound DEF FireHistory, FireWaits, FireJobs, FireOwners
<1> QED BY <1>2, <1>8, <1>9, FireKept

LEMMA RunWaitKept ==
  ASSUME IInv, NEW q \in Queues, RunWait(q)
  PROVE  IInv'
<1>1. /\ ToFire(q) /\ Fire(q, <<>>, <<>>, "wait") /\ FireRefs(q, <<>>, "wait", NoClient)
      /\ ran' = Append(ran, Head_(q)) /\ waits' = waits \cup {Head_(q)}
      /\ jobs' = jobs /\ failed' = failed
  BY DEF RunWait, Executes, Ran
<1>2. FireSound(q, <<>>, <<>>, "wait")
  BY <1>1, NoneSound DEF FireSound
<1>3. /\ FireHistory(q, "wait") /\ FireWaits(q, "wait") /\ FireJobs(q, "wait", NoClient)
      /\ FireOwners(<<>>, <<>>)
  BY <1>1, NoneSound DEF FireHistory, FireWaits, FireJobs, FireOwners
<1> QED BY <1>1, <1>2, <1>3, FireKept

LEMMA RunJobKept ==
  ASSUME IInv, NEW q \in Queues, NEW c, NEW b \in BOOLEAN, RunJob(q, c, b)
  PROVE  IInv'
<1> DEFINE ret == IF b THEN "normal" ELSE "wait"
<1>1. /\ ToFire(q) /\ list[q] # <<>> /\ Fire(q, <<>>, <<>>, ret) /\ FireRefs(q, <<>>, ret, c)
      /\ ran' = Append(ran, Head_(q)) /\ failed' = failed
  BY DEF RunJob, Executes, ToFire, Ready, Ran
<1>2. Owner(c)
  <2>1. c \in IF b THEN Live \cup {NoClient} ELSE Borrowed(q)
    BY DEF RunJob
  <2>2. CASE b
    BY <2>1, <2>2 DEF Owner
  <2>3. CASE ~b
    BY <1>1, <2>1, <2>3, BorrowedIs
  <2> QED BY <2>2, <2>3
<1>3. ret = "wait" <=> ~b
  OBVIOUS
<1>4. /\ waits' = IF ret = "wait" THEN waits \cup {Head_(q)} ELSE waits
      /\ jobs' = jobs \cup {[item |-> IF ret = "wait" THEN Head_(q) ELSE 0,
                             client |-> c, made |-> Head_(q)]}
  <2>1. CASE b
    BY <2>1 DEF RunJob
  <2>2. CASE ~b
    BY <2>2 DEF RunJob
  <2> QED BY <2>1, <2>2
<1>5. ret # "error"
  OBVIOUS
<1> HIDE DEF ret
<1>6. FireSound(q, <<>>, <<>>, ret)
  BY <1>1, <1>5, NoneSound DEF FireSound
<1>7. FireHistory(q, ret) /\ FireWaits(q, ret)
  BY <1>1, <1>4, <1>5, WaitsPlain DEF FireHistory
<1>8. FireJobs(q, ret, c) /\ FireOwners(<<>>, <<>>)
  BY <1>1, <1>2, <1>4, NoneSound DEF FireJobs, FireOwners
<1> QED BY <1>1, <1>6, <1>7, <1>8, FireKept

LEMMA RunEventKept ==
  ASSUME IInv, NEW q \in Queues, NEW c, NEW ret \in {"normal", "wait", "error"},
         RunEvent(q, c, ret)
  PROVE  IInv'
<1>1. /\ ToFire(q) /\ IsCommand(q) /\ c \in Borrowed(q) /\ list[q] # <<>>
      /\ ran' = Append(ran, Head_(q)) /\ jobs' = jobs
      /\ waits' = IF ret = "wait" THEN waits \cup {Head_(q)} ELSE waits
      /\ failed' = IF ret = "error" THEN failed \cup {Head_(q)} ELSE failed
  BY DEF RunEvent, Executes, ToFire, Ready, Ran
<1>2. PICK ins \in IF ret = "error" THEN {HookFor(q, "error", items[Head_(q)].client)}
                   ELSE {<<>>, HookFor(q, "after", c)} :
        Fire(q, ins, EventHook(Len(ins)), ret) /\ FireRefs(q, ins, ret, NoClient)
  BY DEF RunEvent
<1>3. \E g : \E d \in Borrowed(q) : ins = <<>> \/ ins = HookFor(q, g, d)
  <2>1. CASE ret = "error"
    <3>1. items[Head_(q)].client \in Borrowed(q)
      BY <1>1, BorrowedIs
    <3>2. ins = HookFor(q, "error", items[Head_(q)].client)
      BY <1>2, <2>1
    <3> QED BY <3>1, <3>2
  <2>2. CASE ret # "error"
    <3>1. ins = <<>> \/ ins = HookFor(q, "after", c)
      BY <1>2, <2>2
    <3> QED BY <1>1, <3>1
  <2> QED BY <2>1, <2>2
<1> DEFINE app == EventHook(Len(ins))
<1>4. Len(ins) \in Nat /\ Len(app) \in Nat
  <2>1. Len(<<>>) = 0
    OBVIOUS
  <2>2. PICK g, d : ins = <<>> \/ ins = HookFor(q, g, d)
    BY <1>3
  <2> QED BY <2>1, <2>2, HookForLen, EventHookLen
<1>5. Len(items) + Len(ins) <= MaxItems /\ Len(items) + Len(ins) + Len(app) <= MaxItems
  BY <1>2, <1>4, RoomIs
<1>6. /\ RecsSound(ins, Len(items)) /\ InsSound(q, ins)
      /\ \A k \in DOMAIN ins : Owner(ins[k].client)
  <2>1. CASE ins = <<>>
    BY <2>1, NoneSound
  <2>2. CASE ins # <<>>
    <3>1. PICK g : \E d \in Borrowed(q) : ins = HookFor(q, g, d)
      BY <1>3, <2>2
    <3>2. PICK d \in Borrowed(q) : ins = HookFor(q, g, d)
      BY <3>1
    <3> QED BY <1>1, <1>5, <3>2, HookForSound
  <2> QED BY <2>1, <2>2
<1>7. /\ RecsSound(app, Len(items) + Len(ins)) /\ AppSound(Global, app)
      /\ \A k \in DOMAIN app : app[k].client = NoClient
  <2> DEFINE n == Len(ins)
             all == app
  <2>1. n \in Nat /\ all = EventHook(n) /\ Len(items) + n + Len(all) <= MaxItems
    BY <1>4, <1>5
  <2> HIDE DEF n, all, app
  <2>2. /\ RecsSound(all, Len(items) + n) /\ AppSound(Global, all)
        /\ \A k \in DOMAIN all : all[k].client = NoClient
    BY <2>1, EventHookSound
  <2> QED BY <2>2 DEF n, all
<1>8. Fire(q, ins, app, ret)
  BY <1>2
<1> HIDE DEF app
<1>9. FireSound(q, ins, app, ret)
  BY <1>1, <1>6, <1>7, <1>8 DEF FireSound
<1>10. FireHistory(q, ret) /\ FireWaits(q, ret) /\ FireJobs(q, ret, NoClient)
  BY <1>1, WaitsPlain DEF FireHistory, FireJobs
<1>11. FireOwners(ins, app)
  BY <1>6, <1>7 DEF FireOwners
<1> QED BY <1>2, <1>9, <1>10, <1>11, FireKept

LEMMA RunWakeKept ==
  ASSUME IInv, NEW q \in Queues, NEW x, RunWake(q, x)
  PROVE  IInv'
<1>1. /\ ToFire(q) /\ Fire(q, <<>>, <<>>, "normal") /\ FireRefs(q, <<>>, "normal", NoClient)
      /\ ran' = Append(ran, Head_(q)) /\ waits' = waits \ {x} /\ x \notin JobItems
      /\ jobs' = jobs /\ failed' = failed
  BY DEF RunWake, Executes, Ran
<1>2. FireSound(q, <<>>, <<>>, "normal")
  BY <1>1, NoneSound DEF FireSound
<1>3. FireWaits(q, "normal")
  BY <1>1 DEF FireWaits
<1>4. FireHistory(q, "normal") /\ FireJobs(q, "normal", NoClient) /\ FireOwners(<<>>, <<>>)
  BY <1>1, NoneSound DEF FireHistory, FireJobs, FireOwners
<1> QED BY <1>1, <1>2, <1>3, <1>4, FireKept

LEMMA RunKeyKept ==
  ASSUME IInv, NEW q \in Queues, NEW n \in {0} \cup Lengths, RunKey(q, n)
  PROVE  IInv'
<1> DEFINE c == items[Head_(q)].client
           ins == Commands(n, NextId, KeyGroup, c, TRUE, Head_(q))
<1>1. /\ ToFire(q) /\ list[q] # <<>> /\ items[Head_(q)].kind = "key"
      /\ waits' = waits /\ jobs' = jobs /\ ran' = ran /\ failed' = failed
  BY DEF RunKey, ToFire, Ready
<1>2. Fire(q, ins, <<>>, "normal") /\ FireRefs(q, ins, "normal", NoClient)
  BY DEF RunKey
<1>3. n \in Nat /\ Len(ins) = n /\ Len(<<>>) = 0 /\ c \in Borrowed(q)
  <2>1. n \in Nat
    BY QueueAssumption DEF Lengths
  <2>2. Len(ins) = n
    BY <2>1 DEF Commands
  <2> QED BY <1>1, <2>1, <2>2, BorrowedIs
<1>4. Len(items) + Len(ins) <= MaxItems
  <2> HIDE DEF ins, c
  <2> QED BY <1>2, <1>3, RoomIs
<1>5. KeyGroup \in 1 .. MaxItems + 1
  BY QueueAssumption DEF KeyGroup
<1>6. items[Head_(q)].hooks
  <2>1. Head_(q) \in DOMAIN items
    BY <1>1, HeadIs DEF Head_
  <2> QED BY <1>1, <2>1 DEF IInv, HooksSound
<1>7. /\ RecsSound(ins, Len(items)) /\ InsSound(q, ins)
      /\ \A k \in DOMAIN ins : Owner(ins[k].client)
  <2> DEFINE all == ins
             hk == TRUE
             g == KeyGroup
             d == c
  <2>1. /\ all = Commands(n, NextId, g, d, hk, Head_(q)) /\ (hk => items[Head_(q)].hooks)
        /\ hk \in BOOLEAN /\ g \in 1 .. MaxItems + 1 /\ Len(items) + Len(all) <= MaxItems
        /\ d \in Borrowed(q)
    BY <1>3, <1>4, <1>5, <1>6
  <2> HIDE DEF all, hk, g, d, ins, c
  <2>2. /\ RecsSound(all, Len(items)) /\ InsSound(q, all)
        /\ \A k \in DOMAIN all : Owner(all[k].client)
    BY <1>1, <1>3, <2>1, NestedSound
  <2> QED BY <2>2 DEF all
<1> HIDE DEF ins, c
<1>8. FireSound(q, ins, <<>>, "normal")
  BY <1>1, <1>2, <1>7, NoneSound DEF FireSound
<1>9. /\ FireHistory(q, "normal") /\ FireWaits(q, "normal") /\ FireJobs(q, "normal", NoClient)
      /\ FireOwners(ins, <<>>)
  BY <1>1, <1>7, NoneSound DEF FireHistory, FireWaits, FireJobs, FireOwners
<1> QED BY <1>2, <1>8, <1>9, FireKept

LEMMA RunOtherKept ==
  ASSUME IInv, NEW q \in Queues, RunCallback(q) \/ RunDead(q)
  PROVE  IInv'
<1>1. PICK ret \in {"normal", "error"} :
        /\ ToFire(q) /\ (ret = "error" => IsCommand(q))
        /\ Fire(q, <<>>, <<>>, ret) /\ FireRefs(q, <<>>, ret, NoClient)
        /\ waits' = waits /\ jobs' = jobs /\ ran' = ran /\ failed' = failed
  <2>1. CASE RunCallback(q)
    BY <2>1 DEF RunCallback
  <2>2. CASE RunDead(q)
    BY <2>2 DEF RunDead
  <2> QED BY <2>1, <2>2
<1>2. FireSound(q, <<>>, <<>>, ret)
  BY <1>1, NoneSound DEF FireSound
<1>3. /\ FireHistory(q, ret) /\ FireWaits(q, ret) /\ FireJobs(q, ret, NoClient)
      /\ FireOwners(<<>>, <<>>)
  BY <1>1, NoneSound DEF FireHistory, FireWaits, FireJobs, FireOwners
<1> QED BY <1>1, <1>2, <1>3, FireKept
-----------------------------------------------------------------------------
(* Steps that execute nothing: the items change lists only.                *)

(* What a client holds by itself and through jobs.                         *)
Own(c) == (IF c \in Live THEN 1 ELSE 0) + JobsOf(c)

LEMMA OwnIs ==
  ASSUME IInv
  PROVE  \A c \in Clients : JobsOf(c) \in Nat /\ Own(c) \in Nat
                            /\ refs[c] = Own(c) + Held(c) /\ refs[c] \in Nat
<1> SUFFICES ASSUME NEW c \in Clients
             PROVE  JobsOf(c) \in Nat /\ Own(c) \in Nat
                    /\ refs[c] = Own(c) + Held(c) /\ refs[c] \in Nat
  OBVIOUS
<1>1. JobsOf(c) \in Nat
  <2>1. {j \in jobs : j.client = c} \in SUBSET jobs /\ IsFiniteSet(jobs)
    BY DEF IInv, Typed
  <2> QED BY <2>1, FS_Subset, FS_CardinalityType DEF JobsOf
<1>2. Held(c) \in Nat
  <2>1. Held(c) = HeldBy(Listed, c)
    BY DEF Held, HeldBy
  <2> QED BY <2>1, ListedFinite
<1>3. refs[c] = (IF c \in Live THEN 1 ELSE 0) + Held(c) + JobsOf(c)
  BY DEF IInv, RefsExact, Held, JobsOf
<1>4. CASE c \in Live
  BY <1>1, <1>2, <1>3, <1>4 DEF Own
<1>5. CASE c \notin Live
  BY <1>1, <1>2, <1>3, <1>5 DEF Own
<1> QED BY <1>4, <1>5

(* The counts are exact again if what they change by is what is held.      *)
LEMMA CountsExact ==
  ASSUME refs' = [c \in Clients |-> refs'[c]],
         \A c \in Clients : Own(c)' \in Nat /\ Held(c)' \in Nat /\ JobsOf(c)' \in Nat,
         \A c \in Clients : refs'[c] = Own(c)' + Held(c)'
  PROVE  RefsExact' /\ refs' \in [Clients -> Nat]
<1>1. RefsExact'
  <2> SUFFICES ASSUME NEW c \in Clients
               PROVE  refs'[c] = (IF c \in Live' THEN 1 ELSE 0)
                                   + Cardinality({x \in Listed' : items'[x].client = c})
                                   + Cardinality({j \in jobs' : j.client = c})
    BY DEF RefsExact
  <2> DEFINE held == Cardinality({x \in Listed' : items'[x].client = c})
             of == Cardinality({j \in jobs' : j.client = c})
  <2>1. /\ Held(c)' = held /\ JobsOf(c)' = of
        /\ Own(c)' = (IF c \in Live' THEN 1 ELSE 0) + of
    BY DEF Held, JobsOf, Own
  <2> DEFINE l == IF c \in Live' THEN 1 ELSE 0
             r == refs'[c]
  <2>2. held \in Nat /\ of \in Nat
    BY <2>1
  <2>3. r = (l + of) + held
    BY <2>1
  <2>4. l \in Nat
    OBVIOUS
  <2> HIDE DEF held, of, l, r
  <2>5. r = l + held + of
    BY <2>2, <2>3, <2>4
  <2> QED BY <2>5 DEF held, of, l, r
<1>2. \A c \in Clients : refs'[c] \in Nat
  <2> SUFFICES ASSUME NEW c \in Clients PROVE refs'[c] \in Nat
    OBVIOUS
  <2> DEFINE a == Own(c)'
             b == Held(c)'
  <2>1. refs'[c] = a + b /\ a \in Nat /\ b \in Nat
    OBVIOUS
  <2> HIDE DEF a, b
  <2> QED BY <2>1
<1> QED BY <1>1, <1>2

OthersTyped ==
  /\ current \in [Queues -> 0 .. MaxItems]
  /\ clients \in Seq(Clients) /\ dead \subseteq Clients /\ freed \subseteq Clients
  /\ refs \in [Clients -> Nat]
  /\ phase \in Queues \cup {"poll"}
  /\ phase \in Clients => phase \in Live

LEMMA MoveKept ==
  ASSUME IInv, NEW q, NEW pre, NEW ins, NEW rest, NEW g, NEW app,
         SpliceSound(q, pre, ins, rest, g, app),
         ran' = ran, failed' = failed, jobs' \subseteq jobs,
         \A x \in fired : x \in Listed' => x \in fired',
         WaitsSound', CurrentSound', OwnersSound', RefsExact', OthersTyped'
  PROVE  IInv'
<1>1. ItemsStep /\ MadeSound /\ MadeHooks /\ ListStep
  BY SpliceItems, SpliceMadeSound, SpliceLists
<1>2. ItemsMade' /\ HooksSound' /\ ListsSound'
  BY <1>1, ItemsMadeKept, HooksKept, ListsKept
<1>3. \A x : x \in Listed' <=> \E r \in Queues : x \in Elems(list'[r])
  BY SpliceListed
<1>4. RanStep({})
  BY <1>3 DEF RanStep, Elems
<1>5. UNCHANGED <<ran, failed>>
  OBVIOUS
<1>6. /\ OrderLeft' /\ InsertedFirst' /\ InOrder' /\ ErrorStops'
      /\ \A i, j \in DOMAIN ran' : ran'[i] = ran'[j] => i = j
      /\ \A x \in Elems(ran') : \A r \in Queues : x \in Elems(list'[r]) => x \in fired'
  BY <1>1, <1>4, <1>5, RanKept
<1>7. RanSound'
  <2>1. \A j \in jobs' : j.made \in Elems(ran')
    BY DEF IInv, RanSound, Elems
  <2> QED BY <1>3, <1>6, <2>1 DEF RanSound, Elems
<1>8. Typed'
  <2>1. items' \in Seq(ItemRecords) /\ Len(items') <= MaxItems
    BY <1>1 DEF ItemsStep
  <2>2. list' \in [Queues -> Seq(DOMAIN items')]
    BY <1>1 DEF ListStep
  <2>3. ran' \in Seq(DOMAIN items') /\ failed' \subseteq Elems(ran')
    <3>1. ran \in Seq(DOMAIN items) /\ failed \subseteq Elems(ran)
      BY DEF IInv, Typed
    <3>2. DOMAIN items \subseteq DOMAIN items'
      BY <1>1, MadeIs
    <3>3. ran \in Seq(DOMAIN items')
      BY <3>1, <3>2, SeqMonotonic
    <3> QED BY <3>1, <3>3
  <2>4. jobs' \subseteq JobRecords /\ IsFiniteSet(jobs')
    <3>1. jobs \subseteq JobRecords /\ IsFiniteSet(jobs) /\ jobs' \in SUBSET jobs
      BY DEF IInv, Typed
    <3> QED BY <3>1, FS_Subset
  <2> QED BY <2>1, <2>2, <2>3, <2>4
          DEF Typed, OthersTyped, Queues, Elems, ItemRecords, JobRecords, Live
<1> QED BY <1>2, <1>6, <1>7, <1>8 DEF IInv

(* The heads that wait stay heads, if what is cut is not waiting.          *)
LEMMA MoveHeads ==
  ASSUME IInv, NEW q, NEW pre, NEW ins, NEW rest, NEW g, NEW app,
         SpliceSound(q, pre, ins, rest, g, app),
         NEW x \in fired, q # NoClient /\ x = Head(list[q]) => pre = <<x>>
  PROVE  \E r \in Queues : list'[r] # <<>> /\ x = Head(list'[r])
<1>1. PICK r \in Queues : list[r] # <<>> /\ x = Head(list[r])
  BY DEF IInv, WaitsSound, IsHead
<1>2. r = q => pre = <<Head(list[q])>>
  BY <1>1, QueueAssumption DEF Queues
<1> QED BY <1>1, <1>2, SpliceHeads

LEMMA RemoveFiredKept ==
  ASSUME IInv, NEW q \in Queues, RemoveFired(q)
  PROVE  IInv'
<1> DEFINE h == Head_(q)
           rest == Tail(list[q])
<1>1. /\ phase = q /\ list[q] # <<>> /\ h \notin waits /\ h \in fired
      /\ list' = [list EXCEPT ![q] = rest] /\ fired' = fired \ {h}
      /\ refs' = [c \in Clients |-> refs[c] - (IF items[h].client = c THEN 1 ELSE 0)]
      /\ items' = items /\ current' = current /\ waits' = waits /\ jobs' = jobs
      /\ clients' = clients /\ dead' = dead /\ freed' = freed /\ phase' = phase
      /\ ran' = ran /\ failed' = failed
  BY DEF RemoveFired, Ready, clientVars, historyVars
<1>2. /\ list \in [Queues -> Seq(DOMAIN items)] /\ items \in Seq(ItemRecords)
      /\ Len(items) <= MaxItems /\ Len(items) \in Nat /\ Global \in Queues
  BY TypedItems DEF IInv, Typed, Queues
<1>3. list[q] \in Seq(DOMAIN items) /\ Distinct(list[q]) /\ q # NoClient
  BY <1>2, QueueAssumption DEF IInv, ListsSound, Queues
<1>4. /\ rest \in Seq(DOMAIN items) /\ Elems(list[q]) = {h} \cup Elems(rest)
      /\ Distinct(rest) /\ h \notin Elems(rest)
  BY <1>1, <1>3, HeadTailIs, HeadFirst DEF Head_
<1>5. SpliceSound(q, <<>>, <<>>, rest, Global, <<>>)
  <2>1. items' = (items \o <<>>) \o <<>>
    BY <1>1, <1>2, ConcatEmptySeq
  <2>2. Numbers(Len(items), <<>>) = <<>> /\ Numbers(Len(items) + 0, <<>>) = <<>>
    BY DEF Numbers
  <2>3. ASSUME NEW r \in Queues
        PROVE  list'[r] = Front(r, q, <<>>, <<>>, rest) \o Back(r, Global, <<>>, <<>>)
    <3>1. Back(r, Global, <<>>, <<>>) = <<>>
      BY <2>2 DEF Back
    <3>2. CASE r = q
      <4>1. Front(r, q, <<>>, <<>>, rest) = rest
        <5>1. <<>> \o rest = rest
          BY <1>4, ConcatEmptySeq
        <5> HIDE DEF rest
        <5> QED BY <2>2, <3>2, <5>1 DEF Front
      <4>2. rest \o <<>> = rest /\ list'[r] = rest
        BY <1>1, <1>2, <1>4, <3>2, ConcatEmptySeq
      <4> QED BY <3>1, <4>1, <4>2
    <3>3. CASE r # q
      <4>1. Front(r, q, <<>>, <<>>, rest) = list[r] /\ list'[r] = list[r]
        BY <1>1, <1>2, <3>3 DEF Front
      <4>2. list[r] \o <<>> = list[r]
        BY <1>2, ConcatEmptySeq
      <4> QED BY <3>1, <4>1, <4>2
    <3> QED BY <3>2, <3>3
  <2>4. list' = [r \in Queues |-> list'[r]]
    BY <1>1, <1>2
  <2>5. Spliced(q, <<>>, <<>>, rest, Global, <<>>)
    <3> HIDE DEF rest
    <3> QED BY <1>2, <2>1, <2>3, <2>4 DEF Spliced
  <2>6. CutSound(q, <<>>, <<>>, rest)
    BY <1>1, <1>3, <1>4 DEF CutSound
  <2> QED BY <2>5, <2>6, NoneSound DEF SpliceSound
<1>6. \A x : x \in Listed' <=> x \in Listed /\ x # h
  <2>1. Elems(<<>>) = {} /\ NewIns(<<>>) = {} /\ NewApp(<<>>, <<>>) = {}
    BY <1>2 DEF NewIns, NewApp, Elems
  <2>2. Out(q, <<>>, rest) = {h}
    BY <1>3, <1>4, <2>1 DEF Out
  <2> HIDE DEF rest, h
  <2> QED BY <1>5, <2>1, <2>2, SpliceListed
<1> HIDE DEF rest, h
<1>7. WaitsSound'
  <2>1. \A x \in fired' : \E r \in Queues : list'[r] # <<>> /\ x = Head(list'[r])
    BY <1>1, <1>5, MoveHeads DEF h, Head_
  <2> QED BY <1>1, <2>1 DEF IInv, WaitsSound, IsHead, Queues
<1>8. CurrentSound'
  <2> SUFFICES ASSUME NEW r \in Queues, r # phase, current[r] # 0
               PROVE  list'[r] # <<>> /\ current[r] = Head(list'[r])
    BY <1>1 DEF CurrentSound, HeadOrNull, Head_, Queues
  <2>1. list[r] # <<>> /\ current[r] = Head(list[r])
    BY DEF IInv, CurrentSound, HeadOrNull, Head_
  <2> QED BY <1>1, <1>5, <2>1, SpliceHeads
<1>9. Live' = Live
  BY <1>1 DEF Live
<1>10. OwnersSound'
  BY <1>1, <1>6, <1>9 DEF IInv, OwnersSound
<1>11. RefsExact' /\ refs' \in [Clients -> Nat]
  <2>1. \A c \in Clients : Own(c)' = Own(c) /\ JobsOf(c)' = JobsOf(c)
    BY <1>1, <1>9 DEF Own, JobsOf
  <2>2. \A c \in Clients : HeldBy(Out(q, <<>>, rest), c) = IF items[h].client = c THEN 1 ELSE 0
    <3>1. Out(q, <<>>, rest) = {h}
      BY <1>3, <1>4, EmptyIs DEF Out
    <3>2. ASSUME NEW c PROVE HeldBy({h}, c) = IF items[h].client = c THEN 1 ELSE 0
      <4>1. CASE items[h].client = c
        <5>1. {x \in {h} : items[x].client = c} = {h}
          BY <4>1
        <5> QED BY <4>1, <5>1, FS_Singleton DEF HeldBy
      <4>2. CASE items[h].client # c
        <5>1. {x \in {h} : items[x].client = c} = {}
          BY <4>2
        <5> QED BY <4>2, <5>1, FS_EmptySet DEF HeldBy
      <4> QED BY <4>1, <4>2
    <3> QED BY <3>1, <3>2
  <2>3. ASSUME NEW c \in Clients
        PROVE  /\ Held(c)' = Held(c) - (IF items[h].client = c THEN 1 ELSE 0)
               /\ Held(c)' \in Nat /\ Held(c) \in Nat
    <3> DEFINE held == Held(c)'
               out == HeldBy(Out(q, <<>>, rest), c)
               none == CountOf(c, <<>>)
    <3>1. /\ held = Held(c) + none + none - out
          /\ held \in Nat /\ Held(c) \in Nat /\ out \in Nat
      BY <1>5, SpliceHeld
    <3>2. none = 0 /\ out = IF items[h].client = c THEN 1 ELSE 0
      BY <2>2, NoneSound
    <3> HIDE DEF held, out, none
    <3>3. held = Held(c) - out
      BY <3>1, <3>2
    <3> QED BY <3>1, <3>2, <3>3 DEF held
  <2>4. ASSUME NEW c \in Clients PROVE refs'[c] = Own(c)' + Held(c)'
    <3> DEFINE held == Held(c)'
               own == Own(c)'
               d == IF items[h].client = c THEN 1 ELSE 0
    <3>1. /\ held = Held(c) - d /\ own = Own(c) /\ refs'[c] = refs[c] - d
          /\ refs[c] = Own(c) + Held(c) /\ Own(c) \in Nat /\ Held(c) \in Nat /\ d \in Nat
      BY <1>1, <2>1, <2>3, OwnIs
    <3> HIDE DEF held, own, d
    <3>2. refs'[c] = own + held
      BY <3>1
    <3> QED BY <3>2 DEF own, held
  <2>5. refs' = [c \in Clients |-> refs'[c]]
    BY <1>1
  <2>6. \A c \in Clients : Own(c)' \in Nat /\ Held(c)' \in Nat /\ JobsOf(c)' \in Nat
    BY <2>1, <2>3, OwnIs
  <2> QED BY <2>4, <2>5, <2>6, CountsExact
<1>12. OthersTyped'
  BY <1>1, <1>9, <1>11 DEF IInv, Typed, OthersTyped, Queues
<1> QED BY <1>1, <1>5, <1>6, <1>7, <1>8, <1>10, <1>11, <1>12, MoveKept
(* Items added at the end of a list, or nowhere.                           *)
LEMMA AppendSplice ==
  ASSUME IInv, NEW g \in Queues, NEW recs,
         RecsSound(recs, Len(items)), AppSound(g, recs), Append_(g, recs)
  PROVE  SpliceSound(NoClient, <<>>, <<>>, <<>>, g, recs)
<1> DEFINE new == Numbers(Len(items), recs)
<1>1. /\ Len(items) + Len(recs) <= MaxItems /\ items' = items \o recs
      /\ list' = [list EXCEPT ![g] = @ \o new]
  BY DEF Append_, Room
<1>2. /\ list \in [Queues -> Seq(DOMAIN items)] /\ items \in Seq(ItemRecords)
      /\ Len(items) \in Nat /\ NoClient \notin Queues
  BY TypedItems, QueueAssumption DEF IInv, Typed, Queues
<1>3. items \o <<>> = items
  BY <1>2, ConcatEmptySeq
<1>4. Len(<<>>) = 0 /\ Len(items) + Len(<<>>) = Len(items)
  BY <1>2
<1>5. ASSUME NEW r \in Queues
      PROVE  list'[r] = Front(r, NoClient, <<>>, <<>>, <<>>) \o Back(r, g, <<>>, recs)
  <2>1. Front(r, NoClient, <<>>, <<>>, <<>>) = list[r]
    BY <1>2 DEF Front
  <2>2. CASE r = g
    <3>1. Back(r, g, <<>>, recs) = new
      BY <1>4, <2>2 DEF Back
    <3>2. list'[r] = list[r] \o new
      <4> HIDE DEF new
      <4> QED BY <1>1, <1>2, <2>2
    <3> QED BY <2>1, <3>1, <3>2
  <2>3. CASE r # g
    <3>1. Back(r, g, <<>>, recs) = <<>> /\ list'[r] = list[r]
      <4> HIDE DEF new
      <4> QED BY <1>1, <1>2, <2>3 DEF Back
    <3>2. list[r] \o <<>> = list[r]
      BY <1>2, ConcatEmptySeq
    <3> QED BY <2>1, <3>1, <3>2
  <2> QED BY <2>2, <2>3
<1>6. list' = [r \in Queues |-> list'[r]]
  <2> HIDE DEF new
  <2> QED BY <1>1, <1>2
<1>7. Spliced(NoClient, <<>>, <<>>, <<>>, g, recs)
  <2>1. Len(items) + Len(<<>>) + Len(recs) <= MaxItems
    BY <1>1, <1>4
  <2>2. items' = (items \o <<>>) \o recs
    BY <1>1, <1>3
  <2>3. list' = [r \in Queues |-> Front(r, NoClient, <<>>, <<>>, <<>>)
                                    \o Back(r, g, <<>>, recs)]
    <3> HIDE DEF new
    <3> QED BY <1>5, <1>6
  <2> QED BY <2>1, <2>2, <2>3 DEF Spliced
<1>8. CutSound(NoClient, <<>>, <<>>, <<>>)
  BY DEF CutSound
<1> QED BY <1>4, <1>7, <1>8, NoneSound DEF SpliceSound

LEMMA NoSplice ==
  ASSUME IInv, items' = items, list' = list
  PROVE  SpliceSound(NoClient, <<>>, <<>>, <<>>, Global, <<>>)
<1>1. /\ list \in [Queues -> Seq(DOMAIN items)] /\ items \in Seq(ItemRecords)
      /\ Len(items) \in Nat /\ Len(items) <= MaxItems /\ Global \in Queues
  BY TypedItems DEF IInv, Typed, Queues
<1>2. items \o <<>> = items /\ list[Global] \o <<>> = list[Global] /\ Len(<<>>) = 0
  BY <1>1, ConcatEmptySeq
<1>3. Numbers(Len(items), <<>>) = <<>>
  BY DEF Numbers
<1>4. Room(Len(<<>>)) /\ items' = items \o <<>>
  BY <1>1, <1>2 DEF Room
<1>5. list' = [list EXCEPT ![Global] = @ \o Numbers(Len(items), <<>>)]
  <2>1. [list EXCEPT ![Global] = list[Global]] = list
    BY <1>1
  <2> QED BY <1>2, <1>3, <2>1
<1>6. Append_(Global, <<>>)
  BY <1>4, <1>5 DEF Append_
<1> QED BY <1>1, <1>6, NoneSound, AppendSplice

(* Steps that change neither items nor lists.                              *)
LEMMA StillKept ==
  ASSUME IInv, items' = items, list' = list, fired' = fired,
         ran' = ran, failed' = failed, jobs' \subseteq jobs,
         WaitsSound', CurrentSound', OwnersSound', RefsExact', OthersTyped'
  PROVE  IInv'
BY NoSplice, MoveKept

(* The jobs for c that end.                                                *)
Gone(c) == Cardinality({j \in jobs \ jobs' : j.client = c})

LEMMA JobsGone ==
  ASSUME IInv, jobs' \subseteq jobs, NEW c
  PROVE  JobsOf(c)' = JobsOf(c) - Gone(c)
         /\ JobsOf(c)' \in Nat /\ JobsOf(c) \in Nat /\ Gone(c) \in Nat
<1> DEFINE A == {j \in jobs : j.client = c}
           B == {j \in jobs' : j.client = c}
           D == {j \in jobs \ jobs' : j.client = c}
<1>1. A \in SUBSET jobs /\ IsFiniteSet(jobs)
  BY DEF IInv, Typed
<1>2. IsFiniteSet(A)
  BY <1>1, FS_Subset
<1>3. D \in SUBSET A /\ B = A \ D /\ A \cap D = D
  OBVIOUS
<1>4. JobsOf(c) = Cardinality(A) /\ JobsOf(c)' = Cardinality(B) /\ Gone(c) = Cardinality(D)
  BY DEF JobsOf, Gone
<1> HIDE DEF A, B, D
<1>5. IsFiniteSet(D)
  BY <1>2, <1>3, FS_Subset
<1>6. IsFiniteSet(A \ D) /\ Cardinality(A \ D) = Cardinality(A) - Cardinality(A \cap D)
  BY <1>2, <1>5, FS_Difference
<1>7. Cardinality(A) \in Nat /\ Cardinality(D) \in Nat /\ Cardinality(B) \in Nat
  BY <1>2, <1>3, <1>5, <1>6, FS_CardinalityType
<1> QED BY <1>3, <1>4, <1>6, <1>7

LEMMA GoneIs ==
  /\ jobs' = jobs => \A c : Gone(c) = 0
  /\ \A j \in jobs : jobs' = jobs \ {j} => \A c : Gone(c) = IF j.client = c THEN 1 ELSE 0
<1>1. ASSUME jobs' = jobs, NEW c PROVE Gone(c) = 0
  <2>1. {j \in jobs \ jobs' : j.client = c} = {}
    BY <1>1
  <2> QED BY <2>1, FS_EmptySet DEF Gone
<1>2. ASSUME NEW j \in jobs, jobs' = jobs \ {j}, NEW c
      PROVE  Gone(c) = IF j.client = c THEN 1 ELSE 0
  <2>1. CASE j.client = c
    <3>1. {k \in jobs \ jobs' : k.client = c} = {j}
      BY <1>2, <2>1
    <3> QED BY <2>1, <3>1, FS_Singleton DEF Gone
  <2>2. CASE j.client # c
    <3>1. {k \in jobs \ jobs' : k.client = c} = {}
      BY <1>2, <2>2
    <3> QED BY <2>2, <3>1, FS_EmptySet DEF Gone
  <2> QED BY <2>1, <2>2
<1> QED BY <1>1, <1>2

(* Items are added and none goes, and jobs may end.                        *)
AddOwners(ins, app) ==
  /\ \A k \in DOMAIN ins : Owner(ins[k].client)
  /\ \A k \in DOMAIN app : Owner(app[k].client)
AddStays(q, pre, rest) ==
  q # NoClient => pre = <<Head(list[q])>> /\ rest = Tail(list[q])
AddOthers ==
  /\ fired' = fired /\ clients' = clients /\ dead' = dead /\ freed' = freed
  /\ current' = current /\ phase' = phase /\ ran' = ran /\ failed' = failed
AddJobs ==
  /\ jobs' \subseteq jobs /\ waits' \subseteq waits
  /\ \A j \in jobs' : j.item # 0 => j.item \in waits'
AddRefs(ins, app) ==
  /\ refs' = [c \in Clients |-> refs'[c]]
  /\ \A c \in Clients : refs'[c] = refs[c] + CountOf(c, ins) + CountOf(c, app) - Gone(c)

LEMMA AddKept ==
  ASSUME IInv, NEW q, NEW pre, NEW ins, NEW rest, NEW g, NEW app,
         SpliceSound(q, pre, ins, rest, g, app), AddStays(q, pre, rest),
         AddOwners(ins, app), AddOthers, AddJobs, AddRefs(ins, app)
  PROVE  IInv'
<1>1. Live' = Live /\ jobs' \subseteq jobs
  BY DEF AddOthers, AddJobs, Live
<1>2. Out(q, pre, rest) = {}
  <2>1. CASE q = NoClient
    BY <2>1 DEF Out
  <2>2. CASE q # NoClient
    <3>1. q \in Queues /\ list[q] # <<>>
      BY <2>2 DEF SpliceSound, Spliced, CutSound
    <3>2. list[q] \in Seq(DOMAIN items) /\ Head(list[q]) \in DOMAIN items
      BY <3>1, ListedIs, HeadIs
    <3>3. Elems(list[q]) = {Head(list[q])} \cup Elems(Tail(list[q]))
      BY <3>1, <3>2, HeadTailIs
    <3>4. Elems(pre) = {Head(list[q])} /\ rest = Tail(list[q])
      BY <2>2, <3>2, SingleIs DEF AddStays
    <3> QED BY <2>2, <3>3, <3>4 DEF Out
  <2> QED BY <2>1, <2>2
<1>3. \A x \in fired : \E r \in Queues : list'[r] # <<>> /\ x = Head(list'[r])
  BY MoveHeads DEF AddStays
<1>4. WaitsSound'
  BY <1>1, <1>3 DEF IInv, WaitsSound, IsHead, Queues, AddOthers, AddJobs
<1>5. CurrentSound'
  <2> SUFFICES ASSUME NEW r \in Queues, r # phase, current[r] # 0
               PROVE  list'[r] # <<>> /\ current[r] = Head(list'[r])
    BY DEF CurrentSound, HeadOrNull, Head_, Queues, AddOthers
  <2>1. list[r] # <<>> /\ current[r] = Head(list[r])
    BY DEF IInv, CurrentSound, HeadOrNull, Head_
  <2>2. r = q => pre = <<Head(list[q])>>
    BY QueueAssumption DEF AddStays, Queues
  <2> QED BY <2>1, <2>2, SpliceHeads
<1>6. ASSUME NEW x \in Listed' PROVE Owner(items'[x].client)
  <2>1. CASE x \in Listed
    <3>1. items'[x] = items[x]
      BY <2>1, SpliceItems, ListedIs DEF ItemsStep
    <3> QED BY <2>1, <3>1 DEF IInv, OwnersSound, Owner
  <2>2. CASE x \in NewIns(ins)
    <3>1. PICK k \in DOMAIN ins : items'[x] = ins[k]
      BY <2>2, SpliceMade
    <3> QED BY <3>1 DEF AddOwners
  <2>3. CASE x \in NewApp(ins, app)
    <3>1. PICK k \in DOMAIN app : items'[x] = app[k]
      BY <2>3, SpliceMade
    <3> QED BY <3>1 DEF AddOwners
  <2> QED BY <2>1, <2>2, <2>3, SpliceListed
<1>7. OwnersSound'
  <2>1. dead' = dead /\ freed' = freed
    BY DEF AddOthers
  <2> QED BY <1>1, <1>6, <2>1 DEF IInv, OwnersSound, Owner
<1>8. ASSUME NEW c \in Clients
      PROVE  /\ refs'[c] = Own(c)' + Held(c)'
             /\ Own(c)' \in Nat /\ Held(c)' \in Nat /\ JobsOf(c)' \in Nat
  <2> DEFINE held == Held(c)'
             own == Own(c)'
             of == JobsOf(c)'
             l == IF c \in Live THEN 1 ELSE 0
             out == HeldBy(Out(q, pre, rest), c)
  <2>1. /\ held = Held(c) + CountOf(c, ins) + CountOf(c, app) - out
        /\ held \in Nat /\ Held(c) \in Nat
        /\ CountOf(c, ins) \in Nat /\ CountOf(c, app) \in Nat
    BY SpliceHeld
  <2>2. out = 0
    <3>1. {x \in Out(q, pre, rest) : items[x].client = c} = {}
      BY <1>2
    <3> QED BY <3>1, FS_EmptySet DEF HeldBy
  <2>3. of = JobsOf(c) - Gone(c) /\ of \in Nat /\ JobsOf(c) \in Nat /\ Gone(c) \in Nat
    BY <1>1, JobsGone
  <2>4. own = l + of /\ Own(c) = l + JobsOf(c) /\ l \in Nat
    BY <1>1 DEF Own
  <2>5. refs[c] = Own(c) + Held(c)
    BY OwnIs
  <2>6. refs'[c] = refs[c] + CountOf(c, ins) + CountOf(c, app) - Gone(c)
    BY DEF AddRefs
  <2> HIDE DEF held, own, of, l, out
  <2>7. own \in Nat /\ held \in Nat /\ of \in Nat
    BY <2>1, <2>3, <2>4
  <2>8. refs'[c] = own + held
    BY <2>1, <2>2, <2>3, <2>4, <2>5, <2>6
  <2> QED BY <2>7, <2>8 DEF held, own, of
<1>9. RefsExact' /\ refs' \in [Clients -> Nat]
  <2>1. refs' = [c \in Clients |-> refs'[c]]
    BY DEF AddRefs
  <2> QED BY <1>8, <2>1, CountsExact
<1>10. OthersTyped'
  BY <1>1, <1>9 DEF IInv, Typed, OthersTyped, Queues, AddOthers
<1>11. ran' = ran /\ failed' = failed /\ fired' = fired
  BY DEF AddOthers
<1> QED BY <1>1, <1>4, <1>5, <1>7, <1>9, <1>10, <1>11, MoveKept

(* A callback of the event loop appends items to a list.                   *)
LEMMA AppendKept ==
  ASSUME IInv, NEW g \in Queues, NEW recs, Append_(g, recs),
         RecsSound(recs, Len(items)), AppSound(g, recs),
         \A k \in DOMAIN recs : Owner(recs[k].client), AddOthers, AddJobs,
         refs' = [c \in Clients |-> refs'[c]],
         \A c \in Clients : refs'[c] = refs[c] + CountOf(c, recs) - Gone(c)
  PROVE  IInv'
<1>1. SpliceSound(NoClient, <<>>, <<>>, <<>>, g, recs)
  BY AppendSplice
<1>2. AddStays(NoClient, <<>>, <<>>)
  BY DEF AddStays
<1>3. AddOwners(<<>>, recs)
  BY DEF AddOwners
<1>4. AddRefs(<<>>, recs)
  <2>1. \A c \in Clients : refs[c] \in Nat /\ CountOf(c, <<>>) = 0
    BY OwnIs, NoneSound
  <2>2. \A c \in Clients : refs[c] + CountOf(c, <<>>) = refs[c]
    BY <2>1
  <2> QED BY <2>2 DEF AddRefs
<1> QED BY <1>1, <1>2, <1>3, <1>4, AddKept

(* Records for c that come from no item and are of no hook.                *)
Plain(recs, c) ==
  \A k \in DOMAIN recs :
    recs[k].parent = 0 /\ recs[k].client = c /\ ~IsHookGroup(recs[k].group)

LEMMA PlainKept ==
  ASSUME IInv, NEW g \in Queues, NEW recs, NEW c, Append_(g, recs),
         RecsSound(recs, Len(items)), Plain(recs, c), g \in Clients => c = g,
         Owner(c), AddOthers, AddJobs,
         refs' = [d \in Clients |-> refs'[d]],
         \A d \in Clients :
           refs'[d] = refs[d] + (IF d = c THEN Len(recs) ELSE 0) - Gone(d)
  PROVE  IInv'
<1>1. AppSound(g, recs)
  BY DEF AppSound, Plain
<1>2. \A k \in DOMAIN recs : recs[k].client = c
  BY DEF Plain
<1>3. \A d \in Clients : CountOf(d, recs) = IF d = c THEN Len(recs) ELSE 0
  <2>1. recs \in Seq(ItemRecords)
    BY DEF RecsSound
  <2> QED BY <1>2, <2>1, SameClientCount
<1>4. \A d \in Clients : refs'[d] = refs[d] + CountOf(d, recs) - Gone(d)
  BY <1>3
<1>5. \A k \in DOMAIN recs : Owner(recs[k].client)
  BY <1>2
<1> QED BY <1>1, <1>4, <1>5, AppendKept

LEMMA PlainCommands ==
  ASSUME IInv, NEW n \in Nat, NEW c, Owner(c), Len(items) + n <= MaxItems
  PROVE  LET recs == Commands(n, NextId, NextId, c, TRUE, 0)
         IN  RecsSound(recs, Len(items)) /\ Plain(recs, c) /\ Len(recs) = n
<1> DEFINE recs == Commands(n, NextId, NextId, c, TRUE, 0)
           from == Len(items)
           first == NextId
           hk == TRUE
           group == NextId
           null == 0
<1>1. /\ from \in Nat /\ first = from + 1 /\ MaxItems \in Nat /\ from + n <= MaxItems
      /\ hk \in BOOLEAN /\ null \in 0 .. MaxItems
  BY TypedItems DEF NextId
<1>2. n # 0 => first \in 1 .. MaxItems + 4
  BY <1>1
<1>3. first \in 0 .. MaxItems + 1
  BY <1>1
<1>4. c \in Clients \cup {NoClient}
  BY OwnersTyped
<1>5. recs = Commands(n, first, group, c, hk, null) /\ group = first
  OBVIOUS
<1> HIDE DEF recs, from, first, group, hk, null
<1>6. Fits(recs, n, from, first, group, c, hk, null)
  BY <1>1, <1>2, <1>4, <1>5 DEF Fits
<1>7. /\ RecsSound(recs, from) /\ Len(recs) = n
      /\ \A k \in DOMAIN recs : /\ recs[k].parent = null /\ recs[k].client = c
                                /\ recs[k].hooks = hk /\ recs[k].group = group
  BY <1>6, CommandsSound
<1>8. ~IsHookGroup(group)
  BY <1>3, <1>5, HookGroupIs
<1> QED BY <1>7, <1>8 DEF Plain, recs, from, null

LEMMA PlainCallback ==
  ASSUME NEW kind \in {"key", "done"}, NEW from \in Nat, NEW c \in Clients, NEW recs,
         NEW id, id = from + 1, from + 1 <= MaxItems, recs = Callback(kind, id, c)
  PROVE  RecsSound(recs, from) /\ Plain(recs, c) /\ Len(recs) = 1
<1> DEFINE rec == [kind |-> kind, seq |-> id, group |-> 0, client |-> c,
                   hooks |-> TRUE, parent |-> 0]
<1>1. recs = <<rec>>
  BY DEF Callback
<1>2. /\ rec.kind # "command" /\ rec.seq = from + 1 /\ rec.group = 0 /\ rec.client = c
      /\ rec.hooks = TRUE /\ rec.parent = 0
  OBVIOUS
<1>3. rec \in ItemRecords
  <2>1. id \in 1 .. MaxItems /\ 0 \in 0 .. MaxItems + 4 /\ 0 \in 0 .. MaxItems
    BY QueueAssumption
  <2> QED BY <2>1 DEF ItemRecords
<1>4. ~IsHookGroup(0)
  BY HookGroupIs
<1> HIDE DEF rec
<1>5. recs \in Seq(ItemRecords) /\ DOMAIN recs = {1} /\ recs[1] = rec /\ Len(recs) = 1
  <2> DEFINE R == ItemRecords
             one == <<rec>>
  <2>1. rec \in R
    BY <1>3
  <2> HIDE DEF R
  <2>2. one \in Seq(R) /\ DOMAIN one = {1} /\ one[1] = rec /\ Len(one) = 1
    BY <2>1
  <2> QED BY <1>1, <2>2 DEF R
<1>6. RecsSound(recs, from)
  BY <1>2, <1>5 DEF RecsSound
<1> QED BY <1>2, <1>4, <1>5, <1>6 DEF Plain

LEMMA ConcatSound ==
  ASSUME NEW from \in Nat, NEW a, RecsSound(a, from), NEW b, RecsSound(b, from + Len(a)),
         NEW c, Plain(a, c), Plain(b, c)
  PROVE  RecsSound(a \o b, from) /\ Plain(a \o b, c) /\ Len(a \o b) = Len(a) + Len(b)
<1> DEFINE m == Len(a)
           n == Len(b)
           u == a \o b
           R == ItemRecords
<1>1. a \in Seq(R) /\ b \in Seq(R)
  BY DEF RecsSound
<1>2. m \in Nat /\ n \in Nat /\ DOMAIN a = 1 .. m /\ DOMAIN b = 1 .. n
  BY <1>1
<1>3. /\ u \in Seq(R) /\ Len(u) = m + n
      /\ \A i \in 1 .. m + n : u[i] = IF i <= m THEN a[i] ELSE b[i - m]
  <2> HIDE DEF R
  <2> QED BY <1>1, ConcatProperties
<1>4. DOMAIN u = 1 .. m + n
  <2> HIDE DEF R, u, m, n
  <2> QED BY <1>3
<1>5. \A r \in R : r.seq \in Nat
  BY QueueAssumption DEF ItemRecords
<1> HIDE DEF u, R
<1>6. \A k \in 1 .. m : /\ from < a[k].seq /\ a[k].seq <= from + k /\ a[k].seq \in Nat
                        /\ a[k].kind = "command" => a[k].group # 0
                        /\ a[k].kind # "command" => a[k].hooks
  BY <1>1, <1>2, <1>5, SMTT(30) DEF RecsSound
<1>7. \A k \in 1 .. n : /\ from + m < b[k].seq /\ b[k].seq <= from + m + k /\ b[k].seq \in Nat
                        /\ b[k].kind = "command" => b[k].group # 0
                        /\ b[k].kind # "command" => b[k].hooks
  BY <1>1, <1>2, <1>5 DEF RecsSound
<1>8. /\ \A k, l \in 1 .. m : a[k].seq = a[l].seq => a[k].group = a[l].group
      /\ \A k, l \in 1 .. n : b[k].seq = b[l].seq => b[k].group = b[l].group
  BY <1>2 DEF RecsSound
<1>9. \A k \in 1 .. m, l \in 1 .. n : a[k].seq # b[l].seq
  BY <1>2, <1>6, <1>7
<1> HIDE DEF m, n
<1>10. \A i \in 1 .. m + n : /\ i <= m => i \in 1 .. m /\ u[i] = a[i]
                             /\ ~(i <= m) => i - m \in 1 .. n /\ u[i] = b[i - m]
  BY <1>2, <1>3
<1>11. ASSUME NEW i \in 1 .. m + n
       PROVE  /\ from < u[i].seq /\ u[i].seq <= from + i
              /\ u[i].kind = "command" => u[i].group # 0
              /\ u[i].kind # "command" => u[i].hooks
  <2>1. CASE i <= m
    <3>1. i \in 1 .. m /\ u[i] = a[i]
      BY <1>10, <2>1
    <3> QED BY <1>6, <3>1
  <2>2. CASE ~(i <= m)
    <3> DEFINE k == i - m
               mid == from + m
               seq == u[i].seq
    <3>1. k \in 1 .. n /\ u[i] = b[k]
      BY <1>10, <2>2
    <3>2. mid + k = from + i /\ from <= mid /\ mid \in Nat
      BY <1>2
    <3> HIDE DEF k, mid
    <3>3. mid < seq /\ seq <= mid + k /\ seq \in Nat
      BY <1>7, <3>1 DEF mid
    <3>4. (u[i].kind = "command" => u[i].group # 0) /\ (u[i].kind # "command" => u[i].hooks)
      BY <1>7, <3>1
    <3> HIDE DEF seq
    <3>5. from < seq /\ seq <= from + i
      BY <3>2, <3>3
    <3> QED BY <3>4, <3>5 DEF seq
  <2> QED BY <2>1, <2>2
<1>12. ASSUME NEW i \in 1 .. m + n, NEW j \in 1 .. m + n, u[i].seq = u[j].seq
       PROVE  u[i].group = u[j].group
  <2>1. CASE i <= m /\ j <= m
    BY <1>8, <1>10, <1>12, <2>1
  <2>2. CASE ~(i <= m) /\ ~(j <= m)
    BY <1>8, <1>10, <1>12, <2>2
  <2>3. CASE i <= m /\ ~(j <= m)
    BY <1>9, <1>10, <1>12, <2>3
  <2>4. CASE ~(i <= m) /\ j <= m
    <3>1. u[j].seq # u[i].seq
      BY <1>9, <1>10, <2>4
    <3> QED BY <1>12, <3>1
  <2> QED BY <2>1, <2>2, <2>3, <2>4
<1>13. RecsSound(u, from)
  BY <1>3, <1>4, <1>11, <1>12 DEF RecsSound, R
<1>14. Plain(u, c)
  <2> SUFFICES ASSUME NEW i \in 1 .. m + n
               PROVE  u[i].parent = 0 /\ u[i].client = c /\ ~IsHookGroup(u[i].group)
    BY <1>4 DEF Plain
  <2>1. CASE i <= m
    BY <1>2, <1>10, <2>1 DEF Plain
  <2>2. CASE ~(i <= m)
    <3> DEFINE k == i - m
    <3>1. k \in DOMAIN b /\ u[i] = b[k]
      BY <1>2, <1>10, <2>2
    <3> HIDE DEF k
    <3> QED BY <3>1 DEF Plain
  <2> QED BY <2>1, <2>2
<1> QED BY <1>3, <1>13, <1>14 DEF u, m, n

LEMMA KeyKept ==
  ASSUME IInv, NEW c \in Clients, Key(c)
  PROVE  IInv'
<1> DEFINE recs == Callback("key", NextId, c)
<1>1. /\ c \in Live /\ Append_(c, recs) /\ refs' = [refs EXCEPT ![c] = @ + 1]
      /\ jobs' = jobs /\ waits' = waits /\ AddOthers
  BY DEF Key, clientVars, historyVars, AddOthers
<1>2. AddJobs /\ \A d : Gone(d) = 0
  BY <1>1, GoneIs DEF AddJobs, IInv, WaitsSound
<1>3. Len(recs) = 1
  BY DEF Callback
<1>4. Len(items) \in Nat /\ Len(items) + 1 <= MaxItems /\ NextId = Len(items) + 1
  BY <1>1, <1>3, TypedItems DEF Append_, Room, NextId
<1>5. RecsSound(recs, Len(items)) /\ Plain(recs, c)
  <2> DEFINE from == Len(items)
             kind == "key"
             all == recs
             id == NextId
  <2>1. /\ from \in Nat /\ id = from + 1 /\ from + 1 <= MaxItems
        /\ kind \in {"key", "done"} /\ all = Callback(kind, id, c)
    BY <1>4
  <2> HIDE DEF from, kind, all, id
  <2>2. RecsSound(all, from) /\ Plain(all, c)
    BY <2>1, PlainCallback
  <2> QED BY <2>2 DEF all, from
<1> HIDE DEF recs
<1>6. refs \in [Clients -> Nat]
  BY DEF IInv, Typed
<1>7. /\ refs' = [d \in Clients |-> refs'[d]]
      /\ \A d \in Clients : refs'[d] = refs[d] + (IF d = c THEN Len(recs) ELSE 0) - Gone(d)
  <2>1. refs' = [d \in Clients |-> refs'[d]]
    BY <1>1, <1>6
  <2>2. refs'[c] = refs[c] + 1 - 0 /\ \A d \in Clients : d # c => refs'[d] = refs[d] + 0 - 0
    BY <1>1, <1>6
  <2> QED BY <1>2, <1>3, <2>1, <2>2
<1>8. c \in Queues /\ Owner(c)
  BY <1>1 DEF Queues, Owner
<1> QED BY <1>1, <1>2, <1>5, <1>7, <1>8, PlainKept

LEMMA DispatchKept ==
  ASSUME IInv, NEW c \in Clients, NEW n \in Lengths, Dispatch(c, n)
  PROVE  IInv'
<1> DEFINE a == Commands(n, NextId, NextId, c, TRUE, 0)
           b == Callback("done", NextId + n, c)
           recs == a \o b
<1>1. /\ c \in Live /\ Append_(c, recs) /\ refs' = [refs EXCEPT ![c] = @ + n + 1]
      /\ jobs' = jobs /\ waits' = waits /\ AddOthers
  BY DEF Dispatch, clientVars, historyVars, AddOthers
<1>2. AddJobs /\ \A d : Gone(d) = 0
  BY <1>1, GoneIs DEF AddJobs, IInv, WaitsSound
<1>3. n \in Nat /\ Len(a) = n /\ Len(b) = 1
  BY QueueAssumption DEF Lengths, Commands, Callback
<1>4. Len(recs) = n + 1
  <2> DEFINE r == [kind |-> "command", seq |-> NextId, group |-> NextId,
                   client |-> c, hooks |-> TRUE, parent |-> 0]
             s == [kind |-> "done", seq |-> NextId + n, group |-> 0,
                   client |-> c, hooks |-> TRUE, parent |-> 0]
  <2>1. a = [k \in 1 .. n |-> r] /\ b = <<s>>
    BY DEF Commands, Callback
  <2> HIDE DEF r, s, a, b
  <2> DEFINE T == {r, s}
  <2>2. r \in T /\ s \in T
    OBVIOUS
  <2> HIDE DEF T
  <2>3. a \in Seq(T) /\ b \in Seq(T)
    <3>1. a \in Seq(T)
      BY <1>3, <2>1, <2>2, IsASeq
    <3>2. b \in Seq(T)
      BY <2>1, <2>2
    <3> QED BY <3>1, <3>2
  <2>4. Len(a \o b) = Len(a) + Len(b)
    BY <2>3, ConcatProperties
  <2> QED BY <1>3, <2>4
<1>5. Len(items) \in Nat /\ Len(items) + (n + 1) <= MaxItems /\ NextId = Len(items) + 1
  BY <1>1, <1>4, TypedItems DEF Append_, Room, NextId
<1>6. c \in Queues /\ Owner(c)
  BY <1>1 DEF Queues, Owner
<1>7. RecsSound(a, Len(items)) /\ Plain(a, c)
  <2>1. Len(items) + n <= MaxItems
    BY <1>3, <1>5, QueueAssumption
  <2> QED BY <1>3, <1>6, <2>1, PlainCommands
<1>8. RecsSound(b, Len(items) + Len(a)) /\ Plain(b, c)
  <2> DEFINE from == Len(items) + Len(a)
             kind == "done"
             all == b
             id == NextId + n
  <2>1. /\ from \in Nat /\ id = from + 1 /\ from + 1 <= MaxItems
    <3> HIDE DEF a
    <3> QED BY <1>3, <1>5, QueueAssumption
  <2>2. kind \in {"key", "done"} /\ all = Callback(kind, id, c)
    OBVIOUS
  <2> HIDE DEF from, kind, all, id
  <2>3. RecsSound(all, from) /\ Plain(all, c)
    BY <2>1, <2>2, PlainCallback
  <2> QED BY <2>3 DEF all, from
<1>9. RecsSound(recs, Len(items)) /\ Plain(recs, c)
  <2> HIDE DEF a, b
  <2> QED BY <1>5, <1>7, <1>8, ConcatSound
<1> HIDE DEF recs, a, b
<1>10. refs \in [Clients -> Nat]
  BY DEF IInv, Typed
<1>11. /\ refs' = [d \in Clients |-> refs'[d]]
       /\ \A d \in Clients : refs'[d] = refs[d] + (IF d = c THEN Len(recs) ELSE 0) - Gone(d)
  <2>1. refs' = [d \in Clients |-> refs'[d]]
    BY <1>1, <1>10
  <2>2. refs'[c] = refs[c] + (n + 1) - 0 /\ \A d \in Clients : d # c => refs'[d] = refs[d] + 0 - 0
    BY <1>1, <1>3, <1>10
  <2> QED BY <1>2, <1>4, <2>1, <2>2
<1> QED BY <1>1, <1>2, <1>6, <1>9, <1>11, PlainKept

LEMMA EventKept ==
  ASSUME IInv, Event
  PROVE  IInv'
<1> DEFINE n == 0
           recs == EventHook(n)
<1>1. /\ Append_(Global, recs) /\ refs' = refs /\ jobs' = jobs /\ waits' = waits /\ AddOthers
  BY DEF Event, clientVars, historyVars, AddOthers
<1>2. AddJobs /\ \A d : Gone(d) = 0
  BY <1>1, GoneIs DEF AddJobs, IInv, WaitsSound
<1>3. Len(items) \in Nat /\ n \in Nat /\ Len(items) + n = Len(items)
  BY TypedItems
<1> HIDE DEF n, recs
<1>4. Len(items) + n + Len(recs) <= MaxItems
  BY <1>1, <1>3 DEF Append_, Room
<1>5. /\ RecsSound(recs, Len(items) + n) /\ AppSound(Global, recs)
      /\ \A k \in DOMAIN recs : recs[k].client = NoClient
  BY <1>3, <1>4, EventHookSound DEF recs
<1>6. RecsSound(recs, Len(items)) /\ \A k \in DOMAIN recs : Owner(recs[k].client)
  BY <1>3, <1>5 DEF Owner
<1>7. \A d \in Clients : CountOf(d, recs) = 0
  <2>1. recs \in Seq(ItemRecords)
    BY <1>6 DEF RecsSound
  <2>2. \A d \in Clients : d # NoClient
    BY QueueAssumption
  <2> QED BY <1>5, <2>1, <2>2, SameClientCount
<1>8. refs \in [Clients -> Nat]
  BY DEF IInv, Typed
<1>9. /\ refs' = [d \in Clients |-> refs'[d]]
      /\ \A d \in Clients : refs'[d] = refs[d] + CountOf(d, recs) - Gone(d)
  BY <1>1, <1>2, <1>7, <1>8
<1> QED BY <1>1, <1>2, <1>5, <1>6, <1>9, AppendKept DEF Queues

LEMMA BackgroundDoneKept ==
  ASSUME IInv, NEW j \in jobs, NEW n \in {0} \cup Lengths, BackgroundDone(j, n)
  PROVE  IInv'
<1> DEFINE c == j.client
           q == IF c = NoClient THEN Global ELSE c
           recs == Commands(n, NextId, NextId, c, TRUE, 0)
<1>1. /\ j.item = 0 /\ Append_(q, recs)
      /\ refs' = [d \in Clients |-> IF c = d THEN refs[d] + n - 1 ELSE refs[d]]
      /\ jobs' = jobs \ {j} /\ waits' = waits /\ AddOthers
  BY DEF BackgroundDone, clientVars, historyVars, AddOthers
<1>2. AddJobs /\ \A d : Gone(d) = IF c = d THEN 1 ELSE 0
  BY <1>1, GoneIs DEF AddJobs, IInv, WaitsSound
<1>3. n \in Nat
  BY QueueAssumption DEF Lengths
<1>4. Len(recs) = n
  BY <1>3 DEF Commands
<1>5. Len(items) + n <= MaxItems
  BY <1>1, <1>4 DEF Append_, Room
<1>6. Owner(c) /\ c \in Clients \cup {NoClient}
  <2>1. Owner(c)
    BY DEF IInv, OwnersSound, Owner
  <2> QED BY <2>1, OwnersTyped
<1>7. q \in Queues /\ (q \in Clients => c = q)
  BY <1>6, QueueAssumption DEF Queues
<1>8. RecsSound(recs, Len(items)) /\ Plain(recs, c)
  BY <1>3, <1>5, <1>6, PlainCommands
<1> HIDE DEF c, q, recs
<1>9. refs \in [Clients -> Nat]
  BY DEF IInv, Typed
<1>10. /\ refs' = [d \in Clients |-> refs'[d]]
       /\ \A d \in Clients : refs'[d] = refs[d] + (IF d = c THEN Len(recs) ELSE 0) - Gone(d)
  BY <1>1, <1>2, <1>3, <1>4, <1>9
<1> QED BY <1>1, <1>2, <1>6, <1>7, <1>8, <1>10, PlainKept

(* The item that a job of its own waits for is the head of its list.       *)
LEMMA JobItemIs ==
  ASSUME IInv, NEW j \in jobs, j.item # 0
  PROVE  /\ QueueOf(j.item) \in Queues /\ list[QueueOf(j.item)] # <<>>
         /\ j.item = Head(list[QueueOf(j.item)])
<1> DEFINE h == j.item
<1>1. h \in fired
  BY DEF IInv, WaitsSound
<1>2. PICK r \in Queues : list[r] # <<>> /\ h = Head(list[r])
  BY <1>1 DEF IInv, WaitsSound, IsHead
<1>3. h \in Elems(list[r])
  BY <1>2, HeadIs
<1> HIDE DEF h
<1>4. \A q \in Queues : h \in Ids(q) <=> q = r
  <2>1. \A q \in Queues : h \in Ids(q) <=> h \in Elems(list[q])
    BY ListedIs
  <2>2. \A q \in Queues : h \in Elems(list[q]) => q = r
    BY <1>3 DEF IInv, ListsSound
  <2> QED BY <1>3, <2>1, <2>2
<1>5. QueueOf(h) = r
  BY <1>4 DEF QueueOf
<1> QED BY <1>2, <1>5 DEF h

LEMMA JobDoneKept ==
  ASSUME IInv, NEW j \in jobs, NEW n \in {0} \cup Lengths, JobDone(j, n)
  PROVE  IInv'
<1> DEFINE h == j.item
           q == QueueOf(h)
           c == items[h].client
           ins == Commands(n, NextId, NextId, c, items[h].hooks, h)
           new == Numbers(Len(items), ins)
           rest == Tail(list[q])
<1>1. /\ h # 0 /\ Len(items) + n <= MaxItems /\ items' = items \o ins
      /\ list' = [list EXCEPT ![q] = <<Head(@)>> \o new \o Tail(@)]
      /\ refs' = [d \in Clients |-> refs[d] + CountOf(d, ins) - (IF j.client = d THEN 1 ELSE 0)]
      /\ jobs' = jobs \ {j} /\ waits' = waits \ {h} /\ AddOthers
  BY DEF JobDone, Room, clientVars, historyVars, AddOthers
<1>2. q \in Queues /\ list[q] # <<>> /\ h = Head(list[q])
  BY <1>1, JobItemIs
<1>3. h = Head_(q) /\ h \in DOMAIN items /\ q # NoClient
  BY <1>2, HeadIs, QueueAssumption DEF Head_, Queues
<1>4. n \in Nat /\ Len(ins) = n
  <2>1. n \in Nat
    BY QueueAssumption DEF Lengths
  <2> QED BY <2>1 DEF Commands
<1>5. /\ RecsSound(ins, Len(items)) /\ InsSound(q, ins)
      /\ \A k \in DOMAIN ins : Owner(ins[k].client)
  <2> DEFINE hk == items[h].hooks
             g == NextId
             all == ins
  <2>1. c \in Borrowed(q) /\ hk \in BOOLEAN
    BY <1>2, <1>3, BorrowedIs
  <2>2. g \in 1 .. MaxItems + 1
    BY TypedItems DEF IInv, Typed, NextId
  <2>3. all = Commands(n, NextId, g, c, hk, Head_(q)) /\ (hk => items[Head_(q)].hooks)
    BY <1>3
  <2>4. Len(items) + Len(all) <= MaxItems
    BY <1>1, <1>4
  <2> HIDE DEF hk, g, all, c, h, q, ins
  <2>5. /\ RecsSound(all, Len(items)) /\ InsSound(q, all)
        /\ \A k \in DOMAIN all : Owner(all[k].client)
    BY <1>2, <1>4, <2>1, <2>2, <2>3, <2>4, NestedSound
  <2> QED BY <2>5 DEF all
<1>6. /\ list \in [Queues -> Seq(DOMAIN items)] /\ items \in Seq(ItemRecords)
      /\ Len(items) \in Nat /\ Global \in Queues
  BY TypedItems DEF IInv, Typed, Queues
<1>7. list[q] \in Seq(DOMAIN items) /\ Distinct(list[q])
  BY <1>2, <1>6 DEF IInv, ListsSound
<1>8. rest \in Seq(DOMAIN items) /\ Distinct(rest)
  <2> HIDE DEF q
  <2> QED BY <1>2, <1>7, HeadTailIs, HeadFirst
<1> HIDE DEF h, q, c, ins, new, rest
<1>9. ins \in Seq(ItemRecords)
  BY <1>5 DEF RecsSound
<1>10. items' = (items \o ins) \o <<>> /\ items' \in Seq(ItemRecords)
  <2> DEFINE R == ItemRecords
             both == items \o ins
  <2>1. items \in Seq(R) /\ ins \in Seq(R)
    BY <1>6, <1>9
  <2> HIDE DEF R
  <2>2. both \in Seq(R)
    BY <2>1, ConcatProperties
  <2> HIDE DEF both
  <2>3. both \o <<>> = both
    BY <2>2, ConcatEmptySeq
  <2> QED BY <1>1, <2>2, <2>3 DEF both, R
<1>11. new \in Seq(Nat) /\ <<h>> \in Seq(Nat) /\ rest \in Seq(Nat)
  <2>1. DOMAIN items \subseteq Nat
    BY <1>6
  <2>2. new \in Seq(1 .. Len(items) + Len(ins))
    <3> DEFINE top == Len(items) + Len(ins)
               from == Len(items)
    <3>1. top \in Nat /\ from \in Nat /\ from + Len(ins) <= top
      BY <1>4, <1>6
    <3> HIDE DEF top, from
    <3>2. Numbers(from, ins) \in Seq(1 .. top)
      BY <1>9, <3>1, NumbersIs
    <3> QED BY <3>2 DEF top, from, new
  <2>3. 1 .. Len(items) + Len(ins) \subseteq Nat
    OBVIOUS
  <2>4. new \in Seq(Nat) /\ rest \in Seq(Nat)
    BY <1>8, <2>1, <2>2, <2>3, SeqMonotonic
  <2>5. h \in Nat
    BY <1>3, <2>1
  <2> QED BY <2>4, <2>5
<1>12. /\ <<h>> \o new \o rest = <<h>> \o (new \o rest)
       /\ (<<h>> \o (new \o rest)) \o <<>> = <<h>> \o (new \o rest)
  <2> DEFINE one == <<h>>
             N == Nat
  <2>1. one \in Seq(N) /\ new \in Seq(N) /\ rest \in Seq(N)
    BY <1>11
  <2> HIDE DEF one, N
  <2>2. (one \o new) \o rest = one \o (new \o rest)
    BY <2>1, ConcatAssociative
  <2>3. new \o rest \in Seq(N) /\ one \o (new \o rest) \in Seq(N)
    <3>1. new \o rest \in Seq(N)
      BY <2>1, ConcatProperties
    <3> DEFINE t == new \o rest
    <3> HIDE DEF t
    <3>2. one \o t \in Seq(N)
      BY <2>1, <3>1, ConcatProperties DEF t
    <3> QED BY <3>1, <3>2 DEF t
  <2> DEFINE all == one \o (new \o rest)
  <2> HIDE DEF all
  <2>4. all \o <<>> = all
    BY <2>3, ConcatEmptySeq DEF all
  <2> QED BY <2>2, <2>4 DEF one, all
<1>13. Spliced(q, <<h>>, ins, rest, Global, <<>>)
  <2>1. ASSUME NEW r \in Queues
        PROVE  list'[r] = Front(r, q, <<h>>, ins, rest) \o Back(r, Global, ins, <<>>)
    <3>1. Back(r, Global, ins, <<>>) = <<>>
      <4>1. Numbers(Len(items) + Len(ins), <<>>) = <<>>
        BY DEF Numbers
      <4> QED BY <4>1 DEF Back
    <3>2. CASE r = q
      <4>1. Front(r, q, <<h>>, ins, rest) = <<h>> \o (new \o rest)
        BY <3>2 DEF Front, new
      <4>2. list'[r] = <<h>> \o new \o rest
        BY <1>1, <1>2, <1>6, <3>2 DEF rest
      <4> QED BY <1>12, <3>1, <4>1, <4>2
    <3>3. CASE r # q
      <4>1. Front(r, q, <<h>>, ins, rest) = list[r] /\ list'[r] = list[r]
        BY <1>1, <1>6, <3>3 DEF Front
      <4>2. list[r] \o <<>> = list[r]
        BY <1>6, ConcatEmptySeq
      <4> QED BY <3>1, <4>1, <4>2
    <3> QED BY <3>2, <3>3
  <2>2. list' = [r \in Queues |-> list'[r]]
    BY <1>1, <1>6
  <2>3. Len(items) + Len(ins) + Len(<<>>) <= MaxItems
    BY <1>1, <1>4, <1>6, NoneSound
  <2> QED BY <1>2, <1>6, <1>10, <2>1, <2>2, <2>3 DEF Spliced
<1>14. CutSound(q, <<h>>, ins, rest)
  BY <1>2, <1>3, <1>8 DEF CutSound, rest
<1>15. SpliceSound(q, <<h>>, ins, rest, Global, <<>>)
  BY <1>5, <1>13, <1>14, NoneSound DEF SpliceSound
<1>16. AddStays(q, <<h>>, rest)
  BY <1>2 DEF AddStays, rest
<1>17. AddOwners(ins, <<>>)
  BY <1>5 DEF AddOwners
<1>18. AddJobs
  <2>1. \A k \in jobs : k.item # 0 => k.item \in waits /\ (k.item = h => k = j)
    BY <1>1 DEF IInv, WaitsSound, h
  <2> QED BY <1>1, <2>1 DEF AddJobs
<1>19. AddRefs(ins, <<>>)
  <2>1. refs' = [d \in Clients |-> refs'[d]]
    BY <1>1
  <2>2. ASSUME NEW d \in Clients
        PROVE  refs'[d] = refs[d] + CountOf(d, ins) + CountOf(d, <<>>) - Gone(d)
    <3> DEFINE k == CountOf(d, ins)
               none == CountOf(d, <<>>)
               e == IF j.client = d THEN 1 ELSE 0
    <3>1. refs[d] \in Nat /\ none = 0 /\ e \in Nat
      BY OwnIs, NoneSound
    <3>2. k \in Nat
      BY <1>15, SpliceHeld
    <3>3. Gone(d) = e
      BY <1>1, GoneIs
    <3>4. refs'[d] = refs[d] + k - e
      BY <1>1
    <3> HIDE DEF k, none, e
    <3>5. refs'[d] = refs[d] + k + none - Gone(d)
      BY <3>1, <3>2, <3>3, <3>4
    <3> QED BY <3>5 DEF k, none
  <2> QED BY <2>1, <2>2 DEF AddRefs
<1> QED BY <1>1, <1>15, <1>16, <1>17, <1>18, <1>19, AddKept
-----------------------------------------------------------------------------
(* The loop, and what only clients see.                                    *)
LEMMA ContinueKept ==
  ASSUME IInv, NEW x, Continue(x)
  PROVE  IInv'
<1>1. /\ waits' = waits \ {x} /\ x \notin JobItems
      /\ items' = items /\ list' = list /\ refs' = refs /\ jobs' = jobs /\ AddOthers
  BY DEF Continue, clientVars, historyVars, AddOthers
<1>2. AddJobs /\ \A d : Gone(d) = 0
  <2>1. \A j \in jobs : j.item # 0 => j.item \in waits /\ j.item # x
    BY <1>1 DEF JobItems, IInv, WaitsSound
  <2> QED BY <1>1, <2>1, GoneIs DEF AddJobs
<1>3. SpliceSound(NoClient, <<>>, <<>>, <<>>, Global, <<>>)
  BY <1>1, NoSplice
<1>4. AddStays(NoClient, <<>>, <<>>) /\ AddOwners(<<>>, <<>>)
  BY DEF AddStays, AddOwners
<1>5. AddRefs(<<>>, <<>>)
  <2>1. \A c \in Clients : CountOf(c, <<>>) = 0 /\ refs[c] \in Nat
    BY NoneSound, OwnIs
  <2>2. \A c \in Clients : refs[c] = refs[c] + CountOf(c, <<>>) + CountOf(c, <<>>) - Gone(c)
    BY <1>2, <2>1
  <2>3. refs \in [Clients -> Nat]
    BY DEF IInv, Typed
  <2> QED BY <1>1, <2>2, <2>3 DEF AddRefs
<1> QED BY <1>1, <1>2, <1>3, <1>4, <1>5, AddKept

(* Steps that change none of the counts.                                   *)
SameRefs == refs' = refs /\ clients' = clients /\ list' = list /\ items' = items /\ jobs' = jobs

LEMMA SameRefsKept ==
  ASSUME IInv, SameRefs
  PROVE  RefsExact' /\ refs' \in [Clients -> Nat] /\ Listed' = Listed /\ Live' = Live
<1>1. Listed' = Listed /\ Live' = Live
  BY DEF SameRefs, Listed, Ids, Queues, Live
<1> QED BY <1>1 DEF IInv, RefsExact, Typed, SameRefs

LEMMA EnterLoopKept ==
  ASSUME IInv, EnterLoop
  PROVE  IInv'
<1>1. /\ phase = "poll" /\ phase' = Global /\ SameRefs /\ current' = current
      /\ fired' = fired /\ waits' = waits /\ dead' = dead /\ freed' = freed
      /\ ran' = ran /\ failed' = failed
  BY DEF EnterLoop, itemVars, clientVars, historyVars, SameRefs
<1>2. RefsExact' /\ refs' \in [Clients -> Nat] /\ Listed' = Listed /\ Live' = Live
  BY <1>1, SameRefsKept
<1>3. WaitsSound'
  BY <1>1 DEF SameRefs, IInv, WaitsSound, IsHead, Queues
<1>4. CurrentSound'
  <2>1. "poll" \notin Queues
    BY QueueAssumption DEF Queues
  <2>2. \A q \in Queues : current[q] # 0 => current[q] = HeadOrNull(q)
    BY <1>1, <2>1 DEF IInv, CurrentSound
  <2> QED BY <1>1, <2>2 DEF CurrentSound, SameRefs, HeadOrNull, Head_, Queues
<1>5. OwnersSound'
  BY <1>1, <1>2 DEF SameRefs, IInv, OwnersSound
<1>6. OthersTyped'
  <2>1. Global \in Queues /\ Global \notin Clients
    BY QueueAssumption DEF Queues
  <2> QED BY <1>1, <1>2, <2>1 DEF SameRefs, IInv, Typed, OthersTyped, Queues
<1> QED BY <1>1, <1>2, <1>3, <1>4, <1>5, <1>6, StillKept DEF SameRefs

(* The queue that server_loop visits next is that of a live client.        *)
LEMMA NextQueueIs ==
  ASSUME IInv, NEW q \in Queues, phase = q
  PROVE  /\ NextQueue(q) \in Queues \cup {"poll"}
         /\ NextQueue(q) \in Clients => NextQueue(q) \in Live
<1>1. clients \in Seq(Clients) /\ "poll" \notin Clients /\ Global \notin Clients
  BY QueueAssumption DEF IInv, Typed
<1>2. q # Global => \E k \in DOMAIN clients : clients[k] = q
  BY DEF IInv, Typed, Live, Queues
<1> DEFINE i == IF q = Global THEN 1
                ELSE 1 + CHOOSE k \in DOMAIN clients : clients[k] = q
<1>3. i \in Nat /\ 1 <= i
  <2>1. CASE q = Global
    BY <2>1
  <2>2. CASE q # Global
    <3> DEFINE k == CHOOSE k \in DOMAIN clients : clients[k] = q
    <3>1. k \in DOMAIN clients
      BY <1>2, <2>2
    <3>2. i = 1 + k
      BY <2>2
    <3> HIDE DEF k, i
    <3>3. k \in Nat
      BY <1>1, <3>1
    <3> QED BY <3>2, <3>3
  <2> QED BY <2>1, <2>2
<1>4. NextQueue(q) = IF i <= Len(clients) THEN clients[i]
                     ELSE IF progress THEN Global ELSE "poll"
  BY DEF NextQueue
<1> HIDE DEF i
<1>5. CASE i <= Len(clients)
  <2>1. i \in DOMAIN clients /\ clients[i] \in Clients
    BY <1>1, <1>3, <1>5
  <2> QED BY <1>4, <1>5, <2>1 DEF Live, Queues
<1>6. CASE ~(i <= Len(clients))
  BY <1>1, <1>4, <1>6 DEF Queues
<1> QED BY <1>5, <1>6

LEMMA LeaveQueueKept ==
  ASSUME IInv, NEW q \in Queues, LeaveQueue(q)
  PROVE  IInv'
<1>1. /\ phase = q /\ phase' = NextQueue(q) /\ SameRefs
      /\ current' = [current EXCEPT ![q] = HeadOrNull(q)]
      /\ fired' = fired /\ waits' = waits /\ dead' = dead /\ freed' = freed
      /\ ran' = ran /\ failed' = failed
  BY DEF LeaveQueue, clientVars, historyVars, SameRefs
<1>2. RefsExact' /\ refs' \in [Clients -> Nat] /\ Listed' = Listed /\ Live' = Live
  BY <1>1, SameRefsKept
<1>3. WaitsSound'
  BY <1>1 DEF SameRefs, IInv, WaitsSound, IsHead, Queues
<1>4. current \in [Queues -> 0 .. MaxItems]
  BY DEF IInv, Typed
<1>5. CurrentSound'
  <2>1. \A r \in Queues : current'[r] # 0 => current'[r] = HeadOrNull(r)
    BY <1>1, <1>4 DEF IInv, CurrentSound
  <2> QED BY <1>1, <2>1 DEF CurrentSound, SameRefs, HeadOrNull, Head_, Queues
<1>6. OwnersSound'
  BY <1>1, <1>2 DEF SameRefs, IInv, OwnersSound
<1>7. HeadOrNull(q) \in 0 .. MaxItems
  <2>1. MaxItems \in Nat
    BY QueueAssumption
  <2>2. list[q] # <<>> => Head_(q) \in 1 .. MaxItems
    BY BorrowedIs
  <2> QED BY <2>1, <2>2 DEF HeadOrNull
<1>8. OthersTyped'
  <2>1. current' \in [Queues -> 0 .. MaxItems]
    BY <1>1, <1>4, <1>7
  <2>2. phase' \in Queues \cup {"poll"} /\ (phase' \in Clients => phase' \in Live)
    BY <1>1, NextQueueIs
  <2> QED BY <1>1, <1>2, <2>1, <2>2 DEF SameRefs, IInv, Typed, OthersTyped, Queues
<1> QED BY <1>1, <1>2, <1>3, <1>5, <1>6, <1>8, StillKept DEF SameRefs

LEMMA FreeClientKept ==
  ASSUME IInv, NEW c \in Clients, FreeClient(c)
  PROVE  IInv'
<1>1. /\ c \in dead /\ refs[c] = 0 /\ dead' = dead \ {c} /\ freed' = freed \cup {c}
      /\ SameRefs /\ current' = current /\ phase' = phase
      /\ fired' = fired /\ waits' = waits /\ ran' = ran /\ failed' = failed
  BY DEF FreeClient, itemVars, historyVars, SameRefs
<1>2. RefsExact' /\ refs' \in [Clients -> Nat] /\ Listed' = Listed /\ Live' = Live
  BY <1>1, SameRefsKept
<1>3. WaitsSound' /\ CurrentSound'
  <2>1. WaitsSound'
    BY <1>1 DEF SameRefs, IInv, WaitsSound, IsHead, Queues
  <2>2. CurrentSound'
    BY <1>1 DEF IInv, CurrentSound, SameRefs, HeadOrNull, Head_, Queues
  <2> QED BY <2>1, <2>2
<1>4. Held(c) = 0 /\ JobsOf(c) = 0
  <2>1. Held(c) \in Nat
    BY ListedFinite DEF Held, HeldBy
  <2>2. JobsOf(c) \in Nat /\ Own(c) \in Nat /\ Own(c) + Held(c) = 0
    BY <1>1, OwnIs
  <2>3. Own(c) = 0 /\ Held(c) = 0
    BY <2>1, <2>2
  <2>4. Own(c) = JobsOf(c) \/ Own(c) = 1 + JobsOf(c)
    <3>1. CASE c \in Live
      BY <3>1 DEF Own
    <3>2. CASE c \notin Live
      BY <2>2, <3>2 DEF Own
    <3> QED BY <3>1, <3>2
  <2> QED BY <2>2, <2>3, <2>4
<1>5. \A x \in Listed : items[x].client # c
  <2>1. IsFiniteSet({x \in Listed : items[x].client = c})
    BY ListedFinite
  <2>2. {x \in Listed : items[x].client = c} = {}
    BY <1>4, <2>1, FS_EmptySet DEF Held
  <2> QED BY <2>2
<1>6. \A j \in jobs : j.client # c
  <2>1. {j \in jobs : j.client = c} \in SUBSET jobs /\ IsFiniteSet(jobs)
    BY DEF IInv, Typed
  <2>2. IsFiniteSet({j \in jobs : j.client = c})
    BY <2>1, FS_Subset
  <2>3. {j \in jobs : j.client = c} = {}
    BY <1>4, <2>2, FS_EmptySet DEF JobsOf
  <2> QED BY <2>3
<1>7. OwnersSound'
  BY <1>1, <1>2, <1>5, <1>6 DEF SameRefs, IInv, OwnersSound
<1>8. OthersTyped'
  BY <1>1, <1>2 DEF SameRefs, IInv, Typed, OthersTyped, Queues
<1> QED BY <1>1, <1>2, <1>3, <1>7, <1>8, StillKept DEF SameRefs

LEMMA ConnectKept ==
  ASSUME IInv, NEW c \in Clients, Connect(c)
  PROVE  IInv'
<1>1. /\ c \notin Live \cup dead \cup freed /\ clients' = Append(clients, c)
      /\ refs' = [refs EXCEPT ![c] = 1]
      /\ items' = items /\ list' = list /\ jobs' = jobs /\ current' = current /\ phase' = phase
      /\ fired' = fired /\ waits' = waits /\ dead' = dead /\ freed' = freed
      /\ ran' = ran /\ failed' = failed
  BY DEF Connect, itemVars, historyVars
<1>2. Listed' = Listed
  BY <1>1 DEF Listed, Ids, Queues
<1>3. clients' \in Seq(Clients) /\ Live' = Live \cup {c}
  <2>1. clients \in Seq(Clients)
    BY DEF IInv, Typed
  <2> DEFINE cs == Append(clients, c)
             n == Len(clients)
  <2>2. /\ cs \in Seq(Clients) /\ n \in Nat /\ Len(cs) = n + 1 /\ cs[n + 1] = c
        /\ \A i \in 1 .. n : cs[i] = clients[i]
    BY <2>1, AppendProperties
  <2>3. DOMAIN clients = 1 .. n
    BY <2>1
  <2> HIDE DEF cs, n
  <2>4. DOMAIN cs = 1 .. n + 1
    BY <2>2
  <2>5. \A i \in 1 .. n + 1 : i \in 1 .. n \/ i = n + 1
    BY <2>2
  <2>6. \A i \in 1 .. n : i \in 1 .. n + 1
    BY <2>2
  <2>7. n + 1 \in 1 .. n + 1
    BY <2>2
  <2>8. {cs[i] : i \in DOMAIN cs} = {clients[i] : i \in DOMAIN clients} \cup {c}
    BY <2>2, <2>3, <2>4, <2>5, <2>6, <2>7
  <2>9. clients' = cs
    BY <1>1 DEF cs
  <2> QED BY <2>2, <2>8, <2>9 DEF Live
<1>4. WaitsSound' /\ CurrentSound'
  <2>1. WaitsSound'
    BY <1>1 DEF IInv, WaitsSound, IsHead, Queues
  <2>2. CurrentSound'
    BY <1>1 DEF IInv, CurrentSound, HeadOrNull, Head_, Queues
  <2> QED BY <2>1, <2>2
<1>5. c # NoClient
  BY QueueAssumption
<1>6. OwnersSound'
  BY <1>1, <1>2, <1>3 DEF IInv, OwnersSound
<1>7. refs \in [Clients -> Nat]
  BY DEF IInv, Typed
<1>8. RefsExact' /\ refs' \in [Clients -> Nat]
  <2>1. \A d : Held(d)' = Held(d) /\ JobsOf(d)' = JobsOf(d)
    BY <1>1, <1>2 DEF Held, JobsOf
  <2>2. Held(c) = 0
    <3>1. \A x \in Listed : items[x].client # c
      BY <1>1, <1>5 DEF IInv, OwnersSound
    <3>2. {x \in Listed : items[x].client = c} = {}
      BY <3>1
    <3> QED BY <3>2, FS_EmptySet DEF Held
  <2>3. JobsOf(c) = 0
    <3>1. \A j \in jobs : j.client # c
      BY <1>1, <1>5 DEF IInv, OwnersSound
    <3>2. {j \in jobs : j.client = c} = {}
      BY <3>1
    <3> QED BY <3>2, FS_EmptySet DEF JobsOf
  <2>4. ASSUME NEW d \in Clients
        PROVE  /\ Own(d)' \in Nat /\ Held(d)' \in Nat /\ JobsOf(d)' \in Nat
               /\ refs'[d] = Own(d)' + Held(d)'
    <3>1. /\ Own(d) \in Nat /\ Held(d) \in Nat /\ JobsOf(d) \in Nat
          /\ refs[d] = Own(d) + Held(d)
      BY OwnIs, ListedFinite DEF Held, HeldBy
    <3>2. CASE d = c
      <4>1. Own(d)' = 1
        <5>1. c \in Live'
          BY <1>3
        <5>2. JobsOf(c)' = 0
          BY <2>1, <2>3
        <5>3. Own(c)' = (IF c \in Live' THEN 1 ELSE 0) + JobsOf(c)'
          BY DEF Own
        <5> QED BY <3>2, <5>1, <5>2, <5>3
      <4>2. Held(d)' = 0 /\ JobsOf(d)' = 0 /\ refs'[d] = 1
        BY <1>1, <1>7, <2>1, <2>2, <2>3, <3>2
      <4> QED BY <4>1, <4>2
    <3>3. CASE d # c
      <4>1. Own(d)' = Own(d)
        BY <1>3, <2>1, <3>3 DEF Own
      <4>2. refs'[d] = refs[d]
        BY <1>1, <1>7, <3>3
      <4> QED BY <2>1, <3>1, <4>1, <4>2
    <3> QED BY <3>2, <3>3
  <2>5. refs' = [d \in Clients |-> refs'[d]]
    BY <1>1, <1>7
  <2> QED BY <2>4, <2>5, CountsExact
<1>9. OthersTyped'
  BY <1>1, <1>3, <1>8 DEF IInv, Typed, OthersTyped, Queues
<1> QED BY <1>1, <1>4, <1>6, <1>8, <1>9, StillKept

(* The list of a client that is lost is emptied, if it is drained.         *)
LEMMA LostSplice ==
  ASSUME IInv, NEW c \in Clients, list[c] # <<>>,
         items' = items, list' = [list EXCEPT ![c] = <<>>]
  PROVE  /\ SpliceSound(c, <<>>, <<>>, <<>>, Global, <<>>)
         /\ Out(c, <<>>, <<>>) = Elems(list[c])
<1>1. /\ list \in [Queues -> Seq(DOMAIN items)] /\ items \in Seq(ItemRecords)
      /\ Len(items) \in Nat /\ Len(items) <= MaxItems /\ Global \in Queues
      /\ c \in Queues /\ c # NoClient
  BY TypedItems, QueueAssumption DEF IInv, Typed, Queues
<1>2. /\ Len(<<>>) = 0 /\ Numbers(Len(items), <<>>) = <<>>
      /\ Numbers(Len(items) + Len(<<>>), <<>>) = <<>> /\ <<>> \o <<>> = <<>>
  BY DEF Numbers
<1>3. ASSUME NEW r \in Queues
      PROVE  list'[r] = Front(r, c, <<>>, <<>>, <<>>) \o Back(r, Global, <<>>, <<>>)
  <2>1. Back(r, Global, <<>>, <<>>) = <<>>
    BY <1>2 DEF Back
  <2>2. CASE r = c
    <3>1. Front(r, c, <<>>, <<>>, <<>>) = <<>> /\ list'[r] = <<>>
      BY <1>1, <1>2, <2>2 DEF Front
    <3> QED BY <1>2, <2>1, <3>1
  <2>3. CASE r # c
    <3>1. Front(r, c, <<>>, <<>>, <<>>) = list[r] /\ list'[r] = list[r]
      BY <1>1, <2>3 DEF Front
    <3>2. list[r] \o <<>> = list[r]
      BY <1>1, ConcatEmptySeq
    <3> QED BY <2>1, <3>1, <3>2
  <2> QED BY <2>2, <2>3
<1>4. list' = [r \in Queues |-> list'[r]]
  BY <1>1
<1>5. items' = (items \o <<>>) \o <<>>
  BY <1>1, ConcatEmptySeq
<1>6. Len(items) + Len(<<>>) + Len(<<>>) <= MaxItems
  BY <1>1, <1>2
<1>7. Spliced(c, <<>>, <<>>, <<>>, Global, <<>>)
  BY <1>1, <1>3, <1>4, <1>5, <1>6 DEF Spliced
<1>8. CutSound(c, <<>>, <<>>, <<>>)
  BY <1>1, EmptyIs DEF CutSound
<1>9. Out(c, <<>>, <<>>) = Elems(list[c])
  BY <1>1, EmptyIs DEF Out
<1> QED BY <1>2, <1>7, <1>8, <1>9, NoneSound DEF SpliceSound

LEMMA ClientLostKept ==
  ASSUME IInv, NEW c \in Clients, ClientLost(c)
  PROVE  IInv'
<1> DEFINE D == Drained(c)
           n == Cardinality(D)
<1>1. /\ phase = "poll" /\ c \in Live /\ clients' = Without(clients, {c}) /\ dead' = dead \cup {c}
      /\ waits' = waits \ Released(c)
      /\ list' = [list EXCEPT ![c] = IF D = {} THEN @ ELSE <<>>]
      /\ current' = [current EXCEPT ![c] = IF D = {} THEN HeadOrNull(c) ELSE 0]
      /\ fired' = fired \ D /\ refs' = [refs EXCEPT ![c] = @ - 1 - n]
      /\ items' = items /\ freed' = freed /\ jobs' = jobs /\ phase' = phase
      /\ ran' = ran /\ failed' = failed
  BY DEF ClientLost, historyVars
<1>2. /\ list \in [Queues -> Seq(DOMAIN items)] /\ c \in Queues /\ c # NoClient
      /\ refs \in [Clients -> Nat] /\ current \in [Queues -> 0 .. MaxItems]
  BY QueueAssumption DEF IInv, Typed, Queues
<1>3. /\ D # {} => list[c] # <<>> /\ D = Elems(list[c]) /\ Head_(c) \notin waits \ Released(c)
      /\ D \subseteq Elems(list[c])
  <2>1. Ids(c) = Elems(list[c]) /\ (list[c] = <<>> => Elems(list[c]) = {})
    BY <1>2, ListedIs, EmptyIs
  <2>2. D = {} \/ (D = Ids(c) /\ (list[c] # <<>> => Head_(c) \notin waits \ Released(c)))
    BY DEF Drained
  <2> HIDE DEF D
  <2> QED BY <2>1, <2>2
<1> HIDE DEF D
<1>4. \A r \in Queues : r # c => list'[r] = list[r]
  BY <1>1, <1>2
<1>5. /\ D = {} => list' = list
      /\ D # {} => list' = [list EXCEPT ![c] = <<>>] /\ list'[c] = <<>>
  BY <1>1, <1>2
<1>6. PICK q : SpliceSound(q, <<>>, <<>>, <<>>, Global, <<>>) /\ Out(q, <<>>, <<>>) = D
  <2>1. CASE D = {}
    <3>1. SpliceSound(NoClient, <<>>, <<>>, <<>>, Global, <<>>)
      BY <1>1, <1>5, <2>1, NoSplice
    <3>2. Out(NoClient, <<>>, <<>>) = D
      BY <2>1 DEF Out
    <3> QED BY <3>1, <3>2
  <2>2. CASE D # {}
    BY <1>1, <1>3, <1>5, <2>2, LostSplice
  <2> QED BY <2>1, <2>2
<1>7. \A x : x \in Listed' <=> x \in Listed /\ x \notin D
  <2>1. NewIns(<<>>) = {} /\ NewApp(<<>>, <<>>) = {}
    BY TypedItems DEF NewIns, NewApp
  <2> QED BY <1>6, <2>1, SpliceListed
<1>8. ASSUME NEW x \in fired, x \in D PROVE x = Head_(c)
  <2>1. PICK r \in Queues : list[r] # <<>> /\ x = Head(list[r])
    BY DEF IInv, WaitsSound, IsHead
  <2>2. x \in Elems(list[r]) /\ x \in Elems(list[c])
    BY <1>3, <1>8, <2>1, HeadIs
  <2>3. r = c
    BY <1>2, <2>2 DEF IInv, ListsSound
  <2> QED BY <2>1, <2>3 DEF Head_
<1>9. WaitsSound'
  <2>1. waits' \subseteq fired'
    <3> SUFFICES ASSUME NEW x \in waits, x \notin Released(c) PROVE x \in fired'
      BY <1>1
    <3>1. x \in fired
      BY DEF IInv, WaitsSound
    <3>2. x \notin D
      BY <1>3, <1>8, <3>1
    <3> QED BY <1>1, <3>1, <3>2
  <2>2. ASSUME NEW x \in fired, x \notin D
        PROVE  \E r \in Queues : list'[r] # <<>> /\ x = Head(list'[r])
    <3>1. PICK r \in Queues : list[r] # <<>> /\ x = Head(list[r])
      BY DEF IInv, WaitsSound, IsHead
    <3>2. x \in Elems(list[r])
      BY <3>1, HeadIs
    <3>3. list'[r] = list[r]
      BY <1>3, <1>4, <1>5, <2>2, <3>2
    <3> QED BY <3>1, <3>3
  <2>3. \A x \in fired' : IsHead(x)'
    BY <1>1, <2>2 DEF IsHead, Queues
  <2>4. \A j \in jobs' : j.item # 0 => j.item \in waits'
    BY <1>1 DEF IInv, WaitsSound, Released, JobItems
  <2> QED BY <1>1, <2>1, <2>3, <2>4 DEF IInv, WaitsSound
<1>10. CurrentSound'
  <2>1. "poll" \notin Queues
    BY QueueAssumption DEF Queues
  <2> SUFFICES ASSUME NEW r \in Queues, current'[r] # 0
               PROVE  current'[r] = IF list'[r] = <<>> THEN 0 ELSE Head(list'[r])
    BY DEF CurrentSound, HeadOrNull, Head_, Queues
  <2>2. CASE r = c
    <3>1. D = {} /\ current'[c] = HeadOrNull(c)
      BY <1>1, <1>2, <2>2
    <3> QED BY <1>5, <2>2, <3>1 DEF HeadOrNull, Head_
  <2>3. CASE r # c
    <3>1. current'[r] = current[r] /\ list'[r] = list[r]
      BY <1>1, <1>2, <1>4, <2>3
    <3>2. current[r] = HeadOrNull(r)
      BY <1>1, <2>1, <3>1 DEF IInv, CurrentSound
    <3> QED BY <3>1, <3>2 DEF HeadOrNull, Head_
  <2> QED BY <2>2, <2>3
<1>11. clients' \in Seq(Clients) /\ Live' = Live \ {c}
  <2>1. clients \in Seq(Clients)
    BY DEF IInv, Typed
  <2>2. Without(clients, {c}) \in Seq(Clients) /\ Elems(Without(clients, {c})) = Elems(clients) \ {c}
    BY <2>1, WithoutIs
  <2>3. Live = Elems(clients) /\ Live' = Elems(clients')
    BY DEF Live, Elems
  <2> QED BY <1>1, <2>2, <2>3
<1>12. OwnersSound'
  BY <1>1, <1>7, <1>11 DEF IInv, OwnersSound
<1>13. ASSUME NEW d \in Clients
       PROVE  /\ refs'[d] = Own(d)' + Held(d)'
              /\ Own(d)' \in Nat /\ Held(d)' \in Nat /\ JobsOf(d)' \in Nat
  <2> DEFINE held == Held(d)'
             own == Own(d)'
             of == JobsOf(d)'
             out == HeldBy(Out(q, <<>>, <<>>), d)
             none == CountOf(d, <<>>)
  <2>1. held = Held(d) + none + none - out /\ held \in Nat /\ Held(d) \in Nat /\ out \in Nat
    BY <1>6, SpliceHeld
  <2>2. none = 0
    BY NoneSound
  <2>3. of = JobsOf(d) /\ JobsOf(d) \in Nat
    BY <1>1, OwnIs DEF JobsOf
  <2>4. Own(d) \in Nat /\ refs[d] = Own(d) + Held(d)
    BY OwnIs
  <2>5. CASE d = c
    <3>1. out = n
      <4>1. \A x \in D : items[x].client = c
        BY <1>3 DEF IInv, ListsSound
      <4>2. {x \in D : items[x].client = d} = D
        BY <2>5, <4>1
      <4> QED BY <1>6, <4>2 DEF HeldBy
    <3>2. own = of /\ Own(d) = 1 + JobsOf(d)
      <4>1. c \in Live /\ c \notin Live'
        BY <1>1, <1>11
      <4>2. Own(d)' = (IF d \in Live' THEN 1 ELSE 0) + JobsOf(d)'
        BY DEF Own
      <4>3. Own(d)' = 0 + JobsOf(d)'
        BY <2>5, <4>1, <4>2
      <4>4. Own(d) = 1 + JobsOf(d)
        BY <2>5, <4>1 DEF Own
      <4> HIDE DEF own, of
      <4>5. own = 0 + of
        BY <4>3 DEF own, of
      <4> QED BY <2>3, <4>4, <4>5
    <3>3. refs'[d] = refs[d] - 1 - n
      BY <1>1, <1>2, <2>5
    <3> HIDE DEF held, own, of, out, none, n
    <3>4. refs'[d] = own + held /\ own \in Nat /\ of \in Nat
      BY <2>1, <2>2, <2>3, <2>4, <3>1, <3>2, <3>3
    <3> QED BY <2>1, <3>4 DEF held, own, of
  <2>6. CASE d # c
    <3>1. out = 0
      <4>1. \A x \in D : items[x].client = c
        BY <1>3 DEF IInv, ListsSound
      <4>2. {x \in D : items[x].client = d} = {}
        BY <2>6, <4>1
      <4> QED BY <1>6, <4>2, FS_EmptySet DEF HeldBy
    <3>2. own = Own(d)
      <4>1. d \in Live <=> d \in Live'
        BY <1>11, <2>6
      <4> QED BY <2>3, <4>1 DEF Own
    <3>3. refs'[d] = refs[d]
      BY <1>1, <1>2, <2>6
    <3> HIDE DEF held, own, of, out, none
    <3>4. refs'[d] = own + held /\ own \in Nat /\ of \in Nat
      BY <2>1, <2>2, <2>3, <2>4, <3>1, <3>2, <3>3
    <3> QED BY <2>1, <3>4 DEF held, own, of
  <2> QED BY <2>5, <2>6
<1>14. RefsExact' /\ refs' \in [Clients -> Nat]
  <2>1. refs' = [d \in Clients |-> refs'[d]]
    BY <1>1, <1>2
  <2> QED BY <1>13, <2>1, CountsExact
<1>15. OthersTyped'
  <2>1. HeadOrNull(c) \in 0 .. MaxItems /\ 0 \in 0 .. MaxItems
    <3>1. MaxItems \in Nat
      BY QueueAssumption
    <3>2. list[c] # <<>> => Head_(c) \in 1 .. MaxItems
      BY <1>2, BorrowedIs
    <3> QED BY <3>1, <3>2 DEF HeadOrNull
  <2>2. current' \in [Queues -> 0 .. MaxItems]
    BY <1>1, <1>2, <2>1
  <2>3. "poll" \notin Clients
    BY QueueAssumption
  <2> QED BY <1>1, <1>11, <1>14, <2>2, <2>3 DEF IInv, Typed, OthersTyped, Queues
<1>16. \A x \in fired : x \in Listed' => x \in fired'
  BY <1>1, <1>7
<1> QED BY <1>1, <1>6, <1>9, <1>10, <1>12, <1>14, <1>15, <1>16, MoveKept
-----------------------------------------------------------------------------
(* The invariant holds at first and every step keeps it.                   *)
LEMMA InitInv == Init => IInv
<1> SUFFICES ASSUME Init PROVE IInv
  OBVIOUS
<1>1. /\ items = <<>> /\ (\A q \in Queues : list[q] = <<>> /\ current[q] = 0)
      /\ fired = {} /\ waits = {} /\ clients = <<>> /\ dead = {} /\ freed = {}
      /\ (\A c \in Clients : refs[c] = 0) /\ jobs = {} /\ phase = "poll"
      /\ ran = <<>> /\ failed = {}
  BY DEF Init
<1>2. DOMAIN items = {} /\ DOMAIN ran = {} /\ Elems(ran) = {} /\ Live = {} /\ Elems(<<>>) = {}
  BY <1>1 DEF Elems, Live
<1>3. Listed = {}
  BY <1>1 DEF Listed, Ids
<1>4. Typed
  <2>1. MaxItems \in Nat /\ "poll" \notin Clients
    BY QueueAssumption
  <2>2. items \in Seq(ItemRecords) /\ Len(items) <= MaxItems
    BY <1>1, <2>1
  <2>3. list \in [Queues -> Seq(DOMAIN items)]
    <3>1. list = [q \in Queues |-> <<>>]
      BY DEF Init
    <3> QED BY <3>1
  <2>4. current \in [Queues -> 0 .. MaxItems]
    BY <2>1 DEF Init
  <2>5. refs \in [Clients -> Nat]
    BY DEF Init
  <2>6. jobs \subseteq JobRecords /\ IsFiniteSet(jobs)
    BY <1>1, FS_EmptySet
  <2>7. ran \in Seq(DOMAIN items) /\ failed \subseteq Elems(ran) /\ clients \in Seq(Clients)
    BY <1>1
  <2> QED BY <1>1, <2>1, <2>2, <2>3, <2>4, <2>5, <2>6, <2>7 DEF Typed
<1>5. ItemsMade /\ HooksSound
  BY <1>2 DEF ItemsMade, HooksSound
<1>6. ListsSound
  BY <1>1, <1>2 DEF ListsSound, Distinct, Queues
<1>7. WaitsSound /\ CurrentSound
  BY <1>1 DEF WaitsSound, CurrentSound
<1>8. RanSound /\ InOrder /\ ErrorStops
  BY <1>1, <1>2, <1>3 DEF RanSound, InOrder, ErrorStops
<1>9. OrderLeft /\ InsertedFirst
  BY <1>1, <1>2, <1>3 DEF OrderLeft, InsertedFirst
<1>10. OwnersSound
  BY <1>1, <1>2, <1>3 DEF OwnersSound
<1>11. RefsExact
  <2> SUFFICES ASSUME NEW c \in Clients
               PROVE  refs[c] = (IF c \in Live THEN 1 ELSE 0)
                                  + Cardinality({x \in Listed : items[x].client = c})
                                  + Cardinality({j \in jobs : j.client = c})
    BY DEF RefsExact
  <2> DEFINE A == {x \in Listed : items[x].client = c}
             B == {j \in jobs : j.client = c}
             l == IF c \in Live THEN 1 ELSE 0
  <2>1. A = {} /\ B = {} /\ refs[c] = 0 /\ l = 0
    BY <1>1, <1>2, <1>3
  <2> HIDE DEF A, B, l
  <2>2. Cardinality(A) = 0 /\ Cardinality(B) = 0
    BY <2>1, FS_EmptySet
  <2>3. refs[c] = l + Cardinality(A) + Cardinality(B)
    BY <2>1, <2>2
  <2> QED BY <2>3 DEF A, B, l
<1> QED BY <1>4, <1>5, <1>6, <1>7, <1>8, <1>9, <1>10, <1>11 DEF IInv

LEMMA RunHeadKept ==
  ASSUME IInv, NEW q \in Queues, RunHead(q)
  PROVE  IInv'
<1>1. ASSUME NEW c, RunNormal(q, c) PROVE IInv'
  BY <1>1, RunNormalKept
<1>2. CASE RunFail(q)
  BY <1>2, RunFailKept
<1>3. ASSUME NEW c, NEW n \in Lengths, RunNested(q, c, n) PROVE IInv'
  BY <1>3, RunNestedKept
<1>4. CASE RunWait(q)
  BY <1>4, RunWaitKept
<1>5. ASSUME NEW c, NEW b \in BOOLEAN, RunJob(q, c, b) PROVE IInv'
  BY <1>5, RunJobKept
<1>6. ASSUME NEW c, NEW ret \in {"normal", "wait", "error"}, RunEvent(q, c, ret) PROVE IInv'
  BY <1>6, RunEventKept
<1>7. ASSUME NEW x, RunWake(q, x) PROVE IInv'
  BY <1>7, RunWakeKept
<1>8. ASSUME NEW n \in {0} \cup Lengths, RunKey(q, n) PROVE IInv'
  BY <1>8, RunKeyKept
<1>9. CASE RunCallback(q) \/ RunDead(q)
  BY <1>9, RunOtherKept
<1>10. CASE RemoveFired(q)
  BY <1>10, RemoveFiredKept
<1> QED BY <1>1, <1>2, <1>3, <1>4, <1>5, <1>6, <1>7, <1>8, <1>9, <1>10 DEF RunHead

LEMMA NextInv == IInv /\ [Next]_vars => IInv'
<1> SUFFICES ASSUME IInv, [Next]_vars PROVE IInv'
  OBVIOUS
<1>1. CASE EnterLoop
  BY <1>1, EnterLoopKept
<1>2. ASSUME NEW q \in Queues, RunHead(q) PROVE IInv'
  BY <1>2, RunHeadKept
<1>3. ASSUME NEW q \in Queues, LeaveQueue(q) PROVE IInv'
  BY <1>3, LeaveQueueKept
<1>4. ASSUME NEW c \in Clients, Connect(c) PROVE IInv'
  BY <1>4, ConnectKept
<1>5. ASSUME NEW c \in Clients, Key(c) PROVE IInv'
  BY <1>5, KeyKept
<1>6. ASSUME NEW c \in Clients, ClientLost(c) PROVE IInv'
  BY <1>6, ClientLostKept
<1>7. ASSUME NEW c \in Clients, FreeClient(c) PROVE IInv'
  BY <1>7, FreeClientKept
<1>8. ASSUME NEW c \in Clients, NEW n \in Lengths, Dispatch(c, n) PROVE IInv'
  BY <1>8, DispatchKept
<1>9. CASE Event
  BY <1>9, EventKept
<1>10. ASSUME NEW x, Continue(x) PROVE IInv'
  BY <1>10, ContinueKept
<1>11. ASSUME NEW j \in jobs, NEW n \in {0} \cup Lengths, JobDone(j, n) PROVE IInv'
  BY <1>11, JobDoneKept
<1>12. ASSUME NEW j \in jobs, NEW n \in {0} \cup Lengths, BackgroundDone(j, n) PROVE IInv'
  BY <1>12, BackgroundDoneKept
<1>13. CASE UNCHANGED vars
  <2>1. SameRefs /\ AddOthers /\ waits' = waits
    BY <1>13 DEF vars, itemVars, clientVars, historyVars, SameRefs, AddOthers
  <2>2. RefsExact' /\ refs' \in [Clients -> Nat] /\ Listed' = Listed /\ Live' = Live
    BY <2>1, SameRefsKept
  <2>3. WaitsSound' /\ CurrentSound'
    BY <2>1 DEF SameRefs, AddOthers, IInv, WaitsSound, CurrentSound, IsHead, HeadOrNull,
                Head_, Queues
  <2>4. OwnersSound' /\ OthersTyped'
    BY <2>1, <2>2 DEF SameRefs, AddOthers, IInv, OwnersSound, Typed, OthersTyped, Queues
  <2> QED BY <2>1, <2>2, <2>3, <2>4, StillKept DEF SameRefs, AddOthers
<1>14. CASE Sweep
  BY <1>2, <1>3, <1>14 DEF Sweep
<1>15. CASE Callbacks
  BY <1>4, <1>5, <1>6, <1>7, <1>8, <1>9, <1>10, <1>11, <1>12, <1>15 DEF Callbacks
<1> QED BY <1>1, <1>13, <1>14, <1>15 DEF Next

LEMMA Invariance == Spec => []IInv
BY InitInv, NextInv, PTL DEF Spec
-----------------------------------------------------------------------------
(* What is fired is in a list, what waits has been fired, and the failed   *)
(* commands are items (TAILQ queue->list and CMDQ_FIRED of cmd-queue.c).   *)
THEOREM TypesCorrect == Spec => []TypeOK
<1>1. IInv => TypeOK
  <2> SUFFICES ASSUME IInv PROVE TypeOK
    OBVIOUS
  <2>1. fired \subseteq Listed /\ waits \subseteq fired
    BY HeadIs DEF IInv, WaitsSound, IsHead
  <2>2. failed \subseteq DOMAIN items
    <3>1. ran \in Seq(DOMAIN items) /\ failed \subseteq Elems(ran)
      BY DEF IInv, Typed
    <3>2. \A i \in DOMAIN ran : ran[i] \in DOMAIN items
      BY <3>1
    <3>3. Elems(ran) \subseteq DOMAIN items
      BY <3>2 DEF Elems
    <3> QED BY <3>1, <3>3
  <2> QED BY <2>1, <2>2 DEF IInv, Typed, TypeOK
<1> QED BY <1>1, Invariance, PTL

(* Whatever waits, jobs, hooks and lost clients come between, each command *)
(* runs at most once (cmd-queue.c:747), those of a sequence in their order *)
(* with what one inserts before the next (cmdq_insert_after), and none     *)
(* after one of its sequence failed (cmdq_remove_group).                   *)
THEOREM SequencesAreKept == Spec => []SequencesKept
<1>1. IInv => SequencesKept
  BY DEF IInv, RanSound, SequencesKept, RanOnce
<1> QED BY <1>1, Invariance, PTL

(* Between two turns cmdq_running returns no freed item, only heads wait,  *)
(* and the item a job is for still waits.                                  *)
THEOREM QueuesDoAgree == Spec => []QueuesAgree
<1>1. IInv => QueuesAgree
  <2> SUFFICES ASSUME IInv PROVE QueuesAgree
    OBVIOUS
  <2>1. RunningIsListed
    <3>1. "poll" \notin Queues
      BY QueueAssumption DEF Queues
    <3> QED BY <3>1 DEF IInv, CurrentSound, RunningIsListed
  <2>2. WaiterIsHead
    BY DEF IInv, WaitsSound, IsHead, WaiterIsHead, HeadOrNull, Head_
  <2>3. JobItemsWait
    BY DEF IInv, WaitsSound, JobItemsWait, JobItems
  <2> QED BY <2>1, <2>2, <2>3 DEF QueuesAgree
<1> QED BY <1>1, Invariance, PTL

(* c->references is always the client itself, its items and its jobs, and  *)
(* a client is freed with an empty queue and when nothing is for it: no    *)
(* server_client_unref comes too early, too late or twice.                 *)
THEOREM ReferencesAreExact == Spec => []ReferencesExact
<1>1. IInv => ReferencesExact
  <2> SUFFICES ASSUME IInv PROVE ReferencesExact
    OBVIOUS
  <2>1. ASSUME NEW c \in freed
        PROVE  /\ list[c] = <<>>
               /\ \A x \in Listed : items[x].client # c
               /\ \A j \in jobs : j.client # c
    <3>1. c \in Clients /\ c # NoClient /\ c \notin Live /\ c \notin dead
      BY QueueAssumption DEF IInv, Typed, OwnersSound
    <3>2. /\ \A x \in Listed : items[x].client # c
          /\ \A j \in jobs : j.client # c
      BY <3>1 DEF IInv, OwnersSound
    <3>3. list[c] = <<>>
      <4> SUFFICES ASSUME list[c] # <<>> PROVE FALSE
        OBVIOUS
      <4>1. Head(list[c]) \in Elems(list[c]) /\ Head(list[c]) \in Listed
        BY <3>1, HeadIs DEF Queues
      <4> QED BY <3>1, <3>2, <4>1 DEF IInv, ListsSound
    <3> QED BY <3>2, <3>3
  <2> QED BY <2>1 DEF IInv, ReferencesExact, FreedClientUnused
<1> QED BY <1>1, Invariance, PTL

(* No hook is run for a command that a hook ran, however the command came  *)
(* to run: CMDQ_STATE_NOHOOKS goes on to all that a hook inserts.          *)
THEOREM HooksAreNotNested == Spec => []NoHooksOfHooks
<1>1. IInv => NoHooksOfHooks
  <2> SUFFICES ASSUME IInv, NEW i \in DOMAIN items, OfHook(i), items[i].parent # 0,
                      PartOfHook(items[i].parent)
               PROVE  FALSE
    BY DEF NoHooksOfHooks
  <2> DEFINE p == items[i].parent
             S == {k \in DOMAIN items : items[k].hooks}
  <2>1. \A k \in DOMAIN items : items[k].parent # 0 => items[k].parent \in DOMAIN items
    <3>1. /\ DOMAIN items = 1 .. Len(items) /\ Len(items) \in Nat
          /\ \A k \in DOMAIN items : k \in Nat /\ SeqOf(k) \in Nat /\ ParentOf(k) \in Nat
      BY TypedItems
    <3>2. \A k \in DOMAIN items : SeqOf(k) <= k /\ (ParentOf(k) # 0 => ParentOf(k) < SeqOf(k))
      BY DEF IInv, ItemsMade
    <3>3. \A k \in DOMAIN items : ParentOf(k) # 0 => ParentOf(k) \in DOMAIN items
      BY <3>1, <3>2
    <3> QED BY <3>3 DEF ParentOf
  <2>2. p \in S
    BY <2>1 DEF IInv, HooksSound, ParentOf
  <2>3. WithParents(S)
    BY <2>1 DEF IInv, HooksSound, ParentOf, WithParents
  <2>4. PICK k \in S : OfHook(k)
    BY <2>2, <2>3 DEF PartOfHook
  <2> QED BY <2>4 DEF IInv, HooksSound
<1> QED BY <1>1, Invariance, PTL
=============================================================================
