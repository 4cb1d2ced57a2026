--------------------------- MODULE SessionsProofs ---------------------------
(***************************************************************************)
(* Proofs about Sessions for any number of sessions, windows and indexes.  *)
(*                                                                         *)
(* That the current window and the last windows are winlinks of their      *)
(* session is not inductive by itself: the windows of a session are        *)
(* replaced by those of its group, so it must be known that no session of  *)
(* a group is without windows and that the groups are apart and alive      *)
(* (Sound).  A command is several changes of the state, between which the  *)
(* sessions of a group may differ (Parts) and a session may be without a   *)
(* current window (Open): each change has a lemma that says which of them  *)
(* it needs and which it leaves.  The loops over sessions and windows are  *)
(* followed by induction on their turns.                                   *)
(***************************************************************************)
EXTENDS Sessions, FiniteSetTheorems, TLAPS

Maps == UNION {[I -> Windows] : I \in SUBSET Indexes}
Records ==
  [alive : BOOLEAN, windows : Maps, cur : Indexes \cup {NoIndex}, lastw : Seq(Indexes)]

(* A session whose current window need not be one of its windows yet, and  *)
(* one between two commands.                                               *)
Open(r) ==
  /\ r \in Records /\ r.alive
  /\ DOMAIN r.windows # {}
  /\ r.cur \in DOMAIN r.windows \cup {NoIndex}
  /\ Range(r.lastw) \subseteq DOMAIN r.windows
Well(r) == Open(r) /\ r.cur \in DOMAIN r.windows

States ==
  [session : [Sessions -> Records], groups : SUBSET Seq(Sessions), queued : SUBSET Monitored]

(* The sessions and their groups, whatever the windows of the groups, and  *)
(* as they are between two commands.                                       *)
Parts(st) ==
  /\ st \in States
  /\ \A s \in Sessions : st.session[s] = Dead \/ Open(st.session[s])
  /\ \A g \in st.groups :
       g # <<>> /\ IsInjective(g) /\ \A t \in Range(g) : st.session[t].alive
  /\ \A g, h \in st.groups : Range(g) \cap Range(h) # {} => g = h
Sound(st) ==
  /\ Parts(st)
  /\ \A s \in Sessions : st.session[s].alive => Well(st.session[s])
  /\ \A g \in st.groups : \A s, t \in Range(g) :
       Range(st.session[s].windows) = Range(st.session[t].windows)

(* The lists of last windows, where no window is linked twice or for all.  *)
Once(r) == IsInjective(r.lastw)
Fine(r) == Once(r) \/ ~IsInjective(r.windows)
AllOnce(st) == \A s \in Sessions : Once(st.session[s])
AllFine(st) == \A s \in Sessions : Fine(st.session[s])

IInv == Sound(State) /\ AllFine(State)
-----------------------------------------------------------------------------
(* Induction, of the only form that is needed here, from the library's     *)
(* theorem on minimal elements.                                            *)
LEMMA Least ==
  ASSUME NEW T, T \subseteq Nat, T # {}
  PROVE  \E n \in T : \A m \in T : n <= m
  <1> DEFINE R == OpToRel(<, Nat)
  <1>1. IsWellFoundedOn(R, Nat)
    BY NatLessThanWellFounded
  <1>2. \A x, y \in Nat : x < y => <<x, y>> \in R
    BY DEF OpToRel
  <1> HIDE DEF R
  <1>3. PICK x \in T : \A y \in T : ~ (<<y, x>> \in R)
    BY <1>1, WFMin
  <1>4. ASSUME NEW m \in T PROVE x <= m
    <2>1. x \in Nat /\ m \in Nat
      OBVIOUS
    <2>2. ~ (m < x)
      BY <1>2, <1>3, <2>1
    <2> QED BY <2>1, <2>2
  <1> QED BY <1>4

LEMMA Induction ==
  ASSUME NEW N \in Nat, NEW T, 0 \in T, \A n \in 1 .. N : n - 1 \in T => n \in T
  PROVE  \A n \in 0 .. N : n \in T
  <1> DEFINE B == {n \in 0 .. N : n \notin T}
  <1> SUFFICES ASSUME B # {} PROVE FALSE
    OBVIOUS
  <1>1. B \subseteq Nat
    OBVIOUS
  <1>2. PICK n \in B : \A m \in B : n <= m
    BY <1>1, Least
  <1>3. n \in 0 .. N /\ n \notin T
    OBVIOUS
  <1>4. n \in 1 .. N /\ n - 1 \in 0 .. N
    BY <1>3
  <1>5. n - 1 \in B
    BY <1>3, <1>4
  <1> QED BY <1>2, <1>4, <1>5

LEMMA MinIs ==
  ASSUME NEW I, I \subseteq Nat, I # {}
  PROVE  Min(I) \in I /\ \A j \in I : Min(I) <= j
  <1>1. \E n \in I : \A m \in I : n <= m
    BY Least
  <1> QED BY <1>1 DEF Min

LEMMA MaxIs ==
  ASSUME NEW N \in Nat, NEW I, I \subseteq 0 .. N, I # {}
  PROVE  Max(I) \in I /\ \A j \in I : j <= Max(I)
  <1> DEFINE J == {N - i : i \in I}
  <1>1. J \subseteq Nat /\ J # {}
    <2>1. \A i \in I : i \in 0 .. N
      OBVIOUS
    <2>2. \A i \in I : N - i \in Nat
      BY <2>1
    <2> QED BY <2>2
  <1>2. PICK n \in J : \A m \in J : n <= m
    BY <1>1, Least
  <1>3. PICK i \in I : n = N - i
    OBVIOUS
  <1>4. ASSUME NEW j \in I PROVE i >= j
    <2>1. N - i <= N - j
      BY <1>2, <1>3
    <2>2. i \in 0 .. N /\ j \in 0 .. N
      OBVIOUS
    <2> QED BY <2>1, <2>2
  <1>5. Max(I) \in I /\ \A j \in I : Max(I) >= j
    BY <1>4 DEF Max
  <1> QED BY <1>5
-----------------------------------------------------------------------------
(* What Kept keeps.                                                        *)
KeptStep(seq, S, f, n) ==
  IF n = 0 THEN <<>>
  ELSE IF seq[n] \in S THEN Append(f[n - 1], seq[n]) ELSE f[n - 1]

LEMMA KeptExists ==
  ASSUME NEW X, NEW seq \in Seq(X), NEW S
  PROVE  \E f : f = [n \in 0 .. Len(seq) |-> KeptStep(seq, S, f, n)]
  <1> DEFINE T == {m \in Nat : \E f : f = [n \in 0 .. m |-> KeptStep(seq, S, f, n)]}
  <1>1. 0 \in T
    <2> DEFINE f == [n \in 0 .. 0 |-> <<>>]
    <2>1. \A n \in 0 .. 0 : KeptStep(seq, S, f, n) = <<>>
      BY DEF KeptStep
    <2>2. f = [n \in 0 .. 0 |-> KeptStep(seq, S, f, n)]
      BY <2>1
    <2> HIDE DEF f
    <2> QED BY <2>2
  <1>2. ASSUME NEW m \in 1 .. Len(seq), m - 1 \in T PROVE m \in T
    <2>1. PICK f : f = [n \in 0 .. m - 1 |-> KeptStep(seq, S, f, n)]
      BY <1>2
    <2> DEFINE g == [n \in 0 .. m |-> IF n = m THEN KeptStep(seq, S, f, m) ELSE f[n]]
    <2>2. m \in Nat /\ \A n \in 0 .. m - 1 : g[n] = f[n] /\ n # m /\ n \in 0 .. m
      OBVIOUS
    <2>3. ASSUME NEW n \in 0 .. m PROVE g[n] = KeptStep(seq, S, g, n)
      <3>1. n = 0 \/ n - 1 \in 0 .. m - 1
        OBVIOUS
      <3>2. KeptStep(seq, S, g, n) = KeptStep(seq, S, f, n)
        BY <2>2, <3>1 DEF KeptStep
      <3>3. g[n] = KeptStep(seq, S, f, n)
        <4>1. CASE n = m
          BY <4>1
        <4>2. CASE n # m
          <5>1. n \in 0 .. m - 1
            BY <4>2
          <5>2. f[n] = KeptStep(seq, S, f, n)
            BY <2>1, <5>1
          <5> QED BY <2>2, <5>1, <5>2
        <4> QED BY <4>1, <4>2
      <3> QED BY <3>2, <3>3
    <2>4. g = [n \in 0 .. m |-> g[n]]
      OBVIOUS
    <2> HIDE DEF g
    <2>5. g = [n \in 0 .. m |-> KeptStep(seq, S, g, n)]
      BY <2>3, <2>4
    <2> QED BY <2>2, <2>5
  <1>3. \A m \in 0 .. Len(seq) : m \in T
    <2> HIDE DEF T
    <2>1. Len(seq) \in Nat
      OBVIOUS
    <2> QED BY <1>1, <1>2, <2>1, Induction
  <1>4. Len(seq) \in 0 .. Len(seq)
    OBVIOUS
  <1> QED BY <1>3, <1>4

LEMMA KeptIs ==
  ASSUME NEW X, NEW seq \in Seq(X), NEW S
  PROVE  /\ Kept(seq, S) \in Seq(X)
         /\ Range(Kept(seq, S)) = Range(seq) \cap S
         /\ IsInjective(seq) => IsInjective(Kept(seq, S))
         /\ Range(seq) \subseteq S => Kept(seq, S) = seq
  <1> DEFINE kept[n \in 0 .. Len(seq)] ==
               IF n = 0 THEN <<>>
               ELSE IF seq[n] \in S THEN Append(kept[n - 1], seq[n]) ELSE kept[n - 1]
  <1>1. kept = [n \in 0 .. Len(seq) |-> KeptStep(seq, S, kept, n)]
    <2>1. PICK f : f = [n \in 0 .. Len(seq) |-> KeptStep(seq, S, f, n)]
      BY KeptExists
    <2>2. f = [n \in 0 .. Len(seq) |->
                IF n = 0 THEN <<>>
                ELSE IF seq[n] \in S THEN Append(f[n - 1], seq[n]) ELSE f[n - 1]]
      BY <2>1 DEF KeptStep
    <2>3. kept = [n \in 0 .. Len(seq) |->
                   IF n = 0 THEN <<>>
                   ELSE IF seq[n] \in S THEN Append(kept[n - 1], seq[n]) ELSE kept[n - 1]]
      BY <2>2
    <2> HIDE DEF kept
    <2> QED BY <2>3 DEF KeptStep
  <1>2. Kept(seq, S) = kept[Len(seq)]
    BY DEF Kept
  <1> HIDE DEF kept
  <1>3. Len(seq) \in Nat /\ \A n \in 1 .. Len(seq) : n \in 0 .. Len(seq) /\ n # 0 /\ seq[n] \in X
    OBVIOUS
  <1>4. kept[0] = <<>> /\ \A n \in 1 .. Len(seq) : kept[n] = KeptStep(seq, S, kept, n)
    <2>1. \A n \in 0 .. Len(seq) : kept[n] = KeptStep(seq, S, kept, n)
      BY <1>1
    <2>2. KeptStep(seq, S, kept, 0) = <<>> /\ 0 \in 0 .. Len(seq)
      BY <1>3 DEF KeptStep
    <2> QED BY <1>3, <2>1, <2>2
  <1> DEFINE P(n) ==
        /\ kept[n] \in Seq(X)
        /\ Range(kept[n]) = {seq[k] : k \in 1 .. n} \cap S
        /\ IsInjective(seq) => IsInjective(kept[n])
        /\ Range(seq) \subseteq S => Len(kept[n]) = n /\ \A k \in 1 .. n : kept[n][k] = seq[k]
      T == {n \in 0 .. Len(seq) : P(n)}
  <1>5. 0 \in T
    <2>1. kept[0] \in Seq(X) /\ Range(kept[0]) = {} /\ IsInjective(kept[0]) /\ Len(kept[0]) = 0
      BY <1>4 DEF Range, IsInjective
    <2> HIDE DEF kept
    <2>2. {seq[k] : k \in 1 .. 0} = {}
      OBVIOUS
    <2> QED BY <2>1, <2>2, <1>3
  <1>6. ASSUME NEW n \in 1 .. Len(seq), n - 1 \in T PROVE n \in T
    <2>1. P(n - 1)
      BY <1>6
    <2> HIDE DEF T
    <2> SUFFICES P(n)
      BY DEF T
    <2>2. {seq[k] : k \in 1 .. n} = {seq[k] : k \in 1 .. n - 1} \cup {seq[n]}
      <3>1. \A k \in 1 .. n : k = n \/ k \in 1 .. n - 1
        OBVIOUS
      <3>2. n \in 1 .. n /\ \A k \in 1 .. n - 1 : k \in 1 .. n
        OBVIOUS
      <3> QED BY <3>1, <3>2
    <2>3. DOMAIN seq = 1 .. Len(seq)
      OBVIOUS
    <2>4. n \in DOMAIN seq /\ seq[n] \in Range(seq)
      BY <2>3 DEF Range
    <2>5. CASE seq[n] \notin S
      <3>1. kept[n] = kept[n - 1]
        BY <1>3, <1>4, <2>5 DEF KeptStep
      <3>2. Range(kept[n]) = {seq[k] : k \in 1 .. n} \cap S
        BY <2>1, <2>2, <2>5, <3>1
      <3>3. ~ (Range(seq) \subseteq S)
        BY <2>4, <2>5
      <3> QED BY <2>1, <3>1, <3>2, <3>3
    <2>6. CASE seq[n] \in S
      <3>1. kept[n] = Append(kept[n - 1], seq[n])
        BY <1>3, <1>4, <2>6 DEF KeptStep
      <3> DEFINE l == Len(kept[n - 1])
      <3>2. /\ kept[n] \in Seq(X) /\ Len(kept[n]) = l + 1 /\ l \in Nat
            /\ DOMAIN kept[n] = 1 .. l + 1 /\ DOMAIN kept[n - 1] = 1 .. l
            /\ kept[n][l + 1] = seq[n]
            /\ \A k \in 1 .. l : kept[n][k] = kept[n - 1][k]
        BY <1>3, <2>1, <3>1
      <3> HIDE DEF l
      <3>3. Range(kept[n]) = {seq[k] : k \in 1 .. n} \cap S
        <4>1. 1 .. l + 1 = (1 .. l) \cup {l + 1}
          BY <3>2
        <4>2. /\ Range(kept[n]) = {kept[n][k] : k \in 1 .. l + 1}
              /\ Range(kept[n - 1]) = {kept[n - 1][k] : k \in 1 .. l}
          BY <3>2 DEF Range
        <4>3. Range(kept[n]) = {kept[n][k] : k \in 1 .. l} \cup {kept[n][l + 1]}
          BY <4>1, <4>2
        <4>4. {kept[n][k] : k \in 1 .. l} = {kept[n - 1][k] : k \in 1 .. l}
          BY <3>2
        <4>5. Range(kept[n]) = Range(kept[n - 1]) \cup {seq[n]}
          BY <3>2, <4>2, <4>3, <4>4
        <4> QED BY <2>1, <2>2, <2>6, <4>5
      <3>4. ASSUME IsInjective(seq) PROVE IsInjective(kept[n])
        <4>1. \A k \in 1 .. n - 1 : k \in DOMAIN seq /\ k # n
          BY <2>3
        <4>2. seq[n] \notin {seq[k] : k \in 1 .. n - 1}
          BY <2>4, <3>4, <4>1 DEF IsInjective
        <4>3. seq[n] \notin Range(kept[n - 1])
          BY <2>1, <4>2
        <4>4. \A a, b \in DOMAIN kept[n - 1] : kept[n - 1][a] = kept[n - 1][b] => a = b
          BY <2>1, <3>4 DEF IsInjective
        <4>5. \A a \in 1 .. l + 1 : a \in 1 .. l \/ a = l + 1
          BY <3>2
        <4>6. \A a \in 1 .. l : kept[n][a] # kept[n][l + 1]
          BY <3>2, <4>3 DEF Range
        <4>7. ASSUME NEW a \in DOMAIN kept[n], NEW b \in DOMAIN kept[n],
                     kept[n][a] = kept[n][b]
              PROVE  a = b
          <5>1. CASE a \in 1 .. l /\ b \in 1 .. l
            BY <3>2, <4>4, <4>7, <5>1
          <5>2. CASE a = l + 1 \/ b = l + 1
            BY <3>2, <4>5, <4>6, <4>7, <5>2
          <5> QED BY <3>2, <4>5, <5>1, <5>2
        <4> QED BY <4>7 DEF IsInjective
      <3>5. ASSUME Range(seq) \subseteq S
            PROVE  Len(kept[n]) = n /\ \A k \in 1 .. n : kept[n][k] = seq[k]
        <4>1. l = n - 1 /\ \A k \in 1 .. n - 1 : kept[n - 1][k] = seq[k]
          BY <2>1, <3>5 DEF l
        <4>2. \A k \in 1 .. n : k = n \/ k \in 1 .. n - 1
          OBVIOUS
        <4>3. Len(kept[n]) = n /\ kept[n][n] = seq[n]
          BY <3>2, <4>1
        <4>4. \A k \in 1 .. n - 1 : kept[n][k] = seq[k]
          BY <3>2, <4>1
        <4> QED BY <4>2, <4>3, <4>4
      <3> QED BY <3>2, <3>3, <3>4, <3>5
    <2> QED BY <2>5, <2>6
  <1> HIDE DEF P
  <1>7. Len(seq) \in 0 .. Len(seq)
    BY <1>3
  <1>8. Len(seq) \in T
    <2> HIDE DEF T
    <2> QED BY <1>3, <1>5, <1>6, <1>7, Induction
  <1>9. P(Len(seq))
    BY <1>8
  <1>10. Range(seq) = {seq[k] : k \in 1 .. Len(seq)}
    BY DEF Range
  <1>11. ASSUME Range(seq) \subseteq S PROVE Kept(seq, S) = seq
    <2>1. /\ kept[Len(seq)] \in Seq(X) /\ Len(kept[Len(seq)]) = Len(seq)
          /\ \A k \in 1 .. Len(seq) : kept[Len(seq)][k] = seq[k]
      BY <1>9, <1>11 DEF P
    <2> QED BY <1>2, <2>1
  <1> QED BY <1>2, <1>9, <1>10, <1>11 DEF P
-----------------------------------------------------------------------------
(* The lists of last windows.                                              *)
LEMMA WithoutIs ==
  ASSUME NEW X, NEW seq \in Seq(X), NEW i
  PROVE  /\ Without(seq, i) \in Seq(X)
         /\ Range(Without(seq, i)) = Range(seq) \ {i}
         /\ IsInjective(seq) => IsInjective(Without(seq, i))
  <1>1. Range(seq) \cap (Range(seq) \ {i}) = Range(seq) \ {i}
    OBVIOUS
  <1> QED BY <1>1, KeptIs DEF Without

LEMMA PrependIs ==
  ASSUME NEW X, NEW a \in X, NEW seq \in Seq(X)
  PROVE  /\ <<a>> \o seq \in Seq(X)
         /\ Range(<<a>> \o seq) = {a} \cup Range(seq)
         /\ IsInjective(seq) /\ a \notin Range(seq) => IsInjective(<<a>> \o seq)
  <1> DEFINE t == <<a>> \o seq
             n == Len(seq)
  <1>1. /\ t \in Seq(X) /\ n \in Nat /\ DOMAIN seq = 1 .. n /\ DOMAIN t = 1 .. n + 1
        /\ t[1] = a /\ \A k \in 1 .. n : t[k + 1] = seq[k]
    OBVIOUS
  <1> HIDE DEF t, n
  <1>2. \A k \in 1 .. n + 1 : k = 1 \/ k - 1 \in 1 .. n
    BY <1>1
  <1>3. \A k \in 1 .. n : k + 1 \in 1 .. n + 1 /\ 1 \in 1 .. n + 1
    BY <1>1
  <1>4. \A k \in 1 .. n + 1 : k # 1 => t[k] = seq[k - 1]
    BY <1>1, <1>2
  <1>5. 1 \in 1 .. n + 1
    BY <1>1
  <1>6. Range(t) = {a} \cup Range(seq)
    <2>1. ASSUME NEW x \in Range(t) PROVE x \in {a} \cup Range(seq)
      <3>1. PICK k \in 1 .. n + 1 : x = t[k]
        BY <1>1 DEF Range
      <3>2. CASE k = 1
        BY <1>1, <3>1, <3>2
      <3>3. CASE k # 1
        BY <1>1, <1>2, <1>4, <3>1, <3>3 DEF Range
      <3> QED BY <3>2, <3>3
    <2>2. {a} \cup Range(seq) \subseteq Range(t)
      BY <1>1, <1>3, <1>5 DEF Range
    <2> QED BY <2>1, <2>2
  <1>7. ASSUME IsInjective(seq), a \notin Range(seq) PROVE IsInjective(t)
    <2>1. \A k \in 1 .. n + 1 : k # 1 => t[k] # a
      BY <1>1, <1>2, <1>4, <1>7 DEF Range
    <2>2. \A k, l \in 1 .. n + 1 : k # 1 /\ l # 1 /\ t[k] = t[l] => k = l
      <3>1. \A k, l \in 1 .. n : seq[k] = seq[l] => k = l
        BY <1>1, <1>7 DEF IsInjective
      <3> QED BY <1>1, <1>2, <1>4, <3>1
    <2>3. \A k, l \in 1 .. n + 1 : t[k] = t[l] => k = l
      BY <1>1, <2>1, <2>2
    <2> QED BY <1>1, <2>3 DEF IsInjective
  <1> QED BY <1>1, <1>6, <1>7 DEF t
-----------------------------------------------------------------------------
(* One session.                                                            *)
LEMMA MapsIs ==
  ASSUME NEW f
  PROVE  f \in Maps <=> /\ f = [i \in DOMAIN f |-> f[i]]
                        /\ DOMAIN f \subseteq Indexes
                        /\ \A i \in DOMAIN f : f[i] \in Windows
  BY DEF Maps

LEMMA RecordIs ==
  ASSUME NEW r \in Records
  PROVE  /\ r.alive \in BOOLEAN /\ r.windows \in Maps
         /\ r.cur \in Indexes \cup {NoIndex} /\ r.lastw \in Seq(Indexes)
         /\ DOMAIN r.windows \subseteq Indexes
         /\ \A i \in DOMAIN r.windows : r.windows[i] \in Windows
  BY MapsIs DEF Records

LEMMA IndexIs ==
  /\ MaxIndex \in Nat /\ Indexes \subseteq Nat /\ NoIndex \notin Indexes
  /\ \A i \in Indexes : i \in 0 .. MaxIndex
  BY SessionsAssumption DEF Indexes, NoIndex

LEMMA PushedIs ==
  ASSUME NEW r \in Records, NEW i \in Indexes
  PROVE  /\ Pushed(r, i) \in Seq(Indexes)
         /\ Range(Pushed(r, i)) \subseteq Range(r.lastw) \cup ({r.cur} \ {NoIndex})
         /\ Once(r) => IsInjective(Pushed(r, i))
  <1> DEFINE rest == Without(r.lastw, i)
             more == Without(rest, r.cur)
  <1>1. r.lastw \in Seq(Indexes) /\ r.cur \in Indexes \cup {NoIndex}
    BY RecordIs
  <1>2. /\ rest \in Seq(Indexes) /\ Range(rest) \subseteq Range(r.lastw)
        /\ Once(r) => IsInjective(rest)
    BY <1>1, WithoutIs DEF Once
  <1> HIDE DEF rest
  <1>3. /\ more \in Seq(Indexes) /\ Range(more) = Range(rest) \ {r.cur}
        /\ Once(r) => IsInjective(more)
    BY <1>2, WithoutIs
  <1> HIDE DEF more
  <1>4. CASE r.cur = NoIndex
    <2>1. Pushed(r, i) = rest
      BY <1>4 DEF Pushed, rest
    <2> QED BY <1>2, <2>1
  <1>5. CASE r.cur # NoIndex
    <2>1. Pushed(r, i) = <<r.cur>> \o more /\ r.cur \in Indexes
      BY <1>1, <1>5 DEF Pushed, rest, more
    <2>2. /\ <<r.cur>> \o more \in Seq(Indexes)
          /\ Range(<<r.cur>> \o more) = {r.cur} \cup Range(more)
          /\ IsInjective(more) /\ r.cur \notin Range(more) => IsInjective(<<r.cur>> \o more)
      BY <1>3, <2>1, PrependIs
    <2>3. Range(more) \subseteq Range(r.lastw) /\ r.cur \notin Range(more)
      BY <1>2, <1>3
    <2> QED BY <1>3, <1>5, <2>1, <2>2, <2>3
  <1> QED BY <1>4, <1>5

LEMMA CurrentIs ==
  ASSUME NEW r, Open(r), NEW i \in DOMAIN r.windows
  PROVE  /\ Well(Current(r, i))
         /\ Current(r, i).windows = r.windows /\ Current(r, i).cur = i
         /\ Once(r) => Once(Current(r, i))
  <1>1. r \in Records /\ i \in Indexes /\ r.alive
    BY RecordIs DEF Open
  <1>2. CASE i = r.cur
    BY <1>2 DEF Current, Well
  <1>3. CASE i # r.cur
    <2> DEFINE q == Current(r, i)
    <2>1. q = [r EXCEPT !.cur = i, !.lastw = Pushed(r, i)]
      BY <1>3 DEF Current
    <2>2. /\ q \in Records /\ q.alive /\ q.windows = r.windows /\ q.cur = i
          /\ q.lastw = Pushed(r, i)
      <3>1. Pushed(r, i) \in Seq(Indexes)
        BY <1>1, PushedIs
      <3> HIDE DEF q
      <3> QED BY <1>1, <2>1, <3>1 DEF Records
    <2> HIDE DEF q
    <2>3. Range(Pushed(r, i)) \subseteq DOMAIN r.windows
      BY <1>1, PushedIs DEF Open
    <2> QED BY <1>1, <2>2, <2>3, PushedIs DEF Open, Well, Once, q
  <1> QED BY <1>2, <1>3

LEMMA PreviousIs ==
  ASSUME NEW I, I \subseteq Indexes, I # {}, NEW i \in Indexes \cup {NoIndex}
  PROVE  /\ Previous(I, i) \in I
         /\ i \in I /\ I # {i} => Previous(I, i) # i
  <1> DEFINE before == {j \in I : j < i}
  <1>1. I \subseteq 0 .. MaxIndex /\ MaxIndex \in Nat /\ i \in Int
    BY IndexIs DEF NoIndex
  <1>2. CASE before = {}
    <2>1. Previous(I, i) = Max(I)
      BY <1>2 DEF Previous
    <2>2. Max(I) \in I /\ \A j \in I : j <= Max(I)
      BY <1>1, MaxIs
    <2>3. ASSUME i \in I, I # {i} PROVE Max(I) # i
      <3>1. PICK j \in I : j # i
        BY <2>3
      <3>2. ~ (j < i) /\ j \in Int
        BY <1>1, <1>2
      <3> QED BY <1>1, <2>2, <3>1, <3>2
    <2> QED BY <2>1, <2>2, <2>3
  <1>3. CASE before # {}
    <2>1. Previous(I, i) = Max(before)
      BY <1>3 DEF Previous
    <2>2. Max(before) \in before
      <3>1. before \subseteq 0 .. MaxIndex
        BY <1>1
      <3> HIDE DEF before
      <3> QED BY <1>1, <1>3, <3>1, MaxIs
    <2> QED BY <1>1, <2>1, <2>2
  <1> QED BY <1>2, <1>3

LEMMA MoveAwayIs ==
  ASSUME NEW r, Open(r)
  PROVE  /\ Well(MoveAway(r)) /\ MoveAway(r).windows = r.windows
         /\ Once(r) => Once(MoveAway(r))
         /\ r.cur \in DOMAIN r.windows /\ DOMAIN r.windows # {r.cur}
              => MoveAway(r).cur # r.cur
  <1> DEFINE i == IF r.lastw # <<>> /\ Head(r.lastw) # r.cur THEN Head(r.lastw)
                  ELSE Previous(DOMAIN r.windows, r.cur)
  <1>1. /\ DOMAIN r.windows \subseteq Indexes /\ DOMAIN r.windows # {}
        /\ r.cur \in Indexes \cup {NoIndex} /\ r.lastw \in Seq(Indexes)
        /\ Range(r.lastw) \subseteq DOMAIN r.windows
    BY RecordIs DEF Open
  <1>2. r.lastw # <<>> => Head(r.lastw) \in Range(r.lastw)
    BY <1>1 DEF Range
  <1>3. i \in DOMAIN r.windows
    BY <1>1, <1>2, PreviousIs
  <1>4. r.cur \in DOMAIN r.windows /\ DOMAIN r.windows # {r.cur} => i # r.cur
    BY <1>1, PreviousIs
  <1>5. MoveAway(r) = Current(r, i)
    BY DEF MoveAway
  <1> HIDE DEF i
  <1> QED BY <1>3, <1>4, <1>5, CurrentIs

LEMMA TakenIs ==
  ASSUME NEW r, Open(r), NEW q, Open(q)
  PROVE  LET t == Taken(q.windows, Moved(q.windows, r))
         IN  /\ Well(t) /\ t.windows = q.windows
             /\ Once(r) => Once(t)
  <1> DEFINE ww == q.windows
             m == Moved(ww, r)
             t == Taken(ww, m)
  <1>0. ww \in Maps /\ DOMAIN ww \subseteq Indexes /\ DOMAIN ww # {}
    BY RecordIs DEF Open
  <1>1. Open(m) /\ (Once(r) => Once(m)) /\ m.cur \in DOMAIN m.windows
    <2>1. CASE r.cur \in DOMAIN ww
      <3>1. m = r /\ r.cur # NoIndex
        BY <1>0, <2>1, IndexIs DEF Moved
      <3> QED BY <2>1, <3>1 DEF Open
    <2>2. CASE r.cur \notin DOMAIN ww
      BY <2>2, MoveAwayIs DEF Moved, Well
    <2> QED BY <2>1, <2>2
  <1>2. m \in Records /\ m.alive /\ m.lastw \in Seq(Indexes)
    BY <1>1, RecordIs DEF Open
  <1> HIDE DEF m
  <1>3. ww \in Maps /\ DOMAIN ww \subseteq Indexes /\ DOMAIN ww # {}
    BY <1>0
  <1> HIDE DEF ww
  <1>4. Fallback(ww, m.cur) \in DOMAIN ww
    BY <1>3, IndexIs, MinIs DEF Fallback
  <1> DEFINE l == Kept(m.lastw, DOMAIN ww)
  <1>5. /\ l \in Seq(Indexes) /\ Range(l) \subseteq DOMAIN ww
        /\ Once(m) => IsInjective(l)
    BY <1>2, KeptIs DEF Once
  <1> HIDE DEF l
  <1>6. t = [m EXCEPT !.windows = ww, !.cur = Fallback(ww, m.cur), !.lastw = l]
    BY DEF Taken, l
  <1>7. /\ t \in Records /\ t.alive /\ t.windows = ww /\ t.cur \in DOMAIN ww /\ t.lastw = l
    BY <1>2, <1>3, <1>4, <1>5, <1>6 DEF Records
  <1> HIDE DEF t
  <1>8. Well(t) /\ t.windows = ww /\ (Once(r) => Once(t))
    BY <1>1, <1>3, <1>5, <1>7 DEF Open, Well, Once
  <1> QED BY <1>8 DEF t, m, ww
-----------------------------------------------------------------------------
(* One session of a state takes another record.                            *)
Changed(st, n, s, r) ==
  /\ n \in States /\ n.groups = st.groups
  /\ n.session[s] = r
  /\ \A t \in Sessions \ {s} : n.session[t] = st.session[t]

LEMMA StateIs ==
  ASSUME NEW st \in States
  PROVE  /\ st = [session |-> st.session, groups |-> st.groups, queued |-> st.queued]
         /\ st.session \in [Sessions -> Records] /\ st.groups \subseteq Seq(Sessions)
         /\ st.queued \subseteq Monitored
         /\ \A s \in Sessions : st.session[s] \in Records
  BY DEF States

LEMMA QueueIs ==
  ASSUME NEW st \in States, NEW W
  PROVE  /\ Queue(st, W) \in States
         /\ Queue(st, W).session = st.session /\ Queue(st, W).groups = st.groups
  <1>1. st.queued \cup (W \cap Monitored) \subseteq Monitored
    BY StateIs
  <1> QED BY <1>1 DEF Queue, States

LEMMA PutIs ==
  ASSUME NEW st \in States, NEW s \in Sessions, NEW r \in Records
  PROVE  Changed(st, [st EXCEPT !.session[s] = r], s, r)
  BY DEF States, Changed

LEMMA ChangedIs ==
  ASSUME NEW st \in States, NEW s \in Sessions, NEW n, NEW r, Changed(st, n, s, r)
  PROVE  /\ n \in States /\ r \in Records
         /\ \A W : Changed(st, Queue(n, W), s, r)
         /\ \A m, q : Changed(n, m, s, q) => Changed(st, m, s, q)
  <1>1. n \in States /\ r \in Records
    BY StateIs DEF Changed
  <1>2. \A W : Changed(st, Queue(n, W), s, r)
    BY <1>1, QueueIs DEF Changed
  <1> QED BY <1>1, <1>2 DEF Changed

LEMMA SetCurrentIs ==
  ASSUME NEW st \in States, NEW s \in Sessions, Open(st.session[s]),
         NEW i \in DOMAIN st.session[s].windows
  PROVE  Changed(st, SetCurrent(st, s, i), s, Current(st.session[s], i))
  <1> DEFINE r == st.session[s]
  <1>1. CASE i = r.cur
    BY <1>1 DEF SetCurrent, Current, Changed
  <1>2. CASE i # r.cur
    <2>1. Current(r, i) \in Records
      BY CurrentIs DEF Well, Open
    <2>2. SetCurrent(st, s, i)
            = Queue([st EXCEPT !.session[s] = Current(r, i)], {r.windows[i]})
      BY <1>2 DEF SetCurrent
    <2>3. Changed(st, [st EXCEPT !.session[s] = Current(r, i)], s, Current(r, i))
      BY <2>1, PutIs
    <2> QED BY <2>2, <2>3, ChangedIs
  <1> QED BY <1>1, <1>2
-----------------------------------------------------------------------------
(* Groups of sessions.                                                     *)
LEMMA GroupOfIs ==
  ASSUME NEW st, Parts(st), NEW s \in Sessions
  PROVE  \/ GroupOf(st, s) = <<>> /\ \A g \in st.groups : s \notin Range(g)
         \/ GroupOf(st, s) \in st.groups /\ s \in Range(GroupOf(st, s))
  <1> DEFINE G == {g \in st.groups : s \in Range(g)}
  <1>1. CASE G = {}
    BY <1>1 DEF GroupOf
  <1>2. CASE G # {}
    <2>1. GroupOf(st, s) \in G
      BY <1>2 DEF GroupOf
    <2> QED BY <2>1
  <1> QED BY <1>1, <1>2

LEMMA FellowsIs ==
  ASSUME NEW st, Parts(st), NEW s \in Sessions
  PROVE  /\ Fellows(st, s) \subseteq Sessions /\ s \in Fellows(st, s)
         /\ st.session[s].alive => \A t \in Fellows(st, s) : Open(st.session[t])
         /\ \A g \in st.groups :
              Range(g) \cap Fellows(st, s) # {} => g = GroupOf(st, s) /\ Range(g) = Fellows(st, s)
         /\ Fellows(st, s) # {s}
              => GroupOf(st, s) \in st.groups /\ Range(GroupOf(st, s)) = Fellows(st, s)
         /\ \A t \in Fellows(st, s) : Fellows(st, t) = Fellows(st, s)
         /\ \A t \in Sessions : t \notin Fellows(st, s) => Fellows(st, s) \cap Fellows(st, t) = {}
  <1> DEFINE G(t) == GroupOf(st, t)
             F(t) == Fellows(st, t)
  <1>1. st \in States /\ st.groups \subseteq Seq(Sessions)
    BY StateIs DEF Parts
  <1>2. \A g \in st.groups : Range(g) \subseteq Sessions
    BY <1>1 DEF Range
  <1>3. ASSUME NEW t \in Sessions
        PROVE  \/ F(t) = {t} /\ \A g \in st.groups : t \notin Range(g)
               \/ G(t) \in st.groups /\ t \in Range(G(t)) /\ F(t) = Range(G(t))
    <2>1. CASE G(t) = <<>> /\ \A g \in st.groups : t \notin Range(g)
      <3>1. Range(<<>>) = {}
        BY DEF Range
      <3> QED BY <2>1, <3>1 DEF Fellows
    <2>2. CASE G(t) \in st.groups /\ t \in Range(G(t))
      BY <2>2 DEF Fellows
    <2> QED BY <2>1, <2>2, GroupOfIs
  <1>4. ASSUME NEW t \in Sessions PROVE F(t) \subseteq Sessions /\ t \in F(t)
    BY <1>2, <1>3
  <1>5. ASSUME NEW t \in Sessions, NEW g \in st.groups, Range(g) \cap F(t) # {}
        PROVE  g = G(t) /\ Range(g) = F(t)
    <2>1. CASE F(t) = {t} /\ \A h \in st.groups : t \notin Range(h)
      BY <1>5, <2>1
    <2>2. CASE G(t) \in st.groups /\ t \in Range(G(t)) /\ F(t) = Range(G(t))
      BY <1>5, <2>2 DEF Parts
    <2> QED BY <1>3, <2>1, <2>2
  <1>6. ASSUME st.session[s].alive, NEW t \in F(s) PROVE Open(st.session[t])
    <2>1. st.session[t].alive
      BY <1>3, <1>6 DEF Parts
    <2>2. ~Dead.alive /\ t \in Sessions
      BY <1>4 DEF Dead
    <2> QED BY <2>1, <2>2 DEF Parts
  <1>7. ASSUME NEW t \in F(s) PROVE F(t) = F(s)
    <2>1. CASE F(s) = {s}
      BY <1>7, <2>1
    <2>2. CASE G(s) \in st.groups /\ F(s) = Range(G(s))
      <3>1. t \in Sessions /\ t \in F(t)
        BY <1>4
      <3>2. Range(G(s)) \cap F(t) # {}
        BY <1>7, <2>2, <3>1
      <3> QED BY <1>5, <2>2, <3>1, <3>2
    <2> QED BY <1>3, <2>1, <2>2
  <1>8. ASSUME NEW t \in Sessions, t \notin F(s) PROVE F(s) \cap F(t) = {}
    <2> SUFFICES ASSUME NEW u \in F(s), u \in F(t) PROVE FALSE
      OBVIOUS
    <2>1. F(t) = {t} \/ (G(t) \in st.groups /\ F(t) = Range(G(t)))
      BY <1>3
    <2>2. CASE F(t) = {t}
      BY <1>8, <2>2
    <2>3. CASE G(t) \in st.groups /\ F(t) = Range(G(t))
      <3>1. Range(G(t)) = F(s)
        BY <1>5, <2>3
      <3> QED BY <1>4, <1>8, <2>3, <3>1
    <2> QED BY <2>1, <2>2, <2>3
  <1>9. F(s) # {s} => G(s) \in st.groups /\ Range(G(s)) = F(s)
    BY <1>3
  <1> QED BY <1>4, <1>5, <1>6, <1>7, <1>8, <1>9

LEMMA SameGroups ==
  ASSUME NEW st, NEW n, n.groups = st.groups
  PROVE  \A s : GroupOf(n, s) = GroupOf(st, s) /\ Fellows(n, s) = Fellows(st, s)
  BY DEF GroupOf, Fellows
-----------------------------------------------------------------------------
(* Synchronizing a group.                                                  *)
Follows(p, q, r) ==     \* p becomes q, with the windows of r
  Well(q) /\ q.windows = r.windows /\ (Once(p) => Once(q))

LEMMA SynchronizeIs ==
  ASSUME NEW st \in States, NEW t \in Sessions, Open(st.session[t]),
         NEW S, S \subseteq Sessions \ {t}, \A s \in S : Open(st.session[s])
  PROVE  LET n == Synchronize(st, t, S)
         IN  /\ n \in States /\ n.groups = st.groups
             /\ \A s \in S : Follows(st.session[s], n.session[s], st.session[t])
             /\ \A s \in Sessions \ S : n.session[s] = st.session[s]
  <1> DEFINE ww == st.session[t].windows
             moved == [s \in S |-> Moved(ww, st.session[s])]
             f == [s \in Sessions |-> IF s \in S THEN Taken(ww, moved[s]) ELSE st.session[s]]
             W == {moved[s].windows[moved[s].cur] :
                     s \in {z \in S : moved[z].cur # st.session[z].cur}}
             n == Synchronize(st, t, S)
  <1>1. n = Queue([st EXCEPT !.session = f], W)
    BY DEF Synchronize
  <1>2. ASSUME NEW s \in S PROVE Follows(st.session[s], f[s], st.session[t])
    <2>1. moved[s] = Moved(ww, st.session[s]) /\ f[s] = Taken(ww, moved[s])
      OBVIOUS
    <2>2. f[s] = Taken(ww, Moved(ww, st.session[s]))
      BY <2>1
    <2> HIDE DEF f, moved
    <2> QED BY <2>2, TakenIs DEF Follows
  <1>3. \A s \in Sessions \ S : f[s] = st.session[s]
    OBVIOUS
  <1>4. f = [s \in Sessions |-> f[s]]
    OBVIOUS
  <1> HIDE DEF f, W, n
  <1>5. \A s \in Sessions : f[s] \in Records
    BY <1>2, <1>3, StateIs DEF Follows, Well, Open
  <1>6. [st EXCEPT !.session = f] \in States
    BY <1>4, <1>5 DEF States
  <1>7. [st EXCEPT !.session = f].session = f /\ [st EXCEPT !.session = f].groups = st.groups
    BY DEF States
  <1>8. n \in States /\ n.session = f /\ n.groups = st.groups
    BY <1>1, <1>6, <1>7, QueueIs
  <1> QED BY <1>2, <1>3, <1>8 DEF n

(* A session of st takes the record r and its group follows.               *)
Spread(st, n, s, r) ==
  /\ n \in States /\ n.groups = st.groups
  /\ n.session[s] = r
  /\ \A t \in Fellows(st, s) \ {s} : Follows(st.session[t], n.session[t], r)
  /\ \A t \in Sessions \ Fellows(st, s) : n.session[t] = st.session[t]

LEMMA SynchronizeFromIs ==
  ASSUME NEW st, Parts(st), NEW s \in Sessions, st.session[s].alive,
         NEW n, NEW r, Changed(st, n, s, r), Open(r)
  PROVE  Spread(st, SynchronizeFrom(n, s), s, r)
  <1> DEFINE others == Range(GroupOf(n, s)) \ {s}
             m == SynchronizeFrom(n, s)
  <1>1. st \in States /\ n \in States /\ n.groups = st.groups /\ n.session[s] = r
    BY DEF Parts, Changed
  <1>2. GroupOf(n, s) = GroupOf(st, s) /\ others = Fellows(st, s) \ {s}
    BY <1>1, SameGroups DEF Fellows
  <1>3. Fellows(st, s) \subseteq Sessions /\ \A t \in Fellows(st, s) : Open(st.session[t])
    BY FellowsIs
  <1>4. \A t \in others : t \in Sessions \ {s} /\ n.session[t] = st.session[t]
    BY <1>2, <1>3 DEF Changed
  <1>5. \A t \in Sessions \ Fellows(st, s) : n.session[t] = st.session[t]
    BY <1>3, FellowsIs DEF Changed
  <1>6. CASE others = {}
    <2>1. m = n
      BY <1>6 DEF SynchronizeFrom
    <2> QED BY <1>1, <1>2, <1>5, <1>6, <2>1 DEF Spread
  <1>7. CASE others # {}
    <2>1. m = Synchronize(n, s, others)
      BY <1>7 DEF SynchronizeFrom
    <2>2. others \subseteq Sessions \ {s} /\ \A t \in others : Open(n.session[t])
      BY <1>2, <1>3, <1>4
    <2> HIDE DEF others
    <2>3. /\ m \in States /\ m.groups = n.groups
          /\ \A t \in others : Follows(n.session[t], m.session[t], n.session[s])
          /\ \A t \in Sessions \ others : m.session[t] = n.session[t]
      BY <1>1, <2>1, <2>2, SynchronizeIs
    <2> HIDE DEF m
    <2>4. s \in Sessions \ others /\ s \in Fellows(st, s)
      BY <2>2, FellowsIs
    <2>5. \A t \in Sessions \ Fellows(st, s) : t \in Sessions \ others
      BY <1>2
    <2>6. Spread(st, m, s, r)
      BY <1>1, <1>2, <1>4, <1>5, <2>3, <2>4, <2>5 DEF Spread
    <2> QED BY <2>6 DEF m
  <1> QED BY <1>6, <1>7

LEMMA PartsAre ==
  ASSUME NEW st, Parts(st), NEW n \in States, n.groups = st.groups,
         \A s \in Sessions : n.session[s] = st.session[s] \/ Open(n.session[s])
  PROVE  Parts(n)
  <1>1. \A s \in Sessions : n.session[s] = Dead \/ Open(n.session[s])
    BY DEF Parts
  <1>2. ASSUME NEW g \in st.groups, NEW t \in Range(g) PROVE n.session[t].alive
    <2>1. t \in Sessions
      BY StateIs DEF Parts, Range
    <2> QED BY <2>1 DEF Parts, Open
  <1> QED BY <1>1, <1>2 DEF Parts

LEMMA ChangedParts ==
  ASSUME NEW st, Parts(st), NEW s \in Sessions, NEW n, NEW r, Changed(st, n, s, r), Open(r)
  PROVE  Parts(n)
  BY PartsAre DEF Changed

LEMMA SpreadParts ==
  ASSUME NEW st, Parts(st), NEW s \in Sessions, NEW n, NEW r, Spread(st, n, s, r), Open(r)
  PROVE  Parts(n)
  BY PartsAre DEF Spread, Follows, Well

LEMMA SpreadSound ==
  ASSUME NEW st, Sound(st), NEW s \in Sessions, NEW n, NEW r,
         Spread(st, n, s, r), Well(r)
  PROVE  /\ Sound(n)
         /\ AllOnce(st) /\ Once(r) => AllOnce(n)
  <1>1. Parts(st) /\ Parts(n) /\ Open(r)
    BY SpreadParts DEF Sound, Well
  <1>2. ASSUME NEW t \in Sessions, n.session[t].alive PROVE Well(n.session[t])
    BY <1>2 DEF Sound, Spread, Follows
  <1>3. ASSUME NEW g \in n.groups, NEW t \in Range(g), NEW u \in Range(g)
        PROVE  Range(n.session[t].windows) = Range(n.session[u].windows)
    <2>1. g \in st.groups /\ t \in Sessions /\ u \in Sessions
      BY <1>1, StateIs DEF Spread, Parts, Range
    <2>2. CASE Range(g) \cap Fellows(st, s) = {}
      BY <1>1, <2>1, <2>2 DEF Spread, Sound
    <2>3. CASE Range(g) \cap Fellows(st, s) # {}
      <3>1. t \in Fellows(st, s) /\ u \in Fellows(st, s)
        BY <1>1, <2>1, <2>3, FellowsIs
      <3>2. n.session[t].windows = r.windows /\ n.session[u].windows = r.windows
        BY <3>1 DEF Spread, Follows
      <3> QED BY <3>2
    <2> QED BY <2>2, <2>3
  <1>4. ASSUME AllOnce(st), Once(r) PROVE AllOnce(n)
    BY <1>4 DEF AllOnce, Spread, Follows
  <1> QED BY <1>1, <1>2, <1>3, <1>4 DEF Sound
-----------------------------------------------------------------------------
(* Linking a window to a session, and a new window.                        *)
Loose(r) ==     \* Open, but perhaps without a window
  /\ r \in Records /\ r.alive
  /\ r.cur \in DOMAIN r.windows \cup {NoIndex}
  /\ Range(r.lastw) \subseteq DOMAIN r.windows

LEMMA WithIs ==
  ASSUME NEW f \in Maps, NEW i \in Indexes, NEW w \in Windows
  PROVE  With(f, i, w) \in Maps /\ DOMAIN With(f, i, w) = DOMAIN f \cup {i}
  <1> DEFINE g == With(f, i, w)
  <1>1. g = [j \in DOMAIN f \cup {i} |-> IF j = i THEN w ELSE f[j]]
    BY DEF With
  <1> HIDE DEF g
  <1>2. g = [j \in DOMAIN g |-> g[j]] /\ DOMAIN g = DOMAIN f \cup {i}
    BY <1>1
  <1>3. \A j \in DOMAIN g : g[j] \in Windows
    BY <1>1, MapsIs
  <1>4. DOMAIN g \subseteq Indexes
    BY <1>2, MapsIs
  <1>5. g \in Maps
    BY <1>2, <1>3, <1>4, MapsIs
  <1> QED BY <1>2, <1>5 DEF g

LEMMA OnlyIs ==
  ASSUME NEW f \in Maps, NEW i
  PROVE  LET g == Only(f, Indexes \ {i})
         IN  /\ g \in Maps /\ DOMAIN g = DOMAIN f \ {i}
             /\ \A j \in DOMAIN g : g[j] = f[j]
  <1> DEFINE g == Only(f, Indexes \ {i})
  <1>1. DOMAIN f \cap (Indexes \ {i}) = DOMAIN f \ {i}
    BY MapsIs
  <1>2. g = [j \in DOMAIN f \ {i} |-> f[j]]
    BY <1>1 DEF Only
  <1> HIDE DEF g
  <1>3. g = [j \in DOMAIN g |-> g[j]] /\ DOMAIN g = DOMAIN f \ {i}
    BY <1>2
  <1>4. \A j \in DOMAIN g : g[j] = f[j] /\ g[j] \in Windows
    BY <1>2, MapsIs
  <1>5. DOMAIN g \subseteq Indexes
    BY <1>3, MapsIs
  <1>6. g \in Maps
    BY <1>3, <1>4, <1>5, MapsIs
  <1> QED BY <1>3, <1>4, <1>6 DEF g

LEMMA AddedIs ==
  ASSUME NEW r, Loose(r), NEW i \in Indexes, NEW w \in Windows
  PROVE  LET q == Added(r, i, w)
         IN  /\ Open(q) /\ DOMAIN q.windows = DOMAIN r.windows \cup {i}
             /\ q.cur = r.cur /\ q.lastw = r.lastw
  <1> DEFINE q == Added(r, i, w)
             f == With(r.windows, i, w)
  <1>1. r \in Records /\ r.windows \in Maps
    BY RecordIs DEF Loose
  <1>2. f \in Maps /\ DOMAIN f = DOMAIN r.windows \cup {i}
    BY <1>1, WithIs
  <1>3. q = [r EXCEPT !.windows = f]
    BY DEF Added
  <1> HIDE DEF q, f
  <1>4. q \in Records /\ q.windows = f /\ q.cur = r.cur /\ q.lastw = r.lastw /\ q.alive = r.alive
    BY <1>1, <1>2, <1>3 DEF Records
  <1>5. Open(q)
    BY <1>2, <1>4 DEF Open, Loose
  <1> QED BY <1>2, <1>4, <1>5 DEF q

LEMMA DisplacedIs ==
  ASSUME NEW r, Open(r), NEW i
  PROVE  LET q == Displaced(r, i)
         IN  /\ Loose(q) /\ DOMAIN q.windows = DOMAIN r.windows \ {i}
             /\ Once(r) => Once(q)
             /\ r.cur # i => q.cur = r.cur
             /\ \A j \in DOMAIN q.windows : q.windows[j] = r.windows[j]
  <1> DEFINE q == Displaced(r, i)
             f == Only(r.windows, Indexes \ {i})
             l == Without(r.lastw, i)
  <1>1. r \in Records /\ r.windows \in Maps /\ r.lastw \in Seq(Indexes) /\ r.alive
        /\ r.cur \in Indexes \cup {NoIndex}
    BY RecordIs DEF Open
  <1>2. f \in Maps /\ DOMAIN f = DOMAIN r.windows \ {i} /\ \A j \in DOMAIN f : f[j] = r.windows[j]
    BY <1>1, OnlyIs
  <1>3. l \in Seq(Indexes) /\ Range(l) = Range(r.lastw) \ {i} /\ (Once(r) => IsInjective(l))
    BY <1>1, WithoutIs DEF Once
  <1> DEFINE d == Detached(r, i)
  <1>4. d \in Records /\ d = [alive |-> TRUE, windows |-> f, cur |-> r.cur, lastw |-> l]
    <2>1. d = [r EXCEPT !.windows = f, !.lastw = l]
      BY DEF Detached
    <2> HIDE DEF d, f, l
    <2> QED BY <1>1, <1>2, <1>3, <2>1 DEF Records
  <1>5. q \in Records /\ q.windows = f /\ q.lastw = l /\ q.alive
        /\ q.cur = IF r.cur = i THEN NoIndex ELSE r.cur
    <2>1. q = [d EXCEPT !.cur = IF d.cur = i THEN NoIndex ELSE d.cur]
      BY DEF Displaced
    <2> HIDE DEF q, d, f, l
    <2> QED BY <1>1, <1>2, <1>3, <1>4, <2>1 DEF Records
  <1> HIDE DEF q, f, l
  <1>6. Loose(q)
    BY <1>2, <1>3, <1>5 DEF Loose, Open
  <1> QED BY <1>2, <1>3, <1>5, <1>6 DEF q, Once

LEMMA MakeWayIs ==
  ASSUME NEW st \in States, NEW s \in Sessions, Well(st.session[s]), NEW i \in Indexes
  PROVE  LET q == MakeWay(st, s, i).session[s]
         IN  /\ Changed(st, MakeWay(st, s, i), s, q)
             /\ Loose(q) /\ (Once(st.session[s]) => Once(q))
             /\ DOMAIN st.session[s].windows \subseteq DOMAIN q.windows \cup {i}
             /\ q.cur = NoIndex \/ q.cur \in DOMAIN q.windows
  <1> DEFINE r == st.session[s]
             n == MakeWay(st, s, i)
  <1>1. CASE i \in DOMAIN r.windows
    <2>1. r \in Records /\ Open(r)
      BY DEF Well, Open
    <2>2. n = [st EXCEPT !.session[s] = Displaced(r, i)]
      BY <1>1 DEF MakeWay, Displace
    <2> HIDE DEF n
    <2> DEFINE q == Displaced(r, i)
    <2>4. /\ Loose(q) /\ DOMAIN q.windows = DOMAIN r.windows \ {i}
          /\ Once(r) => Once(q)
      BY <2>1, DisplacedIs
    <2> HIDE DEF q
    <2>5. Changed(st, n, s, q)
      BY <2>2, <2>4, PutIs DEF Loose, q
    <2>6. n.session[s] = q
      BY <2>5 DEF Changed
    <2> QED BY <2>4, <2>5, <2>6 DEF Loose, n
  <1>2. CASE i \notin DOMAIN r.windows
    <2>1. n = st
      BY <1>2 DEF MakeWay
    <2> QED BY <2>1 DEF Changed, Well, Open, Loose
  <1> QED BY <1>1, <1>2

LEMMA AttachIs ==
  ASSUME NEW st, Parts(st), NEW s \in Sessions, st.session[s].alive,
         NEW n, NEW r, Changed(st, n, s, r), Loose(r),
         NEW w \in Windows, NEW i \in Indexes
  PROVE  Spread(st, Attach(n, s, w, i), s, Added(r, i, w))
  <1> DEFINE q == Added(r, i, w)
             m == [n EXCEPT !.session[s] = q]
  <1>1. st \in States /\ n \in States /\ r \in Records /\ n.session[s] = r
    BY ChangedIs DEF Parts, Changed
  <1>2. Open(q) /\ q \in Records
    BY AddedIs DEF Open
  <1>3. Attach(n, s, w, i) = SynchronizeFrom(m, s)
    BY <1>1 DEF Attach
  <1>4. Changed(n, m, s, q)
    BY <1>1, <1>2, PutIs
  <1>5. Changed(st, m, s, q)
    BY <1>1, <1>4, ChangedIs
  <1> HIDE DEF m, q
  <1>6. Spread(st, SynchronizeFrom(m, s), s, q)
    BY <1>2, <1>5, SynchronizeFromIs
  <1> QED BY <1>3, <1>6 DEF q

LEMMA SpreadChanged ==
  ASSUME NEW st \in States, NEW s \in Sessions, NEW n, NEW q, Spread(st, n, s, q),
         NEW m, NEW r, Changed(n, m, s, r), r.windows = q.windows, s \in Fellows(st, s)
  PROVE  Spread(st, m, s, r)
  <1>1. \A t \in Fellows(st, s) \ {s} : t \in Sessions => Follows(st.session[t], m.session[t], r)
    BY DEF Spread, Changed, Follows
  <1>2. Fellows(st, s) \subseteq Sessions
    BY StateIs DEF Fellows, GroupOf, Range
  <1> QED BY <1>1, <1>2 DEF Spread, Changed

LEMMA LinkWindowIs ==
  ASSUME NEW st, Parts(st), NEW s \in Sessions, st.session[s].alive, Well(st.session[s]),
         NEW w \in Windows, NEW i \in Indexes, NEW select \in BOOLEAN
  PROVE  LET n == LinkWindow(st, w, s, i, select)
         IN  /\ Spread(st, n, s, n.session[s]) /\ Well(n.session[s])
             /\ Once(st.session[s]) => Once(n.session[s])
             /\ DOMAIN st.session[s].windows \subseteq DOMAIN n.session[s].windows
  <1> DEFINE clear == MakeWay(st, s, i)
             r == clear.session[s]
             q == Added(r, i, w)
             m == Attach(clear, s, w, i)
             n == LinkWindow(st, w, s, i, select)
  <1>1. st \in States /\ s \in Fellows(st, s)
    BY FellowsIs DEF Parts
  <1>2. /\ Changed(st, clear, s, r) /\ Loose(r) /\ (Once(st.session[s]) => Once(r))
        /\ DOMAIN st.session[s].windows \subseteq DOMAIN r.windows \cup {i}
        /\ r.cur = NoIndex \/ r.cur \in DOMAIN r.windows
    BY <1>1, MakeWayIs
  <1>3. n = IF select \/ r.cur = NoIndex THEN SetCurrent(m, s, i) ELSE m
    BY DEF LinkWindow
  <1> HIDE DEF clear, n
  <1>4. Spread(st, m, s, q)
    BY <1>2, AttachIs
  <1> HIDE DEF r, m
  <1>5. /\ Open(q) /\ DOMAIN q.windows = DOMAIN r.windows \cup {i}
        /\ q.cur = r.cur /\ q.lastw = r.lastw
    BY <1>2, AddedIs
  <1> HIDE DEF q
  <1>6. m \in States /\ m.session[s] = q
    BY <1>4 DEF Spread
  <1>7. CASE select \/ r.cur = NoIndex
    <2> DEFINE p == Current(q, i)
    <2>1. Changed(m, n, s, p)
      BY <1>3, <1>5, <1>6, <1>7, SetCurrentIs
    <2>2. Well(p) /\ p.windows = q.windows /\ (Once(q) => Once(p))
      BY <1>5, CurrentIs
    <2> HIDE DEF p
    <2>3. Spread(st, n, s, p)
      BY <1>1, <1>4, <2>1, <2>2, SpreadChanged
    <2>4. n.session[s] = p
      BY <2>3 DEF Spread
    <2>5. Spread(st, n, s, n.session[s]) /\ Well(n.session[s])
          /\ (Once(st.session[s]) => Once(n.session[s]))
          /\ DOMAIN st.session[s].windows \subseteq DOMAIN n.session[s].windows
      BY <1>2, <1>5, <2>2, <2>3, <2>4 DEF Once
    <2> QED BY <2>5 DEF n
  <1>8. CASE ~ (select \/ r.cur = NoIndex)
    <2>1. n = m /\ q.cur \in DOMAIN q.windows
      BY <1>2, <1>3, <1>5, <1>8
    <2>2. Spread(st, n, s, n.session[s]) /\ Well(n.session[s])
          /\ (Once(st.session[s]) => Once(n.session[s]))
          /\ DOMAIN st.session[s].windows \subseteq DOMAIN n.session[s].windows
      BY <1>2, <1>4, <1>5, <1>6, <2>1 DEF Once, Well
    <2> QED BY <2>2 DEF n
  <1> QED BY <1>7, <1>8

LEMMA BegunIs ==
  ASSUME NEW r, Loose(r), NEW i \in Indexes, NEW w \in Windows,
         r.cur = NoIndex \/ r.cur \in DOMAIN r.windows
  PROVE  LET q == Begun(r, i, w)
         IN  Well(q) /\ i \in DOMAIN q.windows /\ (Once(r) => Once(q))
  <1> DEFINE a == Added(r, i, w)
             q == Begun(r, i, w)
  <1>1. /\ Open(a) /\ DOMAIN a.windows = DOMAIN r.windows \cup {i}
        /\ a.cur = r.cur /\ a.lastw = r.lastw
    BY AddedIs
  <1>2. q = [a EXCEPT !.cur = IF a.cur = NoIndex THEN i ELSE a.cur]
    BY DEF Begun
  <1> HIDE DEF a, q
  <1>3. a \in Records /\ a.alive
    BY <1>1 DEF Open
  <1>4. /\ q \in Records /\ q.windows = a.windows /\ q.lastw = a.lastw /\ q.alive
        /\ q.cur = IF a.cur = NoIndex THEN i ELSE a.cur
    BY <1>2, <1>3 DEF Records
  <1>5. Well(q) /\ i \in DOMAIN q.windows /\ (Once(r) => Once(q))
    BY <1>1, <1>4 DEF Open, Well, Once
  <1> QED BY <1>5 DEF q

LEMMA SpawnIs ==
  ASSUME NEW st, Sound(st), NEW s \in Sessions, st.session[s].alive,
         NEW w \in Windows, NEW i \in Indexes, NEW detached \in BOOLEAN
  PROVE  LET n == Spawn(st, s, w, i, detached)
         IN  Sound(n) /\ (AllOnce(st) => AllOnce(n))
  <1> DEFINE clear == MakeWay(st, s, i)
             r == clear.session[s]
             q == Begun(r, i, w)
             put == [clear EXCEPT !.session[s] = q]
             made == Queue(put, {w})
             m == IF detached THEN made ELSE SetCurrent(made, s, i)
             p == IF detached THEN q ELSE Current(q, i)
             n == Spawn(st, s, w, i, detached)
  <1>1. st \in States /\ Parts(st) /\ Well(st.session[s])
    BY DEF Parts, Sound
  <1>2. /\ Changed(st, clear, s, r) /\ Loose(r) /\ (Once(st.session[s]) => Once(r))
        /\ r.cur = NoIndex \/ r.cur \in DOMAIN r.windows
    BY <1>1, MakeWayIs
  <1>3. n = SynchronizeFrom(m, s)
    BY DEF Spawn
  <1> HIDE DEF clear, n
  <1>4. Well(q) /\ i \in DOMAIN q.windows /\ (Once(r) => Once(q))
    BY <1>2, BegunIs
  <1>5. clear \in States /\ q \in Records
    BY <1>2, <1>4 DEF Changed, Well, Open
  <1> HIDE DEF r
  <1>6. Changed(clear, put, s, q)
    BY <1>5, PutIs
  <1> HIDE DEF put, q
  <1>7. Changed(st, made, s, q)
    BY <1>1, <1>2, <1>5, <1>6, ChangedIs
  <1> HIDE DEF made
  <1>8. Changed(st, m, s, p) /\ Well(p) /\ (Once(q) => Once(p))
    <2>1. CASE detached
      BY <1>4, <1>7, <2>1
    <2>2. CASE ~detached
      <3>1. made \in States /\ made.session[s] = q
        BY <1>7 DEF Changed
      <3>2. Changed(made, SetCurrent(made, s, i), s, Current(q, i))
        BY <1>4, <3>1, SetCurrentIs DEF Well
      <3>3. Changed(st, SetCurrent(made, s, i), s, Current(q, i))
        BY <1>1, <1>7, <3>2, ChangedIs
      <3> QED BY <1>4, <2>2, <3>3, CurrentIs DEF Well
    <2> QED BY <2>1, <2>2
  <1> HIDE DEF m, p
  <1>9. Spread(st, n, s, p)
    BY <1>1, <1>3, <1>8, SynchronizeFromIs DEF Well
  <1>10. Sound(n) /\ (AllOnce(st) => AllOnce(n))
    BY <1>2, <1>4, <1>8, <1>9, SpreadSound DEF AllOnce
  <1> QED BY <1>10 DEF n
-----------------------------------------------------------------------------
(* Unlinking a window, and the end of sessions.                            *)
LEMMA DetachedIs ==
  ASSUME NEW r, Well(r), NEW i, r.cur # i
  PROVE  LET q == Detached(r, i)
         IN  /\ Well(q) /\ DOMAIN q.windows = DOMAIN r.windows \ {i}
             /\ \A j \in DOMAIN q.windows : q.windows[j] = r.windows[j]
             /\ Once(r) => Once(q)
  <1> DEFINE q == Detached(r, i)
             f == Only(r.windows, Indexes \ {i})
             l == Without(r.lastw, i)
  <1>1. /\ r \in Records /\ r.windows \in Maps /\ r.lastw \in Seq(Indexes) /\ r.alive
        /\ r.cur \in DOMAIN r.windows
    BY RecordIs DEF Well, Open
  <1>2. f \in Maps /\ DOMAIN f = DOMAIN r.windows \ {i} /\ \A j \in DOMAIN f : f[j] = r.windows[j]
    BY <1>1, OnlyIs
  <1>3. l \in Seq(Indexes) /\ Range(l) = Range(r.lastw) \ {i} /\ (Once(r) => IsInjective(l))
    BY <1>1, WithoutIs DEF Once
  <1>4. q = [r EXCEPT !.windows = f, !.lastw = l]
    BY DEF Detached
  <1> HIDE DEF q, f, l
  <1>5. /\ q \in Records /\ q.windows = f /\ q.lastw = l /\ q.alive /\ q.cur = r.cur
    BY <1>1, <1>2, <1>3, <1>4 DEF Records
  <1>6. Well(q)
    BY <1>1, <1>2, <1>3, <1>5 DEF Open, Well
  <1> QED BY <1>2, <1>3, <1>5, <1>6 DEF q, Once

LEMMA DetachIs ==
  ASSUME NEW st, Sound(st), NEW s \in Sessions, st.session[s].alive,
         NEW i \in DOMAIN st.session[s].windows, ~IsOnly(st, s)
  PROVE  LET n == Detach(st, s, i)
         IN  /\ Spread(st, n, s, n.session[s]) /\ Well(n.session[s])
             /\ Once(st.session[s]) => Once(n.session[s])
             /\ DOMAIN n.session[s].windows = DOMAIN st.session[s].windows \ {i}
             /\ \A j \in DOMAIN n.session[s].windows :
                  n.session[s].windows[j] = st.session[s].windows[j]
  <1> DEFINE r == st.session[s]
             away == MoveAway(r).cur
             moved == IF r.cur = i THEN SetCurrent(st, s, away) ELSE st
             q == moved.session[s]
             p == Detached(q, i)
             m == [moved EXCEPT !.session[s] = p]
             n == Detach(st, s, i)
  <1>1. st \in States /\ Parts(st) /\ Well(r) /\ Open(r)
    BY DEF Parts, Sound, Well
  <1>2. DOMAIN r.windows # {i}
    BY FS_Singleton DEF IsOnly
  <1>3. n = SynchronizeFrom(m, s)
    BY DEF Detach
  <1> HIDE DEF n
  <1>4. /\ Changed(st, moved, s, q) /\ Well(q) /\ q.windows = r.windows
        /\ q.cur # i /\ (Once(r) => Once(q))
    <2>1. CASE r.cur # i
      BY <1>1, <2>1 DEF Changed
    <2>2. CASE r.cur = i
      <3>1. away \in DOMAIN r.windows /\ away # i
        BY <1>1, <1>2, <2>2, MoveAwayIs DEF Well
      <3> HIDE DEF away
      <3>2. moved = SetCurrent(st, s, away)
        BY <2>2
      <3>3. Changed(st, moved, s, Current(r, away))
        BY <1>1, <3>1, <3>2, SetCurrentIs
      <3>4. q = Current(r, away)
        BY <3>3 DEF Changed
      <3> QED BY <1>1, <3>1, <3>3, <3>4, CurrentIs
    <2> QED BY <2>1, <2>2
  <1> HIDE DEF moved
  <1>5. /\ Well(p) /\ DOMAIN p.windows = DOMAIN q.windows \ {i}
        /\ \A j \in DOMAIN p.windows : p.windows[j] = q.windows[j]
        /\ Once(q) => Once(p)
    BY <1>4, DetachedIs
  <1> HIDE DEF q
  <1>6. moved \in States /\ p \in Records
    BY <1>4, <1>5 DEF Changed, Well, Open
  <1> HIDE DEF p
  <1>7. Changed(moved, m, s, p)
    BY <1>6, PutIs
  <1> HIDE DEF m
  <1>8. Changed(st, m, s, p)
    BY <1>1, <1>4, <1>7, ChangedIs
  <1>9. Spread(st, n, s, p)
    BY <1>1, <1>3, <1>5, <1>8, SynchronizeFromIs DEF Well
  <1>10. n.session[s] = p
    BY <1>9 DEF Spread
  <1> QED BY <1>4, <1>5, <1>9, <1>10 DEF n

LEMMA DestroyIs ==
  ASSUME NEW st, Sound(st), NEW S
  PROVE  LET n == Destroy(st, S)
         IN  /\ Sound(n)
             /\ \A s \in Sessions : n.session[s] = IF s \in S THEN Dead ELSE st.session[s]
  <1> DEFINE n == Destroy(st, S)
             f == [s \in Sessions |-> IF s \in S THEN Dead ELSE st.session[s]]
             left(g) == Kept(g, Sessions \ S)
  <1>1. st \in States /\ st.groups \subseteq Seq(Sessions) /\ Parts(st)
    BY StateIs DEF Sound, Parts
  <1>2. Dead \in Records /\ ~Dead.alive
    <2>1. [i \in {} |-> {}] \in [{} -> Windows] /\ {} \in SUBSET Indexes
      OBVIOUS
    <2>2. [i \in {} |-> {}] \in Maps
      BY <2>1 DEF Maps
    <2>3. <<>> \in Seq(Indexes)
      OBVIOUS
    <2> QED BY <2>2, <2>3 DEF Dead, Records
  <1>3. ASSUME NEW g \in st.groups
        PROVE  /\ left(g) \in Seq(Sessions) /\ Range(left(g)) = Range(g) \ S
               /\ IsInjective(left(g)) /\ Range(left(g)) \subseteq Range(g)
               /\ Range(g) \subseteq Sessions
    <2>1. g \in Seq(Sessions) /\ IsInjective(g)
      BY <1>1 DEF Parts
    <2>2. Range(g) \subseteq Sessions
      BY <2>1 DEF Range
    <2> QED BY <2>1, <2>2, KeptIs
  <1>4. n.session = f /\ n.groups = {left(g) : g \in st.groups} \ {<<>>} /\ n.queued = st.queued
        /\ n = [session |-> n.session, groups |-> n.groups, queued |-> n.queued]
    <2> DEFINE G == {left(g) : g \in st.groups} \ {<<>>}
    <2>1. n = [st EXCEPT !.session = f, !.groups = G]
      BY DEF Destroy
    <2> HIDE DEF n, f, G
    <2>2. n = [session |-> f, groups |-> G, queued |-> st.queued]
      BY <1>1, <2>1 DEF States
    <2> QED BY <2>2 DEF G
  <1> HIDE DEF n, left
  <1>5. \A s \in Sessions : n.session[s] = IF s \in S THEN Dead ELSE st.session[s]
    BY <1>4
  <1>6. n \in States
    <2>1. f \in [Sessions -> Records]
      BY <1>1, <1>2, StateIs
    <2>2. n.groups \subseteq Seq(Sessions)
      BY <1>3, <1>4
    <2> HIDE DEF f
    <2> QED BY <1>1, <1>4, <2>1, <2>2, StateIs DEF States
  <1> HIDE DEF f
  <1>7. ASSUME NEW h \in n.groups
        PROVE  \E g \in st.groups : h = left(g)
    BY <1>4
  <1>8. ASSUME NEW h \in n.groups
        PROVE  /\ h # <<>> /\ IsInjective(h)
               /\ \A t \in Range(h) : t \in Sessions /\ t \notin S /\ n.session[t] = st.session[t]
               /\ \A t \in Range(h) : n.session[t].alive
    <2>1. PICK g \in st.groups : h = left(g)
      BY <1>7
    <2>2. h # <<>> /\ IsInjective(h)
      BY <1>3, <1>4, <2>1
    <2>3. \A t \in Range(h) : t \in Sessions /\ t \notin S /\ t \in Range(g)
      BY <1>3, <2>1
    <2> QED BY <1>1, <1>5, <2>2, <2>3 DEF Parts
  <1>9. ASSUME NEW h \in n.groups, NEW k \in n.groups, Range(h) \cap Range(k) # {} PROVE h = k
    <2>1. PICK g \in st.groups : h = left(g)
      BY <1>7
    <2>2. PICK e \in st.groups : k = left(e)
      BY <1>7
    <2>3. Range(g) \cap Range(e) # {}
      BY <1>3, <1>9, <2>1, <2>2
    <2> QED BY <1>1, <2>1, <2>2, <2>3 DEF Parts
  <1>10. \A s \in Sessions : n.session[s] = Dead \/ Open(n.session[s])
    BY <1>1, <1>5 DEF Parts
  <1>11. Parts(n)
    BY <1>6, <1>8, <1>9, <1>10 DEF Parts
  <1>12. \A s \in Sessions : n.session[s].alive => Well(n.session[s])
    BY <1>2, <1>5 DEF Sound
  <1>13. ASSUME NEW h \in n.groups, NEW t \in Range(h), NEW u \in Range(h)
         PROVE  Range(n.session[t].windows) = Range(n.session[u].windows)
    <2>1. PICK g \in st.groups : h = left(g)
      BY <1>7
    <2>2. t \in Range(g) /\ u \in Range(g)
      BY <1>3, <2>1
    <2> QED BY <1>8, <2>2 DEF Sound
  <1>14. Sound(n)
    BY <1>11, <1>12, <1>13 DEF Sound
  <1> QED BY <1>5, <1>14 DEF n

LEMMA DeadIs == Once(Dead) /\ DOMAIN Dead.windows = {} /\ ~Dead.alive /\ Range(Dead.windows) = {}
  BY DEF Dead, Once, IsInjective, Range

LEMMA UnlinkIs ==
  ASSUME NEW st, Sound(st), NEW s \in Sessions, st.session[s].alive,
         NEW i \in DOMAIN st.session[s].windows
  PROVE  LET n == Unlink(st, s, i)
         IN  /\ Sound(n)
             /\ \A t \in Sessions : Once(st.session[t]) => Once(n.session[t])
             /\ \A t \in Sessions \ Fellows(st, s) : n.session[t] = st.session[t]
             /\ \/ \A t \in Fellows(st, s) : n.session[t] = Dead
                \/ /\ n.groups = st.groups /\ n.session[s].alive
                   /\ DOMAIN n.session[s].windows = DOMAIN st.session[s].windows \ {i}
                   /\ \A j \in DOMAIN n.session[s].windows :
                        n.session[s].windows[j] = st.session[s].windows[j]
  <1> DEFINE n == Unlink(st, s, i)
             F == Fellows(st, s)
  <1>1. F \subseteq Sessions /\ s \in F
    BY FellowsIs DEF Sound
  <1>2. CASE IsOnly(st, s)
    <2>1. n = Destroy(st, F)
      BY <1>2 DEF Unlink, DestroyGroup
    <2>2. Sound(n) /\ \A t \in Sessions : n.session[t] = IF t \in F THEN Dead ELSE st.session[t]
      BY <2>1, DestroyIs
    <2> HIDE DEF n
    <2> QED BY <1>1, <2>2, DeadIs DEF n
  <1>3. CASE ~IsOnly(st, s)
    <2>1. n = Detach(st, s, i)
      BY <1>3 DEF Unlink
    <2>2. /\ Spread(st, n, s, n.session[s]) /\ Well(n.session[s])
          /\ Once(st.session[s]) => Once(n.session[s])
          /\ DOMAIN n.session[s].windows = DOMAIN st.session[s].windows \ {i}
          /\ \A j \in DOMAIN n.session[s].windows :
               n.session[s].windows[j] = st.session[s].windows[j]
      BY <1>3, <2>1, DetachIs
    <2> HIDE DEF n
    <2>3. Sound(n)
      BY <2>2, SpreadSound
    <2>4. \A t \in Sessions : Once(st.session[t]) => Once(n.session[t])
      BY <2>2 DEF Spread, Follows
    <2>5. n.groups = st.groups /\ n.session[s].alive
      BY <2>2 DEF Spread, Well, Open
    <2>6. \A t \in Sessions \ Fellows(st, s) : n.session[t] = st.session[t]
      BY <2>2 DEF Spread
    <2> QED BY <2>2, <2>3, <2>4, <2>5, <2>6 DEF n
  <1> QED BY <1>2, <1>3
-----------------------------------------------------------------------------
(* A loop: a function of the number of turns, each from the one before.    *)
Turns(f, N, F, a) ==
  /\ f = [n \in 0 .. N |-> f[n]] /\ f[0] = a
  /\ \A n \in 1 .. N : f[n] = F[<<f[n - 1], n>>]

LEMMA Loop ==
  ASSUME NEW N \in Nat, NEW F, NEW a
  PROVE  \E f : Turns(f, N, F, a)
  <1> DEFINE Turn(f, n) == IF n = 0 THEN a ELSE F[<<f[n - 1], n>>]
             T == {m \in Nat : \E f : f = [n \in 0 .. m |-> Turn(f, n)]}
  <1>1. 0 \in T
    <2> DEFINE f == [n \in 0 .. 0 |-> a]
    <2>1. f = [n \in 0 .. 0 |-> Turn(f, n)]
      OBVIOUS
    <2> HIDE DEF f, Turn
    <2> QED BY <2>1
  <1>2. ASSUME NEW m \in 1 .. N, m - 1 \in T PROVE m \in T
    <2>1. PICK f : f = [n \in 0 .. m - 1 |-> Turn(f, n)]
      BY <1>2
    <2> DEFINE g == [n \in 0 .. m |-> IF n = m THEN Turn(f, m) ELSE f[n]]
    <2>2. m \in Nat /\ \A n \in 0 .. m - 1 : g[n] = f[n] /\ n # m /\ n \in 0 .. m
      OBVIOUS
    <2>3. ASSUME NEW n \in 0 .. m PROVE g[n] = Turn(g, n)
      <3>1. n = 0 \/ n - 1 \in 0 .. m - 1
        OBVIOUS
      <3>2. Turn(g, n) = Turn(f, n)
        BY <2>2, <3>1
      <3>3. g[n] = Turn(f, n)
        <4>1. CASE n = m
          BY <4>1
        <4>2. CASE n # m
          <5>1. n \in 0 .. m - 1
            BY <4>2
          <5> HIDE DEF Turn
          <5>2. f[n] = Turn(f, n)
            BY <2>1, <5>1
          <5> QED BY <2>2, <5>1, <5>2
        <4> QED BY <4>1, <4>2
      <3> QED BY <3>2, <3>3
    <2>4. g = [n \in 0 .. m |-> g[n]]
      OBVIOUS
    <2> HIDE DEF g, Turn
    <2>5. g = [n \in 0 .. m |-> Turn(g, n)]
      BY <2>3, <2>4
    <2> QED BY <2>2, <2>5
  <1>3. \A m \in 0 .. N : m \in T
    <2> HIDE DEF T
    <2> QED BY <1>1, <1>2, Induction
  <1>4. N \in 0 .. N /\ 0 \in 0 .. N /\ \A n \in 1 .. N : n \in 0 .. N /\ n # 0
    OBVIOUS
  <1>5. PICK f : f = [n \in 0 .. N |-> Turn(f, n)]
    BY <1>3, <1>4
  <1>6. \A n \in 0 .. N : f[n] = Turn(f, n)
    <2> HIDE DEF Turn
    <2> QED BY <1>5
  <1>7. f = [n \in 0 .. N |-> f[n]]
    <2> HIDE DEF Turn
    <2> QED BY <1>5
  <1> QED BY <1>4, <1>6, <1>7 DEF Turns

-----------------------------------------------------------------------------
(* The loop of server_kill_window over one session: x is the state after   *)
(* the indexes below n, from st.                                           *)
Killing(st, x, s, w, n) ==
  /\ Sound(x)
  /\ \A t \in Sessions \ Fellows(st, s) : x.session[t] = st.session[t]
  /\ \A t \in Sessions : Once(st.session[t]) => Once(x.session[t])
  /\ (\A t \in Fellows(st, s) : x.session[t] = Dead) \/ x.groups = st.groups
  /\ \A i \in DOMAIN x.session[s].windows : i < n => x.session[s].windows[i] # w

LEMMA SessionsAre ==
  ASSUME NEW st, Sound(st), NEW s \in Sessions
  PROVE  /\ st \in States /\ st.session[s] \in Records
         /\ DOMAIN st.session[s].windows \subseteq Indexes
         /\ DOMAIN st.session[s].windows # {} => st.session[s].alive
         /\ st.session[s].alive => Well(st.session[s]) /\ Open(st.session[s])
         /\ ~st.session[s].alive => st.session[s] = Dead
  <1>1. st \in States /\ st.session[s] \in Records
    BY StateIs DEF Sound, Parts
  <1>2. DOMAIN st.session[s].windows \subseteq Indexes
    BY <1>1, RecordIs
  <1>3. st.session[s] = Dead \/ Open(st.session[s])
    BY DEF Sound, Parts
  <1>4. st.session[s].alive => Well(st.session[s])
    BY DEF Sound
  <1> QED BY <1>1, <1>2, <1>3, <1>4, DeadIs DEF Open, Well

LEMMA KillAtIs ==
  ASSUME NEW st, Sound(st), NEW s \in Sessions, NEW w, NEW n \in 1 .. MaxIndex + 1,
         NEW x, Killing(st, x, s, w, n - 1)
  PROVE  Killing(st, KillAt(x, w, s, n - 1), s, w, n)
  <1> DEFINE i == n - 1
             F == Fellows(st, s)
  <1>1. Sound(x) /\ i \in Nat /\ F \subseteq Sessions /\ s \in F
    <2>1. n - 1 \in Nat
      BY IndexIs
    <2> QED BY <2>1, FellowsIs DEF Killing, Sound
  <1>2. CASE InUse(x, s, i) /\ x.session[s].windows[i] = w
    <2> DEFINE y == Unlink(x, s, i)
    <2>1. i \in DOMAIN x.session[s].windows /\ x.session[s].alive
      BY <1>1, <1>2, SessionsAre DEF InUse
    <2>2. x.groups = st.groups
      BY <1>1, <2>1, DeadIs DEF Killing
    <2>3. Fellows(x, s) = F
      BY <2>2, SameGroups
    <2>4. /\ Sound(y)
          /\ \A t \in Sessions : Once(x.session[t]) => Once(y.session[t])
          /\ \A t \in Sessions \ F : y.session[t] = x.session[t]
          /\ \/ \A t \in F : y.session[t] = Dead
             \/ /\ y.groups = x.groups /\ y.session[s].alive
                /\ DOMAIN y.session[s].windows = DOMAIN x.session[s].windows \ {i}
                /\ \A j \in DOMAIN y.session[s].windows :
                     y.session[s].windows[j] = x.session[s].windows[j]
      BY <1>1, <2>1, <2>3, UnlinkIs
    <2>5. KillAt(x, w, s, i) = y
      BY <1>2 DEF KillAt
    <2> HIDE DEF y
    <2>6. ASSUME NEW j \in DOMAIN y.session[s].windows, j < n
          PROVE  y.session[s].windows[j] # w
      <3>1. CASE \A t \in F : y.session[t] = Dead
        BY <1>1, <2>6, <3>1, DeadIs
      <3>2. CASE DOMAIN y.session[s].windows = DOMAIN x.session[s].windows \ {i}
                 /\ \A k \in DOMAIN y.session[s].windows :
                      y.session[s].windows[k] = x.session[s].windows[k]
        <4>1. j \in DOMAIN x.session[s].windows /\ j # i /\ j \in Nat
          BY <1>1, <2>6, <3>2, SessionsAre, IndexIs
        <4>2. j < i
          BY <2>6, <4>1
        <4> QED BY <3>2, <4>1, <4>2 DEF Killing
      <3> QED BY <2>4, <3>1, <3>2
    <2>7. Killing(st, y, s, w, n)
      BY <2>2, <2>4, <2>6 DEF Killing
    <2> QED BY <2>5, <2>7
  <1>3. CASE ~ (InUse(x, s, i) /\ x.session[s].windows[i] = w)
    <2>1. KillAt(x, w, s, i) = x
      BY <1>3 DEF KillAt
    <2>2. ASSUME NEW j \in DOMAIN x.session[s].windows, j < n
          PROVE  x.session[s].windows[j] # w
      <3>1. j \in Nat
        BY <1>1, SessionsAre, IndexIs
      <3>2. j < i \/ j = i
        BY <2>2, <3>1
      <3> QED BY <1>3, <3>2 DEF Killing, InUse
    <2> QED BY <2>1, <2>2 DEF Killing
  <1> QED BY <1>2, <1>3

LEMMA KillInIs ==
  ASSUME NEW st, Sound(st), NEW s \in Sessions, NEW w
  PROVE  LET n == KillIn(st, w, s)
         IN  /\ Sound(n)
             /\ \A t \in Sessions \ Fellows(st, s) : n.session[t] = st.session[t]
             /\ \A t \in Sessions : Once(st.session[t]) => Once(n.session[t])
             /\ \A t \in Fellows(st, s) : ~Has(n, t, w)
             /\ Fellows(n, s) \subseteq Fellows(st, s)
  <1> DEFINE N == MaxIndex + 1
             Step(x, n) == KillAt(x, w, s, n - 1)
             F == [p \in States \X (1 .. N) |-> Step(p[1], p[2])]
  <1>0. N \in Nat /\ N \in 0 .. N /\ \A n \in 1 .. N : n \in 0 .. N /\ n # 0
    BY IndexIs
  <1>1. Killing(st, st, s, w, 0)
    <2>1. DOMAIN st.session[s].windows \subseteq Nat
      BY SessionsAre, IndexIs
    <2>2. \A i \in DOMAIN st.session[s].windows : ~ (i < 0)
      BY <2>1
    <2> QED BY <2>2 DEF Killing
  <1>2. ASSUME NEW h, h[0] = st,
               \A n \in 1 .. N : h[n - 1] \in States => h[n] = Step(h[n - 1], n)
        PROVE  \A n \in 0 .. N : Killing(st, h[n], s, w, n)
    <2> DEFINE T == {n \in 0 .. N : Killing(st, h[n], s, w, n)}
    <2>1. 0 \in T
      BY <1>0, <1>1, <1>2
    <2>2. ASSUME NEW n \in 1 .. N, n - 1 \in T PROVE n \in T
      <3>1. Killing(st, h[n - 1], s, w, n - 1)
        BY <2>2
      <3>2. h[n - 1] \in States
        BY <3>1 DEF Killing, Sound, Parts
      <3>3. h[n] = KillAt(h[n - 1], w, s, n - 1)
        BY <1>2, <3>2
      <3> QED BY <1>0, <3>1, <3>3, KillAtIs
    <2> HIDE DEF T, N
    <2>3. \A n \in 0 .. N : n \in T
      BY <1>0, <2>1, <2>2, Induction
    <2> QED BY <2>3 DEF T
  <1> HIDE DEF N
  <1>3. PICK f : Turns(f, N, F, st)
    <2> HIDE DEF F
    <2> QED BY <1>0, Loop
  <1>4. \A n \in 1 .. N : f[n - 1] \in States => f[n] = Step(f[n - 1], n)
    BY <1>3 DEF Turns
  <1> HIDE DEF F
  <1>5. \A n \in 0 .. N : f[n] \in States
    BY <1>2, <1>3, <1>4 DEF Turns, Killing, Sound, Parts
  <1>6. \A n \in 0 .. N : n # 0 => n \in 1 .. N /\ n - 1 \in 0 .. N
    BY <1>0
  <1>7. f = [n \in 0 .. N |-> IF n = 0 THEN st ELSE KillAt(f[n - 1], w, s, n - 1)]
    <2>1. \A n \in 0 .. N : f[n] = IF n = 0 THEN st ELSE KillAt(f[n - 1], w, s, n - 1)
      BY <1>3, <1>4, <1>5, <1>6 DEF Turns
    <2> QED BY <1>3, <2>1 DEF Turns
  <1> DEFINE below[n \in 0 .. N] == IF n = 0 THEN st ELSE KillAt(below[n - 1], w, s, n - 1)
  <1>8. below = [n \in 0 .. N |-> IF n = 0 THEN st ELSE KillAt(below[n - 1], w, s, n - 1)]
    BY <1>7
  <1>9. KillIn(st, w, s) = below[N]
    BY DEF KillIn, N
  <1> HIDE DEF below
  <1>10. below[0] = st /\ \A n \in 1 .. N : below[n] = KillAt(below[n - 1], w, s, n - 1)
    <2>1. 0 \in 0 .. N
      BY <1>0
    <2> QED BY <1>0, <1>8, <2>1
  <1> DEFINE n == KillIn(st, w, s)
             G == Fellows(st, s)
  <1>11. Killing(st, n, s, w, N)
    BY <1>0, <1>2, <1>9, <1>10
  <1> HIDE DEF n
  <1>12. G \subseteq Sessions /\ s \in G
    BY FellowsIs DEF Sound
  <1>13. Sound(n)
    BY <1>11 DEF Killing
  <1>14. ~Has(n, s, w)
    <2>1. DOMAIN n.session[s].windows \subseteq Indexes
      BY <1>13, SessionsAre
    <2>2. \A i \in Indexes : i < N
      BY IndexIs DEF N
    <2> QED BY <1>11, <2>1, <2>2 DEF Killing, Has, Range
  <1>15. CASE \A t \in G : n.session[t] = Dead
    <2>1. \A t \in G : ~Has(n, t, w)
      BY <1>15, DeadIs DEF Has
    <2>2. \A g \in n.groups : s \notin Range(g)
      BY <1>12, <1>13, <1>15, DeadIs DEF Sound, Parts
    <2>3. GroupOf(n, s) = <<>>
      BY <2>2 DEF GroupOf
    <2>4. Range(<<>>) = {}
      BY DEF Range
    <2>5. Fellows(n, s) = {s}
      BY <2>3, <2>4 DEF Fellows
    <2> QED BY <1>11, <1>12, <2>1, <2>5 DEF Killing, n
  <1>16. CASE n.groups = st.groups
    <2>1. Fellows(n, s) = G
      BY <1>16, SameGroups
    <2>2. ASSUME NEW t \in G, t # s PROVE ~Has(n, t, w)
      <3>1. GroupOf(n, s) \in n.groups /\ Range(GroupOf(n, s)) = G
        <4>1. Parts(n) /\ G # {s}
          BY <1>13, <2>2 DEF Sound
        <4> QED BY <2>1, <4>1, FellowsIs
      <3>2. Range(n.session[t].windows) = Range(n.session[s].windows)
        BY <1>12, <1>13, <2>2, <3>1 DEF Sound
      <3> QED BY <1>14, <3>2 DEF Has
    <2>3. \A t \in G : ~Has(n, t, w)
      BY <1>14, <2>2
    <2> QED BY <1>11, <2>1, <2>3 DEF Killing, n
  <1> QED BY <1>11, <1>15, <1>16 DEF Killing
-----------------------------------------------------------------------------
(* New indexes for the windows of a session.                               *)
Placed(f, p) ==
  [k \in {p[i] : i \in DOMAIN f} |-> f[CHOOSE i \in DOMAIN f : p[i] = k]]

LEMMA PlacedIs ==
  ASSUME NEW f \in Maps, NEW p \in [DOMAIN f -> Indexes], IsInjective(p)
  PROVE  LET g == Placed(f, p)
         IN  /\ g \in Maps /\ DOMAIN g = {p[i] : i \in DOMAIN f}
             /\ \A i \in DOMAIN f : g[p[i]] = f[i]
             /\ Range(g) = Range(f)
             /\ IsInjective(f) => IsInjective(g)
             /\ IsInjective(g) => IsInjective(f)
  <1> DEFINE g == Placed(f, p)
             I == DOMAIN f
             J == {p[i] : i \in I}
  <1>1. g = [k \in J |-> f[CHOOSE i \in I : p[i] = k]]
    BY DEF Placed
  <1> HIDE DEF g
  <1>2. \A i, j \in I : p[i] = p[j] => i = j
    BY DEF IsInjective
  <1>3. ASSUME NEW i \in I PROVE p[i] \in J /\ g[p[i]] = f[i]
    <2>1. p[i] \in J
      OBVIOUS
    <2>2. (CHOOSE j \in I : p[j] = p[i]) = i
      BY <1>2
    <2> HIDE DEF J
    <2> QED BY <1>1, <2>1, <2>2
  <1>4. DOMAIN g = J /\ g = [k \in J |-> g[k]]
    <2> HIDE DEF J
    <2> QED BY <1>1
  <1>5. J \subseteq Indexes
    OBVIOUS
  <1>6. \A k \in J : \E i \in I : k = p[i] /\ g[k] = f[i]
    BY <1>3
  <1> HIDE DEF J
  <1>7. \A k \in J : g[k] \in Windows
    BY <1>6, MapsIs
  <1>8. g \in Maps
    BY <1>4, <1>5, <1>7, MapsIs
  <1>9. Range(g) = Range(f)
    BY <1>3, <1>4, <1>6 DEF Range
  <1>10. ASSUME IsInjective(f) PROVE IsInjective(g)
    <2> SUFFICES ASSUME NEW k \in J, NEW l \in J, g[k] = g[l] PROVE k = l
      BY <1>4 DEF IsInjective
    <2>1. PICK i \in I : k = p[i] /\ g[k] = f[i]
      BY <1>6
    <2>2. PICK j \in I : l = p[j] /\ g[l] = f[j]
      BY <1>6
    <2>3. i = j
      BY <1>10, <2>1, <2>2 DEF IsInjective
    <2> QED BY <2>1, <2>2, <2>3
  <1>11. ASSUME IsInjective(g) PROVE IsInjective(f)
    <2> SUFFICES ASSUME NEW i \in I, NEW j \in I, f[i] = f[j] PROVE i = j
      BY DEF IsInjective
    <2>1. p[i] = p[j]
      BY <1>3, <1>4, <1>11 DEF IsInjective
    <2> QED BY <1>2, <2>1
  <1> QED BY <1>3, <1>4, <1>8, <1>9, <1>10, <1>11 DEF g, J

Listed(l, p) == [k \in DOMAIN l |-> p[l[k]]]

LEMMA ListedIs ==
  ASSUME NEW l \in Seq(Indexes), NEW D, Range(l) \subseteq D, NEW p, \A i \in D : p[i] \in Indexes
  PROVE  LET m == Listed(l, p)
         IN  /\ m \in Seq(Indexes) /\ \A x \in Range(m) : \E i \in D : x = p[i]
             /\ (\A i, j \in D : p[i] = p[j] => i = j) /\ IsInjective(l) => IsInjective(m)
  <1> DEFINE m == Listed(l, p)
  <1>1. DOMAIN l = 1 .. Len(l) /\ Len(l) \in Nat
    OBVIOUS
  <1>2. \A k \in DOMAIN l : l[k] \in D
    BY DEF Range
  <1>3. m \in [1 .. Len(l) -> Indexes]
    BY <1>1, <1>2 DEF Listed
  <1>4. m \in Seq(Indexes)
    <2> HIDE DEF m
    <2> QED BY <1>1, <1>3
  <1>5. DOMAIN m = DOMAIN l /\ \A k \in DOMAIN l : m[k] = p[l[k]]
    BY DEF Listed
  <1> HIDE DEF m
  <1>6. \A x \in Range(m) : \E i \in D : x = p[i]
    BY <1>2, <1>5 DEF Range
  <1>7. (\A i, j \in D : p[i] = p[j] => i = j) /\ IsInjective(l) => IsInjective(m)
    BY <1>2, <1>5 DEF IsInjective
  <1> QED BY <1>4, <1>6, <1>7 DEF m

LEMMA IndexesFinite ==
  ASSUME NEW I, I \subseteq Indexes
  PROVE  IsFiniteSet(I) /\ Cardinality(I) \in Nat
  <1>1. IsFiniteSet(Indexes)
    BY FS_Interval, IndexIs DEF Indexes
  <1>2. IsFiniteSet(I)
    BY <1>1, FS_Subset
  <1> QED BY <1>2, FS_CardinalityType

LEMMA CountIs ==
  ASSUME NEW I, I \subseteq Indexes
  PROVE  /\ \A i \in I : /\ Cardinality({j \in I : j < i}) \in Nat
                         /\ Cardinality({j \in I : j < i}) < Cardinality(I)
         /\ \A i, k \in I : Cardinality({j \in I : j < i}) = Cardinality({j \in I : j < k}) => i = k
  <1> DEFINE Below(i) == {j \in I : j < i}
  <1>1. IsFiniteSet(I) /\ Cardinality(I) \in Nat /\ I \subseteq Nat
    BY IndexesFinite, IndexIs
  <1>2. ASSUME NEW A, NEW B, A \subseteq B, B \subseteq I, NEW x \in B, x \notin A
        PROVE  Cardinality(A) \in Nat /\ Cardinality(B) \in Nat /\ Cardinality(A) < Cardinality(B)
    <2>1. IsFiniteSet(B) /\ IsFiniteSet(A)
      BY <1>1, <1>2, FS_Subset
    <2>2. Cardinality(A) \in Nat /\ Cardinality(B) \in Nat
      BY <2>1, FS_CardinalityType
    <2>3. Cardinality(A) <= Cardinality(B) /\ Cardinality(A) # Cardinality(B)
      BY <1>2, <2>1, FS_Subset
    <2> QED BY <2>2, <2>3
  <1>3. ASSUME NEW i \in I
        PROVE  Cardinality(Below(i)) \in Nat /\ Cardinality(Below(i)) < Cardinality(I)
    <2>1. Below(i) \subseteq I /\ i \notin Below(i)
      BY <1>1
    <2> HIDE DEF Below
    <2> QED BY <1>2, <2>1
  <1>4. ASSUME NEW i \in I, NEW k \in I, i < k
        PROVE  Cardinality(Below(i)) # Cardinality(Below(k))
    <2>0. \A j \in I : j \in Nat /\ i \in Nat /\ k \in Nat
      BY <1>1
    <2>1. Below(i) \subseteq Below(k) /\ Below(k) \subseteq I /\ i \in Below(k) /\ i \notin Below(i)
      BY <1>4, <2>0
    <2> HIDE DEF Below
    <2>2. Cardinality(Below(i)) \in Nat /\ Cardinality(Below(k)) \in Nat
          /\ Cardinality(Below(i)) < Cardinality(Below(k))
      BY <1>2, <2>1
    <2> QED BY <2>2
  <1>5. ASSUME NEW i \in I, NEW k \in I, Cardinality(Below(i)) = Cardinality(Below(k))
        PROVE  i = k
    <2>1. i \in Nat /\ k \in Nat
      BY <1>1
    <2> HIDE DEF Below
    <2>2. ~ (i < k) /\ ~ (k < i)
      BY <1>4, <1>5
    <2> QED BY <2>1, <2>2
  <1> QED BY <1>3, <1>5

LEMMA RenumberedIs ==
  ASSUME NEW r, Well(r)
  PROVE  LET q == Renumbered(r)
         IN  /\ Well(q) /\ Range(q.windows) = Range(r.windows)
             /\ Fine(r) => Fine(q)
  <1> DEFINE I == DOMAIN r.windows
             c(i) == Cardinality({j \in I : j < i})
             new(i) == BaseIndex + c(i)
             windows == [k \in {new(i) : i \in I} |->
                           r.windows[CHOOSE i \in I : new(i) = k]]
             first(w) == Min({k \in DOMAIN windows : windows[k] = w})
             lastw == [k \in DOMAIN r.lastw |-> first(r.windows[r.lastw[k]])]
             full == Cardinality(I) > MaxIndex - BaseIndex + 1 \/ I = {}
             q == Renumbered(r)
  <1>1. q = IF full THEN r ELSE [r EXCEPT !.windows = windows, !.cur = new(r.cur), !.lastw = lastw]
    BY DEF Renumbered
  <1>2. /\ r \in Records /\ r.windows \in Maps /\ r.lastw \in Seq(Indexes) /\ r.alive
        /\ I \subseteq Indexes /\ r.cur \in I /\ Range(r.lastw) \subseteq I /\ I # {}
    BY RecordIs DEF Well, Open
  <1>3. CASE full
    <2>1. q = r
      BY <1>1, <1>3
    <2> HIDE DEF q
    <2> QED BY <2>1 DEF q
  <1>4. CASE ~full
    <2> DEFINE p == [i \in I |-> new(i)]
               t == [i \in I |-> first(r.windows[i])]
    <2>1. Cardinality(I) \in Nat /\ Cardinality(I) <= MaxIndex - BaseIndex + 1
          /\ BaseIndex \in 0 .. MaxIndex /\ MaxIndex \in Nat
      <3>1. Cardinality(I) \in Nat
        BY <1>2, IndexesFinite
      <3>2. ~ (Cardinality(I) > MaxIndex - BaseIndex + 1)
        BY <1>4
      <3> HIDE DEF I
      <3> QED BY <3>1, <3>2, SessionsAssumption
    <2>2. \A i \in I : c(i) \in Nat /\ c(i) < Cardinality(I)
      BY <1>2, CountIs
    <2>3. \A i, k \in I : c(i) = c(k) => i = k
      BY <1>2, CountIs
    <2> HIDE DEF c, full, q
    <2>4. ASSUME NEW i \in I PROVE new(i) \in Indexes
      <3>1. c(i) \in Nat /\ c(i) < Cardinality(I)
        BY <2>2
      <3> HIDE DEF I
      <3> QED BY <2>1, <3>1 DEF Indexes
    <2>5. \A i, k \in I : new(i) = new(k) => i = k
      <3>1. \A i \in I : c(i) \in Nat /\ BaseIndex \in Nat
        BY <2>1, <2>2
      <3> HIDE DEF I
      <3> QED BY <2>3, <3>1
    <2> HIDE DEF new
    <2>6. p \in [I -> Indexes] /\ IsInjective(p) /\ \A i \in I : p[i] = new(i)
      BY <2>4, <2>5 DEF IsInjective
    <2>7. windows = Placed(r.windows, p)
      <3>1. {new(i) : i \in I} = {p[i] : i \in I}
        OBVIOUS
      <3>2. \A k : (CHOOSE i \in I : new(i) = k) = (CHOOSE i \in I : p[i] = k)
        OBVIOUS
      <3> DEFINE A(k) == r.windows[CHOOSE i \in I : new(i) = k]
                 B(k) == r.windows[CHOOSE i \in I : p[i] = k]
                 J == {p[i] : i \in I}
      <3>3. \A k : A(k) = B(k)
        BY <3>2
      <3>4. windows = [k \in J |-> A(k)] /\ Placed(r.windows, p) = [k \in J |-> B(k)]
        BY <3>1 DEF Placed
      <3> HIDE DEF p, windows, A, B, J
      <3> QED BY <3>3, <3>4
    <2> HIDE DEF p, windows
    <2>8. /\ windows \in Maps /\ DOMAIN windows = {p[i] : i \in I}
          /\ \A i \in I : windows[p[i]] = r.windows[i]
          /\ Range(windows) = Range(r.windows)
          /\ IsInjective(r.windows) => IsInjective(windows)
          /\ IsInjective(windows) => IsInjective(r.windows)
      <3> DEFINE g == Placed(r.windows, p)
      <3>1. /\ g \in Maps /\ DOMAIN g = {p[i] : i \in DOMAIN r.windows}
            /\ \A i \in DOMAIN r.windows : g[p[i]] = r.windows[i]
            /\ Range(g) = Range(r.windows)
            /\ IsInjective(r.windows) => IsInjective(g)
            /\ IsInjective(g) => IsInjective(r.windows)
        BY <1>2, <2>6, PlacedIs
      <3> HIDE DEF g
      <3>2. windows = g
        BY <2>7 DEF g
      <3> QED BY <3>1, <3>2
    <2>9. \A i \in I : new(i) \in DOMAIN windows /\ windows[new(i)] = r.windows[i]
      BY <2>6, <2>8
    <2>10. DOMAIN windows \subseteq Indexes /\ DOMAIN windows # {}
      BY <1>2, <2>8, <2>9, MapsIs
    <2>11. ASSUME NEW i \in I
           PROVE  t[i] \in DOMAIN windows /\ windows[t[i]] = r.windows[i]
      <3> DEFINE K == {k \in DOMAIN windows : windows[k] = r.windows[i]}
      <3>1. t[i] = Min(K)
        OBVIOUS
      <3>2. new(i) \in K
        BY <2>9
      <3>3. K \subseteq Nat
        BY <2>10, IndexIs
      <3>4. \A k \in K : k \in DOMAIN windows /\ windows[k] = r.windows[i]
        OBVIOUS
      <3> HIDE DEF K, t
      <3>5. Min(K) \in K
        BY <3>2, <3>3, MinIs
      <3> QED BY <3>1, <3>4, <3>5
    <2>12. lastw = [k \in DOMAIN r.lastw |-> t[r.lastw[k]]]
      <3>1. \A k \in DOMAIN r.lastw : r.lastw[k] \in I
        BY <1>2 DEF Range
      <3>2. \A i \in I : t[i] = first(r.windows[i])
        OBVIOUS
      <3> HIDE DEF first, t
      <3> QED BY <3>1, <3>2
    <2> HIDE DEF t, lastw
    <2>13. /\ lastw \in Seq(Indexes) /\ \A x \in Range(lastw) : \E i \in I : x = t[i]
           /\ (\A i, j \in I : t[i] = t[j] => i = j) /\ Once(r) => IsInjective(lastw)
      <3>1. \A i \in I : t[i] \in Indexes
        BY <2>10, <2>11
      <3> HIDE DEF I
      <3> DEFINE m == Listed(r.lastw, t)
      <3>2. /\ m \in Seq(Indexes) /\ \A x \in Range(m) : \E i \in I : x = t[i]
            /\ (\A i, j \in I : t[i] = t[j] => i = j) /\ IsInjective(r.lastw)
                 => IsInjective(m)
        BY <1>2, <3>1, ListedIs
      <3>3. lastw = m
        BY <2>12 DEF Listed
      <3> HIDE DEF m
      <3> QED BY <3>2, <3>3 DEF Once
    <2>14. Range(lastw) \subseteq DOMAIN windows
      BY <2>11, <2>13
    <2>15. ASSUME IsInjective(r.windows) PROVE \A i, j \in I : t[i] = t[j] => i = j
      BY <2>11, <2>15 DEF IsInjective
    <2>16. q = [r EXCEPT !.windows = windows, !.cur = new(r.cur), !.lastw = lastw]
      BY <1>1, <1>4
    <2>17. /\ q \in Records /\ q.alive /\ q.windows = windows /\ q.cur = new(r.cur)
           /\ q.lastw = lastw
      <3>1. new(r.cur) \in Indexes
        BY <1>2, <2>4
      <3> HIDE DEF I
      <3> QED BY <1>2, <2>8, <2>13, <2>16, <3>1 DEF Records
    <2>18. Well(q)
      BY <1>2, <2>9, <2>10, <2>14, <2>17 DEF Well, Open
    <2>19. Fine(r) => Fine(q)
      BY <2>8, <2>13, <2>15, <2>17 DEF Fine, Once
    <2> QED BY <2>8, <2>17, <2>18, <2>19 DEF q
  <1> QED BY <1>3, <1>4

LEMMA RenumberIs ==
  ASSUME NEW st, Sound(st), NEW S
  PROVE  LET n == Renumber(st, S)
         IN  /\ Sound(n) /\ n.groups = st.groups
             /\ \A s \in Sessions \ S : n.session[s] = st.session[s]
             /\ \A s \in Sessions : /\ Range(n.session[s].windows) = Range(st.session[s].windows)
                                    /\ Fine(st.session[s]) => Fine(n.session[s])
  <1> DEFINE n == Renumber(st, S)
             f == [s \in Sessions |-> IF s \in S THEN Renumbered(st.session[s]) ELSE st.session[s]]
  <1>1. st \in States /\ Parts(st)
    BY DEF Sound, Parts
  <1>2. n = [st EXCEPT !.session = f]
    BY DEF Renumber
  <1>3. Renumbered(Dead) = Dead
    BY DeadIs DEF Renumbered
  <1>4. ASSUME NEW s \in Sessions
        PROVE  /\ \/ f[s] = Dead /\ st.session[s] = Dead
                  \/ Well(f[s]) /\ st.session[s].alive
               /\ Range(f[s].windows) = Range(st.session[s].windows)
               /\ Fine(st.session[s]) => Fine(f[s])
               /\ s \notin S => f[s] = st.session[s]
    <2>1. CASE s \in S /\ st.session[s].alive
      <3>1. f[s] = Renumbered(st.session[s]) /\ Well(st.session[s])
        BY <2>1, SessionsAre
      <3> HIDE DEF f
      <3> QED BY <2>1, <3>1, RenumberedIs
    <2>2. CASE s \in S /\ ~st.session[s].alive
      <3>1. f[s] = Renumbered(st.session[s]) /\ st.session[s] = Dead
        BY <2>2, SessionsAre
      <3> HIDE DEF f
      <3> QED BY <1>3, <2>2, <3>1
    <2>3. CASE s \notin S
      <3>1. f[s] = st.session[s]
        BY <2>3
      <3> HIDE DEF f
      <3> QED BY <2>3, <3>1, SessionsAre
    <2> QED BY <2>1, <2>2, <2>3
  <1>5. f = [s \in Sessions |-> f[s]]
    OBVIOUS
  <1> HIDE DEF f, n
  <1>6. \A s \in Sessions : f[s] \in Records
    BY <1>1, <1>4, SessionsAre DEF Well, Open
  <1>7. n \in States /\ n.session = f /\ n.groups = st.groups
    BY <1>1, <1>2, <1>5, <1>6 DEF States
  <1>8. \A s \in Sessions : n.session[s] = st.session[s] \/ Open(n.session[s])
    BY <1>4, <1>7 DEF Well
  <1>9. Parts(n)
    BY <1>1, <1>7, <1>8, PartsAre
  <1>10. \A s \in Sessions : n.session[s].alive => Well(n.session[s])
    BY <1>4, <1>7, DeadIs
  <1>11. \A g \in n.groups : Range(g) \subseteq Sessions
    BY <1>7, StateIs DEF Range
  <1>12. Sound(n)
    BY <1>4, <1>7, <1>9, <1>10, <1>11 DEF Sound
  <1> QED BY <1>4, <1>7, <1>12 DEF n

LEMMA RaisedIs ==
  ASSUME NEW r, Well(r), NEW i \in Indexes, Room(r, i) # {}
  PROVE  LET q == Raised(r, i)
         IN  /\ Well(q) /\ Range(q.windows) = Range(r.windows)
             /\ Once(r) => Once(q)
             /\ \A j \in DOMAIN r.windows : Shuffled(r, i, j) \in DOMAIN q.windows
  <1> DEFINE D == DOMAIN r.windows
             e == Min(Room(r, i))
             to(j) == Shuffled(r, i, j)
             p == [j \in D |-> to(j)]
             I == {to(j) : j \in D}
             windows == [k \in I |-> r.windows[CHOOSE j \in D : to(j) = k]]
             lastw == [k \in DOMAIN r.lastw |-> to(r.lastw[k])]
             q == Raised(r, i)
  <1>1. q = [r EXCEPT !.windows = windows, !.cur = to(r.cur), !.lastw = lastw]
    BY DEF Raised
  <1>2. /\ r \in Records /\ r.windows \in Maps /\ r.lastw \in Seq(Indexes) /\ r.alive
        /\ D \subseteq Indexes /\ r.cur \in D /\ Range(r.lastw) \subseteq D
    BY RecordIs DEF Well, Open
  <1> HIDE DEF q
  <1>3. e \in Nat /\ e \notin D /\ e <= MaxIndex - 1 /\ i <= e
    <2>1. Room(r, i) \subseteq Nat
      BY IndexIs DEF Room
    <2>2. e \in Room(r, i)
      BY <2>1, MinIs
    <2> HIDE DEF e
    <2> QED BY <2>2, IndexIs DEF Room
  <1>4. \A j : to(j) = IF j \in i .. e THEN j + 1 ELSE j
    BY DEF Shuffled
  <1> HIDE DEF to, e
  <1>5. \A j \in D : to(j) \in Indexes
    <2> SUFFICES ASSUME NEW j \in D PROVE to(j) \in Indexes
      OBVIOUS
    <2>1. j \in 0 .. MaxIndex /\ i \in Nat /\ MaxIndex \in Nat
      BY <1>2, IndexIs
    <2>2. to(j) \in 0 .. MaxIndex
      BY <1>3, <1>4, <2>1
    <2> QED BY <2>2 DEF Indexes
  <1>6. \A j, k \in D : to(j) = to(k) => j = k
    <2> SUFFICES ASSUME NEW j \in D, NEW k \in D, to(j) = to(k) PROVE j = k
      OBVIOUS
    <2>1. j \in Nat /\ k \in Nat /\ i \in Nat /\ j # e /\ k # e
      BY <1>2, <1>3, IndexIs
    <2> HIDE DEF D
    <2> QED BY <1>3, <1>4, <2>1
  <1>7. p \in [D -> Indexes] /\ IsInjective(p) /\ \A j \in D : p[j] = to(j)
    BY <1>5, <1>6 DEF IsInjective
  <1>8. windows = Placed(r.windows, p)
    <2>1. {to(j) : j \in D} = {p[j] : j \in D}
      OBVIOUS
    <2>2. \A k : (CHOOSE j \in D : to(j) = k) = (CHOOSE j \in D : p[j] = k)
      OBVIOUS
    <2> DEFINE A(k) == r.windows[CHOOSE j \in D : to(j) = k]
               B(k) == r.windows[CHOOSE j \in D : p[j] = k]
               J == {p[j] : j \in D}
    <2>3. \A k : A(k) = B(k)
      BY <2>2
    <2>4. windows = [k \in J |-> A(k)] /\ Placed(r.windows, p) = [k \in J |-> B(k)]
      BY <2>1 DEF Placed
    <2> HIDE DEF p, windows, A, B, J
    <2> QED BY <2>3, <2>4
  <1> HIDE DEF p, windows
  <1>9. /\ windows \in Maps /\ DOMAIN windows = {p[j] : j \in D}
        /\ Range(windows) = Range(r.windows)
    <2> DEFINE g == Placed(r.windows, p)
    <2>1. /\ g \in Maps /\ DOMAIN g = {p[j] : j \in DOMAIN r.windows}
          /\ Range(g) = Range(r.windows)
      BY <1>2, <1>7, PlacedIs
    <2> HIDE DEF g
    <2>2. windows = g
      BY <1>8 DEF g
    <2> QED BY <2>1, <2>2
  <1>10. \A j \in D : to(j) \in DOMAIN windows /\ p[j] \in DOMAIN windows
    BY <1>7, <1>9
  <1>11. /\ lastw \in Seq(Indexes) /\ Range(lastw) \subseteq DOMAIN windows
         /\ Once(r) => IsInjective(lastw)
    <2> DEFINE m == Listed(r.lastw, p)
    <2>1. /\ m \in Seq(Indexes) /\ \A x \in Range(m) : \E j \in D : x = p[j]
          /\ (\A j, k \in D : p[j] = p[k] => j = k) /\ IsInjective(r.lastw) => IsInjective(m)
      <3>1. \A j \in D : p[j] \in Indexes
        BY <1>5, <1>7
      <3> HIDE DEF D
      <3> QED BY <1>2, <3>1, ListedIs
    <2>2. \A k \in DOMAIN r.lastw : to(r.lastw[k]) = p[r.lastw[k]]
      BY <1>2, <1>7 DEF Range
    <2>3. lastw = m
      BY <2>2 DEF Listed
    <2> HIDE DEF m
    <2> QED BY <1>6, <1>7, <1>10, <2>1, <2>3 DEF Once
  <1> HIDE DEF lastw
  <1>12. /\ q \in Records /\ q.alive /\ q.windows = windows /\ q.cur = to(r.cur)
         /\ q.lastw = lastw
    <2>1. to(r.cur) \in Indexes
      BY <1>2, <1>5
    <2> QED BY <1>1, <1>2, <1>9, <1>11, <2>1 DEF Records
  <1>13. Well(q)
    BY <1>2, <1>10, <1>11, <1>12 DEF Well, Open
  <1> QED BY <1>9, <1>10, <1>11, <1>12, <1>13 DEF q, to, Once

(* A session that changes and keeps its windows.                           *)
LEMMA ChangedSound ==
  ASSUME NEW st, Sound(st), NEW s \in Sessions, NEW n, NEW r, Changed(st, n, s, r),
         Well(r), Range(r.windows) = Range(st.session[s].windows)
  PROVE  Sound(n) /\ (AllOnce(st) /\ (Once(st.session[s]) => Once(r)) => AllOnce(n))
  <1>1. Parts(st) /\ Open(r)
    BY DEF Sound, Well
  <1>2. Parts(n)
    BY <1>1, ChangedParts
  <1>3. \A t \in Sessions : n.session[t].alive => Well(n.session[t])
    BY DEF Changed, Sound
  <1>4. \A t \in Sessions : Range(n.session[t].windows) = Range(st.session[t].windows)
    BY DEF Changed
  <1>5. \A g \in n.groups : g \in st.groups /\ Range(g) \subseteq Sessions
    BY <1>1, StateIs DEF Changed, Range, Parts
  <1>6. Sound(n)
    BY <1>2, <1>3, <1>4, <1>5 DEF Sound
  <1> QED BY <1>6 DEF Changed, AllOnce

LEMMA ShuffleUpIs ==
  ASSUME NEW st, Sound(st), NEW s \in Sessions, st.session[s].alive, NEW i \in Indexes,
         Room(st.session[s], i) # {}
  PROVE  LET n == ShuffleUp(st, s, i)
         IN  /\ Sound(n) /\ (AllOnce(st) => AllOnce(n))
             /\ Changed(st, n, s, n.session[s]) /\ n.session[s].alive
             /\ \A j \in DOMAIN st.session[s].windows :
                  Shuffled(st.session[s], i, j) \in DOMAIN n.session[s].windows
  <1> DEFINE r == st.session[s]
             q == Raised(r, i)
             n == ShuffleUp(st, s, i)
  <1>1. st \in States /\ Well(r)
    BY SessionsAre
  <1>2. /\ Well(q) /\ Range(q.windows) = Range(r.windows)
        /\ Once(r) => Once(q)
        /\ \A j \in DOMAIN r.windows : Shuffled(r, i, j) \in DOMAIN q.windows
    BY <1>1, RaisedIs
  <1>3. n = [st EXCEPT !.session[s] = q]
    BY DEF ShuffleUp
  <1> HIDE DEF n, q
  <1>4. q \in Records /\ q.alive
    BY <1>2 DEF Well, Open
  <1>5. Changed(st, n, s, q)
    BY <1>1, <1>3, <1>4, PutIs
  <1>6. n.session[s] = q
    BY <1>5 DEF Changed
  <1>7. Sound(n) /\ (AllOnce(st) => AllOnce(n))
    BY <1>2, <1>5, ChangedSound
  <1> QED BY <1>2, <1>4, <1>5, <1>6, <1>7 DEF n
-----------------------------------------------------------------------------
(* The loops over the sessions, of which every turn keeps a set of states. *)
TurnsIn(g, N, F, a, S) ==
  g[0] = a /\ \A n \in 1 .. N : g[n - 1] \in S => g[n] = F[<<g[n - 1], n>>]
Keeps(N, F, S) == \A n \in 1 .. N : \A x \in S : F[<<x, n>>] \in S

LEMMA LoopKeeps ==
  ASSUME NEW N \in Nat, NEW S, NEW F, NEW a \in S, Keeps(N, F, S)
  PROVE  \A g : TurnsIn(g, N, F, a, S) => \A n \in 0 .. N : g[n] \in S
  <1> SUFFICES ASSUME NEW g, TurnsIn(g, N, F, a, S) PROVE \A n \in 0 .. N : g[n] \in S
    OBVIOUS
  <1> DEFINE T == {n \in 0 .. N : g[n] \in S}
  <1>1. 0 \in T
    BY DEF TurnsIn
  <1>2. ASSUME NEW n \in 1 .. N, n - 1 \in T PROVE n \in T
    <2>1. g[n - 1] \in S /\ n \in 0 .. N
      BY <1>2
    <2> QED BY <2>1 DEF TurnsIn, Keeps
  <1> HIDE DEF T
  <1>3. \A n \in 0 .. N : n \in T
    BY <1>1, <1>2, Induction
  <1> QED BY <1>3 DEF T

LEMMA LoopExists ==
  ASSUME NEW N \in Nat, NEW S, NEW F, NEW a \in S, Keeps(N, F, S)
  PROVE  \E f : Turns(f, N, F, a) /\ \A n \in 0 .. N : f[n] \in S
  <1>1. PICK f : Turns(f, N, F, a)
    BY Loop
  <1>2. TurnsIn(f, N, F, a, S)
    BY <1>1 DEF Turns, TurnsIn
  <1> QED BY <1>1, <1>2, LoopKeeps

LEMMA RenumberSessionIs ==
  ASSUME NEW st, Sound(st), NEW s \in Sessions
  PROVE  LET n == RenumberSession(st, s)
         IN  /\ Sound(n) /\ n.groups = st.groups
             /\ \A t \in Sessions \ Fellows(st, s) : n.session[t] = st.session[t]
             /\ \A t \in Sessions : /\ Range(n.session[t].windows) = Range(st.session[t].windows)
                                    /\ Fine(st.session[t]) => Fine(n.session[t])
  <1>1. CASE s \in Renumbering
    BY <1>1, RenumberIs DEF RenumberSession
  <1>2. CASE s \notin Renumbering
    BY <1>2 DEF RenumberSession
  <1> QED BY <1>1, <1>2

LEMMA RenumberAllIs ==
  ASSUME NEW st, Sound(st), AllFine(st)
  PROVE  Sound(RenumberAll(st)) /\ AllFine(RenumberAll(st))
  <1> DEFINE N == MaxSessions
             S == {x \in States : Sound(x) /\ AllFine(x)}
             F == [p \in S \X (1 .. N) |-> RenumberSession(p[1], p[2])]
             through[s \in 0 .. N] == IF s = 0 THEN st ELSE RenumberSession(through[s - 1], s)
  <1>1. N \in Nat /\ st \in S /\ Sessions = 1 .. N
    BY SessionsAssumption DEF Sound, Parts, Sessions
  <1>2. \A n \in 1 .. N : \A x \in S : RenumberSession(x, n) \in S
    BY <1>1, RenumberSessionIs DEF AllFine, Sound, Parts
  <1>3. RenumberAll(st) = through[N]
    BY DEF RenumberAll
  <1> HIDE DEF S, through
  <1>4. \A n \in 1 .. N : \A x \in S : F[<<x, n>>] = RenumberSession(x, n)
    OBVIOUS
  <1> HIDE DEF F
  <1>5. Keeps(N, F, S)
    BY <1>2, <1>4 DEF Keeps
  <1>6. PICK f : Turns(f, N, F, st) /\ \A n \in 0 .. N : f[n] \in S
    BY <1>1, <1>5, LoopExists
  <1>7. /\ N \in 0 .. N /\ 0 \in 0 .. N
        /\ \A n \in 1 .. N : n \in 0 .. N /\ n # 0 /\ n - 1 \in 0 .. N
        /\ \A n \in 0 .. N : n # 0 => n \in 1 .. N
    BY <1>1
  <1>8. f = [n \in 0 .. N |-> IF n = 0 THEN st ELSE RenumberSession(f[n - 1], n)]
    <2>1. \A n \in 0 .. N : f[n] = IF n = 0 THEN st ELSE RenumberSession(f[n - 1], n)
      BY <1>4, <1>6, <1>7 DEF Turns
    <2> QED BY <1>6, <2>1 DEF Turns
  <1>9. through = [n \in 0 .. N |-> IF n = 0 THEN st ELSE RenumberSession(through[n - 1], n)]
    BY <1>8 DEF through
  <1>10. TurnsIn(through, N, F, st, S)
    BY <1>4, <1>7, <1>9 DEF TurnsIn
  <1>11. through[N] \in S
    BY <1>1, <1>5, <1>7, <1>10, LoopKeeps
  <1> QED BY <1>3, <1>11 DEF S

(* Between the sessions of server_kill_window: a list of last windows that *)
(* renumbering has broken is one of a session that has lost the window.    *)
Culled(x, w, renumber) ==
  /\ Sound(x)
  /\ \A t \in Sessions : Fine(x.session[t]) /\ (Once(x.session[t]) \/ ~Has(x, t, w))
  /\ ~renumber => AllOnce(x)

LEMMA KillFromIs ==
  ASSUME NEW st, NEW w, NEW renumber \in BOOLEAN, Culled(st, w, renumber), NEW s \in Sessions
  PROVE  Culled(KillFrom(st, w, renumber, s), w, renumber)
  <1> DEFINE G == Fellows(st, s)
             k == KillIn(st, w, s)
             n == KillFrom(st, w, renumber, s)
  <1>1. Sound(st) /\ G \subseteq Sessions /\ s \in G
    BY FellowsIs DEF Culled, Sound
  <1>2. CASE ~Has(st, s, w)
    BY <1>2 DEF KillFrom
  <1>3. CASE Has(st, s, w)
    <2>1. ASSUME NEW t \in G PROVE Has(st, t, w) /\ Once(st.session[t])
      <3>1. CASE G = {s}
        BY <1>3, <2>1, <3>1 DEF Culled
      <3>2. CASE G # {s}
        <4>1. GroupOf(st, s) \in st.groups /\ Range(GroupOf(st, s)) = G
          BY <1>1, <3>2, FellowsIs DEF Sound
        <4>2. Range(st.session[t].windows) = Range(st.session[s].windows)
          BY <1>1, <4>1 DEF Sound
        <4> QED BY <1>1, <1>3, <4>2 DEF Culled, Has
      <3> QED BY <3>1, <3>2
    <2>2. /\ Sound(k)
          /\ \A t \in Sessions \ G : k.session[t] = st.session[t]
          /\ \A t \in Sessions : Once(st.session[t]) => Once(k.session[t])
          /\ \A t \in G : ~Has(k, t, w)
          /\ Fellows(k, s) \subseteq G
      BY <1>1, KillInIs
    <2>3. n = IF renumber THEN RenumberSession(k, s) ELSE k
      BY <1>3 DEF KillFrom
    <2> HIDE DEF k, n, G
    <2>4. \A t \in Sessions : Once(k.session[t]) => Fine(k.session[t])
      BY DEF Fine
    <2>5. ASSUME NEW t \in Sessions PROVE Fine(k.session[t])
      BY <2>1, <2>2, <2>4 DEF Culled
    <2>6. CASE renumber
      <3>1. n = RenumberSession(k, s)
        BY <2>3, <2>6
      <3>2. /\ Sound(n)
            /\ \A t \in Sessions \ Fellows(k, s) : n.session[t] = k.session[t]
            /\ \A t \in Sessions : /\ Range(n.session[t].windows) = Range(k.session[t].windows)
                                   /\ Fine(k.session[t]) => Fine(n.session[t])
        BY <2>2, <3>1, RenumberSessionIs
      <3>3. ASSUME NEW t \in Sessions PROVE Once(n.session[t]) \/ ~Has(n, t, w)
        <4>1. CASE t \in G
          BY <2>2, <3>2, <4>1 DEF Has
        <4>2. CASE t \notin G
          <5>1. n.session[t] = st.session[t]
            BY <2>2, <3>2, <4>2
          <5> QED BY <5>1 DEF Culled, Has
        <4> QED BY <4>1, <4>2
      <3>4. Culled(n, w, renumber)
        BY <2>5, <2>6, <3>2, <3>3 DEF Culled
      <3> QED BY <3>4 DEF n
    <2>7. CASE ~renumber
      <3>1. n = k /\ AllOnce(n)
        BY <2>2, <2>3, <2>7 DEF Culled, AllOnce
      <3>2. Culled(n, w, renumber)
        BY <2>2, <2>5, <3>1 DEF Culled, AllOnce
      <3> QED BY <3>2 DEF n
    <2> QED BY <2>6, <2>7
  <1> QED BY <1>2, <1>3

LEMMA KilledIs ==
  ASSUME NEW st, Sound(st), AllOnce(st), NEW w, NEW renumber \in BOOLEAN
  PROVE  LET n == Killed(st, w, renumber)
         IN  Sound(n) /\ AllFine(n) /\ (~renumber => AllOnce(n))
  <1> DEFINE N == MaxSessions
             S == {x \in States : Culled(x, w, renumber)}
             F == [p \in S \X (1 .. N) |-> KillFrom(p[1], w, renumber, p[2])]
             through[s \in 0 .. N] ==
               IF s = 0 THEN st ELSE KillFrom(through[s - 1], w, renumber, s)
  <1>1. N \in Nat /\ st \in S /\ Sessions = 1 .. N
    BY SessionsAssumption DEF Sound, Parts, Sessions, Culled, AllOnce, Fine
  <1>2. \A n \in 1 .. N : \A x \in S : KillFrom(x, w, renumber, n) \in S
    <2> SUFFICES ASSUME NEW n \in 1 .. N, NEW x \in S
                 PROVE  KillFrom(x, w, renumber, n) \in S
      OBVIOUS
    <2>1. Culled(x, w, renumber) /\ n \in Sessions
      BY <1>1
    <2>2. Culled(KillFrom(x, w, renumber, n), w, renumber)
      BY <2>1, KillFromIs
    <2>3. KillFrom(x, w, renumber, n) \in States
      BY <2>2 DEF Culled, Sound, Parts
    <2> QED BY <2>2, <2>3
  <1>3. Killed(st, w, renumber) = through[N]
    BY DEF Killed
  <1> HIDE DEF S, through
  <1>4. \A n \in 1 .. N : \A x \in S : F[<<x, n>>] = KillFrom(x, w, renumber, n)
    OBVIOUS
  <1> HIDE DEF F
  <1>5. Keeps(N, F, S)
    BY <1>2, <1>4 DEF Keeps
  <1>6. PICK f : Turns(f, N, F, st) /\ \A n \in 0 .. N : f[n] \in S
    BY <1>1, <1>5, LoopExists
  <1>7. /\ N \in 0 .. N /\ 0 \in 0 .. N
        /\ \A n \in 1 .. N : n \in 0 .. N /\ n # 0 /\ n - 1 \in 0 .. N
        /\ \A n \in 0 .. N : n # 0 => n \in 1 .. N
    BY <1>1
  <1>8. f = [n \in 0 .. N |-> IF n = 0 THEN st ELSE KillFrom(f[n - 1], w, renumber, n)]
    <2>1. \A n \in 0 .. N : f[n] = IF n = 0 THEN st ELSE KillFrom(f[n - 1], w, renumber, n)
      BY <1>4, <1>6, <1>7 DEF Turns
    <2> QED BY <1>6, <2>1 DEF Turns
  <1>9. through = [n \in 0 .. N |-> IF n = 0 THEN st
                                    ELSE KillFrom(through[n - 1], w, renumber, n)]
    BY <1>8 DEF through
  <1>10. TurnsIn(through, N, F, st, S)
    BY <1>4, <1>7, <1>9 DEF TurnsIn
  <1>11. through[N] \in S
    BY <1>1, <1>5, <1>7, <1>10, LoopKeeps
  <1> QED BY <1>3, <1>11 DEF S, Culled, AllFine

LEMMA KilledAllIs ==
  ASSUME NEW st, Sound(st), AllOnce(st), NEW s \in Sessions, NEW W, IsFiniteSet(W)
  PROVE  Sound(KilledAll(st, s, W)) /\ AllOnce(KilledAll(st, s, W))
  <1> DEFINE N == Cardinality(W)
             S == {x \in States : Sound(x) /\ AllOnce(x)}
             F == [p \in S \X (1 .. N) |-> KilledFirst(p[1], s, W)]
             after[n \in 0 .. N] == IF n = 0 THEN st ELSE KilledFirst(after[n - 1], s, W)
  <1>1. N \in Nat /\ st \in S
    BY FS_CardinalityType DEF Sound, Parts
  <1>2. \A n \in 1 .. N : \A x \in S : KilledFirst(x, s, W) \in S
    <2> SUFFICES ASSUME NEW x \in S PROVE KilledFirst(x, s, W) \in S
      OBVIOUS
    <2> DEFINE I == {i \in DOMAIN x.session[s].windows : x.session[s].windows[i] \in W}
               v == x.session[s].windows[Min(I)]
    <2>1. KilledFirst(x, s, W) = IF I = {} THEN x ELSE Killed(x, v, FALSE)
      BY DEF KilledFirst
    <2> HIDE DEF I, v
    <2>2. Sound(x) /\ AllOnce(x)
      OBVIOUS
    <2>3. Sound(Killed(x, v, FALSE)) /\ AllOnce(Killed(x, v, FALSE))
      BY <2>2, KilledIs
    <2>4. Killed(x, v, FALSE) \in States
      BY <2>3 DEF Sound, Parts
    <2> QED BY <2>1, <2>3, <2>4
  <1>3. KilledAll(st, s, W) = after[N]
    BY DEF KilledAll
  <1> HIDE DEF S, after, N
  <1>4. \A n \in 1 .. N : \A x \in S : F[<<x, n>>] = KilledFirst(x, s, W)
    OBVIOUS
  <1> HIDE DEF F
  <1>5. Keeps(N, F, S)
    BY <1>2, <1>4 DEF Keeps
  <1>6. PICK f : Turns(f, N, F, st) /\ \A n \in 0 .. N : f[n] \in S
    BY <1>1, <1>5, LoopExists
  <1>7. /\ N \in 0 .. N /\ 0 \in 0 .. N
        /\ \A n \in 1 .. N : n \in 0 .. N /\ n # 0 /\ n - 1 \in 0 .. N
        /\ \A n \in 0 .. N : n # 0 => n \in 1 .. N
    BY <1>1
  <1>8. f = [n \in 0 .. N |-> IF n = 0 THEN st ELSE KilledFirst(f[n - 1], s, W)]
    <2>1. \A n \in 0 .. N : f[n] = IF n = 0 THEN st ELSE KilledFirst(f[n - 1], s, W)
      BY <1>4, <1>6, <1>7 DEF Turns
    <2> QED BY <1>6, <2>1 DEF Turns
  <1>9. after = [n \in 0 .. N |-> IF n = 0 THEN st ELSE KilledFirst(after[n - 1], s, W)]
    BY <1>8 DEF after
  <1>10. TurnsIn(after, N, F, st, S)
    BY <1>4, <1>7, <1>9 DEF TurnsIn
  <1>11. after[N] \in S
    BY <1>1, <1>5, <1>7, <1>10, LoopKeeps
  <1> QED BY <1>3, <1>11 DEF S
-----------------------------------------------------------------------------
(* A new session, alone or in a group.                                     *)
LEMMA SameSessions ==
  ASSUME NEW st, Sound(st), NEW n \in States, n.session = st.session, n.groups = st.groups
  PROVE  Sound(n) /\ (AllFine(st) => AllFine(n)) /\ (AllOnce(st) => AllOnce(n))
  <1>1. Parts(n)
    BY PartsAre DEF Sound
  <1> QED BY <1>1 DEF Sound, AllFine, AllOnce

LEMMA FineIfOnce == \A st : AllOnce(st) => AllFine(st)
  BY DEF AllOnce, AllFine, Fine

LEMMA AloneIs ==
  ASSUME NEW st, Sound(st), NEW s \in Sessions, ~st.session[s].alive, NEW w \in Windows,
         NEW n, NEW r, r = [alive |-> TRUE, windows |-> [i \in {BaseIndex} |-> w],
                            cur |-> BaseIndex, lastw |-> <<>>],
         n = Queue([st EXCEPT !.session[s] = r], {w})
  PROVE  /\ Sound(n) /\ (AllOnce(st) => AllOnce(n))
         /\ n.groups = st.groups /\ Well(n.session[s])
         /\ \A t \in Sessions \ {s} : n.session[t] = st.session[t]
         /\ \A g \in n.groups : s \notin Range(g)
  <1>1. st \in States /\ Parts(st)
    BY DEF Sound, Parts
  <1>2. Well(r) /\ Once(r)
    <2> DEFINE f == [i \in {BaseIndex} |-> w]
    <2>1. BaseIndex \in Indexes
      BY SessionsAssumption DEF Indexes
    <2>2. f = [i \in DOMAIN f |-> f[i]] /\ DOMAIN f = {BaseIndex} /\ f[BaseIndex] = w
      OBVIOUS
    <2> HIDE DEF f
    <2>3. f \in Maps
      BY <2>1, <2>2, MapsIs
    <2>4. <<>> \in Seq(Indexes) /\ Range(<<>>) = {} /\ IsInjective(<<>>)
      BY DEF Range, IsInjective
    <2>5. r = [alive |-> TRUE, windows |-> f, cur |-> BaseIndex, lastw |-> <<>>]
      BY DEF f
    <2>6. r \in Records
      BY <2>1, <2>3, <2>4, <2>5 DEF Records
    <2> QED BY <2>2, <2>4, <2>5, <2>6 DEF Well, Open, Once
  <1>3. r \in Records
    BY <1>2 DEF Well, Open
  <1>4. Changed(st, [st EXCEPT !.session[s] = r], s, r)
    BY <1>1, <1>3, PutIs
  <1>5. Changed(st, n, s, r)
    BY <1>1, <1>4, ChangedIs
  <1>6. Parts(n)
    BY <1>1, <1>2, <1>5, ChangedParts DEF Well
  <1>7. \A g \in st.groups : s \notin Range(g)
    BY <1>1 DEF Parts
  <1>8. \A g \in n.groups : Range(g) \subseteq Sessions
    BY <1>1, <1>5, StateIs DEF Changed, Range
  <1>9. Sound(n)
    <2>1. \A t \in Sessions : n.session[t].alive => Well(n.session[t])
      BY <1>2, <1>5 DEF Changed, Sound
    <2>2. ASSUME NEW g \in n.groups, NEW t \in Range(g), NEW u \in Range(g)
          PROVE  Range(n.session[t].windows) = Range(n.session[u].windows)
      <3>1. /\ g \in st.groups /\ t \in Sessions \ {s} /\ u \in Sessions \ {s}
        BY <1>5, <1>7, <1>8 DEF Changed
      <3> QED BY <1>5, <3>1 DEF Changed, Sound
    <2> QED BY <1>6, <2>1, <2>2 DEF Sound
  <1> QED BY <1>2, <1>5, <1>7, <1>9 DEF Changed, AllOnce

LEMMA AppendIs ==
  ASSUME NEW X, NEW l \in Seq(X), NEW a \in X
  PROVE  /\ Append(l, a) \in Seq(X) /\ Append(l, a) # <<>>
         /\ Range(Append(l, a)) = Range(l) \cup {a}
         /\ IsInjective(l) /\ a \notin Range(l) => IsInjective(Append(l, a))
  <1> DEFINE t == Append(l, a)
             n == Len(l)
  <1>1. /\ t \in Seq(X) /\ n \in Nat /\ DOMAIN l = 1 .. n /\ DOMAIN t = 1 .. n + 1
        /\ t[n + 1] = a /\ Len(t) = n + 1 /\ \A k \in 1 .. n : t[k] = l[k]
    OBVIOUS
  <1> HIDE DEF t, n
  <1>2. \A k \in 1 .. n + 1 : k = n + 1 \/ k \in 1 .. n
    BY <1>1
  <1>3. n + 1 \in 1 .. n + 1 /\ \A k \in 1 .. n : k \in 1 .. n + 1
    BY <1>1
  <1>4. Range(t) = Range(l) \cup {a}
    BY <1>1, <1>2, <1>3 DEF Range
  <1>5. ASSUME IsInjective(l), a \notin Range(l) PROVE IsInjective(t)
    <2>1. \A k \in 1 .. n : t[k] # a
      BY <1>1, <1>5 DEF Range
    <2>2. \A k, m \in 1 .. n : t[k] = t[m] => k = m
      BY <1>1, <1>5 DEF IsInjective
    <2> QED BY <1>1, <1>2, <2>1, <2>2 DEF IsInjective
  <1>6. t # <<>>
    BY <1>1
  <1> QED BY <1>1, <1>4, <1>5, <1>6 DEF t

LEMMA JoinIs ==
  ASSUME NEW st, Sound(st), NEW s \in Sessions, Well(st.session[s]),
         \A g \in st.groups : s \notin Range(g),
         NEW before \in Seq(Sessions), IsInjective(before), s \notin Range(before),
         \A t \in Range(before) : st.session[t].alive,
         \A t, u \in Range(before) :
           Range(st.session[t].windows) = Range(st.session[u].windows),
         \A g \in st.groups \ {before} : Range(g) \cap Range(before) = {}
  PROVE  LET n == SynchronizeTo([st EXCEPT !.groups = (@ \ {before}) \cup {Append(before, s)}], s)
         IN  Sound(n) /\ n.session[s].alive /\ (AllOnce(st) => AllOnce(n))
  <1> DEFINE h == Append(before, s)
             H == (st.groups \ {before}) \cup {h}
             mid == [st EXCEPT !.groups = H]
             others == Without(GroupOf(mid, s), s)
             n == SynchronizeTo(mid, s)
  <1>1. st \in States /\ Parts(st) /\ st.groups \subseteq Seq(Sessions)
    BY StateIs DEF Sound, Parts
  <1>2. h \in Seq(Sessions) /\ h # <<>> /\ Range(h) = Range(before) \cup {s} /\ IsInjective(h)
    BY AppendIs
  <1> HIDE DEF h
  <1>3. mid \in States /\ mid.session = st.session /\ mid.groups = H
    <2>1. H \subseteq Seq(Sessions)
      BY <1>1, <1>2
    <2> HIDE DEF H
    <2> QED BY <1>1, <2>1 DEF States
  <1>4. n = IF others = <<>> THEN mid ELSE Synchronize(mid, Head(others), {s})
    BY DEF SynchronizeTo
  <1> HIDE DEF mid, n
  <1>5. \A g \in H : g = h \/ (g \in st.groups /\ g # before)
    OBVIOUS
  <1>6. h \in H
    OBVIOUS
  <1> HIDE DEF H
  <1>7. Range(before) \subseteq Sessions /\ \A g \in H : Range(g) \subseteq Sessions
    BY <1>1, <1>2, <1>5 DEF Range
  <1>8. Parts(mid)
    <2>1. \A g \in H : g # <<>> /\ IsInjective(g) /\ \A t \in Range(g) : st.session[t].alive
      BY <1>1, <1>2, <1>5 DEF Parts, Well, Open
    <2>2. ASSUME NEW g \in H, NEW k \in H, Range(g) \cap Range(k) # {} PROVE g = k
      <3>1. CASE g = h /\ k # h
        BY <1>2, <1>5, <2>2, <3>1
      <3>2. CASE k = h /\ g # h
        BY <1>2, <1>5, <2>2, <3>2
      <3>3. CASE g # h /\ k # h
        BY <1>1, <1>5, <2>2, <3>3 DEF Parts
      <3> QED BY <3>1, <3>2, <3>3
    <2> QED BY <1>1, <1>3, <2>1, <2>2 DEF Parts
  <1>9. GroupOf(mid, s) = h
    <2>1. h \in mid.groups /\ s \in Range(h) /\ s \in Fellows(mid, s)
      BY <1>2, <1>3, <1>6 DEF Fellows
    <2> QED BY <1>8, <2>1, FellowsIs
  <1>10. others \in Seq(Sessions) /\ Range(others) = Range(before)
    <2>1. others = Without(h, s)
      BY <1>9
    <2> HIDE DEF others
    <2>2. Without(h, s) \in Seq(Sessions) /\ Range(Without(h, s)) = Range(h) \ {s}
      BY <1>2, WithoutIs
    <2>3. Range(h) \ {s} = Range(before)
      BY <1>2
    <2> QED BY <2>1, <2>2, <2>3
  <1> HIDE DEF others
  <1>11. /\ n \in States /\ n.groups = H
         /\ Well(n.session[s]) /\ (Once(st.session[s]) => Once(n.session[s]))
         /\ \A t \in Sessions \ {s} : n.session[t] = st.session[t]
         /\ \A t \in Range(before) :
              Range(n.session[s].windows) = Range(st.session[t].windows)
    <2>1. CASE others = <<>>
      <3>1. Range(before) = {} /\ n = mid
        BY <1>4, <1>10, <2>1 DEF Range
      <3> QED BY <1>3, <3>1
    <2>2. CASE others # <<>>
      <3> DEFINE first == Head(others)
      <3>1. first \in Range(before) /\ n = Synchronize(mid, first, {s})
        BY <1>4, <1>10, <2>2 DEF Range
      <3> HIDE DEF first
      <3>2. first \in Sessions \ {s} /\ Open(mid.session[first]) /\ Open(mid.session[s])
        BY <1>1, <1>3, <1>7, <3>1, DeadIs DEF Parts, Well
      <3>3. /\ n \in States /\ n.groups = mid.groups
            /\ \A u \in {s} : Follows(mid.session[u], n.session[u], mid.session[first])
            /\ \A u \in Sessions \ {s} : n.session[u] = mid.session[u]
        BY <1>3, <3>1, <3>2, SynchronizeIs
      <3>4. n.session[s].windows = st.session[first].windows
        BY <1>3, <3>3 DEF Follows
      <3>5. \A t \in Range(before) :
              Range(n.session[s].windows) = Range(st.session[t].windows)
        BY <3>1, <3>4
      <3> QED BY <1>3, <3>3, <3>5 DEF Follows
    <2> QED BY <2>1, <2>2
  <1>12. \A u \in Sessions : n.session[u] = mid.session[u] \/ Open(n.session[u])
    BY <1>3, <1>11 DEF Well
  <1>13. Parts(n)
    BY <1>3, <1>8, <1>11, <1>12, PartsAre
  <1>14. \A u \in Sessions : n.session[u].alive => Well(n.session[u])
    BY <1>11 DEF Sound
  <1>15. ASSUME NEW g \in n.groups, NEW t \in Range(g), NEW u \in Range(g)
         PROVE  Range(n.session[t].windows) = Range(n.session[u].windows)
    <2>1. g \in H /\ t \in Sessions /\ u \in Sessions
      BY <1>7, <1>11
    <2>2. CASE g = h
      <3>1. t = s \/ t \in Range(before)
        BY <1>2, <2>2
      <3>2. u = s \/ u \in Range(before)
        BY <1>2, <2>2
      <3> QED BY <1>11, <2>1, <3>1, <3>2
    <2>3. CASE g \in st.groups
      <3>1. t # s /\ u # s
        BY <2>3
      <3> QED BY <1>11, <2>1, <2>3, <3>1 DEF Sound
    <2> QED BY <1>5, <2>1, <2>2, <2>3
  <1>16. Sound(n) /\ n.session[s].alive
    BY <1>11, <1>13, <1>14, <1>15 DEF Sound, Well, Open
  <1>17. AllOnce(st) => AllOnce(n)
    BY <1>11 DEF AllOnce
  <1>18. n = SynchronizeTo([st EXCEPT !.groups = (@ \ {before}) \cup {Append(before, s)}], s)
    BY DEF n, mid, H, h
  <1> QED BY <1>16, <1>17, <1>18
-----------------------------------------------------------------------------
(* The actions.                                                            *)
LEMMA BecomeIs ==
  ASSUME NEW n, Sound(n), AllFine(n), Become(n)
  PROVE  IInv'
  <1>1. n = [session |-> n.session, groups |-> n.groups, queued |-> n.queued]
    BY StateIs DEF Sound, Parts
  <1>2. State' = n
    BY <1>1 DEF State, Become
  <1> QED BY <1>2 DEF IInv

LEMMA ReadyIs ==
  ASSUME IInv, Intact
  PROVE  /\ State \in States /\ Sound(State) /\ Parts(State) /\ AllOnce(State) /\ AllFine(State)
         /\ State.session = session /\ State.groups = groups
         /\ \A s \in Live : s \in Sessions /\ session[s].alive /\ Well(session[s])
         /\ \A s \in Sessions \ Live : ~session[s].alive
         /\ \A s \in Sessions : Uses(s) = DOMAIN session[s].windows /\ Uses(s) \subseteq Indexes
         /\ \A s \in Sessions : \A i \in Uses(s) : session[s].windows[i] \in Windows
  <1>1. Sound(State) /\ AllFine(State) /\ State \in States /\ Parts(State)
    BY DEF IInv, Sound, Parts
  <1>2. State.session = session /\ State.groups = groups
    BY DEF State
  <1>3. AllOnce(State)
    BY <1>2 DEF Intact, AllOnce, Once
  <1>4. \A s \in Live : s \in Sessions /\ session[s].alive /\ Well(session[s])
    BY <1>1, <1>2 DEF Live, Sound
  <1>5. \A s \in Sessions : session[s] \in Records
    BY <1>1, <1>2, StateIs
  <1>6. \A s \in Sessions : Uses(s) = DOMAIN session[s].windows /\ Uses(s) \subseteq Indexes
    BY <1>5, RecordIs DEF Uses
  <1>7. \A s \in Sessions : \A i \in Uses(s) : session[s].windows[i] \in Windows
    BY <1>5, RecordIs DEF Uses
  <1> QED BY <1>1, <1>2, <1>3, <1>4, <1>6, <1>7 DEF Live

LEMMA NewSessionStep ==
  ASSUME IInv, Intact, NEW s \in Sessions \ Live, NEW w \in Windows,
         NEW with \in Sessions \cup {0}, NewSession(s, w, with)
  PROVE  IInv'
  <1> DEFINE r == [alive |-> TRUE, windows |-> [i \in {BaseIndex} |-> w],
                   cur |-> BaseIndex, lastw |-> <<>>]
             alone == Queue([State EXCEPT !.session[s] = r], {w})
             before == IF with = s THEN <<>>
                       ELSE IF GroupOf(alone, with) = <<>> THEN <<with>>
                       ELSE GroupOf(alone, with)
             shared == SynchronizeTo(
                         [alone EXCEPT !.groups = (@ \ {before}) \cup {Append(before, s)}], s)
             n == SetCurrent(shared, s, Min(DOMAIN shared.session[s].windows))
  <1>1. \/ with = 0 /\ Become(alone)
        \/ with \in Live \cup {s} /\ Become(n)
    BY DEF NewSession
  <1>2. /\ Sound(alone) /\ AllOnce(alone) /\ Well(alone.session[s])
        /\ \A t \in Sessions \ {s} : alone.session[t] = session[t]
        /\ \A g \in alone.groups : s \notin Range(g)
        /\ s \in Sessions
    <2>1. Sound(State) /\ AllOnce(State) /\ ~State.session[s].alive /\ State.session = session
      BY ReadyIs
    <2> HIDE DEF alone
    <2>2. /\ Sound(alone) /\ (AllOnce(State) => AllOnce(alone))
          /\ alone.groups = State.groups /\ Well(alone.session[s])
          /\ \A t \in Sessions \ {s} : alone.session[t] = State.session[t]
          /\ \A g \in alone.groups : s \notin Range(g)
      BY <2>1, AloneIs DEF alone
    <2> QED BY <2>1, <2>2
  <1> HIDE DEF alone, n
  <1>3. CASE with = 0 /\ Become(alone)
    BY <1>2, <1>3, BecomeIs, FineIfOnce
  <1>4. CASE with \in Live \cup {s} /\ Become(n)
    <2>1. Parts(alone) /\ alone.groups \subseteq Seq(Sessions)
      BY <1>2, StateIs DEF Sound, Parts
    <2>2. /\ before \in Seq(Sessions) /\ IsInjective(before) /\ s \notin Range(before)
          /\ \A t \in Range(before) : alone.session[t].alive
          /\ \A t, u \in Range(before) :
               Range(alone.session[t].windows) = Range(alone.session[u].windows)
          /\ \A g \in alone.groups \ {before} : Range(g) \cap Range(before) = {}
      <3>1. CASE with = s
        <4>1. before = <<>> /\ Range(<<>>) = {} /\ <<>> \in Seq(Sessions) /\ IsInjective(<<>>)
          BY <3>1 DEF Range, IsInjective
        <4> QED BY <4>1
      <3>2. CASE with # s /\ GroupOf(alone, with) = <<>>
        <4>1. with \in Live /\ with \in Sessions /\ session[with].alive
          BY <1>4, <3>2, ReadyIs
        <4>2. before = <<with>> /\ Range(<<with>>) = {with} /\ <<with>> \in Seq(Sessions)
              /\ IsInjective(<<with>>)
          BY <3>2, <4>1 DEF Range, IsInjective
        <4>3. \A g \in alone.groups : with \notin Range(g)
          <5>1. \A g \in alone.groups : g # <<>>
            BY <2>1 DEF Parts
          <5> QED BY <2>1, <3>2, <4>1, <5>1, GroupOfIs
        <4>4. alone.session[with].alive
          BY <1>2, <3>2, <4>1
        <4> QED BY <3>2, <4>2, <4>3, <4>4
      <3>3. CASE with # s /\ GroupOf(alone, with) # <<>>
        <4>1. with \in Sessions
          BY <1>4, <3>3, ReadyIs
        <4>2. before \in alone.groups
          BY <2>1, <3>3, <4>1, GroupOfIs
        <4> HIDE DEF before
        <4>3. \A t, u \in Range(before) :
                Range(alone.session[t].windows) = Range(alone.session[u].windows)
          BY <1>2, <4>2 DEF Sound
        <4> QED BY <1>2, <2>1, <4>2, <4>3 DEF Parts
      <3> QED BY <3>1, <3>2, <3>3
    <2> HIDE DEF before
    <2>3. Sound(shared) /\ shared.session[s].alive /\ AllOnce(shared)
      BY <1>2, <2>2, JoinIs
    <2> HIDE DEF shared
    <2> DEFINE q == shared.session[s]
               m == Min(DOMAIN q.windows)
    <2>4. /\ shared \in States /\ Well(q) /\ Open(q) /\ DOMAIN q.windows \subseteq Nat
          /\ DOMAIN q.windows # {}
      <3>1. shared \in States /\ Well(q) /\ Open(q) /\ DOMAIN q.windows \subseteq Indexes
        BY <1>2, <2>3, SessionsAre
      <3> QED BY <3>1, IndexIs DEF Open
    <2>5. m \in DOMAIN q.windows
      BY <2>4, MinIs
    <2>6. n = SetCurrent(shared, s, m)
      BY DEF n
    <2> HIDE DEF m
    <2>7. Changed(shared, n, s, Current(q, m))
      BY <1>2, <2>4, <2>5, <2>6, SetCurrentIs
    <2>8. Sound(n) /\ AllOnce(n)
      BY <1>2, <2>3, <2>4, <2>5, <2>7, CurrentIs, ChangedSound
    <2> QED BY <1>4, <2>8, BecomeIs, FineIfOnce
  <1> QED BY <1>1, <1>3, <1>4

LEMMA NewWindowStep ==
  ASSUME IInv, Intact, NEW s \in Live, NEW w \in Windows, NEW detached \in BOOLEAN,
         NEW i \in Indexes, NewWindow(s, w, i, detached)
  PROVE  IInv'
  <1> DEFINE n == Spawn(State, s, w, i, detached)
  <1>1. Sound(State) /\ AllOnce(State) /\ s \in Sessions /\ State.session[s].alive
    BY ReadyIs
  <1>2. Sound(n) /\ AllOnce(n)
    BY <1>1, SpawnIs
  <1>3. Become(n)
    BY DEF NewWindow
  <1> HIDE DEF n
  <1> QED BY <1>2, <1>3, BecomeIs, FineIfOnce

LEMMA NewWindowBesideStep ==
  ASSUME IInv, Intact, NEW s \in Live, NEW w \in Windows, NEW detached \in BOOLEAN,
         NEW i \in Uses(s), NewWindowBeside(s, w, i, detached)
  PROVE  IInv'
  <1> DEFINE m == ShuffleUp(State, s, i)
             n == Spawn(m, s, w, i, detached)
  <1>1. /\ Sound(State) /\ AllOnce(State) /\ s \in Sessions /\ State.session[s].alive
        /\ i \in Indexes /\ State.session = session
    BY ReadyIs
  <1>2. Room(State.session[s], i) # {} /\ Become(n)
    BY <1>1 DEF NewWindowBeside
  <1>3. Sound(m) /\ AllOnce(m) /\ m.session[s].alive
    BY <1>1, <1>2, ShuffleUpIs
  <1> HIDE DEF m
  <1>4. Sound(n) /\ AllOnce(n)
    BY <1>1, <1>3, SpawnIs
  <1> HIDE DEF n
  <1> QED BY <1>2, <1>4, BecomeIs, FineIfOnce

LEMMA LinkThenStep ==
  ASSUME NEW st, Sound(st), AllOnce(st), NEW src \in Sessions, NEW dst \in Sessions,
         st.session[src].alive, st.session[dst].alive,
         NEW i \in DOMAIN st.session[src].windows, NEW at \in Indexes,
         src = dst \/ src \notin Fellows(st, dst), LinkThen(st, src, i, dst, at)
  PROVE  IInv'
  <1>1. PICK select \in BOOLEAN, unlink \in BOOLEAN :
          LET linked == LinkWindow(st, st.session[src].windows[i], dst, at, select)
              moved == IF unlink THEN Unlink(linked, src, i) ELSE linked
          IN  \/ Become(moved)
              \/ src \in Renumbering /\ Become(Renumber(moved, {src}))
    BY DEF LinkThen
  <1> DEFINE w == st.session[src].windows[i]
             linked == LinkWindow(st, w, dst, at, select)
             moved == IF unlink THEN Unlink(linked, src, i) ELSE linked
  <1>2. w \in Windows /\ Parts(st) /\ Well(st.session[dst])
    <2>1. st.session[src] \in Records /\ Well(st.session[dst])
      BY SessionsAre
    <2> QED BY <2>1, RecordIs DEF Sound
  <1> HIDE DEF w
  <1>3. /\ Spread(st, linked, dst, linked.session[dst]) /\ Well(linked.session[dst])
        /\ Once(st.session[dst]) => Once(linked.session[dst])
        /\ DOMAIN st.session[dst].windows \subseteq DOMAIN linked.session[dst].windows
    BY <1>2, LinkWindowIs
  <1> HIDE DEF linked
  <1>4. Sound(linked) /\ AllOnce(linked)
    BY <1>3, SpreadSound DEF AllOnce
  <1>5. linked.session[src].alive /\ i \in DOMAIN linked.session[src].windows
    <2>1. CASE src = dst
      BY <1>3, <2>1 DEF Well, Open
    <2>2. CASE src \notin Fellows(st, dst)
      BY <1>3, <2>2 DEF Spread
    <2> QED BY <2>1, <2>2
  <1>6. Sound(moved) /\ AllOnce(moved)
    <2>1. Sound(Unlink(linked, src, i)) /\ AllOnce(Unlink(linked, src, i))
      BY <1>4, <1>5, UnlinkIs DEF AllOnce
    <2> QED BY <1>4, <2>1
  <1>7. Become(moved) \/ Become(Renumber(moved, {src}))
    BY <1>1 DEF linked, w
  <1> HIDE DEF moved
  <1>8. Sound(Renumber(moved, {src})) /\ AllFine(Renumber(moved, {src}))
    BY <1>6, RenumberIs, FineIfOnce DEF AllFine
  <1> QED BY <1>6, <1>7, <1>8, BecomeIs, FineIfOnce

LEMMA LinkOrMoveStep ==
  ASSUME IInv, Intact, NEW src \in Live, NEW dst \in Live, NEW i \in Uses(src),
         NEW at \in Indexes, LinkOrMove(src, i, dst, at)
  PROVE  IInv'
  <1>1. /\ Sound(State) /\ AllOnce(State) /\ src \in Sessions /\ dst \in Sessions
        /\ State.session[src].alive /\ State.session[dst].alive
        /\ i \in DOMAIN State.session[src].windows
    BY ReadyIs
  <1>2. src = dst \/ src \notin Fellows(State, dst)
    BY DEF LinkOrMove, Grouped
  <1>3. LinkThen(State, src, i, dst, at)
    BY DEF LinkOrMove
  <1> QED BY <1>1, <1>2, <1>3, LinkThenStep

LEMMA LinkOrMoveBesideStep ==
  ASSUME IInv, Intact, NEW src \in Live, NEW dst \in Live, NEW i \in Uses(src),
         NEW at \in Uses(dst), LinkOrMoveBeside(src, i, dst, at)
  PROVE  IInv'
  <1> DEFINE n == ShuffleUp(State, dst, at)
             k == IF src = dst THEN Shuffled(session[dst], at, i) ELSE i
  <1>1. /\ Sound(State) /\ AllOnce(State) /\ src \in Sessions /\ dst \in Sessions
        /\ State.session = session /\ session[src].alive /\ session[dst].alive
        /\ i \in DOMAIN session[src].windows /\ at \in Indexes
    BY ReadyIs
  <1>2. Room(session[dst], at) # {}
    BY DEF LinkOrMoveBeside
  <1>3. \/ Become(n)
        \/ (src = dst \/ src \notin Fellows(State, dst)) /\ LinkThen(n, src, k, dst, at)
    BY DEF LinkOrMoveBeside, Grouped
  <1>4. /\ Sound(n) /\ AllOnce(n)
        /\ Changed(State, n, dst, n.session[dst]) /\ n.session[dst].alive
        /\ \A j \in DOMAIN session[dst].windows :
             Shuffled(session[dst], at, j) \in DOMAIN n.session[dst].windows
    BY <1>1, <1>2, ShuffleUpIs
  <1> HIDE DEF n
  <1>5. n.session[src].alive /\ k \in DOMAIN n.session[src].windows
    BY <1>1, <1>4 DEF Changed
  <1>6. Fellows(n, dst) = Fellows(State, dst)
    BY <1>4, SameGroups DEF Changed
  <1> HIDE DEF k
  <1>7. CASE Become(n)
    BY <1>4, <1>7, BecomeIs, FineIfOnce
  <1>8. CASE (src = dst \/ src \notin Fellows(State, dst)) /\ LinkThen(n, src, k, dst, at)
    BY <1>1, <1>4, <1>5, <1>6, <1>8, LinkThenStep
  <1> QED BY <1>3, <1>7, <1>8

LEMMA SelectWindowStep ==
  ASSUME IInv, Intact, NEW s \in Live, NEW i \in Uses(s), SelectWindow(s, i)
  PROVE  IInv'
  <1> DEFINE n == SetCurrent(State, s, i)
             r == Current(session[s], i)
  <1>1. /\ Sound(State) /\ AllOnce(State) /\ s \in Sessions /\ State \in States
        /\ State.session = session /\ Well(session[s]) /\ i \in DOMAIN session[s].windows
    BY ReadyIs
  <1>2. Changed(State, n, s, r)
    BY <1>1, SetCurrentIs DEF Well
  <1>3. Well(r) /\ r.windows = session[s].windows /\ (Once(session[s]) => Once(r))
    BY <1>1, CurrentIs DEF Well
  <1>4. Become(n)
    BY DEF SelectWindow
  <1> HIDE DEF n, r
  <1>5. Sound(n) /\ AllOnce(n)
    BY <1>1, <1>2, <1>3, ChangedSound
  <1> QED BY <1>4, <1>5, BecomeIs, FineIfOnce

LEMMA RenumberWindowsStep ==
  ASSUME IInv, Intact, NEW s \in Live, RenumberWindows(s)
  PROVE  IInv'
  <1> DEFINE n == Renumber(State, {s})
  <1>1. Sound(State) /\ AllFine(State)
    BY ReadyIs
  <1>2. Sound(n) /\ AllFine(n)
    BY <1>1, RenumberIs DEF AllFine
  <1>3. Become(n)
    BY DEF RenumberWindows
  <1> HIDE DEF n
  <1> QED BY <1>2, <1>3, BecomeIs
-----------------------------------------------------------------------------
(* Windows that change places.                                             *)
LEMMA ReplacedIs ==
  ASSUME NEW r, Well(r), NEW i \in DOMAIN r.windows, NEW w \in Windows
  PROVE  LET q == Added(r, i, w)
         IN  /\ Well(q) /\ q \in Records /\ DOMAIN q.windows = DOMAIN r.windows
             /\ Once(r) => Once(q)
  <1>1. Loose(r) /\ i \in Indexes
    <2>1. r \in Records
      BY DEF Well, Open
    <2> QED BY <2>1, RecordIs DEF Well, Open, Loose
  <1> DEFINE q == Added(r, i, w)
  <1>2. /\ Open(q) /\ DOMAIN q.windows = DOMAIN r.windows \cup {i}
        /\ q.cur = r.cur /\ q.lastw = r.lastw
    BY <1>1, AddedIs
  <1> HIDE DEF q
  <1>3. Well(q) /\ q \in Records /\ DOMAIN q.windows = DOMAIN r.windows /\ (Once(r) => Once(q))
    BY <1>2 DEF Well, Open, Once
  <1> QED BY <1>3 DEF q

LEMMA SwapInOne ==
  ASSUME IInv, Intact, NEW s \in Live, NEW i \in Uses(s), NEW j \in Uses(s)
  PROVE  LET x == Exchanged(s, i, s, j)
         IN  /\ Sound(SynchronizeFrom(x, s)) /\ AllOnce(SynchronizeFrom(x, s))
             /\ \A k \in Uses(s) : /\ Sound(SynchronizeFrom(SetCurrent(x, s, k), s))
                                   /\ AllOnce(SynchronizeFrom(SetCurrent(x, s, k), s))
  <1> DEFINE v == session[s].windows[j]
             u == session[s].windows[i]
             p == Added(session[s], i, v)
             first == [State EXCEPT !.session[s] = p]
             q == Added(p, j, u)
             x == Exchanged(s, i, s, j)
  <1>1. /\ Sound(State) /\ AllOnce(State) /\ s \in Sessions /\ State \in States /\ Parts(State)
        /\ State.session = session /\ Well(session[s]) /\ session[s].alive
        /\ i \in DOMAIN session[s].windows /\ j \in DOMAIN session[s].windows
        /\ Uses(s) = DOMAIN session[s].windows /\ u \in Windows /\ v \in Windows
    BY ReadyIs
  <1> HIDE DEF u, v
  <1>2. /\ Well(p) /\ p \in Records /\ DOMAIN p.windows = DOMAIN session[s].windows
        /\ Once(session[s]) => Once(p)
    BY <1>1, ReplacedIs
  <1>3. /\ Well(q) /\ q \in Records /\ DOMAIN q.windows = DOMAIN session[s].windows
        /\ Once(session[s]) => Once(q)
    <2> HIDE DEF p
    <2> QED BY <1>1, <1>2, ReplacedIs
  <1>4. Changed(State, first, s, p)
    <2> HIDE DEF p
    <2> QED BY <1>1, <1>2, PutIs
  <1>5. x = [first EXCEPT !.session[s] = q]
    <2>1. first.session[s] = p
      BY <1>4 DEF Changed
    <2>2. x = [first EXCEPT !.session[s] = Added(first.session[s], j, u)]
      BY <1>1 DEF Exchanged, u, v
    <2> HIDE DEF x, first, p
    <2> QED BY <2>1, <2>2
  <1> HIDE DEF x, first, p, q
  <1>6. Changed(State, x, s, q)
    <2>1. Changed(first, x, s, q)
      BY <1>1, <1>3, <1>4, <1>5, PutIs DEF Changed
    <2> QED BY <1>1, <1>4, <2>1, ChangedIs
  <1>7. ASSUME NEW n, NEW r, Changed(State, n, s, r), Well(r), Once(session[s]) => Once(r)
        PROVE  Sound(SynchronizeFrom(n, s)) /\ AllOnce(SynchronizeFrom(n, s))
    <2>1. Spread(State, SynchronizeFrom(n, s), s, r)
      BY <1>1, <1>7, SynchronizeFromIs DEF Well
    <2> QED BY <1>1, <1>7, <2>1, SpreadSound DEF AllOnce
  <1>8. Sound(SynchronizeFrom(x, s)) /\ AllOnce(SynchronizeFrom(x, s))
    BY <1>3, <1>6, <1>7
  <1>9. ASSUME NEW k \in Uses(s)
        PROVE  /\ Sound(SynchronizeFrom(SetCurrent(x, s, k), s))
               /\ AllOnce(SynchronizeFrom(SetCurrent(x, s, k), s))
    <2> DEFINE r == Current(q, k)
               n == SetCurrent(x, s, k)
    <2>1. x \in States /\ x.session[s] = q /\ k \in DOMAIN q.windows /\ Open(q)
      BY <1>1, <1>3, <1>6 DEF Changed, Well
    <2>2. Changed(x, n, s, r)
      BY <1>1, <2>1, SetCurrentIs
    <2>3. Well(r) /\ (Once(q) => Once(r))
      BY <2>1, CurrentIs
    <2> HIDE DEF r, n
    <2>4. Changed(State, n, s, r)
      BY <1>1, <1>6, <2>2, ChangedIs
    <2>5. Sound(SynchronizeFrom(n, s)) /\ AllOnce(SynchronizeFrom(n, s))
      BY <1>3, <1>7, <2>3, <2>4
    <2> QED BY <2>5 DEF n
  <1> QED BY <1>8, <1>9 DEF x

LEMMA SwapInTreeStep ==
  ASSUME IInv, Intact, NEW s \in Live, NEW i \in Uses(s), NEW j \in Uses(s), SwapInTree(s, i, j)
  PROVE  IInv'
  <1> DEFINE x == Exchanged(s, i, s, j)
             F(n) == SynchronizeFrom(n, s)
  <1>1. Become(F(x)) \/ Become(F(SetCurrent(x, s, i))) \/ Become(F(SetCurrent(x, s, j)))
    BY DEF SwapInTree
  <1>2. /\ Sound(F(x)) /\ AllOnce(F(x))
        /\ \A k \in Uses(s) : Sound(F(SetCurrent(x, s, k))) /\ AllOnce(F(SetCurrent(x, s, k)))
    BY SwapInOne
  <1> HIDE DEF x, F
  <1> QED BY <1>1, <1>2, BecomeIs, FineIfOnce

(* Two sessions of a state take records, and then both their groups do.    *)
Touched(st, n, src, dst) ==
  /\ n \in States /\ n.groups = st.groups
  /\ \A s \in {src, dst} : Well(n.session[s]) /\ (Once(st.session[s]) => Once(n.session[s]))
  /\ \A s \in Sessions \ {src, dst} : n.session[s] = st.session[s]

LEMMA SpreadTwice ==
  ASSUME NEW st, Sound(st), AllOnce(st), NEW src \in Sessions, NEW dst \in Sessions,
         st.session[src].alive, st.session[dst].alive,
         dst \notin Fellows(st, src), NEW n, Touched(st, n, src, dst)
  PROVE  LET f == SynchronizeFrom(SynchronizeFrom(n, src), dst)
         IN  Sound(f) /\ AllOnce(f)
  <1> DEFINE a == n.session[src]
             b == n.session[dst]
             m == SynchronizeFrom(n, src)
             f == SynchronizeFrom(m, dst)
             A == Fellows(st, src)
             B == Fellows(st, dst)
  <1>1. /\ Parts(st) /\ n \in States /\ n.groups = st.groups
        /\ Well(a) /\ Well(b) /\ Open(a) /\ Open(b) /\ a.alive /\ b.alive /\ Once(a) /\ Once(b)
    BY DEF Sound, Touched, Well, Open, AllOnce
  <1>2. Parts(n)
    BY <1>1, PartsAre DEF Touched
  <1>3. /\ A \subseteq Sessions /\ B \subseteq Sessions /\ src \in A /\ dst \in B
        /\ A \cap B = {} /\ src # dst /\ src \notin B
    BY <1>1, FellowsIs
  <1>4. Spread(n, m, src, a)
    BY <1>1, <1>2, SynchronizeFromIs DEF Changed
  <1> HIDE DEF m
  <1>5. Parts(m) /\ m.groups = st.groups
    BY <1>1, <1>2, <1>4, SpreadParts DEF Spread
  <1>6. Fellows(n, src) = A /\ Fellows(m, dst) = B
    BY <1>1, <1>5, SameGroups
  <1>7. m.session[dst] = b /\ m \in States
    BY <1>3, <1>4, <1>6 DEF Spread
  <1>8. Spread(m, f, dst, b)
    BY <1>1, <1>5, <1>7, SynchronizeFromIs DEF Changed
  <1> HIDE DEF f
  <1>9. Parts(f) /\ f.groups = st.groups
    BY <1>1, <1>5, <1>8, SpreadParts DEF Spread
  <1>10. \A t \in Sessions \ {src, dst} : n.session[t] = st.session[t] /\ Once(st.session[t])
    BY DEF Touched, AllOnce
  <1> HIDE DEF a, b, A, B
  <1>11. ASSUME NEW t \in A
         PROVE  Well(f.session[t]) /\ Once(f.session[t]) /\ f.session[t].windows = a.windows
    <2>1. t \in Sessions /\ t \notin B
      BY <1>3, <1>11
    <2>2. f.session[t] = m.session[t]
      BY <1>6, <1>8, <2>1 DEF Spread
    <2>3. CASE t = src
      BY <1>1, <1>4, <2>2, <2>3 DEF Spread
    <2>4. CASE t # src
      <3>1. Follows(n.session[t], m.session[t], a)
        BY <1>4, <1>6, <1>11, <2>4 DEF Spread
      <3>2. t # dst
        BY <1>3, <2>1
      <3> QED BY <1>10, <2>1, <2>2, <2>4, <3>1, <3>2 DEF Follows
    <2> QED BY <2>3, <2>4
  <1>12. ASSUME NEW t \in B
         PROVE  Well(f.session[t]) /\ Once(f.session[t]) /\ f.session[t].windows = b.windows
    <2>1. t \in Sessions /\ t \notin A
      BY <1>3, <1>12
    <2>2. m.session[t] = n.session[t]
      BY <1>4, <1>6, <2>1 DEF Spread
    <2>3. CASE t = dst
      BY <1>1, <1>8, <2>3 DEF Spread
    <2>4. CASE t # dst
      <3>1. Follows(m.session[t], f.session[t], b)
        BY <1>6, <1>8, <1>12, <2>4 DEF Spread
      <3>2. t # src
        BY <1>3, <1>12
      <3> QED BY <1>10, <2>1, <2>2, <2>4, <3>1, <3>2 DEF Follows
    <2> QED BY <2>3, <2>4
  <1>13. ASSUME NEW t \in Sessions, t \notin A, t \notin B
         PROVE  f.session[t] = st.session[t] /\ Once(f.session[t])
    <2>1. f.session[t] = m.session[t] /\ m.session[t] = n.session[t]
      BY <1>4, <1>6, <1>8, <1>13 DEF Spread
    <2>2. t # src /\ t # dst
      BY <1>3, <1>13
    <2> QED BY <1>10, <2>1, <2>2
  <1>14. \A t \in Sessions : f.session[t].alive => Well(f.session[t])
    BY <1>11, <1>12, <1>13 DEF Sound
  <1>15. AllOnce(f)
    BY <1>11, <1>12, <1>13 DEF AllOnce
  <1>16. ASSUME NEW g \in f.groups, NEW t \in Range(g), NEW u \in Range(g)
         PROVE  Range(f.session[t].windows) = Range(f.session[u].windows)
    <2>1. g \in st.groups /\ t \in Sessions /\ u \in Sessions
      BY <1>9, StateIs DEF Parts, Range
    <2>2. Range(g) \cap A # {} => Range(g) = A
      BY <1>1, <2>1, FellowsIs DEF A
    <2>3. Range(g) \cap B # {} => Range(g) = B
      BY <1>1, <2>1, FellowsIs DEF B
    <2>4. CASE Range(g) = A
      BY <1>11, <2>4
    <2>5. CASE Range(g) = B
      BY <1>12, <2>5
    <2>6. CASE Range(g) \cap A = {} /\ Range(g) \cap B = {}
      <3>1. t \notin A /\ t \notin B /\ u \notin A /\ u \notin B
        BY <2>6
      <3> QED BY <1>13, <2>1, <3>1 DEF Sound
    <2> QED BY <2>2, <2>3, <2>4, <2>5, <2>6
  <1>17. Sound(f)
    BY <1>9, <1>14, <1>16 DEF Sound
  <1> QED BY <1>15, <1>17 DEF f, m

LEMMA TouchedAgain ==
  ASSUME NEW st \in States, NEW src \in Sessions, NEW dst \in Sessions, NEW n, NEW m, NEW r,
         Touched(st, n, src, dst), NEW s \in {src, dst}, Changed(n, m, s, r), Well(r),
         Once(n.session[s]) => Once(r)
  PROVE  Touched(st, m, src, dst)
  BY DEF Touched, Changed

LEMMA SwapWindowStep ==
  ASSUME IInv, Intact, NEW src \in Live, NEW dst \in Live, NEW i \in Uses(src),
         NEW j \in Uses(dst), NEW select \in BOOLEAN, SwapWindow(src, i, dst, j, select)
  PROVE  IInv'
  <1> DEFINE x == Exchanged(src, i, dst, j)
             y == IF select THEN SetCurrent(x, dst, j) ELSE x
             z == IF select /\ src # dst THEN SetCurrent(y, src, i) ELSE y
             m == SynchronizeFrom(z, src)
  <1>1. ~Grouped(src, dst) /\ Become(IF src = dst THEN m ELSE SynchronizeFrom(m, dst))
    BY DEF SwapWindow
  <1>2. CASE src = dst
    <2> DEFINE n == SynchronizeFrom(x, src)
               k == SynchronizeFrom(SetCurrent(x, src, j), src)
    <2>1. Become(n) \/ Become(k)
      BY <1>1, <1>2
    <2>2. Sound(n) /\ AllOnce(n) /\ Sound(k) /\ AllOnce(k)
      BY <1>2, SwapInOne
    <2> HIDE DEF n, k
    <2> QED BY <2>1, <2>2, BecomeIs, FineIfOnce
  <1>3. CASE src # dst
    <2> DEFINE v == session[dst].windows[j]
               u == session[src].windows[i]
               p == Added(session[src], i, v)
               q == Added(session[dst], j, u)
               first == [State EXCEPT !.session[src] = p]
    <2>1. /\ Sound(State) /\ AllOnce(State) /\ src \in Sessions /\ dst \in Sessions
          /\ State \in States /\ Parts(State) /\ State.session = session
          /\ Well(session[src]) /\ session[src].alive /\ Well(session[dst]) /\ session[dst].alive
          /\ i \in DOMAIN session[src].windows /\ j \in DOMAIN session[dst].windows
          /\ u \in Windows /\ v \in Windows
      BY ReadyIs
    <2>2. dst \notin Fellows(State, src)
      <3>1. src \notin Fellows(State, dst)
        BY <1>1, <1>3 DEF Grouped
      <3> QED BY <2>1, <3>1, FellowsIs
    <2> HIDE DEF u, v
    <2>3. /\ Well(p) /\ p \in Records /\ DOMAIN p.windows = DOMAIN session[src].windows
          /\ Once(session[src]) => Once(p)
      BY <2>1, ReplacedIs
    <2>4. /\ Well(q) /\ q \in Records /\ DOMAIN q.windows = DOMAIN session[dst].windows
          /\ Once(session[dst]) => Once(q)
      BY <2>1, ReplacedIs
    <2>5. Changed(State, first, src, p)
      <3> HIDE DEF p
      <3> QED BY <2>1, <2>3, PutIs
    <2>6. x = [first EXCEPT !.session[dst] = q]
      <3>1. first.session[dst] = session[dst]
        BY <1>3, <2>1, <2>5 DEF Changed
      <3>2. x = [first EXCEPT !.session[dst] = Added(first.session[dst], j, u)]
        BY <2>1 DEF Exchanged, u, v
      <3> HIDE DEF x, first, p
      <3> QED BY <3>1, <3>2
    <2> HIDE DEF x, first, p, q
    <2>7. Changed(first, x, dst, q)
      BY <2>1, <2>4, <2>5, <2>6, PutIs DEF Changed
    <2>8. Touched(State, x, src, dst) /\ x.session[src] = p /\ x.session[dst] = q
      BY <1>3, <2>1, <2>3, <2>4, <2>5, <2>7 DEF Touched, Changed
    <2>9. /\ Touched(State, y, src, dst) /\ y.session[src] = p
      <3>1. CASE select
        <4>1. x \in States /\ Open(q) /\ j \in DOMAIN q.windows
          BY <2>1, <2>4, <2>7 DEF Changed, Well
        <4>2. Changed(x, y, dst, Current(q, j))
          BY <2>1, <2>8, <3>1, <4>1, SetCurrentIs
        <4>3. Well(Current(q, j)) /\ (Once(q) => Once(Current(q, j)))
          BY <4>1, CurrentIs
        <4> HIDE DEF y
        <4>4. y.session[src] = p
          BY <1>3, <2>1, <2>8, <4>2 DEF Changed
        <4> QED BY <2>1, <2>8, <4>2, <4>3, <4>4, TouchedAgain
      <3>2. CASE ~select
        BY <2>8, <3>2
      <3> QED BY <3>1, <3>2
    <2> HIDE DEF y
    <2>10. Touched(State, z, src, dst)
      <3>1. CASE select
        <4>1. y \in States /\ Open(p) /\ i \in DOMAIN p.windows
          BY <2>1, <2>3, <2>9 DEF Touched, Well
        <4>2. Changed(y, z, src, Current(p, i))
          BY <1>3, <2>1, <2>9, <3>1, <4>1, SetCurrentIs
        <4>3. Well(Current(p, i)) /\ (Once(p) => Once(Current(p, i)))
          BY <4>1, CurrentIs
        <4> HIDE DEF z
        <4> QED BY <2>1, <2>9, <4>2, <4>3, TouchedAgain
      <3>2. CASE ~select
        BY <2>9, <3>2
      <3> QED BY <3>1, <3>2
    <2> HIDE DEF z
    <2> DEFINE f == SynchronizeFrom(m, dst)
    <2>11. Sound(f) /\ AllOnce(f)
      BY <2>1, <2>2, <2>10, SpreadTwice
    <2>12. Become(f)
      BY <1>1, <1>3
    <2> HIDE DEF f
    <2> QED BY <2>11, <2>12, BecomeIs, FineIfOnce
  <1> QED BY <1>2, <1>3
-----------------------------------------------------------------------------
(* Windows and sessions that go, and the rest.                             *)
LEMMA UnlinkWindowStep ==
  ASSUME IInv, Intact, NEW s \in Live, NEW i \in Uses(s), NEW kill \in BOOLEAN,
         UnlinkWindow(s, i, kill)
  PROVE  IInv'
  <1> DEFINE n == Unlink(State, s, i)
  <1>1. /\ Sound(State) /\ AllOnce(State) /\ s \in Sessions /\ State.session[s].alive
        /\ i \in DOMAIN State.session[s].windows
    BY ReadyIs
  <1>2. Sound(n) /\ AllOnce(n)
    BY <1>1, UnlinkIs DEF AllOnce
  <1>3. Become(n)
    BY DEF UnlinkWindow
  <1> HIDE DEF n
  <1> QED BY <1>2, <1>3, BecomeIs, FineIfOnce

LEMMA KillWindowStep ==
  ASSUME IInv, Intact, NEW w \in Windows, KillWindow(w)
  PROVE  IInv'
  <1> DEFINE n == Killed(State, w, TRUE)
  <1>1. Sound(State) /\ AllOnce(State)
    BY ReadyIs
  <1>2. Sound(n) /\ AllFine(n)
    BY <1>1, KilledIs
  <1>3. Become(n)
    BY DEF KillWindow
  <1> HIDE DEF n
  <1> QED BY <1>2, <1>3, BecomeIs

LEMMA KillOthersStep ==
  ASSUME IInv, Intact, NEW s \in Live, NEW w \in Range(session[s].windows),
         NEW W \in SUBSET Range(session[s].windows), KillOthers(s, w, W)
  PROVE  IInv'
  <1> DEFINE others == KilledAll(State, s, W \ {w})
             links == {i \in DOMAIN others.session[s].windows :
                         others.session[s].windows[i] = w}
             killed == IF w \in W /\ Cardinality(links) > 1
                       THEN Killed(others, w, FALSE) ELSE others
             n == RenumberAll(killed)
  <1>1. /\ Sound(State) /\ AllOnce(State) /\ s \in Sessions
        /\ Uses(s) = DOMAIN session[s].windows /\ Uses(s) \subseteq Indexes
    BY ReadyIs
  <1>2. Become(n)
    BY DEF KillOthers
  <1>3. IsFiniteSet(W \ {w})
    <2>1. IsFiniteSet(Uses(s))
      BY <1>1, IndexesFinite
    <2> DEFINE f == [i \in Uses(s) |-> session[s].windows[i]]
    <2>2. f \in Surjection(Uses(s), Range(session[s].windows))
      BY <1>1 DEF Range, Surjection
    <2>3. IsFiniteSet(Range(session[s].windows))
      BY <2>1, <2>2, FS_Surjection
    <2> QED BY <2>3, FS_Subset
  <1>4. Sound(others) /\ AllOnce(others)
    BY <1>1, <1>3, KilledAllIs
  <1> HIDE DEF others
  <1>5. Sound(killed) /\ AllOnce(killed)
    BY <1>4, KilledIs
  <1> HIDE DEF killed
  <1>6. Sound(n) /\ AllFine(n)
    BY <1>5, RenumberAllIs, FineIfOnce
  <1> HIDE DEF n
  <1> QED BY <1>2, <1>6, BecomeIs

LEMMA DestroyStep ==
  ASSUME IInv, Intact, NEW S, Become(Destroy(State, S))
  PROVE  IInv'
  <1> DEFINE n == Destroy(State, S)
  <1>1. Sound(State) /\ AllOnce(State)
    BY ReadyIs
  <1>2. Sound(n) /\ \A s \in Sessions : n.session[s] = IF s \in S THEN Dead ELSE State.session[s]
    BY <1>1, DestroyIs
  <1> HIDE DEF n
  <1>3. AllOnce(n)
    BY <1>1, <1>2, DeadIs DEF AllOnce
  <1> QED BY <1>2, <1>3, BecomeIs, FineIfOnce DEF n

LEMMA ActivityStep ==
  ASSUME IInv, Intact, NEW w \in Windows, Activity(w)
  PROVE  IInv'
  <1> DEFINE n == Queue(State, {w})
  <1>1. Sound(State) /\ AllFine(State) /\ State \in States
    BY ReadyIs
  <1>2. n \in States /\ n.session = State.session /\ n.groups = State.groups
    BY <1>1, QueueIs
  <1>3. Become(n)
    BY DEF Activity
  <1> HIDE DEF n
  <1> QED BY <1>1, <1>2, <1>3, SameSessions, BecomeIs

LEMMA AlertsCallbackStep ==
  ASSUME IInv, Intact, AlertsCallback
  PROVE  IInv'
  <1> DEFINE n == [State EXCEPT !.queued = {}]
  <1>1. Sound(State) /\ AllFine(State) /\ State \in States
    BY ReadyIs
  <1>2. n \in States /\ n.session = State.session /\ n.groups = State.groups
    BY <1>1 DEF States
  <1>3. Become(n)
    BY DEF AlertsCallback
  <1> HIDE DEF n
  <1> QED BY <1>1, <1>2, <1>3, SameSessions, BecomeIs
-----------------------------------------------------------------------------
LEMMA InitIs == Init => IInv
  <1> SUFFICES ASSUME Init PROVE IInv
    OBVIOUS
  <1>1. \A s \in Sessions : State.session[s] = Dead
    BY DEF Init, State
  <1>2. State = [session |-> [s \in Sessions |-> Dead], groups |-> {}, queued |-> {}]
    BY DEF Init, State
  <1>3. Dead \in Records /\ ~Dead.alive
    <2>1. [i \in {} |-> {}] \in [{} -> Windows] /\ {} \in SUBSET Indexes
      OBVIOUS
    <2>2. [i \in {} |-> {}] \in Maps
      BY <2>1 DEF Maps
    <2>3. <<>> \in Seq(Indexes)
      OBVIOUS
    <2> QED BY <2>2, <2>3 DEF Dead, Records
  <1>4. State \in States
    BY <1>2, <1>3 DEF States
  <1>5. Parts(State)
    BY <1>1, <1>2, <1>4 DEF Parts
  <1>6. Sound(State)
    BY <1>1, <1>2, <1>3, <1>5 DEF Sound
  <1>7. AllFine(State)
    BY <1>1, DeadIs DEF AllFine, Fine
  <1> QED BY <1>6, <1>7 DEF IInv

LEMMA NextIs == IInv /\ [Next]_vars => IInv'
  <1> SUFFICES ASSUME IInv, [Next]_vars PROVE IInv'
    OBVIOUS
  <1>1. CASE UNCHANGED vars
    <2>1. State' = State
      BY <1>1 DEF vars, State
    <2> QED BY <2>1 DEF IInv
  <1>2. CASE Next
    <2>1. Intact
      BY <1>2 DEF Next
    <2>2. CASE Create
      <3>1. PICK w \in Windows :
              \/ \E s \in Sessions \ Live, with \in Sessions \cup {0} : NewSession(s, w, with)
              \/ \E s \in Live, detached \in BOOLEAN :
                   \/ \E i \in Indexes : NewWindow(s, w, i, detached)
                   \/ \E i \in Uses(s) : NewWindowBeside(s, w, i, detached)
        BY <2>2 DEF Create
      <3> QED BY <2>1, <3>1, NewSessionStep, NewWindowStep, NewWindowBesideStep
    <2>3. CASE Rearrange
      <3>1. CASE \E src, dst \in Live : \E i \in Uses(src) :
                   \/ \E at \in Indexes : LinkOrMove(src, i, dst, at)
                   \/ \E at \in Uses(dst) : LinkOrMoveBeside(src, i, dst, at)
        BY <2>1, <3>1, LinkOrMoveStep, LinkOrMoveBesideStep
      <3>2. CASE \E src, dst \in Live : \E i \in Uses(src), j \in Uses(dst), select \in BOOLEAN :
                   SwapWindow(src, i, dst, j, select)
        BY <2>1, <3>2, SwapWindowStep
      <3>3. CASE \E s \in Live :
                   \/ \E i \in Uses(s) : SelectWindow(s, i)
                   \/ \E i, j \in Uses(s) : i < j /\ SwapInTree(s, i, j)
                   \/ RenumberWindows(s)
        BY <2>1, <3>3, SelectWindowStep, SwapInTreeStep, RenumberWindowsStep
      <3> QED BY <2>3, <3>1, <3>2, <3>3 DEF Rearrange
    <2>4. CASE Close
      <3>1. CASE \E s \in Live, kill \in BOOLEAN : \E i \in Uses(s) : UnlinkWindow(s, i, kill)
        BY <2>1, <3>1, UnlinkWindowStep
      <3>2. CASE \E w \in Windows : KillWindow(w)
        BY <2>1, <3>2, KillWindowStep
      <3>3. CASE \E s \in Live : \E w \in Range(session[s].windows) :
                   \E W \in SUBSET Range(session[s].windows) : KillOthers(s, w, W)
        BY <2>1, <3>3, KillOthersStep
      <3>4. CASE \E s \in Live : KillSession(s) \/ KillSessionGroup(s)
        <4>1. \E S : Become(Destroy(State, S))
          BY <3>4 DEF KillSession, KillSessionGroup, DestroyGroup
        <4> QED BY <2>1, <4>1, DestroyStep
      <3> QED BY <2>4, <3>1, <3>2, <3>3, <3>4 DEF Close
    <2>5. CASE \E w \in Windows : Activity(w)
      BY <2>1, <2>5, ActivityStep
    <2>6. CASE AlertsCallback
      BY <2>1, <2>6, AlertsCallbackStep
    <2> QED BY <1>2, <2>2, <2>3, <2>4, <2>5, <2>6 DEF Next
  <1> QED BY <1>1, <1>2

LEMMA PointersListedIs == IInv => PointersListed
  <1> SUFFICES ASSUME IInv PROVE PointersListed
    OBVIOUS
  <1>1. Sound(State) /\ AllFine(State) /\ Parts(State) /\ State \in States
    BY DEF IInv, Sound, Parts
  <1>2. State.session = session /\ State.groups = groups /\ State.queued = queued
    BY DEF State
  <1>3. \A s \in Sessions : session[s] \in Records
    BY <1>1, <1>2, StateIs
  <1>4. \A s \in Live : s \in Sessions /\ session[s].alive /\ Well(session[s])
    BY <1>1, <1>2 DEF Live, Sound
  <1>5. TypeOK
    <2>1. ASSUME NEW s \in Sessions
          PROVE  /\ session[s].alive \in BOOLEAN
                 /\ DOMAIN session[s].windows \subseteq Indexes
                 /\ session[s].windows \in [DOMAIN session[s].windows -> Windows]
                 /\ session[s].cur \in Indexes \cup {NoIndex}
                 /\ session[s].lastw \in Seq(Indexes)
                 /\ ~session[s].alive => session[s] = Dead
      <3>1. session[s] \in Records
        BY <1>3
      <3>2. ~session[s].alive => session[s] = Dead
        BY <1>1, <1>2, SessionsAre
      <3>3. session[s].windows \in Maps
        BY <3>1, RecordIs
      <3>4. session[s].windows \in [DOMAIN session[s].windows -> Windows]
        BY <3>3, MapsIs
      <3> QED BY <3>1, <3>2, <3>4, RecordIs
    <2>2. ASSUME NEW g \in groups PROVE g # <<>> /\ IsInjective(g) /\ Range(g) \subseteq Live
      <3>1. g \in Seq(Sessions)
        BY <1>1, <1>2, StateIs
      <3>2. Range(g) \subseteq Sessions
        BY <3>1 DEF Range
      <3> QED BY <1>1, <1>2, <3>2 DEF Parts, Live
    <2>3. queued \subseteq Monitored
      BY <1>1, <1>2, StateIs
    <2> QED BY <2>1, <2>2, <2>3 DEF TypeOK
  <1>6. CurrentListed
    BY <1>4 DEF CurrentListed, Well
  <1>7. LastListed
    BY <1>1, <1>2, <1>4 DEF LastListed, LinkedTwice, Well, Open, AllFine, Fine, Once
  <1> QED BY <1>5, <1>6, <1>7 DEF PointersListed

LEMMA InvariantHolds == Spec => []IInv
  BY InitIs, NextIs, PTL DEF Spec

(* Whatever is linked, moved, swapped, renumbered, killed or synchronized  *)
(* with a group, between two commands the curw of a session and the        *)
(* winlinks of its lastw are winlinks that it has (session.c,              *)
(* window.c:2551, server-fn.c:238).                                        *)
THEOREM PointersAreListed == Spec => []PointersListed
  BY InvariantHolds, PointersListedIs, PTL

(* The sessions of a group have the same windows after every command: each *)
(* ends with the calls of session_group_synchronize_from that it needs     *)
(* (session.c:664).                                                        *)
THEOREM GroupsShare == Spec => []GroupShares
  <1>1. IInv => GroupShares
    BY DEF IInv, Sound, GroupShares, State
  <1> QED BY <1>1, InvariantHolds, PTL
=============================================================================
