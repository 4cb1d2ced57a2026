--------------------------- MODULE ControlProofs ---------------------------
(***************************************************************************)
(* Proofs about Control for any number of clients, panes, bytes and sizes: *)
(* what is queued for a control client will be written (Served), and the   *)
(* buffer of a pane still has the bytes of what is queued (Backed).        *)
(*                                                                         *)
(* That a pane with blocks is on the pending list (Listed) has to hold of  *)
(* every client, leaving or not, until a fatal error ends the server. It   *)
(* is not inductive by itself: it needs that the list has nothing twice    *)
(* and only panes with a control_pane. Only control_write_output adds to   *)
(* what is owed. All else either takes away from it and leaves the list    *)
(* (Keeps), or is control_write_pending, which takes a pane off the list   *)
(* (Walks): then nothing of it is owed, or the limit of the output buffer  *)
(* was reached first, and with something in that buffer the event stays    *)
(* enabled (Moved).                                                        *)
(*                                                                         *)
(* That the buffer backs the blocks is a sum over a queue: the blocks of a *)
(* pane weigh (Load) no more than lies between its offset and its queued,  *)
(* and both lie between what was drained and what was read (Fits). Every   *)
(* operation on a client leaves alone all the panes but those it names     *)
(* (Touches) and keeps the sum of these (Fine), and the base is drained to *)
(* the least offset only. The sums are of integers and the code's of       *)
(* size_t: they agree while the output is no more than a size_t holds,     *)
(* MaxBytes <= SizeMax, which is 2^64 - 1 bytes of one pane.               *)
(***************************************************************************)
EXTENDS Control, FiniteSetTheorems, TLAPS

Kinds == {"begin", "reply", "end", "notify", "continue", "pause"}
LineItem == [kind : Kinds, pane : {NoPane}, after : [Panes -> Nat]]
ByteItem == [kind : {"byte"}, pane : Panes, at : Int, fresh : BOOLEAN, adrift : BOOLEAN]
Block == [kind : {"output"}, pane : Panes, size : Nat \ {0}]
Queued == LineItem \cup Block

WindowPane ==
  [fd : BOOLEAN, base : Nat, size : Int, offset : Nat, pipe : BOOLEAN,
   piped : Nat, read : BOOLEAN, before : Nat, total : Nat]
Seens ==
  [bytes : [Panes -> Int], made : [Panes -> Int], open : BOOLEAN,
   wrong : SUBSET {"order", "lost", "late", "guard"}]
AllAttachFlags == UNION AttachFlags
Flags ==
  AllAttachFlags
    \cup {"pauseafter", "nooutput", "exit", "discard", "fatal", "exited", "lost"}
ControlClient ==
  [flags : SUBSET Flags, sees : SUBSET Panes,
   panes : [Panes -> ControlPane \cup {NoPane}],
   all : Seq(Queued), pending : Seq(Panes), deferred : Seq(LineItem),
   depth : Int, length : Nat, write : BOOLEAN, seen : Seens]

PanesTyped == pane \in [Panes -> WindowPane]

(* The panes that the client is owed output of, by its queue.              *)
OwedBy(q) == {cb.pane : cb \in {b \in Range(q) : IsOutput(b)}}
Owing(s) == OwedBy(s.all)

(* They are on the pending list, once, with a control_pane; and the write  *)
(* event is enabled.                                                       *)
Listed(s) ==
  /\ IsInjective(s.pending)
  /\ Owing(s) \subseteq Range(s.pending)
  /\ \A p \in Range(s.pending) : s.panes[p] \in ControlPane
  /\ Owing(s) # {} => s.write

Sound(s) == s \in ControlClient /\ ("fatal" \in s.flags \/ Listed(s))
IInv ==
  /\ PanesTyped
  /\ client = [c \in Clients |-> client[c]]
  /\ \A c \in Clients : Sound(client[c])
-----------------------------------------------------------------------------
(* Induction, of the only form that is needed here, from the library's     *)
(* theorem on minimal elements.                                            *)
LEMMA Least ==
  ASSUME NEW T, T \subseteq Nat, T # {}
  PROVE  \E n \in T : \A m \in T : n <= m
  <1> DEFINE R == OpToRel(<, Nat)
  <1>1. IsWellFoundedOn(R, Nat)
    BY NatLessThanWellFounded
  <1>2. \A x, y \in Nat : x < y => <<x, y>> \in R
    BY DEF OpToRel
  <1> HIDE DEF R
  <1>3. PICK x \in T : \A y \in T : ~ (<<y, x>> \in R)
    BY <1>1, WFMin
  <1>4. ASSUME NEW m \in T PROVE x <= m
    <2>1. x \in Nat /\ m \in Nat
      OBVIOUS
    <2>2. ~ (m < x)
      BY <1>2, <1>3, <2>1
    <2> QED BY <2>1, <2>2
  <1> QED BY <1>4

LEMMA Induction ==
  ASSUME NEW N \in Nat, NEW T, 0 \in T, \A n \in 1 .. N : n - 1 \in T => n \in T
  PROVE  \A n \in 0 .. N : n \in T
  <1> DEFINE B == {n \in 0 .. N : n \notin T}
  <1> SUFFICES ASSUME B # {} PROVE FALSE
    OBVIOUS
  <1>1. B \subseteq Nat
    OBVIOUS
  <1>2. PICK n \in B : \A m \in B : n <= m
    BY <1>1, Least
  <1>3. n \in 0 .. N /\ n \notin T
    OBVIOUS
  <1>4. n \in 1 .. N /\ n - 1 \in 0 .. N
    BY <1>3
  <1>5. n - 1 \in B
    BY <1>3, <1>4
  <1> QED BY <1>2, <1>4, <1>5

LEMMA MinIs ==
  ASSUME NEW I, I \subseteq Nat, I # {}
  PROVE  Min(I) \in I /\ \A j \in I : Min(I) <= j
  <1>1. \E n \in I : \A m \in I : n <= m
    BY Least
  <1> QED BY <1>1 DEF Min

-----------------------------------------------------------------------------
(* Numbers.                                                                *)
LEMMA SizeTIs ==
  ASSUME NEW n \in Int
  PROVE  SizeT(n) \in Nat
  BY SizesOrdered DEF SizeT

LEMMA NewDataIs ==
  ASSUME NEW wp \in WindowPane, NEW offset \in Nat
  PROVE  NewData(wp, offset) \in Nat
  <1>1. offset - wp.base \in Int /\ wp.size \in Int
    BY DEF WindowPane
  <1>2. SizeT(offset - wp.base) \in Nat
    BY <1>1, SizeTIs
  <1>3. wp.size - SizeT(offset - wp.base) \in Int
    BY <1>1, <1>2
  <1> QED BY <1>3, SizeTIs DEF NewData

LEMMA UpdateUsedIs ==
  ASSUME NEW wp \in WindowPane, NEW offset \in Nat, NEW n \in Nat
  PROVE  UpdateUsed(wp, offset, n) \in Nat
  <1>1. NewData(wp, offset) \in Nat
    BY NewDataIs
  <1>2. offset + Smaller(n, NewData(wp, offset)) \in Int
    BY <1>1 DEF Smaller
  <1> QED BY <1>2, SizeTIs DEF UpdateUsed

LEMMA MaxIs ==
  ASSUME NEW m \in Int, NEW n \in Int
  PROVE  Max({m, n}) \in Int /\ Max({m, n}) >= m /\ Max({m, n}) >= n
  <1>1. \E x \in {m, n} : \A y \in {m, n} : x >= y
    OBVIOUS
  <1>2. Max({m, n}) \in {m, n} /\ \A y \in {m, n} : Max({m, n}) >= y
    BY <1>1 DEF Max
  <1> QED BY <1>2
-----------------------------------------------------------------------------
(* What Kept keeps.                                                        *)
KeptStep(seq, S, f, n) ==
  IF n = 0 THEN <<>>
  ELSE IF seq[n] \in S THEN Append(f[n - 1], seq[n]) ELSE f[n - 1]

LEMMA KeptExists ==
  ASSUME NEW X, NEW seq \in Seq(X), NEW S
  PROVE  \E f : f = [n \in 0 .. Len(seq) |-> KeptStep(seq, S, f, n)]
  <1> DEFINE T == {m \in Nat : \E f : f = [n \in 0 .. m |-> KeptStep(seq, S, f, n)]}
  <1>1. 0 \in T
    <2> DEFINE f == [n \in 0 .. 0 |-> <<>>]
    <2>1. \A n \in 0 .. 0 : KeptStep(seq, S, f, n) = <<>>
      BY DEF KeptStep
    <2>2. f = [n \in 0 .. 0 |-> KeptStep(seq, S, f, n)]
      BY <2>1
    <2> HIDE DEF f
    <2> QED BY <2>2
  <1>2. ASSUME NEW m \in 1 .. Len(seq), m - 1 \in T PROVE m \in T
    <2>1. PICK f : f = [n \in 0 .. m - 1 |-> KeptStep(seq, S, f, n)]
      BY <1>2
    <2> DEFINE g == [n \in 0 .. m |-> IF n = m THEN KeptStep(seq, S, f, m) ELSE f[n]]
    <2>2. m \in Nat /\ \A n \in 0 .. m - 1 : g[n] = f[n] /\ n # m /\ n \in 0 .. m
      OBVIOUS
    <2>3. ASSUME NEW n \in 0 .. m PROVE g[n] = KeptStep(seq, S, g, n)
      <3>1. n = 0 \/ n - 1 \in 0 .. m - 1
        OBVIOUS
      <3>2. KeptStep(seq, S, g, n) = KeptStep(seq, S, f, n)
        BY <2>2, <3>1 DEF KeptStep
      <3>3. g[n] = KeptStep(seq, S, f, n)
        <4>1. CASE n = m
          BY <4>1
        <4>2. CASE n # m
          <5>1. n \in 0 .. m - 1
            BY <4>2
          <5>2. f[n] = KeptStep(seq, S, f, n)
            BY <2>1, <5>1
          <5> QED BY <2>2, <5>1, <5>2
        <4> QED BY <4>1, <4>2
      <3> QED BY <3>2, <3>3
    <2>4. g = [n \in 0 .. m |-> g[n]]
      OBVIOUS
    <2> HIDE DEF g
    <2>5. g = [n \in 0 .. m |-> KeptStep(seq, S, g, n)]
      BY <2>3, <2>4
    <2> QED BY <2>2, <2>5
  <1>3. \A m \in 0 .. Len(seq) : m \in T
    <2> HIDE DEF T
    <2>1. Len(seq) \in Nat
      OBVIOUS
    <2> QED BY <1>1, <1>2, <2>1, Induction
  <1>4. Len(seq) \in 0 .. Len(seq)
    OBVIOUS
  <1> QED BY <1>3, <1>4

LEMMA KeptIs ==
  ASSUME NEW X, NEW seq \in Seq(X), NEW S
  PROVE  /\ Kept(seq, S) \in Seq(X)
         /\ Range(Kept(seq, S)) = Range(seq) \cap S
         /\ IsInjective(seq) => IsInjective(Kept(seq, S))
         /\ Range(seq) \subseteq S => Kept(seq, S) = seq
  <1> DEFINE kept[n \in 0 .. Len(seq)] ==
               IF n = 0 THEN <<>>
               ELSE IF seq[n] \in S THEN Append(kept[n - 1], seq[n]) ELSE kept[n - 1]
  <1>1. kept = [n \in 0 .. Len(seq) |-> KeptStep(seq, S, kept, n)]
    <2>1. PICK f : f = [n \in 0 .. Len(seq) |-> KeptStep(seq, S, f, n)]
      BY KeptExists
    <2>2. f = [n \in 0 .. Len(seq) |->
                IF n = 0 THEN <<>>
                ELSE IF seq[n] \in S THEN Append(f[n - 1], seq[n]) ELSE f[n - 1]]
      BY <2>1 DEF KeptStep
    <2>3. kept = [n \in 0 .. Len(seq) |->
                   IF n = 0 THEN <<>>
                   ELSE IF seq[n] \in S THEN Append(kept[n - 1], seq[n]) ELSE kept[n - 1]]
      BY <2>2
    <2> HIDE DEF kept
    <2> QED BY <2>3 DEF KeptStep
  <1>2. Kept(seq, S) = kept[Len(seq)]
    BY DEF Kept
  <1> HIDE DEF kept
  <1>3. Len(seq) \in Nat /\ \A n \in 1 .. Len(seq) : n \in 0 .. Len(seq) /\ n # 0 /\ seq[n] \in X
    OBVIOUS
  <1>4. kept[0] = <<>> /\ \A n \in 1 .. Len(seq) : kept[n] = KeptStep(seq, S, kept, n)
    <2>1. \A n \in 0 .. Len(seq) : kept[n] = KeptStep(seq, S, kept, n)
      BY <1>1
    <2>2. KeptStep(seq, S, kept, 0) = <<>> /\ 0 \in 0 .. Len(seq)
      BY <1>3 DEF KeptStep
    <2> QED BY <1>3, <2>1, <2>2
  <1> DEFINE P(n) ==
        /\ kept[n] \in Seq(X)
        /\ Range(kept[n]) = {seq[k] : k \in 1 .. n} \cap S
        /\ IsInjective(seq) => IsInjective(kept[n])
        /\ Range(seq) \subseteq S => Len(kept[n]) = n /\ \A k \in 1 .. n : kept[n][k] = seq[k]
      T == {n \in 0 .. Len(seq) : P(n)}
  <1>5. 0 \in T
    <2>1. kept[0] \in Seq(X) /\ Range(kept[0]) = {} /\ IsInjective(kept[0]) /\ Len(kept[0]) = 0
      BY <1>4 DEF Range, IsInjective
    <2> HIDE DEF kept
    <2>2. {seq[k] : k \in 1 .. 0} = {}
      OBVIOUS
    <2> QED BY <2>1, <2>2, <1>3
  <1>6. ASSUME NEW n \in 1 .. Len(seq), n - 1 \in T PROVE n \in T
    <2>1. P(n - 1)
      BY <1>6
    <2> HIDE DEF T
    <2> SUFFICES P(n)
      BY DEF T
    <2>2. {seq[k] : k \in 1 .. n} = {seq[k] : k \in 1 .. n - 1} \cup {seq[n]}
      <3>1. \A k \in 1 .. n : k = n \/ k \in 1 .. n - 1
        OBVIOUS
      <3>2. n \in 1 .. n /\ \A k \in 1 .. n - 1 : k \in 1 .. n
        OBVIOUS
      <3> QED BY <3>1, <3>2
    <2>3. DOMAIN seq = 1 .. Len(seq)
      OBVIOUS
    <2>4. n \in DOMAIN seq /\ seq[n] \in Range(seq)
      BY <2>3 DEF Range
    <2>5. CASE seq[n] \notin S
      <3>1. kept[n] = kept[n - 1]
        BY <1>3, <1>4, <2>5 DEF KeptStep
      <3>2. Range(kept[n]) = {seq[k] : k \in 1 .. n} \cap S
        BY <2>1, <2>2, <2>5, <3>1
      <3>3. ~ (Range(seq) \subseteq S)
        BY <2>4, <2>5
      <3> QED BY <2>1, <3>1, <3>2, <3>3
    <2>6. CASE seq[n] \in S
      <3>1. kept[n] = Append(kept[n - 1], seq[n])
        BY <1>3, <1>4, <2>6 DEF KeptStep
      <3> DEFINE l == Len(kept[n - 1])
      <3>2. /\ kept[n] \in Seq(X) /\ Len(kept[n]) = l + 1 /\ l \in Nat
            /\ DOMAIN kept[n] = 1 .. l + 1 /\ DOMAIN kept[n - 1] = 1 .. l
            /\ kept[n][l + 1] = seq[n]
            /\ \A k \in 1 .. l : kept[n][k] = kept[n - 1][k]
        BY <1>3, <2>1, <3>1
      <3> HIDE DEF l
      <3>3. Range(kept[n]) = {seq[k] : k \in 1 .. n} \cap S
        <4>1. 1 .. l + 1 = (1 .. l) \cup {l + 1}
          BY <3>2
        <4>2. /\ Range(kept[n]) = {kept[n][k] : k \in 1 .. l + 1}
              /\ Range(kept[n - 1]) = {kept[n - 1][k] : k \in 1 .. l}
          BY <3>2 DEF Range
        <4>3. Range(kept[n]) = {kept[n][k] : k \in 1 .. l} \cup {kept[n][l + 1]}
          BY <4>1, <4>2
        <4>4. {kept[n][k] : k \in 1 .. l} = {kept[n - 1][k] : k \in 1 .. l}
          BY <3>2
        <4>5. Range(kept[n]) = Range(kept[n - 1]) \cup {seq[n]}
          BY <3>2, <4>2, <4>3, <4>4
        <4> QED BY <2>1, <2>2, <2>6, <4>5
      <3>4. ASSUME IsInjective(seq) PROVE IsInjective(kept[n])
        <4>1. \A k \in 1 .. n - 1 : k \in DOMAIN seq /\ k # n
          BY <2>3
        <4>2. seq[n] \notin {seq[k] : k \in 1 .. n - 1}
          BY <2>4, <3>4, <4>1 DEF IsInjective
        <4>3. seq[n] \notin Range(kept[n - 1])
          BY <2>1, <4>2
        <4>4. \A a, b \in DOMAIN kept[n - 1] : kept[n - 1][a] = kept[n - 1][b] => a = b
          BY <2>1, <3>4 DEF IsInjective
        <4>5. \A a \in 1 .. l + 1 : a \in 1 .. l \/ a = l + 1
          BY <3>2
        <4>6. \A a \in 1 .. l : kept[n][a] # kept[n][l + 1]
          BY <3>2, <4>3 DEF Range
        <4>7. ASSUME NEW a \in DOMAIN kept[n], NEW b \in DOMAIN kept[n],
                     kept[n][a] = kept[n][b]
              PROVE  a = b
          <5>1. CASE a \in 1 .. l /\ b \in 1 .. l
            BY <3>2, <4>4, <4>7, <5>1
          <5>2. CASE a = l + 1 \/ b = l + 1
            BY <3>2, <4>5, <4>6, <4>7, <5>2
          <5> QED BY <3>2, <4>5, <5>1, <5>2
        <4> QED BY <4>7 DEF IsInjective
      <3>5. ASSUME Range(seq) \subseteq S
            PROVE  Len(kept[n]) = n /\ \A k \in 1 .. n : kept[n][k] = seq[k]
        <4>1. l = n - 1 /\ \A k \in 1 .. n - 1 : kept[n - 1][k] = seq[k]
          BY <2>1, <3>5 DEF l
        <4>2. \A k \in 1 .. n : k = n \/ k \in 1 .. n - 1
          OBVIOUS
        <4>3. Len(kept[n]) = n /\ kept[n][n] = seq[n]
          BY <3>2, <4>1
        <4>4. \A k \in 1 .. n - 1 : kept[n][k] = seq[k]
          BY <3>2, <4>1
        <4> QED BY <4>2, <4>3, <4>4
      <3> QED BY <3>2, <3>3, <3>4, <3>5
    <2> QED BY <2>5, <2>6
  <1> HIDE DEF P
  <1>7. Len(seq) \in 0 .. Len(seq)
    BY <1>3
  <1>8. Len(seq) \in T
    <2> HIDE DEF T
    <2> QED BY <1>3, <1>5, <1>6, <1>7, Induction
  <1>9. P(Len(seq))
    BY <1>8
  <1>10. Range(seq) = {seq[k] : k \in 1 .. Len(seq)}
    BY DEF Range
  <1>11. ASSUME Range(seq) \subseteq S PROVE Kept(seq, S) = seq
    <2>1. /\ kept[Len(seq)] \in Seq(X) /\ Len(kept[Len(seq)]) = Len(seq)
          /\ \A k \in 1 .. Len(seq) : kept[Len(seq)][k] = seq[k]
      BY <1>9, <1>11 DEF P
    <2> QED BY <1>2, <2>1
  <1> QED BY <1>2, <1>9, <1>10, <1>11 DEF P
-----------------------------------------------------------------------------
(* A loop: a function of the number of turns, each from the one before.    *)
Turns(f, N, F, a) ==
  /\ f = [n \in 0 .. N |-> f[n]] /\ f[0] = a
  /\ \A n \in 1 .. N : f[n] = F[<<f[n - 1], n>>]

LEMMA Loop ==
  ASSUME NEW N \in Nat, NEW F, NEW a
  PROVE  \E f : Turns(f, N, F, a)
  <1> DEFINE Turn(f, n) == IF n = 0 THEN a ELSE F[<<f[n - 1], n>>]
             T == {m \in Nat : \E f : f = [n \in 0 .. m |-> Turn(f, n)]}
  <1>1. 0 \in T
    <2> DEFINE f == [n \in 0 .. 0 |-> a]
    <2>1. f = [n \in 0 .. 0 |-> Turn(f, n)]
      OBVIOUS
    <2> HIDE DEF f, Turn
    <2> QED BY <2>1
  <1>2. ASSUME NEW m \in 1 .. N, m - 1 \in T PROVE m \in T
    <2>1. PICK f : f = [n \in 0 .. m - 1 |-> Turn(f, n)]
      BY <1>2
    <2> DEFINE g == [n \in 0 .. m |-> IF n = m THEN Turn(f, m) ELSE f[n]]
    <2>2. m \in Nat /\ \A n \in 0 .. m - 1 : g[n] = f[n] /\ n # m /\ n \in 0 .. m
      OBVIOUS
    <2>3. ASSUME NEW n \in 0 .. m PROVE g[n] = Turn(g, n)
      <3>1. n = 0 \/ n - 1 \in 0 .. m - 1
        OBVIOUS
      <3>2. Turn(g, n) = Turn(f, n)
        BY <2>2, <3>1
      <3>3. g[n] = Turn(f, n)
        <4>1. CASE n = m
          BY <4>1
        <4>2. CASE n # m
          <5>1. n \in 0 .. m - 1
            BY <4>2
          <5> HIDE DEF Turn
          <5>2. f[n] = Turn(f, n)
            BY <2>1, <5>1
          <5> QED BY <2>2, <5>1, <5>2
        <4> QED BY <4>1, <4>2
      <3> QED BY <3>2, <3>3
    <2>4. g = [n \in 0 .. m |-> g[n]]
      OBVIOUS
    <2> HIDE DEF g, Turn
    <2>5. g = [n \in 0 .. m |-> Turn(g, n)]
      BY <2>3, <2>4
    <2> QED BY <2>2, <2>5
  <1>3. \A m \in 0 .. N : m \in T
    <2> HIDE DEF T
    <2> QED BY <1>1, <1>2, Induction
  <1>4. N \in 0 .. N /\ 0 \in 0 .. N /\ \A n \in 1 .. N : n \in 0 .. N /\ n # 0
    OBVIOUS
  <1>5. PICK f : f = [n \in 0 .. N |-> Turn(f, n)]
    BY <1>3, <1>4
  <1>6. \A n \in 0 .. N : f[n] = Turn(f, n)
    <2> HIDE DEF Turn
    <2> QED BY <1>5
  <1>7. f = [n \in 0 .. N |-> f[n]]
    <2> HIDE DEF Turn
    <2> QED BY <1>5
  <1> QED BY <1>4, <1>6, <1>7 DEF Turns

(* A loop of which every turn keeps a set of states.                       *)
TurnsIn(g, N, F, a, S) ==
  g[0] = a /\ \A n \in 1 .. N : g[n - 1] \in S => g[n] = F[<<g[n - 1], n>>]
Stays(N, F, S) == \A n \in 1 .. N : \A x \in S : F[<<x, n>>] \in S

LEMMA LoopKeeps ==
  ASSUME NEW N \in Nat, NEW S, NEW F, NEW a \in S, Stays(N, F, S)
  PROVE  \A g : TurnsIn(g, N, F, a, S) => \A n \in 0 .. N : g[n] \in S
  <1> SUFFICES ASSUME NEW g, TurnsIn(g, N, F, a, S) PROVE \A n \in 0 .. N : g[n] \in S
    OBVIOUS
  <1> DEFINE T == {n \in 0 .. N : g[n] \in S}
  <1>1. 0 \in T
    BY DEF TurnsIn
  <1>2. ASSUME NEW n \in 1 .. N, n - 1 \in T PROVE n \in T
    <2>1. g[n - 1] \in S /\ n \in 0 .. N
      BY <1>2
    <2> QED BY <2>1 DEF TurnsIn, Stays
  <1> HIDE DEF T
  <1>3. \A n \in 0 .. N : n \in T
    BY <1>1, <1>2, Induction
  <1> QED BY <1>3 DEF T

LEMMA LoopExists ==
  ASSUME NEW N \in Nat, NEW S, NEW F, NEW a \in S, Stays(N, F, S)
  PROVE  \E f : Turns(f, N, F, a) /\ \A n \in 0 .. N : f[n] \in S
  <1>1. PICK f : Turns(f, N, F, a)
    BY Loop
  <1>2. TurnsIn(f, N, F, a, S)
    BY <1>1 DEF Turns, TurnsIn
  <1> QED BY <1>1, <1>2, LoopKeeps
-----------------------------------------------------------------------------

-----------------------------------------------------------------------------
(* The queue of a client.  Most operators add nothing to what the client   *)
(* is owed, take nothing from the pending list, and keep the rest that the *)
(* list depends on.                                                        *)
Keeps(s, t) ==
  /\ t \in ControlClient
  /\ t.pending = s.pending /\ Owing(t) \subseteq Owing(s)
  /\ s.write => t.write
  /\ \A p \in Panes : s.panes[p] \in ControlPane => t.panes[p] \in ControlPane
  /\ s.length <= t.length
  /\ "fatal" \in s.flags => "fatal" \in t.flags

LEMMA ClientIs ==
  ASSUME NEW s \in ControlClient
  PROVE  /\ s.flags \in SUBSET Flags /\ s.sees \in SUBSET Panes
         /\ s.panes \in [Panes -> ControlPane \cup {NoPane}]
         /\ s.all \in Seq(Queued) /\ s.pending \in Seq(Panes)
         /\ s.deferred \in Seq(LineItem)
         /\ s.depth \in Int /\ s.length \in Nat /\ s.write \in BOOLEAN /\ s.seen \in Seens
  BY DEF ControlClient

LEMMA KeepsSound ==
  ASSUME NEW s, Sound(s), NEW t, Keeps(s, t)
  PROVE  Sound(t)
  <1>1. CASE "fatal" \in s.flags
    BY <1>1 DEF Sound, Keeps
  <1>2. CASE Listed(s)
    <2>1. Range(s.pending) \subseteq Panes
      BY ClientIs DEF Sound, Range
    <2>2. Listed(t)
      BY <1>2, <2>1 DEF Listed, Keeps
    <2> QED BY <2>2 DEF Sound, Keeps
  <1> QED BY <1>1, <1>2 DEF Sound

LEMMA KeepsOver ==
  ASSUME NEW s \in ControlClient, NEW t, Keeps(s, t), NEW u, Keeps(t, u)
  PROVE  Keeps(s, u)
  <1>1. s.length \in Nat /\ t.length \in Nat /\ u.length \in Nat
    BY ClientIs DEF Keeps
  <1>2. s.length <= u.length
    BY <1>1 DEF Keeps
  <1> QED BY <1>2 DEF Keeps

LEMMA KeepsSame ==
  ASSUME NEW s \in ControlClient
  PROVE  Keeps(s, s)
  BY ClientIs DEF Keeps

LEMMA EmptyRange ==
  ASSUME NEW X, NEW seq \in Seq(X)
  PROVE  Range(seq) = {} <=> seq = <<>>
  <1>1. seq # <<>> => 1 \in DOMAIN seq
    OBVIOUS
  <1>2. DOMAIN <<>> = {}
    OBVIOUS
  <1> QED BY <1>1, <1>2 DEF Range

LEMMA QueuedIs ==
  ASSUME NEW b \in Queued
  PROVE  /\ IsOutput(b) <=> b \in Block
         /\ b \in Block => b.pane \in Panes /\ b.size \in Nat \ {0}
  BY DEF Queued, Block, LineItem, Kinds, IsOutput

LEMMA BlocksAre ==
  ASSUME NEW s \in ControlClient, NEW p
  PROVE  /\ BlocksOf(s, p) # <<>> <=> p \in Owing(s)
         /\ Owing(s) \subseteq Panes
  <1> DEFINE S == {cb \in Range(s.all) : OfPane(cb, p)}
  <1>1. s.all \in Seq(Queued)
    BY ClientIs
  <1>2. BlocksOf(s, p) \in Seq(Queued) /\ Range(BlocksOf(s, p)) = Range(s.all) \cap S
    BY <1>1, KeptIs DEF BlocksOf
  <1>3. BlocksOf(s, p) # <<>> <=> \E cb \in Range(s.all) : OfPane(cb, p)
    BY <1>2, EmptyRange
  <1>4. Range(s.all) \subseteq Queued
    BY <1>1 DEF Range
  <1> QED BY <1>3, <1>4, QueuedIs DEF Owing, OwedBy, OfPane

LEMMA Requeued ==
  ASSUME NEW s \in ControlClient, NEW q \in Seq(Queued), OwedBy(q) \subseteq Owing(s)
  PROVE  /\ Keeps(s, [s EXCEPT !.all = q])
         /\ Owing([s EXCEPT !.all = q]) = OwedBy(q)
  <1> DEFINE t == [s EXCEPT !.all = q]
  <1>1. /\ t \in ControlClient /\ t.all = q /\ t.pending = s.pending /\ t.write = s.write
        /\ t.panes = s.panes /\ t.length = s.length /\ t.flags = s.flags
    BY DEF ControlClient
  <1>2. s.length \in Nat
    BY ClientIs
  <1> HIDE DEF t
  <1> QED BY <1>1, <1>2 DEF Keeps, Owing, t

LEMMA DiscardPaneIs ==
  ASSUME NEW s \in ControlClient, NEW p
  PROVE  Keeps(s, DiscardPane(s, p)) /\ Owing(DiscardPane(s, p)) = Owing(s) \ {p}
  <1> DEFINE S == {cb \in Range(s.all) : ~OfPane(cb, p)}
             q == Kept(s.all, S)
  <1>1. q \in Seq(Queued) /\ Range(q) = Range(s.all) \cap S
    BY ClientIs, KeptIs
  <1>2. DiscardPane(s, p) = [s EXCEPT !.all = q]
    BY DEF DiscardPane, Without
  <1>3. Range(q) = S
    BY <1>1
  <1> HIDE DEF q
  <1>4. OwedBy(q) = Owing(s) \ {p}
    BY <1>3 DEF OwedBy, Owing, OfPane
  <1> QED BY <1>1, <1>2, <1>4, Requeued

LEMMA LinesAre ==
  ASSUME NEW s \in ControlClient
  PROVE  Lines(s) \in Seq(Queued) /\ OwedBy(Lines(s)) = {}
  <1> DEFINE S == {cb \in Range(s.all) : ~IsOutput(cb)}
  <1>1. Lines(s) \in Seq(Queued) /\ Range(Lines(s)) = Range(s.all) \cap S
    BY ClientIs, KeptIs DEF Lines
  <1> QED BY <1>1 DEF OwedBy

LEMMA DiscardIs ==
  ASSUME NEW s \in ControlClient
  PROVE  Keeps(s, Discard(s)) /\ Owing(Discard(s)) = {}
  BY LinesAre, Requeued DEF Discard
-----------------------------------------------------------------------------
(* What is told: items that go to the output buffer.                       *)
LEMMA ToldIs ==
  ASSUME NEW seen \in Seens, NEW item \in ByteItem \cup LineItem
  PROVE  Told(seen, item) \in Seens
  <1> DEFINE p == item.pane
             wrong ==
               {w \in {"order", "lost", "late", "guard"} :
                  \/ w = "order" /\ item.kind = "byte" /\ item.at < seen.bytes[p]
                  \/ w = "lost" /\ item.kind = "byte" /\ item.at > seen.bytes[p] /\ ~item.fresh
                  \/ w = "late" /\ item.kind = "byte" /\ item.at < seen.made[p] /\ ~item.adrift
                  \/ w = "guard" /\ seen.open # (item.kind \in {"reply", "end"})}
  <1>1. wrong \subseteq {"order", "lost", "late", "guard"}
    OBVIOUS
  <1>2. Told(seen, item) =
          IF item.kind = "byte"
          THEN [seen EXCEPT !.bytes[p] = item.at + 1, !.wrong = @ \cup wrong]
          ELSE [seen EXCEPT !.open = item.kind \in {"begin", "reply"},
                            !.made = [q \in Panes |-> Max({@[q], item.after[q]})],
                            !.wrong = @ \cup wrong]
    BY DEF Told
  <1> HIDE DEF wrong
  <1>3. CASE item.kind = "byte"
    <2>1. item.pane \in Panes /\ item.at + 1 \in Int
      BY <1>3 DEF ByteItem, LineItem, Kinds
    <2>2. [seen.bytes EXCEPT ![p] = item.at + 1] \in [Panes -> Int]
      BY <2>1 DEF Seens
    <2>3. seen.wrong \cup wrong \in SUBSET {"order", "lost", "late", "guard"}
      BY <1>1 DEF Seens
    <2>4. Told(seen, item) = [seen EXCEPT !.bytes = [seen.bytes EXCEPT ![p] = item.at + 1],
                                          !.wrong = seen.wrong \cup wrong]
      BY <1>2, <1>3 DEF Seens
    <2> QED BY <2>2, <2>3, <2>4 DEF Seens
  <1>4. CASE item.kind # "byte"
    <2>1. \A q \in Panes : seen.made[q] \in Int /\ item.after[q] \in Int
      BY <1>4 DEF ByteItem, LineItem, Seens
    <2>2. \A q \in Panes : Max({seen.made[q], item.after[q]}) \in Int
      BY <2>1, MaxIs
    <2>3. [q \in Panes |-> Max({seen.made[q], item.after[q]})] \in [Panes -> Int]
      BY <2>2
    <2>4. (item.kind \in {"begin", "reply"}) \in BOOLEAN
      OBVIOUS
    <2>5. seen.wrong \cup wrong \in SUBSET {"order", "lost", "late", "guard"}
      BY <1>1 DEF Seens
    <2>6. Told(seen, item) =
            [seen EXCEPT !.open = item.kind \in {"begin", "reply"},
                         !.made = [q \in Panes |-> Max({seen.made[q], item.after[q]})],
                         !.wrong = seen.wrong \cup wrong]
      BY <1>2, <1>4 DEF Seens
    <2> QED BY <2>3, <2>4, <2>5, <2>6 DEF Seens
  <1> QED BY <1>3, <1>4

LEMMA PutIs ==
  ASSUME NEW s \in ControlClient, NEW items \in Seq(ByteItem \cup LineItem)
  PROVE  LET t == Put(s, items)
         IN  /\ t \in ControlClient /\ t.length = s.length + Len(items)
             /\ t.flags = s.flags /\ t.panes = s.panes /\ t.all = s.all
             /\ t.pending = s.pending /\ t.write = s.write
             /\ Keeps(s, t) /\ Owing(t) = Owing(s)
  <1> DEFINE N == Len(items)
             F == [p \in Seens \X (1 .. N) |-> Told(p[1], items[p[2]])]
             told[n \in 0 .. N] == IF n = 0 THEN s.seen ELSE Told(told[n - 1], items[n])
  <1>1. N \in Nat /\ s.seen \in Seens /\ \A n \in 1 .. N : items[n] \in ByteItem \cup LineItem
    BY ClientIs
  <1>2. Put(s, items) = [s EXCEPT !.seen = told[N], !.length = @ + N]
    BY DEF Put
  <1> HIDE DEF told, N
  <1>3. \A n \in 1 .. N : \A x \in Seens : F[<<x, n>>] = Told(x, items[n])
    OBVIOUS
  <1> HIDE DEF F
  <1>4. Stays(N, F, Seens)
    BY <1>1, <1>3, ToldIs DEF Stays
  <1>5. PICK f : Turns(f, N, F, s.seen) /\ \A n \in 0 .. N : f[n] \in Seens
    BY <1>1, <1>4, LoopExists
  <1>6. /\ N \in 0 .. N /\ 0 \in 0 .. N
        /\ \A n \in 1 .. N : n \in 0 .. N /\ n # 0 /\ n - 1 \in 0 .. N
        /\ \A n \in 0 .. N : n # 0 => n \in 1 .. N
    BY <1>1
  <1>7. f = [n \in 0 .. N |-> IF n = 0 THEN s.seen ELSE Told(f[n - 1], items[n])]
    BY <1>3, <1>5, <1>6 DEF Turns
  <1>8. told = [n \in 0 .. N |-> IF n = 0 THEN s.seen ELSE Told(told[n - 1], items[n])]
    BY <1>7 DEF told
  <1>9. told[0] = s.seen /\ \A n \in 1 .. N : told[n] = Told(told[n - 1], items[n])
    BY <1>6, <1>8
  <1>10. TurnsIn(told, N, F, s.seen, Seens)
    BY <1>3, <1>9 DEF TurnsIn
  <1>11. told[N] \in Seens
    BY <1>1, <1>4, <1>6, <1>10, LoopKeeps
  <1> DEFINE t == [s EXCEPT !.seen = told[N], !.length = @ + N]
  <1>12. /\ t \in ControlClient /\ t.length = s.length + N
         /\ t.flags = s.flags /\ t.panes = s.panes /\ t.all = s.all
         /\ t.pending = s.pending /\ t.write = s.write
    <2>1. s.length \in Nat /\ s.length + N \in Nat
      BY <1>1, ClientIs
    <2>2. t = [s EXCEPT !.seen = told[N], !.length = s.length + N]
      BY DEF ControlClient
    <2> HIDE DEF t
    <2> QED BY <1>11, <2>1, <2>2 DEF ControlClient
  <1>13. s.length \in Nat /\ s.length <= s.length + N
    BY <1>1, ClientIs
  <1> HIDE DEF t
  <1>14. Keeps(s, t) /\ Owing(t) = Owing(s)
    BY <1>12, <1>13 DEF Keeps, Owing
  <1> QED BY <1>2, <1>12, <1>14 DEF N, t

(* The lines before the first block of output.                             *)
LEMMA FlushedLines ==
  ASSUME NEW s \in ControlClient
  PROVE  LET outputs == {i \in DOMAIN s.all : IsOutput(s.all[i])}
             n == IF outputs = {} THEN Len(s.all) ELSE Min(outputs) - 1
         IN  n \in 0 .. Len(s.all) /\ SubSeq(s.all, 1, n) \in Seq(ByteItem \cup LineItem)
  <1> DEFINE outputs == {i \in DOMAIN s.all : IsOutput(s.all[i])}
             n == IF outputs = {} THEN Len(s.all) ELSE Min(outputs) - 1
  <1>1. s.all \in Seq(Queued) /\ Len(s.all) \in Nat /\ DOMAIN s.all = 1 .. Len(s.all)
    BY ClientIs
  <1>2. n \in 0 .. Len(s.all) /\ \A i \in 1 .. n : i \in DOMAIN s.all /\ ~IsOutput(s.all[i])
    <2>1. CASE outputs = {}
      BY <1>1, <2>1
    <2>2. CASE outputs # {}
      <3>1. outputs \subseteq Nat
        BY <1>1
      <3>2. Min(outputs) \in outputs /\ \A j \in outputs : Min(outputs) <= j
        BY <2>2, <3>1, MinIs
      <3>3. Min(outputs) \in 1 .. Len(s.all) /\ n = Min(outputs) - 1
        BY <1>1, <2>2, <3>2
      <3> HIDE DEF n
      <3>4. ASSUME NEW i \in 1 .. n PROVE i \in DOMAIN s.all /\ i \notin outputs
        <4>1. i < Min(outputs) /\ i \in 1 .. Len(s.all)
          BY <1>1, <3>3
        <4>2. ~ (Min(outputs) <= i)
          BY <3>3, <4>1
        <4> HIDE DEF outputs
        <4> QED BY <1>1, <3>2, <4>1, <4>2
      <3> QED BY <1>1, <3>3, <3>4
    <2> QED BY <2>1, <2>2
  <1> HIDE DEF n
  <1>3. SubSeq(s.all, 1, n) \in Seq(ByteItem \cup LineItem)
    <2>1. \A i \in 1 .. n : s.all[i] \in LineItem
      BY <1>1, <1>2, QueuedIs DEF Queued
    <2>2. Len(SubSeq(s.all, 1, n)) = n /\ \A i \in 1 .. n : SubSeq(s.all, 1, n)[i] = s.all[i]
      BY <1>1, <1>2
    <2>3. SubSeq(s.all, 1, n) \in Seq(Queued)
      BY <1>1, <1>2
    <2> DEFINE q1 == SubSeq(s.all, 1, n)
    <2> HIDE DEF q1
    <2>4. \A i \in 1 .. Len(q1) : q1[i] \in ByteItem \cup LineItem
      BY <2>1, <2>2 DEF q1
    <2>5. q1 \in Seq(ByteItem \cup LineItem)
      BY <2>3, <2>4 DEF q1
    <2> QED BY <2>5 DEF q1
  <1> QED BY <1>2, <1>3 DEF n

LEMMA FlushAllBlocksIs ==
  ASSUME NEW s \in ControlClient
  PROVE  Keeps(s, FlushAllBlocks(s))
  <1> DEFINE outputs == {i \in DOMAIN s.all : IsOutput(s.all[i])}
             n == IF outputs = {} THEN Len(s.all) ELSE Min(outputs) - 1
             put == Put(s, SubSeq(s.all, 1, n))
             q == SubSeq(s.all, n + 1, Len(s.all))
  <1>1. s.all \in Seq(Queued) /\ Len(s.all) \in Nat /\ DOMAIN s.all = 1 .. Len(s.all)
    BY ClientIs
  <1>2. n \in 0 .. Len(s.all) /\ SubSeq(s.all, 1, n) \in Seq(ByteItem \cup LineItem)
    BY FlushedLines
  <1>3. FlushAllBlocks(s) = [put EXCEPT !.all = q]
    BY DEF FlushAllBlocks
  <1> HIDE DEF n
  <1>5. q \in Seq(Queued) /\ Range(q) \subseteq Range(s.all)
    <2>1. q \in Seq(Queued)
      BY <1>1, <1>2
    <2>2. \A i \in DOMAIN q : q[i] = s.all[i + n] /\ i + n \in DOMAIN s.all
      BY <1>1, <1>2
    <2> QED BY <2>1, <2>2 DEF Range
  <1> HIDE DEF q
  <1>6. OwedBy(q) \subseteq Owing(s)
    BY <1>5 DEF OwedBy, Owing
  <1>7. put \in ControlClient /\ Keeps(s, put) /\ Owing(put) = Owing(s)
    BY <1>2, PutIs
  <1> HIDE DEF put
  <1>8. Keeps(put, [put EXCEPT !.all = q])
    BY <1>5, <1>6, <1>7, Requeued
  <1> QED BY <1>3, <1>7, <1>8, KeepsOver

-----------------------------------------------------------------------------
(* Lines.                                                                  *)
LEMMA Reflagged ==
  ASSUME NEW s \in ControlClient, NEW F \in SUBSET Flags,
         "fatal" \in s.flags => "fatal" \in F
  PROVE  Keeps(s, [s EXCEPT !.flags = F]) /\ Owing([s EXCEPT !.flags = F]) = Owing(s)
  <1> DEFINE t == [s EXCEPT !.flags = F]
  <1>1. /\ t \in ControlClient /\ t.flags = F /\ t.all = s.all /\ t.pending = s.pending
        /\ t.write = s.write /\ t.panes = s.panes /\ t.length = s.length
    BY DEF ControlClient
  <1>2. s.length \in Nat
    BY ClientIs
  <1> HIDE DEF t
  <1> QED BY <1>1, <1>2 DEF Keeps, Owing, t

LEMMA FlagAdded ==
  ASSUME NEW s \in ControlClient, NEW F \in SUBSET Flags
  PROVE  /\ Keeps(s, [s EXCEPT !.flags = @ \cup F])
         /\ Owing([s EXCEPT !.flags = @ \cup F]) = Owing(s)
  <1>1. s.flags \cup F \in SUBSET Flags /\ ("fatal" \in s.flags => "fatal" \in s.flags \cup F)
    BY ClientIs
  <1>2. [s EXCEPT !.flags = @ \cup F] = [s EXCEPT !.flags = s.flags \cup F]
    BY DEF ControlClient
  <1> QED BY <1>1, <1>2, Reflagged

LEMMA Enabled ==
  ASSUME NEW s \in ControlClient
  PROVE  Keeps(s, [s EXCEPT !.write = TRUE])
  <1> DEFINE t == [s EXCEPT !.write = TRUE]
  <1>1. /\ t \in ControlClient /\ t.flags = s.flags /\ t.all = s.all /\ t.pending = s.pending
        /\ t.write /\ t.panes = s.panes /\ t.length = s.length
    BY DEF ControlClient
  <1>2. s.length \in Nat
    BY ClientIs
  <1> HIDE DEF t
  <1> QED BY <1>1, <1>2 DEF Keeps, Owing, t

LEMMA OverrunIs ==
  ASSUME NEW s \in ControlClient
  PROVE  Keeps(s, Overrun(s))
  <1> DEFINE u == IF "exit" \in s.flags THEN s ELSE Discard(s)
  <1>1. u \in ControlClient /\ Keeps(s, u)
    BY KeepsSame, DiscardIs DEF Keeps
  <1>2. {"exit", "discard"} \in SUBSET Flags
    <2>1. "exit" \in Flags /\ "discard" \in Flags
      BY DEF Flags
    <2> QED BY <2>1
  <1>3. Overrun(s) = [u EXCEPT !.flags = @ \cup {"exit", "discard"}]
    BY DEF Overrun
  <1> HIDE DEF u
  <1>4. Keeps(u, Overrun(s))
    BY <1>1, <1>2, <1>3, FlagAdded
  <1> QED BY <1>1, <1>4, KeepsOver

LEMMA WriteLineIs ==
  ASSUME NEW s \in ControlClient, NEW line \in LineItem
  PROVE  Keeps(s, WriteLine(s, line))
  <1>1. CASE "discard" \in s.flags
    BY <1>1, KeepsSame DEF WriteLine
  <1>2. CASE "discard" \notin s.flags /\ TooLong(s)
    BY <1>2, OverrunIs DEF WriteLine
  <1>3. CASE "discard" \notin s.flags /\ ~TooLong(s) /\ s.all = <<>>
    <2> DEFINE t == Put(s, <<line>>)
    <2>1. WriteLine(s, line) = [t EXCEPT !.write = TRUE]
      BY <1>3 DEF WriteLine
    <2>2. <<line>> \in Seq(ByteItem \cup LineItem)
      OBVIOUS
    <2>3. t \in ControlClient /\ Keeps(s, t)
      BY <2>2, PutIs
    <2> HIDE DEF t
    <2> QED BY <2>1, <2>3, Enabled, KeepsOver
  <1>4. CASE "discard" \notin s.flags /\ ~TooLong(s) /\ s.all # <<>>
    <2> DEFINE q == Append(s.all, line)
               t == [s EXCEPT !.all = q]
    <2>1. WriteLine(s, line) = [s EXCEPT !.all = q, !.write = TRUE]
      BY <1>4 DEF WriteLine, ControlClient
    <2>2. s.all \in Seq(Queued) /\ line \in Queued /\ ~IsOutput(line)
      BY ClientIs DEF Queued, LineItem, Kinds, IsOutput
    <2>3. q \in Seq(Queued) /\ \A b \in Range(q) : b \in Range(s.all) \/ b = line
      BY <2>2 DEF Range
    <2> HIDE DEF q
    <2>4. OwedBy(q) \subseteq Owing(s)
      BY <2>2, <2>3 DEF OwedBy, Owing
    <2>5. t \in ControlClient /\ Keeps(s, t)
      BY <2>3, <2>4, Requeued DEF Keeps
    <2>6. [s EXCEPT !.all = q, !.write = TRUE] = [t EXCEPT !.write = TRUE]
      BY DEF ControlClient
    <2> HIDE DEF t
    <2> QED BY <2>1, <2>5, <2>6, Enabled, KeepsOver
  <1> QED BY <1>1, <1>2, <1>3, <1>4

LEMMA LineIs ==
  ASSUME PanesTyped, NEW s \in ControlClient, NEW kind \in Kinds
  PROVE  Line(s, kind) \in LineItem
  <1> DEFINE after == [p \in Panes |-> IF s.panes[p] = NoPane THEN 0
                                       ELSE pane[p].before + s.panes[p].queued]
  <1>1. ASSUME NEW p \in Panes, s.panes[p] # NoPane
        PROVE  pane[p].before + s.panes[p].queued \in Nat
    <2>1. s.panes[p] \in ControlPane /\ pane[p] \in WindowPane
      BY <1>1, ClientIs DEF PanesTyped
    <2> QED BY <2>1 DEF ControlPane, WindowPane
  <1>2. after \in [Panes -> Nat]
    BY <1>1
  <1>3. Line(s, kind) = [kind |-> kind, pane |-> NoPane, after |-> after]
    BY DEF Line
  <1> HIDE DEF after
  <1> QED BY <1>2, <1>3 DEF LineItem

LEMMA WriteIs ==
  ASSUME PanesTyped, NEW s \in ControlClient, NEW kind \in Kinds
  PROVE  Keeps(s, Write(s, kind))
  BY LineIs, WriteLineIs DEF Write

LEMMA Deferred ==
  ASSUME NEW s \in ControlClient, NEW d \in Seq(LineItem), NEW n \in Int
  PROVE  Keeps(s, [s EXCEPT !.deferred = d, !.depth = n])
  <1> DEFINE t == [s EXCEPT !.deferred = d, !.depth = n]
  <1>1. /\ t \in ControlClient /\ t.flags = s.flags /\ t.all = s.all /\ t.pending = s.pending
        /\ t.write = s.write /\ t.panes = s.panes /\ t.length = s.length
    BY DEF ControlClient
  <1>2. s.length \in Nat
    BY ClientIs
  <1> HIDE DEF t
  <1> QED BY <1>1, <1>2 DEF Keeps, Owing, t

LEMMA NotifyWriteIs ==
  ASSUME PanesTyped, NEW s \in ControlClient, NEW kind \in Kinds
  PROVE  Keeps(s, NotifyWrite(s, kind))
  <1>1. CASE s.depth = 0
    BY <1>1, WriteIs DEF NotifyWrite
  <1>2. CASE s.depth # 0
    <2> DEFINE d == Append(s.deferred, Line(s, kind))
    <2>1. d \in Seq(LineItem) /\ s.depth \in Int
      BY LineIs, ClientIs
    <2>2. NotifyWrite(s, kind) = [s EXCEPT !.deferred = d, !.depth = s.depth]
      BY <1>2 DEF NotifyWrite, ControlClient
    <2> HIDE DEF d
    <2>3. \A n \in Int : Keeps(s, [s EXCEPT !.deferred = d, !.depth = n])
      BY <2>1, Deferred
    <2> QED BY <2>1, <2>2, <2>3
  <1> QED BY <1>1, <1>2

(* The loop of FlushDeferred, by a set that each of its turns stays in.    *)
LEMMA FlushDeferredBy ==
  ASSUME NEW s \in ControlClient, NEW S, [s EXCEPT !.deferred = <<>>] \in S,
         \A x \in S : \A line \in LineItem : WriteLine(x, line) \in S
  PROVE  FlushDeferred(s) \in S
  <1> DEFINE a == [s EXCEPT !.deferred = <<>>]
             N == Len(s.deferred)
             F == [p \in S \X (1 .. N) |-> WriteLine(p[1], s.deferred[p[2]])]
             done[n \in 0 .. N] == IF n = 0 THEN a ELSE WriteLine(done[n - 1], s.deferred[n])
  <1>1. N \in Nat /\ \A n \in 1 .. N : s.deferred[n] \in LineItem
    BY ClientIs
  <1>2. FlushDeferred(s) = done[N]
    BY DEF FlushDeferred
  <1>3. a \in S
    OBVIOUS
  <1> HIDE DEF done, N, a
  <1>4. \A n \in 1 .. N : \A x \in S : WriteLine(x, s.deferred[n]) \in S
    BY <1>1
  <1>5. \A n \in 1 .. N : \A x \in S : F[<<x, n>>] = WriteLine(x, s.deferred[n])
    OBVIOUS
  <1> HIDE DEF F
  <1>6. Stays(N, F, S)
    BY <1>4, <1>5 DEF Stays
  <1>7. PICK f : Turns(f, N, F, a) /\ \A n \in 0 .. N : f[n] \in S
    BY <1>1, <1>3, <1>6, LoopExists
  <1>8. /\ N \in 0 .. N /\ 0 \in 0 .. N
        /\ \A n \in 1 .. N : n \in 0 .. N /\ n # 0 /\ n - 1 \in 0 .. N
        /\ \A n \in 0 .. N : n # 0 => n \in 1 .. N
    BY <1>1
  <1>9. f = [n \in 0 .. N |-> IF n = 0 THEN a ELSE WriteLine(f[n - 1], s.deferred[n])]
    BY <1>5, <1>7, <1>8 DEF Turns
  <1>10. done = [n \in 0 .. N |-> IF n = 0 THEN a ELSE WriteLine(done[n - 1], s.deferred[n])]
    BY <1>9 DEF done
  <1>11. done[0] = a /\ \A n \in 1 .. N : done[n] = WriteLine(done[n - 1], s.deferred[n])
    BY <1>8, <1>10
  <1>12. TurnsIn(done, N, F, a, S)
    BY <1>5, <1>11 DEF TurnsIn
  <1>13. done[N] \in S
    BY <1>1, <1>3, <1>6, <1>8, <1>12, LoopKeeps
  <1> QED BY <1>2, <1>13

LEMMA FlushDeferredIs ==
  ASSUME NEW s \in ControlClient
  PROVE  Keeps(s, FlushDeferred(s))
  <1> DEFINE a == [s EXCEPT !.deferred = <<>>]
             S == {x \in ControlClient : Keeps(s, x)}
  <1>1. a \in S
    <2>1. s.depth \in Int /\ <<>> \in Seq(LineItem)
      BY ClientIs
    <2>2. a = [s EXCEPT !.deferred = <<>>, !.depth = s.depth]
      BY DEF ControlClient
    <2> HIDE DEF a
    <2> QED BY <2>1, <2>2, Deferred DEF Keeps
  <1>2. ASSUME NEW x \in S, NEW line \in LineItem PROVE WriteLine(x, line) \in S
    <2>1. x \in ControlClient /\ Keeps(s, x)
      OBVIOUS
    <2>2. Keeps(x, WriteLine(x, line))
      BY <2>1, WriteLineIs
    <2> QED BY <2>1, <2>2, KeepsOver DEF Keeps
  <1> HIDE DEF S
  <1>3. FlushDeferred(s) \in S
    BY <1>1, <1>2, FlushDeferredBy
  <1> QED BY <1>3 DEF S

LEMMA BeginIs ==
  ASSUME PanesTyped, NEW s \in ControlClient
  PROVE  Keeps(s, Begin(s))
  <1> DEFINE t == [s EXCEPT !.depth = @ + 1]
  <1>1. s.depth + 1 \in Int /\ s.deferred \in Seq(LineItem)
    BY ClientIs
  <1>2. t = [s EXCEPT !.deferred = s.deferred, !.depth = s.depth + 1]
    BY DEF ControlClient
  <1> HIDE DEF t
  <1>3. t \in ControlClient /\ Keeps(s, t)
    BY <1>1, <1>2, Deferred DEF Keeps
  <1>4. Begin(s) = Write(t, "begin") /\ "begin" \in Kinds
    BY DEF Begin, Kinds, t
  <1> QED BY <1>3, <1>4, WriteIs, KeepsOver

LEMMA EndIs ==
  ASSUME PanesTyped, NEW s \in ControlClient
  PROVE  Keeps(s, End(s))
  <1> DEFINE t == Write(s, "end")
             u == [t EXCEPT !.depth = 0]
             v == [t EXCEPT !.depth = @ - 1]
  <1>1. t \in ControlClient /\ Keeps(s, t)
    BY WriteIs DEF Kinds, Keeps
  <1>2. End(s) = IF t.depth = 1 THEN FlushDeferred(u) ELSE v
    BY DEF End
  <1> HIDE DEF t
  <1>3. t.depth - 1 \in Int /\ 0 \in Int /\ t.deferred \in Seq(LineItem)
    BY <1>1, ClientIs
  <1>4. /\ u = [t EXCEPT !.deferred = t.deferred, !.depth = 0]
        /\ v = [t EXCEPT !.deferred = t.deferred, !.depth = t.depth - 1]
    BY <1>1 DEF ControlClient
  <1> HIDE DEF u, v
  <1>5. u \in ControlClient /\ Keeps(t, u) /\ Keeps(t, v)
    <2>1. \A n \in Int : Keeps(t, [t EXCEPT !.deferred = t.deferred, !.depth = n])
      BY <1>1, <1>3, Deferred
    <2>2. Keeps(t, u) /\ Keeps(t, v)
      BY <1>3, <1>4, <2>1
    <2> QED BY <2>2 DEF Keeps
  <1>6. Keeps(s, u) /\ Keeps(s, v)
    BY <1>1, <1>5, KeepsOver
  <1>7. Keeps(s, FlushDeferred(u))
    BY <1>5, <1>6, FlushDeferredIs, KeepsOver
  <1> QED BY <1>2, <1>6, <1>7

-----------------------------------------------------------------------------
(* The panes of a client.                                                  *)
LEMMA OffsetsAre ==
  ASSUME NEW wp \in WindowPane
  PROVE  /\ Offsets(wp) \in ControlPane
         /\ \A cp \in ControlPane : Restarted(cp, wp) \in ControlPane
  <1>1. Offsets(wp) \in ControlPane
    BY DEF Offsets, WindowPane, ControlPane
  <1>2. \A cp \in ControlPane : cp.off \in BOOLEAN /\ cp.paused \in BOOLEAN
    BY DEF ControlPane
  <1>3. \A cp \in ControlPane : Restarted(cp, wp) \in ControlPane
    BY <1>1, <1>2 DEF Restarted, ControlPane
  <1> QED BY <1>1, <1>3

LEMMA Repaned ==
  ASSUME NEW s \in ControlClient, NEW p \in Panes, NEW cp \in ControlPane
  PROVE  LET t == [s EXCEPT !.panes[p] = cp]
         IN  /\ t \in ControlClient /\ Keeps(s, t) /\ Owing(t) = Owing(s) /\ t.panes[p] = cp
             /\ t.flags = s.flags /\ t.all = s.all /\ t.length = s.length
  <1> DEFINE t == [s EXCEPT !.panes[p] = cp]
             panes == [s.panes EXCEPT ![p] = cp]
  <1>1. s.panes \in [Panes -> ControlPane \cup {NoPane}] /\ s.length \in Nat
    BY ClientIs
  <1>2. /\ panes \in [Panes -> ControlPane \cup {NoPane}] /\ panes[p] = cp
        /\ \A q \in Panes \ {p} : panes[q] = s.panes[q]
    BY <1>1
  <1>3. t = [s EXCEPT !.panes = panes]
    BY DEF ControlClient
  <1> HIDE DEF panes
  <1>4. /\ t \in ControlClient /\ t.flags = s.flags /\ t.all = s.all /\ t.pending = s.pending
        /\ t.write = s.write /\ t.panes = panes /\ t.length = s.length
    BY <1>2, <1>3 DEF ControlClient
  <1> HIDE DEF t
  <1>5. Keeps(s, t) /\ Owing(t) = Owing(s)
    BY <1>1, <1>2, <1>4 DEF Keeps, Owing
  <1> QED BY <1>2, <1>4, <1>5 DEF t

LEMMA HasPane ==
  ASSUME NEW s \in ControlClient, NEW p \in Panes, s.panes[p] # NoPane
  PROVE  s.panes[p] \in ControlPane
  BY ClientIs

LEMMA PaneIs ==
  ASSUME PanesTyped, NEW p \in Panes
  PROVE  pane[p] \in WindowPane
  BY DEF PanesTyped

LEMMA AddPaneIs ==
  ASSUME PanesTyped, NEW s \in ControlClient, NEW p \in Panes
  PROVE  LET t == AddPane(s, p)
         IN  /\ t \in ControlClient /\ Keeps(s, t) /\ Owing(t) = Owing(s)
             /\ t.panes[p] \in ControlPane /\ t.flags = s.flags
  <1>1. CASE s.panes[p] = NoPane
    <2>1. Offsets(pane[p]) \in ControlPane
      BY PaneIs, OffsetsAre
    <2> QED BY <1>1, <2>1, Repaned DEF AddPane
  <1>2. CASE s.panes[p] # NoPane
    BY <1>2, HasPane, KeepsSame DEF AddPane
  <1> QED BY <1>1, <1>2

LEMMA ResetOffsetsIs ==
  ASSUME NEW s \in ControlClient
  PROVE  ResetOffsets(s) \in ControlClient /\ Listed(ResetOffsets(s))
  <1> DEFINE t == ResetOffsets(s)
  <1>1. [p \in Panes |-> NoPane] \in [Panes -> ControlPane \cup {NoPane}]
    OBVIOUS
  <1>2. Lines(s) \in Seq(Queued) /\ OwedBy(Lines(s)) = {}
    BY LinesAre
  <1>3. t \in ControlClient /\ t.all = Lines(s) /\ t.pending = <<>>
    <2> DEFINE panes == [p \in Panes |-> NoPane]
               q == Lines(s)
    <2>1. t = [s EXCEPT !.all = q, !.pending = <<>>, !.panes = panes]
      BY DEF ResetOffsets
    <2>2. panes \in [Panes -> ControlPane \cup {NoPane}] /\ q \in Seq(Queued)
      BY <1>1, <1>2
    <2> HIDE DEF t, q, panes
    <2>3. <<>> \in Seq(Panes)
      OBVIOUS
    <2>4. t \in ControlClient /\ t.all = q /\ t.pending = <<>>
      BY <2>1, <2>2, <2>3 DEF ControlClient
    <2> QED BY <2>4 DEF q
  <1>4. Owing(t) = {}
    BY <1>2, <1>3 DEF Owing
  <1> HIDE DEF t
  <1>5. Range(<<>>) = {} /\ IsInjective(<<>>)
    BY DEF Range, IsInjective
  <1> QED BY <1>3, <1>4, <1>5 DEF Listed, t

LEMMA SetPaneOnIs ==
  ASSUME PanesTyped, NEW s \in ControlClient, NEW p \in Panes
  PROVE  Keeps(s, SetPaneOn(s, p))
  <1>1. CASE s.panes[p] # NoPane /\ s.panes[p].off
    <2> DEFINE cp == [Restarted(s.panes[p], pane[p]) EXCEPT !.off = FALSE]
    <2>1. Restarted(s.panes[p], pane[p]) \in ControlPane
      BY <1>1, HasPane, PaneIs, OffsetsAre
    <2>2. cp \in ControlPane
      BY <2>1 DEF ControlPane
    <2>3. SetPaneOn(s, p) = [s EXCEPT !.panes[p] = cp]
      BY <1>1 DEF SetPaneOn, ControlClient
    <2> HIDE DEF cp
    <2> QED BY <2>2, <2>3, Repaned
  <1>2. CASE ~ (s.panes[p] # NoPane /\ s.panes[p].off)
    BY <1>2, KeepsSame DEF SetPaneOn
  <1> QED BY <1>1, <1>2

LEMMA SetPaneOffIs ==
  ASSUME PanesTyped, NEW s \in ControlClient, NEW p \in Panes
  PROVE  Keeps(s, SetPaneOff(s, p))
  <1> DEFINE a == AddPane(s, p)
             d == DiscardPane(a, p)
             cp == [Restarted(d.panes[p], pane[p]) EXCEPT !.off = TRUE]
  <1>1. a \in ControlClient /\ Keeps(s, a) /\ a.panes[p] \in ControlPane
    BY AddPaneIs
  <1>2. SetPaneOff(s, p) = [d EXCEPT !.panes[p] = [Restarted(@, pane[p]) EXCEPT !.off = TRUE]]
    BY DEF SetPaneOff
  <1> HIDE DEF a
  <1>3. d \in ControlClient /\ Keeps(a, d) /\ d.panes[p] \in ControlPane
    BY <1>1, DiscardPaneIs DEF Keeps
  <1> HIDE DEF d
  <1>4. Restarted(d.panes[p], pane[p]) \in ControlPane
    BY <1>3, PaneIs, OffsetsAre
  <1>5. cp \in ControlPane
    BY <1>4 DEF ControlPane
  <1>6. SetPaneOff(s, p) = [d EXCEPT !.panes[p] = cp]
    BY <1>2, <1>3 DEF ControlClient
  <1> HIDE DEF cp
  <1>7. Keeps(d, SetPaneOff(s, p))
    BY <1>3, <1>5, <1>6, Repaned
  <1>8. Keeps(s, d)
    BY <1>1, <1>3, KeepsOver
  <1> QED BY <1>7, <1>8, KeepsOver

LEMMA ContinuePaneIs ==
  ASSUME PanesTyped, NEW s \in ControlClient, NEW p \in Panes
  PROVE  Keeps(s, ContinuePane(s, p))
  <1>1. CASE s.panes[p] # NoPane /\ s.panes[p].paused
    <2> DEFINE cp == [Restarted(s.panes[p], pane[p]) EXCEPT !.paused = FALSE]
               t == [s EXCEPT !.panes[p] = cp]
    <2>1. Restarted(s.panes[p], pane[p]) \in ControlPane
      BY <1>1, HasPane, PaneIs, OffsetsAre
    <2>2. cp \in ControlPane
      BY <2>1 DEF ControlPane
    <2>3. ContinuePane(s, p) = NotifyWrite(t, "continue")
      BY <1>1 DEF ContinuePane, ControlClient
    <2> HIDE DEF cp
    <2>4. t \in ControlClient /\ Keeps(s, t)
      BY <2>2, Repaned
    <2> HIDE DEF t
    <2> QED BY <2>3, <2>4, NotifyWriteIs, KeepsOver DEF Kinds
  <1>2. CASE ~ (s.panes[p] # NoPane /\ s.panes[p].paused)
    BY <1>2, KeepsSame DEF ContinuePane
  <1> QED BY <1>1, <1>2

LEMMA PausedIs ==
  ASSUME PanesTyped, NEW s \in ControlClient, NEW p \in Panes, s.panes[p] \in ControlPane
  PROVE  Keeps(s, Paused(s, p)) /\ p \notin Owing(Paused(s, p))
  <1> DEFINE cp == [s.panes[p] EXCEPT !.paused = TRUE, !.fresh = TRUE]
             t == [s EXCEPT !.panes[p] = cp]
             d == DiscardPane(t, p)
  <1>1. cp \in ControlPane
    BY DEF ControlPane
  <1>2. [s EXCEPT !.panes[p].paused = TRUE, !.panes[p].fresh = TRUE] = t
    BY ClientIs DEF ControlClient, ControlPane
  <1>3. Paused(s, p) = NotifyWrite(d, "pause")
    BY <1>2 DEF Paused
  <1> HIDE DEF cp
  <1>4. t \in ControlClient /\ Keeps(s, t)
    BY <1>1, Repaned
  <1> HIDE DEF t
  <1>5. d \in ControlClient /\ Keeps(t, d) /\ p \notin Owing(d)
    BY <1>4, DiscardPaneIs DEF Keeps
  <1> HIDE DEF d
  <1>6. Keeps(d, Paused(s, p))
    BY <1>3, <1>5, NotifyWriteIs DEF Kinds
  <1>7. Keeps(s, d)
    BY <1>4, <1>5, KeepsOver
  <1>8. p \notin Owing(Paused(s, p))
    BY <1>5, <1>6 DEF Keeps
  <1> QED BY <1>6, <1>7, <1>8, KeepsOver

LEMMA PausePaneIs ==
  ASSUME PanesTyped, NEW s \in ControlClient, NEW p \in Panes
  PROVE  Keeps(s, PausePane(s, p))
  <1> DEFINE t == AddPane(s, p)
  <1>1. t \in ControlClient /\ Keeps(s, t) /\ t.panes[p] \in ControlPane
    BY AddPaneIs
  <1>2. PausePane(s, p) = IF t.panes[p].paused THEN t ELSE Paused(t, p)
    BY DEF PausePane
  <1> HIDE DEF t
  <1>3. Keeps(t, Paused(t, p))
    BY <1>1, PausedIs
  <1> QED BY <1>1, <1>2, <1>3, KeepsOver

LEMMA ResetPaneIs ==
  ASSUME NEW s \in ControlClient, NEW p \in Panes, NEW wp \in WindowPane
  PROVE  Keeps(s, ResetPane(s, p, wp))
  <1>1. CASE s.panes[p] = NoPane
    BY <1>1, KeepsSame DEF ResetPane
  <1>2. CASE s.panes[p] # NoPane
    <2> DEFINE d == DiscardPane(s, p)
               cp == Restarted(d.panes[p], wp)
    <2>1. d \in ControlClient /\ Keeps(s, d) /\ d.panes[p] \in ControlPane
      BY <1>2, HasPane, DiscardPaneIs DEF Keeps
    <2>2. ResetPane(s, p, wp) = [d EXCEPT !.panes[p] = Restarted(@, wp)]
      BY <1>2 DEF ResetPane
    <2> HIDE DEF d
    <2>3. cp \in ControlPane
      BY <2>1, OffsetsAre
    <2>4. ResetPane(s, p, wp) = [d EXCEPT !.panes[p] = cp]
      BY <2>1, <2>2 DEF ControlClient
    <2> HIDE DEF cp
    <2>5. Keeps(d, ResetPane(s, p, wp))
      BY <2>1, <2>3, <2>4, Repaned
    <2> QED BY <2>1, <2>5, KeepsOver
  <1> QED BY <1>1, <1>2

LEMMA TooOldIs ==
  ASSUME PanesTyped, NEW s \in ControlClient, NEW p \in Panes, s.panes[p] \in ControlPane
  PROVE  Keeps(s, TooOld(s, p)) /\ p \notin Owing(TooOld(s, p))
  <1>1. CASE "pauseafter" \in s.flags
    BY <1>1, PausedIs DEF TooOld
  <1>2. CASE "pauseafter" \notin s.flags
    <2> DEFINE d == Discard(s)
    <2>1. d \in ControlClient /\ Keeps(s, d) /\ Owing(d) = {}
      BY DiscardIs DEF Keeps
    <2>2. TooOld(s, p) = [d EXCEPT !.flags = @ \cup {"exit"}]
      BY <1>2 DEF TooOld
    <2> HIDE DEF d
    <2>3. {"exit"} \in SUBSET Flags
      BY DEF Flags
    <2>4. Keeps(d, TooOld(s, p)) /\ Owing(TooOld(s, p)) = {}
      BY <2>1, <2>2, <2>3, FlagAdded
    <2> QED BY <2>1, <2>4, KeepsOver
  <1> QED BY <1>1, <1>2

-----------------------------------------------------------------------------
(* Output that was read from a pane.                                       *)
LEMMA IgnoreIs ==
  ASSUME NEW s \in ControlClient, NEW p \in Panes, s.panes[p] \in ControlPane,
         NEW wp \in WindowPane
  PROVE  Keeps(s, Ignore(s, p, wp))
  <1> DEFINE old == s.panes[p]
             a == UpdateUsed(wp, old.offset, SizeMax)
             b == UpdateUsed(wp, old.queued, SizeMax)
             cp == [old EXCEPT !.offset = a, !.queued = b, !.fresh = TRUE, !.adrift = FALSE]
  <1>1. old.offset \in Nat /\ old.queued \in Nat
    BY DEF ControlPane
  <1>2. a \in Nat /\ b \in Nat
    BY <1>1, SizesOrdered, UpdateUsedIs
  <1>3. Ignore(s, p, wp) = [s EXCEPT !.panes[p] = cp]
    <2> DEFINE new == [old EXCEPT !.offset = UpdateUsed(wp, @, SizeMax),
                                  !.queued = UpdateUsed(wp, @, SizeMax),
                                  !.fresh = TRUE, !.adrift = FALSE]
    <2>1. new = cp
      BY DEF ControlPane
    <2>2. Ignore(s, p, wp) = [s EXCEPT !.panes[p] = new]
      BY DEF Ignore
    <2> HIDE DEF new, cp
    <2> QED BY <2>1, <2>2
  <1> HIDE DEF a, b
  <1>4. cp \in ControlPane
    BY <1>2 DEF ControlPane
  <1> HIDE DEF cp
  <1> QED BY <1>3, <1>4, Repaned

LEMMA Appended ==
  ASSUME NEW X, NEW seq \in Seq(X), NEW x \in X
  PROVE  LET new == Append(seq, x)
         IN  /\ new \in Seq(X) /\ Range(new) = Range(seq) \cup {x}
             /\ IsInjective(seq) /\ x \notin Range(seq) => IsInjective(new)
  <1> DEFINE l == Len(seq)
             new == Append(seq, x)
  <1>1. /\ new \in Seq(X) /\ l \in Nat
        /\ DOMAIN new = 1 .. l + 1 /\ DOMAIN seq = 1 .. l
        /\ new[l + 1] = x /\ \A k \in 1 .. l : new[k] = seq[k]
    OBVIOUS
  <1>2. 1 .. l + 1 = (1 .. l) \cup {l + 1} /\ l + 1 \notin 1 .. l
    BY <1>1
  <1> HIDE DEF new, l
  <1>3. Range(new) = Range(seq) \cup {x}
    <2>1. Range(new) = {new[k] : k \in 1 .. l} \cup {new[l + 1]}
      BY <1>1, <1>2 DEF Range
    <2>2. {new[k] : k \in 1 .. l} = Range(seq)
      BY <1>1 DEF Range
    <2> QED BY <1>1, <2>1, <2>2
  <1>4. ASSUME IsInjective(seq), x \notin Range(seq) PROVE IsInjective(new)
    <2>1. \A k \in 1 .. l : new[k] # x
      BY <1>1, <1>4 DEF Range
    <2>2. \A j, k \in 1 .. l : new[j] = new[k] => j = k
      BY <1>1, <1>4 DEF IsInjective
    <2>3. \A j, k \in DOMAIN new : new[j] = new[k] => j = k
      BY <1>1, <1>2, <2>1, <2>2
    <2> QED BY <2>3 DEF IsInjective
  <1> QED BY <1>1, <1>3, <1>4 DEF new

LEMMA QueueOutputIs ==
  ASSUME NEW s, Sound(s), NEW p \in Panes, s.panes[p] \in ControlPane,
         NEW wp \in WindowPane
  PROVE  Sound(QueueOutput(s, p, wp))
  <1> DEFINE n == NewData(wp, s.panes[p].queued)
             used == UpdateUsed(wp, s.panes[p].queued, n)
             cp == [s.panes[p] EXCEPT !.queued = used]
             panes == [s.panes EXCEPT ![p] = cp]
             b == [kind |-> "output", pane |-> p, size |-> n]
             q == Append(s.all, b)
             listed == IF \E i \in DOMAIN s.pending : s.pending[i] = p THEN s.pending
                       ELSE Append(s.pending, p)
             t == [s EXCEPT !.panes = panes, !.all = q, !.pending = listed, !.write = TRUE]
  <1>1. s \in ControlClient /\ s.panes[p].queued \in Nat
    BY DEF Sound, ControlPane
  <1>2. n \in Nat /\ used \in Nat
    BY <1>1, NewDataIs, UpdateUsedIs
  <1>3. QueueOutput(s, p, wp) = IF n = 0 THEN s ELSE t
    BY <1>1 DEF QueueOutput, ControlClient, ControlPane
  <1> HIDE DEF n, used
  <1>4. CASE n # 0
    <2>1. cp \in ControlPane
      BY <1>2 DEF ControlPane
    <2>2. /\ panes \in [Panes -> ControlPane \cup {NoPane}] /\ panes[p] = cp
          /\ \A r \in Panes \ {p} : panes[r] = s.panes[r]
      BY <1>1, <2>1, ClientIs
    <2>3. b \in Queued /\ IsOutput(b) /\ b.pane = p
      BY <1>2, <1>4 DEF Block, Queued, IsOutput
    <2>4. s.all \in Seq(Queued) /\ s.pending \in Seq(Panes)
      BY <1>1, ClientIs
    <2> HIDE DEF b, cp, panes
    <2>5. q \in Seq(Queued) /\ Range(q) = Range(s.all) \cup {b}
      BY <2>3, <2>4, Appended
    <2>6. /\ listed \in Seq(Panes) /\ Range(listed) = Range(s.pending) \cup {p}
          /\ IsInjective(s.pending) => IsInjective(listed)
      <3>1. (\E i \in DOMAIN s.pending : s.pending[i] = p) <=> p \in Range(s.pending)
        BY DEF Range
      <3> QED BY <2>4, <3>1, Appended
    <2> HIDE DEF q, listed
    <2>7. /\ t \in ControlClient /\ t.panes = panes /\ t.all = q /\ t.pending = listed
          /\ t.write /\ t.flags = s.flags
      BY <1>1, <2>2, <2>5, <2>6 DEF ControlClient
    <2> HIDE DEF t
    <2>8. Owing(t) = Owing(s) \cup {p}
      BY <2>3, <2>5, <2>7 DEF Owing, OwedBy
    <2>9. Range(s.pending) \subseteq Panes
      BY <2>4 DEF Range
    <2>10. ASSUME Listed(s) PROVE Listed(t)
      <3>1. \A r \in Range(listed) : t.panes[r] \in ControlPane
        BY <2>1, <2>2, <2>6, <2>7, <2>9, <2>10 DEF Listed
      <3> QED BY <2>6, <2>7, <2>8, <2>10, <3>1 DEF Listed
    <2> QED BY <1>3, <1>4, <2>7, <2>10 DEF Sound
  <1> QED BY <1>3, <1>4

LEMMA WriteOutputIs ==
  ASSUME PanesTyped, NEW s, Sound(s), NEW p \in Panes, NEW wp \in WindowPane, NEW old
  PROVE  Sound(WriteOutput(s, p, wp, old))
  <1> DEFINE t == AddPane(s, p)
             w == WriteOutput(s, p, wp, old)
  <1>1. s \in ControlClient
    BY DEF Sound
  <1>2. CASE p \notin s.sees
    BY <1>2 DEF WriteOutput
  <1>3. CASE p \in s.sees /\ s.flags \cap {"nooutput", "exit"} # {}
    <2>1. CASE s.panes[p] = NoPane
      BY <1>3, <2>1 DEF WriteOutput
    <2>2. CASE s.panes[p] # NoPane
      <3>1. w = Ignore(s, p, wp)
        BY <1>3, <2>2 DEF WriteOutput
      <3> QED BY <1>1, <2>2, <3>1, HasPane, IgnoreIs, KeepsSound
    <2> QED BY <2>1, <2>2
  <1>4. CASE p \in s.sees /\ s.flags \cap {"nooutput", "exit"} = {}
    <2>1. t \in ControlClient /\ Keeps(s, t) /\ t.panes[p] \in ControlPane
      BY <1>1, AddPaneIs
    <2>2. w = IF t.panes[p].off \/ t.panes[p].paused THEN Ignore(t, p, wp)
              ELSE IF old /\ BlocksOf(t, p) # <<>> THEN TooOld(t, p)
              ELSE QueueOutput(t, p, wp)
      BY <1>4 DEF WriteOutput
    <2> HIDE DEF t, w
    <2>3. Sound(t)
      BY <2>1, KeepsSound
    <2>4. Sound(Ignore(t, p, wp))
      BY <2>1, <2>3, IgnoreIs, KeepsSound
    <2>5. Sound(TooOld(t, p))
      BY <2>1, <2>3, TooOldIs, KeepsSound
    <2>6. Sound(QueueOutput(t, p, wp))
      BY <2>1, <2>3, QueueOutputIs
    <2> QED BY <2>2, <2>4, <2>5, <2>6 DEF w
  <1> QED BY <1>2, <1>3, <1>4

-----------------------------------------------------------------------------
(* The blocks of a pane that are written: either one is left and there is  *)
(* something in the output buffer, or none is left; or the server ends.    *)
Items == ByteItem \cup LineItem
Moved(s, p) == "fatal" \in s.flags \/ p \notin Owing(s) \/ s.length > 0

Messages(limit) ==
  [s : ControlClient, message : Seq(Items), used : 0 .. limit, turn : Nat]
Told1(m, p) == Moved(m.s, p) \/ m.message # <<>>

LEMMA BytesAre ==
  ASSUME PanesTyped, NEW s \in ControlClient, NEW p \in Panes, s.panes[p] \in ControlPane,
         NEW n \in Nat
  PROVE  BytesAt(s, p, n) \in Seq(Items) /\ Len(BytesAt(s, p, n)) = n
  <1> DEFINE cp == s.panes[p]
             byte(i) == [kind |-> "byte", pane |-> p,
                         at |-> pane[p].before + cp.offset + i - 1,
                         fresh |-> cp.fresh /\ i = 1, adrift |-> cp.adrift]
  <1>1. cp.offset \in Nat /\ cp.fresh \in BOOLEAN /\ cp.adrift \in BOOLEAN
    BY DEF ControlPane
  <1>2. pane[p].before \in Nat
    BY PaneIs DEF WindowPane
  <1> HIDE DEF cp
  <1>3. ASSUME NEW i \in 1 .. n PROVE byte(i) \in Items
    <2>1. pane[p].before + cp.offset + i - 1 \in Int /\ (cp.fresh /\ i = 1) \in BOOLEAN
      BY <1>1, <1>2
    <2> QED BY <1>1, <2>1 DEF Items, ByteItem
  <1>4. BytesAt(s, p, n) = [i \in 1 .. n |-> byte(i)]
    BY DEF BytesAt, cp
  <1> HIDE DEF byte
  <1> QED BY <1>3, <1>4

LEMMA AppendDataIs ==
  ASSUME PanesTyped, NEW s \in ControlClient, NEW p \in Panes, s.panes[p] \in ControlPane,
         NEW n \in Nat
  PROVE  LET t == AppendData(s, p, n)
         IN  t \in ControlClient /\ Keeps(s, t) /\ t.all = s.all /\ t.panes[p] \in ControlPane
  <1> DEFINE old == s.panes[p]
             a == UpdateUsed(pane[p], old.offset, n)
             cp == [old EXCEPT !.offset = a, !.fresh = FALSE]
             new == [old EXCEPT !.offset = UpdateUsed(pane[p], @, n), !.fresh = FALSE]
  <1>1. a \in Nat
    <2>1. old.offset \in Nat
      BY DEF ControlPane
    <2> QED BY <2>1, PaneIs, UpdateUsedIs
  <1>2. new = cp
    BY DEF ControlPane
  <1>3. AppendData(s, p, n) = [s EXCEPT !.panes[p] = new]
    BY DEF AppendData
  <1> HIDE DEF a, new
  <1>4. cp \in ControlPane
    BY <1>1 DEF ControlPane
  <1> HIDE DEF cp
  <1> QED BY <1>2, <1>3, <1>4, Repaned

LEMMA JoinIs ==
  ASSUME NEW X, NEW a \in Seq(X), NEW b \in Seq(X)
  PROVE  /\ a \o b \in Seq(X) /\ Len(a \o b) = Len(a) + Len(b)
         /\ \A i \in 1 .. Len(a) : (a \o b)[i] = a[i]
         /\ \A i \in 1 .. Len(b) : (a \o b)[i + Len(a)] = b[i]
  OBVIOUS

LEMMA Removed ==
  ASSUME NEW X, NEW seq \in Seq(X), NEW at \in 1 .. Len(seq)
  PROVE  LET new == SubSeq(seq, 1, at - 1) \o SubSeq(seq, at + 1, Len(seq))
         IN  new \in Seq(X) /\ Range(new) \subseteq Range(seq)
  <1> DEFINE a == SubSeq(seq, 1, at - 1)
             b == SubSeq(seq, at + 1, Len(seq))
             new == a \o b
  <1>1. /\ a \in Seq(X) /\ Len(a) = at - 1
        /\ \A i \in 1 .. at - 1 : a[i] = seq[i] /\ i \in 1 .. Len(seq)
    OBVIOUS
  <1>2. /\ b \in Seq(X) /\ Len(b) = Len(seq) - at
        /\ \A i \in 1 .. Len(b) : b[i] = seq[i + at] /\ i + at \in 1 .. Len(seq)
    OBVIOUS
  <1>3. at - 1 \in Nat /\ Len(seq) - at \in Nat /\ DOMAIN seq = 1 .. Len(seq)
    OBVIOUS
  <1> HIDE DEF a, b
  <1>4. new \in Seq(X) /\ DOMAIN new = 1 .. Len(a) + Len(b)
    <2>1. new \in Seq(X) /\ Len(new) = Len(a) + Len(b)
      BY <1>1, <1>2, JoinIs
    <2> HIDE DEF new
    <2> QED BY <2>1
  <1>5. ASSUME NEW i \in DOMAIN new PROVE new[i] \in Range(seq)
    <2>1. CASE i <= Len(a)
      <3>1. i \in 1 .. Len(a) /\ i \in 1 .. at - 1
        BY <1>1, <1>3, <1>4, <2>1
      <3>2. new[i] = a[i]
        BY <1>1, <1>2, <3>1, JoinIs
      <3> QED BY <1>1, <1>3, <3>1, <3>2 DEF Range
    <2>2. CASE i > Len(a)
      <3> DEFINE j == i - Len(a)
      <3>1. j \in 1 .. Len(b) /\ i = j + Len(a)
        BY <1>1, <1>2, <1>3, <1>4, <2>2
      <3> HIDE DEF j
      <3>2. new[i] = b[j]
        BY <1>1, <1>2, <3>1, JoinIs
      <3> QED BY <1>2, <1>3, <3>1, <3>2 DEF Range
    <2>3. i \in Int /\ Len(a) \in Int
      BY <1>1, <1>3, <1>4
    <2> QED BY <2>1, <2>2, <2>3
  <1> HIDE DEF new
  <1>6. Range(new) \subseteq Range(seq)
    BY <1>5 DEF Range
  <1> QED BY <1>4, <1>6 DEF new, a, b

LEMMA SmallerIs ==
  ASSUME NEW a \in Nat, NEW b \in Nat
  PROVE  /\ Smaller(a, b) \in Nat /\ (a # 0 /\ b # 0 => Smaller(a, b) # 0)
         /\ Smaller(a, b) <= a /\ Smaller(a, b) <= b
         /\ ~ (Smaller(a, b) < a) => Smaller(a, b) = a
  BY DEF Smaller

(* Blocks that are written: their bytes move from queued to written.       *)
LEMMA FirstBlock ==
  ASSUME NEW s \in ControlClient, NEW p \in Panes, BlocksOf(s, p) # <<>>
  PROVE  LET at == Min({i \in DOMAIN s.all : OfPane(s.all[i], p)})
             cb == s.all[at]
         IN  /\ at \in 1 .. Len(s.all) /\ s.all \in Seq(Queued)
             /\ cb \in Block /\ cb.pane = p /\ cb.size \in Nat \ {0}
  <1> DEFINE I == {i \in DOMAIN s.all : OfPane(s.all[i], p)}
             at == Min(I)
             cb == s.all[at]
  <1>1. s.all \in Seq(Queued) /\ DOMAIN s.all = 1 .. Len(s.all)
    BY ClientIs
  <1>2. p \in Owing(s)
    BY BlocksAre
  <1>3. I # {} /\ I \subseteq Nat
    BY <1>1, <1>2 DEF Owing, OwedBy, OfPane, Range
  <1>4. at \in I
    BY <1>3, MinIs
  <1> HIDE DEF at
  <1>5. at \in 1 .. Len(s.all) /\ cb \in Queued /\ OfPane(cb, p)
    BY <1>1, <1>4
  <1>6. cb \in Block /\ cb.pane = p /\ cb.size \in Nat \ {0}
    BY <1>5, QueuedIs DEF OfPane
  <1> QED BY <1>1, <1>5, <1>6 DEF at

LEMMA NextBlockIs ==
  ASSUME PanesTyped, NEW limit \in Nat, NEW m \in Messages(limit), NEW p \in Panes,
         m.s.panes[p] \in ControlPane, NEW patience,
         Told1(m, p) \/ m.used < limit
  PROVE  LET t == NextBlock(m, p, limit, patience)
         IN  t \in Messages(limit) /\ Keeps(m.s, t.s) /\ Told1(t, p)
  <1> DEFINE at == Min({i \in DOMAIN m.s.all : OfPane(m.s.all[i], p)})
             cb == m.s.all[at]
             n == Smaller(cb.size, limit - m.used)
             bytes == m.message \o BytesAt(m.s, p, n)
             sent == AppendData(m.s, p, n)
             q == SubSeq(sent.all, 1, at - 1) \o SubSeq(sent.all, at + 1, Len(sent.all))
             gone == [sent EXCEPT !.all = q]
             less == [sent EXCEPT !.all[at].size = @ - n]
             put == Put(gone, bytes)
             t == NextBlock(m, p, limit, patience)
  <1>1. /\ m.s \in ControlClient /\ m.message \in Seq(Items) /\ m.used \in 0 .. limit
        /\ m.turn \in Nat
    BY DEF Messages
  <1>2. t = IF m.used = limit \/ BlocksOf(m.s, p) = <<>> THEN m
            ELSE IF NewData(pane[p], m.s.panes[p].offset) < n
            THEN [m EXCEPT !.s.flags = @ \cup {"fatal"}, !.used = limit]
            ELSE IF m.turn = patience
            THEN [m EXCEPT !.s = TooOld(m.s, p), !.message = <<>>, !.used = limit]
            ELSE IF n < cb.size
            THEN [m EXCEPT !.s = less, !.message = bytes, !.used = limit]
            ELSE IF HasLines(gone)
            THEN [m EXCEPT !.s = FlushAllBlocks(put), !.message = <<>>,
                           !.used = @ + n, !.turn = @ + 1]
            ELSE [m EXCEPT !.s = gone, !.message = bytes, !.used = @ + n, !.turn = @ + 1]
    BY DEF NextBlock
  <1> HIDE DEF t
  <1>3. CASE m.used = limit \/ BlocksOf(m.s, p) = <<>>
    <2>1. t = m
      BY <1>2, <1>3
    <2>2. Told1(m, p)
      BY <1>1, <1>3, BlocksAre DEF Told1, Moved
    <2> QED BY <1>1, <2>1, <2>2, KeepsSame DEF t
  <1>4. CASE m.used # limit /\ BlocksOf(m.s, p) # <<>>
    <2>1. /\ at \in 1 .. Len(m.s.all) /\ m.s.all \in Seq(Queued) /\ cb \in Block
          /\ cb.pane = p /\ cb.size \in Nat \ {0}
      <3> DEFINE v == m.s
                 i == Min({j \in DOMAIN v.all : OfPane(v.all[j], p)})
      <3>1. v \in ControlClient /\ BlocksOf(v, p) # <<>>
        BY <1>1, <1>4
      <3> HIDE DEF v
      <3>2. /\ i \in 1 .. Len(v.all) /\ v.all \in Seq(Queued) /\ v.all[i] \in Block
            /\ v.all[i].pane = p /\ v.all[i].size \in Nat \ {0}
        BY <3>1, FirstBlock
      <3> QED BY <3>2 DEF v
    <2> USE <1>1, <1>4
    <2> HIDE DEF at, cb
    <2>2. n \in 1 .. limit - m.used /\ n \in Nat /\ n <= cb.size
      <3>1. cb.size \in Nat \ {0} /\ limit - m.used \in Nat \ {0}
        BY <2>1
      <3> HIDE <1>1, <1>4
      <3>2. n \in Nat \ {0} /\ n <= cb.size /\ n <= limit - m.used
        BY <3>1, SmallerIs
      <3> QED BY <3>1, <3>2
    <2> HIDE DEF n
    <2>3. bytes \in Seq(Items) /\ Len(bytes) >= 1 /\ bytes # <<>>
      <3> DEFINE new == BytesAt(m.s, p, n)
      <3>1. new \in Seq(Items) /\ Len(new) = n
        BY <2>2, BytesAre
      <3> HIDE DEF new
      <3>2. m.message \o new \in Seq(Items) /\ Len(m.message \o new) = Len(m.message) + n
        BY <1>1, <3>1, JoinIs
      <3>3. Len(m.message) \in Nat
        OBVIOUS
      <3>4. Len(m.message) + n >= 1
        BY <2>2, <3>3
      <3>5. bytes = m.message \o new
        BY DEF new
      <3>6. \A z \in Seq(Items) : Len(z) >= 1 => z # <<>>
        OBVIOUS
      <3> HIDE DEF bytes
      <3> QED BY <3>2, <3>4, <3>5, <3>6
    <2> HIDE DEF bytes
    <2>4. sent \in ControlClient /\ Keeps(m.s, sent) /\ sent.all = m.s.all
      BY <2>2, AppendDataIs
    <2> HIDE DEF sent
    <2>5. gone \in ControlClient /\ Keeps(m.s, gone)
      <3>1. q \in Seq(Queued) /\ Range(q) \subseteq Range(sent.all)
        BY <2>1, <2>4, Removed
      <3> HIDE DEF q
      <3>2. OwedBy(q) \subseteq Owing(sent)
        BY <3>1 DEF OwedBy, Owing
      <3>3. gone \in ControlClient /\ Keeps(sent, gone)
        BY <2>4, <3>1, <3>2, Requeued DEF Keeps
      <3> QED BY <2>4, <3>3, KeepsOver
    <2> HIDE DEF gone
    <2> limit \in 0 .. limit
      OBVIOUS
    <2>6. CASE NewData(pane[p], m.s.panes[p].offset) < n
      <3> DEFINE u == [m.s EXCEPT !.flags = @ \cup {"fatal"}]
      <3>1. t = [m EXCEPT !.s = u, !.used = limit]
        BY <1>2, <2>6 DEF Messages
      <3>2. {"fatal"} \in SUBSET Flags
        BY DEF Flags
      <3>3. u \in ControlClient /\ Keeps(m.s, u) /\ "fatal" \in u.flags
        BY <3>2, FlagAdded DEF Keeps, ControlClient
      <3> HIDE DEF u
      <3>4. t \in Messages(limit) /\ t.s = u
        BY <3>1, <3>3 DEF Messages
      <3> QED BY <3>3, <3>4 DEF Told1, Moved, t
    <2>7. CASE ~ (NewData(pane[p], m.s.panes[p].offset) < n) /\ m.turn = patience
      <3> DEFINE u == TooOld(m.s, p)
      <3>1. t = [m EXCEPT !.s = u, !.message = <<>>, !.used = limit]
        BY <1>2, <2>7
      <3>2. u \in ControlClient /\ Keeps(m.s, u) /\ p \notin Owing(u)
        BY TooOldIs DEF Keeps
      <3> HIDE DEF u
      <3>3. <<>> \in Seq(Items)
        OBVIOUS
      <3>4. t \in Messages(limit) /\ t.s = u
        BY <3>1, <3>2, <3>3 DEF Messages
      <3> QED BY <3>2, <3>4 DEF Told1, Moved, t
    <2>8. CASE /\ ~ (NewData(pane[p], m.s.panes[p].offset) < n) /\ m.turn # patience
               /\ n < cb.size
      <3> DEFINE b == [cb EXCEPT !.size = cb.size - n]
                 r == [sent.all EXCEPT ![at] = b]
      <3>1. b \in Block /\ b.pane = p /\ IsOutput(b)
        <4>1. cb.size - n \in Nat \ {0}
          BY <2>1, <2>2, <2>8
        <4> QED BY <2>1, <4>1 DEF Block, IsOutput
      <3>2. r = [sent.all EXCEPT ![at].size = @ - n]
        BY <2>1, <2>4 DEF cb
      <3> HIDE DEF b
      <3>3. r \in Seq(Queued) /\ \A x \in Range(r) : x \in Range(sent.all) \/ x = b
        BY <2>1, <2>4, <3>1 DEF Queued, Range
      <3>4. less = [sent EXCEPT !.all = r]
        BY <2>4, <3>2 DEF ControlClient
      <3> HIDE DEF r
      <3>5. p \in Owing(sent)
        BY <2>1, <2>4, QueuedIs DEF Owing, OwedBy, Range, cb, Queued
      <3>6. OwedBy(r) \subseteq Owing(sent)
        BY <3>1, <3>3, <3>5 DEF OwedBy, Owing
      <3>7. less \in ControlClient /\ Keeps(sent, less)
        <4>1. Keeps(sent, [sent EXCEPT !.all = r])
          BY <2>4, <3>3, <3>6, Requeued
        <4> HIDE DEF less
        <4>2. Keeps(sent, less)
          BY <3>4, <4>1
        <4> QED BY <4>2 DEF Keeps
      <3>8. t = [m EXCEPT !.s = less, !.message = bytes, !.used = limit]
        BY <1>2, <2>8
      <3> HIDE DEF less
      <3>9. t \in Messages(limit) /\ t.s = less /\ t.message # <<>>
        BY <2>3, <3>7, <3>8 DEF Messages
      <3> QED BY <2>4, <3>7, <3>9, KeepsOver DEF Told1, t
    <2>9. CASE /\ ~ (NewData(pane[p], m.s.panes[p].offset) < n) /\ m.turn # patience
               /\ ~ (n < cb.size)
      <3>1. m.used + n \in 0 .. limit /\ m.turn + 1 \in Nat
        BY <2>2
      <3>2. CASE HasLines(gone)
        <4> DEFINE u == FlushAllBlocks(put)
        <4>1. put \in ControlClient /\ Keeps(gone, put) /\ put.length = gone.length + Len(bytes)
          BY <2>3, <2>5, PutIs DEF Items
        <4> HIDE DEF put
        <4>2. u \in ControlClient /\ Keeps(put, u)
          BY <4>1, FlushAllBlocksIs DEF Keeps
        <4> HIDE DEF u
        <4>3. Keeps(m.s, u)
          BY <2>5, <4>1, <4>2, KeepsOver
        <4>4. u.length > 0
          <5>1. gone.length \in Nat /\ u.length \in Nat /\ put.length \in Nat
            BY <2>5, <4>1, <4>2, ClientIs
          <5>2. put.length <= u.length
            BY <4>2 DEF Keeps
          <5>3. Len(bytes) \in Nat
            BY <2>3
          <5> QED BY <2>3, <4>1, <5>1, <5>2, <5>3
        <4>5. t = [m EXCEPT !.s = u, !.message = <<>>, !.used = m.used + n, !.turn = m.turn + 1]
          BY <1>2, <2>9, <3>2 DEF Messages, u
        <4>6. <<>> \in Seq(Items)
          OBVIOUS
        <4>7. t \in Messages(limit) /\ t.s = u
          BY <3>1, <4>2, <4>5, <4>6 DEF Messages
        <4> QED BY <4>3, <4>4, <4>7 DEF Told1, Moved, t
      <3>3. CASE ~HasLines(gone)
        <4>1. t = [m EXCEPT !.s = gone, !.message = bytes, !.used = m.used + n,
                            !.turn = m.turn + 1]
          BY <1>2, <2>9, <3>3 DEF Messages
        <4>2. t \in Messages(limit) /\ t.s = gone /\ t.message # <<>>
          BY <2>3, <2>5, <3>1, <4>1 DEF Messages
        <4> QED BY <2>5, <4>2 DEF Told1, t
      <3> QED BY <3>2, <3>3
    <2> QED BY <2>6, <2>7, <2>8, <2>9
  <1> QED BY <1>3, <1>4

LEMMA DropBlocksIs ==
  ASSUME NEW s \in ControlClient, NEW p \in Panes, s.panes[p] \in ControlPane
  PROVE  Keeps(s, DropBlocks(s, p)) /\ p \notin Owing(DropBlocks(s, p))
  <1> DEFINE d == DiscardPane(s, p)
             cp == [d.panes[p] EXCEPT !.adrift = d.panes[p].adrift \/ BlocksOf(s, p) # <<>>]
             t == [d EXCEPT !.panes[p] = cp]
  <1>1. d \in ControlClient /\ Keeps(s, d) /\ p \notin Owing(d) /\ d.panes[p] \in ControlPane
    BY DiscardPaneIs DEF Keeps
  <1>2. DropBlocks(s, p) =
          FlushAllBlocks([d EXCEPT !.panes[p].adrift = @ \/ BlocksOf(s, p) # <<>>])
    BY DEF DropBlocks
  <1> HIDE DEF d
  <1>3. [d EXCEPT !.panes[p].adrift = @ \/ BlocksOf(s, p) # <<>>] = t
    BY <1>1, ClientIs DEF ControlClient, ControlPane
  <1>4. cp \in ControlPane
    <2>1. (d.panes[p].adrift \/ BlocksOf(s, p) # <<>>) \in BOOLEAN
      OBVIOUS
    <2> QED BY <1>1, <2>1 DEF ControlPane
  <1> HIDE DEF cp
  <1>5. t \in ControlClient /\ Keeps(d, t) /\ Owing(t) = Owing(d)
    BY <1>1, <1>4, Repaned
  <1> HIDE DEF t
  <1>6. Keeps(t, DropBlocks(s, p))
    BY <1>2, <1>3, <1>5, FlushAllBlocksIs
  <1>7. Keeps(s, t)
    BY <1>1, <1>5, KeepsOver
  <1>8. p \notin Owing(DropBlocks(s, p))
    BY <1>1, <1>5, <1>6 DEF Keeps
  <1> QED BY <1>6, <1>7, <1>8, KeepsOver

(* The loop of control_write_pending keeps what its turns keep.            *)
LEMMA WritePendingBy ==
  ASSUME NEW s, NEW p, p \in s.sees, pane[p].fd, NEW limit \in Nat, NEW patience,
         NEW S, [s |-> s, message |-> <<>>, used |-> 0, turn |-> 0] \in S,
         \A x \in S : NextBlock(x, p, limit, patience) \in S
  PROVE  \E x \in S : LET m == NextBlock(x, p, limit, patience)
                       IN  WritePending(s, p, limit, patience) = Put(m.s, m.message)
  <1> DEFINE N == limit + 1
             a == [s |-> s, message |-> <<>>, used |-> 0, turn |-> 0]
             F == [z \in S \X (1 .. N) |-> NextBlock(z[1], p, limit, patience)]
             turn[n \in 0 .. limit + 1] ==
               IF n = 0 THEN a ELSE NextBlock(turn[n - 1], p, limit, patience)
             m == turn[limit + 1]
  <1>1. WritePending(s, p, limit, patience) = Put(m.s, m.message)
    BY DEF WritePending
  <1>2. a \in S
    OBVIOUS
  <1> HIDE DEF a, turn
  <1>3. \A n \in 1 .. N : \A x \in S : F[<<x, n>>] = NextBlock(x, p, limit, patience)
    OBVIOUS
  <1>4. N \in Nat
    OBVIOUS
  <1> HIDE DEF F
  <1>5. Stays(N, F, S)
    <2>1. \A x \in S : NextBlock(x, p, limit, patience) \in S
      OBVIOUS
    <2> HIDE DEF N
    <2>2. \A n \in 1 .. N : \A x \in S : F[<<x, n>>] \in S
      BY <1>3, <2>1, Zenon
    <2> QED BY <2>2 DEF Stays
  <1>6. PICK f : Turns(f, N, F, a) /\ \A n \in 0 .. N : f[n] \in S
    BY <1>2, <1>4, <1>5, LoopExists
  <1>7. /\ N \in 0 .. N /\ 0 \in 0 .. N /\ N \in 1 .. N /\ N - 1 \in 0 .. N
        /\ \A n \in 1 .. N : n \in 0 .. N /\ n # 0 /\ n - 1 \in 0 .. N
        /\ \A n \in 0 .. N : n # 0 => n \in 1 .. N
    OBVIOUS
  <1>8. N = limit + 1
    OBVIOUS
  <1> HIDE DEF N
  <1>9. f = [n \in 0 .. N |-> IF n = 0 THEN a ELSE NextBlock(f[n - 1], p, limit, patience)]
    <2>1. f = [n \in 0 .. N |-> f[n]] /\ f[0] = a
      BY <1>6 DEF Turns
    <2>2. \A n \in 1 .. N : f[n] = NextBlock(f[n - 1], p, limit, patience)
      BY <1>3, <1>6, <1>7 DEF Turns
    <2>3. \A n \in 0 .. N : f[n] = IF n = 0 THEN a ELSE NextBlock(f[n - 1], p, limit, patience)
      BY <1>7, <2>1, <2>2
    <2> QED BY <2>1, <2>3
  <1>10. turn = [n \in 0 .. N |-> IF n = 0 THEN a ELSE NextBlock(turn[n - 1], p, limit, patience)]
    BY <1>8, <1>9 DEF turn
  <1>11. turn[0] = a /\ \A n \in 1 .. N : turn[n] = NextBlock(turn[n - 1], p, limit, patience)
    BY <1>7, <1>10
  <1>12. TurnsIn(turn, N, F, a, S)
    BY <1>3, <1>11 DEF TurnsIn
  <1>13. turn[N - 1] \in S
    BY <1>2, <1>4, <1>5, <1>7, <1>12, LoopKeeps
  <1>14. turn[N] = NextBlock(turn[N - 1], p, limit, patience)
    BY <1>7, <1>11
  <1> QED BY <1>1, <1>8, <1>13, <1>14

LEMMA WritePendingIs ==
  ASSUME PanesTyped, NEW s \in ControlClient, NEW p \in Panes, s.panes[p] \in ControlPane,
         NEW limit \in Nat \ {0}, NEW patience
  PROVE  LET t == WritePending(s, p, limit, patience)
         IN  t \in ControlClient /\ Keeps(s, t) /\ Moved(t, p)
  <1>1. CASE p \notin s.sees \/ ~pane[p].fd
    BY <1>1, DropBlocksIs DEF WritePending, Keeps, Moved
  <1>2. CASE p \in s.sees /\ pane[p].fd
    <2> DEFINE a == [s |-> s, message |-> <<>>, used |-> 0, turn |-> 0]
               S == {m \in Messages(limit) :
                       Keeps(s, m.s) /\ (Told1(m, p) \/ m.used < limit)}
    <2>1. a \in S
      <3>1. <<>> \in Seq(Items) /\ 0 \in 0 .. limit /\ 0 < limit
        OBVIOUS
      <3>2. a \in Messages(limit)
        BY <3>1 DEF Messages
      <3> QED BY <3>1, <3>2, KeepsSame
    <2> HIDE DEF a
    <2>2. ASSUME NEW x \in S
          PROVE  NextBlock(x, p, limit, patience) \in S /\ Told1(NextBlock(x, p, limit, patience), p)
      <3> DEFINE t == NextBlock(x, p, limit, patience)
      <3>1. x \in Messages(limit) /\ Keeps(s, x.s) /\ (Told1(x, p) \/ x.used < limit)
        BY <2>2
      <3>2. x.s.panes[p] \in ControlPane
        BY <3>1 DEF Keeps
      <3>3. t \in Messages(limit) /\ Keeps(x.s, t.s) /\ Told1(t, p)
        BY <3>1, <3>2, NextBlockIs
      <3> HIDE DEF t
      <3>4. Keeps(s, t.s)
        BY <3>1, <3>3, KeepsOver
      <3>5. t \in S /\ Told1(t, p)
        BY <3>3, <3>4
      <3> QED BY <3>5 DEF t
    <2>3. limit \in Nat
      OBVIOUS
    <2> HIDE DEF S
    <2>4. PICK x \in S : LET y == NextBlock(x, p, limit, patience)
                         IN  WritePending(s, p, limit, patience) = Put(y.s, y.message)
      BY <1>2, <2>1, <2>2, <2>3, WritePendingBy DEF a
    <2> DEFINE m == NextBlock(x, p, limit, patience)
    <2>5. m \in Messages(limit) /\ Keeps(s, m.s) /\ Told1(m, p)
      BY <2>2 DEF S
    <2>6. WritePending(s, p, limit, patience) = Put(m.s, m.message)
      BY <2>4
    <2> HIDE DEF m
    <2>7. m.s \in ControlClient /\ m.message \in Seq(ByteItem \cup LineItem)
      BY <2>5 DEF Messages, Items
    <2> DEFINE t == Put(m.s, m.message)
    <2>8. /\ t \in ControlClient /\ Keeps(m.s, t) /\ t.length = m.s.length + Len(m.message)
          /\ Owing(t) = Owing(m.s) /\ t.flags = m.s.flags
      BY <2>7, PutIs
    <2> HIDE DEF t
    <2>9. Keeps(s, t)
      BY <2>5, <2>8, KeepsOver
    <2>10. Moved(t, p)
      <3>1. CASE Moved(m.s, p)
        <4>1. m.s.length \in Nat /\ Len(m.message) \in Nat
          BY <2>7, ClientIs
        <4> QED BY <2>8, <3>1, <4>1 DEF Moved
      <3>2. CASE m.message # <<>>
        <4>1. m.s.length \in Nat /\ Len(m.message) \in Nat /\ Len(m.message) # 0
          BY <2>7, <3>2, ClientIs
        <4> QED BY <2>8, <4>1 DEF Moved
      <3> QED BY <2>5, <3>1, <3>2 DEF Told1
    <2> QED BY <2>6, <2>8, <2>9, <2>10 DEF t
  <1> QED BY <1>1, <1>2

-----------------------------------------------------------------------------
(* control_write_callback: it may take panes from the pending list.        *)
Walks(s, t) ==
  /\ t \in ControlClient /\ Listed(t)
  /\ Range(t.pending) \subseteq Range(s.pending)
  /\ \A p \in Panes : s.panes[p] \in ControlPane => t.panes[p] \in ControlPane
  /\ s.length <= t.length
  /\ "fatal" \in s.flags => "fatal" \in t.flags

LEMMA KeepsWalks ==
  ASSUME NEW s \in ControlClient, Listed(s), NEW t, Keeps(s, t)
  PROVE  Walks(s, t)
  <1>1. Range(s.pending) \subseteq Panes
    BY ClientIs DEF Range
  <1>2. Listed(t)
    BY <1>1 DEF Listed, Keeps
  <1> QED BY <1>2 DEF Walks, Keeps

LEMMA WalksOver ==
  ASSUME NEW s \in ControlClient, NEW t, Walks(s, t), NEW u, Walks(t, u)
  PROVE  Walks(s, u)
  <1>1. s.length \in Nat /\ t.length \in Nat /\ u.length \in Nat
    BY ClientIs DEF Walks
  <1>2. s.length <= u.length
    BY <1>1 DEF Walks
  <1> QED BY <1>2 DEF Walks

LEMMA Unlisted ==
  ASSUME NEW s \in ControlClient, Listed(s), NEW p \in Panes, p \notin Owing(s)
  PROVE  LET t == [s EXCEPT !.pending = Kept(@, Panes \ {p})]
         IN  Walks(s, t) /\ p \notin Range(t.pending)
  <1> DEFINE q == Kept(s.pending, Panes \ {p})
             t == [s EXCEPT !.pending = Kept(@, Panes \ {p})]
  <1>1. s.pending \in Seq(Panes) /\ s.length \in Nat
    BY ClientIs
  <1>2. /\ q \in Seq(Panes) /\ Range(q) = Range(s.pending) \cap (Panes \ {p})
        /\ IsInjective(s.pending) => IsInjective(q)
    BY <1>1, KeptIs
  <1>3. Range(s.pending) \subseteq Panes
    BY <1>1 DEF Range
  <1>4. t = [s EXCEPT !.pending = q]
    BY DEF ControlClient
  <1> HIDE DEF q
  <1>5. /\ t \in ControlClient /\ t.pending = q /\ t.all = s.all /\ t.write = s.write
        /\ t.panes = s.panes /\ t.length = s.length /\ t.flags = s.flags
    BY <1>2, <1>4 DEF ControlClient
  <1> HIDE DEF t
  <1>6. Owing(t) = Owing(s)
    BY <1>5 DEF Owing
  <1>7. Listed(t)
    BY <1>2, <1>3, <1>5, <1>6, BlocksAre DEF Listed
  <1>8. Walks(s, t)
    BY <1>1, <1>2, <1>5, <1>7 DEF Walks
  <1> QED BY <1>2, <1>5, <1>8 DEF t

(* One step of the walk.                                                   *)
Step(t, p, limit, patience) ==
  LET u == WritePending(t, p, limit, patience)
  IN  IF t.length >= High THEN t
      ELSE IF BlocksOf(u, p) # <<>> THEN u
      ELSE [u EXCEPT !.pending = Kept(@, Panes \ {p})]
Served1(t, p) == "fatal" \in t.flags \/ p \notin Range(t.pending) \/ t.length > 0

LEMMA StepIs ==
  ASSUME PanesTyped, NEW t \in ControlClient, Listed(t), NEW p \in Panes,
         t.panes[p] \in ControlPane, NEW limit \in Nat \ {0}, NEW patience
  PROVE  LET v == Step(t, p, limit, patience) IN Walks(t, v) /\ Served1(v, p)
  <1> DEFINE u == WritePending(t, p, limit, patience)
             w == [u EXCEPT !.pending = Kept(@, Panes \ {p})]
             v == Step(t, p, limit, patience)
  <1>1. u \in ControlClient /\ Keeps(t, u) /\ Moved(u, p)
    BY WritePendingIs
  <1>2. v = IF t.length >= High THEN t ELSE IF BlocksOf(u, p) # <<>> THEN u ELSE w
    BY DEF Step
  <1> HIDE DEF u
  <1>3. Walks(t, u)
    BY <1>1, KeepsWalks
  <1>4. CASE t.length >= High
    <2>1. t.length \in Nat
      BY ClientIs
    <2>2. v = t /\ t.length > 0
      BY <1>2, <1>4, <2>1, SizesOrdered
    <2> HIDE DEF v
    <2>3. Walks(t, t)
      BY KeepsSame, KeepsWalks
    <2> QED BY <2>2, <2>3 DEF Served1, v
  <1>5. CASE ~ (t.length >= High) /\ BlocksOf(u, p) # <<>>
    <2>1. v = u
      BY <1>2, <1>5
    <2> HIDE DEF v
    <2>2. p \in Owing(u)
      BY <1>1, <1>5, BlocksAre
    <2>3. Served1(v, p)
      BY <1>1, <2>1, <2>2 DEF Moved, Served1
    <2> QED BY <1>3, <2>1, <2>3 DEF v
  <1>6. CASE ~ (t.length >= High) /\ ~ (BlocksOf(u, p) # <<>>)
    <2>1. v = w
      BY <1>2, <1>6
    <2>2. p \notin Owing(u) /\ Listed(u)
      BY <1>1, <1>3, <1>6, BlocksAre DEF Walks
    <2>3. Walks(u, w) /\ p \notin Range(w.pending)
      BY <1>1, <2>2, Unlisted
    <2> HIDE DEF v, w
    <2>4. Walks(t, w)
      BY <1>3, <2>3, WalksOver
    <2> QED BY <2>1, <2>3, <2>4 DEF Served1, v
  <1> QED BY <1>4, <1>5, <1>6

LEMMA ServedStays ==
  ASSUME NEW t \in ControlClient, NEW u, Walks(t, u), NEW p, Served1(t, p)
  PROVE  Served1(u, p)
  <1>1. t.length \in Nat /\ u.length \in Nat
    BY ClientIs DEF Walks
  <1>2. t.length > 0 => u.length > 0
    BY <1>1 DEF Walks
  <1> QED BY <1>2 DEF Served1, Walks

LEMMA LimitIs ==
  ASSUME NEW s \in ControlClient, s.pending # <<>>
  PROVE  Max({WriteMinimum, ((High - s.length) \div Len(s.pending)) \div Expand}) \in Nat \ {0}
  <1> DEFINE l == Len(s.pending)
             a == (High - s.length) \div l
             b == a \div Expand
  <1>1. l \in Nat \ {0} /\ s.length \in Nat
    BY ClientIs
  <1>2. High - s.length \in Int
    BY <1>1, SizesOrdered
  <1> HIDE DEF l
  <1>3. a \in Int
    BY <1>1, <1>2
  <1> HIDE DEF a
  <1>4. b \in Int /\ WriteMinimum \in Int /\ WriteMinimum >= 1
    BY <1>3, SizesOrdered
  <1> HIDE DEF b
  <1>5. Max({WriteMinimum, b}) \in Int /\ Max({WriteMinimum, b}) >= WriteMinimum
    BY <1>4, MaxIs
  <1>6. Max({WriteMinimum, b}) \in Nat \ {0}
    BY <1>4, <1>5
  <1> QED BY <1>6 DEF b, a, l

LEMMA WalkIs ==
  ASSUME PanesTyped, NEW s \in ControlClient, Listed(s), s.pending # <<>>, NEW patience
  PROVE  LET t == Walk(s, patience)
         IN  /\ Walks(s, t)
             /\ "fatal" \in t.flags \/ t.pending = <<>> \/ t.length > 0
  <1> DEFINE limit == Max({WriteMinimum, ((High - s.length) \div Len(s.pending)) \div Expand})
             N == Len(s.pending)
             S == {x \in ControlClient : Walks(s, x)}
             Next1(x, n) == Step(x, s.pending[n], limit, patience[s.pending[n]])
             F == [z \in S \X (1 .. N) |-> Next1(z[1], z[2])]
             walk[n \in 0 .. N] ==
               IF n = 0 THEN s
               ELSE LET t == walk[n - 1]
                        p == s.pending[n]
                        u == WritePending(t, p, limit, patience[p])
                    IN  IF t.length >= High THEN t
                        ELSE IF BlocksOf(u, p) # <<>> THEN u
                        ELSE [u EXCEPT !.pending = Kept(@, Panes \ {p})]
  <1>1. limit \in Nat \ {0} /\ N \in Nat /\ \A n \in 1 .. N : s.pending[n] \in Panes
    BY LimitIs, ClientIs
  <1>2. Walk(s, patience) = walk[N]
    BY DEF Walk
  <1> HIDE DEF limit, walk
  <1>3. s \in S
    BY KeepsSame, KeepsWalks
  <1>4. ASSUME NEW n \in 1 .. N, NEW x \in S
        PROVE  Next1(x, n) \in S /\ Walks(x, Next1(x, n)) /\ Served1(Next1(x, n), s.pending[n])
    <2> DEFINE p == s.pending[n]
               y == Next1(x, n)
    <2>1. p \in Panes /\ p \in Range(s.pending)
      BY <1>1, ClientIs DEF Range
    <2>2. x \in ControlClient /\ Walks(s, x) /\ Listed(x) /\ x.panes[p] \in ControlPane
      BY <2>1 DEF Walks, Listed
    <2>3. Walks(x, y) /\ Served1(y, p)
      BY <1>1, <2>1, <2>2, StepIs
    <2> HIDE DEF y
    <2>4. Walks(s, y) /\ y \in ControlClient
      BY <2>2, <2>3, WalksOver DEF Walks
    <2>5. y \in S /\ Walks(x, y) /\ Served1(y, p)
      BY <2>3, <2>4
    <2> QED BY <2>5 DEF y
  <1> HIDE DEF S
  <1>5. \A n \in 1 .. N : \A x \in S : F[<<x, n>>] = Next1(x, n)
    OBVIOUS
  <1> HIDE DEF F
  <1>6. Stays(N, F, S)
    BY <1>4, <1>5 DEF Stays
  <1>7. PICK f : Turns(f, N, F, s) /\ \A n \in 0 .. N : f[n] \in S
    BY <1>1, <1>3, <1>6, LoopExists
  <1>8. /\ N \in 0 .. N /\ 0 \in 0 .. N
        /\ \A n \in 1 .. N : n \in 0 .. N /\ n # 0 /\ n - 1 \in 0 .. N
        /\ \A n \in 0 .. N : n # 0 => n \in 1 .. N
    BY <1>1
  <1>9. f = [n \in 0 .. N |-> IF n = 0 THEN s ELSE Next1(f[n - 1], n)]
    <2> HIDE DEF Next1, N
    <2> QED BY <1>5, <1>7, <1>8 DEF Turns
  <1>10. walk = [n \in 0 .. N |-> IF n = 0 THEN s ELSE Next1(walk[n - 1], n)]
    BY <1>9 DEF walk, Step
  <1> HIDE DEF N, Next1
  <1>11. walk[0] = s /\ \A n \in 1 .. N : walk[n] = Next1(walk[n - 1], n)
    BY <1>8, <1>10
  <1>12. TurnsIn(walk, N, F, s, S)
    BY <1>5, <1>11 DEF TurnsIn
  <1>13. \A n \in 0 .. N : walk[n] \in S
    BY <1>1, <1>3, <1>6, <1>12, LoopKeeps
  <1> DEFINE T == {n \in 0 .. N : \A i \in 1 .. n : Served1(walk[n], s.pending[i])}
  <1>14. 0 \in T
    BY <1>8
  <1>15. ASSUME NEW n \in 1 .. N, n - 1 \in T PROVE n \in T
    <2>1. walk[n - 1] \in S /\ walk[n - 1] \in ControlClient
      BY <1>8, <1>13 DEF S
    <2>2. /\ walk[n] = Next1(walk[n - 1], n)
          /\ Walks(walk[n - 1], walk[n]) /\ Served1(walk[n], s.pending[n])
      BY <1>4, <1>11, <2>1
    <2>3. \A i \in 1 .. n - 1 : Served1(walk[n - 1], s.pending[i])
      BY <1>15
    <2>4. \A i \in 1 .. n - 1 : Served1(walk[n], s.pending[i])
      BY <2>1, <2>2, <2>3, ServedStays
    <2>5. \A i \in 1 .. n : i = n \/ i \in 1 .. n - 1
      BY <1>1
    <2> QED BY <1>8, <2>2, <2>4, <2>5
  <1>16. N \in T
    <2> HIDE DEF T
    <2> QED BY <1>1, <1>8, <1>14, <1>15, Induction
  <1> DEFINE t == walk[N]
  <1>17. t \in ControlClient /\ Walks(s, t) /\ \A i \in 1 .. N : Served1(t, s.pending[i])
    BY <1>8, <1>13, <1>16 DEF S
  <1> HIDE DEF t
  <1>18. ASSUME "fatal" \notin t.flags, ~ (t.length > 0) PROVE t.pending = <<>>
    <2>1. DOMAIN s.pending = 1 .. N
      BY ClientIs DEF N
    <2>2. \A p \in Range(s.pending) : p \notin Range(t.pending)
      BY <1>17, <1>18, <2>1 DEF Served1, Range
    <2>3. Range(t.pending) = {} /\ t.pending \in Seq(Panes)
      BY <1>17, <2>2, ClientIs DEF Walks
    <2> QED BY <2>3, EmptyRange
  <1> QED BY <1>2, <1>17, <1>18 DEF t

LEMMA Unowed ==
  ASSUME NEW s \in ControlClient, Listed(s), NEW w \in BOOLEAN, Owing(s) = {}
  PROVE  LET t == [s EXCEPT !.write = w]
         IN  t \in ControlClient /\ Listed(t) /\ t.flags = s.flags
  <1> DEFINE t == [s EXCEPT !.write = w]
  <1>1. /\ t \in ControlClient /\ t.pending = s.pending /\ t.all = s.all
        /\ t.panes = s.panes /\ t.flags = s.flags
    BY DEF ControlClient
  <1> HIDE DEF t
  <1>2. Owing(t) = {}
    BY <1>1 DEF Owing
  <1>3. Listed(t)
    BY <1>1, <1>2 DEF Listed
  <1> QED BY <1>1, <1>3 DEF t

LEMMA TurnsAre ==
  /\ (MaxBytes + 1) * Cardinality(Panes) \in Nat
  /\ Panes # {} => (MaxBytes + 1) * Cardinality(Panes) # 0
  <1> DEFINE k == Cardinality(Panes)
  <1>1. k \in Nat /\ (Panes # {} => k # 0)
    BY PanesAssumption, FS_CardinalityType, FS_EmptySet
  <1>2. MaxBytes + 1 \in Nat /\ MaxBytes + 1 # 0
    BY SizesOrdered
  <1> HIDE DEF k
  <1>3. \A i, j \in Nat : i * j \in Nat /\ (i # 0 /\ j # 0 => i * j # 0)
    OBVIOUS
  <1>4. (MaxBytes + 1) * k \in Nat /\ (Panes # {} => (MaxBytes + 1) * k # 0)
    BY <1>1, <1>2, <1>3
  <1> QED BY <1>4 DEF k

LEMMA WrittenIs ==
  ASSUME PanesTyped, NEW s \in ControlClient, Listed(s), NEW patience
  PROVE  Sound(Written(s, patience))
  <1> DEFINE a == FlushAllBlocks(s)
             N == (MaxBytes + 1) * Cardinality(Panes)
             S == {x \in ControlClient : Walks(a, x)}
             One(x) == IF x.length < High /\ x.pending # <<>> THEN Walk(x, patience) ELSE x
             F == [z \in S \X (1 .. N) |-> One(z[1])]
             turn[n \in 0 .. N] ==
               IF n = 0 THEN FlushAllBlocks(s)
               ELSE LET t == turn[n - 1]
                    IN  IF t.length < High /\ t.pending # <<>> THEN Walk(t, patience) ELSE t
             end == turn[N]
             quiet == [end EXCEPT !.write = FALSE]
  <1>1. Written(s, patience) = IF end.length = 0 THEN quiet ELSE end
    BY DEF Written
  <1>2. N \in Nat
    BY TurnsAre
  <1>3. a \in ControlClient /\ Listed(a)
    BY FlushAllBlocksIs, KeepsWalks DEF Keeps, Walks
  <1>4. a \in S
    BY <1>3, KeepsSame, KeepsWalks
  <1> HIDE DEF turn
  <1>5. ASSUME NEW x \in S
        PROVE  /\ One(x) \in S
               /\ \/ "fatal" \in One(x).flags \/ One(x).pending = <<>>
                  \/ One(x).length > 0
    <2> DEFINE y == One(x)
    <2>1. x \in ControlClient /\ Walks(a, x) /\ Listed(x) /\ x.length \in Nat
      BY ClientIs DEF Walks
    <2>2. CASE x.length < High /\ x.pending # <<>>
      <3> DEFINE w == Walk(x, patience)
      <3>1. Walks(x, w) /\ ("fatal" \in w.flags \/ w.pending = <<>> \/ w.length > 0)
        BY <2>1, <2>2, WalkIs
      <3>2. y = w
        BY <2>2
      <3> HIDE DEF w, y
      <3>3. Walks(a, w) /\ w \in ControlClient
        BY <1>3, <2>1, <3>1, WalksOver DEF Walks
      <3> QED BY <3>1, <3>2, <3>3 DEF y
    <2>3. CASE ~ (x.length < High /\ x.pending # <<>>)
      <3>1. y = x
        BY <2>3
      <3>2. x.pending = <<>> \/ x.length > 0
        BY <2>1, <2>3, SizesOrdered
      <3> HIDE DEF y
      <3> QED BY <2>1, <3>1, <3>2 DEF y
    <2> QED BY <2>2, <2>3
  <1> HIDE DEF S
  <1>6. \A n \in 1 .. N : \A x \in S : F[<<x, n>>] = One(x)
    OBVIOUS
  <1> HIDE DEF F
  <1>7. Stays(N, F, S)
    BY <1>5, <1>6 DEF Stays
  <1>8. PICK f : Turns(f, N, F, a) /\ \A n \in 0 .. N : f[n] \in S
    BY <1>2, <1>4, <1>7, LoopExists
  <1>9. /\ N \in 0 .. N /\ 0 \in 0 .. N /\ (N # 0 => N \in 1 .. N /\ N - 1 \in 0 .. N)
        /\ \A n \in 1 .. N : n \in 0 .. N /\ n # 0 /\ n - 1 \in 0 .. N
        /\ \A n \in 0 .. N : n # 0 => n \in 1 .. N
    <2> HIDE DEF N
    <2> QED BY <1>2
  <1>10. f = [n \in 0 .. N |-> IF n = 0 THEN a ELSE One(f[n - 1])]
    <2> HIDE DEF One, N, a
    <2> QED BY <1>6, <1>8, <1>9 DEF Turns
  <1>11. turn = [n \in 0 .. N |-> IF n = 0 THEN a ELSE One(turn[n - 1])]
    BY <1>10 DEF turn
  <1> HIDE DEF N, One, a
  <1>12. turn[0] = a /\ \A n \in 1 .. N : turn[n] = One(turn[n - 1])
    BY <1>9, <1>11
  <1>13. TurnsIn(turn, N, F, a, S)
    BY <1>6, <1>12 DEF TurnsIn
  <1>14. \A n \in 0 .. N : turn[n] \in S
    BY <1>2, <1>4, <1>7, <1>13, LoopKeeps
  <1>15. end \in ControlClient /\ Listed(end)
    BY <1>9, <1>14 DEF S, Walks
  <1>16. ASSUME end.length = 0 PROVE "fatal" \in end.flags \/ Owing(end) = {}
    <2>1. CASE N = 0
      <3>1. Panes = {}
        BY <2>1, TurnsAre DEF N
      <3> QED BY <1>15, <3>1, BlocksAre
    <2>2. CASE N # 0
      <3>1. turn[N - 1] \in S /\ end = One(turn[N - 1])
        BY <1>9, <1>12, <1>14, <2>2
      <3>2. "fatal" \in end.flags \/ end.pending = <<>> \/ end.length > 0
        BY <1>5, <3>1
      <3>3. Range(<<>>) = {}
        BY DEF Range
      <3> HIDE DEF end
      <3>4. "fatal" \in end.flags \/ end.pending = <<>>
        BY <1>16, <3>2
      <3> QED BY <1>15, <3>3, <3>4 DEF Listed
    <2> QED BY <2>1, <2>2
  <1> HIDE DEF end
  <1>17. CASE end.length = 0 /\ "fatal" \in end.flags
    <2>1. quiet \in ControlClient /\ quiet.flags = end.flags
      BY <1>15 DEF ControlClient
    <2> QED BY <1>1, <1>17, <2>1 DEF Sound
  <1>18. CASE end.length = 0 /\ "fatal" \notin end.flags
    <2>1. FALSE \in BOOLEAN
      OBVIOUS
    <2>2. quiet \in ControlClient /\ Listed(quiet)
      BY <1>15, <1>16, <1>18, <2>1, Unowed
    <2> QED BY <1>1, <1>18, <2>2 DEF Sound
  <1>19. CASE end.length # 0
    BY <1>1, <1>15, <1>19 DEF Sound
  <1> QED BY <1>17, <1>18, <1>19

-----------------------------------------------------------------------------
(* The initial states and the actions.                                     *)
ClientsSound ==
  /\ client = [c \in Clients |-> client[c]]
  /\ \A c \in Clients : Sound(client[c])

LEMMA StartedIs ==
  ASSUME NEW flags \in SUBSET Flags
  PROVE  Sound(Started(flags))
  <1> DEFINE t == Started(flags)
             zeros == [p \in Panes |-> 0]
             none == [p \in Panes |-> NoPane]
  <1>1. zeros \in [Panes -> Int] /\ none \in [Panes -> ControlPane \cup {NoPane}]
    OBVIOUS
  <1>2. /\ Nothing = [bytes |-> zeros, made |-> zeros, open |-> FALSE, wrong |-> {}]
        /\ t = [flags |-> flags, sees |-> Panes, panes |-> none, all |-> <<>>,
                pending |-> <<>>, deferred |-> <<>>, depth |-> 0, length |-> 0,
                write |-> FALSE, seen |-> Nothing]
    BY DEF Nothing, Started
  <1> HIDE DEF zeros, none, t
  <1>3. Nothing \in Seens
    BY <1>1, <1>2 DEF Seens
  <1>4. <<>> \in Seq(Queued) /\ <<>> \in Seq(Panes) /\ <<>> \in Seq(LineItem)
    OBVIOUS
  <1>5. t \in ControlClient /\ t.all = <<>> /\ t.pending = <<>>
    BY <1>1, <1>2, <1>3, <1>4 DEF ControlClient
  <1>6. Range(<<>>) = {} /\ IsInjective(<<>>)
    BY DEF Range, IsInjective
  <1>7. Listed(t)
    BY <1>5, <1>6 DEF Listed, Owing, OwedBy
  <1> QED BY <1>5, <1>7 DEF Sound, t

LEMMA InitInv ==
  Init => IInv
  <1> SUFFICES ASSUME Init PROVE IInv
    OBVIOUS
  <1>1. PanesTyped
    <2> DEFINE wp == [fd |-> TRUE, base |-> 0, size |-> 0, offset |-> 0, pipe |-> FALSE,
                      piped |-> 0, read |-> TRUE, before |-> 0, total |-> 0]
    <2>1. wp \in WindowPane
      BY DEF WindowPane
    <2>2. pane = [p \in Panes |-> wp]
      BY DEF Init
    <2> HIDE DEF wp
    <2> QED BY <2>1, <2>2 DEF PanesTyped
  <1>2. client \in [Clients -> {Started(flags) : flags \in AttachFlags}]
    BY DEF Init
  <1>3. ASSUME NEW c \in Clients PROVE Sound(client[c])
    <2>1. PICK flags \in AttachFlags : client[c] = Started(flags)
      BY <1>2
    <2>2. flags \in SUBSET AllAttachFlags
      BY DEF AllAttachFlags
    <2>3. flags \in SUBSET Flags
      BY <2>2 DEF Flags
    <2> QED BY <2>1, <2>3, StartedIs
  <1> QED BY <1>1, <1>2, <1>3 DEF IInv

LEMMA OneClient ==
  ASSUME IInv, NEW c \in Clients, NEW t, Sound(t), client' = [client EXCEPT ![c] = t]
  PROVE  ClientsSound'
  <1>1. client'[c] = t /\ \A d \in Clients \ {c} : client'[d] = client[d]
    BY DEF IInv
  <1>2. client' = [d \in Clients |-> client'[d]]
    BY DEF IInv
  <1> QED BY <1>1, <1>2 DEF IInv, ClientsSound

LEMMA EachClient ==
  ASSUME NEW f, f = [c \in Clients |-> f[c]], \A c \in Clients : Sound(f[c]), client' = f
  PROVE  ClientsSound'
  BY DEF ClientsSound

LEMMA PresentIs ==
  ASSUME IInv, NEW c \in Clients, EnoughData
  PROVE  client[c] \in ControlClient /\ Listed(client[c]) /\ Sound(client[c])
  BY DEF IInv, EnoughData, Sound

LEMMA ReadInv ==
  ASSUME IInv, NEW p \in Panes, NEW n \in 1 .. MaxBytes, Read(p, n)
  PROVE  IInv'
  <1> DEFINE wp == [pane[p] EXCEPT !.size = @ + n, !.total = @ + n]
             f(old) == [c \in Clients |->
                          IF c \in Present THEN WriteOutput(client[c], p, wp, c \in old)
                          ELSE client[c]]
  <1>1. PanesTyped /\ pane[p] \in WindowPane /\ n \in Nat
    BY SizesOrdered, PaneIs DEF IInv
  <1>2. wp \in WindowPane
    <2>1. pane[p].size + n \in Int /\ pane[p].total + n \in Nat
      BY <1>1 DEF WindowPane
    <2>2. wp = [pane[p] EXCEPT !.size = pane[p].size + n, !.total = pane[p].total + n]
      BY <1>1 DEF WindowPane
    <2> HIDE DEF wp
    <2> QED BY <1>1, <2>1, <2>2 DEF WindowPane
  <1>3. pane' = [pane EXCEPT ![p] = Taken(wp)]
    BY DEF Read
  <1>4. PICK old \in SUBSET Clients : client' = f(old)
    BY DEF Read
  <1> HIDE DEF wp
  <1>5. Taken(wp) \in WindowPane
    <2> DEFINE a == UpdateUsed(wp, wp.offset, NewData(wp, wp.offset))
               b == UpdateUsed(wp, wp.piped, NewData(wp, wp.piped))
               piped == IF wp.pipe THEN b ELSE wp.piped
    <2>1. wp.offset \in Nat /\ wp.piped \in Nat
      BY <1>2 DEF WindowPane
    <2>2. a \in Nat /\ b \in Nat
      BY <1>2, <2>1, NewDataIs, UpdateUsedIs
    <2>3. Taken(wp) = [wp EXCEPT !.offset = a, !.piped = piped, !.read = FALSE]
      BY <1>2 DEF Taken, WindowPane
    <2>4. piped \in Nat
      BY <2>1, <2>2
    <2> HIDE DEF a, piped
    <2> QED BY <1>2, <2>2, <2>3, <2>4 DEF WindowPane
  <1>6. PanesTyped'
    BY <1>1, <1>3, <1>5 DEF PanesTyped
  <1>7. \A c \in Clients : Sound(f(old)[c])
    BY <1>1, <1>2, WriteOutputIs DEF IInv
  <1>8. ClientsSound'
    <2>1. f(old) = [c \in Clients |-> f(old)[c]]
      OBVIOUS
    <2> HIDE DEF f
    <2> QED BY <1>4, <1>7, <2>1, EachClient
  <1> QED BY <1>6, <1>8 DEF IInv, ClientsSound

LEMMA PaneOnly ==
  ASSUME IInv, NEW p \in Panes, NEW wp \in WindowPane,
         pane' = [pane EXCEPT ![p] = wp], client' = client
  PROVE  IInv'
  <1>1. PanesTyped'
    BY DEF PanesTyped, IInv
  <1> QED BY <1>1 DEF IInv, Sound, Listed, Owing, OwedBy

LEMMA PaneChanges ==
  ASSUME IInv, NEW p \in Panes
  PROVE  /\ Exited(p) => IInv'
         /\ \A open \in BOOLEAN : PipePane(p, open) => IInv'
  <1>1. pane[p] \in WindowPane
    BY PaneIs DEF IInv
  <1>2. ASSUME Exited(p) PROVE IInv'
    <2> DEFINE wp == [pane[p] EXCEPT !.fd = FALSE]
    <2>1. wp \in WindowPane
      BY <1>1 DEF WindowPane
    <2>2. pane' = [pane EXCEPT ![p] = wp] /\ client' = client
      BY <1>2 DEF Exited, IInv, PanesTyped
    <2> HIDE DEF wp
    <2> QED BY <2>1, <2>2, PaneOnly
  <1>3. ASSUME NEW open \in BOOLEAN, PipePane(p, open) PROVE IInv'
    <2> DEFINE piped == IF open THEN pane[p].offset ELSE pane[p].piped
               wp == [pane[p] EXCEPT !.pipe = open, !.piped = piped]
    <2>1. piped \in Nat
      BY <1>1 DEF WindowPane
    <2>2. pane' = [pane EXCEPT ![p] = wp] /\ client' = client
      BY <1>1, <1>3 DEF PipePane, IInv, PanesTyped, WindowPane
    <2> HIDE DEF piped
    <2>3. wp \in WindowPane
      BY <1>1, <2>1 DEF WindowPane
    <2> HIDE DEF wp
    <2> QED BY <2>2, <2>3, PaneOnly
  <1> QED BY <1>2, <1>3

LEMMA RespawnInv ==
  ASSUME IInv, NEW p \in Panes, Respawn(p)
  PROVE  IInv'
  <1> DEFINE wp == [pane[p] EXCEPT !.fd = TRUE, !.base = 0, !.size = 0, !.offset = 0,
                            !.piped = 0, !.read = TRUE, !.before = pane[p].total]
             f == [c \in Clients |->
                     IF c \in Present THEN ResetPane(client[c], p, wp) ELSE client[c]]
  <1>1. pane[p] \in WindowPane
    BY PaneIs DEF IInv
  <1>2. wp \in WindowPane
    <2> DEFINE total == pane[p].total
    <2>1. total \in Nat
      BY <1>1 DEF WindowPane
    <2> HIDE DEF total
    <2>2. wp = [pane[p] EXCEPT !.fd = TRUE, !.base = 0, !.size = 0, !.offset = 0,
                               !.piped = 0, !.read = TRUE, !.before = total]
      BY DEF total
    <2> HIDE DEF wp
    <2> DEFINE old == pane[p]
    <2>3. old \in WindowPane
      BY <1>1
    <2>4. wp = [fd |-> TRUE, base |-> 0, size |-> 0, offset |-> 0, pipe |-> old.pipe,
                piped |-> 0, read |-> TRUE, before |-> total, total |-> old.total]
      BY <1>1, <2>2 DEF WindowPane
    <2>5. old.pipe \in BOOLEAN /\ old.total \in Nat
      BY <2>3 DEF WindowPane
    <2> HIDE DEF old
    <2> QED BY <2>1, <2>4, <2>5 DEF WindowPane
  <1>3. pane' = [pane EXCEPT ![p] = wp] /\ client' = f
    BY DEF Respawn
  <1> HIDE DEF wp
  <1>4. PanesTyped'
    BY <1>2, <1>3 DEF PanesTyped, IInv
  <1>5. ASSUME NEW c \in Clients PROVE Sound(f[c])
    <2>1. Sound(client[c]) /\ client[c] \in ControlClient
      BY DEF IInv, Sound
    <2>2. Sound(ResetPane(client[c], p, wp))
      BY <1>2, <2>1, ResetPaneIs, KeepsSound
    <2> QED BY <2>1, <2>2
  <1>6. f = [c \in Clients |-> f[c]]
    OBVIOUS
  <1> HIDE DEF f
  <1>7. ClientsSound'
    BY <1>3, <1>5, <1>6, EachClient
  <1> QED BY <1>4, <1>7 DEF IInv, ClientsSound

(* server_client_loop.                                                     *)
LEMMA RolledIs ==
  ASSUME IInv, NEW p \in Panes
  PROVE  /\ MinimumOf(p) \in Nat
         /\ \A offset \in Nat : Rolled(p, offset) \in Nat
  <1> DEFINE offsets == {client[c].panes[p].offset : c \in CountedOn(p)}
             T == {pane[p].offset} \cup (IF pane[p].pipe THEN {pane[p].piped} ELSE {})
                    \cup offsets
  <1>1. /\ pane[p].offset \in Nat /\ pane[p].piped \in Nat /\ pane[p].base \in Nat
        /\ pane[p].size \in Int
    BY PaneIs DEF IInv, WindowPane
  <1>2. ASSUME NEW c \in CountedOn(p) PROVE client[c].panes[p].offset \in Nat
    <2>1. c \in Clients /\ client[c].panes[p] # NoPane
      BY DEF CountedOn, Counted, Present
    <2>2. client[c].panes[p] \in ControlPane
      BY <2>1, HasPane DEF IInv, Sound
    <2> QED BY <2>2 DEF ControlPane
  <1>3. offsets \subseteq Nat
    BY <1>2
  <1> HIDE DEF offsets
  <1>4. T \subseteq Nat /\ T # {}
    BY <1>1, <1>3
  <1>5. MinimumOf(p) = SizeT(Min(T) - pane[p].base)
    BY DEF MinimumOf, Minimum, offsets
  <1> HIDE DEF T
  <1>6. Min(T) \in Nat
    BY <1>4, MinIs
  <1>7. Min(T) - pane[p].base \in Int
    BY <1>1, <1>6
  <1>8. MinimumOf(p) \in Nat
    BY <1>5, <1>7, SizeTIs
  <1>9. ASSUME NEW offset \in Nat PROVE Rolled(p, offset) \in Nat
    <2>1. offset - pane[p].base \in Int
      BY <1>1
    <2> QED BY <2>1, SizeTIs DEF Rolled
  <1> QED BY <1>8, <1>9

LEMMA CheckBufferIs ==
  ASSUME IInv, NEW p \in Panes
  PROVE  CheckBuffer(p) \in WindowPane
  <1> DEFINE wp == pane[p]
             least == MinimumOf(p)
             size == wp.size - least
             base == IF Rolls(p) THEN least ELSE wp.base + least
             offset == Rolled(p, wp.offset)
             piped == IF wp.pipe THEN Rolled(p, wp.piped) ELSE wp.piped
             read == ~Off(p)
  <1>1. wp \in WindowPane
    BY PaneIs DEF IInv
  <1>2. wp.offset \in Nat /\ wp.piped \in Nat /\ wp.base \in Nat /\ wp.size \in Int
    BY <1>1 DEF WindowPane
  <1>3. /\ least \in Nat /\ Rolled(p, wp.offset) \in Nat /\ Rolled(p, wp.piped) \in Nat
    BY <1>2, RolledIs
  <1>4. CheckBuffer(p) =
          [wp EXCEPT !.size = size, !.read = read, !.base = base, !.offset = offset,
                     !.piped = piped]
    BY <1>1 DEF CheckBuffer, WindowPane
  <1> HIDE DEF wp, least
  <1>5. size \in Int /\ base \in Nat /\ offset \in Nat /\ piped \in Nat /\ read \in BOOLEAN
    BY <1>2, <1>3
  <1> HIDE DEF size, base, offset, piped, read
  <1> QED BY <1>1, <1>4, <1>5 DEF WindowPane

LEMMA CheckExitIs ==
  ASSUME NEW s, Sound(s)
  PROVE  Keeps(s, CheckExit(s)) /\ CheckExit(s).panes = s.panes
  <1> DEFINE t == Discard(s)
             u == [t EXCEPT !.flags = @ \cup {"exited"}]
  <1>1. s \in ControlClient
    BY DEF Sound
  <1>2. CheckExit(s) = IF ~Leaving(s) THEN s ELSE IF t.all = <<>> /\ t.length = 0 THEN u ELSE t
    BY DEF CheckExit
  <1>3. t \in ControlClient /\ Keeps(s, t) /\ t.panes = s.panes
    BY <1>1, DiscardIs DEF Keeps, Discard, ControlClient
  <1> HIDE DEF t
  <1>4. {"exited"} \in SUBSET Flags
    BY DEF Flags
  <1>5. Keeps(t, u) /\ u.panes = t.panes
    BY <1>3, <1>4, FlagAdded DEF ControlClient
  <1> HIDE DEF u
  <1>6. Keeps(s, u)
    BY <1>1, <1>3, <1>5, KeepsOver
  <1> QED BY <1>1, <1>2, <1>3, <1>5, <1>6, KeepsSame

LEMMA CheckAllInv ==
  ASSUME IInv, CheckAll
  PROVE  IInv'
  <1> DEFINE rolled(c, p) == [client[c].panes[p] EXCEPT !.offset = Rolled(p, @)]
             counts(c, p) == c \in CountedOn(p) /\ ~TakesNoMore(client[c], p)
             s(c) == CheckExit(client[c])
             f == [c \in Clients |->
                     [s(c) EXCEPT !.panes = [p \in Panes |->
                        IF counts(c, p) THEN rolled(c, p) ELSE @[p]]]]
  <1>1. PanesTyped'
    <2>1. pane' = [p \in Panes |-> IF pane[p].fd THEN CheckBuffer(p) ELSE pane[p]]
      BY DEF CheckAll
    <2> QED BY <2>1, CheckBufferIs, PaneIs DEF PanesTyped, IInv
  <1>2. client' = f
    BY DEF CheckAll
  <1>3. ASSUME NEW c \in Clients PROVE Sound(f[c])
    <2> DEFINE x == s(c)
               panes == [p \in Panes |-> IF counts(c, p) THEN rolled(c, p) ELSE x.panes[p]]
               t == [x EXCEPT !.panes = panes]
    <2>1. Sound(client[c]) /\ client[c] \in ControlClient
      BY DEF IInv, Sound
    <2>2. x \in ControlClient /\ Sound(x) /\ x.panes = client[c].panes
      BY <2>1, CheckExitIs, KeepsSound DEF Keeps
    <2>3. f[c] = t
      OBVIOUS
    <2> HIDE DEF x, f
    <2>4. ASSUME NEW p \in Panes, counts(c, p) PROVE rolled(c, p) \in ControlPane
      <3>1. client[c].panes[p] \in ControlPane
        BY <2>1, <2>4, HasPane DEF CountedOn, Counted
      <3>2. client[c].panes[p].offset \in Nat
        BY <3>1 DEF ControlPane
      <3> QED BY <3>1, <3>2, RolledIs DEF ControlPane
    <2> HIDE DEF rolled, counts
    <2>5. x.panes \in [Panes -> ControlPane \cup {NoPane}]
      BY <2>2, ClientIs
    <2>6. /\ panes \in [Panes -> ControlPane \cup {NoPane}]
          /\ \A p \in Panes : x.panes[p] \in ControlPane => panes[p] \in ControlPane
      BY <2>4, <2>5
    <2> HIDE DEF panes
    <2>7. /\ t \in ControlClient /\ t.flags = x.flags /\ t.all = x.all
          /\ t.pending = x.pending /\ t.write = x.write /\ t.panes = panes
          /\ t.length = x.length
      BY <2>2, <2>6 DEF ControlClient
    <2> HIDE DEF t
    <2>8. x.length \in Nat
      BY <2>2, ClientIs
    <2>9. Keeps(x, t)
      BY <2>6, <2>7, <2>8 DEF Keeps, Owing
    <2> QED BY <2>2, <2>3, <2>9, KeepsSound
  <1>4. f = [c \in Clients |-> f[c]]
    OBVIOUS
  <1> HIDE DEF f
  <1>5. ClientsSound'
    BY <1>2, <1>3, <1>4, EachClient
  <1> QED BY <1>1, <1>5 DEF IInv, ClientsSound

(* The actions of one client.                                              *)
LEMMA SoundStays ==
  ASSUME IInv, NEW c \in Clients, NEW t, Sound(t), client' = [client EXCEPT ![c] = t],
         pane' = pane
  PROVE  IInv'
  <1>1. ClientsSound'
    BY OneClient
  <1> QED BY <1>1 DEF IInv, ClientsSound, PanesTyped

LEMMA ClientReadsInv ==
  ASSUME IInv, NEW c \in Clients, ClientReads(c)
  PROVE  IInv'
  <1>1. PICK n \in 0 .. Low : client' = [client EXCEPT ![c].length = n]
    BY DEF ClientReads
  <1> DEFINE s == client[c]
             t == [s EXCEPT !.length = n]
  <1>2. s \in ControlClient /\ Listed(s)
    BY PresentIs DEF ClientReads, Present
  <1>3. client' = [client EXCEPT ![c] = t] /\ pane' = pane
    BY <1>1 DEF ClientReads
  <1>4. n \in Nat
    BY SizesOrdered
  <1> HIDE DEF s
  <1>5. /\ t \in ControlClient /\ t.flags = s.flags /\ t.all = s.all
        /\ t.pending = s.pending /\ t.write = s.write /\ t.panes = s.panes
    BY <1>2, <1>4 DEF ControlClient
  <1> HIDE DEF t
  <1>6. Sound(t)
    BY <1>2, <1>5 DEF Sound, Listed, Owing
  <1> QED BY <1>3, <1>6, SoundStays

LEMMA WriteCallbackInv ==
  ASSUME IInv, NEW c \in Clients, WriteCallback(c)
  PROVE  IInv'
  <1>1. PICK patience : client' = [client EXCEPT ![c] = Written(client[c], patience)]
    BY DEF WriteCallback
  <1>2. client[c] \in ControlClient /\ Listed(client[c])
    BY PresentIs DEF WriteCallback, Present
  <1>3. Sound(Written(client[c], patience))
    BY <1>2, WrittenIs DEF IInv
  <1>4. pane' = pane
    BY DEF WriteCallback
  <1> QED BY <1>1, <1>3, <1>4, SoundStays

LEMMA BegunIs ==
  ASSUME IInv, NEW c \in Clients, NEW t \in Clients
  PROVE  Sound(Begun(c, t)) /\ Begun(c, t) \in ControlClient
  <1>1. Sound(client[t]) /\ client[t] \in ControlClient /\ PanesTyped
    BY DEF IInv, Sound
  <1>2. Sound(Begin(client[t]))
    BY <1>1, BeginIs, KeepsSound
  <1>3. Sound(Begun(c, t))
    BY <1>1, <1>2 DEF Begun
  <1> QED BY <1>3 DEF Sound

LEMMA RunInv ==
  ASSUME IInv, NEW c \in Clients, NEW t \in Clients, NEW done, Sound(done), Run(c, t, done)
  PROVE  IInv'
  <1> DEFINE begun == [client EXCEPT ![c] = Begin(client[c])]
             changed == [begun EXCEPT ![t] = done]
             f == [changed EXCEPT ![c] = End(changed[c])]
  <1>1. client' = f /\ pane' = pane
    BY DEF Run
  <1>2. PanesTyped /\ client = [d \in Clients |-> client[d]]
    BY DEF IInv
  <1>3. begun = [d \in Clients |-> begun[d]] /\ \A d \in Clients : Sound(begun[d])
    <2>1. Sound(Begin(client[c]))
      BY BegunIs DEF Begun
    <2> QED BY <1>2, <2>1 DEF IInv
  <1> HIDE DEF begun
  <1>4. changed = [d \in Clients |-> changed[d]] /\ \A d \in Clients : Sound(changed[d])
    BY <1>3
  <1> HIDE DEF changed
  <1>5. Sound(End(changed[c]))
    <2>1. changed[c] \in ControlClient /\ Sound(changed[c])
      BY <1>4 DEF Sound
    <2> QED BY <1>2, <2>1, EndIs, KeepsSound
  <1>6. f = [d \in Clients |-> f[d]] /\ \A d \in Clients : Sound(f[d])
    BY <1>4, <1>5
  <1> HIDE DEF f
  <1>7. ClientsSound'
    BY <1>1, <1>6, EachClient
  <1> QED BY <1>1, <1>2, <1>7 DEF IInv, ClientsSound, PanesTyped

LEMMA RefreshPaneInv ==
  ASSUME IInv, NEW c \in Clients, NEW t \in Clients, NEW p \in Panes, RefreshPane(c, t, p)
  PROVE  IInv'
  <1> DEFINE s == Begun(c, t)
  <1>1. Sound(s) /\ s \in ControlClient /\ PanesTyped
    BY BegunIs DEF IInv
  <1>2. \/ Run(c, t, SetPaneOn(s, p))
        \/ Run(c, t, SetPaneOff(s, p))
        \/ Run(c, t, ContinuePane(s, p))
        \/ Run(c, t, PausePane(s, p))
    BY DEF RefreshPane
  <1> HIDE DEF s
  <1>3. /\ Sound(SetPaneOn(s, p)) /\ Sound(SetPaneOff(s, p))
        /\ Sound(ContinuePane(s, p)) /\ Sound(PausePane(s, p))
    BY <1>1, SetPaneOnIs, SetPaneOffIs, ContinuePaneIs, PausePaneIs, KeepsSound
  <1> QED BY <1>2, <1>3, RunInv

LEMMA SetFlagsInv ==
  ASSUME IInv, NEW c \in Clients, NEW t \in Clients, SetFlags(c, t)
  PROVE  IInv'
  <1> DEFINE s == Begun(c, t)
             Set(F) == [s EXCEPT !.flags = F]
             more == [s EXCEPT !.flags = @ \cup {"pauseafter"}]
             less == [s EXCEPT !.flags = @ \ {"pauseafter"}]
             without == [s EXCEPT !.flags = @ \cup {"nooutput"}]
             with == [s EXCEPT !.flags = @ \ {"nooutput"}]
  <1>1. Sound(s) /\ s \in ControlClient
    BY BegunIs
  <1>2. \/ Run(c, t, more) \/ Run(c, t, less)
        \/ Run(c, t, ResetOffsets(without)) \/ Run(c, t, ResetOffsets(with))
    BY DEF SetFlags
  <1> HIDE DEF s
  <1>3. /\ more = Set(s.flags \cup {"pauseafter"}) /\ less = Set(s.flags \ {"pauseafter"})
        /\ without = Set(s.flags \cup {"nooutput"}) /\ with = Set(s.flags \ {"nooutput"})
    BY <1>1 DEF ControlClient
  <1>4. "pauseafter" \in Flags /\ "nooutput" \in Flags /\ s.flags \in SUBSET Flags
    BY <1>1, ClientIs DEF Flags
  <1> HIDE DEF more, less, without, with
  <1>5. ASSUME NEW F \in SUBSET Flags, "fatal" \in s.flags => "fatal" \in F
        PROVE  Sound(Set(F)) /\ Sound(ResetOffsets(Set(F)))
    <2>1. Keeps(s, Set(F)) /\ Set(F) \in ControlClient
      BY <1>1, <1>5, Reflagged DEF Keeps
    <2> HIDE DEF Set
    <2>2. Sound(Set(F))
      BY <1>1, <2>1, KeepsSound
    <2>3. Sound(ResetOffsets(Set(F)))
      BY <2>1, ResetOffsetsIs DEF Sound
    <2> QED BY <2>2, <2>3
  <1> HIDE DEF Set
  <1>6. /\ s.flags \cup {"pauseafter"} \in SUBSET Flags
        /\ s.flags \cup {"nooutput"} \in SUBSET Flags
        /\ s.flags \ {"pauseafter"} \in SUBSET Flags
        /\ s.flags \ {"nooutput"} \in SUBSET Flags
        /\ "fatal" # "pauseafter" /\ "fatal" # "nooutput"
    BY <1>4
  <1>7. /\ Sound(more) /\ Sound(less)
        /\ Sound(ResetOffsets(without)) /\ Sound(ResetOffsets(with))
    BY <1>3, <1>5, <1>6
  <1> QED BY <1>2, <1>7, RunInv

LEMMA NotifiedIs ==
  ASSUME PanesTyped, NEW s, Sound(s)
  PROVE  Sound(Notified(s))
  <1>1. s \in ControlClient /\ "notify" \in Kinds
    BY DEF Sound, Kinds
  <1>2. Sound(NotifyWrite(s, "notify"))
    BY <1>1, NotifyWriteIs, KeepsSound
  <1> QED BY <1>2 DEF Notified

LEMMA CommandInv ==
  ASSUME IInv, NEW c \in Clients, Command(c)
  PROVE  IInv'
  <1> DEFINE s == Begun(c, c)
             t == Write(s, "reply")
  <1>1. Sound(s) /\ s \in ControlClient /\ PanesTyped /\ "reply" \in Kinds
    BY BegunIs DEF IInv, Kinds
  <1>2. Run(c, c, Notified(t))
    BY DEF Command
  <1> HIDE DEF s
  <1>3. Sound(t)
    BY <1>1, WriteIs, KeepsSound
  <1> HIDE DEF t
  <1>4. Sound(Notified(t))
    BY <1>1, <1>3, NotifiedIs
  <1> QED BY <1>2, <1>4, RunInv

LEMMA NotifyInv ==
  ASSUME IInv, Notify
  PROVE  IInv'
  <1> DEFINE f == [c \in Clients |-> IF c \in Present THEN Notified(client[c]) ELSE client[c]]
  <1>1. client' = f /\ pane' = pane
    BY DEF Notify
  <1>2. \A c \in Clients : Sound(f[c])
    BY NotifiedIs DEF IInv
  <1>3. f = [c \in Clients |-> f[c]]
    OBVIOUS
  <1> HIDE DEF f
  <1>4. ClientsSound'
    BY <1>1, <1>2, <1>3, EachClient
  <1> QED BY <1>1, <1>4 DEF IInv, ClientsSound, PanesTyped

LEMMA SwitchInv ==
  ASSUME IInv, NEW c \in Clients, Switch(c)
  PROVE  IInv'
  <1>1. PICK P \in SUBSET Panes :
          client' = [client EXCEPT ![c] = Notified([client[c] EXCEPT !.sees = P])]
    BY DEF Switch
  <1> DEFINE s == client[c]
             t == [s EXCEPT !.sees = P]
  <1>2. Sound(s) /\ s \in ControlClient /\ PanesTyped /\ s.length \in Nat
    BY ClientIs DEF IInv, Sound
  <1>3. client' = [client EXCEPT ![c] = Notified(t)] /\ pane' = pane
    BY <1>1 DEF Switch
  <1> HIDE DEF s
  <1>4. /\ t \in ControlClient /\ t.flags = s.flags /\ t.all = s.all
        /\ t.pending = s.pending /\ t.write = s.write /\ t.panes = s.panes
        /\ t.length = s.length
    BY <1>2 DEF ControlClient
  <1> HIDE DEF t
  <1>5. Keeps(s, t)
    BY <1>2, <1>4 DEF Keeps, Owing
  <1>6. Sound(Notified(t))
    BY <1>2, <1>5, KeepsSound, NotifiedIs
  <1> QED BY <1>3, <1>6, SoundStays

LEMMA LeaveInv ==
  ASSUME IInv, NEW c \in Clients, Leave(c)
  PROVE  IInv'
  <1> DEFINE s == client[c]
             t == [s EXCEPT !.flags = @ \cup {"exit"}]
  <1>1. Sound(s) /\ s \in ControlClient
    BY DEF IInv, Sound
  <1>2. client' = [client EXCEPT ![c] = t] /\ pane' = pane
    BY DEF Leave
  <1>3. {"exit"} \in SUBSET Flags
    BY DEF Flags
  <1> HIDE DEF s
  <1>4. Sound(t)
    BY <1>1, <1>3, FlagAdded, KeepsSound
  <1> QED BY <1>2, <1>4, SoundStays

LEMMA ExitTimerInv ==
  ASSUME IInv, NEW c \in Clients, ExitTimer(c)
  PROVE  IInv'
  <1> DEFINE s == client[c]
             F == s.flags \cup {"exited"}
             t == [s EXCEPT !.all = <<>>, !.write = FALSE, !.flags = F]
  <1>1. s \in ControlClient /\ Listed(s)
    BY PresentIs DEF ExitTimer, Present
  <1>2. client' = [client EXCEPT ![c] = t] /\ pane' = pane
    BY <1>1 DEF ExitTimer, ControlClient
  <1> HIDE DEF s
  <1>3. F \in SUBSET Flags
    BY <1>1, ClientIs DEF Flags
  <1> HIDE DEF F
  <1>4. <<>> \in Seq(Queued) /\ FALSE \in BOOLEAN
    OBVIOUS
  <1>5. /\ t \in ControlClient /\ t.all = <<>> /\ t.pending = s.pending
        /\ t.panes = s.panes
    BY <1>1, <1>3, <1>4 DEF ControlClient
  <1> HIDE DEF t
  <1>6. Owing(t) = {}
    BY <1>5 DEF Owing, OwedBy, Range
  <1>7. Sound(t)
    BY <1>1, <1>5, <1>6 DEF Sound, Listed
  <1> QED BY <1>2, <1>7, SoundStays

LEMMA LostInv ==
  ASSUME IInv, NEW c \in Clients, Lost(c)
  PROVE  IInv'
  <1>1. {"lost"} \in SUBSET Flags
    BY DEF Flags
  <1>2. Sound(Started({"lost"}))
    BY <1>1, StartedIs
  <1> QED BY <1>2, SoundStays DEF Lost

LEMMA NextInv ==
  ASSUME IInv, [Next]_vars
  PROVE  IInv'
  <1>1. CASE UNCHANGED vars
    BY <1>1 DEF vars, IInv, PanesTyped, Sound, Listed, Owing, OwedBy
  <1>2. CASE \E p \in Panes, n \in 1 .. MaxBytes : Read(p, n)
    BY <1>2, ReadInv
  <1>3. CASE \E p \in Panes : Exited(p) \/ Respawn(p)
    BY <1>3, PaneChanges, RespawnInv
  <1>4. CASE \E p \in Panes, open \in BOOLEAN : PipePane(p, open)
    BY <1>4, PaneChanges
  <1>5. CASE \E c \in Clients : ClientReads(c) \/ WriteCallback(c)
    BY <1>5, ClientReadsInv, WriteCallbackInv
  <1>6. CASE \E c, t \in Clients, p \in Panes : RefreshPane(c, t, p)
    BY <1>6, RefreshPaneInv
  <1>7. CASE \E c, t \in Clients : SetFlags(c, t)
    BY <1>7, SetFlagsInv
  <1>8. CASE \E c \in Clients : Command(c) \/ Switch(c) \/ Leave(c)
    BY <1>8, CommandInv, SwitchInv, LeaveInv
  <1>9. CASE \E c \in Clients : ExitTimer(c) \/ Lost(c)
    BY <1>9, ExitTimerInv, LostInv
  <1>10. CASE CheckAll
    BY <1>10, CheckAllInv
  <1>11. CASE Notify
    BY <1>11, NotifyInv
  <1> QED BY <1>1, <1>2, <1>3, <1>4, <1>5, <1>6, <1>7, <1>8, <1>9, <1>10, <1>11 DEF Next

(* A pane that has blocks for a control client is on the client's pending  *)
(* list, once, and the write event is enabled: control_write_callback will *)
(* write what control_write_output queued.                                 *)
THEOREM OutputIsServed == Spec => []Served
  <1>1. Init => IInv
    BY InitInv
  <1>2. IInv /\ [Next]_vars => IInv'
    BY NextInv
  <1>3. IInv => Served
    <2> SUFFICES ASSUME IInv, NEW c \in Present, NEW p \in Panes,
                        BlocksOf(client[c], p) # <<>>
                 PROVE  /\ client[c].write
                        /\ \E i \in DOMAIN client[c].pending :
                             \A j \in DOMAIN client[c].pending :
                               client[c].pending[j] = p <=> i = j
      BY DEF Served
    <2> DEFINE s == client[c]
    <2>1. s \in ControlClient /\ Listed(s)
      BY PresentIs DEF Present
    <2>2. BlocksOf(s, p) # <<>>
      OBVIOUS
    <2> HIDE DEF s
    <2>3. p \in Owing(s)
      BY <2>1, <2>2, BlocksAre
    <2>4. s.write /\ p \in Range(s.pending) /\ IsInjective(s.pending)
      BY <2>1, <2>3 DEF Listed
    <2>5. PICK i \in DOMAIN s.pending : s.pending[i] = p
      BY <2>4 DEF Range
    <2>6. \A j \in DOMAIN s.pending : s.pending[j] = p <=> i = j
      BY <2>4, <2>5 DEF IsInjective
    <2> QED BY <2>4, <2>6 DEF s
  <1> QED BY <1>1, <1>2, <1>3, PTL DEF Spec

-----------------------------------------------------------------------------
(* Offsets that do not wrap.                                               *)
LEMMA SizeTSame ==
  ASSUME NEW n \in 0 .. SizeMax
  PROVE  SizeT(n) = n
  BY SizesOrdered DEF SizeT

LEMMA SizeTBack ==
  ASSUME NEW n \in 1 .. SizeMax
  PROVE  SizeT(0 - n) = SizeMax + 1 - n
  BY SizesOrdered DEF SizeT

LEMMA SizeTBounded ==
  ASSUME NEW n \in Int
  PROVE  SizeT(n) \in 0 .. SizeMax
  BY SizesOrdered DEF SizeT

(* The bytes of the buffer behind an offset, and an offset that moves.     *)
End1(wp) == wp.base + wp.size
Unwrapped(wp) == wp.base \in Nat /\ wp.size \in Nat /\ End1(wp) <= SizeMax

LEMMA NewDataBehind ==
  ASSUME NEW wp, Unwrapped(wp), NEW offset \in Nat, offset <= End1(wp)
  PROVE  NewData(wp, offset) = End1(wp) - offset
  <1> DEFINE d == offset - wp.base
  <1>1. wp.base \in Nat /\ wp.size \in Nat /\ wp.base + wp.size <= SizeMax /\ SizeMax \in Nat
    BY SizesOrdered DEF Unwrapped, End1
  <1>2. End1(wp) - offset = wp.size - d /\ wp.size - d \in 0 .. SizeMax
    BY <1>1 DEF End1
  <1>3. CASE offset >= wp.base
    <2>1. SizeT(d) = d
      BY <1>1, <1>3, SizeTSame DEF End1
    <2>2. SizeT(wp.size - d) = wp.size - d
      BY <1>2, SizeTSame
    <2> QED BY <1>2, <2>1, <2>2 DEF NewData
  <1>4. CASE offset < wp.base
    <2> DEFINE n == wp.base - offset
    <2>1. n \in 1 .. SizeMax /\ d = 0 - n
      BY <1>1, <1>4
    <2> HIDE DEF n, d
    <2>2. SizeT(d) = SizeMax + 1 - n
      BY <2>1, SizeTBack
    <2> DEFINE k == wp.size - SizeT(d)
               m == 0 - k
    <2>3. k = wp.size + n - SizeMax - 1
      BY <1>1, <2>1, <2>2
    <2>4. wp.size + n \in 0 .. SizeMax /\ wp.size - d = wp.size + n
      BY <1>1, <1>2, <2>1
    <2>5. m \in 1 .. SizeMax + 1 /\ k = 0 - m
      BY <1>1, <2>1, <2>3, <2>4
    <2> HIDE DEF k, m
    <2>6. SizeT(k) = wp.size + n
      <3>1. CASE m = SizeMax + 1
        <4>1. wp.size + n = 0
          BY <1>1, <2>1, <2>3, <2>5, <3>1
        <4> QED BY <1>1, <2>1, <4>1
      <3>2. CASE m \in 1 .. SizeMax
        <4>1. SizeT(k) = SizeMax + 1 - m
          BY <2>5, <3>2, SizeTBack
        <4> QED BY <1>1, <2>1, <2>3, <2>5, <4>1
      <3> QED BY <2>5, <3>1, <3>2, <1>1
    <2> QED BY <1>2, <2>4, <2>6 DEF NewData, d, k
  <1> QED BY <1>1, <1>3, <1>4

LEMMA UpdateUsedBy ==
  ASSUME NEW wp, Unwrapped(wp), NEW offset \in Nat, offset <= End1(wp), NEW n \in Nat
  PROVE  /\ n <= End1(wp) - offset => UpdateUsed(wp, offset, n) = offset + n
         /\ n > End1(wp) - offset => UpdateUsed(wp, offset, n) = End1(wp)
  <1>1. End1(wp) \in Nat /\ End1(wp) <= SizeMax /\ SizeMax \in Nat
    BY SizesOrdered DEF Unwrapped, End1
  <1>2. NewData(wp, offset) = End1(wp) - offset
    BY NewDataBehind
  <1> DEFINE k == Smaller(n, NewData(wp, offset))
  <1>3. /\ n <= End1(wp) - offset => k = n
        /\ n > End1(wp) - offset => k = End1(wp) - offset
    BY <1>1, <1>2 DEF Smaller
  <1>4. UpdateUsed(wp, offset, n) = SizeT(offset + k)
    BY DEF UpdateUsed
  <1> HIDE DEF k
  <1>5. offset + k \in 0 .. SizeMax
    BY <1>1, <1>3
  <1>6. SizeT(offset + k) = offset + k
    BY <1>5, SizeTSame
  <1> QED BY <1>1, <1>3, <1>4, <1>6

-----------------------------------------------------------------------------
(* The bytes that a pane has in a queue, as sums over its beginnings.      *)
Sums(g, f, N) ==
  /\ g = [n \in 0 .. N |-> g[n]] /\ g[0] = 0
  /\ \A n \in 1 .. N : g[n] = g[n - 1] + f[n]
Size(cb, p) == IF OfPane(cb, p) THEN cb.size ELSE 0
Sizes(q, p) == [i \in 1 .. Len(q) |-> Size(q[i], p)]
Load(q, p) == (CHOOSE g : Sums(g, Sizes(q, p), Len(q)))[Len(q)]

LEMMA SumsExist ==
  ASSUME NEW N \in Nat, NEW f
  PROVE  \E g : Sums(g, f, N)
  <1> DEFINE T == {m \in Nat : \E g : Sums(g, f, m)}
  <1>1. 0 \in T
    <2> DEFINE g == [n \in 0 .. 0 |-> 0]
    <2>1. Sums(g, f, 0)
      BY DEF Sums
    <2> QED BY <2>1
  <1>2. ASSUME NEW m \in 1 .. N, m - 1 \in T PROVE m \in T
    <2>1. PICK g : Sums(g, f, m - 1)
      BY <1>2
    <2> DEFINE h == [n \in 0 .. m |-> IF n = m THEN g[m - 1] + f[m] ELSE g[n]]
    <2>2. \A n \in 0 .. m - 1 : n \in 0 .. m /\ n # m
      OBVIOUS
    <2>3. /\ h = [n \in 0 .. m |-> h[n]] /\ h[m] = g[m - 1] + f[m]
          /\ \A n \in 0 .. m - 1 : h[n] = g[n]
      BY <2>2
    <2> HIDE DEF h
    <2>4. \A n \in 1 .. m : h[n] = h[n - 1] + f[n]
      <3> TAKE n \in 1 .. m
      <3>1. n - 1 \in 0 .. m - 1
        OBVIOUS
      <3>2. h[n - 1] = g[n - 1]
        BY <2>3, <3>1
      <3>3. CASE n = m
        BY <2>3, <3>2, <3>3
      <3>4. CASE n # m
        <4>1. n \in 1 .. m - 1 /\ n \in 0 .. m - 1
          BY <3>4
        <4>2. g[n] = g[n - 1] + f[n]
          BY <2>1, <4>1 DEF Sums
        <4> QED BY <2>3, <3>2, <4>1, <4>2
      <3> QED BY <3>3, <3>4
    <2>5. h[0] = 0
      <3>1. 0 \in 0 .. m - 1
        OBVIOUS
      <3> QED BY <2>1, <2>3, <3>1 DEF Sums
    <2>6. Sums(h, f, m)
      BY <2>3, <2>4, <2>5 DEF Sums
    <2>7. m \in Nat
      OBVIOUS
    <2> QED BY <2>6, <2>7
  <1> HIDE DEF T
  <1>3. N \in T
    BY <1>1, <1>2, Induction
  <1> QED BY <1>3 DEF T

LEMMA SumsAgree ==
  ASSUME NEW N \in Nat, NEW f, NEW g, Sums(g, f, N), NEW h, Sums(h, f, N)
  PROVE  g[N] = h[N]
  <1> DEFINE T == {n \in Nat : g[n] = h[n]}
  <1>1. 0 \in T
    BY DEF Sums
  <1>2. ASSUME NEW n \in 1 .. N, n - 1 \in T PROVE n \in T
    <2>1. g[n] = g[n - 1] + f[n] /\ h[n] = h[n - 1] + f[n] /\ g[n - 1] = h[n - 1]
      BY <1>2 DEF Sums
    <2> QED BY <2>1
  <1> HIDE DEF T
  <1>3. N \in T
    BY <1>1, <1>2, Induction
  <1> QED BY <1>3 DEF T

(* The load of a queue, from any function that sums it up.                 *)
LEMMA LoadIs ==
  ASSUME NEW q, Len(q) \in Nat, NEW p, NEW g, Sums(g, Sizes(q, p), Len(q))
  PROVE  Load(q, p) = g[Len(q)]
  <1> DEFINE h == CHOOSE h : Sums(h, Sizes(q, p), Len(q))
  <1>1. Sums(h, Sizes(q, p), Len(q))
    OBVIOUS
  <1>2. Load(q, p) = h[Len(q)]
    BY DEF Load
  <1> HIDE DEF h
  <1> QED BY <1>1, <1>2, SumsAgree

LEMMA SizeIs ==
  ASSUME NEW b \in Queued, NEW p
  PROVE  Size(b, p) \in Nat
  BY QueuedIs DEF Size, OfPane

LEMMA SumsIn ==
  ASSUME NEW N \in Nat, NEW f, \A n \in 1 .. N : f[n] \in Nat, NEW g, Sums(g, f, N)
  PROVE  \A n \in 0 .. N : g[n] \in Nat
  <1> DEFINE T == {n \in Nat : g[n] \in Nat}
  <1>1. 0 \in T
    BY DEF Sums
  <1>2. ASSUME NEW n \in 1 .. N, n - 1 \in T PROVE n \in T
    <2>1. g[n] = g[n - 1] + f[n] /\ g[n - 1] \in Nat /\ f[n] \in Nat
      BY <1>2 DEF Sums
    <2> QED BY <2>1
  <1> HIDE DEF T
  <1>3. \A n \in 0 .. N : n \in T
    BY <1>1, <1>2, Induction
  <1> QED BY <1>3 DEF T

LEMMA SizesAre ==
  ASSUME NEW q \in Seq(Queued), NEW p
  PROVE  /\ Len(q) \in Nat
         /\ \A i \in 1 .. Len(q) :
              q[i] \in Queued /\ Sizes(q, p)[i] = Size(q[i], p) /\ Sizes(q, p)[i] \in Nat
  BY SizeIs DEF Sizes

LEMMA LoadOf ==
  ASSUME NEW q \in Seq(Queued), NEW p
  PROVE  /\ Load(q, p) \in Nat
         /\ \E g : /\ Sums(g, Sizes(q, p), Len(q)) /\ g[Len(q)] = Load(q, p)
                   /\ \A n \in 0 .. Len(q) : g[n] \in Nat
  <1>1. Len(q) \in Nat /\ \A i \in 1 .. Len(q) : Sizes(q, p)[i] \in Nat
    BY SizesAre
  <1>2. PICK g : Sums(g, Sizes(q, p), Len(q))
    BY <1>1, SumsExist
  <1>3. g[Len(q)] = Load(q, p)
    BY <1>1, <1>2, LoadIs
  <1>4. \A n \in 0 .. Len(q) : g[n] \in Nat
    BY <1>1, <1>2, SumsIn
  <1>5. Len(q) \in 0 .. Len(q)
    BY <1>1
  <1>6. Load(q, p) \in Nat
    BY <1>3, <1>4, <1>5
  <1> QED BY <1>2, <1>3, <1>4, <1>6

(* A queue without blocks of the pane.                                     *)
LEMMA LoadNone ==
  ASSUME NEW q \in Seq(Queued), NEW p, \A b \in Range(q) : ~OfPane(b, p)
  PROVE  Load(q, p) = 0
  <1> DEFINE N == Len(q)
             g == [n \in 0 .. N |-> 0]
  <1>1. N \in Nat /\ \A n \in 1 .. N : Sizes(q, p)[n] = 0
    BY SizesAre DEF Range, Size
  <1>2. g[N] = 0 /\ Sums(g, Sizes(q, p), N)
    <2> HIDE DEF N
    <2>1. 0 \in 0 .. N /\ N \in 0 .. N /\ \A n \in 1 .. N : n \in 0 .. N /\ n - 1 \in 0 .. N
      BY <1>1
    <2>2. \A n \in 0 .. N : g[n] = 0
      OBVIOUS
    <2>3. \A n \in 1 .. N : g[n] = g[n - 1] + Sizes(q, p)[n]
      BY <1>1, <2>1, <2>2
    <2> QED BY <2>1, <2>2, <2>3 DEF Sums
  <1> QED BY <1>1, <1>2, LoadIs

LEMMA LoadAppended ==
  ASSUME NEW q \in Seq(Queued), NEW b \in Queued, NEW p
  PROVE  Load(Append(q, b), p) = Load(q, p) + Size(b, p)
  <1> DEFINE N == Len(q)
             r == Append(q, b)
  <1>1. N \in Nat
    OBVIOUS
  <1>2. r \in Seq(Queued) /\ Len(r) = N + 1 /\ r[N + 1] = b /\ \A i \in 1 .. N : r[i] = q[i]
    OBVIOUS
  <1>3. PICK g : /\ Sums(g, Sizes(q, p), N) /\ g[N] = Load(q, p)
                 /\ \A n \in 0 .. N : g[n] \in Nat
    BY LoadOf
  <1> HIDE DEF r
  <1>4. /\ \A i \in 1 .. N : Sizes(q, p)[i] = Sizes(r, p)[i]
        /\ Sizes(r, p)[N + 1] = Size(b, p)
    <2>1. \A i \in 1 .. N : i \in 1 .. Len(r)
      BY <1>1, <1>2
    <2>2. N + 1 \in 1 .. Len(r)
      BY <1>1, <1>2
    <2> QED BY <1>2, <2>1, <2>2 DEF Sizes
  <1> HIDE DEF N
  <1> DEFINE h == [n \in 0 .. N + 1 |-> IF n = N + 1 THEN g[N] + Size(b, p) ELSE g[n]]
  <1>5. /\ h = [n \in 0 .. N + 1 |-> h[n]] /\ h[N + 1] = g[N] + Size(b, p)
        /\ \A n \in 0 .. N : h[n] = g[n]
    BY <1>1
  <1> HIDE DEF h
  <1>6. Sums(h, Sizes(r, p), N + 1)
    <2>1. h[0] = 0
      <3>1. 0 \in 0 .. N
        BY <1>1
      <3> QED BY <1>3, <1>5, <3>1 DEF Sums
    <2>2. ASSUME NEW n \in 1 .. N + 1 PROVE h[n] = h[n - 1] + Sizes(r, p)[n]
      <3>0. n - 1 \in 0 .. N
        BY <1>1
      <3>1. h[n - 1] = g[n - 1]
        BY <1>5, <3>0
      <3>2. CASE n = N + 1
        <4>1. n - 1 = N
          BY <1>1, <3>2
        <4> QED BY <1>4, <1>5, <3>1, <3>2, <4>1
      <3>3. CASE n # N + 1
        <4>1. n \in 1 .. N /\ n \in 0 .. N
          BY <1>1, <3>3
        <4> QED BY <1>3, <1>4, <1>5, <3>1, <4>1 DEF Sums
      <3> QED BY <3>2, <3>3
    <2> QED BY <1>5, <2>1, <2>2 DEF Sums
  <1>7. Load(r, p) = h[N + 1]
    BY <1>1, <1>2, <1>6, LoadIs
  <1> QED BY <1>3, <1>5, <1>7 DEF r

(* What is left of a queue behind its first n members.                     *)
LEMMA LoadBehind ==
  ASSUME NEW q \in Seq(Queued), NEW n \in 0 .. Len(q), NEW p
  PROVE  Load(SubSeq(q, n + 1, Len(q)), p) <= Load(q, p)
  <1> DEFINE N == Len(q)
             r == SubSeq(q, n + 1, Len(q))
             k == N - n
  <1>1. N \in Nat /\ n \in 0 .. N /\ k \in Nat /\ n + k = N
    OBVIOUS
  <1>2. r \in Seq(Queued) /\ Len(r) = k /\ \A i \in 1 .. k : r[i] = q[i + n]
    OBVIOUS
  <1>3. PICK g : /\ Sums(g, Sizes(q, p), N) /\ g[N] = Load(q, p)
                 /\ \A i \in 0 .. N : g[i] \in Nat
    BY LoadOf
  <1> HIDE DEF r
  <1>4. \A i \in 1 .. k : i + n \in 1 .. N /\ Sizes(r, p)[i] = Sizes(q, p)[i + n]
    <2> TAKE i \in 1 .. k
    <2>1. i + n \in 1 .. N
      BY <1>1
    <2> QED BY <1>2, <2>1 DEF Sizes
  <1> HIDE DEF N, k
  <1> DEFINE h == [i \in 0 .. k |-> g[i + n] - g[n]]
  <1>5. h = [i \in 0 .. k |-> h[i]] /\ \A i \in 0 .. k : h[i] = g[i + n] - g[n]
    OBVIOUS
  <1> HIDE DEF h
  <1>6. g[n] \in Nat /\ g[N] \in Nat /\ g[k + n] = g[N]
    <2>1. N \in 0 .. N /\ k + n = N
      BY <1>1
    <2> QED BY <1>1, <1>3, <2>1
  <1>7. Sums(h, Sizes(r, p), k)
    <2>1. h[0] = 0
      <3>1. 0 \in 0 .. k /\ 0 + n = n
        BY <1>1
      <3> QED BY <1>5, <1>6, <3>1
    <2>2. ASSUME NEW i \in 1 .. k PROVE h[i] = h[i - 1] + Sizes(r, p)[i]
      <3>1. i \in 0 .. k /\ i - 1 \in 0 .. k /\ (i - 1) + n = (i + n) - 1
        BY <1>1
      <3>2. h[i] = g[i + n] - g[n] /\ h[i - 1] = g[(i + n) - 1] - g[n]
        BY <1>5, <3>1
      <3>3. g[i + n] = g[(i + n) - 1] + Sizes(q, p)[i + n]
        BY <1>3, <1>4 DEF Sums
      <3>4. g[(i + n) - 1] \in Nat /\ Sizes(q, p)[i + n] \in Nat
        <4>1. (i + n) - 1 \in 0 .. N
          BY <1>1, <1>4
        <4>2. i + n \in 1 .. Len(q)
          BY <1>4 DEF N
        <4> QED BY <1>3, <4>1, <4>2, SizesAre
      <3> QED BY <1>4, <1>6, <3>2, <3>3, <3>4
    <2> QED BY <1>5, <2>1, <2>2 DEF Sums
  <1>8. Load(r, p) = h[k]
    BY <1>1, <1>2, <1>7, LoadIs
  <1>9. h[k] = g[N] - g[n]
    <2>1. k \in 0 .. k
      BY <1>1
    <2> QED BY <1>5, <1>6, <2>1
  <1>10. h[k] <= g[N]
    BY <1>6, <1>9
  <1> QED BY <1>3, <1>8, <1>10 DEF r, N

(* A block that goes, and one that gets shorter.                           *)
LEMMA LoadWithout ==
  ASSUME NEW q \in Seq(Queued), NEW at \in 1 .. Len(q), NEW p
  PROVE  Load(SubSeq(q, 1, at - 1) \o SubSeq(q, at + 1, Len(q)), p)
           = Load(q, p) - Size(q[at], p)
  <1> DEFINE N == Len(q)
             a == SubSeq(q, 1, at - 1)
             b == SubSeq(q, at + 1, Len(q))
             r == a \o b
             w == Size(q[at], p)
  <1>1. N \in Nat \ {0} /\ at \in 1 .. N /\ at - 1 \in Nat /\ q[at] \in Queued
    OBVIOUS
  <1>2. /\ a \in Seq(Queued) /\ Len(a) = at - 1
        /\ \A i \in 1 .. at - 1 : a[i] = q[i]
    OBVIOUS
  <1>3. /\ b \in Seq(Queued) /\ Len(b) = N - at
        /\ \A i \in 1 .. N - at : b[i] = q[i + at]
    OBVIOUS
  <1> HIDE DEF a, b
  <1>4. /\ r \in Seq(Queued) /\ Len(r) = N - 1
        /\ \A i \in 1 .. at - 1 : r[i] = q[i]
        /\ \A i \in at .. N - 1 : r[i] = q[i + 1]
    <2>1. /\ r \in Seq(Queued) /\ Len(r) = Len(a) + Len(b)
          /\ \A i \in 1 .. Len(a) : r[i] = a[i]
          /\ \A i \in 1 .. Len(b) : r[i + Len(a)] = b[i]
      <3>1. a \in Seq(Queued) /\ b \in Seq(Queued)
        BY <1>2, <1>3
      <3> QED BY <3>1, JoinIs
    <2> HIDE DEF r, N
    <2>2. Len(r) = N - 1
      BY <1>1, <1>2, <1>3, <2>1
    <2>3. \A i \in 1 .. at - 1 : r[i] = q[i]
      BY <1>2, <2>1
    <2>4. ASSUME NEW i \in at .. N - 1 PROVE r[i] = q[i + 1]
      <3> DEFINE j == i - (at - 1)
      <3>1. j \in 1 .. N - at /\ i = j + Len(a) /\ j + at = i + 1
        BY <1>1, <1>2
      <3> HIDE DEF j
      <3> QED BY <1>3, <2>1, <3>1
    <2> QED BY <2>1, <2>2, <2>3, <2>4
  <1>5. PICK g : /\ Sums(g, Sizes(q, p), N) /\ g[N] = Load(q, p)
                 /\ \A i \in 0 .. N : g[i] \in Nat
    BY LoadOf
  <1>6. w \in Nat
    BY <1>1, SizeIs
  <1>7. \A i \in 1 .. N : Sizes(q, p)[i] = Size(q[i], p) /\ Size(q[i], p) \in Nat
    BY SizesAre
  <1> HIDE DEF r, N, w
  <1>8. \A i \in 1 .. N - 1 : Sizes(r, p)[i] = Size(r[i], p)
    BY <1>4 DEF Sizes
  <1> DEFINE h == [i \in 0 .. N - 1 |-> IF i < at THEN g[i] ELSE g[i + 1] - w]
  <1>9. /\ h = [i \in 0 .. N - 1 |-> h[i]]
        /\ \A i \in 0 .. at - 1 : h[i] = g[i]
        /\ \A i \in at .. N - 1 : h[i] = g[i + 1] - w
    BY <1>1
  <1> HIDE DEF h
  <1>10. \A i \in 1 .. N : g[i] = g[i - 1] + Size(q[i], p)
    BY <1>5, <1>7 DEF Sums
  <1>11. g[at] = g[at - 1] + w
    BY <1>1, <1>10 DEF w
  <1>12. Sums(h, Sizes(r, p), N - 1)
    <2>1. h[0] = 0
      <3>1. 0 \in 0 .. at - 1
        BY <1>1
      <3> QED BY <1>5, <1>9, <3>1 DEF Sums
    <2>2. ASSUME NEW i \in 1 .. N - 1 PROVE h[i] = h[i - 1] + Sizes(r, p)[i]
      <3>1. CASE i < at
        <4>1. i \in 0 .. at - 1 /\ i - 1 \in 0 .. at - 1 /\ i \in 1 .. at - 1 /\ i \in 1 .. N
          BY <1>1, <3>1
        <4> QED BY <1>4, <1>8, <1>9, <1>10, <4>1
      <3>2. CASE i = at
        <4>1. i \in at .. N - 1 /\ i - 1 \in 0 .. at - 1 /\ i - 1 = at - 1 /\ i + 1 \in 1 .. N
          BY <1>1, <3>2
        <4>2. h[i] = g[i + 1] - w /\ h[i - 1] = g[at - 1] /\ r[i] = q[i + 1]
          BY <1>4, <1>9, <4>1
        <4>3. g[i + 1] = g[i + 1 - 1] + Size(q[i + 1], p) /\ i + 1 - 1 = at
          BY <1>1, <1>10, <3>2, <4>1
        <4>4. g[at - 1] \in Nat /\ Size(q[i + 1], p) \in Nat
          <5>1. at - 1 \in 0 .. N
            BY <1>1
          <5> QED BY <1>5, <1>7, <4>1, <5>1
        <4> QED BY <1>6, <1>8, <1>11, <4>2, <4>3, <4>4
      <3>3. CASE i > at
        <4>1. /\ i \in at .. N - 1 /\ i - 1 \in at .. N - 1 /\ i + 1 \in 1 .. N
              /\ i - 1 + 1 = i /\ i + 1 - 1 = i /\ i \in 0 .. N
          BY <1>1, <3>3
        <4>2. h[i] = g[i + 1] - w /\ h[i - 1] = g[i] - w /\ r[i] = q[i + 1]
          BY <1>4, <1>9, <4>1
        <4>3. g[i + 1] = g[i] + Size(q[i + 1], p)
          BY <1>10, <4>1
        <4>4. g[i] \in Nat /\ Size(q[i + 1], p) \in Nat
          BY <1>5, <1>7, <4>1
        <4> QED BY <1>6, <1>8, <4>2, <4>3, <4>4
      <3> QED BY <1>1, <3>1, <3>2, <3>3
    <2> QED BY <1>9, <2>1, <2>2 DEF Sums
  <1>13. N - 1 \in Nat
    BY <1>1
  <1>14. Load(r, p) = h[N - 1]
    BY <1>4, <1>12, <1>13, LoadIs
  <1>15. h[N - 1] = g[N] - w
    <2>1. CASE at = N
      <3>1. N - 1 \in 0 .. at - 1 /\ N - 1 = at - 1 /\ at - 1 \in 0 .. N
        BY <1>1, <2>1
      <3>2. g[at - 1] \in Nat /\ h[N - 1] = g[at - 1]
        BY <1>5, <1>9, <3>1
      <3> QED BY <1>6, <1>11, <2>1, <3>2
    <2>2. CASE at # N
      <3>1. N - 1 \in at .. N - 1 /\ N - 1 + 1 = N
        BY <1>1, <2>2
      <3> QED BY <1>9, <3>1
    <2> QED BY <2>1, <2>2
  <1> QED BY <1>5, <1>14, <1>15 DEF r, a, b, w, N

LEMMA LoadShortened ==
  ASSUME NEW q \in Seq(Queued), NEW at \in 1 .. Len(q), NEW b \in Queued, NEW p
  PROVE  Load([q EXCEPT ![at] = b], p) = Load(q, p) - Size(q[at], p) + Size(b, p)
  <1> DEFINE N == Len(q)
             r == [q EXCEPT ![at] = b]
             d == Size(b, p) - Size(q[at], p)
  <1>1. N \in Nat \ {0} /\ at \in 1 .. N /\ q[at] \in Queued
    OBVIOUS
  <1>2. r \in Seq(Queued) /\ Len(r) = N /\ r[at] = b /\ \A i \in (1 .. N) \ {at} : r[i] = q[i]
    OBVIOUS
  <1>3. PICK g : /\ Sums(g, Sizes(q, p), N) /\ g[N] = Load(q, p)
                 /\ \A i \in 0 .. N : g[i] \in Nat
    BY LoadOf
  <1>4. Size(q[at], p) \in Nat /\ Size(b, p) \in Nat /\ d \in Int
    BY <1>1, SizeIs
  <1>5. \A i \in 1 .. N : Sizes(q, p)[i] = Size(q[i], p) /\ Size(q[i], p) \in Nat
    BY SizesAre
  <1> HIDE DEF r, N
  <1>6. \A i \in 1 .. N : Sizes(r, p)[i] = Size(r[i], p)
    BY <1>2 DEF Sizes
  <1>7. \A i \in 1 .. N : g[i] = g[i - 1] + Size(q[i], p)
    BY <1>3, <1>5 DEF Sums
  <1> HIDE DEF d
  <1> DEFINE h == [i \in 0 .. N |-> IF i < at THEN g[i] ELSE g[i] + d]
  <1>8. /\ h = [i \in 0 .. N |-> h[i]]
        /\ \A i \in 0 .. at - 1 : h[i] = g[i]
        /\ \A i \in at .. N : h[i] = g[i] + d
    BY <1>1
  <1> HIDE DEF h
  <1>9. Sums(h, Sizes(r, p), N)
    <2>1. h[0] = 0
      <3>1. 0 \in 0 .. at - 1
        BY <1>1
      <3> QED BY <1>3, <1>8, <3>1 DEF Sums
    <2>2. ASSUME NEW i \in 1 .. N PROVE h[i] = h[i - 1] + Sizes(r, p)[i]
      <3>0. i - 1 \in 0 .. N /\ g[i - 1] \in Nat /\ Size(q[i], p) \in Nat
        <4>1. i - 1 \in 0 .. N
          BY <1>1
        <4> QED BY <1>3, <1>5, <4>1
      <3>1. CASE i < at
        <4>1. i \in 0 .. at - 1 /\ i - 1 \in 0 .. at - 1 /\ i \in (1 .. N) \ {at}
          BY <1>1, <3>1
        <4>2. h[i] = g[i] /\ h[i - 1] = g[i - 1]
          BY <1>8, <4>1
        <4>3. Sizes(r, p)[i] = Size(q[i], p)
          BY <1>2, <1>6, <4>1
        <4> QED BY <1>7, <4>2, <4>3
      <3>2. CASE i = at
        <4>1. i \in at .. N /\ i - 1 \in 0 .. at - 1
          BY <1>1, <3>2
        <4>2. h[i] = g[i] + d /\ h[i - 1] = g[i - 1]
          BY <1>8, <4>1
        <4>3. g[i] = g[i - 1] + Size(q[at], p) /\ Sizes(r, p)[i] = Size(b, p)
          BY <1>2, <1>6, <1>7, <3>2
        <4> DEFINE x == Size(q[at], p)
                   y == Size(b, p)
        <4>4. x \in Nat /\ y \in Nat /\ d = y - x
          BY <1>4 DEF d
        <4> HIDE DEF x, y
        <4>5. g[i] = g[i - 1] + x /\ Sizes(r, p)[i] = y
          BY <4>3 DEF x, y
        <4> QED BY <3>0, <4>2, <4>4, <4>5
      <3>3. CASE i > at
        <4>1. i \in at .. N /\ i - 1 \in at .. N /\ i \in (1 .. N) \ {at}
          BY <1>1, <3>3
        <4>2. h[i] = g[i] + d /\ h[i - 1] = g[i - 1] + d
          BY <1>8, <4>1
        <4>3. g[i] = g[i - 1] + Size(q[i], p) /\ Sizes(r, p)[i] = Size(q[i], p)
          BY <1>2, <1>6, <1>7, <4>1
        <4> QED BY <1>4, <3>0, <4>2, <4>3
      <3> QED BY <1>1, <3>1, <3>2, <3>3
    <2> QED BY <1>8, <2>1, <2>2 DEF Sums
  <1>10. Load(r, p) = h[N]
    BY <1>1, <1>2, <1>9, LoadIs
  <1>11. h[N] = g[N] + d /\ g[N] \in Nat
    <2>1. N \in at .. N /\ N \in 0 .. N
      BY <1>1
    <2> QED BY <1>3, <1>8, <2>1
  <1>12. h[N] = g[N] - Size(q[at], p) + Size(b, p)
    BY <1>4, <1>11 DEF d
  <1> QED BY <1>3, <1>10, <1>12 DEF r, N

(* What is kept of a queue.                                                *)
LEMMA LoadKept ==
  ASSUME NEW q \in Seq(Queued), NEW S, NEW p
  PROVE  Load(Kept(q, S), p) <= Load(q, p)
  <1> DEFINE kept[n \in 0 .. Len(q)] ==
               IF n = 0 THEN <<>>
               ELSE IF q[n] \in S THEN Append(kept[n - 1], q[n]) ELSE kept[n - 1]
  <1>2. kept = [n \in 0 .. Len(q) |-> KeptStep(q, S, kept, n)]
    <2>1. PICK f : f = [n \in 0 .. Len(q) |-> KeptStep(q, S, f, n)]
      BY KeptExists
    <2>2. f = [n \in 0 .. Len(q) |->
                IF n = 0 THEN <<>>
                ELSE IF q[n] \in S THEN Append(f[n - 1], q[n]) ELSE f[n - 1]]
      BY <2>1 DEF KeptStep
    <2>3. kept = [n \in 0 .. Len(q) |->
                   IF n = 0 THEN <<>>
                   ELSE IF q[n] \in S THEN Append(kept[n - 1], q[n]) ELSE kept[n - 1]]
      BY <2>2
    <2> HIDE DEF kept
    <2> QED BY <2>3 DEF KeptStep
  <1>3. Kept(q, S) = kept[Len(q)]
    BY DEF Kept
  <1> HIDE DEF kept
  <1> DEFINE N == Len(q)
  <1>1. N \in Nat /\ \A n \in 1 .. N : q[n] \in Queued
    OBVIOUS
  <1>4. kept = [n \in 0 .. N |-> KeptStep(q, S, kept, n)]
    BY <1>2
  <1>5. PICK g : /\ Sums(g, Sizes(q, p), N) /\ g[N] = Load(q, p)
                 /\ \A i \in 0 .. N : g[i] \in Nat
    BY LoadOf
  <1>6. \A n \in 1 .. N : Sizes(q, p)[n] = Size(q[n], p) /\ Size(q[n], p) \in Nat
    BY SizesAre
  <1> HIDE DEF N
  <1>7. /\ 0 \in 0 .. N /\ N \in 0 .. N
        /\ \A n \in 1 .. N : n \in 0 .. N /\ n - 1 \in 0 .. N /\ n # 0
    BY <1>1
  <1>8. kept[0] = <<>> /\ \A n \in 1 .. N : kept[n] = KeptStep(q, S, kept, n)
    BY <1>4, <1>7 DEF KeptStep
  <1>9. g[0] = 0 /\ \A n \in 1 .. N : g[n] = g[n - 1] + Size(q[n], p)
    BY <1>5, <1>6 DEF Sums
  <1> DEFINE T == {n \in 0 .. N : kept[n] \in Seq(Queued) /\ Load(kept[n], p) <= g[n]}
  <1>10. 0 \in T
    <2>1. <<>> \in Seq(Queued) /\ Range(<<>>) = {}
      BY DEF Range
    <2>2. Load(<<>>, p) = 0
      BY <2>1, LoadNone
    <2>3. kept[0] \in Seq(Queued) /\ Load(kept[0], p) <= g[0] /\ 0 \in 0 .. N
      BY <1>7, <1>8, <1>9, <2>1, <2>2
    <2> QED BY <2>3
  <1>11. ASSUME NEW n \in 1 .. N, n - 1 \in T PROVE n \in T
    <2>1. kept[n - 1] \in Seq(Queued) /\ Load(kept[n - 1], p) <= g[n - 1]
      BY <1>11
    <2>2. /\ g[n - 1] \in Nat /\ g[n] = g[n - 1] + Size(q[n], p) /\ Size(q[n], p) \in Nat
          /\ q[n] \in Queued /\ n \in 0 .. N /\ n # 0
      BY <1>1, <1>5, <1>6, <1>7, <1>9
    <2>3. Load(kept[n - 1], p) \in Nat
      BY <2>1, LoadOf
    <2>4. CASE q[n] \in S
      <3>1. kept[n] = Append(kept[n - 1], q[n])
        BY <1>8, <2>2, <2>4 DEF KeptStep
      <3>2. kept[n] \in Seq(Queued)
        BY <2>1, <2>2, <3>1, Appended
      <3>3. Load(kept[n], p) = Load(kept[n - 1], p) + Size(q[n], p)
        BY <2>1, <2>2, <3>1, LoadAppended
      <3>4. Load(kept[n], p) <= g[n]
        BY <2>1, <2>2, <2>3, <3>3
      <3> QED BY <2>2, <3>2, <3>4
    <2>5. CASE q[n] \notin S
      <3>1. kept[n] = kept[n - 1]
        BY <1>8, <2>2, <2>5 DEF KeptStep
      <3>2. Load(kept[n], p) <= g[n]
        BY <2>1, <2>2, <2>3, <3>1
      <3> QED BY <2>1, <2>2, <3>1, <3>2
    <2> QED BY <2>4, <2>5
  <1> HIDE DEF T
  <1>12. N \in T
    BY <1>1, <1>7, <1>10, <1>11, Induction
  <1> QED BY <1>3, <1>5, <1>12 DEF T, N

(* The size of the blocks of a pane is its load.                           *)
LEMMA SizeOfIs ==
  ASSUME NEW q \in Seq(Queued), NEW p, \A b \in Range(q) : OfPane(b, p)
  PROVE  SizeOf(q) = Load(q, p)
  <1> DEFINE N == Len(q)
             sum[n \in 0 .. N] == IF n = 0 THEN 0 ELSE sum[n - 1] + q[n].size
  <1>1. N \in Nat /\ SizeOf(q) = sum[N]
    BY DEF SizeOf
  <1>2. \A n \in 1 .. N : Sizes(q, p)[n] = q[n].size
    BY SizesAre DEF Size, Range
  <1>3. PICK g : Sums(g, Sizes(q, p), N) /\ g[N] = Load(q, p)
    BY LoadOf
  <1> HIDE DEF sum, N
  <1>4. /\ 0 \in 0 .. N /\ N \in 0 .. N
        /\ \A n \in 1 .. N : n \in 0 .. N /\ n - 1 \in 0 .. N /\ n # 0
        /\ \A n \in 0 .. N : n # 0 => n \in 1 .. N
    BY <1>1
  <1>5. g = [n \in 0 .. N |-> IF n = 0 THEN 0 ELSE g[n - 1] + q[n].size]
    <2>1. \A n \in 0 .. N : g[n] = IF n = 0 THEN 0 ELSE g[n - 1] + q[n].size
      BY <1>2, <1>3, <1>4 DEF Sums
    <2> QED BY <1>3, <2>1 DEF Sums
  <1>6. sum = [n \in 0 .. N |-> IF n = 0 THEN 0 ELSE sum[n - 1] + q[n].size]
    BY <1>5 DEF sum
  <1>7. Sums(sum, Sizes(q, p), N)
    <2>1. sum[0] = 0 /\ \A n \in 1 .. N : sum[n] = sum[n - 1] + q[n].size
      BY <1>4, <1>6
    <2>2. sum = [n \in 0 .. N |-> sum[n]]
      BY <1>6
    <2> QED BY <1>2, <2>1, <2>2 DEF Sums
  <1>8. g[N] = sum[N]
    BY <1>1, <1>3, <1>7, SumsAgree
  <1> QED BY <1>1, <1>3, <1>8

LEMMA BlocksWeigh ==
  ASSUME NEW s \in ControlClient, NEW p
  PROVE  SizeOf(BlocksOf(s, p)) \in Nat /\ SizeOf(BlocksOf(s, p)) <= Load(s.all, p)
  <1> DEFINE S == {cb \in Range(s.all) : OfPane(cb, p)}
             q == Kept(s.all, S)
  <1>1. s.all \in Seq(Queued) /\ BlocksOf(s, p) = q
    BY ClientIs DEF BlocksOf
  <1>2. q \in Seq(Queued) /\ Range(q) = Range(s.all) \cap S
    BY <1>1, KeptIs
  <1>3. Load(q, p) <= Load(s.all, p)
    BY <1>1, LoadKept
  <1>4. \A b \in Range(q) : OfPane(b, p)
    BY <1>2
  <1> HIDE DEF q
  <1>5. SizeOf(q) = Load(q, p) /\ Load(q, p) \in Nat
    BY <1>2, <1>4, SizeOfIs, LoadOf
  <1> QED BY <1>1, <1>3, <1>5

-----------------------------------------------------------------------------
(* The output of all panes is no less than that of one: what the sum over  *)
(* a finite set is, by the number of members.                              *)
Some(s) == CHOOSE x \in s : TRUE
SumStep(f, g, s) == IF s = {} THEN 0 ELSE f[Some(s)] + g[s \ {Some(s)}]
SumsUp(g, f, S) == g = [s \in SUBSET S |-> SumStep(f, g, s)]
UpTo(S, n) == {s \in SUBSET S : Cardinality(s) <= n}

LEMMA SmallerSets ==
  ASSUME NEW S, IsFiniteSet(S)
  PROVE  /\ Cardinality(S) \in Nat /\ SUBSET S = UpTo(S, Cardinality(S))
         /\ \A s \in SUBSET S :
              /\ Cardinality(s) \in Nat /\ (Cardinality(s) = 0 <=> s = {})
              /\ s # {} =>
                   /\ Some(s) \in s /\ s \ {Some(s)} \in SUBSET S
                   /\ Cardinality(s \ {Some(s)}) = Cardinality(s) - 1
  <1>1. ASSUME NEW s \in SUBSET S
        PROVE  /\ IsFiniteSet(s) /\ Cardinality(s) \in Nat /\ Cardinality(s) <= Cardinality(S)
               /\ Cardinality(s) = 0 <=> s = {}
    BY FS_Subset, FS_CardinalityType, FS_EmptySet
  <1>2. ASSUME NEW s \in SUBSET S, s # {}
        PROVE  /\ Some(s) \in s /\ s \ {Some(s)} \in SUBSET S
               /\ Cardinality(s \ {Some(s)}) = Cardinality(s) - 1
    <2>1. Some(s) \in s
      BY <1>2 DEF Some
    <2>2. Cardinality(s \ {Some(s)}) = Cardinality(s) - 1
      BY <1>1, <2>1, FS_RemoveElement
    <2> QED BY <2>1, <2>2
  <1>3. Cardinality(S) \in Nat
    BY FS_CardinalityType
  <1> QED BY <1>1, <1>2, <1>3 DEF UpTo

LEMMA SumExists ==
  ASSUME NEW S, IsFiniteSet(S), NEW f
  PROVE  \E g : SumsUp(g, f, S)
  <1> DEFINE T == {n \in Nat : \E g : g = [s \in UpTo(S, n) |-> SumStep(f, g, s)]}
             N == Cardinality(S)
  <1>1. 0 \in T
    <2> DEFINE g == [s \in UpTo(S, 0) |-> 0]
    <2>1. ASSUME NEW s \in UpTo(S, 0) PROVE s = {}
      <3>1. s \in SUBSET S /\ Cardinality(s) <= 0
        BY DEF UpTo
      <3>2. Cardinality(s) \in Nat /\ (Cardinality(s) = 0 <=> s = {})
        BY <3>1, SmallerSets
      <3> QED BY <3>1, <3>2
    <2>2. g = [s \in UpTo(S, 0) |-> SumStep(f, g, s)]
      BY <2>1 DEF SumStep
    <2> HIDE DEF g
    <2> QED BY <2>2
  <1>2. ASSUME NEW n \in 1 .. N, n - 1 \in T PROVE n \in T
    <2>1. PICK g : g = [s \in UpTo(S, n - 1) |-> SumStep(f, g, s)]
      BY <1>2
    <2> DEFINE h == [s \in UpTo(S, n) |-> SumStep(f, g, s)]
    <2>2. n \in Nat /\ n - 1 \in Nat /\ N \in Nat
      BY SmallerSets
    <2>3. \A s \in UpTo(S, n - 1) : s \in UpTo(S, n) /\ h[s] = g[s]
      <3>1. ASSUME NEW s \in UpTo(S, n - 1) PROVE s \in UpTo(S, n)
        <4>1. s \in SUBSET S /\ Cardinality(s) <= n - 1
          BY DEF UpTo
        <4>2. Cardinality(s) \in Nat
          BY <4>1, SmallerSets
        <4>3. Cardinality(s) <= n
          BY <2>2, <4>1, <4>2
        <4> QED BY <4>1, <4>3 DEF UpTo
      <3> QED BY <2>1, <3>1
    <2>4. ASSUME NEW s \in UpTo(S, n) PROVE h[s] = SumStep(f, h, s)
      <3>1. CASE s = {}
        BY <3>1 DEF SumStep
      <3>2. CASE s # {}
        <4>1. s \ {Some(s)} \in UpTo(S, n - 1)
          BY <2>2, <3>2, SmallerSets DEF UpTo
        <4>2. h[s \ {Some(s)}] = g[s \ {Some(s)}]
          BY <2>3, <4>1
        <4> QED BY <4>2 DEF SumStep
      <3> QED BY <3>1, <3>2
    <2>5. h = [s \in UpTo(S, n) |-> h[s]]
      OBVIOUS
    <2> HIDE DEF h
    <2>6. h = [s \in UpTo(S, n) |-> SumStep(f, h, s)]
      BY <2>4, <2>5
    <2> QED BY <2>2, <2>6
  <1> HIDE DEF T
  <1>3. N \in Nat /\ SUBSET S = UpTo(S, N)
    BY SmallerSets
  <1>4. N \in T
    <2> HIDE DEF N
    <2>1. N \in 0 .. N
      BY <1>3
    <2> QED BY <1>1, <1>2, <1>3, <2>1, Induction
  <1> QED BY <1>3, <1>4 DEF T, SumsUp

LEMMA SumIs ==
  ASSUME NEW S, IsFiniteSet(S), NEW f, \A x \in S : f[x] \in Nat,
         NEW g, SumsUp(g, f, S)
  PROVE  g[S] \in Nat /\ \A x \in S : f[x] <= g[S]
  <1> DEFINE P(s) == g[s] \in Nat /\ \A x \in s : f[x] <= g[s]
             T == {n \in Nat : \A s \in SUBSET S : Cardinality(s) = n => P(s)}
             N == Cardinality(S)
  <1>1. \A s \in SUBSET S : g[s] = SumStep(f, g, s)
    BY DEF SumsUp
  <1>2. 0 \in T
    <2>1. g[{}] = 0
      BY <1>1 DEF SumStep
    <2>2. \A s \in SUBSET S : Cardinality(s) = 0 => s = {}
      BY SmallerSets
    <2>3. P({})
      BY <2>1
    <2> HIDE DEF P
    <2> QED BY <2>2, <2>3
  <1>3. ASSUME NEW n \in 1 .. N, n - 1 \in T PROVE n \in T
    <2>1. n \in Nat /\ N \in Nat
      BY SmallerSets
    <2> SUFFICES ASSUME NEW s \in SUBSET S, Cardinality(s) = n PROVE P(s)
      BY <2>1
    <2> DEFINE x == Some(s)
               r == s \ {x}
    <2>2. s # {}
      <3>1. Cardinality(s) = 0 <=> s = {}
        BY SmallerSets
      <3>2. n # 0
        BY <2>1
      <3> QED BY <3>1, <3>2
    <2>3. x \in s /\ r \in SUBSET S /\ Cardinality(r) = n - 1
      BY <2>2, SmallerSets
    <2>4. g[r] \in Nat /\ \A y \in r : f[y] <= g[r]
      BY <1>3, <2>3
    <2>5. g[s] = f[x] + g[r]
      BY <1>1, <2>2 DEF SumStep
    <2>6. f[x] \in Nat /\ \A y \in s : y = x \/ y \in r
      BY <2>3
    <2> HIDE DEF x, r
    <2>7. ASSUME NEW y \in s PROVE f[y] <= g[s]
      <3>1. CASE y = x
        BY <2>4, <2>5, <2>6, <3>1
      <3>2. CASE y \in r
        <4>1. f[y] \in Nat /\ f[y] <= g[r]
          BY <2>4, <3>2
        <4> QED BY <2>4, <2>5, <2>6, <4>1
      <3> QED BY <2>6, <3>1, <3>2
    <2>8. g[s] \in Nat
      BY <2>4, <2>5, <2>6
    <2> QED BY <2>7, <2>8
  <1> HIDE DEF T
  <1>4. N \in Nat
    BY SmallerSets
  <1>5. N \in T
    <2> HIDE DEF N
    <2>1. N \in 0 .. N
      BY <1>4
    <2> QED BY <1>2, <1>3, <1>4, <2>1, Induction
  <1> QED BY <1>5 DEF T

LEMMA TotalIs ==
  ASSUME NEW p \in Panes, \A q \in Panes : pane[q].total \in Nat
  PROVE  /\ MapThenSumSet(LAMBDA q : pane[q].total, Panes) \in Nat
         /\ pane[p].total <= MapThenSumSet(LAMBDA q : pane[q].total, Panes)
  <1> DEFINE iter[s \in SUBSET Panes] ==
               IF s = {} THEN 0
               ELSE LET x == CHOOSE x \in s : TRUE IN pane[x].total + iter[s \ {x}]
             f == [q \in Panes |-> pane[q].total]
  <1>1. MapThenSumSet(LAMBDA q : pane[q].total, Panes) = iter[Panes]
    BY DEF MapThenSumSet, MapThenFoldSet
  <1>2. PICK g : SumsUp(g, f, Panes)
    <2> HIDE DEF f
    <2> QED BY PanesAssumption, SumExists
  <1>3. ASSUME NEW s \in SUBSET Panes, s # {} PROVE f[Some(s)] = pane[Some(s)].total
    <2>1. Some(s) \in s
      BY <1>3 DEF Some
    <2> QED BY <2>1
  <1>4. g = [s \in SUBSET Panes |->
               IF s = {} THEN 0
               ELSE LET x == CHOOSE x \in s : TRUE IN pane[x].total + g[s \ {x}]]
    BY <1>2, <1>3 DEF SumStep, Some, SumsUp
  <1>5. iter = [s \in SUBSET Panes |->
                  IF s = {} THEN 0
                  ELSE LET x == CHOOSE x \in s : TRUE IN pane[x].total + iter[s \ {x}]]
    BY <1>4
  <1> HIDE DEF iter
  <1>6. SumsUp(iter, f, Panes)
    BY <1>3, <1>5 DEF SumStep, Some, SumsUp
  <1>7. \A q \in Panes : f[q] \in Nat /\ f[q] = pane[q].total
    OBVIOUS
  <1> HIDE DEF f
  <1>8. iter[Panes] \in Nat /\ f[p] <= iter[Panes]
    BY <1>6, <1>7, PanesAssumption, SumIs
  <1> QED BY <1>1, <1>7, <1>8

-----------------------------------------------------------------------------
(* How an operator changes a client: but for the panes P, no control_pane  *)
(* changes and no more is queued; and a notification waits for the end of  *)
(* a block, or is written.                                                 *)
Lasting == {"exit", "nooutput", "fatal", "lost"}
Quiet(s, t) == t.depth = s.depth /\ (s.depth = 0 => t.deferred = s.deferred)
Eased(s, t, p) == t.panes[p] = s.panes[p] /\ Load(t.all, p) <= Load(s.all, p)
Eases(s, t, P) ==
  /\ t \in ControlClient
  /\ \A flag \in Lasting : flag \in s.flags => flag \in t.flags
  /\ \A p \in Panes \ P : Eased(s, t, p)
Touches(s, t, P) == Eases(s, t, P) /\ Quiet(s, t)

(* The bytes of a pane that a client needs, in a buffer that holds those   *)
(* from base to end: what it has blocks for is between what was written    *)
(* and what has a block, and what it does not take has no block.           *)
Bound(s, p, base, end) ==
  IF s.panes[p] = NoPane THEN Load(s.all, p) = 0
  ELSE LET cp == s.panes[p]
       IN  /\ cp.offset <= end /\ cp.queued <= end
           /\ cp.paused \/ cp.off => Load(s.all, p) = 0
           /\ Counted(s, p) =>
                /\ base <= cp.offset
                /\ "exit" \in s.flags \/ cp.offset + Load(s.all, p) <= cp.queued
Fits(s, w) ==
  \/ s.flags \cap {"fatal", "lost"} # {}
  \/ \A p \in Panes : Bound(s, p, w[p].base, w[p].offset)

LEMMA LoadIn ==
  ASSUME NEW s \in ControlClient, NEW p
  PROVE  Load(s.all, p) \in Nat
  BY ClientIs, LoadOf

LEMMA EasesOver ==
  ASSUME NEW s \in ControlClient, NEW t, NEW u, NEW P, NEW Q, NEW R,
         Eases(s, t, P), Eases(t, u, Q), P \subseteq R, Q \subseteq R
  PROVE  Eases(s, u, R)
  <1>1. t \in ControlClient /\ u \in ControlClient
    BY DEF Eases
  <1>2. ASSUME NEW p \in Panes \ R PROVE Eased(s, u, p)
    <2>1. Eased(s, t, p) /\ Eased(t, u, p)
      BY DEF Eases
    <2>2. Load(s.all, p) \in Nat /\ Load(t.all, p) \in Nat /\ Load(u.all, p) \in Nat
      BY <1>1, LoadIn
    <2>3. Load(u.all, p) <= Load(s.all, p)
      BY <2>1, <2>2 DEF Eased
    <2> QED BY <2>1, <2>3 DEF Eased
  <1>3. \A flag \in Lasting : flag \in s.flags => flag \in u.flags
    BY DEF Eases
  <1> QED BY <1>1, <1>2, <1>3 DEF Eases

LEMMA TouchesOver ==
  ASSUME NEW s \in ControlClient, NEW t, NEW u, NEW P, NEW Q, NEW R,
         Touches(s, t, P), Touches(t, u, Q), P \subseteq R, Q \subseteq R
  PROVE  Touches(s, u, R)
  <1>1. Eases(s, u, R)
    BY EasesOver DEF Touches
  <1>2. Quiet(s, u)
    BY DEF Touches, Quiet
  <1> QED BY <1>1, <1>2 DEF Touches

LEMMA TouchesTwice ==
  ASSUME NEW s \in ControlClient, NEW t, NEW u, NEW P, Touches(s, t, P), Touches(t, u, P)
  PROVE  Touches(s, u, P)
  BY TouchesOver

LEMMA TouchesSame ==
  ASSUME NEW s \in ControlClient, NEW P
  PROVE  Touches(s, s, P)
  <1>1. \A p \in Panes : Load(s.all, p) <= Load(s.all, p)
    <2> TAKE p \in Panes
    <2>1. Load(s.all, p) \in Nat
      BY LoadIn
    <2> QED BY <2>1
  <1> QED BY <1>1 DEF Touches, Eases, Eased, Quiet

(* An operator that leaves a pane alone leaves its bytes where they are.   *)
LEMMA BoundStays ==
  ASSUME NEW s \in ControlClient, NEW t, NEW P, Eases(s, t, P), NEW p \in Panes \ P,
         NEW base, NEW end, Bound(s, p, base, end)
  PROVE  Bound(t, p, base, end)
  <1>1. t \in ControlClient /\ t.panes[p] = s.panes[p] /\ Load(t.all, p) <= Load(s.all, p)
    BY DEF Eases, Eased
  <1>2. Load(s.all, p) \in Nat /\ Load(t.all, p) \in Nat
    BY <1>1, LoadIn
  <1>3. Load(s.all, p) = 0 => Load(t.all, p) = 0
    BY <1>1, <1>2
  <1>4. Counted(t, p) => Counted(s, p)
    BY <1>1 DEF Eases, Lasting, Counted
  <1>5. CASE s.panes[p] = NoPane
    BY <1>1, <1>3, <1>5 DEF Bound
  <1>6. CASE s.panes[p] # NoPane
    <2> DEFINE cp == s.panes[p]
    <2>1. cp.offset \in Nat /\ cp.queued \in Nat
      BY <1>6, HasPane DEF ControlPane
    <2>2. cp.offset + Load(s.all, p) <= cp.queued => cp.offset + Load(t.all, p) <= cp.queued
      BY <1>1, <1>2, <2>1
    <2>3. "exit" \in s.flags => "exit" \in t.flags
      BY DEF Eases, Lasting
    <2> HIDE DEF cp
    <2> QED BY <1>1, <1>3, <1>4, <1>6, <2>2, <2>3 DEF Bound, cp
  <1> QED BY <1>5, <1>6

(* A pane without blocks.                                                  *)
LEMMA Emptied ==
  ASSUME NEW s, NEW p, NEW base, NEW end, Load(s.all, p) = 0,
         s.panes[p] \in ControlPane, s.panes[p].offset <= end, s.panes[p].queued <= end,
         Counted(s, p) => base <= s.panes[p].offset /\ s.panes[p].offset <= s.panes[p].queued
  PROVE  Bound(s, p, base, end)
  <1>1. s.panes[p] # NoPane
    BY NoPaneAssumption
  <1>2. s.panes[p].offset \in Nat
    BY DEF ControlPane
  <1>3. s.panes[p].offset + Load(s.all, p) = s.panes[p].offset
    BY <1>2
  <1> QED BY <1>1, <1>3 DEF Bound

-----------------------------------------------------------------------------
(* Lines, and blocks that are dropped: no pane changes.                    *)
LEMMA TouchesQueue ==
  ASSUME NEW s \in ControlClient, NEW q \in Seq(Queued), NEW P,
         \A p \in Panes \ P : Load(q, p) <= Load(s.all, p)
  PROVE  LET t == [s EXCEPT !.all = q]
         IN  /\ Touches(s, t, P) /\ t \in ControlClient /\ t.all = q /\ t.panes = s.panes
             /\ t.flags = s.flags
  <1> DEFINE t == [s EXCEPT !.all = q]
  <1>1. /\ t \in ControlClient /\ t.all = q /\ t.panes = s.panes /\ t.flags = s.flags
        /\ t.depth = s.depth /\ t.deferred = s.deferred
    BY DEF ControlClient
  <1> HIDE DEF t
  <1>2. Touches(s, t, P)
    BY <1>1 DEF Touches, Eases, Eased, Quiet
  <1> QED BY <1>1, <1>2 DEF t

(* What differs from s in nothing that these are about.                    *)
Alike(s, t) ==
  /\ t \in ControlClient /\ t.all = s.all /\ t.panes = s.panes
  /\ t.depth = s.depth /\ t.deferred = s.deferred
LEMMA AlikeTouches ==
  ASSUME NEW s \in ControlClient, NEW t, Alike(s, t), NEW P,
         \A flag \in Lasting : flag \in s.flags => flag \in t.flags
  PROVE  Touches(s, t, P)
  <1>1. \A p \in Panes : Load(t.all, p) <= Load(s.all, p)
    <2> TAKE p \in Panes
    <2>1. Load(s.all, p) \in Nat
      BY LoadIn
    <2> QED BY <2>1 DEF Alike
  <1> QED BY <1>1 DEF Alike, Touches, Eases, Eased, Quiet

LEMMA PutTouches ==
  ASSUME NEW s \in ControlClient, NEW items \in Seq(ByteItem \cup LineItem), NEW P
  PROVE  Touches(s, Put(s, items), P)
  <1> DEFINE t == Put(s, items)
  <1>1. t \in ControlClient /\ t.all = s.all /\ t.panes = s.panes /\ t.flags = s.flags
    BY PutIs
  <1>2. t.depth = s.depth /\ t.deferred = s.deferred
    BY DEF Put, ControlClient
  <1> HIDE DEF t
  <1> QED BY <1>1, <1>2, AlikeTouches DEF Alike, t

LEMMA DiscardPaneTouches ==
  ASSUME NEW s \in ControlClient, NEW p, NEW P
  PROVE  LET t == DiscardPane(s, p)
         IN  /\ Touches(s, t, P) /\ t \in ControlClient /\ Load(t.all, p) = 0
             /\ t.panes = s.panes /\ t.flags = s.flags
  <1> DEFINE S == {cb \in Range(s.all) : ~OfPane(cb, p)}
             q == Kept(s.all, S)
  <1>1. s.all \in Seq(Queued) /\ q \in Seq(Queued) /\ Range(q) = Range(s.all) \cap S
    BY ClientIs, KeptIs
  <1>2. DiscardPane(s, p) = [s EXCEPT !.all = q]
    BY DEF DiscardPane, Without
  <1>3. \A r \in Panes : Load(q, r) <= Load(s.all, r)
    BY <1>1, LoadKept
  <1>4. Load(q, p) = 0
    BY <1>1, LoadNone
  <1> HIDE DEF q
  <1> QED BY <1>1, <1>2, <1>3, <1>4, TouchesQueue

LEMMA LinesLoad ==
  ASSUME NEW s \in ControlClient
  PROVE  Lines(s) \in Seq(Queued) /\ \A p : Load(Lines(s), p) = 0
  <1> DEFINE S == {cb \in Range(s.all) : ~IsOutput(cb)}
  <1>1. Lines(s) \in Seq(Queued) /\ Range(Lines(s)) = Range(s.all) \cap S
    BY ClientIs, KeptIs DEF Lines
  <1>2. \A p : Load(Lines(s), p) = 0
    <2> TAKE p
    <2>1. \A b \in Range(Lines(s)) : ~OfPane(b, p)
      BY <1>1 DEF OfPane
    <2> QED BY <1>1, <2>1, LoadNone
  <1> QED BY <1>1, <1>2

LEMMA DiscardTouches ==
  ASSUME NEW s \in ControlClient, NEW P
  PROVE  LET t == Discard(s)
         IN  /\ Touches(s, t, P) /\ t \in ControlClient /\ \A p : Load(t.all, p) = 0
             /\ t.panes = s.panes /\ t.flags = s.flags
  <1>1. \A p \in Panes : Load(Lines(s), p) <= Load(s.all, p)
    <2> TAKE p \in Panes
    <2>1. Load(s.all, p) \in Nat /\ Load(Lines(s), p) = 0
      BY LoadIn, LinesLoad
    <2> QED BY <2>1
  <1> QED BY <1>1, LinesLoad, TouchesQueue DEF Discard

LEMMA FlushAllTouches ==
  ASSUME NEW s \in ControlClient, NEW P
  PROVE  Touches(s, FlushAllBlocks(s), P)
  <1> DEFINE outputs == {i \in DOMAIN s.all : IsOutput(s.all[i])}
             n == IF outputs = {} THEN Len(s.all) ELSE Min(outputs) - 1
             put == Put(s, SubSeq(s.all, 1, n))
             q == SubSeq(s.all, n + 1, Len(s.all))
  <1>1. s.all \in Seq(Queued) /\ Len(s.all) \in Nat /\ DOMAIN s.all = 1 .. Len(s.all)
    BY ClientIs
  <1>2. FlushAllBlocks(s) = [put EXCEPT !.all = q]
    BY DEF FlushAllBlocks
  <1>3. /\ n \in 0 .. Len(s.all)
        /\ SubSeq(s.all, 1, n) \in Seq(ByteItem \cup LineItem)
    BY FlushedLines
  <1> HIDE DEF n
  <1>4. put \in ControlClient /\ put.all = s.all /\ Touches(s, put, P)
    BY <1>3, PutIs, PutTouches
  <1> HIDE DEF put
  <1>5. q \in Seq(Queued)
    BY <1>1, <1>3
  <1>6. \A p \in Panes : Load(q, p) <= Load(put.all, p)
    BY <1>1, <1>3, <1>4, LoadBehind
  <1> HIDE DEF q
  <1>7. Touches(put, FlushAllBlocks(s), P)
    BY <1>2, <1>4, <1>5, <1>6, TouchesQueue
  <1> QED BY <1>4, <1>7, TouchesTwice

(* Lines that are written or queued.                                       *)
LEMMA FlagTouches ==
  ASSUME NEW s \in ControlClient, NEW F \in SUBSET Flags, NEW P,
         NEW t, t = [s EXCEPT !.flags = @ \cup F]
  PROVE  /\ Touches(s, t, P) /\ t \in ControlClient /\ t.flags = s.flags \cup F
         /\ t.all = s.all /\ t.panes = s.panes
  <1> DEFINE G == s.flags \cup F
  <1>1. G \in SUBSET Flags
    BY ClientIs
  <1>2. t = [s EXCEPT !.flags = G]
    BY DEF ControlClient
  <1> HIDE DEF G
  <1>3. t \in ControlClient /\ t.flags = G /\ Alike(s, t)
    BY <1>1, <1>2 DEF ControlClient, Alike
  <1>4. Touches(s, t, P)
    BY <1>3, AlikeTouches DEF G
  <1> QED BY <1>3, <1>4 DEF Alike, G

LEMMA EnabledTouches ==
  ASSUME NEW s \in ControlClient, NEW P
  PROVE  Touches(s, [s EXCEPT !.write = TRUE], P)
  <1> DEFINE t == [s EXCEPT !.write = TRUE]
  <1>1. Alike(s, t) /\ t.flags = s.flags
    BY DEF ControlClient, Alike
  <1> HIDE DEF t
  <1> QED BY <1>1, AlikeTouches DEF t

LEMMA OverrunTouches ==
  ASSUME NEW s \in ControlClient, NEW P
  PROVE  Touches(s, Overrun(s), P)
  <1> DEFINE u == IF "exit" \in s.flags THEN s ELSE Discard(s)
  <1>1. u \in ControlClient /\ Touches(s, u, P)
    BY TouchesSame, DiscardTouches
  <1>2. {"exit", "discard"} \in SUBSET Flags
    <2>1. "exit" \in Flags /\ "discard" \in Flags
      BY DEF Flags
    <2> QED BY <2>1
  <1>3. Overrun(s) = [u EXCEPT !.flags = @ \cup {"exit", "discard"}]
    BY DEF Overrun
  <1> HIDE DEF u
  <1>4. Touches(u, Overrun(s), P)
    BY <1>1, <1>2, <1>3, FlagTouches
  <1> QED BY <1>1, <1>4, TouchesTwice

LEMMA WriteLineTouches ==
  ASSUME NEW s \in ControlClient, NEW line \in LineItem, NEW P
  PROVE  Touches(s, WriteLine(s, line), P)
  <1>1. CASE "discard" \in s.flags
    BY <1>1, TouchesSame DEF WriteLine
  <1>2. CASE "discard" \notin s.flags /\ TooLong(s)
    BY <1>2, OverrunTouches DEF WriteLine
  <1>3. CASE "discard" \notin s.flags /\ ~TooLong(s) /\ s.all = <<>>
    <2> DEFINE t == Put(s, <<line>>)
    <2>1. WriteLine(s, line) = [t EXCEPT !.write = TRUE]
      BY <1>3 DEF WriteLine
    <2>2. <<line>> \in Seq(ByteItem \cup LineItem)
      OBVIOUS
    <2>3. t \in ControlClient /\ Touches(s, t, P)
      BY <2>2, PutIs, PutTouches
    <2> HIDE DEF t
    <2> QED BY <2>1, <2>3, EnabledTouches, TouchesTwice
  <1>4. CASE "discard" \notin s.flags /\ ~TooLong(s) /\ s.all # <<>>
    <2> DEFINE q == Append(s.all, line)
               t == [s EXCEPT !.all = q]
    <2>1. WriteLine(s, line) = [s EXCEPT !.all = q, !.write = TRUE]
      BY <1>4 DEF WriteLine, ControlClient
    <2>2. s.all \in Seq(Queued) /\ line \in Queued /\ ~IsOutput(line)
      BY ClientIs DEF Queued, LineItem, Kinds, IsOutput
    <2>3. q \in Seq(Queued)
      BY <2>2
    <2>4. \A p \in Panes : Load(q, p) <= Load(s.all, p)
      <3> TAKE p \in Panes
      <3>1. Load(q, p) = Load(s.all, p) + Size(line, p)
        BY <2>2, LoadAppended
      <3>2. Size(line, p) = 0 /\ Load(s.all, p) \in Nat
        BY <2>2, LoadIn DEF Size, OfPane
      <3> QED BY <3>1, <3>2
    <2> HIDE DEF q
    <2>5. t \in ControlClient /\ Touches(s, t, P)
      BY <2>3, <2>4, TouchesQueue
    <2>6. [s EXCEPT !.all = q, !.write = TRUE] = [t EXCEPT !.write = TRUE]
      BY DEF ControlClient
    <2> HIDE DEF t
    <2> QED BY <2>1, <2>5, <2>6, EnabledTouches, TouchesTwice
  <1> QED BY <1>1, <1>2, <1>3, <1>4

LEMMA WriteTouches ==
  ASSUME PanesTyped, NEW s \in ControlClient, NEW kind \in Kinds, NEW P
  PROVE  Touches(s, Write(s, kind), P)
  BY LineIs, WriteLineTouches DEF Write

(* A client in a block, or with other notifications deferred.              *)
LEMMA EasesSame ==
  ASSUME NEW s \in ControlClient, NEW t \in ControlClient,
         t.all = s.all, t.panes = s.panes, t.flags = s.flags, NEW P
  PROVE  Eases(s, t, P)
  <1>1. \A p \in Panes : Eased(s, t, p)
    <2> TAKE p \in Panes
    <2>1. Load(s.all, p) \in Nat
      BY LoadIn
    <2> QED BY <2>1 DEF Eased
  <1> QED BY <1>1 DEF Eases

LEMMA NotifyWriteTouches ==
  ASSUME PanesTyped, NEW s \in ControlClient, NEW kind \in Kinds, NEW P
  PROVE  Touches(s, NotifyWrite(s, kind), P)
  <1>1. CASE s.depth = 0
    BY <1>1, WriteTouches DEF NotifyWrite
  <1>2. CASE s.depth # 0
    <2> DEFINE d == Append(s.deferred, Line(s, kind))
               t == [s EXCEPT !.deferred = d, !.depth = s.depth]
    <2>1. d \in Seq(LineItem) /\ s.depth \in Int
      BY LineIs, ClientIs
    <2>2. NotifyWrite(s, kind) = t
      BY <1>2 DEF NotifyWrite, ControlClient
    <2> HIDE DEF d
    <2>3. /\ t \in ControlClient /\ t.depth = s.depth
          /\ t.all = s.all /\ t.panes = s.panes /\ t.flags = s.flags
      BY <2>1 DEF ControlClient
    <2> HIDE DEF t
    <2>4. Eases(s, t, P)
      BY <2>3, EasesSame
    <2> QED BY <1>2, <2>2, <2>3, <2>4 DEF Touches, Quiet
  <1> QED BY <1>1, <1>2

LEMMA FlushDeferredTouches ==
  ASSUME NEW s \in ControlClient, s.depth = 0, NEW P
  PROVE  LET t == FlushDeferred(s)
         IN  Eases(s, t, P) /\ t.depth = 0 /\ t.deferred = <<>>
  <1> DEFINE a == [s EXCEPT !.deferred = <<>>]
             S == {x \in ControlClient : Touches(a, x, P)}
             t == FlushDeferred(s)
  <1>1. Eases(s, a, P) /\ a \in ControlClient /\ a.deferred = <<>> /\ a.depth = 0
    <2>1. <<>> \in Seq(LineItem)
      OBVIOUS
    <2>2. /\ a \in ControlClient /\ a.deferred = <<>> /\ a.depth = 0
          /\ a.all = s.all /\ a.panes = s.panes /\ a.flags = s.flags
      BY <2>1 DEF ControlClient
    <2> HIDE DEF a
    <2> QED BY <2>2, EasesSame
  <1>2. a \in S
    <2> HIDE DEF a
    <2> QED BY <1>1, TouchesSame
  <1>3. \A x \in S : \A line \in LineItem : WriteLine(x, line) \in S
    <2> HIDE DEF a
    <2> TAKE x \in S
    <2> TAKE line \in LineItem
    <2>1. Touches(x, WriteLine(x, line), P)
      BY WriteLineTouches
    <2>2. Touches(a, WriteLine(x, line), P)
      BY <1>1, <2>1, TouchesTwice
    <2> QED BY <2>1, <2>2 DEF Touches, Eases
  <1>4. t \in S
    <2> HIDE DEF S
    <2> QED BY <1>2, <1>3, FlushDeferredBy
  <1> HIDE DEF a, t
  <1>5. Eases(s, t, P)
    BY <1>1, <1>4, EasesOver DEF Touches
  <1>6. t.depth = 0 /\ t.deferred = <<>>
    BY <1>1, <1>4 DEF Touches, Quiet
  <1> QED BY <1>5, <1>6 DEF t

(* The guards of a block of replies.                                       *)
Settled(s) == s.depth = 0 /\ s.deferred = <<>>

LEMMA BeginEases ==
  ASSUME PanesTyped, NEW s \in ControlClient, NEW P
  PROVE  Eases(s, Begin(s), P) /\ Begin(s).depth = s.depth + 1
  <1> DEFINE t == [s EXCEPT !.depth = @ + 1]
  <1>1. s.depth + 1 \in Int
    BY ClientIs
  <1>2. /\ t \in ControlClient /\ t.depth = s.depth + 1
        /\ t.all = s.all /\ t.panes = s.panes /\ t.flags = s.flags
    BY <1>1 DEF ControlClient
  <1> HIDE DEF t
  <1>3. t \in ControlClient /\ Eases(s, t, P) /\ t.depth = s.depth + 1
    BY <1>2, EasesSame
  <1>4. Begin(s) = Write(t, "begin") /\ "begin" \in Kinds
    BY DEF Begin, Kinds, t
  <1>5. Touches(t, Begin(s), P)
    BY <1>3, <1>4, WriteTouches
  <1> QED BY <1>3, <1>5, EasesOver DEF Touches, Quiet

LEMMA EndEases ==
  ASSUME PanesTyped, NEW s \in ControlClient, s.depth = 1, NEW P
  PROVE  Eases(s, End(s), P) /\ Settled(End(s))
  <1> DEFINE t == Write(s, "end")
             u == [t EXCEPT !.depth = 0]
  <1>1. t \in ControlClient /\ Eases(s, t, P) /\ t.depth = 1
    BY WriteTouches DEF Kinds, Touches, Eases, Quiet
  <1>2. End(s) = FlushDeferred(u)
    BY <1>1 DEF End
  <1> HIDE DEF t
  <1>3. /\ u \in ControlClient /\ u.depth = 0
        /\ u.all = t.all /\ u.panes = t.panes /\ u.flags = t.flags
    <2>1. 0 \in Int /\ t \in ControlClient
      BY <1>1
    <2> QED BY <2>1 DEF ControlClient
  <1> HIDE DEF u
  <1>5. u \in ControlClient /\ Eases(t, u, P) /\ u.depth = 0
    BY <1>1, <1>3, EasesSame
  <1>6. Eases(u, End(s), P) /\ Settled(End(s))
    BY <1>2, <1>5, FlushDeferredTouches DEF Settled
  <1>7. Eases(s, u, P)
    BY <1>1, <1>5, EasesOver
  <1> QED BY <1>6, <1>7, EasesOver

-----------------------------------------------------------------------------
(* The panes of a client: the bytes that a client needs of p stay in the   *)
(* buffer, and of the other panes it needs no more.                        *)
PaneSound(wp) ==
  /\ wp.size \in Nat /\ End1(wp) = wp.offset
  /\ wp.before + wp.offset = wp.total /\ wp.total <= MaxBytes
  /\ wp.piped <= wp.offset /\ (wp.pipe => wp.base <= wp.piped)
PanesSound == PanesTyped /\ \A p \in Panes : PaneSound(pane[p])

Held(s, p) == Bound(s, p, pane[p].base, pane[p].offset)
Fine(s, t, p) ==
  Touches(s, t, {p}) /\ (Held(s, p) => "fatal" \in t.flags \/ Held(t, p))

LEMMA SoundIs ==
  ASSUME PanesSound, NEW p \in Panes
  PROVE  /\ pane[p] \in WindowPane /\ PaneSound(pane[p])
         /\ pane[p].base \in Nat /\ pane[p].size \in Nat /\ pane[p].offset \in Nat
         /\ pane[p].base + pane[p].size = pane[p].offset /\ pane[p].base <= pane[p].offset
         /\ End1(pane[p]) = pane[p].offset /\ pane[p].offset <= MaxBytes
  <1> DEFINE wp == pane[p]
  <1>1. wp \in WindowPane /\ PaneSound(wp)
    BY PaneIs DEF PanesSound
  <1> HIDE DEF wp
  <1>2. /\ wp.base \in Nat /\ wp.offset \in Nat /\ wp.before \in Nat /\ wp.total \in Nat
        /\ wp.size \in Nat /\ wp.base + wp.size = wp.offset /\ wp.before + wp.offset = wp.total
        /\ wp.total <= MaxBytes /\ MaxBytes \in Nat
    BY <1>1, SizesOrdered DEF WindowPane, PaneSound, End1
  <1>3. wp.base <= wp.offset /\ wp.offset <= MaxBytes
    BY <1>2
  <1> QED BY <1>1, <1>2, <1>3 DEF wp, PaneSound

LEMMA TouchesFine ==
  ASSUME NEW s \in ControlClient, NEW t, Touches(s, t, {}), NEW p \in Panes
  PROVE  Fine(s, t, p)
  <1>1. Touches(s, t, {p})
    BY DEF Touches, Eases
  <1>2. Held(s, p) => Held(t, p)
    BY BoundStays DEF Touches, Held
  <1> QED BY <1>1, <1>2 DEF Fine

LEMMA FineOver ==
  ASSUME NEW s \in ControlClient, NEW t, NEW u, NEW p, Fine(s, t, p), Fine(t, u, p)
  PROVE  Fine(s, u, p)
  <1>1. Touches(s, u, {p})
    BY TouchesTwice DEF Fine
  <1>2. "fatal" \in t.flags => "fatal" \in u.flags
    BY DEF Fine, Touches, Eases, Lasting
  <1> QED BY <1>1, <1>2 DEF Fine

LEMMA FineFits ==
  ASSUME NEW s \in ControlClient, NEW t, NEW p \in Panes, Fine(s, t, p), Fits(s, pane)
  PROVE  Fits(t, pane)
  <1>1. CASE s.flags \cap {"fatal", "lost"} # {}
    BY <1>1 DEF Fine, Touches, Eases, Lasting, Fits
  <1>2. CASE s.flags \cap {"fatal", "lost"} = {}
    <2>1. \A q \in Panes : Held(s, q)
      BY <1>2 DEF Fits, Held
    <2>2. \A q \in Panes \ {p} : Held(t, q)
      BY <2>1, BoundStays DEF Fine, Touches, Held
    <2>3. "fatal" \in t.flags \/ Held(t, p)
      BY <2>1 DEF Fine
    <2> QED BY <2>2, <2>3 DEF Fits, Held
  <1> QED BY <1>1, <1>2

LEMMA EasesFits ==
  ASSUME NEW s \in ControlClient, NEW t, Eases(s, t, {}), NEW w, Fits(s, w)
  PROVE  Fits(t, w)
  <1>1. CASE s.flags \cap {"fatal", "lost"} # {}
    BY <1>1 DEF Eases, Lasting, Fits
  <1>2. CASE s.flags \cap {"fatal", "lost"} = {}
    BY <1>2, BoundStays DEF Fits
  <1> QED BY <1>1, <1>2

LEMMA RepanedTouches ==
  ASSUME NEW s \in ControlClient, NEW p \in Panes, NEW cp \in ControlPane
  PROVE  LET t == [s EXCEPT !.panes[p] = cp]
         IN  /\ Touches(s, t, {p}) /\ t \in ControlClient
             /\ t.panes[p] = cp /\ t.flags = s.flags /\ t.all = s.all
  <1> DEFINE panes == [s.panes EXCEPT ![p] = cp]
             t == [s EXCEPT !.panes[p] = cp]
  <1>1. /\ panes \in [Panes -> ControlPane \cup {NoPane}] /\ panes[p] = cp
        /\ \A q \in Panes \ {p} : panes[q] = s.panes[q]
    BY ClientIs
  <1>2. t = [s EXCEPT !.panes = panes]
    BY DEF ControlClient
  <1> HIDE DEF panes
  <1>3. /\ t \in ControlClient /\ t.panes = panes /\ t.flags = s.flags /\ t.all = s.all
        /\ t.depth = s.depth /\ t.deferred = s.deferred
    BY <1>1, <1>2 DEF ControlClient
  <1> HIDE DEF t
  <1>4. \A q \in Panes \ {p} : Eased(s, t, q)
    <2> TAKE q \in Panes \ {p}
    <2>1. Load(s.all, q) \in Nat
      BY LoadIn
    <2> QED BY <1>1, <1>3, <2>1 DEF Eased
  <1>5. Touches(s, t, {p})
    BY <1>3, <1>4 DEF Touches, Eases, Quiet
  <1> QED BY <1>1, <1>3, <1>5 DEF t

(* A control_pane at the end of the buffer, without blocks.                *)
LEMMA AtEnd ==
  ASSUME PanesSound, NEW p \in Panes, NEW cp,
         cp = Offsets(pane[p]) \/ \E old \in ControlPane : cp = Restarted(old, pane[p])
  PROVE  cp \in ControlPane /\ cp.offset = pane[p].offset /\ cp.queued = pane[p].offset
  <1>1. pane[p] \in WindowPane
    BY SoundIs
  <1>2. cp \in ControlPane
    BY <1>1, OffsetsAre
  <1>3. Offsets(pane[p]).offset = pane[p].offset /\ Offsets(pane[p]).queued = pane[p].offset
    BY DEF Offsets
  <1>4. \A old : /\ Restarted(old, pane[p]).offset = Offsets(pane[p]).offset
                 /\ Restarted(old, pane[p]).queued = Offsets(pane[p]).queued
    BY DEF Restarted, Offsets
  <1> QED BY <1>2, <1>3, <1>4

LEMMA HeldAtEnd ==
  ASSUME PanesSound, NEW p \in Panes, NEW s, Load(s.all, p) = 0, s.panes[p] \in ControlPane,
         s.panes[p].offset = pane[p].offset, s.panes[p].queued = pane[p].offset
  PROVE  Held(s, p)
  <1>1. pane[p].base <= pane[p].offset /\ pane[p].offset \in Nat
    BY SoundIs
  <1>2. pane[p].offset <= pane[p].offset
    BY <1>1
  <1> QED BY <1>1, <1>2, Emptied DEF Held

LEMMA AddPaneFine ==
  ASSUME PanesSound, NEW s \in ControlClient, NEW p \in Panes
  PROVE  Fine(s, AddPane(s, p), p) /\ AddPane(s, p).flags = s.flags
  <1>1. CASE s.panes[p] = NoPane
    <2> DEFINE cp == Offsets(pane[p])
               t == [s EXCEPT !.panes[p] = cp]
    <2>1. cp \in ControlPane /\ cp.offset = pane[p].offset /\ cp.queued = pane[p].offset
      BY AtEnd
    <2>2. AddPane(s, p) = t
      BY <1>1 DEF AddPane
    <2> HIDE DEF cp
    <2>3. /\ Touches(s, t, {p}) /\ t.panes[p] = cp /\ t.all = s.all /\ t.flags = s.flags
      BY <2>1, RepanedTouches
    <2> HIDE DEF t
    <2>4. Held(s, p) => Load(s.all, p) = 0
      BY <1>1 DEF Held, Bound
    <2>5. Held(s, p) => Held(t, p)
      BY <2>1, <2>3, <2>4, HeldAtEnd
    <2> QED BY <2>2, <2>3, <2>5 DEF Fine
  <1>2. CASE s.panes[p] # NoPane
    <2>1. Touches(s, s, {p})
      BY TouchesSame
    <2> QED BY <1>2, <2>1 DEF AddPane, Fine
  <1> QED BY <1>1, <1>2

LEMMA SetPaneOnFine ==
  ASSUME PanesSound, NEW s \in ControlClient, NEW p \in Panes
  PROVE  Fine(s, SetPaneOn(s, p), p)
  <1>1. CASE s.panes[p] # NoPane /\ s.panes[p].off
    <2> DEFINE old == Restarted(s.panes[p], pane[p])
               cp == [old EXCEPT !.off = FALSE]
               t == [s EXCEPT !.panes[p] = cp]
    <2>1. old \in ControlPane /\ old.offset = pane[p].offset /\ old.queued = pane[p].offset
      BY <1>1, HasPane, AtEnd
    <2>2. SetPaneOn(s, p) = t
      BY <1>1 DEF SetPaneOn, ControlClient
    <2> HIDE DEF old
    <2>3. cp \in ControlPane /\ cp.offset = pane[p].offset /\ cp.queued = pane[p].offset
      BY <2>1 DEF ControlPane
    <2> HIDE DEF cp
    <2>4. Touches(s, t, {p}) /\ t.panes[p] = cp /\ t.all = s.all
      BY <2>3, RepanedTouches
    <2> HIDE DEF t
    <2>5. Held(s, p) => Load(s.all, p) = 0
      BY <1>1 DEF Held, Bound
    <2>6. Held(s, p) => Held(t, p)
      BY <2>3, <2>4, <2>5, HeldAtEnd
    <2> QED BY <2>2, <2>4, <2>6 DEF Fine
  <1>2. CASE ~ (s.panes[p] # NoPane /\ s.panes[p].off)
    <2>1. Touches(s, s, {p})
      BY TouchesSame
    <2> QED BY <1>2, <2>1 DEF SetPaneOn, Fine
  <1> QED BY <1>1, <1>2

LEMMA SetPaneOffFine ==
  ASSUME PanesSound, NEW s \in ControlClient, NEW p \in Panes
  PROVE  Fine(s, SetPaneOff(s, p), p)
  <1> DEFINE a == AddPane(s, p)
             d == DiscardPane(a, p)
             old == Restarted(d.panes[p], pane[p])
             cp == [old EXCEPT !.off = TRUE]
             t == [d EXCEPT !.panes[p] = cp]
  <1>1. a \in ControlClient /\ a.panes[p] \in ControlPane /\ Fine(s, a, p)
    BY AddPaneIs, AddPaneFine DEF PanesSound
  <1>2. SetPaneOff(s, p) = [d EXCEPT !.panes[p] = [Restarted(@, pane[p]) EXCEPT !.off = TRUE]]
    BY DEF SetPaneOff
  <1> HIDE DEF a
  <1>3. /\ d \in ControlClient /\ d.panes[p] \in ControlPane /\ Load(d.all, p) = 0
        /\ Touches(a, d, {})
    BY <1>1, DiscardPaneTouches
  <1> HIDE DEF d
  <1>4. old \in ControlPane /\ old.offset = pane[p].offset /\ old.queued = pane[p].offset
    BY <1>3, AtEnd
  <1>5. SetPaneOff(s, p) = t
    BY <1>2, <1>3 DEF ControlClient
  <1> HIDE DEF old
  <1>6. cp \in ControlPane /\ cp.offset = pane[p].offset /\ cp.queued = pane[p].offset
    BY <1>4 DEF ControlPane
  <1> HIDE DEF cp
  <1>7. Touches(d, t, {p}) /\ t.panes[p] = cp /\ t.all = d.all
    BY <1>3, <1>6, RepanedTouches
  <1> HIDE DEF t
  <1>8. Held(t, p)
    BY <1>3, <1>6, <1>7, HeldAtEnd
  <1>9. Fine(a, d, p) /\ Fine(d, t, p)
    BY <1>1, <1>3, <1>7, <1>8, TouchesFine DEF Fine
  <1>10. Fine(s, d, p)
    BY <1>1, <1>9, FineOver
  <1> QED BY <1>5, <1>9, <1>10, FineOver

LEMMA ContinuePaneFine ==
  ASSUME PanesSound, NEW s \in ControlClient, NEW p \in Panes
  PROVE  Fine(s, ContinuePane(s, p), p)
  <1>1. CASE s.panes[p] # NoPane /\ s.panes[p].paused
    <2> DEFINE old == Restarted(s.panes[p], pane[p])
               cp == [old EXCEPT !.paused = FALSE]
               t == [s EXCEPT !.panes[p] = cp]
    <2>1. old \in ControlPane /\ old.offset = pane[p].offset /\ old.queued = pane[p].offset
      BY <1>1, HasPane, AtEnd
    <2>2. ContinuePane(s, p) = NotifyWrite(t, "continue")
      BY <1>1 DEF ContinuePane, ControlClient
    <2> HIDE DEF old
    <2>3. cp \in ControlPane /\ cp.offset = pane[p].offset /\ cp.queued = pane[p].offset
      BY <2>1 DEF ControlPane
    <2> HIDE DEF cp
    <2>4. Touches(s, t, {p}) /\ t \in ControlClient /\ t.panes[p] = cp /\ t.all = s.all
      BY <2>3, RepanedTouches
    <2> HIDE DEF t
    <2>5. Held(s, p) => Load(s.all, p) = 0
      BY <1>1 DEF Held, Bound
    <2>6. Held(s, p) => Held(t, p)
      BY <2>3, <2>4, <2>5, HeldAtEnd
    <2>7. Fine(s, t, p)
      BY <2>4, <2>6 DEF Fine
    <2>8. Touches(t, ContinuePane(s, p), {})
      BY <2>2, <2>4, NotifyWriteTouches DEF Kinds, PanesSound
    <2>9. Fine(t, ContinuePane(s, p), p)
      BY <2>4, <2>8, TouchesFine
    <2> QED BY <2>7, <2>9, FineOver
  <1>2. CASE ~ (s.panes[p] # NoPane /\ s.panes[p].paused)
    <2>1. Touches(s, s, {p})
      BY TouchesSame
    <2> QED BY <1>2, <2>1 DEF ContinuePane, Fine
  <1> QED BY <1>1, <1>2

(* A pane whose offsets stay, without blocks.                              *)
LEMMA HeldEmpty ==
  ASSUME NEW s \in ControlClient, NEW p, s.panes[p] \in ControlPane, Held(s, p),
         NEW t, Load(t.all, p) = 0, t.panes[p] \in ControlPane,
         t.panes[p].offset = s.panes[p].offset, t.panes[p].queued = s.panes[p].queued,
         Counted(t, p) => Counted(s, p) /\ ("exit" \in s.flags => "exit" \in t.flags)
  PROVE  Held(t, p)
  <1>1. s.panes[p] # NoPane /\ t.panes[p] # NoPane
    BY NoPaneAssumption
  <1> DEFINE a == s.panes[p].offset
             b == s.panes[p].queued
  <1>2. a \in Nat /\ b \in Nat /\ Load(s.all, p) \in Nat
    BY LoadIn DEF ControlPane
  <1>3. a <= pane[p].offset /\ b <= pane[p].offset
    BY <1>1 DEF Held, Bound
  <1>4. Counted(s, p) => pane[p].base <= a /\ ("exit" \in s.flags \/ a + Load(s.all, p) <= b)
    BY <1>1 DEF Held, Bound
  <1> HIDE DEF a, b
  <1>5. a + Load(s.all, p) <= b => a <= b
    BY <1>2
  <1>6. t.panes[p].offset = a /\ t.panes[p].queued = b
    BY DEF a, b
  <1>7. a + 0 = a
    BY <1>2
  <1>8. Counted(t, p) => pane[p].base <= a /\ ("exit" \in t.flags \/ a + Load(t.all, p) <= b)
    BY <1>4, <1>5, <1>7
  <1> QED BY <1>1, <1>3, <1>6, <1>8 DEF Held, Bound

LEMMA PausedFine ==
  ASSUME PanesSound, NEW s \in ControlClient, NEW p \in Panes, s.panes[p] \in ControlPane
  PROVE  Fine(s, Paused(s, p), p)
  <1> DEFINE cp == [s.panes[p] EXCEPT !.paused = TRUE, !.fresh = TRUE]
             t == [s EXCEPT !.panes[p] = cp]
             d == DiscardPane(t, p)
  <1>1. /\ cp \in ControlPane /\ cp.offset = s.panes[p].offset
        /\ cp.queued = s.panes[p].queued /\ cp.paused
    BY DEF ControlPane
  <1>2. [s EXCEPT !.panes[p].paused = TRUE, !.panes[p].fresh = TRUE] = t
    BY ClientIs DEF ControlClient, ControlPane
  <1>3. Paused(s, p) = NotifyWrite(d, "pause")
    BY <1>2 DEF Paused
  <1> HIDE DEF cp
  <1>4. Touches(s, t, {p}) /\ t \in ControlClient /\ t.panes[p] = cp
    BY <1>1, RepanedTouches
  <1> HIDE DEF t
  <1>5. /\ d \in ControlClient /\ Touches(t, d, {p}) /\ Load(d.all, p) = 0
        /\ d.panes[p] = cp
    BY <1>4, DiscardPaneTouches
  <1> HIDE DEF d
  <1>6. Touches(s, d, {p})
    BY <1>4, <1>5, TouchesTwice
  <1>7. ~Counted(d, p)
    BY <1>1, <1>5 DEF Counted
  <1>8. Held(s, p) => Held(d, p)
    BY <1>1, <1>5, <1>7, HeldEmpty
  <1>9. Fine(s, d, p)
    BY <1>6, <1>8 DEF Fine
  <1>10. Touches(d, Paused(s, p), {})
    BY <1>3, <1>5, NotifyWriteTouches DEF Kinds, PanesSound
  <1>11. Fine(d, Paused(s, p), p)
    BY <1>5, <1>10, TouchesFine
  <1> QED BY <1>9, <1>11, FineOver

LEMMA PausePaneFine ==
  ASSUME PanesSound, NEW s \in ControlClient, NEW p \in Panes
  PROVE  Fine(s, PausePane(s, p), p)
  <1> DEFINE t == AddPane(s, p)
  <1>1. t \in ControlClient /\ t.panes[p] \in ControlPane /\ Fine(s, t, p)
    BY AddPaneIs, AddPaneFine DEF PanesSound
  <1>2. PausePane(s, p) = IF t.panes[p].paused THEN t ELSE Paused(t, p)
    BY DEF PausePane
  <1> HIDE DEF t
  <1>3. Fine(t, Paused(t, p), p)
    BY <1>1, PausedFine
  <1>4. Fine(s, Paused(t, p), p)
    BY <1>1, <1>3, FineOver
  <1> QED BY <1>1, <1>2, <1>4

LEMMA TooOldFine ==
  ASSUME PanesSound, NEW s \in ControlClient, NEW p \in Panes, s.panes[p] \in ControlPane
  PROVE  Fine(s, TooOld(s, p), p)
  <1>1. CASE "pauseafter" \in s.flags
    BY <1>1, PausedFine DEF TooOld
  <1>2. CASE "pauseafter" \notin s.flags
    <2> DEFINE d == Discard(s)
               t == [d EXCEPT !.flags = @ \cup {"exit"}]
    <2>1. d \in ControlClient /\ Touches(s, d, {})
      BY DiscardTouches
    <2>2. TooOld(s, p) = t
      BY <1>2 DEF TooOld
    <2> HIDE DEF d
    <2>3. {"exit"} \in SUBSET Flags
      BY DEF Flags
    <2>4. Touches(d, t, {})
      BY <2>1, <2>3, FlagTouches
    <2> HIDE DEF t
    <2>5. Touches(s, t, {})
      BY <2>1, <2>4, TouchesTwice
    <2> QED BY <2>2, <2>5, TouchesFine
  <1> QED BY <1>1, <1>2

(* A pane that has a new process, and a client that begins anew.           *)
LEMMA ResetPaneTouches ==
  ASSUME NEW s \in ControlClient, NEW p \in Panes, NEW wp \in WindowPane,
         wp.base = 0, wp.offset = 0
  PROVE  LET t == ResetPane(s, p, wp)
         IN  Touches(s, t, {p}) /\ \A base, end : Bound(s, p, base, end) => Bound(t, p, 0, 0)
  <1>1. CASE s.panes[p] = NoPane
    <2>1. Touches(s, s, {p}) /\ \A base, end : Bound(s, p, base, end) => Bound(s, p, 0, 0)
      BY <1>1, TouchesSame DEF Bound
    <2> QED BY <1>1, <2>1 DEF ResetPane
  <1>2. CASE s.panes[p] # NoPane
    <2> DEFINE d == DiscardPane(s, p)
               cp == Restarted(d.panes[p], wp)
               t == [d EXCEPT !.panes[p] = cp]
    <2>1. /\ d \in ControlClient /\ d.panes[p] \in ControlPane /\ Load(d.all, p) = 0
          /\ Touches(s, d, {p})
      BY <1>2, HasPane, DiscardPaneTouches
    <2>2. ResetPane(s, p, wp) = [d EXCEPT !.panes[p] = Restarted(@, wp)]
      BY <1>2 DEF ResetPane
    <2> HIDE DEF d
    <2>3. cp \in ControlPane
      BY <2>1, OffsetsAre
    <2>4. cp.offset = 0 /\ cp.queued = 0
      BY DEF Restarted, Offsets
    <2>5. ResetPane(s, p, wp) = t
      BY <2>1, <2>2 DEF ControlClient
    <2> HIDE DEF cp
    <2>6. Touches(d, t, {p}) /\ t.panes[p] = cp /\ t.all = d.all
      BY <2>1, <2>3, RepanedTouches
    <2> HIDE DEF t
    <2>7. Bound(t, p, 0, 0)
      BY <2>1, <2>3, <2>4, <2>6, Emptied
    <2>8. Touches(s, t, {p})
      BY <2>1, <2>6, TouchesTwice
    <2> QED BY <2>5, <2>7, <2>8
  <1> QED BY <1>1, <1>2

LEMMA ResetOffsetsFits ==
  ASSUME NEW s \in ControlClient, NEW w
  PROVE  LET t == ResetOffsets(s)
         IN  Fits(t, w) /\ t.depth = s.depth /\ t.deferred = s.deferred
  <1> DEFINE none == [p \in Panes |-> NoPane]
             q == Lines(s)
             t == ResetOffsets(s)
  <1>1. none \in [Panes -> ControlPane \cup {NoPane}] /\ \A p \in Panes : none[p] = NoPane
    OBVIOUS
  <1>2. q \in Seq(Queued) /\ \A p : Load(q, p) = 0
    BY LinesLoad
  <1>3. t = [s EXCEPT !.all = q, !.pending = <<>>, !.panes = none]
    BY DEF ResetOffsets
  <1> HIDE DEF none, q, t
  <1>4. /\ t.panes = none /\ t.all = q
        /\ t.depth = s.depth /\ t.deferred = s.deferred
    BY <1>3 DEF ControlClient
  <1>5. \A p \in Panes : Bound(t, p, w[p].base, w[p].offset)
    BY <1>1, <1>2, <1>4 DEF Bound
  <1> QED BY <1>4, <1>5 DEF Fits, t

-----------------------------------------------------------------------------
(* Output that was read: the buffer wp holds it behind what it held.       *)
Grown(p, wp) ==
  /\ wp \in WindowPane /\ Unwrapped(wp)
  /\ wp.base = pane[p].base /\ pane[p].offset <= End1(wp)
Placed(t, p, wp) == Bound(t, p, wp.base, End1(wp))

LEMMA GrownIs ==
  ASSUME PanesSound, NEW p \in Panes, NEW wp, Grown(p, wp)
  PROVE  /\ wp.base \in Nat /\ End1(wp) \in Nat /\ pane[p].offset \in Nat
         /\ wp.base = pane[p].base /\ wp.base <= pane[p].offset
         /\ pane[p].offset <= End1(wp) /\ wp.base <= End1(wp) /\ End1(wp) <= SizeMax
  <1>1. /\ wp.base \in Nat /\ wp.size \in Nat /\ pane[p].offset \in Nat
        /\ pane[p].base <= pane[p].offset
    BY SoundIs DEF Grown, Unwrapped
  <1>2. End1(wp) \in Nat /\ wp.base <= End1(wp)
    BY <1>1 DEF End1
  <1> QED BY <1>1, <1>2 DEF Grown, Unwrapped

LEMMA BoundLater ==
  ASSUME NEW s \in ControlClient, NEW p \in Panes, NEW base, NEW end \in Nat,
         NEW later \in Nat, end <= later, Bound(s, p, base, end)
  PROVE  Bound(s, p, base, later)
  <1>1. CASE s.panes[p] = NoPane
    BY <1>1 DEF Bound
  <1>2. CASE s.panes[p] # NoPane
    <2>1. s.panes[p].offset \in Nat /\ s.panes[p].queued \in Nat
      BY <1>2, HasPane DEF ControlPane
    <2>2. s.panes[p].offset <= end /\ s.panes[p].queued <= end
      BY <1>2 DEF Bound
    <2>3. s.panes[p].offset <= later /\ s.panes[p].queued <= later
      BY <2>1, <2>2
    <2> QED BY <1>2, <2>3 DEF Bound
  <1> QED BY <1>1, <1>2

LEMMA HeldPlaced ==
  ASSUME PanesSound, NEW s \in ControlClient, NEW p \in Panes, NEW wp, Grown(p, wp), Held(s, p)
  PROVE  Placed(s, p, wp)
  BY GrownIs, BoundLater DEF Held, Placed

(* The offsets of a pane, of which the client needs no more than there is. *)
LEMMA HeldOffsets ==
  ASSUME PanesSound, NEW s \in ControlClient, NEW p \in Panes, s.panes[p] \in ControlPane,
         Held(s, p)
  PROVE  LET cp == s.panes[p]
         IN  /\ cp.offset \in Nat /\ cp.queued \in Nat /\ Load(s.all, p) \in Nat
             /\ cp.offset <= pane[p].offset /\ cp.queued <= pane[p].offset
             /\ cp.paused \/ cp.off => Load(s.all, p) = 0
             /\ Counted(s, p) =>
                  /\ pane[p].base <= cp.offset
                  /\ "exit" \in s.flags \/ cp.offset + Load(s.all, p) <= cp.queued
  <1>1. s.panes[p] # NoPane
    BY NoPaneAssumption
  <1>2. s.panes[p].offset \in Nat /\ s.panes[p].queued \in Nat
    BY DEF ControlPane
  <1> QED BY <1>1, <1>2, LoadIn DEF Held, Bound

LEMMA IgnoreFine ==
  ASSUME PanesSound, NEW s \in ControlClient, NEW p \in Panes, s.panes[p] \in ControlPane,
         NEW wp, Grown(p, wp)
  PROVE  LET t == Ignore(s, p, wp)
         IN  /\ Touches(s, t, {p})
             /\ Held(s, p) /\ (~Counted(s, p) \/ "exit" \in s.flags) => Placed(t, p, wp)
  <1> DEFINE old == s.panes[p]
             a == UpdateUsed(wp, old.offset, SizeMax)
             b == UpdateUsed(wp, old.queued, SizeMax)
             cp == [old EXCEPT !.offset = a, !.queued = b, !.fresh = TRUE, !.adrift = FALSE]
             t == [s EXCEPT !.panes[p] = cp]
  <1>1. old.offset \in Nat /\ old.queued \in Nat /\ wp \in WindowPane
    BY DEF ControlPane, Grown
  <1>2. a \in Nat /\ b \in Nat
    BY <1>1, SizesOrdered, UpdateUsedIs
  <1>3. Ignore(s, p, wp) = t
    <2> DEFINE new == [old EXCEPT !.offset = UpdateUsed(wp, @, SizeMax),
                                  !.queued = UpdateUsed(wp, @, SizeMax),
                                  !.fresh = TRUE, !.adrift = FALSE]
    <2>1. new = cp
      BY DEF ControlPane
    <2>2. Ignore(s, p, wp) = [s EXCEPT !.panes[p] = new]
      BY DEF Ignore
    <2> HIDE DEF new, cp
    <2> QED BY <2>1, <2>2
  <1>4. Held(s, p) => a = End1(wp) /\ b = End1(wp)
    <2> SUFFICES ASSUME Held(s, p) PROVE a = End1(wp) /\ b = End1(wp)
      OBVIOUS
    <2>1. old.offset <= pane[p].offset /\ old.queued <= pane[p].offset
      BY HeldOffsets
    <2>2. /\ End1(wp) \in Nat /\ End1(wp) <= SizeMax /\ pane[p].offset <= End1(wp)
          /\ pane[p].offset \in Nat /\ SizeMax \in Nat
      BY SizesOrdered, GrownIs
    <2> HIDE DEF old, a, b
    <2>3. old.offset <= End1(wp) /\ old.queued <= End1(wp)
      BY <1>1, <2>1, <2>2
    <2>4. ASSUME NEW offset \in Nat, offset <= End1(wp)
          PROVE  UpdateUsed(wp, offset, SizeMax) = End1(wp)
      <3>1. /\ SizeMax <= End1(wp) - offset => UpdateUsed(wp, offset, SizeMax) = offset + SizeMax
            /\ SizeMax > End1(wp) - offset => UpdateUsed(wp, offset, SizeMax) = End1(wp)
        BY <2>2, <2>4, UpdateUsedBy DEF Grown
      <3>2. SizeMax <= End1(wp) - offset => offset + SizeMax = End1(wp)
        BY <2>2, <2>4
      <3>3. SizeMax <= End1(wp) - offset \/ SizeMax > End1(wp) - offset
        BY <2>2, <2>4
      <3> QED BY <3>1, <3>2, <3>3
    <2> QED BY <1>1, <2>3, <2>4 DEF a, b
  <1> HIDE DEF a, b
  <1>5. /\ cp \in ControlPane /\ cp.offset = a /\ cp.queued = b
        /\ cp.paused = old.paused /\ cp.off = old.off
    BY <1>2 DEF ControlPane
  <1> HIDE DEF cp
  <1>6. Touches(s, t, {p}) /\ t.panes[p] = cp /\ t.all = s.all /\ t.flags = s.flags
    BY <1>5, RepanedTouches
  <1> HIDE DEF t
  <1>7. ASSUME Held(s, p), ~Counted(s, p) \/ "exit" \in s.flags PROVE Placed(t, p, wp)
    <2>1. End1(wp) \in Nat /\ End1(wp) <= End1(wp) /\ wp.base <= End1(wp)
      BY GrownIs
    <2>2. old.paused \/ old.off => Load(s.all, p) = 0
      BY <1>7, HeldOffsets
    <2>3. t.panes[p] # NoPane /\ s.panes[p] # NoPane
      BY <1>5, <1>6, NoPaneAssumption
    <2>4. Counted(t, p) => Counted(s, p)
      BY <1>5, <1>6, <2>3 DEF Counted
    <2> QED BY <1>4, <1>5, <1>6, <1>7, <2>1, <2>2, <2>3, <2>4 DEF Placed, Bound
  <1> QED BY <1>3, <1>6, <1>7 DEF t

LEMMA QueueOutputFine ==
  ASSUME PanesSound, NEW s \in ControlClient, NEW p \in Panes, s.panes[p] \in ControlPane,
         NEW wp, Grown(p, wp)
  PROVE  LET t == QueueOutput(s, p, wp)
         IN  /\ Touches(s, t, {p})
             /\ Held(s, p) /\ ~s.panes[p].off /\ ~s.panes[p].paused => Placed(t, p, wp)
  <1> DEFINE n == NewData(wp, s.panes[p].queued)
             used == UpdateUsed(wp, s.panes[p].queued, n)
             cp == [s.panes[p] EXCEPT !.queued = used]
             panes == [s.panes EXCEPT ![p] = cp]
             b == [kind |-> "output", pane |-> p, size |-> n]
             q == Append(s.all, b)
             listed == IF \E i \in DOMAIN s.pending : s.pending[i] = p THEN s.pending
                       ELSE Append(s.pending, p)
             t == [s EXCEPT !.panes = panes, !.all = q, !.pending = listed, !.write = TRUE]
  <1>1. s.panes[p].queued \in Nat /\ wp \in WindowPane
    BY DEF ControlPane, Grown
  <1>2. n \in Nat /\ used \in Nat
    BY <1>1, NewDataIs, UpdateUsedIs
  <1>3. QueueOutput(s, p, wp) = IF n = 0 THEN s ELSE t
    BY DEF QueueOutput, ControlClient, ControlPane
  <1>4. Held(s, p) => n = End1(wp) - s.panes[p].queued /\ used = End1(wp)
    <2> SUFFICES ASSUME Held(s, p)
                 PROVE  n = End1(wp) - s.panes[p].queued /\ used = End1(wp)
      OBVIOUS
    <2> DEFINE k == s.panes[p].queued
    <2>1. k <= pane[p].offset /\ k \in Nat
      BY <1>1, HeldOffsets
    <2>2. End1(wp) \in Nat /\ pane[p].offset <= End1(wp) /\ pane[p].offset \in Nat /\ Unwrapped(wp)
      BY GrownIs DEF Grown
    <2> HIDE DEF k
    <2>3. k <= End1(wp)
      BY <2>1, <2>2
    <2>4. NewData(wp, k) = End1(wp) - k
      BY <2>1, <2>2, <2>3, NewDataBehind
    <2>5. NewData(wp, k) \in Nat /\ NewData(wp, k) <= End1(wp) - k
      BY <2>1, <2>2, <2>3, <2>4
    <2>6. UpdateUsed(wp, k, NewData(wp, k)) = k + NewData(wp, k)
      BY <2>1, <2>2, <2>3, <2>5, UpdateUsedBy
    <2>7. k + NewData(wp, k) = End1(wp)
      BY <2>1, <2>2, <2>4
    <2> QED BY <2>4, <2>6, <2>7 DEF k
  <1> HIDE DEF n, used
  <1>5. CASE n = 0
    <2>1. QueueOutput(s, p, wp) = s
      BY <1>3, <1>5
    <2> QED BY <2>1, TouchesSame, HeldPlaced
  <1>6. CASE n # 0
    <2>1. /\ cp \in ControlPane /\ cp.queued = used /\ cp.offset = s.panes[p].offset
          /\ cp.paused = s.panes[p].paused /\ cp.off = s.panes[p].off
      BY <1>2 DEF ControlPane
    <2>2. /\ panes \in [Panes -> ControlPane \cup {NoPane}] /\ panes[p] = cp
          /\ \A r \in Panes \ {p} : panes[r] = s.panes[r]
      BY <2>1, ClientIs
    <2>3. /\ b \in Queued /\ OfPane(b, p) /\ b.size = n
          /\ \A r \in Panes \ {p} : ~OfPane(b, r)
      BY <1>2, <1>6 DEF Block, Queued, IsOutput, OfPane
    <2>4. s.all \in Seq(Queued) /\ s.pending \in Seq(Panes)
      BY ClientIs
    <2> HIDE DEF b, cp, panes
    <2>5. q \in Seq(Queued) /\ listed \in Seq(Panes)
      BY <2>3, <2>4
    <2>6. Load(q, p) = Load(s.all, p) + n /\ \A r \in Panes \ {p} : Load(q, r) = Load(s.all, r)
      <3>1. \A r : Load(q, r) = Load(s.all, r) + Size(b, r)
        BY <2>3, <2>4, LoadAppended
      <3>2. Size(b, p) = n /\ \A r \in Panes \ {p} : Size(b, r) = 0
        BY <2>3 DEF Size
      <3>3. \A r : Load(s.all, r) \in Nat
        BY LoadIn
      <3> HIDE DEF q
      <3> QED BY <3>1, <3>2, <3>3
    <2> HIDE DEF q, listed
    <2>7. /\ t \in ControlClient /\ t.panes = panes /\ t.all = q /\ t.flags = s.flags
          /\ t.depth = s.depth /\ t.deferred = s.deferred
      BY <2>2, <2>5 DEF ControlClient
    <2> HIDE DEF t
    <2>8. Touches(s, t, {p})
      <3>1. \A r \in Panes \ {p} : Eased(s, t, r)
        <4> TAKE r \in Panes \ {p}
        <4>1. Load(s.all, r) \in Nat
          BY LoadIn
        <4> QED BY <2>2, <2>6, <2>7, <4>1 DEF Eased
      <3> QED BY <2>7, <3>1 DEF Touches, Eases, Quiet
    <2>9. ASSUME Held(s, p), ~s.panes[p].off, ~s.panes[p].paused PROVE Placed(t, p, wp)
      <3> DEFINE a == s.panes[p].offset
                 k == s.panes[p].queued
                 l == Load(s.all, p)
                 e == End1(wp)
      <3>1. /\ a \in Nat /\ k \in Nat /\ l \in Nat /\ a <= pane[p].offset /\ k <= pane[p].offset
            /\ Counted(s, p) => pane[p].base <= a /\ ("exit" \in s.flags \/ a + l <= k)
        BY <2>9, HeldOffsets
      <3>2. /\ e \in Nat /\ wp.base = pane[p].base /\ pane[p].offset \in Nat
            /\ pane[p].offset <= e
        BY GrownIs
      <3>3. n = e - k /\ used = e
        BY <1>4, <2>9
      <3>4. Load(t.all, p) = l + n /\ t.panes[p] = cp
        BY <2>2, <2>6, <2>7
      <3>5. cp.offset = a /\ cp.queued = e /\ ~cp.off /\ ~cp.paused
        BY <2>1, <2>9, <3>3
      <3>6. t.panes[p] # NoPane /\ s.panes[p] # NoPane
        BY <2>1, <3>4, NoPaneAssumption
      <3>7. Counted(t, p) => Counted(s, p)
        BY <2>7, <2>9, <3>6 DEF Counted
      <3> HIDE DEF a, k, l, e
      <3>8. a <= e /\ e <= e /\ (a + l <= k => a + (l + n) <= e)
        BY <1>2, <3>1, <3>2, <3>3
      <3>9. Counted(t, p) => wp.base <= a /\ ("exit" \in t.flags \/ a + (l + n) <= e)
        BY <2>7, <3>1, <3>2, <3>7, <3>8
      <3> QED BY <3>4, <3>5, <3>6, <3>8, <3>9 DEF Placed, Bound, e
    <2> QED BY <1>3, <1>6, <2>8, <2>9
  <1> QED BY <1>5, <1>6

LEMMA WriteOutputFine ==
  ASSUME PanesSound, NEW s \in ControlClient, NEW p \in Panes, NEW wp, Grown(p, wp), NEW old
  PROVE  LET t == WriteOutput(s, p, wp, old)
         IN  Touches(s, t, {p}) /\ (Held(s, p) => "fatal" \in t.flags \/ Placed(t, p, wp))
  <1> DEFINE a == AddPane(s, p)
             t == WriteOutput(s, p, wp, old)
  <1>0. Touches(s, s, {p}) /\ (Held(s, p) => Placed(s, p, wp))
    BY TouchesSame, HeldPlaced
  <1>1. CASE p \notin s.sees
    BY <1>0, <1>1 DEF WriteOutput
  <1>2. CASE p \in s.sees /\ s.flags \cap {"nooutput", "exit"} # {}
    <2>1. CASE s.panes[p] = NoPane
      BY <1>0, <1>2, <2>1 DEF WriteOutput
    <2>2. CASE s.panes[p] # NoPane
      <3>1. t = Ignore(s, p, wp)
        BY <1>2, <2>2 DEF WriteOutput
      <3>2. ~Counted(s, p) \/ "exit" \in s.flags
        BY <1>2 DEF Counted
      <3> HIDE DEF t
      <3>3. Touches(s, t, {p}) /\ (Held(s, p) => Placed(t, p, wp))
        BY <2>2, <3>1, <3>2, HasPane, IgnoreFine
      <3> QED BY <3>3 DEF t
    <2> QED BY <2>1, <2>2
  <1>3. CASE p \in s.sees /\ s.flags \cap {"nooutput", "exit"} = {}
    <2>1. a \in ControlClient /\ a.panes[p] \in ControlPane /\ Fine(s, a, p)
      BY AddPaneIs, AddPaneFine DEF PanesSound
    <2>2. t = IF a.panes[p].off \/ a.panes[p].paused THEN Ignore(a, p, wp)
              ELSE IF old /\ BlocksOf(a, p) # <<>> THEN TooOld(a, p)
              ELSE QueueOutput(a, p, wp)
      BY <1>3 DEF WriteOutput
    <2> HIDE DEF a, t
    <2>3. Touches(a, t, {p}) /\ (Held(a, p) => "fatal" \in t.flags \/ Placed(t, p, wp))
      <3>1. CASE a.panes[p].off \/ a.panes[p].paused
        <4>1. ~Counted(a, p)
          BY <3>1 DEF Counted
        <4>2. Touches(a, Ignore(a, p, wp), {p}) /\ (Held(a, p) => Placed(Ignore(a, p, wp), p, wp))
          BY <2>1, <4>1, IgnoreFine
        <4> QED BY <2>2, <3>1, <4>2
      <3>2. CASE ~ (a.panes[p].off \/ a.panes[p].paused) /\ old /\ BlocksOf(a, p) # <<>>
        <4>1. t = TooOld(a, p)
          BY <2>2, <3>2
        <4>2. Fine(a, t, p)
          BY <2>1, <4>1, TooOldFine
        <4>3. t \in ControlClient
          BY <4>2 DEF Fine, Touches, Eases
        <4> QED BY <4>2, <4>3, HeldPlaced DEF Fine
      <3>3. CASE ~ (a.panes[p].off \/ a.panes[p].paused) /\ ~ (old /\ BlocksOf(a, p) # <<>>)
        <4>1. t = QueueOutput(a, p, wp)
          BY <2>2, <3>3
        <4>2. Touches(a, t, {p}) /\ (Held(a, p) => Placed(t, p, wp))
          BY <2>1, <3>3, <4>1, QueueOutputFine
        <4> QED BY <4>2
      <3> QED BY <3>1, <3>2, <3>3
    <2>4. Touches(s, t, {p})
      BY <2>1, <2>3, TouchesTwice DEF Fine
    <2>5. "fatal" \in a.flags => "fatal" \in t.flags
      BY <2>3 DEF Touches, Eases, Lasting
    <2>6. Held(s, p) => "fatal" \in t.flags \/ Placed(t, p, wp)
      BY <2>1, <2>3, <2>5 DEF Fine
    <2> QED BY <2>4, <2>6 DEF t
  <1> QED BY <1>1, <1>2, <1>3

-----------------------------------------------------------------------------
LEMMA SoundFits ==
  ASSUME PanesSound, MaxBytes <= SizeMax, NEW p \in Panes
  PROVE  Unwrapped(pane[p])
  <1>1. /\ pane[p].base \in Nat /\ pane[p].size \in Nat /\ pane[p].offset \in Nat
        /\ End1(pane[p]) = pane[p].offset /\ pane[p].offset <= MaxBytes
    BY SoundIs
  <1>2. pane[p].offset <= SizeMax
    BY <1>1, SizesOrdered
  <1> QED BY <1>1, <1>2 DEF Unwrapped

(* n bytes of the pane's first block go to the message, and with them the  *)
(* block or that part of it: q is the queue that is left.                  *)
LEMMA SentFine ==
  ASSUME PanesSound, MaxBytes <= SizeMax, NEW s \in ControlClient, NEW p \in Panes,
         s.panes[p] \in ControlPane, NEW n \in Nat,
         ~ (NewData(pane[p], s.panes[p].offset) < n),
         NEW q \in Seq(Queued), Load(q, p) = Load(s.all, p) - n,
         \A r \in Panes \ {p} : Load(q, r) = Load(s.all, r)
  PROVE  Fine(s, [AppendData(s, p, n) EXCEPT !.all = q], p)
  <1> DEFINE old == s.panes[p]
             a == UpdateUsed(pane[p], old.offset, n)
             cp == [old EXCEPT !.offset = a, !.fresh = FALSE]
             new == [old EXCEPT !.offset = UpdateUsed(pane[p], @, n), !.fresh = FALSE]
             sent == AppendData(s, p, n)
             t == [sent EXCEPT !.all = q]
  <1>1. old.offset \in Nat /\ old.queued \in Nat
    BY DEF ControlPane
  <1>2. a \in Nat
    BY <1>1, SoundIs, UpdateUsedIs
  <1>3. sent = [s EXCEPT !.panes[p] = cp]
    <2>1. new = cp
      BY DEF ControlPane
    <2>2. sent = [s EXCEPT !.panes[p] = new]
      BY DEF AppendData
    <2> HIDE DEF new, cp
    <2> QED BY <2>1, <2>2
  <1>4. Held(s, p) => a = old.offset + n /\ old.offset + n <= pane[p].offset
    <2> SUFFICES ASSUME Held(s, p)
                 PROVE  a = old.offset + n /\ old.offset + n <= pane[p].offset
      OBVIOUS
    <2> DEFINE o == old.offset
               e == pane[p].offset
    <2>1. o \in Nat /\ o <= e /\ e \in Nat /\ End1(pane[p]) = e /\ Unwrapped(pane[p])
      BY <1>1, HeldOffsets, SoundIs, SoundFits
    <2>2. ~ (NewData(pane[p], o) < n)
      OBVIOUS
    <2>3. a = UpdateUsed(pane[p], o, n)
      OBVIOUS
    <2> HIDE DEF o, e, a
    <2>4. NewData(pane[p], o) = e - o
      BY <2>1, NewDataBehind
    <2>5. n <= e - o
      BY <2>1, <2>2, <2>4
    <2>6. a = o + n
      BY <2>1, <2>3, <2>5, UpdateUsedBy
    <2>7. o + n <= e
      BY <2>1, <2>5
    <2> QED BY <2>6, <2>7 DEF o, e
  <1> HIDE DEF a
  <1>5. /\ cp \in ControlPane /\ cp.offset = a /\ cp.queued = old.queued
        /\ cp.paused = old.paused /\ cp.off = old.off
    BY <1>2 DEF ControlPane
  <1> HIDE DEF cp
  <1> HIDE DEF sent
  <1>6. /\ Touches(s, sent, {p}) /\ sent \in ControlClient
        /\ sent.panes[p] = cp /\ sent.flags = s.flags /\ sent.all = s.all
    <2>1. cp \in ControlPane
      BY <1>5
    <2> QED BY ONLY <1>3, <2>1, RepanedTouches
  <1>7. /\ Touches(sent, t, {p}) /\ t.all = q /\ t.panes = sent.panes /\ t.flags = sent.flags
    <2>1. \A r \in Panes \ {p} : Load(q, r) <= Load(sent.all, r)
      <3> TAKE r \in Panes \ {p}
      <3>1. Load(s.all, r) \in Nat
        BY LoadIn
      <3> QED BY <1>6, <3>1
    <2> QED BY <1>6, <2>1, TouchesQueue
  <1> HIDE DEF t
  <1>8. Touches(s, t, {p})
    BY <1>6, <1>7, TouchesTwice
  <1>9. ASSUME Held(s, p) PROVE Held(t, p)
    <2> DEFINE l == Load(s.all, p)
               o == old.offset
               k == old.queued
    <2>1. /\ l \in Nat /\ o \in Nat /\ k \in Nat /\ k <= pane[p].offset
          /\ old.paused \/ old.off => l = 0
          /\ Counted(s, p) => pane[p].base <= o /\ ("exit" \in s.flags \/ o + l <= k)
      BY <1>9, HeldOffsets
    <2>2. a = o + n /\ o + n <= pane[p].offset
      BY <1>4, <1>9
    <2>3. Load(t.all, p) = l - n /\ Load(t.all, p) \in Nat
      <3>1. Load(t.all, p) = l - n
        BY <1>7
      <3>2. t \in ControlClient
        BY <1>8 DEF Touches, Eases
      <3> QED BY <3>1, <3>2, LoadIn
    <2>4. t.panes[p] # NoPane /\ s.panes[p] # NoPane
      BY <1>5, <1>6, <1>7, NoPaneAssumption
    <2>5. Counted(t, p) => Counted(s, p)
      BY <1>5, <1>6, <1>7, <2>4 DEF Counted
    <2>6. t.panes[p] = cp /\ cp.offset = o + n /\ cp.queued = k /\ t.flags = s.flags
      BY <1>5, <1>6, <1>7, <2>2
    <2>7. pane[p].base \in Nat
      BY SoundIs
    <2> HIDE DEF l, o, k
    <2>8. l = 0 => Load(t.all, p) = 0
      BY <2>1, <2>3
    <2>9. pane[p].base <= o => pane[p].base <= o + n
      BY <2>1, <2>7
    <2>10. o + l <= k => (o + n) + Load(t.all, p) <= k
      BY <2>1, <2>3
    <2>11. cp.paused \/ cp.off => Load(t.all, p) = 0
      BY <1>5, <2>1, <2>8
    <2> QED BY <2>1, <2>2, <2>4, <2>5, <2>6, <2>9, <2>10, <2>11 DEF Held, Bound
  <1> QED BY <1>8, <1>9 DEF Fine, t, sent

LEMMA NextBlockFine ==
  ASSUME PanesSound, MaxBytes <= SizeMax, NEW limit \in Nat, NEW m \in Messages(limit),
         NEW p \in Panes, m.s.panes[p] \in ControlPane, NEW patience
  PROVE  Fine(m.s, NextBlock(m, p, limit, patience).s, p)
  <1> DEFINE s == m.s
             at == Min({i \in DOMAIN s.all : OfPane(s.all[i], p)})
             cb == s.all[at]
             n == Smaller(cb.size, limit - m.used)
             bytes == m.message \o BytesAt(s, p, n)
             sent == AppendData(s, p, n)
             q == SubSeq(sent.all, 1, at - 1) \o SubSeq(sent.all, at + 1, Len(sent.all))
             gone == [sent EXCEPT !.all = q]
             less == [sent EXCEPT !.all[at].size = @ - n]
             put == Put(gone, bytes)
             t == NextBlock(m, p, limit, patience)
  <1>1. s \in ControlClient /\ m.message \in Seq(Items) /\ m.used \in 0 .. limit
    BY DEF Messages
  <1>2. t = IF m.used = limit \/ BlocksOf(s, p) = <<>> THEN m
            ELSE IF NewData(pane[p], s.panes[p].offset) < n
            THEN [m EXCEPT !.s.flags = @ \cup {"fatal"}, !.used = limit]
            ELSE IF m.turn = patience
            THEN [m EXCEPT !.s = TooOld(s, p), !.message = <<>>, !.used = limit]
            ELSE IF n < cb.size
            THEN [m EXCEPT !.s = less, !.message = bytes, !.used = limit]
            ELSE IF HasLines(gone)
            THEN [m EXCEPT !.s = FlushAllBlocks(put), !.message = <<>>,
                           !.used = @ + n, !.turn = @ + 1]
            ELSE [m EXCEPT !.s = gone, !.message = bytes, !.used = @ + n, !.turn = @ + 1]
    BY DEF NextBlock
  <1>3. s.panes[p] \in ControlPane
    OBVIOUS
  <1> HIDE DEF t
  <1>4. CASE m.used = limit \/ BlocksOf(s, p) = <<>>
    <2>1. t.s = s
      BY <1>2, <1>4
    <2>2. Touches(s, s, {})
      BY <1>1, TouchesSame
    <2> HIDE DEF s
    <2>3. Fine(s, s, p)
      BY <1>1, <2>2, TouchesFine
    <2> QED BY <2>1, <2>3 DEF t, s
  <1>5. CASE m.used # limit /\ BlocksOf(s, p) # <<>>
    <2> USE <1>5
    <2>1. /\ at \in 1 .. Len(s.all) /\ s.all \in Seq(Queued) /\ cb \in Block
          /\ cb.pane = p /\ cb.size \in Nat \ {0}
      <3> HIDE DEF s
      <3> QED BY <1>1, FirstBlock
    <2> HIDE DEF at, cb
    <2>2. n \in Nat /\ n <= cb.size /\ (~ (n < cb.size) => n = cb.size)
      <3>1. cb.size \in Nat /\ limit - m.used \in Nat
        BY <1>1, <2>1
      <3> QED BY <3>1, SmallerIs
    <2> HIDE DEF n
    <2>3. bytes \in Seq(Items)
      <3> DEFINE new == BytesAt(s, p, n)
      <3>1. new \in Seq(Items)
        <4> HIDE DEF s
        <4> QED BY <1>1, <1>3, <2>2, BytesAre DEF PanesSound
      <3>2. bytes = m.message \o new
        OBVIOUS
      <3> HIDE DEF new, bytes
      <3> QED BY <1>1, <3>1, <3>2, JoinIs
    <2> HIDE DEF bytes
    <2>4. sent \in ControlClient /\ sent.all = s.all
      <3> HIDE DEF s
      <3> QED BY <1>1, <1>3, <2>2, AppendDataIs DEF PanesSound
    <2>5. OfPane(cb, p) /\ cb \in Queued /\ cb = s.all[at]
      BY <2>1, QueuedIs DEF OfPane, cb, Queued
    <2> HIDE DEF s
    <2>6. Size(cb, p) = cb.size /\ \A r \in Panes \ {p} : Size(cb, r) = 0
      BY <2>1, <2>5 DEF Size, OfPane
    <2>7. CASE NewData(pane[p], s.panes[p].offset) < n
      <3> DEFINE u == [s EXCEPT !.flags = @ \cup {"fatal"}]
      <3>1. t.s = u
        BY <1>1, <1>2, <2>7 DEF Messages, s
      <3>2. {"fatal"} \in SUBSET Flags
        BY DEF Flags
      <3>3. Touches(s, u, {})
        BY <1>1, <3>2, FlagTouches
      <3> HIDE DEF u
      <3>4. Fine(s, u, p)
        BY <1>1, <3>3, TouchesFine
      <3> QED BY <3>1, <3>4 DEF t, s
    <2>8. CASE ~ (NewData(pane[p], s.panes[p].offset) < n) /\ m.turn = patience
      <3>1. t.s = TooOld(s, p)
        BY <1>1, <1>2, <2>8 DEF Messages
      <3>2. Fine(s, TooOld(s, p), p)
        BY <1>1, <1>3, TooOldFine
      <3> QED BY <3>1, <3>2 DEF t, s
    <2>9. CASE /\ ~ (NewData(pane[p], s.panes[p].offset) < n) /\ m.turn # patience
               /\ n < cb.size
      <3> DEFINE b == [cb EXCEPT !.size = cb.size - n]
                 r == [s.all EXCEPT ![at] = b]
      <3>1. b \in Queued /\ Size(b, p) = cb.size - n /\ \A o \in Panes \ {p} : Size(b, o) = 0
        <4>1. cb.size - n \in Nat \ {0}
          BY <2>1, <2>2, <2>9
        <4>2. b \in Block /\ b.pane = p /\ b.size = cb.size - n
          BY <2>1, <4>1 DEF Block
        <4>3. b \in Queued /\ IsOutput(b)
          BY <4>2 DEF Queued, Block, IsOutput
        <4> HIDE DEF b
        <4> QED BY <4>2, <4>3 DEF Size, OfPane
      <3>2. [sent.all EXCEPT ![at].size = @ - n] = r
        BY <2>1, <2>4, <2>5
      <3> HIDE DEF b
      <3>3. r \in Seq(Queued)
        BY <2>1, <3>1
      <3>4. \A o : Load(r, o) = Load(s.all, o) - Size(cb, o) + Size(b, o)
        BY <2>1, <2>5, <3>1, LoadShortened
      <3>5. less = [sent EXCEPT !.all = r]
        BY <2>4, <3>2 DEF ControlClient
      <3> HIDE DEF r
      <3>6. Load(r, p) = Load(s.all, p) - n
        <4>1. Load(s.all, p) \in Nat
          BY <1>1, LoadIn
        <4> QED BY <2>1, <2>2, <2>6, <3>1, <3>4, <4>1
      <3>7. \A o \in Panes \ {p} : Load(r, o) = Load(s.all, o)
        <4> TAKE o \in Panes \ {p}
        <4>1. Load(s.all, o) \in Nat
          BY <1>1, LoadIn
        <4> QED BY <2>6, <3>1, <3>4, <4>1
      <3>8. Fine(s, less, p)
        BY <1>1, <1>3, <2>2, <2>9, <3>3, <3>5, <3>6, <3>7, SentFine
      <3>9. t.s = less
        BY <1>1, <1>2, <2>9 DEF Messages
      <3> QED BY <3>8, <3>9 DEF t, s
    <2>10. CASE /\ ~ (NewData(pane[p], s.panes[p].offset) < n) /\ m.turn # patience
                /\ ~ (n < cb.size)
      <3>1. Fine(s, gone, p)
        <4>1. q \in Seq(Queued)
          BY <2>1, <2>4, Removed
        <4>2. \A o : Load(q, o) = Load(s.all, o) - Size(cb, o)
          BY <2>1, <2>4, <2>5, LoadWithout
        <4> HIDE DEF q
        <4>3. Load(q, p) = Load(s.all, p) - n
          BY <2>2, <2>6, <2>10, <4>2
        <4>4. \A o \in Panes \ {p} : Load(q, o) = Load(s.all, o)
          <5> TAKE o \in Panes \ {p}
          <5>1. Load(s.all, o) \in Nat
            BY <1>1, LoadIn
          <5> QED BY <2>6, <4>2, <5>1
        <4> QED BY <1>1, <1>3, <2>2, <2>10, <4>1, <4>3, <4>4, SentFine
      <3> HIDE DEF gone
      <3>2. gone \in ControlClient
        BY <3>1 DEF Fine, Touches, Eases
      <3>3. CASE HasLines(gone)
        <4> DEFINE u == FlushAllBlocks(put)
        <4>1. put \in ControlClient /\ Touches(gone, put, {})
          BY <2>3, <3>2, PutIs, PutTouches DEF Items
        <4> HIDE DEF put
        <4>2. Touches(put, u, {})
          BY <4>1, FlushAllTouches
        <4>3. t.s = u
          BY <1>1, <1>2, <2>10, <3>3 DEF Messages
        <4> HIDE DEF u
        <4>4. Fine(gone, u, p)
          BY <3>2, <4>1, <4>2, TouchesTwice, TouchesFine
        <4>5. Fine(s, u, p)
          BY <1>1, <3>1, <4>4, FineOver
        <4> QED BY <4>3, <4>5 DEF t, s
      <3>4. CASE ~HasLines(gone)
        <4>1. t.s = gone
          BY <1>1, <1>2, <2>10, <3>4 DEF Messages
        <4> QED BY <3>1, <4>1 DEF t, s
      <3> QED BY <3>3, <3>4
    <2> QED BY <2>7, <2>8, <2>9, <2>10
  <1> QED BY <1>4, <1>5

LEMMA DropBlocksFine ==
  ASSUME PanesSound, NEW s \in ControlClient, NEW p \in Panes, s.panes[p] \in ControlPane
  PROVE  Fine(s, DropBlocks(s, p), p)
  <1> DEFINE d == DiscardPane(s, p)
             cp == [d.panes[p] EXCEPT !.adrift = d.panes[p].adrift \/ BlocksOf(s, p) # <<>>]
             t == [d EXCEPT !.panes[p] = cp]
             u == FlushAllBlocks(t)
  <1>1. /\ Touches(s, d, {p}) /\ d \in ControlClient /\ Load(d.all, p) = 0
        /\ d.panes = s.panes /\ d.flags = s.flags
    BY DiscardPaneTouches
  <1>2. DropBlocks(s, p) =
          FlushAllBlocks([d EXCEPT !.panes[p].adrift = @ \/ BlocksOf(s, p) # <<>>])
    BY DEF DropBlocks
  <1> HIDE DEF d
  <1>3. [d EXCEPT !.panes[p].adrift = @ \/ BlocksOf(s, p) # <<>>] = t
    BY <1>1, ClientIs DEF ControlClient, ControlPane
  <1>4. /\ cp \in ControlPane /\ cp.offset = s.panes[p].offset /\ cp.queued = s.panes[p].queued
        /\ cp.paused = s.panes[p].paused /\ cp.off = s.panes[p].off
    <2>1. (d.panes[p].adrift \/ BlocksOf(s, p) # <<>>) \in BOOLEAN
      OBVIOUS
    <2> QED BY <1>1, <2>1 DEF ControlPane
  <1> HIDE DEF cp
  <1>5. /\ Touches(d, t, {p}) /\ t \in ControlClient
        /\ t.panes[p] = cp /\ t.flags = d.flags /\ t.all = d.all
    BY <1>1, <1>4, RepanedTouches
  <1> HIDE DEF t
  <1>6. Touches(s, t, {p})
    BY <1>1, <1>5, TouchesTwice
  <1>7. s.panes[p] # NoPane
    BY NoPaneAssumption
  <1>8. Counted(t, p) => Counted(s, p)
    BY <1>1, <1>4, <1>5, <1>7 DEF Counted
  <1>9. Held(s, p) => Held(t, p)
    BY <1>1, <1>4, <1>5, <1>8, HeldEmpty
  <1>10. Fine(s, t, p)
    BY <1>6, <1>9 DEF Fine
  <1>11. Touches(t, u, {})
    BY <1>5, FlushAllTouches
  <1> HIDE DEF u
  <1>12. Fine(t, u, p)
    BY <1>5, <1>11, TouchesFine
  <1>13. Fine(s, u, p)
    BY <1>10, <1>12, FineOver
  <1> QED BY <1>2, <1>3, <1>13 DEF u

LEMMA WritePendingFine ==
  ASSUME PanesSound, MaxBytes <= SizeMax, NEW s \in ControlClient, NEW p \in Panes,
         s.panes[p] \in ControlPane, NEW limit \in Nat \ {0}, NEW patience
  PROVE  Fine(s, WritePending(s, p, limit, patience), p)
  <1>1. CASE p \notin s.sees \/ ~pane[p].fd
    BY <1>1, DropBlocksFine DEF WritePending
  <1>2. CASE p \in s.sees /\ pane[p].fd
    <2> DEFINE a == [s |-> s, message |-> <<>>, used |-> 0, turn |-> 0]
               S == {m \in Messages(limit) :
                       Keeps(s, m.s) /\ (Told1(m, p) \/ m.used < limit) /\ Fine(s, m.s, p)}
               t == WritePending(s, p, limit, patience)
    <2>1. a \in S
      <3>1. <<>> \in Seq(Items) /\ 0 \in 0 .. limit /\ 0 < limit
        OBVIOUS
      <3>2. a \in Messages(limit) /\ a.s = s /\ a.used = 0
        BY <3>1 DEF Messages
      <3>3. Touches(s, s, {})
        BY TouchesSame
      <3>4. Keeps(s, s) /\ Fine(s, s, p)
        BY <3>3, KeepsSame, TouchesFine
      <3> HIDE DEF a
      <3> QED BY <3>1, <3>2, <3>4
    <2> HIDE DEF a
    <2>2. ASSUME NEW x \in S PROVE NextBlock(x, p, limit, patience) \in S
      <3> DEFINE u == NextBlock(x, p, limit, patience)
      <3>1. /\ x \in Messages(limit) /\ Keeps(s, x.s) /\ Fine(s, x.s, p)
            /\ (Told1(x, p) \/ x.used < limit)
        BY <2>2
      <3>2. x.s.panes[p] \in ControlPane /\ limit \in Nat
        BY <3>1 DEF Keeps
      <3>3. u \in Messages(limit) /\ Keeps(x.s, u.s) /\ Told1(u, p)
        BY <3>1, <3>2, NextBlockIs DEF PanesSound
      <3>4. Fine(x.s, u.s, p)
        BY <3>1, <3>2, NextBlockFine
      <3> HIDE DEF u
      <3>5. Keeps(s, u.s)
        BY <3>1, <3>3, KeepsOver
      <3>6. Fine(s, u.s, p)
        BY <3>1, <3>4, FineOver
      <3>7. u \in S
        BY <3>3, <3>5, <3>6
      <3> QED BY <3>7 DEF u
    <2> HIDE DEF S
    <2>3. PICK m \in S : t = Put(m.s, m.message)
      <3>1. limit \in Nat
        OBVIOUS
      <3>2. PICK x \in S : LET y == NextBlock(x, p, limit, patience)
                           IN  t = Put(y.s, y.message)
        BY <1>2, <2>1, <2>2, <3>1, WritePendingBy DEF a
      <3> DEFINE m == NextBlock(x, p, limit, patience)
      <3>3. m \in S /\ t = Put(m.s, m.message)
        BY <2>2, <3>2
      <3> HIDE DEF m
      <3> QED BY <3>3
    <2>4. m \in Messages(limit) /\ Fine(s, m.s, p)
      BY <2>3 DEF S
    <2>5. m.s \in ControlClient /\ m.message \in Seq(ByteItem \cup LineItem)
      BY <2>4 DEF Messages, Items
    <2>6. Touches(m.s, Put(m.s, m.message), {})
      BY <2>5, PutTouches
    <2>7. Fine(m.s, Put(m.s, m.message), p)
      BY <2>5, <2>6, TouchesFine
    <2> QED BY <2>3, <2>4, <2>7, FineOver
  <1> QED BY <1>1, <1>2

-----------------------------------------------------------------------------
(* control_write_callback: the walks along the pending list.               *)
LEMMA StepFits ==
  ASSUME PanesSound, MaxBytes <= SizeMax, NEW t \in ControlClient, Listed(t),
         NEW p \in Panes, t.panes[p] \in ControlPane, Fits(t, pane),
         NEW limit \in Nat \ {0}, NEW patience
  PROVE  LET v == Step(t, p, limit, patience)
         IN  Walks(t, v) /\ Fits(v, pane) /\ Quiet(t, v)
  <1> DEFINE u == WritePending(t, p, limit, patience)
             w == [u EXCEPT !.pending = Kept(@, Panes \ {p})]
             v == Step(t, p, limit, patience)
  <1>1. Walks(t, v)
    BY StepIs DEF PanesSound
  <1>2. Fine(t, u, p)
    BY WritePendingFine
  <1>3. v = IF t.length >= High THEN t ELSE IF BlocksOf(u, p) # <<>> THEN u ELSE w
    BY DEF Step
  <1> HIDE DEF u, v
  <1>4. u \in ControlClient /\ Quiet(t, u) /\ Fits(u, pane)
    BY <1>2, FineFits DEF Fine, Touches, Eases
  <1>5. Quiet(t, t)
    BY DEF Quiet
  <1>6. Fits(w, pane) /\ Quiet(t, w)
    <2>1. Kept(u.pending, Panes \ {p}) \in Seq(Panes)
      BY <1>4, ClientIs, KeptIs
    <2>2. Alike(u, w) /\ w.flags = u.flags
      BY <1>4, <2>1 DEF Alike, ControlClient
    <2> HIDE DEF w
    <2>3. Touches(u, w, {})
      BY <1>4, <2>2, AlikeTouches
    <2>4. Fits(w, pane)
      BY <1>4, <2>3, EasesFits DEF Touches
    <2> QED BY <1>4, <2>2, <2>4 DEF Quiet, Alike
  <1> HIDE DEF w
  <1> QED BY <1>1, <1>3, <1>4, <1>5, <1>6 DEF v

(* The walk keeps what its steps keep.                                     *)
LEMMA WalkBy ==
  ASSUME NEW s \in ControlClient, s.pending # <<>>, NEW patience, NEW S, s \in S,
         \A x \in S, p \in Range(s.pending), limit \in Nat \ {0} :
           Step(x, p, limit, patience[p]) \in S
  PROVE  Walk(s, patience) \in S
  <1> DEFINE limit == Max({WriteMinimum, ((High - s.length) \div Len(s.pending)) \div Expand})
             N == Len(s.pending)
             Next1(x, n) == Step(x, s.pending[n], limit, patience[s.pending[n]])
             F == [z \in S \X (1 .. N) |-> Next1(z[1], z[2])]
             walk[n \in 0 .. N] ==
               IF n = 0 THEN s
               ELSE LET t == walk[n - 1]
                        p == s.pending[n]
                        u == WritePending(t, p, limit, patience[p])
                    IN  IF t.length >= High THEN t
                        ELSE IF BlocksOf(u, p) # <<>> THEN u
                        ELSE [u EXCEPT !.pending = Kept(@, Panes \ {p})]
  <1>1. limit \in Nat \ {0} /\ N \in Nat /\ \A n \in 1 .. N : s.pending[n] \in Range(s.pending)
    BY LimitIs, ClientIs DEF Range
  <1>2. Walk(s, patience) = walk[N]
    BY DEF Walk
  <1> HIDE DEF limit, walk
  <1>3. \A n \in 1 .. N : \A x \in S : Next1(x, n) \in S
    BY <1>1
  <1>4. \A n \in 1 .. N : \A x \in S : F[<<x, n>>] = Next1(x, n)
    OBVIOUS
  <1> HIDE DEF F
  <1>5. Stays(N, F, S)
    <2> HIDE DEF Next1, N
    <2>1. \A n \in 1 .. N : \A x \in S : F[<<x, n>>] \in S
      BY <1>3, <1>4
    <2> QED BY <2>1 DEF Stays
  <1>6. PICK f : Turns(f, N, F, s) /\ \A n \in 0 .. N : f[n] \in S
    BY <1>1, <1>5, LoopExists
  <1>7. /\ N \in 0 .. N /\ 0 \in 0 .. N
        /\ \A n \in 1 .. N : n \in 0 .. N /\ n # 0 /\ n - 1 \in 0 .. N
        /\ \A n \in 0 .. N : n # 0 => n \in 1 .. N
    BY <1>1
  <1>8. f = [n \in 0 .. N |-> IF n = 0 THEN s ELSE Next1(f[n - 1], n)]
    <2> HIDE DEF Next1, N
    <2> QED BY <1>4, <1>6, <1>7 DEF Turns
  <1>9. walk = [n \in 0 .. N |-> IF n = 0 THEN s ELSE Next1(walk[n - 1], n)]
    BY <1>8 DEF walk, Step
  <1> HIDE DEF N, Next1
  <1>10. walk[0] = s /\ \A n \in 1 .. N : walk[n] = Next1(walk[n - 1], n)
    BY <1>7, <1>9
  <1>11. TurnsIn(walk, N, F, s, S)
    BY <1>4, <1>10 DEF TurnsIn
  <1>12. \A n \in 0 .. N : walk[n] \in S
    BY <1>1, <1>5, <1>11, LoopKeeps
  <1> QED BY <1>2, <1>7, <1>12

LEMMA WalkFits ==
  ASSUME PanesSound, MaxBytes <= SizeMax, NEW s \in ControlClient, Listed(s), Fits(s, pane),
         s.pending # <<>>, NEW patience
  PROVE  LET t == Walk(s, patience) IN Walks(s, t) /\ Fits(t, pane) /\ Quiet(s, t)
  <1> DEFINE S == {x \in ControlClient : Walks(s, x) /\ Fits(x, pane) /\ Quiet(s, x)}
  <1>1. s \in S
    BY KeepsSame, KeepsWalks DEF Quiet
  <1>2. ASSUME NEW x \in S, NEW p \in Range(s.pending), NEW limit \in Nat \ {0}
        PROVE  Step(x, p, limit, patience[p]) \in S
    <2> DEFINE y == Step(x, p, limit, patience[p])
    <2>1. x \in ControlClient /\ Walks(s, x) /\ Fits(x, pane) /\ Quiet(s, x)
      BY <1>2
    <2>2. p \in Panes
      BY ClientIs DEF Range
    <2>3. Listed(x) /\ x.panes[p] \in ControlPane
      BY <2>1, <2>2 DEF Walks, Listed
    <2>4. Walks(x, y) /\ Fits(y, pane) /\ Quiet(x, y)
      BY <2>1, <2>2, <2>3, StepFits
    <2> HIDE DEF y
    <2>5. Walks(s, y) /\ y \in ControlClient
      BY <2>1, <2>4, WalksOver DEF Walks
    <2>6. Quiet(s, y)
      BY <2>1, <2>4 DEF Quiet
    <2>7. y \in S
      BY <2>4, <2>5, <2>6
    <2> QED BY <2>7 DEF y
  <1> HIDE DEF S
  <1>3. Walk(s, patience) \in S
    BY <1>1, <1>2, WalkBy
  <1> QED BY <1>3 DEF S

LEMMA WrittenFits ==
  ASSUME PanesSound, MaxBytes <= SizeMax, NEW s \in ControlClient, Listed(s), Fits(s, pane),
         NEW patience
  PROVE  LET t == Written(s, patience) IN Fits(t, pane) /\ Quiet(s, t)
  <1> DEFINE a == FlushAllBlocks(s)
             N == (MaxBytes + 1) * Cardinality(Panes)
             S == {x \in ControlClient : Listed(x) /\ Fits(x, pane) /\ Quiet(s, x)}
             One(x) == IF x.length < High /\ x.pending # <<>> THEN Walk(x, patience) ELSE x
             F == [z \in S \X (1 .. N) |-> One(z[1])]
             turn[n \in 0 .. N] ==
               IF n = 0 THEN FlushAllBlocks(s)
               ELSE LET t == turn[n - 1]
                    IN  IF t.length < High /\ t.pending # <<>> THEN Walk(t, patience) ELSE t
             end == turn[N]
             quiet == [end EXCEPT !.write = FALSE]
  <1>1. Written(s, patience) = IF end.length = 0 THEN quiet ELSE end
    BY DEF Written
  <1>2. N \in Nat
    BY TurnsAre
  <1>3. a \in S
    <2>1. a \in ControlClient /\ Listed(a)
      BY FlushAllBlocksIs, KeepsWalks DEF Keeps, Walks
    <2>2. Touches(s, a, {})
      BY FlushAllTouches
    <2> HIDE DEF a
    <2>3. Fits(a, pane) /\ Quiet(s, a)
      BY <2>2, EasesFits DEF Touches
    <2> QED BY <2>1, <2>3
  <1> HIDE DEF turn
  <1>4. ASSUME NEW x \in S PROVE One(x) \in S
    <2>1. x \in ControlClient /\ Listed(x) /\ Fits(x, pane) /\ Quiet(s, x)
      BY <1>4
    <2>2. CASE x.length < High /\ x.pending # <<>>
      <3> DEFINE w == Walk(x, patience)
      <3>1. Walks(x, w) /\ Fits(w, pane) /\ Quiet(x, w)
        BY <2>1, <2>2, WalkFits
      <3> HIDE DEF w
      <3>2. w \in ControlClient /\ Listed(w)
        BY <3>1 DEF Walks
      <3>3. Quiet(s, w)
        BY <2>1, <3>1 DEF Quiet
      <3>4. w \in S
        BY <3>1, <3>2, <3>3
      <3> QED BY <2>2, <3>4 DEF w
    <2>3. CASE ~ (x.length < High /\ x.pending # <<>>)
      BY <1>4, <2>3
    <2> QED BY <2>2, <2>3
  <1> HIDE DEF S
  <1>5. \A n \in 1 .. N : \A x \in S : F[<<x, n>>] = One(x)
    OBVIOUS
  <1> HIDE DEF F
  <1>6. Stays(N, F, S)
    BY <1>4, <1>5 DEF Stays
  <1>7. PICK f : Turns(f, N, F, a) /\ \A n \in 0 .. N : f[n] \in S
    BY <1>2, <1>3, <1>6, LoopExists
  <1>8. /\ N \in 0 .. N /\ 0 \in 0 .. N
        /\ \A n \in 1 .. N : n \in 0 .. N /\ n # 0 /\ n - 1 \in 0 .. N
        /\ \A n \in 0 .. N : n # 0 => n \in 1 .. N
    <2> HIDE DEF N
    <2> QED BY <1>2
  <1>9. f = [n \in 0 .. N |-> IF n = 0 THEN a ELSE One(f[n - 1])]
    <2> HIDE DEF One, N, a
    <2> QED BY <1>5, <1>7, <1>8 DEF Turns
  <1>10. turn = [n \in 0 .. N |-> IF n = 0 THEN a ELSE One(turn[n - 1])]
    BY <1>9 DEF turn
  <1> HIDE DEF N, One, a
  <1>11. turn[0] = a /\ \A n \in 1 .. N : turn[n] = One(turn[n - 1])
    BY <1>8, <1>10
  <1>12. TurnsIn(turn, N, F, a, S)
    BY <1>5, <1>11 DEF TurnsIn
  <1>13. end \in ControlClient /\ Fits(end, pane) /\ Quiet(s, end)
    <2>1. end \in S
      BY <1>2, <1>3, <1>6, <1>8, <1>12, LoopKeeps
    <2> QED BY <2>1 DEF S
  <1> HIDE DEF end
  <1>14. Fits(quiet, pane) /\ Quiet(s, quiet)
    <2>1. Alike(end, quiet) /\ quiet.flags = end.flags
      BY <1>13 DEF Alike, ControlClient
    <2> HIDE DEF quiet
    <2>2. Touches(end, quiet, {})
      BY <1>13, <2>1, AlikeTouches
    <2>3. Fits(quiet, pane)
      BY <1>13, <2>2, EasesFits DEF Touches
    <2> QED BY <1>13, <2>1, <2>3 DEF Quiet, Alike
  <1> QED BY <1>1, <1>13, <1>14

-----------------------------------------------------------------------------
(* The invariant, and what each action does to it.                         *)
PanesHold == \A p \in Panes : PaneSound(pane[p])
ClientsFit == \A c \in Clients : Settled(client[c]) /\ Fits(client[c], pane)
BInv == IInv /\ PanesHold /\ ClientsFit /\ events \in 0 .. MaxEvents

LEMMA ClientHolds ==
  ASSUME BInv, NEW c \in Clients
  PROVE  /\ PanesSound /\ client[c] \in ControlClient /\ Settled(client[c])
         /\ Fits(client[c], pane)
  BY DEF BInv, IInv, Sound, PanesSound, PanesHold, ClientsFit

LEMMA PresentHolds ==
  ASSUME BInv, NEW c \in Present
  PROVE  /\ c \in Clients /\ client[c] \in ControlClient /\ Listed(client[c])
         /\ client[c].flags \cap {"fatal", "lost"} = {}
         /\ \A p \in Panes : Held(client[c], p)
  <1>1. c \in Clients /\ EnoughData /\ "lost" \notin client[c].flags
    BY DEF Present
  <1>2. client[c] \in ControlClient /\ Listed(client[c])
    BY <1>1, PresentIs DEF BInv
  <1>3. client[c].flags \cap {"fatal", "lost"} = {}
    BY <1>1 DEF EnoughData
  <1>4. Fits(client[c], pane)
    BY <1>1, ClientHolds
  <1> QED BY <1>1, <1>2, <1>3, <1>4 DEF Fits, Held

LEMMA AbsentFits ==
  ASSUME NEW c \in Clients \ Present, EnoughData, NEW w
  PROVE  Fits(client[c], w)
  BY DEF Present, Fits

LEMMA SettledQuiet ==
  ASSUME NEW s, NEW t, Settled(s), Quiet(s, t)
  PROVE  Settled(t)
  BY DEF Settled, Quiet

LEMMA TouchesHolds ==
  ASSUME NEW s \in ControlClient, Settled(s), NEW w, Fits(s, w), NEW t, Touches(s, t, {})
  PROVE  Settled(t) /\ Fits(t, w)
  BY SettledQuiet, EasesFits DEF Touches

LEMMA FitsSame ==
  ASSUME NEW s, NEW w, Fits(s, w), NEW v,
         \A p \in Panes : v[p].base = w[p].base /\ v[p].offset = w[p].offset
  PROVE  Fits(s, v)
  BY DEF Fits

(* One client changes.                                                     *)
LEMMA OneFits ==
  ASSUME BInv, NEW c \in Clients, NEW t, Settled(t), Fits(t, pane),
         client' = [client EXCEPT ![c] = t], pane' = pane
  PROVE  PanesHold' /\ ClientsFit'
  <1>1. client'[c] = t /\ \A d \in Clients \ {c} : client'[d] = client[d]
    BY DEF BInv, IInv
  <1>2. PanesHold'
    BY DEF BInv, PanesHold
  <1>3. ASSUME NEW d \in Clients PROVE Settled(client'[d]) /\ Fits(client'[d], pane)
    BY <1>1, ClientHolds
  <1> QED BY <1>2, <1>3 DEF ClientsFit

LEMMA OneTouched ==
  ASSUME BInv, NEW c \in Clients, NEW t, Touches(client[c], t, {}),
         client' = [client EXCEPT ![c] = t], pane' = pane
  PROVE  PanesHold' /\ ClientsFit'
  <1>1. Settled(t) /\ Fits(t, pane)
    BY ClientHolds, TouchesHolds
  <1> QED BY <1>1, OneFits

LEMMA ClientReadsFits ==
  ASSUME BInv, NEW c \in Clients, ClientReads(c)
  PROVE  PanesHold' /\ ClientsFit'
  <1>1. PICK n \in 0 .. Low : client' = [client EXCEPT ![c].length = n]
    BY DEF ClientReads
  <1> DEFINE s == client[c]
             t == [s EXCEPT !.length = n]
  <1>2. s \in ControlClient
    BY ClientHolds
  <1>3. client' = [client EXCEPT ![c] = t] /\ pane' = pane
    BY <1>1 DEF ClientReads
  <1>4. n \in Nat
    BY SizesOrdered
  <1> HIDE DEF s
  <1>5. Alike(s, t) /\ t.flags = s.flags
    BY <1>2, <1>4 DEF Alike, ControlClient
  <1> HIDE DEF t
  <1>6. Touches(s, t, {})
    BY <1>2, <1>5, AlikeTouches
  <1> QED BY <1>3, <1>6, OneTouched DEF s

LEMMA WriteCallbackFits ==
  ASSUME BInv, MaxBytes <= SizeMax, NEW c \in Clients, WriteCallback(c)
  PROVE  PanesHold' /\ ClientsFit'
  <1>1. PICK patience : client' = [client EXCEPT ![c] = Written(client[c], patience)]
    BY DEF WriteCallback
  <1>2. client[c] \in ControlClient /\ Listed(client[c])
    BY PresentHolds DEF WriteCallback
  <1>3. PanesSound /\ Settled(client[c]) /\ Fits(client[c], pane)
    BY ClientHolds
  <1> DEFINE t == Written(client[c], patience)
  <1>4. Fits(t, pane) /\ Quiet(client[c], t)
    BY <1>2, <1>3, WrittenFits
  <1>5. client' = [client EXCEPT ![c] = t] /\ pane' = pane
    BY <1>1 DEF WriteCallback
  <1> HIDE DEF t
  <1>6. Settled(t)
    BY <1>3, <1>4, SettledQuiet
  <1> QED BY <1>4, <1>5, <1>6, OneFits

LEMMA BegunFits ==
  ASSUME BInv, NEW c \in Clients, NEW t \in Clients
  PROVE  /\ PanesSound /\ Begun(c, t) \in ControlClient /\ Fits(Begun(c, t), pane)
         /\ IF t = c THEN Begun(c, t).depth = 1 ELSE Settled(Begun(c, t))
  <1>1. PanesSound /\ client[t] \in ControlClient /\ Settled(client[t]) /\ Fits(client[t], pane)
    BY ClientHolds
  <1> DEFINE s == client[t]
             b == Begin(s)
  <1>2. Eases(s, b, {}) /\ b.depth = s.depth + 1
    BY <1>1, BeginEases DEF PanesSound
  <1> HIDE DEF b
  <1>3. b \in ControlClient /\ Fits(b, pane) /\ b.depth = 1
    BY <1>1, <1>2, EasesFits DEF Eases, Settled
  <1> QED BY <1>1, <1>3 DEF Begun, b

LEMMA RunFits ==
  ASSUME BInv, NEW c \in Clients, NEW t \in Clients, NEW done \in ControlClient,
         Fits(done, pane), Quiet(Begun(c, t), done), Run(c, t, done)
  PROVE  PanesHold' /\ ClientsFit'
  <1> DEFINE begun == [client EXCEPT ![c] = Begin(client[c])]
             changed == [begun EXCEPT ![t] = done]
             f == [changed EXCEPT ![c] = End(changed[c])]
  <1>1. client' = f /\ pane' = pane
    BY DEF Run
  <1>2. PanesSound /\ client = [d \in Clients |-> client[d]]
    BY ClientHolds DEF BInv, IInv
  <1>3. /\ begun = [d \in Clients |-> begun[d]]
        /\ begun[c] = Begun(c, c) /\ \A d \in Clients \ {c} : begun[d] = client[d]
    BY <1>2 DEF Begun
  <1> HIDE DEF begun
  <1>4. /\ changed = [d \in Clients |-> changed[d]] /\ changed[t] = done
        /\ \A d \in Clients \ {t} : changed[d] = begun[d]
    BY <1>3
  <1> HIDE DEF changed
  <1>5. /\ f[c] = End(changed[c]) /\ \A d \in Clients \ {c} : f[d] = changed[d]
    BY <1>4
  <1> HIDE DEF f
  <1>6. changed[c] \in ControlClient /\ changed[c].depth = 1 /\ Fits(changed[c], pane)
    <2>1. CASE t = c
      <3>1. Begun(c, t).depth = 1
        BY <2>1, BegunFits
      <3>2. done.depth = 1
        BY <3>1 DEF Quiet
      <3> QED BY <1>4, <2>1, <3>2
    <2>2. CASE t # c
      <3>1. changed[c] = Begun(c, c)
        BY <1>3, <1>4, <2>2
      <3> QED BY <3>1, BegunFits
    <2> QED BY <2>1, <2>2
  <1>7. Settled(f[c]) /\ Fits(f[c], pane)
    <2> DEFINE x == changed[c]
    <2> HIDE DEF x
    <2>1. x \in ControlClient /\ x.depth = 1 /\ Fits(x, pane) /\ f[c] = End(x) /\ PanesTyped
      BY <1>2, <1>5, <1>6 DEF x, PanesSound
    <2>2. Eases(x, End(x), {}) /\ Settled(End(x))
      BY <2>1, EndEases
    <2>3. Fits(End(x), pane)
      BY <2>1, <2>2, EasesFits
    <2> QED BY <2>1, <2>2, <2>3
  <1>8. ASSUME NEW d \in Clients PROVE Settled(f[d]) /\ Fits(f[d], pane)
    <2>1. CASE d = c
      BY <1>7, <2>1
    <2>2. CASE d # c /\ d = t
      <3>1. f[d] = done /\ Settled(Begun(c, t))
        BY <1>4, <1>5, <2>2, BegunFits
      <3> QED BY <3>1, SettledQuiet
    <2>3. CASE d # c /\ d # t
      <3>1. f[d] = client[d]
        BY <1>3, <1>4, <1>5, <2>3
      <3> QED BY <3>1, ClientHolds
    <2> QED BY <2>1, <2>2, <2>3
  <1>9. PanesHold'
    BY <1>1 DEF BInv, PanesHold
  <1> QED BY <1>1, <1>8, <1>9 DEF ClientsFit

LEMMA RefreshPaneFits ==
  ASSUME BInv, NEW c \in Clients, NEW t \in Clients, NEW p \in Panes, RefreshPane(c, t, p)
  PROVE  PanesHold' /\ ClientsFit'
  <1> DEFINE s == Begun(c, t)
  <1>1. PanesSound /\ s \in ControlClient /\ Fits(s, pane) /\ s = Begun(c, t)
    BY BegunFits
  <1>2. PICK done : /\ Run(c, t, done)
                    /\ \/ done = SetPaneOn(s, p) \/ done = SetPaneOff(s, p)
                       \/ done = ContinuePane(s, p) \/ done = PausePane(s, p)
    BY DEF RefreshPane
  <1> HIDE DEF s
  <1>3. Fine(s, done, p)
    BY <1>1, <1>2, SetPaneOnFine, SetPaneOffFine, ContinuePaneFine, PausePaneFine
  <1>4. done \in ControlClient /\ Quiet(s, done) /\ Fits(done, pane)
    BY <1>1, <1>3, FineFits DEF Fine, Touches, Eases
  <1> QED BY <1>1, <1>2, <1>4, RunFits

LEMMA SetFlagsFits ==
  ASSUME BInv, NEW c \in Clients, NEW t \in Clients, SetFlags(c, t)
  PROVE  PanesHold' /\ ClientsFit'
  <1> DEFINE s == Begun(c, t)
             Set(F) == [s EXCEPT !.flags = F]
  <1>1. s \in ControlClient /\ Fits(s, pane) /\ s = Begun(c, t)
    BY BegunFits
  <1>2. \/ Run(c, t, [s EXCEPT !.flags = @ \cup {"pauseafter"}])
        \/ Run(c, t, [s EXCEPT !.flags = @ \ {"pauseafter"}])
        \/ Run(c, t, ResetOffsets([s EXCEPT !.flags = @ \cup {"nooutput"}]))
        \/ Run(c, t, ResetOffsets([s EXCEPT !.flags = @ \ {"nooutput"}]))
    BY DEF SetFlags
  <1> HIDE DEF s
  <1>3. \/ Run(c, t, Set(s.flags \cup {"pauseafter"}))
        \/ Run(c, t, Set(s.flags \ {"pauseafter"}))
        \/ Run(c, t, ResetOffsets(Set(s.flags \cup {"nooutput"})))
        \/ Run(c, t, ResetOffsets(Set(s.flags \ {"nooutput"})))
    BY <1>2
  <1>4. "pauseafter" \in Flags /\ "nooutput" \in Flags /\ s.flags \in SUBSET Flags
    BY <1>1, ClientIs DEF Flags
  <1>5. ASSUME NEW F \in SUBSET Flags
        PROVE  Set(F) \in ControlClient /\ Set(F).flags = F /\ Alike(s, Set(F))
    BY <1>1 DEF ControlClient, Alike
  <1> HIDE DEF Set
  <1>6. ASSUME NEW F \in SUBSET Flags, Run(c, t, Set(F)),
               \A flag \in Lasting : flag \in s.flags => flag \in F
        PROVE  PanesHold' /\ ClientsFit'
    <2>1. Touches(s, Set(F), {})
      BY <1>1, <1>5, <1>6, AlikeTouches
    <2>2. Fits(Set(F), pane) /\ Quiet(s, Set(F))
      BY <1>1, <2>1, EasesFits DEF Touches
    <2> QED BY <1>1, <1>5, <1>6, <2>2, RunFits
  <1>7. ASSUME NEW F \in SUBSET Flags, Run(c, t, ResetOffsets(Set(F)))
        PROVE  PanesHold' /\ ClientsFit'
    <2> DEFINE r == ResetOffsets(Set(F))
    <2>1. r \in ControlClient
      BY <1>5, ResetOffsetsIs
    <2>2. Fits(r, pane) /\ r.depth = Set(F).depth /\ r.deferred = Set(F).deferred
      BY <1>5, ResetOffsetsFits
    <2> HIDE DEF r
    <2>3. Quiet(s, r)
      BY <1>5, <2>2 DEF Quiet, Alike
    <2> QED BY <1>1, <1>7, <2>1, <2>2, <2>3, RunFits DEF r
  <1>8. /\ s.flags \cup {"pauseafter"} \in SUBSET Flags
        /\ s.flags \cup {"nooutput"} \in SUBSET Flags
        /\ s.flags \ {"pauseafter"} \in SUBSET Flags
        /\ s.flags \ {"nooutput"} \in SUBSET Flags
        /\ \A flag \in Lasting : flag # "pauseafter"
    BY <1>4 DEF Lasting
  <1> QED BY <1>3, <1>6, <1>7, <1>8

LEMMA NotifiedTouches ==
  ASSUME PanesTyped, NEW s \in ControlClient
  PROVE  Touches(s, Notified(s), {})
  <1>1. "notify" \in Kinds
    BY DEF Kinds
  <1> QED BY <1>1, TouchesSame, NotifyWriteTouches DEF Notified

LEMMA CommandFits ==
  ASSUME BInv, NEW c \in Clients, Command(c)
  PROVE  PanesHold' /\ ClientsFit'
  <1> DEFINE s == Begun(c, c)
             t == Write(s, "reply")
             u == Notified(t)
  <1>1. s \in ControlClient /\ Fits(s, pane) /\ PanesTyped /\ "reply" \in Kinds
    BY BegunFits DEF PanesSound, Kinds
  <1>2. Run(c, c, u)
    BY DEF Command
  <1> HIDE DEF s
  <1>3. Touches(s, t, {})
    BY <1>1, WriteTouches
  <1> HIDE DEF t
  <1>4. Touches(t, u, {})
    BY <1>1, <1>3, NotifiedTouches DEF Touches, Eases
  <1> HIDE DEF u
  <1>5. Touches(s, u, {})
    BY <1>1, <1>3, <1>4, TouchesTwice
  <1>6. u \in ControlClient /\ Fits(u, pane) /\ Quiet(s, u)
    BY <1>1, <1>5, EasesFits DEF Touches, Eases
  <1> QED BY <1>2, <1>6, RunFits DEF s

LEMMA NotifyFits ==
  ASSUME BInv, Notify
  PROVE  PanesHold' /\ ClientsFit'
  <1> DEFINE f == [c \in Clients |-> IF c \in Present THEN Notified(client[c]) ELSE client[c]]
  <1>1. client' = f /\ pane' = pane
    BY DEF Notify
  <1>2. ASSUME NEW c \in Clients PROVE Settled(f[c]) /\ Fits(f[c], pane)
    <2>1. PanesTyped /\ client[c] \in ControlClient /\ Settled(client[c]) /\ Fits(client[c], pane)
      BY ClientHolds DEF PanesSound
    <2>2. Touches(client[c], Notified(client[c]), {})
      BY <2>1, NotifiedTouches
    <2>3. Settled(Notified(client[c])) /\ Fits(Notified(client[c]), pane)
      BY <2>1, <2>2, TouchesHolds
    <2> QED BY <2>1, <2>3
  <1> HIDE DEF f
  <1>3. PanesHold'
    BY <1>1 DEF BInv, PanesHold
  <1> QED BY <1>1, <1>2, <1>3 DEF ClientsFit

LEMMA SwitchFits ==
  ASSUME BInv, NEW c \in Clients, Switch(c)
  PROVE  PanesHold' /\ ClientsFit'
  <1>1. PICK P \in SUBSET Panes :
          client' = [client EXCEPT ![c] = Notified([client[c] EXCEPT !.sees = P])]
    BY DEF Switch
  <1> DEFINE s == client[c]
             t == [s EXCEPT !.sees = P]
             u == Notified(t)
  <1>2. s \in ControlClient /\ PanesTyped
    BY ClientHolds DEF PanesSound
  <1>3. client' = [client EXCEPT ![c] = u] /\ pane' = pane
    BY <1>1 DEF Switch
  <1> HIDE DEF s
  <1>4. Alike(s, t) /\ t.flags = s.flags /\ t \in ControlClient
    BY <1>2 DEF Alike, ControlClient
  <1> HIDE DEF t
  <1>5. Touches(s, t, {})
    BY <1>2, <1>4, AlikeTouches
  <1>6. Touches(t, u, {})
    BY <1>2, <1>4, NotifiedTouches
  <1> HIDE DEF u
  <1>7. Touches(s, u, {})
    BY <1>2, <1>5, <1>6, TouchesTwice
  <1> QED BY <1>3, <1>7, OneTouched DEF s

LEMMA LeaveFits ==
  ASSUME BInv, NEW c \in Clients, Leave(c)
  PROVE  PanesHold' /\ ClientsFit'
  <1> DEFINE s == client[c]
             t == [s EXCEPT !.flags = @ \cup {"exit"}]
  <1>1. s \in ControlClient
    BY ClientHolds
  <1>2. client' = [client EXCEPT ![c] = t] /\ pane' = pane
    BY DEF Leave
  <1>3. {"exit"} \in SUBSET Flags
    BY DEF Flags
  <1> HIDE DEF s
  <1>4. Touches(s, t, {})
    BY <1>1, <1>3, FlagTouches
  <1> HIDE DEF t
  <1> QED BY <1>2, <1>4, OneTouched DEF s

LEMMA ExitTimerFits ==
  ASSUME BInv, NEW c \in Clients, ExitTimer(c)
  PROVE  PanesHold' /\ ClientsFit'
  <1> DEFINE s == client[c]
             F == s.flags \cup {"exited"}
             t == [s EXCEPT !.all = <<>>, !.write = FALSE, !.flags = F]
  <1>1. s \in ControlClient
    BY ClientHolds
  <1>2. client' = [client EXCEPT ![c] = t] /\ pane' = pane
    BY <1>1 DEF ExitTimer, ControlClient
  <1> HIDE DEF s
  <1>3. F \in SUBSET Flags /\ \A flag \in s.flags : flag \in F
    BY <1>1, ClientIs DEF Flags
  <1> HIDE DEF F
  <1>4. <<>> \in Seq(Queued) /\ FALSE \in BOOLEAN
    OBVIOUS
  <1>5. /\ t \in ControlClient /\ t.all = <<>> /\ t.panes = s.panes /\ t.flags = F
        /\ t.depth = s.depth /\ t.deferred = s.deferred
    BY <1>1, <1>3, <1>4 DEF ControlClient
  <1> HIDE DEF t
  <1>6. ASSUME NEW p \in Panes PROVE Load(t.all, p) <= Load(s.all, p)
    <2>1. \A b \in Range(<<>>) : ~OfPane(b, p)
      BY DEF Range
    <2>2. Load(<<>>, p) = 0
      BY <1>4, <2>1, LoadNone
    <2>3. Load(s.all, p) \in Nat
      BY <1>1, LoadIn
    <2> QED BY <1>5, <2>2, <2>3
  <1>7. Touches(s, t, {})
    BY <1>3, <1>5, <1>6 DEF Touches, Eases, Eased, Quiet
  <1> QED BY <1>2, <1>7, OneTouched DEF s

LEMMA LostFits ==
  ASSUME BInv, NEW c \in Clients, Lost(c)
  PROVE  PanesHold' /\ ClientsFit'
  <1> DEFINE t == Started({"lost"})
  <1>1. Settled(t) /\ Fits(t, pane)
    BY DEF Started, Settled, Fits
  <1>2. client' = [client EXCEPT ![c] = t] /\ pane' = pane
    BY DEF Lost
  <1> HIDE DEF t
  <1> QED BY <1>1, <1>2, OneFits

-----------------------------------------------------------------------------
(* The actions of the panes.                                               *)
LEMMA PaneFits ==
  ASSUME BInv, NEW p \in Panes, NEW wp, PaneSound(wp),
         wp.base = pane[p].base, wp.offset = pane[p].offset,
         pane' = [pane EXCEPT ![p] = wp], client' = client
  PROVE  PanesHold' /\ ClientsFit'
  <1>1. pane'[p] = wp /\ \A q \in Panes \ {p} : pane'[q] = pane[q]
    BY DEF BInv, IInv, PanesTyped
  <1>2. PanesHold'
    BY <1>1 DEF BInv, PanesHold
  <1>3. \A q \in Panes : pane'[q].base = pane[q].base /\ pane'[q].offset = pane[q].offset
    BY <1>1
  <1>4. ASSUME NEW c \in Clients PROVE Settled(client[c]) /\ Fits(client[c], pane')
    <2>1. Settled(client[c]) /\ Fits(client[c], pane)
      BY ClientHolds
    <2> QED BY <1>3, <2>1 DEF Fits
  <1> QED BY <1>2, <1>4 DEF ClientsFit

LEMMA ExitedFits ==
  ASSUME BInv, NEW p \in Panes, Exited(p)
  PROVE  PanesHold' /\ ClientsFit'
  <1> DEFINE wp == [pane[p] EXCEPT !.fd = FALSE]
  <1>1. pane[p] \in WindowPane /\ PaneSound(pane[p])
    BY ClientHolds, PaneIs DEF BInv, IInv, PanesHold
  <1>2. PaneSound(wp) /\ wp.base = pane[p].base /\ wp.offset = pane[p].offset
    BY <1>1 DEF PaneSound, End1, WindowPane
  <1>3. pane' = [pane EXCEPT ![p] = wp] /\ client' = client
    BY DEF Exited, BInv, IInv, PanesTyped
  <1> HIDE DEF wp
  <1> QED BY <1>2, <1>3, PaneFits

LEMMA PipePaneFits ==
  ASSUME BInv, NEW p \in Panes, NEW open \in BOOLEAN, PipePane(p, open)
  PROVE  PanesHold' /\ ClientsFit'
  <1> DEFINE piped == IF open THEN pane[p].offset ELSE pane[p].piped
             wp == [pane[p] EXCEPT !.pipe = open, !.piped = piped]
  <1>1. /\ pane[p] \in WindowPane /\ PaneSound(pane[p])
        /\ pane[p].base \in Nat /\ pane[p].offset \in Nat /\ pane[p].size \in Nat
        /\ pane[p].base + pane[p].size = pane[p].offset
    BY PaneIs DEF BInv, IInv, PanesHold, PaneSound, End1, WindowPane
  <1>2. /\ wp.pipe = open /\ wp.piped = piped /\ wp.base = pane[p].base
        /\ wp.offset = pane[p].offset /\ wp.size = pane[p].size
        /\ wp.before = pane[p].before /\ wp.total = pane[p].total
    BY <1>1 DEF WindowPane
  <1>3. pane' = [pane EXCEPT ![p] = wp] /\ client' = client
    BY <1>1 DEF PipePane, BInv, IInv, PanesTyped, WindowPane
  <1> HIDE DEF wp
  <1>4. piped <= pane[p].offset /\ (open => pane[p].base <= piped)
    BY <1>1 DEF PaneSound
  <1> HIDE DEF piped
  <1>5. PaneSound(wp)
    BY <1>1, <1>2, <1>4 DEF PaneSound, End1
  <1> QED BY <1>2, <1>3, <1>5, PaneFits

LEMMA RespawnFits ==
  ASSUME BInv, NEW p \in Panes, Respawn(p)
  PROVE  PanesHold' /\ ClientsFit'
  <1> DEFINE wp == [pane[p] EXCEPT !.fd = TRUE, !.base = 0, !.size = 0, !.offset = 0,
                            !.piped = 0, !.read = TRUE, !.before = pane[p].total]
             f == [c \in Clients |->
                     IF c \in Present THEN ResetPane(client[c], p, wp) ELSE client[c]]
  <1>1. pane[p] \in WindowPane /\ PaneSound(pane[p]) /\ pane[p].total \in Nat
    BY PaneIs DEF BInv, IInv, PanesHold, WindowPane
  <1>2. pane' = [pane EXCEPT ![p] = wp] /\ client' = f /\ EnoughData
    BY DEF Respawn, Event
  <1>3. /\ wp.base = 0 /\ wp.size = 0 /\ wp.offset = 0 /\ wp.piped = 0
        /\ wp.before = pane[p].total /\ wp.total = pane[p].total
    BY <1>1 DEF WindowPane
  <1> HIDE DEF wp
  <1>4. pane'[p] = wp /\ \A q \in Panes \ {p} : pane'[q] = pane[q]
    BY <1>2 DEF BInv, IInv, PanesTyped
  <1>5. wp \in WindowPane
    <2>1. IInv'
      BY RespawnInv DEF BInv
    <2> QED BY <1>4, <2>1 DEF IInv, PanesTyped
  <1>6. PanesHold'
    <2>1. PaneSound(wp)
      BY <1>1, <1>3 DEF PaneSound, End1
    <2> QED BY <1>4, <2>1 DEF BInv, PanesHold
  <1>7. ASSUME NEW c \in Clients PROVE Settled(f[c]) /\ Fits(f[c], pane')
    <2>1. CASE c \in Present
      <3> DEFINE s == client[c]
                 t == ResetPane(s, p, wp)
      <3>1. /\ s \in ControlClient /\ Settled(s)
            /\ \A q \in Panes : Bound(s, q, pane[q].base, pane[q].offset)
        BY <2>1, ClientHolds, PresentHolds DEF Held
      <3>2. f[c] = t
        BY <2>1
      <3> HIDE DEF s, f
      <3>3. Touches(s, t, {p}) /\ \A base, end : Bound(s, p, base, end) => Bound(t, p, 0, 0)
        BY <1>3, <1>5, <3>1, ResetPaneTouches
      <3> HIDE DEF t
      <3>4. Bound(t, p, 0, 0)
        BY <3>1, <3>3
      <3>5. ASSUME NEW q \in Panes \ {p} PROVE Bound(t, q, pane[q].base, pane[q].offset)
        BY <3>1, <3>3, BoundStays DEF Touches
      <3>6. \A q \in Panes : Bound(t, q, pane'[q].base, pane'[q].offset)
        BY <1>3, <1>4, <3>4, <3>5
      <3>7. Settled(t)
        BY <3>1, <3>3, SettledQuiet DEF Touches
      <3> QED BY <3>2, <3>6, <3>7 DEF Fits
    <2>2. CASE c \notin Present
      <3>1. f[c] = client[c]
        BY <2>2
      <3> QED BY <1>2, <2>2, <3>1, ClientHolds, AbsentFits
    <2> QED BY <2>1, <2>2
  <1> HIDE DEF f
  <1> QED BY <1>2, <1>6, <1>7 DEF ClientsFit

LEMMA TakenIs ==
  ASSUME PanesSound, MaxBytes <= SizeMax, NEW p \in Panes, NEW n \in Nat,
         pane[p].total + n <= MaxBytes,
         NEW wp, wp = [pane[p] EXCEPT !.size = @ + n, !.total = @ + n]
  PROVE  /\ Grown(p, wp) /\ Taken(wp) \in WindowPane /\ PaneSound(Taken(wp))
         /\ Taken(wp).base = wp.base /\ Taken(wp).offset = End1(wp)
  <1> DEFINE old == pane[p]
             size == old.size + n
             total == old.total + n
             a == UpdateUsed(wp, wp.offset, NewData(wp, wp.offset))
             b == UpdateUsed(wp, wp.piped, NewData(wp, wp.piped))
             piped == IF wp.pipe THEN b ELSE wp.piped
             t == [wp EXCEPT !.offset = a, !.piped = piped, !.read = FALSE]
  <1>1. old \in WindowPane /\ PaneSound(old)
    BY SoundIs
  <1>2. /\ old.base \in Nat /\ old.size \in Nat /\ old.offset \in Nat /\ old.piped \in Nat
        /\ old.before \in Nat /\ old.total \in Nat /\ old.base + old.size = old.offset
        /\ old.before + old.offset = old.total /\ old.total + n <= MaxBytes
        /\ old.piped <= old.offset /\ (old.pipe => old.base <= old.piped)
    BY <1>1 DEF WindowPane, PaneSound, End1
  <1>3. wp = [old EXCEPT !.size = size, !.total = total]
    BY <1>1 DEF WindowPane
  <1> HIDE DEF old
  <1>4. size \in Nat /\ total \in Nat /\ size = old.size + n /\ total = old.total + n
    BY <1>2
  <1> HIDE DEF size, total
  <1>5. /\ wp \in WindowPane /\ wp.size = size /\ wp.total = total /\ wp.base = old.base
        /\ wp.offset = old.offset /\ wp.piped = old.piped /\ wp.pipe = old.pipe
        /\ wp.before = old.before
    <2>1. wp = [fd |-> old.fd, base |-> old.base, size |-> size, offset |-> old.offset,
                pipe |-> old.pipe, piped |-> old.piped, read |-> old.read,
                before |-> old.before, total |-> total]
      BY <1>1, <1>3 DEF WindowPane
    <2>2. old.fd \in BOOLEAN /\ old.pipe \in BOOLEAN /\ old.read \in BOOLEAN
      BY <1>1 DEF WindowPane
    <2>3. size \in Int
      BY <1>4
    <2>4. /\ old.base \in Nat /\ old.offset \in Nat /\ old.piped \in Nat
          /\ old.before \in Nat /\ total \in Nat
      BY <1>2, <1>4
    <2> HIDE DEF old
    <2>5. wp \in WindowPane
      BY ONLY <2>1, <2>2, <2>3, <2>4 DEF WindowPane
    <2> QED BY ONLY <2>1, <2>5
  <1>6. /\ End1(wp) = old.offset + n /\ End1(wp) \in Nat /\ End1(wp) <= SizeMax
        /\ old.before + End1(wp) = total /\ total <= MaxBytes
    BY <1>2, <1>4, <1>5, SizesOrdered DEF End1
  <1>7. Grown(p, wp)
    BY <1>2, <1>4, <1>5, <1>6 DEF Grown, Unwrapped, old
  <1>8. \A offset \in Nat : offset <= End1(wp) =>
          UpdateUsed(wp, offset, NewData(wp, offset)) = End1(wp)
    <2> SUFFICES ASSUME NEW offset \in Nat, offset <= End1(wp)
                 PROVE  UpdateUsed(wp, offset, NewData(wp, offset)) = End1(wp)
      OBVIOUS
    <2> DEFINE k == End1(wp) - offset
    <2>1. k \in Nat /\ offset + k = End1(wp) /\ k <= End1(wp) - offset
      BY <1>6
    <2>2. NewData(wp, offset) = k
      BY <1>7, NewDataBehind DEF Grown
    <2> HIDE DEF k
    <2>3. UpdateUsed(wp, offset, k) = offset + k
      BY <1>7, <2>1, UpdateUsedBy DEF Grown
    <2> QED BY <2>1, <2>2, <2>3
  <1>9. a = End1(wp) /\ b = End1(wp)
    BY <1>2, <1>5, <1>6, <1>8
  <1>10. Taken(wp) = t
    BY <1>5 DEF Taken, WindowPane
  <1> HIDE DEF a, b
  <1>11. /\ piped \in Nat /\ piped <= End1(wp) /\ (wp.pipe => wp.base <= piped)
    <2>1. wp.base <= End1(wp)
      BY <1>2, <1>5, <1>6
    <2> QED BY <1>2, <1>5, <1>6, <1>9, <2>1
  <1> HIDE DEF piped
  <1>12. /\ t \in WindowPane /\ t.offset = End1(wp) /\ t.base = wp.base /\ t.size = wp.size
         /\ t.piped = piped /\ t.pipe = wp.pipe /\ t.before = wp.before /\ t.total = wp.total
    BY <1>5, <1>6, <1>9, <1>11 DEF WindowPane
  <1> HIDE DEF t
  <1>13. PaneSound(t)
    BY <1>4, <1>5, <1>6, <1>11, <1>12 DEF PaneSound, End1
  <1> QED BY <1>7, <1>10, <1>12, <1>13

LEMMA ReadFits ==
  ASSUME BInv, MaxBytes <= SizeMax, NEW p \in Panes, NEW n \in 1 .. MaxBytes, Read(p, n)
  PROVE  PanesHold' /\ ClientsFit'
  <1> DEFINE wp == [pane[p] EXCEPT !.size = @ + n, !.total = @ + n]
             sum == MapThenSumSet(LAMBDA q : pane[q].total, Panes)
             f(old) == [c \in Clients |->
                          IF c \in Present THEN WriteOutput(client[c], p, wp, c \in old)
                          ELSE client[c]]
  <1>1. PanesSound
    BY DEF BInv, IInv, PanesSound, PanesHold
  <1>2. /\ pane' = [pane EXCEPT ![p] = Taken(wp)] /\ EnoughData
        /\ MapThenSumSet(LAMBDA q : pane[q].total, Panes) + n <= MaxBytes
    BY DEF Read
  <1>3. PICK old \in SUBSET Clients : client' = f(old)
    BY DEF Read
  <1>4. n \in Nat
    BY SizesOrdered
  <1>5. pane[p].total + n <= MaxBytes
    <2>1. \A q \in Panes : pane[q].total \in Nat
      BY <1>1, SoundIs DEF WindowPane
    <2>2. sum \in Nat /\ pane[p].total <= sum /\ pane[p].total \in Nat
      BY <2>1, TotalIs
    <2>3. sum + n <= MaxBytes
      BY <1>2
    <2> HIDE DEF sum
    <2> QED BY <1>4, <2>2, <2>3, SizesOrdered
  <1>6. wp = [pane[p] EXCEPT !.size = @ + n, !.total = @ + n]
    OBVIOUS
  <1> HIDE DEF wp
  <1>7. /\ Grown(p, wp) /\ PaneSound(Taken(wp))
        /\ Taken(wp).base = wp.base /\ Taken(wp).offset = End1(wp)
    BY <1>1, <1>4, <1>5, <1>6, TakenIs
  <1>8. pane'[p] = Taken(wp) /\ \A q \in Panes \ {p} : pane'[q] = pane[q]
    BY <1>1, <1>2 DEF PanesSound, PanesTyped
  <1>9. PanesHold'
    BY <1>1, <1>7, <1>8 DEF PanesSound, PanesHold
  <1>10. ASSUME NEW c \in Clients PROVE Settled(f(old)[c]) /\ Fits(f(old)[c], pane')
    <2>1. CASE c \in Present
      <3> DEFINE s == client[c]
                 late == c \in old
                 t == WriteOutput(s, p, wp, late)
      <3>1. s \in ControlClient /\ Settled(s) /\ \A q \in Panes : Held(s, q)
        BY <2>1, ClientHolds, PresentHolds
      <3>2. f(old)[c] = t
        BY <2>1
      <3> HIDE DEF s, late, f
      <3>3. Touches(s, t, {p}) /\ ("fatal" \in t.flags \/ Placed(t, p, wp))
        BY <1>1, <1>7, <3>1, WriteOutputFine
      <3> HIDE DEF t
      <3>4. ASSUME NEW q \in Panes \ {p} PROVE Bound(t, q, pane[q].base, pane[q].offset)
        BY <3>1, <3>3, BoundStays DEF Touches, Held
      <3>5. Placed(t, p, wp) => \A q \in Panes : Bound(t, q, pane'[q].base, pane'[q].offset)
        BY <1>7, <1>8, <3>4 DEF Placed
      <3>6. Fits(t, pane')
        BY <3>3, <3>5 DEF Fits
      <3>7. Settled(t)
        BY <3>1, <3>3, SettledQuiet DEF Touches
      <3> QED BY <3>2, <3>6, <3>7
    <2>2. CASE c \notin Present
      <3>1. f(old)[c] = client[c]
        BY <2>2
      <3> HIDE DEF f
      <3> QED BY <1>2, <2>2, <3>1, ClientHolds, AbsentFits
    <2> QED BY <2>1, <2>2
  <1> HIDE DEF f
  <1> QED BY <1>3, <1>9, <1>10 DEF ClientsFit

(* server_client_check_pane_buffer drains no byte that the pipe or a       *)
(* client needs, and the base does not roll over.                          *)
LEMMA MinimumIs ==
  ASSUME BInv, MaxBytes <= SizeMax, NEW p \in Panes
  PROVE  LET wp == pane[p]
             k == MinimumOf(p)
         IN  /\ k \in Nat /\ wp.base + k <= wp.offset /\ ~Rolls(p)
             /\ wp.pipe => wp.base + k <= wp.piped
             /\ \A c \in CountedOn(p) : wp.base + k <= client[c].panes[p].offset
  <1> DEFINE wp == pane[p]
             offsets == {client[c].panes[p].offset : c \in CountedOn(p)}
             T == {wp.offset} \cup (IF wp.pipe THEN {wp.piped} ELSE {}) \cup offsets
             least == Min(T)
             k == MinimumOf(p)
  <1>1. PanesSound
    BY DEF BInv, IInv, PanesSound, PanesHold
  <1>2. /\ wp.base \in Nat /\ wp.offset \in Nat /\ wp.piped \in Nat
        /\ wp.base <= wp.offset /\ wp.offset <= MaxBytes
        /\ (wp.pipe => wp.base <= wp.piped /\ wp.piped <= wp.offset)
    BY <1>1, SoundIs DEF WindowPane, PaneSound
  <1>3. ASSUME NEW c \in CountedOn(p)
        PROVE  client[c].panes[p].offset \in Nat /\ wp.base <= client[c].panes[p].offset
    <2>1. c \in Present /\ Counted(client[c], p)
      BY DEF CountedOn
    <2>2. client[c] \in ControlClient /\ Held(client[c], p) /\ client[c].panes[p] # NoPane
      BY <2>1, PresentHolds DEF Counted
    <2>3. client[c].panes[p] \in ControlPane
      BY <2>2, HasPane
    <2> QED BY <1>1, <2>1, <2>2, <2>3, HeldOffsets
  <1>4. \A o \in offsets : o \in Nat /\ wp.base <= o
    BY <1>3
  <1>5. k = SizeT(least - wp.base)
    BY DEF MinimumOf, Minimum
  <1>6. Rolls(p) => wp.base > SizeMax - k
    BY DEF Rolls
  <1>7. \A c \in CountedOn(p) : client[c].panes[p].offset \in offsets
    OBVIOUS
  <1> HIDE DEF wp, offsets, k
  <1>8. /\ T \subseteq Nat /\ T # {} /\ wp.offset \in T /\ (wp.pipe => wp.piped \in T)
        /\ \A o \in offsets : o \in T
    BY <1>2, <1>4
  <1>9. \A o \in T : wp.base <= o
    BY <1>2, <1>4
  <1> HIDE DEF T
  <1>10. least \in T /\ \A o \in T : least <= o
    BY <1>8, MinIs
  <1>11. least \in Nat /\ wp.base <= least /\ least <= wp.offset
    BY <1>8, <1>9, <1>10
  <1> HIDE DEF least
  <1>12. least - wp.base \in 0 .. SizeMax
    BY <1>2, <1>11, SizesOrdered
  <1>13. k = least - wp.base
    BY <1>5, <1>12, SizeTSame
  <1>14. k \in Nat /\ wp.base + k = least
    BY <1>2, <1>11, <1>13
  <1>15. ~ (wp.base > SizeMax - k)
    BY <1>2, <1>11, <1>14, SizesOrdered
  <1> QED BY <1>6, <1>7, <1>8, <1>10, <1>11, <1>14, <1>15 DEF wp, k

LEMMA CheckedIs ==
  ASSUME BInv, MaxBytes <= SizeMax, NEW p \in Panes
  PROVE  LET wp == CheckBuffer(p)
         IN  /\ PaneSound(wp) /\ wp.offset = pane[p].offset
             /\ wp.base = pane[p].base + MinimumOf(p)
  <1> DEFINE old == pane[p]
             k == MinimumOf(p)
             size == old.size - k
             base == old.base + k
             read == ~Off(p)
             wp == [old EXCEPT !.size = size, !.read = read, !.base = base]
  <1>1. old \in WindowPane /\ PaneSound(old)
    BY SoundIs DEF BInv, IInv, PanesSound, PanesHold
  <1>2. /\ old.base \in Nat /\ old.size \in Nat /\ old.offset \in Nat
        /\ old.base + old.size = old.offset
    BY <1>1 DEF WindowPane, PaneSound, End1
  <1>3. /\ k \in Nat /\ old.base + k <= old.offset /\ ~Rolls(p)
        /\ old.pipe => old.base + k <= old.piped
    BY MinimumIs
  <1>4. CheckBuffer(p) = wp
    BY <1>1, <1>3 DEF CheckBuffer, Rolled, WindowPane
  <1> HIDE DEF old, k
  <1>5. size \in Nat /\ base + size = old.offset /\ base = old.base + k
    BY <1>2, <1>3
  <1>6. old.pipe => base <= old.piped
    BY <1>3
  <1> HIDE DEF size, base, read
  <1>7. /\ wp.size = size /\ wp.base = base /\ wp.offset = old.offset /\ wp.piped = old.piped
        /\ wp.pipe = old.pipe /\ wp.before = old.before /\ wp.total = old.total
    BY <1>1 DEF WindowPane
  <1> HIDE DEF wp
  <1>8. PaneSound(wp)
    BY <1>1, <1>5, <1>6, <1>7 DEF PaneSound, End1
  <1> QED BY <1>4, <1>5, <1>7, <1>8 DEF old, k

LEMMA CheckExitTouches ==
  ASSUME NEW s \in ControlClient
  PROVE  Touches(s, CheckExit(s), {}) /\ CheckExit(s).panes = s.panes
  <1> DEFINE t == Discard(s)
             u == [t EXCEPT !.flags = @ \cup {"exited"}]
  <1>1. CheckExit(s) = IF ~Leaving(s) THEN s ELSE IF t.all = <<>> /\ t.length = 0 THEN u ELSE t
    BY DEF CheckExit
  <1>2. Touches(s, t, {}) /\ t \in ControlClient /\ t.panes = s.panes
    BY DiscardTouches
  <1> HIDE DEF t
  <1>3. {"exited"} \in SUBSET Flags
    BY DEF Flags
  <1>4. Touches(t, u, {}) /\ u.panes = t.panes
    BY <1>2, <1>3, FlagTouches
  <1> HIDE DEF u
  <1>5. Touches(s, u, {})
    BY <1>2, <1>4, TouchesTwice
  <1> QED BY <1>1, <1>2, <1>4, <1>5, TouchesSame

LEMMA CheckAllFits ==
  ASSUME BInv, MaxBytes <= SizeMax, CheckAll
  PROVE  PanesHold' /\ ClientsFit'
  <1> DEFINE rolled(c, p) == [client[c].panes[p] EXCEPT !.offset = Rolled(p, @)]
             counts(c, p) == c \in CountedOn(p) /\ ~TakesNoMore(client[c], p)
             s(c) == CheckExit(client[c])
             f == [c \in Clients |->
                     [s(c) EXCEPT !.panes = [p \in Panes |->
                        IF counts(c, p) THEN rolled(c, p) ELSE @[p]]]]
  <1>1. /\ pane' = [p \in Panes |-> IF pane[p].fd THEN CheckBuffer(p) ELSE pane[p]]
        /\ EnoughData /\ client' = f
    BY DEF CheckAll
  <1>2. PanesSound
    BY DEF BInv, IInv, PanesSound, PanesHold
  <1>3. PanesHold'
    BY <1>1, CheckedIs DEF BInv, PanesHold
  <1>4. ASSUME NEW c \in Clients
        PROVE  /\ f[c].panes = client[c].panes /\ f[c].all = s(c).all /\ f[c].flags = s(c).flags
               /\ f[c].depth = s(c).depth /\ f[c].deferred = s(c).deferred
    <2> DEFINE x == s(c)
               panes == [p \in Panes |-> IF counts(c, p) THEN rolled(c, p) ELSE x.panes[p]]
               t == [x EXCEPT !.panes = panes]
    <2>1. client[c] \in ControlClient
      BY ClientHolds
    <2>2. x \in ControlClient /\ x.panes = client[c].panes
      BY <2>1, CheckExitTouches DEF Touches, Eases
    <2>3. f[c] = t
      OBVIOUS
    <2> HIDE DEF x, f
    <2>4. ASSUME NEW p \in Panes, counts(c, p) PROVE rolled(c, p) = client[c].panes[p]
      <3>1. client[c].panes[p] \in ControlPane
        BY <2>1, <2>4, HasPane DEF CountedOn, Counted
      <3>2. ~Rolls(p)
        BY MinimumIs
      <3> QED BY <3>1, <3>2 DEF Rolled, ControlPane
    <2> HIDE DEF rolled, counts
    <2>5. panes = x.panes
      <3>1. x.panes = [p \in Panes |-> x.panes[p]]
        BY <2>2, ClientIs
      <3> QED BY <2>2, <2>4, <3>1
    <2> HIDE DEF panes
    <2> QED BY <2>2, <2>3, <2>5 DEF x, ControlClient
  <1> HIDE DEF f
  <1>5. ASSUME NEW c \in Clients PROVE Settled(f[c]) /\ Fits(f[c], pane')
    <2> DEFINE old == client[c]
               x == s(c)
    <2>1. old \in ControlClient /\ Settled(old)
      BY ClientHolds
    <2>2. Touches(old, x, {}) /\ x.panes = old.panes
      BY <2>1, CheckExitTouches
    <2>3. /\ f[c].panes = old.panes /\ f[c].all = x.all /\ f[c].flags = x.flags
          /\ f[c].depth = x.depth /\ f[c].deferred = x.deferred
      BY <1>4
    <2> HIDE DEF x
    <2>4. Settled(f[c])
      BY <2>1, <2>2, <2>3, SettledQuiet DEF Touches, Settled
    <2>5. CASE c \in Present
      <3>1. \A p \in Panes : Bound(old, p, pane[p].base, pane[p].offset)
        BY <2>5, PresentHolds DEF Held
      <3> HIDE DEF old
      <3>2. \A p \in Panes : Bound(x, p, pane[p].base, pane[p].offset)
        BY <2>1, <2>2, <3>1, BoundStays DEF Touches
      <3>3. ASSUME NEW p \in Panes PROVE Bound(f[c], p, pane'[p].base, pane'[p].offset)
        <4>1. /\ Bound(x, p, pane[p].base, pane[p].offset) /\ pane'[p].offset = pane[p].offset
              /\ pane'[p].base = pane[p].base
                   \/ pane'[p].base = pane[p].base + MinimumOf(p)
          BY <1>1, <3>2, CheckedIs
        <4>2. ASSUME Counted(f[c], p) PROVE pane'[p].base <= f[c].panes[p].offset
          <5>1. "nooutput" \notin x.flags
            BY <2>3, <4>2 DEF Counted
          <5>2. "nooutput" \notin old.flags
            BY <2>2, <5>1 DEF Touches, Eases, Lasting
          <5>3. Counted(old, p)
            BY <2>3, <4>2, <5>2 DEF Counted
          <5>4. c \in CountedOn(p)
            BY <2>5, <5>3 DEF CountedOn, old
          <5>5. pane[p].base + MinimumOf(p) <= old.panes[p].offset
            BY <5>4, MinimumIs DEF old
          <5>6. pane[p].base <= old.panes[p].offset
            BY <3>1, <5>3 DEF Bound, Counted
          <5> QED BY <2>3, <4>1, <5>5, <5>6
        <4>3. Counted(f[c], p) => Counted(x, p)
          BY <2>2, <2>3 DEF Counted
        <4> QED BY <2>2, <2>3, <4>1, <4>2, <4>3 DEF Bound
      <3> QED BY <2>4, <3>3 DEF Fits
    <2>6. CASE c \notin Present
      <3>1. "lost" \in old.flags
        BY <1>1, <2>6 DEF Present
      <3>2. "lost" \in f[c].flags
        BY <2>2, <2>3, <3>1 DEF Touches, Eases, Lasting
      <3> QED BY <2>4, <3>2 DEF Fits
    <2> QED BY <2>5, <2>6
  <1> QED BY <1>1, <1>3, <1>5 DEF ClientsFit

LEMMA InitFits ==
  Init => BInv
  <1> SUFFICES ASSUME Init PROVE BInv
    OBVIOUS
  <1>1. IInv
    BY InitInv
  <1>2. PanesHold
    <2> DEFINE wp == [fd |-> TRUE, base |-> 0, size |-> 0, offset |-> 0, pipe |-> FALSE,
                      piped |-> 0, read |-> TRUE, before |-> 0, total |-> 0]
    <2>1. PaneSound(wp)
      BY SizesOrdered DEF PaneSound, End1
    <2>2. pane = [p \in Panes |-> wp]
      BY DEF Init
    <2> HIDE DEF wp
    <2> QED BY <2>1, <2>2 DEF PanesHold
  <1>3. client \in [Clients -> {Started(flags) : flags \in AttachFlags}]
    BY DEF Init
  <1>4. ASSUME NEW c \in Clients PROVE Settled(client[c]) /\ Fits(client[c], pane)
    <2>1. PICK flags \in AttachFlags : client[c] = Started(flags)
      BY <1>3
    <2> DEFINE s == Started(flags)
    <2>2. /\ Settled(s) /\ s.all = <<>> /\ \A p \in Panes : s.panes[p] = NoPane
      BY DEF Started, Settled
    <2> HIDE DEF s
    <2>3. ASSUME NEW p \in Panes PROVE Bound(s, p, pane[p].base, pane[p].offset)
      <3>1. <<>> \in Seq(Queued) /\ \A b \in Range(<<>>) : ~OfPane(b, p)
        BY DEF Range
      <3>2. Load(<<>>, p) = 0
        BY <3>1, LoadNone
      <3> QED BY <2>2, <3>2 DEF Bound
    <2> QED BY <2>1, <2>2, <2>3 DEF Fits, s
  <1>5. events \in 0 .. MaxEvents
    BY SizesOrdered DEF Init
  <1> QED BY <1>1, <1>2, <1>4, <1>5 DEF BInv, ClientsFit

LEMMA EventsIn ==
  ASSUME events \in 0 .. MaxEvents, [Next]_vars
  PROVE  events' \in 0 .. MaxEvents
  <1>1. Event => events' \in 0 .. MaxEvents
    BY SizesOrdered DEF Event
  <1>2. \A c, t \in Clients : \A done : Run(c, t, done) => Event
    BY DEF Run
  <1>3. UNCHANGED events \/ Event
    BY <1>2 DEF Next, vars, Read, Exited, Respawn, PipePane, ClientReads, WriteCallback,
                RefreshPane, SetFlags, Command, Switch, Leave, ExitTimer, Lost, CheckAll, Notify
  <1> QED BY <1>1, <1>3

LEMMA NextFits ==
  ASSUME BInv, MaxBytes <= SizeMax, [Next]_vars
  PROVE  BInv'
  <1>1. IInv' /\ events' \in 0 .. MaxEvents
    BY NextInv, EventsIn DEF BInv
  <1>2. PanesHold' /\ ClientsFit'
    <2>1. CASE UNCHANGED vars
      BY <2>1 DEF vars, BInv, PanesHold, ClientsFit
    <2>2. CASE \E p \in Panes, n \in 1 .. MaxBytes : Read(p, n)
      BY <2>2, ReadFits
    <2>3. CASE \E p \in Panes : Exited(p) \/ Respawn(p)
      BY <2>3, ExitedFits, RespawnFits
    <2>4. CASE \E p \in Panes, open \in BOOLEAN : PipePane(p, open)
      BY <2>4, PipePaneFits
    <2>5. CASE \E c \in Clients : ClientReads(c) \/ WriteCallback(c)
      BY <2>5, ClientReadsFits, WriteCallbackFits
    <2>6. CASE \E c, t \in Clients, p \in Panes : RefreshPane(c, t, p)
      BY <2>6, RefreshPaneFits
    <2>7. CASE \E c, t \in Clients : SetFlags(c, t)
      BY <2>7, SetFlagsFits
    <2>8. CASE \E c \in Clients : Command(c) \/ Switch(c) \/ Leave(c)
      BY <2>8, CommandFits, SwitchFits, LeaveFits
    <2>9. CASE \E c \in Clients : ExitTimer(c) \/ Lost(c)
      BY <2>9, ExitTimerFits, LostFits
    <2>10. CASE CheckAll
      BY <2>10, CheckAllFits
    <2>11. CASE Notify
      BY <2>11, NotifyFits
    <2> QED BY <2>1, <2>2, <2>3, <2>4, <2>5, <2>6, <2>7, <2>8, <2>9, <2>10, <2>11 DEF Next
  <1> QED BY <1>1, <1>2 DEF BInv

LEMMA BInvBacked ==
  ASSUME BInv, MaxBytes <= SizeMax
  PROVE  Backed
  <1>1. PanesSound
    BY DEF BInv, IInv, PanesSound, PanesHold
  <1>2. ASSUME NEW p \in Panes
        PROVE  /\ {pane[p].base, pane[p].offset, pane[p].piped} \subseteq 0 .. SizeMax
               /\ pane[p].size \in 0 .. MaxBytes
    BY <1>1, SoundIs, SizesOrdered DEF PaneSound, WindowPane
  <1>3. TypeOK
    <2>1. ASSUME NEW c \in Clients
          PROVE  client[c].depth = 0 /\ client[c].deferred = <<>> /\ client[c].length \in Nat
      BY ClientHolds, ClientIs DEF Settled
    <2> QED BY <1>2, <2>1 DEF TypeOK, BInv
  <1>4. ASSUME NEW c \in Present, NEW p \in Panes, Counted(client[c], p),
               "exit" \notin client[c].flags
        PROVE  LET cp == client[c].panes[p]
                   wp == pane[p]
               IN  /\ SizeT(cp.offset - wp.base) + SizeOf(BlocksOf(client[c], p))
                        <= SizeT(cp.queued - wp.base)
                   /\ SizeT(cp.queued - wp.base) <= wp.size
    <2> DEFINE s == client[c]
               o == s.panes[p].offset
               q == s.panes[p].queued
               b == pane[p].base
               l == Load(s.all, p)
               w == SizeOf(BlocksOf(s, p))
    <2>1. s \in ControlClient /\ Held(s, p) /\ s.panes[p] # NoPane
      BY <1>4, PresentHolds DEF Counted
    <2>2. s.panes[p] \in ControlPane
      BY <2>1, HasPane
    <2>3. /\ o \in Nat /\ q \in Nat /\ l \in Nat /\ q <= pane[p].offset /\ b <= o /\ o + l <= q
      BY <1>1, <1>4, <2>1, <2>2, HeldOffsets
    <2>4. w \in Nat /\ w <= l
      BY <2>1, BlocksWeigh
    <2>5. /\ b \in Nat /\ pane[p].size \in Nat /\ pane[p].offset \in 0 .. SizeMax
          /\ b + pane[p].size = pane[p].offset
      BY <1>1, <1>2, SoundIs
    <2> HIDE DEF o, q, b, l, w
    <2>6. o - b \in 0 .. SizeMax /\ q - b \in 0 .. SizeMax
      BY <2>3, <2>5, SizesOrdered
    <2>7. SizeT(o - b) = o - b /\ SizeT(q - b) = q - b
      BY <2>6, SizeTSame
    <2>8. (o - b) + w <= q - b /\ q - b <= pane[p].size
      BY <2>3, <2>4, <2>5
    <2> QED BY <2>7, <2>8 DEF o, q, b, w
  <1> QED BY <1>3, <1>4 DEF Backed

(* As long as the bytes of output do not wrap a size_t, the buffer of a    *)
(* pane holds every byte that a client has a block for, up to what it has  *)
(* queued: server_client_check_pane_buffer drains no byte that a client    *)
(* still needs.                                                            *)
THEOREM BufferBacksBlocks == MaxBytes <= SizeMax => (Spec => []Backed)
  <1> SUFFICES ASSUME MaxBytes <= SizeMax PROVE Spec => []Backed
    OBVIOUS
  <1>1. Init => BInv
    BY InitFits
  <1>2. BInv /\ [Next]_vars => BInv'
    BY NextFits
  <1>3. BInv => Backed
    BY BInvBacked
  <1> QED BY <1>1, <1>2, <1>3, PTL DEF Spec
=============================================================================
