------------------------- MODULE ClientServerProofs -------------------------
(***************************************************************************)
(* Proofs about ClientServer, for any streams, data, failures and signals: *)
(* the terminal has one owner, a client that is told to exit flushes first *)
(* what it was promised, and a transfer that is done has moved everything. *)
(*                                                                         *)
(* Each is a property of messages under way.  The queues enter as counts,  *)
(* Before(q, n, m), of a message m in the first n - 1 places of a queue:   *)
(* what was given is in the server's buffer, in the queue, in the client's *)
(* buffer or has been moved.  Three invariants rest on the types:          *)
(* OwnerSound says that at most one message or state of the client stands  *)
(* for a suspended terminal; FlowSound, what the queue owes to a stream    *)
(* before the message that ends the client; FileSound, in which stage of   *)
(* its transfer a file is, as the messages about it tell.                  *)
(***************************************************************************)
EXTENDS ClientServer, FiniteSetTheorems, SequenceTheorems, TLAPS

-----------------------------------------------------------------------------
(* The inductive invariant.                                                *)

Outputs == Writes \cup {Stdout}
Reads == Loads \cup Inputs
Plains(S) == [type : S, stream : {0}, error : {FALSE}]
Of(t, S, E) == [type : {t}, stream : S, error : E]
ToClientMessages ==
  Plains({"return", "shutdown", "detach", "exec", "exited", "ready", "suspend", "lock"})
    \cup Of("write-open", Outputs, {FALSE}) \cup Of("write", Outputs, {FALSE})
    \cup Of("write-close", Writes, {FALSE})
    \cup Of("read-open", Reads, {FALSE}) \cup Of("read-cancel", Inputs, {FALSE})
ToServerMessages ==
  Plains({"exiting", "wakeup"})
    \cup Of("write-ready", Outputs, BOOLEAN) \cup Of("write-done", Writes, BOOLEAN)
    \cup Of("read", Reads, {FALSE}) \cup Of("read-done", Reads, BOOLEAN)

FileRecords ==
  [here : BOOLEAN, buffer : Nat, error : BOOLEAN, closed : BOOLEAN,
   references : Nat, due : Nat, pushes : Nat, kept : BOOLEAN]
OpenRecords ==
  [here : BOOLEAN, event : BOOLEAN, output : Nat, error : BOOLEAN, closed : BOOLEAN]
ClientRecords ==
  [attached : BOOLEAN, exitflag : BOOLEAN,
   run : {"running", "stopped", "locked", "gone"},
   why : {"none", "exit", "fatal", "exited", "lost", "signal", "killed"}]

(* The types, with which files are in the tree and where they may come     *)
(* from.                                                                   *)
ServerTyped ==
  /\ flags \subseteq {"attached", "control", "suspended", "exit", "exited",
                      "dead", "done"}
  /\ exitType \in {"return", "shutdown", "detach"}
  /\ timer \in BOOLEAN /\ session \in BOOLEAN /\ pane \in BOOLEAN
  /\ tty \in {"none", "open", "stopped", "closed"}
  /\ waiting = {} \/ \E s \in Streams : waiting = {s}
QueuesTyped ==
  /\ toClient \in Seq(ToClientMessages) /\ toServer \in Seq(ToServerMessages)
  /\ ~Alive => toServer = <<>>
FileTyped(s, f) ==
  /\ f \in FileRecords
  /\ f.here <=> f.references > 0
  /\ f.references <= 1 + f.pushes
  /\ ~f.here => f = NoFile
  /\ s \in Reads => f.pushes = 0
FilesTyped ==
  files \in [Streams -> FileRecords] /\ \A s \in Streams : FileTyped(s, files[s])
OpenTyped(s, o) ==
  /\ o \in OpenRecords /\ (~o.here => o = NotOpen)
  /\ s \notin Writes => ~o.closed
  /\ s \in Reads => o.output = 0
OpensTyped ==
  open \in [Streams -> OpenRecords] /\ \A s \in Streams : OpenTyped(s, open[s])
ClientTyped ==
  client \in ClientRecords /\ (client.run = "gone") = (client.why # "none")
HistoryTyped ==
  /\ given \in [Streams -> Nat] /\ moved \in [Streams -> Nat]
  /\ promised \in [Streams -> Nat]
  /\ result \in [Streams -> {"none", "ok", "error"}]
  /\ failed \subseteq Streams /\ used \subseteq Streams
Typed ==
  /\ ServerTyped /\ QueuesTyped /\ FilesTyped
  /\ OpensTyped /\ ClientTyped /\ HistoryTyped

(* Whether a queue has m, or one of M; whether it has at most one of M.    *)
Any(q, M) == \E i \in DOMAIN q : q[i] \in M
Within(q, m) == Any(q, {m})
Lone(q, M) == \A i, j \in DOMAIN q : q[i] \in M /\ q[j] \in M => i = j
Stops == {Plain("suspend"), Plain("lock")}
Wakes == {Plain("wakeup")}
Stopped == client.run \in {"stopped", "locked"}

(* While the client is stopped, is to stop or has only said that it goes   *)
(* on, which is one of the three and once, the server knows it suspended.  *)
OwnerSound ==
  /\ session \/ exitType = "detach" \/ "suspended" \in flags \/ client.attached
       \/ Within(toClient, Plain("ready")) \/ Within(toClient, Plain("detach"))
       \/ Within(toServer, Plain("exiting")) \/ tty = "open"
       \/ Any(toClient, Stops) \/ Any(toServer, Wakes)
     => "attached" \in flags
  /\ "suspended" \in flags => tty # "open"
  /\ Within(toClient, Plain("exited")) \/ client.why = "exited"
       => "attached" \in flags /\ ~session /\ tty = "closed"
  /\ ~Alive => ~session /\ tty = "closed"
  /\ Lone(toClient, Stops) /\ Lone(toServer, Wakes)
  /\ Any(toClient, Stops) => "suspended" \in flags /\ ~Stopped /\ ~Any(toServer, Wakes)
  /\ Stopped => "suspended" \in flags /\ client.attached /\ ~Any(toServer, Wakes)
  /\ Any(toServer, Wakes) => "suspended" \in flags

(* How often m comes in q before place n, and in all.                      *)
Before(q, n, m) == Cardinality({i \in DOMAIN q : i < n /\ q[i] = m})
Count(q, m) == Before(q, Len(q) + 1, m)
(* Whether every m in q comes before every a.                              *)
Last(q, a, m) == \A i, j \in DOMAIN q : q[i] = a /\ q[j] = m => j < i
Data(s) == Message("write", s, FALSE)
Output(s) == IF open[s].event THEN open[s].output ELSE 0

(* The messages about stream s that are under way.                         *)
Asked(t, s) == Count(toClient, Message(t, s, FALSE))
Said(t, s) == Count(toServer, Message(t, s, FALSE))
SaidError(t, s) == Count(toServer, Message(t, s, TRUE))
(* What was lost of a stream has been lost for a reason.                   *)
Excused(s) == s \in failed \/ result[s] = "error"
(* What the client has of an output, in its buffer or in the file.         *)
Written(s) == Output(s) + moved[s]
Accounted(s) ==
  Excused(s) \/ given[s] <= files[s].buffer + Count(toClient, Data(s)) + Written(s)
(* What was promised is with the client once n messages have come.         *)
Covered(s, n) == Excused(s) \/ promised[s] <= n + Written(s)

(* The messages that end a client which is not attached, nor will be by    *)
(* what comes before them.                                                 *)
Ends == {Plain("return"), Plain("shutdown")}
Unready(q, n) == \A i \in DOMAIN q : i < n => q[i] # Plain("ready")
Listens == client.run # "gone" /\ ~client.attached

FlowOf(s) ==
  /\ open[s].here /\ ~open[s].event => s \in failed
  /\ Alive /\ Listens /\ Unready(toClient, Len(toClient) + 1) => Accounted(s)
  /\ \A n \in DOMAIN toClient :
       toClient[n] \in Ends /\ Listens /\ Unready(toClient, n)
         => Covered(s, Before(toClient, n, Data(s)))
  /\ client.exitflag /\ client.run # "gone" => Covered(s, 0)
  /\ client.why = "exit" => Excused(s) \/ promised[s] <= moved[s]
Unpromised ==
  /\ ~client.exitflag /\ client.why # "exit" /\ ~Any(toClient, Ends)
  /\ \A s \in Streams : promised[s] = 0
FlowSound ==
  /\ \A s \in Outputs : FlowOf(s)
  /\ "exited" \notin flags => Unpromised
  /\ \A s \in Outputs : SaidError("write-ready", s) # 0 => s \in failed
  /\ Alive /\ files[Stdout].due > 0 => Stdout \in failed

SilentClient(s) ==
  \A t \in {"write-open", "write", "write-close", "read-open", "read-cancel"} : Asked(t, s) = 0
SilentServer(s) ==
  \A t \in {"write-ready", "write-done", "read", "read-done"} :
    Said(t, s) = 0 /\ SaidError(t, s) = 0
Inert(s) == ~open[s].event

(* A stream that no command has opened; one that has been told to its      *)
(* command, after which nothing is moved or given.                         *)
Unused(s) ==
  /\ files[s] = NoFile /\ open[s] = NotOpen /\ SilentClient(s) /\ SilentServer(s)
  /\ given[s] = 0 /\ moved[s] = 0 /\ result[s] = "none"
Ended(s) ==
  /\ files[s] = NoFile
  /\ result[s] = "ok" =>
       SilentClient(s) /\ SilentServer(s) /\ Inert(s) /\ moved[s] = given[s]

(* A file that its command waits for.                                      *)
Waited(s) ==
  /\ files[s].here /\ files[s].references = 1 + files[s].pushes
  /\ waiting = {s} /\ result[s] = "none"
Pending(s) == Waited(s) /\ files[s].due = 0 /\ ~files[s].error
Fired(s) ==
  /\ Waited(s) /\ files[s].due = 1 /\ files[s].pushes = 0
  /\ SilentClient(s) /\ SilentServer(s) /\ Inert(s)

(* A write: it is opened; the client says if it could; the data goes over, *)
(* with a last message to close; the client says that it is done.          *)
Opening(s) ==
  /\ Pending(s) /\ files[s].pushes = 0 /\ files[s].buffer = given[s] /\ moved[s] = 0
  /\ open[s] = NotOpen /\ SilentServer(s)
  /\ Asked("write-open", s) = 1 /\ Asked("write", s) = 0 /\ Asked("write-close", s) = 0
Readied(s) ==
  /\ Pending(s) /\ files[s].pushes = 0 /\ files[s].buffer = given[s] /\ moved[s] = 0
  /\ open[s].output = 0 /\ ~open[s].closed /\ ~open[s].error /\ SilentClient(s)
  /\ Said("write-ready", s) + SaidError("write-ready", s) <= 1
  /\ Said("write-ready", s) = 1 => open[s].event
  /\ SaidError("write-ready", s) = 1 => ~open[s].event
  /\ Said("write-done", s) = 0 /\ SaidError("write-done", s) = 0
CloseLast(s) == Last(toClient, Message("write-close", s, FALSE), Data(s))
Sending(s) ==
  /\ Pending(s) /\ SilentServer(s) /\ Asked("write-open", s) = 0
  /\ open[s].here /\ (open[s].event = ~open[s].error) /\ CloseLast(s)
  /\ open[s].event => given[s] = files[s].buffer + Asked("write", s) + open[s].output + moved[s]
  /\ files[s].pushes = IF files[s].buffer > 0 THEN 1 ELSE 0
  /\ files[s].buffer > 0 => Asked("write-close", s) = 0 /\ ~open[s].closed
  /\ Asked("write-close", s) <= 1
  /\ open[s].closed =>
       /\ open[s].event /\ open[s].output > 0
       /\ Asked("write", s) = 0 /\ Asked("write-close", s) = 0
  /\ ~open[s].closed /\ files[s].buffer = 0 => Asked("write-close", s) = 1
Done(s) ==
  /\ Pending(s) /\ files[s].pushes = 0 /\ files[s].buffer = 0
  /\ open[s] = NotOpen /\ SilentClient(s)
  /\ Said("write-done", s) + SaidError("write-done", s) <= 1
  /\ Said("write-done", s) = 1 => moved[s] = given[s]
  /\ Said("write-ready", s) = 0 /\ SaidError("write-ready", s) = 0
WriteFired(s) ==
  Fired(s) /\ (~files[s].error => moved[s] = given[s] /\ files[s].buffer = 0)

WriteSound(s) ==
  /\ ~files[s].closed
  /\ s \notin used => Unused(s)
  /\ result[s] # "none" => Ended(s)
  /\ Alive /\ s \in used /\ result[s] = "none" =>
       /\ "attached" \notin flags
       /\ Opening(s) \/ Readied(s) \/ Sending(s) \/ Done(s) \/ WriteFired(s)

(* A read: it is opened; data comes; its end comes last.                   *)
Took(s) == IF s \in Loads THEN files[s].buffer ELSE given[s]
Reading(s) ==
  Pending(s) /\ files[s].kept /\ ~files[s].closed
ReadOpening(s) ==
  /\ Reading(s) /\ open[s] = NotOpen /\ SilentServer(s) /\ moved[s] = 0 /\ Took(s) = 0
  /\ Asked("read-open", s) = 1
ReadsData(s) ==
  /\ Reading(s) /\ open[s].event /\ Asked("read-open", s) = 0
  /\ Said("read-done", s) = 0 /\ SaidError("read-done", s) = 0
  /\ client.run # "gone" => moved[s] = Took(s) + Said("read", s)
DoneLast(s) ==
  /\ Last(toServer, Message("read-done", s, FALSE), Message("read", s, FALSE))
  /\ Last(toServer, Message("read-done", s, TRUE), Message("read", s, FALSE))
ReadEnding(s) ==
  /\ Reading(s) /\ Inert(s) /\ Asked("read-open", s) = 0 /\ DoneLast(s)
  /\ Said("read-done", s) + SaidError("read-done", s) <= 1
  /\ Said("read-done", s) = 1 => moved[s] = Took(s) + Said("read", s)
ReadFired(s) ==
  Fired(s) /\ (~files[s].error => files[s].kept /\ ~files[s].closed /\ moved[s] = Took(s))
(* Once its pane is gone, a read that was sent has no result.              *)
Abandoned(s) == s \in Inputs /\ ~pane /\ (files[s].here => files[s].kept)

ReadPhase(s) ==
  ReadOpening(s) \/ ReadsData(s) \/ ReadEnding(s) \/ ReadFired(s) \/ Abandoned(s)
ReadBounds(s) ==
  /\ files[s].closed => files[s].kept /\ s \in Inputs
  /\ s \in Inputs /\ pane /\ Alive => Asked("read-cancel", s) = 0
  /\ s \in Loads => /\ files[s].buffer + Said("read", s) <= moved[s]
                    /\ result[s] = "none" => given[s] = 0
  /\ s \in Inputs => files[s].buffer = 0
  /\ moved[s] <= MaxData
ReadSound(s) ==
  /\ s \notin used => Unused(s)
  /\ result[s] # "none" => Ended(s)
  /\ Alive /\ s \in used /\ result[s] = "none" => ReadPhase(s)
  /\ ReadBounds(s)

FileSound ==
  /\ \A s \in Writes : WriteSound(s) /\ files[s].buffer <= MaxData
  /\ \A s \in Reads : ReadSound(s)
  /\ result[Stdout] = "none" /\ Stdout \notin used
  /\ files[Stdout].buffer <= given[Stdout] /\ given[Stdout] <= MaxPrints

IInv == Typed /\ OwnerSound /\ FlowSound /\ FileSound
-----------------------------------------------------------------------------
(* Queues.                                                                 *)

(* A queue is appended to, read from, added to by a push or cut by a loss: *)
(* what it has afterwards.                                                 *)
LEMMA AnyAppend ==
  ASSUME NEW S, NEW q \in Seq(S), NEW x \in S, NEW M
  PROVE  Any(Append(q, x), M) <=> Any(q, M) \/ x \in M
<1>1. /\ DOMAIN q = 1 .. Len(q) /\ DOMAIN Append(q, x) = 1 .. Len(q) + 1
      /\ Len(q) \in Nat /\ Append(q, x)[Len(q) + 1] = x
      /\ \A i \in 1 .. Len(q) : Append(q, x)[i] = q[i]
  OBVIOUS
<1>2. 1 .. Len(q) + 1 = 1 .. Len(q) \cup {Len(q) + 1}
  BY <1>1
<1> QED BY <1>1, <1>2 DEF Any

LEMMA AnyTail ==
  ASSUME NEW S, NEW q \in Seq(S), q # <<>>, NEW M
  PROVE  Any(q, M) <=> Any(Tail(q), M) \/ Head(q) \in M
<1>1. /\ Len(q) \in Nat \ {0} /\ DOMAIN q = 1 .. Len(q)
      /\ DOMAIN Tail(q) = 1 .. (Len(q) - 1)
      /\ \A i \in DOMAIN Tail(q) : Tail(q)[i] = q[i + 1]
      /\ Head(q) = q[1]
  OBVIOUS
<1>2. ASSUME NEW i \in DOMAIN q, q[i] \in M, i # 1
      PROVE  Any(Tail(q), M)
  <2>1. i - 1 \in DOMAIN Tail(q) /\ Tail(q)[i - 1] = q[i]
    BY <1>1, <1>2
  <2> QED BY <2>1, <1>2 DEF Any
<1>3. Any(Tail(q), M) \/ Head(q) \in M => Any(q, M)
  BY <1>1 DEF Any
<1> QED BY <1>1, <1>2, <1>3 DEF Any

LEMMA AnyConcat ==
  ASSUME NEW S, NEW q \in Seq(S), NEW r \in Seq(S), NEW M
  PROVE  Any(q \o r, M) <=> Any(q, M) \/ Any(r, M)
<1>1. /\ DOMAIN q = 1 .. Len(q) /\ DOMAIN r = 1 .. Len(r)
      /\ DOMAIN (q \o r) = 1 .. Len(q) + Len(r) /\ Len(q) \in Nat /\ Len(r) \in Nat
  OBVIOUS
<1>2. \A i \in 1 .. Len(q) + Len(r) :
        (q \o r)[i] = IF i <= Len(q) THEN q[i] ELSE r[i - Len(q)]
  OBVIOUS
<1>3. ASSUME Any(q, M) PROVE Any(q \o r, M)
  BY <1>1, <1>2, <1>3 DEF Any
<1>4. ASSUME NEW i \in DOMAIN r, r[i] \in M PROVE Any(q \o r, M)
  <2>1. i + Len(q) \in DOMAIN (q \o r) /\ (q \o r)[i + Len(q)] = r[i]
    BY <1>1, <1>2
  <2> QED BY <2>1, <1>4 DEF Any
<1>5. ASSUME NEW i \in DOMAIN (q \o r), (q \o r)[i] \in M
      PROVE  Any(q, M) \/ Any(r, M)
  BY <1>1, <1>2, <1>5 DEF Any
<1> QED BY <1>3, <1>4, <1>5 DEF Any

LEMMA AnyPrefix ==
  ASSUME NEW S, NEW q \in Seq(S), NEW k \in 0 .. Len(q), NEW M
  PROVE  Any(SubSeq(q, 1, k), M) => Any(q, M)
<1>1. DOMAIN SubSeq(q, 1, k) = 1 .. k /\ \A i \in 1 .. k : SubSeq(q, 1, k)[i] = q[i]
  OBVIOUS
<1>2. 1 .. k \subseteq DOMAIN q
  OBVIOUS
<1> QED BY <1>1, <1>2 DEF Any

LEMMA LoneAppend ==
  ASSUME NEW S, NEW q \in Seq(S), NEW x \in S, NEW M,
         Lone(q, M), x \notin M \/ ~Any(q, M)
  PROVE  Lone(Append(q, x), M)
<1>1. /\ DOMAIN q = 1 .. Len(q) /\ DOMAIN Append(q, x) = 1 .. Len(q) + 1
      /\ Len(q) \in Nat /\ Append(q, x)[Len(q) + 1] = x
      /\ \A i \in 1 .. Len(q) : Append(q, x)[i] = q[i]
  OBVIOUS
<1> QED BY <1>1 DEF Any, Lone

LEMMA LoneTail ==
  ASSUME NEW S, NEW q \in Seq(S), q # <<>>, NEW M, Lone(q, M)
  PROVE  Lone(Tail(q), M) /\ (Head(q) \in M => ~Any(Tail(q), M))
<1>1. /\ Len(q) \in Nat \ {0} /\ DOMAIN q = 1 .. Len(q)
      /\ DOMAIN Tail(q) = 1 .. (Len(q) - 1)
      /\ \A i \in DOMAIN Tail(q) : Tail(q)[i] = q[i + 1]
      /\ Head(q) = q[1]
  OBVIOUS
<1>2. \A i \in DOMAIN Tail(q) : i + 1 \in DOMAIN q /\ i + 1 # 1 /\ i \in Nat
  BY <1>1
<1>3. Lone(Tail(q), M)
  <2> SUFFICES ASSUME NEW i \in DOMAIN Tail(q), NEW j \in DOMAIN Tail(q),
                      Tail(q)[i] \in M, Tail(q)[j] \in M
               PROVE  i = j
    BY DEF Lone
  <2>1. i + 1 = j + 1
    BY <1>1, <1>2 DEF Lone
  <2> QED BY <2>1, <1>2
<1>4. Head(q) \in M => ~Any(Tail(q), M)
  BY <1>1, <1>2 DEF Any, Lone
<1> QED BY <1>3, <1>4

LEMMA LoneConcat ==
  ASSUME NEW S, NEW q \in Seq(S), NEW r \in Seq(S), NEW M, Lone(q, M), ~Any(r, M)
  PROVE  Lone(q \o r, M)
<1>1. /\ DOMAIN q = 1 .. Len(q) /\ DOMAIN r = 1 .. Len(r)
      /\ DOMAIN (q \o r) = 1 .. Len(q) + Len(r) /\ Len(q) \in Nat /\ Len(r) \in Nat
  OBVIOUS
<1>2. \A i \in 1 .. Len(q) + Len(r) :
        (q \o r)[i] = IF i <= Len(q) THEN q[i] ELSE r[i - Len(q)]
  OBVIOUS
<1>3. ASSUME NEW i \in DOMAIN (q \o r), (q \o r)[i] \in M
      PROVE  i \in DOMAIN q /\ (q \o r)[i] = q[i]
  <2>1. CASE i <= Len(q)
    BY <2>1, <1>1, <1>2, <1>3
  <2>2. CASE ~(i <= Len(q))
    <3>1. i - Len(q) \in DOMAIN r /\ r[i - Len(q)] \in M
      BY <2>2, <1>1, <1>2, <1>3
    <3> QED BY <3>1 DEF Any
  <2> QED BY <2>1, <2>2
<1> QED BY <1>3 DEF Lone

LEMMA LonePrefix ==
  ASSUME NEW S, NEW q \in Seq(S), NEW k \in 0 .. Len(q), NEW M, Lone(q, M)
  PROVE  Lone(SubSeq(q, 1, k), M)
<1>1. DOMAIN SubSeq(q, 1, k) = 1 .. k /\ \A i \in 1 .. k : SubSeq(q, 1, k)[i] = q[i]
  OBVIOUS
<1>2. 1 .. k \subseteq DOMAIN q
  OBVIOUS
<1> QED BY <1>1, <1>2 DEF Lone

(* Counts.                                                                 *)
Places(q, n, m) == {i \in DOMAIN q : i < n /\ q[i] = m}

LEMMA PlacesFinite ==
  ASSUME NEW S, NEW q \in Seq(S), NEW n, NEW m
  PROVE  IsFiniteSet(Places(q, n, m)) /\ Before(q, n, m) \in Nat
<1>1. IsFiniteSet(DOMAIN q)
  BY FS_Interval, LenProperties
<1>2. Places(q, n, m) \subseteq DOMAIN q
  BY DEF Places
<1>3. IsFiniteSet(Places(q, n, m))
  BY <1>1, <1>2, FS_Subset
<1> QED BY <1>3, FS_CardinalityType DEF Places, Before

LEMMA CountProperties ==
  ASSUME NEW S, NEW q \in Seq(S), NEW m
  PROVE  /\ Count(q, m) \in Nat
         /\ (Count(q, m) = 0) = ~Within(q, m)
         /\ Before(q, 1, m) = 0
         /\ \A n : Before(q, n, m) <= Count(q, m)
<1>1. IsFiniteSet(Places(q, Len(q) + 1, m)) /\ Count(q, m) \in Nat
  BY PlacesFinite DEF Count
<1>2. (Count(q, m) = 0) = (Places(q, Len(q) + 1, m) = {})
  BY <1>1, FS_EmptySet DEF Count, Before, Places
<1>3. DOMAIN q = 1 .. Len(q) /\ Len(q) \in Nat
  OBVIOUS
<1>4. (Places(q, Len(q) + 1, m) = {}) = ~Within(q, m)
  BY <1>3 DEF Places, Within, Any
<1>5. Places(q, 1, m) = {}
  BY <1>3 DEF Places
<1>6. Before(q, 1, m) = 0
  BY <1>5, FS_EmptySet DEF Before, Places
<1>7. ASSUME NEW n PROVE Before(q, n, m) <= Count(q, m)
  <2>1. Places(q, n, m) \subseteq Places(q, Len(q) + 1, m)
    BY <1>3 DEF Places
  <2> QED BY <2>1, <1>1, FS_Subset DEF Count, Before, Places
<1> QED BY <1>1, <1>2, <1>4, <1>6, <1>7

LEMMA CountAppend ==
  ASSUME NEW S, NEW q \in Seq(S), NEW x \in S, NEW m
  PROVE  /\ Count(Append(q, x), m) = IF x = m THEN Count(q, m) + 1 ELSE Count(q, m)
         /\ \A n \in 1 .. Len(q) + 1 : Before(Append(q, x), n, m) = Before(q, n, m)
<1> DEFINE r == Append(q, x)
<1>1. /\ DOMAIN q = 1 .. Len(q) /\ DOMAIN r = 1 .. Len(q) + 1
      /\ Len(q) \in Nat /\ r[Len(q) + 1] = x /\ Len(r) = Len(q) + 1
      /\ \A i \in 1 .. Len(q) : r[i] = q[i]
  OBVIOUS
<1> HIDE DEF r
<1>2. ASSUME NEW n \in 1 .. Len(q) + 1
      PROVE  Places(r, n, m) = Places(q, n, m)
  BY <1>1 DEF Places
<1>3. Len(q) + 1 \notin Places(q, Len(q) + 1, m)
  BY <1>1 DEF Places
<1>4. Places(r, Len(r) + 1, m) =
        IF x = m THEN Places(q, Len(q) + 1, m) \cup {Len(q) + 1}
        ELSE Places(q, Len(q) + 1, m)
  BY <1>1 DEF Places
<1>5. Cardinality(Places(r, Len(r) + 1, m)) =
        IF x = m THEN Cardinality(Places(q, Len(q) + 1, m)) + 1
        ELSE Cardinality(Places(q, Len(q) + 1, m))
  BY <1>3, <1>4, PlacesFinite, FS_AddElement
<1>6. Count(r, m) = IF x = m THEN Count(q, m) + 1 ELSE Count(q, m)
  BY <1>5 DEF Count, Before, Places
<1> QED BY <1>2, <1>6 DEF r, Before, Places

LEMMA CountTail ==
  ASSUME NEW S, NEW q \in Seq(S), q # <<>>, NEW m
  PROVE  /\ Count(q, m) = IF Head(q) = m THEN Count(Tail(q), m) + 1 ELSE Count(Tail(q), m)
         /\ \A n \in DOMAIN Tail(q) :
              Before(q, n + 1, m) =
                IF Head(q) = m THEN Before(Tail(q), n, m) + 1 ELSE Before(Tail(q), n, m)
<1> DEFINE r == Tail(q)
<1>1. /\ Len(q) \in Nat \ {0} /\ DOMAIN q = 1 .. Len(q) /\ Len(r) = Len(q) - 1
      /\ DOMAIN r = 1 .. (Len(q) - 1) /\ r \in Seq(S)
      /\ \A i \in DOMAIN r : r[i] = q[i + 1]
      /\ Head(q) = q[1]
  OBVIOUS
<1> HIDE DEF r
<1>2. ASSUME NEW n \in 1 .. Len(q)
      PROVE  Before(q, n + 1, m) =
               IF Head(q) = m THEN Before(r, n, m) + 1 ELSE Before(r, n, m)
  <2> DEFINE P == Places(r, n, m)
             Q == {i \in DOMAIN q : i # 1 /\ i < n + 1 /\ q[i] = m}
             f == [i \in P |-> i + 1]
  <2>1. \A i \in P : i \in DOMAIN r /\ i < n /\ r[i] = m /\ i \in Nat \ {0}
    BY <1>1 DEF Places
  <2>2. \A i \in P : i + 1 \in Q
    BY <2>1, <1>1
  <2>3. \A j \in Q : j - 1 \in P /\ (j - 1) + 1 = j
    BY <1>1 DEF Places
  <2>4. f \in Bijection(P, Q)
    <3>1. f \in [P -> Q]
      BY <2>2
    <3>2. \A i, j \in P : f[i] = f[j] => i = j
      BY <2>1
    <3>3. \A j \in Q : \E i \in P : f[i] = j
      BY <2>3
    <3> QED BY <3>1, <3>2, <3>3 DEF Bijection, Injection, Surjection, IsInjective
  <2>5. Cardinality(P) = Cardinality(Q) /\ IsFiniteSet(Q)
    <3> HIDE DEF f, P, Q
    <3>1. IsFiniteSet(P)
      BY <1>1, PlacesFinite DEF P
    <3>2. ExistsBijection(P, Q)
      BY <2>4 DEF ExistsBijection
    <3> QED BY <3>1, <3>2, FS_Bijection
  <2>6. Places(q, n + 1, m) = IF Head(q) = m THEN Q \cup {1} ELSE Q
    BY <1>1 DEF Places
  <2>7. 1 \notin Q
    OBVIOUS
  <2>8. Cardinality(Q \cup {1}) = Cardinality(Q) + 1
    <3> HIDE DEF Q
    <3> QED BY <2>5, <2>7, FS_AddElement
  <2> QED BY <2>5, <2>6, <2>8 DEF Before, Places
<1>3. Count(q, m) = IF Head(q) = m THEN Count(r, m) + 1 ELSE Count(r, m)
  BY <1>1, <1>2 DEF Count
<1> QED BY <1>1, <1>2, <1>3 DEF r

LEMMA CountPrefix ==
  ASSUME NEW S, NEW q \in Seq(S), NEW k \in 0 .. Len(q), NEW m
  PROVE  /\ Count(SubSeq(q, 1, k), m) <= Count(q, m)
         /\ \A n \in DOMAIN SubSeq(q, 1, k) :
              n \in DOMAIN q /\ Before(SubSeq(q, 1, k), n, m) = Before(q, n, m)
<1> DEFINE r == SubSeq(q, 1, k)
<1>1. /\ DOMAIN r = 1 .. k /\ \A i \in 1 .. k : r[i] = q[i]
      /\ Len(r) = k /\ 1 .. k \subseteq 1 .. Len(q) /\ Len(q) \in Nat /\ DOMAIN q = 1 .. Len(q)
  OBVIOUS
<1> HIDE DEF r
<1>2. Places(r, Len(r) + 1, m) \subseteq Places(q, Len(q) + 1, m)
  BY <1>1 DEF Places
<1>3. Count(r, m) <= Count(q, m)
  <2>1. IsFiniteSet(Places(q, Len(q) + 1, m))
    BY PlacesFinite
  <2>2. Cardinality(Places(r, Len(r) + 1, m)) <= Cardinality(Places(q, Len(q) + 1, m))
    BY <2>1, <1>2, FS_Subset
  <2> QED BY <2>2 DEF Count, Before, Places
<1>4. ASSUME NEW n \in DOMAIN r PROVE Places(r, n, m) = Places(q, n, m)
  BY <1>1 DEF Places
<1> QED BY <1>1, <1>3, <1>4 DEF r, Before, Places

(* k messages x sent at once.                                              *)
Repeated(k, x) == [i \in 1 .. k |-> x]

LEMMA CountRepeated ==
  ASSUME NEW S, NEW q \in Seq(S), NEW k \in Nat, NEW x \in S, NEW m
  PROVE  /\ q \o Repeated(k, x) \in Seq(S) /\ Repeated(k, x) \in Seq(S)
         /\ Len(q \o Repeated(k, x)) = Len(q) + k
         /\ Count(q \o Repeated(k, x), m) = IF x = m THEN Count(q, m) + k ELSE Count(q, m)
         /\ \A n \in 1 .. Len(q) : Before(q \o Repeated(k, x), n, m) = Before(q, n, m)
<1> DEFINE t == Repeated(k, x)
           r == q \o t
           l == Len(q)
<1>1. t \in Seq(S) /\ Len(t) = k /\ \A i \in 1 .. k : t[i] = x
  <2>1. t \in [1 .. k -> S]
    BY DEF Repeated
  <2> QED BY <2>1 DEF Repeated
<1> HIDE DEF t
<1>2. /\ DOMAIN q = 1 .. l /\ DOMAIN r = 1 .. l + k /\ l \in Nat /\ Len(r) = l + k
      /\ \A i \in 1 .. l : r[i] = q[i]
      /\ r \in Seq(S)
  BY <1>1
<1>3. \A i \in l + 1 .. l + k : r[i] = x
  <2> SUFFICES ASSUME NEW i \in l + 1 .. l + k PROVE r[i] = x
    OBVIOUS
  <2>1. r[i] = t[i - l] /\ i - l \in 1 .. k
    BY <1>1, <1>2
  <2> QED BY <2>1, <1>1
<1> HIDE DEF r, l
<1>4. ASSUME NEW n \in 1 .. l PROVE Places(r, n, m) = Places(q, n, m)
  BY <1>2 DEF Places
<1>5. Places(r, Len(r) + 1, m) =
        IF x = m THEN Places(q, l + 1, m) \cup (l + 1 .. l + k) ELSE Places(q, l + 1, m)
  BY <1>2, <1>3 DEF Places
<1>6. /\ IsFiniteSet(l + 1 .. l + k) /\ Cardinality(l + 1 .. l + k) = k
      /\ Places(q, l + 1, m) \cap (l + 1 .. l + k) = {}
  <2>1. l + 1 \in Int /\ l + k \in Int
    BY <1>2
  <2>2. IsFiniteSet(l + 1 .. l + k) /\ Cardinality(l + 1 .. l + k) = k
    <3> DEFINE a == l + 1
               b == l + k
    <3>1. IsFiniteSet(a .. b) /\ Cardinality(a .. b) = IF a > b THEN 0 ELSE b - a + 1
      <4> HIDE DEF a, b
      <4> SUFFICES a \in Int /\ b \in Int
        BY FS_Interval
      <4> QED BY <2>1 DEF a, b
    <3> QED BY <3>1, <1>2
  <2>3. Places(q, l + 1, m) \cap (l + 1 .. l + k) = {}
    BY <1>2 DEF Places
  <2> QED BY <2>2, <2>3
<1>7. IsFiniteSet(Places(q, l + 1, m)) /\ Cardinality(Places(q, l + 1, m)) \in Nat
  BY PlacesFinite, FS_CardinalityType
<1>8. Cardinality(Places(q, l + 1, m) \cup (l + 1 .. l + k)) = Cardinality(Places(q, l + 1, m)) + k
  <2> DEFINE P == Places(q, l + 1, m)
             I == l + 1 .. l + k
  <2> HIDE DEF P, I
  <2>1. IsFiniteSet(P) /\ IsFiniteSet(I) /\ P \cap I = {}
    BY <1>6, <1>7 DEF P, I
  <2>2. Cardinality(P \cup I) = Cardinality(P) + Cardinality(I) - Cardinality(P \cap I)
    BY <2>1, FS_Union
  <2>3. Cardinality(P \cap I) = 0
    BY <2>1, FS_EmptySet
  <2> QED BY <2>2, <2>3, <1>6, <1>7 DEF P, I
<1>9. Count(r, m) = IF x = m THEN Count(q, m) + k ELSE Count(q, m)
  BY <1>5, <1>8 DEF Count, Before, Places, l
<1> QED BY <1>1, <1>2, <1>4, <1>9 DEF r, t, l, Before, Places
-----------------------------------------------------------------------------
(* Streams, messages and files.                                            *)

LEMMA StreamsAre ==
  /\ Streams = Outputs \cup Reads /\ Outputs \cap Reads = {} /\ Outputs = Writes \cup {Stdout}
  /\ Stdout \in Outputs /\ Stdout \notin Writes /\ Loads \cap Inputs = {}
  /\ \A s \in Streams : s \in Nat \ {0} /\ (s \in Outputs /\ s > 2 => s \in Writes)
  /\ \A s \in Writes : s > 2
BY ClientServerAssumption DEF Streams, Outputs, Reads, Stdout

LEMMA MessageIs ==
  /\ \A t, s, e, u, r, d : (Message(t, s, e) = Message(u, r, d)) <=> (t = u /\ s = r /\ e = d)
  /\ \A t, s, e : Message(t, s, e).stream = s
BY DEF Message

(* What the types say of a message about a stream.                         *)
LEMMA MessagesToClient ==
  ASSUME NEW t, NEW s \in Streams, NEW e, Message(t, s, e) \in ToClientMessages
  PROVE  /\ e = FALSE
         /\ t \in {"write-open", "write", "write-close", "read-open", "read-cancel"}
         /\ t \in {"write-open", "write"} => s \in Outputs
         /\ t = "write-close" => s \in Writes
         /\ t = "read-open" => s \in Reads
         /\ t = "read-cancel" => s \in Inputs
BY StreamsAre DEF ToClientMessages, Plains, Of, Message

LEMMA MessagesToServer ==
  ASSUME NEW t, NEW s \in Streams, NEW e, Message(t, s, e) \in ToServerMessages
  PROVE  /\ e \in BOOLEAN /\ t \in {"write-ready", "write-done", "read", "read-done"}
         /\ t = "write-ready" => s \in Outputs
         /\ t = "write-done" => s \in Writes
         /\ t \in {"read", "read-done"} => s \in Reads
         /\ t = "read" => e = FALSE
BY StreamsAre DEF ToServerMessages, Plains, Of, Message

LEMMA MessagesSent ==
  /\ \A t \in {"return", "shutdown", "detach", "exec", "exited", "ready", "suspend", "lock"} :
       Plain(t) \in ToClientMessages
  /\ \A s \in Outputs : Message("write-open", s, FALSE) \in ToClientMessages
                        /\ Message("write", s, FALSE) \in ToClientMessages
  /\ \A s \in Writes : Message("write-close", s, FALSE) \in ToClientMessages
  /\ \A s \in Reads : Message("read-open", s, FALSE) \in ToClientMessages
  /\ \A s \in Inputs : Message("read-cancel", s, FALSE) \in ToClientMessages
  /\ Plain("exiting") \in ToServerMessages /\ Plain("wakeup") \in ToServerMessages
  /\ \A s \in Outputs, e \in BOOLEAN : Message("write-ready", s, e) \in ToServerMessages
  /\ \A s \in Writes, e \in BOOLEAN : Message("write-done", s, e) \in ToServerMessages
  /\ \A s \in Reads, e \in BOOLEAN : Message("read-done", s, e) \in ToServerMessages
  /\ \A s \in Reads : Message("read", s, FALSE) \in ToServerMessages
<1>1. /\ \A t \in {"return", "shutdown", "detach", "exec", "exited", "ready", "suspend", "lock"} :
           Plain(t) \in ToClientMessages
      /\ \A s \in Outputs : Message("write-open", s, FALSE) \in ToClientMessages
                            /\ Message("write", s, FALSE) \in ToClientMessages
      /\ \A s \in Writes : Message("write-close", s, FALSE) \in ToClientMessages
  BY DEF ToClientMessages, Plain, Plains, Of, Message
<1>2. /\ \A s \in Reads : Message("read-open", s, FALSE) \in ToClientMessages
      /\ \A s \in Inputs : Message("read-cancel", s, FALSE) \in ToClientMessages
  BY DEF ToClientMessages, Plain, Plains, Of, Message
<1>3. /\ Plain("exiting") \in ToServerMessages /\ Plain("wakeup") \in ToServerMessages
      /\ \A s \in Reads : Message("read", s, FALSE) \in ToServerMessages
  BY DEF ToServerMessages, Plain, Plains, Of, Message
<1>4. /\ \A s \in Outputs, e \in BOOLEAN : Message("write-ready", s, e) \in ToServerMessages
      /\ \A s \in Writes, e \in BOOLEAN : Message("write-done", s, e) \in ToServerMessages
      /\ \A s \in Reads, e \in BOOLEAN : Message("read-done", s, e) \in ToServerMessages
  BY DEF ToServerMessages, Plain, Plains, Of, Message
<1> QED BY <1>1, <1>2, <1>3, <1>4

(* A push sends data and, when nothing is left, the message to close.      *)
Close(s) == Message("write-close", s, FALSE)
LEMMA PushedIs ==
  ASSUME NEW s \in Outputs, NEW f, NEW k \in Nat, NEW q \in Seq(ToClientMessages)
  PROVE  /\ Pushed(f, s, k) \in Seq(ToClientMessages)
         /\ q \o Pushed(f, s, k) \in Seq(ToClientMessages)
         /\ q \o Pushed(f, s, k) =
              IF k = f.buffer /\ s > 2 THEN Append(q \o Repeated(k, Data(s)), Close(s))
              ELSE q \o Repeated(k, Data(s))
         /\ \A i \in DOMAIN Pushed(f, s, k) : Pushed(f, s, k)[i] \in {Data(s), Close(s)}
<1> DEFINE r == Repeated(k, Data(s))
           T == ToClientMessages
<1>1. Data(s) \in T /\ (s > 2 => Close(s) \in T)
  BY StreamsAre, MessagesSent DEF Data, Close
<1>2. Pushed(f, s, k) = r \o (IF k = f.buffer /\ s > 2 THEN <<Close(s)>> ELSE <<>>)
  BY DEF Pushed, Repeated, Data, Close
<1>3. r \in Seq(T) /\ q \o r \in Seq(T)
  BY <1>1, CountRepeated
<1>4. Len(r) = k /\ \A i \in DOMAIN r : r[i] = Data(s)
  BY DEF Repeated
<1> HIDE DEF r, T
<1>5. CASE k = f.buffer /\ s > 2
  <2>1. Pushed(f, s, k) = Append(r, Close(s))
    BY <1>2, <1>3, <1>5, <1>1, AppendIsConcat
  <2>2. q \o Append(r, Close(s)) = Append(q \o r, Close(s))
    <3>1. q \o (r \o <<Close(s)>>) = (q \o r) \o <<Close(s)>>
      BY <1>1, <1>3, <1>5, ConcatAssociative DEF T
    <3> QED BY <3>1, <1>1, <1>3, <1>5, AppendIsConcat
  <2>3. Append(r, Close(s)) \in Seq(T) /\ Append(q \o r, Close(s)) \in Seq(T)
    BY <1>1, <1>3, <1>5
  <2>4. \A i \in DOMAIN Append(r, Close(s)) : Append(r, Close(s))[i] \in {Data(s), Close(s)}
    BY <1>1, <1>3, <1>4, <1>5
  <2> QED BY <2>1, <2>2, <2>3, <2>4, <1>5 DEF r, T
<1>6. CASE ~(k = f.buffer /\ s > 2)
  <2>1. Pushed(f, s, k) = r
    BY <1>2, <1>3, <1>6
  <2> QED BY <2>1, <1>3, <1>4, <1>6 DEF r, T
<1> QED BY <1>5, <1>6

LEMMA NoFileTyped ==
  /\ NoFile \in FileRecords /\ NewFile \in FileRecords /\ NotOpen \in OpenRecords
  /\ \A s : FileTyped(s, NoFile) /\ FileTyped(s, NewFile) /\ OpenTyped(s, NotOpen)
<1>1. NoFile \in FileRecords /\ NewFile \in FileRecords /\ NotOpen \in OpenRecords
  BY DEF NoFile, NewFile, NotOpen, FileRecords, OpenRecords
<1>2. \A s : FileTyped(s, NoFile)
  BY <1>1 DEF NoFile, FileTyped
<1>3. \A s : FileTyped(s, NewFile)
  BY <1>1 DEF NoFile, NewFile, FileTyped
<1>4. \A s : OpenTyped(s, NotOpen)
  BY <1>1 DEF NotOpen, OpenTyped
<1> QED BY <1>1, <1>2, <1>3, <1>4

LEMMA FreedTyped ==
  ASSUME NEW s, NEW f \in FileRecords, f.here, f.references > 0,
         f.references <= 2 + f.pushes, s \in Reads => f.pushes = 0
  PROVE  FileTyped(s, Freed(f))
<1>1. CASE f.references = 1
  BY <1>1, NoFileTyped DEF Freed
<1>2. CASE f.references # 1
  BY <1>2 DEF Freed, FileRecords, FileTyped
<1> QED BY <1>1, <1>2

LEMMA PushTyped ==
  ASSUME NEW f \in FileRecords, NEW k \in 0 .. f.buffer
  PROVE  /\ Push(f, k) \in FileRecords
         /\ (Push(f, k).here <=> f.here) /\ Push(f, k).buffer = f.buffer - k
         /\ (Push(f, k).error <=> f.error) /\ (Push(f, k).closed <=> f.closed)
         /\ Push(f, k).due = f.due /\ (Push(f, k).kept <=> f.kept)
         /\ Push(f, k).references = IF k < f.buffer THEN f.references + 1 ELSE f.references
         /\ Push(f, k).pushes = IF k < f.buffer THEN f.pushes + 1 ELSE f.pushes
<1> DEFINE g == Push(f, k)
<1>1. g \in FileRecords
  <2>1. CASE k < f.buffer
    <3>1. f.buffer - k \in Nat /\ f.references + 1 \in Nat /\ f.pushes + 1 \in Nat
      BY DEF FileRecords
    <3>2. g = [f EXCEPT !.buffer = f.buffer - k, !.references = f.references + 1,
                        !.pushes = f.pushes + 1]
      BY <2>1 DEF Push
    <3> HIDE DEF g
    <3> QED BY <3>1, <3>2 DEF FileRecords
  <2>2. CASE ~(k < f.buffer)
    BY <2>2 DEF FileRecords, Push
  <2> QED BY <2>1, <2>2
<1>6. g.buffer = f.buffer - k
  BY DEF FileRecords, Push
<1>2. (g.here <=> f.here) /\ (g.error <=> f.error)
  BY DEF FileRecords, Push
<1>3. (g.closed <=> f.closed) /\ g.due = f.due
  BY DEF FileRecords, Push
<1>5. g.kept <=> f.kept
  BY DEF FileRecords, Push
<1>4. /\ g.references = IF k < f.buffer THEN f.references + 1 ELSE f.references
      /\ g.pushes = IF k < f.buffer THEN f.pushes + 1 ELSE f.pushes
  BY DEF FileRecords, Push
<1> QED BY <1>1, <1>2, <1>3, <1>4, <1>5, <1>6

LEMMA KeptTyped ==
  ASSUME NEW f \in FileRecords, NEW g, g = [f EXCEPT !.kept = TRUE]
  PROVE  /\ g \in FileRecords /\ g.kept
         /\ (g.here <=> f.here) /\ g.buffer = f.buffer /\ (g.error <=> f.error)
         /\ (g.closed <=> f.closed) /\ g.due = f.due
         /\ g.references = f.references /\ g.pushes = f.pushes
<1>1. g \in FileRecords
  BY DEF FileRecords
<1>2. g.kept /\ g.buffer = f.buffer /\ g.due = f.due
  BY DEF FileRecords
<1>3. g.references = f.references /\ g.pushes = f.pushes
  BY DEF FileRecords
<1>4. (g.here <=> f.here) /\ (g.error <=> f.error)
  BY DEF FileRecords
<1>5. g.closed <=> f.closed
  BY DEF FileRecords
<1> QED BY <1>1, <1>2, <1>3, <1>4, <1>5

LEMMA FireTyped ==
  ASSUME NEW f \in FileRecords, NEW e \in BOOLEAN, NEW g,
         g = FireDone([f EXCEPT !.error = e])
  PROVE  /\ g \in FileRecords
         /\ (g.here <=> f.here) /\ g.buffer = f.buffer /\ (g.error <=> e)
         /\ (g.closed <=> f.closed) /\ (g.kept <=> f.kept) /\ g.due = f.due + 1
         /\ g.references = f.references /\ g.pushes = f.pushes
<1>1. g \in FileRecords
  <2>1. [f EXCEPT !.error = e] \in FileRecords
    BY DEF FileRecords
  <2>2. ASSUME NEW h \in FileRecords PROVE FireDone(h) \in FileRecords
    BY DEF FileRecords, FireDone
  <2> QED BY <2>1, <2>2
<1>6. g.buffer = f.buffer /\ g.due = f.due + 1
  BY DEF FileRecords, FireDone
<1>2. (g.here <=> f.here) /\ (g.error <=> e)
  BY DEF FileRecords, FireDone
<1>3. g.closed <=> f.closed
  BY DEF FileRecords, FireDone
<1>5. g.kept <=> f.kept
  BY DEF FileRecords, FireDone
<1>4. g.references = f.references /\ g.pushes = f.pushes
  BY DEF FileRecords, FireDone
<1> QED BY <1>1, <1>2, <1>3, <1>4, <1>5, <1>6

(* A step is the server's or the client's, and leaves the other's state.   *)
ServerStep ==
  \/ FilePrint
  \/ \E s \in Writes : FileWrite(s)
  \/ \E s \in Reads : FileRead(s)
  \/ \E s \in Streams : FilePushAgain(s) \/ FileDone(s) \/ ReadData(s)
  \/ \E s \in Streams, e \in BOOLEAN :
       \/ WriteReady(s, e)
       \/ TransferDone("write-done", s, e) \/ TransferDone("read-done", s, e)
  \/ Exiting \/ Wakeup \/ (\E control \in BOOLEAN : Attach(control))
  \/ CommandDone \/ CheckExit \/ ExitTimer \/ ClientLost \/ Detach \/ Destroy
  \/ Shutdown \/ Suspend \/ Lock \/ Exec \/ KillPane
Tells == {"return", "shutdown", "detach", "exec", "exited", "ready", "suspend", "lock"}
ClientStep ==
  \/ \E s \in Streams, read \in BOOLEAN : FileOpen(s, read)
  \/ \E s \in Streams :
       \/ FileWriteData(s) \/ FileWriteClose(s) \/ FileReadCancel(s)
       \/ Drain(s) \/ WriteError(s) \/ ReadSome(s)
  \/ \E s \in Streams, e \in BOOLEAN : ReadEnd(s, e)
  \/ (\E type \in Tells : Told(type))
  \/ ServerLost \/ Signal \/ Continue \/ Killed

LEMMA StepsOfTwo == Next => ServerStep \/ ClientStep
BY DEF Next, ServerStep, ClientStep, Tells, Reads

LEMMA ServerStepLeaves ==
  ASSUME ServerStep PROVE UNCHANGED <<client, open, moved, failed>>
<1>1. ASSUME NEW s, NEW t, NEW f, Opens(s, t, f) PROVE UNCHANGED <<client, open, moved, failed>>
  BY <1>1 DEF Opens, Quiet
<1>2. ASSUME NEW m, FromClient(m) PROVE UNCHANGED <<client, open, moved, failed>>
  BY <1>2 DEF FromClient, Quiet
<1>3. ASSUME ServerOnly \/ Lost PROVE UNCHANGED <<client, open, moved, failed>>
  BY <1>3 DEF ServerOnly, Lost, Quiet, history
<1>4. CASE \/ \E s \in Writes : FileWrite(s)
           \/ \E s \in Reads : FileRead(s)
  BY <1>1, <1>4 DEF FileWrite, FileRead
<1>5. CASE \E s \in Streams : FilePushAgain(s) \/ FileDone(s)
  BY <1>5 DEF FilePushAgain, FileDone, Quiet, history
<1>6. CASE \/ \E s \in Streams : ReadData(s)
           \/ \E s \in Streams, e \in BOOLEAN :
                \/ WriteReady(s, e)
                \/ TransferDone("write-done", s, e) \/ TransferDone("read-done", s, e)
           \/ Exiting \/ Wakeup
  BY <1>6, <1>2 DEF ReadData, WriteReady, TransferDone, Exiting, Wakeup
<1>7. CASE \/ (\E control \in BOOLEAN : Attach(control))
           \/ CommandDone \/ ClientLost \/ Detach \/ Destroy \/ Shutdown
           \/ Suspend \/ Lock \/ Exec \/ KillPane
  BY <1>7, <1>3 DEF Attach, CommandDone, ClientLost, Detach, Destroy, Shutdown, Leave, Suspend,
       Lock, StopsTty, Exec, KillPane
<1>8. CASE FilePrint \/ CheckExit \/ ExitTimer
  BY <1>8, <1>3 DEF FilePrint, CheckExit, ExitTimer, Quiet
<1> QED BY <1>4, <1>5, <1>6, <1>7, <1>8 DEF ServerStep

LEMMA ClientStepLeaves ==
  ASSUME ClientStep PROVE UNCHANGED <<server, given, promised, result, used>>
<1>1. ASSUME (\E m : ToClient(m)) \/ ClientOnly
      PROVE  UNCHANGED <<server, given, promised, result, used>>
  BY <1>1 DEF ToClient, ClientOnly
<1>2. CASE \/ \E s \in Streams, read \in BOOLEAN : FileOpen(s, read)
           \/ \E s \in Streams : FileWriteData(s) \/ FileWriteClose(s) \/ FileReadCancel(s)
           \/ \E type \in Tells : Told(type)
  BY <1>2, <1>1 DEF FileOpen, FileWriteData, FileWriteClose, FileReadCancel, Told
<1>3. CASE \/ \E s \in Streams : Drain(s) \/ WriteError(s) \/ ReadSome(s)
           \/ \E s \in Streams, e \in BOOLEAN : ReadEnd(s, e)
           \/ Signal \/ Continue \/ Killed
  BY <1>3, <1>1 DEF Drain, WriteError, ReadSome, ReadEnd, Signal, Continue, Killed
<1>4. CASE ServerLost
  BY <1>4 DEF ServerLost, history
<1> QED BY <1>2, <1>3, <1>4 DEF ClientStep

(* What reads and fires, and opens and frees, a file keeps it typed.       *)
LEMMA FilesTypedStep ==
  ASSUME Typed, Next
  PROVE  FilesTyped'
<1> USE DEF Typed
<1> DEFINE Changed(s, f) == files' = [files EXCEPT ![s] = f] /\ FileTyped(s, f)
<1>0. ASSUME NEW s \in Streams, NEW f, Changed(s, f)
      PROVE  FilesTyped'
  BY <1>0 DEF FilesTyped, FileTyped
<1>00. ASSUME UNCHANGED files PROVE FilesTyped'
  BY <1>00 DEF FilesTyped
<1>a. \A s \in Streams : FileTyped(s, files[s]) /\ files[s] \in FileRecords
  BY DEF FilesTyped
<1> HIDE DEF Typed
<1>b. ASSUME NEW s \in Outputs, NEW k \in 0 .. files[s].buffer, files[s].here
      PROVE  FileTyped(s, Push(files[s], k))
  <2> DEFINE f == files[s]
             g == Push(f, k)
  <2>1. /\ s \in Streams /\ s \notin Reads /\ f \in FileRecords /\ f.here
        /\ f.references > 0 /\ f.references <= 1 + f.pushes
    BY <1>a, <1>b, StreamsAre DEF FileTyped
  <2>2. f.buffer \in Nat /\ f.references \in Nat /\ f.pushes \in Nat
    BY <2>1 DEF FileRecords
  <2>3. /\ g \in FileRecords /\ g.here
        /\ g.references = (IF k < f.buffer THEN f.references + 1 ELSE f.references)
        /\ g.pushes = (IF k < f.buffer THEN f.pushes + 1 ELSE f.pushes)
    <3>1. k \in 0 .. f.buffer
      BY <1>b
    <3> HIDE DEF f
    <3> QED BY <2>1, <3>1, PushTyped
  <2> HIDE DEF f, g
  <2>4. FileTyped(s, g)
    BY <2>1, <2>2, <2>3 DEF FileTyped
  <2> QED BY <2>4 DEF f, g
<1>c. ASSUME NEW s \in Streams, files[s].here, NEW e \in BOOLEAN
      PROVE  FileTyped(s, FireDone([files[s] EXCEPT !.error = e]))
  BY <1>a, <1>c, FireTyped DEF FileTyped
<1>1. CASE FilePrint
  <2> DEFINE f == files[Stdout]
             more == [f EXCEPT !.buffer = @ + 1]
             one == [NewFile EXCEPT !.buffer = 1]
  <2>1. Stdout \in Streams /\ Stdout \notin Reads
    BY StreamsAre
  <2>2. CASE ~f.here
    <3>1. FileTyped(Stdout, one)
      BY <2>1, NoFileTyped DEF NewFile, NoFile, FileTyped, FileRecords
    <3>2. files' = [files EXCEPT ![Stdout] = one]
      BY <1>1, <2>2 DEF FilePrint
    <3> QED BY <3>1, <3>2, <2>1, <1>0
  <2>3. CASE f.here
    <3>1. PICK k \in 0 .. more.buffer : files' = [files EXCEPT ![Stdout] = Push(more, k)]
      BY <1>1, <2>3 DEF FilePrint
    <3>2. /\ more \in FileRecords /\ more.here = f.here /\ more.references = f.references
          /\ more.pushes = f.pushes
      BY <2>1, <1>a DEF FileRecords
    <3>3. FileTyped(Stdout, Push(more, k))
      <4> HIDE DEF more
      <4>1. FileTyped(Stdout, f) /\ more.references \in Nat /\ more.pushes \in Nat
            /\ more.buffer \in Nat
        BY <2>1, <1>a, <3>2 DEF FileRecords
      <4> HIDE DEF f
      <4>2. /\ Push(more, k) \in FileRecords /\ (Push(more, k).here <=> more.here)
            /\ Push(more, k).references =
                 IF k < more.buffer THEN more.references + 1 ELSE more.references
            /\ Push(more, k).pushes =
                 IF k < more.buffer THEN more.pushes + 1 ELSE more.pushes
        BY <3>2, PushTyped
      <4> QED BY <4>1, <4>2, <3>2, <2>1, <2>3 DEF FileTyped
    <3> QED BY <3>1, <3>3, <2>1, <1>0
  <2> QED BY <2>2, <2>3
<1>2. ASSUME NEW s \in Writes, FileWrite(s) PROVE FilesTyped'
  <2>1. PICK n \in 0 .. MaxData : Opens(s, "write-open", [NewFile EXCEPT !.buffer = n])
    BY <1>2 DEF FileWrite
  <2> DEFINE f == [NewFile EXCEPT !.buffer = n]
             kept == [f EXCEPT !.kept = TRUE]
             fired == FireDone([f EXCEPT !.error = TRUE])
  <2>2. files' = [files EXCEPT ![s] = kept] \/ files' = [files EXCEPT ![s] = fired]
    BY <2>1 DEF Opens
  <2>3. FileTyped(s, kept) /\ FileTyped(s, fired)
    <3>1. f \in FileRecords /\ f.here /\ f.references = 1 /\ f.pushes = 0
      <4>1. n \in Nat
        BY ClientServerAssumption
      <4> QED BY <4>1 DEF NewFile, NoFile, FileRecords
    <3> HIDE DEF f
    <3>2. FileTyped(s, kept)
      BY <3>1, KeptTyped DEF FileTyped
    <3>3. FileTyped(s, fired)
      <4> HIDE DEF fired
      <4>1. /\ fired \in FileRecords /\ fired.here /\ fired.references = 1
            /\ fired.pushes = 0
        BY <3>1, FireTyped DEF fired
      <4> QED BY <4>1 DEF FileTyped
    <3> QED BY <3>2, <3>3
  <2> QED BY <2>2, <2>3, <1>0, StreamsAre
<1>3. ASSUME NEW s \in Reads, FileRead(s) PROVE FilesTyped'
  <2> DEFINE kept == [NewFile EXCEPT !.kept = TRUE]
             fired == FireDone([NewFile EXCEPT !.error = TRUE])
  <2>2. files' = [files EXCEPT ![s] = kept] \/ files' = [files EXCEPT ![s] = fired]
    BY <1>3 DEF FileRead, Opens
  <2>3. FileTyped(s, kept) /\ FileTyped(s, fired)
    <3>1. /\ NewFile \in FileRecords /\ NewFile.here /\ NewFile.references = 1
          /\ NewFile.pushes = 0
      BY DEF NewFile, NoFile, FileRecords
    <3>2. FileTyped(s, kept)
      BY <3>1, KeptTyped DEF FileTyped
    <3>3. FileTyped(s, fired)
      <4> HIDE DEF fired
      <4>1. /\ fired \in FileRecords /\ fired.here /\ fired.references = 1
            /\ fired.pushes = 0
        BY <3>1, FireTyped DEF fired
      <4> QED BY <4>1 DEF FileTyped
    <3> QED BY <3>2, <3>3
  <2> QED BY <2>2, <2>3, <1>0, StreamsAre
<1>4. ASSUME NEW s \in Streams, FilePushAgain(s) PROVE FilesTyped'
  <2> DEFINE f == [files[s] EXCEPT !.pushes = @ - 1]
  <2>1. PICK k \in 0 .. f.buffer :
          files' = [files EXCEPT ![s] = Freed(Push(f, k))] \/ files' = [files EXCEPT ![s] = Freed(f)]
    BY <1>4 DEF FilePushAgain
  <2>2. files[s].pushes > 0 /\ files[s].pushes \in Nat
    BY <1>4, <1>a DEF FilePushAgain, FileRecords
  <2>3. files[s].here /\ s \notin Reads /\ files[s].references > 0
    BY <2>2, <1>a DEF FileTyped, NoFile
  <2>4. /\ f \in FileRecords /\ f.here /\ f.references = files[s].references
        /\ f.pushes = files[s].pushes - 1 /\ f.references > 0 /\ f.references <= 2 + f.pushes
    BY <2>2, <2>3, <1>a DEF FileTyped, FileRecords
  <2> HIDE DEF f
  <2>5. FileTyped(s, Freed(f))
    BY <2>3, <2>4, FreedTyped
  <2>6. FileTyped(s, Freed(Push(f, k)))
    <3>1. /\ Push(f, k) \in FileRecords /\ Push(f, k).here /\ Push(f, k).references > 0
          /\ Push(f, k).references <= 2 + Push(f, k).pushes
      <4>1. f.references \in Nat /\ f.pushes \in Nat /\ f.buffer \in Nat
        BY <2>4 DEF FileRecords
      <4> QED BY <2>4, <4>1, PushTyped
    <3> QED BY <3>1, <2>3, FreedTyped
  <2> QED BY <2>1, <2>5, <2>6, <1>0
<1>5. ASSUME NEW s \in Streams, FileDone(s) PROVE FilesTyped'
  <2> DEFINE f == [files[s] EXCEPT !.due = @ - 1]
  <2>1. files[s].due > 0 /\ files' = [files EXCEPT ![s] = Freed(f)]
    BY <1>5 DEF FileDone
  <2>2. files[s].here
    BY <2>1, <1>a DEF FileTyped, NoFile
  <2>3. /\ f \in FileRecords /\ f.here /\ f.references > 0 /\ f.references <= 2 + f.pushes
        /\ s \in Reads => f.pushes = 0
    BY <2>1, <2>2, <1>a DEF FileTyped, FileRecords
  <2> HIDE DEF f
  <2> QED BY <2>1, <2>3, FreedTyped, <1>0
<1>6. ASSUME NEW s \in Streams, NEW e \in BOOLEAN, WriteReady(s, e) PROVE FilesTyped'
  <2>1. s \in Outputs
    <3>1. Message("write-ready", s, e) \in ToServerMessages
      BY <1>6 DEF WriteReady, FromClient, Typed, QueuesTyped
    <3> QED BY <3>1, MessagesToServer
  <2>2. CASE files[s].here /\ ~e
    <3>1. PICK k \in 0 .. files[s].buffer : files' = [files EXCEPT ![s] = Push(files[s], k)]
      BY <1>6, <2>2 DEF WriteReady
    <3> QED BY <3>1, <2>1, <2>2, <1>b, <1>0, StreamsAre
  <2>3. CASE ~(files[s].here /\ ~e)
    BY <1>6, <2>3, <1>c, <1>0, <1>00 DEF WriteReady
  <2> QED BY <2>2, <2>3
<1>7. ASSUME NEW t, NEW s \in Streams, NEW e \in BOOLEAN, TransferDone(t, s, e) PROVE FilesTyped'
  BY <1>7, <1>c, <1>0, <1>00 DEF TransferDone
<1>8. ASSUME NEW s \in Streams, ReadData(s) PROVE FilesTyped'
  <2> DEFINE f == files[s]
             takes == f.here /\ ~f.error /\ ~f.closed
  <2>1. CASE takes /\ s \in Inputs /\ PaneGone(f)
    <3>1. files' = [files EXCEPT ![s] = [files[s] EXCEPT !.closed = TRUE]]
      BY <1>8, <2>1 DEF ReadData
    <3>2. FileTyped(s, [files[s] EXCEPT !.closed = TRUE])
      BY <2>1, <1>a DEF FileTyped, FileRecords
    <3> QED BY <3>1, <3>2, <1>0
  <2>2. CASE ~(takes /\ s \in Inputs /\ PaneGone(f))
    <3>1. \/ takes /\ files' = [files EXCEPT ![s] = [files[s] EXCEPT !.buffer = @ + 1]]
          \/ UNCHANGED files
      BY <1>8, <2>2 DEF ReadData
    <3>2. takes => FileTyped(s, [files[s] EXCEPT !.buffer = @ + 1])
      BY <1>a DEF FileTyped, FileRecords
    <3> QED BY <3>1, <3>2, <1>0, <1>00
  <2> QED BY <2>1, <2>2
<1>9. ASSUME Lost PROVE FilesTyped'
  <2> DEFINE g(s) == IF files[s].here THEN FireDone([files[s] EXCEPT !.error = TRUE]) ELSE files[s]
  <2>1. files' = [s \in Streams |-> g(s)]
    BY <1>9 DEF Lost
  <2>2. \A s \in Streams : FileTyped(s, g(s))
    BY <1>a, <1>c
  <2> HIDE DEF g
  <2>3. \A s \in Streams : files'[s] = g(s) /\ g(s) \in FileRecords
    BY <2>1, <2>2 DEF FileTyped
  <2> QED BY <2>1, <2>2, <2>3 DEF FilesTyped
<1>10. CASE ExitTimer
  BY <1>10, <1>9, <1>00 DEF ExitTimer, LetGo
<1>11. CASE ClientLost
  BY <1>11, <1>9 DEF ClientLost
<1>12. CASE Shutdown
  BY <1>12, <1>9, <1>00 DEF Shutdown, Leave
<1>13. ASSUME \/ Exiting \/ Wakeup \/ CommandDone \/ CheckExit \/ Detach \/ Destroy
              \/ Suspend \/ Lock \/ Exec \/ KillPane \/ \E control \in BOOLEAN : Attach(control)
       PROVE FilesTyped'
  BY <1>13, <1>00 DEF Exiting, Wakeup, CommandDone, CheckExit, Detach, Destroy, Leave, Suspend, Lock,
       StopsTty, Exec, KillPane, Attach
<1>14. CASE ClientStep
  BY <1>14, <1>00, ClientStepLeaves DEF server
<1> QED
  BY <1>1, <1>2, <1>3, <1>4, <1>5, <1>6, <1>7, <1>8, <1>10, <1>11, <1>12, <1>13, <1>14, StepsOfTwo
     DEF ServerStep

(* What a process reads is a message, and about which stream.              *)
LEMMA ReadsMessage ==
  ASSUME QueuesTyped
  PROVE  /\ \A m : ToClient(m) => m \in ToClientMessages /\ toClient # <<>>
         /\ \A m : FromClient(m) => m \in ToServerMessages /\ toServer # <<>>
BY DEF QueuesTyped, ToClient, FromClient

LEMMA OpensTypedStep ==
  ASSUME Typed, Next
  PROVE  OpensTyped'
<1> DEFINE Changed(s, o) == open' = [open EXCEPT ![s] = o] /\ OpenTyped(s, o)
<1>0. ASSUME NEW s \in Streams, NEW o, Changed(s, o)
      PROVE  OpensTyped'
  BY <1>0 DEF Typed, OpensTyped, OpenTyped
<1>00. ASSUME UNCHANGED open PROVE OpensTyped'
  BY <1>00 DEF Typed, OpensTyped
<1>a. \A s \in Streams : OpenTyped(s, open[s]) /\ open[s] \in OpenRecords
  BY DEF Typed, OpensTyped
<1>b. QueuesTyped
  BY DEF Typed
<1>c. ASSUME NEW s \in Streams, open' = [open EXCEPT ![s] = NotOpen] PROVE OpensTyped'
  BY <1>c, <1>0, NoFileTyped
<1>1. ASSUME NEW s \in Streams, NEW read \in BOOLEAN, FileOpen(s, read) PROVE OpensTyped'
  <2> DEFINE one == [NotOpen EXCEPT !.here = TRUE, !.event = TRUE]
             here == [open[s] EXCEPT !.here = TRUE]
  <2>1. \/ UNCHANGED open
        \/ open' = [open EXCEPT ![s] = one]
        \/ open' = [open EXCEPT ![s] = here]
    BY <1>1 DEF FileOpen
  <2>2. OpenTyped(s, one)
    BY DEF NotOpen, OpenTyped, OpenRecords
  <2>3. OpenTyped(s, here)
    <3>1. here \in OpenRecords /\ here.here /\ (here.closed <=> open[s].closed)
          /\ here.output = open[s].output
      BY <1>a DEF OpenRecords
    <3> QED BY <3>1, <1>a DEF OpenTyped
  <2> QED BY <2>1, <2>2, <2>3, <1>0, <1>00
<1>2. ASSUME NEW s \in Streams, FileWriteData(s) PROVE OpensTyped'
  <2> DEFINE n == open[s].output + (IF open[s].event THEN 1 ELSE 0)
             more == [open[s] EXCEPT !.output = n]
  <2>1. s \in Outputs
    BY <1>2, <1>b, ReadsMessage, MessagesToClient DEF FileWriteData
  <2>2. UNCHANGED open \/ (open[s].here /\ open' = [open EXCEPT ![s] = more])
    BY <1>2 DEF FileWriteData, Ignored, Unknown, Known
  <2>3. ASSUME open[s].here PROVE OpenTyped(s, more)
    <3>1. n \in Nat
      BY <1>a DEF OpenRecords
    <3> HIDE DEF n
    <3>2. more \in OpenRecords /\ more.here /\ (more.closed <=> open[s].closed)
      BY <2>3, <3>1, <1>a DEF OpenRecords
    <3> QED BY <3>2, <2>1, <1>a, StreamsAre DEF OpenTyped
  <2> QED BY <2>2, <2>3, <1>0, <1>00
<1>3. ASSUME NEW s \in Streams, FileWriteClose(s) PROVE OpensTyped'
  <2> DEFINE shut == [open[s] EXCEPT !.closed = TRUE]
  <2>1. s \in Writes
    BY <1>3, <1>b, ReadsMessage, MessagesToClient DEF FileWriteClose
  <2>2. \/ UNCHANGED open
        \/ open[s].here /\ open' = [open EXCEPT ![s] = shut]
        \/ open' = [open EXCEPT ![s] = NotOpen]
    BY <1>3 DEF FileWriteClose, Ignored, Unknown, Known, Finished
  <2>3. ASSUME open[s].here PROVE OpenTyped(s, shut)
    <3>1. shut \in OpenRecords /\ shut.here /\ shut.output = open[s].output
      BY <2>3, <1>a DEF OpenRecords
    <3> QED BY <3>1, <2>1, <1>a DEF OpenTyped
  <2> QED BY <2>2, <2>3, <1>0, <1>00, <1>c
<1>4. ASSUME NEW s \in Streams, FileReadCancel(s) PROVE OpensTyped'
  BY <1>4, <1>00, <1>c DEF FileReadCancel, ReadEnds, Ignored, Unknown
<1>5. ASSUME NEW s \in Streams, Drain(s) PROVE OpensTyped'
  <2> DEFINE less == [open[s] EXCEPT !.output = @ - 1]
  <2>1. /\ open[s].event /\ open[s].output > 0
        /\ open' = [open EXCEPT ![s] = NotOpen] \/ open' = [open EXCEPT ![s] = less]
    BY <1>5 DEF Drain, Finished
  <2>2. OpenTyped(s, less)
    <3>1. open[s].here /\ s \notin Reads /\ open[s].output - 1 \in Nat
      BY <2>1, <1>a DEF OpenTyped, OpenRecords, NotOpen
    <3>2. less \in OpenRecords /\ less.here /\ (less.closed <=> open[s].closed)
      BY <3>1, <1>a DEF OpenRecords
    <3> QED BY <3>1, <3>2, <1>a DEF OpenTyped
  <2> QED BY <2>1, <2>2, <1>0, <1>c
<1>6. ASSUME NEW s \in Streams, WriteError(s) PROVE OpensTyped'
  <2> DEFINE broken == [open[s] EXCEPT !.event = FALSE, !.error = TRUE]
  <2>1. /\ open[s].event /\ open[s].output > 0
        /\ open' = [open EXCEPT ![s] = NotOpen] \/ open' = [open EXCEPT ![s] = broken]
    <3>1. open \in [Streams -> OpenRecords]
      BY DEF Typed, OpensTyped
    <3>2. [open EXCEPT ![s].event = FALSE, ![s].error = TRUE] = [open EXCEPT ![s] = broken]
      BY <3>1
    <3> QED BY <1>6, <3>2 DEF WriteError
  <2>2. OpenTyped(s, broken)
    <3>1. open[s].here /\ s \notin Reads
      BY <2>1, <1>a DEF OpenTyped, NotOpen
    <3>2. broken \in OpenRecords /\ broken.here /\ (broken.closed <=> open[s].closed)
      BY <3>1, <1>a DEF OpenRecords
    <3> QED BY <3>1, <3>2, <1>a DEF OpenTyped
  <2> QED BY <2>1, <2>2, <1>0, <1>c
<1>7. ASSUME NEW s \in Streams, NEW e \in BOOLEAN, ReadEnd(s, e) PROVE OpensTyped'
  BY <1>7, <1>c DEF ReadEnd, ReadEnds
<1>8. CASE \/ \E s \in Streams : ReadSome(s)
           \/ \E type \in Tells : Told(type)
           \/ ServerLost \/ Signal \/ Continue \/ Killed
  BY <1>8, <1>00 DEF ReadSome, Told, ServerLost, Signal, Continue, Killed
<1>9. CASE ServerStep
  BY <1>9, <1>00, ServerStepLeaves
<1> QED
  BY <1>1, <1>2, <1>3, <1>4, <1>5, <1>6, <1>7, <1>8, <1>9, StepsOfTwo DEF ClientStep

LEMMA ClientTypedStep ==
  ASSUME Typed, Next
  PROVE  ClientTyped'
<1>a. ClientTyped
  BY DEF Typed
<1>00. ASSUME UNCHANGED client PROVE ClientTyped'
  BY <1>00, <1>a DEF ClientTyped
<1>1. \A why \in {"exit", "fatal", "exited", "lost", "signal", "killed"} :
        client' = Gone(why) => ClientTyped'
  BY <1>a DEF Gone, ClientTyped, ClientRecords
<1>2. ASSUME NEW o, FileCheck(o, client) PROVE ClientTyped'
  <2>1. client' = client \/ client' = Gone("exit")
    BY <1>2 DEF FileCheck, Gone
  <2> QED BY <2>1, <1>1, <1>00
<1>3. ASSUME NEW s \in Streams, FileWriteClose(s) \/ Drain(s) \/ WriteError(s) PROVE ClientTyped'
  BY <1>3, <1>00, <1>1, <1>2 DEF FileWriteClose, Drain, WriteError, Finished, Ignored, Unknown
<1>4. ASSUME NEW s \in Streams, FileWriteData(s) \/ FileReadCancel(s) PROVE ClientTyped'
  BY <1>4, <1>00, <1>1 DEF FileWriteData, FileReadCancel, ReadEnds, Ignored, Unknown
<1>5. ASSUME NEW type \in Tells, Told(type) PROVE ClientTyped'
  <2>1. client.run = "running"
    BY <1>5 DEF Told, ToClient, Running
  <2>2. CASE FileCheck(open, [client EXCEPT !.exitflag = TRUE])
    BY <2>1, <2>2, <1>a DEF FileCheck, ClientTyped, ClientRecords
  <2>3. CASE client' = [client EXCEPT !.attached = TRUE]
    BY <2>1, <2>3, <1>a DEF ClientTyped, ClientRecords
  <2>4. CASE client' = [client EXCEPT !.run = IF type = "lock" THEN "locked" ELSE "stopped"]
    BY <2>1, <2>4, <1>a DEF ClientTyped, ClientRecords
  <2> QED BY <1>5, <2>2, <2>3, <2>4, <1>00, <1>1 DEF Told
<1>6. CASE Continue
  BY <1>6, <1>a DEF Continue, ClientTyped, ClientRecords
<1>7. CASE ServerLost \/ Signal \/ Killed
  BY <1>7, <1>00, <1>1 DEF ServerLost, Signal, Killed
<1>8. CASE \/ \E s \in Streams, read \in BOOLEAN : FileOpen(s, read)
           \/ \E s \in Streams : ReadSome(s)
           \/ \E s \in Streams, e \in BOOLEAN : ReadEnd(s, e)
  BY <1>8, <1>00 DEF FileOpen, ReadSome, ReadEnd, ReadEnds
<1>9. CASE ServerStep
  BY <1>9, <1>00, ServerStepLeaves
<1> QED BY <1>3, <1>4, <1>5, <1>6, <1>7, <1>8, <1>9, StepsOfTwo DEF ClientStep

LEMMA HistoryTypedStep ==
  ASSUME Typed, Next
  PROVE  HistoryTyped'
<1>a. HistoryTyped
  BY DEF Typed
<1>b. \A s \in Streams : files[s].buffer \in Nat
  BY DEF Typed, FilesTyped, FileRecords
<1>00. ASSUME UNCHANGED <<given, moved, promised, result, failed, used>> PROVE HistoryTyped'
  BY <1>00, <1>a DEF HistoryTyped
<1>1. CASE FilePrint
  BY <1>1, <1>a, StreamsAre DEF FilePrint, Quiet, HistoryTyped
<1>2. ASSUME NEW s \in Streams, NEW t, NEW f, Opens(s, t, f),
             given' = given \/ \E n \in Nat : given' = [given EXCEPT ![s] = n]
      PROVE  HistoryTyped'
  BY <1>2, <1>a DEF Opens, HistoryTyped
<1>3. CASE \/ \E s \in Writes : FileWrite(s)
           \/ \E s \in Reads : FileRead(s)
  <2>1. Writes \subseteq Streams /\ Reads \subseteq Streams /\ 0 .. MaxData \subseteq Nat
    BY ClientServerAssumption, StreamsAre
  <2> QED BY <2>1, <1>3, <1>2 DEF FileWrite, FileRead
<1>4. ASSUME NEW s \in Streams, FileDone(s) PROVE HistoryTyped'
  <2> DEFINE f == [files[s] EXCEPT !.due = @ - 1]
  <2>1. f.buffer \in Nat
    BY <1>b DEF Typed, FilesTyped, FileRecords
  <2> HIDE DEF f
  <2>2. /\ result' = result \/ \E r \in {"error", "ok"} : result' = [result EXCEPT ![s] = r]
        /\ given' = given \/ given' = [given EXCEPT ![s] = f.buffer]
        /\ UNCHANGED <<moved, promised, failed, used>>
    <3>1. \/ UNCHANGED result
          \/ result' = [result EXCEPT ![s] = IF f.error THEN "error" ELSE "ok"]
      BY <1>4 DEF FileDone, f
    <3>2. given' = given \/ given' = [given EXCEPT ![s] = f.buffer]
      BY <1>4 DEF FileDone, f
    <3>3. UNCHANGED <<moved, promised, failed, used>>
      BY <1>4 DEF FileDone, f
    <3> QED BY <3>1, <3>2, <3>3
  <2> QED BY <2>1, <2>2, <1>a DEF HistoryTyped
<1>5. ASSUME NEW s \in Streams, ReadData(s) PROVE HistoryTyped'
  <2>1. /\ given' = given \/ given' = [given EXCEPT ![s] = @ + 1]
        /\ UNCHANGED <<moved, promised, result, failed, used>>
    BY <1>5 DEF ReadData, FromClient, Quiet, ServerStep
  <2>2. failed' = failed
    BY <2>1
  <2> QED BY <2>1, <1>a DEF HistoryTyped
<1>6. CASE CheckExit \/ ExitTimer
  <2>1. /\ promised' = promised \/ promised' = given
        /\ UNCHANGED <<given, moved, result, failed, used>>
    BY <1>6 DEF CheckExit, ExitTimer, LetGo, Lost, history
  <2> QED BY <2>1, <1>a DEF HistoryTyped
<1>7. CASE \/ \E s \in Streams : FilePushAgain(s)
           \/ \E s \in Streams, e \in BOOLEAN :
                \/ WriteReady(s, e)
                \/ TransferDone("write-done", s, e) \/ TransferDone("read-done", s, e)
           \/ Exiting \/ Wakeup \/ (\E control \in BOOLEAN : Attach(control))
           \/ CommandDone \/ ClientLost \/ Detach \/ Destroy
           \/ Shutdown \/ Suspend \/ Lock \/ Exec \/ KillPane
  <2>1. ASSUME UNCHANGED history PROVE UNCHANGED <<given, moved, promised, result, failed, used>>
    BY <2>1 DEF history
  <2>2. ASSUME NEW m, FromClient(m), UNCHANGED given
        PROVE  UNCHANGED <<given, moved, promised, result, failed, used>>
    BY <2>2 DEF FromClient
  <2> QED
    BY <1>7, <2>1, <2>2, <1>00 DEF FilePushAgain, WriteReady, TransferDone, Exiting, Wakeup, Attach,
       CommandDone, ClientLost, Lost, Detach, Destroy, Shutdown, Leave, Suspend, Lock, StopsTty, Exec,
       KillPane, ServerOnly
<1>8. ASSUME ClientStep,
             \/ moved' = moved \/ (\E s \in Streams : moved' = [moved EXCEPT ![s] = @ + 1]),
             failed' = failed \/ (\E s \in Streams : failed' = failed \cup {s})
      PROVE  HistoryTyped'
  BY <1>8, <1>a, ClientStepLeaves DEF HistoryTyped
<1>9. CASE ClientStep
  <2>1. CASE \/ \E s \in Streams, read \in BOOLEAN : FileOpen(s, read)
             \/ \E s \in Streams : FileWriteData(s) \/ FileWriteClose(s) \/ FileReadCancel(s)
             \/ \E type \in Tells : Told(type)
    BY <1>9, <2>1, <1>8 DEF FileOpen, FileWriteData, FileWriteClose, FileReadCancel, Told
  <2>2. CASE \/ \E s \in Streams : Drain(s) \/ WriteError(s) \/ ReadSome(s)
             \/ \E s \in Streams, e \in BOOLEAN : ReadEnd(s, e)
    BY <1>9, <2>2, <1>8 DEF Drain, WriteError, ReadSome, ReadEnd
  <2>3. CASE ServerLost \/ Signal \/ Continue \/ Killed
    BY <1>9, <2>3, <1>8 DEF ServerLost, Signal, Continue, Killed, history
  <2> QED BY <1>9, <2>1, <2>2, <2>3 DEF ClientStep
<1> QED BY <1>1, <1>3, <1>4, <1>5, <1>6, <1>7, <1>9, StepsOfTwo DEF ServerStep

LEMMA ServerTypedStep ==
  ASSUME Typed, Next
  PROVE  ServerTyped'
<1>a. ServerTyped
  BY DEF Typed
<1> DEFINE All == {"attached", "control", "suspended", "exit", "exited", "dead", "done"}
<1>0. ASSUME UNCHANGED <<exitType, timer, session, pane, tty, waiting>>, flags' \subseteq All
      PROVE  ServerTyped'
  BY <1>0, <1>a DEF ServerTyped
<1>00. flags \subseteq All
  BY <1>a DEF ServerTyped
<1>1. ASSUME Lost PROVE ServerTyped'
  BY <1>1, <1>a DEF Lost, ServerTyped
<1>2. CASE FilePrint
  BY <1>2, <1>0, <1>00 DEF FilePrint
<1>3. ASSUME NEW s \in Streams, NEW t, NEW f, Opens(s, t, f) PROVE ServerTyped'
  BY <1>3, <1>a DEF Opens, ServerTyped
<1>4. CASE \/ \E s \in Writes : FileWrite(s)
           \/ \E s \in Reads : FileRead(s)
  BY <1>3, <1>4, StreamsAre DEF FileWrite, FileRead
<1>5. ASSUME NEW s \in Streams, FilePushAgain(s) PROVE ServerTyped'
  BY <1>5, <1>0, <1>00 DEF FilePushAgain
<1>6. ASSUME NEW s \in Streams, FileDone(s) PROVE ServerTyped'
  <2>1. /\ flags' = flags \/ flags' = flags \cup {"exit"}
        /\ waiting' = waiting \/ waiting' = waiting \ {s}
        /\ UNCHANGED <<exitType, timer, session, pane, tty>>
    BY <1>6 DEF FileDone, CancelInput
  <2>2. waiting' = {} \/ waiting' = waiting
    BY <2>1, <1>a DEF ServerTyped
  <2> QED BY <2>1, <2>2, <1>a DEF ServerTyped
<1>7. ASSUME NEW s \in Streams, ReadData(s) PROVE ServerTyped'
  BY <1>7, <1>0, <1>00 DEF ReadData, FromClient, CancelInput
<1>8. CASE \E s \in Streams, e \in BOOLEAN :
             \/ WriteReady(s, e)
             \/ TransferDone("write-done", s, e) \/ TransferDone("read-done", s, e)
  BY <1>8, <1>0, <1>00 DEF WriteReady, TransferDone, FromClient
<1>9. CASE Exiting \/ Wakeup
  BY <1>9, <1>a DEF Exiting, Wakeup, FromClient, ServerTyped
<1>10. CASE (\E control \in BOOLEAN : Attach(control)) \/ CommandDone
  BY <1>10, <1>a DEF Attach, CommandDone, ServerTyped
<1>11. CASE CheckExit \/ ExitTimer
  BY <1>11, <1>1, <1>a DEF CheckExit, ExitTimer, LetGo, ServerTyped
<1>12. CASE Detach \/ Destroy \/ ClientLost \/ Shutdown
  BY <1>12, <1>1, <1>a DEF Detach, Destroy, ClientLost, Shutdown, Leave, ServerTyped
<1>13. CASE Suspend \/ Lock \/ Exec \/ KillPane
  BY <1>13, <1>a DEF Suspend, Lock, StopsTty, Exec, KillPane, ServerTyped
<1>14. CASE ClientStep
  BY <1>14, <1>0, <1>00, ClientStepLeaves DEF server
<1> QED
  BY <1>2, <1>4, <1>5, <1>6, <1>7, <1>8, <1>9, <1>10, <1>11, <1>12, <1>13, <1>14, StepsOfTwo
     DEF ServerStep

(* Only a loss ends the client in the server.                              *)
LEMMA AliveStep ==
  ASSUME Next PROVE Lost \/ (Alive' <=> Alive)
<1>0. ASSUME UNCHANGED flags PROVE Alive' <=> Alive
  BY <1>0 DEF Alive
<1>1. ASSUME NEW x, x # "dead", flags' = flags \cup {x} \/ flags' = flags \ {x}
      PROVE  Alive' <=> Alive
  BY <1>1 DEF Alive
<1>2. CASE \/ FilePrint
           \/ \E s \in Writes : FileWrite(s)
           \/ \E s \in Reads : FileRead(s)
           \/ \E s \in Streams : FilePushAgain(s)
           \/ \E s \in Streams, e \in BOOLEAN :
                \/ WriteReady(s, e)
                \/ TransferDone("write-done", s, e) \/ TransferDone("read-done", s, e)
           \/ Exiting \/ Exec \/ KillPane
  BY <1>2, <1>0 DEF FilePrint, FileWrite, FileRead, Opens, FilePushAgain, WriteReady, TransferDone,
     Exiting, Exec, KillPane
<1>3. CASE \E s \in Streams : FileDone(s) \/ ReadData(s)
  <2>1. \A s \in Streams : FileDone(s) \/ ReadData(s) => flags' = flags \/ flags' = flags \cup {"exit"}
    BY DEF FileDone, ReadData, CancelInput
  <2> QED BY <1>3, <2>1, <1>0, <1>1
<1>4. CASE Wakeup \/ (\E control \in BOOLEAN : Attach(control)) \/ CommandDone
  BY <1>4 DEF Wakeup, Attach, CommandDone, Alive
<1>5. CASE CheckExit \/ ExitTimer \/ ClientLost
  BY <1>5, <1>0, <1>1 DEF CheckExit, ExitTimer, LetGo, ClientLost
<1>6. CASE Detach \/ Destroy \/ Shutdown \/ Suspend \/ Lock
  BY <1>6, <1>1 DEF Detach, Destroy, Shutdown, Leave, Suspend, Lock, StopsTty
<1>7. CASE ClientStep
  BY <1>7, <1>0, ClientStepLeaves DEF server
<1> QED BY <1>2, <1>3, <1>4, <1>5, <1>6, <1>7, StepsOfTwo DEF ServerStep

LEMMA QueuesTypedStep ==
  ASSUME Typed, Next
  PROVE  QueuesTyped'
<1> DEFINE C == Seq(ToClientMessages)
           S == Seq(ToServerMessages)
<1>a. /\ toClient \in C /\ toServer \in S /\ (~Alive => toServer = <<>>)
      /\ \A s \in Streams : FileTyped(s, files[s]) /\ files[s] \in FileRecords
      /\ \A s \in Streams : OpenTyped(s, open[s]) /\ open[s] \in OpenRecords
      /\ QueuesTyped
      /\ exitType \in {"return", "shutdown", "detach"}
      /\ session \in BOOLEAN
  BY DEF Typed, QueuesTyped, FilesTyped, OpensTyped, ServerTyped
<1> DEFINE ToC == toClient' \in C
           ToS == toServer' \in S /\ (~Alive => toServer' = <<>>)
<1>b. ASSUME ToC, ToS PROVE QueuesTyped'
  <2>1. Lost => toServer' = <<>>
    BY DEF Lost
  <2> QED BY <2>1, <1>b, AliveStep DEF QueuesTyped
<1>c. /\ UNCHANGED toClient => ToC
      /\ \A m \in ToClientMessages : toClient' = Append(toClient, m) => ToC
      /\ \A m : ToClient(m) => ToC
      /\ Lost => ToC
  <2>1. \A m \in ToClientMessages : Append(toClient, m) \in C
    BY <1>a
  <2>2. toClient # <<>> => Tail(toClient) \in C
    BY <1>a
  <2>3. \A k \in 0 .. Len(toClient) : SubSeq(toClient, 1, k) \in C
    BY <1>a
  <2> QED BY <1>a, <2>1, <2>2, <2>3 DEF ToClient, Lost
<1>d. /\ UNCHANGED toServer => ToS
      /\ \A m \in ToServerMessages : Reply(m) => ToS
      /\ \A m : FromClient(m) => ToS
      /\ Lost => ToS
  <2>1. \A m \in ToServerMessages : Append(toServer, m) \in S
    BY <1>a
  <2>2. toServer # <<>> => Tail(toServer) \in S
    BY <1>a
  <2>3. <<>> \in S
    OBVIOUS
  <2> QED BY <1>a, <2>1, <2>2, <2>3 DEF Reply, FromClient, Lost, Alive
<1>e. ASSUME NEW s \in Outputs, NEW f, NEW k \in Nat,
             toClient' = toClient \o Pushed(f, s, k)
      PROVE  ToC
  BY <1>e, <1>a, PushedIs
<1> HIDE DEF ToC, ToS, C, S
<1>1. CASE FilePrint
  <2>1. ToC
    <3> DEFINE more == [files[Stdout] EXCEPT !.buffer = @ + 1]
    <3>1. more.buffer \in Nat
      BY <1>a, StreamsAre DEF FileRecords
    <3> HIDE DEF more
    <3>2. \/ toClient' = Append(toClient, Message("write-open", Stdout, FALSE))
          \/ UNCHANGED toClient
          \/ \E k \in 0 .. more.buffer : toClient' = toClient \o Pushed(more, Stdout, k)
      BY <1>1 DEF FilePrint, more
    <3>3. 0 .. more.buffer \subseteq Nat
      BY <3>1
    <3> QED BY <3>2, <3>3, <1>c, <1>e, StreamsAre, MessagesSent
  <2> QED BY <1>1, <2>1, <1>b, <1>d DEF FilePrint
<1>2. ASSUME NEW s \in Streams, NEW t, NEW f, Opens(s, t, f), Message(t, s, FALSE) \in ToClientMessages
      PROVE  QueuesTyped'
  BY <1>2, <1>b, <1>c, <1>d DEF Opens
<1>3. CASE \/ \E s \in Writes : FileWrite(s)
           \/ \E s \in Reads : FileRead(s)
  BY <1>2, <1>3, StreamsAre, MessagesSent DEF FileWrite, FileRead
<1>4. ASSUME NEW s \in Streams, FilePushAgain(s) PROVE QueuesTyped'
  <2> DEFINE f == [files[s] EXCEPT !.pushes = @ - 1]
  <2>1. s \in Outputs
    BY <1>4, <1>a, StreamsAre DEF FilePushAgain, FileTyped
  <2>2. f.buffer \in Nat
    BY <1>a DEF FileRecords
  <2> HIDE DEF f
  <2>3. \/ UNCHANGED toClient
        \/ \E k \in 0 .. f.buffer : toClient' = toClient \o Pushed(f, s, k)
    BY <1>4 DEF FilePushAgain, f
  <2>4. 0 .. f.buffer \subseteq Nat /\ UNCHANGED toServer
    BY <2>2, <1>4 DEF FilePushAgain
  <2> QED BY <2>1, <2>3, <2>4, <1>b, <1>c, <1>d, <1>e
<1>5. ASSUME NEW s \in Streams, FileDone(s) PROVE QueuesTyped'
  <2>1. \/ UNCHANGED toClient
        \/ s \in Inputs /\ toClient' = Append(toClient, Message("read-cancel", s, FALSE))
    BY <1>5 DEF FileDone, CancelInput
  <2>2. UNCHANGED toServer
    BY <1>5 DEF FileDone
  <2> QED BY <2>1, <2>2, <1>b, <1>c, <1>d, MessagesSent
<1>6. ASSUME NEW s \in Streams, NEW e \in BOOLEAN, WriteReady(s, e) PROVE QueuesTyped'
  <2>1. FromClient(Message("write-ready", s, e))
    BY <1>6 DEF WriteReady
  <2>2. s \in Outputs
    BY <2>1, <1>a, ReadsMessage, MessagesToServer
  <2>3. \/ UNCHANGED toClient
        \/ \E k \in 0 .. files[s].buffer : toClient' = toClient \o Pushed(files[s], s, k)
    BY <1>6 DEF WriteReady
  <2>4. files[s].buffer \in Nat
    BY <1>a DEF FileRecords
  <2> QED BY <2>1, <2>2, <2>3, <2>4, <1>b, <1>c, <1>d, <1>e
<1>7. ASSUME NEW t, NEW s \in Streams, NEW e \in BOOLEAN, TransferDone(t, s, e) PROVE QueuesTyped'
  BY <1>7, <1>b, <1>c, <1>d DEF TransferDone
<1>8. ASSUME NEW s \in Streams, ReadData(s) PROVE QueuesTyped'
  <2>1. \/ UNCHANGED toClient
        \/ s \in Inputs /\ toClient' = Append(toClient, Message("read-cancel", s, FALSE))
    BY <1>8 DEF ReadData, CancelInput
  <2> QED BY <1>8, <2>1, <1>b, <1>c, <1>d, MessagesSent DEF ReadData
<1>9. CASE Exiting \/ Wakeup
  BY <1>9, <1>b, <1>c, <1>d, MessagesSent DEF Exiting, Wakeup
<1>10. CASE \/ \E control \in BOOLEAN : Attach(control)
            \/ CommandDone \/ Detach \/ Destroy \/ Suspend \/ Lock \/ Exec \/ KillPane
  BY <1>10, <1>b, <1>c, <1>d, MessagesSent DEF Attach, CommandDone, Detach, Destroy, Leave, Suspend,
     Lock, StopsTty, Exec, KillPane, ServerOnly
<1>11. CASE CheckExit \/ ExitTimer \/ ClientLost \/ Shutdown
  <2>1. Plain(exitType) \in ToClientMessages
    BY <1>a, MessagesSent
  <2> QED BY <2>1, <1>11, <1>b, <1>c, <1>d DEF CheckExit, ExitTimer, LetGo, ClientLost, Shutdown,
         Leave, ServerOnly
<1>12. ASSUME NEW s \in Streams, NEW read \in BOOLEAN, FileOpen(s, read) PROVE QueuesTyped'
  <2>1. \/ UNCHANGED toServer
        \/ ~read /\ Reply(Message("write-ready", s, FALSE))
        \/ Reply(Message(IF read THEN "read-done" ELSE "write-ready", s, TRUE))
    BY <1>12 DEF FileOpen
  <2>2. IF read THEN s \in Reads ELSE s \in Outputs
    BY <1>12, <1>a, ReadsMessage, MessagesToClient DEF FileOpen
  <2> QED BY <1>12, <2>1, <2>2, <1>b, <1>c, <1>d, MessagesSent DEF FileOpen
<1>13. ASSUME NEW s \in Streams, FileWriteData(s) PROVE QueuesTyped'
  BY <1>13, <1>b, <1>c, <1>d DEF FileWriteData, Ignored, Unknown
<1>14. ASSUME NEW s \in Streams, FileWriteClose(s) PROVE QueuesTyped'
  <2>1. s \in Writes
    BY <1>14, <1>a, ReadsMessage, MessagesToClient DEF FileWriteClose
  <2>2. open[s].error \in BOOLEAN
    BY <1>a DEF OpenRecords
  <2> QED BY <1>14, <2>1, <2>2, <1>b, <1>c, <1>d, MessagesSent DEF FileWriteClose, Finished,
         Ignored, Unknown
<1>15. ASSUME NEW s \in Streams, FileReadCancel(s) PROVE QueuesTyped'
  <2>1. s \in Reads
    BY <1>15, <1>a, ReadsMessage, MessagesToClient DEF FileReadCancel, Reads
  <2> QED BY <1>15, <2>1, <1>b, <1>c, <1>d, MessagesSent DEF FileReadCancel, ReadEnds, Ignored, Unknown
<1>16. ASSUME NEW type \in Tells, Told(type) PROVE QueuesTyped'
  BY <1>16, <1>b, <1>c, <1>d, MessagesSent DEF Told
<1>17. ASSUME NEW s \in Streams, Drain(s) \/ WriteError(s) PROVE QueuesTyped'
  <2>1. open[s].error \in BOOLEAN /\ (open[s].closed => s \in Writes)
    BY <1>a DEF OpenRecords, OpenTyped
  <2>2. \/ UNCHANGED toServer
        \/ s \in Writes /\ \E e \in BOOLEAN : Reply(Message("write-done", s, e))
    BY <1>17, <2>1 DEF Drain, WriteError, Finished
  <2>3. UNCHANGED toClient
    BY <1>17 DEF Drain, WriteError, ClientOnly
  <2> QED BY <2>2, <2>3, <1>b, <1>c, <1>d, MessagesSent
<1>18. ASSUME NEW s \in Streams, NEW e \in BOOLEAN, ReadSome(s) \/ ReadEnd(s, e) PROVE QueuesTyped'
  BY <1>18, <1>b, <1>c, <1>d, MessagesSent DEF ReadSome, ReadEnd, ReadEnds, ClientOnly, Reads
<1>19. CASE ServerLost \/ Signal \/ Continue
  BY <1>19, <1>b, <1>c, <1>d, MessagesSent DEF ServerLost, Signal, Continue, ClientOnly
<1>20. CASE Killed
  <2>1. \A k \in 0 .. Len(toServer) :
          SubSeq(toServer, 1, k) \in S /\ (toServer = <<>> => SubSeq(toServer, 1, k) = <<>>)
    BY <1>a DEF S
  <2>2. ToS
    BY <2>1, <1>20, <1>a DEF Killed, ToS
  <2> QED BY <2>2, <1>20, <1>b, <1>c DEF Killed, ClientOnly
<1> QED
  BY <1>1, <1>3, <1>4, <1>5, <1>6, <1>7, <1>8, <1>9, <1>10, <1>11, <1>12, <1>13, <1>14, <1>15,
     <1>16, <1>17, <1>18, <1>19, <1>20, StepsOfTwo DEF ServerStep, ClientStep

LEMMA TypedStep == Typed /\ [Next]_vars => Typed'
<1>1. CASE UNCHANGED vars
  <2>1. ASSUME UNCHANGED vars PROVE UNCHANGED <<flags, exitType, timer, tty, session, files, waiting,
             pane, toClient, toServer, client, open, given, moved, promised, result, failed, used>>
    BY <2>1 DEF vars, server, history
  <2> QED BY <1>1, <2>1 DEF Typed, ServerTyped, QueuesTyped, FilesTyped, OpensTyped, ClientTyped,
         HistoryTyped, Alive
<1>2. ASSUME Typed, Next PROVE Typed'
  BY <1>2, ServerTypedStep, QueuesTypedStep, FilesTypedStep, OpensTypedStep, ClientTypedStep,
     HistoryTypedStep DEF Typed
<1> QED BY <1>1, <1>2

LEMMA TypedInit == Init => Typed
<1> SUFFICES ASSUME Init PROVE Typed
  OBVIOUS
<1>1. ServerTyped
  BY DEF Init, ServerTyped
<1>2. QueuesTyped
  BY DEF Init, QueuesTyped, Alive
<1>3. FilesTyped
  BY NoFileTyped DEF Init, FilesTyped
<1>4. OpensTyped
  BY NoFileTyped DEF Init, OpensTyped
<1>5. ClientTyped
  BY DEF Init, ClientTyped, ClientRecords
<1>6. HistoryTyped
  BY DEF Init, HistoryTyped
<1> QED BY <1>1, <1>2, <1>3, <1>4, <1>5, <1>6 DEF Typed
-----------------------------------------------------------------------------
(* The owner of the terminal.                                              *)

(* The messages OwnerSound is about, and a queue that gets none of them.   *)
Owning == Plains({"ready", "detach", "exited", "suspend", "lock", "exiting", "wakeup"})
PlainKept(q, r) ==
  \A M \in SUBSET Owning : (Any(r, M) => Any(q, M)) /\ (Lone(q, M) => Lone(r, M))

LEMMA OwningIs ==
  /\ \A t : (Plain(t) \in Owning) <=>
       t \in {"ready", "detach", "exited", "suspend", "lock", "exiting", "wakeup"}
  /\ \A t, s, e : s # 0 => Message(t, s, e) \notin Owning
  /\ \A t, u : (Plain(t) = Plain(u)) <=> (t = u)
  /\ Stops \in SUBSET Owning /\ Wakes \in SUBSET Owning
<1>1. \A t : (Plain(t) \in Owning) <=>
        t \in {"ready", "detach", "exited", "suspend", "lock", "exiting", "wakeup"}
  BY DEF Owning, Plains, Plain, Message
<1>2. \A t, s, e : s # 0 => Message(t, s, e) \notin Owning
  BY DEF Owning, Plains, Message
<1>3. \A t, u : (Plain(t) = Plain(u)) <=> (t = u)
  BY DEF Message, Plain
<1>4. Stops \in SUBSET Owning /\ Wakes \in SUBSET Owning
  BY <1>1 DEF Stops, Wakes
<1> QED BY <1>1, <1>2, <1>3, <1>4

LEMMA PlainsAreKept ==
  ASSUME NEW S, NEW q \in Seq(S)
  PROVE  /\ PlainKept(q, q)
         /\ \A x \in S : x \notin Owning => PlainKept(q, Append(q, x))
         /\ q # <<>> => PlainKept(q, Tail(q))
         /\ \A k \in 0 .. Len(q) : PlainKept(q, SubSeq(q, 1, k))
         /\ \A r \in Seq(S) : (\A i \in DOMAIN r : r[i] \notin Owning) => PlainKept(q, q \o r)
<1>1. PlainKept(q, q)
  BY DEF PlainKept
<1>2. ASSUME NEW x \in S, x \notin Owning PROVE PlainKept(q, Append(q, x))
  BY <1>2, AnyAppend, LoneAppend DEF PlainKept
<1>3. ASSUME q # <<>> PROVE PlainKept(q, Tail(q))
  BY <1>3, AnyTail, LoneTail DEF PlainKept
<1>4. ASSUME NEW k \in 0 .. Len(q) PROVE PlainKept(q, SubSeq(q, 1, k))
  BY AnyPrefix, LonePrefix DEF PlainKept
<1>5. ASSUME NEW r \in Seq(S), \A i \in DOMAIN r : r[i] \notin Owning PROVE PlainKept(q, q \o r)
  <2>1. \A M \in SUBSET Owning : ~Any(r, M)
    BY <1>5 DEF Any
  <2> QED BY <2>1, AnyConcat, LoneConcat DEF PlainKept
<1> QED BY <1>1, <1>2, <1>3, <1>4, <1>5

(* A step that leaves the owner as it was.                                 *)
LEMMA OwnerFrame ==
  ASSUME OwnerSound,
         session' = session, exitType' = exitType, tty' = tty,
         "attached" \in flags => "attached" \in flags',
         "suspended" \in flags' <=> "suspended" \in flags, Alive' <=> Alive,
         client'.attached <=> client.attached, Stopped' => Stopped,
         client'.why = "exited" => client.why = "exited",
         PlainKept(toClient, toClient'), PlainKept(toServer, toServer')
  PROVE  OwnerSound'
<1>1. /\ \A t \in {"ready", "detach", "exited"} :
           Within(toClient', Plain(t)) => Within(toClient, Plain(t))
      /\ Any(toClient', Stops) => Any(toClient, Stops)
      /\ Lone(toClient, Stops) => Lone(toClient', Stops)
  BY OwningIs DEF PlainKept, Within
<1>2. /\ Within(toServer', Plain("exiting")) => Within(toServer, Plain("exiting"))
      /\ Any(toServer', Wakes) => Any(toServer, Wakes)
      /\ Lone(toServer, Wakes) => Lone(toServer', Wakes)
  BY OwningIs DEF PlainKept, Within
<1> QED BY <1>1, <1>2 DEF OwnerSound

(* The steps that do not concern the owner: those on files, and a few.     *)
LEMMA OwnerKeptByServer ==
  ASSUME Typed, OwnerSound,
         \/ FilePrint
         \/ \E s \in Writes : FileWrite(s)
         \/ \E s \in Reads : FileRead(s)
         \/ \E s \in Streams : FilePushAgain(s) \/ FileDone(s) \/ ReadData(s)
         \/ \E s \in Streams, e \in BOOLEAN :
              \/ WriteReady(s, e)
              \/ TransferDone("write-done", s, e) \/ TransferDone("read-done", s, e)
         \/ CommandDone \/ Exec \/ KillPane
  PROVE  OwnerSound'
<1> DEFINE C == ToClientMessages
           S == ToServerMessages
           More == {"exit", "done"}
<1>a. /\ toClient \in Seq(C) /\ toServer \in Seq(S) /\ QueuesTyped
      /\ \A s \in Streams : FileTyped(s, files[s]) /\ files[s] \in FileRecords
      /\ \A s \in Streams : s # 0
  BY StreamsAre DEF Typed, QueuesTyped, FilesTyped
<1>b. /\ UNCHANGED toClient => PlainKept(toClient, toClient')
      /\ UNCHANGED toServer => PlainKept(toServer, toServer')
      /\ \A m : FromClient(m) => PlainKept(toServer, toServer')
  BY <1>a, PlainsAreKept DEF FromClient
<1>c. \A x \in C : x \notin Owning /\ toClient' = Append(toClient, x) => PlainKept(toClient, toClient')
  BY <1>a, PlainsAreKept
<1>d. ASSUME NEW s \in Outputs, NEW f, f.buffer \in Nat, NEW k \in 0 .. f.buffer,
             toClient' = toClient \o Pushed(f, s, k)
      PROVE  PlainKept(toClient, toClient')
  <2>1. k \in Nat
    BY <1>d
  <2>2. /\ Pushed(f, s, k) \in Seq(C)
        /\ \A i \in DOMAIN Pushed(f, s, k) : Pushed(f, s, k)[i] \in {Data(s), Close(s)}
    BY <2>1, <1>a, PushedIs
  <2>3. Data(s) \notin Owning /\ Close(s) \notin Owning
    BY <1>a, StreamsAre, OwningIs DEF Data, Close
  <2> QED BY <2>2, <2>3, <1>a, <1>d, PlainsAreKept
<1>e. ASSUME NEW s \in Streams, NEW t, Message(t, s, FALSE) \in C,
             UNCHANGED toClient \/ toClient' = Append(toClient, Message(t, s, FALSE))
      PROVE  PlainKept(toClient, toClient')
  BY <1>a, <1>b, <1>c, <1>e, OwningIs
<1> HIDE DEF C, S
<1>0. ASSUME UNCHANGED <<session, exitType, tty, client>>,
             flags' = flags \/ \E F \in SUBSET More : flags' = flags \cup F,
             PlainKept(toClient, toClient'), PlainKept(toServer, toServer')
      PROVE  OwnerSound'
  <2>1. /\ "attached" \in flags => "attached" \in flags'
        /\ "suspended" \in flags' <=> "suspended" \in flags
        /\ Alive' <=> Alive
    BY <1>0 DEF Alive
  <2>2. Stopped' => Stopped
    BY <1>0 DEF Stopped
  <2> QED BY <1>0, <2>1, <2>2, OwnerFrame
<1>1. CASE FilePrint
  <2> DEFINE more == [files[Stdout] EXCEPT !.buffer = @ + 1]
  <2>1. more.buffer \in Nat
    BY <1>a, StreamsAre DEF FileRecords
  <2> HIDE DEF more
  <2>2. \/ toClient' = Append(toClient, Message("write-open", Stdout, FALSE))
        \/ UNCHANGED toClient
        \/ \E k \in 0 .. more.buffer : toClient' = toClient \o Pushed(more, Stdout, k)
    BY <1>1 DEF FilePrint, more
  <2>3. Stdout \in Outputs /\ Stdout \in Streams /\ Message("write-open", Stdout, FALSE) \in C
    BY StreamsAre, MessagesSent DEF C
  <2>4. PlainKept(toClient, toClient')
    BY <2>1, <2>2, <2>3, <1>d, <1>e
  <2> QED BY <2>4, <1>1, <1>0, <1>b DEF FilePrint, Quiet
<1>2. ASSUME NEW s \in Streams, NEW t, NEW f, Opens(s, t, f), Message(t, s, FALSE) \in C
      PROVE  OwnerSound'
  <2>1. PlainKept(toClient, toClient')
    BY <1>2, <1>e DEF Opens
  <2> QED BY <2>1, <1>2, <1>0, <1>b DEF Opens, Quiet
<1>3. CASE \/ \E s \in Writes : FileWrite(s)
           \/ \E s \in Reads : FileRead(s)
  BY <1>2, <1>3, StreamsAre, MessagesSent DEF FileWrite, FileRead, C
<1>4. ASSUME NEW s \in Streams, FilePushAgain(s) PROVE OwnerSound'
  <2> DEFINE f == [files[s] EXCEPT !.pushes = @ - 1]
  <2>1. s \in Outputs
    BY <1>4, <1>a, StreamsAre DEF FilePushAgain, FileTyped
  <2>2. f.buffer \in Nat
    BY <1>a DEF FileRecords
  <2> HIDE DEF f
  <2>3. \/ UNCHANGED toClient
        \/ \E k \in 0 .. f.buffer : toClient' = toClient \o Pushed(f, s, k)
    BY <1>4 DEF FilePushAgain, f
  <2>4. PlainKept(toClient, toClient')
    BY <2>1, <2>2, <2>3, <1>b, <1>d
  <2> QED BY <2>4, <1>4, <1>0, <1>b DEF FilePushAgain, Quiet
<1>5. ASSUME NEW s \in Streams, FileDone(s) PROVE OwnerSound'
  <2>1. \/ UNCHANGED toClient
        \/ s \in Inputs /\ toClient' = Append(toClient, Message("read-cancel", s, FALSE))
    BY <1>5 DEF FileDone, CancelInput
  <2>2. PlainKept(toClient, toClient')
    BY <2>1, <1>b, <1>e, MessagesSent DEF C
  <2>3. flags' = flags \/ flags' = flags \cup {"exit"}
    BY <1>5 DEF FileDone, CancelInput
  <2>4. UNCHANGED <<session, exitType, tty, client, toServer>>
    BY <1>5 DEF FileDone, Quiet
  <2>5. {"exit"} \in SUBSET More
    OBVIOUS
  <2> QED BY <2>2, <2>3, <2>4, <2>5, <1>0, <1>b
<1>6. ASSUME NEW s \in Streams, ReadData(s) PROVE OwnerSound'
  <2>1. \/ UNCHANGED toClient
        \/ s \in Inputs /\ toClient' = Append(toClient, Message("read-cancel", s, FALSE))
    BY <1>6 DEF ReadData, CancelInput
  <2>2. PlainKept(toClient, toClient')
    BY <2>1, <1>b, <1>e, MessagesSent DEF C
  <2>3. flags' = flags \/ flags' = flags \cup {"exit"}
    BY <1>6 DEF ReadData, CancelInput
  <2>4. UNCHANGED <<session, exitType, tty, client>> /\ PlainKept(toServer, toServer')
    BY <1>6, <1>b DEF ReadData, FromClient, Quiet
  <2>5. {"exit"} \in SUBSET More
    OBVIOUS
  <2> QED BY <2>2, <2>3, <2>4, <2>5, <1>0
<1>7. ASSUME NEW s \in Streams, NEW e \in BOOLEAN, WriteReady(s, e) PROVE OwnerSound'
  <2>1. s \in Outputs
    BY <1>7, <1>a, ReadsMessage, MessagesToServer DEF WriteReady
  <2>2. \/ UNCHANGED toClient
        \/ \E k \in 0 .. files[s].buffer : toClient' = toClient \o Pushed(files[s], s, k)
    BY <1>7 DEF WriteReady
  <2>3. files[s].buffer \in Nat
    BY <1>a DEF FileRecords
  <2>4. PlainKept(toClient, toClient')
    BY <2>1, <2>2, <2>3, <1>b, <1>d
  <2> QED BY <2>4, <1>7, <1>0, <1>b DEF WriteReady, FromClient, Quiet
<1>8. ASSUME NEW t, NEW s \in Streams, NEW e \in BOOLEAN, TransferDone(t, s, e) PROVE OwnerSound'
  BY <1>8, <1>0, <1>b DEF TransferDone, FromClient, Quiet
<1>9. CASE CommandDone
  <2>1. flags' = flags \cup {"done"} \/ flags' = flags \cup {"done", "exit"}
    BY <1>9 DEF CommandDone
  <2>2. {"done"} \in SUBSET More /\ {"done", "exit"} \in SUBSET More
    OBVIOUS
  <2> QED BY <2>1, <2>2, <1>9, <1>0, <1>b DEF CommandDone, ServerOnly, Quiet
<1>10. CASE Exec
  <2>1. Plain("exec") \in C /\ Plain("exec") \notin Owning
    BY MessagesSent, OwningIs DEF C
  <2> QED BY <2>1, <1>10, <1>0, <1>b, <1>c DEF Exec, ServerOnly, Quiet
<1>11. CASE KillPane
  BY <1>11, <1>0, <1>b DEF KillPane, ServerOnly, Quiet
<1> QED BY <1>1, <1>3, <1>4, <1>5, <1>6, <1>7, <1>8, <1>9, <1>10, <1>11

LEMMA OwnerKeptByClient ==
  ASSUME Typed, OwnerSound,
         \/ \E s \in Streams, read \in BOOLEAN : FileOpen(s, read)
         \/ \E s \in Streams :
              \/ FileWriteData(s) \/ FileWriteClose(s) \/ FileReadCancel(s)
              \/ Drain(s) \/ WriteError(s) \/ ReadSome(s)
         \/ \E s \in Streams, e \in BOOLEAN : ReadEnd(s, e)
         \/ ServerLost \/ Killed
  PROVE  OwnerSound'
<1>a. /\ toClient \in Seq(ToClientMessages) /\ toServer \in Seq(ToServerMessages) /\ QueuesTyped
      /\ \A s \in Streams : OpenTyped(s, open[s]) /\ open[s] \in OpenRecords /\ s # 0
      /\ client \in ClientRecords
  BY StreamsAre DEF Typed, QueuesTyped, OpensTyped, ClientTyped
<1>b. /\ UNCHANGED toClient => PlainKept(toClient, toClient')
      /\ UNCHANGED toServer => PlainKept(toServer, toServer')
      /\ \A m : ToClient(m) => PlainKept(toClient, toClient')
  BY <1>a, PlainsAreKept DEF ToClient
<1>c. \A m \in ToServerMessages : m \notin Owning /\ Reply(m) => PlainKept(toServer, toServer')
  BY <1>a, PlainsAreKept DEF Reply
<1> DEFINE SameClient == /\ client'.attached <=> client.attached
                         /\ Stopped' => Stopped
                         /\ client'.why = "exited" => client.why = "exited"
<1>d. /\ UNCHANGED client => SameClient
      /\ \A why : why # "exited" /\ client' = Gone(why) => SameClient
  BY <1>a DEF Stopped, Gone, ClientRecords
<1>e. \A o : FileCheck(o, client) => SameClient
  <2>1. \A o : FileCheck(o, client) => client' = client \/ client' = Gone("exit")
    BY DEF FileCheck, Gone
  <2> QED BY <2>1, <1>d
<1>0. ASSUME SameClient, UNCHANGED server,
             PlainKept(toClient, toClient'), PlainKept(toServer, toServer')
      PROVE  OwnerSound'
  BY <1>0, OwnerFrame DEF server, Alive
<1> HIDE DEF SameClient
<1>f. ASSUME NEW s \in Streams, NEW t, NEW e, Message(t, s, e) \in ToServerMessages,
             UNCHANGED toServer \/ Reply(Message(t, s, e))
      PROVE  PlainKept(toServer, toServer')
  BY <1>f, <1>a, <1>b, <1>c, OwningIs
<1>g. ClientStep => UNCHANGED server
  BY ClientStepLeaves
<1>1. ASSUME NEW s \in Streams, NEW read \in BOOLEAN, FileOpen(s, read) PROVE OwnerSound'
  <2>1. \/ UNCHANGED toServer
        \/ ~read /\ Reply(Message("write-ready", s, FALSE))
        \/ Reply(Message(IF read THEN "read-done" ELSE "write-ready", s, TRUE))
    BY <1>1 DEF FileOpen
  <2>2. IF read THEN s \in Reads ELSE s \in Outputs
    BY <1>1, <1>a, ReadsMessage, MessagesToClient DEF FileOpen
  <2>3. PlainKept(toServer, toServer')
    BY <2>1, <2>2, <1>f, <1>b, MessagesSent
  <2>4. PlainKept(toClient, toClient') /\ UNCHANGED client /\ UNCHANGED server
    BY <1>1, <1>b DEF FileOpen, ToClient
  <2> QED BY <2>3, <2>4, <1>0, <1>d
<1>2. ASSUME NEW s \in Streams, FileWriteData(s) PROVE OwnerSound'
  <2>1. UNCHANGED toServer /\ UNCHANGED server /\ PlainKept(toClient, toClient')
    BY <1>2, <1>b DEF FileWriteData, Ignored, Unknown, ToClient
  <2>2. SameClient
    BY <1>2, <1>d DEF FileWriteData, Ignored, Unknown
  <2> QED BY <2>1, <2>2, <1>0, <1>b
<1>3. ASSUME NEW s \in Streams, FileWriteClose(s) PROVE OwnerSound'
  <2>1. s \in Writes
    BY <1>3, <1>a, ReadsMessage, MessagesToClient DEF FileWriteClose
  <2>2. Message("write-done", s, open[s].error) \in ToServerMessages
    BY <2>1, <1>a, MessagesSent DEF OpenRecords
  <2>3. UNCHANGED toServer \/ Reply(Message("write-done", s, open[s].error))
    BY <1>3 DEF FileWriteClose, Finished, Ignored, Unknown
  <2>4. PlainKept(toServer, toServer')
    BY <2>2, <2>3, <1>f
  <2>5. SameClient
    BY <1>3, <1>d, <1>e DEF FileWriteClose, Finished, Ignored, Unknown
  <2>6. UNCHANGED server /\ PlainKept(toClient, toClient')
    BY <1>3, <1>b DEF FileWriteClose, ToClient
  <2> QED BY <2>4, <2>5, <2>6, <1>0
<1>4. ASSUME NEW s \in Streams, FileReadCancel(s) PROVE OwnerSound'
  <2>1. s \in Reads
    BY <1>4, <1>a, ReadsMessage, MessagesToClient DEF FileReadCancel, Reads
  <2>2. UNCHANGED toServer \/ Reply(Message("read-done", s, FALSE))
    BY <1>4 DEF FileReadCancel, ReadEnds, Ignored, Unknown
  <2>3. PlainKept(toServer, toServer')
    BY <2>1, <2>2, <1>f, MessagesSent
  <2>4. SameClient
    BY <1>4, <1>d DEF FileReadCancel, ReadEnds, Ignored, Unknown
  <2>5. UNCHANGED server /\ PlainKept(toClient, toClient')
    BY <1>4, <1>b DEF FileReadCancel, ToClient
  <2> QED BY <2>3, <2>4, <2>5, <1>0
<1>5. ASSUME NEW s \in Streams, Drain(s) \/ WriteError(s) PROVE OwnerSound'
  <2>1. open[s].error \in BOOLEAN /\ (open[s].closed => s \in Writes)
    BY <1>a DEF OpenRecords, OpenTyped
  <2>2. \/ UNCHANGED toServer
        \/ s \in Writes /\ \E e \in BOOLEAN : Reply(Message("write-done", s, e))
    BY <1>5, <2>1 DEF Drain, WriteError, Finished
  <2>3. PlainKept(toServer, toServer')
    BY <2>2, <1>b, <1>f, MessagesSent
  <2>4. SameClient
    BY <1>5, <1>d, <1>e DEF Drain, WriteError, Finished
  <2>5. UNCHANGED server /\ UNCHANGED toClient
    BY <1>5 DEF Drain, WriteError, ClientOnly
  <2> QED BY <2>3, <2>4, <2>5, <1>0, <1>b
<1>6. ASSUME NEW s \in Streams, NEW e \in BOOLEAN, ReadSome(s) \/ ReadEnd(s, e) PROVE OwnerSound'
  <2>1. s \in Reads /\ (Reply(Message("read", s, FALSE)) \/ Reply(Message("read-done", s, e)))
    BY <1>6 DEF ReadSome, ReadEnd, ReadEnds, Reads
  <2>2. PlainKept(toServer, toServer')
    BY <2>1, <1>f, MessagesSent
  <2>3. UNCHANGED server /\ UNCHANGED toClient /\ UNCHANGED client
    BY <1>6 DEF ReadSome, ReadEnd, ReadEnds, ClientOnly
  <2> QED BY <2>2, <2>3, <1>0, <1>b, <1>d
<1>7. CASE ServerLost
  BY <1>7, <1>0, <1>b, <1>d DEF ServerLost
<1>8. CASE Killed
  <2>1. PlainKept(toServer, toServer')
    BY <1>8, <1>a, PlainsAreKept DEF Killed
  <2> QED BY <2>1, <1>8, <1>0, <1>b, <1>d DEF Killed, ClientOnly
<1> QED BY <1>1, <1>2, <1>3, <1>4, <1>5, <1>6, <1>7, <1>8

(* What a queue has of them when a message of the client's state is sent   *)
(* or read.                                                                *)
Suspending == {"suspend", "lock"}
LEMMA PlainSent ==
  ASSUME NEW S, NEW q \in Seq(S), NEW t, Plain(t) \in S, NEW r, r = Append(q, Plain(t))
  PROVE  /\ \A u : Within(r, Plain(u)) <=> Within(q, Plain(u)) \/ u = t
         /\ Any(r, Stops) <=> Any(q, Stops) \/ t \in Suspending
         /\ Any(r, Wakes) <=> Any(q, Wakes) \/ t = "wakeup"
         /\ Lone(q, Stops) /\ (t \in Suspending => ~Any(q, Stops)) => Lone(r, Stops)
         /\ Lone(q, Wakes) /\ (t = "wakeup" => ~Any(q, Wakes)) => Lone(r, Wakes)
<1>1. /\ Plain(t) \in Stops <=> t \in Suspending
      /\ Plain(t) \in Wakes <=> t = "wakeup"
      /\ \A u : Plain(t) \in {Plain(u)} <=> u = t
  BY OwningIs DEF Stops, Wakes, Suspending
<1>2. \A u : Within(r, Plain(u)) <=> Within(q, Plain(u)) \/ u = t
  <2> TAKE u
  <2>1. Any(r, {Plain(u)}) <=> Any(q, {Plain(u)}) \/ Plain(t) \in {Plain(u)}
    BY AnyAppend
  <2> QED BY <2>1, <1>1 DEF Within
<1>3. /\ Any(r, Stops) <=> Any(q, Stops) \/ t \in Suspending
      /\ Any(r, Wakes) <=> Any(q, Wakes) \/ t = "wakeup"
  BY <1>1, AnyAppend
<1>4. /\ Lone(q, Stops) /\ (t \in Suspending => ~Any(q, Stops)) => Lone(r, Stops)
      /\ Lone(q, Wakes) /\ (t = "wakeup" => ~Any(q, Wakes)) => Lone(r, Wakes)
  BY <1>1, LoneAppend
<1> QED BY <1>2, <1>3, <1>4

LEMMA PlainRead ==
  ASSUME NEW S, NEW q \in Seq(S), q # <<>>, NEW t, Head(q) = Plain(t), NEW r, r = Tail(q)
  PROVE  /\ \A u : Within(q, Plain(u)) <=> Within(r, Plain(u)) \/ u = t
         /\ Any(q, Stops) <=> Any(r, Stops) \/ t \in Suspending
         /\ Any(q, Wakes) <=> Any(r, Wakes) \/ t = "wakeup"
         /\ Lone(q, Stops) => Lone(r, Stops) /\ (t \in Suspending => ~Any(r, Stops))
         /\ Lone(q, Wakes) => Lone(r, Wakes) /\ (t = "wakeup" => ~Any(r, Wakes))
<1>1. /\ Plain(t) \in Stops <=> t \in Suspending
      /\ Plain(t) \in Wakes <=> t = "wakeup"
      /\ \A u : Plain(t) \in {Plain(u)} <=> u = t
  BY OwningIs DEF Stops, Wakes, Suspending
<1>2. \A u : Within(q, Plain(u)) <=> Within(r, Plain(u)) \/ u = t
  BY <1>1, AnyTail DEF Within
<1>3. /\ Any(q, Stops) <=> Any(r, Stops) \/ t \in Suspending
      /\ Any(q, Wakes) <=> Any(r, Wakes) \/ t = "wakeup"
  <2>1. ASSUME NEW M PROVE Any(q, M) <=> Any(r, M) \/ Plain(t) \in M
    BY AnyTail
  <2> QED BY <2>1, <1>1
<1>4. /\ Lone(q, Stops) => Lone(r, Stops) /\ (t \in Suspending => ~Any(r, Stops))
      /\ Lone(q, Wakes) => Lone(r, Wakes) /\ (t = "wakeup" => ~Any(r, Wakes))
  BY <1>1, LoneTail
<1> QED BY <1>2, <1>3, <1>4

(* A stop is sent only while none is under way or in force, and one that   *)
(* the client says it has left ends it.                                    *)
LEMMA OwnerStep ==
  ASSUME Typed, OwnerSound, Next
  PROVE  OwnerSound'
<1>a. /\ toClient \in Seq(ToClientMessages) /\ toServer \in Seq(ToServerMessages)
      /\ client \in ClientRecords /\ exitType \in {"return", "shutdown", "detach"}
      /\ \A t \in Tells : Plain(t) \in ToClientMessages
      /\ Plain("exiting") \in ToServerMessages /\ Plain("wakeup") \in ToServerMessages
      /\ session \in BOOLEAN
  BY MessagesSent DEF Typed, QueuesTyped, ClientTyped, ServerTyped, Tells
<1>b. ASSUME UNCHANGED <<client, toServer>>, Alive' <=> Alive PROVE Stopped' <=> Stopped
  BY <1>b DEF Stopped
<1>c. ASSUME Lost PROVE OwnerSound'
  <2>1. PlainKept(toClient, toClient')
    BY <1>a, <1>c, PlainsAreKept DEF Lost
  <2>2. /\ \A t \in {"ready", "detach", "exited"} :
             Within(toClient', Plain(t)) => Within(toClient, Plain(t))
        /\ Any(toClient', Stops) => Any(toClient, Stops)
        /\ Lone(toClient, Stops) => Lone(toClient', Stops)
    BY <2>1, OwningIs DEF PlainKept, Within
  <2>3. ~Any(toServer', Wakes) /\ Lone(toServer', Wakes) /\ ~Within(toServer', Plain("exiting"))
    BY <1>c DEF Lost, Any, Lone, Within
  <2>4. /\ "attached" \in flags' <=> "attached" \in flags
        /\ "suspended" \in flags' <=> "suspended" \in flags
        /\ ~session' /\ tty' = "closed" /\ UNCHANGED <<client, exitType>> /\ (Stopped' <=> Stopped)
    BY <1>c DEF Lost, Quiet, Stopped
  <2> QED BY <2>2, <2>3, <2>4 DEF OwnerSound
<1>d. ASSUME NEW force, LetGo(force), UNCHANGED <<exitType, tty, session, toServer, client>>
      PROVE  OwnerSound'
  <2>1. Plain(exitType) \in ToClientMessages /\ exitType \notin Suspending
        /\ toClient' = Append(toClient, Plain(exitType))
    BY <1>a, <1>d DEF LetGo, Tells, Suspending
  <2>2. /\ \A u : Within(toClient', Plain(u)) <=> Within(toClient, Plain(u)) \/ u = exitType
        /\ Any(toClient', Stops) <=> Any(toClient, Stops)
        /\ Lone(toClient, Stops) => Lone(toClient', Stops)
    BY <2>1, <1>a, PlainSent
  <2>3. /\ "attached" \in flags' <=> "attached" \in flags
        /\ "suspended" \in flags' <=> "suspended" \in flags
        /\ Alive' <=> Alive
    BY <1>d DEF LetGo, Alive
  <2>4. Stopped' <=> Stopped
    BY <1>d DEF Stopped
  <2> QED BY <2>2, <2>3, <2>4, <1>a, <1>d DEF OwnerSound
<1>e. ASSUME NEW f, flags' = flags \cup {f}, f \notin {"attached", "suspended", "dead"},
             session' = session \/ ~session', tty' = tty,
             exitType' = exitType \/ "attached" \in flags \/ exitType' # "detach",
             UNCHANGED <<toClient, toServer, client>>
      PROVE  OwnerSound'
  <2>1. /\ "attached" \in flags' <=> "attached" \in flags
        /\ "suspended" \in flags' <=> "suspended" \in flags
        /\ Alive' <=> Alive
    BY <1>e DEF Alive
  <2>2. Stopped' <=> Stopped
    BY <1>e DEF Stopped
  <2> QED BY <2>1, <2>2, <1>e DEF OwnerSound
<1>f. ASSUME NEW t \in Suspending, session, "suspended" \notin flags, StopsTty(t) PROVE OwnerSound'
  <2>1. /\ Plain(t) \in ToClientMessages
        /\ toClient' = Append(toClient, Plain(t))
    BY <1>a, <1>f DEF StopsTty, Tells, Suspending
  <2>2. /\ \A u : Within(toClient', Plain(u)) <=> Within(toClient, Plain(u)) \/ u = t
        /\ ~Any(toClient, Stops) /\ Lone(toClient, Stops) => Lone(toClient', Stops)
    BY <2>1, <1>a, PlainSent
  <2>3. /\ "attached" \in flags' <=> "attached" \in flags
        /\ "suspended" \in flags'
        /\ Alive' <=> Alive
    BY <1>f DEF StopsTty, Alive
  <2>4. /\ UNCHANGED <<session, exitType, client, toServer>> /\ (Stopped' <=> Stopped)
        /\ tty' = IF tty = "open" THEN "stopped" ELSE tty
    BY <1>f DEF StopsTty, ServerOnly, Quiet, Stopped
  <2> QED BY <2>2, <2>3, <2>4, <1>f DEF OwnerSound, Suspending
<1>1. CASE Exiting
  <2>1. /\ toServer # <<>> /\ Head(toServer) = Plain("exiting") /\ toServer' = Tail(toServer)
        /\ toClient' = Append(toClient, Plain("exited"))
        /\ ~session' /\ tty' = "closed" /\ UNCHANGED <<flags, exitType, client>>
    BY <1>1 DEF Exiting, FromClient, Quiet
  <2>2. /\ \A u : Within(toClient', Plain(u)) <=> Within(toClient, Plain(u)) \/ u = "exited"
        /\ Any(toClient', Stops) <=> Any(toClient, Stops)
        /\ Lone(toClient, Stops) => Lone(toClient', Stops)
    <3>1. "exited" \in Tells /\ "exited" \notin Suspending
      BY DEF Tells, Suspending
    <3>2. Plain("exited") \in ToClientMessages
      BY <3>1, <1>a
    <3> QED BY <3>1, <3>2, <2>1, <1>a, PlainSent
  <2>3. /\ \A u : Within(toServer, Plain(u)) <=> Within(toServer', Plain(u)) \/ u = "exiting"
        /\ Any(toServer, Wakes) <=> Any(toServer', Wakes)
        /\ Lone(toServer, Wakes) => Lone(toServer', Wakes)
    <3>1. "exiting" # "wakeup"
      OBVIOUS
    <3> QED BY <3>1, <2>1, <1>a, PlainRead
  <2>4. (Alive' <=> Alive) /\ (Stopped' <=> Stopped)
    BY <2>1 DEF Alive, Stopped
  <2> QED BY <2>1, <2>2, <2>3, <2>4 DEF OwnerSound
<1>2. CASE Wakeup
  <2>1. /\ toServer # <<>> /\ Head(toServer) = Plain("wakeup") /\ toServer' = Tail(toServer)
        /\ tty' = IF "suspended" \in flags /\ session THEN "open" ELSE tty
        /\ UNCHANGED <<session, exitType, client, toClient>>
    BY <1>2 DEF Wakeup, FromClient, Quiet
  <2>2. /\ \A u : Within(toServer, Plain(u)) <=> Within(toServer', Plain(u)) \/ u = "wakeup"
        /\ Any(toServer, Wakes)
        /\ Lone(toServer, Wakes) => Lone(toServer', Wakes) /\ ~Any(toServer', Wakes)
    BY <2>1, <1>a, PlainRead
  <2>3. /\ "attached" \in flags' <=> "attached" \in flags
        /\ "suspended" \notin flags'
        /\ Alive' <=> Alive
    BY <1>2 DEF Wakeup, Alive
  <2>4. Stopped' <=> Stopped
    BY <2>1 DEF Stopped
  <2> QED BY <2>1, <2>2, <2>3, <2>4 DEF OwnerSound
<1>3. ASSUME NEW control \in BOOLEAN, Attach(control) PROVE OwnerSound'
  <2>1. /\ "attached" \notin flags /\ "attached" \in flags'
        /\ "suspended" \in flags' <=> "suspended" \in flags
        /\ (Alive' <=> Alive) /\ Alive
    BY <1>3 DEF Attach, Alive
  <2>2. toClient' = toClient \/ toClient' = Append(toClient, Plain("ready"))
    BY <1>3 DEF Attach
  <2>3. /\ \A u : u # "ready" => (Within(toClient', Plain(u)) <=> Within(toClient, Plain(u)))
        /\ Any(toClient', Stops) <=> Any(toClient, Stops)
        /\ Lone(toClient, Stops) => Lone(toClient', Stops)
    BY <2>2, <1>a, PlainSent DEF Tells, Suspending
  <2>4. UNCHANGED <<toServer, client>> /\ (Stopped' <=> Stopped)
    BY <1>3 DEF Attach, ServerOnly, Quiet, Stopped
  <2> QED BY <2>1, <2>3, <2>4 DEF OwnerSound
<1>4. CASE CheckExit
  <2>1. CASE Holds
    <3>1. UNCHANGED <<flags, exitType, tty, session, toServer, toClient, client>>
      BY <2>1, <1>4 DEF CheckExit, Quiet
    <3> QED BY <3>1 DEF OwnerSound, Stopped, Alive
  <2>2. CASE ~Holds
    BY <2>2, <1>4, <1>d DEF CheckExit, Quiet
  <2> QED BY <2>1, <2>2
<1>5. CASE ExitTimer
  <2>1. CASE UNCHANGED <<flags, exitType, tty, session, toServer, toClient, client>>
    BY <2>1 DEF OwnerSound, Stopped, Alive
  <2> QED BY <2>1, <1>5, <1>c, <1>d DEF ExitTimer, Quiet
<1>6. CASE ClientLost
  BY <1>6, <1>c DEF ClientLost
<1>7. CASE Detach
  BY <1>7, <1>e DEF Detach, Leave, ServerOnly, Quiet, OwnerSound
<1>8. CASE Destroy
  BY <1>8, <1>e DEF Destroy, Leave, ServerOnly, Quiet
<1>9. CASE Shutdown
  BY <1>9, <1>c, <1>e DEF Shutdown, Leave, ServerOnly, Quiet
<1>10. CASE Suspend \/ Lock
  BY <1>10, <1>f DEF Suspend, Lock, Suspending
<1>11. ASSUME NEW type \in Tells, Told(type) PROVE OwnerSound'
  <2>1. /\ toClient # <<>> /\ Head(toClient) = Plain(type) /\ toClient' = Tail(toClient)
        /\ UNCHANGED server /\ client.run = "running"
    BY <1>11 DEF Told, ToClient, Running
  <2>2. /\ \A u : Within(toClient, Plain(u)) <=> Within(toClient', Plain(u)) \/ u = type
        /\ Any(toClient, Stops) <=> Any(toClient', Stops) \/ type \in Suspending
        /\ Lone(toClient, Stops) =>
             Lone(toClient', Stops) /\ (type \in Suspending => ~Any(toClient', Stops))
    <3>1. /\ toClient \in Seq(ToClientMessages) /\ toClient # <<>>
          /\ Head(toClient) = Plain(type) /\ toClient' = Tail(toClient)
      BY <2>1, <1>a
    <3> QED BY <3>1, PlainRead
  <2>3. UNCHANGED <<flags, exitType, tty, session>> /\ (Alive' <=> Alive) /\ ~Stopped
    BY <2>1 DEF server, Alive, Stopped
  <2>4. CASE /\ FileCheck(open, [client EXCEPT !.exitflag = TRUE]) /\ UNCHANGED toServer
    <3>1. /\ client'.attached <=> client.attached
          /\ client'.run = client.run \/ client'.run = "gone"
          /\ client'.why = client.why \/ client'.why = "exit"
      BY <2>4, <1>a DEF FileCheck, ClientRecords
    <3>2. ~Stopped'
      BY <3>1, <2>1 DEF Stopped
    <3> QED BY <3>1, <3>2, <2>2, <2>3, <2>4 DEF OwnerSound
  <2>5. CASE /\ type = "detach" \/ client.attached
             /\ Reply(Plain("exiting")) /\ UNCHANGED client
    <3>1. /\ \A u : u # "exiting" => (Within(toServer', Plain(u)) <=> Within(toServer, Plain(u)))
          /\ Any(toServer', Wakes) <=> Any(toServer, Wakes)
          /\ Lone(toServer, Wakes) => Lone(toServer', Wakes)
      <4>1. toServer' = toServer \/ toServer' = Append(toServer, Plain("exiting"))
        BY <2>5 DEF Reply
      <4>2. CASE toServer' = Append(toServer, Plain("exiting"))
        <5>1. "exiting" # "wakeup"
          OBVIOUS
        <5>2. /\ \A u : Within(toServer', Plain(u)) <=> Within(toServer, Plain(u)) \/ u = "exiting"
              /\ Any(toServer', Wakes) <=> Any(toServer, Wakes) \/ "exiting" = "wakeup"
              /\ Lone(toServer, Wakes) /\ ("exiting" = "wakeup" => ~Any(toServer, Wakes))
                   => Lone(toServer', Wakes)
          BY <4>2, <1>a, PlainSent
        <5> QED BY <5>1, <5>2
      <4> QED BY <4>1, <4>2
    <3>2. "attached" \in flags
      BY <2>2, <2>5 DEF OwnerSound
    <3>3. Stopped' <=> Stopped
      BY <2>5 DEF Stopped
    <3> QED BY <3>1, <3>2, <3>3, <2>2, <2>3, <2>5 DEF OwnerSound
  <2>6. CASE /\ type = "exited" /\ client' = Gone("exited") /\ UNCHANGED toServer
    <3>1. (client'.attached <=> client.attached) /\ ~Stopped'
      BY <2>6, <1>a DEF Gone, ClientRecords, Stopped
    <3> QED BY <3>1, <2>2, <2>3, <2>6 DEF OwnerSound
  <2>7. CASE /\ type = "ready" /\ client' = [client EXCEPT !.attached = TRUE] /\ UNCHANGED toServer
    <3>1. client'.attached /\ client'.run = client.run /\ client'.why = client.why
      BY <2>7, <1>a DEF ClientRecords
    <3>2. ~Stopped'
      BY <3>1, <2>1 DEF Stopped
    <3> QED BY <3>1, <3>2, <2>2, <2>3, <2>7 DEF OwnerSound
  <2>8. CASE /\ type \in Suspending /\ client.attached /\ UNCHANGED toServer
             /\ client' = [client EXCEPT !.run = IF type = "lock" THEN "locked" ELSE "stopped"]
    <3>1. client'.attached /\ client'.why = client.why
      BY <2>8, <1>a DEF ClientRecords
    <3> QED BY <3>1, <2>2, <2>3, <2>8 DEF OwnerSound
  <2>9. CASE UNCHANGED <<client, toServer>>
    <3>1. Stopped' <=> Stopped
      BY <2>9 DEF Stopped
    <3> QED BY <3>1, <2>2, <2>3, <2>9 DEF OwnerSound
  <2> QED BY <1>11, <2>4, <2>5, <2>6, <2>7, <2>8, <2>9 DEF Told, Suspending
<1>12. CASE Signal
  <2>1. UNCHANGED <<flags, exitType, tty, session, toClient>> /\ (Alive' <=> Alive)
    BY <1>12 DEF Signal, ClientOnly, server, Alive
  <2>2. CASE client.attached
    <3>1. Reply(Plain("exiting")) /\ UNCHANGED client
      BY <1>12, <2>2 DEF Signal
    <3>2. /\ Any(toServer', Wakes) <=> Any(toServer, Wakes)
          /\ Lone(toServer, Wakes) => Lone(toServer', Wakes)
      <4>1. toServer' = toServer \/ toServer' = Append(toServer, Plain("exiting"))
        BY <3>1 DEF Reply
      <4>2. CASE toServer' = Append(toServer, Plain("exiting"))
        <5>1. "exiting" # "wakeup"
          OBVIOUS
        <5>2. /\ \A u : Within(toServer', Plain(u)) <=> Within(toServer, Plain(u)) \/ u = "exiting"
              /\ Any(toServer', Wakes) <=> Any(toServer, Wakes) \/ "exiting" = "wakeup"
              /\ Lone(toServer, Wakes) /\ ("exiting" = "wakeup" => ~Any(toServer, Wakes))
                   => Lone(toServer', Wakes)
          BY <4>2, <1>a, PlainSent
        <5> QED BY <5>1, <5>2
      <4> QED BY <4>1, <4>2
    <3>3. Stopped' <=> Stopped
      BY <3>1 DEF Stopped
    <3> QED BY <2>1, <2>2, <3>1, <3>2, <3>3 DEF OwnerSound
  <2>3. CASE ~client.attached
    <3>1. client' = Gone("signal") /\ UNCHANGED toServer
      BY <1>12, <2>3 DEF Signal
    <3>2. (client'.attached <=> client.attached) /\ client'.why # "exited" /\ ~Stopped'
      BY <3>1, <1>a DEF Gone, ClientRecords, Stopped
    <3> QED BY <2>1, <3>1, <3>2 DEF OwnerSound
  <2> QED BY <2>2, <2>3
<1>13. CASE Continue
  <2>1. UNCHANGED <<flags, exitType, tty, session, toClient>> /\ (Alive' <=> Alive) /\ Stopped
    BY <1>13 DEF Continue, ClientOnly, server, Alive, Stopped
  <2>2. (client'.attached <=> client.attached) /\ client'.why = client.why /\ ~Stopped'
    BY <1>13, <1>a DEF Continue, ClientRecords, Stopped
  <2>3. Reply(Plain("wakeup"))
    BY <1>13 DEF Continue
  <2>4. /\ Within(toServer', Plain("exiting")) <=> Within(toServer, Plain("exiting"))
        /\ ~Any(toServer, Wakes) /\ Lone(toServer, Wakes) => Lone(toServer', Wakes)
    <3>1. CASE UNCHANGED toServer
      BY <3>1
    <3>2. CASE toServer' = Append(toServer, Plain("wakeup"))
      <4>1. toServer \in Seq(ToServerMessages) /\ Plain("wakeup") \in ToServerMessages
        BY <1>a, MessagesSent
      <4>2. /\ \A u : Within(toServer', Plain(u)) <=> Within(toServer, Plain(u)) \/ u = "wakeup"
            /\ Lone(toServer, Wakes) /\ ~Any(toServer, Wakes) => Lone(toServer', Wakes)
        BY <3>2, <4>1, PlainSent
      <4> QED BY <4>2
    <3> QED BY <3>1, <3>2, <2>3 DEF Reply
  <2> QED BY <2>1, <2>2, <2>4 DEF OwnerSound
<1> QED
  BY <1>1, <1>2, <1>3, <1>4, <1>5, <1>6, <1>7, <1>8, <1>9, <1>10, <1>11, <1>12, <1>13,
     OwnerKeptByServer, OwnerKeptByClient, StepsOfTwo DEF ServerStep, ClientStep
-----------------------------------------------------------------------------
(* What a step leaves of a stream.                                         *)

(* Order in a queue.                                                       *)
LEMMA LastAppend ==
  ASSUME NEW S, NEW q \in Seq(S), NEW x \in S, NEW a, NEW m, a # m,
         Last(q, a, m), x # m \/ ~Within(q, a)
  PROVE  Last(Append(q, x), a, m)
<1>1. /\ DOMAIN q = 1 .. Len(q) /\ DOMAIN Append(q, x) = 1 .. Len(q) + 1
      /\ Len(q) \in Nat /\ Append(q, x)[Len(q) + 1] = x
      /\ \A i \in 1 .. Len(q) : Append(q, x)[i] = q[i]
  OBVIOUS
<1>2. \A i \in DOMAIN Append(q, x) : i \in DOMAIN q \/ i = Len(q) + 1
  BY <1>1
<1>3. \A i \in DOMAIN q : i < Len(q) + 1 /\ i \in Nat /\ Append(q, x)[i] = q[i]
  BY <1>1
<1> QED BY <1>1, <1>2, <1>3 DEF Last, Within, Any

LEMMA LastTail ==
  ASSUME NEW S, NEW q \in Seq(S), q # <<>>, NEW a, NEW m, a # m, Last(q, a, m)
  PROVE  Last(Tail(q), a, m) /\ (Head(q) = a => Count(q, m) = 0)
<1>1. /\ Len(q) \in Nat \ {0} /\ DOMAIN q = 1 .. Len(q)
      /\ DOMAIN Tail(q) = 1 .. (Len(q) - 1)
      /\ \A i \in DOMAIN Tail(q) : Tail(q)[i] = q[i + 1]
      /\ Head(q) = q[1]
  OBVIOUS
<1>2. \A i \in DOMAIN Tail(q) : i + 1 \in DOMAIN q /\ i \in Nat
  BY <1>1
<1>3. Last(Tail(q), a, m)
  <2> SUFFICES ASSUME NEW i \in DOMAIN Tail(q), NEW j \in DOMAIN Tail(q),
                      Tail(q)[i] = a, Tail(q)[j] = m
               PROVE  j < i
    BY DEF Last
  <2>1. j + 1 < i + 1
    BY <1>1, <1>2 DEF Last
  <2> QED BY <2>1, <1>2
<1>4. Head(q) = a => ~Within(q, m)
  BY <1>1 DEF Last, Within, Any
<1> QED BY <1>3, <1>4, CountProperties

LEMMA LastRepeated ==
  ASSUME NEW S, NEW q \in Seq(S), NEW k \in Nat, NEW x \in S, NEW a, NEW m, a # m,
         Last(q, a, m), x # m \/ ~Within(q, a)
  PROVE  Last(q \o Repeated(k, x), a, m)
<1> DEFINE r == q \o Repeated(k, x)
<1>1. /\ DOMAIN q = 1 .. Len(q) /\ DOMAIN r = 1 .. Len(q) + k /\ Len(q) \in Nat
      /\ \A i \in 1 .. Len(q) : r[i] = q[i]
      /\ \A i \in DOMAIN r : i \in DOMAIN q \/ (i \in Nat /\ i > Len(q) /\ r[i] = x)
  <2> DEFINE t == Repeated(k, x)
  <2>1. t \in Seq(S) /\ Len(t) = k /\ \A i \in 1 .. k : t[i] = x
    BY CountRepeated DEF Repeated
  <2> HIDE DEF t
  <2>2. DOMAIN q = 1 .. Len(q) /\ DOMAIN (q \o t) = 1 .. Len(q) + k /\ Len(q) \in Nat
    BY <2>1
  <2>3. \A i \in 1 .. Len(q) + k : (q \o t)[i] = IF i <= Len(q) THEN q[i] ELSE t[i - Len(q)]
    BY <2>1
  <2>4. \A i \in 1 .. Len(q) + k : i \in 1 .. Len(q) \/ (i > Len(q) /\ i - Len(q) \in 1 .. k)
    BY <2>2
  <2>5. \A i \in 1 .. Len(q) + k : i \in 1 .. Len(q) \/ (i > Len(q) /\ (q \o t)[i] = x)
    <3> TAKE i \in 1 .. Len(q) + k
    <3>1. i > Len(q) => ~(i <= Len(q))
      BY <2>2
    <3> QED BY <3>1, <2>1, <2>3, <2>4
  <2>6. \A i \in 1 .. Len(q) : i \in 1 .. Len(q) + k /\ i <= Len(q)
    BY <2>2
  <2>7. \A i \in 1 .. Len(q) : (q \o t)[i] = q[i]
    BY <2>3, <2>6
  <2> QED BY <2>2, <2>5, <2>7 DEF t
<1> HIDE DEF r
<1>2. \A i \in DOMAIN q : i <= Len(q) /\ i \in Nat
  BY <1>1
<1>3. ASSUME NEW i \in DOMAIN r, NEW j \in DOMAIN r, r[i] = a, r[j] = m PROVE j < i
  <2>1. CASE j \in DOMAIN q
    BY <2>1, <1>1, <1>2, <1>3 DEF Last
  <2>2. CASE j \notin DOMAIN q
    <3>1. x = m /\ ~Within(q, a)
      BY <2>2, <1>1, <1>3
    <3>2. i \in DOMAIN q /\ q[i] = a
      BY <3>1, <1>1, <1>3
    <3> QED BY <3>1, <3>2 DEF Within, Any
  <2> QED BY <2>1, <2>2
<1> QED BY <1>3 DEF Last, r

LEMMA LastPrefix ==
  ASSUME NEW S, NEW q \in Seq(S), NEW k \in 0 .. Len(q), NEW a, NEW m, Last(q, a, m)
  PROVE  /\ Last(SubSeq(q, 1, k), a, m)
         /\ Within(SubSeq(q, 1, k), a) => Count(SubSeq(q, 1, k), m) = Count(q, m)
<1> DEFINE r == SubSeq(q, 1, k)
<1>1. /\ DOMAIN r = 1 .. k /\ \A i \in 1 .. k : r[i] = q[i]
      /\ Len(r) = k /\ 1 .. k \subseteq 1 .. Len(q) /\ Len(q) \in Nat /\ DOMAIN q = 1 .. Len(q)
  OBVIOUS
<1> HIDE DEF r
<1>2. Last(r, a, m)
  BY <1>1 DEF Last
<1>3. ASSUME NEW i \in DOMAIN r, r[i] = a PROVE Count(r, m) = Count(q, m)
  <2>1. \A j \in DOMAIN q : q[j] = m => j < i
    BY <1>1, <1>3 DEF Last
  <2>2. i <= k /\ i \in Nat
    BY <1>1
  <2>3. \A j \in DOMAIN q : q[j] = m => j \in DOMAIN r
    BY <2>1, <2>2, <1>1
  <2>4. Places(r, Len(r) + 1, m) = Places(q, Len(q) + 1, m)
    <3>1. \A j \in DOMAIN r : j \in DOMAIN q /\ j < Len(q) + 1 /\ j < Len(r) + 1 /\ r[j] = q[j]
      BY <1>1
    <3> QED BY <3>1, <2>3 DEF Places
  <2> QED BY <2>4 DEF Count, Before, Places
<1> QED BY <1>2, <1>3 DEF r, Within, Any

(* Two queues that have the same messages about s in the same order.       *)
Kinds == {"write-open", "write", "write-close", "read-open", "read-cancel",
          "write-ready", "write-done", "read", "read-done"}
About(s) == [type : Kinds, stream : {s}, error : BOOLEAN]
Alike(q, r, s) ==
  \A m \in About(s) :
    Count(r, m) = Count(q, m) /\ \A a \in About(s) \ {m} : Last(q, a, m) => Last(r, a, m)

LEMMA AboutIs ==
  ASSUME NEW s
  PROVE  /\ \A t \in Kinds, e \in BOOLEAN : Message(t, s, e) \in About(s)
         /\ \A t, r, e : r # s => Message(t, r, e) \notin About(s)
BY DEF About, Message

LEMMA AlikeQueues ==
  ASSUME NEW S, NEW q \in Seq(S), NEW s
  PROVE  /\ Alike(q, q, s)
         /\ \A x \in S : x \notin About(s) => Alike(q, Append(q, x), s)
         /\ q # <<>> /\ Head(q) \notin About(s) => Alike(q, Tail(q), s)
         /\ \A k \in Nat, x \in S : x \notin About(s) => Alike(q, q \o Repeated(k, x), s)
<1>1. Alike(q, q, s)
  BY DEF Alike
<1>2. ASSUME NEW x \in S, x \notin About(s) PROVE Alike(q, Append(q, x), s)
  <2>1. \A m \in About(s) : Count(Append(q, x), m) = Count(q, m)
    BY <1>2, CountAppend
  <2>2. \A m \in About(s) : \A a \in About(s) \ {m} : Last(q, a, m) => Last(Append(q, x), a, m)
    BY <1>2, LastAppend
  <2> QED BY <2>1, <2>2 DEF Alike
<1>3. ASSUME q # <<>>, Head(q) \notin About(s) PROVE Alike(q, Tail(q), s)
  <2>1. \A m \in About(s) : Count(q, m) = Count(Tail(q), m)
    BY <1>3, CountTail
  <2>2. \A m \in About(s) : \A a \in About(s) \ {m} : Last(q, a, m) => Last(Tail(q), a, m)
    BY <1>3, LastTail
  <2> QED BY <2>1, <2>2 DEF Alike
<1>4. ASSUME NEW k \in Nat, NEW x \in S, x \notin About(s) PROVE Alike(q, q \o Repeated(k, x), s)
  <2>1. \A m \in About(s) : Count(q \o Repeated(k, x), m) = Count(q, m)
    BY <1>4, CountRepeated
  <2>2. \A m \in About(s) : \A a \in About(s) \ {m} : Last(q, a, m) => Last(q \o Repeated(k, x), a, m)
    BY <1>4, LastRepeated
  <2> QED BY <2>1, <2>2 DEF Alike
<1> QED BY <1>1, <1>2, <1>3, <1>4

LEMMA AlikeTransitive ==
  ASSUME NEW q, NEW r, NEW t, NEW s, Alike(q, r, s), Alike(r, t, s)
  PROVE  Alike(q, t, s)
BY DEF Alike

(* The steps about stream s, and those that leave it.                      *)
OnServer(s) ==
  \/ s = Stdout /\ FilePrint
  \/ s \in Writes /\ FileWrite(s)
  \/ s \in Reads /\ FileRead(s)
  \/ FilePushAgain(s) \/ FileDone(s) \/ ReadData(s)
  \/ \E e \in BOOLEAN :
       \/ WriteReady(s, e)
       \/ TransferDone("write-done", s, e) \/ TransferDone("read-done", s, e)
OnClient(s) ==
  \/ \E read \in BOOLEAN : FileOpen(s, read)
  \/ FileWriteData(s) \/ FileWriteClose(s) \/ FileReadCancel(s)
  \/ Drain(s) \/ WriteError(s) \/ ReadSome(s)
  \/ \E e \in BOOLEAN : ReadEnd(s, e)
On(s) == OnServer(s) \/ OnClient(s)

StreamKept(s) ==
  /\ files'[s] = files[s] /\ open'[s] = open[s]
  /\ given'[s] = given[s] /\ moved'[s] = moved[s] /\ result'[s] = result[s]
  /\ s \in used' <=> s \in used
  /\ waiting = {s} => waiting' = {s}
  /\ "attached" \in flags' => "attached" \in flags \/ waiting = {}
  /\ (Alive' => Alive) /\ (pane' => pane)
  /\ client'.run # "gone" => client.run # "gone"
  /\ Alike(toClient, toClient', s) /\ Alike(toServer, toServer', s)

LEMMA AlikeSent ==
  ASSUME Typed, NEW s
  PROVE  /\ UNCHANGED toClient => Alike(toClient, toClient', s)
         /\ UNCHANGED toServer => Alike(toServer, toServer', s)
         /\ \A m \in ToClientMessages :
              toClient' = Append(toClient, m) /\ m \notin About(s) => Alike(toClient, toClient', s)
         /\ \A m \in ToServerMessages : Reply(m) /\ m \notin About(s) => Alike(toServer, toServer', s)
         /\ \A m : ToClient(m) /\ m \notin About(s) => Alike(toClient, toClient', s)
         /\ \A m : FromClient(m) /\ m \notin About(s) => Alike(toServer, toServer', s)
         /\ \A r \in Outputs, k \in Nat : \A f :
              r # s /\ toClient' = toClient \o Pushed(f, r, k) => Alike(toClient, toClient', s)
<1>1. toClient \in Seq(ToClientMessages) /\ toServer \in Seq(ToServerMessages)
  BY DEF Typed, QueuesTyped
<1>2. ASSUME NEW r \in Outputs, NEW f, NEW k \in Nat, r # s, toClient' = toClient \o Pushed(f, r, k)
      PROVE  Alike(toClient, toClient', s)
  <2> DEFINE q == toClient \o Repeated(k, Data(r))
  <2>1. /\ Data(r) \in ToClientMessages /\ Data(r) \notin About(s) /\ Close(r) \notin About(s)
        /\ r > 2 => Close(r) \in ToClientMessages
    BY <1>2, StreamsAre, MessagesSent, AboutIs DEF Data, Close
  <2>2. Alike(toClient, q, s) /\ q \in Seq(ToClientMessages)
    BY <2>1, <1>1, AlikeQueues, CountRepeated
  <2>3. toClient' = q \/ (r > 2 /\ toClient' = Append(q, Close(r)))
    BY <1>1, <1>2, PushedIs
  <2> HIDE DEF q
  <2>4. r > 2 => Alike(q, Append(q, Close(r)), s)
    BY <2>1, <2>2, AlikeQueues
  <2> QED BY <2>2, <2>3, <2>4, AlikeTransitive
<1>3. \A m : ToClient(m) /\ m \notin About(s) => Alike(toClient, toClient', s)
  BY <1>1, AlikeQueues DEF ToClient
<1>4. \A m : FromClient(m) /\ m \notin About(s) => Alike(toServer, toServer', s)
  BY <1>1, AlikeQueues DEF FromClient
<1>5. /\ UNCHANGED toClient => Alike(toClient, toClient', s)
      /\ \A m \in ToClientMessages :
           toClient' = Append(toClient, m) /\ m \notin About(s) => Alike(toClient, toClient', s)
  BY <1>1, AlikeQueues
<1>6. /\ UNCHANGED toServer => Alike(toServer, toServer', s)
      /\ \A m \in ToServerMessages : Reply(m) /\ m \notin About(s) => Alike(toServer, toServer', s)
  BY <1>1, AlikeQueues DEF Reply
<1> QED BY <1>2, <1>3, <1>4, <1>5, <1>6

LEMMA StreamLeftByServer ==
  ASSUME Typed, Next, ServerStep, NEW s \in Streams
  PROVE  Lost \/ OnServer(s) \/ StreamKept(s)
<1>a. /\ QueuesTyped /\ files \in [Streams -> FileRecords]
      /\ \A r \in Streams : FileTyped(r, files[r]) /\ files[r] \in FileRecords
      /\ given \in [Streams -> Nat] /\ result \in [Streams -> {"none", "ok", "error"}]
      /\ exitType \in {"return", "shutdown", "detach"}
      /\ waiting = {} \/ \E r \in Streams : waiting = {r}
      /\ s # 0
  BY StreamsAre DEF Typed, QueuesTyped, FilesTyped, HistoryTyped, ServerTyped
<1>b. UNCHANGED <<client, open, moved>>
  BY ServerStepLeaves
<1>c. /\ \A t : Plain(t) \notin About(s)
      /\ \A t, r, e : r # s => Message(t, r, e) \notin About(s)
  BY <1>a, AboutIs DEF Plain
<1> DEFINE File == /\ files'[s] = files[s] /\ given'[s] = given[s] /\ result'[s] = result[s]
                   /\ s \in used' <=> s \in used
           Flag == "attached" \in flags' => "attached" \in flags \/ waiting = {}
           Wait == waiting = {s} => waiting' = {s}
           ToC == Alike(toClient, toClient', s)
           ToS == Alike(toServer, toServer', s)
<1>0. ASSUME File, Flag, Wait, pane' => pane, ToC, ToS PROVE Lost \/ StreamKept(s)
  BY <1>0, <1>b, AliveStep DEF StreamKept
<1>d. UNCHANGED <<files, given, result, used>> => File
  OBVIOUS
<1>e. ASSUME NEW r \in Streams, r # s,
             files' = files \/ \E f : files' = [files EXCEPT ![r] = f],
             given' = given \/ \E n : given' = [given EXCEPT ![r] = n],
             result' = result \/ \E n : result' = [result EXCEPT ![r] = n],
             used' = used \/ used' = used \cup {r}
      PROVE  File
  BY <1>a, <1>e
<1>f. /\ UNCHANGED flags => Flag
      /\ \A x : x # "attached" /\ (flags' = flags \cup {x} \/ flags' = flags \ {x}) => Flag
      /\ UNCHANGED waiting => Wait
  OBVIOUS
<1>g. /\ UNCHANGED toClient => ToC
      /\ UNCHANGED toServer => ToS
      /\ \A m : FromClient(m) /\ m \notin About(s) => ToS
      /\ \A m \in ToClientMessages : toClient' = Append(toClient, m) /\ m \notin About(s) => ToC
      /\ \A r \in Outputs, k \in Nat : \A f :
           r # s /\ toClient' = toClient \o Pushed(f, r, k) => ToC
  BY AlikeSent
<1> HIDE DEF File, Flag, Wait, ToC, ToS
<1>1. CASE FilePrint
  <2> DEFINE more == [files[Stdout] EXCEPT !.buffer = @ + 1]
  <2>1. more.buffer \in Nat
    BY <1>a, StreamsAre DEF FileRecords
  <2> HIDE DEF more
  <2>2. \/ toClient' = Append(toClient, Message("write-open", Stdout, FALSE))
        \/ UNCHANGED toClient
        \/ \E k \in 0 .. more.buffer : toClient' = toClient \o Pushed(more, Stdout, k)
    BY <1>1 DEF FilePrint, more
  <2>3. 0 .. more.buffer \subseteq Nat
    BY <2>1
  <2>4. s # Stdout => ToC
    BY <2>2, <2>3, <1>c, <1>g, StreamsAre, MessagesSent
  <2>5. s # Stdout => File
    <3>1. files' = files \/ \E f : files' = [files EXCEPT ![Stdout] = f]
      BY <1>1 DEF FilePrint
    <3>2. \E n : given' = [given EXCEPT ![Stdout] = n]
      BY <1>1 DEF FilePrint
    <3>3. UNCHANGED <<result, used>>
      BY <1>1 DEF FilePrint
    <3> QED BY <3>1, <3>2, <3>3, <1>e, StreamsAre
  <2>6. UNCHANGED <<flags, waiting, pane, toServer>>
    BY <1>1 DEF FilePrint
  <2> QED BY <2>4, <2>5, <2>6, <1>1, <1>0, <1>f, <1>g DEF OnServer
<1>2. ASSUME NEW r \in Streams, r # s, NEW t, NEW f, Opens(r, t, f),
             Message(t, r, FALSE) \in ToClientMessages,
             given' = given \/ \E n : given' = [given EXCEPT ![r] = n]
      PROVE  Lost \/ StreamKept(s)
  <2>1. File
    <3>1. \E g : files' = [files EXCEPT ![r] = g]
      BY <1>2 DEF Opens
    <3>2. used' = used \cup {r} /\ UNCHANGED result
      BY <1>2 DEF Opens
    <3> QED BY <3>1, <3>2, <1>2, <1>e
  <2>2. ToC
    BY <1>2, <1>c, <1>g DEF Opens
  <2>3. Wait /\ UNCHANGED <<flags, pane, toServer>>
    BY <1>2 DEF Opens, Wait
  <2> QED BY <2>1, <2>2, <2>3, <1>0, <1>f, <1>g
<1>3. CASE \/ \E r \in Writes : FileWrite(r)
           \/ \E r \in Reads : FileRead(r)
  <2>1. ASSUME NEW r \in Writes, FileWrite(r) PROVE OnServer(s) \/ Lost \/ StreamKept(s)
    <3>1. CASE r = s
      BY <2>1, <3>1 DEF OnServer
    <3>2. CASE r # s
      BY <2>1, <3>2, <1>2, StreamsAre, MessagesSent DEF FileWrite
    <3> QED BY <3>1, <3>2
  <2>2. ASSUME NEW r \in Reads, FileRead(r) PROVE OnServer(s) \/ Lost \/ StreamKept(s)
    <3>1. CASE r = s
      BY <2>2, <3>1 DEF OnServer
    <3>2. CASE r # s
      BY <2>2, <3>2, <1>2, StreamsAre, MessagesSent DEF FileRead
    <3> QED BY <3>1, <3>2
  <2> QED BY <1>3, <2>1, <2>2
<1>4. ASSUME NEW r \in Streams, r # s, FilePushAgain(r) PROVE Lost \/ StreamKept(s)
  <2> DEFINE f == [files[r] EXCEPT !.pushes = @ - 1]
  <2>1. r \in Outputs
    BY <1>4, <1>a, StreamsAre DEF FilePushAgain, FileTyped
  <2>2. f.buffer \in Nat
    BY <1>a DEF FileRecords
  <2> HIDE DEF f
  <2>3. \/ UNCHANGED toClient
        \/ \E k \in 0 .. f.buffer : toClient' = toClient \o Pushed(f, r, k)
    BY <1>4 DEF FilePushAgain, f
  <2>4. 0 .. f.buffer \subseteq Nat
    BY <2>2
  <2>5. ToC
    BY <2>1, <2>3, <2>4, <1>4, <1>g
  <2>6. \E g : files' = [files EXCEPT ![r] = g]
    BY <1>4 DEF FilePushAgain
  <2>7. UNCHANGED <<given, result, used, flags, waiting, pane, toServer>>
    BY <1>4 DEF FilePushAgain, history
  <2>8. File
    BY <2>6, <2>7, <1>4, <1>e
  <2> QED BY <2>5, <2>7, <2>8, <1>0, <1>f, <1>g
<1>5. ASSUME NEW r \in Streams, r # s, FileDone(r) PROVE Lost \/ StreamKept(s)
  <2>1. \/ UNCHANGED toClient
        \/ r \in Inputs /\ toClient' = Append(toClient, Message("read-cancel", r, FALSE))
    BY <1>5 DEF FileDone, CancelInput
  <2>2. ToC
    BY <2>1, <1>5, <1>c, <1>g, MessagesSent
  <2>3. File
    <3>1. \E f : files' = [files EXCEPT ![r] = f]
      BY <1>5 DEF FileDone
    <3>2. given' = given \/ \E n : given' = [given EXCEPT ![r] = n]
      BY <1>5 DEF FileDone
    <3>3. /\ result' = result \/ \E n : result' = [result EXCEPT ![r] = n]
          /\ UNCHANGED used
      BY <1>5 DEF FileDone
    <3> QED BY <3>1, <3>2, <3>3, <1>5, <1>e
  <2>4. waiting' = waiting \/ waiting' = waiting \ {r}
    BY <1>5 DEF FileDone
  <2>5. Wait
    BY <2>4, <1>5 DEF Wait
  <2>6. flags' = flags \/ flags' = flags \cup {"exit"}
    BY <1>5 DEF FileDone, CancelInput
  <2>7. UNCHANGED <<pane, toServer>>
    BY <1>5 DEF FileDone
  <2> QED BY <2>2, <2>3, <2>5, <2>6, <2>7, <1>0, <1>f, <1>g
<1>6. ASSUME NEW r \in Streams, r # s, ReadData(r) PROVE Lost \/ StreamKept(s)
  <2>1. \/ UNCHANGED toClient
        \/ r \in Inputs /\ toClient' = Append(toClient, Message("read-cancel", r, FALSE))
    BY <1>6 DEF ReadData, CancelInput
  <2>2. ToC
    BY <2>1, <1>6, <1>c, <1>g, MessagesSent
  <2>3. File
    <3>1. files' = files \/ \E f : files' = [files EXCEPT ![r] = f]
      BY <1>6 DEF ReadData
    <3>2. given' = given \/ \E n : given' = [given EXCEPT ![r] = n]
      BY <1>6 DEF ReadData
    <3>3. UNCHANGED <<result, used>>
      BY <1>6 DEF ReadData, FromClient
    <3> QED BY <3>1, <3>2, <3>3, <1>6, <1>e
  <2>4. flags' = flags \/ flags' = flags \cup {"exit"}
    BY <1>6 DEF ReadData, CancelInput
  <2>5. UNCHANGED <<pane, waiting>> /\ ToS
    BY <1>6, <1>c, <1>g DEF ReadData, FromClient
  <2> QED BY <2>2, <2>3, <2>4, <2>5, <1>0, <1>f
<1>7. ASSUME NEW r \in Streams, r # s, NEW e \in BOOLEAN, WriteReady(r, e)
      PROVE  Lost \/ StreamKept(s)
  <2>1. r \in Outputs
    BY <1>7, <1>a, ReadsMessage, MessagesToServer DEF WriteReady
  <2>2. \/ UNCHANGED toClient
        \/ \E k \in 0 .. files[r].buffer : toClient' = toClient \o Pushed(files[r], r, k)
    BY <1>7 DEF WriteReady
  <2>3. 0 .. files[r].buffer \subseteq Nat
    BY <1>a DEF FileRecords
  <2>4. ToC
    BY <2>1, <2>2, <2>3, <1>7, <1>g
  <2>5. File
    <3>1. files' = files \/ \E f : files' = [files EXCEPT ![r] = f]
      BY <1>7 DEF WriteReady
    <3>2. UNCHANGED <<given, result, used>>
      BY <1>7 DEF WriteReady, FromClient
    <3> QED BY <3>1, <3>2, <1>7, <1>e
  <2>6. UNCHANGED <<pane, waiting, flags>> /\ ToS
    BY <1>7, <1>c, <1>g DEF WriteReady, FromClient
  <2> QED BY <2>4, <2>5, <2>6, <1>0, <1>f
<1>8. ASSUME NEW r \in Streams, r # s, NEW t, NEW e \in BOOLEAN, TransferDone(t, r, e)
      PROVE  Lost \/ StreamKept(s)
  <2>1. File
    <3>1. files' = files \/ \E f : files' = [files EXCEPT ![r] = f]
      BY <1>8 DEF TransferDone
    <3>2. UNCHANGED <<given, result, used>>
      BY <1>8 DEF TransferDone, FromClient
    <3> QED BY <3>1, <3>2, <1>8, <1>e
  <2>2. UNCHANGED <<pane, waiting, flags, toClient>> /\ ToS
    BY <1>8, <1>c, <1>g DEF TransferDone, FromClient
  <2> QED BY <2>1, <2>2, <1>0, <1>f, <1>g
<1>9. CASE Exiting \/ Wakeup
  <2>1. UNCHANGED <<files, given, result, used, waiting, pane>> /\ ToS
    BY <1>9, <1>c, <1>g DEF Exiting, Wakeup, FromClient
  <2>2. flags' = flags \/ flags' = flags \ {"suspended"}
    BY <1>9 DEF Exiting, Wakeup
  <2>3. ToC
    BY <1>9, <1>c, <1>g, MessagesSent DEF Exiting, Wakeup
  <2> QED BY <2>1, <2>2, <2>3, <1>0, <1>d, <1>f
<1>10. CASE (\E control \in BOOLEAN : Attach(control)) \/ CommandDone
  <2>1. UNCHANGED <<files, given, result, used, waiting, pane, toServer>>
    BY <1>10 DEF Attach, CommandDone, ServerOnly, history
  <2>2. Flag
    BY <1>10 DEF Attach, CommandDone, Flag
  <2>3. ToC
    BY <1>10, <1>c, <1>g, MessagesSent DEF Attach, CommandDone
  <2> QED BY <2>1, <2>2, <2>3, <1>0, <1>d, <1>f, <1>g
<1>11. CASE CheckExit \/ ExitTimer
  <2>1. Lost \/ UNCHANGED <<files, given, result, used, waiting, pane, toServer>>
    BY <1>11 DEF CheckExit, ExitTimer
  <2>2. Lost \/ flags' = flags \/ flags' = flags \cup {"exited"}
    BY <1>11 DEF CheckExit, ExitTimer, LetGo
  <2>3. Lost \/ UNCHANGED toClient \/ toClient' = Append(toClient, Plain(exitType))
    BY <1>11 DEF CheckExit, ExitTimer, LetGo
  <2>4. Plain(exitType) \in ToClientMessages
    BY <1>a, MessagesSent
  <2>5. Lost \/ ToC
    BY <2>3, <2>4, <1>c, <1>g
  <2>6. CASE ~Lost
    <3>1. File /\ Wait /\ ToS
      BY <2>1, <2>6, <1>d, <1>f, <1>g
    <3>2. Flag
      BY <2>2, <2>6, <1>f
    <3> QED BY <3>1, <3>2, <2>1, <2>5, <2>6, <1>0
  <2> QED BY <2>6
<1>12. CASE ClientLost
  BY <1>12 DEF ClientLost
<1>13. CASE Detach \/ Destroy \/ Shutdown
  <2>1. Lost \/ UNCHANGED <<files, given, result, used, waiting, pane, toServer, toClient>>
    BY <1>13 DEF Detach, Destroy, Shutdown, Leave, ServerOnly, history
  <2>2. Lost \/ flags' = flags \cup {"exit"}
    BY <1>13 DEF Detach, Destroy, Shutdown, Leave
  <2>3. CASE ~Lost
    <3>1. File /\ Wait /\ ToC /\ ToS
      BY <2>1, <2>3, <1>d, <1>f, <1>g
    <3>2. Flag
      BY <2>2, <2>3, <1>f
    <3> QED BY <3>1, <3>2, <2>1, <2>3, <1>0
  <2> QED BY <2>3
<1>14. CASE Suspend \/ Lock \/ Exec \/ KillPane
  <2>1. UNCHANGED <<files, given, result, used, waiting, toServer>> /\ (pane' => pane)
    BY <1>14 DEF Suspend, Lock, StopsTty, Exec, KillPane, ServerOnly, history
  <2>2. flags' = flags \/ flags' = flags \cup {"suspended"}
    BY <1>14 DEF Suspend, Lock, StopsTty, Exec, KillPane
  <2>3. ToC
    BY <1>14, <1>c, <1>g, MessagesSent DEF Suspend, Lock, StopsTty, Exec, KillPane
  <2> QED BY <2>1, <2>2, <2>3, <1>0, <1>d, <1>f, <1>g
<1> QED
  BY <1>1, <1>3, <1>4, <1>5, <1>6, <1>7, <1>8, <1>9, <1>10, <1>11, <1>12, <1>13, <1>14
     DEF ServerStep, OnServer

LEMMA StreamLeftByClient ==
  ASSUME Typed, ClientStep, NEW s \in Streams
  PROVE  Killed \/ OnClient(s) \/ StreamKept(s)
<1>a. /\ QueuesTyped /\ open \in [Streams -> OpenRecords] /\ moved \in [Streams -> Nat]
      /\ \A r \in Streams : OpenTyped(r, open[r]) /\ open[r] \in OpenRecords
      /\ client \in ClientRecords /\ s # 0
  BY StreamsAre DEF Typed, OpensTyped, HistoryTyped, ClientTyped
<1>b. UNCHANGED <<flags, files, waiting, pane, given, result, used>>
  BY ClientStepLeaves DEF server
<1>c. /\ \A t : Plain(t) \notin About(s)
      /\ \A t, r, e : r # s => Message(t, r, e) \notin About(s)
  BY <1>a, AboutIs DEF Plain
<1> DEFINE File == open'[s] = open[s] /\ moved'[s] = moved[s]
           Runs == client'.run # "gone" => client.run # "gone"
           ToC == Alike(toClient, toClient', s)
           ToS == Alike(toServer, toServer', s)
<1>0. ASSUME File, Runs, ToC, ToS PROVE StreamKept(s)
  BY <1>0, <1>b DEF StreamKept, Alive
<1>e. ASSUME NEW r \in Streams, r # s,
             open' = open \/ \E o : open' = [open EXCEPT ![r] = o],
             moved' = moved \/ \E n : moved' = [moved EXCEPT ![r] = n]
      PROVE  File
  BY <1>a, <1>e
<1>f. client.run # "gone" => Runs
  OBVIOUS
<1>g. /\ UNCHANGED toClient => ToC
      /\ UNCHANGED toServer => ToS
      /\ \A m : ToClient(m) /\ m \notin About(s) => ToC
      /\ \A m \in ToServerMessages : Reply(m) /\ m \notin About(s) => ToS
  BY AlikeSent
<1> HIDE DEF File, ToC, ToS
<1>1. ASSUME NEW r \in Streams, r # s, NEW read \in BOOLEAN, FileOpen(r, read) PROVE StreamKept(s)
  <2>1. \/ UNCHANGED toServer
        \/ ~read /\ Reply(Message("write-ready", r, FALSE))
        \/ Reply(Message(IF read THEN "read-done" ELSE "write-ready", r, TRUE))
    BY <1>1 DEF FileOpen
  <2>2. IF read THEN r \in Reads ELSE r \in Outputs
    BY <1>1, <1>a, ReadsMessage, MessagesToClient DEF FileOpen
  <2>3. ToS
    BY <2>1, <2>2, <1>1, <1>c, <1>g, MessagesSent
  <2>4. File
    <3>1. open' = open \/ \E o : open' = [open EXCEPT ![r] = o]
      BY <1>1 DEF FileOpen
    <3> QED BY <3>1, <1>1, <1>e DEF FileOpen
  <2>5. ToC /\ Runs
    BY <1>1, <1>c, <1>f, <1>g DEF FileOpen, ToClient, Running
  <2> QED BY <2>3, <2>4, <2>5, <1>0
<1>2. ASSUME NEW r \in Streams, r # s, FileWriteData(r) PROVE StreamKept(s)
  <2>1. ToC /\ Runs
    BY <1>2, <1>c, <1>f, <1>g DEF FileWriteData, ToClient, Running
  <2>2. UNCHANGED toServer /\ UNCHANGED moved
    BY <1>2 DEF FileWriteData, Ignored, Unknown
  <2>3. open' = open \/ \E o : open' = [open EXCEPT ![r] = o]
    BY <1>2 DEF FileWriteData, Ignored, Unknown
  <2> QED BY <2>1, <2>2, <2>3, <1>2, <1>0, <1>e, <1>g
<1>3. ASSUME NEW r \in Streams, r # s, FileWriteClose(r) PROVE StreamKept(s)
  <2>1. ToC /\ Runs
    BY <1>3, <1>c, <1>f, <1>g DEF FileWriteClose, ToClient, Running
  <2>2. r \in Writes
    BY <1>3, <1>a, ReadsMessage, MessagesToClient DEF FileWriteClose
  <2>3. Message("write-done", r, open[r].error) \in ToServerMessages
    BY <2>2, <1>a, MessagesSent DEF OpenRecords
  <2>4. UNCHANGED toServer \/ Reply(Message("write-done", r, open[r].error))
    BY <1>3 DEF FileWriteClose, Finished, Ignored, Unknown
  <2>5. open' = open \/ \E o : open' = [open EXCEPT ![r] = o]
    BY <1>3 DEF FileWriteClose, Finished, Ignored, Unknown
  <2>6. UNCHANGED moved
    BY <1>3 DEF FileWriteClose
  <2> QED BY <2>1, <2>3, <2>4, <2>5, <2>6, <1>3, <1>0, <1>c, <1>e, <1>g
<1>4. ASSUME NEW r \in Streams, r # s, FileReadCancel(r) PROVE StreamKept(s)
  <2>1. ToC /\ Runs
    BY <1>4, <1>c, <1>f, <1>g DEF FileReadCancel, ToClient, Running
  <2>2. r \in Reads
    BY <1>4, <1>a, ReadsMessage, MessagesToClient DEF FileReadCancel, Reads
  <2>3. UNCHANGED toServer \/ Reply(Message("read-done", r, FALSE))
    BY <1>4 DEF FileReadCancel, ReadEnds, Ignored, Unknown
  <2>4. open' = open \/ \E o : open' = [open EXCEPT ![r] = o]
    BY <1>4 DEF FileReadCancel, ReadEnds, Ignored, Unknown
  <2>5. UNCHANGED moved
    BY <1>4 DEF FileReadCancel
  <2> QED BY <2>1, <2>2, <2>3, <2>4, <2>5, <1>4, <1>0, <1>c, <1>e, <1>g, MessagesSent
<1>5. ASSUME NEW r \in Streams, r # s, Drain(r) \/ WriteError(r) PROVE StreamKept(s)
  <2>1. open[r].error \in BOOLEAN /\ (open[r].closed => r \in Writes)
    BY <1>a DEF OpenRecords, OpenTyped
  <2>2. \/ UNCHANGED toServer
        \/ r \in Writes /\ \E e \in BOOLEAN : Reply(Message("write-done", r, e))
    BY <1>5, <2>1 DEF Drain, WriteError, Finished
  <2>3. ToS
    BY <2>2, <1>5, <1>c, <1>g, MessagesSent
  <2>4. \E o : open' = [open EXCEPT ![r] = o]
    <3>1. CASE Drain(r)
      BY <3>1 DEF Drain, Finished
    <3>2. CASE WriteError(r)
      <4> DEFINE b == [open[r] EXCEPT !.event = FALSE, !.error = TRUE]
      <4>1. [open EXCEPT ![r].event = FALSE, ![r].error = TRUE] = [open EXCEPT ![r] = b]
        BY <1>a
      <4>2. open' = [open EXCEPT ![r] = b] \/ open' = [open EXCEPT ![r] = NotOpen]
        BY <3>2, <4>1 DEF WriteError
      <4> HIDE DEF b
      <4> QED BY <4>2
    <3> QED BY <1>5, <3>1, <3>2
  <2>5. moved' = moved \/ \E n : moved' = [moved EXCEPT ![r] = n]
    BY <1>5 DEF Drain, WriteError
  <2>6. Runs /\ UNCHANGED toClient
    BY <1>5 DEF Drain, WriteError, Running, ClientOnly
  <2> QED BY <2>3, <2>4, <2>5, <2>6, <1>5, <1>0, <1>e, <1>g
<1>6. ASSUME NEW r \in Streams, r # s, NEW e \in BOOLEAN, ReadSome(r) \/ ReadEnd(r, e)
      PROVE  StreamKept(s)
  <2>1. r \in Reads /\ (Reply(Message("read", r, FALSE)) \/ Reply(Message("read-done", r, e)))
    BY <1>6 DEF ReadSome, ReadEnd, ReadEnds, Reads
  <2>2. ToS
    BY <2>1, <1>6, <1>c, <1>g, MessagesSent
  <2>3. open' = open \/ \E o : open' = [open EXCEPT ![r] = o]
    BY <1>6 DEF ReadSome, ReadEnd, ReadEnds
  <2>4. moved' = moved \/ \E n : moved' = [moved EXCEPT ![r] = n]
    BY <1>6 DEF ReadSome, ReadEnd
  <2>5. Runs /\ UNCHANGED toClient
    BY <1>6 DEF ReadSome, ReadEnd, Running, ClientOnly
  <2> QED BY <2>2, <2>3, <2>4, <2>5, <1>6, <1>0, <1>e, <1>g
<1>7. ASSUME NEW type \in Tells, Told(type) PROVE StreamKept(s)
  <2>1. ToC /\ Runs /\ File
    BY <1>7, <1>c, <1>f, <1>g DEF Told, ToClient, Running, File
  <2>2. ToS
    BY <1>7, <1>c, <1>g, MessagesSent DEF Told
  <2> QED BY <2>1, <2>2, <1>0
<1>8. CASE ServerLost \/ Signal \/ Continue
  <2>1. UNCHANGED toClient /\ File
    BY <1>8 DEF ServerLost, Signal, Continue, ClientOnly, history, File
  <2>2. Runs
    BY <1>8 DEF ServerLost, Signal, Continue, Running
  <2>3. ToS
    BY <1>8, <1>c, <1>g, MessagesSent DEF ServerLost, Signal, Continue
  <2> QED BY <2>1, <2>2, <2>3, <1>0, <1>g
<1> QED
  BY <1>1, <1>2, <1>3, <1>4, <1>5, <1>6, <1>7, <1>8 DEF ClientStep, OnClient
-----------------------------------------------------------------------------
(* How the messages about a stream are counted.                            *)

LEMMA CountsTyped ==
  ASSUME NEW q \in Seq(ToClientMessages), NEW r \in Seq(ToServerMessages), NEW s \in Streams
  PROVE  /\ \A m : Count(q, m) \in Nat /\ Count(r, m) \in Nat
         /\ s \notin Writes => Count(q, Message("write-close", s, FALSE)) = 0
         /\ s \notin Inputs => Count(q, Message("read-cancel", s, FALSE)) = 0
         /\ s \in Outputs => Count(q, Message("read-open", s, FALSE)) = 0
         /\ s \in Reads => /\ Count(q, Message("write-open", s, FALSE)) = 0
                           /\ Count(q, Data(s)) = 0
         /\ \A e \in BOOLEAN :
              /\ s \notin Writes => Count(r, Message("write-done", s, e)) = 0
              /\ s \in Outputs => /\ Count(r, Message("read", s, e)) = 0
                                  /\ Count(r, Message("read-done", s, e)) = 0
              /\ s \in Reads => Count(r, Message("write-ready", s, e)) = 0
              /\ e => Count(r, Message("read", s, e)) = 0
<1>1. \A m : Count(q, m) \in Nat /\ Count(r, m) \in Nat
  BY CountProperties
<1>2. \A m : m \notin ToClientMessages => Count(q, m) = 0
  <2>1. \A i \in DOMAIN q : q[i] \in ToClientMessages
    OBVIOUS
  <2> QED BY <2>1, CountProperties DEF Within, Any
<1>3. \A m : m \notin ToServerMessages => Count(r, m) = 0
  <2>1. \A i \in DOMAIN r : r[i] \in ToServerMessages
    OBVIOUS
  <2> QED BY <2>1, CountProperties DEF Within, Any
<1>4. /\ s \notin Writes => Message("write-close", s, FALSE) \notin ToClientMessages
      /\ s \notin Inputs => Message("read-cancel", s, FALSE) \notin ToClientMessages
      /\ s \in Outputs => Message("read-open", s, FALSE) \notin ToClientMessages
      /\ s \in Reads => /\ Message("write-open", s, FALSE) \notin ToClientMessages
                        /\ Data(s) \notin ToClientMessages
  BY MessagesToClient, StreamsAre DEF Data
<1>5. ASSUME NEW e \in BOOLEAN
      PROVE  /\ s \notin Writes => Message("write-done", s, e) \notin ToServerMessages
             /\ s \in Outputs => /\ Message("read", s, e) \notin ToServerMessages
                                 /\ Message("read-done", s, e) \notin ToServerMessages
             /\ s \in Reads => Message("write-ready", s, e) \notin ToServerMessages
             /\ e => Message("read", s, e) \notin ToServerMessages
  BY MessagesToServer, StreamsAre
<1> QED BY <1>1, <1>2, <1>3, <1>4, <1>5

(* A message about s is sent, or is read, and what is written is pushed.   *)
LEMMA AskedSent ==
  ASSUME Typed, NEW s, NEW t, Message(t, s, FALSE) \in ToClientMessages,
         toClient' = Append(toClient, Message(t, s, FALSE))
  PROVE  /\ \A u : Asked(u, s)' = IF u = t THEN Asked(u, s) + 1 ELSE Asked(u, s)
         /\ CloseLast(s) /\ t # "write" => CloseLast(s)'
<1>1. toClient \in Seq(ToClientMessages)
  BY DEF Typed, QueuesTyped
<1>2. \A u : (Message(t, s, FALSE) = Message(u, s, FALSE)) <=> (u = t)
  BY DEF Message
<1>3. \A u : Count(toClient', Message(u, s, FALSE)) =
               IF u = t THEN Asked(u, s) + 1 ELSE Asked(u, s)
  <2> DEFINE m == Message(t, s, FALSE)
  <2>1. m \in ToClientMessages /\ toClient' = Append(toClient, m)
    OBVIOUS
  <2>2. \A u : (m = Message(u, s, FALSE)) <=> (u = t)
    BY <1>2
  <2> HIDE DEF m
  <2>3. \A x \in ToClientMessages : \A n :
          Count(Append(toClient, x), n) =
            IF x = n THEN Count(toClient, n) + 1 ELSE Count(toClient, n)
    BY <1>1, CountAppend
  <2>4. \A n : Count(toClient', n) =
                 IF m = n THEN Count(toClient, n) + 1 ELSE Count(toClient, n)
    BY <2>1, <2>3
  <2> QED BY <2>2, <2>4 DEF Asked
<1>4. Close(s) # Data(s)
  BY DEF Close, Data, Message
<1>5. ASSUME Last(toClient, Close(s), Data(s)), t # "write"
      PROVE  Last(toClient', Close(s), Data(s))
  <2>1. Message(t, s, FALSE) # Data(s)
    BY <1>5 DEF Data, Message
  <2> QED BY <2>1, <1>1, <1>4, <1>5, LastAppend
<1> QED BY <1>3, <1>5 DEF Asked, CloseLast, Close

LEMMA AskedPushed ==
  ASSUME Typed, NEW s \in Outputs, NEW f, NEW k \in Nat, toClient' = toClient \o Pushed(f, s, k)
  PROVE  /\ \A u : Asked(u, s)' = IF u = "write" THEN Asked(u, s) + k
                                  ELSE IF u = "write-close" /\ k = f.buffer /\ s > 2
                                  THEN Asked(u, s) + 1
                                  ELSE Asked(u, s)
         /\ Asked("write-close", s) = 0 => CloseLast(s)'
<1> DEFINE closes == k = f.buffer /\ s > 2
<1> DEFINE q == toClient \o Repeated(k, Data(s))
<1>1. toClient \in Seq(ToClientMessages)
  BY DEF Typed, QueuesTyped
<1>2. toClient' = IF closes THEN Append(q, Close(s)) ELSE q
  BY <1>1, PushedIs
<1>3. Data(s) \in ToClientMessages /\ (closes => Close(s) \in ToClientMessages)
  BY StreamsAre, MessagesSent DEF Data, Close
<1>4. /\ \A u : (Data(s) = Message(u, s, FALSE)) <=> (u = "write")
      /\ \A u : (Close(s) = Message(u, s, FALSE)) <=> (u = "write-close")
      /\ Close(s) # Data(s)
  BY DEF Data, Close, Message
<1>5. /\ q \in Seq(ToClientMessages)
      /\ \A m : Count(q, m) = IF Data(s) = m THEN Count(toClient, m) + k ELSE Count(toClient, m)
  BY <1>1, <1>3, CountRepeated
<1>6. ASSUME Asked("write-close", s) = 0 PROVE Last(q, Close(s), Data(s))
  <2>1. ~Within(toClient, Close(s))
    BY <1>1, <1>6, CountProperties DEF Asked, Close
  <2>2. Last(toClient, Close(s), Data(s))
    BY <2>1 DEF Last, Within, Any
  <2> QED BY <2>1, <2>2, <1>1, <1>3, <1>4, LastRepeated
<1> HIDE DEF q
<1>7. \A u : Count(q, Message(u, s, FALSE)) =
               IF u = "write" THEN Asked(u, s) + k ELSE Asked(u, s)
  BY <1>4, <1>5 DEF Asked
<1>8. CASE ~closes
  BY <1>2, <1>6, <1>7, <1>8 DEF Asked, CloseLast, Close
<1>9. CASE closes
  <2>1. \A u : Count(Append(q, Close(s)), Message(u, s, FALSE)) =
                 IF u = "write-close" THEN Count(q, Message(u, s, FALSE)) + 1
                 ELSE Count(q, Message(u, s, FALSE))
    <3>1. \A n : Count(Append(q, Close(s)), n) =
                   IF Close(s) = n THEN Count(q, n) + 1 ELSE Count(q, n)
      BY <1>3, <1>5, <1>9, CountAppend
    <3> QED BY <3>1, <1>4
  <2>2. \A u : Asked(u, s)' = IF u = "write" THEN Asked(u, s) + k
                              ELSE IF u = "write-close" THEN Asked(u, s) + 1 ELSE Asked(u, s)
    BY <2>1, <1>2, <1>7, <1>9 DEF Asked
  <2>3. Last(q, Close(s), Data(s)) => Last(Append(q, Close(s)), Close(s), Data(s))
    BY <1>3, <1>4, <1>5, <1>9, LastAppend
  <2> QED BY <2>2, <2>3, <1>2, <1>6, <1>9 DEF CloseLast, Close
<1> QED BY <1>8, <1>9

LEMMA AskedRead ==
  ASSUME Typed, NEW s, NEW t, ToClient(Message(t, s, FALSE))
  PROVE  /\ Message(t, s, FALSE) \in ToClientMessages
         /\ Asked(t, s)' \in Nat
         /\ \A u : Asked(u, s) = IF u = t THEN Asked(u, s)' + 1 ELSE Asked(u, s)'
         /\ CloseLast(s) => CloseLast(s)' /\ (t = "write-close" => Asked("write", s) = 0)
<1>1. /\ toClient \in Seq(ToClientMessages) /\ toClient # <<>>
      /\ Head(toClient) = Message(t, s, FALSE) /\ toClient' = Tail(toClient)
      /\ Head(toClient) \in ToClientMessages
  BY ReadsMessage DEF Typed, QueuesTyped, ToClient
<1>2. \A u : (Message(t, s, FALSE) = Message(u, s, FALSE)) <=> (u = t)
  BY DEF Message
<1>3. \A u : Count(toClient, Message(u, s, FALSE)) =
               IF u = t THEN Count(toClient', Message(u, s, FALSE)) + 1
               ELSE Count(toClient', Message(u, s, FALSE))
  BY <1>1, <1>2, CountTail
<1>4. Close(s) # Data(s)
  BY DEF Close, Data, Message
<1>5. ASSUME Last(toClient, Close(s), Data(s))
      PROVE  /\ Last(toClient', Close(s), Data(s))
             /\ Head(toClient) = Close(s) => Count(toClient, Data(s)) = 0
  BY <1>1, <1>4, <1>5, LastTail
<1>6. \A u : Asked(u, s) = IF u = t THEN Asked(u, s)' + 1 ELSE Asked(u, s)'
  BY <1>3 DEF Asked
<1>7. CloseLast(s) => CloseLast(s)' /\ (t = "write-close" => Asked("write", s) = 0)
  BY <1>1, <1>5 DEF Asked, CloseLast, Close, Data
<1>8. Tail(toClient) \in Seq(ToClientMessages)
  BY <1>1
<1>9. Asked(t, s)' \in Nat
  BY <1>1, <1>8, CountProperties DEF Asked
<1> QED BY <1>1, <1>6, <1>7, <1>9

LEMMA SaidReply ==
  ASSUME Typed, NEW s \in Streams, NEW t,
         Message(t, s, FALSE) \in ToServerMessages, Reply(Message(t, s, FALSE))
  PROVE  /\ \A u : Said(u, s)' = IF Alive /\ u = t THEN Said(u, s) + 1 ELSE Said(u, s)
         /\ \A u : SaidError(u, s)' = SaidError(u, s)
         /\ DoneLast(s) /\ (t = "read" => Said("read-done", s) = 0 /\ SaidError("read-done", s) = 0)
              => DoneLast(s)'
<1> DEFINE m == Message(t, s, FALSE)
<1>1. /\ toServer \in Seq(ToServerMessages) /\ m \in ToServerMessages
      /\ toServer' = IF Alive THEN Append(toServer, m) ELSE toServer
  BY DEF Typed, QueuesTyped, Reply
<1>2. /\ \A u : (m = Message(u, s, FALSE)) <=> (u = t)
      /\ \A u : m # Message(u, s, TRUE)
  BY DEF Message
<1>3. /\ Message("read-done", s, FALSE) # Message("read", s, FALSE)
      /\ Message("read-done", s, TRUE) # Message("read", s, FALSE)
      /\ t # "read" => m # Message("read", s, FALSE)
  BY DEF Message
<1> HIDE DEF m
<1>4. \A n : Count(toServer', n) = IF Alive /\ m = n THEN Count(toServer, n) + 1 ELSE Count(toServer, n)
  BY <1>1, CountAppend
<1>5. /\ \A u : Said(u, s)' = IF Alive /\ u = t THEN Said(u, s) + 1 ELSE Said(u, s)
      /\ \A u : SaidError(u, s)' = SaidError(u, s)
  BY <1>2, <1>4 DEF Said, SaidError
<1>6. ASSUME NEW n, n # Message("read", s, FALSE), Last(toServer, n, Message("read", s, FALSE)),
             t = "read" => Count(toServer, n) = 0
      PROVE  Last(toServer', n, Message("read", s, FALSE))
  <2>1. t = "read" => ~Within(toServer, n)
    BY <1>6, <1>1, CountProperties
  <2> QED BY <2>1, <1>1, <1>3, <1>6, LastAppend
<1>7. ASSUME DoneLast(s), t = "read" => Said("read-done", s) = 0 /\ SaidError("read-done", s) = 0
      PROVE  DoneLast(s)'
  <2>1. Last(toServer', Message("read-done", s, FALSE), Message("read", s, FALSE))
    BY <1>3, <1>6, <1>7 DEF DoneLast, Said
  <2>2. Last(toServer', Message("read-done", s, TRUE), Message("read", s, FALSE))
    BY <1>3, <1>6, <1>7 DEF DoneLast, SaidError
  <2> QED BY <2>1, <2>2 DEF DoneLast
<1> QED BY <1>5, <1>7

LEMMA ErrorReply ==
  ASSUME Typed, NEW s \in Streams, NEW t,
         Message(t, s, TRUE) \in ToServerMessages, Reply(Message(t, s, TRUE))
  PROVE  /\ \A u : SaidError(u, s)' = IF Alive /\ u = t THEN SaidError(u, s) + 1 ELSE SaidError(u, s)
         /\ \A u : Said(u, s)' = Said(u, s)
         /\ DoneLast(s) => DoneLast(s)'
<1> DEFINE m == Message(t, s, TRUE)
<1>1. /\ toServer \in Seq(ToServerMessages) /\ m \in ToServerMessages
      /\ toServer' = IF Alive THEN Append(toServer, m) ELSE toServer
  BY DEF Typed, QueuesTyped, Reply
<1>2. /\ \A u : (m = Message(u, s, TRUE)) <=> (u = t)
      /\ \A u : m # Message(u, s, FALSE)
  BY DEF Message
<1>3. /\ Message("read-done", s, FALSE) # Message("read", s, FALSE)
      /\ Message("read-done", s, TRUE) # Message("read", s, FALSE)
  BY DEF Message
<1> HIDE DEF m
<1>4. \A n : Count(toServer', n) = IF Alive /\ m = n THEN Count(toServer, n) + 1 ELSE Count(toServer, n)
  BY <1>1, CountAppend
<1>5. /\ \A u : SaidError(u, s)' = IF Alive /\ u = t THEN SaidError(u, s) + 1 ELSE SaidError(u, s)
      /\ \A u : Said(u, s)' = Said(u, s)
  BY <1>2, <1>4 DEF Said, SaidError
<1>6. ASSUME NEW n, n # Message("read", s, FALSE), Last(toServer, n, Message("read", s, FALSE))
      PROVE  Last(toServer', n, Message("read", s, FALSE))
  BY <1>1, <1>2, <1>6, LastAppend
<1> QED BY <1>3, <1>5, <1>6 DEF DoneLast

LEMMA SaidRead ==
  ASSUME Typed, NEW s \in Streams, NEW t, FromClient(Message(t, s, FALSE))
  PROVE  /\ Message(t, s, FALSE) \in ToServerMessages
         /\ Said(t, s)' \in Nat
         /\ \A u : Said(u, s) = IF u = t THEN Said(u, s)' + 1 ELSE Said(u, s)'
         /\ \A u : SaidError(u, s) = SaidError(u, s)'
         /\ DoneLast(s) => DoneLast(s)' /\ (t = "read-done" => Said("read", s) = 0)
<1> DEFINE m == Message(t, s, FALSE)
<1>1. /\ toServer \in Seq(ToServerMessages) /\ toServer # <<>>
      /\ Head(toServer) = m /\ toServer' = Tail(toServer) /\ m \in ToServerMessages
  BY ReadsMessage DEF Typed, QueuesTyped, FromClient
<1>2. /\ \A u : (m = Message(u, s, FALSE)) <=> (u = t)
      /\ \A u : m # Message(u, s, TRUE)
  BY DEF Message
<1>3. /\ Message("read-done", s, FALSE) # Message("read", s, FALSE)
      /\ Message("read-done", s, TRUE) # Message("read", s, FALSE)
  BY DEF Message
<1>4. m = Message(t, s, FALSE)
  OBVIOUS
<1> HIDE DEF m
<1>5. \A n : Count(toServer, n) = IF m = n THEN Count(toServer', n) + 1 ELSE Count(toServer', n)
  BY <1>1, CountTail
<1>6. /\ \A u : Said(u, s) = IF u = t THEN Said(u, s)' + 1 ELSE Said(u, s)'
      /\ \A u : SaidError(u, s) = SaidError(u, s)'
  BY <1>2, <1>5 DEF Said, SaidError
<1>7. Tail(toServer) \in Seq(ToServerMessages)
  BY <1>1
<1>8. Said(t, s)' \in Nat
  BY <1>1, <1>7, CountProperties DEF Said
<1>9. ASSUME NEW n, n # Message("read", s, FALSE), Last(toServer, n, Message("read", s, FALSE))
      PROVE  /\ Last(toServer', n, Message("read", s, FALSE))
             /\ m = n => Count(toServer, Message("read", s, FALSE)) = 0
  BY <1>1, <1>9, LastTail
<1>10. DoneLast(s) => DoneLast(s)'
  BY <1>3, <1>9 DEF DoneLast
<1>11. DoneLast(s) /\ t = "read-done" => Said("read", s) = 0
  BY <1>3, <1>4, <1>9 DEF DoneLast, Said
<1> QED BY <1>1, <1>4, <1>6, <1>8, <1>10, <1>11

LEMMA ErrorRead ==
  ASSUME Typed, NEW s \in Streams, NEW t, FromClient(Message(t, s, TRUE))
  PROVE  /\ Message(t, s, TRUE) \in ToServerMessages
         /\ SaidError(t, s)' \in Nat
         /\ \A u : SaidError(u, s) = IF u = t THEN SaidError(u, s)' + 1 ELSE SaidError(u, s)'
         /\ \A u : Said(u, s) = Said(u, s)'
         /\ DoneLast(s) => DoneLast(s)' /\ (t = "read-done" => Said("read", s) = 0)
<1> DEFINE m == Message(t, s, TRUE)
<1>1. /\ toServer \in Seq(ToServerMessages) /\ toServer # <<>>
      /\ Head(toServer) = m /\ toServer' = Tail(toServer) /\ m \in ToServerMessages
  BY ReadsMessage DEF Typed, QueuesTyped, FromClient
<1>2. /\ \A u : (m = Message(u, s, TRUE)) <=> (u = t)
      /\ \A u : m # Message(u, s, FALSE)
  BY DEF Message
<1>3. /\ Message("read-done", s, FALSE) # Message("read", s, FALSE)
      /\ Message("read-done", s, TRUE) # Message("read", s, FALSE)
  BY DEF Message
<1>4. m = Message(t, s, TRUE)
  OBVIOUS
<1> HIDE DEF m
<1>5. \A n : Count(toServer, n) = IF m = n THEN Count(toServer', n) + 1 ELSE Count(toServer', n)
  BY <1>1, CountTail
<1>6. /\ \A u : SaidError(u, s) = IF u = t THEN SaidError(u, s)' + 1 ELSE SaidError(u, s)'
      /\ \A u : Said(u, s) = Said(u, s)'
  BY <1>2, <1>5 DEF Said, SaidError
<1>7. Tail(toServer) \in Seq(ToServerMessages)
  BY <1>1
<1>8. SaidError(t, s)' \in Nat
  BY <1>1, <1>7, CountProperties DEF SaidError
<1>9. ASSUME NEW n, n # Message("read", s, FALSE), Last(toServer, n, Message("read", s, FALSE))
      PROVE  /\ Last(toServer', n, Message("read", s, FALSE))
             /\ m = n => Count(toServer, Message("read", s, FALSE)) = 0
  BY <1>1, <1>9, LastTail
<1>10. DoneLast(s) => DoneLast(s)'
  BY <1>3, <1>9 DEF DoneLast
<1>11. DoneLast(s) /\ t = "read-done" => Said("read", s) = 0
  BY <1>3, <1>4, <1>9 DEF DoneLast, Said
<1> QED BY <1>1, <1>4, <1>6, <1>8, <1>10, <1>11

LEMMA SilentIs ==
  ASSUME NEW s
  PROVE  /\ SilentClient(s) <=>
              /\ Asked("write-open", s) = 0 /\ Asked("write", s) = 0 /\ Asked("write-close", s) = 0
              /\ Asked("read-open", s) = 0 /\ Asked("read-cancel", s) = 0
         /\ SilentServer(s) <=>
              /\ Said("write-ready", s) = 0 /\ SaidError("write-ready", s) = 0
              /\ Said("write-done", s) = 0 /\ SaidError("write-done", s) = 0
              /\ Said("read", s) = 0 /\ SaidError("read", s) = 0
              /\ Said("read-done", s) = 0 /\ SaidError("read-done", s) = 0
BY DEF SilentClient, SilentServer

LEMMA SilentWillBe ==
  ASSUME NEW s
  PROVE  /\ SilentClient(s)' <=>
              /\ Asked("write-open", s)' = 0 /\ Asked("write", s)' = 0 /\ Asked("write-close", s)' = 0
              /\ Asked("read-open", s)' = 0 /\ Asked("read-cancel", s)' = 0
         /\ SilentServer(s)' <=>
              /\ Said("write-ready", s)' = 0 /\ SaidError("write-ready", s)' = 0
              /\ Said("write-done", s)' = 0 /\ SaidError("write-done", s)' = 0
              /\ Said("read", s)' = 0 /\ SaidError("read", s)' = 0
              /\ Said("read-done", s)' = 0 /\ SaidError("read-done", s)' = 0
BY DEF SilentClient, SilentServer

(* A step that leaves s leaves what is invariant of it.                    *)
LEMMA LeftCounts ==
  ASSUME NEW s, StreamKept(s)
  PROVE  /\ \A t \in Kinds : Asked(t, s)' = Asked(t, s)
         /\ \A t \in Kinds : Said(t, s)' = Said(t, s) /\ SaidError(t, s)' = SaidError(t, s)
         /\ SilentClient(s)' <=> SilentClient(s)
         /\ SilentServer(s)' <=> SilentServer(s)
         /\ CloseLast(s) => CloseLast(s)'
         /\ DoneLast(s) => DoneLast(s)'
<1>1. /\ \A m \in About(s) : Count(toClient', m) = Count(toClient, m)
      /\ \A m \in About(s) : Count(toServer', m) = Count(toServer, m)
      /\ \A m \in About(s) : \A a \in About(s) \ {m} : Last(toClient, a, m) => Last(toClient', a, m)
      /\ \A m \in About(s) : \A a \in About(s) \ {m} : Last(toServer, a, m) => Last(toServer', a, m)
  BY DEF StreamKept, Alike
<1>2. \A t \in Kinds : Asked(t, s)' = Asked(t, s)
  BY <1>1, AboutIs DEF Asked
<1>3. \A t \in Kinds : Said(t, s)' = Said(t, s) /\ SaidError(t, s)' = SaidError(t, s)
  BY <1>1, AboutIs DEF Said, SaidError
<1>4. {"write-open", "write", "write-close", "read-open", "read-cancel", "write-ready",
       "write-done", "read", "read-done"} \subseteq Kinds
  BY DEF Kinds
<1>5. (SilentClient(s)' <=> SilentClient(s)) /\ (SilentServer(s)' <=> SilentServer(s))
  BY <1>2, <1>3, <1>4, SilentIs, SilentWillBe
<1>6. /\ \A e \in BOOLEAN : Message("read-done", s, e) # Message("read", s, FALSE)
      /\ Message("write-close", s, FALSE) # Data(s)
  BY DEF Message, Data
<1>7. CloseLast(s) => CloseLast(s)'
  BY <1>1, <1>4, <1>6, AboutIs DEF CloseLast, Data
<1>8. DoneLast(s) => DoneLast(s)'
  BY <1>1, <1>4, <1>6, AboutIs DEF DoneLast
<1> QED BY <1>2, <1>3, <1>5, <1>7, <1>8

LEMMA WriteLeft ==
  ASSUME NEW s, StreamKept(s), WriteSound(s)
  PROVE  WriteSound(s)'
<1>1. /\ files'[s] = files[s] /\ open'[s] = open[s]
      /\ given'[s] = given[s] /\ moved'[s] = moved[s] /\ result'[s] = result[s]
      /\ s \in used' <=> s \in used
      /\ Alive' => Alive
  BY DEF StreamKept
<1>2. waiting = {s} => waiting' = {s} /\ ("attached" \in flags' => "attached" \in flags)
  BY DEF StreamKept
<1>3. \A t \in Kinds : Asked(t, s)' = Asked(t, s)
  BY LeftCounts
<1>4. \A t \in Kinds : Said(t, s)' = Said(t, s) /\ SaidError(t, s)' = SaidError(t, s)
  BY LeftCounts
<1>5. /\ SilentClient(s)' <=> SilentClient(s)
      /\ SilentServer(s)' <=> SilentServer(s)
      /\ CloseLast(s) => CloseLast(s)'
  BY LeftCounts
<1>6. Unused(s) => Unused(s)'
  BY <1>1, <1>5 DEF Unused
<1>7. Ended(s) => Ended(s)'
  BY <1>1, <1>5 DEF Ended, Inert
<1>8. Waited(s) => Waited(s)' /\ ("attached" \in flags' => "attached" \in flags)
  BY <1>1, <1>2 DEF Waited
<1>9. Pending(s) => Pending(s)'
  BY <1>1, <1>8 DEF Pending
<1>10. Opening(s) => Opening(s)'
  BY <1>1, <1>3, <1>5, <1>9 DEF Opening, Kinds
<1>11. Readied(s) => Readied(s)'
  <2>1. /\ Said("write-ready", s)' = Said("write-ready", s)
        /\ SaidError("write-ready", s)' = SaidError("write-ready", s)
        /\ Said("write-done", s)' = Said("write-done", s)
        /\ SaidError("write-done", s)' = SaidError("write-done", s)
    BY <1>4 DEF Kinds
  <2> QED BY <2>1, <1>1, <1>5, <1>9 DEF Readied
<1>12. Sending(s) => Sending(s)'
  BY <1>1, <1>3, <1>5, <1>9 DEF Sending, Kinds
<1>13. Done(s) => Done(s)'
  BY <1>1, <1>4, <1>5, <1>9 DEF Done, Kinds
<1>14. WriteFired(s) => WriteFired(s)'
  BY <1>1, <1>5, <1>8 DEF WriteFired, Fired, Inert
<1>15. Opening(s) \/ Readied(s) \/ Sending(s) \/ Done(s) \/ WriteFired(s) => Waited(s)
  BY DEF Opening, Readied, Sending, Done, Pending, WriteFired, Fired
<1> HIDE DEF Unused, Ended, Waited, Opening, Readied, Sending, Done, WriteFired
<1> QED BY <1>1, <1>6, <1>7, <1>8, <1>10, <1>11, <1>12, <1>13, <1>14, <1>15 DEF WriteSound

LEMMA ReadLeft ==
  ASSUME NEW s, StreamKept(s), ReadSound(s)
  PROVE  ReadSound(s)'
<1>1. /\ files'[s] = files[s] /\ open'[s] = open[s]
      /\ given'[s] = given[s] /\ moved'[s] = moved[s] /\ result'[s] = result[s]
      /\ s \in used' <=> s \in used
      /\ (Alive' => Alive) /\ (pane' => pane)
      /\ client'.run # "gone" => client.run # "gone"
      /\ waiting = {s} => waiting' = {s}
  BY DEF StreamKept
<1>3. \A t \in Kinds : Asked(t, s)' = Asked(t, s)
  BY LeftCounts
<1>4. \A t \in Kinds : Said(t, s)' = Said(t, s) /\ SaidError(t, s)' = SaidError(t, s)
  BY LeftCounts
<1>5. /\ SilentClient(s)' <=> SilentClient(s)
      /\ SilentServer(s)' <=> SilentServer(s)
      /\ DoneLast(s) => DoneLast(s)'
  BY LeftCounts
<1>6. Unused(s) => Unused(s)'
  BY <1>1, <1>5 DEF Unused
<1>7. Ended(s) => Ended(s)'
  BY <1>1, <1>5 DEF Ended, Inert
<1>8. Waited(s) => Waited(s)'
  BY <1>1 DEF Waited
<1>9. Reading(s) => Reading(s)'
  BY <1>1, <1>8 DEF Reading, Pending
<1>10. Took(s)' = Took(s)
  BY <1>1 DEF Took
<1>11. ReadOpening(s) => ReadOpening(s)'
  BY <1>1, <1>3, <1>5, <1>9, <1>10 DEF ReadOpening, Kinds
<1>12. ReadsData(s) => ReadsData(s)'
  BY <1>1, <1>3, <1>4, <1>9, <1>10 DEF ReadsData, Kinds
<1>13. ReadEnding(s) => ReadEnding(s)'
  BY <1>1, <1>3, <1>4, <1>5, <1>9, <1>10 DEF ReadEnding, Inert, Kinds
<1>14. ReadFired(s) => ReadFired(s)'
  BY <1>1, <1>5, <1>8, <1>10 DEF ReadFired, Fired, Inert
<1>15. Abandoned(s) => Abandoned(s)'
  BY <1>1 DEF Abandoned
<1>16. /\ Asked("read-cancel", s)' = Asked("read-cancel", s)
       /\ Said("read", s)' = Said("read", s)
  BY <1>3, <1>4 DEF Kinds
<1> QED
  BY <1>1, <1>6, <1>7, <1>11, <1>12, <1>13, <1>14, <1>15, <1>16
     DEF ReadSound, ReadPhase, ReadBounds

(* The messages of an output, and of a read, by their types.                *)
LEMMA OutputCounts ==
  ASSUME QueuesTyped, NEW s \in Outputs
  PROVE  /\ \A t : Asked(t, s) \in Nat /\ Said(t, s) \in Nat /\ SaidError(t, s) \in Nat
         /\ SilentClient(s) <=>
              /\ Asked("write-open", s) = 0
              /\ Asked("write", s) = 0
              /\ Asked("write-close", s) = 0
         /\ SilentServer(s) <=>
              /\ Said("write-ready", s) = 0
              /\ SaidError("write-ready", s) = 0
              /\ Said("write-done", s) = 0
              /\ SaidError("write-done", s) = 0
<1>1. toClient \in Seq(ToClientMessages) /\ toServer \in Seq(ToServerMessages)
  BY DEF QueuesTyped
<1>2. s \in Streams
  BY StreamsAre
<1>3. \A t : Asked(t, s) \in Nat /\ Said(t, s) \in Nat /\ SaidError(t, s) \in Nat
  BY <1>1, <1>2, CountsTyped DEF Asked, Said, SaidError
<1>4. Asked("read-open", s) = 0 /\ Asked("read-cancel", s) = 0
  BY <1>1, <1>2, StreamsAre, CountsTyped DEF Asked, Reads
<1>5. /\ Said("read", s) = 0 /\ SaidError("read", s) = 0
      /\ Said("read-done", s) = 0 /\ SaidError("read-done", s) = 0
  BY <1>1, <1>2, CountsTyped DEF Said, SaidError
<1> QED BY <1>3, <1>4, <1>5, SilentIs

LEMMA ReadCounts ==
  ASSUME QueuesTyped, NEW s \in Reads
  PROVE  /\ \A t : Asked(t, s) \in Nat /\ Said(t, s) \in Nat /\ SaidError(t, s) \in Nat
         /\ SilentClient(s) <=>
              /\ Asked("read-open", s) = 0
              /\ Asked("read-cancel", s) = 0
         /\ SilentServer(s) <=>
              /\ Said("read", s) = 0
              /\ Said("read-done", s) = 0
              /\ SaidError("read-done", s) = 0
<1>1. toClient \in Seq(ToClientMessages) /\ toServer \in Seq(ToServerMessages)
  BY DEF QueuesTyped
<1>2. s \in Streams
  BY StreamsAre
<1>3. \A t : Asked(t, s) \in Nat /\ Said(t, s) \in Nat /\ SaidError(t, s) \in Nat
  BY <1>1, <1>2, CountsTyped DEF Asked, Said, SaidError
<1>4. Asked("write-open", s) = 0 /\ Asked("write", s) = 0 /\ Asked("write-close", s) = 0
  BY <1>1, <1>2, StreamsAre, CountsTyped DEF Asked, Data
<1>5. /\ Said("write-ready", s) = 0 /\ SaidError("write-ready", s) = 0
      /\ Said("write-done", s) = 0 /\ SaidError("write-done", s) = 0
      /\ SaidError("read", s) = 0
  <2>1. s \notin Writes
    BY StreamsAre
  <2>2. Said("write-ready", s) = 0 /\ SaidError("write-ready", s) = 0
    BY <1>1, <1>2, CountsTyped DEF Said, SaidError
  <2>3. Said("write-done", s) = 0 /\ SaidError("write-done", s) = 0
    BY <2>1, <1>1, <1>2, CountsTyped DEF Said, SaidError
  <2>4. TRUE \in BOOLEAN /\ SaidError("read", s) = 0
    BY <1>1, <1>2, CountsTyped DEF Said, SaidError
  <2> QED BY <2>2, <2>3, <2>4
<1> QED BY <1>3, <1>4, <1>5, SilentIs

LEMMA OutputCountsNext ==
  ASSUME QueuesTyped', NEW s \in Outputs
  PROVE  /\ \A t : Asked(t, s)' \in Nat /\ Said(t, s)' \in Nat /\ SaidError(t, s)' \in Nat
         /\ SilentClient(s)' <=>
              /\ Asked("write-open", s)' = 0
              /\ Asked("write", s)' = 0
              /\ Asked("write-close", s)' = 0
         /\ SilentServer(s)' <=>
              /\ Said("write-ready", s)' = 0
              /\ SaidError("write-ready", s)' = 0
              /\ Said("write-done", s)' = 0
              /\ SaidError("write-done", s)' = 0
<1>1. toClient' \in Seq(ToClientMessages) /\ toServer' \in Seq(ToServerMessages)
  BY DEF QueuesTyped
<1>2. s \in Streams
  BY StreamsAre
<1>3. \A t : Asked(t, s)' \in Nat /\ Said(t, s)' \in Nat /\ SaidError(t, s)' \in Nat
  BY <1>1, <1>2, CountsTyped DEF Asked, Said, SaidError
<1>4. Asked("read-open", s)' = 0 /\ Asked("read-cancel", s)' = 0
  BY <1>1, <1>2, StreamsAre, CountsTyped DEF Asked, Reads
<1>5. /\ Said("read", s)' = 0 /\ SaidError("read", s)' = 0
      /\ Said("read-done", s)' = 0 /\ SaidError("read-done", s)' = 0
  BY <1>1, <1>2, CountsTyped DEF Said, SaidError
<1> QED BY <1>3, <1>4, <1>5, SilentWillBe

LEMMA ReadCountsNext ==
  ASSUME QueuesTyped', NEW s \in Reads
  PROVE  /\ \A t : Asked(t, s)' \in Nat /\ Said(t, s)' \in Nat /\ SaidError(t, s)' \in Nat
         /\ SilentClient(s)' <=>
              /\ Asked("read-open", s)' = 0
              /\ Asked("read-cancel", s)' = 0
         /\ SilentServer(s)' <=>
              /\ Said("read", s)' = 0
              /\ Said("read-done", s)' = 0
              /\ SaidError("read-done", s)' = 0
<1>1. toClient' \in Seq(ToClientMessages) /\ toServer' \in Seq(ToServerMessages)
  BY DEF QueuesTyped
<1>2. s \in Streams
  BY StreamsAre
<1>3. \A t : Asked(t, s)' \in Nat /\ Said(t, s)' \in Nat /\ SaidError(t, s)' \in Nat
  BY <1>1, <1>2, CountsTyped DEF Asked, Said, SaidError
<1>4. Asked("write-open", s)' = 0 /\ Asked("write", s)' = 0 /\ Asked("write-close", s)' = 0
  BY <1>1, <1>2, StreamsAre, CountsTyped DEF Asked, Data
<1>5. /\ Said("write-ready", s)' = 0 /\ SaidError("write-ready", s)' = 0
      /\ Said("write-done", s)' = 0 /\ SaidError("write-done", s)' = 0
      /\ SaidError("read", s)' = 0
  <2>1. s \notin Writes
    BY StreamsAre
  <2>2. Said("write-ready", s)' = 0 /\ SaidError("write-ready", s)' = 0
    BY <1>1, <1>2, CountsTyped DEF Said, SaidError
  <2>3. Said("write-done", s)' = 0 /\ SaidError("write-done", s)' = 0
    BY <2>1, <1>1, <1>2, CountsTyped DEF Said, SaidError
  <2>4. TRUE \in BOOLEAN /\ SaidError("read", s)' = 0
    BY <1>1, <1>2, CountsTyped DEF Said, SaidError
  <2> QED BY <2>2, <2>3, <2>4
<1> QED BY <1>3, <1>4, <1>5, SilentWillBe
-----------------------------------------------------------------------------
(* Writes.                                                                 *)

Writing(s) == Opening(s) \/ Readied(s) \/ Sending(s) \/ Done(s) \/ WriteFired(s)

(* A write that something is still about has not been told of success.     *)
LEMMA WriteBusy ==
  ASSUME Typed, NEW s \in Writes, WriteSound(s),
         ~SilentClient(s) \/ ~SilentServer(s) \/ ~Inert(s) \/ files[s] # NoFile
  PROVE  /\ s \in used /\ result[s] # "ok"
         /\ result[s] # "none" => files[s] = NoFile
         /\ Alive /\ result[s] = "none" => "attached" \notin flags /\ Writing(s)
<1>1. s \in used
  BY DEF WriteSound, Unused, Inert, NotOpen
<1>2. result[s] # "ok"
  BY DEF WriteSound, Ended
<1> QED BY <1>1, <1>2 DEF WriteSound, Ended, Writing

LEMMA WriteGoesOn ==
  ASSUME NEW s, s \in used', ~files'[s].closed,
         result'[s] # "none" => files'[s] = NoFile /\ result'[s] # "ok",
         Alive' /\ result'[s] = "none" => "attached" \notin flags' /\ Writing(s)'
  PROVE  WriteSound(s)'
BY DEF WriteSound, Writing, Ended

LEMMA WaitedWillBe ==
  ASSUME NEW s
  PROVE  /\ Waited(s)' <=> /\ files'[s].here /\ files'[s].references = 1 + files'[s].pushes
                           /\ waiting' = {s} /\ result'[s] = "none"
         /\ Pending(s)' <=> Waited(s)' /\ files'[s].due = 0 /\ ~files'[s].error
         /\ Fired(s)' <=> /\ Waited(s)' /\ files'[s].due = 1 /\ files'[s].pushes = 0
                          /\ SilentClient(s)' /\ SilentServer(s)' /\ ~open'[s].event
BY DEF Waited, Pending, Fired, Inert

LEMMA SameQueue ==
  ASSUME NEW s
  PROVE  /\ UNCHANGED toClient =>
              /\ \A t : Asked(t, s)' = Asked(t, s)
              /\ CloseLast(s)' <=> CloseLast(s)
              /\ SilentClient(s)' <=> SilentClient(s)
         /\ UNCHANGED toServer =>
              /\ \A t : Said(t, s)' = Said(t, s) /\ SaidError(t, s)' = SaidError(t, s)
              /\ DoneLast(s)' <=> DoneLast(s)
              /\ SilentServer(s)' <=> SilentServer(s)
BY DEF Asked, Said, SaidError, CloseLast, DoneLast, SilentClient, SilentServer

LEMMA WriteOpened ==
  ASSUME Typed, Typed', NEW s \in Writes, WriteSound(s), FileWrite(s)
  PROVE  WriteSound(s)'
<1>a. s \in Outputs /\ s \in Streams /\ QueuesTyped /\ QueuesTyped'
  BY StreamsAre DEF Typed
<1>b. /\ files \in [Streams -> FileRecords] /\ given \in [Streams -> Nat]
      /\ result \in [Streams -> {"none", "ok", "error"}]
  BY DEF Typed, FilesTyped, HistoryTyped
<1> USE <1>a
<1>1. PICK n \in 0 .. MaxData : /\ Opens(s, "write-open", [NewFile EXCEPT !.buffer = n])
                                /\ given' = [given EXCEPT ![s] = n]
  BY DEF FileWrite
<1>2. /\ Alive /\ Alive' /\ "attached" \notin flags' /\ s \notin used /\ s \in used'
      /\ waiting' = {s} /\ UNCHANGED <<toServer, moved, result, open>>
  BY <1>1 DEF Opens, Quiet, Alive
<1>3. Unused(s)
  BY <1>2 DEF WriteSound
<1>4. /\ given'[s] = n /\ moved'[s] = 0 /\ result'[s] = "none" /\ open'[s] = NotOpen
      /\ SilentServer(s)'
  BY <1>1, <1>2, <1>3, <1>b, SameQueue DEF Unused
<1>5. CASE /\ files' = [files EXCEPT ![s] = [[NewFile EXCEPT !.buffer = n] EXCEPT !.kept = TRUE]]
           /\ toClient' = Append(toClient, Message("write-open", s, FALSE))
  <2>1. /\ files'[s].here /\ files'[s].buffer = n /\ ~files'[s].error /\ ~files'[s].closed
        /\ files'[s].references = 1 /\ files'[s].due = 0 /\ files'[s].pushes = 0
    BY <1>5, <1>b DEF NewFile, NoFile
  <2>2. \A u : Asked(u, s)' = IF u = "write-open" THEN Asked(u, s) + 1 ELSE Asked(u, s)
    BY <1>5, AskedSent, MessagesSent
  <2>3. Asked("write-open", s) = 0 /\ Asked("write", s) = 0 /\ Asked("write-close", s) = 0
    BY <1>3, OutputCounts DEF Unused
  <2>5. Asked("write-open", s)' = 1 /\ Asked("write", s)' = 0 /\ Asked("write-close", s)' = 0
    BY <2>2, <2>3
  <2>4. Opening(s)'
    BY <1>2, <1>4, <2>1, <2>5, WaitedWillBe DEF Opening
  <2> QED BY <1>2, <1>4, <2>1, <2>4, WriteGoesOn DEF Writing
<1>6. CASE /\ files' = [files EXCEPT ![s] = FireDone([[NewFile EXCEPT !.buffer = n] EXCEPT !.error = TRUE])]
           /\ UNCHANGED toClient
  <2>1. /\ files'[s].here /\ files'[s].error /\ ~files'[s].closed
        /\ files'[s].references = 1 /\ files'[s].due = 1 /\ files'[s].pushes = 0
    BY <1>6, <1>b DEF NewFile, NoFile, FireDone
  <2>2. SilentClient(s)' /\ ~open'[s].event
    BY <1>3, <1>4, <1>6, SameQueue DEF Unused, NotOpen
  <2>3. WriteFired(s)'
    BY <1>2, <1>4, <2>1, <2>2, WaitedWillBe DEF WriteFired
  <2> QED BY <1>2, <1>4, <2>1, <2>3, WriteGoesOn DEF Writing
<1> QED BY <1>1, <1>5, <1>6 DEF Opens

LEMMA WritePushedAgain ==
  ASSUME Typed, Typed', NEW s \in Writes, WriteSound(s), FilePushAgain(s)
  PROVE  WriteSound(s)'
<1>a. s \in Outputs /\ s \in Streams /\ s > 2 /\ QueuesTyped /\ QueuesTyped'
  BY StreamsAre DEF Typed
<1>b. files \in [Streams -> FileRecords] /\ files[s] \in FileRecords
  BY <1>a DEF Typed, FilesTyped
<1> USE <1>a
<1> DEFINE f == [files[s] EXCEPT !.pushes = @ - 1]
<1>1. UNCHANGED <<flags, used, waiting, result, given, moved, toServer, open>> /\ files[s].pushes > 0
  BY DEF FilePushAgain, history, Quiet
<1>2. files[s] # NoFile
  BY <1>1 DEF NoFile
<1>3. /\ s \in used /\ result[s] = "none" /\ ~files[s].closed
      /\ Alive => "attached" \notin flags /\ Writing(s)
  BY <1>2, WriteBusy DEF WriteSound
<1>4. /\ f.here <=> files[s].here
      /\ f.buffer = files[s].buffer /\ (f.error <=> files[s].error)
      /\ (f.closed <=> files[s].closed) /\ f.references = files[s].references
      /\ f.due = files[s].due /\ f.pushes = files[s].pushes - 1
      /\ f \in FileRecords
  BY <1>1, <1>b DEF FileRecords
<1> HIDE DEF f
<1>5. CASE ~Alive
  <2>1. files' = [files EXCEPT ![s] = Freed(f)]
    BY <1>5 DEF FilePushAgain, f
  <2>2. ~Freed(f).closed
    BY <1>3, <1>4 DEF Freed, NoFile, FileRecords
  <2>3. ~files'[s].closed
    BY <2>1, <2>2, <1>b
  <2>4. ~Alive'
    BY <1>1, <1>5 DEF Alive
  <2> QED BY <2>3, <2>4, <1>1, <1>3, WriteGoesOn
<1>6. CASE Alive
  <2>1. PICK k \in 0 .. f.buffer : /\ files' = [files EXCEPT ![s] = Freed(Push(f, k))]
                                   /\ toClient' = toClient \o Pushed(f, s, k)
    BY <1>6 DEF FilePushAgain, f
  <2>2. k \in Nat /\ k <= files[s].buffer /\ files[s].buffer \in Nat
    BY <1>4, <1>b DEF FileRecords
  <2>3. Sending(s)
    <3>1. Opening(s) \/ Readied(s) \/ Done(s) \/ WriteFired(s) => files[s].pushes = 0
      BY DEF Opening, Readied, Done, WriteFired, Fired
    <3> QED BY <3>1, <1>1, <1>3, <1>6 DEF Writing
  <2>4. /\ files[s].pushes = 1 /\ files[s].references = 2 /\ files[s].buffer > 0
        /\ files[s].due = 0 /\ ~files[s].error /\ files[s].here /\ waiting = {s}
        /\ Asked("write-close", s) = 0 /\ ~open[s].closed
    BY <2>3, <1>1 DEF Sending, Pending, Waited
  <2> DEFINE g == Push(f, k)
  <2>5. /\ g \in FileRecords /\ g.here /\ g.buffer = files[s].buffer - k /\ ~g.error /\ ~g.closed
        /\ g.due = 0 /\ g.references = IF k < files[s].buffer THEN 3 ELSE 2
        /\ g.pushes = IF k < files[s].buffer THEN 1 ELSE 0
    BY <1>3, <1>4, <2>4, PushTyped
  <2> HIDE DEF g
  <2>6. Freed(g) = [g EXCEPT !.references = @ - 1]
    BY <2>5 DEF Freed
  <2>7. files'[s] = [g EXCEPT !.references = @ - 1]
    BY <2>1, <2>6, <1>b DEF g
  <2>8. /\ files'[s].here /\ files'[s].buffer = files[s].buffer - k /\ ~files'[s].error
        /\ ~files'[s].closed /\ files'[s].due = 0
        /\ files'[s].references = IF k < files[s].buffer THEN 2 ELSE 1
        /\ files'[s].pushes = IF k < files[s].buffer THEN 1 ELSE 0
    BY <2>5, <2>7 DEF FileRecords
  <2>9. /\ Asked("write-open", s)' = Asked("write-open", s)
        /\ Asked("write", s)' = Asked("write", s) + k
        /\ Asked("write-close", s)' = IF k = files[s].buffer THEN 1 ELSE 0
        /\ CloseLast(s)'
    BY <2>1, <2>2, <2>4, <1>4, AskedPushed
  <2>10. SilentServer(s)'
    BY <2>3, <1>1, SameQueue DEF Sending
  <2>11. Pending(s)'
    BY <1>1, <1>3, <2>4, <2>8, WaitedWillBe
  <2>12. /\ open[s] \in OpenRecords /\ given[s] \in Nat /\ moved[s] \in Nat
         /\ Asked("write", s) \in Nat
    BY OutputCounts DEF Typed, OpensTyped, OpenTyped, HistoryTyped
  <2>13. open[s].event =>
           given'[s] = files'[s].buffer + Asked("write", s)' + open'[s].output + moved'[s]
    BY <2>2, <2>3, <2>8, <2>9, <2>12, <1>1 DEF Sending, OpenRecords
  <2>14. Sending(s)'
    BY <2>2, <2>3, <2>4, <2>8, <2>9, <2>10, <2>11, <2>13, <1>1 DEF Sending
  <2> QED BY <2>8, <2>14, <1>1, <1>3, <1>6, WriteGoesOn DEF Writing
<1> QED BY <1>5, <1>6

LEMMA WriteIsDone ==
  ASSUME Typed, Typed', NEW s \in Writes, WriteSound(s), FileDone(s)
  PROVE  WriteSound(s)'
<1>a. s \in Streams /\ s # Stdout /\ s \notin Inputs /\ s \notin Loads
  BY StreamsAre DEF Reads
<1>b. /\ files \in [Streams -> FileRecords] /\ files[s] \in FileRecords
      /\ result \in [Streams -> {"none", "ok", "error"}]
  BY <1>a DEF Typed, FilesTyped, HistoryTyped
<1> DEFINE f == [files[s] EXCEPT !.due = @ - 1]
<1>1. /\ files[s].due > 0 /\ files' = [files EXCEPT ![s] = Freed(f)]
      /\ UNCHANGED <<flags, toClient, toServer, open, moved, used, given>>
  BY <1>a DEF FileDone, Quiet
<1>2. files[s] # NoFile
  BY <1>1 DEF NoFile
<1>3. /\ s \in used /\ result[s] = "none" /\ ~files[s].closed
      /\ Alive => "attached" \notin flags /\ Writing(s)
  BY <1>2, WriteBusy DEF WriteSound
<1>4. /\ (f.error <=> files[s].error) /\ (f.closed <=> files[s].closed)
      /\ f.references = files[s].references
  BY <1>b DEF FileRecords
<1>5. result' = IF Alive THEN [result EXCEPT ![s] = IF f.error THEN "error" ELSE "ok"] ELSE result
  BY <1>a, <1>3, <1>4 DEF FileDone
<1>6. f \in FileRecords
  BY <1>1, <1>b DEF FileRecords
<1> HIDE DEF f
<1>7. files'[s] = Freed(f) /\ ~Freed(f).closed
  BY <1>1, <1>3, <1>4, <1>6, <1>a, <1>b DEF Freed, NoFile, FileRecords
<1>8. CASE ~Alive
  <2>1. ~Alive' /\ result' = result
    BY <1>1, <1>5, <1>8 DEF Alive
  <2> QED BY <2>1, <1>1, <1>3, <1>7, WriteGoesOn
<1>9. CASE Alive
  <2>1. WriteFired(s)
    <3>1. Opening(s) \/ Readied(s) \/ Sending(s) \/ Done(s) => files[s].due = 0
      BY DEF Opening, Readied, Sending, Done, Pending
    <3> QED BY <3>1, <1>1, <1>3, <1>9 DEF Writing
  <2>2. files[s].references = 1
    BY <2>1, <1>b DEF WriteFired, Fired, Waited, FileRecords
  <2>3. files'[s] = NoFile
    BY <2>2, <1>4, <1>7 DEF Freed
  <2>4. result'[s] = IF files[s].error THEN "error" ELSE "ok"
    BY <1>4, <1>5, <1>9, <1>a, <1>b
  <2>5. ~files[s].error => moved'[s] = given'[s]
    BY <2>1, <1>1 DEF WriteFired
  <2>6. SilentClient(s)' /\ SilentServer(s)' /\ Inert(s)'
    BY <2>1, <1>1, SameQueue DEF WriteFired, Fired, Inert
  <2>7. Ended(s)'
    BY <2>3, <2>4, <2>5, <2>6 DEF Ended
  <2>8. s \in used' /\ ~files'[s].closed /\ result'[s] # "none"
    BY <2>3, <2>4, <1>1, <1>3 DEF NoFile
  <2> QED BY <2>7, <2>8 DEF WriteSound
<1> QED BY <1>8, <1>9

Failing(f) == FireDone([f EXCEPT !.error = TRUE])
Finishing(f) == FireDone([f EXCEPT !.error = FALSE])
LEMMA FiredIs ==
  ASSUME NEW f \in FileRecords, NEW g
  PROVE  /\ g = Failing(f) =>
              /\ g.here <=> f.here
              /\ g.error /\ (g.closed <=> f.closed) /\ g.due = f.due + 1 /\ g.buffer = f.buffer
              /\ g.references = f.references /\ g.pushes = f.pushes /\ (g.kept <=> f.kept)
         /\ g = Finishing(f) =>
              /\ g.here <=> f.here
              /\ ~g.error /\ (g.closed <=> f.closed) /\ g.due = f.due + 1 /\ g.buffer = f.buffer
              /\ g.references = f.references /\ g.pushes = f.pushes /\ (g.kept <=> f.kept)
<1>1. ASSUME g = Failing(f)
      PROVE  /\ g.error = TRUE /\ g.here = f.here /\ g.closed = f.closed /\ g.kept = f.kept
             /\ g.due = f.due + 1 /\ g.buffer = f.buffer
             /\ g.references = f.references /\ g.pushes = f.pushes
  BY <1>1 DEF Failing, Finishing, FireDone, FileRecords
<1>2. ASSUME g = Finishing(f)
      PROVE  /\ g.error = FALSE /\ g.here = f.here /\ g.closed = f.closed /\ g.kept = f.kept
             /\ g.due = f.due + 1 /\ g.buffer = f.buffer
             /\ g.references = f.references /\ g.pushes = f.pushes
  BY <1>2 DEF Failing, Finishing, FireDone, FileRecords
<1> QED BY <1>1, <1>2

LEMMA ReadiedWhen ==
  ASSUME Typed, NEW s \in Writes, Writing(s),
         Said("write-ready", s) # 0 \/ SaidError("write-ready", s) # 0
  PROVE  Readied(s)
<1>1. ~SilentServer(s)
  BY DEF SilentServer
<1>2. ~Opening(s) /\ ~Sending(s) /\ ~WriteFired(s)
  BY <1>1 DEF Opening, Sending, WriteFired, Fired
<1>3. ~Done(s)
  BY DEF Done
<1> QED BY <1>2, <1>3 DEF Writing

LEMMA DoneWhen ==
  ASSUME Typed, NEW s \in Writes, Writing(s),
         Said("write-done", s) # 0 \/ SaidError("write-done", s) # 0
  PROVE  Done(s)
<1>1. ~SilentServer(s)
  BY DEF SilentServer
<1>2. ~Opening(s) /\ ~Sending(s) /\ ~WriteFired(s)
  BY <1>1 DEF Opening, Sending, WriteFired, Fired
<1>3. ~Readied(s)
  BY DEF Readied
<1> QED BY <1>2, <1>3 DEF Writing

LEMMA WriteIsReady ==
  ASSUME Typed, Typed', NEW s \in Writes, WriteSound(s), WriteReady(s, FALSE)
  PROVE  WriteSound(s)'
<1>a. s \in Outputs /\ s \in Streams /\ s > 2 /\ QueuesTyped /\ QueuesTyped'
  BY StreamsAre DEF Typed
<1>b. files \in [Streams -> FileRecords] /\ files[s] \in FileRecords
  BY <1>a DEF Typed, FilesTyped
<1> USE <1>a
<1> DEFINE f == files[s]
<1>1. /\ FromClient(Message("write-ready", s, FALSE)) /\ Alive
      /\ UNCHANGED <<flags, used, waiting, result, given, moved, open>>
  BY DEF WriteReady, FromClient, Quiet
<1>2. /\ Said("write-ready", s)' \in Nat
      /\ Said("write-ready", s) = Said("write-ready", s)' + 1
      /\ SaidError("write-ready", s) = SaidError("write-ready", s)'
      /\ Said("write-done", s)' = Said("write-done", s)
      /\ SaidError("write-done", s)' = SaidError("write-done", s)
  BY <1>1, SaidRead
<1>3. ~SilentServer(s)
  BY <1>2, OutputCounts
<1>4. /\ s \in used /\ result[s] # "ok" /\ ~files[s].closed
      /\ result[s] # "none" => files[s] = NoFile
      /\ result[s] = "none" => "attached" \notin flags /\ Writing(s)
  BY <1>1, <1>3, WriteBusy DEF WriteSound
<1>5. CASE result[s] # "none"
  <2>1. files' = files
    BY <1>4, <1>5 DEF WriteReady, NoFile
  <2> QED BY <2>1, <1>1, <1>4, <1>5, WriteGoesOn
<1>6. CASE result[s] = "none"
  <2>1. Readied(s)
    BY <1>2, <1>4, <1>6, ReadiedWhen
  <2>2. f.here /\ f.references = 1 /\ f.pushes = 0 /\ f.due = 0 /\ ~f.error /\ waiting = {s}
    BY <2>1, <1>b DEF Readied, Pending, Waited, FileRecords
  <2>3. /\ f.buffer = given[s] /\ moved[s] = 0 /\ open[s].output = 0
        /\ ~open[s].closed /\ ~open[s].error /\ SilentClient(s)
        /\ Said("write-ready", s) + SaidError("write-ready", s) <= 1
        /\ Said("write-ready", s) = 1 => open[s].event
        /\ SaidError("write-done", s) = 0 /\ Said("write-done", s) = 0
    BY <2>1 DEF Readied
  <2>4. Said("write-ready", s) = 1 /\ SaidError("write-ready", s) = 0
    BY <2>3, <1>2, OutputCounts
  <2>5. SilentServer(s)'
    BY <2>3, <2>4, <1>2, OutputCountsNext
  <2>6. PICK k \in 0 .. f.buffer : /\ files' = [files EXCEPT ![s] = Push(f, k)]
                                   /\ toClient' = toClient \o Pushed(f, s, k)
    BY <2>2 DEF WriteReady
  <2>7. k \in Nat /\ k <= f.buffer /\ f.buffer \in Nat
    BY <1>b DEF FileRecords
  <2>8. /\ files'[s].here /\ files'[s].buffer = f.buffer - k /\ ~files'[s].error
        /\ ~files'[s].closed /\ files'[s].due = 0
        /\ files'[s].references = IF k < f.buffer THEN 2 ELSE 1
        /\ files'[s].pushes = IF k < f.buffer THEN 1 ELSE 0
    BY <2>2, <2>6, <2>7, <1>4, <1>b, PushTyped
  <2>9. Asked("write-open", s) = 0 /\ Asked("write", s) = 0 /\ Asked("write-close", s) = 0
    BY <2>3, OutputCounts
  <2>10. /\ Asked("write-open", s)' = 0 /\ Asked("write", s)' = k
         /\ Asked("write-close", s)' = IF k = f.buffer THEN 1 ELSE 0
         /\ CloseLast(s)'
    BY <2>6, <2>7, <2>9, AskedPushed
  <2>11. Pending(s)'
    BY <2>2, <2>8, <1>1, <1>6, WaitedWillBe
  <2>12. open'[s] = open[s] /\ open[s].here /\ open[s].event = TRUE /\ open[s].error = FALSE
    <3>1. OpenTyped(s, open[s]) /\ open[s].event
      BY <2>3, <2>4 DEF Typed, OpensTyped
    <3>2. open[s].here
      BY <3>1 DEF OpenTyped, NotOpen
    <3>3. open[s].event = TRUE /\ open[s].error = FALSE
      BY <3>1, <2>3 DEF OpenTyped, OpenRecords
    <3> QED BY <3>2, <3>3, <1>1
  <2>13. given'[s] = files'[s].buffer + Asked("write", s)' + open'[s].output + moved'[s]
    BY <2>3, <2>7, <2>8, <2>10, <2>12, <1>1
  <2>14. Sending(s)'
    <3>1. /\ files'[s].pushes = IF files'[s].buffer > 0 THEN 1 ELSE 0
          /\ files'[s].buffer > 0 => Asked("write-close", s)' = 0
          /\ files'[s].buffer = 0 => Asked("write-close", s)' = 1
          /\ Asked("write-close", s)' <= 1
      BY <2>7, <2>8, <2>10
    <3>2. ~open'[s].closed /\ (open'[s].event = ~open'[s].error) /\ open'[s].here
      BY <2>3, <2>12
    <3> QED BY <3>1, <3>2, <2>5, <2>10, <2>11, <2>13 DEF Sending
  <2> QED BY <2>8, <2>14, <1>1, <1>4, <1>6, WriteGoesOn DEF Writing
<1> QED BY <1>5, <1>6

LEMMA WriteIsNotReady ==
  ASSUME Typed, Typed', NEW s \in Writes, WriteSound(s), WriteReady(s, TRUE)
  PROVE  WriteSound(s)'
<1>a. s \in Outputs /\ s \in Streams /\ QueuesTyped /\ QueuesTyped'
  BY StreamsAre DEF Typed
<1>b. files \in [Streams -> FileRecords] /\ files[s] \in FileRecords
  BY <1>a DEF Typed, FilesTyped
<1> USE <1>a
<1> DEFINE f == files[s]
<1>m. FromClient(Message("write-ready", s, TRUE))
  BY DEF WriteReady
<1>1. /\ Alive /\ UNCHANGED <<flags, used, waiting, result, given, moved, open, toClient>>
      /\ files' = IF f.here THEN [files EXCEPT ![s] = Failing(f)] ELSE files
  BY DEF WriteReady, FromClient, Quiet, Failing, Finishing
<1>2. /\ SaidError("write-ready", s)' \in Nat
      /\ SaidError("write-ready", s) = SaidError("write-ready", s)' + 1
      /\ Said("write-ready", s) = Said("write-ready", s)'
      /\ Said("write-done", s)' = Said("write-done", s)
      /\ SaidError("write-done", s)' = SaidError("write-done", s)
  BY <1>m, ErrorRead
<1>3. ~SilentServer(s)
  BY <1>2, OutputCounts
<1>4. /\ s \in used /\ result[s] # "ok" /\ ~files[s].closed
      /\ result[s] # "none" => files[s] = NoFile
      /\ result[s] = "none" => "attached" \notin flags /\ Writing(s)
  BY <1>1, <1>3, WriteBusy DEF WriteSound
<1>5. CASE result[s] # "none"
  <2>1. files' = files
    BY <1>1, <1>4, <1>5 DEF NoFile
  <2> QED BY <2>1, <1>1, <1>4, <1>5, WriteGoesOn
<1>6. CASE result[s] = "none"
  <2>1. Readied(s)
    BY <1>2, <1>4, <1>6, ReadiedWhen
  <2>2. f.here /\ f.references = 1 /\ f.pushes = 0 /\ f.due = 0 /\ waiting = {s}
    BY <2>1, <1>b DEF Readied, Pending, Waited, FileRecords
  <2>3. /\ SilentClient(s)
        /\ Said("write-ready", s) + SaidError("write-ready", s) <= 1
        /\ SaidError("write-ready", s) = 1 => ~open[s].event
        /\ SaidError("write-done", s) = 0 /\ Said("write-done", s) = 0
    BY <2>1 DEF Readied
  <2>4. SaidError("write-ready", s) = 1 /\ Said("write-ready", s) = 0
    BY <2>3, <1>2, OutputCounts
  <2>5. SilentServer(s)'
    BY <2>3, <2>4, <1>2, OutputCountsNext
  <2>6. /\ files'[s].here /\ files'[s].error /\ ~files'[s].closed
        /\ files'[s].references = 1 /\ files'[s].due = 1 /\ files'[s].pushes = 0
    <3>1. files'[s] = Failing(f)
      BY <2>2, <1>1, <1>b
    <3> QED BY <3>1, <2>2, <1>4, <1>b, FiredIs
  <2>7. SilentClient(s)' /\ ~open'[s].event
    BY <2>3, <2>4, <1>1, SameQueue
  <2>8. WriteFired(s)'
    <3>1. Waited(s)'
      BY <2>2, <2>6, <1>1, <1>6, WaitedWillBe
    <3>2. Fired(s)'
      BY <3>1, <2>5, <2>6, <2>7, WaitedWillBe
    <3> QED BY <3>2, <2>6 DEF WriteFired
  <2> QED BY <2>6, <2>8, <1>1, <1>4, <1>6, WriteGoesOn DEF Writing
<1> QED BY <1>5, <1>6

LEMMA WriteTransferDone ==
  ASSUME Typed, Typed', NEW s \in Writes, WriteSound(s), TransferDone("write-done", s, FALSE)
  PROVE  WriteSound(s)'
<1>a. s \in Outputs /\ s \in Streams /\ QueuesTyped /\ QueuesTyped'
  BY StreamsAre DEF Typed
<1>b. files \in [Streams -> FileRecords] /\ files[s] \in FileRecords
  BY <1>a DEF Typed, FilesTyped
<1> USE <1>a
<1> DEFINE f == files[s]
<1>m. FromClient(Message("write-done", s, FALSE))
  BY DEF TransferDone
<1>1. /\ Alive /\ UNCHANGED <<flags, used, waiting, result, given, moved, open, toClient>>
      /\ files' = IF f.here THEN [files EXCEPT ![s] = Finishing(f)] ELSE files
  BY DEF TransferDone, FromClient, Quiet, Failing, Finishing
<1>2. /\ Said("write-done", s)' \in Nat
      /\ Said("write-done", s) = Said("write-done", s)' + 1
      /\ SaidError("write-done", s) = SaidError("write-done", s)'
      /\ Said("write-ready", s)' = Said("write-ready", s)
      /\ SaidError("write-ready", s)' = SaidError("write-ready", s)
  BY <1>m, SaidRead
<1>3. ~SilentServer(s)
  BY <1>2, OutputCounts
<1>4. /\ s \in used /\ result[s] # "ok" /\ ~files[s].closed
      /\ result[s] # "none" => files[s] = NoFile
      /\ result[s] = "none" => "attached" \notin flags /\ Writing(s)
  BY <1>1, <1>3, WriteBusy DEF WriteSound
<1>5. CASE result[s] # "none"
  <2>1. files' = files
    BY <1>1, <1>4, <1>5 DEF NoFile
  <2> QED BY <2>1, <1>1, <1>4, <1>5, WriteGoesOn
<1>6. CASE result[s] = "none"
  <2>1. Done(s)
    BY <1>2, <1>4, <1>6, DoneWhen
  <2>2. /\ f.here /\ f.references = 1 /\ f.pushes = 0 /\ f.due = 0 /\ f.buffer = 0
        /\ waiting = {s} /\ open[s] = NotOpen /\ SilentClient(s)
    BY <2>1, <1>b DEF Done, Pending, Waited, FileRecords
  <2>3. /\ Said("write-done", s) + SaidError("write-done", s) <= 1
        /\ Said("write-done", s) = 1 => moved[s] = given[s]
        /\ SaidError("write-ready", s) = 0 /\ Said("write-ready", s) = 0
    BY <2>1 DEF Done
  <2>4. Said("write-done", s) = 1 /\ SaidError("write-done", s) = 0
    BY <2>3, <1>2, OutputCounts
  <2>5. SilentServer(s)'
    BY <2>3, <2>4, <1>2, OutputCountsNext
  <2>6. /\ files'[s].here /\ ~files'[s].error /\ files'[s].buffer = 0 /\ ~files'[s].closed
        /\ files'[s].references = 1 /\ files'[s].due = 1 /\ files'[s].pushes = 0
    <3>1. files'[s] = Finishing(f)
      BY <2>2, <1>1, <1>b
    <3> QED BY <3>1, <2>2, <1>4, <1>b, FiredIs
  <2>7. SilentClient(s)' /\ ~open'[s].event
    BY <2>2, <1>1, SameQueue DEF NotOpen
  <2>8. moved'[s] = given'[s]
    BY <2>3, <2>4, <1>1
  <2>9. WriteFired(s)'
    <3>1. Waited(s)'
      BY <2>2, <2>6, <1>1, <1>6, WaitedWillBe
    <3>2. Fired(s)'
      BY <3>1, <2>5, <2>6, <2>7, WaitedWillBe
    <3> QED BY <3>2, <2>6, <2>8 DEF WriteFired
  <2> QED BY <2>6, <2>9, <1>1, <1>4, <1>6, WriteGoesOn DEF Writing
<1> QED BY <1>5, <1>6

LEMMA WriteTransferFailed ==
  ASSUME Typed, Typed', NEW s \in Writes, WriteSound(s), TransferDone("write-done", s, TRUE)
  PROVE  WriteSound(s)'
<1>a. s \in Outputs /\ s \in Streams /\ QueuesTyped /\ QueuesTyped'
  BY StreamsAre DEF Typed
<1>b. files \in [Streams -> FileRecords] /\ files[s] \in FileRecords
  BY <1>a DEF Typed, FilesTyped
<1> USE <1>a
<1> DEFINE f == files[s]
<1>m. FromClient(Message("write-done", s, TRUE))
  BY DEF TransferDone
<1>1. /\ Alive /\ UNCHANGED <<flags, used, waiting, result, given, moved, open, toClient>>
      /\ files' = IF f.here THEN [files EXCEPT ![s] = Failing(f)] ELSE files
  BY DEF TransferDone, FromClient, Quiet, Failing, Finishing
<1>2. /\ SaidError("write-done", s)' \in Nat
      /\ SaidError("write-done", s) = SaidError("write-done", s)' + 1
      /\ Said("write-done", s) = Said("write-done", s)'
      /\ Said("write-ready", s)' = Said("write-ready", s)
      /\ SaidError("write-ready", s)' = SaidError("write-ready", s)
  BY <1>m, ErrorRead
<1>3. ~SilentServer(s)
  BY <1>2, OutputCounts
<1>4. /\ s \in used /\ result[s] # "ok" /\ ~files[s].closed
      /\ result[s] # "none" => files[s] = NoFile
      /\ result[s] = "none" => "attached" \notin flags /\ Writing(s)
  BY <1>1, <1>3, WriteBusy DEF WriteSound
<1>5. CASE result[s] # "none"
  <2>1. files' = files
    BY <1>1, <1>4, <1>5 DEF NoFile
  <2> QED BY <2>1, <1>1, <1>4, <1>5, WriteGoesOn
<1>6. CASE result[s] = "none"
  <2>1. Done(s)
    BY <1>2, <1>4, <1>6, DoneWhen
  <2>2. /\ f.here /\ f.references = 1 /\ f.pushes = 0 /\ f.due = 0 /\ f.buffer = 0
        /\ waiting = {s} /\ open[s] = NotOpen /\ SilentClient(s)
    BY <2>1, <1>b DEF Done, Pending, Waited, FileRecords
  <2>3. /\ Said("write-done", s) + SaidError("write-done", s) <= 1
        /\ SaidError("write-ready", s) = 0 /\ Said("write-ready", s) = 0
    BY <2>1 DEF Done
  <2>4. SaidError("write-done", s) = 1 /\ Said("write-done", s) = 0
    BY <2>3, <1>2, OutputCounts
  <2>5. SilentServer(s)'
    BY <2>3, <2>4, <1>2, OutputCountsNext
  <2>6. /\ files'[s].here /\ files'[s].error /\ ~files'[s].closed
        /\ files'[s].references = 1 /\ files'[s].due = 1 /\ files'[s].pushes = 0
    <3>1. files'[s] = Failing(f)
      BY <2>2, <1>1, <1>b
    <3> QED BY <3>1, <2>2, <1>4, <1>b, FiredIs
  <2>7. SilentClient(s)' /\ ~open'[s].event
    BY <2>2, <1>1, SameQueue DEF NotOpen
  <2>9. WriteFired(s)'
    <3>1. Waited(s)'
      BY <2>2, <2>6, <1>1, <1>6, WaitedWillBe
    <3>2. Fired(s)'
      BY <3>1, <2>5, <2>6, <2>7, WaitedWillBe
    <3> QED BY <3>2, <2>6 DEF WriteFired
  <2> QED BY <2>6, <2>9, <1>1, <1>4, <1>6, WriteGoesOn DEF Writing
<1> QED BY <1>5, <1>6

(* The client's side.  A client that a command waits for is not attached.  *)
LEMMA Unattached ==
  ASSUME OwnerSound, "attached" \notin flags
  PROVE  ~client.attached
BY DEF OwnerSound

LEMMA WriteIsOpened ==
  ASSUME Typed, Typed', OwnerSound, NEW s \in Writes, WriteSound(s), FileOpen(s, FALSE)
  PROVE  WriteSound(s)'
<1>a. s \in Outputs /\ s \in Streams /\ QueuesTyped /\ QueuesTyped'
  BY StreamsAre DEF Typed
<1>b. /\ open \in [Streams -> OpenRecords] /\ OpenTyped(s, open[s])
      /\ open[s] \in OpenRecords /\ files[s] \in FileRecords
  BY <1>a DEF Typed, OpensTyped, OpenTyped, FilesTyped
<1> USE <1>a
<1>m. ToClient(Message("write-open", s, FALSE))
  BY DEF FileOpen
<1>1. /\ UNCHANGED <<flags, files, waiting, given, result, used, moved>>
      /\ (Alive' <=> Alive)
  BY DEF FileOpen, ToClient, server, Alive
<1>2. /\ Asked("write-open", s)' \in Nat
      /\ Asked("write-open", s) = Asked("write-open", s)' + 1
      /\ Asked("write", s) = Asked("write", s)'
      /\ Asked("write-close", s) = Asked("write-close", s)'
  BY <1>m, AskedRead
<1>3. ~SilentClient(s)
  BY <1>2, OutputCounts
<1>4. /\ s \in used /\ result[s] # "ok" /\ ~files[s].closed
      /\ result[s] # "none" => files[s] = NoFile
      /\ Alive /\ result[s] = "none" => "attached" \notin flags /\ Writing(s)
  BY <1>3, WriteBusy DEF WriteSound
<1>5. CASE ~(Alive /\ result[s] = "none")
  BY <1>1, <1>4, <1>5, WriteGoesOn
<1>6. CASE Alive /\ result[s] = "none"
  <2>1. Opening(s)
    <3>1. Sending(s) => Asked("write-open", s) = 0
      BY DEF Sending
    <3>2. ~Readied(s) /\ ~Done(s) /\ ~WriteFired(s)
      BY <1>3 DEF Readied, Done, WriteFired, Fired
    <3> QED BY <3>1, <3>2, <1>2, <1>4, <1>6 DEF Writing
  <2>2. ~client.attached
    BY <1>4, <1>6, Unattached
  <2>3. /\ Pending(s) /\ files[s].pushes = 0 /\ files[s].buffer = given[s] /\ moved[s] = 0
        /\ open[s] = NotOpen /\ SilentServer(s)
        /\ Asked("write-open", s) = 1 /\ Asked("write", s) = 0 /\ Asked("write-close", s) = 0
    BY <2>1 DEF Opening
  <2>4. SilentClient(s)'
    BY <2>3, <1>2, OutputCountsNext
  <2>5. Pending(s)'
    BY <2>3, <1>1, WaitedWillBe DEF Pending, Waited
  <2>6. /\ Said("write-ready", s) = 0 /\ SaidError("write-ready", s) = 0
        /\ Said("write-done", s) = 0 /\ SaidError("write-done", s) = 0
    BY <2>3, OutputCounts
  <2>7. CASE /\ open' = [open EXCEPT ![s] = [[NotOpen EXCEPT !.here = TRUE] EXCEPT !.event = TRUE]]
             /\ Reply(Message("write-ready", s, FALSE))
    <3>1. /\ Said("write-ready", s)' = 1 /\ SaidError("write-ready", s)' = 0
          /\ Said("write-done", s)' = 0 /\ SaidError("write-done", s)' = 0
      <4>1. Message("write-ready", s, FALSE) \in ToServerMessages
        BY MessagesSent
      <4>2. Reply(Message("write-ready", s, FALSE))
        BY <2>7
      <4>3. /\ \A u : Said(u, s)' = IF Alive /\ u = "write-ready" THEN Said(u, s) + 1 ELSE Said(u, s)
            /\ \A u : SaidError(u, s)' = SaidError(u, s)
        BY <4>1, <4>2, SaidReply
      <4> QED BY <4>3, <2>6, <1>6
    <3>2. open'[s].output = 0 /\ ~open'[s].closed /\ ~open'[s].error /\ open'[s].event
      BY <2>7, <1>b DEF NotOpen
    <3>3. Readied(s)'
      BY <2>3, <2>4, <2>5, <3>1, <3>2, <1>1 DEF Readied
    <3> QED BY <3>3, <1>1, <1>4, <1>6, WriteGoesOn DEF Writing
  <2>8. CASE /\ open' = [open EXCEPT ![s].here = TRUE]
             /\ Reply(Message("write-ready", s, TRUE))
    <3>1. /\ Said("write-ready", s)' = 0 /\ SaidError("write-ready", s)' = 1
          /\ Said("write-done", s)' = 0 /\ SaidError("write-done", s)' = 0
      <4>1. Message("write-ready", s, TRUE) \in ToServerMessages
        BY MessagesSent
      <4>2. Reply(Message("write-ready", s, TRUE))
        BY <2>8
      <4>3. /\ \A u : SaidError(u, s)' = IF Alive /\ u = "write-ready" THEN SaidError(u, s) + 1
                                         ELSE SaidError(u, s)
            /\ \A u : Said(u, s)' = Said(u, s)
        BY <4>1, <4>2, ErrorReply
      <4> QED BY <4>3, <2>6, <1>6
    <3>2. open'[s].output = 0 /\ ~open'[s].closed /\ ~open'[s].error /\ ~open'[s].event
      BY <2>3, <2>8, <1>b DEF NotOpen
    <3>3. Readied(s)'
      BY <2>3, <2>4, <2>5, <3>1, <3>2, <1>1 DEF Readied
    <3> QED BY <3>3, <1>1, <1>4, <1>6, WriteGoesOn DEF Writing
  <2> QED BY <2>2, <2>7, <2>8 DEF FileOpen
<1> QED BY <1>5, <1>6

LEMMA SendingWhen ==
  ASSUME NEW s, Writing(s),
         Asked("write", s) # 0 \/ Asked("write-close", s) # 0 \/ (open[s].event /\ open[s].output # 0)
  PROVE  Sending(s)
<1>1. ~Opening(s)
  BY DEF Opening, NotOpen
<1>2. ~Readied(s)
  BY DEF Readied, SilentClient
<1>3. ~Done(s)
  BY DEF Done, SilentClient, NotOpen
<1>4. ~WriteFired(s)
  BY DEF WriteFired, Fired, SilentClient, Inert
<1> QED BY <1>1, <1>2, <1>3, <1>4 DEF Writing

LEMMA WriteHasData ==
  ASSUME Typed, Typed', OwnerSound, NEW s \in Writes, WriteSound(s), FileWriteData(s)
  PROVE  WriteSound(s)'
<1>a. s \in Outputs /\ s \in Streams /\ QueuesTyped /\ QueuesTyped'
  BY StreamsAre DEF Typed
<1>b. /\ open \in [Streams -> OpenRecords] /\ OpenTyped(s, open[s])
      /\ open[s] \in OpenRecords /\ files[s] \in FileRecords
      /\ given[s] \in Nat /\ moved[s] \in Nat
  BY <1>a DEF Typed, OpensTyped, OpenTyped, FilesTyped, HistoryTyped
<1> USE <1>a
<1>m. ToClient(Message("write", s, FALSE))
  BY DEF FileWriteData
<1>1. /\ UNCHANGED <<flags, files, waiting, given, result, used, moved>>
      /\ (Alive' <=> Alive)
  BY DEF FileWriteData, ToClient, server, Alive
<1>2. /\ Asked("write", s)' \in Nat
      /\ Asked("write-open", s) = Asked("write-open", s)'
      /\ Asked("write", s) = Asked("write", s)' + 1
      /\ Asked("write-close", s) = Asked("write-close", s)'
      /\ CloseLast(s) => CloseLast(s)'
  BY <1>m, AskedRead
<1>3. ~SilentClient(s)
  BY <1>2, OutputCounts
<1>4. /\ s \in used /\ result[s] # "ok" /\ ~files[s].closed
      /\ result[s] # "none" => files[s] = NoFile
      /\ Alive /\ result[s] = "none" => "attached" \notin flags /\ Writing(s)
  BY <1>3, WriteBusy DEF WriteSound
<1>5. CASE ~(Alive /\ result[s] = "none")
  BY <1>1, <1>4, <1>5, WriteGoesOn
<1>6. CASE Alive /\ result[s] = "none"
  <2>1. Sending(s)
    BY <1>2, <1>4, <1>6, SendingWhen
  <2>2. ~client.attached /\ open[s].here /\ ~open[s].closed
    BY <2>1, <1>2, <1>4, <1>6, Unattached DEF Sending
  <2>3. /\ open' = [open EXCEPT ![s].output = @ + IF open[s].event THEN 1 ELSE 0]
        /\ UNCHANGED toServer
    BY <2>2 DEF FileWriteData, Known, Ignored
  <2>4. /\ open'[s].here /\ (open'[s].event <=> open[s].event) /\ (open'[s].error <=> open[s].error)
        /\ ~open'[s].closed /\ (open[s].event => open'[s].output = open[s].output + 1)
    BY <2>2, <2>3, <1>b DEF OpenRecords
  <2>5. Pending(s)' /\ SilentServer(s)'
    BY <2>1, <2>3, <1>1, WaitedWillBe, SameQueue DEF Sending, Pending, Waited
  <2>6. open'[s].event => given'[s] = files'[s].buffer + Asked("write", s)' + open'[s].output + moved'[s]
    BY <2>1, <2>4, <1>1, <1>2, <1>b DEF Sending, FileRecords, OpenRecords
  <2>7. open'[s].event = ~open'[s].error
    <3>1. open[s].event = ~open[s].error
      BY <2>1 DEF Sending
    <3>2. open'[s].event = open[s].event /\ open'[s].error = open[s].error
      BY <2>3, <1>b DEF OpenRecords
    <3> QED BY <3>1, <3>2
  <2>8. Sending(s)'
    BY <2>1, <2>4, <2>5, <2>6, <2>7, <1>1, <1>2, <2>2 DEF Sending
  <2> QED BY <2>8, <1>1, <1>4, <1>6, WriteGoesOn DEF Writing
<1> QED BY <1>5, <1>6

LEMMA DoneWillBe ==
  ASSUME Typed, Typed', NEW s \in Writes, Pending(s)', Alive,
         files'[s].pushes = 0, files'[s].buffer = 0, open'[s] = NotOpen,
         SilentClient(s)', SilentServer(s),
         \/ Reply(Message("write-done", s, FALSE)) /\ moved'[s] = given'[s]
         \/ Reply(Message("write-done", s, TRUE))
  PROVE  Done(s)'
<1>a. s \in Outputs /\ s \in Streams /\ QueuesTyped /\ QueuesTyped'
  BY StreamsAre DEF Typed
<1>1. /\ Said("write-ready", s) = 0 /\ SaidError("write-ready", s) = 0
      /\ Said("write-done", s) = 0 /\ SaidError("write-done", s) = 0
  BY <1>a, OutputCounts
<1>2. CASE Reply(Message("write-done", s, FALSE)) /\ moved'[s] = given'[s]
  <2>1. Message("write-done", s, FALSE) \in ToServerMessages
    BY MessagesSent
  <2>2. /\ \A u : Said(u, s)' = IF Alive /\ u = "write-done" THEN Said(u, s) + 1 ELSE Said(u, s)
        /\ \A u : SaidError(u, s)' = SaidError(u, s)
    BY <2>1, <1>2, <1>a, SaidReply
  <2>3. /\ Said("write-done", s)' = 1 /\ SaidError("write-done", s)' = 0
        /\ Said("write-ready", s)' = 0 /\ SaidError("write-ready", s)' = 0
    BY <2>2, <1>1
  <2> QED BY <2>3, <1>2 DEF Done
<1>3. CASE Reply(Message("write-done", s, TRUE))
  <2>1. Message("write-done", s, TRUE) \in ToServerMessages
    BY MessagesSent
  <2>2. /\ \A u : SaidError(u, s)' = IF Alive /\ u = "write-done" THEN SaidError(u, s) + 1
                                     ELSE SaidError(u, s)
        /\ \A u : Said(u, s)' = Said(u, s)
    BY <2>1, <1>3, <1>a, ErrorReply
  <2>3. /\ Said("write-done", s)' = 0 /\ SaidError("write-done", s)' = 1
        /\ Said("write-ready", s)' = 0 /\ SaidError("write-ready", s)' = 0
    BY <2>2, <1>1
  <2> QED BY <2>3 DEF Done
<1> QED BY <1>2, <1>3

LEMMA WriteIsClosed ==
  ASSUME Typed, Typed', OwnerSound, NEW s \in Writes, WriteSound(s), FileWriteClose(s)
  PROVE  WriteSound(s)'
<1>a. s \in Outputs /\ s \in Streams /\ QueuesTyped /\ QueuesTyped'
  BY StreamsAre DEF Typed
<1>b. /\ open \in [Streams -> OpenRecords] /\ OpenTyped(s, open[s])
      /\ open[s] \in OpenRecords /\ files[s] \in FileRecords
      /\ given[s] \in Nat /\ moved[s] \in Nat
  BY <1>a DEF Typed, OpensTyped, OpenTyped, FilesTyped, HistoryTyped
<1> USE <1>a
<1>m. ToClient(Message("write-close", s, FALSE))
  BY DEF FileWriteClose
<1>1. /\ UNCHANGED <<flags, files, waiting, given, result, used, moved>>
      /\ (Alive' <=> Alive)
  BY DEF FileWriteClose, ToClient, server, Alive
<1>2. /\ Asked("write-close", s)' \in Nat
      /\ Asked("write-open", s) = Asked("write-open", s)'
      /\ Asked("write", s) = Asked("write", s)'
      /\ Asked("write-close", s) = Asked("write-close", s)' + 1
      /\ CloseLast(s) => CloseLast(s)' /\ Asked("write", s) = 0
  BY <1>m, AskedRead
<1>3. ~SilentClient(s)
  BY <1>2, OutputCounts
<1>4. /\ s \in used /\ result[s] # "ok" /\ ~files[s].closed
      /\ result[s] # "none" => files[s] = NoFile
      /\ Alive /\ result[s] = "none" => "attached" \notin flags /\ Writing(s)
  BY <1>3, WriteBusy DEF WriteSound
<1>5. CASE ~(Alive /\ result[s] = "none")
  BY <1>1, <1>4, <1>5, WriteGoesOn
<1>6. CASE Alive /\ result[s] = "none"
  <2>1. Sending(s)
    BY <1>2, <1>4, <1>6, SendingWhen
  <2>2. ~client.attached /\ open[s].here
    BY <2>1, <1>4, <1>6, Unattached DEF Sending
  <2>3. files[s].buffer = 0 /\ files[s].pushes = 0
    <3>1. /\ files[s].buffer > 0 => Asked("write-close", s) = 0
          /\ files[s].pushes = IF files[s].buffer > 0 THEN 1 ELSE 0
      BY <2>1 DEF Sending
    <3> QED BY <3>1, <1>2, <1>b DEF FileRecords
  <2>4. /\ Asked("write-open", s)' = 0 /\ Asked("write", s)' = 0 /\ Asked("write-close", s)' = 0
        /\ CloseLast(s)'
    BY <2>1, <1>2 DEF Sending
  <2>5. Pending(s)' /\ SilentClient(s)' /\ SilentServer(s)
    BY <2>1, <2>4, <1>1, WaitedWillBe, OutputCountsNext DEF Sending, Pending, Waited
  <2>6. /\ (open[s].event = ~open[s].error)
        /\ open[s].event => given[s] = open[s].output + moved[s]
    BY <2>1, <2>3, <2>4, <1>2, <1>b DEF Sending, OpenRecords
  <2>7. CASE open[s].event /\ open[s].output > 0
    <3>1. open' = [open EXCEPT ![s].closed = TRUE] /\ UNCHANGED toServer
      BY <2>2, <2>7 DEF FileWriteClose, Known, Ignored
    <3>2. /\ open'[s].here /\ open'[s].event = open[s].event /\ open'[s].error = open[s].error
          /\ open'[s].closed /\ open'[s].output = open[s].output
      BY <2>2, <3>1, <1>b DEF OpenRecords
    <3>3. SilentServer(s)'
      BY <2>5, <3>1, SameQueue
    <3>4. given'[s] = files'[s].buffer + Asked("write", s)' + open'[s].output + moved'[s]
      BY <2>3, <2>4, <2>6, <2>7, <3>2, <1>1, <1>b DEF OpenRecords
    <3>5. Sending(s)'
      <4>1. files'[s].buffer = 0 /\ files'[s].pushes = 0
        BY <2>3, <1>1
      <4>2. open'[s].event /\ open'[s].output > 0 /\ (open'[s].event = ~open'[s].error)
        BY <2>6, <2>7, <3>2
      <4>3. files'[s].pushes = IF files'[s].buffer > 0 THEN 1 ELSE 0
        BY <4>1
      <4>4. ~(files'[s].buffer > 0)
        BY <4>1
      <4>5. Asked("write-close", s)' <= 1
        BY <2>4
      <4> HIDE <4>1
      <4> QED BY <2>4, <2>5, <3>2, <3>3, <3>4, <4>2, <4>3, <4>4, <4>5 DEF Sending
    <3> QED BY <3>5, <1>1, <1>4, <1>6, WriteGoesOn DEF Writing
  <2>8. CASE ~(open[s].event /\ open[s].output > 0)
    <3>1. Finished(s)
      BY <2>2, <2>8 DEF FileWriteClose, Known, Ignored
    <3>2. open'[s] = NotOpen /\ Reply(Message("write-done", s, open[s].error))
      BY <3>1, <1>b DEF Finished
    <3>3. open[s].error = TRUE \/ (open[s].error = FALSE /\ moved'[s] = given'[s])
      BY <2>6, <2>8, <1>1, <1>b DEF OpenRecords
    <3>4. \/ Reply(Message("write-done", s, FALSE)) /\ moved'[s] = given'[s]
          \/ Reply(Message("write-done", s, TRUE))
      BY <3>2, <3>3
    <3>5. Done(s)'
      BY <2>3, <2>5, <3>2, <3>4, <1>1, <1>6, DoneWillBe
    <3> QED BY <3>5, <1>1, <1>4, <1>6, WriteGoesOn DEF Writing
  <2> QED BY <2>7, <2>8
<1> QED BY <1>5, <1>6

LEMMA WriteDrains ==
  ASSUME Typed, Typed', NEW s \in Writes, WriteSound(s), Drain(s) \/ WriteError(s)
  PROVE  WriteSound(s)'
<1>a. s \in Outputs /\ s \in Streams /\ QueuesTyped /\ QueuesTyped'
  BY StreamsAre DEF Typed
<1>b. /\ open \in [Streams -> OpenRecords] /\ OpenTyped(s, open[s])
      /\ open[s] \in OpenRecords /\ files[s] \in FileRecords
      /\ given[s] \in Nat /\ moved \in [Streams -> Nat]
  BY <1>a DEF Typed, OpensTyped, OpenTyped, FilesTyped, HistoryTyped
<1> USE <1>a
<1>1. /\ UNCHANGED <<flags, files, waiting, given, result, used, toClient>>
      /\ (Alive' <=> Alive) /\ open[s].event /\ open[s].output > 0
  BY DEF Drain, WriteError, ClientOnly, server, Alive
<1>2. ~Inert(s)
  BY <1>1 DEF Inert
<1>4. /\ s \in used /\ result[s] # "ok" /\ ~files[s].closed
      /\ result[s] # "none" => files[s] = NoFile
      /\ Alive /\ result[s] = "none" => "attached" \notin flags /\ Writing(s)
  BY <1>2, WriteBusy DEF WriteSound
<1>5. CASE ~(Alive /\ result[s] = "none")
  BY <1>1, <1>4, <1>5, WriteGoesOn
<1>6. CASE Alive /\ result[s] = "none"
  <2>1. Sending(s)
    BY <1>1, <1>4, <1>6, <1>b, SendingWhen DEF OpenRecords
  <2>2. /\ Pending(s)' /\ SilentServer(s) /\ (\A t : Asked(t, s)' = Asked(t, s)) /\ CloseLast(s)'
    BY <2>1, <1>1, WaitedWillBe, SameQueue DEF Sending, Pending, Waited
  <2>3. /\ open[s].here /\ (open[s].event = ~open[s].error)
        /\ given[s] = files[s].buffer + Asked("write", s) + open[s].output + moved[s]
        /\ Asked("write-open", s) = 0
        /\ files[s].pushes = IF files[s].buffer > 0 THEN 1 ELSE 0
        /\ files[s].buffer > 0 => Asked("write-close", s) = 0 /\ ~open[s].closed
        /\ Asked("write-close", s) <= 1
        /\ open[s].closed => Asked("write", s) = 0 /\ Asked("write-close", s) = 0
        /\ ~open[s].closed /\ files[s].buffer = 0 => Asked("write-close", s) = 1
    BY <2>1, <1>1 DEF Sending
  <2>4. /\ files[s].buffer \in Nat /\ open[s].output \in Nat /\ moved[s] \in Nat
        /\ Asked("write", s) \in Nat
        /\ open[s].event = TRUE /\ open[s].error = FALSE /\ open[s].closed \in BOOLEAN
    BY <2>3, <1>1, <1>b, OutputCounts DEF FileRecords, OpenRecords
  <2>5. open[s].closed => SilentClient(s)' /\ files'[s].buffer = 0 /\ files'[s].pushes = 0
    BY <2>2, <2>3, <2>4, <1>1, OutputCountsNext
  <2>6. CASE /\ open[s].closed /\ open'[s] = NotOpen
             /\ \/ Reply(Message("write-done", s, FALSE)) /\ moved'[s] = given'[s]
                \/ Reply(Message("write-done", s, TRUE))
    <3>1. Done(s)'
      BY <2>2, <2>5, <2>6, <1>6, DoneWillBe
    <3> QED BY <3>1, <1>1, <1>4, <1>6, WriteGoesOn DEF Writing
  <2>7. CASE /\ UNCHANGED toServer /\ (open'[s].event = ~open'[s].error) /\ open'[s].here
             /\ open'[s].closed = open[s].closed
             /\ open'[s].event => given[s] = files[s].buffer + Asked("write", s) + open'[s].output + moved'[s]
             /\ open[s].closed => open'[s].event /\ open'[s].output > 0
    <3>1. SilentServer(s)'
      BY <2>2, <2>7, SameQueue
    <3>2. Sending(s)'
      BY <2>2, <2>3, <2>7, <3>1, <1>1 DEF Sending
    <3> QED BY <3>2, <1>1, <1>4, <1>6, WriteGoesOn DEF Writing
  <2>8. CASE Drain(s)
    <3>1. moved'[s] = moved[s] + 1
      BY <2>8, <1>b DEF Drain
    <3>2. CASE open[s].output = 1 /\ open[s].closed
      <4>1. Finished(s)
        BY <2>8, <3>2 DEF Drain
      <4>2. Reply(Message("write-done", s, FALSE)) /\ open'[s] = NotOpen
        BY <4>1, <2>4, <1>b DEF Finished
      <4>3. moved'[s] = given'[s]
        BY <2>3, <2>4, <3>1, <3>2, <1>1
      <4> QED BY <4>2, <4>3, <3>2, <2>6
    <3>3. CASE ~(open[s].output = 1 /\ open[s].closed)
      <4>1. open' = [open EXCEPT ![s].output = @ - 1] /\ UNCHANGED toServer
        BY <2>8, <3>3 DEF Drain
      <4>2. /\ open'[s].here = open[s].here /\ open'[s].event = open[s].event
            /\ open'[s].error = open[s].error /\ open'[s].closed = open[s].closed
            /\ open'[s].output = open[s].output - 1
        BY <4>1, <1>b DEF OpenRecords
      <4>3. given[s] = files[s].buffer + Asked("write", s) + open'[s].output + moved'[s]
        BY <2>3, <2>4, <3>1, <4>2, <1>1
      <4> QED BY <2>3, <2>4, <2>7, <3>3, <4>1, <4>2, <4>3, <1>1
    <3> QED BY <3>2, <3>3
  <2>9. CASE WriteError(s)
    <3>1. CASE open[s].closed
      <4>1. Reply(Message("write-done", s, TRUE)) /\ open' = [open EXCEPT ![s] = NotOpen]
        BY <2>9, <3>1 DEF WriteError
      <4> QED BY <4>1, <3>1, <2>6, <1>b
    <3>2. CASE ~open[s].closed
      <4>1. /\ open' = [open EXCEPT ![s].event = FALSE, ![s].error = TRUE]
            /\ UNCHANGED toServer
        BY <2>9, <3>2 DEF WriteError
      <4>2. /\ open'[s].here = open[s].here /\ open'[s].event = FALSE
            /\ open'[s].error = TRUE /\ open'[s].closed = open[s].closed
        BY <4>1, <1>b DEF OpenRecords
      <4> QED BY <2>3, <2>7, <3>2, <4>1, <4>2
    <3> QED BY <3>1, <3>2
  <2> QED BY <2>8, <2>9
<1> QED BY <1>5, <1>6

(* The client is lost, or is killed: messages are dropped.                 *)
LEMMA LostLeaves ==
  ASSUME Typed, Lost, NEW s \in Streams
  PROVE  /\ ~Alive' /\ UNCHANGED <<open, waiting, pane, given, moved, promised, result, failed, used>>
         /\ \A t : Asked(t, s)' \in Nat /\ Asked(t, s)' <= Asked(t, s)
         /\ SilentServer(s)' /\ (SilentClient(s) => SilentClient(s)')
         /\ files[s] = NoFile => files'[s] = NoFile
         /\ files'[s].closed <=> files[s].closed
         /\ files'[s].kept <=> files[s].kept
         /\ files'[s].buffer = files[s].buffer
<1>a. /\ toClient \in Seq(ToClientMessages) /\ files[s] \in FileRecords
  BY DEF Typed, QueuesTyped, FilesTyped
<1>1. ~Alive' /\ UNCHANGED <<open, waiting, pane, given, moved, promised, result, failed, used>>
  BY DEF Lost, Alive, Quiet, history
<1>2. \A t : Asked(t, s)' \in Nat /\ Asked(t, s)' <= Asked(t, s)
  <2>1. PICK k \in 0 .. Len(toClient) : toClient' = SubSeq(toClient, 1, k)
    BY DEF Lost
  <2>2. SubSeq(toClient, 1, k) \in Seq(ToClientMessages)
    BY <1>a
  <2>3. \A m : Count(toClient', m) <= Count(toClient, m) /\ Count(toClient', m) \in Nat
    BY <2>1, <2>2, <1>a, CountPrefix, CountProperties
  <2> QED BY <2>3 DEF Asked
<1>3. SilentServer(s)'
  <2>1. toServer' = <<>> /\ <<>> \in Seq(ToServerMessages)
    BY DEF Lost
  <2>2. \A m : ~Within(<<>>, m)
    BY DEF Within, Any
  <2>3. \A m : Count(<<>>, m) = 0
    BY <2>1, <2>2, CountProperties
  <2> QED BY <2>1, <2>3 DEF SilentServer, Said, SaidError
<1>4. \A t : Asked(t, s) \in Nat
  BY <1>a, CountProperties DEF Asked
<1>5. SilentClient(s) => SilentClient(s)'
  BY <1>2, <1>4, SilentIs, SilentWillBe
<1>6. /\ ~files[s].here => files'[s] = files[s]
      /\ files[s].here => files'[s] = Failing(files[s])
  BY DEF Lost, Failing
<1>7. /\ files[s] = NoFile => files'[s] = NoFile
      /\ files'[s].closed <=> files[s].closed
      /\ files'[s].kept <=> files[s].kept
      /\ files'[s].buffer = files[s].buffer
  BY <1>6, <1>a, FiredIs DEF NoFile
<1> QED BY <1>1, <1>2, <1>3, <1>5, <1>7

LEMMA KilledLeaves ==
  ASSUME Typed, Killed, NEW s \in Streams
  PROVE  /\ UNCHANGED <<server, toClient, open, given, moved, promised, result, failed, used>>
         /\ client'.run = "gone"
         /\ \A t : /\ Said(t, s)' \in Nat /\ Said(t, s)' <= Said(t, s)
                   /\ SaidError(t, s)' \in Nat /\ SaidError(t, s)' <= SaidError(t, s)
         /\ SilentServer(s) => SilentServer(s)'
         /\ DoneLast(s) => DoneLast(s)' /\ (Said("read-done", s)' # 0 => Said("read", s)' = Said("read", s))
<1>a. toServer \in Seq(ToServerMessages) /\ client \in ClientRecords
  BY DEF Typed, QueuesTyped, ClientTyped
<1>1. UNCHANGED <<server, toClient, open, given, moved, promised, result, failed, used>>
  BY DEF Killed, ClientOnly
<1>2. client'.run = "gone"
  BY <1>a DEF Killed, Gone, ClientRecords
<1>3. PICK k \in 0 .. Len(toServer) : toServer' = SubSeq(toServer, 1, k)
  BY DEF Killed
<1>4. SubSeq(toServer, 1, k) \in Seq(ToServerMessages)
  BY <1>a
<1>5. \A m : Count(toServer', m) <= Count(toServer, m) /\ Count(toServer', m) \in Nat
  BY <1>3, <1>4, <1>a, CountPrefix, CountProperties
<1>6. \A m : Count(toServer, m) \in Nat
  BY <1>a, CountProperties
<1>7. \A t : /\ Said(t, s)' \in Nat /\ Said(t, s)' <= Said(t, s) /\ Said(t, s) \in Nat
             /\ SaidError(t, s)' \in Nat /\ SaidError(t, s)' <= SaidError(t, s)
             /\ SaidError(t, s) \in Nat
  BY <1>5, <1>6 DEF Said, SaidError
<1>8. SilentServer(s) => SilentServer(s)'
  BY <1>7, SilentIs, SilentWillBe
<1>9. \A a, m : Last(toServer, a, m) =>
        /\ Last(toServer', a, m)
        /\ Within(toServer', a) => Count(toServer', m) = Count(toServer, m)
  BY <1>3, <1>a, LastPrefix
<1>10. DoneLast(s) => DoneLast(s)'
  BY <1>9 DEF DoneLast
<1>11. Said("read-done", s)' # 0 => Within(toServer', Message("read-done", s, FALSE))
  BY <1>3, <1>4, CountProperties DEF Said
<1>12. DoneLast(s) /\ Said("read-done", s)' # 0 => Said("read", s)' = Said("read", s)
  BY <1>9, <1>11 DEF DoneLast, Said
<1> QED BY <1>1, <1>2, <1>7, <1>8, <1>10, <1>12

LEMMA WriteLost ==
  ASSUME Typed, NEW s \in Writes, WriteSound(s), Lost
  PROVE  WriteSound(s)'
<1>1. s \in Streams
  BY StreamsAre
<1>2. /\ ~Alive' /\ UNCHANGED <<open, given, moved, result, used>>
      /\ SilentServer(s)' /\ (SilentClient(s) => SilentClient(s)')
      /\ files[s] = NoFile => files'[s] = NoFile
      /\ files'[s].closed <=> files[s].closed
  BY <1>1, LostLeaves
<1>3. Unused(s) => Unused(s)'
  BY <1>2 DEF Unused
<1>4. Ended(s) => Ended(s)'
  BY <1>2 DEF Ended, Inert
<1> QED BY <1>2, <1>3, <1>4 DEF WriteSound

LEMMA WriteKilled ==
  ASSUME Typed, Typed', NEW s \in Writes, WriteSound(s), Killed
  PROVE  WriteSound(s)'
<1>1. s \in Streams /\ s \in Outputs /\ QueuesTyped /\ QueuesTyped'
  BY StreamsAre DEF Typed
<1>2. /\ UNCHANGED <<flags, files, waiting, toClient, open, given, moved, result, used>>
      /\ (Alive' <=> Alive)
      /\ SilentServer(s) => SilentServer(s)'
  BY <1>1, KilledLeaves DEF server, Alive
<1>3. /\ Said("write-ready", s)' <= Said("write-ready", s)
      /\ SaidError("write-ready", s)' <= SaidError("write-ready", s)
      /\ Said("write-done", s)' <= Said("write-done", s)
      /\ SaidError("write-done", s)' <= SaidError("write-done", s)
  BY <1>1, KilledLeaves
<1>4. \A t : /\ Said(t, s) \in Nat /\ SaidError(t, s) \in Nat
             /\ Said(t, s)' \in Nat /\ SaidError(t, s)' \in Nat
  BY <1>1, OutputCounts, OutputCountsNext
<1>5. /\ \A t : Asked(t, s)' = Asked(t, s)
      /\ CloseLast(s)' <=> CloseLast(s)
      /\ SilentClient(s)' <=> SilentClient(s)
  BY <1>2, SameQueue
<1>6. Waited(s) => Waited(s)'
  BY <1>2 DEF Waited
<1>7. Pending(s) => Pending(s)'
  BY <1>2, <1>6 DEF Pending
<1>8. Opening(s) => Opening(s)'
  BY <1>2, <1>5, <1>7 DEF Opening
<1>9. ASSUME Readied(s) PROVE Readied(s)'
  <2>1. /\ Said("write-ready", s)' + SaidError("write-ready", s)' <= 1
        /\ Said("write-ready", s)' = 1 => Said("write-ready", s) = 1
        /\ SaidError("write-ready", s)' = 1 => SaidError("write-ready", s) = 1
        /\ Said("write-done", s)' = 0 /\ SaidError("write-done", s)' = 0
    BY <1>3, <1>4, <1>9 DEF Readied
  <2> QED BY <2>1, <1>2, <1>5, <1>7, <1>9 DEF Readied
<1>10. Sending(s) => Sending(s)'
  BY <1>2, <1>5, <1>7 DEF Sending
<1>11. ASSUME Done(s) PROVE Done(s)'
  <2>1. /\ Said("write-done", s)' + SaidError("write-done", s)' <= 1
        /\ Said("write-done", s)' = 1 => Said("write-done", s) = 1
        /\ Said("write-ready", s)' = 0 /\ SaidError("write-ready", s)' = 0
    BY <1>3, <1>4, <1>11 DEF Done
  <2> QED BY <2>1, <1>2, <1>5, <1>7, <1>11 DEF Done
<1>12. WriteFired(s) => WriteFired(s)'
  BY <1>2, <1>5, <1>6 DEF WriteFired, Fired, Inert
<1>13. Writing(s) => Writing(s)'
  BY <1>8, <1>9, <1>10, <1>11, <1>12 DEF Writing
<1>14. Unused(s) => Unused(s)'
  BY <1>2, <1>5 DEF Unused
<1>15. Ended(s) => Ended(s)'
  BY <1>2, <1>5 DEF Ended, Inert
<1> QED BY <1>2, <1>13, <1>14, <1>15 DEF WriteSound, Writing

(* Every step keeps the writes sound.                                      *)
LEMMA WriteStep ==
  ASSUME Typed, Typed', OwnerSound, Next, NEW s \in Writes, WriteSound(s)
  PROVE  WriteSound(s)'
<1>a. s \in Streams /\ s \notin Reads /\ s # Stdout /\ s \notin Loads \cup Inputs
  BY StreamsAre DEF Reads
<1>1. ServerStep => Lost \/ On(s) \/ StreamKept(s)
  BY <1>a, StreamLeftByServer DEF On
<1>2. ClientStep => Killed \/ On(s) \/ StreamKept(s)
  BY <1>a, StreamLeftByClient DEF On
<1>3. CASE Lost
  BY <1>3, WriteLost
<1>4. CASE Killed
  BY <1>4, WriteKilled
<1>5. CASE StreamKept(s)
  BY <1>5, WriteLeft
<1>6. CASE On(s)
  <2>1. ASSUME NEW t, NEW e, FromClient(Message(t, s, e)), t \in {"read", "read-done"}
        PROVE  FALSE
    BY <2>1, <1>a, ReadsMessage, MessagesToServer DEF Typed
  <2>2. ASSUME NEW t, ToClient(Message(t, s, FALSE)), t \in {"read-open", "read-cancel"}
        PROVE  FALSE
    BY <2>2, <1>a, ReadsMessage, MessagesToClient DEF Typed, Reads
  <2>3. ~ReadData(s)
    BY <2>1 DEF ReadData
  <2>4. \A e \in BOOLEAN : ~TransferDone("read-done", s, e)
    BY <2>1 DEF TransferDone
  <2>5. ~FileOpen(s, TRUE) /\ ~FileReadCancel(s)
    BY <2>2 DEF FileOpen, FileReadCancel
  <2>6. ~ReadSome(s) /\ \A e \in BOOLEAN : ~ReadEnd(s, e)
    BY <1>a DEF ReadSome, ReadEnd
  <2>7. ASSUME NEW e \in BOOLEAN, WriteReady(s, e) PROVE WriteSound(s)'
    <3>1. e = TRUE \/ e = FALSE
      OBVIOUS
    <3> QED BY <3>1, <2>7, WriteIsReady, WriteIsNotReady
  <2>8. ASSUME NEW e \in BOOLEAN, TransferDone("write-done", s, e) PROVE WriteSound(s)'
    <3>1. e = TRUE \/ e = FALSE
      OBVIOUS
    <3> QED BY <3>1, <2>8, WriteTransferDone, WriteTransferFailed
  <2>9. ASSUME NEW read \in BOOLEAN, FileOpen(s, read) PROVE WriteSound(s)'
    <3>1. read = TRUE \/ read = FALSE
      OBVIOUS
    <3> QED BY <3>1, <2>5, <2>9, WriteIsOpened
  <2> QED
    BY <1>6, <1>a, <2>3, <2>4, <2>5, <2>6, <2>7, <2>8, <2>9, WriteOpened, WritePushedAgain,
       WriteIsDone, WriteHasData, WriteIsClosed, WriteDrains DEF On, OnServer, OnClient
<1> QED BY <1>1, <1>2, <1>3, <1>4, <1>5, <1>6, StepsOfTwo
-----------------------------------------------------------------------------
(* Reads.                                                                  *)

LEMMA ReadBusy ==
  ASSUME NEW s \in Reads, ReadSound(s),
         ~SilentClient(s) \/ ~SilentServer(s) \/ ~Inert(s) \/ files[s] # NoFile
  PROVE  /\ s \in used /\ result[s] # "ok" /\ ReadBounds(s)
         /\ result[s] # "none" => files[s] = NoFile
         /\ Alive /\ result[s] = "none" => ReadPhase(s)
<1>1. s \in used
  BY DEF ReadSound, Unused, Inert, NotOpen
<1>2. result[s] # "ok"
  BY DEF ReadSound, Ended
<1> QED BY <1>1, <1>2 DEF ReadSound, Ended

LEMMA ReadGoesOn ==
  ASSUME NEW s, s \in used', ReadBounds(s)',
         result'[s] # "none" => files'[s] = NoFile /\ result'[s] # "ok",
         Alive' /\ result'[s] = "none" => ReadPhase(s)'
  PROVE  ReadSound(s)'
BY DEF ReadSound, Ended

LEMMA ReadTyped ==
  ASSUME Typed, NEW s \in Reads
  PROVE  /\ s \in Streams /\ s # Stdout /\ s \notin Outputs
         /\ (s \in Loads \/ s \in Inputs) /\ (s \in Loads => s \notin Inputs)
         /\ QueuesTyped /\ files \in [Streams -> FileRecords] /\ files[s] \in FileRecords
         /\ open \in [Streams -> OpenRecords] /\ open[s] \in OpenRecords
         /\ given \in [Streams -> Nat] /\ moved \in [Streams -> Nat]
         /\ given[s] \in Nat /\ moved[s] \in Nat /\ files[s].buffer \in Nat /\ open[s].output = 0
         /\ result \in [Streams -> {"none", "ok", "error"}]
         /\ files[s].pushes = 0 /\ (~files[s].here => files[s] = NoFile)
         /\ Said("read", s) \in Nat
<1>1. s \in Streams /\ s # Stdout /\ s \notin Outputs
      /\ (s \in Loads \/ s \in Inputs) /\ (s \in Loads => s \notin Inputs)
  BY StreamsAre DEF Reads
<1>2. /\ QueuesTyped /\ files \in [Streams -> FileRecords] /\ files[s] \in FileRecords
      /\ open \in [Streams -> OpenRecords] /\ open[s] \in OpenRecords
      /\ given \in [Streams -> Nat] /\ moved \in [Streams -> Nat]
      /\ result \in [Streams -> {"none", "ok", "error"}]
      /\ open[s].output = 0
      /\ files[s].pushes = 0 /\ (~files[s].here => files[s] = NoFile)
  BY <1>1 DEF Typed, FilesTyped, FileTyped, OpensTyped, OpenTyped, HistoryTyped
<1>3. files[s].buffer \in Nat
  BY <1>2 DEF FileRecords
<1>4. Said("read", s) \in Nat
  BY <1>2, ReadCounts
<1> QED BY <1>1, <1>2, <1>3, <1>4

LEMMA ReadRequested ==
  ASSUME Typed, Typed', NEW s \in Reads, ReadSound(s), FileRead(s)
  PROVE  ReadSound(s)'
<1>a. /\ s \in Streams /\ QueuesTyped /\ QueuesTyped' /\ files \in [Streams -> FileRecords]
      /\ result \in [Streams -> {"none", "ok", "error"}]
  BY ReadTyped DEF Typed
<1> USE <1>a
<1>1. Opens(s, "read-open", NewFile) /\ UNCHANGED given
  BY DEF FileRead
<1>2. /\ Alive /\ Alive' /\ s \notin used /\ s \in used'
      /\ waiting' = {s} /\ UNCHANGED <<toServer, moved, result, open, pane>>
  BY <1>1 DEF Opens, Quiet, Alive
<1>3. Unused(s)
  BY <1>2 DEF ReadSound
<1>4. /\ given'[s] = 0 /\ moved'[s] = 0 /\ result'[s] = "none" /\ open'[s] = NotOpen
      /\ SilentServer(s)'
  BY <1>1, <1>2, <1>3, SameQueue DEF Unused
<1>5. /\ Asked("read-open", s) = 0 /\ Asked("read-cancel", s) = 0 /\ Said("read", s)' = 0
  BY <1>3, <1>4, ReadCounts, ReadCountsNext DEF Unused
<1>6. MaxData \in Nat
  BY ClientServerAssumption
<1>7. CASE /\ files' = [files EXCEPT ![s] = [NewFile EXCEPT !.kept = TRUE]]
           /\ toClient' = Append(toClient, Message("read-open", s, FALSE))
  <2>1. /\ files'[s].here /\ files'[s].buffer = 0 /\ ~files'[s].error /\ ~files'[s].closed
        /\ files'[s].references = 1 /\ files'[s].due = 0 /\ files'[s].pushes = 0
        /\ files'[s].kept
    BY <1>7 DEF NewFile, NoFile
  <2>2. Message("read-open", s, FALSE) \in ToClientMessages
    BY MessagesSent
  <2>3. \A u : Asked(u, s)' = IF u = "read-open" THEN Asked(u, s) + 1 ELSE Asked(u, s)
    BY <1>7, <2>2, AskedSent
  <2>4. Asked("read-open", s)' = 1 /\ Asked("read-cancel", s)' = 0
    BY <2>3, <1>5
  <2>5. ReadBounds(s)'
    BY <1>4, <1>5, <1>6, <2>1, <2>4 DEF ReadBounds
  <2>6. Reading(s)'
    BY <1>2, <1>4, <2>1, WaitedWillBe DEF Reading
  <2>7. Took(s)' = 0
    BY <1>4, <2>1 DEF Took
  <2>8. ReadOpening(s)'
    BY <1>4, <2>4, <2>6, <2>7 DEF ReadOpening
  <2> QED BY <1>2, <1>4, <2>5, <2>8, ReadGoesOn DEF ReadPhase
<1>8. CASE /\ files' = [files EXCEPT ![s] = FireDone([NewFile EXCEPT !.error = TRUE])]
           /\ UNCHANGED toClient
  <2>1. /\ files'[s].here /\ files'[s].error /\ ~files'[s].closed /\ files'[s].buffer = 0
        /\ files'[s].references = 1 /\ files'[s].due = 1 /\ files'[s].pushes = 0
    BY <1>8 DEF NewFile, NoFile, FireDone
  <2>2. SilentClient(s)' /\ ~open'[s].event
    BY <1>3, <1>4, <1>8, SameQueue DEF Unused, NotOpen
  <2>3. Asked("read-cancel", s)' = 0
    BY <2>2, ReadCountsNext
  <2>4. ReadBounds(s)'
    BY <1>4, <1>5, <1>6, <2>1, <2>3 DEF ReadBounds
  <2>5. ReadFired(s)'
    BY <1>2, <1>4, <2>1, <2>2, WaitedWillBe DEF ReadFired
  <2> QED BY <1>2, <1>4, <2>4, <2>5, ReadGoesOn DEF ReadPhase
<1> QED BY <1>1, <1>7, <1>8 DEF Opens

LEMMA ReadIsDone ==
  ASSUME Typed, Typed', NEW s \in Reads, ReadSound(s), FileDone(s)
  PROVE  ReadSound(s)'
<1>a. /\ s \in Streams /\ s # Stdout /\ QueuesTyped /\ QueuesTyped' /\ files \in [Streams -> FileRecords]
      /\ files[s] \in FileRecords /\ result \in [Streams -> {"none", "ok", "error"}]
      /\ given \in [Streams -> Nat] /\ files[s].buffer \in Nat /\ files[s].pushes = 0
      /\ moved[s] \in Nat /\ Said("read", s) \in Nat
      /\ (s \in Loads \/ s \in Inputs) /\ (s \in Loads => s \notin Inputs)
  BY ReadTyped DEF Typed
<1> USE <1>a
<1> DEFINE f == [files[s] EXCEPT !.due = @ - 1]
           called == f.closed \/ Alive
           cancels == called /\ s \in Inputs /\ PaneGone(f)
           continues == called /\ ~cancels
<1>1. /\ files[s].due > 0 /\ files' = [files EXCEPT ![s] = Freed(f)]
      /\ UNCHANGED <<toServer, open, moved, used, pane>>
  BY DEF FileDone, Quiet
<1>2. files[s] # NoFile
  BY <1>1 DEF NoFile
<1>3. /\ s \in used /\ result[s] = "none" /\ ReadBounds(s)
      /\ Alive => ReadPhase(s)
  BY <1>2, ReadBusy
<1>4. /\ (f.error <=> files[s].error) /\ (f.closed <=> files[s].closed) /\ (f.kept <=> files[s].kept)
      /\ f.references = files[s].references /\ f.buffer = files[s].buffer /\ f.here = files[s].here
  BY DEF FileRecords
<1>5. /\ cancels => CancelInput(f, s)
      /\ ~cancels => UNCHANGED <<flags, toClient>>
      /\ ~continues => result' = result
      /\ continues => result' = [result EXCEPT ![s] = IF f.error THEN "error" ELSE "ok"]
      /\ ~(continues /\ s \in Loads) => given' = given
      /\ continues /\ s \in Loads => given' = [given EXCEPT ![s] = f.buffer]
  BY DEF FileDone
<1>6. f \in FileRecords
  BY <1>1 DEF FileRecords
<1>7. /\ PaneGone(f) <=> files[s].kept /\ (~pane \/ ~Alive)
      /\ called <=> files[s].closed \/ Alive
  BY <1>4 DEF PaneGone
<1>8. Alive' <=> Alive
  BY <1>5 DEF CancelInput, Alive
<1> HIDE DEF f
<1>9. files'[s] = Freed(f)
  BY <1>1
<1>10. /\ files'[s].closed => files[s].closed
       /\ files'[s].here \/ files'[s].closed => (files'[s].kept <=> files[s].kept)
       /\ files'[s].buffer = 0 \/ files'[s].buffer = files[s].buffer
       /\ files[s].references = 1 => files'[s] = NoFile
  BY <1>4, <1>6, <1>9 DEF Freed, NoFile, FileRecords
<1>11. /\ \A t : Said(t, s)' = Said(t, s)
       /\ SilentServer(s)' <=> SilentServer(s)
  BY <1>1, SameQueue
<1>12. s \in Inputs /\ pane /\ Alive => Asked("read-cancel", s)' = 0
  <2>1. SUFFICES ASSUME s \in Inputs, pane, Alive PROVE Asked("read-cancel", s)' = 0
    OBVIOUS
  <2>2. toClient' = toClient
    BY <2>1, <1>5, <1>7
  <2> QED BY <2>1, <2>2, <1>3, SameQueue DEF ReadBounds
<1>13. ReadBounds(s)' <=> (s \in Loads /\ result'[s] = "none" => given'[s] = 0)
  <2>1. moved' = moved /\ (Alive' <=> Alive) /\ (pane' <=> pane)
    BY <1>1, <1>8
  <2>2. files'[s].closed => files'[s].kept /\ s \in Inputs
    BY <1>3, <1>10 DEF ReadBounds
  <2>3. s \in Loads => files'[s].buffer + Said("read", s)' <= moved'[s]
    BY <2>1, <1>3, <1>10, <1>11 DEF ReadBounds
  <2>4. s \in Inputs => files'[s].buffer = 0
    BY <1>3, <1>10 DEF ReadBounds
  <2>5. moved'[s] <= MaxData
    BY <2>1, <1>3 DEF ReadBounds
  <2> QED BY <2>1, <2>2, <2>3, <2>4, <2>5, <1>12 DEF ReadBounds
<1>14. CASE continues
  <2>1. Alive /\ result'[s] = IF files[s].error THEN "error" ELSE "ok"
    <3>1. files[s].closed /\ ~Alive => cancels
      BY <1>3, <1>7 DEF ReadBounds
    <3>2. Alive
      BY <3>1, <1>7, <1>14
    <3> QED BY <3>2, <1>4, <1>5, <1>14
  <2>2. ReadFired(s)
    <3>1. ReadOpening(s) \/ ReadsData(s) \/ ReadEnding(s) => files[s].due = 0
      BY DEF ReadOpening, ReadsData, ReadEnding, Reading, Pending
    <3>2. ~Abandoned(s)
      <4>1. files[s].here
        BY <1>2, ReadTyped
      <4> QED BY <4>1, <1>7, <1>14 DEF Abandoned
    <3> QED BY <2>1, <3>1, <3>2, <1>1, <1>3 DEF ReadPhase
  <2>3. files[s].references = 1
    BY <2>2 DEF ReadFired, Fired, Waited, FileRecords
  <2>4. files'[s] = NoFile
    BY <2>3, <1>10
  <2>5. ~files[s].error => moved'[s] = given'[s]
    BY <2>2, <1>1, <1>4, <1>5, <1>14 DEF ReadFired, Took
  <2>6. UNCHANGED toClient
    BY <1>5, <1>14
  <2>7. SilentClient(s)' /\ SilentServer(s)' /\ Inert(s)'
    BY <2>2, <2>6, <1>1, SameQueue DEF ReadFired, Fired, Inert
  <2>8. Ended(s)'
    BY <2>1, <2>4, <2>5, <2>7 DEF Ended
  <2>9. s \in used' /\ result'[s] # "none" /\ ReadBounds(s)'
    BY <2>1, <1>1, <1>3, <1>13
  <2> QED BY <2>8, <2>9 DEF ReadSound
<1>15. CASE ~continues
  <2>1. result' = result /\ given' = given
    BY <1>5, <1>15
  <2>2. ReadBounds(s)'
    BY <2>1, <1>3, <1>13 DEF ReadBounds
  <2>3. ASSUME Alive' PROVE Abandoned(s)'
    BY <2>3, <1>1, <1>7, <1>8, <1>10, <1>15 DEF Abandoned
  <2> QED BY <2>1, <2>2, <2>3, <1>1, <1>3, ReadGoesOn DEF ReadPhase
<1> QED BY <1>14, <1>15

LEMMA ReadHasData ==
  ASSUME Typed, Typed', NEW s \in Reads, ReadSound(s), ReadData(s)
  PROVE  ReadSound(s)'
<1>a. /\ s \in Streams /\ QueuesTyped /\ QueuesTyped' /\ files \in [Streams -> FileRecords]
      /\ files[s] \in FileRecords
      /\ given \in [Streams -> Nat] /\ given[s] \in Nat /\ files[s].buffer \in Nat
      /\ moved[s] \in Nat /\ Said("read", s) \in Nat
      /\ (s \in Loads \/ s \in Inputs) /\ (s \in Loads => s \notin Inputs)
  BY ReadTyped DEF Typed
<1> USE <1>a
<1> DEFINE f == files[s]
           takes == f.here /\ ~f.error /\ ~f.closed
           cancels == takes /\ s \in Inputs /\ PaneGone(f)
<1>m. FromClient(Message("read", s, FALSE))
  BY DEF ReadData
<1>1. Alive /\ UNCHANGED <<client, open, moved, used, pane, result, waiting>>
  BY DEF ReadData, FromClient, Quiet
<1>2. /\ Said("read", s)' \in Nat
      /\ Said("read", s) = Said("read", s)' + 1
      /\ Said("read-done", s)' = Said("read-done", s)
      /\ SaidError("read-done", s)' = SaidError("read-done", s)
      /\ DoneLast(s) => DoneLast(s)'
  BY <1>m, SaidRead
<1>3. ~SilentServer(s)
  BY <1>2, ReadCounts
<1>4. /\ s \in used /\ result[s] # "ok" /\ ReadBounds(s)
      /\ result[s] # "none" => files[s] = NoFile
      /\ result[s] = "none" => ReadPhase(s)
  BY <1>1, <1>3, ReadBusy
<1>5. /\ cancels => CancelInput(f, s) /\ files' = [files EXCEPT ![s].closed = TRUE]
      /\ ~cancels => /\ UNCHANGED <<flags, toClient>>
                     /\ files' = IF takes /\ s \in Loads
                                 THEN [files EXCEPT ![s].buffer = @ + 1] ELSE files
      /\ given' = IF takes /\ s \in Inputs /\ pane THEN [given EXCEPT ![s] = @ + 1] ELSE given
  BY DEF ReadData
<1>6. PaneGone(f) <=> f.kept /\ ~pane
  BY <1>1 DEF PaneGone
<1>7. Alive'
  BY <1>1, <1>5 DEF CancelInput, Alive
<1>8. CASE result[s] # "none"
  <2>1. files[s] = NoFile /\ ~takes
    BY <1>4, <1>8 DEF NoFile
  <2>2. UNCHANGED <<toClient, files, given>>
    BY <2>1, <1>5
  <2>3. ReadBounds(s)'
    BY <2>2, <1>1, <1>2, <1>4, <1>7, <1>8, SameQueue DEF ReadBounds
  <2> QED BY <2>1, <2>2, <2>3, <1>1, <1>4, <1>8, ReadGoesOn
<1>9. CASE result[s] = "none" /\ cancels
  <2>1. s \in Inputs /\ f.here /\ f.kept /\ ~pane
    BY <1>6, <1>9
  <2>2. files'[s].kept = f.kept /\ files'[s].buffer = f.buffer
    BY <1>5, <1>9 DEF FileRecords
  <2>3. Abandoned(s)'
    BY <2>1, <2>2, <1>1 DEF Abandoned
  <2>4. ReadBounds(s)'
    BY <2>1, <2>2, <1>1, <1>4 DEF ReadBounds
  <2> QED BY <2>3, <2>4, <1>1, <1>4, <1>9, ReadGoesOn DEF ReadPhase
<1>10. CASE result[s] = "none" /\ ~cancels /\ ~takes
  <2>1. UNCHANGED <<toClient, files, given>>
    BY <1>5, <1>10
  <2>2. Abandoned(s)
    <3>1. ReadOpening(s) \/ ReadsData(s) \/ ReadEnding(s) => takes
      BY DEF ReadOpening, ReadsData, ReadEnding, Reading, Pending, Waited
    <3>2. ~ReadFired(s)
      BY <1>3 DEF ReadFired, Fired
    <3> QED BY <3>1, <3>2, <1>4, <1>10 DEF ReadPhase
  <2>3. Abandoned(s)'
    BY <2>1, <2>2, <1>1 DEF Abandoned
  <2>4. ReadBounds(s)'
    BY <2>1, <1>1, <1>2, <1>4, <1>7, SameQueue DEF ReadBounds
  <2> QED BY <2>3, <2>4, <1>1, <1>4, <1>10, ReadGoesOn DEF ReadPhase
<1>11. CASE result[s] = "none" /\ ~cancels /\ takes
  <2>1. /\ UNCHANGED toClient
        /\ files' = IF s \in Loads THEN [files EXCEPT ![s].buffer = @ + 1] ELSE files
        /\ given' = IF s \in Inputs /\ pane THEN [given EXCEPT ![s] = @ + 1] ELSE given
    BY <1>5, <1>11
  <2>2. /\ files'[s].here = f.here /\ files'[s].references = f.references
        /\ files'[s].pushes = f.pushes /\ files'[s].due = f.due /\ files'[s].error = f.error
        /\ files'[s].closed = f.closed /\ files'[s].kept = f.kept
        /\ files'[s].buffer = IF s \in Loads THEN f.buffer + 1 ELSE f.buffer
    BY <2>1 DEF FileRecords
  <2>3. given'[s] = IF s \in Inputs /\ pane THEN given[s] + 1 ELSE given[s]
    BY <2>1
  <2>4. \A t : Asked(t, s)' = Asked(t, s)
    BY <2>1, SameQueue
  <2>5. ReadBounds(s)'
    <3>1. s \in Loads => files'[s].buffer + Said("read", s)' <= moved'[s]
      BY <2>2, <1>1, <1>2, <1>4 DEF ReadBounds
    <3>2. s \in Loads => (result'[s] = "none" => given'[s] = 0)
      BY <2>3, <1>1, <1>4 DEF ReadBounds
    <3>3. s \in Inputs => files'[s].buffer = 0
      BY <2>2, <1>4 DEF ReadBounds
    <3> QED BY <2>2, <2>4, <3>1, <3>2, <3>3, <1>1, <1>4, <1>7 DEF ReadBounds
  <2>6. ASSUME Reading(s) PROVE Reading(s)' /\ Took(s)' = Took(s) + 1 /\ Took(s) \in Nat
    <3>1. Reading(s)'
      BY <2>2, <2>6, <1>1, WaitedWillBe DEF Reading, Pending, Waited
    <3>2. s \in Inputs => pane
      BY <2>6, <1>6, <1>11 DEF Reading
    <3> QED BY <2>2, <2>3, <3>1, <3>2 DEF Took
  <2>7. ASSUME ReadsData(s) PROVE ReadsData(s)'
    <3>1. Reading(s)' /\ Took(s)' = Took(s) + 1 /\ Took(s) \in Nat
      BY <2>6, <2>7 DEF ReadsData
    <3>2. client'.run # "gone" => moved'[s] = Took(s)' + Said("read", s)'
      BY <2>7, <3>1, <1>1, <1>2 DEF ReadsData
    <3> QED BY <2>4, <2>7, <3>1, <3>2, <1>1, <1>2 DEF ReadsData
  <2>8. ASSUME ReadEnding(s) PROVE ReadEnding(s)'
    <3>1. Reading(s)' /\ Took(s)' = Took(s) + 1 /\ Took(s) \in Nat
      BY <2>6, <2>8 DEF ReadEnding
    <3>2. Said("read-done", s)' = 1 => moved'[s] = Took(s)' + Said("read", s)'
      BY <2>8, <3>1, <1>1, <1>2 DEF ReadEnding
    <3> QED BY <2>4, <2>8, <3>1, <3>2, <1>1, <1>2 DEF ReadEnding, Inert
  <2>9. ASSUME Abandoned(s) PROVE Abandoned(s)'
    BY <2>2, <2>9, <1>1 DEF Abandoned
  <2>10. ~ReadOpening(s) /\ ~ReadFired(s)
    BY <1>3 DEF ReadOpening, ReadFired, Fired
  <2> QED BY <2>5, <2>7, <2>8, <2>9, <2>10, <1>1, <1>4, <1>11, ReadGoesOn DEF ReadPhase
<1> QED BY <1>8, <1>9, <1>10, <1>11

(* The end of a read has come, after all of its data: its callback is due. *)
LEMMA ReadTransferDone ==
  ASSUME Typed, Typed', NEW s \in Reads, ReadSound(s), TransferDone("read-done", s, FALSE)
  PROVE  ReadSound(s)'
<1>a. /\ s \in Streams /\ QueuesTyped /\ QueuesTyped' /\ files \in [Streams -> FileRecords]
      /\ files[s] \in FileRecords /\ files[s].pushes = 0
      /\ given[s] \in Nat /\ files[s].buffer \in Nat /\ moved[s] \in Nat
      /\ (s \in Loads \/ s \in Inputs) /\ (s \in Loads => s \notin Inputs)
  BY ReadTyped DEF Typed
<1> USE <1>a
<1> DEFINE f == files[s]
<1>m. FromClient(Message("read-done", s, FALSE))
  BY DEF TransferDone
<1>1. /\ Alive /\ Alive'
      /\ UNCHANGED <<used, waiting, result, given, moved, open, toClient, pane>>
      /\ files' = IF f.here THEN [files EXCEPT ![s] = Finishing(f)] ELSE files
  BY DEF TransferDone, FromClient, Quiet, Finishing, Alive
<1>2. /\ Said("read-done", s)' \in Nat
      /\ Said("read-done", s) = Said("read-done", s)' + 1
      /\ SaidError("read-done", s) = SaidError("read-done", s)'
      /\ Said("read", s)' = Said("read", s)
      /\ DoneLast(s) => Said("read", s) = 0
  BY <1>m, SaidRead
<1>3. ~SilentServer(s)
  BY <1>2, ReadCounts
<1>4. /\ s \in used /\ result[s] # "ok" /\ ReadBounds(s)
      /\ result[s] # "none" => files[s] = NoFile
      /\ result[s] = "none" => ReadPhase(s)
  BY <1>1, <1>3, ReadBusy
<1>5. /\ files'[s].buffer = f.buffer /\ (files'[s].closed <=> f.closed)
      /\ (files'[s].kept <=> f.kept) /\ (files'[s].here <=> f.here)
      /\ f.here => /\ ~files'[s].error /\ files'[s].references = f.references
                   /\ files'[s].due = f.due + 1 /\ files'[s].pushes = 0
  <2>1. CASE f.here
    <3>1. files'[s] = Finishing(f)
      BY <2>1, <1>1
    <3> QED BY <3>1, <2>1, FiredIs
  <2> QED BY <2>1, <1>1
<1>6. \A t : Asked(t, s)' = Asked(t, s)
  BY <1>1, SameQueue
<1>7. ReadBounds(s)'
  BY <1>1, <1>2, <1>4, <1>5, <1>6 DEF ReadBounds
<1>8. CASE result[s] # "none"
  <2>1. files' = files
    BY <1>1, <1>4, <1>8 DEF NoFile
  <2> QED BY <2>1, <1>1, <1>4, <1>7, <1>8, ReadGoesOn
<1>9. CASE result[s] = "none" /\ Abandoned(s)
  <2>1. Abandoned(s)'
    BY <1>1, <1>5, <1>9 DEF Abandoned
  <2> QED BY <2>1, <1>1, <1>4, <1>7, <1>9, ReadGoesOn DEF ReadPhase
<1>10. CASE result[s] = "none" /\ ~Abandoned(s)
  <2>1. ReadEnding(s)
    <3>1. ReadsData(s) => Said("read-done", s) = 0
      BY DEF ReadsData
    <3>2. ~ReadOpening(s) /\ ~ReadFired(s)
      BY <1>3 DEF ReadOpening, ReadFired, Fired
    <3> QED BY <3>1, <3>2, <1>2, <1>4, <1>10 DEF ReadPhase
  <2>2. /\ f.here /\ f.references = 1 /\ f.due = 0 /\ f.kept /\ ~f.closed
        /\ waiting = {s} /\ Asked("read-open", s) = 0 /\ ~open[s].event /\ Said("read", s) = 0
    BY <2>1, <1>2 DEF ReadEnding, Reading, Pending, Waited, Inert, FileRecords
  <2>3. /\ Said("read-done", s) + SaidError("read-done", s) <= 1
        /\ Said("read-done", s) = 1 => moved[s] = Took(s) + Said("read", s)
    BY <2>1 DEF ReadEnding
  <2>4. Said("read-done", s) = 1 /\ SaidError("read-done", s) = 0
    BY <2>3, <1>2, ReadCounts
  <2>5. SilentServer(s)'
    BY <2>2, <2>4, <1>2, ReadCountsNext
  <2>6. Asked("read-cancel", s)' = 0
    <3>1. CASE s \in Loads
      <4>1. s \notin Inputs /\ toClient' \in Seq(ToClientMessages)
        BY <3>1 DEF QueuesTyped
      <4>2. toServer' \in Seq(ToServerMessages)
        BY DEF QueuesTyped
      <4>3. Count(toClient', Message("read-cancel", s, FALSE)) = 0
        BY <4>1, <4>2, CountsTyped
      <4> QED BY <4>3 DEF Asked
    <3>2. CASE s \in Inputs
      BY <3>2, <2>2, <1>1, <1>4, <1>6, <1>10 DEF Abandoned, ReadBounds
    <3> QED BY <3>1, <3>2
  <2>7. SilentClient(s)'
    BY <2>2, <2>6, <1>6, ReadCountsNext
  <2>8. Waited(s)'
    BY <2>2, <1>1, <1>5, <1>10, WaitedWillBe
  <2>9. Fired(s)'
    BY <2>2, <2>5, <2>7, <2>8, <1>1, <1>5, WaitedWillBe
  <2>10. Took(s)' = Took(s)
    BY <1>1, <1>5 DEF Took
  <2>11. Took(s) \in Nat
    BY DEF Took
  <2>12. moved'[s] = Took(s)'
    BY <2>2, <2>3, <2>4, <2>10, <2>11, <1>1
  <2>13. ReadFired(s)'
    BY <2>2, <2>9, <2>12, <1>5 DEF ReadFired
  <2> QED BY <2>13, <1>1, <1>4, <1>7, <1>10, ReadGoesOn DEF ReadPhase
<1> QED BY <1>8, <1>9, <1>10

LEMMA ReadTransferFailed ==
  ASSUME Typed, Typed', NEW s \in Reads, ReadSound(s), TransferDone("read-done", s, TRUE)
  PROVE  ReadSound(s)'
<1>a. /\ s \in Streams /\ QueuesTyped /\ QueuesTyped' /\ files \in [Streams -> FileRecords]
      /\ files[s] \in FileRecords /\ files[s].pushes = 0
      /\ given[s] \in Nat /\ files[s].buffer \in Nat /\ moved[s] \in Nat
      /\ (s \in Loads \/ s \in Inputs) /\ (s \in Loads => s \notin Inputs)
  BY ReadTyped DEF Typed
<1> USE <1>a
<1> DEFINE f == files[s]
<1>m. FromClient(Message("read-done", s, TRUE))
  BY DEF TransferDone
<1>1. /\ Alive /\ Alive'
      /\ UNCHANGED <<used, waiting, result, given, moved, open, toClient, pane>>
      /\ files' = IF f.here THEN [files EXCEPT ![s] = Failing(f)] ELSE files
  BY DEF TransferDone, FromClient, Quiet, Failing, Alive
<1>2. /\ SaidError("read-done", s)' \in Nat
      /\ SaidError("read-done", s) = SaidError("read-done", s)' + 1
      /\ Said("read-done", s) = Said("read-done", s)'
      /\ Said("read", s)' = Said("read", s)
      /\ DoneLast(s) => Said("read", s) = 0
  BY <1>m, ErrorRead
<1>3. ~SilentServer(s)
  BY <1>2, ReadCounts
<1>4. /\ s \in used /\ result[s] # "ok" /\ ReadBounds(s)
      /\ result[s] # "none" => files[s] = NoFile
      /\ result[s] = "none" => ReadPhase(s)
  BY <1>1, <1>3, ReadBusy
<1>5. /\ files'[s].buffer = f.buffer /\ (files'[s].closed <=> f.closed)
      /\ (files'[s].kept <=> f.kept) /\ (files'[s].here <=> f.here)
      /\ f.here => /\ files'[s].error /\ files'[s].references = f.references
                   /\ files'[s].due = f.due + 1 /\ files'[s].pushes = 0
  <2>1. CASE f.here
    <3>1. files'[s] = Failing(f)
      BY <2>1, <1>1
    <3> QED BY <3>1, <2>1, FiredIs
  <2> QED BY <2>1, <1>1
<1>6. \A t : Asked(t, s)' = Asked(t, s)
  BY <1>1, SameQueue
<1>7. ReadBounds(s)'
  BY <1>1, <1>2, <1>4, <1>5, <1>6 DEF ReadBounds
<1>8. CASE result[s] # "none"
  <2>1. files' = files
    BY <1>1, <1>4, <1>8 DEF NoFile
  <2> QED BY <2>1, <1>1, <1>4, <1>7, <1>8, ReadGoesOn
<1>9. CASE result[s] = "none" /\ Abandoned(s)
  <2>1. Abandoned(s)'
    BY <1>1, <1>5, <1>9 DEF Abandoned
  <2> QED BY <2>1, <1>1, <1>4, <1>7, <1>9, ReadGoesOn DEF ReadPhase
<1>10. CASE result[s] = "none" /\ ~Abandoned(s)
  <2>1. ReadEnding(s)
    <3>1. ReadsData(s) => SaidError("read-done", s) = 0
      BY DEF ReadsData
    <3>2. ~ReadOpening(s) /\ ~ReadFired(s)
      BY <1>3 DEF ReadOpening, ReadFired, Fired
    <3> QED BY <3>1, <3>2, <1>2, <1>4, <1>10 DEF ReadPhase
  <2>2. /\ f.here /\ f.references = 1 /\ f.due = 0 /\ f.kept /\ ~f.closed
        /\ waiting = {s} /\ Asked("read-open", s) = 0 /\ ~open[s].event /\ Said("read", s) = 0
    BY <2>1, <1>2 DEF ReadEnding, Reading, Pending, Waited, Inert, FileRecords
  <2>3. /\ Said("read-done", s) + SaidError("read-done", s) <= 1
    BY <2>1 DEF ReadEnding
  <2>4. SaidError("read-done", s) = 1 /\ Said("read-done", s) = 0
    BY <2>3, <1>2, ReadCounts
  <2>5. SilentServer(s)'
    BY <2>2, <2>4, <1>2, ReadCountsNext
  <2>6. Asked("read-cancel", s)' = 0
    <3>1. CASE s \in Loads
      <4>1. s \notin Inputs /\ toClient' \in Seq(ToClientMessages)
        BY <3>1 DEF QueuesTyped
      <4>2. toServer' \in Seq(ToServerMessages)
        BY DEF QueuesTyped
      <4>3. Count(toClient', Message("read-cancel", s, FALSE)) = 0
        BY <4>1, <4>2, CountsTyped
      <4> QED BY <4>3 DEF Asked
    <3>2. CASE s \in Inputs
      BY <3>2, <2>2, <1>1, <1>4, <1>6, <1>10 DEF Abandoned, ReadBounds
    <3> QED BY <3>1, <3>2
  <2>7. SilentClient(s)'
    BY <2>2, <2>6, <1>6, ReadCountsNext
  <2>8. Waited(s)'
    BY <2>2, <1>1, <1>5, <1>10, WaitedWillBe
  <2>9. Fired(s)'
    BY <2>2, <2>5, <2>7, <2>8, <1>1, <1>5, WaitedWillBe
  <2>10. ReadFired(s)'
    BY <2>2, <2>9, <1>5 DEF ReadFired
  <2> QED BY <2>10, <1>1, <1>4, <1>7, <1>10, ReadGoesOn DEF ReadPhase
<1> QED BY <1>8, <1>9, <1>10

(* The client opens what is read, or says that it could not.  One that is  *)
(* attached does not answer.                                               *)
LEMMA ReadIsOpened ==
  ASSUME Typed, Typed', NEW s \in Reads, ReadSound(s), FileOpen(s, TRUE)
  PROVE  ReadSound(s)'
<1>a. /\ s \in Streams /\ QueuesTyped /\ QueuesTyped' /\ open \in [Streams -> OpenRecords]
      /\ open[s] \in OpenRecords
      /\ (s \in Loads \/ s \in Inputs) /\ (s \in Loads => s \notin Inputs)
  BY ReadTyped DEF Typed
<1> USE <1>a
<1>m. ToClient(Message("read-open", s, FALSE))
  BY DEF FileOpen
<1>1. /\ UNCHANGED <<flags, files, waiting, pane, given, result, used, moved, client>>
      /\ (Alive' <=> Alive)
  BY DEF FileOpen, ToClient, server, Alive
<1>2. /\ Asked("read-open", s)' \in Nat
      /\ Asked("read-open", s) = Asked("read-open", s)' + 1
      /\ Asked("read-cancel", s) = Asked("read-cancel", s)'
  BY <1>m, AskedRead
<1>3. ~SilentClient(s)
  BY <1>2, ReadCounts
<1>4. /\ s \in used /\ result[s] # "ok" /\ ReadBounds(s)
      /\ result[s] # "none" => files[s] = NoFile
      /\ Alive /\ result[s] = "none" => ReadPhase(s)
  BY <1>3, ReadBusy
<1>5. \/ UNCHANGED <<open, toServer>>
      \/ /\ open' = [open EXCEPT ![s] = [[NotOpen EXCEPT !.here = TRUE] EXCEPT !.event = TRUE]]
         /\ UNCHANGED toServer
      \/ /\ open' = [open EXCEPT ![s].here = TRUE]
         /\ Reply(Message("read-done", s, TRUE))
  BY DEF FileOpen
<1>6. /\ Message("read-done", s, TRUE) \in ToServerMessages
      /\ Message("read-done", s, FALSE) \in ToServerMessages
  BY MessagesSent
<1>7. Said("read", s)' = Said("read", s)
  <2>1. CASE UNCHANGED toServer
    BY <2>1, SameQueue
  <2>2. CASE Reply(Message("read-done", s, TRUE))
    BY <2>2, <1>6, ErrorReply
  <2> QED BY <2>1, <2>2, <1>5
<1>8. ReadBounds(s)'
  BY <1>1, <1>2, <1>4, <1>7 DEF ReadBounds
<1>9. CASE ~(Alive /\ result[s] = "none")
  BY <1>1, <1>4, <1>8, <1>9, ReadGoesOn
<1>10. CASE Alive /\ result[s] = "none" /\ Abandoned(s)
  <2>1. Abandoned(s)'
    BY <1>1, <1>10 DEF Abandoned
  <2> QED BY <2>1, <1>1, <1>4, <1>8, <1>10, ReadGoesOn DEF ReadPhase
<1>11. CASE Alive /\ result[s] = "none" /\ ~Abandoned(s)
  <2>1. ReadOpening(s)
    <3>1. ReadsData(s) \/ ReadEnding(s) => Asked("read-open", s) = 0
      BY DEF ReadsData, ReadEnding
    <3>2. ~ReadFired(s)
      BY <1>3 DEF ReadFired, Fired
    <3> QED BY <3>1, <3>2, <1>2, <1>4, <1>11 DEF ReadPhase
  <2>2. /\ Reading(s) /\ open[s] = NotOpen /\ SilentServer(s) /\ moved[s] = 0 /\ Took(s) = 0
        /\ Asked("read-open", s) = 1
    BY <2>1 DEF ReadOpening
  <2>3. /\ Said("read", s) = 0 /\ Said("read-done", s) = 0 /\ SaidError("read-done", s) = 0
    BY <2>2, ReadCounts
  <2>4. Reading(s)' /\ Took(s)' = Took(s)
    BY <2>2, <1>1, WaitedWillBe DEF Reading, Pending, Waited, Took
  <2>5. Asked("read-open", s)' = 0
    BY <2>2, <1>2
  <2>6. DoneLast(s)
    <3>1. /\ ~Within(toServer, Message("read-done", s, FALSE))
          /\ ~Within(toServer, Message("read-done", s, TRUE))
      BY <2>3, CountProperties DEF Said, SaidError, QueuesTyped
    <3> QED BY <3>1 DEF DoneLast, Last, Within, Any
  <2>7. CASE UNCHANGED <<open, toServer>>
    <3>1. DoneLast(s)' /\ Said("read-done", s)' = 0 /\ SaidError("read-done", s)' = 0
      BY <2>3, <2>6, <2>7, SameQueue
    <3>2. ReadEnding(s)'
      BY <2>2, <2>4, <2>5, <2>7, <3>1 DEF ReadEnding, Inert, NotOpen
    <3> QED BY <3>2, <1>1, <1>4, <1>8, <1>11, ReadGoesOn DEF ReadPhase
  <2>8. CASE /\ open' = [open EXCEPT ![s] = [[NotOpen EXCEPT !.here = TRUE] EXCEPT !.event = TRUE]]
             /\ UNCHANGED toServer
    <3>1. open'[s].event
      BY <2>8 DEF NotOpen
    <3>2. /\ Said("read", s)' = 0 /\ Said("read-done", s)' = 0 /\ SaidError("read-done", s)' = 0
      BY <2>3, <2>8, SameQueue
    <3>3. moved'[s] = Took(s)' + Said("read", s)'
      BY <2>2, <2>4, <3>2, <1>1
    <3>4. ReadsData(s)'
      BY <2>4, <2>5, <3>1, <3>2, <3>3 DEF ReadsData
    <3> QED BY <3>4, <1>1, <1>4, <1>8, <1>11, ReadGoesOn DEF ReadPhase
  <2>9. CASE /\ open' = [open EXCEPT ![s].here = TRUE]
             /\ Reply(Message("read-done", s, TRUE))
    <3>1. ~open'[s].event
      BY <2>2, <2>9 DEF NotOpen
    <3>2. /\ \A u : SaidError(u, s)' = IF Alive /\ u = "read-done" THEN SaidError(u, s) + 1
                                       ELSE SaidError(u, s)
          /\ \A u : Said(u, s)' = Said(u, s)
          /\ DoneLast(s)'
      BY <2>6, <2>9, <1>6, ErrorReply
    <3>3. Said("read-done", s)' = 0 /\ SaidError("read-done", s)' = 1
      BY <2>3, <3>2, <1>11
    <3>4. ReadEnding(s)'
      BY <2>4, <2>5, <3>1, <3>2, <3>3 DEF ReadEnding, Inert
    <3> QED BY <3>4, <1>1, <1>4, <1>8, <1>11, ReadGoesOn DEF ReadPhase
  <2> QED BY <2>7, <2>8, <2>9, <1>5
<1> QED BY <1>9, <1>10, <1>11

(* A read is cancelled: only that of a pane that has gone is.              *)
LEMMA ReadIsCancelled ==
  ASSUME Typed, Typed', NEW s \in Reads, ReadSound(s), FileReadCancel(s)
  PROVE  ReadSound(s)'
<1>a. /\ s \in Streams /\ QueuesTyped /\ QueuesTyped' /\ open \in [Streams -> OpenRecords]
  BY ReadTyped DEF Typed
<1> USE <1>a
<1>m. ToClient(Message("read-cancel", s, FALSE))
  BY DEF FileReadCancel
<1>1. /\ UNCHANGED <<flags, files, waiting, pane, given, result, used, moved>>
      /\ (Alive' <=> Alive)
  BY DEF FileReadCancel, ToClient, server, Alive
<1>2. /\ Message("read-cancel", s, FALSE) \in ToClientMessages
      /\ Asked("read-cancel", s)' \in Nat
      /\ Asked("read-open", s) = Asked("read-open", s)'
      /\ Asked("read-cancel", s) = Asked("read-cancel", s)' + 1
  BY <1>m, AskedRead
<1>3. ~SilentClient(s)
  BY <1>2, ReadCounts
<1>4. /\ s \in used /\ result[s] # "ok" /\ ReadBounds(s)
      /\ result[s] # "none" => files[s] = NoFile
      /\ Alive /\ result[s] = "none" => ReadPhase(s)
  BY <1>3, ReadBusy
<1>5. s \in Inputs /\ (~pane \/ ~Alive)
  <2>1. s \in Inputs
    BY <1>2, MessagesToClient
  <2> QED BY <2>1, <1>2, <1>4 DEF ReadBounds
<1>6. UNCHANGED toServer \/ Reply(Message("read-done", s, FALSE))
  BY DEF FileReadCancel, Ignored, Unknown, ReadEnds
<1>7. Said("read", s)' = Said("read", s)
  <2>1. CASE UNCHANGED toServer
    BY <2>1, SameQueue
  <2>2. CASE Reply(Message("read-done", s, FALSE))
    <3>1. Message("read-done", s, FALSE) \in ToServerMessages
      BY MessagesSent
    <3> QED BY <2>2, <3>1, SaidReply
  <2> QED BY <2>1, <2>2, <1>6
<1>8. ReadBounds(s)'
  BY <1>1, <1>4, <1>5, <1>7 DEF ReadBounds
<1>9. ASSUME Alive, result[s] = "none" PROVE Abandoned(s)'
  <2>1. files[s].here => files[s].kept
    <3>1. ReadOpening(s) \/ ReadsData(s) \/ ReadEnding(s) => files[s].kept
      BY DEF ReadOpening, ReadsData, ReadEnding, Reading
    <3>2. ~ReadFired(s)
      BY <1>3 DEF ReadFired, Fired
    <3> QED BY <3>1, <3>2, <1>4, <1>9 DEF ReadPhase, Abandoned
  <2> QED BY <2>1, <1>1, <1>5, <1>9 DEF Abandoned
<1> QED BY <1>1, <1>4, <1>8, <1>9, ReadGoesOn DEF ReadPhase

(* More has been read from a file, or it ends.                             *)
LEMMA ReadMore ==
  ASSUME Typed, Typed', NEW s \in Reads, ReadSound(s), ReadSome(s)
  PROVE  ReadSound(s)'
<1>a. /\ s \in Streams /\ QueuesTyped /\ QueuesTyped' /\ moved \in [Streams -> Nat]
      /\ moved[s] \in Nat /\ files[s].buffer \in Nat /\ given[s] \in Nat /\ Said("read", s) \in Nat
      /\ (s \in Loads \/ s \in Inputs) /\ (s \in Loads => s \notin Inputs)
  BY ReadTyped DEF Typed
<1> USE <1>a
<1>1. /\ client.run # "gone" /\ open[s].event /\ moved[s] < MaxData
      /\ moved' = [moved EXCEPT ![s] = @ + 1]
      /\ Reply(Message("read", s, FALSE))
      /\ UNCHANGED <<flags, files, waiting, pane, given, result, used, client, open, toClient>>
      /\ (Alive' <=> Alive)
  BY DEF ReadSome, Running, ClientOnly, server, Alive
<1>2. /\ \A u : Said(u, s)' = IF Alive /\ u = "read" THEN Said(u, s) + 1 ELSE Said(u, s)
      /\ \A u : SaidError(u, s)' = SaidError(u, s)
  <2>1. Message("read", s, FALSE) \in ToServerMessages
    BY MessagesSent
  <2> QED BY <2>1, <1>1, SaidReply
<1>3. /\ s \in used /\ result[s] # "ok" /\ ReadBounds(s)
      /\ result[s] # "none" => files[s] = NoFile
      /\ Alive /\ result[s] = "none" => ReadPhase(s)
  BY <1>1, ReadBusy DEF Inert
<1>4. moved'[s] = moved[s] + 1 /\ MaxData \in Nat
  BY <1>1, ClientServerAssumption
<1>5. \A t : Asked(t, s)' = Asked(t, s)
  BY <1>1, SameQueue
<1>6. ReadBounds(s)'
  <2>1. Said("read", s)' <= Said("read", s) + 1
    BY <1>2
  <2>2. s \in Loads => files'[s].buffer + Said("read", s)' <= moved'[s]
    BY <2>1, <1>1, <1>2, <1>3, <1>4 DEF ReadBounds
  <2>3. moved'[s] <= MaxData
    BY <1>1, <1>4
  <2> QED BY <2>2, <2>3, <1>1, <1>3, <1>5 DEF ReadBounds
<1>7. CASE ~(Alive /\ result[s] = "none")
  BY <1>1, <1>3, <1>6, <1>7, ReadGoesOn
<1>8. CASE Alive /\ result[s] = "none"
  <2>1. ReadsData(s) \/ Abandoned(s)
    BY <1>1, <1>3, <1>8 DEF ReadPhase, ReadOpening, ReadEnding, ReadFired, Fired, Inert, NotOpen
  <2>2. CASE Abandoned(s)
    <3>1. Abandoned(s)'
      BY <2>2, <1>1 DEF Abandoned
    <3> QED BY <3>1, <1>1, <1>3, <1>6, <1>8, ReadGoesOn DEF ReadPhase
  <2>3. CASE ReadsData(s)
    <3>1. Reading(s)' /\ Took(s)' = Took(s) /\ Took(s) \in Nat
      BY <2>3, <1>1, WaitedWillBe DEF ReadsData, Reading, Pending, Waited, Took
    <3>2. Said("read", s)' = Said("read", s) + 1 /\ Said("read-done", s)' = Said("read-done", s)
      BY <1>2, <1>8
    <3>3. moved'[s] = Took(s)' + Said("read", s)'
      BY <2>3, <3>1, <3>2, <1>1, <1>4 DEF ReadsData
    <3>4. ReadsData(s)'
      BY <2>3, <3>1, <3>2, <3>3, <1>1, <1>2, <1>5 DEF ReadsData
    <3> QED BY <3>4, <1>1, <1>3, <1>6, <1>8, ReadGoesOn DEF ReadPhase
  <2> QED BY <2>1, <2>2, <2>3
<1> QED BY <1>7, <1>8

LEMMA ReadHasEnded ==
  ASSUME Typed, Typed', NEW s \in Reads, ReadSound(s), ReadEnd(s, FALSE)
  PROVE  ReadSound(s)'
<1>a. /\ s \in Streams /\ QueuesTyped /\ QueuesTyped' /\ open \in [Streams -> OpenRecords]
      /\ (s \in Loads \/ s \in Inputs) /\ (s \in Loads => s \notin Inputs)
  BY ReadTyped DEF Typed
<1> USE <1>a
<1>m. Reply(Message("read-done", s, FALSE))
  BY DEF ReadEnd, ReadEnds
<1>1. /\ client.run # "gone" /\ open[s].event
      /\ UNCHANGED <<flags, files, waiting, pane, given, result, used, moved, client, toClient>>
      /\ open' = [open EXCEPT ![s] = NotOpen]
      /\ (Alive' <=> Alive)
  BY DEF ReadEnd, ReadEnds, Running, ClientOnly, server, Alive
<1>2. /\ \A u : Said(u, s)' = IF Alive /\ u = "read-done" THEN Said(u, s) + 1 ELSE Said(u, s)
      /\ \A u : SaidError(u, s)' = SaidError(u, s)
      /\ DoneLast(s) => DoneLast(s)'
  <2>1. Message("read-done", s, FALSE) \in ToServerMessages
    BY MessagesSent
  <2> QED BY <2>1, <1>m, SaidReply
<1>3. /\ s \in used /\ result[s] # "ok" /\ ReadBounds(s)
      /\ result[s] # "none" => files[s] = NoFile
      /\ Alive /\ result[s] = "none" => ReadPhase(s)
  BY <1>1, ReadBusy DEF Inert
<1>4. \A t : Asked(t, s)' = Asked(t, s)
  BY <1>1, SameQueue
<1>5. Said("read", s)' = Said("read", s)
  BY <1>2
<1>6. ReadBounds(s)'
  BY <1>1, <1>3, <1>4, <1>5 DEF ReadBounds
<1>7. CASE ~(Alive /\ result[s] = "none")
  BY <1>1, <1>3, <1>6, <1>7, ReadGoesOn
<1>8. CASE Alive /\ result[s] = "none"
  <2>1. ReadsData(s) \/ Abandoned(s)
    BY <1>1, <1>3, <1>8 DEF ReadPhase, ReadOpening, ReadEnding, ReadFired, Fired, Inert, NotOpen
  <2>2. CASE Abandoned(s)
    <3>1. Abandoned(s)'
      BY <2>2, <1>1 DEF Abandoned
    <3> QED BY <3>1, <1>1, <1>3, <1>6, <1>8, ReadGoesOn DEF ReadPhase
  <2>3. CASE ReadsData(s)
    <3>1. Reading(s)' /\ Took(s)' = Took(s)
      BY <2>3, <1>1, WaitedWillBe DEF ReadsData, Reading, Pending, Waited, Took
    <3>2. Said("read-done", s)' = 1 /\ SaidError("read-done", s)' = 0
      BY <2>3, <1>2, <1>8 DEF ReadsData
    <3>3. DoneLast(s)
      <4>1. Said("read-done", s) = 0 /\ SaidError("read-done", s) = 0
        BY <2>3 DEF ReadsData
      <4>2. /\ ~Within(toServer, Message("read-done", s, FALSE))
            /\ ~Within(toServer, Message("read-done", s, TRUE))
        BY <4>1, CountProperties DEF Said, SaidError, QueuesTyped
      <4> QED BY <4>2 DEF DoneLast, Last, Within, Any
    <3>4. DoneLast(s)' /\ Asked("read-open", s)' = 0
      BY <2>3, <3>3, <1>2, <1>4 DEF ReadsData
    <3>5. ~open'[s].event
      BY <1>1 DEF NotOpen
    <3>6. moved'[s] = Took(s)' + Said("read", s)'
      BY <2>3, <3>1, <1>1, <1>5 DEF ReadsData
    <3>7. ReadEnding(s)'
      BY <3>1, <3>2, <3>4, <3>5, <3>6 DEF ReadEnding, Inert
    <3> QED BY <3>7, <1>1, <1>3, <1>6, <1>8, ReadGoesOn DEF ReadPhase
  <2> QED BY <2>1, <2>2, <2>3
<1> QED BY <1>7, <1>8

LEMMA ReadHasFailed ==
  ASSUME Typed, Typed', NEW s \in Reads, ReadSound(s), ReadEnd(s, TRUE)
  PROVE  ReadSound(s)'
<1>a. /\ s \in Streams /\ QueuesTyped /\ QueuesTyped' /\ open \in [Streams -> OpenRecords]
      /\ (s \in Loads \/ s \in Inputs) /\ (s \in Loads => s \notin Inputs)
  BY ReadTyped DEF Typed
<1> USE <1>a
<1>m. Reply(Message("read-done", s, TRUE))
  BY DEF ReadEnd, ReadEnds
<1>1. /\ client.run # "gone" /\ open[s].event
      /\ UNCHANGED <<flags, files, waiting, pane, given, result, used, moved, client, toClient>>
      /\ open' = [open EXCEPT ![s] = NotOpen]
      /\ (Alive' <=> Alive)
  BY DEF ReadEnd, ReadEnds, Running, ClientOnly, server, Alive
<1>2. /\ \A u : SaidError(u, s)' = IF Alive /\ u = "read-done" THEN SaidError(u, s) + 1 ELSE SaidError(u, s)
      /\ \A u : Said(u, s)' = Said(u, s)
      /\ DoneLast(s) => DoneLast(s)'
  <2>1. Message("read-done", s, TRUE) \in ToServerMessages
    BY MessagesSent
  <2> QED BY <2>1, <1>m, ErrorReply
<1>3. /\ s \in used /\ result[s] # "ok" /\ ReadBounds(s)
      /\ result[s] # "none" => files[s] = NoFile
      /\ Alive /\ result[s] = "none" => ReadPhase(s)
  BY <1>1, ReadBusy DEF Inert
<1>4. \A t : Asked(t, s)' = Asked(t, s)
  BY <1>1, SameQueue
<1>5. Said("read", s)' = Said("read", s)
  BY <1>2
<1>6. ReadBounds(s)'
  BY <1>1, <1>3, <1>4, <1>5 DEF ReadBounds
<1>7. CASE ~(Alive /\ result[s] = "none")
  BY <1>1, <1>3, <1>6, <1>7, ReadGoesOn
<1>8. CASE Alive /\ result[s] = "none"
  <2>1. ReadsData(s) \/ Abandoned(s)
    BY <1>1, <1>3, <1>8 DEF ReadPhase, ReadOpening, ReadEnding, ReadFired, Fired, Inert, NotOpen
  <2>2. CASE Abandoned(s)
    <3>1. Abandoned(s)'
      BY <2>2, <1>1 DEF Abandoned
    <3> QED BY <3>1, <1>1, <1>3, <1>6, <1>8, ReadGoesOn DEF ReadPhase
  <2>3. CASE ReadsData(s)
    <3>1. Reading(s)' /\ Took(s)' = Took(s)
      BY <2>3, <1>1, WaitedWillBe DEF ReadsData, Reading, Pending, Waited, Took
    <3>2. SaidError("read-done", s)' = 1 /\ Said("read-done", s)' = 0
      BY <2>3, <1>2, <1>8 DEF ReadsData
    <3>3. DoneLast(s)
      <4>1. Said("read-done", s) = 0 /\ SaidError("read-done", s) = 0
        BY <2>3 DEF ReadsData
      <4>2. /\ ~Within(toServer, Message("read-done", s, FALSE))
            /\ ~Within(toServer, Message("read-done", s, TRUE))
        BY <4>1, CountProperties DEF Said, SaidError, QueuesTyped
      <4> QED BY <4>2 DEF DoneLast, Last, Within, Any
    <3>4. DoneLast(s)' /\ Asked("read-open", s)' = 0
      BY <2>3, <3>3, <1>2, <1>4 DEF ReadsData
    <3>5. ~open'[s].event
      BY <1>1 DEF NotOpen
    <3>6. ReadEnding(s)'
      BY <3>1, <3>2, <3>4, <3>5 DEF ReadEnding, Inert
    <3> QED BY <3>6, <1>1, <1>3, <1>6, <1>8, ReadGoesOn DEF ReadPhase
  <2> QED BY <2>1, <2>2, <2>3
<1> QED BY <1>7, <1>8

LEMMA ReadLost ==
  ASSUME Typed, NEW s \in Reads, ReadSound(s), Lost
  PROVE  ReadSound(s)'
<1>1. s \in Streams /\ Said("read", s) \in Nat /\ moved[s] \in Nat /\ files[s].buffer \in Nat
  BY ReadTyped
<1>2. /\ ~Alive' /\ UNCHANGED <<open, given, moved, result, used>>
      /\ SilentServer(s)' /\ (SilentClient(s) => SilentClient(s)')
      /\ files[s] = NoFile => files'[s] = NoFile
      /\ files'[s].closed <=> files[s].closed
      /\ files'[s].kept <=> files[s].kept
      /\ files'[s].buffer = files[s].buffer
  BY <1>1, LostLeaves
<1>3. Unused(s) => Unused(s)'
  BY <1>2 DEF Unused
<1>4. Ended(s) => Ended(s)'
  BY <1>2 DEF Ended, Inert
<1>5. ReadBounds(s)'
  <2>1. ReadBounds(s)
    BY DEF ReadSound
  <2>2. Said("read", s)' = 0
    BY <1>2, SilentWillBe
  <2>3. s \in Loads => files'[s].buffer + Said("read", s)' <= moved'[s]
    BY <2>1, <2>2, <1>1, <1>2 DEF ReadBounds
  <2> QED BY <2>1, <2>3, <1>2 DEF ReadBounds
<1> QED BY <1>2, <1>3, <1>4, <1>5 DEF ReadSound

LEMMA ReadKilled ==
  ASSUME Typed, Typed', NEW s \in Reads, ReadSound(s), Killed
  PROVE  ReadSound(s)'
<1>1. /\ s \in Streams /\ QueuesTyped /\ QueuesTyped' /\ moved[s] \in Nat /\ files[s].buffer \in Nat
  BY ReadTyped DEF Typed
<1>2. /\ UNCHANGED <<flags, files, waiting, pane, toClient, open, given, moved, result, used>>
      /\ (Alive' <=> Alive) /\ client'.run = "gone"
      /\ SilentServer(s) => SilentServer(s)'
      /\ DoneLast(s) => DoneLast(s)' /\ (Said("read-done", s)' # 0 => Said("read", s)' = Said("read", s))
  BY <1>1, KilledLeaves DEF server, Alive
<1>3. /\ Said("read", s)' <= Said("read", s)
      /\ Said("read-done", s)' <= Said("read-done", s)
      /\ SaidError("read-done", s)' <= SaidError("read-done", s)
  BY <1>1, KilledLeaves
<1>4. \A t : /\ Said(t, s) \in Nat /\ SaidError(t, s) \in Nat
             /\ Said(t, s)' \in Nat /\ SaidError(t, s)' \in Nat
  BY <1>1, ReadCounts, ReadCountsNext
<1>5. /\ \A t : Asked(t, s)' = Asked(t, s)
      /\ SilentClient(s)' <=> SilentClient(s)
  BY <1>2, SameQueue
<1>6. Waited(s) => Waited(s)'
  BY <1>2 DEF Waited
<1>7. Reading(s) => Reading(s)'
  BY <1>2, <1>6 DEF Reading, Pending
<1>8. Took(s)' = Took(s)
  BY <1>2 DEF Took
<1>9. ReadOpening(s) => ReadOpening(s)'
  BY <1>2, <1>5, <1>7, <1>8 DEF ReadOpening
<1>10. ASSUME ReadsData(s) PROVE ReadsData(s)'
  <2>1. Said("read-done", s)' = 0 /\ SaidError("read-done", s)' = 0
    BY <1>3, <1>4, <1>10 DEF ReadsData
  <2> QED BY <2>1, <1>2, <1>5, <1>7, <1>10 DEF ReadsData
<1>11. ASSUME ReadEnding(s) PROVE ReadEnding(s)'
  <2>1. /\ Said("read-done", s)' + SaidError("read-done", s)' <= 1
        /\ Said("read-done", s)' = 1 => Said("read-done", s) = 1
    BY <1>3, <1>4, <1>11 DEF ReadEnding
  <2>2. Said("read-done", s)' = 1 => moved'[s] = Took(s)' + Said("read", s)'
    BY <2>1, <1>2, <1>8, <1>11 DEF ReadEnding
  <2> QED BY <2>1, <2>2, <1>2, <1>5, <1>7, <1>11 DEF ReadEnding, Inert
<1>12. ReadFired(s) => ReadFired(s)'
  BY <1>2, <1>5, <1>6, <1>8 DEF ReadFired, Fired, Inert
<1>13. Abandoned(s) => Abandoned(s)'
  BY <1>2 DEF Abandoned
<1>14. ReadPhase(s) => ReadPhase(s)'
  BY <1>9, <1>10, <1>11, <1>12, <1>13 DEF ReadPhase
<1>15. Unused(s) => Unused(s)'
  BY <1>2, <1>5 DEF Unused
<1>16. Ended(s) => Ended(s)'
  BY <1>2, <1>5 DEF Ended, Inert
<1>17. ReadBounds(s) => ReadBounds(s)'
  <2>1. s \in Loads /\ files[s].buffer + Said("read", s) <= moved[s]
          => files'[s].buffer + Said("read", s)' <= moved'[s]
    BY <1>1, <1>2, <1>3, <1>4
  <2> QED BY <2>1, <1>2, <1>5 DEF ReadBounds
<1> QED BY <1>2, <1>14, <1>15, <1>16, <1>17 DEF ReadSound

LEMMA ReadStep ==
  ASSUME Typed, Typed', Next, NEW s \in Reads, ReadSound(s)
  PROVE  ReadSound(s)'
<1>a. s \in Streams /\ s \notin Outputs /\ s \notin Writes /\ s # Stdout
  BY StreamsAre, ReadTyped DEF Outputs
<1>1. ServerStep => Lost \/ On(s) \/ StreamKept(s)
  BY <1>a, StreamLeftByServer DEF On
<1>2. ClientStep => Killed \/ On(s) \/ StreamKept(s)
  BY <1>a, StreamLeftByClient DEF On
<1>3. CASE Lost
  BY <1>3, ReadLost
<1>4. CASE Killed
  BY <1>4, ReadKilled
<1>5. CASE StreamKept(s)
  BY <1>5, ReadLeft
<1>6. CASE On(s)
  <2>1. ASSUME NEW t, NEW e, FromClient(Message(t, s, e)), t \in {"write-ready", "write-done"}
        PROVE  FALSE
    BY <2>1, <1>a, ReadsMessage, MessagesToServer DEF Typed
  <2>2. ASSUME NEW t, ToClient(Message(t, s, FALSE)), t \in {"write-open", "write", "write-close"}
        PROVE  FALSE
    BY <2>2, <1>a, ReadsMessage, MessagesToClient DEF Typed
  <2>3. \A e \in BOOLEAN : ~WriteReady(s, e) /\ ~TransferDone("write-done", s, e)
    BY <2>1 DEF WriteReady, TransferDone
  <2>4. ~FileOpen(s, FALSE) /\ ~FileWriteData(s) /\ ~FileWriteClose(s)
    BY <2>2 DEF FileOpen, FileWriteData, FileWriteClose
  <2>5. ~FilePushAgain(s) /\ ~Drain(s) /\ ~WriteError(s)
    <3>1. files[s].pushes = 0 /\ open[s].output = 0
      BY ReadTyped
    <3>2. ~FilePushAgain(s)
      <4>1. FilePushAgain(s) => files[s].pushes > 0
        BY DEF FilePushAgain
      <4> QED BY <4>1, <3>1
    <3>3. ~Drain(s) /\ ~WriteError(s)
      <4>1. Drain(s) \/ WriteError(s) => open[s].output > 0
        BY DEF Drain, WriteError
      <4> QED BY <4>1, <3>1
    <3> QED BY <3>2, <3>3
  <2>6. ASSUME NEW e \in BOOLEAN, TransferDone("read-done", s, e) PROVE ReadSound(s)'
    <3>1. e = TRUE \/ e = FALSE
      OBVIOUS
    <3> QED BY <3>1, <2>6, ReadTransferDone, ReadTransferFailed
  <2>7. ASSUME NEW e \in BOOLEAN, ReadEnd(s, e) PROVE ReadSound(s)'
    <3>1. e = TRUE \/ e = FALSE
      OBVIOUS
    <3> QED BY <3>1, <2>7, ReadHasEnded, ReadHasFailed
  <2>8. ASSUME NEW read \in BOOLEAN, FileOpen(s, read) PROVE ReadSound(s)'
    <3>1. read = TRUE \/ read = FALSE
      OBVIOUS
    <3> QED BY <3>1, <2>4, <2>8, ReadIsOpened
  <2>9. FileRead(s) \/ FileDone(s) \/ ReadData(s) \/ FileReadCancel(s) \/ ReadSome(s) => ReadSound(s)'
    BY ReadRequested, ReadIsDone, ReadHasData, ReadIsCancelled, ReadMore
  <2> QED BY <1>6, <1>a, <2>3, <2>4, <2>5, <2>6, <2>7, <2>8, <2>9 DEF On, OnServer, OnClient
<1> QED BY <1>1, <1>2, <1>3, <1>4, <1>5, <1>6, StepsOfTwo
-----------------------------------------------------------------------------
(* What the server holds of an output grows only when it is written to.    *)
LEMMA FreedBuffer ==
  ASSUME NEW f \in FileRecords
  PROVE  Freed(f).buffer = 0 \/ Freed(f).buffer = f.buffer
BY DEF Freed, NoFile, FileRecords

LEMMA BufferStep ==
  ASSUME Typed, Next, NEW s \in Outputs
  PROVE  \/ files'[s].buffer <= files[s].buffer
         \/ s \in Writes /\ FileWrite(s)
         \/ s = Stdout /\ FilePrint
<1>a. /\ s \in Streams /\ s \notin Reads /\ files \in [Streams -> FileRecords]
      /\ files[s] \in FileRecords /\ files[s].buffer \in Nat
  BY StreamsAre DEF Typed, FilesTyped, FileRecords
<1> USE <1>a
<1>1. ClientStep => files'[s].buffer <= files[s].buffer
  BY ClientStepLeaves DEF server
<1>2. Lost => files'[s].buffer <= files[s].buffer
  BY LostLeaves
<1>3. StreamKept(s) => files'[s].buffer <= files[s].buffer
  BY DEF StreamKept
<1>4. ASSUME FilePushAgain(s) PROVE files'[s].buffer <= files[s].buffer
  <2> DEFINE f == [files[s] EXCEPT !.pushes = @ - 1]
  <2>1. files[s].pushes > 0 /\ f \in FileRecords /\ f.buffer = files[s].buffer
    <3>1. files[s].pushes > 0
      BY <1>4 DEF FilePushAgain
    <3> QED BY <3>1 DEF FileRecords
  <2>2. PICK k \in 0 .. f.buffer :
          files' = [files EXCEPT ![s] = Freed(Push(f, k))] \/ files' = [files EXCEPT ![s] = Freed(f)]
    BY <1>4 DEF FilePushAgain
  <2> HIDE DEF f
  <2>3. Push(f, k) \in FileRecords /\ Push(f, k).buffer = f.buffer - k
    BY <2>1, PushTyped
  <2>4. CASE files' = [files EXCEPT ![s] = Freed(f)]
    <3>1. files'[s] = Freed(f)
      BY <2>4
    <3> QED BY <3>1, <2>1, FreedBuffer
  <2>5. CASE files' = [files EXCEPT ![s] = Freed(Push(f, k))]
    <3>1. files'[s] = Freed(Push(f, k))
      BY <2>5
    <3>2. files'[s].buffer = 0 \/ files'[s].buffer = f.buffer - k
      BY <3>1, <2>3, FreedBuffer
    <3> QED BY <3>2, <2>1
  <2> QED BY <2>2, <2>4, <2>5
<1>5. ASSUME FileDone(s) PROVE files'[s].buffer <= files[s].buffer
  <2> DEFINE f == [files[s] EXCEPT !.due = @ - 1]
  <2>1. files[s].due > 0 /\ f \in FileRecords /\ f.buffer = files[s].buffer
    BY <1>5 DEF FileDone, FileRecords
  <2>2. files' = [files EXCEPT ![s] = Freed(f)]
    BY <1>5 DEF FileDone
  <2> HIDE DEF f
  <2>3. files'[s] = Freed(f)
    BY <2>2
  <2> QED BY <2>1, <2>3, FreedBuffer
<1>6. ASSUME NEW e \in BOOLEAN, WriteReady(s, e) PROVE files'[s].buffer <= files[s].buffer
  <2>1. \/ \E k \in 0 .. files[s].buffer : files' = [files EXCEPT ![s] = Push(files[s], k)]
        \/ files' = [files EXCEPT ![s] = Failing(files[s])]
        \/ files' = files
    BY <1>6 DEF WriteReady, Failing
  <2>2. ASSUME NEW k \in 0 .. files[s].buffer, files' = [files EXCEPT ![s] = Push(files[s], k)]
        PROVE  files'[s].buffer <= files[s].buffer
    <3>1. files'[s] = Push(files[s], k)
      BY <2>2
    <3>2. files'[s].buffer = files[s].buffer - k
      BY <3>1, PushTyped
    <3> QED BY <3>2
  <2>3. CASE files' = [files EXCEPT ![s] = Failing(files[s])]
    <3>1. files'[s] = Failing(files[s])
      BY <2>3
    <3> QED BY <3>1, FiredIs
  <2> QED BY <2>1, <2>2, <2>3
<1>7. ASSUME NEW t, NEW e \in BOOLEAN, TransferDone(t, s, e)
      PROVE  files'[s].buffer <= files[s].buffer
  <2>1. \/ files' = [files EXCEPT ![s] = FireDone([files[s] EXCEPT !.error = e])]
        \/ files' = files
    BY <1>7 DEF TransferDone
  <2>2. CASE files' = [files EXCEPT ![s] = FireDone([files[s] EXCEPT !.error = e])]
    <3>1. files'[s] = FireDone([files[s] EXCEPT !.error = e])
      BY <2>2
    <3> QED BY <3>1, FireTyped
  <2> QED BY <2>1, <2>2
<1>8. ~ReadData(s)
  <2>1. ReadData(s) => FromClient(Message("read", s, FALSE))
    BY DEF ReadData
  <2> QED BY <2>1, ReadsMessage, MessagesToServer DEF Typed
<1>9. CASE ServerStep
  <2>1. CASE OnServer(s)
    BY <2>1, <1>a, <1>4, <1>5, <1>6, <1>7, <1>8 DEF OnServer
  <2> QED BY <2>1, <1>2, <1>3, <1>9, StreamLeftByServer
<1> QED BY <1>1, <1>9, StepsOfTwo

(* What is printed has no result, and grows by one at a time.              *)
LEMMA StdoutStep ==
  ASSUME Typed, Next
  PROVE  /\ result'[Stdout] = result[Stdout] /\ (Stdout \in used' <=> Stdout \in used)
         /\ given'[Stdout] = given[Stdout] \/ FilePrint
<1>a. Stdout \in Streams /\ Stdout \notin Reads /\ Stdout \notin Writes /\ Stdout \in Outputs
  BY StreamsAre
<1> DEFINE Kept == /\ result'[Stdout] = result[Stdout] /\ (Stdout \in used' <=> Stdout \in used)
                   /\ given'[Stdout] = given[Stdout]
<1>1. ClientStep => Kept
  BY ClientStepLeaves
<1>2. Lost => Kept
  BY DEF Lost, history
<1>3. StreamKept(Stdout) => Kept
  BY DEF StreamKept
<1>4. FilePushAgain(Stdout) => Kept
  BY DEF FilePushAgain, history
<1>5. FileDone(Stdout) => Kept
  BY <1>a DEF FileDone, Reads
<1>6. ASSUME NEW e \in BOOLEAN, WriteReady(Stdout, e) PROVE Kept
  BY <1>6 DEF WriteReady, FromClient
<1>7. ASSUME NEW t, NEW e \in BOOLEAN, TransferDone(t, Stdout, e) PROVE Kept
  BY <1>7 DEF TransferDone, FromClient
<1>8. ~ReadData(Stdout)
  <2>1. ReadData(Stdout) => FromClient(Message("read", Stdout, FALSE))
    BY DEF ReadData
  <2> QED BY <2>1, <1>a, ReadsMessage, MessagesToServer DEF Typed
<1>9. FilePrint => result' = result /\ used' = used
  BY DEF FilePrint
<1>10. CASE ServerStep
  <2>1. CASE OnServer(Stdout)
    BY <2>1, <1>a, <1>4, <1>5, <1>6, <1>7, <1>8, <1>9 DEF OnServer
  <2> QED BY <2>1, <1>a, <1>2, <1>3, <1>10, StreamLeftByServer
<1> QED BY <1>1, <1>10, StepsOfTwo

LEMMA FilePrinted ==
  ASSUME Typed, FilePrint, files[Stdout].buffer <= given[Stdout]
  PROVE  /\ files'[Stdout].buffer <= given'[Stdout] /\ given'[Stdout] <= MaxPrints
<1>a. /\ Stdout \in Streams /\ files \in [Streams -> FileRecords]
      /\ files[Stdout] \in FileRecords /\ files[Stdout].buffer \in Nat
      /\ given \in [Streams -> Nat] /\ MaxPrints \in Nat
  BY StreamsAre, ClientServerAssumption DEF Typed, FilesTyped, HistoryTyped, FileRecords
<1> USE <1>a
<1>1. given'[Stdout] = given[Stdout] + 1 /\ given'[Stdout] <= MaxPrints
  BY DEF FilePrint
<1> DEFINE more == [files[Stdout] EXCEPT !.buffer = @ + 1]
<1>2. more \in FileRecords /\ more.buffer = files[Stdout].buffer + 1
  BY DEF FileRecords
<1>3. \/ files' = [files EXCEPT ![Stdout] = [NewFile EXCEPT !.buffer = 1]]
      \/ \E k \in 0 .. more.buffer : files' = [files EXCEPT ![Stdout] = Push(more, k)]
  BY DEF FilePrint
<1> HIDE DEF more
<1>4. CASE files' = [files EXCEPT ![Stdout] = [NewFile EXCEPT !.buffer = 1]]
  <2>1. files'[Stdout].buffer = 1
    BY <1>4 DEF NewFile, NoFile
  <2> QED BY <2>1, <1>1
<1>5. ASSUME NEW k \in 0 .. more.buffer, files' = [files EXCEPT ![Stdout] = Push(more, k)]
      PROVE  files'[Stdout].buffer <= given'[Stdout]
  <2>1. files'[Stdout] = Push(more, k)
    BY <1>5
  <2>2. files'[Stdout].buffer = more.buffer - k
    BY <2>1, <1>2, PushTyped
  <2> QED BY <2>2, <1>1, <1>2
<1> QED BY <1>1, <1>3, <1>4, <1>5

LEMMA FileStep ==
  ASSUME Typed, Typed', OwnerSound, Next, FileSound
  PROVE  FileSound'
<1>a. MaxData \in Nat /\ MaxPrints \in Nat /\ Stdout \in Outputs /\ Stdout \in Streams
  BY StreamsAre, ClientServerAssumption
<1>b. \A s \in Streams : files[s].buffer \in Nat /\ files'[s].buffer \in Nat
                         /\ given[s] \in Nat /\ given'[s] \in Nat
  BY DEF Typed, FilesTyped, FileRecords, HistoryTyped
<1>1. ASSUME NEW s \in Writes PROVE WriteSound(s)'
  BY <1>1, WriteStep DEF FileSound
<1>2. ASSUME NEW s \in Reads PROVE ReadSound(s)'
  BY <1>2, ReadStep DEF FileSound
<1>3. ASSUME NEW s \in Writes PROVE files'[s].buffer <= MaxData
  <2>1. s \in Outputs /\ s \in Streams /\ s # Stdout
    BY StreamsAre
  <2>2. CASE FileWrite(s)
    <3>1. PICK n \in 0 .. MaxData : Opens(s, "write-open", [NewFile EXCEPT !.buffer = n])
      BY <2>2 DEF FileWrite
    <3> DEFINE f == [NewFile EXCEPT !.buffer = n]
    <3>2. f \in FileRecords /\ f.buffer = n
      <4>1. n \in Nat
        BY <1>a
      <4> QED BY <4>1 DEF NewFile, NoFile, FileRecords
    <3> HIDE DEF f
    <3>3. \/ files' = [files EXCEPT ![s] = [f EXCEPT !.kept = TRUE]]
          \/ files' = [files EXCEPT ![s] = Failing(f)]
      BY <3>1 DEF Opens, Failing, f
    <3>4. files'[s] = [f EXCEPT !.kept = TRUE] \/ files'[s] = Failing(f)
      BY <3>3, <2>1 DEF Typed, FilesTyped
    <3>5. files'[s].buffer = n
      BY <3>2, <3>4, KeptTyped, FiredIs
    <3> QED BY <3>5, <1>a
  <2>3. CASE files'[s].buffer <= files[s].buffer
    BY <2>1, <2>3, <1>a, <1>b DEF FileSound
  <2> QED BY <2>1, <2>2, <2>3, BufferStep
<1>4. result'[Stdout] = "none" /\ Stdout \notin used'
  BY StdoutStep DEF FileSound
<1>5. files'[Stdout].buffer <= given'[Stdout] /\ given'[Stdout] <= MaxPrints
  <2>1. CASE FilePrint
    BY <2>1, FilePrinted DEF FileSound
  <2>2. CASE ~FilePrint
    <3>1. given'[Stdout] = given[Stdout]
      BY <2>2, StdoutStep
    <3>2. files'[Stdout].buffer <= files[Stdout].buffer
      BY <2>2, <1>a, BufferStep, StreamsAre
    <3> QED BY <3>1, <3>2, <1>a, <1>b DEF FileSound
  <2> QED BY <2>1, <2>2
<1> QED BY <1>1, <1>2, <1>3, <1>4, <1>5 DEF FileSound
-----------------------------------------------------------------------------
LEMMA OwnerInit == Init => OwnerSound
BY StreamsAre DEF Init, OwnerSound, Alive, Within, Any, Lone, Stopped, Stops, Wakes

LEMMA FileInit == Init => FileSound
<1> SUFFICES ASSUME Init PROVE FileSound
  OBVIOUS
<1>1. /\ Stdout \in Streams /\ (\A s \in Writes \cup Reads : s \in Streams)
      /\ MaxData \in Nat /\ MaxPrints \in Nat
  BY StreamsAre, ClientServerAssumption DEF Outputs
<1>2. \A m : Count(toClient, m) = 0 /\ Count(toServer, m) = 0
  <2>1. /\ \A m : ~Within(toClient, m) /\ ~Within(toServer, m)
        /\ toClient \in Seq({}) /\ toServer \in Seq({})
    BY DEF Init, Within, Any
  <2> QED BY <2>1, CountProperties
<1>3. \A s \in Streams : /\ files[s] = NoFile /\ open[s] = NotOpen /\ given[s] = 0 /\ moved[s] = 0
                         /\ result[s] = "none" /\ s \notin used
  BY DEF Init
<1>4. \A s : SilentClient(s) /\ SilentServer(s) /\ Said("read", s) = 0 /\ Asked("read-cancel", s) = 0
  BY <1>2 DEF SilentClient, SilentServer, Asked, Said, SaidError
<1>5. \A s \in Streams : Unused(s)
  BY <1>3, <1>4 DEF Unused
<1>6. \A s \in Streams : files[s].buffer = 0 /\ ~files[s].closed
  BY <1>3 DEF NoFile
<1>7. ASSUME NEW s \in Writes PROVE WriteSound(s) /\ files[s].buffer <= MaxData
  BY <1>1, <1>3, <1>5, <1>6 DEF WriteSound
<1>8. ASSUME NEW s \in Reads PROVE ReadSound(s)
  <2>1. ReadBounds(s)
    BY <1>1, <1>3, <1>4, <1>6 DEF ReadBounds
  <2> QED BY <2>1, <1>1, <1>3, <1>5 DEF ReadSound
<1> QED BY <1>1, <1>3, <1>6, <1>7, <1>8 DEF FileSound

LEMMA OwnerInvariant == Spec => [](Typed /\ OwnerSound)
<1>1. Init => Typed /\ OwnerSound
  BY TypedInit, OwnerInit
<1>2. Typed /\ OwnerSound /\ [Next]_vars => (Typed /\ OwnerSound)'
  <2>1. CASE Next
    BY <2>1, TypedStep, OwnerStep
  <2>2. CASE UNCHANGED vars
    BY <2>2, TypedStep DEF vars, server, OwnerSound, Alive, Within, Any, Lone, Stopped
  <2> QED BY <2>1, <2>2
<1> QED BY <1>1, <1>2, PTL DEF Spec

LEMMA FileInvariant == Spec => [](Typed /\ OwnerSound /\ FileSound)
<1>1. Init => FileSound
  BY FileInit
<1>2. Typed /\ Typed' /\ OwnerSound /\ FileSound /\ [Next]_vars => FileSound'
  <2> SUFFICES ASSUME Typed, Typed', OwnerSound, FileSound, [Next]_vars PROVE FileSound'
    OBVIOUS
  <2>1. CASE Next
    BY <2>1, FileStep
  <2>2. CASE UNCHANGED vars
    <3>1. /\ UNCHANGED <<flags, files, waiting, pane, toClient, toServer, client, open, given,
                         moved, result, used>>
      BY <2>2 DEF vars, server, history
    <3>2. ASSUME NEW s PROVE StreamKept(s)
      BY <3>1 DEF StreamKept, Alike, Alive
    <3>3. \A s \in Writes : WriteSound(s)' /\ files'[s].buffer <= MaxData
      BY <3>1, <3>2, WriteLeft DEF FileSound
    <3>4. \A s \in Reads : ReadSound(s)'
      BY <3>2, ReadLeft DEF FileSound
    <3> QED BY <3>1, <3>3, <3>4 DEF FileSound
  <2> QED BY <2>1, <2>2
<1> QED BY <1>1, <1>2, OwnerInvariant, PTL DEF Spec
-----------------------------------------------------------------------------
(* The terminal has one owner: the server does not draw on it while the    *)
(* attached client is stopped or runs lock-command, nor after the client    *)
(* has left on MSG_EXITED, whatever signals, suspends, locks and losses     *)
(* come between (server_client_suspend, server_lock_client, MSG_WAKEUP,    *)
(* MSG_UNLOCK and MSG_EXITING in server_client_dispatch).                  *)
THEOREM TerminalHasOneOwner == Spec => []OneOwner
<1>1. Typed /\ OwnerSound => OneOwner
  BY DEF OwnerSound, OneOwner, Stopped
<1> QED BY <1>1, OwnerInvariant, PTL

(* Files are freed with their last reference and not before, there is one  *)
(* file that a client's queue waits for, and a callback that is told of     *)
(* success has had all of its file: what file_write was given has been     *)
(* moved to the client's file, what the client read has been taken         *)
(* (file_fire_done_cb, file_push, file_read_data, file_read_done).         *)
THEOREM FilesAreSound == Spec => []FilesSound
<1>1. ASSUME Typed, FileSound PROVE FilesSound
  <2>1. MaxData \in Nat /\ MaxPrints \in Nat
    BY ClientServerAssumption
  <2>2. \A s \in Streams : s \in Writes \/ s \in Loads \/ s \in Inputs \/ s = Stdout
    BY StreamsAre DEF Reads, Outputs
  <2>3. ASSUME NEW s \in Streams PROVE files[s].buffer \in 0 .. MaxPrints + MaxData
    <3>1. files[s].buffer \in Nat /\ given[s] \in Nat /\ moved[s] \in Nat
      BY <1>1 DEF Typed, FilesTyped, FileRecords, HistoryTyped
    <3>2. CASE s \in Writes
      BY <3>1, <3>2, <2>1, <1>1 DEF FileSound
    <3>3. CASE s \in Reads
      <4>1. ReadBounds(s) /\ Said("read", s) \in Nat
        BY <3>3, <1>1, ReadTyped DEF FileSound, ReadSound
      <4>2. files[s].buffer <= MaxData
        BY <4>1, <3>1, <3>3, <2>1 DEF ReadBounds, Reads
      <4> QED BY <4>2, <3>1, <2>1
    <3>4. CASE s = Stdout
      BY <3>1, <3>4, <2>1, <1>1 DEF FileSound
    <3> QED BY <3>2, <3>3, <3>4, <2>2 DEF Reads
  <2>4. ASSUME NEW s \in Streams
        PROVE  /\ files[s].here = (files[s].references > 0)
               /\ files[s].references <= 1 + files[s].pushes
    BY <1>1 DEF Typed, FilesTyped, FileTyped, FileRecords
  <2>5. Cardinality(waiting) <= 1
    <3>1. waiting = {} \/ \E s \in Streams : waiting = {s}
      BY <1>1 DEF Typed, ServerTyped
    <3>2. Cardinality({}) = 0 /\ \A s \in Streams : Cardinality({s}) = 1
      BY FS_EmptySet, FS_Singleton
    <3> QED BY <3>1, <3>2
  <2>6. TypeOK
    <3>1. client.run \in {"running", "stopped", "locked", "gone"}
          /\ (client.run = "gone") = (client.why # "none")
      BY <1>1 DEF Typed, ClientTyped, ClientRecords
    <3>2. ServerTyped
      BY <1>1 DEF Typed
    <3>3. \A s \in Streams : /\ files[s].buffer \in 0 .. MaxPrints + MaxData
                             /\ files[s].here = (files[s].references > 0)
                             /\ files[s].references <= 1 + files[s].pushes
      BY <2>3, <2>4
    <3>4. /\ flags \subseteq {"attached", "control", "suspended", "exit", "exited", "dead", "done"}
          /\ exitType \in {"return", "shutdown", "detach"}
          /\ timer \in BOOLEAN /\ session \in BOOLEAN /\ pane \in BOOLEAN
          /\ tty \in {"none", "open", "stopped", "closed"}
      BY <3>2 DEF ServerTyped
    <3> QED BY <3>1, <3>3, <3>4, <2>5 DEF TypeOK
  <2>7. ASSUME NEW s \in Streams, result[s] = "ok" PROVE moved[s] = given[s]
    <3>1. s # Stdout
      BY <2>7, <1>1 DEF FileSound
    <3>2. Ended(s)
      BY <3>1, <2>2, <2>7, <1>1 DEF FileSound, WriteSound, ReadSound, Reads
    <3> QED BY <3>2, <2>7 DEF Ended
  <2> QED BY <2>6, <2>7 DEF FilesSound, DoneMeansMoved
<1> QED BY <1>1, FileInvariant, PTL
-----------------------------------------------------------------------------
(* What the queue owes before a place of it.                               *)
Grown(q, r) == Len(q) <= Len(r) /\ \A i \in 1 .. Len(q) : r[i] = q[i]

LEMMA GrownQueue ==
  ASSUME NEW S, NEW q \in Seq(S), NEW r \in Seq(S), Grown(q, r)
  PROVE  /\ \A n \in 1 .. Len(q) + 1 :
              (\A m : Before(r, n, m) = Before(q, n, m)) /\ (Unready(r, n) <=> Unready(q, n))
         /\ Unready(r, Len(r) + 1) => Unready(q, Len(q) + 1)
<1>1. /\ DOMAIN q = 1 .. Len(q) /\ DOMAIN r = 1 .. Len(r) /\ Len(q) \in Nat /\ Len(r) \in Nat
      /\ Len(q) <= Len(r) /\ \A i \in 1 .. Len(q) : r[i] = q[i]
  BY DEF Grown
<1>2. ASSUME NEW n \in 1 .. Len(q) + 1
      PROVE  (\A m : Before(r, n, m) = Before(q, n, m)) /\ (Unready(r, n) <=> Unready(q, n))
  <2>1. \A i \in Int : i < n => (i \in DOMAIN r <=> i \in DOMAIN q)
    BY <1>1
  <2>2. \A i : i \in DOMAIN r /\ i < n <=> i \in DOMAIN q /\ i < n
    BY <2>1, <1>1
  <2>3. ASSUME NEW m PROVE {i \in DOMAIN r : i < n /\ r[i] = m} = {i \in DOMAIN q : i < n /\ q[i] = m}
    BY <2>2, <1>1
  <2> QED BY <2>2, <2>3, <1>1 DEF Before, Unready
<1>3. Unready(r, Len(r) + 1) => Unready(q, Len(q) + 1)
  BY <1>1 DEF Unready
<1> QED BY <1>2, <1>3

LEMMA GrownBy ==
  ASSUME NEW S, NEW q \in Seq(S)
  PROVE  /\ Grown(q, q)
         /\ \A x \in S : Grown(q, Append(q, x))
         /\ \A r \in Seq(S) : Grown(q, q \o r)
<1>1. \A x \in S : Len(Append(q, x)) = Len(q) + 1 /\ \A i \in 1 .. Len(q) : Append(q, x)[i] = q[i]
  OBVIOUS
<1>2. \A r \in Seq(S) : Len(q \o r) = Len(q) + Len(r) /\ Len(r) \in Nat
                        /\ \A i \in 1 .. Len(q) : (q \o r)[i] = q[i]
  OBVIOUS
<1>3. Len(q) \in Nat
  OBVIOUS
<1> QED BY <1>1, <1>2, <1>3 DEF Grown

LEMMA UnreadyTail ==
  ASSUME NEW S, NEW q \in Seq(S), q # <<>>, Head(q) # Plain("ready")
  PROVE  /\ \A n \in DOMAIN Tail(q) : Unready(Tail(q), n) => Unready(q, n + 1)
         /\ Unready(Tail(q), Len(Tail(q)) + 1) => Unready(q, Len(q) + 1)
<1>1. /\ Len(q) \in Nat \ {0} /\ DOMAIN q = 1 .. Len(q) /\ Len(Tail(q)) = Len(q) - 1
      /\ DOMAIN Tail(q) = 1 .. (Len(q) - 1)
      /\ \A i \in DOMAIN Tail(q) : Tail(q)[i] = q[i + 1]
      /\ Head(q) = q[1]
  OBVIOUS
<1>2. ASSUME NEW n \in 1 .. Len(q), Unready(Tail(q), n) PROVE Unready(q, n + 1)
  <2> SUFFICES ASSUME NEW i \in DOMAIN q, i < n + 1 PROVE q[i] # Plain("ready")
    BY DEF Unready
  <2>1. CASE i = 1
    BY <2>1, <1>1
  <2>2. CASE i # 1
    <3>1. i - 1 \in DOMAIN Tail(q) /\ i - 1 < n /\ Tail(q)[i - 1] = q[i]
      BY <2>2, <1>1
    <3> QED BY <3>1, <1>2 DEF Unready
  <2> QED BY <2>1, <2>2
<1>3. Len(q) - 1 + 1 = Len(q)
  BY <1>1
<1> QED BY <1>1, <1>2, <1>3

LEMMA UnreadyPrefix ==
  ASSUME NEW S, NEW q \in Seq(S), NEW k \in 0 .. Len(q)
  PROVE  \A n \in DOMAIN SubSeq(q, 1, k) : Unready(SubSeq(q, 1, k), n) => Unready(q, n)
<1>1. /\ DOMAIN SubSeq(q, 1, k) = 1 .. k /\ \A i \in 1 .. k : SubSeq(q, 1, k)[i] = q[i]
      /\ DOMAIN q = 1 .. Len(q) /\ Len(q) \in Nat
  OBVIOUS
<1> QED BY <1>1 DEF Unready

(* What an output of the client has is moved, or lost for a reason.        *)
LEMMA ClientQueue ==
  ASSUME ClientStep
  PROVE  UNCHANGED toClient \/ \E m : ToClient(m)
BY DEF ClientStep, FileOpen, FileWriteData, FileWriteClose, FileReadCancel, Drain, WriteError,
   ReadSome, ReadEnd, Told, ServerLost, Signal, Continue, Killed, ClientOnly

LEMMA ClientGoesOn ==
  ASSUME Typed, ClientStep
  PROVE  /\ client.run # "gone" /\ client.why = "none"
         /\ client.attached => client'.attached
         /\ client.exitflag => client'.exitflag
         /\ client'.exitflag => \/ client.exitflag
                                \/ /\ ~client.attached /\ UNCHANGED <<open, moved>>
                                   /\ \E m \in Ends : ToClient(m)
         /\ client'.why = "exit" => client'.exitflag /\ ~Left(open')
<1>a. client \in ClientRecords /\ ClientTyped
  BY DEF Typed, ClientTyped
<1> DEFINE Goes == /\ client.run # "gone" /\ client.why = "none"
                   /\ client.attached => client'.attached
                   /\ client.exitflag => client'.exitflag
                   /\ client'.exitflag => \/ client.exitflag
                                          \/ /\ ~client.attached /\ UNCHANGED <<open, moved>>
                                             /\ \E m \in Ends : ToClient(m)
                   /\ client'.why = "exit" => client'.exitflag /\ ~Left(open')
<1>1. ASSUME UNCHANGED client, client.run # "gone" PROVE Goes
  BY <1>1, <1>a DEF ClientTyped
<1>2. ASSUME client.run # "gone",
             NEW why \in {"fatal", "exited", "lost", "signal", "killed"}, client' = Gone(why)
      PROVE  Goes
  BY <1>2, <1>a DEF ClientTyped, Gone, ClientRecords
<1>3. ASSUME client.run # "gone", FileCheck(open', client) PROVE Goes
  BY <1>3, <1>a DEF ClientTyped, FileCheck, ClientRecords
<1> HIDE DEF Goes
<1>4. ASSUME NEW s \in Streams, FileWriteClose(s) \/ Drain(s) \/ WriteError(s) PROVE Goes
  BY <1>4, <1>1, <1>2, <1>3 DEF FileWriteClose, Drain, WriteError, Finished, Ignored, Unknown,
     ToClient, Running
<1>5. ASSUME NEW s \in Streams, FileWriteData(s) \/ FileReadCancel(s) PROVE Goes
  BY <1>5, <1>1, <1>2 DEF FileWriteData, FileReadCancel, ReadEnds, Ignored, Unknown, ToClient, Running
<1>6. ASSUME NEW type \in Tells, Told(type) PROVE Goes
  <2>1. client.run = "running" /\ ToClient(Plain(type)) /\ UNCHANGED <<open, moved>>
    BY <1>6 DEF Told, ToClient, Running
  <2>2. CASE type \in Exits /\ ~client.attached /\ FileCheck(open, [client EXCEPT !.exitflag = TRUE])
    <3>1. \E m \in Ends : ToClient(m)
      BY <2>1, <2>2 DEF Ends, Exits
    <3>2. /\ client'.attached = client.attached /\ client'.exitflag
          /\ client'.why = "exit" => ~Left(open)
      BY <2>1, <2>2, <1>a DEF FileCheck, ClientTyped, ClientRecords
    <3>3. Left(open') <=> Left(open)
      BY <2>1
    <3> QED BY <2>1, <2>2, <3>1, <3>2, <3>3, <1>a DEF Goes, ClientTyped
  <2>3. CASE client' = [client EXCEPT !.attached = TRUE]
    BY <2>1, <2>3, <1>a DEF Goes, ClientTyped, ClientRecords
  <2>4. CASE client' = [client EXCEPT !.run = IF type = "lock" THEN "locked" ELSE "stopped"]
    BY <2>1, <2>4, <1>a DEF Goes, ClientTyped, ClientRecords
  <2> QED BY <1>6, <2>1, <2>2, <2>3, <2>4, <1>1, <1>2 DEF Told
<1>7. CASE Continue
  BY <1>7, <1>a DEF Goes, Continue, ClientTyped, ClientRecords
<1>8. CASE ServerLost \/ Signal \/ Killed
  <2>1. client.run # "gone"
    BY <1>8 DEF ServerLost, Signal, Killed, Running
  <2>2. \/ UNCHANGED client \/ client' = Gone("lost")
        \/ client' = Gone("signal") \/ client' = Gone("killed")
    BY <1>8 DEF ServerLost, Signal, Killed
  <2> QED BY <2>1, <2>2, <1>1, <1>2 DEF Goes
<1>9. CASE \/ \E s \in Streams, read \in BOOLEAN : FileOpen(s, read)
           \/ \E s \in Streams : ReadSome(s)
           \/ \E s \in Streams, e \in BOOLEAN : ReadEnd(s, e)
  <2>1. client.run # "gone" /\ UNCHANGED client
    BY <1>9 DEF FileOpen, ReadSome, ReadEnd, ReadEnds, ToClient, Running
  <2> QED BY <2>1, <1>1 DEF Goes
<1> QED BY <1>4, <1>5, <1>6, <1>7, <1>8, <1>9 DEF ClientStep, Goes

LEMMA ReadyAttaches ==
  ASSUME Typed, ClientStep, ToClient(Plain("ready"))
  PROVE  client'.attached
<1>a. toClient \in Seq(ToClientMessages) /\ client \in ClientRecords /\ toClient # <<>>
  BY DEF Typed, QueuesTyped, ClientTyped, ToClient
<1>1. toClient' # toClient
  BY <1>a DEF ToClient
<1>2. ASSUME NEW s \in Streams, NEW t, NEW e, ToClient(Message(t, s, e)) PROVE FALSE
  <2>1. Message(t, s, e) = Plain("ready")
    BY <1>2 DEF ToClient
  <2>2. Message(t, s, e).stream = s /\ Plain("ready").stream = 0
    BY DEF Message, Plain
  <2>3. s # 0
    BY StreamsAre
  <2> QED BY <2>1, <2>2, <2>3
<1>3. \A s \in Streams : ~FileWriteData(s) /\ ~FileWriteClose(s) /\ ~FileReadCancel(s)
  BY <1>2 DEF FileWriteData, FileWriteClose, FileReadCancel
<1>4. \A s \in Streams, read \in BOOLEAN : ~FileOpen(s, read)
  BY <1>2 DEF FileOpen
<1>5. ASSUME NEW type \in Tells, Told(type) PROVE client'.attached
  <2>1. Plain(type) = Plain("ready")
    BY <1>5 DEF Told, ToClient
  <2>2. type = "ready"
    BY <2>1, OwningIs
  <2> QED BY <2>2, <1>5, <1>a DEF Told, Exits, ClientRecords
<1>6. /\ \A s \in Streams : ~Drain(s) /\ ~WriteError(s) /\ ~ReadSome(s)
      /\ \A s \in Streams, e \in BOOLEAN : ~ReadEnd(s, e)
      /\ ~ServerLost /\ ~Signal /\ ~Continue /\ ~Killed
  BY <1>1 DEF Drain, WriteError, ReadSome, ReadEnd, ServerLost, Signal, Continue, Killed, ClientOnly
<1> QED BY <1>3, <1>4, <1>5, <1>6 DEF ClientStep

LEMMA FailedGrows ==
  ASSUME Next PROVE failed \subseteq failed'
<1>1. ServerStep => failed' = failed
  BY ServerStepLeaves
<1>2. ClientStep => failed \subseteq failed'
  BY DEF ClientStep, FileOpen, FileWriteData, FileWriteClose, FileReadCancel, Drain, WriteError,
     ReadSome, ReadEnd, Told, ServerLost, Signal, Continue, Killed, history
<1> QED BY <1>1, <1>2, StepsOfTwo

LEMMA ClientMoves ==
  ASSUME Typed, ClientStep, NEW s \in Outputs, open[s].here /\ ~open[s].event => s \in failed
  PROVE  /\ open'[s].here /\ ~open'[s].event => s \in failed'
         /\ Written(s) \in Nat /\ Written(s)' \in Nat
         /\ \/ s \in failed'
            \/ client'.run = "gone" /\ client'.why # "exit"
            \/ Written(s) <= Written(s)'
                 /\ (client.attached
                       \/ Written(s) + Asked("write", s) <= Written(s)' + Asked("write", s)')
<1>a. /\ s \in Streams /\ s \notin Loads \cup Inputs /\ s \notin Reads
      /\ open \in [Streams -> OpenRecords] /\ OpenTyped(s, open[s])
      /\ open[s] \in OpenRecords /\ open[s].output \in Nat
      /\ moved \in [Streams -> Nat] /\ moved[s] \in Nat
      /\ client \in ClientRecords /\ Asked("write", s) \in Nat
  BY StreamsAre, OutputCounts DEF Typed, OpensTyped, OpenTyped, OpenRecords, HistoryTyped, ClientTyped, Reads
<1>b. failed \subseteq failed'
  <2>1. Next
    BY DEF ClientStep, Next, Tells
  <2> QED BY <2>1, FailedGrows
<1>c. /\ open'[s] \in OpenRecords /\ open'[s].output \in Nat /\ moved'[s] \in Nat
      /\ Asked("write", s)' \in Nat
  <2>1. Typed'
    <3>1. Next
      BY DEF ClientStep, Next, Tells
    <3> QED BY <3>1, TypedStep
  <2> QED BY <2>1, <1>a, OutputCountsNext DEF Typed, OpensTyped, OpenRecords, HistoryTyped
<1> USE <1>a
<1>d. Written(s) \in Nat /\ Written(s)' \in Nat
  BY <1>c DEF Written, Output
<1> USE <1>d
<1> DEFINE Lasts == open'[s].here /\ ~open'[s].event => s \in failed'
           Keeps == \/ s \in failed'
                    \/ client'.run = "gone" /\ client'.why # "exit"
                    \/ Written(s) <= Written(s)'
                         /\ (client.attached
                               \/ Written(s) + Asked("write", s) <= Written(s)' + Asked("write", s)')
<1>1. ASSUME open'[s] = open[s], moved'[s] = moved[s],
             client.attached \/ Asked("write", s)' = Asked("write", s)
      PROVE  Lasts /\ Keeps
  <2>1. Written(s)' = Written(s)
    BY <1>1 DEF Written, Output
  <2> QED BY <2>1, <1>1, <1>b, <1>c, <1>d
<1>2. CASE Killed
  <2>1. UNCHANGED open /\ client' = Gone("killed")
    BY <1>2 DEF Killed, ClientOnly
  <2>2. client'.run = "gone" /\ client'.why = "killed"
    BY <2>1 DEF Gone, ClientRecords
  <2> QED BY <2>1, <2>2, <1>b
<1>3. CASE StreamKept(s)
  <2>1. Asked("write", s)' = Asked("write", s)
    BY <1>3, LeftCounts DEF Kinds
  <2> QED BY <2>1, <1>1, <1>3 DEF StreamKept
<1>4. CASE FileOpen(s, FALSE)
  <2>1. ToClient(Message("write-open", s, FALSE)) /\ moved' = moved
    BY <1>4 DEF FileOpen
  <2>2. Asked("write", s)' = Asked("write", s)
    BY <2>1, AskedRead
  <2>3. CASE UNCHANGED open
    BY <2>1, <2>2, <2>3, <1>1
  <2>4. CASE /\ ~open[s].here
             /\ open' = [open EXCEPT ![s] = [[NotOpen EXCEPT !.here = TRUE] EXCEPT !.event = TRUE]]
    <3>1. open[s] = NotOpen
      BY <2>4 DEF OpenTyped
    <3>2. open'[s].event /\ open'[s].output = 0
      BY <2>4 DEF NotOpen
    <3>3. Written(s)' = Written(s)
      BY <2>1, <3>1, <3>2 DEF Written, Output, NotOpen
    <3> QED BY <3>2, <3>3, <2>2, <1>c, <1>d
  <2>5. CASE failed' = failed \cup {s}
    BY <2>5, <1>d
  <2> QED BY <2>3, <2>4, <2>5, <1>4 DEF FileOpen
<1>5. CASE FileWriteData(s)
  <2>1. ToClient(Message("write", s, FALSE)) /\ moved' = moved
    BY <1>5 DEF FileWriteData
  <2>2. Asked("write", s) = Asked("write", s)' + 1
    BY <2>1, AskedRead
  <2>3. CASE client.attached /\ UNCHANGED open
    BY <2>1, <2>3, <1>1
  <2>4. CASE ~open[s].here /\ client' = Gone("fatal") /\ UNCHANGED open
    BY <2>4, <1>b, <1>d DEF Gone, ClientRecords
  <2>5. CASE open[s].here /\ open' = [open EXCEPT ![s].output = @ + IF open[s].event THEN 1 ELSE 0]
    <3>1. (open'[s].event <=> open[s].event) /\ (open'[s].here <=> open[s].here)
          /\ (open[s].event => open'[s].output = open[s].output + 1)
      BY <2>5 DEF OpenRecords
    <3>2. CASE ~open[s].event
      BY <2>5, <3>1, <3>2, <1>b, <1>d
    <3>3. CASE open[s].event
      <4>1. Written(s)' = Written(s) + 1
        BY <2>1, <3>1, <3>3 DEF Written, Output
      <4> QED BY <3>1, <3>3, <4>1, <2>2, <1>c, <1>d
    <3> QED BY <3>2, <3>3
  <2> QED BY <2>3, <2>4, <2>5, <1>5 DEF FileWriteData, Ignored, Unknown, Known
<1>6. CASE FileWriteClose(s)
  <2>1. ToClient(Message("write-close", s, FALSE)) /\ moved' = moved
    BY <1>6 DEF FileWriteClose
  <2>2. Asked("write", s)' = Asked("write", s)
    BY <2>1, AskedRead
  <2>3. CASE UNCHANGED open
    BY <2>1, <2>2, <2>3, <1>1
  <2>4. CASE open' = [open EXCEPT ![s].closed = TRUE]
    <3>1. (open'[s].event <=> open[s].event) /\ (open'[s].here <=> open[s].here)
          /\ open'[s].output = open[s].output
      BY <2>4 DEF OpenRecords
    <3>2. Written(s)' = Written(s)
      BY <2>1, <3>1 DEF Written, Output
    <3> QED BY <3>1, <3>2, <2>2, <1>b, <1>c, <1>d
  <2>5. CASE ~(open[s].event /\ open[s].output > 0) /\ open' = [open EXCEPT ![s] = NotOpen]
    <3>1. ~open'[s].here /\ ~open'[s].event
      BY <2>5 DEF NotOpen
    <3>2. Written(s)' = Written(s)
      BY <2>1, <2>5, <3>1 DEF Written, Output
    <3> QED BY <3>1, <3>2, <2>2, <1>c, <1>d
  <2> QED BY <2>3, <2>4, <2>5, <1>6 DEF FileWriteClose, Ignored, Unknown, Finished
<1>7. CASE Drain(s)
  <2>1. /\ open[s].event /\ open[s].output > 0 /\ moved' = [moved EXCEPT ![s] = @ + 1]
        /\ UNCHANGED toClient
    BY <1>7 DEF Drain, ClientOnly
  <2>2. Asked("write", s)' = Asked("write", s)
    BY <2>1, SameQueue
  <2>3. moved'[s] = moved[s] + 1
    BY <2>1
  <2>4. CASE open[s].output = 1 /\ open' = [open EXCEPT ![s] = NotOpen]
    <3>1. ~open'[s].here /\ ~open'[s].event
      BY <2>4 DEF NotOpen
    <3>2. Written(s)' = Written(s)
      BY <2>1, <2>3, <2>4, <3>1 DEF Written, Output
    <3> QED BY <3>1, <3>2, <2>2, <1>c, <1>d
  <2>5. CASE open' = [open EXCEPT ![s].output = @ - 1]
    <3>1. (open'[s].event <=> open[s].event) /\ (open'[s].here <=> open[s].here)
          /\ open'[s].output = open[s].output - 1
      BY <2>5 DEF OpenRecords
    <3>2. Written(s)' = Written(s)
      BY <2>1, <2>3, <3>1 DEF Written, Output
    <3> QED BY <2>1, <3>1, <3>2, <2>2, <1>b, <1>c, <1>d
  <2> QED BY <2>4, <2>5, <1>7 DEF Drain, Finished
<1>8. CASE WriteError(s)
  BY <1>8, <1>d DEF WriteError
<1>9. ASSUME NEW t, ToClient(Message(t, s, FALSE)), t \in {"read-open", "read-cancel"} PROVE FALSE
  BY <1>9, ReadsMessage, MessagesToClient DEF Typed, Reads
<1>10. ~FileOpen(s, TRUE) /\ ~FileReadCancel(s) /\ ~ReadSome(s) /\ \A e \in BOOLEAN : ~ReadEnd(s, e)
  <2>1. ~FileOpen(s, TRUE) /\ ~FileReadCancel(s)
    BY <1>9 DEF FileOpen, FileReadCancel
  <2>2. ~ReadSome(s) /\ \A e \in BOOLEAN : ~ReadEnd(s, e)
    BY DEF ReadSome, ReadEnd
  <2> QED BY <2>1, <2>2
<1>11. CASE OnClient(s)
  <2>1. ASSUME NEW read \in BOOLEAN, FileOpen(s, read) PROVE FileOpen(s, FALSE)
    <3>1. read = TRUE \/ read = FALSE
      OBVIOUS
    <3> QED BY <3>1, <2>1, <1>10
  <2> QED BY <2>1, <1>4, <1>5, <1>6, <1>7, <1>8, <1>10, <1>11 DEF OnClient
<1> QED BY <1>2, <1>3, <1>11, StreamLeftByClient

(* The server only adds to what is under way, unless the client is lost;   *)
(* the message that ends the client is added when it is let go.            *)
NoNewEnds(q, r) == \A n \in DOMAIN r : r[n] \in Ends => n \in DOMAIN q
LetsGo ==
  /\ "exited" \notin flags /\ "exited" \in flags' /\ Alive
  /\ toClient' = Append(toClient, Plain(exitType))
  /\ promised' = promised \/ (promised' = given /\ ~Holds)
SendsOn ==
  /\ promised' = promised /\ ("exited" \in flags => "exited" \in flags')
  /\ Grown(toClient, toClient') /\ NoNewEnds(toClient, toClient')

LEMMA SendsWhat ==
  ASSUME NEW q \in Seq(ToClientMessages)
  PROVE  /\ Grown(q, q) /\ NoNewEnds(q, q)
         /\ \A m \in ToClientMessages :
              m \notin Ends => Grown(q, Append(q, m)) /\ NoNewEnds(q, Append(q, m))
         /\ \A s \in Outputs, k \in Nat : \A f :
              Grown(q, q \o Pushed(f, s, k)) /\ NoNewEnds(q, q \o Pushed(f, s, k))
<1>1. Grown(q, q) /\ NoNewEnds(q, q)
  BY GrownBy DEF NoNewEnds
<1>2. ASSUME NEW m \in ToClientMessages, m \notin Ends
      PROVE  Grown(q, Append(q, m)) /\ NoNewEnds(q, Append(q, m))
  <2>1. /\ DOMAIN q = 1 .. Len(q) /\ DOMAIN Append(q, m) = 1 .. Len(q) + 1
        /\ Append(q, m)[Len(q) + 1] = m /\ Len(q) \in Nat
    OBVIOUS
  <2>2. NoNewEnds(q, Append(q, m))
    BY <2>1, <1>2 DEF NoNewEnds
  <2> QED BY <2>2, GrownBy
<1>3. ASSUME NEW s \in Outputs, NEW k \in Nat, NEW f
      PROVE  Grown(q, q \o Pushed(f, s, k)) /\ NoNewEnds(q, q \o Pushed(f, s, k))
  <2> DEFINE p == Pushed(f, s, k)
  <2>1. p \in Seq(ToClientMessages) /\ \A i \in DOMAIN p : p[i] \in {Data(s), Close(s)}
    BY PushedIs
  <2>2. \A i \in DOMAIN p : p[i] \notin Ends
    <3>1. s # 0
      BY StreamsAre
    <3>2. \A t : Data(s) # Plain(t) /\ Close(s) # Plain(t)
      <4>1. Data(s).stream = s /\ Close(s).stream = s /\ \A t : Plain(t).stream = 0
        BY DEF Data, Close, Plain, Message
      <4> QED BY <4>1, <3>1
    <3> QED BY <2>1, <3>2 DEF Ends
  <2> HIDE DEF p
  <2>3. /\ DOMAIN q = 1 .. Len(q) /\ DOMAIN p = 1 .. Len(p) /\ DOMAIN (q \o p) = 1 .. Len(q) + Len(p)
        /\ Len(q) \in Nat /\ Len(p) \in Nat
    BY <2>1
  <2>4. \A i \in 1 .. Len(q) + Len(p) : (q \o p)[i] = IF i <= Len(q) THEN q[i] ELSE p[i - Len(q)]
    BY <2>1
  <2>5. ASSUME NEW n \in DOMAIN (q \o p), (q \o p)[n] \in Ends PROVE n \in DOMAIN q
    <3>1. CASE n <= Len(q)
      BY <3>1, <2>3
    <3>2. CASE ~(n <= Len(q))
      <4>1. n - Len(q) \in DOMAIN p /\ p[n - Len(q)] = (q \o p)[n]
        BY <3>2, <2>3, <2>4
      <4> QED BY <4>1, <2>2, <2>5
    <3> QED BY <3>1, <3>2
  <2> QED BY <2>1, <2>5, GrownBy DEF NoNewEnds, p
<1> QED BY <1>1, <1>2, <1>3

LEMMA NotEnds ==
  /\ \A t \in {"detach", "exec", "exited", "ready", "suspend", "lock"} : Plain(t) \notin Ends
  /\ \A s \in Streams : \A t, e : Message(t, s, e) \notin Ends
<1>1. ASSUME NEW t, NEW u, Plain(t) = Plain(u) PROVE t = u
  <2>1. \A x : Plain(x).type = x
    BY DEF Plain, Message
  <2> QED BY <2>1, <1>1
<1>2. \A t \in {"detach", "exec", "exited", "ready", "suspend", "lock"} : Plain(t) \notin Ends
  BY <1>1 DEF Ends
<1>3. ASSUME NEW s \in Streams, NEW t, NEW e PROVE Message(t, s, e) \notin Ends
  <2>1. Message(t, s, e).stream = s /\ s # 0
    BY StreamsAre DEF Message
  <2>2. \A u : Plain(u).stream = 0
    BY DEF Plain, Message
  <2> QED BY <2>1, <2>2 DEF Ends
<1> QED BY <1>2, <1>3

LEMMA ServerSends ==
  ASSUME Typed, ServerStep
  PROVE  Lost \/ LetsGo \/ SendsOn
<1>a. /\ toClient \in Seq(ToClientMessages) /\ QueuesTyped
      /\ \A s \in Streams : FileTyped(s, files[s]) /\ files[s] \in FileRecords
      /\ flags \subseteq {"attached", "control", "suspended", "exit", "exited", "dead", "done"}
  BY DEF Typed, QueuesTyped, FilesTyped, ServerTyped
<1> DEFINE Sent == Grown(toClient, toClient') /\ NoNewEnds(toClient, toClient')
           Held == promised' = promised /\ ("exited" \in flags => "exited" \in flags')
<1>b. ASSUME Sent, Held PROVE SendsOn
  BY <1>b DEF SendsOn
<1>c. /\ UNCHANGED toClient => Sent
      /\ \A m \in ToClientMessages : m \notin Ends /\ toClient' = Append(toClient, m) => Sent
      /\ \A s \in Outputs, k \in Nat : \A f : toClient' = toClient \o Pushed(f, s, k) => Sent
  BY <1>a, SendsWhat
<1> HIDE DEF Sent
<1>1. CASE FilePrint
  <2> DEFINE more == [files[Stdout] EXCEPT !.buffer = @ + 1]
  <2>1. more.buffer \in Nat
    BY <1>a, StreamsAre DEF FileRecords
  <2> HIDE DEF more
  <2>2. \/ toClient' = Append(toClient, Message("write-open", Stdout, FALSE))
        \/ UNCHANGED toClient
        \/ \E k \in 0 .. more.buffer : toClient' = toClient \o Pushed(more, Stdout, k)
    BY <1>1 DEF FilePrint, more
  <2>3. 0 .. more.buffer \subseteq Nat
    BY <2>1
  <2>4. Sent
    BY <2>2, <2>3, <1>c, StreamsAre, MessagesSent, NotEnds
  <2> QED BY <2>4, <1>1, <1>b DEF FilePrint
<1>2. ASSUME NEW s \in Streams, NEW t, NEW f, Opens(s, t, f), Message(t, s, FALSE) \in ToClientMessages
      PROVE  SendsOn
  <2>1. Sent
    BY <1>2, <1>c, NotEnds DEF Opens
  <2> QED BY <2>1, <1>2, <1>b DEF Opens
<1>3. CASE (\E s \in Writes : FileWrite(s)) \/ (\E s \in Reads : FileRead(s))
  BY <1>2, <1>3, StreamsAre, MessagesSent DEF FileWrite, FileRead
<1>4. ASSUME NEW s \in Streams, FilePushAgain(s) PROVE SendsOn
  <2> DEFINE f == [files[s] EXCEPT !.pushes = @ - 1]
  <2>1. s \in Outputs
    BY <1>4, <1>a, StreamsAre DEF FilePushAgain, FileTyped
  <2>2. f.buffer \in Nat
    BY <1>a DEF FileRecords
  <2> HIDE DEF f
  <2>3. \/ UNCHANGED toClient
        \/ \E k \in 0 .. f.buffer : toClient' = toClient \o Pushed(f, s, k)
    BY <1>4 DEF FilePushAgain, f
  <2>4. 0 .. f.buffer \subseteq Nat /\ UNCHANGED <<flags, promised>>
    BY <2>2, <1>4 DEF FilePushAgain, history
  <2> QED BY <2>1, <2>3, <2>4, <1>b, <1>c
<1>5. ASSUME NEW s \in Streams, FileDone(s) \/ ReadData(s) PROVE SendsOn
  <2>1. \/ UNCHANGED toClient
        \/ s \in Inputs /\ toClient' = Append(toClient, Message("read-cancel", s, FALSE))
    BY <1>5 DEF FileDone, ReadData, CancelInput
  <2>2. Sent
    BY <2>1, <1>c, MessagesSent, NotEnds
  <2>3. Held
    BY <1>5 DEF FileDone, ReadData, CancelInput, FromClient
  <2> QED BY <2>2, <2>3, <1>b
<1>6. ASSUME NEW s \in Streams, NEW e \in BOOLEAN, WriteReady(s, e) PROVE SendsOn
  <2>1. FromClient(Message("write-ready", s, e))
    BY <1>6 DEF WriteReady
  <2>2. s \in Outputs
    BY <2>1, <1>a, ReadsMessage, MessagesToServer
  <2>3. \/ UNCHANGED toClient
        \/ \E k \in 0 .. files[s].buffer : toClient' = toClient \o Pushed(files[s], s, k)
    BY <1>6 DEF WriteReady
  <2>4. 0 .. files[s].buffer \subseteq Nat
    BY <1>a DEF FileRecords
  <2>5. UNCHANGED <<flags, promised>>
    BY <2>1, <1>6 DEF WriteReady, FromClient
  <2> QED BY <2>2, <2>3, <2>4, <2>5, <1>b, <1>c
<1>7. ASSUME NEW t, NEW s \in Streams, NEW e \in BOOLEAN, TransferDone(t, s, e) PROVE SendsOn
  BY <1>7, <1>b, <1>c DEF TransferDone, FromClient
<1>8. CASE Exiting \/ Wakeup
  <2>1. UNCHANGED toClient \/ toClient' = Append(toClient, Plain("exited"))
    BY <1>8 DEF Exiting, Wakeup
  <2>2. Plain("exited") \in ToClientMessages /\ Plain("exited") \notin Ends
    BY MessagesSent, NotEnds
  <2>3. Sent
    BY <2>1, <2>2, <1>c
  <2>4. Held
    BY <1>8 DEF Exiting, Wakeup, FromClient
  <2> QED BY <2>3, <2>4, <1>b
<1>9. CASE \/ \E control \in BOOLEAN : Attach(control)
           \/ CommandDone \/ Detach \/ Destroy \/ Suspend \/ Lock \/ Exec \/ KillPane
  <2>1. Sent
    BY <1>9, <1>c, MessagesSent, NotEnds DEF Attach, CommandDone, Detach, Destroy, Leave, Suspend,
       Lock, StopsTty, Exec, KillPane
  <2>2. Held
    BY <1>9 DEF Attach, CommandDone, Detach, Destroy, Leave, Suspend, Lock, StopsTty, Exec, KillPane,
       ServerOnly, history
  <2> QED BY <2>1, <2>2, <1>b
<1>10. CASE ClientLost \/ Shutdown
  <2>1. Lost \/ (Leave("shutdown") /\ Shutdown)
    BY <1>10 DEF ClientLost, Shutdown
  <2>2. Leave("shutdown") => Sent /\ Held
    BY <1>c DEF Leave, ServerOnly, history
  <2> QED BY <2>1, <2>2, <1>b
<1>11. CASE CheckExit
  <2>1. CASE Holds
    BY <2>1, <1>11, <1>b, <1>c DEF CheckExit
  <2>2. CASE ~Holds
    BY <2>2, <1>11 DEF CheckExit, Leaving, LetGo, LetsGo
  <2> QED BY <2>1, <2>2
<1>12. CASE ExitTimer
  <2>1. CASE "suspended" \notin flags /\ "exited" \in flags
    BY <2>1, <1>12 DEF ExitTimer
  <2>2. CASE "suspended" \notin flags /\ "exited" \notin flags /\ "exit" \in flags
    BY <2>2, <1>12 DEF ExitTimer, LetGo, LetsGo
  <2>3. CASE "suspended" \in flags \/ ("exited" \notin flags /\ "exit" \notin flags)
    BY <2>3, <1>12, <1>b, <1>c DEF ExitTimer
  <2> QED BY <2>1, <2>2, <2>3
<1> QED
  BY <1>1, <1>3, <1>4, <1>5, <1>6, <1>7, <1>8, <1>9, <1>10, <1>11, <1>12 DEF ServerStep

(* What is excused stays so: the result of a transfer is told once.        *)
LEMMA ExcusedStays ==
  ASSUME Typed, FileSound, Next, NEW s \in Outputs, Excused(s)
  PROVE  Excused(s)'
<1>a. s \in Streams /\ s \notin Reads /\ (s = Stdout \/ s \in Writes)
  BY StreamsAre
<1>1. failed \subseteq failed'
  BY FailedGrows
<1>2. SUFFICES ASSUME result[s] = "error" PROVE result'[s] = "error"
  BY <1>1 DEF Excused
<1>3. s \in Writes /\ files[s] = NoFile
  <2>1. s # Stdout
    BY <1>2 DEF FileSound
  <2> QED BY <2>1, <1>a, <1>2 DEF FileSound, WriteSound, Ended
<1>4. ClientStep => result' = result
  BY ClientStepLeaves
<1>5. Lost => result' = result
  BY DEF Lost, history
<1>6. StreamKept(s) => result'[s] = result[s]
  BY DEF StreamKept
<1>7. ~FileDone(s)
  BY <1>3 DEF FileDone, NoFile
<1>8. FilePrint \/ FilePushAgain(s) => result' = result
  BY DEF FilePrint, FilePushAgain, history
<1>9. FileWrite(s) => result' = result
  BY DEF FileWrite, Opens
<1>10. ASSUME ReadData(s) \/ \E e \in BOOLEAN : \/ WriteReady(s, e) \/ TransferDone("write-done", s, e)
                                                \/ TransferDone("read-done", s, e)
       PROVE  result' = result
  BY <1>10 DEF ReadData, WriteReady, TransferDone, FromClient
<1>11. CASE ServerStep
  <2>1. OnServer(s) => result' = result
    BY <1>a, <1>7, <1>8, <1>9, <1>10 DEF OnServer
  <2> QED BY <2>1, <1>a, <1>2, <1>5, <1>6, <1>11, StreamLeftByServer
<1> QED BY <1>2, <1>4, <1>11, StepsOfTwo

(* What an output is given in the server is in its buffer or is sent, or   *)
(* its loss is excused.                                                    *)
Gives(s) ==
  given'[s] + files[s].buffer + Asked("write", s)
    <= given[s] + files'[s].buffer + Asked("write", s)'

LEMMA PushGives ==
  ASSUME NEW s, NEW c \in Nat, NEW k \in Nat, k <= c,
         given[s] \in Nat, files[s].buffer \in Nat, Asked("write", s) \in Nat,
         files'[s].buffer = c - k, Asked("write", s)' = Asked("write", s) + k,
         \/ c = files[s].buffer /\ given'[s] = given[s]
         \/ c = files[s].buffer + 1 /\ given'[s] = given[s] + 1
  PROVE  Gives(s)
BY DEF Gives

LEMMA ServerGives ==
  ASSUME Typed, Typed', FileSound, FlowSound, ServerStep, Alive, NEW s \in Outputs
  PROVE  Lost \/ Excused(s)' \/ Gives(s)
<1>a. /\ s \in Streams /\ s \notin Reads /\ (s = Stdout \/ s \in Writes)
      /\ files \in [Streams -> FileRecords] /\ files[s] \in FileRecords /\ files[s].buffer \in Nat
      /\ files[s].references \in Nat /\ files[s].pushes \in Nat /\ files[s].due \in Nat
      /\ given \in [Streams -> Nat] /\ given[s] \in Nat /\ FileTyped(s, files[s])
      /\ result \in [Streams -> {"none", "ok", "error"}]
      /\ Asked("write", s) \in Nat
  BY StreamsAre, OutputCounts DEF Typed, FilesTyped, FileRecords, HistoryTyped
<1>b. files'[s] \in FileRecords /\ files'[s].buffer \in Nat
  BY <1>a DEF Typed, FilesTyped, FileRecords
<1> USE <1>a, <1>b
<1>1. ASSUME Asked("write", s)' = Asked("write", s), given'[s] = given[s],
             files[s].buffer <= files'[s].buffer
      PROVE  Gives(s)
  BY <1>1 DEF Gives
<1>2. CASE StreamKept(s)
  <2>1. Asked("write", s)' = Asked("write", s)
    BY <1>2, LeftCounts DEF Kinds
  <2> QED BY <2>1, <1>1, <1>2 DEF StreamKept
<1>3. CASE s = Stdout /\ FilePrint
  <2> DEFINE more == [files[s] EXCEPT !.buffer = @ + 1]
  <2>1. more \in FileRecords /\ more.buffer = files[s].buffer + 1
    BY DEF FileRecords
  <2>2. \/ /\ ~files[s].here
           /\ files' = [files EXCEPT ![s] = [NewFile EXCEPT !.buffer = 1]]
           /\ UNCHANGED toClient \/ toClient' = Append(toClient, Message("write-open", s, FALSE))
        \/ \E k \in 0 .. more.buffer : /\ files' = [files EXCEPT ![s] = Push(more, k)]
                                       /\ toClient' = toClient \o Pushed(more, s, k)
    BY <1>3 DEF FilePrint
  <2>3. given'[s] = given[s] + 1
    BY <1>3 DEF FilePrint
  <2> HIDE DEF more
  <2>4. CASE /\ ~files[s].here
             /\ files' = [files EXCEPT ![s] = [NewFile EXCEPT !.buffer = 1]]
             /\ UNCHANGED toClient \/ toClient' = Append(toClient, Message("write-open", s, FALSE))
    <3>1. files'[s].buffer = 1 /\ files[s].buffer = 0
      BY <2>4 DEF FileTyped, NewFile, NoFile
    <3>2. Asked("write", s)' = Asked("write", s)
      BY <2>4, SameQueue, AskedSent, MessagesSent
    <3> QED BY <3>1, <3>2, <2>3 DEF Gives
  <2>5. ASSUME NEW k \in 0 .. more.buffer, files' = [files EXCEPT ![s] = Push(more, k)],
               toClient' = toClient \o Pushed(more, s, k)
        PROVE  Gives(s)
    <3>1. files'[s] = Push(more, k)
      BY <2>5
    <3>2. files'[s].buffer = more.buffer - k
      BY <3>1, <2>1, PushTyped
    <3>3. k \in Nat /\ k <= more.buffer /\ more.buffer \in Nat
      BY <2>1
    <3>4. Asked("write", s)' = Asked("write", s) + k
      BY <2>5, <3>3, AskedPushed
    <3> QED BY <3>2, <3>3, <3>4, <2>1, <2>3, PushGives
  <2> QED BY <2>2, <2>4, <2>5
<1>4. CASE s \in Writes /\ FileWrite(s)
  <2>1. PICK n \in 0 .. MaxData :
          /\ Opens(s, "write-open", [NewFile EXCEPT !.buffer = n])
          /\ given' = [given EXCEPT ![s] = n]
    BY <1>4 DEF FileWrite
  <2> DEFINE f == [NewFile EXCEPT !.buffer = n]
  <2>2. n \in Nat /\ f \in FileRecords /\ f.buffer = n
    <3>1. n \in Nat
      BY ClientServerAssumption
    <3> QED BY <3>1 DEF NewFile, NoFile, FileRecords
  <2> HIDE DEF f
  <2>3. /\ s \notin used
        /\ \/ files' = [files EXCEPT ![s] = [f EXCEPT !.kept = TRUE]]
           \/ files' = [files EXCEPT ![s] = Failing(f)]
        /\ UNCHANGED toClient \/ toClient' = Append(toClient, Message("write-open", s, FALSE))
    BY <2>1 DEF Opens, Failing, f
  <2>4. files'[s] = [f EXCEPT !.kept = TRUE] \/ files'[s] = Failing(f)
    BY <2>3
  <2>5. files'[s].buffer = n
    BY <2>2, <2>4, KeptTyped, FiredIs
  <2>6. files[s] = NoFile /\ given[s] = 0
    BY <2>3, <1>4 DEF FileSound, WriteSound, Unused
  <2>7. files[s].buffer = 0
    BY <2>6 DEF NoFile
  <2>8. Asked("write", s)' = Asked("write", s)
    BY <2>3, SameQueue, AskedSent, MessagesSent
  <2>9. given'[s] = n
    BY <2>1
  <2> QED BY <2>2, <2>5, <2>6, <2>7, <2>8, <2>9 DEF Gives
<1>5. CASE FilePushAgain(s)
  <2> DEFINE f == [files[s] EXCEPT !.pushes = @ - 1]
  <2>1. files[s].pushes > 0 /\ given' = given
    BY <1>5 DEF FilePushAgain, history
  <2>2. f \in FileRecords /\ f.buffer = files[s].buffer /\ f.references = files[s].references
    BY <2>1 DEF FileRecords
  <2>3. files[s].references > 0
    BY <2>1 DEF FileTyped, NoFile
  <2>4. PICK k \in 0 .. f.buffer : /\ files' = [files EXCEPT ![s] = Freed(Push(f, k))]
                                   /\ toClient' = toClient \o Pushed(f, s, k)
    BY <1>5 DEF FilePushAgain
  <2> HIDE DEF f
  <2> DEFINE g == Push(f, k)
  <2>5. /\ g \in FileRecords /\ g.buffer = f.buffer - k
        /\ g.references = IF k < f.buffer THEN f.references + 1 ELSE f.references
    BY <2>2, PushTyped
  <2> HIDE DEF g
  <2>6. files'[s] = Freed(g)
    BY <2>4 DEF g
  <2>7. g.references # 1 => Freed(g).buffer = g.buffer
    BY <2>5 DEF Freed, FileRecords
  <2>8. k \in Nat /\ f.buffer \in Nat
    BY <2>2 DEF FileRecords
  <2>9. files'[s].buffer = f.buffer - k
    <3>1. CASE k < f.buffer
      BY <3>1, <2>2, <2>3, <2>5, <2>6, <2>7
    <3>2. CASE ~(k < f.buffer)
      <4>1. g.buffer = 0 /\ f.buffer - k = 0
        BY <3>2, <2>5, <2>8
      <4> QED BY <4>1, <2>5, <2>6, FreedBuffer
    <3> QED BY <3>1, <3>2
  <2>10. toClient' = toClient \o Pushed(f, s, k)
    BY <2>4
  <2>11. Asked("write", s)' = Asked("write", s) + k
    BY <2>8, <2>10, AskedPushed
  <2>12. k <= f.buffer /\ f.buffer = files[s].buffer /\ given'[s] = given[s]
    BY <2>1, <2>2, <2>8
  <2> QED BY <2>8, <2>9, <2>11, <2>12, PushGives
<1>6. CASE FileDone(s)
  <2>1. files[s].due > 0 /\ NoFile.due = 0
    BY <1>6 DEF FileDone, NoFile
  <2>2. CASE s = Stdout
    BY <2>1, <2>2, ServerStepLeaves DEF FlowSound, Excused
  <2>3. CASE s \in Writes
    <3>1. s # Stdout /\ s \notin Inputs /\ s \notin Loads
      BY <2>3, StreamsAre DEF Reads
    <3>2. WriteFired(s)
      <4>1. WriteSound(s) /\ files[s] # NoFile
        BY <2>1, <2>3 DEF FileSound
      <4>2. s \in used /\ result[s] = "none"
        BY <4>1 DEF WriteSound, Unused, Ended
      <4> QED BY <4>1, <4>2, <2>1 DEF WriteSound, Opening, Readied, Sending, Done, Pending
    <3>3. CASE files[s].error
      <4> DEFINE f == [files[s] EXCEPT !.due = @ - 1]
      <4>1. f.error
        BY <3>3 DEF FileRecords
      <4>2. result' = [result EXCEPT ![s] = IF f.error THEN "error" ELSE "ok"]
        BY <3>1, <1>6 DEF FileDone
      <4> HIDE DEF f
      <4>3. result'[s] = "error"
        BY <4>1, <4>2
      <4> QED BY <4>3 DEF Excused
    <3>4. CASE ~files[s].error
      <4>1. files[s].buffer = 0
        BY <3>2, <3>4 DEF WriteFired
      <4>2. UNCHANGED <<toClient, given>>
        BY <3>1, <1>6 DEF FileDone
      <4> QED BY <4>1, <4>2, <1>1, SameQueue
    <3> QED BY <3>3, <3>4
  <2> QED BY <2>2, <2>3
<1>7. ASSUME NEW e \in BOOLEAN, WriteReady(s, e) PROVE Gives(s)
  <2>1. \/ \E k \in 0 .. files[s].buffer : /\ files' = [files EXCEPT ![s] = Push(files[s], k)]
                                           /\ toClient' = toClient \o Pushed(files[s], s, k)
        \/ UNCHANGED toClient /\ files' = [files EXCEPT ![s] = Failing(files[s])]
        \/ UNCHANGED toClient /\ files' = files
    BY <1>7 DEF WriteReady, Failing
  <2>2. given'[s] = given[s]
    BY <1>7 DEF WriteReady
  <2>3. ASSUME NEW k \in 0 .. files[s].buffer, files' = [files EXCEPT ![s] = Push(files[s], k)],
               toClient' = toClient \o Pushed(files[s], s, k)
        PROVE  Gives(s)
    <3>1. files'[s] = Push(files[s], k)
      BY <2>3
    <3>2. files'[s].buffer = files[s].buffer - k
      BY <3>1, PushTyped
    <3>3. k \in Nat /\ k <= files[s].buffer
      OBVIOUS
    <3>4. Asked("write", s)' = Asked("write", s) + k
      BY <2>3, <3>3, AskedPushed
    <3> QED BY <3>2, <3>3, <3>4, <2>2, PushGives
  <2>4. CASE UNCHANGED toClient /\ files' = [files EXCEPT ![s] = Failing(files[s])]
    <3>1. files'[s] = Failing(files[s])
      BY <2>4
    <3>2. files'[s].buffer = files[s].buffer
      BY <3>1, FiredIs
    <3> QED BY <3>2, <2>2, <2>4, <1>1, SameQueue
  <2>5. CASE UNCHANGED toClient /\ files' = files
    BY <2>2, <2>5, <1>1, SameQueue
  <2> QED BY <2>1, <2>3, <2>4, <2>5
<1>8. ASSUME NEW t, NEW e \in BOOLEAN, TransferDone(t, s, e) PROVE Gives(s)
  <2>1. /\ UNCHANGED <<toClient, given>>
        /\ \/ files' = [files EXCEPT ![s] = FireDone([files[s] EXCEPT !.error = e])]
           \/ files' = files
    BY <1>8 DEF TransferDone
  <2>2. CASE files' = [files EXCEPT ![s] = FireDone([files[s] EXCEPT !.error = e])]
    <3>1. files'[s] = FireDone([files[s] EXCEPT !.error = e])
      BY <2>2
    <3>2. files'[s].buffer = files[s].buffer
      BY <3>1, FireTyped
    <3> QED BY <3>2, <2>1, <1>1, SameQueue
  <2> QED BY <2>1, <2>2, <1>1, SameQueue
<1>9. ~ReadData(s)
  <2>1. ReadData(s) => FromClient(Message("read", s, FALSE))
    BY DEF ReadData
  <2> QED BY <2>1, ReadsMessage, MessagesToServer DEF Typed
<1>10. CASE OnServer(s)
  BY <1>10, <1>3, <1>4, <1>5, <1>6, <1>7, <1>8, <1>9 DEF OnServer
<1>11. Next
  BY DEF ServerStep, Next, Reads
<1> QED BY <1>2, <1>10, <1>11, StreamLeftByServer

(* What the server is told to have failed, the client has failed.          *)
LEMMA ServerQueue ==
  ASSUME ServerStep
  PROVE  Lost \/ UNCHANGED toServer \/ \E m : FromClient(m)
<1>1. ASSUME NEW s, NEW t, NEW f, Opens(s, t, f) PROVE UNCHANGED toServer
  BY <1>1 DEF Opens
<1>2. CASE \/ FilePrint \/ (\E s \in Writes : FileWrite(s)) \/ (\E s \in Reads : FileRead(s))
           \/ \E s \in Streams : FilePushAgain(s) \/ FileDone(s)
  BY <1>1, <1>2 DEF FilePrint, FileWrite, FileRead, FilePushAgain, FileDone
<1>3. CASE \/ \E s \in Streams : ReadData(s)
           \/ \E s \in Streams, e \in BOOLEAN :
                WriteReady(s, e) \/ TransferDone("write-done", s, e) \/ TransferDone("read-done", s, e)
           \/ Exiting \/ Wakeup
  BY <1>3 DEF ReadData, WriteReady, TransferDone, Exiting, Wakeup
<1>4. CASE \/ \E control \in BOOLEAN : Attach(control)
           \/ CommandDone \/ CheckExit \/ ExitTimer \/ ClientLost \/ Detach \/ Destroy
           \/ Shutdown \/ Suspend \/ Lock \/ Exec \/ KillPane
  BY <1>4 DEF Attach, CommandDone, CheckExit, ExitTimer, ClientLost, Detach, Destroy, Shutdown,
     Leave, Suspend, Lock, StopsTty, Exec, KillPane, ServerOnly
<1> QED BY <1>2, <1>3, <1>4 DEF ServerStep

LEMMA DeadStays ==
  ASSUME ServerStep, ~Alive
  PROVE  ~Alive'
<1>1. ASSUME flags \subseteq flags' \cup {"suspended"} PROVE ~Alive'
  BY <1>1 DEF Alive
<1> DEFINE Kept == flags \subseteq flags' \cup {"suspended"}
<1>2. CASE \/ FilePrint \/ \E s \in Streams : FilePushAgain(s)
  BY <1>1, <1>2 DEF FilePrint, FilePushAgain
<1>3. ASSUME NEW s \in Streams, FileDone(s) PROVE Kept
  BY <1>3 DEF FileDone, CancelInput
<1>4. CASE Detach \/ Suspend \/ Lock \/ KillPane
  BY <1>1, <1>4 DEF Detach, Leave, Suspend, Lock, StopsTty, KillPane
<1>5. ASSUME NEW m, FromClient(m) PROVE FALSE
  BY <1>5 DEF FromClient
<1>6. ASSUME NEW s, NEW t, NEW f, Opens(s, t, f) PROVE FALSE
  BY <1>6 DEF Opens
<1> QED
  BY <1>1, <1>2, <1>3, <1>4, <1>5, <1>6 DEF ServerStep, FileWrite, FileRead, ReadData, WriteReady,
     TransferDone, Exiting, Wakeup, Attach, CommandDone, CheckExit, Leaving, ExitTimer, ClientLost,
     Destroy, Shutdown, Exec

LEMMA FailuresAreTold ==
  ASSUME Typed, FlowSound, Next, NEW s \in Outputs
  PROVE  SaidError("write-ready", s)' # 0 => s \in failed'
<1> DEFINE t == "write-ready"
<1>a. /\ s \in Streams /\ s \notin Reads /\ s \notin Loads \cup Inputs
      /\ toServer \in Seq(ToServerMessages)
      /\ SaidError(t, s) \in Nat /\ OpenTyped(s, open[s])
      /\ (s \in Writes \/ ~open[s].closed)
      /\ open[s] \in OpenRecords
  BY StreamsAre, OutputCounts DEF Typed, QueuesTyped, OpensTyped, OpenTyped, Reads
<1>b. SaidError(t, s) # 0 => s \in failed
  BY DEF FlowSound
<1>c. failed \subseteq failed'
  BY FailedGrows
<1>d. SaidError(t, s)' <= SaidError(t, s) /\ SaidError(t, s)' \in Nat
        => (SaidError(t, s)' # 0 => s \in failed')
  BY <1>a, <1>b, <1>c
<1>e. SaidError(t, s)' = SaidError(t, s) => (SaidError(t, s)' # 0 => s \in failed')
  BY <1>b, <1>c
<1>1. CASE Lost
  <2>1. SilentServer(s)'
    BY <1>1, <1>a, LostLeaves
  <2> QED BY <2>1, SilentWillBe
<1>2. CASE Killed
  BY <1>2, <1>a, <1>d, KilledLeaves
<1>3. CASE UNCHANGED toServer
  BY <1>3, <1>e, SameQueue
<1>4. CASE \E m : FromClient(m)
  <2>1. toServer # <<>> /\ toServer' = Tail(toServer)
    BY <1>4 DEF FromClient
  <2>2. \A m : Count(toServer', m) \in Nat /\ Count(toServer', m) <= Count(toServer, m)
    <3> SUFFICES ASSUME NEW m PROVE Count(Tail(toServer), m) \in Nat /\ Count(Tail(toServer), m) <= Count(toServer, m)
      BY <2>1
    <3>1. Tail(toServer) \in Seq(ToServerMessages)
      BY <2>1, <1>a
    <3>2. Count(Tail(toServer), m) \in Nat
      BY <3>1, CountProperties
    <3> QED BY <3>2, <2>1, <1>a, CountTail
  <2> QED BY <2>2, <1>d DEF SaidError
<1>5. CASE StreamKept(s)
  BY <1>5, <1>e, LeftCounts DEF Kinds
<1>6. CASE OnClient(s)
  <2>1. ASSUME NEW e \in BOOLEAN, s \in Writes, Reply(Message("write-done", s, e))
        PROVE  SaidError(t, s)' = SaidError(t, s)
    <3>1. Message("write-done", s, e) \in ToServerMessages
      BY <2>1, MessagesSent
    <3>2. e = TRUE \/ e = FALSE
      OBVIOUS
    <3> QED BY <3>1, <3>2, <2>1, <1>a, SaidReply, ErrorReply
  <2>2. ASSUME NEW read \in BOOLEAN, FileOpen(s, read), s \notin failed'
        PROVE  SaidError(t, s)' = SaidError(t, s)
    <3>1. UNCHANGED toServer \/ Reply(Message("write-ready", s, FALSE))
      BY <2>2 DEF FileOpen
    <3>2. Message("write-ready", s, FALSE) \in ToServerMessages
      BY MessagesSent
    <3> QED BY <3>1, <3>2, <1>a, SaidReply, SameQueue
  <2>3. FileWriteData(s) => UNCHANGED toServer
    BY DEF FileWriteData, Ignored, Unknown
  <2>4. WriteError(s) => s \in failed'
    BY DEF WriteError
  <2>5. ASSUME FileWriteClose(s) PROVE SaidError(t, s)' = SaidError(t, s)
    <3>1. s \in Writes
      BY <2>5, <1>a, ReadsMessage, MessagesToClient DEF FileWriteClose, Typed
    <3>2. UNCHANGED toServer \/ Reply(Message("write-done", s, open[s].error))
      BY <2>5 DEF FileWriteClose, Finished, Ignored, Unknown
    <3>3. open[s].error \in BOOLEAN
      BY <1>a DEF OpenRecords
    <3> QED BY <3>1, <3>2, <3>3, <2>1, SameQueue
  <2>6. ASSUME Drain(s) PROVE SaidError(t, s)' = SaidError(t, s)
    <3>1. UNCHANGED toServer \/ (open[s].closed /\ Reply(Message("write-done", s, open[s].error)))
      BY <2>6 DEF Drain, Finished
    <3>2. open[s].error \in BOOLEAN
      BY <1>a DEF OpenRecords
    <3> QED BY <3>1, <3>2, <1>a, <2>1, SameQueue
  <2>7. ~FileReadCancel(s) /\ ~ReadSome(s) /\ \A e \in BOOLEAN : ~ReadEnd(s, e)
    <3>1. ~FileReadCancel(s)
      BY <1>a, ReadsMessage, MessagesToClient DEF FileReadCancel, Typed
    <3> QED BY <3>1, <1>a DEF ReadSome, ReadEnd
  <2> QED BY <2>2, <2>3, <2>4, <2>5, <2>6, <2>7, <1>6, <1>3, <1>e DEF OnClient
<1>7. ServerStep => Lost \/ UNCHANGED toServer \/ \E m : FromClient(m)
  BY ServerQueue
<1>8. ClientStep => Killed \/ OnClient(s) \/ StreamKept(s)
  BY <1>a, StreamLeftByClient
<1> QED BY <1>1, <1>2, <1>3, <1>4, <1>5, <1>6, <1>7, <1>8, StepsOfTwo

LEMMA StdoutFails ==
  ASSUME Typed, FlowSound, Next, Alive', files'[Stdout].due > 0
  PROVE  Stdout \in failed'
<1> DEFINE s == Stdout
<1>a. /\ s \in Streams /\ s \in Outputs /\ s \notin Writes /\ s \notin Reads
      /\ files \in [Streams -> FileRecords] /\ files[s] \in FileRecords /\ files[s].due \in Nat
      /\ FileTyped(s, files[s]) /\ failed \subseteq failed'
  BY StreamsAre, FailedGrows DEF Typed, FilesTyped, FileRecords
<1> HIDE DEF s
<1>b. NoFile.due = 0
  BY DEF NoFile
<1>c. files'[s].due > 0 /\ files'[s].due \in Nat
  <2>1. files' \in [Streams -> FileRecords]
    BY TypedStep DEF Typed, FilesTyped
  <2> QED BY <2>1, <1>a DEF s, FileRecords
<1>d. ASSUME Alive, files[s].due > 0 PROVE s \in failed'
  BY <1>a, <1>d DEF FlowSound, s
<1> SUFFICES s \in failed'
  BY DEF s
<1>1. CASE ClientStep
  <2>1. UNCHANGED <<files, flags>>
    BY <1>1, ClientStepLeaves DEF server
  <2> QED BY <2>1, <1>c, <1>d DEF Alive
<1>2. CASE StreamKept(s)
  BY <1>2, <1>c, <1>d DEF StreamKept
<1>3. ~Lost
  BY DEF Lost, Alive
<1>4. ASSUME ServerStep, OnServer(s) PROVE s \in failed'
  <2>1. Alive
    BY <1>4, DeadStays
  <2> USE <2>1
  <2>2. ASSUME files'[s].due <= files[s].due PROVE s \in failed'
    <3>1. files[s].due > 0
      BY <2>2, <1>a, <1>c
    <3> QED BY <3>1, <1>d
  <2>3. ASSUME FilePrint PROVE s \in failed'
    <3> DEFINE more == [files[s] EXCEPT !.buffer = @ + 1]
    <3>1. more \in FileRecords /\ more.due = files[s].due
      BY <1>a DEF FileRecords
    <3>2. \/ files' = [files EXCEPT ![s] = [NewFile EXCEPT !.buffer = 1]]
          \/ \E k \in 0 .. more.buffer : files' = [files EXCEPT ![s] = Push(more, k)]
      BY <2>3 DEF FilePrint, s
    <3> HIDE DEF more
    <3>3. CASE files' = [files EXCEPT ![s] = [NewFile EXCEPT !.buffer = 1]]
      <4>1. files'[s].due = 0
        BY <3>3, <1>a DEF NewFile, NoFile
      <4> QED BY <4>1, <1>c
    <3>4. ASSUME NEW k \in 0 .. more.buffer, files' = [files EXCEPT ![s] = Push(more, k)]
          PROVE  s \in failed'
      <4>1. files'[s] = Push(more, k)
        BY <3>4, <1>a
      <4>2. files'[s].due = files[s].due
        BY <4>1, <3>1, PushTyped
      <4> QED BY <4>2, <2>2, <1>a
    <3> QED BY <3>2, <3>3, <3>4
  <2>4. ASSUME FilePushAgain(s) PROVE s \in failed'
    <3> DEFINE f == [files[s] EXCEPT !.pushes = @ - 1]
    <3>1. files[s].pushes > 0
      BY <2>4 DEF FilePushAgain
    <3>2. f \in FileRecords /\ f.due = files[s].due
      BY <3>1, <1>a DEF FileRecords
    <3>3. PICK k \in 0 .. f.buffer : files' = [files EXCEPT ![s] = Freed(Push(f, k))]
      BY <2>4 DEF FilePushAgain
    <3> HIDE DEF f
    <3> DEFINE g == Push(f, k)
    <3>4. g \in FileRecords /\ g.due = files[s].due
      BY <3>2, PushTyped
    <3> HIDE DEF g
    <3>5. files'[s] = Freed(g)
      BY <3>3, <1>a DEF g
    <3>6. files'[s].due = 0 \/ files'[s].due = g.due
      BY <3>4, <3>5 DEF Freed, NoFile, FileRecords
    <3> QED BY <3>4, <3>6, <2>2, <1>a, <1>c
  <2>5. ASSUME FileDone(s) PROVE s \in failed'
    BY <2>5, <1>d DEF FileDone
  <2>6. ASSUME NEW e \in BOOLEAN, WriteReady(s, e), e = FALSE PROVE s \in failed'
    <3>1. (\E k \in 0 .. files[s].buffer : files' = [files EXCEPT ![s] = Push(files[s], k)]) \/ ~files[s].here
      BY <2>6 DEF WriteReady
    <3>2. ~files[s].here => files' = files
      BY <2>6 DEF WriteReady
    <3>3. ASSUME NEW k \in 0 .. files[s].buffer, files' = [files EXCEPT ![s] = Push(files[s], k)]
          PROVE  s \in failed'
      <4>1. files'[s] = Push(files[s], k)
        BY <3>3, <1>a
      <4>2. files'[s].due = files[s].due
        BY <4>1, <1>a, PushTyped
      <4> QED BY <4>2, <2>2, <1>a
    <3> QED BY <3>1, <3>2, <3>3, <2>2, <1>a
  <2>7. ASSUME NEW e \in BOOLEAN, WriteReady(s, e), e = TRUE PROVE s \in failed'
    <3>1. FromClient(Message("write-ready", s, TRUE))
      BY <2>7 DEF WriteReady
    <3>2. SaidError("write-ready", s)' \in Nat /\ SaidError("write-ready", s) = SaidError("write-ready", s)' + 1
      BY <3>1, <1>a, ErrorRead
    <3>3. SaidError("write-ready", s) # 0
      BY <3>2
    <3> QED BY <3>3, <1>a DEF FlowSound
  <2>8. ASSUME NEW t \in {"write-done", "read-done"}, NEW e \in BOOLEAN, TransferDone(t, s, e) PROVE FALSE
    <3>1. FromClient(Message(t, s, e))
      BY <2>8 DEF TransferDone
    <3> QED BY <3>1, <1>a, ReadsMessage, MessagesToServer DEF Typed
  <2>9. ~ReadData(s)
    <3>1. ReadData(s) => FromClient(Message("read", s, FALSE))
      BY DEF ReadData
    <3> QED BY <3>1, <1>a, ReadsMessage, MessagesToServer DEF Typed
  <2>10. ASSUME NEW e \in BOOLEAN, WriteReady(s, e) PROVE s \in failed'
    <3>1. e = TRUE \/ e = FALSE
      OBVIOUS
    <3> QED BY <3>1, <2>10, <2>6, <2>7
  <2> QED BY <1>4, <1>a, <2>3, <2>4, <2>5, <2>8, <2>9, <2>10 DEF OnServer
<1> QED BY <1>a, <1>1, <1>2, <1>3, <1>4, StepsOfTwo, StreamLeftByServer

(* What is owed to an output is kept by a step of the server.              *)
LEMMA NoEndYet ==
  ASSUME NEW q, NEW r, ~Any(q, Ends), Grown(q, r), NoNewEnds(q, r),
         NEW S, q \in Seq(S)
  PROVE  ~Any(r, Ends)
<1>1. DOMAIN q = 1 .. Len(q)
  OBVIOUS
<1> QED BY <1>1 DEF Any, Grown, NoNewEnds

LEMMA ServerFlow ==
  ASSUME Typed, Typed', FileSound, FlowSound, ServerStep, NEW s \in Outputs
  PROVE  FlowOf(s)'
<1>a. /\ s \in Streams /\ files[s].buffer \in Nat /\ files'[s].buffer \in Nat
      /\ given[s] \in Nat /\ given'[s] \in Nat /\ promised[s] \in Nat /\ promised'[s] \in Nat
      /\ moved[s] \in Nat /\ open[s].output \in Nat /\ FileTyped(s, files[s])
  BY StreamsAre DEF Typed, FilesTyped, FileRecords, HistoryTyped, OpensTyped, OpenRecords
<1>b. /\ Asked("write", s) \in Nat /\ Asked("write", s)' \in Nat
      /\ toClient \in Seq(ToClientMessages) /\ toClient' \in Seq(ToClientMessages)
      /\ Asked("write", s) = Count(toClient, Data(s)) /\ Asked("write", s)' = Count(toClient', Data(s))
  BY OutputCounts, OutputCountsNext DEF Typed, QueuesTyped, Asked, Data
<1>c. UNCHANGED <<client, open, moved, failed>>
  BY ServerStepLeaves
<1>d. Written(s)' = Written(s) /\ Written(s) \in Nat /\ (Listens' <=> Listens)
  BY <1>a, <1>c DEF Written, Output, Listens
<1>e. Next
  BY DEF ServerStep, Next, Reads
<1>f. Excused(s) => Excused(s)'
  BY <1>e, ExcusedStays
<1>g. FlowOf(s)
  BY DEF FlowSound
<1>1. open'[s].here /\ ~open'[s].event => s \in failed'
  BY <1>c, <1>g DEF FlowOf
<1>2. ASSUME promised'[s] = promised[s], NEW n \in Nat, Covered(s, n) PROVE Covered(s, n)'
  BY <1>2, <1>d, <1>f DEF Covered
<1>3. ASSUME UNCHANGED promised
      PROVE  /\ client'.exitflag /\ client'.run # "gone" => Covered(s, 0)'
             /\ client'.why = "exit" => Excused(s)' \/ promised'[s] <= moved'[s]
  BY <1>3, <1>2, <1>c, <1>f, <1>g DEF FlowOf
<1>4. CASE Lost
  <2>1. ~Alive' /\ UNCHANGED promised
    BY <1>4, <1>a, LostLeaves
  <2>2. PICK k \in 0 .. Len(toClient) : toClient' = SubSeq(toClient, 1, k)
    BY <1>4 DEF Lost
  <2>3. ASSUME NEW n \in DOMAIN toClient', toClient'[n] \in Ends, Listens', Unready(toClient', n)
        PROVE  Covered(s, Before(toClient, n, Data(s)))'
    <3>1. n \in DOMAIN toClient /\ Before(toClient', n, Data(s)) = Before(toClient, n, Data(s))
      BY <2>2, <1>b, CountPrefix
    <3>2. n \in 1 .. k /\ toClient'[n] = toClient[n]
      BY <2>2, <1>b
    <3>3. Unready(toClient, n)
      BY <2>2, <2>3, <1>b, UnreadyPrefix
    <3>4. Covered(s, Before(toClient, n, Data(s)))
      BY <3>1, <3>2, <3>3, <2>3, <1>d, <1>g DEF FlowOf
    <3> QED BY <3>1, <3>4, <2>1, <1>d, <1>f DEF Covered
  <2> QED BY <1>1, <1>3, <2>1, <2>3 DEF FlowOf
<1>5. ASSUME Alive', ~Lost, Grown(toClient, toClient'), Listens', Unready(toClient', Len(toClient') + 1)
      PROVE  Accounted(s)'
  <2>1. Alive
    BY <1>5, DeadStays
  <2>2. Unready(toClient, Len(toClient) + 1)
    BY <1>5, <1>b, GrownQueue
  <2>3. Accounted(s)
    BY <2>1, <2>2, <1>5, <1>d, <1>g DEF FlowOf
  <2>4. Excused(s)' \/ Gives(s)
    BY <2>1, <1>5, ServerGives
  <2> DEFINE a == Asked("write", s)
             b == Asked("write", s)'
             w == Written(s)
  <2>5. Excused(s)' \/ given[s] <= files[s].buffer + a + w
    BY <2>3, <1>b, <1>f DEF Accounted
  <2>6. Excused(s)' \/ given'[s] + files[s].buffer + a <= given[s] + files'[s].buffer + b
    BY <2>4 DEF Gives
  <2>7. Accounted(s)' <=> Excused(s)' \/ given'[s] <= files'[s].buffer + b + w
    BY <1>b, <1>d DEF Accounted
  <2>8. a \in Nat /\ b \in Nat /\ w \in Nat
    BY <1>b, <1>d
  <2> HIDE DEF a, b, w
  <2>9. /\ given[s] <= files[s].buffer + a + w
        /\ given'[s] + files[s].buffer + a <= given[s] + files'[s].buffer + b
        => given'[s] <= files'[s].buffer + b + w
    BY <2>8, <1>a
  <2> QED BY <2>5, <2>6, <2>7, <2>9
<1>6. CASE SendsOn /\ ~Lost
  <2>1. promised' = promised /\ Grown(toClient, toClient') /\ NoNewEnds(toClient, toClient')
    BY <1>6 DEF SendsOn
  <2>2. ASSUME NEW n \in DOMAIN toClient', toClient'[n] \in Ends, Listens', Unready(toClient', n)
        PROVE  Covered(s, Before(toClient, n, Data(s)))'
    <3>1. n \in DOMAIN toClient /\ DOMAIN toClient = 1 .. Len(toClient) /\ Len(toClient) \in Nat
      BY <2>1, <2>2, <1>b DEF NoNewEnds
    <3>2. n \in 1 .. Len(toClient) + 1 /\ toClient'[n] = toClient[n]
      BY <3>1, <2>1 DEF Grown
    <3>3. Unready(toClient, n) /\ Before(toClient', n, Data(s)) = Before(toClient, n, Data(s))
      BY <3>2, <2>1, <2>2, <1>b, GrownQueue
    <3>4. Covered(s, Before(toClient, n, Data(s)))
      BY <3>1, <3>2, <3>3, <2>2, <1>d, <1>g DEF FlowOf
    <3> QED BY <3>3, <3>4, <2>1, <1>d, <1>f DEF Covered
  <2> QED BY <2>1, <2>2, <1>1, <1>3, <1>5, <1>6 DEF FlowOf
<1>7. CASE LetsGo /\ ~Lost
  <2>1. /\ Unpromised /\ Alive /\ toClient' = Append(toClient, Plain(exitType))
        /\ promised' = promised \/ (promised' = given /\ ~Holds)
    BY <1>7 DEF LetsGo, FlowSound
  <2>2. Plain(exitType) \in ToClientMessages
    BY MessagesSent DEF Typed, ServerTyped
  <2>3. Grown(toClient, toClient')
    BY <2>1, <2>2, <1>b, GrownBy
  <2>4. ~client'.exitflag /\ client'.why # "exit"
    BY <2>1, <1>c DEF Unpromised
  <2>5. ASSUME NEW n \in DOMAIN toClient', toClient'[n] \in Ends, Listens', Unready(toClient', n)
        PROVE  Covered(s, Before(toClient, n, Data(s)))'
    <3>1. /\ DOMAIN toClient = 1 .. Len(toClient) /\ DOMAIN toClient' = 1 .. Len(toClient) + 1
          /\ Len(toClient) \in Nat /\ \A i \in 1 .. Len(toClient) : toClient'[i] = toClient[i]
      BY <2>1, <2>2, <1>b
    <3>2. n = Len(toClient) + 1
      <4>1. ~(n \in DOMAIN toClient)
        BY <3>1, <2>1, <2>5 DEF Unpromised, Any
      <4> QED BY <4>1, <3>1
    <3>3. /\ Unready(toClient, Len(toClient) + 1)
          /\ Before(toClient', n, Data(s)) = Count(toClient, Data(s))
      BY <3>1, <3>2, <2>3, <2>5, <1>b, GrownQueue DEF Count
    <3>4. Accounted(s)
      BY <3>3, <2>1, <2>5, <1>d, <1>g DEF FlowOf
    <3>5. ~Holds => files[s].buffer = 0
      BY <1>a DEF Holds, FileTyped, NoFile
    <3>6. CASE promised' = promised
      <4>1. promised'[s] = 0
        BY <3>6, <2>1, <1>a DEF Unpromised
      <4>2. Before(toClient', n, Data(s)) \in Nat
        BY <3>3, <1>b
      <4> QED BY <4>1, <4>2, <1>d DEF Covered
    <3>7. CASE promised' = given /\ ~Holds
      <4>1. Excused(s)' \/ given[s] <= Count(toClient, Data(s)) + Written(s)
        <5>1. Excused(s) \/ given[s] <= 0 + Count(toClient, Data(s)) + Written(s)
          BY <3>4, <3>5, <3>7 DEF Accounted
        <5> QED BY <5>1, <1>a, <1>b, <1>d, <1>f
      <4> QED BY <4>1, <3>3, <3>7, <1>d DEF Covered
    <3> QED BY <3>6, <3>7, <2>1
  <2> QED BY <2>3, <2>4, <2>5, <1>1, <1>5, <1>7 DEF FlowOf
<1> QED BY <1>4, <1>6, <1>7, ServerSends

LEMMA ServerPromises ==
  ASSUME Typed, FlowSound, ServerStep, "exited" \notin flags'
  PROVE  Unpromised'
<1>a. UNCHANGED client /\ toClient \in Seq(ToClientMessages)
  BY ServerStepLeaves DEF Typed, QueuesTyped
<1>1. ASSUME "exited" \notin flags, UNCHANGED promised, Unpromised => ~Any(toClient', Ends)
      PROVE  Unpromised'
  <2>1. Unpromised
    BY <1>1 DEF FlowSound
  <2> QED BY <2>1, <1>1, <1>a DEF Unpromised
<1>2. CASE Lost
  <2>1. "exited" \notin flags /\ UNCHANGED promised
    BY <1>2 DEF Lost, history
  <2>2. Unpromised => ~Any(toClient', Ends)
    <3>1. PICK k \in 0 .. Len(toClient) : toClient' = SubSeq(toClient, 1, k)
      BY <1>2 DEF Lost
    <3> QED BY <3>1, <1>a, AnyPrefix DEF Unpromised
  <2> QED BY <2>1, <2>2, <1>1
<1>3. CASE SendsOn
  <2>1. Unpromised => ~Any(toClient', Ends)
    BY <1>3, <1>a, NoEndYet DEF SendsOn, Unpromised
  <2> QED BY <2>1, <1>1, <1>3 DEF SendsOn
<1>4. ~LetsGo
  BY DEF LetsGo
<1> QED BY <1>2, <1>3, <1>4, ServerSends

(* What is owed to an output is kept by a step of the client.              *)
LEMMA ClientReads ==
  ASSUME Typed, ClientStep, NEW n \in DOMAIN toClient', Unready(toClient', n), ~client'.attached,
         toClient' # toClient
  PROVE  /\ \E m : ToClient(m)
         /\ n + 1 \in DOMAIN toClient /\ toClient'[n] = toClient[n + 1] /\ Unready(toClient, n + 1)
         /\ \A m : Before(toClient, n + 1, m) =
                     IF Head(toClient) = m THEN Before(toClient', n, m) + 1 ELSE Before(toClient', n, m)
         /\ Head(toClient) # Plain("ready") /\ toClient' = Tail(toClient) /\ toClient # <<>>
<1>1. PICK m : ToClient(m)
  BY ClientQueue
<1>2. toClient \in Seq(ToClientMessages) /\ toClient # <<>> /\ toClient' = Tail(toClient) /\ Head(toClient) = m
  BY <1>1 DEF Typed, QueuesTyped, ToClient
<1>3. Head(toClient) # Plain("ready")
  BY <1>1, <1>2, ReadyAttaches
<1>4. n \in DOMAIN Tail(toClient) /\ Unready(Tail(toClient), n)
  BY <1>2
<1>5. n + 1 \in DOMAIN toClient /\ Tail(toClient)[n] = toClient[n + 1]
  BY <1>2, <1>4
<1>6. Unready(toClient, n + 1)
  BY <1>2, <1>3, <1>4, UnreadyTail
<1>7. \A x : Before(toClient, n + 1, x) =
               IF Head(toClient) = x THEN Before(Tail(toClient), n, x) + 1 ELSE Before(Tail(toClient), n, x)
  BY <1>2, <1>4, CountTail
<1> QED BY <1>1, <1>2, <1>3, <1>5, <1>6, <1>7

LEMMA ClientFlow ==
  ASSUME Typed, Typed', FileSound, FlowSound, ClientStep, NEW s \in Outputs
  PROVE  FlowOf(s)'
<1>a. /\ s \in Streams /\ files[s].buffer \in Nat /\ given[s] \in Nat /\ promised[s] \in Nat
      /\ moved'[s] \in Nat /\ open'[s].output \in Nat /\ open'[s] \in OpenRecords
      /\ client \in ClientRecords /\ client' \in ClientRecords
  BY StreamsAre DEF Typed, FilesTyped, FileRecords, HistoryTyped, OpensTyped, OpenRecords, ClientTyped
<1>b. /\ Asked("write", s) \in Nat /\ Asked("write", s)' \in Nat
      /\ toClient \in Seq(ToClientMessages) /\ toClient' \in Seq(ToClientMessages)
      /\ Asked("write", s) = Count(toClient, Data(s)) /\ Asked("write", s)' = Count(toClient', Data(s))
  BY OutputCounts, OutputCountsNext DEF Typed, QueuesTyped, Asked, Data
<1>c. UNCHANGED <<files, flags, given, promised, result>>
  BY ClientStepLeaves DEF server
<1>e. Next
  BY DEF ClientStep, Next, Tells
<1>f. Excused(s) => Excused(s)'
  BY <1>e, ExcusedStays
<1>g. FlowOf(s)
  BY DEF FlowSound
<1>h. /\ client.run # "gone" /\ client.why = "none"
      /\ client.attached => client'.attached
      /\ client'.exitflag => \/ client.exitflag
                             \/ /\ ~client.attached /\ UNCHANGED <<open, moved>>
                                /\ \E m \in Ends : ToClient(m)
      /\ client'.why = "exit" => client'.exitflag /\ ~Left(open')
  BY ClientGoesOn
<1>1. /\ open'[s].here /\ ~open'[s].event => s \in failed'
      /\ Written(s) \in Nat /\ Written(s)' \in Nat
      /\ \/ s \in failed'
         \/ client'.run = "gone" /\ client'.why # "exit"
         \/ Written(s) <= Written(s)'
              /\ (client.attached
                    \/ Written(s) + Asked("write", s) <= Written(s)' + Asked("write", s)')
  <2>1. open[s].here /\ ~open[s].event => s \in failed
    BY <1>g DEF FlowOf
  <2> QED BY <2>1, ClientMoves
<1>2. CASE s \in failed'
  <2>1. Excused(s)'
    BY <1>2 DEF Excused
  <2> QED BY <2>1, <1>1 DEF FlowOf, Accounted, Covered
<1>3. CASE client'.run = "gone" /\ client'.why # "exit"
  <2>1. ~Listens'
    BY <1>3 DEF Listens
  <2> QED BY <2>1, <1>1, <1>3 DEF FlowOf
<1>4. ASSUME Written(s) <= Written(s)',
             client.attached \/ Written(s) + Asked("write", s) <= Written(s)' + Asked("write", s)'
      PROVE  FlowOf(s)'
  <2>1. Listens' => /\ Listens /\ ~client.attached /\ ~client'.attached
    BY <1>h DEF Listens
  <2>2. ASSUME NEW n \in Nat, Covered(s, n) PROVE Covered(s, n)'
    BY <2>2, <1>4, <1>1, <1>a, <1>c, <1>f DEF Covered
  <2>3. ASSUME Alive', Listens', Unready(toClient', Len(toClient') + 1) PROVE Accounted(s)'
    <3>1. Unready(toClient, Len(toClient) + 1)
      <4>1. CASE toClient' = toClient
        BY <4>1, <2>3
      <4>2. CASE toClient' # toClient
        <5>1. PICK m : ToClient(m)
          BY <4>2, ClientQueue
        <5>2. toClient # <<>> /\ toClient' = Tail(toClient) /\ Head(toClient) # Plain("ready")
          BY <5>1, <2>1, <2>3, ReadyAttaches DEF ToClient
        <5> QED BY <5>2, <2>3, <1>b, UnreadyTail
      <4> QED BY <4>1, <4>2
    <3>2. Accounted(s)
      BY <3>1, <2>1, <2>3, <1>c, <1>g DEF FlowOf, Alive
    <3> DEFINE a == Asked("write", s)
               b == Asked("write", s)'
               w == Written(s)
               v == Written(s)'
    <3>3. Excused(s)' \/ given[s] <= files[s].buffer + a + w
      BY <3>2, <1>b, <1>f DEF Accounted
    <3>4. Accounted(s)' <=> Excused(s)' \/ given[s] <= files[s].buffer + b + v
      BY <1>b, <1>c DEF Accounted
    <3>5. a \in Nat /\ b \in Nat /\ w \in Nat /\ v \in Nat /\ w + a <= v + b
      BY <1>1, <1>4, <1>b, <2>1, <2>3
    <3> HIDE DEF a, b, w, v
    <3>6. given[s] <= files[s].buffer + a + w => given[s] <= files[s].buffer + b + v
      BY <3>5, <1>a
    <3> QED BY <3>3, <3>4, <3>6
  <2>4. ASSUME NEW n \in DOMAIN toClient', toClient'[n] \in Ends, Listens', Unready(toClient', n)
        PROVE  Covered(s, Before(toClient, n, Data(s)))'
    <3>1. CASE toClient' = toClient
      <4>1. Covered(s, Before(toClient, n, Data(s)))
        BY <3>1, <2>1, <2>4, <1>g DEF FlowOf
      <4>2. Before(toClient, n, Data(s)) \in Nat
        BY <1>b, <2>4, PlacesFinite
      <4>3. Excused(s)' \/ promised[s] <= Before(toClient, n, Data(s)) + Written(s)
        BY <4>1, <1>f DEF Covered
      <4> DEFINE b == Before(toClient, n, Data(s))
                 w == Written(s)
                 v == Written(s)'
      <4>4. Covered(s, Before(toClient, n, Data(s)))' <=> Excused(s)' \/ promised[s] <= b + v
        BY <3>1, <1>c DEF Covered
      <4>5. b \in Nat /\ w \in Nat /\ v \in Nat /\ w <= v
        BY <4>2, <1>1, <1>4
      <4> HIDE DEF b, w, v
      <4>6. promised[s] <= b + w => promised[s] <= b + v
        BY <4>5, <1>a
      <4> QED BY <4>3, <4>4, <4>6 DEF b, w
    <3>2. CASE toClient' # toClient
      <4>1. /\ n + 1 \in DOMAIN toClient /\ toClient'[n] = toClient[n + 1] /\ Unready(toClient, n + 1)
            /\ \A m : Before(toClient, n + 1, m) =
                        IF Head(toClient) = m THEN Before(toClient', n, m) + 1 ELSE Before(toClient', n, m)
            /\ toClient' = Tail(toClient) /\ toClient # <<>>
        BY <3>2, <2>1, <2>4, ClientReads
      <4> DEFINE b == Before(toClient, n + 1, Data(s))
                 d == Before(toClient', n, Data(s))
                 w == Written(s)
                 v == Written(s)'
      <4>2. Excused(s)' \/ promised[s] <= b + w
        BY <4>1, <2>1, <2>4, <1>f, <1>g DEF FlowOf, Covered
      <4>3. Covered(s, Before(toClient, n, Data(s)))' <=> Excused(s)' \/ promised[s] <= d + v
        BY <1>c DEF Covered
      <4>4. b \in Nat /\ d \in Nat /\ w \in Nat /\ v \in Nat /\ w <= v
        BY <1>1, <1>4, <1>b, PlacesFinite
      <4>5. b + w <= d + v
        <5>1. CASE Head(toClient) = Data(s)
          <6>1. Asked("write", s) = Asked("write", s)' + 1
            BY <5>1, <4>1, <1>b, CountTail
          <6>2. b = d + 1
            BY <5>1, <4>1
          <6>3. Written(s) + Asked("write", s) <= Written(s)' + Asked("write", s)'
            BY <1>4, <2>1, <2>4
          <6>4. Written(s) + 1 <= Written(s)'
            BY <6>1, <6>3, <1>1, <1>b
          <6> QED BY <6>2, <6>4, <4>4
        <5>2. CASE Head(toClient) # Data(s)
          <6>1. b = d
            BY <5>2, <4>1
          <6> QED BY <6>1, <4>4
        <5> QED BY <5>1, <5>2
      <4> HIDE DEF b, d, w, v
      <4>6. promised[s] <= b + w => promised[s] <= d + v
        BY <4>4, <4>5, <1>a
      <4> QED BY <4>2, <4>3, <4>6
    <3> QED BY <3>1, <3>2
  <2>5. client'.exitflag => Covered(s, 0)'
    <3>1. CASE client.exitflag
      BY <3>1, <2>2, <1>g, <1>h DEF FlowOf
    <3>2. ASSUME ~client.attached, NEW m \in Ends, ToClient(m) PROVE Covered(s, 0)'
      <4>1. toClient # <<>> /\ Head(toClient) = m
        BY <3>2 DEF ToClient
      <4>2. 1 \in DOMAIN toClient /\ toClient[1] = m
        BY <4>1, <1>b
      <4>3. Unready(toClient, 1)
        <5>1. DOMAIN toClient \subseteq Nat \ {0}
          BY <1>b
        <5> QED BY <5>1 DEF Unready
      <4>4. Before(toClient, 1, Data(s)) = 0
        BY <1>b, CountProperties
      <4>5. Covered(s, 0)
        BY <3>2, <4>2, <4>3, <4>4, <1>g, <1>h DEF FlowOf, Listens
      <4> QED BY <4>5, <2>2
    <3> QED BY <3>1, <3>2, <1>h
  <2>6. ASSUME client'.why = "exit" PROVE Excused(s)' \/ promised'[s] <= moved'[s]
    <3>1. Covered(s, 0)' /\ ~Left(open')
      BY <2>5, <2>6, <1>h
    <3>2. ~(open'[s].event /\ open'[s].output > 0)
      BY <3>1, <1>a DEF Left
    <3>3. Written(s)' = moved'[s]
      BY <3>2, <1>a DEF Written, Output
    <3> QED BY <3>1, <3>3, <1>a, <1>c DEF Covered
  <2> QED BY <2>3, <2>4, <2>5, <2>6, <1>1 DEF FlowOf
<1> QED BY <1>1, <1>2, <1>3, <1>4

LEMMA ClientPromises ==
  ASSUME Typed, FlowSound, ClientStep, "exited" \notin flags'
  PROVE  Unpromised'
<1>a. toClient \in Seq(ToClientMessages) /\ UNCHANGED <<flags, promised>>
  BY ClientStepLeaves DEF Typed, QueuesTyped, server
<1>1. Unpromised
  BY <1>a DEF FlowSound
<1>2. ASSUME NEW m \in Ends, ToClient(m) PROVE FALSE
  <2>1. toClient # <<>> /\ Head(toClient) = m
    BY <1>2 DEF ToClient
  <2> QED BY <2>1, <1>1, <1>2, <1>a, AnyTail DEF Unpromised
<1>3. ~client'.exitflag /\ client'.why # "exit"
  BY <1>1, <1>2, ClientGoesOn DEF Unpromised
<1>4. ~Any(toClient', Ends)
  <2>1. CASE UNCHANGED toClient
    BY <2>1, <1>1 DEF Unpromised
  <2>2. CASE \E m : ToClient(m)
    <3>1. toClient # <<>> /\ toClient' = Tail(toClient)
      BY <2>2 DEF ToClient
    <3> QED BY <3>1, <1>1, <1>a, AnyTail DEF Unpromised
  <2> QED BY <2>1, <2>2, ClientQueue
<1> QED BY <1>1, <1>3, <1>4, <1>a DEF Unpromised

LEMMA FlowStep ==
  ASSUME Typed, Typed', FileSound, FlowSound, Next
  PROVE  FlowSound'
<1>1. \A s \in Outputs : FlowOf(s)'
  BY ServerFlow, ClientFlow, StepsOfTwo
<1>2. "exited" \notin flags' => Unpromised'
  BY ServerPromises, ClientPromises, StepsOfTwo
<1>3. \A s \in Outputs : SaidError("write-ready", s)' # 0 => s \in failed'
  BY FailuresAreTold
<1>4. Alive' /\ files'[Stdout].due > 0 => Stdout \in failed'
  BY StdoutFails
<1> QED BY <1>1, <1>2, <1>3, <1>4 DEF FlowSound

LEMMA FlowInit == Init => FlowSound
<1> SUFFICES ASSUME Init PROVE FlowSound
  OBVIOUS
<1>1. /\ toClient = <<>> /\ toServer = <<>> /\ ~client.exitflag /\ client.why = "none"
      /\ \A s \in Streams : files[s] = NoFile /\ open[s] = NotOpen /\ given[s] = 0 /\ moved[s] = 0
                            /\ promised[s] = 0
  BY DEF Init
<1>2. /\ toClient \in Seq({}) /\ toServer \in Seq({}) /\ DOMAIN toClient = {}
      /\ \A m : ~Within(toServer, m)
  BY <1>1 DEF Within, Any
<1>3. \A m : Count(toServer, m) = 0 /\ Count(toClient, m) \in Nat
  BY <1>2, CountProperties
<1>4. ASSUME NEW s \in Outputs PROVE FlowOf(s)
  <2>1. s \in Streams
    BY StreamsAre
  <2>2. ~open[s].here /\ Written(s) = 0 /\ files[s].buffer = 0
    BY <1>1, <2>1 DEF Written, Output, NotOpen, NoFile
  <2>3. Accounted(s)
    <3>1. given[s] = 0 /\ Count(toClient, Data(s)) \in Nat
      BY <1>1, <1>3, <2>1
    <3>2. 0 <= 0 + Count(toClient, Data(s)) + 0
      BY <3>1
    <3> QED BY <3>1, <3>2, <2>2 DEF Accounted
  <2> QED BY <1>1, <1>2, <2>2, <2>3 DEF FlowOf
<1>5. Unpromised
  BY <1>1, <1>2 DEF Unpromised, Any
<1>6. \A s : SaidError("write-ready", s) = 0
  BY <1>3 DEF SaidError
<1>7. files[Stdout].due = 0
  BY <1>1, StreamsAre DEF NoFile
<1> QED BY <1>4, <1>5, <1>6, <1>7 DEF FlowSound

LEMMA FlowInvariant == Spec => []IInv
<1>1. Init => FlowSound
  BY FlowInit
<1>2. Typed /\ Typed' /\ FileSound /\ FlowSound /\ [Next]_vars => FlowSound'
  <2> SUFFICES ASSUME Typed, Typed', FileSound, FlowSound, [Next]_vars PROVE FlowSound'
    OBVIOUS
  <2>1. CASE Next
    BY <2>1, FlowStep
  <2>2. CASE UNCHANGED vars
    <3>1. UNCHANGED <<flags, files, toClient, toServer, client, open, given, moved, promised,
                      result, failed>>
      BY <2>2 DEF vars, server, history
    <3>2. ASSUME NEW s \in Outputs PROVE FlowOf(s)'
      <4>1. FlowOf(s)
        BY DEF FlowSound
      <4> QED BY <4>1, <3>1 DEF FlowOf, Accounted, Covered, Excused, Written, Output, Listens, Alive
    <3>3. Unpromised => Unpromised'
      BY <3>1 DEF Unpromised
    <3>4. \A s : SaidError("write-ready", s)' = SaidError("write-ready", s)
      BY <3>1, SameQueue
    <3> QED BY <3>1, <3>2, <3>3, <3>4 DEF FlowSound, Alive
  <2> QED BY <2>1, <2>2
<1> QED BY <1>1, <1>2, FileInvariant, PTL DEF Spec, IInv

(* A client that leaves because it was told to has written all that the    *)
(* server had for a file or its output when it let it go, but for a file   *)
(* that it could not open or write: the messages that carry the data are   *)
(* before the one that ends the client (server_client_check_exit), and the *)
(* client stays until its own buffers are empty (client_exit).             *)
THEOREM FlushesBeforeExit == Spec => []FlushedBeforeExit
<1>1. IInv => FlushedBeforeExit
  <2> SUFFICES ASSUME IInv, client.why = "exit", NEW s \in Outputs
               PROVE  moved[s] >= promised[s] \/ s \in failed \/ result[s] = "error"
    BY DEF FlushedBeforeExit, Outputs
  <2>1. Excused(s) \/ promised[s] <= moved[s]
    BY DEF IInv, FlowSound, FlowOf
  <2>2. moved[s] \in Nat /\ promised[s] \in Nat
    BY StreamsAre DEF IInv, Typed, HistoryTyped
  <2> QED BY <2>1, <2>2 DEF Excused
<1> QED BY <1>1, FlowInvariant, PTL
=============================================================================
