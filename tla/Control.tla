------------------------------ MODULE Control ------------------------------
(***************************************************************************)
(* Output of panes to control clients: the buffer of each pane             *)
(* (window.c, server-client.c) and, for each control client, the queue of  *)
(* blocks that keeps %output and other lines in order (control.c).         *)
(*                                                                         *)
(* A byte of a pane is known by its place in the pane's output; one byte   *)
(* and one line each take one unit of the client's output buffer.  The     *)
(* queue of a pane (cp->blocks) is the part of the client's queue          *)
(* (all_blocks) that is of this pane: every line of the code that adds to  *)
(* or takes from one does so to the other.                                 *)
(***************************************************************************)
EXTENDS Integers, Sequences, FiniteSets, FiniteSetsExt, Functions

CONSTANTS Clients,       \* control clients, each attached to a session
          AttachFlags,   \* the sets of flags they may attach with
          Panes,
          SizeMax,       \* SIZE_MAX
          Low, High,     \* CONTROL_BUFFER_LOW, CONTROL_BUFFER_HIGH
          WriteMinimum,  \* CONTROL_WRITE_MINIMUM
          Expand,        \* the most a byte grows by when it is escaped
          ReplyMax,      \* CONTROL_MAXIMUM_REPLY_BUFFER
          MaxBytes,      \* bound: bytes of output
          MaxEvents,     \* bound: commands, notifications and ends
          NoPane         \* no control_pane

ASSUME SizesOrdered ==
  /\ Low \in Nat /\ High \in Nat /\ Low < High
  /\ WriteMinimum \in Nat \ {0} /\ Expand \in Nat \ {0}
  /\ ReplyMax \in Nat /\ SizeMax \in Nat /\ MaxBytes \in Nat /\ MaxEvents \in Nat

ASSUME PanesAssumption == IsFiniteSet(Panes)

VARIABLES pane,      \* struct window_pane: its buffer and offsets into it
          client,    \* struct client and its control_state
          events     \* commands, notifications and ends so far

vars == <<pane, client, events>>
-----------------------------------------------------------------------------
(* The buffer of a pane holds .size bytes from offset .base on; an offset  *)
(* is a size_t.  Ghosts: .total bytes of output in all, .before of which   *)
(* came before the pane's present process.                                 *)
SizeT(n) == n % (SizeMax + 1)
Smaller(m, n) == IF m < n THEN m ELSE n

NewData(wp, offset) == SizeT(wp.size - SizeT(offset - wp.base))
UpdateUsed(wp, offset, n) == SizeT(offset + Smaller(n, NewData(wp, offset)))

(* What a client can tell from the lines it has been written: of each pane *)
(* the bytes so far, and how many it had queued when the last line was     *)
(* made; whether a guard is open; and what should not have been.           *)
Nothing ==
  [bytes |-> [p \in Panes |-> 0], made |-> [p \in Panes |-> 0],
   open |-> FALSE, wrong |-> {}]

(* The state of a client that attaches; ghost: .seen.                      *)
Started(flags) ==
  [flags |-> flags, sees |-> Panes, panes |-> [p \in Panes |-> NoPane],
   all |-> <<>>, pending |-> <<>>, deferred |-> <<>>, depth |-> 0,
   length |-> 0, write |-> FALSE, seen |-> Nothing]

Init ==
  /\ pane = [p \in Panes |-> [fd |-> TRUE, base |-> 0, size |-> 0,
                              offset |-> 0, pipe |-> FALSE, piped |-> 0,
                              read |-> TRUE, before |-> 0, total |-> 0]]
  /\ client \in [Clients -> {Started(flags) : flags \in AttachFlags}]
  /\ events = 0
-----------------------------------------------------------------------------
(* The queue of a client: blocks of output, and lines.                     *)
Kept(seq, S) ==
  LET kept[n \in 0..Len(seq)] ==
        IF n = 0 THEN <<>>
        ELSE IF seq[n] \in S THEN Append(kept[n - 1], seq[n]) ELSE kept[n - 1]
  IN  kept[Len(seq)]

IsOutput(cb) == cb.kind = "output"
OfPane(cb, p) == IsOutput(cb) /\ cb.pane = p
BlocksOf(s, p) == Kept(s.all, {cb \in Range(s.all) : OfPane(cb, p)})
Without(s, p) == Kept(s.all, {cb \in Range(s.all) : ~OfPane(cb, p)})
HasLines(s) == s.all # <<>> /\ ~IsOutput(Head(s.all))
Lines(s) == Kept(s.all, {cb \in Range(s.all) : ~IsOutput(cb)})

(* A byte or a line goes to the output buffer, and what is wrong with it:  *)
(* a byte out of order, lost without reason or late for a line; a guard    *)
(* that does not fit, or something else in a block than its replies.       *)
Told(seen, item) ==
  LET p == item.pane
      wrong ==
        {w \in {"order", "lost", "late", "guard"} :
           \/ w = "order" /\ item.kind = "byte" /\ item.at < seen.bytes[p]
           \/ w = "lost" /\ item.kind = "byte" /\ item.at > seen.bytes[p] /\ ~item.fresh
           \/ w = "late" /\ item.kind = "byte" /\ item.at < seen.made[p] /\ ~item.adrift
           \/ w = "guard" /\ seen.open # (item.kind \in {"reply", "end"})}
  IN  IF item.kind = "byte"
      THEN [seen EXCEPT !.bytes[p] = item.at + 1, !.wrong = @ \cup wrong]
      ELSE [seen EXCEPT !.open = item.kind \in {"begin", "reply"},
                        !.made = [q \in Panes |-> Max({@[q], item.after[q]})],
                        !.wrong = @ \cup wrong]

Put(s, items) ==
  LET told[n \in 0..Len(items)] ==
        IF n = 0 THEN s.seen ELSE Told(told[n - 1], items[n])
  IN  [s EXCEPT !.seen = told[Len(items)], !.length = @ + Len(items)]

(* control_flush_all_blocks: the lines before the first block of output.   *)
FlushAllBlocks(s) ==
  LET outputs == {i \in DOMAIN s.all : IsOutput(s.all[i])}
      n == IF outputs = {} THEN Len(s.all) ELSE Min(outputs) - 1
  IN  [Put(s, SubSeq(s.all, 1, n)) EXCEPT !.all = SubSeq(s.all, n + 1, Len(s.all))]

DiscardPane(s, p) == [s EXCEPT !.all = Without(s, p)]
Discard(s) == [s EXCEPT !.all = Lines(s)]

(* control_check_reply_buffer and control_write_line: straight out if      *)
(* nothing is queued, and never more than the client may leave unread.     *)
TooLong_slip(s) == s.length + 1 >= ReplyMax
TooLong(s) == s.length + Len(Lines(s)) + 1 >= ReplyMax
Overrun(s) ==
  [(IF "exit" \in s.flags THEN s ELSE Discard(s))
     EXCEPT !.flags = @ \cup {"exit", "discard"}]
WriteLine(s, line) ==
  IF "discard" \in s.flags THEN s
  ELSE IF TooLong(s) THEN Overrun(s)
  ELSE IF s.all = <<>> THEN [Put(s, <<line>>) EXCEPT !.write = TRUE]
  ELSE [s EXCEPT !.all = Append(@, line), !.write = TRUE]

(* A line, with what was queued of each pane when it was made.             *)
Line(s, kind) ==
  [kind |-> kind, pane |-> NoPane,
   after |-> [p \in Panes |-> IF s.panes[p] = NoPane THEN 0
                              ELSE pane[p].before + s.panes[p].queued]]

Write(s, kind) == WriteLine(s, Line(s, kind))

(* control_notify_write: a notification waits for the end of the block.    *)
NotifyWrite_slip(s, kind) == Write(s, kind)
NotifyWrite(s, kind) ==
  IF s.depth = 0 THEN Write(s, kind)
  ELSE [s EXCEPT !.deferred = Append(@, Line(s, kind))]

FlushDeferred(s) ==
  LET done[n \in 0..Len(s.deferred)] ==
        IF n = 0 THEN [s EXCEPT !.deferred = <<>>]
        ELSE WriteLine(done[n - 1], s.deferred[n])
  IN  done[Len(s.deferred)]

Begin(s) == Write([s EXCEPT !.depth = @ + 1], "begin")
End(s) ==
  LET t == Write(s, "end")
  IN  IF t.depth = 1 THEN FlushDeferred([t EXCEPT !.depth = 0])
      ELSE [t EXCEPT !.depth = @ - 1]
-----------------------------------------------------------------------------
(* struct control_pane.  .offset is what was written, .queued what has a   *)
(* block.  Ghosts: .fresh when the next byte need not follow the last, and *)
(* .adrift when blocks were dropped that .offset does not know of.         *)
ControlPane ==
  [offset : Nat, queued : Nat, off : BOOLEAN, paused : BOOLEAN, fresh : BOOLEAN,
   adrift : BOOLEAN]
ASSUME NoPaneAssumption == NoPane \notin ControlPane

Offsets(wp) ==
  [offset |-> wp.offset, queued |-> wp.offset, off |-> FALSE,
   paused |-> FALSE, fresh |-> TRUE, adrift |-> FALSE]
Restarted(cp, wp) == [Offsets(wp) EXCEPT !.off = cp.off, !.paused = cp.paused]

AddPane(s, p) ==
  IF s.panes[p] = NoPane THEN [s EXCEPT !.panes[p] = Offsets(pane[p])] ELSE s

ResetOffsets_slip(s) ==
  [s EXCEPT !.pending = <<>>, !.panes = [p \in Panes |-> NoPane]]
ResetOffsets(s) ==
  [s EXCEPT !.all = Lines(s), !.pending = <<>>,
            !.panes = [p \in Panes |-> NoPane]]

SetPaneOn(s, p) ==
  IF s.panes[p] # NoPane /\ s.panes[p].off
  THEN [s EXCEPT !.panes[p] = [Restarted(@, pane[p]) EXCEPT !.off = FALSE]]
  ELSE s

SetPaneOff(s, p) ==
  [DiscardPane(AddPane(s, p), p)
     EXCEPT !.panes[p] = [Restarted(@, pane[p]) EXCEPT !.off = TRUE]]

ContinuePane(s, p) ==
  IF s.panes[p] # NoPane /\ s.panes[p].paused
  THEN NotifyWrite([s EXCEPT !.panes[p] = [Restarted(@, pane[p]) EXCEPT !.paused = FALSE]],
                   "continue")
  ELSE s

Paused(s, p) ==
  NotifyWrite(DiscardPane([s EXCEPT !.panes[p].paused = TRUE,
                                    !.panes[p].fresh = TRUE], p), "pause")
PausePane(s, p) ==
  LET t == AddPane(s, p) IN IF t.panes[p].paused THEN t ELSE Paused(t, p)

(* control_reset_pane: the pane has a new process and an empty buffer wp.  *)
ResetPane(s, p, wp) ==
  IF s.panes[p] = NoPane THEN s
  ELSE [DiscardPane(s, p) EXCEPT !.panes[p] = Restarted(@, wp)]

(* control_check_age, for output that is too old: the pane is paused, or   *)
(* the client has to go.                                                   *)
TooOld(s, p) ==
  IF "pauseafter" \in s.flags THEN Paused(s, p)
  ELSE [Discard(s) EXCEPT !.flags = @ \cup {"exit"}]

(* control_write_output, while the buffer wp holds what was just read.     *)
Ignore(s, p, wp) ==
  LET cp == [s.panes[p] EXCEPT !.offset = UpdateUsed(wp, @, SizeMax),
                               !.queued = UpdateUsed(wp, @, SizeMax),
                               !.fresh = TRUE, !.adrift = FALSE]
  IN  [s EXCEPT !.panes[p] = cp]

QueueOutput(s, p, wp) ==
  LET n == NewData(wp, s.panes[p].queued)
  IN  IF n = 0 THEN s
      ELSE [s EXCEPT
              !.panes[p].queued = UpdateUsed(wp, @, n),
              !.all = Append(@, [kind |-> "output", pane |-> p, size |-> n]),
              !.pending = IF \E i \in DOMAIN @ : @[i] = p THEN @ ELSE Append(@, p),
              !.write = TRUE]

WriteOutput(s, p, wp, old) ==
  IF p \notin s.sees THEN s
  ELSE IF s.flags \cap {"nooutput", "exit"} # {}
  THEN IF s.panes[p] = NoPane THEN s ELSE Ignore(s, p, wp)
  ELSE LET t == AddPane(s, p)
       IN  IF t.panes[p].off \/ t.panes[p].paused THEN Ignore(t, p, wp)
           ELSE IF old /\ BlocksOf(t, p) # <<>> THEN TooOld(t, p)
           ELSE QueueOutput(t, p, wp)
-----------------------------------------------------------------------------
(* control_write_pending: blocks of one pane, up to limit bytes, as one    *)
(* message.  The message is written when the blocks end, or before lines   *)
(* that were queued behind one of them; it is lost if a block turns out to *)
(* be too old, which happens after patience blocks.                        *)
BytesAt(s, p, n) ==
  LET cp == s.panes[p]
  IN  [i \in 1..n |-> [kind |-> "byte", pane |-> p,
                       at |-> pane[p].before + cp.offset + i - 1,
                       fresh |-> cp.fresh /\ i = 1, adrift |-> cp.adrift]]

AppendData(s, p, n) ==
  LET cp == [s.panes[p] EXCEPT !.offset = UpdateUsed(pane[p], @, n), !.fresh = FALSE]
  IN  [s EXCEPT !.panes[p] = cp]

(* One turn of its loop; m holds the client, the message, the bytes used.  *)
NextBlock(m, p, limit, patience) ==
  LET at == Min({i \in DOMAIN m.s.all : OfPane(m.s.all[i], p)})
      cb == m.s.all[at]
      n == Smaller(cb.size, limit - m.used)
      bytes == m.message \o BytesAt(m.s, p, n)
      sent == AppendData(m.s, p, n)
      gone == [sent EXCEPT !.all = SubSeq(@, 1, at - 1) \o SubSeq(@, at + 1, Len(@))]
      less == [sent EXCEPT !.all[at].size = @ - n]
  IN  IF m.used = limit \/ BlocksOf(m.s, p) = <<>> THEN m
      ELSE IF NewData(pane[p], m.s.panes[p].offset) < n
      THEN [m EXCEPT !.s.flags = @ \cup {"fatal"}, !.used = limit]
      ELSE IF m.turn = patience
      THEN [m EXCEPT !.s = TooOld(m.s, p), !.message = <<>>, !.used = limit]
      ELSE IF n < cb.size
      THEN [m EXCEPT !.s = less, !.message = bytes, !.used = limit]
      ELSE IF HasLines(gone)
      THEN [m EXCEPT !.s = FlushAllBlocks(Put(gone, bytes)), !.message = <<>>,
                     !.used = @ + n, !.turn = @ + 1]
      ELSE [m EXCEPT !.s = gone, !.message = bytes, !.used = @ + n, !.turn = @ + 1]

DropBlocks(s, p) ==
  FlushAllBlocks([DiscardPane(s, p) EXCEPT
                    !.panes[p].adrift = @ \/ BlocksOf(s, p) # <<>>])

WritePending(s, p, limit, patience) ==
  IF p \notin s.sees \/ ~pane[p].fd THEN DropBlocks(s, p)
  ELSE LET turn[n \in 0..limit + 1] ==
             IF n = 0 THEN [s |-> s, message |-> <<>>, used |-> 0, turn |-> 0]
             ELSE NextBlock(turn[n - 1], p, limit, patience)
           m == turn[limit + 1]
       IN  Put(m.s, m.message)

(* One walk along the pending list: a pane with nothing left leaves it.    *)
Walk(s, patience) ==
  LET limit == Max({WriteMinimum, ((High - s.length) \div Len(s.pending)) \div Expand})
      walk[n \in 0..Len(s.pending)] ==
        IF n = 0 THEN s
        ELSE LET t == walk[n - 1]
                 p == s.pending[n]
                 u == WritePending(t, p, limit, patience[p])
             IN  IF t.length >= High THEN t
                 ELSE IF BlocksOf(u, p) # <<>> THEN u
                 ELSE [u EXCEPT !.pending = Kept(@, Panes \ {p})]
  IN  walk[Len(s.pending)]

(* control_write_callback.                                                 *)
Written(s, patience) ==
  LET turns == (MaxBytes + 1) * Cardinality(Panes)
      turn[n \in 0..turns] ==
        IF n = 0 THEN FlushAllBlocks(s)
        ELSE LET t == turn[n - 1]
             IN  IF t.length < High /\ t.pending # <<>> THEN Walk(t, patience) ELSE t
      end == turn[turns]
  IN  IF end.length = 0 THEN [end EXCEPT !.write = FALSE] ELSE end
-----------------------------------------------------------------------------
(* control_append_data without the data that a block stands for is fatalx, *)
(* and the server is no more.                                              *)
EnoughData == \A c \in Clients : "fatal" \notin client[c].flags

Present == {c \in Clients : EnoughData /\ "lost" \notin client[c].flags}

(* Something that happens at most MaxEvents times.                         *)
Event == EnoughData /\ events < MaxEvents /\ events' = events + 1

(* window_pane_read_callback, with n more bytes in the buffer: the pipe    *)
(* and the clients get them, the parser takes all.  It reads no more until *)
(* the server has looked at the buffer.                                    *)
Taken(wp) ==
  [wp EXCEPT !.offset = UpdateUsed(wp, @, NewData(wp, @)),
             !.piped = IF wp.pipe THEN UpdateUsed(wp, @, NewData(wp, @)) ELSE @,
             !.read = FALSE]
Read(p, n) ==
  LET wp == [pane[p] EXCEPT !.size = @ + n, !.total = @ + n]
  IN  /\ EnoughData /\ pane[p].fd /\ pane[p].read
      /\ MapThenSumSet(LAMBDA q : pane[q].total, Panes) + n <= MaxBytes
      /\ pane' = [pane EXCEPT ![p] = Taken(wp)]
      /\ \E old \in SUBSET Clients :
           client' = [c \in Clients |->
                        IF c \in Present THEN WriteOutput(client[c], p, wp, c \in old)
                        ELSE client[c]]
      /\ UNCHANGED events

(* control_pane_offset: whose offset counts, and who takes no more now.    *)
Counted(s, p) ==
  "nooutput" \notin s.flags /\ s.panes[p] # NoPane /\ ~s.panes[p].paused /\ ~s.panes[p].off
TakesNoMore(s, p) ==
  /\ "nooutput" \notin s.flags /\ s.panes[p] # NoPane /\ ~s.panes[p].paused
  /\ s.panes[p].off \/ s.length >= Low

(* server_client_check_pane_buffer: drain what all have used; if the base  *)
(* would roll over, take it off the offsets.                               *)
Minimum_slip(wp, offsets) == SizeT(wp.offset - wp.base)
Minimum(wp, offsets) ==
  SizeT(Min({wp.offset} \cup (IF wp.pipe THEN {wp.piped} ELSE {}) \cup offsets) - wp.base)

CountedOn(p) == {c \in Present : Counted(client[c], p)}
MinimumOf(p) == Minimum(pane[p], {client[c].panes[p].offset : c \in CountedOn(p)})
Rolls(p) == pane[p].fd /\ MinimumOf(p) # 0 /\ pane[p].base > SizeMax - MinimumOf(p)
Rolled(p, offset) == IF Rolls(p) THEN SizeT(offset - pane[p].base) ELSE offset
Off(p) == Present # {} /\ \A c \in Present : TakesNoMore(client[c], p)
CheckBuffer(p) ==
  LET wp == pane[p]
  IN  [wp EXCEPT !.size = @ - MinimumOf(p), !.read = ~Off(p),
                 !.base = IF Rolls(p) THEN MinimumOf(p) ELSE @ + MinimumOf(p),
                 !.offset = Rolled(p, @),
                 !.piped = IF wp.pipe THEN Rolled(p, @) ELSE @]

(* server_client_check_exit: a client that is to go does so when all it    *)
(* was told is written.                                                    *)
Leaving(s) == "exit" \in s.flags /\ s.flags \cap {"exited", "lost"} = {}
CheckExit(s) ==
  LET t == Discard(s)
  IN  IF ~Leaving(s) THEN s
      ELSE IF t.all = <<>> /\ t.length = 0 THEN [t EXCEPT !.flags = @ \cup {"exited"}]
      ELSE t

(* server_client_loop, after the events of a turn of the event loop.       *)
CheckAll ==
  /\ EnoughData
  /\ pane' = [p \in Panes |-> IF pane[p].fd THEN CheckBuffer(p) ELSE pane[p]]
  /\ client' = [c \in Clients |->
       LET rolled(p) == [client[c].panes[p] EXCEPT !.offset = Rolled(p, @)]
       IN  [CheckExit(client[c]) EXCEPT !.panes = [p \in Panes |->
              IF c \in CountedOn(p) /\ ~TakesNoMore(client[c], p) THEN rolled(p) ELSE @[p]]]]
  /\ UNCHANGED events

(* pipe-pane; the old pipe, if any, is closed first.                       *)
PipePane(p, open) ==
  /\ Event
  /\ pane[p].fd /\ (open \/ pane[p].pipe)
  /\ pane' = [pane EXCEPT ![p].pipe = open,
                          ![p].piped = IF open THEN pane[p].offset ELSE @]
  /\ UNCHANGED client

(* The process of a pane ends and the pane with it, or stays as a dead     *)
(* pane, which respawn-pane gives a new process and an empty buffer.       *)
Exited(p) ==
  /\ Event /\ pane[p].fd
  /\ pane' = [pane EXCEPT ![p].fd = FALSE]
  /\ UNCHANGED client

Respawn(p) ==
  LET wp == [pane[p] EXCEPT !.fd = TRUE, !.base = 0, !.size = 0, !.offset = 0,
                            !.piped = 0, !.read = TRUE, !.before = pane[p].total]
  IN  /\ Event
      /\ pane' = [pane EXCEPT ![p] = wp]
      /\ client' = [c \in Clients |->
                      IF c \in Present THEN ResetPane(client[c], p, wp) ELSE client[c]]

(* The output buffer of a client empties as far as the client reads.       *)
ClientReads(c) ==
  /\ c \in Present /\ client[c].write
  /\ \E n \in 0..Low : n < client[c].length /\ client' = [client EXCEPT ![c].length = n]
  /\ UNCHANGED <<pane, events>>

WriteCallback(c) ==
  /\ c \in Present /\ client[c].write /\ client[c].length <= Low
  /\ \E patience \in [{client[c].pending[i] : i \in DOMAIN client[c].pending} -> {0, 1, High}] :
       client' = [client EXCEPT ![c] = Written(@, patience)]
  /\ UNCHANGED <<pane, events>>

(* A command of client c, which leaves client t as done says, between guards. *)
Begun(c, t) == IF t = c THEN Begin(client[c]) ELSE client[t]
Run(c, t, done) ==
  /\ Event
  /\ {c, t} \subseteq Present /\ "exited" \notin client[c].flags
  /\ LET begun == [client EXCEPT ![c] = Begin(@)]
     IN  client' = [[begun EXCEPT ![t] = done] EXCEPT ![c] = End(@)]
  /\ UNCHANGED pane

(* refresh-client -A and -f.                                               *)
RefreshPane(c, t, p) ==
  LET s == Begun(c, t)
  IN  \/ Run(c, t, SetPaneOn(s, p))
      \/ Run(c, t, SetPaneOff(s, p))
      \/ Run(c, t, ContinuePane(s, p))
      \/ Run(c, t, PausePane(s, p))

SetFlags(c, t) ==
  LET s == Begun(c, t)
  IN  \/ Run(c, t, [s EXCEPT !.flags = @ \cup {"pauseafter"}])
      \/ Run(c, t, [s EXCEPT !.flags = @ \ {"pauseafter"}])
      \/ Run(c, t, ResetOffsets([s EXCEPT !.flags = @ \cup {"nooutput"}]))
      \/ Run(c, t, ResetOffsets([s EXCEPT !.flags = @ \ {"nooutput"}]))

(* Any other command prints, and an event in it notifies the clients.      *)
Notified(s) == IF "exit" \in s.flags THEN s ELSE NotifyWrite(s, "notify")
Command(c) == Run(c, c, Notified(Write(Begun(c, c), "reply")))

(* An event outside of commands.                                           *)
Notify ==
  /\ Event
  /\ client' = [c \in Clients |-> IF c \in Present THEN Notified(client[c]) ELSE client[c]]
  /\ UNCHANGED pane

(* The windows in the client's session change, or its session does.        *)
Switch(c) ==
  /\ Event
  /\ c \in Present
  /\ \E P \in SUBSET Panes :
       client' = [client EXCEPT ![c] = Notified([@ EXCEPT !.sees = P])]
  /\ UNCHANGED pane

(* The client sends an empty line or is told to go; it exits when all is   *)
(* written, or after 10 seconds.                                           *)
Leave(c) ==
  /\ Event /\ c \in Present
  /\ client' = [client EXCEPT ![c].flags = @ \cup {"exit"}]
  /\ UNCHANGED pane

ExitTimer(c) ==
  /\ c \in Present /\ Leaving(client[c])
  /\ LET s == [client[c] EXCEPT !.all = <<>>, !.write = FALSE, !.flags = @ \cup {"exited"}]
     IN  client' = [client EXCEPT ![c] = s]
  /\ UNCHANGED <<pane, events>>

(* control_stop.                                                           *)
Lost(c) ==
  /\ Event /\ c \in Present
  /\ client' = [client EXCEPT ![c] = Started({"lost"})]
  /\ UNCHANGED pane

Next ==
  \/ \E p \in Panes, n \in 1..MaxBytes : Read(p, n)
  \/ \E p \in Panes : Exited(p) \/ Respawn(p)
  \/ \E p \in Panes, open \in BOOLEAN : PipePane(p, open)
  \/ \E c \in Clients : ClientReads(c) \/ WriteCallback(c)
  \/ \E c, t \in Clients, p \in Panes : RefreshPane(c, t, p)
  \/ \E c, t \in Clients : SetFlags(c, t)
  \/ \E c \in Clients : Command(c) \/ Switch(c) \/ Leave(c)
  \/ \E c \in Clients : ExitTimer(c) \/ Lost(c)
  \/ CheckAll \/ Notify


Spec == Init /\ [][Next]_vars

-----------------------------------------------------------------------------
TypeOK ==
  /\ \A p \in Panes :
       /\ {pane[p].base, pane[p].offset, pane[p].piped} \subseteq 0..SizeMax
       /\ pane[p].size \in 0..MaxBytes
  /\ \A c \in Clients :
       /\ client[c].depth = 0 /\ client[c].deferred = <<>>
       /\ client[c].length \in Nat
  /\ events \in 0..MaxEvents

SizeOf(blocks) ==
  LET sum[n \in 0..Len(blocks)] == IF n = 0 THEN 0 ELSE sum[n - 1] + blocks[n].size
  IN  sum[Len(blocks)]

(* The buffer of a pane holds every byte that a client has a block for, up *)
(* to what it has queued: check_pane_buffer drains no byte that a client   *)
(* still needs, although it does not count a client that is paused, off or *)
(* without output (server-client.c:2025); and between two callbacks no     *)
(* guard is open and no notification deferred.                             *)
Backed ==
  TypeOK /\ \A c \in Present, p \in Panes :
    Counted(client[c], p) /\ pane[p].fd /\ "exit" \notin client[c].flags =>
      LET cp == client[c].panes[p]
          wp == pane[p]
      IN  /\ SizeT(cp.offset - wp.base) + SizeOf(BlocksOf(client[c], p))
               <= SizeT(cp.queued - wp.base)
          /\ SizeT(cp.queued - wp.base) <= wp.size

(* A client gets the bytes of a pane in order and misses none, unless the  *)
(* pane was paused, off, without output or respawned in between; a line    *)
(* comes after the output that was queued before it, but for blocks that   *)
(* were dropped while the pane was not in the session; and between %begin  *)
(* and %end there is nothing but replies (control.c:38, tmux.1:9201).      *)
ToldInOrder == \A c \in Clients : client[c].seen.wrong = {}

(* A client that does not read gets so far behind and no further: replies  *)
(* are taken while they and what is in the output buffer are less than its *)
(* limit (control.c:423), output while the buffer is less than its own.    *)
NotFarBehind ==
  \A c \in Clients :
    client[c].length + Len(Lines(client[c])) < ReplyMax + High + WriteMinimum

(* What is queued will be written: while a pane has blocks for a client it *)
(* is on the pending list, once, and the write event is enabled, so that   *)
(* control_write_callback comes when the client has read.                  *)
Served ==
  \A c \in Present, p \in Panes :
    BlocksOf(client[c], p) # <<>> =>
      /\ client[c].write
      /\ \E i \in DOMAIN client[c].pending :
           \A j \in DOMAIN client[c].pending : client[c].pending[j] = p <=> i = j
=============================================================================
