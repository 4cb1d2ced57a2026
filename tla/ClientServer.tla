---------------------------- MODULE ClientServer ----------------------------
(***************************************************************************)
(* A client process and the struct client that stands for it in the server *)
(* (client.c, proc.c, server-client.c), and the files that the server reads *)
(* and writes through an unattached client (file.c).  The two exchange      *)
(* messages over one socket, a queue each way.  The client can be killed at *)
(* any time; the server gives it ten seconds to flush and ten to exit.      *)
(***************************************************************************)
EXTENDS Naturals, Sequences, FiniteSets

CONSTANTS Writes,     \* streams of file_write: save-buffer, show-buffer
          Loads,      \* streams of file_read by load-buffer and source-file
          Inputs,     \* streams of file_read by display-message -I into a pane
          MaxPrints,  \* bound on what is printed, in units of one message
          MaxData,    \* bound on what a file has or is given, in messages
          MaxFiles,   \* bound on the streams that commands open
          MaxEvents   \* bound on signals, failures and commands from elsewhere

Stdout == 1    \* the stream of file_print, standard output
Streams == {Stdout} \cup Writes \cup Loads \cup Inputs

ASSUME ClientServerAssumption ==
  /\ Writes \cup Loads \cup Inputs \subseteq Nat \ (0 .. 2)
  /\ Writes \cap Loads = {} /\ Writes \cap Inputs = {} /\ Loads \cap Inputs = {}
  /\ MaxPrints \in Nat /\ MaxData \in Nat /\ MaxEvents \in Nat
  /\ MaxFiles \in Nat

VARIABLES
  flags,     \* c->flags
  exitType,  \* c->exit_type
  timer,     \* c->exit_timer is pending
  tty,       \* c->tty: "none", "open", "stopped" or "closed"
  session,   \* c->session is set
  files,     \* c->files
  waiting,   \* streams an item of the client's queue waits for
  pane,      \* the pane that takes the input exists
  toClient, toServer,  \* messages under way
  client,    \* the client process
  open,      \* client_files in the client
  given, moved, promised, result, failed,  \* history, see below
  used,      \* streams that have been opened
  events,    \* events so far
  freed      \* a file was freed while an event still pointed to it

server == <<flags, exitType, timer, tty, session, files, waiting, pane>>
history == <<given, moved, promised, result, failed, used>>
vars == <<server, toClient, toServer, client, open, history, events, freed>>

(* A file in the server: due counts events for file_fire_done_cb, pushes   *)
(* those for file_push_cb, and kept says file_read returned it.            *)
NoFile == [here |-> FALSE, buffer |-> 0, error |-> FALSE, closed |-> FALSE,
           references |-> 0, due |-> 0, pushes |-> 0, kept |-> FALSE]
NewFile == [NoFile EXCEPT !.here = TRUE, !.references = 1]

(* A file in the client: event has output that descriptor has not taken.   *)
NotOpen == [here |-> FALSE, event |-> FALSE, output |-> 0, error |-> FALSE,
            closed |-> FALSE]

Message(t, s, e) == [type |-> t, stream |-> s, error |-> e]
Plain(t) == Message(t, 0, FALSE)

(* given counts what a file was given in the server (written to it, or     *)
(* taken by its callback), moved what the client wrote or read, promised   *)
(* what had been given when the server let the client exit; result is what *)
(* the callback was told, and failed has the streams that the client could *)
(* not open or write.                                                      *)
Init ==
  /\ flags = {} /\ exitType = "return" /\ timer = FALSE /\ tty = "none"
  /\ session = FALSE
  /\ files = [s \in Streams |-> NoFile] /\ waiting = {} /\ pane = TRUE
  /\ toClient = <<>> /\ toServer = <<>>
  /\ client = [attached |-> FALSE, exitflag |-> FALSE, run |-> "running",
               why |-> "none"]
  /\ open = [s \in Streams |-> NotOpen]
  /\ given = [s \in Streams |-> 0] /\ moved = [s \in Streams |-> 0]
  /\ promised = [s \in Streams |-> 0]
  /\ result = [s \in Streams |-> "none"] /\ failed = {} /\ used = {}
  /\ events = 0 /\ freed = FALSE

Alive == "dead" \notin flags
(* What happens after a file was freed too early is undefined: a behaviour *)
(* ends there.                                                             *)
Event == ~freed /\ events < MaxEvents /\ events' = events + 1
NoEvent == ~freed /\ UNCHANGED events
Quiet == UNCHANGED <<client, open>>    \* only the server takes part
Running == client.run = "running"
-----------------------------------------------------------------------------
(* Definitions named X_slip are X as a plausible mistake would have it: no  *)
(* specification uses them, they show that a property notices the mistake. *)

(* file_free: the last reference takes the file out of the tree, whatever  *)
(* else still points to it.                                                *)
Freed(f) ==
  IF f.references = 1 THEN NoFile ELSE [f EXCEPT !.references = @ - 1]
FreedEarly(f) == f.references = 1 /\ f.due + f.pushes > 0

(* file_fire_done                                                          *)
FireDone(f) == [f EXCEPT !.due = @ + 1]

(* file_push when k messages can be sent: what is left is tried again, and *)
(* a stream that is not standard is closed when nothing is left.           *)
Push(f, k) ==
  IF k < f.buffer
  THEN [f EXCEPT !.buffer = @ - k, !.references = @ + 1, !.pushes = @ + 1]
  ELSE [f EXCEPT !.buffer = 0]
Pushed(f, s, k) ==
  [i \in 1 .. k |-> Message("write", s, FALSE)]
    \o IF k = f.buffer /\ s > 2
       THEN <<Message("write-close", s, FALSE)>> ELSE <<>>

(* How much proc_send takes: everything, or less when it fails.            *)
Sends(k, all) == IF k < all THEN Event ELSE k = all /\ NoEvent

(* file_vprint, file_print_buffer and file_error, by anything that prints  *)
(* to the client.                                                          *)
CanPrint == flags \cap {"attached", "dead"} = {}
FilePrint ==
  /\ CanPrint /\ given[Stdout] < MaxPrints
  /\ LET f == files[Stdout]
         more == [f EXCEPT !.buffer = @ + 1]
     IN \/ /\ ~f.here
           /\ files' = [files EXCEPT ![Stdout] = [NewFile EXCEPT !.buffer = 1]]
           /\ \/ /\ toClient' = Append(toClient,
                                       Message("write-open", Stdout, FALSE))
                 /\ NoEvent
              \/ Event /\ UNCHANGED toClient
        \/ /\ f.here
           /\ \E k \in 0 .. more.buffer :
                /\ Sends(k, more.buffer)
                /\ files' = [files EXCEPT ![Stdout] = Push(more, k)]
                /\ toClient' = toClient \o Pushed(more, Stdout, k)
  /\ given' = [given EXCEPT ![Stdout] = @ + 1]
  /\ Quiet
  /\ UNCHANGED <<flags, exitType, timer, tty, session, waiting, pane, toServer, moved,
                 promised, result, failed, used, freed>>

(* A command opens a file through its client and waits for it: the message *)
(* is sent, or the callback is fired with an error.  Attached and control  *)
(* clients are not asked: the server opens the file itself.                *)
Opens(s, type, f) ==
  /\ Alive /\ flags \cap {"attached"} = {} /\ waiting = {} /\ s \notin used
  /\ Cardinality(used) < MaxFiles /\ "done" \notin flags
  /\ \/ /\ files' = [files EXCEPT ![s] = [f EXCEPT !.kept = TRUE]]
        /\ toClient' = Append(toClient, Message(type, s, FALSE))
        /\ NoEvent
     \/ /\ files' = [files EXCEPT ![s] = FireDone([f EXCEPT !.error = TRUE])]
        /\ Event /\ UNCHANGED toClient
  /\ waiting' = {s} /\ used' = used \cup {s}
  /\ Quiet
  /\ UNCHANGED <<flags, exitType, timer, tty, session, pane, toServer, moved, promised,
                 result, failed, freed>>

(* file_write                                                              *)
FileWrite(s) ==
  \E n \in 0 .. MaxData :
    /\ Opens(s, "write-open", [NewFile EXCEPT !.buffer = n])
    /\ given' = [given EXCEPT ![s] = n]

(* file_read                                                               *)
FileRead(s) ==
  /\ s \in Inputs => pane /\ "exited" \notin flags
  /\ Opens(s, "read-open", NewFile)
  /\ UNCHANGED given

(* file_push_cb                                                            *)
FilePushAgain(s) ==
  LET f == [files[s] EXCEPT !.pushes = @ - 1]
  IN /\ files[s].pushes > 0
     /\ \E k \in 0 .. f.buffer :
          IF Alive
          THEN /\ Sends(k, f.buffer)
               /\ files' = [files EXCEPT ![s] = Freed(Push(f, k))]
               /\ toClient' = toClient \o Pushed(f, s, k)
               /\ freed' = FreedEarly(Push(f, k))
          ELSE /\ k = 0 /\ NoEvent
               /\ files' = [files EXCEPT ![s] = Freed(f)]
               /\ freed' = FreedEarly(f)
               /\ UNCHANGED toClient
     /\ Quiet
     /\ UNCHANGED <<flags, exitType, timer, tty, session, waiting, pane, toServer,
                    history>>
-----------------------------------------------------------------------------
(* The callbacks, called with the file f of s.                             *)

(* window_pane_input_callback when the pane has gone: the client is to     *)
(* exit, and the read is cancelled (file_cancel) unless it has been.       *)
CancelInput(f, s) ==
  /\ flags' = flags \cup IF pane THEN {} ELSE {"exit"}
  /\ toClient' = IF f.closed THEN toClient
                 ELSE Append(toClient, Message("read-cancel", s, FALSE))
PaneGone(f) == f.kept /\ (~pane \/ ~Alive)

(* file_fire_done_cb: the callback of the command continues its item. The  *)
(* file of a client that was lost is freed without a callback.             *)
FileDone(s) ==
  LET f == [files[s] EXCEPT !.due = @ - 1]
      called == s # Stdout /\ (f.closed \/ Alive)
      cancels == called /\ s \in Inputs /\ PaneGone(f)
      continues == called /\ ~cancels
  IN /\ files[s].due > 0
     /\ files' = [files EXCEPT ![s] = Freed(f)]
     /\ freed' = FreedEarly(f)
     /\ IF cancels THEN CancelInput(f, s) ELSE UNCHANGED <<flags, toClient>>
     /\ IF continues
        THEN /\ waiting' = waiting \ {s}
             /\ result' = [result EXCEPT ![s] =
                             IF f.error THEN "error" ELSE "ok"]
        ELSE UNCHANGED <<waiting, result>>
     /\ IF continues /\ s \in Loads
        THEN given' = [given EXCEPT ![s] = f.buffer] ELSE UNCHANGED given
     /\ NoEvent /\ Quiet
     /\ UNCHANGED <<exitType, timer, tty, session, pane, toServer, moved,
                    promised, failed, used>>
-----------------------------------------------------------------------------
(* Messages from the client: server_client_dispatch.                       *)

FromClient(m) ==
  /\ Alive /\ toServer # <<>> /\ Head(toServer) = m
  /\ toServer' = Tail(toServer)
  /\ Quiet
  /\ UNCHANGED <<exitType, timer, waiting, pane, promised, result, failed,
                 used, moved, freed>>

(* file_write_ready                                                        *)
WriteReady(s, e) ==
  LET f == files[s]
  IN /\ FromClient(Message("write-ready", s, e))
     /\ IF f.here /\ ~e
        THEN \E k \in 0 .. f.buffer :
               /\ Sends(k, f.buffer)
               /\ files' = [files EXCEPT ![s] = Push(f, k)]
               /\ toClient' = toClient \o Pushed(f, s, k)
        ELSE /\ files' = IF f.here
                         THEN [files EXCEPT ![s] =
                                 FireDone([f EXCEPT !.error = TRUE])]
                         ELSE files
             /\ NoEvent /\ UNCHANGED toClient
     /\ UNCHANGED <<flags, tty, session, given>>

(* file_write_done and file_read_done: the result is the client's.         *)
TransferDone_slip(t, s, e) ==
  /\ FromClient(Message(t, s, e))
  /\ files' = IF files[s].here THEN [files EXCEPT ![s] = FireDone(@)] ELSE files
  /\ NoEvent /\ UNCHANGED <<flags, tty, session, toClient, given>>
TransferDone(t, s, e) ==
  LET f == files[s]
  IN /\ FromClient(Message(t, s, e))
     /\ files' = IF f.here
                 THEN [files EXCEPT ![s] = FireDone([f EXCEPT !.error = e])]
                 ELSE files
     /\ NoEvent /\ UNCHANGED <<flags, tty, session, toClient, given>>

(* file_read_data: a load keeps the data until all has come; the pane is   *)
(* given it at once (window_pane_input_callback).                          *)
ReadData(s) ==
  LET f == files[s]
      takes == f.here /\ ~f.error /\ ~f.closed
  IN /\ FromClient(Message("read", s, FALSE))
     /\ IF takes /\ s \in Inputs /\ PaneGone(f)
        THEN /\ CancelInput(f, s)
             /\ files' = [files EXCEPT ![s].closed = TRUE]
        ELSE /\ files' = IF takes /\ s \in Loads
                         THEN [files EXCEPT ![s].buffer = @ + 1] ELSE files
             /\ UNCHANGED <<flags, toClient>>
     /\ given' = IF takes /\ s \in Inputs /\ pane
                 THEN [given EXCEPT ![s] = @ + 1] ELSE given
     /\ NoEvent /\ UNCHANGED <<tty, session>>

(* MSG_EXITING                                                             *)
Exiting_slip ==
  /\ FromClient(Plain("exiting"))
  /\ session' = FALSE /\ toClient' = Append(toClient, Plain("exited"))
  /\ NoEvent /\ UNCHANGED <<tty, flags, files, given>>
Exiting ==
  /\ FromClient(Plain("exiting"))
  /\ session' = FALSE /\ tty' = "closed"
  /\ toClient' = Append(toClient, Plain("exited"))
  /\ NoEvent /\ UNCHANGED <<flags, files, given>>

(* MSG_WAKEUP and MSG_UNLOCK                                               *)
Wakeup ==
  /\ FromClient(Plain("wakeup"))
  /\ flags' = flags \ {"suspended"}
  /\ tty' = IF "suspended" \in flags /\ session THEN "open" ELSE tty
  /\ NoEvent /\ UNCHANGED <<session, files, toClient, given>>
-----------------------------------------------------------------------------
(* What the server does with the client.                                   *)

ServerOnly == Quiet /\ UNCHANGED <<toServer, history>>

(* cmd_attach_session: a control client is not told.                       *)
Attach(control) ==
  /\ Alive /\ ~session /\ waiting = {} /\ flags \cap {"attached", "done"} = {}
  /\ session' = TRUE /\ tty' = IF control THEN "none" ELSE "open"
  /\ flags' = flags \cup {"attached"} \cup IF control THEN {"control"} ELSE {}
  /\ toClient' = IF control THEN toClient ELSE Append(toClient, Plain("ready"))
  /\ NoEvent /\ ServerOnly
  /\ UNCHANGED <<exitType, timer, files, waiting, pane, freed>>

(* server_client_command_done                                              *)
CommandDone ==
  /\ Alive /\ waiting = {} /\ "done" \notin flags
  /\ flags' = flags \cup {"done"}
                    \cup IF "attached" \in flags THEN {} ELSE {"exit"}
  /\ NoEvent /\ ServerOnly
  /\ UNCHANGED <<exitType, timer, tty, session, files, waiting, pane, toClient,
                 freed>>

(* server_client_check_exit, by the server loop or, forced, by the timer:  *)
(* nothing that a file holds may be left to send.                          *)
Holds_slip == \E s \in Streams : s > 2 /\ files[s].here /\ files[s].buffer > 0
Holds == \E s \in Streams : files[s].here /\ files[s].buffer > 0
Leaving == Alive /\ "exit" \in flags /\ "exited" \notin flags
LetGo_slip(force) ==
  /\ flags' = flags \cup {"exited"} /\ timer' = FALSE
  /\ toClient' = Append(toClient, Plain(exitType))
  /\ promised' = IF force THEN promised ELSE given
LetGo(force) ==
  /\ flags' = flags \cup {"exited"}
  /\ timer' = TRUE
  /\ toClient' = Append(toClient, Plain(exitType))
  /\ promised' = IF force THEN promised ELSE given
CheckExit ==
  /\ Leaving
  /\ IF Holds
     THEN timer' = TRUE /\ UNCHANGED <<flags, toClient, promised>>
     ELSE LetGo(FALSE)
  /\ NoEvent /\ Quiet
  /\ UNCHANGED <<exitType, tty, session, files, waiting, pane, toServer, given,
                 moved, result, failed, used, freed>>

(* server_client_lost: what was not sent is dropped, every file is done    *)
(* with an error, and the messages of the client are not read.             *)
Lost ==
  /\ flags' = flags \cup {"dead"}
  /\ timer' = FALSE /\ session' = FALSE /\ tty' = "closed"
  /\ files' = [s \in Streams |->
                 IF files[s].here
                 THEN FireDone([files[s] EXCEPT !.error = TRUE]) ELSE files[s]]
  /\ \E k \in 0 .. Len(toClient) : toClient' = SubSeq(toClient, 1, k)
  /\ toServer' = <<>>
  /\ Quiet /\ UNCHANGED <<exitType, waiting, pane, history, freed>>

(* server_client_exit_timer                                                *)
ExitTimer ==
  /\ Alive /\ timer
  /\ NoEvent
  /\ IF "suspended" \notin flags /\ "exited" \in flags
     THEN Lost
     ELSE /\ IF "suspended" \notin flags /\ "exit" \in flags
             THEN LetGo(TRUE)
             ELSE timer' = FALSE /\ UNCHANGED <<flags, toClient, promised>>
          /\ Quiet
          /\ UNCHANGED <<exitType, tty, session, files, waiting, pane, toServer,
                         given, moved, result, failed, used, freed>>

(* The end of the client's messages, or a failure to write to it right     *)
(* after they were read (proc_event_cb).                                   *)
ClientLost ==
  /\ Alive /\ client.run = "gone" /\ toServer = <<>>
  /\ (\E s \in Streams : files[s].due > 0) => toClient # <<>>
  /\ NoEvent /\ Lost

(* server_client_detach, server_destroy_session and server_send_exit       *)
Leave(type) ==
  /\ flags' = flags \cup {"exit"} /\ exitType' = type
  /\ ServerOnly /\ UNCHANGED <<timer, tty, files, waiting, pane, toClient, freed>>
Detach ==
  /\ session /\ flags \cap {"dead", "exit"} = {}
  /\ Event /\ Leave("detach") /\ UNCHANGED session
Destroy ==
  /\ Alive /\ session
  /\ Event /\ Leave(exitType) /\ session' = FALSE
Shutdown ==
  /\ Alive /\ Event
  /\ IF "suspended" \in flags THEN Lost ELSE Leave("shutdown") /\ session' = FALSE

(* server_client_suspend and server_lock_client                            *)
StopsTty(type) ==
  /\ Event
  /\ flags' = flags \cup {"suspended"}
  /\ tty' = IF tty = "open" THEN "stopped" ELSE tty
  /\ toClient' = Append(toClient, Plain(type))
  /\ ServerOnly
  /\ UNCHANGED <<exitType, timer, session, files, waiting, pane, freed>>
Suspend ==
  /\ session /\ flags \cap {"dead", "suspended", "exit"} = {}
  /\ StopsTty("suspend")
Lock ==
  /\ session /\ flags \cap {"dead", "suspended", "control"} = {}
  /\ StopsTty("lock")

(* server_client_exec                                                      *)
Exec ==
  /\ Alive /\ session /\ Event
  /\ toClient' = Append(toClient, Plain("exec"))
  /\ ServerOnly
  /\ UNCHANGED <<flags, exitType, timer, tty, session, files, waiting, pane,
                 freed>>

(* The pane that takes the input is killed.                                *)
KillPane ==
  /\ pane /\ Inputs # {} /\ Event /\ pane' = FALSE
  /\ ServerOnly
  /\ UNCHANGED <<flags, exitType, timer, tty, session, files, waiting, toClient,
                 freed>>
-----------------------------------------------------------------------------
(* The client process.                                                     *)

(* client_exit, when the client is to exit and a file has been flushed:    *)
(* file_write_left.                                                        *)
Left(o) == \E s \in Streams : o[s].event /\ o[s].output > 0
Gone(why) == [client EXCEPT !.run = "gone", !.why = why]
FileCheck(o, c) ==
  client' = IF c.exitflag /\ ~Left(o) THEN [c EXCEPT !.run = "gone", !.why = "exit"]
            ELSE c

(* A message from the server is the next the client handles.               *)
ToClient(m) ==
  /\ Running /\ toClient # <<>> /\ Head(toClient) = m
  /\ toClient' = Tail(toClient)
  /\ UNCHANGED <<server, given, promised, result, used, freed>>
Reply(m) == toServer' = IF Alive THEN Append(toServer, m) ELSE toServer

(* file_write_open: the reply says if the file could be opened; one that   *)
(* could not stays in the tree.  read tells file_read_open, which replies  *)
(* only then.                                                              *)
FileOpen(s, read) ==
  /\ ToClient(Message(IF read THEN "read-open" ELSE "write-open", s, FALSE))
  /\ LET no == Message(IF read THEN "read-done" ELSE "write-ready", s, TRUE)
     IN \/ client.attached /\ NoEvent /\ UNCHANGED <<open, toServer, failed>>
        \/ /\ ~client.attached /\ ~open[s].here
           /\ open' = [open EXCEPT ![s] = [NotOpen EXCEPT !.here = TRUE,
                                                          !.event = TRUE]]
           /\ IF read THEN UNCHANGED toServer
              ELSE Reply(Message("write-ready", s, FALSE))
           /\ NoEvent /\ UNCHANGED failed
        \/ /\ ~client.attached
           /\ IF open[s].here THEN NoEvent ELSE Event
           /\ open' = [open EXCEPT ![s].here = TRUE]
           /\ failed' = failed \cup {s}
           /\ Reply(no)
  /\ UNCHANGED <<client, moved>>

(* file_write_finished                                                     *)
Finished(s) ==
  /\ Reply(Message("write-done", s, open[s].error))
  /\ open' = [open EXCEPT ![s] = NotOpen]
  /\ FileCheck(open', client)

(* An unknown stream is fatal to the client.                               *)
Known(s) == open[s].here
Unknown == client' = Gone("fatal") /\ UNCHANGED <<open, toServer>>
Ignored == client.attached /\ UNCHANGED <<client, open, toServer>>

(* file_write_data                                                         *)
FileWriteData(s) ==
  /\ ToClient(Message("write", s, FALSE)) /\ NoEvent
  /\ \/ Ignored
     \/ ~client.attached /\ ~Known(s) /\ Unknown
     \/ /\ ~client.attached /\ Known(s)
        /\ open' = [open EXCEPT ![s].output = @ + IF open[s].event THEN 1 ELSE 0]
        /\ UNCHANGED <<client, toServer>>
  /\ UNCHANGED <<moved, failed>>

(* file_write_close                                                        *)
FileWriteClose(s) ==
  /\ ToClient(Message("write-close", s, FALSE)) /\ NoEvent
  /\ \/ Ignored
     \/ ~client.attached /\ ~Known(s) /\ Unknown
     \/ /\ ~client.attached /\ Known(s)
        /\ IF open[s].event /\ open[s].output > 0
           THEN /\ open' = [open EXCEPT ![s].closed = TRUE]
                /\ UNCHANGED <<client, toServer>>
           ELSE Finished(s)
  /\ UNCHANGED <<moved, failed>>

(* file_read_error_callback, which file_read_cancel calls too              *)
ReadEnds(s, e) ==
  /\ Reply(Message("read-done", s, e))
  /\ open' = [open EXCEPT ![s] = NotOpen]
  /\ UNCHANGED client

(* file_read_cancel                                                        *)
FileReadCancel(s) ==
  /\ ToClient(Message("read-cancel", s, FALSE)) /\ NoEvent
  /\ \/ Ignored
     \/ ~client.attached /\ ~Known(s) /\ Unknown
     \/ ~client.attached /\ Known(s) /\ ReadEnds(s, FALSE)
  /\ UNCHANGED <<moved, failed>>

(* client_dispatch_wait and client_dispatch_attached: what ends the client *)
(* or stops it.                                                            *)
Exits == {"return", "shutdown"}
Told(type) ==
  /\ ToClient(Plain(type)) /\ NoEvent
  /\ \/ /\ type \in Exits /\ ~client.attached
        /\ FileCheck(open, [client EXCEPT !.exitflag = TRUE])
        /\ UNCHANGED toServer
     \/ /\ type = "detach" \/ (client.attached /\ type \in Exits \cup {"exec"})
        /\ Reply(Plain("exiting")) /\ UNCHANGED client
     \/ /\ type = "exited"
        /\ client' = Gone("exited") /\ UNCHANGED toServer
     \/ /\ type = "ready"
        /\ client' = [client EXCEPT !.attached = TRUE] /\ UNCHANGED toServer
     \/ /\ type \in {"suspend", "lock"} /\ client.attached
        /\ client' = [client EXCEPT !.run =
                        IF type = "lock" THEN "locked" ELSE "stopped"]
        /\ UNCHANGED toServer
     \/ /\ type \in {"suspend", "lock", "exec"} /\ ~client.attached
        /\ UNCHANGED <<client, toServer>>
  /\ UNCHANGED <<open, moved, failed>>

(* client_dispatch without a message: the server has closed the socket.    *)
ServerLost ==
  /\ Running /\ ~Alive /\ toClient = <<>>
  /\ client' = Gone("lost")
  /\ NoEvent /\ UNCHANGED <<server, toClient, toServer, open, history, freed>>
-----------------------------------------------------------------------------
ClientOnly == UNCHANGED <<server, toClient, given, promised, result, used, freed>>

(* file_write_callback, when the descriptor has taken the last output      *)
Drain(s) ==
  /\ Running /\ open[s].event /\ open[s].output > 0
  /\ moved' = [moved EXCEPT ![s] = @ + 1]
  /\ IF open[s].output = 1 /\ open[s].closed
     THEN Finished(s)
     ELSE /\ open' = [open EXCEPT ![s].output = @ - 1]
          /\ IF open[s].output = 1 THEN FileCheck(open', client)
             ELSE UNCHANGED client
          /\ UNCHANGED toServer
  /\ NoEvent /\ ClientOnly /\ UNCHANGED failed

(* file_write_error_callback                                               *)
WriteError(s) ==
  LET broken == [open EXCEPT ![s].event = FALSE, ![s].error = TRUE]
  IN /\ Running /\ open[s].event /\ open[s].output > 0
     /\ failed' = failed \cup {s}
     /\ IF open[s].closed
        THEN /\ Reply(Message("write-done", s, TRUE))
             /\ open' = [open EXCEPT ![s] = NotOpen]
        ELSE open' = broken /\ UNCHANGED toServer
     /\ FileCheck(open', client)
     /\ Event /\ ClientOnly /\ UNCHANGED moved

(* file_read_callback                                                      *)
ReadSome(s) ==
  /\ Running /\ s \in Loads \cup Inputs /\ open[s].event /\ moved[s] < MaxData
  /\ moved' = [moved EXCEPT ![s] = @ + 1]
  /\ Reply(Message("read", s, FALSE))
  /\ NoEvent /\ ClientOnly /\ UNCHANGED <<client, open, failed>>

(* The file that is read ends, or cannot be read.                          *)
ReadEnd(s, e) ==
  /\ Running /\ s \in Loads \cup Inputs /\ open[s].event
  /\ ReadEnds(s, e)
  /\ IF e THEN Event ELSE NoEvent
  /\ ClientOnly /\ UNCHANGED <<moved, failed>>

(* client_signal: SIGTERM and SIGHUP                                       *)
Signal ==
  /\ Running /\ Event
  /\ IF client.attached
     THEN Reply(Plain("exiting")) /\ UNCHANGED client
     ELSE client' = Gone("signal") /\ UNCHANGED toServer
  /\ ClientOnly /\ UNCHANGED <<open, moved, failed>>

(* SIGCONT to a client that was suspended, and the end of lock-command     *)
Continue ==
  /\ client.run \in {"stopped", "locked"}
  /\ client' = [client EXCEPT !.run = "running"]
  /\ Reply(Plain("wakeup"))
  /\ NoEvent /\ ClientOnly /\ UNCHANGED <<open, moved, failed>>

(* The client is killed: what it had not sent is lost.                     *)
Killed ==
  /\ client.run # "gone" /\ Event
  /\ client' = Gone("killed")
  /\ \E k \in 0 .. Len(toServer) : toServer' = SubSeq(toServer, 1, k)
  /\ ClientOnly /\ UNCHANGED <<open, moved, failed>>
-----------------------------------------------------------------------------
Next ==
  \/ FilePrint
  \/ \E s \in Writes : FileWrite(s)
  \/ \E s \in Loads \cup Inputs : FileRead(s)
  \/ \E s \in Streams : FilePushAgain(s)
  \/ \E s \in Streams : FileDone(s)
  \/ \E s \in Streams, e \in BOOLEAN : WriteReady(s, e)
  \/ \E s \in Streams, e \in BOOLEAN : TransferDone("write-done", s, e)
  \/ \E s \in Streams, e \in BOOLEAN : TransferDone("read-done", s, e)
  \/ \E s \in Streams : ReadData(s)
  \/ Exiting
  \/ Wakeup
  \/ \E control \in BOOLEAN : Attach(control)
  \/ CommandDone
  \/ CheckExit
  \/ ExitTimer
  \/ ClientLost
  \/ Detach
  \/ Destroy
  \/ Shutdown
  \/ Suspend
  \/ Lock
  \/ Exec
  \/ KillPane
  \/ \E s \in Streams, read \in BOOLEAN : FileOpen(s, read)
  \/ \E s \in Streams : FileWriteData(s)
  \/ \E s \in Streams : FileWriteClose(s)
  \/ \E s \in Streams : FileReadCancel(s)
  \/ \E type \in {"return", "shutdown", "detach", "exec", "exited", "ready",
                  "suspend", "lock"} : Told(type)
  \/ ServerLost
  \/ \E s \in Streams : Drain(s)
  \/ \E s \in Streams : WriteError(s)
  \/ \E s \in Streams : ReadSome(s)
  \/ \E s \in Streams, e \in BOOLEAN : ReadEnd(s, e)
  \/ Signal
  \/ Continue
  \/ Killed

Spec == Init /\ [][Next]_vars

(* The event loops of both processes: each handles its messages and events. *)
(* What reads or writes a descriptor, a user and the rest of the server may *)
(* be as slow as they like.                                                 *)
ServerSteps ==
  \/ \E s \in Streams : FilePushAgain(s) \/ FileDone(s) \/ ReadData(s)
  \/ \E s \in Streams, e \in BOOLEAN :
       \/ WriteReady(s, e)
       \/ TransferDone("write-done", s, e) \/ TransferDone("read-done", s, e)
  \/ Exiting \/ Wakeup \/ ClientLost
ClientSteps ==
  \/ \E s \in Streams :
       FileWriteData(s) \/ FileWriteClose(s) \/ FileReadCancel(s)
  \/ \E s \in Streams, read \in BOOLEAN : FileOpen(s, read)
  \/ \E type \in {"return", "shutdown", "detach", "exec", "exited", "ready",
                  "suspend", "lock"} : Told(type)
  \/ ServerLost
FairSpec ==
  /\ Spec /\ WF_vars(ServerSteps) /\ WF_vars(ClientSteps)
  /\ WF_vars(CheckExit) /\ WF_vars(ExitTimer)
-----------------------------------------------------------------------------
(* Types; a file is in the tree while it is referred to, by an event that  *)
(* pushes it or until it is done.                                          *)
TypeOK ==
  /\ flags \subseteq {"attached", "control", "suspended", "exit", "exited",
                      "dead", "done"}
  /\ exitType \in {"return", "shutdown", "detach"}
  /\ timer \in BOOLEAN /\ session \in BOOLEAN /\ pane \in BOOLEAN
  /\ tty \in {"none", "open", "stopped", "closed"}
  /\ \A s \in Streams :
       /\ files[s].buffer \in 0 .. MaxPrints + MaxData
       /\ files[s].here = (files[s].references > 0)
       /\ files[s].references <= 1 + files[s].pushes
  /\ Cardinality(waiting) <= 1
  /\ client.run \in {"running", "stopped", "locked", "gone"}
  /\ (client.run = "gone") = (client.why # "none")

(* A callback that is told of success has had all of the file: what the    *)
(* server gave to a write is in the client's file, and what the client     *)
(* read is what the callback took.                                         *)
DoneMeansMoved ==
  \A s \in Streams : result[s] = "ok" => moved[s] = given[s]

(* Files are kept as long as they are referred to, and done means moved.   *)
FilesSound == TypeOK /\ DoneMeansMoved

(* A client that leaves because it was told to (client_exit) has written    *)
(* everything that the server had to print or write when it let it go,     *)
(* unless a file of it could not be opened or written.                      *)
FlushedBeforeExit ==
  client.why = "exit" =>
    \A s \in Writes \cup {Stdout} :
      moved[s] >= promised[s] \/ s \in failed \/ result[s] = "error"

(* The terminal has one owner: the server does not draw on it when the     *)
(* attached client is stopped, runs lock-command, or has exited after      *)
(* MSG_EXITED.                                                              *)
OneOwner ==
  client.attached
    /\ (client.run \in {"stopped", "locked"} \/ client.why = "exited")
      => tty # "open"

(* A client that is to exit is lost in the end, whatever it and its output *)
(* do: it is let go within ten seconds and dropped ten seconds later.  One *)
(* that is suspended when the timer fires has to be continued and then to   *)
(* answer.  The exception is a client that was attached by a command after *)
(* it had been told to exit: with output left it waits for a callback.     *)
ClientEnds ==
  "exit" \in flags ~>
    \/ "dead" \in flags \/ freed \/ "suspended" \in flags
    \/ client.attached /\ client.exitflag
=============================================================================
