------------------------------ MODULE Children ------------------------------
(***************************************************************************)
(* The processes the server starts, and what ends when they do: panes      *)
(* (spawn.c, window.c, server-fn.c) and jobs (job.c).  The end of a        *)
(* process reaches the server twice and in either order: as SIGCHLD, with  *)
(* its status (server.c), and as the end of its output, an error of the    *)
(* bufferevent.  A pane is closed by the last of the two, if its output    *)
(* has been read and its pipe written, and then it is destroyed or, with   *)
(* remain-on-exit, shown as dead; a job calls back and is freed.           *)
(***************************************************************************)
EXTENDS Naturals, FiniteSets

CONSTANTS Panes,      \* panes, each may be created once
          Jobs,       \* entries that run a job, one at a time
          MaxPids,    \* bound on the processes that are started
          MaxUnread,  \* bound on what a process has written and nobody read
          MaxEvents,  \* bound on commands, keys and stops
          Remains     \* values of remain-on-exit that panes have

ASSUME ChildrenAssumption ==
  /\ MaxPids \in Nat /\ MaxUnread \in Nat /\ MaxEvents \in Nat
  /\ Remains \subseteq {"off", "on", "failed", "key", "failed-key"}

VARIABLES
  pane,     \* the panes
  job,      \* the jobs of all_jobs
  proc,     \* the kernel: what has become of each process
  status,   \* its exit status
  unread,   \* what it wrote to its terminal or socket and was not read
  hangup,   \* nobody has the other end of that open
  started,  \* processes so far, numbered from 1: their pids
  events    \* commands, keys and stops so far

vars == <<pane, job, proc, status, unread, hangup, started, events>>

Pids == 1 .. MaxPids
NoPid == 0    \* pid of an empty pane, or -1

(* A pane: PANE_EXITED, PANE_STATUSREADY, PANE_STATUSDRAWN and PANE_EMPTY, *)
(* the item or the editor that waits for its end (wait_item, editor), what *)
(* they were told and how often.                                           *)
Absent ==
  [listed |-> FALSE, fd |-> FALSE, event |-> FALSE, pid |-> NoPid,
   exited |-> FALSE, ready |-> FALSE, status |-> "none", drawn |-> FALSE,
   empty |-> FALSE, remain |-> "off", pipe |-> FALSE, output |-> FALSE,
   waiter |-> "none", told |-> "none", tells |-> 0]

(* A job: pid is -1 once it has been reaped, process never changes; kind   *)
(* says who runs it, and calls counts calls of completecb.                 *)
NoJob == [state |-> "none", kind |-> "none", pid |-> NoPid, process |-> NoPid,
          status |-> "none", calls |-> 0]

Init ==
  /\ pane = [p \in Panes |-> Absent]
  /\ job = [j \in Jobs |-> NoJob]
  /\ proc = [i \in Pids |-> "none"]
  /\ status = [i \in Pids |-> "none"]
  /\ unread = [i \in Pids |-> 0]
  /\ hangup = [i \in Pids |-> FALSE]
  /\ started = 0 /\ events = 0

kernelVars == <<proc, status, unread, hangup, started>>

Event == events < MaxEvents /\ events' = events + 1
-----------------------------------------------------------------------------
(* Definitions named X_slip are X as a plausible mistake would have it: no  *)
(* specification uses them, they show that a property notices the mistake. *)

(* fork and fdforkpty give a pid that no pane or job has recorded.         *)
NextPid == started + 1
Forks ==
  /\ started < MaxPids
  /\ started' = NextPid
  /\ proc' = [proc EXCEPT ![NextPid] = "running"]
  /\ UNCHANGED <<status, unread, hangup>>

(* window_pane_destroy_ready                                               *)
DestroyReady_slip(r) ==
  /\ ~(r.pipe /\ r.output)
  /\ r.exited
  /\ r.waiter # "none" => r.ready
DestroyReady(r) ==
  /\ ~(r.pipe /\ r.output)
  /\ r.fd => unread[r.pid] = 0
  /\ r.exited
  /\ r.waiter # "none" => r.ready

(* window_pane_wait_finish and spawn_editor_finish                         *)
Finish(r) ==
  IF r.waiter = "none" THEN r
  ELSE [r EXCEPT !.waiter = "none", !.tells = @ + 1,
                 !.told = IF r.waiter = "cancelled" THEN "none"
                          ELSE IF r.ready THEN r.status ELSE "hup"]

(* window_remove_pane: window_pane_destroy closes everything and frees.    *)
Destroyed_slip(r) ==
  [Absent EXCEPT !.waiter = r.waiter, !.told = r.told, !.tells = r.tells]
Destroyed(r) ==
  [Absent EXCEPT !.told = Finish(r).told, !.tells = Finish(r).tells]

(* remain-on-exit keeps the pane.                                          *)
Stays(r) ==
  \/ r.remain \in {"on", "key"}
  \/ r.remain \in {"failed", "failed-key"} /\ r.status # "zero"

(* server_destroy_pane                                                     *)
Closed(r) ==
  [r EXCEPT !.fd = FALSE, !.event = @ /\ ~r.fd, !.pipe = FALSE, !.output = FALSE]
DestroyPane(r) ==
  IF ~r.ready THEN Closed(r)
  ELSE IF Stays(r) THEN [Closed(r) EXCEPT !.drawn = TRUE]
  ELSE Destroyed(Closed(r))
Settled(r) == IF DestroyReady(r) THEN DestroyPane(r) ELSE r
-----------------------------------------------------------------------------
(* spawn_pane: a new pane, for split-window -W with an item that waits for *)
(* it, or for an editor, which sets remain-on-exit off.  When the fork     *)
(* fails the pane is removed again.  Panes are alike: any may be the next.  *)
Spawned(r, pid) ==
  [r EXCEPT !.fd = TRUE, !.event = TRUE, !.pid = pid, !.exited = FALSE,
            !.ready = FALSE, !.drawn = FALSE, !.empty = FALSE]
SpawnedEmpty(r) ==
  [r EXCEPT !.event = TRUE, !.pid = NoPid, !.exited = FALSE,
            !.ready = FALSE, !.drawn = FALSE, !.empty = TRUE]
NewPane == CHOOSE p \in Panes : pane[p] = Absent
SpawnPane(p, waiter, remain) ==
  /\ pane[p] = Absent /\ p = NewPane
  /\ Forks
  /\ pane' = [pane EXCEPT ![p] =
                [Spawned(@, NextPid) EXCEPT
                   !.listed = TRUE, !.waiter = waiter,
                   !.remain = IF waiter = "editor" THEN "off" ELSE remain]]
  /\ UNCHANGED <<job, events>>

SpawnEmptyPane(p, remain) ==
  /\ Event
  /\ pane[p] = Absent /\ p = NewPane
  /\ pane' = [pane EXCEPT ![p] = [SpawnedEmpty(@) EXCEPT !.listed = TRUE, !.remain = remain]]
  /\ UNCHANGED <<job, kernelVars>>

(* spawn_pane with SPAWN_RESPAWN: the old process is forgotten, its        *)
(* terminal closed, and the flags are cleared before the fork, which may   *)
(* fail.  The pipe stays.                                                  *)
Emptied(r) ==
  [r EXCEPT !.fd = FALSE, !.event = FALSE, !.ready = FALSE, !.drawn = FALSE]
RespawnPane(p, kill) ==
  /\ Event
  /\ pane[p].listed /\ (pane[p].fd => kill)
  /\ \/ /\ Forks
        /\ pane' = [pane EXCEPT ![p] = Spawned(Emptied(@), NextPid)]
     \/ /\ pane' = [pane EXCEPT ![p] = SpawnedEmpty(Emptied(@))]
        /\ UNCHANGED kernelVars
     \/ /\ pane' = [pane EXCEPT ![p] = [Emptied(@) EXCEPT !.pid = NoPid, !.empty = FALSE]]
        /\ UNCHANGED kernelVars
  /\ UNCHANGED job

(* spawn_window with SPAWN_RESPAWN: the other panes of the window are      *)
(* destroyed first.                                                        *)
RespawnWindow(p) ==
  /\ Event
  /\ pane[p].listed
  /\ Forks
  /\ pane' = [q \in Panes |->
       IF q = p THEN Spawned(Emptied(pane[p]), NextPid)
       ELSE IF pane[q].listed THEN Destroyed(pane[q]) ELSE pane[q]]
  /\ UNCHANGED job

(* server_kill_pane, and server_kill_window for a last pane.               *)
KillPane(p) ==
  /\ Event
  /\ pane[p].listed
  /\ pane' = [pane EXCEPT ![p] = Destroyed(@)]
  /\ UNCHANGED <<job, kernelVars>>

(* server_client_handle_dead_key                                           *)
DeadKey(p) ==
  /\ Event
  /\ pane[p].listed /\ pane[p].exited
  /\ pane[p].remain \in {"key", "failed-key"}
  /\ pane' = [pane EXCEPT ![p] = DestroyPane([@ EXCEPT !.remain = "off"])]
  /\ UNCHANGED <<job, kernelVars>>

(* spawn_cancel_editor: who opened the editor is gone.                     *)
CancelEditor(p) ==
  /\ Event
  /\ pane[p].waiter = "editor"
  /\ pane' = [pane EXCEPT ![p].waiter = "cancelled"]
  /\ UNCHANGED <<job, kernelVars>>

(* cmd_pipe_pane_exec: close the old pipe, which may be what the pane      *)
(* waited for, and open another.                                           *)
PipePane(p, open) ==
  /\ Event
  /\ pane[p].listed /\ pane[p].fd /\ ~pane[p].exited
  /\ LET r == [pane[p] EXCEPT !.pipe = FALSE, !.output = FALSE]
     IN  pane' = [pane EXCEPT ![p] =
           IF pane[p].pipe /\ DestroyReady(r) THEN DestroyPane(r)
           ELSE [r EXCEPT !.pipe = open]]
  /\ UNCHANGED <<job, kernelVars>>

(* window_pane_read_callback                                               *)
Read(p) ==
  /\ pane[p].listed /\ pane[p].fd /\ unread[pane[p].pid] > 0
  /\ unread' = [unread EXCEPT ![pane[p].pid] = 0]
  /\ pane' = [pane EXCEPT ![p].output = pane[p].pipe]
  /\ UNCHANGED <<job, proc, status, hangup, started, events>>

(* window_pane_error_callback: the end of the output.  The server loop     *)
(* enables the event again, so it may come again.                          *)
Eof(p) ==
  /\ pane[p].listed /\ pane[p].fd
  /\ hangup[pane[p].pid] /\ unread[pane[p].pid] = 0
  /\ pane' = [pane EXCEPT ![p] = Settled([@ EXCEPT !.exited = TRUE])]
  /\ UNCHANGED <<job, kernelVars, events>>

(* cmd_pipe_pane_write_callback, cmd_pipe_pane_read_callback and           *)
(* cmd_pipe_pane_error_callback                                            *)
PipeWritten(p) ==
  /\ pane[p].pipe /\ pane[p].output
  /\ pane' = [pane EXCEPT ![p] = Settled([@ EXCEPT !.output = FALSE])]
  /\ UNCHANGED <<job, kernelVars, events>>
PipeRead(p) ==
  /\ pane[p].pipe /\ pane[p].event
  /\ pane' = [pane EXCEPT ![p] = Settled(@)]
  /\ UNCHANGED <<job, kernelVars, events>>
PipeClosed(p) ==
  /\ pane[p].pipe
  /\ pane' = [pane EXCEPT ![p] = Settled([@ EXCEPT !.pipe = FALSE, !.output = FALSE])]
  /\ UNCHANGED <<job, kernelVars, events>>
-----------------------------------------------------------------------------
(* job_run: cmd_run_shell_timer, cmd_if_shell_exec, and window-copy.c,     *)
(* which has no callback; when the fork fails nothing is left.             *)
Running(kind) == [NoJob EXCEPT !.state = "running", !.kind = kind,
                               !.pid = NextPid, !.process = NextPid]
JobRun(j, kind) ==
  /\ job[j].state \in {"none", "freed"}
  /\ Forks
  /\ job' = [job EXCEPT ![j] = Running(kind)]
  /\ UNCHANGED <<pane, events>>

(* job_free; kill has no effect that the process must follow.              *)
Freed(r) == [r EXCEPT !.state = "freed", !.pid = NoPid]

(* format_job_get runs the job of a format again and frees one that has    *)
(* not ended; format_job_tidy frees one that is old.                       *)
FormatJob(j) ==
  /\ Event
  /\ job[j].kind = "format" /\ job[j].state \notin {"none", "freed"}
  /\ Forks
  /\ job' = [job EXCEPT ![j] = Running("format")]
  /\ UNCHANGED pane
FormatTidy(j) ==
  /\ Event
  /\ job[j].kind = "format" /\ job[j].state \notin {"none", "freed"}
  /\ job' = [job EXCEPT ![j] = Freed(@)]
  /\ UNCHANGED <<pane, kernelVars>>

Complete_slip(r) == [r EXCEPT !.calls = @ + 1]
Complete(r) == Freed([r EXCEPT !.calls = @ + 1])

(* job_read_callback leaves what was read in the buffer of the job.        *)
JobRead(j) ==
  /\ job[j].state \in {"running", "dead"} /\ unread[job[j].process] > 0
  /\ unread' = [unread EXCEPT ![job[j].process] = 0]
  /\ UNCHANGED <<pane, job, proc, status, hangup, started, events>>

(* job_error_callback                                                      *)
JobClosed(r) == IF r.state = "dead" THEN Complete(r) ELSE [r EXCEPT !.state = "closed"]
JobEof(j) ==
  /\ job[j].state \in {"running", "dead"}
  /\ hangup[job[j].process] /\ unread[job[j].process] = 0
  /\ job' = [job EXCEPT ![j] = JobClosed(@)]
  /\ UNCHANGED <<pane, kernelVars, events>>

(* job_check_died                                                          *)
JobDied(r) ==
  LET d == [r EXCEPT !.status = status[r.pid]]
  IN  IF r.state = "closed" THEN Complete(d)
      ELSE [d EXCEPT !.pid = NoPid, !.state = "dead"]
-----------------------------------------------------------------------------
(* server_child_signal: waitpid until there is no more.  Panes and jobs    *)
(* take the status of their process, and one that was stopped is told to   *)
(* go on; nobody takes that of a pipe's, or of a process that was          *)
(* replaced.                                                               *)
Zombies == {i \in Pids : proc[i] = "zombie"}
Stopped == {i \in Pids : proc[i] = "stopped"}
Recorded(i) ==
  \/ \E p \in Panes : pane[p].listed /\ pane[p].pid = i
  \/ \E j \in Jobs : job[j].pid = i
Exited_slip(r) ==
  Finish([r EXCEPT !.status = status[r.pid], !.ready = TRUE, !.exited = TRUE])
Exited(r) ==
  Settled(Finish([r EXCEPT !.status = status[r.pid], !.ready = TRUE, !.exited = TRUE]))
ChildSignal ==
  /\ Zombies \cup Stopped # {}
  /\ proc' = [i \in Pids |->
                IF i \in Zombies THEN "reaped"
                ELSE IF i \in Stopped
                THEN IF Recorded(i) THEN "running" ELSE "suspended"
                ELSE proc[i]]
  /\ pane' = [p \in Panes |->
                IF pane[p].listed /\ pane[p].pid \in Zombies
                THEN Exited(pane[p]) ELSE pane[p]]
  /\ job' = [j \in Jobs |->
                IF job[j].pid \in Zombies THEN JobDied(job[j]) ELSE job[j]]
  /\ UNCHANGED <<status, unread, hangup, started, events>>

(* What the processes do: write, stop, close their output, die.  When the  *)
(* process of a pane dies its terminal hangs up: it leads the session.     *)
OfPane(i) == \E p \in Panes : pane[p].listed /\ pane[p].fd /\ pane[p].pid = i
Held(i) ==
  \/ OfPane(i)
  \/ \E j \in Jobs : job[j].process = i /\ job[j].state \in {"running", "dead", "closed"}
Write(i) ==
  /\ proc[i] = "running" /\ Held(i) /\ ~hangup[i] /\ unread[i] < MaxUnread
  /\ unread' = [unread EXCEPT ![i] = @ + 1]
  /\ UNCHANGED <<pane, job, proc, status, hangup, started, events>>
CloseOutput(i) ==
  /\ Held(i) /\ ~hangup[i]
  /\ hangup' = [hangup EXCEPT ![i] = TRUE]
  /\ UNCHANGED <<pane, job, proc, status, unread, started, events>>
Stop(i) ==
  /\ Event
  /\ proc[i] = "running"
  /\ proc' = [proc EXCEPT ![i] = "stopped"]
  /\ UNCHANGED <<pane, job, status, unread, hangup, started>>
Die(i, st) ==
  /\ proc[i] \in {"running", "suspended"}
  /\ proc' = [proc EXCEPT ![i] = "zombie"]
  /\ status' = [status EXCEPT ![i] = st]
  /\ hangup' = [hangup EXCEPT ![i] = @ \/ OfPane(i)]
  /\ UNCHANGED <<pane, job, unread, started, events>>
-----------------------------------------------------------------------------
PaneAction(p) ==
  \/ \E waiter \in {"none", "item", "editor"}, remain \in Remains : SpawnPane(p, waiter, remain)
  \/ \E remain \in Remains : SpawnEmptyPane(p, remain)
  \/ \E kill \in BOOLEAN : RespawnPane(p, kill)
  \/ RespawnWindow(p)
  \/ KillPane(p)
  \/ DeadKey(p)
  \/ CancelEditor(p)
  \/ \E open \in BOOLEAN : PipePane(p, open)
  \/ Read(p)
  \/ Eof(p)
  \/ PipeWritten(p)
  \/ PipeRead(p)
  \/ PipeClosed(p)

JobAction(j) ==
  \/ \E kind \in {"command", "format"} : JobRun(j, kind)
  \/ FormatJob(j)
  \/ FormatTidy(j)
  \/ JobRead(j)
  \/ JobEof(j)

Process(i) ==
  \/ Write(i)
  \/ CloseOutput(i)
  \/ Stop(i)
  \/ \E st \in {"zero", "failed"} : Die(i, st)

Next ==
  \/ \E p \in Panes : PaneAction(p)
  \/ \E j \in Jobs : JobAction(j)
  \/ \E i \in Pids : Process(i)
  \/ ChildSignal

Spec == Init /\ [][Next]_vars

(* A turn of libevent runs every callback that is due.  Nothing is assumed *)
(* of the processes, nor that a pipe is read.                              *)
FairSpec ==
  /\ Spec
  /\ WF_vars(ChildSignal)
  /\ \A p \in Panes : WF_vars(Read(p)) /\ WF_vars(Eof(p))
  /\ \A j \in Jobs : WF_vars(JobRead(j)) /\ WF_vars(JobEof(j))
-----------------------------------------------------------------------------
PaneRecords ==
  [listed : BOOLEAN, fd : BOOLEAN, event : BOOLEAN, pid : 0 .. MaxPids,
   exited : BOOLEAN, ready : BOOLEAN, status : {"none", "zero", "failed"},
   drawn : BOOLEAN, empty : BOOLEAN, remain : Remains \cup {"off"},
   pipe : BOOLEAN, output : BOOLEAN,
   waiter : {"none", "item", "editor", "cancelled"},
   told : {"none", "zero", "failed", "hup"}, tells : 0 .. 1]
JobRecords ==
  [state : {"none", "running", "dead", "closed", "freed"},
   kind : {"none", "command", "format"}, pid : 0 .. MaxPids,
   process : 0 .. MaxPids, status : {"none", "zero", "failed"}, calls : 0 .. 1]
TypeOK ==
  /\ pane \in [Panes -> PaneRecords]
  /\ job \in [Jobs -> JobRecords]
  /\ proc \in [Pids -> {"none", "running", "stopped", "suspended", "zombie", "reaped"}]
  /\ status \in [Pids -> {"none", "zero", "failed"}]
  /\ unread \in [Pids -> 0 .. MaxUnread]
  /\ hangup \in [Pids -> BOOLEAN]
  /\ started \in 0 .. MaxPids /\ events \in 0 .. MaxEvents

(* A pane whose output is closed and whose process has been reaped is not  *)
(* left in the window unless it is shown as dead, whichever of the two     *)
(* came first; and then nothing waits for it.                              *)
ClosedPaneShown ==
  \A p \in Panes :
    pane[p].listed /\ pane[p].ready =>
      /\ pane[p].waiter = "none"
      /\ ~pane[p].fd <=> pane[p].drawn

(* Who waits for a pane (wait_item, editor) is told once, when the process *)
(* has been reaped with its status, or when the pane is destroyed.         *)
WaiterTold ==
  \A p \in Panes :
    /\ pane[p].waiter # "none" => pane[p].listed /\ pane[p].tells = 0
    /\ pane[p].tells = 1 /\ pane[p].listed /\ pane[p].ready => pane[p].told # "hup"

(* A job's callback runs once, with the status of its process and after    *)
(* all its output, whichever of death and end of output came first; and    *)
(* the pid that job_free and job_kill_all kill has not been reaped.        *)
JobTold ==
  \A j \in Jobs :
    LET r == job[j]
    IN  /\ r.calls = 1 =>
             /\ proc[r.process] = "reaped" /\ r.status = status[r.process]
             /\ hangup[r.process] /\ unread[r.process] = 0
        /\ r.pid # NoPid => proc[r.pid] # "reaped"
        /\ r.state = "dead" => proc[r.process] = "reaped"

(* Each pane and each job ends once, with its status, and tells who waits. *)
EndsExact == ClosedPaneShown /\ WaiterTold /\ JobTold

(* No output is lost when a pane closes by itself: all of it was read, and *)
(* what goes to a pipe was written.                                        *)
OutputKept ==
  [][\A p \in Panes :
       \/ ~pane[p].fd \/ pane'[p].fd
       \/ unread[pane[p].pid] = 0 /\ ~pane[p].output
       \/ PipeWritten(p) \/ PipeClosed(p) \/ PipePane(p, FALSE)
       \/ KillPane(p) \/ DeadKey(p) \/ RespawnPane(p, TRUE)
       \/ \E q \in Panes : RespawnWindow(q)]_vars

(* A pane whose process is dead does not linger, unless its pipe is not    *)
(* read; a job that is dead and has closed its output ends; and a child    *)
(* that is stopped goes on.                                                *)
Dead(i) == i # NoPid /\ proc[i] \in {"zombie", "reaped"}
Lingers(r) == r.listed /\ Dead(r.pid) /\ ~r.drawn /\ ~(r.pipe /\ r.output)
Unfinished(r) ==
  r.state \in {"running", "dead", "closed"} /\ Dead(r.process) /\ hangup[r.process]
EndsSeen ==
  /\ \A p \in Panes : []<>~Lingers(pane[p])
  /\ \A j \in Jobs : []<>~Unfinished(job[j])
  /\ \A i \in Pids : []<>~(proc[i] = "stopped" /\ Recorded(i))
=============================================================================
