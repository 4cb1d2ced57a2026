--------------------------- MODULE ChildrenProofs ---------------------------
(***************************************************************************)
(* Proofs about Children: the types, EndsExact (a pane is closed once, a   *)
(* job calls back once, and who waits is told, whichever of the death of   *)
(* the process and the end of its output comes first) and OutputKept, for  *)
(* every number of panes, jobs and processes.                              *)
(*                                                                         *)
(* EndsExact is not inductive.  That a reaped pane which is not shown      *)
(* still has its terminal open rests on the pipe: the error callback may   *)
(* close a pane before its process is reaped, and the signal then settles  *)
(* it only because closing dropped the pipe (PipeSound).  That a job's     *)
(* callback runs once, with the last output read, rests on what its state  *)
(* says of the process: a closed job has hung up and been read, a dead one *)
(* was reaped and has the status, and one that called is freed (JobSound). *)
(***************************************************************************)
EXTENDS Children, TLAPS

PipeSound(r) ==
  /\ r.output => r.pipe
  /\ ~r.fd /\ r.pid # NoPid => ~r.pipe

WaiterSound(r) ==
  /\ r.waiter # "none" => r.listed /\ r.tells = 0
  /\ r.listed => r.told # "hup"
  /\ r.listed /\ r.ready => r.waiter = "none"

ShownSound(r) ==
  /\ r.drawn => ~r.fd
  /\ r.listed /\ r.ready => r.fd \/ r.drawn

Sound(r) == r \in PaneRecords /\ PipeSound(r) /\ WaiterSound(r) /\ ShownSound(r)
PanesSound == \A p \in Panes : Sound(pane[p])

(* A job r while n processes have been started, of which proc, status and *)
(* the rest are k, st, un and h.                                           *)
Calling(r) == r.calls = 1
JobSound(r, n, k, st, un, h) ==
  /\ r.process <= n
  /\ r.pid # NoPid =>
       /\ r.pid = r.process /\ r.state \in {"running", "closed"}
       /\ k[r.pid] # "reaped"
  /\ r.state \in {"running", "dead", "closed"} \/ Calling(r) => r.process # NoPid
  /\ Calling(r) => r.state = "freed"
  /\ r.state = "dead" \/ Calling(r) =>
       k[r.process] = "reaped" /\ r.status = st[r.process]
  /\ r.state = "closed" \/ Calling(r) => h[r.process] /\ un[r.process] = 0
JobsSound ==
  \A j \in Jobs : JobSound(job[j], started, proc, status, unread, hangup)

IInv == TypeOK /\ PanesSound /\ JobsSound
-----------------------------------------------------------------------------
(* What the helpers do to one pane.                                        *)

LEMMA AbsentPane ==
  /\ Absent \in PaneRecords
  /\ ~Absent.output /\ Absent.told = "none" /\ Absent.tells = 0 /\ Absent.waiter = "none"
<1>1. NoPid \in 0 .. MaxPids /\ 0 \in 0 .. 1
  BY ChildrenAssumption DEF NoPid
<1> QED BY <1>1 DEF Absent, PaneRecords

(* A pane that is freed is sound, and whoever waited has been told once.   *)
LEMMA DestroyedSound ==
  ASSUME NEW r \in PaneRecords, WaiterSound(r)
  PROVE  Sound(Destroyed(r))
<1>1. Absent \in PaneRecords
  BY AbsentPane
<1>2. /\ Finish(r).told \in {"none", "zero", "failed", "hup"}
      /\ Finish(r).tells \in 0 .. 1
  <2>1. CASE r.waiter = "none"
    BY <2>1 DEF Finish, PaneRecords
  <2>2. CASE r.waiter # "none"
    <3>1. /\ r.tells = 0 /\ r.status \in {"none", "zero", "failed"}
      BY <2>2 DEF PaneRecords, WaiterSound
    <3>2. /\ Finish(r).tells = r.tells + 1
          /\ Finish(r).told = IF r.waiter = "cancelled" THEN "none"
                              ELSE IF r.ready THEN r.status ELSE "hup"
      BY <2>2, <3>1 DEF Finish, PaneRecords
    <3> QED BY <3>1, <3>2
  <2> QED BY <2>1, <2>2
<1> DEFINE t == Finish(r).told
           n == Finish(r).tells
           d == [Absent EXCEPT !.told = t, !.tells = n]
<1>3. d = Destroyed(r)
  BY DEF Destroyed
<1>4. t \in {"none", "zero", "failed", "hup"} /\ n \in 0 .. 1
  BY <1>2
<1> HIDE DEF t, n
<1>5. /\ d \in PaneRecords
      /\ d.output = Absent.output /\ d.pipe = Absent.pipe
      /\ d.waiter = Absent.waiter /\ d.listed = Absent.listed
      /\ d.drawn = Absent.drawn
  BY <1>1, <1>4, ZenonT(30) DEF PaneRecords
<1> HIDE DEF d
<1>6. /\ ~Absent.output /\ ~Absent.pipe /\ Absent.waiter = "none"
      /\ ~Absent.listed /\ ~Absent.drawn
  BY DEF Absent
<1>7. Sound(d)
  BY <1>5, <1>6 DEF Sound, PipeSound, WaiterSound, ShownSound
<1> QED BY <1>3, <1>7

LEMMA ClosedSound ==
  ASSUME NEW r \in PaneRecords, WaiterSound(r)
  PROVE  /\ Closed(r) \in PaneRecords
         /\ PipeSound(Closed(r)) /\ WaiterSound(Closed(r))
         /\ ~Closed(r).fd /\ Closed(r).ready = r.ready
<1> DEFINE c == Closed(r)
<1>1. /\ c \in PaneRecords
      /\ ~c.output /\ ~c.pipe /\ ~c.fd
      /\ c.waiter = r.waiter /\ c.listed = r.listed /\ c.tells = r.tells
      /\ c.told = r.told /\ c.ready = r.ready
  BY ZenonT(30) DEF Closed, PaneRecords
<1> QED BY <1>1 DEF PipeSound, WaiterSound

(* server_destroy_pane leaves a pane closed, shown as dead, or freed.      *)
LEMMA DestroyPaneSound ==
  ASSUME NEW r \in PaneRecords, WaiterSound(r)
  PROVE  Sound(DestroyPane(r))
<1> DEFINE c == Closed(r)
           d == [c EXCEPT !.drawn = TRUE]
<1>1. /\ c \in PaneRecords /\ PipeSound(c) /\ WaiterSound(c)
      /\ ~c.fd /\ c.ready = r.ready
  BY ClosedSound
<1> HIDE DEF c
<1>2. CASE ~r.ready
  BY <1>1, <1>2 DEF DestroyPane, c, Sound, ShownSound
<1>3. CASE r.ready /\ Stays(r)
  <2>1. /\ d \in PaneRecords
        /\ d.output = c.output /\ d.pipe = c.pipe /\ d.fd = c.fd
        /\ d.pid = c.pid /\ d.waiter = c.waiter /\ d.listed = c.listed
        /\ d.tells = c.tells /\ d.told = c.told /\ d.ready = c.ready
        /\ d.drawn
    BY <1>1 DEF PaneRecords
  <2>2. DestroyPane(r) = d
    BY <1>3 DEF DestroyPane, c
  <2>3. Sound(d)
    <3> HIDE DEF d
    <3> QED BY <1>1, <2>1 DEF Sound, PipeSound, WaiterSound, ShownSound
  <2> QED BY <2>2, <2>3
<1>4. CASE r.ready /\ ~Stays(r)
  BY <1>1, <1>4, DestroyedSound DEF DestroyPane, c
<1> QED BY <1>2, <1>3, <1>4

(* A pane that is settled is sound; the last conjunct of ShownSound is     *)
(* what it establishes.                                                    *)
LEMMA SettledSound ==
  ASSUME NEW r \in PaneRecords, PipeSound(r), WaiterSound(r),
         r.drawn => ~r.fd,
         ~DestroyReady(r) => (r.listed /\ r.ready => r.fd \/ r.drawn)
  PROVE  Sound(Settled(r))
<1>1. CASE DestroyReady(r)
  BY <1>1, DestroyPaneSound DEF Settled
<1>2. CASE ~DestroyReady(r)
  BY <1>2 DEF Settled, Sound, ShownSound
<1> QED BY <1>1, <1>2

(* server_child_signal: the pane takes the status and tells who waits,     *)
(* and whether or not its output had ended, it is shown or still open.     *)
LEMMA ExitedSound ==
  ASSUME NEW r, Sound(r), r.listed, r.pid # NoPid,
         status[r.pid] \in {"none", "zero", "failed"}
  PROVE  Sound(Exited(r))
<1> DEFINE e == [r EXCEPT !.status = status[r.pid], !.ready = TRUE, !.exited = TRUE]
           f == Finish(e)
<1>1. /\ e \in PaneRecords
      /\ e.ready /\ e.exited /\ e.listed /\ e.drawn = r.drawn
      /\ e.output = r.output /\ e.pipe = r.pipe /\ e.fd = r.fd /\ e.pid = r.pid
      /\ e.waiter = r.waiter /\ e.tells = r.tells /\ e.told = r.told
  BY DEF Sound, PaneRecords
<1> HIDE DEF e
<1>2. e.waiter # "none" => e.tells = 0
  BY <1>1 DEF Sound, WaiterSound
<1>3. e.told # "hup"
  BY <1>1 DEF Sound, WaiterSound
<1>4. /\ f \in PaneRecords
      /\ f.waiter = "none" /\ f.told # "hup" /\ f.ready /\ f.exited
      /\ f.drawn = e.drawn /\ f.listed = e.listed
      /\ f.output = e.output /\ f.pipe = e.pipe /\ f.fd = e.fd /\ f.pid = e.pid
  <2>1. CASE e.waiter = "none"
    BY <2>1, <1>1, <1>3 DEF Finish
  <2>2. CASE e.waiter # "none"
    <3>1. e.tells = 0 /\ e.status \in {"none", "zero", "failed"}
      BY <2>2, <1>1, <1>2 DEF PaneRecords
    <3> DEFINE t == IF e.waiter = "cancelled" THEN "none"
                    ELSE IF e.ready THEN e.status ELSE "hup"
               n == e.tells + 1
    <3>2. f = [e EXCEPT !.waiter = "none", !.tells = n, !.told = t]
      BY <2>2 DEF Finish
    <3>3. t \in {"none", "zero", "failed"} /\ n \in 0 .. 1
      BY <3>1, <1>1
    <3> HIDE DEF f, t, n
    <3> QED BY <3>2, <3>3, <1>1 DEF PaneRecords
  <2> QED BY <2>1, <2>2
<1> HIDE DEF f
<1>5. PipeSound(f) /\ WaiterSound(f) /\ (f.drawn => ~f.fd)
  BY <1>1, <1>4 DEF Sound, PipeSound, WaiterSound, ShownSound
<1>6. ~DestroyReady(f) => f.fd
  BY <1>1, <1>4, <1>5 DEF DestroyReady, PipeSound
<1>7. Sound(Settled(f))
  BY <1>4, <1>5, <1>6, SettledSound
<1> QED BY <1>7 DEF Exited, f, e
-----------------------------------------------------------------------------
(* What a step does to the other panes, to the jobs and to the processes.  *)

KernelOK ==
  /\ proc \in [Pids -> {"none", "running", "stopped", "suspended", "zombie", "reaped"}]
  /\ status \in [Pids -> {"none", "zero", "failed"}]
  /\ unread \in [Pids -> 0 .. MaxUnread]
  /\ hangup \in [Pids -> BOOLEAN]
  /\ started \in 0 .. MaxPids

(* What was reaped stays so with its status, and what was closed and read  *)
(* stays so.                                                               *)
KernelKeeps ==
  /\ started <= started'
  /\ \A i \in 1 .. started :
       /\ proc[i] = "reaped" => proc'[i] = "reaped" /\ status'[i] = status[i]
       /\ hangup[i] /\ unread[i] = 0 => hangup'[i] /\ unread'[i] = 0
NobodyReaped == \A i \in 1 .. started : proc'[i] = "reaped" => proc[i] = "reaped"
KernelSteps == KernelOK' /\ KernelKeeps /\ NobodyReaped

LEMMA PaneSteps ==
  ASSUME IInv, NEW p \in Panes, NEW x, Sound(x), pane' = [pane EXCEPT ![p] = x]
  PROVE  pane' \in [Panes -> PaneRecords] /\ PanesSound'
<1>1. pane \in [Panes -> PaneRecords] /\ PanesSound
  BY DEF IInv, TypeOK
<1>2. x \in PaneRecords
  BY DEF Sound
<1>3. \A q \in Panes : pane'[q] = IF q = p THEN x ELSE pane[q]
  BY <1>1
<1>4. pane' \in [Panes -> PaneRecords]
  BY <1>1, <1>2
<1>5. \A q \in Panes : Sound(pane'[q])
  BY <1>1, <1>3 DEF PanesSound
<1> QED BY <1>4, <1>5 DEF PanesSound, Sound, PipeSound, WaiterSound, ShownSound, PaneRecords

(* A job that does not change stays sound.                                 *)
LEMMA JobStays ==
  ASSUME NEW r \in JobRecords, KernelOK, KernelKeeps, KernelOK',
         JobSound(r, started, proc, status, unread, hangup),
         r.pid # NoPid => proc'[r.pid] # "reaped"
  PROVE  JobSound(r, started', proc', status', unread', hangup')
<1>1. r.process \in Nat /\ started \in Nat /\ started' \in Nat /\ NoPid = 0
  BY ChildrenAssumption DEF JobRecords, KernelOK, NoPid
<1>2. r.process <= started /\ started <= started'
  BY DEF JobSound, KernelKeeps
<1>3. r.process # NoPid => r.process \in 1 .. started
  BY <1>1, <1>2
<1>4. r.process <= started'
  BY <1>1, <1>2
<1> QED BY <1>3, <1>4 DEF JobSound, KernelKeeps

LEMMA JobsStay ==
  ASSUME IInv, KernelSteps, UNCHANGED job
  PROVE  job' \in [Jobs -> JobRecords] /\ JobsSound'
<1>1. job \in [Jobs -> JobRecords] /\ KernelOK
  BY ChildrenAssumption DEF IInv, TypeOK, KernelOK
<1> SUFFICES ASSUME NEW j \in Jobs
             PROVE  JobSound(job[j], started', proc', status', unread', hangup')
  BY <1>1 DEF JobsSound
<1>2. job[j] \in JobRecords /\ JobSound(job[j], started, proc, status, unread, hangup)
  BY <1>1 DEF IInv, JobsSound
<1>3. job[j].pid # NoPid => proc'[job[j].pid] # "reaped"
  <2> SUFFICES ASSUME job[j].pid # NoPid PROVE proc'[job[j].pid] # "reaped"
    OBVIOUS
  <2>1. job[j].pid = job[j].process /\ proc[job[j].pid] # "reaped" /\ job[j].process <= started
    BY <1>2 DEF JobSound
  <2>2. job[j].pid \in 0 .. MaxPids /\ started \in 0 .. MaxPids /\ NoPid = 0
    BY <1>1, <1>2 DEF JobRecords, KernelOK, NoPid
  <2>3. job[j].pid \in 1 .. started
    BY <2>1, <2>2, ChildrenAssumption
  <2> QED BY <2>1, <2>3 DEF KernelSteps, NobodyReaped
<1> QED BY <1>1, <1>2, <1>3, JobStays DEF KernelSteps

LEMMA JobSteps ==
  ASSUME IInv, KernelSteps, NEW j \in Jobs, NEW x \in JobRecords,
         JobSound(x, started', proc', status', unread', hangup'),
         job' = [job EXCEPT ![j] = x]
  PROVE  job' \in [Jobs -> JobRecords] /\ JobsSound'
<1>1. job \in [Jobs -> JobRecords] /\ KernelOK
  BY ChildrenAssumption DEF IInv, TypeOK, KernelOK
<1>2. job' \in [Jobs -> JobRecords] /\ \A k \in Jobs : job'[k] = IF k = j THEN x ELSE job[k]
  BY <1>1
<1> SUFFICES ASSUME NEW k \in Jobs
             PROVE  JobSound(job'[k], started', proc', status', unread', hangup')
  BY <1>2 DEF JobsSound
<1>3. CASE k = j
  BY <1>2, <1>3
<1>4. CASE k # j
  <2>1. job[k] \in JobRecords /\ JobSound(job[k], started, proc, status, unread, hangup)
    BY <1>1 DEF IInv, JobsSound
  <2>2. job[k].pid # NoPid => proc'[job[k].pid] # "reaped"
    <3> SUFFICES ASSUME job[k].pid # NoPid PROVE proc'[job[k].pid] # "reaped"
      OBVIOUS
    <3>1. job[k].pid = job[k].process /\ proc[job[k].pid] # "reaped" /\ job[k].process <= started
      BY <2>1 DEF JobSound
    <3>2. job[k].pid \in 0 .. MaxPids /\ started \in 0 .. MaxPids /\ NoPid = 0
      BY <1>1, <2>1 DEF JobRecords, KernelOK, NoPid
    <3>3. job[k].pid \in 1 .. started
      BY <3>1, <3>2, ChildrenAssumption
    <3> QED BY <3>1, <3>3 DEF KernelSteps, NobodyReaped
  <2> QED BY <1>1, <1>2, <1>4, <2>1, <2>2, JobStays DEF KernelSteps
<1> QED BY <1>3, <1>4

LEMMA SameKernel ==
  ASSUME IInv, UNCHANGED kernelVars
  PROVE  KernelSteps
BY ChildrenAssumption
DEF IInv, TypeOK, kernelVars, KernelSteps, KernelOK, KernelKeeps, NobodyReaped

LEMMA ForksSteps ==
  ASSUME IInv, Forks
  PROVE  KernelSteps /\ started' = NextPid /\ proc'[NextPid] = "running" /\ NextPid \in Pids
<1>1. KernelOK /\ MaxPids \in Nat
  BY ChildrenAssumption DEF IInv, TypeOK, KernelOK
<1>2. /\ started \in 0 .. MaxPids /\ started < MaxPids /\ started' = NextPid
      /\ NextPid = started + 1
      /\ proc' = [proc EXCEPT ![NextPid] = "running"]
      /\ UNCHANGED <<status, unread, hangup>>
  BY <1>1 DEF Forks, NextPid, KernelOK
<1>3. NextPid \in Pids /\ NextPid \in 0 .. MaxPids /\ started <= NextPid
  BY <1>1, <1>2 DEF Pids
<1>4. \A i \in 1 .. started : i \in Pids /\ i # NextPid
  BY <1>1, <1>2 DEF Pids
<1>5. \A i \in 1 .. started : proc'[i] = proc[i]
  BY <1>1, <1>2, <1>4 DEF KernelOK
<1>6. proc'[NextPid] = "running"
  BY <1>1, <1>2, <1>3 DEF KernelOK
<1>7. KernelOK'
  BY <1>1, <1>2, <1>3 DEF KernelOK
<1> QED BY <1>2, <1>3, <1>5, <1>6, <1>7 DEF KernelSteps, KernelKeeps, NobodyReaped

LEMMA Together ==
  ASSUME pane' \in [Panes -> PaneRecords], PanesSound',
         job' \in [Jobs -> JobRecords], JobsSound',
         KernelOK', events' \in 0 .. MaxEvents
  PROVE  IInv'
BY DEF IInv, TypeOK, KernelOK

LEMMA EventCounted ==
  ASSUME IInv, Event
  PROVE  events' \in 0 .. MaxEvents
BY ChildrenAssumption DEF IInv, TypeOK, Event
-----------------------------------------------------------------------------
(* Each operation of a pane keeps the invariant.                           *)

LEMMA PaneIsSound ==
  ASSUME IInv, NEW p \in Panes
  PROVE  Sound(pane[p])
BY DEF IInv, PanesSound

(* An operation that changes one pane and starts no process.               *)
LEMMA OnePane ==
  ASSUME IInv, NEW p \in Panes, NEW x, Sound(x), pane' = [pane EXCEPT ![p] = x],
         UNCHANGED <<job, kernelVars>>, events' \in 0 .. MaxEvents
  PROVE  IInv'
<1>1. KernelSteps
  BY SameKernel
<1> QED BY <1>1, PaneSteps, JobsStay, Together DEF KernelSteps

(* One that starts the process of a pane.                                  *)
LEMMA OnePaneForks ==
  ASSUME IInv, NEW p \in Panes, NEW x, Sound(x), pane' = [pane EXCEPT ![p] = x],
         UNCHANGED job, Forks, events' \in 0 .. MaxEvents
  PROVE  IInv'
<1>1. KernelSteps
  BY ForksSteps
<1> QED BY <1>1, PaneSteps, JobsStay, Together DEF KernelSteps

(* spawn_pane: whatever the pane was, its new process has not ended.       *)
LEMMA SpawnedSound ==
  ASSUME NEW r \in PaneRecords, WaiterSound(r), r.output => r.pipe, NEW i \in Pids
  PROVE  Sound(Spawned(r, i))
<1> DEFINE x == Spawned(r, i)
<1>1. i \in 0 .. MaxPids
  BY ChildrenAssumption DEF Pids
<1>2. /\ x \in PaneRecords
      /\ x.fd /\ ~x.ready /\ ~x.drawn
      /\ x.output = r.output /\ x.pipe = r.pipe /\ x.waiter = r.waiter
      /\ x.listed = r.listed /\ x.tells = r.tells /\ x.told = r.told
  BY <1>1 DEF Spawned, PaneRecords
<1> HIDE DEF x
<1>3. Sound(x)
  BY <1>2 DEF Sound, PipeSound, WaiterSound, ShownSound
<1> QED BY <1>3 DEF x

LEMMA SpawnedEmptySound ==
  ASSUME NEW r \in PaneRecords, WaiterSound(r), r.output => r.pipe
  PROVE  Sound(SpawnedEmpty(r))
<1> DEFINE x == SpawnedEmpty(r)
<1>1. NoPid \in 0 .. MaxPids
  BY ChildrenAssumption DEF NoPid
<1>2. /\ x \in PaneRecords
      /\ x.pid = NoPid /\ ~x.ready /\ ~x.drawn
      /\ x.output = r.output /\ x.pipe = r.pipe /\ x.waiter = r.waiter
      /\ x.listed = r.listed /\ x.tells = r.tells /\ x.told = r.told
  BY <1>1 DEF SpawnedEmpty, PaneRecords
<1> HIDE DEF x
<1>3. Sound(x)
  BY <1>2 DEF Sound, PipeSound, WaiterSound, ShownSound
<1> QED BY <1>3 DEF x

LEMMA EmptiedSound ==
  ASSUME NEW r, Sound(r)
  PROVE  /\ Emptied(r) \in PaneRecords /\ WaiterSound(Emptied(r))
         /\ Emptied(r).output => Emptied(r).pipe
         /\ Sound([Emptied(r) EXCEPT !.pid = NoPid, !.empty = FALSE])
<1> DEFINE e == Emptied(r)
           x == [e EXCEPT !.pid = NoPid, !.empty = FALSE]
<1>1. NoPid \in 0 .. MaxPids
  BY ChildrenAssumption DEF NoPid
<1>2. /\ e \in PaneRecords
      /\ ~e.fd /\ ~e.ready /\ ~e.drawn
      /\ e.output = r.output /\ e.pipe = r.pipe /\ e.waiter = r.waiter
      /\ e.listed = r.listed /\ e.tells = r.tells /\ e.told = r.told
  BY DEF Emptied, Sound, PaneRecords
<1> HIDE DEF e
<1>3. /\ x \in PaneRecords
      /\ x.pid = NoPid /\ x.ready = e.ready /\ x.drawn = e.drawn
      /\ x.output = e.output /\ x.pipe = e.pipe /\ x.waiter = e.waiter
      /\ x.listed = e.listed /\ x.tells = e.tells /\ x.told = e.told
  BY <1>1, <1>2 DEF PaneRecords
<1> HIDE DEF x
<1>4. WaiterSound(e) /\ (e.output => e.pipe)
  BY <1>2 DEF Sound, PipeSound, WaiterSound
<1>5. Sound(x)
  BY <1>2, <1>3, <1>4 DEF Sound, PipeSound, WaiterSound, ShownSound
<1> QED BY <1>2, <1>4, <1>5 DEF e, x

LEMMA SpawnPaneSteps ==
  ASSUME IInv, NEW p \in Panes, NEW w \in {"none", "item", "editor"}, NEW m \in Remains,
         SpawnPane(p, w, m)
  PROVE  IInv'
<1> DEFINE s == Spawned(Absent, NextPid)
           n == IF w = "editor" THEN "off" ELSE m
           x == [s EXCEPT !.listed = TRUE, !.waiter = w, !.remain = n]
<1>1. pane[p] = Absent /\ Forks /\ UNCHANGED <<job, events>>
  BY DEF SpawnPane
<1>2. pane' = [pane EXCEPT ![p] = x]
  BY <1>1 DEF SpawnPane
<1>3. n \in Remains \cup {"off"}
  OBVIOUS
<1>4. NextPid \in 0 .. MaxPids
  BY <1>1, ForksSteps, ChildrenAssumption DEF Pids
<1>5. /\ s \in PaneRecords
      /\ s.fd /\ ~s.ready /\ ~s.drawn /\ ~s.output /\ s.told = "none" /\ s.tells = 0
  BY <1>4, AbsentPane, ZenonT(30) DEF Spawned, PaneRecords
<1> HIDE DEF s, n
<1>6. /\ x \in PaneRecords
      /\ x.fd = s.fd /\ x.ready = s.ready /\ x.drawn = s.drawn /\ x.output = s.output
      /\ x.told = s.told /\ x.tells = s.tells /\ x.listed
  BY <1>3, <1>5 DEF PaneRecords
<1> HIDE DEF x
<1>7. Sound(x)
  BY <1>5, <1>6 DEF Sound, PipeSound, WaiterSound, ShownSound
<1>8. events' \in 0 .. MaxEvents
  BY <1>1 DEF IInv, TypeOK
<1> QED BY <1>1, <1>2, <1>7, <1>8, OnePaneForks

LEMMA SpawnEmptyPaneSteps ==
  ASSUME IInv, NEW p \in Panes, NEW m \in Remains, SpawnEmptyPane(p, m)
  PROVE  IInv'
<1> DEFINE s == SpawnedEmpty(Absent)
           x == [s EXCEPT !.listed = TRUE, !.remain = m]
<1>1. pane[p] = Absent /\ Event /\ UNCHANGED <<job, kernelVars>>
  BY DEF SpawnEmptyPane
<1>2. pane' = [pane EXCEPT ![p] = x]
  BY <1>1 DEF SpawnEmptyPane
<1>0. NoPid \in 0 .. MaxPids
  BY ChildrenAssumption DEF NoPid
<1>3. /\ s \in PaneRecords
      /\ s.pid = NoPid /\ ~s.ready /\ ~s.drawn /\ ~s.output
      /\ s.told = "none" /\ s.waiter = "none"
  BY <1>0, AbsentPane, ZenonT(30) DEF SpawnedEmpty, PaneRecords
<1> HIDE DEF s
<1>4. /\ x \in PaneRecords
      /\ x.pid = s.pid /\ x.ready = s.ready /\ x.drawn = s.drawn /\ x.output = s.output
      /\ x.told = s.told /\ x.waiter = s.waiter
  BY <1>3 DEF PaneRecords
<1> HIDE DEF x
<1>5. Sound(x)
  BY <1>3, <1>4 DEF Sound, PipeSound, WaiterSound, ShownSound
<1> QED BY <1>1, <1>2, <1>5, EventCounted, OnePane

LEMMA RespawnPaneSteps ==
  ASSUME IInv, NEW p \in Panes, NEW kill \in BOOLEAN, RespawnPane(p, kill)
  PROVE  IInv'
<1> DEFINE e == Emptied(pane[p])
<1>1. UNCHANGED job /\ events' \in 0 .. MaxEvents
  BY EventCounted DEF RespawnPane
<1>2. /\ e \in PaneRecords /\ WaiterSound(e) /\ (e.output => e.pipe)
      /\ Sound([e EXCEPT !.pid = NoPid, !.empty = FALSE])
  BY PaneIsSound, EmptiedSound
<1>3. CASE Forks /\ pane' = [pane EXCEPT ![p] = Spawned(e, NextPid)]
  <2>1. NextPid \in Pids
    BY <1>3, ForksSteps
  <2> QED BY <1>1, <1>2, <1>3, <2>1, SpawnedSound, OnePaneForks
<1>4. CASE pane' = [pane EXCEPT ![p] = SpawnedEmpty(e)] /\ UNCHANGED kernelVars
  BY <1>1, <1>2, <1>4, SpawnedEmptySound, OnePane
<1>5. CASE /\ pane' = [pane EXCEPT ![p] = [e EXCEPT !.pid = NoPid, !.empty = FALSE]]
           /\ UNCHANGED kernelVars
  BY <1>1, <1>2, <1>5, OnePane
<1> QED BY <1>3, <1>4, <1>5 DEF RespawnPane

LEMMA RespawnWindowSteps ==
  ASSUME IInv, NEW p \in Panes, RespawnWindow(p)
  PROVE  IInv'
<1> DEFINE e == Emptied(pane[p])
           x(q) == IF q = p THEN Spawned(e, NextPid)
                   ELSE IF pane[q].listed THEN Destroyed(pane[q]) ELSE pane[q]
<1>1. Forks /\ UNCHANGED job /\ events' \in 0 .. MaxEvents
  BY EventCounted DEF RespawnWindow
<1>2. KernelSteps /\ NextPid \in Pids
  BY <1>1, ForksSteps
<1>3. pane' = [q \in Panes |-> x(q)]
  BY DEF RespawnWindow
<1>4. ASSUME NEW q \in Panes PROVE Sound(x(q))
  <2>1. e \in PaneRecords /\ WaiterSound(e) /\ (e.output => e.pipe)
    BY PaneIsSound, EmptiedSound
  <2>2. Sound(Spawned(e, NextPid))
    BY <1>2, <2>1, SpawnedSound
  <2>3. Sound(pane[q])
    BY PaneIsSound
  <2>4. Sound(Destroyed(pane[q]))
    BY <2>3, DestroyedSound DEF Sound
  <2> QED BY <2>2, <2>3, <2>4
<1> HIDE DEF x
<1>5. \A q \in Panes : x(q) \in PaneRecords
  BY <1>4 DEF Sound
<1>6. pane' \in [Panes -> PaneRecords]
  BY <1>3, <1>5
<1>7. \A q \in Panes : Sound(pane'[q])
  BY <1>3, <1>4
<1>8. PanesSound'
  BY <1>7 DEF PanesSound, Sound, PipeSound, WaiterSound, ShownSound, PaneRecords
<1> QED BY <1>1, <1>2, <1>6, <1>8, JobsStay, Together DEF KernelSteps

LEMMA KillPaneSteps ==
  ASSUME IInv, NEW p \in Panes, KillPane(p)
  PROVE  IInv'
<1>1. Sound(Destroyed(pane[p]))
  BY PaneIsSound, DestroyedSound DEF Sound
<1> QED BY <1>1, EventCounted, OnePane DEF KillPane

LEMMA DeadKeySteps ==
  ASSUME IInv, NEW p \in Panes, DeadKey(p)
  PROVE  IInv'
<1> DEFINE r == pane[p]
           x == [r EXCEPT !.remain = "off"]
<1>1. Sound(r)
  BY PaneIsSound
<1> HIDE DEF r
<1>2. /\ x \in PaneRecords
      /\ x.waiter = r.waiter /\ x.listed = r.listed /\ x.tells = r.tells
      /\ x.told = r.told /\ x.ready = r.ready
  BY <1>1 DEF Sound, PaneRecords
<1> HIDE DEF x
<1>3. WaiterSound(x)
  BY <1>1, <1>2 DEF Sound, WaiterSound
<1>4. Sound(DestroyPane(x))
  BY <1>2, <1>3, DestroyPaneSound
<1>5. pane' = [pane EXCEPT ![p] = DestroyPane(x)]
  BY DEF DeadKey, x, r
<1> QED BY <1>4, <1>5, EventCounted, OnePane DEF DeadKey

LEMMA CancelEditorSteps ==
  ASSUME IInv, NEW p \in Panes, CancelEditor(p)
  PROVE  IInv'
<1> DEFINE r == pane[p]
           x == [r EXCEPT !.waiter = "cancelled"]
<1>1. Sound(r) /\ r.waiter = "editor"
  BY PaneIsSound DEF CancelEditor
<1> HIDE DEF r
<1>2. /\ x \in PaneRecords
      /\ x.fd = r.fd /\ x.pid = r.pid /\ x.pipe = r.pipe /\ x.output = r.output
      /\ x.listed = r.listed /\ x.tells = r.tells /\ x.drawn = r.drawn
      /\ x.told = r.told /\ x.ready = r.ready
  BY <1>1 DEF Sound, PaneRecords
<1> HIDE DEF x
<1>3. Sound(x)
  BY <1>1, <1>2 DEF Sound, PipeSound, WaiterSound, ShownSound
<1>4. pane' = [pane EXCEPT ![p] = x]
  BY DEF CancelEditor, x, r
<1> QED BY <1>3, <1>4, EventCounted, OnePane DEF CancelEditor

(* A sound pane, or one of which the pipe was written or closed or the     *)
(* output ended, is sound when it is settled.                              *)
LEMMA SoundSettles ==
  ASSUME NEW r, Sound(r)
  PROVE  Sound(Settled(r))
BY SettledSound DEF Sound, ShownSound

LEMMA PipeGoesSound ==
  ASSUME NEW r, Sound(r), NEW b \in BOOLEAN, ~b \/ (r.pipe /\ r.fd)
  PROVE  /\ Sound([r EXCEPT !.output = FALSE])
         /\ Sound([r EXCEPT !.pipe = FALSE, !.output = FALSE])
         /\ Sound([r EXCEPT !.exited = TRUE])
         /\ Sound([r EXCEPT !.output = b])
<1>1. SUFFICES ASSUME NEW x, x \in PaneRecords,
                      x.fd = r.fd, x.pid = r.pid, x.listed = r.listed, x.ready = r.ready,
                      x.waiter = r.waiter, x.tells = r.tells, x.told = r.told,
                      x.drawn = r.drawn, x.pipe => r.pipe,
                      x.output => x.pipe
               PROVE  Sound(x)
  <2>1. r \in PaneRecords /\ (r.output => r.pipe)
    BY DEF Sound, PipeSound
  <2> DEFINE w == [r EXCEPT !.output = FALSE]
             c == [r EXCEPT !.pipe = FALSE, !.output = FALSE]
             e == [r EXCEPT !.exited = TRUE]
             o == [r EXCEPT !.output = b]
  <2>2. Sound(w)
    <3>1. w \in PaneRecords /\ w.fd = r.fd /\ w.pid = r.pid /\ w.listed = r.listed
          /\ w.ready = r.ready /\ w.waiter = r.waiter /\ w.tells = r.tells
          /\ w.told = r.told /\ w.drawn = r.drawn /\ w.pipe = r.pipe /\ ~w.output
      BY <2>1 DEF PaneRecords
    <3> HIDE DEF w
    <3> QED BY <3>1, <1>1
  <2>3. Sound(c)
    <3>1. c \in PaneRecords /\ c.fd = r.fd /\ c.pid = r.pid /\ c.listed = r.listed
          /\ c.ready = r.ready /\ c.waiter = r.waiter /\ c.tells = r.tells
          /\ c.told = r.told /\ c.drawn = r.drawn /\ ~c.pipe /\ ~c.output
      BY <2>1 DEF PaneRecords
    <3> HIDE DEF c
    <3> QED BY <3>1, <1>1
  <2>4. Sound(e)
    <3>1. e \in PaneRecords /\ e.fd = r.fd /\ e.pid = r.pid /\ e.listed = r.listed
          /\ e.ready = r.ready /\ e.waiter = r.waiter /\ e.tells = r.tells
          /\ e.told = r.told /\ e.drawn = r.drawn /\ e.pipe = r.pipe
          /\ e.output = r.output
      BY <2>1 DEF PaneRecords
    <3> HIDE DEF e
    <3> QED BY <2>1, <3>1, <1>1
  <2>5. Sound(o)
    <3>1. o \in PaneRecords /\ o.fd = r.fd /\ o.pid = r.pid /\ o.listed = r.listed
          /\ o.ready = r.ready /\ o.waiter = r.waiter /\ o.tells = r.tells
          /\ o.told = r.told /\ o.drawn = r.drawn /\ o.pipe = r.pipe /\ o.output = b
      BY <2>1 DEF PaneRecords
    <3> HIDE DEF o
    <3> QED BY <3>1, <1>1
  <2> QED BY <2>2, <2>3, <2>4, <2>5
<1> QED BY <1>1 DEF Sound, PipeSound, WaiterSound, ShownSound

LEMMA PipePaneSteps ==
  ASSUME IInv, NEW p \in Panes, NEW open \in BOOLEAN, PipePane(p, open)
  PROVE  IInv'
<1> DEFINE r == pane[p]
           c == [r EXCEPT !.pipe = FALSE, !.output = FALSE]
           x == [c EXCEPT !.pipe = open]
<1>1. Sound(r) /\ r.fd /\ UNCHANGED <<job, kernelVars>> /\ events' \in 0 .. MaxEvents
  BY PaneIsSound, EventCounted DEF PipePane
<1>2. pane' = [pane EXCEPT ![p] = IF r.pipe /\ DestroyReady(c) THEN DestroyPane(c) ELSE x]
  BY DEF PipePane
<1>3. Sound(c)
  BY <1>1, PipeGoesSound
<1>4. Sound(DestroyPane(c))
  BY <1>3, DestroyPaneSound DEF Sound
<1>5. c.fd /\ ~c.output
  BY <1>1 DEF Sound, PaneRecords
<1> HIDE DEF r, c
<1>6. /\ x \in PaneRecords
      /\ x.fd = c.fd /\ x.pid = c.pid /\ x.listed = c.listed /\ x.ready = c.ready
      /\ x.waiter = c.waiter /\ x.tells = c.tells /\ x.told = c.told
      /\ x.drawn = c.drawn /\ x.output = c.output
  BY <1>3 DEF Sound, PaneRecords
<1> HIDE DEF x
<1>7. Sound(x)
  BY <1>3, <1>5, <1>6 DEF Sound, PipeSound, WaiterSound, ShownSound
<1>8. CASE r.pipe /\ DestroyReady(c)
  <2>1. pane' = [pane EXCEPT ![p] = DestroyPane(c)]
    BY <1>2, <1>8
  <2> QED BY <1>1, <1>4, <2>1, OnePane
<1>9. CASE ~(r.pipe /\ DestroyReady(c))
  <2>1. pane' = [pane EXCEPT ![p] = x]
    BY <1>2, <1>9
  <2> QED BY <1>1, <1>7, <2>1, OnePane
<1> QED BY <1>8, <1>9

LEMMA ReadSteps ==
  ASSUME IInv, NEW p \in Panes, Read(p)
  PROVE  IInv'
<1> DEFINE r == pane[p]
           x == [r EXCEPT !.output = r.pipe]
<1>1. Sound(r) /\ r.fd /\ UNCHANGED <<job, proc, status, hangup, started, events>>
  BY PaneIsSound DEF Read
<1>2. pane' = [pane EXCEPT ![p] = x] /\ unread' = [unread EXCEPT ![r.pid] = 0]
  BY DEF Read
<1>3. r.pipe \in BOOLEAN
  BY <1>1 DEF Sound, PaneRecords
<1>4. Sound(x)
  <2> HIDE DEF r
  <2> QED BY <1>1, <1>3, PipeGoesSound
<1>5. KernelSteps
  <2>1. KernelOK /\ 0 \in 0 .. MaxUnread
    BY ChildrenAssumption DEF IInv, TypeOK, KernelOK
  <2>2. /\ unread' \in [Pids -> 0 .. MaxUnread]
        /\ \A i \in Pids : unread[i] = 0 => unread'[i] = 0
    BY <1>2, <2>1 DEF KernelOK
  <2>3. \A i \in 1 .. started : i \in Pids
    BY <2>1, ChildrenAssumption DEF KernelOK, Pids
  <2> QED BY <1>1, <2>1, <2>2, <2>3 DEF KernelOK, KernelSteps, KernelKeeps, NobodyReaped
<1>6. events' \in 0 .. MaxEvents
  BY <1>1 DEF IInv, TypeOK
<1> QED BY <1>1, <1>2, <1>4, <1>5, <1>6, PaneSteps, JobsStay, Together DEF KernelSteps

LEMMA EofSteps ==
  ASSUME IInv, NEW p \in Panes, Eof(p)
  PROVE  IInv'
<1>1. Sound([pane[p] EXCEPT !.exited = TRUE])
  BY PaneIsSound, PipeGoesSound
<1>2. events' \in 0 .. MaxEvents
  BY DEF IInv, TypeOK, Eof
<1> QED BY <1>1, <1>2, SoundSettles, OnePane DEF Eof

LEMMA PipeWrittenSteps ==
  ASSUME IInv, NEW p \in Panes, PipeWritten(p)
  PROVE  IInv'
<1>1. Sound([pane[p] EXCEPT !.output = FALSE])
  BY PaneIsSound, PipeGoesSound
<1>2. events' \in 0 .. MaxEvents
  BY DEF IInv, TypeOK, PipeWritten
<1> QED BY <1>1, <1>2, SoundSettles, OnePane DEF PipeWritten

LEMMA PipeReadSteps ==
  ASSUME IInv, NEW p \in Panes, PipeRead(p)
  PROVE  IInv'
<1>1. Sound(Settled(pane[p]))
  BY PaneIsSound, SoundSettles
<1>2. events' \in 0 .. MaxEvents
  BY DEF IInv, TypeOK, PipeRead
<1> QED BY <1>1, <1>2, OnePane DEF PipeRead

LEMMA PipeClosedSteps ==
  ASSUME IInv, NEW p \in Panes, PipeClosed(p)
  PROVE  IInv'
<1>1. Sound([pane[p] EXCEPT !.pipe = FALSE, !.output = FALSE])
  BY PaneIsSound, PipeGoesSound
<1>2. events' \in 0 .. MaxEvents
  BY DEF IInv, TypeOK, PipeClosed
<1> QED BY <1>1, <1>2, SoundSettles, OnePane DEF PipeClosed
-----------------------------------------------------------------------------
(* Each operation of a job keeps the invariant.                            *)

LEMMA JobIsSound ==
  ASSUME IInv, NEW j \in Jobs
  PROVE  /\ job[j] \in JobRecords
         /\ JobSound(job[j], started, proc, status, unread, hangup)
BY DEF IInv, TypeOK, JobsSound

LEMMA PanesStay ==
  ASSUME IInv, UNCHANGED pane
  PROVE  pane' \in [Panes -> PaneRecords] /\ PanesSound'
BY DEF IInv, TypeOK, PanesSound, Sound, PipeSound, WaiterSound, ShownSound, PaneRecords

LEMMA OneJob ==
  ASSUME IInv, NEW j \in Jobs, NEW x \in JobRecords,
         JobSound(x, started, proc, status, unread, hangup),
         job' = [job EXCEPT ![j] = x],
         UNCHANGED <<pane, kernelVars>>, events' \in 0 .. MaxEvents
  PROVE  IInv'
<1>1. KernelSteps
  BY SameKernel
<1>2. JobSound(x, started', proc', status', unread', hangup')
  BY DEF kernelVars
<1> QED BY <1>1, <1>2, JobSteps, PanesStay, Together DEF KernelSteps

(* job_run: the new job records a process that has not been reaped.        *)
LEMMA JobForks ==
  ASSUME IInv, NEW j \in Jobs, NEW kind \in {"command", "format"}, Forks,
         job' = [job EXCEPT ![j] = Running(kind)],
         UNCHANGED pane, events' \in 0 .. MaxEvents
  PROVE  IInv'
<1> DEFINE x == Running(kind)
<1>1. KernelSteps /\ started' = NextPid /\ proc'[NextPid] = "running" /\ NextPid \in Pids
  BY ForksSteps
<1>2. NextPid \in 0 .. MaxPids /\ NextPid # NoPid /\ NoPid \in 0 .. MaxPids
  BY <1>1, ChildrenAssumption DEF Pids, NoPid
<1>3. NoJob \in JobRecords /\ NoJob.calls = 0
  BY <1>2 DEF NoJob, JobRecords
<1>4. /\ x \in JobRecords
      /\ x.state = "running" /\ x.pid = NextPid /\ x.process = NextPid
      /\ x.calls = NoJob.calls
  BY <1>2, <1>3 DEF Running, JobRecords
<1> HIDE DEF x
<1>5. NextPid <= started' /\ ~Calling(x)
  BY <1>1, <1>2, <1>3, <1>4, ChildrenAssumption DEF Calling
<1>6. JobSound(x, started', proc', status', unread', hangup')
  BY <1>1, <1>2, <1>4, <1>5 DEF JobSound
<1>7. job' = [job EXCEPT ![j] = x]
  BY DEF x
<1> QED BY <1>1, <1>4, <1>6, <1>7, JobSteps, PanesStay, Together DEF KernelSteps

LEMMA JobRunSteps ==
  ASSUME IInv, NEW j \in Jobs, NEW kind \in {"command", "format"}, JobRun(j, kind)
  PROVE  IInv'
<1>1. events' \in 0 .. MaxEvents
  BY DEF IInv, TypeOK, JobRun
<1> QED BY <1>1, JobForks DEF JobRun

LEMMA FormatJobSteps ==
  ASSUME IInv, NEW j \in Jobs, FormatJob(j)
  PROVE  IInv'
BY EventCounted, JobForks DEF FormatJob

(* job_free: a job that is freed has no pid, and keeps what it was told.   *)
LEMMA FreedSound ==
  ASSUME NEW r \in JobRecords, NEW n, NEW k, NEW st, NEW un, NEW h,
         r.process <= n,
         Calling(r) => /\ r.process # NoPid
                       /\ k[r.process] = "reaped" /\ r.status = st[r.process]
                       /\ h[r.process] /\ un[r.process] = 0
  PROVE  Freed(r) \in JobRecords /\ JobSound(Freed(r), n, k, st, un, h)
<1> DEFINE x == Freed(r)
<1>1. NoPid \in 0 .. MaxPids
  BY ChildrenAssumption DEF NoPid
<1>2. /\ x \in JobRecords
      /\ x.state = "freed" /\ x.pid = NoPid
      /\ x.process = r.process /\ x.calls = r.calls /\ x.status = r.status
  BY <1>1 DEF Freed, JobRecords
<1> HIDE DEF x
<1>3. Calling(x) <=> Calling(r)
  BY <1>2 DEF Calling
<1>4. JobSound(x, n, k, st, un, h)
  BY <1>2, <1>3 DEF JobSound
<1> QED BY <1>2, <1>4 DEF x

LEMMA FormatTidySteps ==
  ASSUME IInv, NEW j \in Jobs, FormatTidy(j)
  PROVE  IInv'
<1>1. /\ Freed(job[j]) \in JobRecords
      /\ JobSound(Freed(job[j]), started, proc, status, unread, hangup)
  BY JobIsSound, FreedSound DEF JobSound
<1> QED BY <1>1, EventCounted, OneJob DEF FormatTidy

(* The callback: it has not been called, and all is known of the process.  *)
LEMMA CompleteSound ==
  ASSUME NEW r \in JobRecords, ~Calling(r), NEW n, NEW k, NEW st, NEW un, NEW h,
         r.process <= n, r.process # NoPid,
         k[r.process] = "reaped", r.status = st[r.process],
         h[r.process], un[r.process] = 0
  PROVE  Complete(r) \in JobRecords /\ JobSound(Complete(r), n, k, st, un, h)
<1> DEFINE x == [r EXCEPT !.calls = @ + 1]
<1>1. r.calls = 0
  BY DEF JobRecords, Calling
<1>2. /\ x \in JobRecords
      /\ x.process = r.process /\ x.status = r.status
  BY <1>1 DEF JobRecords
<1> HIDE DEF x
<1>3. Freed(x) \in JobRecords /\ JobSound(Freed(x), n, k, st, un, h)
  BY <1>2, FreedSound
<1> QED BY <1>3 DEF Complete, x

LEMMA JobReadSteps ==
  ASSUME IInv, NEW j \in Jobs, JobRead(j)
  PROVE  IInv'
<1>1. /\ UNCHANGED <<pane, job, proc, status, hangup, started, events>>
      /\ unread' = [unread EXCEPT ![job[j].process] = 0]
  BY DEF JobRead
<1>2. KernelOK /\ 0 \in 0 .. MaxUnread
  BY ChildrenAssumption DEF IInv, TypeOK, KernelOK
<1>3. /\ unread' \in [Pids -> 0 .. MaxUnread]
      /\ \A i \in Pids : unread[i] = 0 => unread'[i] = 0
  BY <1>1, <1>2 DEF KernelOK
<1>4. \A i \in 1 .. started : i \in Pids
  BY <1>2, ChildrenAssumption DEF KernelOK, Pids
<1>5. KernelSteps
  BY <1>1, <1>2, <1>3, <1>4 DEF KernelOK, KernelSteps, KernelKeeps, NobodyReaped
<1>6. events' \in 0 .. MaxEvents
  BY <1>1 DEF IInv, TypeOK
<1> QED BY <1>1, <1>5, <1>6, PanesStay, JobsStay, Together DEF KernelSteps

(* job_error_callback: a job that has been reaped calls back, another is   *)
(* closed with its output read.                                            *)
LEMMA JobEofSteps ==
  ASSUME IInv, NEW j \in Jobs, JobEof(j)
  PROVE  IInv'
<1> DEFINE r == job[j]
           c == [r EXCEPT !.state = "closed"]
<1>1. r \in JobRecords /\ JobSound(r, started, proc, status, unread, hangup)
  BY JobIsSound
<1>2. /\ r.state \in {"running", "dead"} /\ hangup[r.process] /\ unread[r.process] = 0
      /\ UNCHANGED <<pane, kernelVars>>
  BY DEF JobEof
<1>3. job' = [job EXCEPT ![j] = JobClosed(r)]
  BY DEF JobEof
<1>4. events' \in 0 .. MaxEvents
  BY DEF IInv, TypeOK, JobEof
<1> HIDE DEF r
<1>5. CASE r.state = "dead"
  <2>1. /\ ~Calling(r) /\ r.process # NoPid /\ r.process <= started
        /\ proc[r.process] = "reaped" /\ r.status = status[r.process]
    BY <1>1, <1>5 DEF JobSound
  <2>2. /\ Complete(r) \in JobRecords
        /\ JobSound(Complete(r), started, proc, status, unread, hangup)
    BY <1>1, <1>2, <2>1, CompleteSound
  <2>3. JobClosed(r) = Complete(r)
    BY <1>5 DEF JobClosed
  <2> QED BY <1>2, <1>3, <1>4, <2>2, <2>3, OneJob
<1>6. CASE r.state # "dead"
  <2>1. /\ c \in JobRecords
        /\ c.state = "closed" /\ c.pid = r.pid /\ c.process = r.process
        /\ c.calls = r.calls /\ c.status = r.status
    BY <1>1 DEF JobRecords
  <2> HIDE DEF c
  <2>2. ~Calling(r) /\ r.state = "running"
    BY <1>1, <1>2, <1>6 DEF JobSound
  <2>3. ~Calling(c)
    BY <2>1, <2>2 DEF Calling
  <2>4. JobSound(c, started, proc, status, unread, hangup)
    BY <1>1, <1>2, <2>1, <2>2, <2>3 DEF JobSound
  <2>5. JobClosed(r) = c
    BY <1>6 DEF JobClosed, c
  <2> QED BY <1>2, <1>3, <1>4, <2>1, <2>4, <2>5, OneJob
<1> QED BY <1>5, <1>6
-----------------------------------------------------------------------------
(* The processes, and the signal of their death.                           *)

LEMMA ProcessOnly ==
  ASSUME IInv, KernelSteps, UNCHANGED <<pane, job>>, events' \in 0 .. MaxEvents
  PROVE  IInv'
BY PanesStay, JobsStay, Together DEF KernelSteps

LEMMA KernelTyped ==
  ASSUME IInv
  PROVE  /\ KernelOK /\ events \in 0 .. MaxEvents
         /\ \A i \in 1 .. started : i \in Pids
BY ChildrenAssumption DEF IInv, TypeOK, KernelOK, Pids

LEMMA WriteSteps ==
  ASSUME IInv, NEW i \in Pids, Write(i)
  PROVE  IInv'
<1>1. /\ ~hangup[i] /\ unread[i] < MaxUnread
      /\ unread' = [unread EXCEPT ![i] = @ + 1]
      /\ UNCHANGED <<pane, job, proc, status, hangup, started, events>>
  BY DEF Write
<1>2. unread[i] \in 0 .. MaxUnread /\ MaxUnread \in Nat
  BY KernelTyped, ChildrenAssumption DEF KernelOK
<1>3. unread[i] + 1 \in 0 .. MaxUnread
  BY <1>1, <1>2
<1>4. /\ unread' \in [Pids -> 0 .. MaxUnread]
      /\ \A k \in Pids : k # i => unread'[k] = unread[k]
  BY <1>1, <1>3, KernelTyped DEF KernelOK
<1>5. KernelSteps
  BY <1>1, <1>4, KernelTyped DEF KernelOK, KernelSteps, KernelKeeps, NobodyReaped
<1> QED BY <1>1, <1>5, KernelTyped, ProcessOnly

LEMMA CloseOutputSteps ==
  ASSUME IInv, NEW i \in Pids, CloseOutput(i)
  PROVE  IInv'
<1>1. /\ hangup' = [hangup EXCEPT ![i] = TRUE]
      /\ UNCHANGED <<pane, job, proc, status, unread, started, events>>
  BY DEF CloseOutput
<1>2. hangup' \in [Pids -> BOOLEAN] /\ \A k \in Pids : hangup[k] => hangup'[k]
  BY <1>1, KernelTyped DEF KernelOK
<1>3. KernelSteps
  BY <1>1, <1>2, KernelTyped DEF KernelOK, KernelSteps, KernelKeeps, NobodyReaped
<1> QED BY <1>1, <1>3, KernelTyped, ProcessOnly

LEMMA StopSteps ==
  ASSUME IInv, NEW i \in Pids, Stop(i)
  PROVE  IInv'
<1>1. /\ proc[i] = "running"
      /\ proc' = [proc EXCEPT ![i] = "stopped"]
      /\ UNCHANGED <<pane, job, status, unread, hangup, started>>
  BY DEF Stop
<1>2. proc' \in [Pids -> {"none", "running", "stopped", "suspended", "zombie", "reaped"}]
  BY <1>1, KernelTyped DEF KernelOK
<1>3. \A k \in Pids : proc'[k] = "reaped" <=> proc[k] = "reaped"
  BY <1>1, KernelTyped DEF KernelOK
<1>4. KernelSteps
  BY <1>1, <1>2, <1>3, KernelTyped DEF KernelOK, KernelSteps, KernelKeeps, NobodyReaped
<1>5. events' \in 0 .. MaxEvents
  BY EventCounted DEF Stop
<1> QED BY <1>1, <1>4, <1>5, ProcessOnly

LEMMA DieSteps ==
  ASSUME IInv, NEW i \in Pids, NEW st \in {"zero", "failed"}, Die(i, st)
  PROVE  IInv'
<1>1. /\ proc[i] \in {"running", "suspended"}
      /\ proc' = [proc EXCEPT ![i] = "zombie"]
      /\ status' = [status EXCEPT ![i] = st]
      /\ hangup' = [hangup EXCEPT ![i] = @ \/ OfPane(i)]
      /\ UNCHANGED <<pane, job, unread, started, events>>
  BY DEF Die
<1>2. proc' \in [Pids -> {"none", "running", "stopped", "suspended", "zombie", "reaped"}]
  BY <1>1, KernelTyped DEF KernelOK
<1>3. \A k \in Pids : proc'[k] = "reaped" <=> proc[k] = "reaped"
  BY <1>1, KernelTyped DEF KernelOK
<1>4. status' \in [Pids -> {"none", "zero", "failed"}]
  BY <1>1, KernelTyped DEF KernelOK
<1>5. \A k \in Pids : proc[k] = "reaped" => status'[k] = status[k]
  BY <1>1, KernelTyped DEF KernelOK
<1>6. (hangup[i] \/ OfPane(i)) \in BOOLEAN
  OBVIOUS
<1>7. hangup' \in [Pids -> BOOLEAN] /\ \A k \in Pids : hangup[k] => hangup'[k]
  <2> DEFINE h == hangup[i] \/ OfPane(i)
  <2>1. hangup' = [hangup EXCEPT ![i] = h] /\ h \in BOOLEAN /\ (hangup[i] => h)
    BY <1>1
  <2> HIDE DEF h
  <2> QED BY <2>1, KernelTyped DEF KernelOK
<1>8. KernelSteps
  <2>1. KernelOK'
    BY <1>1, <1>2, <1>4, <1>7, KernelTyped DEF KernelOK
  <2> QED BY <1>1, <1>3, <1>5, <1>7, <2>1, KernelTyped
          DEF KernelOK, KernelSteps, KernelKeeps, NobodyReaped
<1> QED BY <1>1, <1>8, KernelTyped, ProcessOnly

(* job_check_died: a job that was closed calls back, another is dead.      *)
LEMMA DiedSound ==
  ASSUME NEW r \in JobRecords, KernelOK, KernelKeeps,
         JobSound(r, started, proc, status, unread, hangup),
         r.pid \in Pids, proc'[r.pid] = "reaped", UNCHANGED <<status, started>>
  PROVE  /\ JobDied(r) \in JobRecords
         /\ JobSound(JobDied(r), started', proc', status', unread', hangup')
<1> DEFINE d == [r EXCEPT !.status = status[r.pid]]
           x == [d EXCEPT !.pid = NoPid, !.state = "dead"]
<1>1. NoPid = 0 /\ NoPid \in 0 .. MaxPids /\ \A i \in Pids : i \in Nat /\ i # NoPid
  BY ChildrenAssumption DEF Pids, NoPid
<1>2. r.pid = r.process /\ r.state \in {"running", "closed"} /\ r.process <= started
  BY <1>1 DEF JobSound
<1>3. status[r.pid] \in {"none", "zero", "failed"}
  BY DEF KernelOK
<1>4. /\ d \in JobRecords
      /\ d.status = status[r.pid]
      /\ d.process = r.process /\ d.state = r.state /\ d.calls = r.calls
  BY <1>3 DEF JobRecords
<1>5. ~Calling(r)
  BY <1>2 DEF JobSound
<1>6. ~Calling(d)
  BY <1>4, <1>5 DEF Calling
<1> HIDE DEF d
<1>7. r.process # NoPid /\ r.process \in 1 .. started
  BY <1>1, <1>2, ChildrenAssumption DEF KernelOK
<1>8. CASE r.state = "closed"
  <2>1. hangup'[r.process] /\ unread'[r.process] = 0
    BY <1>7, <1>8 DEF JobSound, KernelKeeps
  <2>2. /\ Complete(d) \in JobRecords
        /\ JobSound(Complete(d), started', proc', status', unread', hangup')
    BY <1>2, <1>4, <1>6, <1>7, <2>1, CompleteSound
  <2>3. JobDied(r) = Complete(d)
    BY <1>8 DEF JobDied, d
  <2> QED BY <2>2, <2>3
<1>9. CASE r.state # "closed"
  <2>1. /\ x \in JobRecords
        /\ x.state = "dead" /\ x.pid = NoPid
        /\ x.process = d.process /\ x.status = d.status /\ x.calls = d.calls
    BY <1>1, <1>4 DEF JobRecords
  <2> HIDE DEF x
  <2>2. ~Calling(x)
    BY <1>6, <2>1 DEF Calling
  <2>3. JobSound(x, started', proc', status', unread', hangup')
    BY <1>2, <1>4, <1>7, <2>1, <2>2 DEF JobSound
  <2>4. JobDied(r) = x
    BY <1>9 DEF JobDied, d, x
  <2> QED BY <2>1, <2>3, <2>4
<1> QED BY <1>8, <1>9

LEMMA ChildSignalSteps ==
  ASSUME IInv, ChildSignal
  PROVE  IInv'
<1>1. UNCHANGED <<status, unread, hangup, started, events>>
  BY DEF ChildSignal
<1>2. proc' = [i \in Pids |->
                IF i \in Zombies THEN "reaped"
                ELSE IF i \in Stopped
                THEN IF Recorded(i) THEN "running" ELSE "suspended"
                ELSE proc[i]]
  BY DEF ChildSignal
<1>3. \A i \in Pids : /\ i \in Zombies => proc'[i] = "reaped"
                      /\ proc[i] = "reaped" => proc'[i] = "reaped"
                      /\ proc'[i] = "reaped" /\ proc[i] # "reaped" => i \in Zombies
  BY <1>2 DEF Zombies, Stopped
<1>4. proc' \in [Pids -> {"none", "running", "stopped", "suspended", "zombie", "reaped"}]
  <2> SUFFICES ASSUME NEW i \in Pids
               PROVE  proc'[i] \in {"none", "running", "stopped", "suspended",
                                     "zombie", "reaped"}
    BY <1>2
  <2>1. proc[i] \in {"none", "running", "stopped", "suspended", "zombie", "reaped"}
    BY KernelTyped DEF KernelOK
  <2> QED BY <1>2, <2>1
<1>5. KernelOK' /\ KernelKeeps
  BY <1>1, <1>3, <1>4, KernelTyped DEF KernelOK, KernelKeeps
<1>6. Zombies \subseteq Pids /\ \A i \in Zombies : i # NoPid
  BY ChildrenAssumption DEF Zombies, Pids, NoPid
<1>7. ASSUME NEW p \in Panes PROVE Sound(pane'[p])
  <2>1. pane'[p] = IF pane[p].listed /\ pane[p].pid \in Zombies
                   THEN Exited(pane[p]) ELSE pane[p]
    BY DEF ChildSignal
  <2>2. Sound(pane[p])
    BY PaneIsSound
  <2>3. CASE pane[p].listed /\ pane[p].pid \in Zombies
    <3>1. pane[p].pid # NoPid /\ status[pane[p].pid] \in {"none", "zero", "failed"}
      BY <1>6, <2>3, KernelTyped DEF KernelOK
    <3> QED BY <2>1, <2>2, <2>3, <3>1, ExitedSound
  <2> QED BY <2>1, <2>2, <2>3
<1>8. pane' \in [Panes -> PaneRecords] /\ PanesSound'
  <2>1. \A p \in Panes : pane'[p] \in PaneRecords
    BY <1>7 DEF Sound
  <2>2. pane' = [p \in Panes |-> pane'[p]]
    BY DEF ChildSignal
  <2>3. pane' \in [Panes -> PaneRecords]
    BY <2>1, <2>2
  <2> QED BY <1>7, <2>3 DEF PanesSound, Sound, PipeSound, WaiterSound, ShownSound, PaneRecords
<1>9. ASSUME NEW j \in Jobs
      PROVE  /\ job'[j] \in JobRecords
             /\ JobSound(job'[j], started', proc', status', unread', hangup')
  <2>1. job'[j] = IF job[j].pid \in Zombies THEN JobDied(job[j]) ELSE job[j]
    BY DEF ChildSignal
  <2>2. job[j] \in JobRecords /\ JobSound(job[j], started, proc, status, unread, hangup)
    BY JobIsSound
  <2>3. CASE job[j].pid \in Zombies
    <3>1. job[j].pid \in Pids /\ proc'[job[j].pid] = "reaped"
      BY <1>3, <1>6, <2>3
    <3> QED BY <1>1, <1>5, <2>1, <2>2, <2>3, <3>1, KernelTyped, DiedSound
  <2>4. CASE job[j].pid \notin Zombies
    <3>1. job[j].pid # NoPid => proc'[job[j].pid] # "reaped"
      <4> SUFFICES ASSUME job[j].pid # NoPid PROVE proc'[job[j].pid] # "reaped"
        OBVIOUS
      <4>1. job[j].pid \in Pids
        BY <2>2, ChildrenAssumption DEF JobRecords, Pids, NoPid
      <4>2. proc[job[j].pid] # "reaped"
        BY <2>2 DEF JobSound
      <4> QED BY <1>3, <2>4, <4>1, <4>2
    <3> QED BY <1>5, <2>1, <2>2, <2>4, <3>1, KernelTyped, JobStays
  <2> QED BY <2>3, <2>4
<1>10. job' \in [Jobs -> JobRecords] /\ JobsSound'
  <2>1. job' = [j \in Jobs |-> job'[j]]
    BY DEF ChildSignal
  <2> QED BY <1>9, <2>1 DEF JobsSound
<1>11. events' \in 0 .. MaxEvents
  BY <1>1, KernelTyped
<1> QED BY <1>5, <1>8, <1>10, <1>11, Together
-----------------------------------------------------------------------------
LEMMA InitSound == Init => IInv
<1> SUFFICES ASSUME Init PROVE IInv
  OBVIOUS
<1>1. NoPid \in 0 .. MaxPids /\ NoPid = 0 /\ 0 \in Nat
  BY ChildrenAssumption DEF NoPid
<1>2. /\ NoJob \in JobRecords
      /\ NoJob.process = 0 /\ NoJob.pid = NoPid /\ NoJob.state = "none" /\ NoJob.calls = 0
  BY <1>1 DEF NoJob, JobRecords
<1>3. TypeOK
  <2>1. pane \in [Panes -> PaneRecords] /\ job \in [Jobs -> JobRecords]
    BY <1>2, AbsentPane DEF Init
  <2> QED BY <2>1, ChildrenAssumption DEF Init, TypeOK
<1>4. PanesSound
  <2>1. ~Absent.listed /\ ~Absent.drawn /\ ~Absent.pipe
    BY DEF Absent
  <2>2. Sound(Absent)
    BY <2>1, AbsentPane DEF Sound, PipeSound, WaiterSound, ShownSound
  <2> QED BY <2>2 DEF Init, PanesSound
<1>5. JobsSound
  <2>1. JobSound(NoJob, started, proc, status, unread, hangup)
    <3>1. ~Calling(NoJob) /\ NoJob.process <= started
      BY <1>1, <1>2 DEF Calling, Init
    <3> QED BY <1>2, <3>1 DEF JobSound
  <2> QED BY <2>1 DEF Init, JobsSound
<1> QED BY <1>3, <1>4, <1>5 DEF IInv

LEMMA StepSound == IInv /\ [Next]_vars => IInv'
<1> SUFFICES ASSUME IInv, [Next]_vars PROVE IInv'
  OBVIOUS
<1>1. ASSUME NEW p \in Panes, PaneAction(p) PROVE IInv'
  BY <1>1, SpawnPaneSteps, SpawnEmptyPaneSteps, RespawnPaneSteps, RespawnWindowSteps,
     KillPaneSteps, DeadKeySteps, CancelEditorSteps, PipePaneSteps, ReadSteps, EofSteps,
     PipeWrittenSteps, PipeReadSteps, PipeClosedSteps
  DEF PaneAction
<1>2. ASSUME NEW j \in Jobs, JobAction(j) PROVE IInv'
  BY <1>2, JobRunSteps, FormatJobSteps, FormatTidySteps, JobReadSteps, JobEofSteps
  DEF JobAction
<1>3. ASSUME NEW i \in Pids, Process(i) PROVE IInv'
  BY <1>3, WriteSteps, CloseOutputSteps, StopSteps, DieSteps DEF Process
<1>4. CASE ChildSignal
  BY <1>4, ChildSignalSteps
<1>5. CASE UNCHANGED vars
  <2>1. KernelSteps
    BY <1>5, SameKernel DEF vars, kernelVars
  <2> QED BY <1>5, <2>1, KernelTyped, ProcessOnly DEF vars
<1> QED BY <1>1, <1>2, <1>3, <1>4, <1>5 DEF Next

LEMMA AlwaysSound == Spec => []IInv
BY InitSound, StepSound, PTL DEF Spec

(* Every pane, job and process is what the code can make of it.            *)
THEOREM TypesCorrect == Spec => []TypeOK
<1>1. IInv => TypeOK
  BY DEF IInv
<1> QED BY <1>1, AlwaysSound, PTL

(* Each pane and each job ends once, whichever of the death of its process *)
(* and the end of its output comes first: a reaped pane with no terminal   *)
(* is shown as dead and nothing waits for it, who waits is told once and   *)
(* with the status, and a job calls back once with the status, after all   *)
(* of its output, and kills no process that was reaped.                    *)
THEOREM EndsAreExact == Spec => []EndsExact
<1>1. ASSUME IInv PROVE ClosedPaneShown
  <2> SUFFICES ASSUME NEW p \in Panes, pane[p].listed, pane[p].ready
               PROVE  pane[p].waiter = "none" /\ (~pane[p].fd <=> pane[p].drawn)
    BY DEF ClosedPaneShown
  <2>1. Sound(pane[p])
    BY <1>1, PaneIsSound
  <2> QED BY <2>1 DEF Sound, WaiterSound, ShownSound
<1>2. ASSUME IInv PROVE WaiterTold
  BY <1>2, PaneIsSound DEF WaiterTold, Sound, WaiterSound
<1>3. ASSUME IInv PROVE JobTold
  <2> SUFFICES ASSUME NEW j \in Jobs
               PROVE  /\ job[j].calls = 1 =>
                           /\ proc[job[j].process] = "reaped"
                           /\ job[j].status = status[job[j].process]
                           /\ hangup[job[j].process] /\ unread[job[j].process] = 0
                      /\ job[j].pid # NoPid => proc[job[j].pid] # "reaped"
                      /\ job[j].state = "dead" => proc[job[j].process] = "reaped"
    BY DEF JobTold
  <2>1. JobSound(job[j], started, proc, status, unread, hangup)
    BY <1>3, JobIsSound
  <2> QED BY <2>1 DEF JobSound, Calling
<1>4. IInv => EndsExact
  BY <1>1, <1>2, <1>3 DEF EndsExact
<1> QED BY <1>4, AlwaysSound, PTL
-----------------------------------------------------------------------------
(* Why output is kept.                                                     *)

Kept(p) ==
  \/ ~pane[p].fd \/ pane'[p].fd
  \/ unread[pane[p].pid] = 0 /\ ~pane[p].output
  \/ PipeWritten(p) \/ PipeClosed(p) \/ PipePane(p, FALSE)
  \/ KillPane(p) \/ DeadKey(p) \/ RespawnPane(p, TRUE)
  \/ \E q \in Panes : RespawnWindow(q)

(* A pane that settling closes was read, and its pipe written.             *)
LEMMA SettledKeeps ==
  ASSUME NEW r \in PaneRecords, r.output => r.pipe, r.fd, ~Settled(r).fd
  PROVE  unread[r.pid] = 0 /\ ~r.output
BY DEF Settled, DestroyReady

LEMMA ChangedKeeps ==
  ASSUME IInv, NEW q \in Panes, NEW x, pane' = [pane EXCEPT ![q] = x],
         pane[q].fd => x.fd, NEW p \in Panes
  PROVE  Kept(p)
<1>1. pane'[p] = IF p = q THEN x ELSE pane[p]
  BY DEF IInv, TypeOK
<1> QED BY <1>1 DEF Kept

LEMMA SettlingKeeps ==
  ASSUME IInv, NEW q \in Panes, NEW x, pane' = [pane EXCEPT ![q] = Settled(x)], Sound(x),
         x.fd = pane[q].fd, x.pid = pane[q].pid, x.output = pane[q].output, NEW p \in Panes
  PROVE  Kept(p)
<1>1. pane'[p] = IF p = q THEN Settled(x) ELSE pane[p]
  BY DEF IInv, TypeOK
<1>2. CASE p = q /\ pane[p].fd /\ ~Settled(x).fd
  <2>1. x.fd /\ x \in PaneRecords /\ (x.output => x.pipe)
    BY <1>2 DEF Sound, PipeSound
  <2>2. unread[x.pid] = 0 /\ ~x.output
    BY <1>2, <2>1, SettledKeeps
  <2> QED BY <1>2, <2>2 DEF Kept
<1>3. CASE ~(p = q /\ pane[p].fd /\ ~Settled(x).fd)
  BY <1>1, <1>3 DEF Kept
<1> QED BY <1>2, <1>3

LEMMA PaneActionKeeps ==
  ASSUME IInv, NEW q \in Panes, PaneAction(q), NEW p \in Panes
  PROVE  Kept(p)
<1> DEFINE r == pane[q]
<1>1. Sound(r) /\ r \in PaneRecords
  BY PaneIsSound DEF Sound
<1>2. ASSUME p # q, NEW x, pane' = [pane EXCEPT ![q] = x] PROVE Kept(p)
  <2>1. pane'[p] = pane[p]
    BY <1>2 DEF IInv, TypeOK
  <2> QED BY <2>1 DEF Kept
<1>3. ASSUME NEW w \in {"none", "item", "editor"}, NEW m \in Remains, SpawnPane(q, w, m)
      PROVE  Kept(p)
  <2>1. ~r.fd
    BY <1>3 DEF SpawnPane, Absent
  <2> QED BY <1>2, <1>3, <2>1 DEF SpawnPane, Kept
<1>4. ASSUME NEW m \in Remains, SpawnEmptyPane(q, m) PROVE Kept(p)
  <2>1. ~r.fd
    BY <1>4 DEF SpawnEmptyPane, Absent
  <2> QED BY <1>2, <1>4, <2>1 DEF SpawnEmptyPane, Kept
<1>5. ASSUME NEW kill \in BOOLEAN, RespawnPane(q, kill) PROVE Kept(p)
  <2>1. CASE p # q
    BY <1>2, <1>5, <2>1 DEF RespawnPane
  <2>2. CASE p = q /\ kill
    BY <1>5, <2>2 DEF Kept
  <2>3. CASE p = q /\ ~kill
    BY <1>5, <2>3 DEF RespawnPane, Kept
  <2> QED BY <2>1, <2>2, <2>3
<1>6. CASE RespawnWindow(q)
  BY <1>6 DEF Kept
<1>7. CASE KillPane(q)
  BY <1>2, <1>7 DEF KillPane, Kept
<1>8. CASE DeadKey(q)
  BY <1>2, <1>8 DEF DeadKey, Kept
<1>9. CASE CancelEditor(q)
  <2> DEFINE x == [r EXCEPT !.waiter = "cancelled"]
  <2>1. x.fd = r.fd
    BY <1>1 DEF PaneRecords
  <2>2. pane' = [pane EXCEPT ![q] = x]
    BY <1>9 DEF CancelEditor
  <2> QED BY <2>1, <2>2, ChangedKeeps
<1>10. ASSUME NEW open \in BOOLEAN, PipePane(q, open) PROVE Kept(p)
  <2> DEFINE c == [r EXCEPT !.pipe = FALSE, !.output = FALSE]
             x == [c EXCEPT !.pipe = open]
  <2>1. pane' = [pane EXCEPT ![q] = IF r.pipe /\ DestroyReady(c) THEN DestroyPane(c) ELSE x]
    BY <1>10 DEF PipePane
  <2>2. CASE r.pipe /\ DestroyReady(c)
    <3>1. PipePane(q, FALSE)
      BY <1>10, <2>2 DEF PipePane
    <3>2. pane' = [pane EXCEPT ![q] = DestroyPane(c)]
      BY <2>1, <2>2
    <3> QED BY <1>2, <3>1, <3>2 DEF Kept
  <2>3. CASE ~(r.pipe /\ DestroyReady(c))
    <3>1. pane' = [pane EXCEPT ![q] = x]
      BY <2>1, <2>3
    <3>2. c \in PaneRecords /\ c.fd = r.fd
      BY <1>1 DEF PaneRecords
    <3>3. x.fd = r.fd
      <4> HIDE DEF c
      <4> QED BY <3>2 DEF PaneRecords
    <3> QED BY <3>1, <3>3, ChangedKeeps
  <2> QED BY <2>2, <2>3
<1>11. CASE Read(q)
  <2> DEFINE x == [r EXCEPT !.output = r.pipe]
  <2>1. x.fd = r.fd
    BY <1>1 DEF PaneRecords
  <2>2. pane' = [pane EXCEPT ![q] = x]
    BY <1>11 DEF Read
  <2> QED BY <2>1, <2>2, ChangedKeeps
<1>12. CASE Eof(q)
  <2> DEFINE x == [r EXCEPT !.exited = TRUE]
  <2>1. x.fd = r.fd /\ x.pid = r.pid /\ x.output = r.output
    BY <1>1 DEF PaneRecords
  <2>2. Sound(x)
    BY <1>1, PipeGoesSound
  <2>3. pane' = [pane EXCEPT ![q] = Settled(x)]
    BY <1>12 DEF Eof
  <2> HIDE DEF x
  <2> QED BY <2>1, <2>2, <2>3, SettlingKeeps
<1>13. CASE PipeWritten(q)
  BY <1>2, <1>13 DEF PipeWritten, Kept
<1>14. CASE PipeRead(q)
  <2>1. pane' = [pane EXCEPT ![q] = Settled(r)]
    BY <1>14 DEF PipeRead
  <2> QED BY <1>1, <2>1, SettlingKeeps
<1>15. CASE PipeClosed(q)
  BY <1>2, <1>15 DEF PipeClosed, Kept
<1> QED
  BY <1>3, <1>4, <1>5, <1>6, <1>7, <1>8, <1>9, <1>10, <1>11, <1>12, <1>13, <1>14, <1>15,
     PaneAction(q)
  DEF PaneAction

LEMMA ChildSignalKeeps ==
  ASSUME IInv, ChildSignal, NEW p \in Panes
  PROVE  Kept(p)
<1> DEFINE r == pane[p]
           e == [r EXCEPT !.status = status[r.pid], !.ready = TRUE, !.exited = TRUE]
           f == Finish(e)
<1>1. pane'[p] = IF r.listed /\ r.pid \in Zombies THEN Exited(r) ELSE r
  BY DEF ChildSignal
<1>2. CASE ~(r.listed /\ r.pid \in Zombies)
  BY <1>1, <1>2 DEF Kept
<1>3. CASE r.listed /\ r.pid \in Zombies
  <2>1. Sound(r) /\ r \in PaneRecords /\ status[r.pid] \in {"none", "zero", "failed"}
    BY <1>3, PaneIsSound, KernelTyped DEF Sound, Zombies, KernelOK
  <2>2. /\ e \in PaneRecords /\ e.fd = r.fd /\ e.pid = r.pid /\ e.output = r.output
        /\ e.pipe = r.pipe /\ e.waiter = r.waiter /\ e.tells = r.tells /\ e.ready
    BY <2>1 DEF PaneRecords
  <2> HIDE DEF e
  <2>3. /\ f.fd = e.fd /\ f.pid = e.pid /\ f.output = e.output /\ f.pipe = e.pipe
    BY <2>2 DEF Finish, PaneRecords
  <2>4. pane'[p] = Settled(f)
    BY <1>1, <1>3 DEF Exited, e, f
  <2>5. r.output => r.pipe
    BY <2>1 DEF Sound, PipeSound
  <2> HIDE DEF f
  <2>6. CASE DestroyReady(f)
    <3>1. r.fd => unread[r.pid] = 0 /\ ~r.output
      BY <2>2, <2>3, <2>5, <2>6 DEF DestroyReady
    <3> QED BY <3>1 DEF Kept
  <2>7. CASE ~DestroyReady(f)
    <3>1. Settled(f) = f
      BY <2>7 DEF Settled
    <3> QED BY <2>2, <2>3, <2>4, <3>1 DEF Kept
  <2> QED BY <2>6, <2>7
<1> QED BY <1>2, <1>3

(* No step closes the terminal of a pane whose output has not all been     *)
(* read and passed to its pipe, unless the pane is killed or respawned, a  *)
(* key closes it, or its pipe has just been written or closed.             *)
THEOREM OutputIsKept == Spec => OutputKept
<1>1. ASSUME IInv, [Next]_vars PROVE [\A p \in Panes : Kept(p)]_vars
  <2> SUFFICES ASSUME Next, NEW p \in Panes PROVE Kept(p)
    BY <1>1
  <2>1. CASE UNCHANGED pane
    BY <2>1 DEF Kept
  <2>2. ASSUME NEW q \in Panes, PaneAction(q) PROVE Kept(p)
    BY <1>1, <2>2, PaneActionKeeps
  <2>3. ASSUME NEW j \in Jobs, JobAction(j) PROVE UNCHANGED pane
    BY <2>3 DEF JobAction, JobRun, FormatJob, FormatTidy, JobRead, JobEof
  <2>4. ASSUME NEW i \in Pids, Process(i) PROVE UNCHANGED pane
    BY <2>4 DEF Process, Write, CloseOutput, Stop, Die
  <2>5. CASE ChildSignal
    BY <1>1, <2>5, ChildSignalKeeps
  <2> QED BY <2>1, <2>2, <2>3, <2>4, <2>5 DEF Next
<1> QED BY <1>1, AlwaysSound, PTL DEF Spec, OutputKept, Kept
=============================================================================
