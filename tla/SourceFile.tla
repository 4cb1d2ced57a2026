----------------------------- MODULE SourceFile -----------------------------
(***************************************************************************)
(* The source-file command (cmd-source-file.c) on one command queue, with  *)
(* the depth counter of that queue's client or of the global queue.        *)
(*                                                                         *)
(* source-file waits while its files are read one after another; the       *)
(* commands of each are inserted behind those of the one before, and a     *)
(* callback behind the last ends the command.  Each command of a file is   *)
(* on a line of its own, so that an error of one removes no other.         *)
(***************************************************************************)
EXTENDS Naturals, Sequences, FiniteSets

CONSTANTS Limit,        \* CMD_SOURCE_FILE_DEPTH_LIMIT, 50 in the program
          MaxFiles,     \* bound: files that one command names
          MaxLines,     \* bound: commands in one file
          MaxSources    \* bound: source-file commands in all

ASSUME SourceAssumption ==
  /\ {Limit, MaxFiles, MaxLines, MaxSources} \subseteq Nat
  /\ Limit > 0

VARIABLES
  queue,        \* the items: commands, callbacks and the end of the files
  depth,        \* cmd_source_file_depth or c->source_file_depth
  cfgFinished,     \* cfg_finished
  reading,      \* cdata of the source-file command that waits, or Nothing
  sources,      \* source-file commands so far, they are numbered from 1
  \* history
  leaked,       \* commands that ended while the configuration was loading
  order         \* what ran: <<command number, file>>, and <<n, 0>> for its end

sourceVars == <<queue, depth, cfgFinished, reading, sources, leaked, order>>

Nothing == [id |-> 0, left |-> 0, after |-> 0, file |-> 0]

(* within names the source-file commands that an item came from, and file  *)
(* the file of the innermost.                                              *)
Item(kind, id, within, file) ==
  [kind |-> kind, id |-> id, within |-> within, file |-> file]
Sources(n, within, file) ==
  [k \in 1 .. n |-> Item("source", sources + k, within, file)]
Plains(n, within, file) ==
  [k \in 1 .. n |-> Item("plain", 0, within, file)]

(* A queue of a client, or the global queue that loads the configuration.  *)
SourceInit ==
  /\ cfgFinished \in BOOLEAN
  /\ depth = 0 /\ leaked = {}
  /\ reading = Nothing /\ order = <<>>
  /\ sources \in IF cfgFinished THEN {0} ELSE 1 .. MaxSources
  /\ queue = IF cfgFinished THEN <<>>
             ELSE Append([k \in 1 .. sources |-> Item("source", k, {}, 0)],
                         Item("cfg_done", 0, {}, 0))
-----------------------------------------------------------------------------
(* Definitions named X_slip are X as a plausible mistake would have it: no  *)
(* specification uses them, they show that a property notices the mistake. *)

HeadIs(kind) == queue # <<>> /\ Head(queue).kind = kind /\ reading = Nothing

InsertAfter(list, pos, new) ==
  SubSeq(list, 1, pos) \o new \o SubSeq(list, pos + 1, Len(list))

(* cmd_source_file_complete: a callback behind what was inserted; while    *)
(* the configuration is loading there is none, and the depth stays.        *)
Callback(id, within) ==
  IF cfgFinished THEN <<Item("complete", id, within, 0)>> ELSE <<>>
Leak(id) == IF cfgFinished THEN leaked ELSE leaked \cup {id}

(* cmd_source_file_exec: n files match.                                    *)
TooDeep == depth >= Limit
DepthWith(n) == depth + 1
Exec(n) ==
  /\ HeadIs("source") /\ ~TooDeep
  /\ depth' = DepthWith(n)
  /\ LET src == Head(queue)
     IN  IF n = 0
         THEN /\ queue' = Tail(InsertAfter(queue, 1, Callback(src.id, src.within)))
              /\ reading' = Nothing
              /\ leaked' = Leak(src.id)
         ELSE /\ queue' = queue
              /\ reading' = [id |-> src.id, left |-> n, after |-> 1, file |-> 1]
              /\ leaked' = leaked
  /\ UNCHANGED <<cfgFinished, sources, order>>

Refuse ==
  /\ HeadIs("source") /\ TooDeep
  /\ queue' = Tail(queue)
  /\ UNCHANGED <<depth, cfgFinished, reading, sources, leaked, order>>

(* cmd_source_file_done: a file has been read, with nested source-file     *)
(* commands and others, or none if the read or the parse failed.           *)
NextAfter_slip(lines) == reading.after
NextAfter(lines) == reading.after + Len(lines)
FileRead(nested, plain) ==
  /\ reading # Nothing
  /\ sources + nested <= MaxSources
  /\ LET src == Head(queue)
         within == src.within \cup {src.id}
         lines == Sources(nested, within, reading.file)
                    \o Plains(plain, within, reading.file)
         after == NextAfter(lines)
         loaded == InsertAfter(queue, reading.after, lines)
     IN  IF reading.left > 1
         THEN /\ queue' = loaded
              /\ reading' = [reading EXCEPT !.left = @ - 1, !.after = after,
                                            !.file = @ + 1]
              /\ leaked' = leaked
         ELSE /\ queue' = Tail(InsertAfter(loaded, after, Callback(src.id, src.within)))
              /\ reading' = Nothing
              /\ leaked' = Leak(src.id)
  /\ sources' = sources + nested
  /\ UNCHANGED <<depth, cfgFinished, order>>

RunPlain ==
  /\ HeadIs("plain")
  /\ queue' = Tail(queue)
  /\ order' = Append(order, [of |-> Head(queue).within, file |-> Head(queue).file,
                             end |-> 0])
  /\ UNCHANGED <<depth, cfgFinished, reading, sources, leaked>>

(* cmd_source_file_complete_cb                                             *)
DepthEnded_slip == depth
DepthEnded == depth - 1
RunComplete ==
  /\ HeadIs("complete")
  /\ queue' = Tail(queue)
  /\ depth' = DepthEnded
  /\ order' = Append(order, [of |-> {}, file |-> 0, end |-> Head(queue).id])
  /\ UNCHANGED <<cfgFinished, reading, sources, leaked>>

(* cfg_done                                                                *)
CfgDone ==
  /\ HeadIs("cfg_done")
  /\ queue' = Tail(queue)
  /\ cfgFinished' = TRUE
  /\ UNCHANGED <<depth, reading, sources, leaked, order>>

(* A user's source-file command at the end of the queue.                   *)
Submit ==
  /\ cfgFinished /\ sources < MaxSources
  /\ queue' = Append(queue, Item("source", sources + 1, {}, 0))
  /\ sources' = sources + 1
  /\ UNCHANGED <<depth, cfgFinished, reading, leaked, order>>

SourceNext ==
  \/ \E n \in 0 .. MaxFiles : Exec(n)
  \/ Refuse
  \/ \E nested, plain \in 0 .. MaxLines :
       nested + plain <= MaxLines /\ FileRead(nested, plain)
  \/ RunPlain
  \/ RunComplete
  \/ CfgDone
  \/ Submit

SourceSpec == SourceInit /\ [][SourceNext]_sourceVars
-----------------------------------------------------------------------------
Items == [kind : {"source", "plain", "complete", "cfg_done"}, id : 0 .. MaxSources,
          within : SUBSET (1 .. MaxSources), file : 0 .. MaxFiles]
SourceTypeOK ==
  /\ depth \in Nat /\ cfgFinished \in BOOLEAN
  /\ sources \in 0 .. MaxSources /\ leaked \subseteq 1 .. MaxSources
  /\ queue \in Seq(Items)
  /\ order \in Seq([of : SUBSET (1 .. MaxSources), file : 0 .. MaxFiles,
                    end : 0 .. MaxSources])
  /\ reading \in [id : 0 .. MaxSources, left : 0 .. MaxFiles, after : Nat,
                  file : 0 .. MaxFiles]

Ends == {i \in DOMAIN queue : queue[i].kind = "complete"}

(* The counter is the number of source-file commands in progress, and of   *)
(* those that ended before the configuration was loaded.                   *)
DepthExact ==
  depth = Cardinality(Ends) + (IF reading = Nothing THEN 0 ELSE 1) + Cardinality(leaked)

(* A command that came from a file is in progress within that file's       *)
(* source-file command: the counter is at least the nesting, so that a     *)
(* file that sources itself is stopped.                                    *)
DepthCoversNesting ==
  \A i \in DOMAIN queue : Cardinality(queue[i].within) <= depth

(* The counter neither leaks nor misses a level.                           *)
DepthSound == SourceTypeOK /\ DepthExact /\ DepthCoversNesting

(* Files run in the order they were named, and a source-file command ends  *)
(* after all that came from it.                                            *)
RunsInOrder ==
  \A i, j \in DOMAIN order : i < j =>
    /\ order[i].end # 0 => order[i].end \notin order[j].of
    /\ order[i].of = order[j].of /\ order[i].of # {} => order[i].file <= order[j].file
=============================================================================
