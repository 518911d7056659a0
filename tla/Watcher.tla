------------------------------- MODULE Watcher -------------------------------
(***************************************************************************)
(* The filesystem watcher of goDrive (internal/watch/watch.go): fsnotify   *)
(* events are coalesced per path while a debounce timer runs; when it has  *)
(* fired they are worked off one path after the other against the disk as  *)
(* it is then.  The disk is changed by other programs at any moment.       *)
(*                                                                         *)
(* A home root holds files and one directory with files of its own.  The   *)
(* root itself is watched all the time; the directory is watched once the  *)
(* watcher has asked for it, and until it is removed or moved away.  A     *)
(* file's number is its version (size, time and text), 0 means absent.     *)
(***************************************************************************)
EXTENDS Integers, Sequences

CONSTANTS
  Top,          \* names of files in the root
  Inner,        \* names of files in the directory
  Dir,          \* the directory
  MaxVersion,   \* bound: how many changes other programs make
  MayOverflow,  \* may the kernel's event queue overflow?
  MayFail,      \* may a file or database operation of the watcher fail?
  MayMisread,   \* may reading the text of a file fail?
  Recreate      \* may a directory come back under a path watched before?

Files == Top \cup Inner
Paths == Files \cup {Dir}

ASSUME PathsAssumption ==
  /\ Top \cap Inner = {}
  /\ Dir \notin Files
ASSUME BoundAssumption == MaxVersion \in Nat \ {0}
ASSUME SwitchesAssumption == {MayOverflow, MayFail, MayMisread, Recreate} \subseteq BOOLEAN

VARIABLES
  disk,         \* the version of each path, 0 if there is none
  version,      \* the latest version of anything
  watched,      \* the kernel reports changes inside Dir
  seen,         \* Dir is in Watcher.seen
  queue,        \* events on their way from the kernel
  lost,         \* an overflow is waiting in watcher.Errors
  pending,      \* the coalesced operations of each path
  timer,        \* the debounce timer
  armed,        \* timerC is the channel of the timer, not nil
  batch,        \* the events of the flush that runs
  cur,          \* the event in work and where its handling stands
  index,        \* the version in file_index, 0 if there is no row
  text,         \* the version of the text in document_fts
  needsRescan   \* health.NeedsRescan

fs == <<disk, version, watched, queue, lost>>
loop == <<pending, timer, armed, batch>>
tables == <<index, text>>
vars == <<fs, seen, loop, cur, tables, needsRescan>>

-----------------------------------------------------------------------------
\* The rows that DeleteFileIndexPath removes: the path and what is below it.
Under(p) == IF p = Dir THEN Inner \cup {Dir} ELSE {p}

Nothing == [p \in Paths |-> {}]
Idle == [step |-> "select", path |-> Dir, ver |-> 0, todo |-> {}]

Step(s) == cur.step = s
Goto(s) == cur' = [cur EXCEPT !.step = s]

Init ==
  /\ \E present \in SUBSET Paths :
       /\ present \cap Inner # {} => Dir \in present
       /\ disk = [p \in Paths |-> IF p \in present THEN 1 ELSE 0]
       /\ watched = (Dir \in present)
  /\ seen = watched
  /\ version = 1
  /\ queue = <<>> /\ lost = FALSE
  /\ pending = Nothing /\ batch = Nothing
  /\ timer = "none" /\ armed = FALSE
  /\ cur = Idle
  /\ index = disk
  /\ text = [f \in Files |-> disk[f]]
  /\ needsRescan = FALSE

-----------------------------------------------------------------------------
(* Other programs, the kernel and fsnotify *)

\* A change is reported if its directory is watched, or drowned by others.
Report(p, op) ==
  \/ /\ p \in Inner /\ ~watched
     /\ UNCHANGED <<queue, lost>>
  \/ /\ p \notin Inner \/ watched
     /\ queue' = Append(queue, [path |-> p, op |-> op])
     /\ UNCHANGED lost
  \/ /\ p \notin Inner \/ watched
     /\ MayOverflow
     /\ lost' = TRUE
     /\ UNCHANGED queue

Changes(p) ==
  /\ version < MaxVersion
  /\ version' = version + 1
  /\ p \in Inner => disk[Dir] # 0
  /\ UNCHANGED <<seen, loop, cur, tables, needsRescan>>

\* A file is created or written.  The number of a directory says that it is
\* there: its modification time, which its row has too and which every entry
\* that is made or removed in it changes, is left out.
Write(p) ==
  /\ Changes(p)
  /\ disk' = [disk EXCEPT ![p] = version + 1]
  /\ Report(p, "touched")
  /\ UNCHANGED watched

Remove(p) ==
  /\ Changes(p) /\ disk[p] # 0
  /\ disk' = [disk EXCEPT ![p] = 0]
  /\ Report(p, "gone")
  /\ UNCHANGED watched

MakeDir ==
  /\ Changes(Dir) /\ disk[Dir] = 0
  /\ Recreate \/ ~seen
  /\ disk' = [disk EXCEPT ![Dir] = version + 1]
  /\ Report(Dir, "touched")
  /\ UNCHANGED watched

\* The directory is removed, or moved away with all that is in it; the kernel
\* or fsnotify drops the watch.
LoseDir ==
  /\ Changes(Dir) /\ disk[Dir] # 0
  /\ disk' = [p \in Paths |-> IF p \in Under(Dir) THEN 0 ELSE disk[p]]
  /\ watched' = FALSE
  /\ Report(Dir, "gone")

World ==
  \/ \E f \in Files : Write(f) \/ Remove(f)
  \/ MakeDir \/ LoseDir

-----------------------------------------------------------------------------
(* Run: the select loop *)

\* Event.Op |= ...
Coalesced(ops, op) == ops \cup {op}

\* Mutant: the timer is started, but nobody listens to its channel.
ReceiveUnarmed ==
  /\ Step("select") /\ queue # <<>>
  /\ LET e == Head(queue) IN
       pending' = [pending EXCEPT ![e.path] = Coalesced(@, e.op)]
  /\ queue' = Tail(queue)
  /\ timer' = "running"
  /\ UNCHANGED <<disk, version, watched, lost, seen, armed, batch, cur, tables,
                 needsRescan>>

\* An event joins the pending ones and resetTimer starts the delay again;
\* timerC is set only when the timer is made.
Receive ==
  /\ Step("select") /\ queue # <<>>
  /\ LET e == Head(queue) IN
       pending' = [pending EXCEPT ![e.path] = Coalesced(@, e.op)]
  /\ queue' = Tail(queue)
  /\ timer' = "running"
  /\ armed' = (armed \/ timer = "none")
  /\ UNCHANGED <<disk, version, watched, lost, seen, batch, cur, tables,
                 needsRescan>>

\* An overflow, or another error of fsnotify.
RecordError ==
  /\ Step("select") /\ lost
  /\ lost' = FALSE
  /\ needsRescan' = TRUE
  /\ UNCHANGED <<disk, version, watched, queue, seen, loop, cur, tables>>

\* 250 ms after the last event.
TimerFires ==
  /\ timer = "running"
  /\ timer' = "fired"
  /\ UNCHANGED <<fs, seen, pending, armed, batch, cur, tables, needsRescan>>

\* flush: stopTimer also forgets the channel of the timer.
Flush ==
  /\ Step("select") /\ timer = "fired" /\ armed
  /\ batch' = pending
  /\ pending' = Nothing
  /\ timer' = "stopped" /\ armed' = FALSE
  /\ Goto("next")
  /\ UNCHANGED <<fs, seen, tables, needsRescan>>

-----------------------------------------------------------------------------
(* processEvents and handleEvent *)

\* The next event, in the order in which Go ranges over a map.
TakeEvent(p) ==
  /\ Step("next") /\ batch[p] # {}
  /\ batch' = [batch EXCEPT ![p] = {}]
  /\ cur' = [step |-> IF "touched" \in batch[p] THEN "stat" ELSE "delete",
             path |-> p, ver |-> 0, todo |-> {}]
  /\ UNCHANGED <<fs, seen, pending, timer, armed, tables, needsRescan>>

BatchDone ==
  /\ Step("next") /\ batch = Nothing
  /\ cur' = Idle
  /\ UNCHANGED <<fs, seen, loop, tables, needsRescan>>

\* Mutant: a new directory is indexed but not watched.
StatNoWatch ==
  /\ Step("stat")
  /\ cur' = [cur EXCEPT !.ver = disk[cur.path],
                        !.step = IF disk[cur.path] = 0 THEN "delete"
                                 ELSE IF cur.path = Dir THEN "walk" ELSE "entry"]
  /\ UNCHANGED <<fs, seen, loop, tables, needsRescan>>

\* upsertPath: what the path is now decides, not what the event said.
Stat ==
  /\ Step("stat")
  /\ cur' = [cur EXCEPT !.ver = disk[cur.path],
                        !.step = IF disk[cur.path] = 0 THEN "delete"
                                 ELSE IF cur.path = Dir THEN "watch" ELSE "entry"]
  /\ UNCHANGED <<fs, seen, loop, tables, needsRescan>>

\* deleteLogical
Delete ==
  /\ Step("delete")
  /\ index' = [p \in Paths |-> IF p \in Under(cur.path) THEN 0 ELSE index[p]]
  /\ text' = [f \in Files |-> IF f \in Under(cur.path) THEN 0 ELSE text[f]]
  /\ Goto("next")
  /\ UNCHANGED <<fs, seen, loop, needsRescan>>

\* AddRecursive: a path in seen is not added again.
AddWatch ==
  /\ Step("watch")
  /\ IF disk[Dir] # 0 /\ ~seen
       THEN watched' = TRUE /\ seen' = TRUE
       ELSE UNCHANGED <<watched, seen>>
  /\ Goto("walk")
  /\ UNCHANGED <<disk, version, queue, lost, loop, tables, needsRescan>>

\* indexRecursive: the directory's own row first, if it is still there.
WalkRoot ==
  /\ Step("walk")
  /\ cur' = [cur EXCEPT !.ver = disk[Dir],
                        !.step = IF disk[Dir] = 0 THEN "next" ELSE "entry"]
  /\ UNCHANGED <<fs, seen, loop, tables, needsRescan>>

\* upsertEntry: the row gets what lstat returned.
UpsertRow ==
  /\ Step("entry")
  /\ index' = [index EXCEPT ![cur.path] = cur.ver]
  /\ Goto(IF cur.path = Dir THEN "readdir" ELSE "read")
  /\ UNCHANGED <<fs, seen, loop, text, needsRescan>>

ReadDir ==
  /\ Step("readdir")
  /\ cur' = [cur EXCEPT !.todo = {f \in Inner : disk[f] # 0}, !.step = "info"]
  /\ UNCHANGED <<fs, seen, loop, tables, needsRescan>>

\* d.Info for the next file of the walk; a file gone meanwhile is skipped.
NextFile(f) ==
  /\ Step("info") /\ f \in cur.todo
  /\ cur' = [cur EXCEPT !.todo = @ \ {f}, !.path = f, !.ver = disk[f],
                        !.step = IF disk[f] = 0 THEN "info" ELSE "entry"]
  /\ UNCHANGED <<fs, seen, loop, tables, needsRescan>>

EventDone ==
  /\ Step("info") /\ cur.todo = {}
  /\ Goto("next")
  /\ UNCHANGED <<fs, seen, loop, tables, needsRescan>>

\* ReadTextForIndex: whatever the file holds now.  If it has gone, or cannot
\* be read, its text is empty; that is no error.
ReadText ==
  /\ Step("read")
  /\ \E v \in {disk[cur.path]} \cup (IF MayMisread THEN {0} ELSE {}) :
       cur' = [cur EXCEPT !.ver = v, !.step = "text"]
  /\ UNCHANGED <<fs, seen, loop, tables, needsRescan>>

UpsertText ==
  /\ Step("text")
  /\ text' = [text EXCEPT ![cur.path] = cur.ver]
  /\ Goto("info")
  /\ UNCHANGED <<fs, seen, loop, index, needsRescan>>

\* Any error ends the handling of the event and is recorded.
Fail ==
  /\ MayFail /\ cur.step \notin {"select", "next", "read"}
  /\ needsRescan' = TRUE
  /\ Goto("next")
  /\ UNCHANGED <<fs, seen, loop, tables>>

-----------------------------------------------------------------------------
Watch ==
  \/ Receive \/ RecordError \/ Flush
  \/ BatchDone \/ Stat \/ Delete \/ AddWatch \/ WalkRoot \/ UpsertRow
  \/ ReadDir \/ EventDone \/ ReadText \/ UpsertText \/ Fail
  \/ \E p \in Paths : TakeEvent(p)
  \/ \E f \in Inner : NextFile(f)

Next == World \/ TimerFires \/ Watch

Spec == Init /\ [][Next]_vars

\* The timer runs and the goroutine of Run goes on.
LiveSpec == Spec /\ WF_vars(TimerFires) /\ WF_vars(Watch)

-----------------------------------------------------------------------------
(* Properties *)

Events == [path : Paths, op : {"touched", "gone"}]
Operations == SUBSET {"touched", "gone"}

\* Nothing is waiting, neither in the kernel nor in the watcher.
AtRest ==
  /\ queue = <<>> /\ ~lost
  /\ pending = Nothing
  /\ Step("select")

\* When the watcher has nothing left to do and asks for no rescan, the index
\* and the document text are those of the disk, whatever happened while it
\* debounced, coalesced and walked.
AtRestAligned ==
  AtRest /\ ~needsRescan =>
    /\ index = disk
    /\ \A f \in Files : text[f] = disk[f]

\* The first events are flushed: if anything is ever pending, Run reaches its
\* timer and works a batch off, and the batch ends.
FirstEventsFlushed ==
  <>(pending # Nothing) => <>(Step("next") /\ <>Step("select"))

\* A change on disk reaches the index, or a rescan is asked for.
ChangesReachIndex ==
  \A p \in Paths : index[p] # disk[p] ~> index[p] = disk[p] \/ needsRescan
=============================================================================
