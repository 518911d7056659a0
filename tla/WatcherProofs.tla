--------------------------- MODULE WatcherProofs -----------------------------
(***************************************************************************)
(* Proofs about the watcher, for any files, any number of changes, and     *)
(* with overflows and failures.  The invariant follows the one flush that  *)
(* Run works off: stopTimer forgets the channel of the timer for good, so  *)
(* an event that is received later stays pending, and Run is not at rest.  *)
(***************************************************************************)
EXTENDS Watcher, TLAPS

-----------------------------------------------------------------------------
(* Types *)

Work == {"stat", "delete", "watch", "walk", "entry", "readdir", "info", "read",
         "text"}
Jobs == [step : Work \cup {"select", "next"}, path : Paths, ver : Nat,
         todo : SUBSET Inner]

DiskOK ==
  /\ disk \in [Paths -> Nat] /\ version \in Nat
  /\ watched \in BOOLEAN /\ queue \in Seq(Events) /\ lost \in BOOLEAN
LoopOK ==
  /\ pending \in [Paths -> Operations] /\ batch \in [Paths -> Operations]
  /\ timer \in {"none", "running", "fired", "stopped"} /\ armed \in BOOLEAN
RestOK ==
  /\ cur \in Jobs /\ seen \in BOOLEAN /\ needsRescan \in BOOLEAN
  /\ index \in [Paths -> Nat] /\ text \in [Files -> Nat]

WatcherTypeOK == DiskOK /\ LoopOK /\ RestOK

-----------------------------------------------------------------------------
(* The invariant *)

\* The only flush has begun: a later event would wait in vain.
Spent == timer # "none" /\ ~armed

\* The watcher asks for a rescan or will, or never comes to rest.
Excused ==
  \/ lost \/ needsRescan
  \/ Spent /\ (queue # <<>> \/ pending # Nothing)

\* An operation of a path that is still to be worked off.
Queued(p, op) == \E k \in 1..Len(queue) : queue[k] = [path |-> p, op |-> op]
Waits(p, op) == op \in pending[p] \/ op \in batch[p] \/ Queued(p, op)
Coming(p) == Waits(p, "touched") \/ Waits(p, "gone")

At(p, steps) == cur.path = p /\ cur.step \in steps

\* A flush is worked off completely, and nothing is before the first.
OneFlush ==
  /\ ~Spent => Step("select")
  /\ Step("select") => batch = Nothing

\* What the kernel and fsnotify know of the directory.
DirWatched ==
  /\ watched => seen
  /\ disk[Dir] = 0 => ~watched /\ \A f \in Inner : disk[f] = 0
  /\ seen /\ disk[Dir] # 0 => watched

\* The operations of a path tell whether it is there; those of the directory
\* are of its creation only as long as it has never been watched.
OpsTell ==
  /\ \A p \in Paths : Waits(p, "gone") /\ ~Waits(p, "touched") => disk[p] = 0
  /\ Waits(Dir, "touched") => ~seen
  /\ ~seen => \A f \in Inner : ~Coming(f)

\* A directory that is not watched yet will be.
WillWatch ==
  ~seen /\ disk[Dir] # 0 =>
    Waits(Dir, "touched") \/ At(Dir, {"stat", "watch"})

\* What each step of the handling of an event knows.
StepKnows ==
  /\ Step("stat") => ~Coming(cur.path) /\ (cur.path = Dir => ~seen)
  /\ Step("delete") => disk[cur.path] = 0
  /\ Step("watch") =>
       cur.path = Dir /\ ~seen /\ disk[Dir] # 0 /\ ~Coming(Dir)
  /\ Step("walk") => cur.path = Dir /\ seen /\ disk[Dir] # 0
  /\ Step("readdir") => cur.path = Dir /\ seen /\ index[Dir] = disk[Dir]
  /\ cur.step \in {"entry", "text"} => cur.ver = disk[cur.path]
  /\ cur.step \in {"read", "text"} =>
       cur.path \in Files /\ index[cur.path] = disk[cur.path]
  /\ At(Dir, {"entry"}) => seen
  /\ cur.path \in Inner /\ cur.step \in Work => seen
  /\ cur.todo # {} =>
       seen /\ cur.path \notin cur.todo /\ cur.step \in {"info", "entry", "read", "text"}
  /\ At(Dir, Work \ {"info"}) => cur.todo = {}

\* The directory's files have no rows before the walk comes to them.
NoRowsYet ==
  \A f \in Inner :
    ~seen \/ At(Dir, {"walk", "entry", "readdir"}) \/ f \in cur.todo =>
      index[f] = 0 /\ text[f] = 0

Right(p) == index[p] = disk[p] /\ (p \in Files => text[p] = disk[p])

\* A path whose row is not that of the disk is still to be worked off, alone
\* or with its directory.
RowsRight ==
  \A p \in Paths :
    \/ Right(p)
    \/ Coming(p)
    \/ At(p, Work \ {"readdir", "info"})
    \/ /\ p \in Inner
       /\ \/ Coming(Dir)
          \/ At(Dir, Work \ {"info"})
          \/ p \in cur.todo

Follows == OpsTell /\ WillWatch /\ StepKnows /\ NoRowsYet /\ RowsRight

FollowInv == OneFlush /\ DirWatched /\ (~Excused => Follows)

-----------------------------------------------------------------------------
(* The types are kept *)

LEMMA TypeInit == ASSUME Init PROVE WatcherTypeOK
<1>1. PICK present \in SUBSET Paths :
        /\ disk = [p \in Paths |-> IF p \in present THEN 1 ELSE 0]
        /\ watched = (Dir \in present)
  BY DEF Init
<1>2. DiskOK
  <2>1. disk \in [Paths -> Nat] /\ watched \in BOOLEAN
    BY <1>1
  <2>2. version = 1 /\ queue = <<>> /\ lost = FALSE
    BY DEF Init
  <2>3. version \in Nat /\ queue \in Seq(Events)
    BY <2>2
  <2>4. lost \in BOOLEAN
    BY <2>2
  <2> QED
    BY <2>1, <2>3, <2>4 DEF DiskOK
<1>3. LoopOK
  BY DEF Init, LoopOK, Nothing, Operations
<1>4. RestOK
  <2>1. Idle \in Jobs
    BY DEF Idle, Jobs, Paths
  <2>2. disk \in [Paths -> Nat] /\ seen \in BOOLEAN
    BY <1>1 DEF Init
  <2> QED
    BY <2>1, <2>2 DEF Init, RestOK, Files, Paths
<1> QED
  BY <1>2, <1>3, <1>4 DEF WatcherTypeOK

\* A change by another program, with what is reported of it.
LEMMA TypeWorld == ASSUME WatcherTypeOK, World PROVE WatcherTypeOK'
<1> USE DEF WatcherTypeOK
<1>1. PICK p \in Paths, op \in {"touched", "gone"} : Report(p, op) /\ Changes(p)
  <2>1. \A f \in Files : f \in Paths
    BY DEF Paths
  <2> QED
    BY <2>1 DEF World, Write, Remove, MakeDir, LoseDir, Paths
<1>2. queue' \in Seq(Events) /\ lost' \in BOOLEAN /\ version' \in Nat
  <2>1. [path |-> p, op |-> op] \in Events
    BY DEF Events
  <2>2. Append(queue, [path |-> p, op |-> op]) \in Seq(Events)
    BY <2>1 DEF DiskOK
  <2>3. queue' \in Seq(Events)
    BY <1>1, <2>2 DEF Report, DiskOK
  <2>4. lost' \in BOOLEAN
    BY <1>1 DEF Report, DiskOK
  <2>5. version' \in Nat
    BY <1>1 DEF Changes, DiskOK
  <2> QED
    BY <2>3, <2>4, <2>5
<1>3. disk' \in [Paths -> Nat] /\ watched' \in BOOLEAN
  <2>1. version + 1 \in Nat
    BY DEF DiskOK
  <2>2. ASSUME NEW f \in Files, Write(f) PROVE disk' \in [Paths -> Nat]
    BY <2>1, <2>2 DEF Write, DiskOK
  <2>3. ASSUME NEW f \in Files, Remove(f) PROVE disk' \in [Paths -> Nat]
    BY <2>3 DEF Remove, DiskOK
  <2>4. CASE MakeDir
    BY <2>1, <2>4 DEF MakeDir, DiskOK
  <2>5. CASE LoseDir
    BY <2>5 DEF LoseDir, DiskOK
  <2>6. watched' \in BOOLEAN
    BY DEF World, Write, Remove, MakeDir, LoseDir, DiskOK
  <2> QED
    BY <2>2, <2>3, <2>4, <2>5, <2>6 DEF World, MakeDir, DiskOK
<1>4. UNCHANGED <<seen, loop, cur, tables, needsRescan>>
  BY <1>1 DEF Changes
<1> QED
  BY <1>2, <1>3, <1>4 DEF DiskOK, LoopOK, RestOK, loop, tables

LEMMA TypeLoop ==
  ASSUME WatcherTypeOK, Receive \/ RecordError \/ Flush \/ TimerFires
  PROVE  WatcherTypeOK'
<1> USE DEF WatcherTypeOK
<1>1. CASE Receive
  <2>1. Head(queue) \in Events /\ Tail(queue) \in Seq(Events)
    BY <1>1 DEF Receive, DiskOK
  <2>2. pending' \in [Paths -> Operations]
    BY <1>1, <2>1 DEF Receive, LoopOK, Events, Coalesced, Operations
  <2> QED
    BY <1>1, <2>1, <2>2 DEF Receive, DiskOK, LoopOK, RestOK, tables
<1>2. CASE RecordError
  BY <1>2 DEF RecordError, DiskOK, LoopOK, RestOK, loop, tables
<1>3. CASE Flush
  <2>1. cur' \in Jobs
    BY <1>3 DEF Flush, Goto, RestOK, Jobs
  <2>2. pending' \in [Paths -> Operations]
    BY <1>3 DEF Flush, Nothing, Operations
  <2> QED
    BY <1>3, <2>1, <2>2 DEF Flush, DiskOK, LoopOK, RestOK, fs, tables
<1>4. CASE TimerFires
  BY <1>4 DEF TimerFires, DiskOK, LoopOK, RestOK, fs, tables
<1> QED
  BY <1>1, <1>2, <1>3, <1>4

\* The steps of processEvents and handleEvent.
Handling ==
  \/ BatchDone \/ Stat \/ Delete \/ AddWatch \/ WalkRoot \/ UpsertRow
  \/ ReadDir \/ EventDone \/ ReadText \/ UpsertText \/ Fail
  \/ \E p \in Paths : TakeEvent(p)
  \/ \E f \in Inner : NextFile(f)

LEMMA TypeHandling == ASSUME WatcherTypeOK, Handling PROVE WatcherTypeOK'
<1> USE DEF WatcherTypeOK
<1>1. cur \in Jobs /\ disk \in [Paths -> Nat] /\ batch \in [Paths -> Operations]
  BY DEF RestOK, DiskOK, LoopOK
<1>2. cur.step \in Work \cup {"select", "next"} /\ cur.path \in Paths
      /\ cur.ver \in Nat /\ cur.todo \subseteq Inner
  BY <1>1 DEF Jobs
<1>3. ASSUME UNCHANGED <<disk, version, watched, queue, lost>>, LoopOK',
             cur' \in Jobs, seen' \in BOOLEAN, needsRescan' \in BOOLEAN,
             index' \in [Paths -> Nat], text' \in [Files -> Nat]
      PROVE  WatcherTypeOK'
  BY <1>3 DEF DiskOK, RestOK
<1>4. CASE BatchDone
  <2>1. cur' \in Jobs
    BY <1>4 DEF BatchDone, Idle, Jobs, Paths
  <2> QED
    BY <1>3, <1>4, <2>1 DEF BatchDone, LoopOK, RestOK, fs, loop, tables
<1>5. CASE Stat
  <2>1. cur' \in Jobs
    BY <1>1, <1>2, <1>5 DEF Stat, Jobs, Work
  <2> QED
    BY <1>3, <1>5, <2>1 DEF Stat, LoopOK, RestOK, fs, loop, tables
<1>6. CASE Delete
  <2>1. cur' \in Jobs
    BY <1>1, <1>2, <1>6 DEF Delete, Goto, Jobs, Work
  <2>2. index' \in [Paths -> Nat] /\ text' \in [Files -> Nat]
    BY <1>6 DEF Delete, RestOK
  <2> QED
    BY <1>3, <1>6, <2>1, <2>2 DEF Delete, LoopOK, RestOK, fs, loop
<1>7. CASE AddWatch
  <2>1. cur' \in Jobs
    BY <1>1, <1>2, <1>7 DEF AddWatch, Goto, Jobs, Work
  <2>2. seen' \in BOOLEAN /\ watched' \in BOOLEAN
    BY <1>7 DEF AddWatch, RestOK, DiskOK
  <2> QED
    BY <1>7, <2>1, <2>2 DEF AddWatch, DiskOK, LoopOK, RestOK, loop, tables
<1>8. CASE WalkRoot
  <2>1. cur' \in Jobs
    BY <1>1, <1>2, <1>8 DEF WalkRoot, Jobs, Work, Paths
  <2> QED
    BY <1>3, <1>8, <2>1 DEF WalkRoot, LoopOK, RestOK, fs, loop, tables
<1>9. CASE UpsertRow
  <2>1. cur' \in Jobs
    BY <1>1, <1>2, <1>9 DEF UpsertRow, Goto, Jobs, Work
  <2>2. index' \in [Paths -> Nat]
    BY <1>2, <1>9 DEF UpsertRow, RestOK
  <2> QED
    BY <1>3, <1>9, <2>1, <2>2 DEF UpsertRow, LoopOK, RestOK, fs, loop
<1>10. CASE ReadDir
  <2>1. cur' \in Jobs
    BY <1>1, <1>2, <1>10 DEF ReadDir, Jobs, Work
  <2> QED
    BY <1>3, <1>10, <2>1 DEF ReadDir, LoopOK, RestOK, fs, loop, tables
<1>11. CASE EventDone
  <2>1. cur' \in Jobs
    BY <1>1, <1>2, <1>11 DEF EventDone, Goto, Jobs, Work
  <2> QED
    BY <1>3, <1>11, <2>1 DEF EventDone, LoopOK, RestOK, fs, loop, tables
<1>12. CASE ReadText
  <2>1. cur' \in Jobs
    <3>1. PICK v \in {disk[cur.path]} \cup (IF MayMisread THEN {0} ELSE {}) :
            cur' = [cur EXCEPT !.ver = v, !.step = "text"]
      BY <1>12 DEF ReadText
    <3>2. v \in Nat
      BY <1>1, <1>2, <3>1
    <3> QED
      BY <1>1, <1>2, <3>1, <3>2 DEF Jobs, Work
  <2> QED
    BY <1>3, <1>12, <2>1 DEF ReadText, LoopOK, RestOK, fs, loop, tables
<1>13. CASE UpsertText
  <2>1. cur' \in Jobs
    BY <1>1, <1>2, <1>13 DEF UpsertText, Goto, Jobs, Work
  <2>2. text' \in [Files -> Nat]
    BY <1>2, <1>13 DEF UpsertText, RestOK
  <2> QED
    BY <1>3, <1>13, <2>1, <2>2 DEF UpsertText, LoopOK, RestOK, fs, loop
<1>14. CASE Fail
  <2>1. cur' \in Jobs
    BY <1>1, <1>2, <1>14 DEF Fail, Goto, Jobs, Work
  <2> QED
    BY <1>3, <1>14, <2>1 DEF Fail, LoopOK, RestOK, fs, loop, tables
<1>15. ASSUME NEW p \in Paths, TakeEvent(p) PROVE WatcherTypeOK'
  <2>1. cur' \in Jobs
    BY <1>15 DEF TakeEvent, Jobs, Work
  <2>2. LoopOK'
    BY <1>15 DEF TakeEvent, LoopOK, Operations
  <2> QED
    BY <1>3, <1>15, <2>1, <2>2 DEF TakeEvent, RestOK, fs, tables
<1>16. ASSUME NEW f \in Inner, NextFile(f) PROVE WatcherTypeOK'
  <2>1. cur' \in Jobs
    BY <1>1, <1>2, <1>16 DEF NextFile, Jobs, Work, Paths, Files
  <2> QED
    BY <1>3, <1>16, <2>1 DEF NextFile, LoopOK, RestOK, fs, loop, tables
<1> QED
  BY <1>4, <1>5, <1>6, <1>7, <1>8, <1>9, <1>10, <1>11, <1>12, <1>13, <1>14,
     <1>15, <1>16 DEF Handling

LEMMA NextIs ==
  ASSUME Next
  PROVE  World \/ Receive \/ RecordError \/ Flush \/ TimerFires \/ Handling
BY DEF Next, Watch, Handling

LEMMA TypeNext == ASSUME WatcherTypeOK, [Next]_vars PROVE WatcherTypeOK'
<1>1. CASE Next
  BY <1>1, NextIs, TypeWorld, TypeLoop, TypeHandling
<1>2. CASE UNCHANGED vars
  BY <1>2 DEF WatcherTypeOK, DiskOK, LoopOK, RestOK, vars, fs, loop, tables
<1> QED
  BY <1>1, <1>2

-----------------------------------------------------------------------------
(* Excuses, the one flush and the watch on the directory *)

LEMMA FollowInit == ASSUME Init PROVE FollowInv
<1>1. PICK present \in SUBSET Paths :
        /\ present \cap Inner # {} => Dir \in present
        /\ disk = [p \in Paths |-> IF p \in present THEN 1 ELSE 0]
        /\ watched = (Dir \in present)
  BY DEF Init
<1>2. Step("select") /\ cur.todo = {} /\ queue = <<>> /\ batch = Nothing
      /\ pending = Nothing /\ timer = "none" /\ seen = watched
      /\ index = disk /\ text = [f \in Files |-> disk[f]]
  BY DEF Init, Idle, Step
<1>3. Inner \subseteq Paths /\ Inner \subseteq Files /\ Dir \in Paths
  BY DEF Paths, Files
<1>4. \A p \in Paths : ~Coming(p)
  BY <1>2 DEF Coming, Waits, Queued, Nothing
<1>5. OneFlush
  BY <1>2 DEF OneFlush, Spent
<1>6. disk[Dir] = 0 => ~watched /\ \A f \in Inner : disk[f] = 0
  <2>1. \A p \in Paths : disk[p] = 0 <=> p \notin present
    BY <1>1
  <2>2. watched <=> Dir \in present
    BY <1>1
  <2> QED
    BY <1>1, <1>3, <2>1, <2>2
<1>7. disk[Dir] # 0 => watched
  BY <1>1, <1>3
<1>8. DirWatched
  BY <1>2, <1>6, <1>7 DEF DirWatched
<1>9. OpsTell
  BY <1>3, <1>4 DEF OpsTell, Coming
<1>10. WillWatch
  BY <1>2, <1>7 DEF WillWatch
<1>11. StepKnows
  BY <1>2 DEF StepKnows, Step, At, Work
<1>12. NoRowsYet
  BY <1>2, <1>3, <1>6, <1>7 DEF NoRowsYet, Step, At
<1>13. RowsRight
  BY <1>2 DEF RowsRight, Right
<1> QED
  BY <1>5, <1>8, <1>9, <1>10, <1>11, <1>12, <1>13 DEF FollowInv, Follows

\* Reports only add to what waits in the kernel.
LEMMA ReportAdds ==
  ASSUME WatcherTypeOK, NEW p \in Paths, NEW op \in {"touched", "gone"},
         Report(p, op)
  PROVE  (lost => lost') /\ (queue # <<>> => queue' # <<>>)
<1>1. [path |-> p, op |-> op] \in Events /\ queue \in Seq(Events)
  BY DEF Events, WatcherTypeOK, DiskOK
<1>2. Append(queue, [path |-> p, op |-> op]) # <<>>
  BY <1>1
<1> QED
  BY <1>2 DEF Report

LEMMA WorldReports ==
  ASSUME World
  PROVE  \E p \in Paths, op \in {"touched", "gone"} :
           /\ Report(p, op)
           /\ UNCHANGED <<seen, loop, cur, tables, needsRescan>>
<1>1. Files \subseteq Paths /\ Dir \in Paths
  BY DEF Paths
<1> QED
  BY <1>1 DEF World, Write, Remove, MakeDir, LoseDir, Changes

\* What is received is pending.
LEMMA ReceivePends ==
  ASSUME WatcherTypeOK, Receive
  PROVE  /\ Head(queue) \in Events
         /\ pending' = [pending EXCEPT ![Head(queue).path] = @ \cup {Head(queue).op}]
         /\ pending' # Nothing
<1>1. Head(queue) \in Events
  BY DEF Receive, WatcherTypeOK, DiskOK
<1>2. pending' = [pending EXCEPT ![Head(queue).path] = @ \cup {Head(queue).op}]
  BY DEF Receive, Coalesced
<1>3. Head(queue).path \in Paths /\ pending \in [Paths -> Operations]
  BY <1>1 DEF Events, WatcherTypeOK, LoopOK
<1>4. Head(queue).op \in pending'[Head(queue).path]
  BY <1>2, <1>3
<1>5. Nothing[Head(queue).path] = {}
  BY <1>3 DEF Nothing
<1> QED
  BY <1>1, <1>2, <1>4, <1>5

LEMMA ExcusedStays ==
  ASSUME WatcherTypeOK, [Next]_vars, Excused
  PROVE  Excused'
<1>1. CASE World
  <2>1. PICK p \in Paths, op \in {"touched", "gone"} :
          Report(p, op) /\ UNCHANGED <<seen, loop, cur, tables, needsRescan>>
    BY <1>1, WorldReports
  <2> QED
    BY <2>1, ReportAdds DEF Excused, Spent, loop
<1>2. CASE Receive
  BY <1>2, ReceivePends DEF Receive, Excused, Spent
<1>3. CASE RecordError
  BY <1>3 DEF RecordError, Excused
<1>4. CASE Flush
  BY <1>4 DEF Flush, Excused, Spent, fs
<1>5. CASE TimerFires
  BY <1>5 DEF TimerFires, Excused, Spent, fs
<1>6. CASE Handling
  BY <1>6 DEF Handling, BatchDone, Stat, Delete, AddWatch, WalkRoot, UpsertRow,
     ReadDir, EventDone, ReadText, UpsertText, Fail, TakeEvent, NextFile,
     Excused, Spent, fs, loop
<1>7. CASE UNCHANGED vars
  BY <1>7 DEF Excused, Spent, vars, fs, loop
<1> QED
  BY <1>1, <1>2, <1>3, <1>4, <1>5, <1>6, <1>7, NextIs

LEMMA OneFlushStep ==
  ASSUME WatcherTypeOK, OneFlush, [Next]_vars
  PROVE  OneFlush'
<1>1. CASE World
  BY <1>1, WorldReports DEF OneFlush, Spent, Step, loop
<1>2. CASE Receive
  BY <1>2 DEF Receive, OneFlush, Spent, Step
<1>3. CASE RecordError
  BY <1>3 DEF RecordError, OneFlush, Spent, Step, loop
<1>4. CASE Flush
  <2>1. cur'.step = "next"
    BY <1>4 DEF Flush, Goto, WatcherTypeOK, RestOK, Jobs
  <2> QED
    BY <1>4, <2>1 DEF Flush, OneFlush, Spent, Step
<1>5. CASE TimerFires
  BY <1>5 DEF TimerFires, OneFlush, Spent, Step, fs
<1>6. CASE Handling
  <2>1. cur \in Jobs
    BY DEF WatcherTypeOK, RestOK
  <2>2. cur.step # "select" /\ UNCHANGED <<timer, armed>>
    BY <1>6, <2>1 DEF Handling, BatchDone, Stat, Delete, AddWatch, WalkRoot,
       UpsertRow, ReadDir, EventDone, ReadText, UpsertText, Fail, TakeEvent,
       NextFile, loop, Step
  <2>3. cur'.step = "select" => batch' = Nothing
    <3>1. BatchDone => batch' = Nothing
      BY DEF BatchDone, loop
    <3>2. Stat \/ WalkRoot \/ UpsertRow => cur'.step # "select"
      BY <2>1 DEF Stat, WalkRoot, UpsertRow, Goto, Jobs
    <3>3. Delete \/ AddWatch \/ EventDone \/ UpsertText \/ Fail => cur'.step # "select"
      BY <2>1 DEF Delete, AddWatch, EventDone, UpsertText, Fail, Goto, Jobs
    <3>4. ReadDir \/ ReadText \/ (\E f \in Inner : NextFile(f)) => cur'.step # "select"
      BY <2>1 DEF ReadDir, ReadText, NextFile, Jobs
    <3>5. (\E p \in Paths : TakeEvent(p)) => cur'.step # "select"
      BY DEF TakeEvent
    <3> QED
      BY <1>6, <3>1, <3>2, <3>3, <3>4, <3>5 DEF Handling
  <2> QED
    BY <2>2, <2>3 DEF OneFlush, Spent, Step
<1>7. CASE UNCHANGED vars
  BY <1>7 DEF OneFlush, Spent, Step, vars, loop
<1> QED
  BY <1>1, <1>2, <1>3, <1>4, <1>5, <1>6, <1>7, NextIs

LEMMA DirWatchedStep ==
  ASSUME WatcherTypeOK, DirWatched, [Next]_vars, ~Recreate
  PROVE  DirWatched'
<1>1. disk \in [Paths -> Nat] /\ Files \subseteq Paths /\ Dir \in Paths
      /\ Inner \subseteq Files /\ version + 1 \in Nat /\ version + 1 # 0
  BY DEF WatcherTypeOK, DiskOK, Files, Paths
<1>2. ASSUME NEW f \in Files, Write(f) \/ Remove(f) PROVE DirWatched'
  <2>1. /\ disk' = [disk EXCEPT ![f] = version + 1] \/ disk' = [disk EXCEPT ![f] = 0]
        /\ f \in Inner => disk[Dir] # 0
        /\ UNCHANGED <<watched, seen>>
    BY <1>2 DEF Write, Remove, Changes
  <2>2. disk'[Dir] = disk[Dir]
    BY <1>1, <1>2, <2>1, PathsAssumption
  <2>3. disk[Dir] = 0 => \A g \in Inner : disk'[g] = disk[g]
    BY <1>1, <2>1
  <2> QED
    BY <2>1, <2>2, <2>3 DEF DirWatched
<1>3. CASE MakeDir
  <2>1. disk'[Dir] # 0 /\ ~seen /\ UNCHANGED <<watched, seen>>
    BY <1>1, <1>3 DEF MakeDir, Changes
  <2> QED
    BY <2>1 DEF DirWatched
<1>4. CASE LoseDir
  <2>1. disk'[Dir] = 0 /\ ~watched' /\ \A f \in Inner : disk'[f] = 0
    BY <1>1, <1>4 DEF LoseDir, Under
  <2> QED
    BY <2>1 DEF DirWatched
<1>5. CASE AddWatch
  BY <1>5 DEF AddWatch, DirWatched
<1>6. CASE UNCHANGED <<disk, watched, seen>>
  BY <1>6 DEF DirWatched
<1>7. Next /\ ~World /\ ~AddWatch => UNCHANGED <<disk, watched, seen>>
  BY DEF Next, Watch, Receive, RecordError, Flush, TimerFires, BatchDone, Stat,
     Delete, WalkRoot, UpsertRow, ReadDir, EventDone, ReadText, UpsertText, Fail,
     TakeEvent, NextFile, fs
<1>8. UNCHANGED vars => UNCHANGED <<disk, watched, seen>>
  BY DEF vars, fs
<1> QED
  BY <1>2, <1>3, <1>4, <1>5, <1>6, <1>7, <1>8 DEF World

-----------------------------------------------------------------------------
(* Changes by other programs *)

\* A change that is reported before the flush will be worked off.
LEMMA Reported ==
  ASSUME WatcherTypeOK, OneFlush, NEW p \in Paths,
         NEW op \in {"touched", "gone"}, Report(p, op), UNCHANGED loop, ~Excused'
  PROVE  \/ p \in Inner /\ ~watched /\ queue' = queue
         \/ /\ Step("select") /\ (p \in Inner => watched)
            /\ \A q \in Paths, o \in {"touched", "gone"} :
                 Waits(q, o)' <=> Waits(q, o) \/ (q = p /\ o = op)
<1> DEFINE e == [path |-> p, op |-> op]
<1>1. CASE p \in Inner /\ ~watched
  BY <1>1 DEF Report
<1>2. CASE (p \notin Inner \/ watched) /\ queue' = Append(queue, e)
  <2>1. e \in Events /\ queue \in Seq(Events)
    BY DEF Events, WatcherTypeOK, DiskOK
  <2>2. /\ queue' # <<>> /\ Len(queue') = Len(queue) + 1 /\ Len(queue) \in Nat
        /\ \A k \in 1..Len(queue) : queue'[k] = queue[k]
        /\ queue'[Len(queue) + 1] = e
    BY <1>2, <2>1
  <2>3. ~Spent
    BY <2>2 DEF Excused, Spent, loop
  <2>4. ASSUME NEW q \in Paths, NEW o \in {"touched", "gone"}
        PROVE  Queued(q, o)' <=> Queued(q, o) \/ (q = p /\ o = op)
    <3>1. Queued(q, o) => Queued(q, o)'
      BY <2>2 DEF Queued
    <3>2. q = p /\ o = op => Queued(q, o)'
      BY <2>2 DEF Queued
    <3>3. ASSUME NEW k \in 1..Len(queue'), queue'[k] = [path |-> q, op |-> o]
          PROVE  Queued(q, o) \/ (q = p /\ o = op)
      BY <2>2, <3>3 DEF Queued
    <3> QED
      BY <3>1, <3>2, <3>3 DEF Queued
  <2> QED
    BY <1>2, <2>3, <2>4 DEF OneFlush, Waits, loop
<1>3. ~lost'
  BY DEF Excused
<1> QED
  BY <1>1, <1>2, <1>3 DEF Report

\* Before the flush nothing is in work.
LEMMA InSelect ==
  ASSUME WatcherTypeOK, StepKnows, Step("select"), UNCHANGED cur
  PROVE  /\ StepKnows' /\ cur.todo = {}
         /\ \A p \in Paths, s \in SUBSET Work : ~At(p, s) /\ ~At(p, s)'
BY DEF StepKnows, Step, At, Work

LEMMA WriteFollows ==
  ASSUME WatcherTypeOK, OneFlush, DirWatched, Follows, ~Excused',
         NEW f \in Files, Write(f) \/ Remove(f)
  PROVE  Follows'
<1>1. f \in Paths /\ Dir \in Paths /\ f # Dir /\ Inner \subseteq Files
  BY PathsAssumption DEF Paths, Files
<1>2. disk \in [Paths -> Nat] /\ version + 1 \in Nat /\ version + 1 # 0
  BY DEF WatcherTypeOK, DiskOK
<1>3. PICK op \in {"touched", "gone"} :
        /\ Report(f, op)
        /\ IF op = "touched" THEN disk' = [disk EXCEPT ![f] = version + 1]
                             ELSE disk' = [disk EXCEPT ![f] = 0]
  BY DEF Write, Remove
<1>4. /\ UNCHANGED <<seen, loop, cur, index, text, watched>>
      /\ f \in Inner => disk[Dir] # 0
  BY DEF Write, Remove, Changes, tables
<1>5. /\ \A p \in Paths \ {f} : disk'[p] = disk[p]
      /\ op = "gone" => disk'[f] = 0
  BY <1>1, <1>2, <1>3
<1>6. disk'[Dir] = disk[Dir]
  BY <1>1, <1>5
<1>7. CASE /\ Step("select") /\ (f \in Inner => watched)
           /\ \A q \in Paths, o \in {"touched", "gone"} :
                Waits(q, o)' <=> Waits(q, o) \/ (q = f /\ o = op)
  <2>1. Coming(f)' /\ \A q \in Paths : Coming(q) => Coming(q)'
    BY <1>1, <1>7 DEF Coming
  <2>2. \A q \in Paths \ {f} : Coming(q)' => Coming(q)
    BY <1>7 DEF Coming
  <2>3. Waits(Dir, "touched")' <=> Waits(Dir, "touched")
    BY <1>1, <1>7
  <2>4. StepKnows' /\ cur.todo = {} /\ ~At(Dir, {"stat", "watch"})
        /\ ~At(Dir, {"walk", "entry", "readdir"})'
    BY <1>1, <1>4, <1>7, InSelect DEF Follows, Work
  <2>5. OpsTell'
    <3>1. ASSUME NEW p \in Paths, Waits(p, "gone")', ~Waits(p, "touched")'
          PROVE  disk'[p] = 0
      <4>1. CASE p = f
        BY <1>5, <1>7, <3>1, <4>1
      <4>2. CASE p # f
        BY <1>5, <1>7, <3>1, <4>2 DEF Follows, OpsTell
      <4> QED
        BY <4>1, <4>2
    <3>2. Waits(Dir, "touched")' => ~seen'
      BY <1>4, <2>3 DEF Follows, OpsTell
    <3>3. ~seen => f \notin Inner
      BY <1>7 DEF DirWatched
    <3>4. ASSUME ~seen', NEW g \in Inner PROVE ~Coming(g)'
      BY <1>1, <1>4, <2>2, <3>3, <3>4 DEF Follows, OpsTell, Files, Paths
    <3> QED
      BY <3>1, <3>2, <3>4 DEF OpsTell
  <2>6. WillWatch'
    BY <1>4, <1>6, <2>3, <2>4 DEF Follows, WillWatch
  <2>7. NoRowsYet'
    BY <1>4, <2>4 DEF Follows, NoRowsYet, At
  <2>8. RowsRight'
    <3>1. ASSUME NEW p \in Paths, p # f, Right(p) PROVE Right(p)'
      BY <1>4, <1>5, <3>1 DEF Right
    <3>2. At(Dir, Work \ {"info"})' = At(Dir, Work \ {"info"})
          /\ \A p \in Paths : At(p, Work \ {"readdir", "info"})'
                             = At(p, Work \ {"readdir", "info"})
      BY <1>4 DEF At
    <3> QED
      BY <1>1, <1>4, <2>1, <3>1, <3>2 DEF Follows, RowsRight
  <2> QED
    BY <2>4, <2>5, <2>6, <2>7, <2>8 DEF Follows
<1>8. CASE f \in Inner /\ ~watched /\ queue' = queue
  <2>1. ~seen
    BY <1>4, <1>8 DEF DirWatched
  <2>2. \A p, o : Waits(p, o)' <=> Waits(p, o)
    BY <1>4, <1>8 DEF Waits, Queued, loop
  <2>3. \A p : Coming(p)' <=> Coming(p)
    BY <2>2 DEF Coming
  <2>4. \A p, s : At(p, s)' = At(p, s)
    BY <1>4 DEF At
  <2>5. WillWatch'
    BY <1>4, <1>6, <2>2, <2>4 DEF Follows, WillWatch
  <2>6. OpsTell'
    <3>1. ~Coming(f)
      BY <1>8, <2>1 DEF Follows, OpsTell
    <3> QED
      BY <1>4, <1>5, <2>2, <2>3, <3>1 DEF Follows, OpsTell, Coming
  <2>7. StepKnows'
    <3>1. cur.step \in Work => cur.path # f /\ cur.path \in Paths
      BY <1>8, <2>1 DEF Follows, StepKnows, WatcherTypeOK, RestOK, Jobs
    <3>2. cur.step \in Work => disk'[cur.path] = disk[cur.path]
      BY <1>5, <3>1
    <3> QED
      BY <1>4, <1>6, <2>3, <2>4, <3>2 DEF Follows, StepKnows, Step, Work
  <2>8. NoRowsYet'
    BY <1>4, <2>4 DEF Follows, NoRowsYet
  <2>9. RowsRight'
    <3>1. ASSUME NEW p \in Paths, p # f, Right(p) PROVE Right(p)'
      BY <1>4, <1>5, <3>1 DEF Right
    <3>2. Coming(Dir)' \/ At(Dir, Work \ {"info"})'
      BY <1>4, <1>8, <2>1, <2>3, <2>4 DEF Follows, WillWatch, Coming, At, Work
    <3> QED
      BY <1>4, <1>8, <2>3, <2>4, <3>1, <3>2 DEF Follows, RowsRight
  <2> QED
    BY <2>5, <2>6, <2>7, <2>8, <2>9 DEF Follows
<1> QED
  BY <1>1, <1>3, <1>4, <1>7, <1>8, Reported

LEMMA MakeDirFollows ==
  ASSUME WatcherTypeOK, OneFlush, Follows, ~Excused', ~Recreate, MakeDir
  PROVE  Follows'
<1>1. Dir \in Paths /\ Dir \notin Inner /\ Inner \subseteq Paths
  BY PathsAssumption DEF Paths, Files
<1>2. /\ UNCHANGED <<seen, loop, cur, index, text>> /\ ~seen
      /\ \A p \in Paths \ {Dir} : disk'[p] = disk[p]
      /\ Report(Dir, "touched")
  BY <1>1 DEF MakeDir, Changes, WatcherTypeOK, DiskOK, tables
<1>3. /\ Step("select")
      /\ \A q \in Paths, o \in {"touched", "gone"} :
           Waits(q, o)' <=> Waits(q, o) \/ (q = Dir /\ o = "touched")
  BY <1>1, <1>2, Reported
<1>4. /\ Coming(Dir)' /\ \A q \in Paths : Coming(q) => Coming(q)'
      /\ \A q \in Paths \ {Dir} : Coming(q)' => Coming(q)
  BY <1>1, <1>3 DEF Coming
<1>5. StepKnows' /\ cur.todo = {} /\ ~At(Dir, {"stat", "watch"})
      /\ ~At(Dir, {"walk", "entry", "readdir"})'
  BY <1>1, <1>2, <1>3, InSelect DEF Follows, Work
<1>6. OpsTell'
  <2>1. ASSUME NEW p \in Paths, Waits(p, "gone")', ~Waits(p, "touched")'
        PROVE  disk'[p] = 0
    BY <1>1, <1>2, <1>3, <2>1 DEF Follows, OpsTell
  <2>2. \A g \in Inner : ~Coming(g)'
    BY <1>1, <1>2, <1>4 DEF Follows, OpsTell
  <2> QED
    BY <1>2, <2>1, <2>2 DEF OpsTell
<1>7. WillWatch'
  BY <1>1, <1>3 DEF WillWatch
<1>8. NoRowsYet'
  BY <1>2, <1>5 DEF Follows, NoRowsYet, At
<1>9. RowsRight'
  <2>1. ASSUME NEW p \in Paths, p # Dir, Right(p) PROVE Right(p)'
    BY <1>2, <2>1 DEF Right
  <2>2. At(Dir, Work \ {"info"})' = At(Dir, Work \ {"info"})
        /\ \A p \in Paths : At(p, Work \ {"readdir", "info"})'
                           = At(p, Work \ {"readdir", "info"})
    BY <1>2 DEF At
  <2> QED
    BY <1>1, <1>2, <1>4, <2>1, <2>2 DEF Follows, RowsRight
<1> QED
  BY <1>5, <1>6, <1>7, <1>8, <1>9 DEF Follows

LEMMA LoseDirFollows ==
  ASSUME WatcherTypeOK, OneFlush, Follows, ~Excused', LoseDir
  PROVE  Follows'
<1>1. Dir \in Paths /\ Dir \notin Inner /\ Inner \subseteq Paths
  BY PathsAssumption DEF Paths, Files
<1>2. /\ UNCHANGED <<seen, loop, cur, index, text>>
      /\ disk' = [p \in Paths |-> IF p \in Inner \cup {Dir} THEN 0 ELSE disk[p]]
      /\ Report(Dir, "gone")
  BY <1>1 DEF LoseDir, Under, Changes, tables
<1>3. \A p \in Paths : disk'[p] = 0 \/ (disk'[p] = disk[p] /\ p \notin Inner \cup {Dir})
  BY <1>2
<1>4. /\ Step("select")
      /\ \A q \in Paths, o \in {"touched", "gone"} :
           Waits(q, o)' <=> Waits(q, o) \/ (q = Dir /\ o = "gone")
  BY <1>1, <1>2, Reported
<1>5. /\ Coming(Dir)' /\ \A q \in Paths : Coming(q) => Coming(q)'
      /\ \A q \in Paths \ {Dir} : Coming(q)' => Coming(q)
  BY <1>1, <1>4 DEF Coming
<1>6. StepKnows' /\ cur.todo = {} /\ ~At(Dir, {"walk", "entry", "readdir"})'
  BY <1>1, <1>2, <1>4, InSelect DEF Follows, Work
<1>7. OpsTell'
  <2>1. ASSUME NEW p \in Paths, Waits(p, "gone")', ~Waits(p, "touched")'
        PROVE  disk'[p] = 0
    BY <1>1, <1>3, <1>4, <2>1 DEF Follows, OpsTell
  <2>2. ~seen' => \A g \in Inner : ~Coming(g)'
    BY <1>1, <1>2, <1>5 DEF Follows, OpsTell
  <2> QED
    BY <1>1, <1>2, <1>4, <2>1, <2>2 DEF Follows, OpsTell
<1>8. WillWatch'
  BY <1>1, <1>2 DEF WillWatch
<1>9. NoRowsYet'
  BY <1>2, <1>6 DEF Follows, NoRowsYet, At
<1>10. RowsRight'
  <2>1. ASSUME NEW p \in Paths, p \notin Inner \cup {Dir}, Right(p) PROVE Right(p)'
    BY <1>2, <2>1 DEF Right
  <2>2. \A p \in Paths : At(p, Work \ {"readdir", "info"})'
                       = At(p, Work \ {"readdir", "info"})
    BY <1>2 DEF At
  <2> QED
    BY <1>1, <1>2, <1>5, <2>1, <2>2 DEF Follows, RowsRight
<1> QED
  BY <1>6, <1>7, <1>8, <1>9, <1>10 DEF Follows

LEMMA WorldFollows ==
  ASSUME WatcherTypeOK, OneFlush, DirWatched, Follows, ~Excused', ~Recreate, World
  PROVE  Follows'
BY WriteFollows, MakeDirFollows, LoseDirFollows DEF World

-----------------------------------------------------------------------------
(* The select loop *)

\* Everything that waits still does, and nothing is in work, or all goes on.
LEMMA Still ==
  ASSUME WatcherTypeOK, Follows, UNCHANGED <<disk, seen, index, text>>,
         \A p \in Paths, o \in {"touched", "gone"} : Waits(p, o)' <=> Waits(p, o),
         \/ cur' = cur
         \/ /\ cur.step \in {"select", "next"} /\ cur'.step \in {"select", "next"}
            /\ cur'.todo = {}
  PROVE  Follows'
<1>1. Dir \in Paths /\ Inner \subseteq Paths /\ cur.path \in Paths
  BY DEF Paths, Files, WatcherTypeOK, RestOK, Jobs
<1>2. \A p \in Paths : Coming(p)' <=> Coming(p)
  BY DEF Coming
<1>3. OpsTell'
  BY <1>1, <1>2 DEF Follows, OpsTell
<1>4. CASE cur' = cur
  <2>1. \A p, s : At(p, s)' = At(p, s)
    BY <1>4 DEF At
  <2>2. WillWatch'
    BY <1>1, <2>1 DEF Follows, WillWatch
  <2>3. StepKnows'
    BY <1>1, <1>2, <1>4, <2>1 DEF Follows, StepKnows, Step
  <2>4. NoRowsYet'
    BY <1>4, <2>1 DEF Follows, NoRowsYet
  <2>5. RowsRight'
    BY <1>1, <1>2, <1>4, <2>1 DEF Follows, RowsRight, Right
  <2> QED
    BY <1>3, <2>2, <2>3, <2>4, <2>5 DEF Follows
<1>5. CASE /\ cur.step \in {"select", "next"} /\ cur'.step \in {"select", "next"}
           /\ cur'.todo = {}
  <2>1. \A p : \A s \in SUBSET Work : ~At(p, s) /\ ~At(p, s)'
    BY <1>5 DEF At, Work
  <2>2. cur.todo = {}
    BY <1>5 DEF Follows, StepKnows
  <2>3. ~At(Dir, {"stat", "watch"}) /\ ~At(Dir, {"walk", "entry", "readdir"})'
    BY <2>1 DEF Work
  <2>4. WillWatch'
    BY <1>1, <2>3 DEF Follows, WillWatch
  <2>5. StepKnows'
    BY <1>5 DEF StepKnows, Step, At, Work
  <2>6. NoRowsYet'
    BY <1>5, <2>3 DEF Follows, NoRowsYet
  <2>7. RowsRight'
    BY <1>1, <1>2, <1>5, <2>1, <2>2 DEF Follows, RowsRight, Right
  <2> QED
    BY <1>3, <2>4, <2>5, <2>6, <2>7 DEF Follows
<1> QED
  BY <1>4, <1>5

LEMMA ReceiveFollows ==
  ASSUME WatcherTypeOK, Follows, Receive
  PROVE  Follows'
<1>1. queue \in Seq(Events) /\ queue # <<>> /\ queue' = Tail(queue)
      /\ pending \in [Paths -> Operations]
  BY DEF Receive, WatcherTypeOK, DiskOK, LoopOK
<1>2. /\ Len(queue') = Len(queue) - 1 /\ Len(queue) \in Nat \ {0}
      /\ \A k \in 1..Len(queue') : queue'[k] = queue[k + 1]
      /\ Head(queue) = queue[1]
  BY <1>1
<1>3. ASSUME NEW p \in Paths, NEW o \in {"touched", "gone"}
      PROVE  Waits(p, o)' <=> Waits(p, o)
  <2> DEFINE e == [path |-> p, op |-> o]
  <2>1. Head(queue) \in Events /\ Head(queue).path \in Paths
    BY ReceivePends DEF Events
  <2>2. o \in pending'[p] <=> o \in pending[p] \/ Head(queue) = e
    <3>1. Head(queue) = [path |-> Head(queue).path, op |-> Head(queue).op]
      BY <2>1 DEF Events
    <3>2. pending' = [pending EXCEPT ![Head(queue).path] = @ \cup {Head(queue).op}]
      BY ReceivePends
    <3>3. CASE Head(queue).path = p
      BY <1>1, <3>1, <3>2, <3>3
    <3>4. CASE Head(queue).path # p
      BY <1>1, <3>2, <3>4
    <3> QED
      BY <3>3, <3>4
  <2>3. Queued(p, o) <=> Head(queue) = e \/ Queued(p, o)'
    <3>1. Queued(p, o)' => Queued(p, o)
      BY <1>2 DEF Queued
    <3>2. Head(queue) = e => Queued(p, o)
      BY <1>2 DEF Queued
    <3>3. ASSUME NEW k \in 1..Len(queue), queue[k] = e
          PROVE  Head(queue) = e \/ Queued(p, o)'
      <4>1. CASE k = 1
        BY <1>2, <3>3, <4>1
      <4>2. CASE k # 1
        <5>1. k - 1 \in 1..Len(queue') /\ queue'[k - 1] = queue[k]
          BY <1>2, <4>2
        <5> QED
          BY <3>3, <5>1 DEF Queued
      <4> QED
        BY <4>1, <4>2
    <3> QED
      BY <3>1, <3>2, <3>3 DEF Queued
  <2> QED
    BY <2>2, <2>3 DEF Waits, Receive
<1> QED
  BY <1>3, Still DEF Receive, tables

LEMMA FlushFollows ==
  ASSUME WatcherTypeOK, OneFlush, Follows, Flush
  PROVE  Follows'
<1>1. batch = Nothing /\ batch' = pending /\ pending' = Nothing
      /\ UNCHANGED <<disk, seen, index, text, queue>>
  BY DEF OneFlush, Flush, fs, tables
<1>2. ASSUME NEW p \in Paths, NEW o \in {"touched", "gone"}
      PROVE  Waits(p, o)' <=> Waits(p, o)
  BY <1>1 DEF Waits, Queued, Nothing
<1>3. cur.step = "select" /\ cur' = [cur EXCEPT !.step = "next"]
      /\ cur.todo = {} /\ cur \in Jobs
  BY DEF Flush, Goto, Step, Follows, StepKnows, WatcherTypeOK, RestOK
<1>4. cur'.step = "next" /\ cur'.todo = {}
  BY <1>3 DEF Jobs
<1> QED
  BY <1>1, <1>2, <1>3, <1>4, Still

LEMMA LoopFollows ==
  ASSUME WatcherTypeOK, OneFlush, Follows, ~Excused',
         Receive \/ RecordError \/ Flush \/ TimerFires
  PROVE  Follows'
<1>1. RecordError => Excused'
  BY DEF RecordError, Excused
<1>2. ASSUME TimerFires PROVE Follows'
  <2>1. UNCHANGED <<disk, seen, index, text, cur, pending, batch, queue>>
    BY <1>2 DEF TimerFires, fs, tables
  <2>2. \A p, o : Waits(p, o)' <=> Waits(p, o)
    BY <2>1 DEF Waits, Queued
  <2> QED
    BY <2>1, <2>2, Still
<1> QED
  BY <1>1, <1>2, ReceiveFollows, FlushFollows

-----------------------------------------------------------------------------
(* The handling of events *)

\* While a batch is worked off, only what is in it waits.
LEMMA OnlyBatch ==
  ASSUME WatcherTypeOK, OneFlush, ~Excused, Handling
  PROVE  /\ Spent /\ ~Step("select")
         /\ UNCHANGED <<disk, queue, pending>>
         /\ \A p \in Paths, o \in {"touched", "gone"} :
              /\ Waits(p, o) <=> o \in batch[p]
              /\ Waits(p, o)' <=> o \in batch'[p]
<1>1. ~Step("select") /\ UNCHANGED <<disk, queue, pending>>
  BY DEF Handling, BatchDone, Stat, Delete, AddWatch, WalkRoot,
     UpsertRow, ReadDir, EventDone, ReadText, UpsertText, Fail, TakeEvent,
     NextFile, loop, Step, fs
<1>2. Spent
  BY <1>1 DEF OneFlush
<1>3. queue = <<>> /\ pending = Nothing
  BY <1>2 DEF Excused
<1>4. queue' = <<>> /\ pending' = Nothing
  BY <1>1, <1>3
<1> QED
  BY <1>1, <1>2, <1>3, <1>4 DEF Waits, Queued, Nothing

\* A step that takes no event: the same operations wait.
LEMMA SameWaits ==
  ASSUME WatcherTypeOK, OneFlush, ~Excused, Follows, Handling, batch' = batch
  PROVE  /\ disk' = disk
         /\ \A p \in Paths : Coming(p)' <=> Coming(p)
         /\ Waits(Dir, "touched")' <=> Waits(Dir, "touched")
         /\ seen' = seen => OpsTell'
<1>1. Dir \in Paths /\ Inner \subseteq Paths
  BY DEF Paths, Files
<1>2. disk' = disk /\ \A p \in Paths, o \in {"touched", "gone"} :
                      Waits(p, o)' <=> Waits(p, o)
  BY OnlyBatch
<1>3. \A p \in Paths : Coming(p)' <=> Coming(p)
  BY <1>2 DEF Coming
<1>4. seen' = seen => OpsTell'
  BY <1>1, <1>2, <1>3 DEF Follows, OpsTell
<1> QED
  BY <1>1, <1>2, <1>3, <1>4

LEMMA CurIs ==
  ASSUME WatcherTypeOK
  PROVE  /\ cur \in Jobs /\ cur.path \in Paths /\ cur.todo \subseteq Inner
         /\ cur.step \in Work \cup {"select", "next"}
         /\ Dir \in Paths /\ Dir \notin Files /\ Inner \subseteq Files
         /\ Files \subseteq Paths /\ Paths = Files \cup {Dir}
         /\ index \in [Paths -> Nat] /\ text \in [Files -> Nat]
BY PathsAssumption DEF WatcherTypeOK, RestOK, Jobs, Paths, Files

LEMMA TakeFollows ==
  ASSUME WatcherTypeOK, OneFlush, ~Excused, Follows, NEW p \in Paths, TakeEvent(p)
  PROVE  Follows'
<1> USE CurIs
<1>1. /\ cur.step = "next" /\ batch[p] # {} /\ batch[p] \subseteq {"touched", "gone"}
      /\ batch \in [Paths -> Operations] /\ batch' = [batch EXCEPT ![p] = {}]
      /\ cur'.path = p /\ cur'.todo = {}
      /\ cur'.step = IF "touched" \in batch[p] THEN "stat" ELSE "delete"
      /\ UNCHANGED <<disk, seen, index, text>>
  BY DEF TakeEvent, Step, WatcherTypeOK, LoopOK, Operations, fs, tables
<1>2. /\ \A q \in Paths, o \in {"touched", "gone"} :
           Waits(q, o) <=> o \in batch[q]
      /\ \A q \in Paths, o \in {"touched", "gone"} :
           Waits(q, o)' <=> o \in batch'[q]
  BY OnlyBatch DEF Handling
<1>3. \A q \in Paths, o \in {"touched", "gone"} :
        Waits(q, o)' <=> Waits(q, o) /\ q # p
  BY <1>1, <1>2
<1>4. Coming(p) /\ ~Coming(p)' /\ \A q \in Paths : Coming(q)' <=> Coming(q) /\ q # p
  BY <1>1, <1>2, <1>3 DEF Coming
<1>5. cur.todo = {} /\ \A q : \A s \in SUBSET Work : ~At(q, s)
  BY <1>1 DEF Follows, StepKnows, At, Work
<1>6. OpsTell'
  BY <1>1, <1>3, <1>4 DEF Follows, OpsTell
<1>7. WillWatch'
  <2>1. ASSUME ~seen', disk'[Dir] # 0 PROVE Waits(Dir, "touched")
    BY <1>1, <1>5, <2>1 DEF Follows, WillWatch, Work
  <2>2. ASSUME Waits(Dir, "touched"), p = Dir PROVE At(Dir, {"stat", "watch"})'
    BY <1>1, <1>2, <2>2 DEF At
  <2> QED
    BY <1>3, <2>1, <2>2 DEF WillWatch
<1>8. StepKnows'
  <2>1. cur'.step = "stat" /\ p = Dir => ~seen
    BY <1>1, <1>2 DEF Follows, OpsTell
  <2>2. cur'.step = "delete" => disk[p] = 0
    BY <1>1, <1>2 DEF Follows, OpsTell
  <2>3. p \in Inner => seen
    BY <1>4 DEF Follows, OpsTell
  <2> QED
    BY <1>1, <1>4, <2>1, <2>2, <2>3 DEF StepKnows, Step, At
<1>9. NoRowsYet'
  BY <1>1 DEF Follows, NoRowsYet, At
<1>10. RowsRight'
  <2>1. At(p, Work \ {"readdir", "info"})' /\ (p = Dir => At(Dir, Work \ {"info"})')
    BY <1>1 DEF At, Work
  <2> QED
    BY <1>1, <1>4, <1>5, <2>1 DEF Follows, RowsRight, Right
<1> QED
  BY <1>6, <1>7, <1>8, <1>9, <1>10 DEF Follows

LEMMA DoneFollows ==
  ASSUME WatcherTypeOK, OneFlush, ~Excused, Follows, BatchDone
  PROVE  Follows'
<1>1. UNCHANGED <<disk, seen, index, text>> /\ Handling /\ batch' = batch
  BY DEF BatchDone, Handling, fs, loop, tables
<1>2. \A p \in Paths, o \in {"touched", "gone"} : Waits(p, o)' <=> Waits(p, o)
  BY <1>1, OnlyBatch
<1>3. cur.step = "next" /\ cur'.step = "select" /\ cur'.todo = {}
  BY DEF BatchDone, Idle, Step
<1> QED
  BY <1>1, <1>2, <1>3, Still

LEMMA StatFollows ==
  ASSUME WatcherTypeOK, OneFlush, ~Excused, Follows, Stat
  PROVE  Follows'
<1> USE CurIs
<1>1. /\ cur.step = "stat" /\ cur'.path = cur.path /\ cur'.todo = cur.todo
      /\ cur'.ver = disk[cur.path]
      /\ cur'.step = IF disk[cur.path] = 0 THEN "delete"
                     ELSE IF cur.path = Dir THEN "watch" ELSE "entry"
      /\ UNCHANGED <<seen, index, text, batch>>
  BY DEF Stat, Step, Jobs, loop, tables
<1>2. /\ disk' = disk /\ \A p \in Paths : Coming(p)' <=> Coming(p)
      /\ Waits(Dir, "touched")' <=> Waits(Dir, "touched")
      /\ OpsTell'
  BY <1>1, SameWaits DEF Handling
<1>3. cur.todo = {} /\ ~Coming(cur.path) /\ (cur.path = Dir => ~seen)
      /\ (cur.path \in Inner => seen)
  BY <1>1 DEF Follows, StepKnows, Step, Work
<1>4. \/ cur'.step = "delete" /\ disk[cur.path] = 0
      \/ cur'.step = "watch" /\ disk[cur.path] # 0 /\ cur.path = Dir
      \/ cur'.step = "entry" /\ cur.path \in Files
  BY <1>1
<1>5. WillWatch'
  BY <1>1, <1>2, <1>4 DEF Follows, WillWatch, At
<1>6. StepKnows'
  BY <1>1, <1>2, <1>3, <1>4 DEF StepKnows, Step, At
<1>7. NoRowsYet'
  BY <1>1, <1>3, <1>4 DEF Follows, NoRowsYet, At
<1>8. RowsRight'
  <2>1. \A p : /\ At(p, Work \ {"readdir", "info"})' = At(p, Work \ {"readdir", "info"})
              /\ At(p, Work \ {"info"})' = At(p, Work \ {"info"})
    BY <1>1, <1>4 DEF At, Work
  <2> QED
    BY <1>1, <1>2, <2>1 DEF Follows, RowsRight, Right
<1> QED
  BY <1>2, <1>5, <1>6, <1>7, <1>8 DEF Follows

LEMMA DeleteFollows ==
  ASSUME WatcherTypeOK, OneFlush, DirWatched, ~Excused, Follows, Delete
  PROVE  Follows'
<1> USE CurIs
<1>1. /\ cur.step = "delete" /\ cur'.step = "next" /\ cur'.todo = cur.todo
      /\ index' = [p \in Paths |-> IF p \in Under(cur.path) THEN 0 ELSE index[p]]
      /\ text' = [f \in Files |-> IF f \in Under(cur.path) THEN 0 ELSE text[f]]
      /\ UNCHANGED <<seen, batch>>
  BY DEF Delete, Goto, Step, Jobs, loop
<1>2. /\ disk' = disk /\ \A p \in Paths : Coming(p)' <=> Coming(p)
      /\ Waits(Dir, "touched")' <=> Waits(Dir, "touched")
      /\ OpsTell'
  BY <1>1, SameWaits DEF Handling
<1>3. cur.todo = {} /\ disk[cur.path] = 0
  BY <1>1 DEF Follows, StepKnows, Step
<1>4. \A p \in Under(cur.path) : disk[p] = 0
  BY <1>3 DEF Under, DirWatched
<1>5. WillWatch'
  BY <1>1, <1>2 DEF Follows, WillWatch, At
<1>6. StepKnows'
  BY <1>1, <1>3 DEF StepKnows, Step, At, Work
<1>7. NoRowsYet'
  BY <1>1, <1>3 DEF Follows, NoRowsYet, At
<1>8. RowsRight'
  <2>1. ASSUME NEW p \in Paths, p \in Under(cur.path) PROVE Right(p)'
    BY <1>1, <1>2, <1>4, <2>1 DEF Right
  <2>2. ASSUME NEW p \in Paths, p \notin Under(cur.path), Right(p) PROVE Right(p)'
    BY <1>1, <1>2, <2>2 DEF Right
  <2>3. ASSUME NEW p \in Paths, p \notin Under(cur.path)
        PROVE  /\ ~At(p, Work \ {"readdir", "info"})
               /\ p \in Inner => ~At(Dir, Work \ {"info"})
    BY <2>3 DEF Under, At
  <2> QED
    BY <1>2, <1>3, <2>1, <2>2, <2>3 DEF Follows, RowsRight
<1> QED
  BY <1>2, <1>5, <1>6, <1>7, <1>8 DEF Follows

LEMMA AddWatchFollows ==
  ASSUME WatcherTypeOK, OneFlush, ~Excused, Follows, AddWatch
  PROVE  Follows'
<1> USE CurIs
<1>1. /\ cur.step = "watch" /\ cur'.step = "walk" /\ cur'.todo = cur.todo
      /\ cur'.path = cur.path
      /\ disk[Dir] # 0 /\ ~seen => seen'
      /\ UNCHANGED <<index, text, batch>>
  BY DEF AddWatch, Goto, Step, Jobs, loop, tables
<1>2. /\ disk' = disk /\ \A p \in Paths : Coming(p)' <=> Coming(p)
      /\ Waits(Dir, "touched")' <=> Waits(Dir, "touched")
  BY <1>1, SameWaits DEF Handling
<1>3. cur.todo = {} /\ cur.path = Dir /\ ~seen /\ disk[Dir] # 0 /\ ~Coming(Dir)
  BY <1>1 DEF Follows, StepKnows, Step
<1>4. OpsTell'
  <2>1. \A p \in Paths, o \in {"touched", "gone"} : Waits(p, o)' <=> Waits(p, o)
    BY <1>1, OnlyBatch DEF Handling
  <2> QED
    BY <1>1, <1>2, <1>3, <2>1 DEF Follows, OpsTell, Coming
<1>5. WillWatch'
  BY <1>1, <1>3 DEF WillWatch
<1>6. StepKnows'
  BY <1>1, <1>2, <1>3 DEF StepKnows, Step, At
<1>7. NoRowsYet'
  BY <1>1, <1>3 DEF Follows, NoRowsYet
<1>8. RowsRight'
  <2>1. \A p : At(p, Work \ {"readdir", "info"})' = At(p, Work \ {"readdir", "info"})
              /\ At(p, Work \ {"info"})' = At(p, Work \ {"info"})
    BY <1>1 DEF At, Work
  <2> QED
    BY <1>1, <1>2, <2>1 DEF Follows, RowsRight, Right
<1> QED
  BY <1>4, <1>5, <1>6, <1>7, <1>8 DEF Follows

LEMMA WalkFollows ==
  ASSUME WatcherTypeOK, OneFlush, ~Excused, Follows, WalkRoot
  PROVE  Follows'
<1> USE CurIs
<1>1. /\ cur.step = "walk" /\ cur.path = Dir /\ disk[Dir] # 0 /\ cur'.path = Dir
      /\ cur'.ver = disk[Dir] /\ cur'.step = "entry" /\ cur'.todo = cur.todo
      /\ UNCHANGED <<seen, index, text, batch>> /\ seen /\ cur.todo = {}
  BY DEF WalkRoot, Step, Jobs, loop, tables, Follows, StepKnows
<1>2. /\ disk' = disk /\ \A p \in Paths : Coming(p)' <=> Coming(p)
      /\ OpsTell'
  BY <1>1, SameWaits DEF Handling
<1>3. WillWatch'
  BY <1>1 DEF WillWatch
<1>4. StepKnows'
  BY <1>1, <1>2 DEF StepKnows, Step, At
<1>5. NoRowsYet'
  BY <1>1 DEF Follows, NoRowsYet, At
<1>6. RowsRight'
  <2>1. \A p : /\ At(p, Work \ {"readdir", "info"})' = At(p, Work \ {"readdir", "info"})
              /\ At(p, Work \ {"info"})' = At(p, Work \ {"info"})
    BY <1>1 DEF At, Work
  <2> QED
    BY <1>1, <1>2, <2>1 DEF Follows, RowsRight, Right
<1> QED
  BY <1>2, <1>3, <1>4, <1>5, <1>6 DEF Follows

LEMMA RowFollows ==
  ASSUME WatcherTypeOK, OneFlush, ~Excused, Follows, UpsertRow
  PROVE  Follows'
<1> USE CurIs
<1>1. /\ cur.step = "entry" /\ cur'.path = cur.path /\ cur'.todo = cur.todo
      /\ cur'.step = IF cur.path = Dir THEN "readdir" ELSE "read"
      /\ index' = [index EXCEPT ![cur.path] = cur.ver]
      /\ UNCHANGED <<seen, text, batch>>
  BY DEF UpsertRow, Goto, Step, Jobs, loop
<1>2. /\ disk' = disk /\ \A p \in Paths : Coming(p)' <=> Coming(p)
      /\ Waits(Dir, "touched")' <=> Waits(Dir, "touched")
      /\ OpsTell'
  BY <1>1, SameWaits DEF Handling
<1>3. /\ cur.ver = disk[cur.path] /\ (cur.path = Dir => seen /\ cur.todo = {})
      /\ (cur.path \in Inner => seen) /\ (cur.todo # {} => seen)
      /\ cur.path \notin cur.todo
  BY <1>1 DEF Follows, StepKnows, At, Work
<1>4. index'[cur.path] = disk'[cur.path]
      /\ \A p \in Paths : p # cur.path => index'[p] = index[p]
  BY <1>1, <1>2, <1>3
<1>5. WillWatch'
  BY <1>1, <1>2 DEF Follows, WillWatch, At
<1>6. StepKnows'
  BY <1>1, <1>2, <1>3, <1>4 DEF StepKnows, Step, At, Work
<1>7. NoRowsYet'
  <2>1. ASSUME NEW f \in Inner,
               ~seen \/ At(Dir, {"walk", "entry", "readdir"})' \/ f \in cur.todo
        PROVE  f # cur.path /\
               (~seen \/ At(Dir, {"walk", "entry", "readdir"}) \/ f \in cur.todo)
    BY <1>1, <1>3, <2>1 DEF At
  <2> QED
    BY <1>1, <1>4, <2>1 DEF Follows, NoRowsYet
<1>8. RowsRight'
  <2>1. ASSUME NEW p \in Paths, p # cur.path, Right(p) PROVE Right(p)'
    BY <1>1, <1>2, <1>4, <2>1 DEF Right
  <2>2. Right(cur.path)' \/ At(cur.path, Work \ {"readdir", "info"})'
    BY <1>1, <1>4 DEF Right, At, Work
  <2>3. ASSUME NEW p \in Paths, p # cur.path
        PROVE  /\ ~At(p, Work \ {"readdir", "info"})
               /\ At(Dir, Work \ {"info"}) => At(Dir, Work \ {"info"})'
    BY <1>1, <2>3 DEF At, Work
  <2> QED
    BY <1>1, <1>2, <2>1, <2>2, <2>3 DEF Follows, RowsRight
<1> QED
  BY <1>2, <1>5, <1>6, <1>7, <1>8 DEF Follows

LEMMA ReadDirFollows ==
  ASSUME WatcherTypeOK, OneFlush, ~Excused, Follows, ReadDir
  PROVE  Follows'
<1> USE CurIs
<1>1. /\ cur.step = "readdir" /\ cur'.path = cur.path /\ cur'.step = "info"
      /\ cur'.todo = {f \in Inner : disk[f] # 0}
      /\ UNCHANGED <<seen, index, text, batch>>
  BY DEF ReadDir, Step, Jobs, loop, tables
<1>2. cur.path = Dir /\ seen /\ index[Dir] = disk[Dir] /\ cur.todo = {}
  BY <1>1 DEF Follows, StepKnows, Step
<1>3. /\ disk' = disk /\ \A p \in Paths : Coming(p)' <=> Coming(p)
      /\ OpsTell'
  BY <1>1, SameWaits DEF Handling
<1>4. WillWatch'
  BY <1>1, <1>2 DEF WillWatch
<1>5. StepKnows'
  BY <1>1, <1>2, <1>3 DEF StepKnows, Step, At
<1>6. \A f \in Inner : index[f] = 0 /\ text[f] = 0
  BY <1>1, <1>2 DEF Follows, NoRowsYet, At
<1>7. NoRowsYet'
  BY <1>1, <1>6 DEF NoRowsYet
<1>8. RowsRight'
  <2>1. \A f \in Inner : Right(f)' \/ f \in cur'.todo
    BY <1>1, <1>3, <1>6 DEF Right
  <2>2. Right(Dir)'
    BY <1>1, <1>2, <1>3 DEF Right
  <2>3. ASSUME NEW p \in Paths, p \notin Inner, p # Dir, ~Right(p)' PROVE Coming(p)
    <3>1. ~Right(p) /\ ~At(p, Work \ {"readdir", "info"})
      BY <1>1, <1>2, <1>3, <2>3 DEF Right, At
    <3> QED
      BY <2>3, <3>1 DEF Follows, RowsRight
  <2> QED
    BY <1>3, <2>1, <2>2, <2>3 DEF RowsRight
<1> QED
  BY <1>3, <1>4, <1>5, <1>7, <1>8 DEF Follows

LEMMA NextFileFollows ==
  ASSUME WatcherTypeOK, OneFlush, ~Excused, Follows, NEW f \in Inner, NextFile(f)
  PROVE  Follows'
<1> USE CurIs
<1>1. /\ cur.step = "info" /\ f \in cur.todo /\ cur'.path = f /\ cur'.ver = disk[f]
      /\ cur'.todo = cur.todo \ {f}
      /\ cur'.step = IF disk[f] = 0 THEN "info" ELSE "entry"
      /\ UNCHANGED <<seen, index, text, batch>>
  BY DEF NextFile, Step, Jobs, loop, tables
<1>2. seen
  BY <1>1 DEF Follows, StepKnows
<1>3. /\ disk' = disk /\ \A p \in Paths : Coming(p)' <=> Coming(p)
      /\ OpsTell'
  BY <1>1, SameWaits DEF Handling
<1>4. WillWatch'
  BY <1>1, <1>2 DEF WillWatch
<1>5. StepKnows'
  BY <1>1, <1>2, <1>3 DEF StepKnows, Step, At, Work
<1>6. NoRowsYet'
  BY <1>1, <1>2 DEF Follows, NoRowsYet, At
<1>7. RowsRight'
  <2>1. Right(f)' \/ At(f, Work \ {"readdir", "info"})'
    <3>1. CASE disk[f] = 0
      BY <1>1, <1>3, <3>1 DEF Follows, NoRowsYet, Right
    <3>2. CASE disk[f] # 0
      BY <1>1, <3>2 DEF At, Work
    <3> QED
      BY <3>1, <3>2
  <2>2. ASSUME NEW p \in Paths, p # f
        PROVE  /\ Right(p) => Right(p)'
               /\ ~At(p, Work \ {"readdir", "info"}) /\ ~At(Dir, Work \ {"info"})
               /\ p \in cur.todo => p \in cur'.todo
    BY <1>1, <1>3, <2>2 DEF Right, At
  <2> QED
    BY <1>3, <2>1, <2>2 DEF Follows, RowsRight
<1> QED
  BY <1>3, <1>4, <1>5, <1>6, <1>7 DEF Follows

LEMMA EventDoneFollows ==
  ASSUME WatcherTypeOK, OneFlush, ~Excused, Follows, EventDone
  PROVE  Follows'
<1> USE CurIs
<1>1. /\ cur.step = "info" /\ cur.todo = {} /\ cur'.step = "next" /\ cur'.todo = {}
      /\ UNCHANGED <<seen, index, text, batch>>
  BY DEF EventDone, Goto, Step, Jobs, loop, tables
<1>2. /\ disk' = disk /\ \A p \in Paths : Coming(p)' <=> Coming(p)
      /\ Waits(Dir, "touched")' <=> Waits(Dir, "touched")
      /\ OpsTell'
  BY <1>1, SameWaits DEF Handling
<1>3. WillWatch'
  BY <1>1, <1>2 DEF Follows, WillWatch, At
<1>4. StepKnows'
  BY <1>1 DEF StepKnows, Step, At, Work
<1>5. NoRowsYet'
  BY <1>1 DEF Follows, NoRowsYet, At
<1>6. RowsRight'
  <2>1. \A p : ~At(p, Work \ {"readdir", "info"}) /\ ~At(p, Work \ {"info"})
    BY <1>1 DEF At
  <2> QED
    BY <1>1, <1>2, <2>1 DEF Follows, RowsRight, Right
<1> QED
  BY <1>2, <1>3, <1>4, <1>5, <1>6 DEF Follows

LEMMA ReadFollows ==
  ASSUME WatcherTypeOK, OneFlush, ~Excused, Follows, ReadText, ~MayMisread
  PROVE  Follows'
<1> USE CurIs
<1>1. /\ cur.step = "read" /\ cur' = [cur EXCEPT !.ver = disk[cur.path], !.step = "text"]
      /\ UNCHANGED <<seen, index, text, batch>>
  BY DEF ReadText, Step, loop, tables
<1>2. /\ cur'.step = "text" /\ cur'.ver = disk[cur.path]
      /\ cur'.path = cur.path /\ cur'.todo = cur.todo
  BY <1>1 DEF Jobs
<1>3. /\ disk' = disk /\ \A p \in Paths : Coming(p)' <=> Coming(p)
      /\ Waits(Dir, "touched")' <=> Waits(Dir, "touched")
      /\ OpsTell'
  BY <1>1, SameWaits DEF Handling
<1>4. WillWatch'
  BY <1>1, <1>2, <1>3 DEF Follows, WillWatch, At
<1>5. StepKnows'
  BY <1>1, <1>2, <1>3 DEF Follows, StepKnows, Step, At, Work
<1>6. NoRowsYet'
  BY <1>1, <1>2 DEF Follows, NoRowsYet, At
<1>7. RowsRight'
  <2>1. \A p : /\ At(p, Work \ {"readdir", "info"})' = At(p, Work \ {"readdir", "info"})
              /\ At(p, Work \ {"info"})' = At(p, Work \ {"info"})
    BY <1>1, <1>2 DEF At, Work
  <2> QED
    BY <1>1, <1>2, <1>3, <2>1 DEF Follows, RowsRight, Right
<1> QED
  BY <1>3, <1>4, <1>5, <1>6, <1>7 DEF Follows

LEMMA TextFollows ==
  ASSUME WatcherTypeOK, OneFlush, ~Excused, Follows, UpsertText
  PROVE  Follows'
<1> USE CurIs
<1>1. /\ cur.step = "text" /\ cur'.path = cur.path /\ cur'.todo = cur.todo
      /\ cur'.step = "info"
      /\ text' = [text EXCEPT ![cur.path] = cur.ver]
      /\ UNCHANGED <<seen, index, batch>>
  BY DEF UpsertText, Goto, Step, Jobs, loop
<1>2. /\ disk' = disk /\ \A p \in Paths : Coming(p)' <=> Coming(p)
      /\ Waits(Dir, "touched")' <=> Waits(Dir, "touched")
      /\ OpsTell'
  BY <1>1, SameWaits DEF Handling
<1>3. /\ cur.path \in Files /\ index[cur.path] = disk[cur.path]
      /\ cur.ver = disk[cur.path] /\ cur.path \notin cur.todo
      /\ (cur.path \in Inner => seen) /\ (cur.todo # {} => seen)
  BY <1>1 DEF Follows, StepKnows, Work
<1>4. WillWatch'
  BY <1>1, <1>2 DEF Follows, WillWatch, At
<1>5. StepKnows'
  BY <1>1, <1>3 DEF StepKnows, Step, At, Work
<1>6. NoRowsYet'
  BY <1>1, <1>3 DEF Follows, NoRowsYet, At
<1>7. RowsRight'
  <2>1. Right(cur.path)'
    BY <1>1, <1>2, <1>3 DEF Right
  <2>2. ASSUME NEW p \in Paths, p # cur.path
        PROVE  /\ Right(p) => Right(p)'
               /\ ~At(p, Work \ {"readdir", "info"}) /\ ~At(Dir, Work \ {"info"})
    BY <1>1, <1>2, <1>3, <2>2 DEF Right, At
  <2> QED
    BY <1>1, <1>2, <2>1, <2>2 DEF Follows, RowsRight
<1> QED
  BY <1>2, <1>4, <1>5, <1>6, <1>7 DEF Follows

LEMMA HandlingFollows ==
  ASSUME WatcherTypeOK, OneFlush, DirWatched, ~Excused, ~Excused', Follows,
         Handling, ~MayMisread
  PROVE  Follows'
<1>1. Fail => Excused'
  BY DEF Fail, Excused
<1> QED
  BY <1>1, TakeFollows, DoneFollows, StatFollows, DeleteFollows, AddWatchFollows,
     WalkFollows, RowFollows, ReadDirFollows, NextFileFollows, EventDoneFollows,
     ReadFollows, TextFollows DEF Handling

-----------------------------------------------------------------------------
(* The theorem *)

LEMMA FollowStep ==
  ASSUME WatcherTypeOK, FollowInv, [Next]_vars, ~MayMisread, ~Recreate
  PROVE  FollowInv'
<1>1. OneFlush' /\ DirWatched'
  BY OneFlushStep, DirWatchedStep DEF FollowInv
<1>2. ASSUME ~Excused' PROVE Follows'
  <2>1. ~Excused /\ Follows /\ OneFlush /\ DirWatched
    BY <1>2, ExcusedStays DEF FollowInv
  <2>2. CASE UNCHANGED vars
    <3>1. \A p, o : Waits(p, o)' <=> Waits(p, o)
      BY <2>2 DEF Waits, Queued, vars, fs, loop
    <3> QED
      BY <2>1, <2>2, <3>1, Still DEF vars, fs, tables
  <2> QED
    BY <1>2, <2>1, <2>2, NextIs, WorldFollows, LoopFollows, HandlingFollows
<1> QED
  BY <1>1, <1>2 DEF FollowInv

LEMMA AtRestRight ==
  ASSUME WatcherTypeOK, FollowInv
  PROVE  AtRestAligned
<1> USE CurIs
<1>1. SUFFICES ASSUME AtRest, ~needsRescan
               PROVE  index = disk /\ \A f \in Files : text[f] = disk[f]
  BY DEF AtRestAligned
<1>2. Follows /\ batch = Nothing /\ queue = <<>> /\ pending = Nothing
      /\ cur.step = "select"
  BY <1>1 DEF AtRest, Excused, FollowInv, OneFlush, Step
<1>3. cur.todo = {}
  BY <1>2 DEF Follows, StepKnows
<1>4. \A p \in Paths : ~Coming(p)
  BY <1>2 DEF Coming, Waits, Queued, Nothing
<1>5. \A p \in Paths : ~At(p, Work \ {"readdir", "info"}) /\ ~At(p, Work \ {"info"})
  BY <1>2 DEF At, Work
<1>6. \A p \in Paths : Right(p)
  BY <1>2, <1>3, <1>4, <1>5 DEF Follows, RowsRight
<1> QED
  BY <1>6 DEF Right, WatcherTypeOK, DiskOK

\* When the watcher has nothing left to do and asks for no rescan, the index and
\* the text are those of the disk.  Two conditions are the code's: a text that
\* cannot be read is stored as empty without an error, and a directory that
\* comes back under its old path is not watched again.
THEOREM RestAligned ==
  ASSUME ~MayMisread, ~Recreate
  PROVE  Spec => []AtRestAligned
<1>1. Init => WatcherTypeOK /\ FollowInv
  BY TypeInit, FollowInit
<1>2. WatcherTypeOK /\ FollowInv /\ [Next]_vars => (WatcherTypeOK /\ FollowInv)'
  BY TypeNext, FollowStep
<1>3. WatcherTypeOK /\ FollowInv => AtRestAligned
  BY AtRestRight
<1> QED
  BY <1>1, <1>2, <1>3, PTL DEF Spec
=============================================================================
