------------------------------- MODULE Reindex -------------------------------
(***************************************************************************)
(* The reindex and reconciliation jobs of goDrive                          *)
(* (internal/server/admin_jobs.go) over the tables of                      *)
(* internal/store/index.go, beside a request that changes a file and       *)
(* refreshes its index entry (internal/server/files.go).                   *)
(*                                                                         *)
(* A job takes the one job slot and, user by user, walks the home root,    *)
(* compares each file with a snapshot of the index, writes changed rows,   *)
(* touches unchanged ones and prunes the rows it has not seen.  Text is    *)
(* staged meanwhile and applied at the end.  A file's number is its        *)
(* version (size, time and text), 0 means absent; every file has text.     *)
(***************************************************************************)
EXTENDS Integers, FiniteSets

CONSTANTS
  Users,        \* the enabled users
  Files,        \* all their files, in one directory each
  Home,         \* Home[f]: the user whose file f is
  MaxJobs,      \* bound: how many jobs are started
  MaxVersion,   \* bound: how many changes requests make, plus 2
  MayFail       \* may a directory or database operation fail?

ASSUME HomeAssumption == Home \in [Files -> Users]
ASSUME BoundsAssumption == MaxJobs \in Nat /\ MaxVersion \in Nat \ {0, 1}
ASSUME FailAssumption == MayFail \in BOOLEAN

VARIABLES
  disk,      \* the version of each file
  version,   \* the latest version of anything
  rows,      \* file_index
  names,     \* file_index_fts
  text,      \* document_fts
  staging,   \* document_staging
  slot,      \* AdminJobs.current: the last job that was started
  job,       \* the goroutine of each job
  item,      \* how far a job's scan has got with each file
  api,       \* the request that changes files
  quiet,     \* no request has been at work since the running job started
  clean      \* no job has failed, been cancelled or met a request, and no
             \* request has stopped between a row and its text

tables == <<rows, names, text, staging>>
jobs == <<slot, job, item>>
vars == <<disk, version, tables, jobs, api, quiet, clean>>

-----------------------------------------------------------------------------
Jobs == 1..MaxJobs
Versions == 0..MaxVersion
NoRow == [ver |-> 0, scan |-> 0]
NoText == -1

NoItem == [st |-> "none", ver |-> 0, txt |-> 0]
NoJob == [pc |-> "none", own |-> FALSE, canceled |-> FALSE, user |-> "none",
          left |-> {}, failed |-> FALSE, snap |-> {}]
NoRequest == [pc |-> "idle", file |-> "none", ver |-> 0]

Of(u) == {f \in Files : Home[f] = u}
Indexed == {f \in Files : rows[f].ver # 0}

At(j, pc) == job[j].pc = pc
Goto(j, pc) == job' = [job EXCEPT ![j].pc = pc]
Active(j) == job[j].pc \notin {"none", "over"}

\* Is the context of the job's goroutine cancelled?
Canceled(j) == job[j].canceled

\* The index may be older than the disk: files changed while nobody looked.
Init ==
  /\ version = 2
  /\ disk \in [Files -> 0..2]
  /\ \E old \in [Files -> 0..1] :
       /\ rows = [f \in Files |-> [ver |-> old[f], scan |-> 0]]
       /\ text = old
  /\ names = Indexed
  /\ staging = [f \in Files |-> NoText]
  /\ slot = [id |-> 0, status |-> "none"]
  /\ job = [j \in Jobs |-> NoJob]
  /\ item = [j \in Jobs |-> [f \in Files |-> NoItem]]
  /\ api = NoRequest
  /\ quiet = FALSE
  /\ clean = TRUE

-----------------------------------------------------------------------------
(* The job slot *)

\* Mutant: a job starts whatever the slot says.
AlwaysFree == TRUE

SlotFree == slot.status # "running"

\* startFrom; own tells whether the goroutine gets the job's context.
Start(j, own) ==
  /\ SlotFree
  /\ j = slot.id + 1
  /\ slot' = [id |-> j, status |-> "running"]
  /\ job' = [job EXCEPT ![j] = [NoJob EXCEPT !.pc = "truncate", !.own = own]]
  /\ quiet' = (api = NoRequest)
  /\ clean' = (clean /\ api = NoRequest)
  /\ UNCHANGED <<disk, version, tables, item, api>>

\* CancelCurrent: a reconciliation runs with the context of the server, and
\* nobody looks at the one that is cancelled.
Cancel ==
  /\ slot.status = "running"
  /\ job' = [job EXCEPT ![slot.id].canceled = job[slot.id].own]
  /\ UNCHANGED <<disk, version, tables, slot, item, api, quiet, clean>>

\* finishJob: the slot is told only if it is still the job's.
Finish(j, status) ==
  /\ slot' = IF slot.id = j THEN [slot EXCEPT !.status = status] ELSE slot
  /\ job' = [job EXCEPT ![j] = [NoJob EXCEPT !.pc = "over"]]
  /\ item' = [item EXCEPT ![j] = [f \in Files |-> NoItem]]
  /\ quiet' = FALSE
  /\ clean' = (clean /\ status = "completed")
  /\ UNCHANGED <<disk, version, tables, api>>

-----------------------------------------------------------------------------
(* runReindexUsers *)

Truncate(j) ==
  /\ At(j, "truncate") /\ ~Canceled(j)
  /\ staging' = [f \in Files |-> NoText]
  /\ job' = [job EXCEPT ![j].pc = "users", ![j].left = Users]
  /\ UNCHANGED <<disk, version, rows, names, text, slot, item, api, quiet,
                 clean>>

\* The list of users or the truncation fails, also by a cancelled context.
TruncateFails(j) ==
  /\ At(j, "truncate") /\ (MayFail \/ Canceled(j))
  /\ Finish(j, "failed")

\* The scan of the next user's home begins: its directory is read.
NextUser(j, u) ==
  /\ At(j, "users") /\ ~Canceled(j) /\ u \in job[j].left
  /\ job' = [job EXCEPT ![j].pc = "load", ![j].user = u,
                        ![j].left = @ \ {u}]
  /\ item' = [item EXCEPT ![j] = [f \in Files |->
                IF Home[f] = u /\ disk[f] # 0 THEN [NoItem EXCEPT !.st = "todo"]
                                              ELSE NoItem]]
  /\ UNCHANGED <<disk, version, tables, slot, api, quiet, clean>>

\* A cancelled context between two users.
StopBetweenUsers(j) ==
  /\ At(j, "users") /\ Canceled(j)
  /\ \/ job[j].left # {} /\ Finish(j, "canceled")
     \/ job[j].left = {}
        /\ Finish(j, IF job[j].failed THEN "failed" ELSE "canceled")

AllUsersDone(j) ==
  /\ At(j, "users") /\ ~Canceled(j) /\ job[j].left = {}
  /\ \/ job[j].failed /\ Finish(j, "failed")
     \/ /\ ~job[j].failed
        /\ Goto(j, "apply")
        /\ UNCHANGED <<disk, version, tables, slot, item, api, quiet, clean>>

-----------------------------------------------------------------------------
(* scanUserTree: walk, workers and the loop that collects the results *)

Scanning(j) == job[j].pc \in {"load", "scan"}

\* LoadFileIndexSnapshot, while the walk has begun.
LoadSnapshot(j) ==
  /\ At(j, "load") /\ ~Canceled(j)
  /\ job' = [job EXCEPT ![j].pc = "scan",
               ![j].snap = {<<f, rows[f].ver>> : f \in Indexed}]
  /\ UNCHANGED <<disk, version, tables, slot, item, api, quiet, clean>>

\* The walk takes the file's size and time; a file gone meanwhile is skipped.
WalkFile(j, f) ==
  /\ Scanning(j) /\ item[j][f].st = "todo"
  /\ item' = [item EXCEPT ![j][f] =
                IF disk[f] = 0 THEN NoItem
                ELSE [st |-> "walked", ver |-> disk[f], txt |-> 0]]
  /\ UNCHANGED <<disk, version, tables, slot, job, api, quiet, clean>>

\* A worker reads the text, whatever it is by now.
ReadFile(j, f) ==
  /\ Scanning(j) /\ item[j][f].st = "walked"
  /\ item' = [item EXCEPT ![j][f].st = "read", ![j][f].txt = disk[f]]
  /\ UNCHANGED <<disk, version, tables, slot, job, api, quiet, clean>>

CompareFile(j, f) ==
  /\ At(j, "scan") /\ item[j][f].st = "read"
  /\ item' = [item EXCEPT ![j][f].st =
                IF <<f, item[j][f].ver>> \in job[j].snap THEN "same"
                                                        ELSE "changed"]
  /\ UNCHANGED <<disk, version, tables, slot, job, api, quiet, clean>>

With(j, st) == {f \in Files : item[j][f].st = st}

\* Some files of a batch that is full, or all files when the walk has ended.
Batch(j, st, b) ==
  /\ b # {} /\ b \subseteq With(j, st)
  /\ \/ At(j, "scan")
     \/ At(j, "flush") /\ b = With(j, st)
  /\ ~Canceled(j)

Moved(j, b, st) ==
  item' = [item EXCEPT ![j] = [f \in Files |->
             IF f \in b THEN [item[j][f] EXCEPT !.st = st] ELSE item[j][f]]]

\* UpsertIndexBatch: rows only, the two search tables come later.
FlushChanged(j, b) ==
  /\ Batch(j, "changed", b)
  /\ rows' = [f \in Files |->
                IF f \in b THEN [ver |-> item[j][f].ver, scan |-> j]
                           ELSE rows[f]]
  /\ Moved(j, b, "rowed")
  /\ UNCHANGED <<disk, version, names, text, staging, slot, job, api, quiet,
                 clean>>

\* Mutant: an unchanged file is left as it is.
TouchNothing(j, b) ==
  /\ Batch(j, "same", b)
  /\ Moved(j, b, "done")
  /\ UNCHANGED <<disk, version, tables, slot, job, api, quiet, clean>>

\* TouchFileIndexEntries: only rows that are still there.
FlushUnchanged(j, b) ==
  /\ Batch(j, "same", b)
  /\ rows' = [f \in Files |->
                IF f \in b \cap Indexed THEN [rows[f] EXCEPT !.scan = j]
                                        ELSE rows[f]]
  /\ Moved(j, b, "done")
  /\ UNCHANGED <<disk, version, names, text, staging, slot, job, api, quiet,
                 clean>>

\* UpsertDocumentStaging: every changed file has text here, so that both batches
\* fill together and the rows go first.
FlushStaging(j, b) ==
  /\ Batch(j, "rowed", b)
  /\ staging' = [f \in Files |->
                   IF f \in b THEN item[j][f].txt ELSE staging[f]]
  /\ Moved(j, b, "done")
  /\ UNCHANGED <<disk, version, rows, names, text, slot, job, api, quiet,
                 clean>>

\* The walk and the workers have ended and every result has been looked at.
ScanEnds(j) ==
  /\ At(j, "scan") /\ ~Canceled(j)
  /\ \A st \in {"todo", "walked", "read"} : With(j, st) = {}
  /\ job' = [job EXCEPT ![j].pc = "flush", ![j].snap = {}]
  /\ UNCHANGED <<disk, version, tables, slot, item, api, quiet, clean>>

FlushEnds(j) ==
  /\ At(j, "flush") /\ ~Canceled(j)
  /\ \A st \in {"changed", "same", "rowed"} : With(j, st) = {}
  /\ Goto(j, "prune")
  /\ UNCHANGED <<disk, version, tables, slot, item, api, quiet, clean>>

ScanCanceled(j) ==
  /\ job[j].pc \in {"load", "scan", "flush"} /\ Canceled(j)
  /\ Finish(j, "canceled")

\* The next user's scan follows, and no row of this one is pruned.
GiveUpUser(j) ==
  /\ job' = [job EXCEPT ![j].pc = "users", ![j].failed = TRUE, ![j].snap = {}]
  /\ item' = [item EXCEPT ![j] = [f \in Files |-> NoItem]]
  /\ UNCHANGED <<disk, version, tables, slot, api, quiet, clean>>

\* Mutant: an error of the walk ends the scan like its end.
ScanErrorIgnored(j) ==
  /\ MayFail /\ job[j].pc \in {"load", "scan", "flush"}
  /\ Goto(j, "prune")
  /\ UNCHANGED <<disk, version, tables, slot, item, api, quiet, clean>>

ScanFails(j) ==
  /\ MayFail /\ job[j].pc \in {"load", "scan", "flush"}
  /\ GiveUpUser(j)

-----------------------------------------------------------------------------
\* WHERE user_id = ? AND last_seen_scan <> ?
Unseen(j) == {f \in Of(job[j].user) : rows[f].scan # j}

\* DeleteFileIndexEntriesNotSeen
Prune(j) ==
  /\ At(j, "prune") /\ ~Canceled(j)
  /\ rows' = [f \in Files |-> IF f \in Unseen(j) THEN NoRow ELSE rows[f]]
  /\ names' = names \ Unseen(j)
  /\ text' = [f \in Files |-> IF f \in Unseen(j) THEN 0 ELSE text[f]]
  /\ Goto(j, "users")
  /\ item' = [item EXCEPT ![j] = [f \in Files |-> NoItem]]
  /\ UNCHANGED <<disk, version, staging, slot, api, quiet, clean>>

PruneFails(j) ==
  /\ At(j, "prune") /\ (MayFail \/ Canceled(j))
  /\ GiveUpUser(j)

\* Mutant: the staging table is applied without a look at what it holds.
ApplyUnjoined(j) ==
  /\ At(j, "apply") /\ ~Canceled(j)
  /\ text' = [f \in Files |-> IF f \in Indexed THEN staging[f] ELSE 0]
  /\ Goto(j, "rebuild")
  /\ UNCHANGED <<disk, version, rows, names, staging, slot, item, api, quiet,
                 clean>>

\* Mutant: staged text is applied only where there is text already.
ApplyReplacing(j) ==
  /\ At(j, "apply") /\ ~Canceled(j)
  /\ text' = [f \in Files |->
                CASE f \notin Indexed -> 0
                  [] staging[f] # NoText /\ text[f] # 0 -> staging[f]
                  [] OTHER -> text[f]]
  /\ Goto(j, "rebuild")
  /\ UNCHANGED <<disk, version, rows, names, staging, slot, item, api, quiet,
                 clean>>

\* ApplyDocumentStaging: staged text replaces or joins, orphans go; the
\* staging table is not emptied.
Apply(j) ==
  /\ At(j, "apply") /\ ~Canceled(j)
  /\ text' = [f \in Files |->
                CASE f \notin Indexed -> 0
                  [] staging[f] # NoText -> staging[f]
                  [] OTHER -> text[f]]
  /\ Goto(j, "rebuild")
  /\ UNCHANGED <<disk, version, rows, names, staging, slot, item, api, quiet,
                 clean>>

\* RebuildFileIndexFTS
Rebuild(j) ==
  /\ At(j, "rebuild") /\ ~Canceled(j)
  /\ names' = Indexed
  /\ Goto(j, "complete")
  /\ UNCHANGED <<disk, version, rows, text, staging, slot, item, api, quiet,
                 clean>>

FinalStepFails(j) ==
  /\ job[j].pc \in {"apply", "rebuild"}
  /\ \/ Canceled(j) /\ Finish(j, "canceled")
     \/ MayFail /\ ~Canceled(j) /\ Finish(j, "failed")

Complete(j) ==
  /\ At(j, "complete")
  /\ Finish(j, "completed")

-----------------------------------------------------------------------------
(* A request that changes a file, then refreshIndexPath or deleteIndexPath *)

InRequest(pc) == api.pc = pc
Proceed(pc) == api' = [api EXCEPT !.pc = pc]

\* A job that runs now is not alone any more.
Disturb ==
  /\ quiet' = FALSE
  /\ clean' = (clean /\ \A j \in Jobs : ~Active(j))

Change(f, ver, pc) ==
  /\ InRequest("idle") /\ version < MaxVersion
  /\ version' = version + 1
  /\ disk' = [disk EXCEPT ![f] = ver]
  /\ api' = [pc |-> pc, file |-> f, ver |-> 0]
  /\ Disturb
  /\ UNCHANGED <<tables, jobs>>

\* A file is restored, saved through an editor, copied or uploaded.  (A move
\* takes its old path out of the index as well.)
RequestWrites(f) == Change(f, version + 1, "stat")

RequestDeletes(f) ==
  /\ disk[f] # 0
  /\ Change(f, 0, "unindex")

\* scanUserPath: a path that has gone is only a warning.
RequestStat ==
  /\ InRequest("stat")
  /\ api' = IF disk[api.file] = 0 THEN NoRequest
            ELSE [api EXCEPT !.pc = "row", !.ver = disk[api.file]]
  /\ UNCHANGED <<disk, version, tables, jobs, quiet, clean>>

\* UpsertFileIndexEntry, with a scan id of its own.
RequestRow ==
  /\ InRequest("row")
  /\ rows' = [rows EXCEPT ![api.file] = [ver |-> api.ver, scan |-> 0]]
  /\ names' = names \cup {api.file}
  /\ Proceed("text")
  /\ UNCHANGED <<disk, version, text, staging, jobs, quiet, clean>>

\* UpsertDocumentTextEntry
RequestText ==
  /\ InRequest("text")
  /\ text' = [text EXCEPT ![api.file] = api.ver]
  /\ api' = NoRequest
  /\ UNCHANGED <<disk, version, rows, names, staging, jobs, quiet, clean>>

\* DeleteFileIndexPath
RequestUnindexes ==
  /\ InRequest("unindex")
  /\ rows' = [rows EXCEPT ![api.file] = NoRow]
  /\ names' = names \ {api.file}
  /\ text' = [text EXCEPT ![api.file] = 0]
  /\ api' = NoRequest
  /\ UNCHANGED <<disk, version, staging, jobs, quiet, clean>>

\* The client leaves, 30 seconds pass or the database refuses: a warning.
RequestStops ==
  /\ ~InRequest("idle")
  /\ clean' = (clean /\ ~InRequest("text"))
  /\ api' = NoRequest
  /\ UNCHANGED <<disk, version, tables, jobs, quiet>>

-----------------------------------------------------------------------------
Scan(j) ==
  \/ LoadSnapshot(j) \/ ScanEnds(j) \/ FlushEnds(j)
  \/ ScanCanceled(j) \/ ScanFails(j)
  \/ \E f \in Files : WalkFile(j, f) \/ ReadFile(j, f) \/ CompareFile(j, f)
  \/ \E b \in SUBSET Files :
       FlushChanged(j, b) \/ FlushUnchanged(j, b) \/ FlushStaging(j, b)

Work(j) ==
  \/ Truncate(j) \/ TruncateFails(j)
  \/ \E u \in Users : NextUser(j, u)
  \/ StopBetweenUsers(j) \/ AllUsersDone(j)
  \/ Scan(j) \/ Prune(j) \/ PruneFails(j)
  \/ Apply(j) \/ Rebuild(j) \/ FinalStepFails(j) \/ Complete(j)

Request ==
  \/ \E f \in Files : RequestWrites(f) \/ RequestDeletes(f)
  \/ RequestStat \/ RequestRow \/ RequestText \/ RequestUnindexes
  \/ RequestStops

Next ==
  \/ \E j \in Jobs : Work(j) \/ \E own \in BOOLEAN : Start(j, own)
  \/ Cancel
  \/ Request

Spec == Init /\ [][Next]_vars

-----------------------------------------------------------------------------
(* Properties *)

Items == [st : {"none", "todo", "walked", "read", "same", "changed", "rowed",
                "done"}, ver : Versions, txt : Versions]
JobRecords ==
  [pc : {"none", "truncate", "users", "load", "scan", "flush", "prune", "apply",
         "rebuild", "complete", "over"},
   own : BOOLEAN, canceled : BOOLEAN, user : Users \cup {"none"},
   left : SUBSET Users, failed : BOOLEAN, snap : SUBSET (Files \X Versions)]

\* Every variable stays in its domain; text that is not staged is never applied.
ReindexTypeOK ==
  /\ disk \in [Files -> Versions] /\ version \in Versions
  /\ rows \in [Files -> [ver : Versions, scan : 0..MaxJobs]]
  /\ names \subseteq Files
  /\ text \in [Files -> Versions]
  /\ staging \in [Files -> Versions \cup {NoText}]
  /\ slot \in [id : 0..MaxJobs,
               status : {"none", "running", "completed", "failed", "canceled"}]
  /\ job \in [Jobs -> JobRecords]
  /\ item \in [Jobs -> [Files -> Items]]
  /\ api \in [pc : {"idle", "stat", "row", "text", "unindex"},
              file : Files \cup {"none"}, ver : Versions]
  /\ api.pc = "idle" \/ api.file \in Files
  /\ {quiet, clean} \subseteq BOOLEAN

\* One job at a time: the goroutine of the last job has come to its end
\* before another one touches the index (AdminJobs.startFrom and finishJob).
OneJobAtATime == Cardinality({j \in Jobs : Active(j)}) <= 1

\* A scan that runs alone takes no file out of the index that is on disk,
\* also if it fails, is cancelled half-way or the job goes on with other users.
ScanSparesPresent ==
  [][\A j \in Jobs, f \in Files :
       Active(j) /\ quiet /\ disk[f] # 0 /\ rows[f].ver # 0
         => rows'[f].ver # 0]_vars

\* The index can be rebuilt: when a job that ran alone completes, the rows and
\* the names that search finds are those of the disk, however stale they were.
CompletedAligned ==
  \A j \in Jobs : At(j, "complete") /\ quiet =>
    /\ \A f \in Files : rows[f].ver = disk[f]
    /\ names = {f \in Files : disk[f] # 0}

\* The document text is rebuilt with it as long as no earlier job was cancelled,
\* failed or met a request: only changed rows have their text read again.
CompletedTextAligned ==
  \A j \in Jobs : At(j, "complete") /\ quiet /\ clean =>
    \A f \in Files : text[f] = disk[f]
=============================================================================
