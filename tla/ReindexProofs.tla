---------------------------- MODULE ReindexProofs ----------------------------
(***************************************************************************)
(* Type correctness of Reindex, one job at a time, that a scan which runs  *)
(* alone removes no present file from the index, and that a job which ran  *)
(* alone leaves the rows, the names and the text of the files on disk, for *)
(* any users, files and number of jobs.                                    *)
(***************************************************************************)
EXTENDS Reindex, FiniteSetTheorems, TLAPS

-----------------------------------------------------------------------------
(* The types of the five parts of the state *)

Programs ==
  {"none", "truncate", "users", "load", "scan", "flush", "prune", "apply",
   "rebuild", "complete", "over"}

JobsOK == job \in [Jobs -> JobRecords]
ItemsOK == item \in [Jobs -> [Files -> Items]]
TablesOK ==
  /\ rows \in [Files -> [ver : Versions, scan : 0..MaxJobs]]
  /\ names \subseteq Files
  /\ text \in [Files -> Versions]
  /\ staging \in [Files -> Versions \cup {NoText}]
SlotOK ==
  /\ slot \in [id : 0..MaxJobs,
               status : {"none", "running", "completed", "failed", "canceled"}]
  /\ {quiet, clean} \subseteq BOOLEAN
RequestOK ==
  /\ disk \in [Files -> Versions] /\ version \in Versions
  /\ api \in [pc : {"idle", "stat", "row", "text", "unindex"},
              file : Files \cup {"none"}, ver : Versions]
  /\ api.pc = "idle" \/ api.file \in Files

TypeInv == JobsOK /\ ItemsOK /\ TablesOK /\ SlotOK /\ RequestOK

-----------------------------------------------------------------------------
(* What a step of a job leaves alone *)

\* The steps of a job that go on with the same slot.
WorkSteps(j) ==
  \/ Truncate(j) \/ \E u \in Users : NextUser(j, u)
  \/ LoadSnapshot(j) \/ ScanEnds(j) \/ FlushEnds(j)
  \/ \E f \in Files : WalkFile(j, f) \/ ReadFile(j, f) \/ CompareFile(j, f)
  \/ \E b \in SUBSET Files :
       FlushChanged(j, b) \/ FlushUnchanged(j, b) \/ FlushStaging(j, b)
  \/ Prune(j) \/ Apply(j) \/ Rebuild(j)
  \/ Active(j) /\ GiveUpUser(j)
  \/ /\ At(j, "users") /\ job[j].left = {} /\ ~job[j].failed
     /\ Goto(j, "apply")
     /\ UNCHANGED <<disk, version, tables, slot, item, api, quiet, clean>>

Ends(j) ==
  /\ Active(j)
  /\ \E status \in {"completed", "failed", "canceled"} :
       Finish(j, status) /\ (status = "completed" => At(j, "complete"))

\* A job goes on or ends.
LEMMA WorkCases ==
  ASSUME NEW j \in Jobs, Work(j)
  PROVE  WorkSteps(j) \/ Ends(j)
<1>1. CASE Scan(j)
  BY <1>1 DEF Scan, ScanCanceled, ScanFails, WorkSteps, Ends, Active
<1>2. CASE AllUsersDone(j)
  BY <1>2 DEF AllUsersDone, WorkSteps, Ends, Active, At
<1>3. CASE TruncateFails(j) \/ StopBetweenUsers(j) \/ FinalStepFails(j) \/ Complete(j)
  BY <1>3 DEF TruncateFails, StopBetweenUsers, FinalStepFails, Complete, Ends,
              Active, At
<1>4. CASE PruneFails(j)
  BY <1>4 DEF PruneFails, WorkSteps, Active, At
<1> QED
  BY <1>1, <1>2, <1>3, <1>4 DEF Work, WorkSteps

OnlyOf(j) ==
  /\ UNCHANGED <<disk, version, slot, api, quiet, clean>>
  /\ \A i \in Jobs \ {j} : job'[i] = job[i] /\ item'[i] = item[i]

\* Neither the disk nor a request, another job or the slot changes with it.
LEMMA WorkShape ==
  ASSUME TypeInv, NEW j \in Jobs, WorkSteps(j)
  PROVE  Active(j) /\ OnlyOf(j)
<1> USE DEF TypeInv, JobsOK, ItemsOK, OnlyOf, tables
<1>1. CASE Truncate(j) \/ (\E u \in Users : NextUser(j, u)) \/ LoadSnapshot(j)
           \/ ScanEnds(j) \/ FlushEnds(j)
  BY <1>1 DEF Truncate, NextUser, LoadSnapshot, ScanEnds, FlushEnds, Goto,
              Active, At
<1>2. ASSUME NEW f \in Files, WalkFile(j, f) \/ ReadFile(j, f) \/ CompareFile(j, f)
      PROVE  Active(j) /\ OnlyOf(j)
  BY <1>2 DEF WalkFile, ReadFile, CompareFile, Scanning, Active, At
<1>3. ASSUME NEW b \in SUBSET Files,
             FlushChanged(j, b) \/ FlushUnchanged(j, b) \/ FlushStaging(j, b)
      PROVE  Active(j) /\ OnlyOf(j)
  BY <1>3 DEF FlushChanged, FlushUnchanged, FlushStaging, Batch, Moved, Active, At
<1>4. CASE Prune(j) \/ Apply(j) \/ Rebuild(j)
  BY <1>4 DEF Prune, Apply, Rebuild, Goto, Active, At
<1>5. CASE Active(j) /\ GiveUpUser(j)
  BY <1>5 DEF GiveUpUser
<1>6. CASE /\ At(j, "users") /\ Goto(j, "apply")
           /\ UNCHANGED <<disk, version, tables, slot, item, api, quiet, clean>>
  BY <1>6 DEF Goto, Active, At
<1> QED
  BY <1>1, <1>2, <1>3, <1>4, <1>5, <1>6 DEF WorkSteps

-----------------------------------------------------------------------------
(* Type correctness *)

\* The numbers that appear in the types.
LEMMA Numbers ==
  /\ {0, 1, 2} \subseteq Versions
  /\ NoText \notin Versions
  /\ Jobs \subseteq 0..MaxJobs
  /\ 0 \in 0..MaxJobs
BY BoundsAssumption DEF Versions, NoText, Jobs

\* The invariant of the proof and the one the runs check are the same.
LEMMA TypeParts == TypeInv <=> ReindexTypeOK
BY DEF ReindexTypeOK, TypeInv, JobsOK, ItemsOK, TablesOK, SlotOK, RequestOK

\* The types hold when the server starts.
LEMMA TypeInit == Init => TypeInv
<1> SUFFICES ASSUME Init PROVE TypeInv
  OBVIOUS
<1> USE Numbers DEF Init
<1>1. TablesOK
  <2>1. PICK old \in [Files -> 0..1] :
          /\ rows = [f \in Files |-> [ver |-> old[f], scan |-> 0]]
          /\ text = old
    OBVIOUS
  <2>2. \A f \in Files : old[f] \in Versions
    OBVIOUS
  <2>3. names \subseteq Files
    BY DEF Indexed
  <2> QED
    BY <2>1, <2>2, <2>3 DEF TablesOK
<1>2. RequestOK
  BY BoundsAssumption DEF RequestOK, Versions, NoRequest
<1>3. JobsOK /\ ItemsOK
  BY DEF NoJob, NoItem, JobRecords, Items, JobsOK, ItemsOK
<1>4. SlotOK
  BY DEF SlotOK
<1> QED
  BY <1>1, <1>2, <1>3, <1>4 DEF TypeInv

\* One job's record is replaced.
LEMMA JobSet ==
  ASSUME JobsOK, NEW j \in Jobs, NEW r \in JobRecords
  PROVE  [job EXCEPT ![j] = r] \in [Jobs -> JobRecords]
BY DEF JobsOK

\* What is known of one file is replaced.
LEMMA ItemSet ==
  ASSUME ItemsOK, NEW j \in Jobs, NEW f \in Files, NEW r \in Items
  PROVE  [item EXCEPT ![j][f] = r] \in [Jobs -> [Files -> Items]]
BY DEF ItemsOK

\* The record of a job keeps its type.
LEMMA JobsType ==
  ASSUME TypeInv, NEW j \in Jobs, WorkSteps(j)
  PROVE  JobsOK'
<1>1. JobsOK /\ TablesOK
  BY DEF TypeInv
<1> DEFINE r == job[j]
<1>0. r \in JobRecords
  BY <1>1 DEF JobsOK
<1>2. ASSUME NEW q \in JobRecords, job' = [job EXCEPT ![j] = q]
      PROVE  JobsOK'
  BY <1>1, <1>2, JobSet DEF JobsOK
<1>3. ASSUME NEW p \in Programs, Goto(j, p) PROVE JobsOK'
  <2>1. [r EXCEPT !.pc = p] \in JobRecords
    BY <1>0 DEF JobRecords, Programs
  <2> QED
    BY <1>2, <1>3, <2>1 DEF Goto
<1>4. CASE Truncate(j)
  <2>1. [r EXCEPT !.pc = "users", !.left = Users] \in JobRecords
    BY <1>0 DEF JobRecords
  <2>2. job' = [job EXCEPT ![j] = [r EXCEPT !.pc = "users", !.left = Users]]
    BY <1>4 DEF Truncate
  <2> QED
    BY <1>2, <2>1, <2>2
<1>5. ASSUME NEW u \in Users, NextUser(j, u) PROVE JobsOK'
  <2> DEFINE q == [r EXCEPT !.pc = "load", !.user = u, !.left = @ \ {u}]
  <2>1. q \in JobRecords
    BY <1>0 DEF JobRecords
  <2>2. job' = [job EXCEPT ![j] = q]
    BY <1>5 DEF NextUser
  <2> QED
    BY <1>2, <2>1, <2>2
<1>6. ASSUME NEW s \in SUBSET (Files \X Versions), NEW p \in Programs,
             NEW b \in BOOLEAN
      PROVE  /\ [r EXCEPT !.pc = p, !.snap = s] \in JobRecords
             /\ [r EXCEPT !.pc = p, !.failed = b, !.snap = s] \in JobRecords
  BY <1>0 DEF JobRecords, Programs
<1>7. CASE LoadSnapshot(j)
  <2> DEFINE found == {<<f, rows[f].ver>> : f \in Indexed}
  <2>1. found \in SUBSET (Files \X Versions)
    BY <1>1 DEF Indexed, TablesOK
  <2>2. job' = [job EXCEPT ![j] = [r EXCEPT !.pc = "scan", !.snap = found]]
    BY <1>7 DEF LoadSnapshot
  <2> HIDE DEF found, r
  <2> QED
    BY <1>2, <1>6, <2>1, <2>2 DEF Programs
<1>8. CASE ScanEnds(j)
  <2>1. job' = [job EXCEPT ![j] = [r EXCEPT !.pc = "flush", !.snap = {}]]
    BY <1>8 DEF ScanEnds
  <2> HIDE DEF r
  <2> QED
    BY <1>2, <1>6, <2>1 DEF Programs
<1>9. CASE GiveUpUser(j)
  <2>1. job' = [job EXCEPT ![j] =
                  [r EXCEPT !.pc = "users", !.failed = TRUE, !.snap = {}]]
    BY <1>9 DEF GiveUpUser
  <2> HIDE DEF r
  <2> QED
    BY <1>2, <1>6, <2>1 DEF Programs
<1>10. CASE Goto(j, "prune") \/ Goto(j, "users") \/ Goto(j, "rebuild")
            \/ Goto(j, "complete") \/ Goto(j, "apply")
  BY <1>3, <1>10 DEF Programs
<1>11. CASE UNCHANGED job
  BY <1>1, <1>11 DEF JobsOK
<1> QED
  BY <1>4, <1>5, <1>7, <1>8, <1>9, <1>10, <1>11
     DEF WorkSteps, FlushEnds, WalkFile, ReadFile, CompareFile, FlushChanged,
         FlushUnchanged, FlushStaging, Prune, Apply, Rebuild

\* So does what it knows of the files.
LEMMA ItemsType ==
  ASSUME TypeInv, NEW j \in Jobs, WorkSteps(j)
  PROVE  ItemsOK'
<1>1. ItemsOK /\ RequestOK
  BY DEF TypeInv
<1>2. NoItem \in Items
  BY Numbers DEF NoItem, Items
<1>3. ASSUME NEW s \in [Files -> Items], item' = [item EXCEPT ![j] = s]
      PROVE  ItemsOK'
  BY <1>1, <1>3 DEF ItemsOK
<1>4. ASSUME NEW f \in Files, NEW r \in Items, item' = [item EXCEPT ![j][f] = r]
      PROVE  ItemsOK'
  BY <1>1, <1>4, ItemSet DEF ItemsOK
<1>5. ASSUME NEW u \in Users, NextUser(j, u) PROVE ItemsOK'
  <2>1. [NoItem EXCEPT !.st = "todo"] \in Items
    BY Numbers DEF NoItem, Items
  <2> DEFINE s == [f \in Files |-> IF Home[f] = u /\ disk[f] # 0
                                    THEN [NoItem EXCEPT !.st = "todo"]
                                    ELSE NoItem]
  <2>2. s \in [Files -> Items]
    BY <1>2, <2>1
  <2>3. item' = [item EXCEPT ![j] = s]
    BY <1>5 DEF NextUser
  <2> HIDE DEF s
  <2> QED
    BY <1>3, <2>2, <2>3
<1>6. ASSUME NEW f \in Files, WalkFile(j, f) PROVE ItemsOK'
  <2>1. [st |-> "walked", ver |-> disk[f], txt |-> 0] \in Items
    BY <1>1, Numbers DEF RequestOK, Items
  <2> QED
    BY <1>2, <1>4, <1>6, <2>1 DEF WalkFile
<1>7. ASSUME NEW f \in Files, ReadFile(j, f) PROVE ItemsOK'
  <2> DEFINE r == [item[j][f] EXCEPT !.st = "read", !.txt = disk[f]]
  <2> item[j][f] \in Items /\ disk[f] \in Versions
    BY <1>1 DEF ItemsOK, RequestOK
  <2>1. r \in Items
    BY DEF Items
  <2>2. item' = [item EXCEPT ![j][f] = r]
    BY <1>7 DEF ReadFile
  <2> HIDE DEF r
  <2> QED
    BY <1>4, <2>1, <2>2
<1>8. ASSUME NEW f \in Files, CompareFile(j, f) PROVE ItemsOK'
  <2> DEFINE to == IF <<f, item[j][f].ver>> \in job[j].snap THEN "same"
                                                            ELSE "changed"
             r == [item[j][f] EXCEPT !.st = to]
  <2>1. r \in Items
    BY <1>1 DEF ItemsOK, Items
  <2>2. item' = [item EXCEPT ![j][f] = r]
    BY <1>8 DEF CompareFile
  <2> HIDE DEF r
  <2> QED
    BY <1>4, <2>1, <2>2
<1>9. ASSUME NEW b \in SUBSET Files,
             NEW st \in {"rowed", "done"}, Moved(j, b, st)
      PROVE  ItemsOK'
  <2>1. ASSUME NEW f \in Files
        PROVE  [item[j][f] EXCEPT !.st = st] \in Items /\ item[j][f] \in Items
    BY <1>1 DEF ItemsOK, Items
  <2> DEFINE s == [f \in Files |-> IF f \in b THEN [item[j][f] EXCEPT !.st = st]
                                               ELSE item[j][f]]
  <2>2. s \in [Files -> Items]
    BY <2>1
  <2>3. item' = [item EXCEPT ![j] = s]
    BY <1>9 DEF Moved
  <2> HIDE DEF s
  <2> QED
    BY <1>3, <2>2, <2>3
<1>10. CASE item' = [item EXCEPT ![j] = [f \in Files |-> NoItem]]
  <2> DEFINE s == [f \in Files |-> NoItem]
  <2>1. s \in [Files -> Items]
    BY <1>2
  <2> HIDE DEF s
  <2> QED
    BY <1>3, <1>10, <2>1 DEF s
<1>11. CASE UNCHANGED item
  BY <1>1, <1>11 DEF ItemsOK
<1> QED
  BY <1>5, <1>6, <1>7, <1>8, <1>9, <1>10, <1>11
     DEF WorkSteps, Truncate, LoadSnapshot, ScanEnds, FlushEnds, FlushChanged,
         FlushUnchanged, FlushStaging, Prune, Apply, Rebuild, GiveUpUser

\* The tables keep their types.
LEMMA TablesType ==
  ASSUME TypeInv, NEW j \in Jobs, WorkSteps(j)
  PROVE  TablesOK'
<1> USE Numbers DEF TablesOK, tables
<1>1. ItemsOK /\ TablesOK
  BY DEF TypeInv
<1>2. ASSUME NEW f \in Files
      PROVE  /\ item[j][f].ver \in Versions /\ item[j][f].txt \in Versions
             /\ rows[f] \in [ver : Versions, scan : 0..MaxJobs]
             /\ [rows[f] EXCEPT !.scan = j] \in [ver : Versions, scan : 0..MaxJobs]
  BY <1>1 DEF ItemsOK, Items
<1>3. CASE UNCHANGED tables
  BY <1>1, <1>3
<1>4. CASE Truncate(j)
  BY <1>1, <1>4 DEF Truncate
<1>5. ASSUME NEW b \in SUBSET Files, FlushChanged(j, b) PROVE TablesOK'
  BY <1>1, <1>2, <1>5 DEF FlushChanged
<1>6. ASSUME NEW b \in SUBSET Files, FlushUnchanged(j, b) PROVE TablesOK'
  BY <1>1, <1>2, <1>6 DEF FlushUnchanged
<1>7. ASSUME NEW b \in SUBSET Files, FlushStaging(j, b) PROVE TablesOK'
  BY <1>1, <1>2, <1>7 DEF FlushStaging
<1>8. CASE Prune(j)
  BY <1>1, <1>8 DEF Prune, NoRow
<1>9. CASE Apply(j)
  BY <1>1, <1>9 DEF Apply
<1>10. CASE Rebuild(j)
  BY <1>1, <1>10 DEF Rebuild, Indexed
<1> QED
  BY <1>3, <1>4, <1>5, <1>6, <1>7, <1>8, <1>9, <1>10
     DEF WorkSteps, NextUser, LoadSnapshot, ScanEnds, FlushEnds, WalkFile,
         ReadFile, CompareFile, GiveUpUser

\* A step of a job keeps every type.
LEMMA WorkType ==
  ASSUME TypeInv, NEW j \in Jobs, WorkSteps(j)
  PROVE  TypeInv'
<1>1. SlotOK' /\ RequestOK'
  BY WorkShape DEF TypeInv, OnlyOf, SlotOK, RequestOK
<1> QED
  BY <1>1, JobsType, ItemsType, TablesType DEF TypeInv

\* The end of a job keeps the types.
LEMMA FinishType ==
  ASSUME TypeInv, NEW j \in Jobs, Ends(j)
  PROVE  TypeInv'
<1>0. PICK status \in {"completed", "failed", "canceled"} : Finish(j, status)
  BY DEF Ends
<1> USE <1>0 DEF Finish
<1>1. JobsOK /\ ItemsOK /\ TablesOK /\ SlotOK /\ RequestOK
  BY DEF TypeInv
<1>2. JobsOK'
  <2>1. [NoJob EXCEPT !.pc = "over"] \in JobRecords
    BY DEF NoJob, JobRecords
  <2> QED
    BY <1>1, <2>1, JobSet DEF JobsOK
<1>3. ItemsOK'
  BY <1>1, Numbers DEF ItemsOK, Items, NoItem
<1>4. SlotOK'
  BY <1>1, Numbers DEF SlotOK
<1>5. TablesOK' /\ RequestOK'
  BY <1>1 DEF TablesOK, RequestOK, tables
<1> QED
  BY <1>2, <1>3, <1>4, <1>5 DEF TypeInv

\* Starting and cancelling a job keep the types.
LEMMA SlotType ==
  ASSUME TypeInv,
         Cancel \/ \E j \in Jobs, own \in BOOLEAN : Start(j, own)
  PROVE  TypeInv'
<1>1. JobsOK /\ ItemsOK /\ TablesOK /\ SlotOK /\ RequestOK
  BY DEF TypeInv
<1>2. ItemsOK' /\ TablesOK' /\ RequestOK'
  BY <1>1 DEF Cancel, Start, ItemsOK, TablesOK, RequestOK, tables
<1>3. ASSUME NEW j \in Jobs, NEW own \in BOOLEAN, Start(j, own)
      PROVE  JobsOK' /\ SlotOK'
  <2> DEFINE r == [NoJob EXCEPT !.pc = "truncate", !.own = own]
  <2>1. r \in JobRecords
    BY DEF NoJob, JobRecords
  <2>2. job' = [job EXCEPT ![j] = r]
    BY <1>3 DEF Start
  <2>3. SlotOK'
    BY <1>1, <1>3, Numbers DEF Start, SlotOK
  <2> HIDE DEF r
  <2> QED
    BY <1>1, <2>1, <2>2, <2>3, JobSet DEF JobsOK
<1>4. ASSUME Cancel PROVE JobsOK' /\ SlotOK'
  <2>1. SlotOK'
    BY <1>1, <1>4 DEF Cancel, SlotOK
  <2>2. JobsOK'
    <3> DEFINE r == [job[slot.id] EXCEPT !.canceled = job[slot.id].own]
    <3>1. job' = [job EXCEPT ![slot.id] = r]
      BY <1>4 DEF Cancel
    <3>2. CASE slot.id \in Jobs
      <4>1. r \in JobRecords
        BY <1>1, <3>2 DEF JobsOK, JobRecords
      <4> HIDE DEF r
      <4> QED
        BY <1>1, <3>1, <3>2, <4>1 DEF JobsOK
    <3>3. CASE slot.id \notin Jobs
      <4> HIDE DEF r
      <4> QED
        BY <1>1, <3>1, <3>3 DEF JobsOK
    <3> QED
      BY <3>2, <3>3
  <2> QED
    BY <2>1, <2>2
<1>5. JobsOK' /\ SlotOK'
  BY <1>3, <1>4
<1> QED
  BY <1>2, <1>5 DEF TypeInv

\* And so does a step of the request.
LEMMA RequestType == TypeInv /\ Request => TypeInv'
<1> SUFFICES ASSUME TypeInv, Request PROVE TypeInv'
  OBVIOUS
<1> USE Numbers DEF tables, jobs, InRequest, Proceed
<1>1. JobsOK /\ ItemsOK /\ TablesOK /\ SlotOK /\ RequestOK
  BY DEF TypeInv
<1>2. JobsOK' /\ ItemsOK'
  BY <1>1 DEF Request, RequestWrites, RequestDeletes, Change, RequestStat,
              RequestRow, RequestText, RequestUnindexes, RequestStops,
              JobsOK, ItemsOK
<1>3. ASSUME NEW f \in Files, NEW ver \in Versions,
             NEW pc \in {"stat", "unindex"}, Change(f, ver, pc)
      PROVE  TablesOK' /\ SlotOK' /\ RequestOK'
  <2>1. version + 1 \in Versions
    BY <1>1, <1>3, BoundsAssumption DEF Change, RequestOK, Versions
  <2>2. RequestOK'
    BY <1>1, <1>3, <2>1 DEF Change, RequestOK
  <2>3. TablesOK' /\ SlotOK'
    BY <1>1, <1>3 DEF Change, Disturb, TablesOK, SlotOK
  <2> QED
    BY <2>2, <2>3
<1>4. ASSUME NEW f \in Files, RequestWrites(f) \/ RequestDeletes(f)
      PROVE  TablesOK' /\ SlotOK' /\ RequestOK'
  <2>1. version < MaxVersion => version + 1 \in Versions
    BY <1>1, BoundsAssumption DEF RequestOK, Versions
  <2>2. CASE RequestWrites(f)
    BY <1>3, <2>1, <2>2 DEF RequestWrites, Change
  <2>3. CASE RequestDeletes(f)
    BY <1>3, <2>3 DEF RequestDeletes
  <2> QED
    BY <1>4, <2>2, <2>3
<1>5. CASE RequestStat \/ RequestStops
  <2>1. TablesOK' /\ SlotOK'
    BY <1>1, <1>5 DEF RequestStat, RequestStops, TablesOK, SlotOK
  <2>2. ASSUME api' = NoRequest, UNCHANGED <<disk, version>>
        PROVE  RequestOK'
    BY <1>1, <2>2 DEF RequestOK, NoRequest
  <2>3. ASSUME api.pc = "stat", UNCHANGED <<disk, version>>,
               api' = [api EXCEPT !.pc = "row", !.ver = disk[api.file]]
        PROVE  RequestOK'
    <3>1. disk[api.file] \in Versions
      BY <1>1, <2>3 DEF RequestOK
    <3> QED
      BY <1>1, <2>3, <3>1 DEF RequestOK
  <2>4. RequestOK'
    BY <1>5, <2>2, <2>3 DEF RequestStat, RequestStops
  <2> QED
    BY <1>1, <1>2, <2>1, <2>4 DEF TypeInv
<1>6. CASE RequestRow
  <2>1. TablesOK' /\ SlotOK'
    BY <1>1, <1>6 DEF RequestRow, TablesOK, SlotOK, RequestOK
  <2>2. RequestOK'
    BY <1>1, <1>6 DEF RequestRow, RequestOK
  <2> QED
    BY <1>2, <2>1, <2>2 DEF TypeInv
<1>7. CASE RequestText
  BY <1>1, <1>2, <1>7
     DEF RequestText, NoRequest, TablesOK, SlotOK, RequestOK, TypeInv
<1>8. CASE RequestUnindexes
  BY <1>1, <1>2, <1>8
     DEF RequestUnindexes, NoRequest, NoRow, TablesOK, SlotOK, RequestOK, TypeInv
<1> QED
  BY <1>2, <1>4, <1>5, <1>6, <1>7, <1>8 DEF Request, TypeInv

\* The types survive every step.
LEMMA TypeStep == TypeInv /\ [Next]_vars => TypeInv'
<1> SUFFICES ASSUME TypeInv, [Next]_vars PROVE TypeInv'
  OBVIOUS
<1>1. ASSUME NEW j \in Jobs, Work(j) PROVE TypeInv'
  BY <1>1, WorkCases, WorkType, FinishType
<1>2. CASE UNCHANGED vars
  BY <1>2 DEF vars, tables, jobs, TypeInv, JobsOK, ItemsOK, TablesOK, SlotOK,
              RequestOK
<1> QED
  BY <1>1, <1>2, SlotType, RequestType DEF Next

\* The types hold for good.
LEMMA TypeInvariant == Spec => []TypeInv
BY TypeInit, TypeStep, PTL DEF Spec

\* Every variable keeps its type, for any number of jobs, users and files.
THEOREM ReindexTypeCorrect == Spec => []ReindexTypeOK
BY TypeInvariant, TypeParts, PTL

-----------------------------------------------------------------------------
(* One job at a time *)

\* A goroutine that has not ended holds the slot, and the slot is taken.
HoldsSlot == \A j \in Jobs : Active(j) => slot.id = j /\ slot.status = "running"

\* What a step can be.
LEMMA NextCases ==
  ASSUME [Next]_vars
  PROVE  \/ \E j \in Jobs : WorkSteps(j) \/ Ends(j)
         \/ \E j \in Jobs, own \in BOOLEAN : Start(j, own)
         \/ Cancel \/ Request
         \/ UNCHANGED vars
BY WorkCases DEF Next

\* Cancelling changes one field of one job.
LEMMA CancelShape ==
  ASSUME TypeInv, Cancel
  PROVE  /\ UNCHANGED <<disk, version, tables, slot, item, api, quiet, clean>>
         /\ \A j \in Jobs :
              /\ job'[j].pc = job[j].pc /\ job'[j].user = job[j].user
              /\ job'[j].left = job[j].left /\ job'[j].failed = job[j].failed
              /\ job'[j].snap = job[j].snap
<1>1. JobsOK
  BY DEF TypeInv
<1>2. ASSUME NEW j \in Jobs
      PROVE  /\ job'[j].pc = job[j].pc /\ job'[j].user = job[j].user
             /\ job'[j].left = job[j].left /\ job'[j].failed = job[j].failed
             /\ job'[j].snap = job[j].snap
  <2>1. job[j] \in JobRecords
    BY <1>1 DEF JobsOK
  <2>2. \/ job'[j] = job[j]
        \/ \E b : job'[j] = [job[j] EXCEPT !.canceled = b]
    BY <1>1 DEF Cancel, JobsOK
  <2> QED
    BY <2>1, <2>2 DEF JobRecords
<1> QED
  BY <1>2 DEF Cancel

\* A request leaves the jobs alone.
LEMMA RequestShape == Request => UNCHANGED jobs
BY DEF Request, RequestWrites, RequestDeletes, Change, RequestStat, RequestRow,
       RequestText, RequestUnindexes, RequestStops

\* A job starts only when nobody holds the slot, and ends by giving it up.
LEMMA HoldsSlotStep == TypeInv /\ HoldsSlot /\ [Next]_vars => HoldsSlot'
<1> SUFFICES ASSUME TypeInv, HoldsSlot, [Next]_vars,
                    NEW i \in Jobs, Active(i)'
             PROVE  slot'.id = i /\ slot'.status = "running"
  BY DEF HoldsSlot
<1>0. JobsOK /\ SlotOK
  BY DEF TypeInv
<1>1. ASSUME NEW j \in Jobs, WorkSteps(j)
      PROVE  slot'.id = i /\ slot'.status = "running"
  <2>1. Active(j) /\ OnlyOf(j)
    BY <1>1, WorkShape
  <2>2. Active(i)
    BY <2>1 DEF OnlyOf, Active
  <2> QED
    BY <2>1, <2>2 DEF HoldsSlot, OnlyOf
<1>2. ASSUME NEW j \in Jobs, Ends(j) PROVE FALSE
  <2>1. /\ Active(j)
        /\ job' = [job EXCEPT ![j] = [NoJob EXCEPT !.pc = "over"]]
    BY <1>2 DEF Ends, Finish
  <2>2. job'[j].pc = "over" /\ (i # j => job'[i] = job[i])
    BY <1>0, <2>1 DEF JobsOK, NoJob
  <2>3. i # j /\ Active(i)
    BY <2>2 DEF Active
  <2> QED
    BY <2>1, <2>3 DEF HoldsSlot
<1>3. ASSUME NEW j \in Jobs, NEW own \in BOOLEAN, Start(j, own)
      PROVE  slot'.id = i /\ slot'.status = "running"
  <2>1. ~Active(i)
    BY <1>3 DEF HoldsSlot, Start, SlotFree
  <2>2. i # j => job'[i] = job[i]
    BY <1>0, <1>3 DEF Start, JobsOK
  <2>3. i = j
    BY <2>1, <2>2 DEF Active
  <2> QED
    BY <1>3, <2>3 DEF Start
<1>4. CASE Cancel
  BY <1>4, CancelShape DEF HoldsSlot, Active
<1>5. CASE Request \/ UNCHANGED vars
  BY <1>5, RequestShape DEF HoldsSlot, Active, jobs, vars
<1> QED
  BY <1>1, <1>2, <1>3, <1>4, <1>5, NextCases

\* A goroutine that is at work holds the slot.
LEMMA SlotInvariant == Spec => []HoldsSlot
<1>1. Init => HoldsSlot
  BY DEF Init, HoldsSlot, Active, NoJob
<1> QED
  BY <1>1, HoldsSlotStep, TypeInvariant, PTL DEF Spec

\* However jobs are started, cancelled and fail, two of them never work on the
\* index at the same time.
THEOREM JobsAlone == Spec => []OneJobAtATime
<1>1. HoldsSlot => OneJobAtATime
  <2> SUFFICES ASSUME HoldsSlot PROVE OneJobAtATime
    OBVIOUS
  <2> DEFINE active == {j \in Jobs : Active(j)}
  <2>1. active \in SUBSET {slot.id}
    BY DEF HoldsSlot
  <2>2. Cardinality(active) <= Cardinality({slot.id}) /\ Cardinality({slot.id}) = 1
    BY <2>1, FS_Singleton, FS_Subset
  <2>3. Cardinality(active) \in Nat
    BY <2>1, FS_Singleton, FS_Subset, FS_CardinalityType
  <2> QED
    BY <2>2, <2>3 DEF OneJobAtATime
<1> QED
  BY <1>1, SlotInvariant, PTL

-----------------------------------------------------------------------------
(* A scan that runs alone *)

Collecting(j) == job[j].pc \in {"load", "scan", "flush"}
State(j, f) == item[j][f].st
Marked(j, f) == rows[f].scan = j \/ rows[f].ver = 0

\* No request is at work beside a job that runs alone.
QuietIsIdle == quiet => api.pc = "idle"

\* The scan has met every file of its user that is on disk.
PresentMet(j) ==
  \A f \in Files :
    quiet /\ Collecting(j) /\ Home[f] = job[j].user /\ disk[f] # 0
      => State(j, f) # "none"

\* What it has met has a version.
MetHasVersion(j) ==
  \A f \in Files :
    Collecting(j) /\ State(j, f) \notin {"none", "todo"} => item[j][f].ver # 0

\* A row that has been written or touched carries the number of the job.
FlushedMarked(j) ==
  \A f \in Files :
    quiet /\ Collecting(j) /\ State(j, f) \in {"rowed", "done"} => Marked(j, f)

\* After the walk every file it met waits for a flush or has had it.
WalkOver(j) ==
  \A f \in Files :
    At(j, "flush") => State(j, f) \notin {"todo", "walked", "read"}

\* Then only rows of files that are gone lack the number of the job.
PruneReady(j) ==
  \A f \in Files :
    quiet /\ At(j, "prune") /\ Home[f] = job[j].user /\ disk[f] # 0
      => Marked(j, f)

Scanned(j) ==
  /\ PresentMet(j) /\ MetHasVersion(j) /\ FlushedMarked(j)
  /\ WalkOver(j) /\ PruneReady(j)

ScanInv == QuietIsIdle /\ \A j \in Jobs : Scanned(j)

\* Only a job that collects or prunes has something to keep.
LEMMA ScannedElsewhere ==
  ASSUME NEW j \in Jobs,
         job[j].pc \notin {"load", "scan", "flush", "prune"}
  PROVE  Scanned(j)
BY DEF Scanned, PresentMet, MetHasVersion, FlushedMarked, WalkOver, PruneReady,
       Collecting, At

\* A walk begins with the files that are on disk.
LEMMA NextUserScanned ==
  ASSUME TypeInv, NEW j \in Jobs, NEW u \in Users, NextUser(j, u)
  PROVE  Scanned(j)'
<1>1. JobsOK /\ ItemsOK
  BY DEF TypeInv
<1>2. /\ job'[j].pc = "load" /\ job'[j].user = u
      /\ UNCHANGED <<disk, quiet, rows>>
  BY <1>1 DEF NextUser, JobsOK, JobRecords, tables
<1>3. ASSUME NEW f \in Files
      PROVE  /\ State(j, f)' \in {"none", "todo"}
             /\ Home[f] = u /\ disk[f] # 0 => State(j, f)' = "todo"
  BY <1>1, <1>3 DEF NextUser, ItemsOK, State, NoItem
<1> QED
  BY <1>2, <1>3 DEF Scanned, PresentMet, MetHasVersion, FlushedMarked, WalkOver,
                    PruneReady, Collecting, At

\* Reading and comparing one file.
LEMMA FileScanned ==
  ASSUME TypeInv, NEW j \in Jobs, Scanned(j), NEW f \in Files,
         WalkFile(j, f) \/ ReadFile(j, f) \/ CompareFile(j, f)
  PROVE  Scanned(j)'
<1>1. ItemsOK
  BY DEF TypeInv
<1>2. /\ UNCHANGED <<disk, quiet, rows, job>>
      /\ \A g \in Files \ {f} : item'[j][g] = item[j][g]
      /\ job[j].pc \in {"load", "scan"}
      /\ State(j, f) \in {"todo", "walked", "read"}
  BY <1>1 DEF WalkFile, ReadFile, CompareFile, ItemsOK, Scanning, At, State, tables
<1>3. /\ State(j, f)' \notin {"rowed", "done"}
      /\ State(j, f)' = "none" => disk[f] = 0
      /\ State(j, f)' \notin {"none", "todo"} => item'[j][f].ver # 0
  <2>1. CASE WalkFile(j, f)
    BY <1>1, <2>1 DEF WalkFile, ItemsOK, State, NoItem
  <2>2. CASE ReadFile(j, f) \/ CompareFile(j, f)
    <3>1. item[j][f].ver # 0
      BY <1>2, <2>2 DEF Scanned, MetHasVersion, Collecting, ReadFile,
                        CompareFile, State
    <3>2. item[j][f] \in Items
      BY <1>1 DEF ItemsOK
    <3>3. /\ item'[j][f].st \in {"read", "same", "changed"}
          /\ item'[j][f].ver = item[j][f].ver
      <4>1. CASE ReadFile(j, f)
        <5>1. item'[j][f] = [item[j][f] EXCEPT !.st = "read", !.txt = disk[f]]
          BY <1>1, <4>1 DEF ReadFile, ItemsOK
        <5> QED
          BY <3>2, <5>1 DEF Items
      <4>2. CASE CompareFile(j, f)
        <5>1. \E st \in {"same", "changed"} :
                item'[j][f] = [item[j][f] EXCEPT !.st = st]
          BY <1>1, <4>2 DEF CompareFile, ItemsOK
        <5> QED
          BY <3>2, <5>1 DEF Items
      <4> QED
        BY <2>2, <4>1, <4>2
    <3> QED
      BY <3>1, <3>3 DEF State
  <2> QED
    BY <2>1, <2>2
<1> QED
  BY <1>2, <1>3 DEF Scanned, PresentMet, MetHasVersion, FlushedMarked, WalkOver,
                    PruneReady, Collecting, At, State, Marked

\* Writing a batch of rows, touching one, or staging its text.
LEMMA BatchScanned ==
  ASSUME TypeInv, NEW j \in Jobs, Scanned(j), NEW b \in SUBSET Files,
         FlushChanged(j, b) \/ FlushUnchanged(j, b) \/ FlushStaging(j, b)
  PROVE  Scanned(j)'
<1>1. ItemsOK /\ TablesOK
  BY DEF TypeInv
<1>2. PICK st \in {"rowed", "done"} : Moved(j, b, st)
  BY DEF FlushChanged, FlushUnchanged, FlushStaging
<1>3. /\ UNCHANGED <<disk, quiet, job>>
      /\ job[j].pc \in {"scan", "flush"}
      /\ \A f \in b : State(j, f) \in {"changed", "same", "rowed"}
  BY DEF FlushChanged, FlushUnchanged, FlushStaging, Batch, With, At, State
<1>4. ASSUME NEW f \in Files
      PROVE  /\ item'[j][f].ver = item[j][f].ver
             /\ f \in b => State(j, f)' = st
             /\ f \notin b => State(j, f)' = State(j, f)
  <2>1. item[j][f] \in Items
    BY <1>1 DEF ItemsOK
  <2>2. item'[j][f] = IF f \in b THEN [item[j][f] EXCEPT !.st = st]
                                 ELSE item[j][f]
    BY <1>1, <1>2 DEF Moved, ItemsOK
  <2> QED
    BY <2>1, <2>2 DEF Items, State
<1>5. ASSUME NEW f \in Files, Marked(j, f) PROVE Marked(j, f)'
  <2>1. rows[f] \in [ver : Versions, scan : 0..MaxJobs]
    BY <1>1 DEF TablesOK
  <2>2. \/ rows'[f] = rows[f]
        \/ rows'[f] = [ver |-> item[j][f].ver, scan |-> j]
        \/ rows'[f] = [rows[f] EXCEPT !.scan = j]
    BY <1>1 DEF FlushChanged, FlushUnchanged, FlushStaging, TablesOK
  <2> QED
    BY <1>5, <2>1, <2>2 DEF Marked
<1>6. ASSUME NEW f \in b, quiet PROVE Marked(j, f)'
  <2>1. rows[f] \in [ver : Versions, scan : 0..MaxJobs]
    BY <1>1 DEF TablesOK
  <2>2. CASE FlushChanged(j, b)
    BY <1>1, <2>2 DEF FlushChanged, Marked
  <2>3. CASE FlushUnchanged(j, b)
    BY <1>1, <2>1, <2>3 DEF FlushUnchanged, Marked, Indexed, TablesOK
  <2>4. CASE FlushStaging(j, b)
    <3>1. Marked(j, f)
      BY <1>3, <1>6, <2>4 DEF FlushStaging, Batch, With, State, Scanned,
                              FlushedMarked, Collecting
    <3> QED
      BY <1>5, <3>1
  <2> QED
    BY <2>2, <2>3, <2>4
<1> QED
  BY <1>2, <1>3, <1>4, <1>5, <1>6
     DEF Scanned, PresentMet, MetHasVersion, FlushedMarked, WalkOver,
         PruneReady, Collecting, At

\* When the last batches are flushed, pruning is safe.
LEMMA FlushEndsScanned ==
  ASSUME TypeInv, NEW j \in Jobs, Scanned(j), FlushEnds(j)
  PROVE  Scanned(j)'
<1>1. JobsOK /\ ItemsOK
  BY DEF TypeInv
<1>2. /\ job'[j].pc = "prune" /\ job'[j].user = job[j].user
      /\ At(j, "flush")
      /\ UNCHANGED <<disk, quiet, rows, item>>
  BY <1>1 DEF FlushEnds, Goto, JobsOK, JobRecords, tables
<1>3. ASSUME NEW f \in Files PROVE State(j, f) \in {"none", "done"}
  <2>1. State(j, f) \notin {"changed", "same", "rowed"}
    BY DEF FlushEnds, With, State
  <2>2. State(j, f) \notin {"todo", "walked", "read"}
    BY <1>2 DEF Scanned, WalkOver
  <2> QED
    BY <1>1, <2>1, <2>2 DEF ItemsOK, Items, State
<1>4. PruneReady(j)'
  BY <1>2, <1>3 DEF Scanned, PresentMet, FlushedMarked, PruneReady, Collecting,
                    At, Marked
<1> QED
  BY <1>2, <1>4 DEF Scanned, PresentMet, MetHasVersion, FlushedMarked, WalkOver,
                    Collecting, At

\* The snapshot, and the end of the walk.
LEMMA PhaseScanned ==
  ASSUME TypeInv, NEW j \in Jobs, Scanned(j), LoadSnapshot(j) \/ ScanEnds(j)
  PROVE  Scanned(j)'
<1>1. JobsOK
  BY DEF TypeInv
<1>2. /\ UNCHANGED <<disk, quiet, rows, item>>
      /\ job'[j].pc \in {"scan", "flush"} /\ job'[j].user = job[j].user
      /\ Collecting(j)
  <2>1. job[j] \in JobRecords
    BY <1>1 DEF JobsOK
  <2>2. \E s, p : /\ p \in {"scan", "flush"}
                  /\ job'[j] = [job[j] EXCEPT !.pc = p, !.snap = s]
    BY <1>1 DEF LoadSnapshot, ScanEnds, JobsOK
  <2>3. job'[j].pc \in {"scan", "flush"} /\ job'[j].user = job[j].user
    BY <2>1, <2>2 DEF JobRecords
  <2> QED
    BY <2>3 DEF LoadSnapshot, ScanEnds, Collecting, At, tables
<1>3. WalkOver(j)'
  <2>1. CASE LoadSnapshot(j)
    BY <1>1, <2>1 DEF LoadSnapshot, JobsOK, JobRecords, WalkOver, At
  <2>2. CASE ScanEnds(j)
    BY <1>2, <2>2 DEF ScanEnds, With, WalkOver, At, State
  <2> QED
    BY <2>1, <2>2
<1> QED
  BY <1>2, <1>3 DEF Scanned, PresentMet, MetHasVersion, FlushedMarked,
                    PruneReady, Collecting, At, State, Marked

\* The other steps of a job leave collecting and pruning.
LEMMA LeavesScan ==
  ASSUME TypeInv, NEW j \in Jobs,
         \/ Truncate(j) \/ Prune(j) \/ Apply(j) \/ Rebuild(j)
         \/ GiveUpUser(j) \/ Goto(j, "apply")
  PROVE  Scanned(j)'
<1>1. JobsOK
  BY DEF TypeInv
<1>2. job[j] \in JobRecords
  BY <1>1 DEF JobsOK
<1>3. job'[j].pc \in {"users", "apply", "rebuild", "complete"}
  BY <1>1, <1>2 DEF Truncate, Prune, Apply, Rebuild, GiveUpUser, Goto, JobsOK,
                    JobRecords
<1> QED
  BY <1>3 DEF Scanned, PresentMet, MetHasVersion, FlushedMarked, WalkOver,
              PruneReady, Collecting, At

\* A quiet job stays alone with the tables, whatever else happens.
LEMMA QuietStep ==
  TypeInv /\ QuietIsIdle /\ [Next]_vars => QuietIsIdle'
<1> SUFFICES ASSUME TypeInv, QuietIsIdle, [Next]_vars, quiet'
             PROVE  api'.pc = "idle"
  BY DEF QuietIsIdle
<1>1. ASSUME NEW j \in Jobs, WorkSteps(j) PROVE api'.pc = "idle"
  BY <1>1, WorkShape DEF OnlyOf, QuietIsIdle
<1>2. ASSUME NEW j \in Jobs, Ends(j) PROVE api'.pc = "idle"
  BY <1>2 DEF Ends, Finish
<1>3. ASSUME NEW j \in Jobs, NEW own \in BOOLEAN, Start(j, own)
      PROVE  api'.pc = "idle"
  <2>1. api' = api /\ api = NoRequest
    BY <1>3, Zenon DEF Start
  <2> QED
    BY <2>1 DEF NoRequest
<1>4. CASE Cancel \/ UNCHANGED vars
  BY <1>4 DEF Cancel, vars, QuietIsIdle
<1>5. CASE Request
  BY <1>5 DEF Request, RequestWrites, RequestDeletes, Change, Disturb,
              RequestStat, RequestRow, RequestText, RequestUnindexes,
              RequestStops, InRequest, NoRequest, QuietIsIdle
<1> QED
  BY <1>1, <1>2, <1>3, <1>4, <1>5, NextCases

\* While a job is quiet a request changes nothing but quiet itself.
LEMMA RequestLoud ==
  ASSUME QuietIsIdle, Request
  PROVE  ~quiet'
BY DEF Request, RequestWrites, RequestDeletes, Change, Disturb, RequestStat,
       RequestRow, RequestText, RequestUnindexes, RequestStops, InRequest,
       QuietIsIdle

\* Every step of every actor keeps what the scan knows.
LEMMA ScanStep ==
  TypeInv /\ HoldsSlot /\ ScanInv /\ [Next]_vars => ScanInv'
<1> SUFFICES ASSUME TypeInv, HoldsSlot, ScanInv, [Next]_vars,
                    NEW i \in Jobs
             PROVE  Scanned(i)'
  BY QuietStep DEF ScanInv
<1>0. JobsOK /\ Scanned(i) /\ QuietIsIdle
  BY DEF TypeInv, ScanInv
<1>1. ASSUME job'[i].pc \notin {"load", "scan", "flush", "prune"}
      PROVE  Scanned(i)'
  BY <1>1 DEF Scanned, PresentMet, MetHasVersion, FlushedMarked, WalkOver,
              PruneReady, Collecting, At
<1>2. ASSUME NEW j \in Jobs, WorkSteps(j) PROVE Scanned(i)'
  <2>1. CASE i = j
    BY <1>0, <1>2, <2>1, NextUserScanned, FileScanned, BatchScanned,
       FlushEndsScanned, PhaseScanned, LeavesScan DEF WorkSteps
  <2>2. CASE i # j
    <3>1. ~Active(i) /\ job'[i] = job[i]
      BY <1>2, <2>2, WorkShape DEF OnlyOf, HoldsSlot
    <3> QED
      BY <1>1, <3>1 DEF Active
  <2> QED
    BY <2>1, <2>2
<1>3. ASSUME NEW j \in Jobs, Ends(j) PROVE Scanned(i)'
  <2>1. /\ Active(j)
        /\ job' = [job EXCEPT ![j] = [NoJob EXCEPT !.pc = "over"]]
    BY <1>3 DEF Ends, Finish
  <2>2. job'[j].pc = "over" /\ (i # j => job'[i] = job[i])
    BY <1>0, <2>1 DEF JobsOK, NoJob
  <2>3. job'[i].pc \in {"none", "over"}
    BY <2>1, <2>2 DEF HoldsSlot, Active
  <2> QED
    BY <1>1, <2>3
<1>4. ASSUME NEW j \in Jobs, NEW own \in BOOLEAN, Start(j, own)
      PROVE  Scanned(i)'
  <2>1. ~Active(i)
    BY <1>4 DEF HoldsSlot, Start, SlotFree
  <2>2. job'[i].pc \in {"none", "over", "truncate"}
    BY <1>0, <1>4, <2>1 DEF Start, JobsOK, NoJob, Active
  <2> QED
    BY <1>1, <2>2
<1>5. CASE Cancel
  BY <1>0, <1>5, CancelShape
     DEF Scanned, PresentMet, MetHasVersion, FlushedMarked, WalkOver,
         PruneReady, Collecting, At, State, Marked, tables
<1>6. CASE Request
  BY <1>0, <1>6, RequestShape, RequestLoud
     DEF Scanned, PresentMet, MetHasVersion, FlushedMarked, WalkOver,
         PruneReady, Collecting, At, State, jobs
<1>7. CASE UNCHANGED vars
  BY <1>0, <1>7
     DEF Scanned, PresentMet, MetHasVersion, FlushedMarked, WalkOver,
         PruneReady, Collecting, At, State, Marked, vars, jobs, tables
<1> QED
  BY <1>2, <1>3, <1>4, <1>5, <1>6, <1>7, NextCases

\* What the scan knows holds for good.
LEMMA ScanInvariant == Spec => [](TypeInv /\ HoldsSlot /\ ScanInv)
<1>1. Init => ScanInv
  BY DEF Init, ScanInv, QuietIsIdle, Scanned, PresentMet, MetHasVersion,
         FlushedMarked, WalkOver, PruneReady, Collecting, At, NoJob
<1> QED
  BY <1>1, ScanStep, SlotInvariant, TypeInvariant, PTL DEF Spec

Spares(f) == rows[f].ver # 0 => rows'[f].ver # 0

\* The rows change in four ways.
LEMMA RowSteps ==
  ASSUME [Next]_vars
  PROVE  \/ UNCHANGED rows
         \/ \E j \in Jobs : \/ \E b \in SUBSET Files :
                                 FlushChanged(j, b) \/ FlushUnchanged(j, b)
                            \/ Prune(j)
         \/ Request
<1>1. ASSUME NEW j \in Jobs, WorkSteps(j)
      PROVE  \/ UNCHANGED rows \/ Prune(j)
             \/ \E b \in SUBSET Files : FlushChanged(j, b) \/ FlushUnchanged(j, b)
  BY <1>1
     DEF WorkSteps, Truncate, NextUser, LoadSnapshot, ScanEnds, FlushEnds,
         WalkFile, ReadFile, CompareFile, FlushStaging, Apply, Rebuild,
         GiveUpUser, Finish, tables
<1>2. ASSUME NEW j \in Jobs, Ends(j) PROVE UNCHANGED rows
  BY <1>2 DEF Ends, Finish, tables
<1>3. ASSUME NEW j \in Jobs, NEW own \in BOOLEAN, Start(j, own)
      PROVE  UNCHANGED rows
  BY <1>3 DEF Start, tables
<1>4. CASE Cancel
  BY <1>4 DEF Cancel, tables
<1>5. CASE UNCHANGED vars
  BY <1>5 DEF vars, tables
<1> QED
  BY <1>1, <1>2, <1>3, <1>4, <1>5, NextCases

\* A quiet step removes no row of a file that is on disk.
LEMMA SparesStep ==
  ASSUME TypeInv, HoldsSlot, ScanInv, [Next]_vars,
         NEW i \in Jobs, Active(i), quiet, NEW f \in Files, disk[f] # 0
  PROVE  Spares(f)
<1> USE DEF Spares
<1>0. ItemsOK /\ TablesOK
  BY DEF TypeInv
<1>1. ASSUME NEW j \in Jobs, NEW b \in SUBSET Files, FlushChanged(j, b)
      PROVE  Spares(f)
  <2>1. f \in b => item[j][f].ver # 0
    BY <1>1 DEF ScanInv, Scanned, MetHasVersion, FlushChanged, Batch, With,
                Collecting, At, State
  <2> QED
    BY <1>0, <1>1, <2>1 DEF FlushChanged
<1>2. ASSUME NEW j \in Jobs, NEW b \in SUBSET Files, FlushUnchanged(j, b)
      PROVE  Spares(f)
  <2>1. rows[f] \in [ver : Versions, scan : 0..MaxJobs]
    BY <1>0 DEF TablesOK
  <2> QED
    BY <1>2, <2>1 DEF FlushUnchanged
<1>3. ASSUME NEW j \in Jobs, Prune(j) PROVE Spares(f)
  <2>1. f \in Unseen(j) => rows[f].ver = 0
    BY <1>3 DEF Unseen, Of, ScanInv, Scanned, PruneReady, Prune, Marked
  <2> QED
    BY <1>3, <2>1 DEF Prune
<1>4. CASE Request
  <2>1. UNCHANGED rows
    BY <1>4 DEF ScanInv, QuietIsIdle, Request, RequestWrites, RequestDeletes,
                Change, RequestStat, RequestRow, RequestText, RequestUnindexes,
                RequestStops, InRequest, tables
  <2> QED
    BY <2>1
<1>5. CASE UNCHANGED rows
  BY <1>5
<1> QED
  BY <1>1, <1>2, <1>3, <1>4, <1>5, RowSteps

\* A scan that runs alone takes no file out of the index that is on disk, for
\* any users, files and batches, also if it fails or is cancelled anywhere.
THEOREM PresentSpared == Spec => ScanSparesPresent
<1>1. TypeInv /\ HoldsSlot /\ ScanInv /\ [Next]_vars
        => [\A j \in Jobs, f \in Files :
              Active(j) /\ quiet /\ disk[f] # 0 /\ rows[f].ver # 0
                => rows'[f].ver # 0]_vars
  BY SparesStep DEF Spares
<1> QED
  BY <1>1, ScanInvariant, PTL DEF Spec, ScanSparesPresent

-----------------------------------------------------------------------------
(* The index after a job that ran alone *)

\* The files whose users the job has left behind, so far without an error.
Passed(j) ==
  {f \in Files :
     /\ job[j].pc # "truncate" /\ ~job[j].failed
     /\ Home[f] \notin job[j].left
     /\ Collecting(j) \/ At(j, "prune") => Home[f] # job[j].user}

\* A row with the number of the job is the one of the file on disk.
MarkedIsDisk(j) ==
  \A f \in Files : rows[f].scan = j => disk[f] # 0 /\ rows[f].ver = disk[f]

\* What has been met belongs to the user and is on disk as it was found.
MetIsDisk(j) ==
  \A f \in Files : Collecting(j) =>
    /\ State(j, f) # "none" => Home[f] = job[j].user
    /\ State(j, f) \notin {"none", "todo"} => item[j][f].ver = disk[f]
    /\ State(j, f) \notin {"none", "todo", "walked"} => item[j][f].txt = disk[f]

\* The snapshot and the comparison speak of the row as it still is.
ComparesRows(j) ==
  \A f \in Files :
    /\ At(j, "scan") /\ State(j, f) \in {"todo", "walked", "read"}
         => \A v \in Versions : <<f, v>> \in job[j].snap => v = rows[f].ver
    /\ Collecting(j) /\ State(j, f) = "same" => rows[f].ver = item[j][f].ver

\* What has been flushed carries the number of the job, and when all has been,
\* every file of the user that is on disk does.
FlushedHasNumber(j) ==
  \A f \in Files :
    /\ Collecting(j) /\ State(j, f) \in {"rowed", "done"} => rows[f].scan = j
    /\ At(j, "prune") /\ Home[f] = job[j].user /\ disk[f] # 0
         => rows[f].scan = j

\* The rows of the users left behind are those of the disk.
PassedAligned(j) == \A f \in Passed(j) : rows[f].ver = disk[f]

\* The last steps are taken for all users or not at all.
LastSteps(j) ==
  /\ job[j].pc \in {"apply", "rebuild", "complete"}
       => job[j].left = {} /\ ~job[j].failed
  /\ At(j, "complete") => names = Indexed

Aligning(j) ==
  /\ MarkedIsDisk(j) /\ MetIsDisk(j) /\ ComparesRows(j) /\ FlushedHasNumber(j)
  /\ PassedAligned(j) /\ LastSteps(j)

\* No row has the number of a job that has not been started.
ScansPast == \A f \in Files : rows[f].scan <= slot.id

AlignInv == ScansPast /\ \A j \in Jobs : Active(j) /\ quiet => Aligning(j)

\* The walk of the next user begins: nothing is known of a file yet.
LEMMA NextUserAligned ==
  ASSUME TypeInv, NEW j \in Jobs, Aligning(j), NEW u \in Users, NextUser(j, u)
  PROVE  Aligning(j)'
<1>1. JobsOK /\ ItemsOK
  BY DEF TypeInv
<1>2. job[j] \in JobRecords /\ job[j].pc = "users"
  BY <1>1 DEF JobsOK, NextUser, At
<1>3. /\ job'[j].pc = "load" /\ job'[j].user = u
      /\ job'[j].left = job[j].left \ {u} /\ job'[j].failed = job[j].failed
      /\ UNCHANGED <<disk, rows, names>>
  BY <1>1, <1>2 DEF NextUser, JobsOK, JobRecords, tables
<1>4. ASSUME NEW f \in Files
      PROVE  /\ State(j, f)' \in {"none", "todo"}
             /\ State(j, f)' = "todo" => Home[f] = u
  BY <1>1 DEF NextUser, ItemsOK, State, NoItem
<1>5. Passed(j)' \subseteq Passed(j)
  BY <1>2, <1>3 DEF Passed, Collecting, At
<1> QED
  BY <1>3, <1>4, <1>5
     DEF Aligning, MarkedIsDisk, MetIsDisk, ComparesRows, FlushedHasNumber,
         PassedAligned, LastSteps, Collecting, At

\* Walking, reading and comparing one file.
LEMMA FileAligned ==
  ASSUME TypeInv, NEW j \in Jobs, Aligning(j), NEW f \in Files,
         WalkFile(j, f) \/ ReadFile(j, f) \/ CompareFile(j, f)
  PROVE  Aligning(j)'
<1>1. ItemsOK
  BY DEF TypeInv
<1>2. /\ UNCHANGED <<disk, rows, names, job>>
      /\ \A g \in Files \ {f} : item'[j][g] = item[j][g]
      /\ job[j].pc \in {"load", "scan"} /\ Collecting(j)
      /\ State(j, f) \in {"todo", "walked", "read"}
  BY <1>1 DEF WalkFile, ReadFile, CompareFile, ItemsOK, Scanning, Collecting,
              At, State, tables
<1>3. item[j][f] \in Items
  BY <1>1 DEF ItemsOK
<1> DEFINE t == item'[j][f]
<1>4. /\ t.st \notin {"rowed", "done", "todo"}
      /\ t.st # "none" => t.ver = disk[f] /\ Home[f] = job[j].user
      /\ t.st \notin {"none", "walked"} => t.txt = disk[f]
      /\ t.st = "same" => rows[f].ver = t.ver
  <2>1. CASE WalkFile(j, f)
    <3>1. t = IF disk[f] = 0 THEN NoItem
              ELSE [st |-> "walked", ver |-> disk[f], txt |-> 0]
      BY <1>1, <2>1 DEF WalkFile, ItemsOK
    <3>2. Home[f] = job[j].user
      BY <1>2 DEF Aligning, MetIsDisk
    <3> QED
      BY <3>1, <3>2 DEF NoItem
  <2>2. CASE ReadFile(j, f)
    <3>1. t = [item[j][f] EXCEPT !.st = "read", !.txt = disk[f]]
      BY <1>1, <2>2 DEF ReadFile, ItemsOK
    <3>2. item[j][f].ver = disk[f] /\ Home[f] = job[j].user
      BY <1>2, <2>2 DEF Aligning, MetIsDisk, ReadFile, State
    <3> QED
      BY <1>3, <3>1, <3>2 DEF Items
  <2>3. CASE CompareFile(j, f)
    <3>1. t = [item[j][f] EXCEPT !.st =
                 IF <<f, item[j][f].ver>> \in job[j].snap THEN "same"
                                                          ELSE "changed"]
      BY <1>1, <2>3 DEF CompareFile, ItemsOK
    <3>2. /\ item[j][f].ver = disk[f] /\ item[j][f].txt = disk[f]
          /\ Home[f] = job[j].user
      BY <1>2, <2>3 DEF Aligning, MetIsDisk, CompareFile, State
    <3>3. <<f, item[j][f].ver>> \in job[j].snap => rows[f].ver = item[j][f].ver
      <4>1. item[j][f].ver \in Versions
        BY <1>3 DEF Items
      <4> QED
        BY <2>3, <4>1 DEF Aligning, ComparesRows, CompareFile, State
    <3> QED
      BY <1>3, <3>1, <3>2, <3>3 DEF Items
  <2> QED
    BY <2>1, <2>2, <2>3
<1>5. Passed(j)' = Passed(j)
  BY <1>2 DEF Passed, Collecting, At
<1>6. MetIsDisk(j)'
  BY <1>2, <1>4 DEF Aligning, MetIsDisk, Collecting, State
<1>7. ComparesRows(j)'
  BY <1>2, <1>4 DEF Aligning, ComparesRows, Collecting, At, State
<1>8. FlushedHasNumber(j)'
  BY <1>2, <1>4 DEF Aligning, FlushedHasNumber, Collecting, At, State
<1>9. LastSteps(j)'
  BY <1>2 DEF LastSteps, At
<1> QED
  BY <1>2, <1>5, <1>6, <1>7, <1>8, <1>9
     DEF Aligning, MarkedIsDisk, PassedAligned

\* What a batch of rows, of touched rows or of texts leaves of a file.
LEMMA BatchShape ==
  ASSUME TypeInv, NEW j \in Jobs, NEW b \in SUBSET Files,
         NEW st \in {"rowed", "done"}, Moved(j, b, st), NEW f \in Files
  PROVE  /\ item'[j][f].ver = item[j][f].ver
         /\ item'[j][f].txt = item[j][f].txt
         /\ f \in b => State(j, f)' = st
         /\ f \notin b => State(j, f)' = State(j, f)
<1>1. item[j][f] \in Items /\ ItemsOK
  BY DEF TypeInv, ItemsOK
<1>2. item'[j][f] = IF f \in b THEN [item[j][f] EXCEPT !.st = st]
                               ELSE item[j][f]
  BY <1>1 DEF Moved, ItemsOK
<1> QED
  BY <1>1, <1>2 DEF Items, State

\* A batch that is flushed makes the rows those of the disk.
LEMMA BatchRows ==
  ASSUME TypeInv, NEW j \in Jobs, Scanned(j), Aligning(j),
         NEW b \in SUBSET Files, NEW f \in Files,
         FlushChanged(j, b) \/ FlushUnchanged(j, b) \/ FlushStaging(j, b)
  PROVE  /\ f \in b => /\ rows'[f].ver = disk[f] /\ disk[f] # 0
                       /\ rows'[f].scan = j /\ Home[f] = job[j].user
         /\ f \notin b => rows'[f] = rows[f]
<1>1. /\ TablesOK
      /\ rows[f] \in [ver : Versions, scan : 0..MaxJobs]
  BY DEF TypeInv, TablesOK
<1>2. /\ Collecting(j)
      /\ f \in b => State(j, f) \in {"changed", "same", "rowed"}
  BY DEF FlushChanged, FlushUnchanged, FlushStaging, Batch, With, Collecting,
         At, State
<1>3. f \in b => /\ item[j][f].ver = disk[f] /\ disk[f] # 0
                 /\ Home[f] = job[j].user
  BY <1>2 DEF Aligning, MetIsDisk, Scanned, MetHasVersion
<1>4. CASE FlushChanged(j, b)
  BY <1>1, <1>3, <1>4 DEF FlushChanged
<1>5. CASE FlushUnchanged(j, b)
  <2>1. f \in b => State(j, f) = "same"
    BY <1>5 DEF FlushUnchanged, Batch, With, State
  <2>2. f \in b => rows[f].ver = item[j][f].ver
    BY <1>2, <2>1 DEF Aligning, ComparesRows
  <2>3. rows'[f] = IF f \in b \cap Indexed THEN [rows[f] EXCEPT !.scan = j]
                                           ELSE rows[f]
    BY <1>5 DEF FlushUnchanged
  <2> QED
    BY <1>1, <1>3, <2>2, <2>3 DEF Indexed
<1>6. CASE FlushStaging(j, b)
  <2>1. f \in b => State(j, f) = "rowed"
    BY <1>6 DEF FlushStaging, Batch, With, State
  <2>2. f \in b => rows[f].scan = j
    BY <1>2, <2>1 DEF Aligning, FlushedHasNumber
  <2> QED
    BY <1>3, <1>6, <2>2 DEF FlushStaging, Aligning, MarkedIsDisk
<1> QED
  BY <1>4, <1>5, <1>6

\* Writing a batch of rows, touching one, or staging its text.
LEMMA BatchAligned ==
  ASSUME TypeInv, NEW j \in Jobs, Scanned(j), Aligning(j), NEW b \in SUBSET Files,
         FlushChanged(j, b) \/ FlushUnchanged(j, b) \/ FlushStaging(j, b)
  PROVE  Aligning(j)'
<1>1. PICK st \in {"rowed", "done"} : Moved(j, b, st)
  BY DEF FlushChanged, FlushUnchanged, FlushStaging
<1>2. /\ UNCHANGED <<disk, names, job>>
      /\ job[j].pc \in {"scan", "flush"} /\ Collecting(j)
      /\ \A f \in b : State(j, f) \in {"changed", "same", "rowed"}
  BY DEF FlushChanged, FlushUnchanged, FlushStaging, Batch, With, At, State,
         Collecting
<1>3. ASSUME NEW f \in Files
      PROVE  /\ item'[j][f].ver = item[j][f].ver
             /\ item'[j][f].txt = item[j][f].txt
             /\ f \in b => State(j, f)' = st
             /\ f \notin b => State(j, f)' = State(j, f)
  BY <1>1, BatchShape
<1>4. ASSUME NEW f \in Files
      PROVE  /\ f \in b => /\ rows'[f].ver = disk[f] /\ disk[f] # 0
                           /\ rows'[f].scan = j /\ Home[f] = job[j].user
             /\ f \notin b => rows'[f] = rows[f]
  BY BatchRows
<1>5. MarkedIsDisk(j)'
  BY <1>2, <1>4 DEF Aligning, MarkedIsDisk
<1>6. MetIsDisk(j)'
  BY <1>2, <1>3 DEF Aligning, MetIsDisk, Collecting
<1>7. ComparesRows(j)'
  BY <1>2, <1>3, <1>4 DEF Aligning, ComparesRows, Collecting, At
<1>8. FlushedHasNumber(j)'
  BY <1>2, <1>3, <1>4 DEF Aligning, FlushedHasNumber, Collecting, At
<1>9. PassedAligned(j)'
  <2>1. Passed(j)' = Passed(j)
    BY <1>2 DEF Passed, Collecting, At
  <2>2. Passed(j) \cap b = {}
    BY <1>2, <1>4 DEF Passed
  <2> QED
    BY <1>2, <1>4, <2>1, <2>2 DEF Aligning, PassedAligned, Passed
<1>10. LastSteps(j)'
  BY <1>2 DEF LastSteps, At
<1> QED
  BY <1>5, <1>6, <1>7, <1>8, <1>9, <1>10 DEF Aligning

\* The snapshot, the end of the walk and the end of the last flush.
LEMMA PhaseAligned ==
  ASSUME TypeInv, NEW j \in Jobs, quiet, Scanned(j), Aligning(j),
         LoadSnapshot(j) \/ ScanEnds(j) \/ FlushEnds(j)
  PROVE  Aligning(j)'
<1>1. JobsOK /\ job[j] \in JobRecords
  BY DEF TypeInv, JobsOK
<1>0. \E p, s : /\ job'[j] = [job[j] EXCEPT !.pc = p, !.snap = s]
               /\ \/ p = "scan" /\ LoadSnapshot(j)
                  \/ p = "flush"
                  \/ p = "prune" /\ FlushEnds(j)
  <2>1. CASE LoadSnapshot(j) \/ ScanEnds(j)
    BY <1>1, <2>1 DEF LoadSnapshot, ScanEnds, JobsOK
  <2>2. CASE FlushEnds(j)
    <3>1. job'[j] = [job[j] EXCEPT !.pc = "prune"]
      BY <1>1, <2>2 DEF FlushEnds, Goto, JobsOK
    <3>2. job'[j] = [job[j] EXCEPT !.pc = "prune", !.snap = job[j].snap]
      BY <1>1, <3>1 DEF JobRecords
    <3> QED
      BY <2>2, <3>2
  <2> QED
    BY <2>1, <2>2
<1>2. /\ job'[j].user = job[j].user /\ job'[j].left = job[j].left
      /\ job'[j].failed = job[j].failed
      /\ job[j].pc \in {"load", "scan", "flush"} /\ Collecting(j)
      /\ job'[j].pc \in {"scan", "flush", "prune"}
      /\ UNCHANGED <<disk, rows, names, item>>
  <2>1. /\ job'[j].user = job[j].user /\ job'[j].left = job[j].left
        /\ job'[j].failed = job[j].failed
        /\ job'[j].pc \in {"scan", "flush", "prune"}
    BY <1>0, <1>1 DEF JobRecords
  <2> QED
    BY <2>1 DEF LoadSnapshot, ScanEnds, FlushEnds, Goto, Collecting, At, tables
<1>3. /\ job'[j].pc = "scan" => LoadSnapshot(j)
      /\ job'[j].pc = "prune" => FlushEnds(j)
  BY <1>0, <1>1 DEF JobRecords
<1>4. MetIsDisk(j)' /\ MarkedIsDisk(j)' /\ LastSteps(j)'
  BY <1>2 DEF Aligning, MetIsDisk, MarkedIsDisk, LastSteps, Collecting, State, At
<1>5. Passed(j)' = Passed(j)
  BY <1>2 DEF Passed, Collecting, At
<1>6. ComparesRows(j)'
  <2>1. ASSUME LoadSnapshot(j), NEW f \in Files, NEW v \in Versions,
               <<f, v>> \in job'[j].snap
        PROVE  v = rows[f].ver
    BY <1>1, <2>1 DEF LoadSnapshot, JobsOK, JobRecords
  <2> QED
    BY <1>2, <1>3, <2>1 DEF Aligning, ComparesRows, Collecting, State, At
<1>7. FlushedHasNumber(j)'
  <2>1. ASSUME FlushEnds(j), NEW f \in Files, Home[f] = job[j].user, disk[f] # 0
        PROVE  rows[f].scan = j
    <3>1. State(j, f) \notin {"changed", "same", "rowed"}
      BY <2>1 DEF FlushEnds, With, State
    <3>2. State(j, f) \notin {"todo", "walked", "read", "none"}
      BY <1>2, <2>1 DEF Scanned, WalkOver, PresentMet, FlushEnds
    <3>3. State(j, f) = "done"
      BY <3>1, <3>2 DEF TypeInv, ItemsOK, Items, State
    <3> QED
      BY <1>2, <3>3 DEF Aligning, FlushedHasNumber
  <2> QED
    BY <1>2, <1>3, <2>1 DEF Aligning, FlushedHasNumber, Collecting, State, At
<1> QED
  BY <1>2, <1>4, <1>5, <1>6, <1>7 DEF Aligning, PassedAligned

\* Pruning leaves of the user's rows those that are on disk.
LEMMA PruneAligned ==
  ASSUME TypeInv, NEW j \in Jobs, Aligning(j), Prune(j)
  PROVE  Aligning(j)'
<1>1. JobsOK /\ job[j] \in JobRecords /\ TablesOK /\ job[j].pc = "prune"
  BY DEF TypeInv, JobsOK, Prune, At
<1>2. /\ job'[j].pc = "users" /\ job'[j].left = job[j].left
      /\ job'[j].failed = job[j].failed
      /\ UNCHANGED disk
  BY <1>1 DEF Prune, Goto, JobsOK, JobRecords
<1>3. ASSUME NEW f \in Files
      PROVE  rows'[f] = IF Home[f] = job[j].user /\ rows[f].scan # j THEN NoRow
                                                                     ELSE rows[f]
  BY <1>1 DEF Prune, Unseen, Of
<1>4. MarkedIsDisk(j)'
  BY <1>2, <1>3 DEF Aligning, MarkedIsDisk, NoRow, Jobs
<1>5. PassedAligned(j)'
  <2> SUFFICES ASSUME NEW f \in Files, f \in Passed(j)'
               PROVE  rows'[f].ver = disk[f]
    BY <1>2 DEF PassedAligned, Passed
  <2>1. CASE Home[f] = job[j].user
    <3>1. CASE rows[f].scan = j
      BY <1>3, <3>1 DEF Aligning, MarkedIsDisk
    <3>2. CASE rows[f].scan # j
      BY <1>1, <1>3, <2>1, <3>2 DEF Aligning, FlushedHasNumber, NoRow, At
    <3> QED
      BY <3>1, <3>2
  <2>2. CASE Home[f] # job[j].user
    BY <1>1, <1>2, <1>3, <2>2 DEF Aligning, PassedAligned, Passed
  <2> QED
    BY <2>1, <2>2
<1> QED
  BY <1>2, <1>4, <1>5
     DEF Aligning, MetIsDisk, ComparesRows, FlushedHasNumber, LastSteps,
         Collecting, At

\* The steps before and after the scans, and a scan that is given up.
LEMMA OutsideAligned ==
  ASSUME TypeInv, NEW j \in Jobs, Aligning(j),
         \/ Truncate(j) \/ Apply(j) \/ Rebuild(j)
         \/ GiveUpUser(j)
         \/ /\ At(j, "users") /\ job[j].left = {} /\ ~job[j].failed
            /\ Goto(j, "apply")
            /\ UNCHANGED <<disk, version, tables, slot, item, api, quiet, clean>>
  PROVE  Aligning(j)'
<1>1. JobsOK /\ job[j] \in JobRecords
  BY DEF TypeInv, JobsOK
<1>2. /\ job'[j].pc \in {"users", "apply", "rebuild", "complete"}
      /\ UNCHANGED <<disk, rows>>
  BY <1>1 DEF Truncate, Apply, Rebuild, GiveUpUser, Goto, JobsOK, JobRecords,
              tables
<1>3. PassedAligned(j)'
  <2>1. CASE Truncate(j)
    <3>1. job'[j].left = Users
      BY <1>1, <2>1 DEF Truncate, JobsOK, JobRecords
    <3> QED
      BY <3>1, HomeAssumption DEF PassedAligned, Passed
  <2>2. CASE GiveUpUser(j)
    <3>1. job'[j].failed
      BY <1>1, <2>2 DEF GiveUpUser, JobsOK, JobRecords
    <3> QED
      BY <3>1 DEF PassedAligned, Passed
  <2>3. CASE Apply(j) \/ Rebuild(j) \/ (At(j, "users") /\ Goto(j, "apply"))
    <3>1. /\ job'[j].left = job[j].left /\ job'[j].failed = job[j].failed
          /\ job[j].pc \in {"users", "apply", "rebuild"}
      BY <1>1, <2>3 DEF Apply, Rebuild, Goto, At, JobsOK, JobRecords
    <3>2. Passed(j)' = Passed(j)
      BY <1>2, <3>1 DEF Passed, Collecting, At
    <3> QED
      BY <1>2, <3>2 DEF Aligning, PassedAligned
  <2> QED
    BY <2>1, <2>2, <2>3
<1>4. LastSteps(j)'
  <2>1. CASE Apply(j) \/ Rebuild(j)
    <3>1. /\ job'[j].left = job[j].left /\ job'[j].failed = job[j].failed
          /\ job[j].pc \in {"apply", "rebuild"}
          /\ job'[j].pc = "complete" => names' = Indexed
      BY <1>1, <2>1 DEF Apply, Rebuild, Goto, At, JobsOK, JobRecords
    <3>2. Indexed' = Indexed
      BY <1>2 DEF Indexed
    <3> QED
      BY <3>1, <3>2 DEF Aligning, LastSteps, At
  <2>2. CASE /\ job[j].left = {} /\ ~job[j].failed
             /\ Goto(j, "apply")
    <3>1. job'[j].left = {} /\ ~job'[j].failed /\ job'[j].pc = "apply"
      BY <1>1, <2>2 DEF Goto, JobsOK, JobRecords
    <3> QED
      BY <3>1 DEF LastSteps, At
  <2>3. CASE Truncate(j) \/ GiveUpUser(j)
    <3>1. job'[j].pc = "users"
      BY <1>1, <2>3 DEF Truncate, GiveUpUser, JobsOK, JobRecords
    <3> QED
      BY <3>1 DEF LastSteps, At
  <2> QED
    BY <2>1, <2>2, <2>3
<1>5. MarkedIsDisk(j)'
  BY <1>2 DEF Aligning, MarkedIsDisk
<1> QED
  BY <1>2, <1>3, <1>4, <1>5
     DEF Aligning, MetIsDisk, ComparesRows, FlushedHasNumber, Collecting, At

\* A job that starts gives no row its number before it scans.
LEMMA ScansPastStep ==
  TypeInv /\ HoldsSlot /\ ScansPast /\ [Next]_vars => ScansPast'
<1> SUFFICES ASSUME TypeInv, HoldsSlot, ScansPast, [Next]_vars,
                    NEW f \in Files
             PROVE  rows'[f].scan <= slot'.id
  BY DEF ScansPast
<1>0. /\ rows[f] \in [ver : Versions, scan : 0..MaxJobs]
      /\ TablesOK /\ slot.id \in 0..MaxJobs /\ rows[f].scan <= slot.id
      /\ MaxJobs \in Nat
  BY BoundsAssumption DEF TypeInv, TablesOK, SlotOK, ScansPast
<1>1. slot'.id \in Int /\ slot.id <= slot'.id
  <2>1. ASSUME NEW j \in Jobs, WorkSteps(j) PROVE slot' = slot
    BY <2>1, WorkShape DEF OnlyOf
  <2>2. ASSUME NEW j \in Jobs, Ends(j) PROVE slot'.id = slot.id
    BY <2>2 DEF Ends, Finish, TypeInv, SlotOK
  <2>3. ASSUME NEW j \in Jobs, NEW own \in BOOLEAN, Start(j, own)
        PROVE  slot'.id = slot.id + 1
    BY <2>3 DEF Start
  <2>4. CASE Cancel \/ Request \/ UNCHANGED vars
    <3>1. slot' = slot
      BY <2>4, RequestShape DEF Cancel, jobs, vars
    <3> QED
      BY <1>0, <3>1
  <2> QED
    BY <1>0, <2>1, <2>2, <2>3, <2>4, NextCases
<1>2. ASSUME NEW j \in Jobs, NEW b \in SUBSET Files,
             FlushChanged(j, b) \/ FlushUnchanged(j, b)
      PROVE  rows'[f].scan <= slot.id
  <2>1. Active(j)
    BY <1>2 DEF FlushChanged, FlushUnchanged, Batch, Active, At
  <2>2. slot.id = j
    BY <2>1 DEF HoldsSlot
  <2>3. rows'[f].scan \in {j, rows[f].scan}
    BY <1>0, <1>2 DEF FlushChanged, FlushUnchanged
  <2> QED
    BY <1>0, <2>2, <2>3
<1>3. ASSUME NEW j \in Jobs, Prune(j)
      PROVE  rows'[f].scan <= slot.id
  BY <1>0, <1>3 DEF Prune, NoRow
<1>4. ASSUME Request PROVE rows'[f].scan <= slot.id
  <2>1. \/ rows' = rows
        \/ \E r : r.scan = 0 /\ rows' = [rows EXCEPT ![api.file] = r]
    BY <1>4
       DEF Request, RequestWrites, RequestDeletes, Change, RequestStat,
           RequestRow, RequestText, RequestUnindexes, RequestStops, NoRow, tables
  <2>2. rows'[f].scan = 0 \/ rows'[f] = rows[f]
    BY <1>0, <2>1 DEF TablesOK
  <2>3. CASE rows'[f].scan = 0
    BY <1>0, <2>3
  <2>4. CASE rows'[f] = rows[f]
    BY <1>0, <2>4
  <2> QED
    BY <2>2, <2>3, <2>4
<1>5. rows'[f].scan <= slot.id
  BY <1>0, <1>2, <1>3, <1>4, RowSteps
<1>6. rows'[f].scan \in Int
  BY TypeStep DEF TypeInv, TablesOK
<1> QED
  BY <1>0, <1>1, <1>5, <1>6

\* Every step of every actor keeps what a job that runs alone has achieved.
LEMMA AlignStep ==
  TypeInv /\ HoldsSlot /\ ScanInv /\ AlignInv /\ [Next]_vars => AlignInv'
<1> SUFFICES ASSUME TypeInv, HoldsSlot, ScanInv, AlignInv, [Next]_vars,
                    NEW i \in Jobs, Active(i)', quiet'
             PROVE  Aligning(i)'
  BY ScansPastStep DEF AlignInv
<1>0. JobsOK /\ ItemsOK /\ Scanned(i) /\ QuietIsIdle
  BY DEF TypeInv, ScanInv
<1>1. ASSUME NEW j \in Jobs, WorkSteps(j) PROVE Aligning(i)'
  <2>1. Active(j) /\ OnlyOf(j)
    BY <1>1, WorkShape
  <2>2. i = j
    BY <2>1 DEF OnlyOf, Active, HoldsSlot
  <2>3. Aligning(j) /\ quiet
    BY <2>1, <2>2 DEF OnlyOf, AlignInv
  <2> QED
    BY <1>0, <1>1, <2>2, <2>3, NextUserAligned, FileAligned, BatchAligned,
       PhaseAligned, PruneAligned, OutsideAligned DEF WorkSteps
<1>2. ASSUME NEW j \in Jobs, Ends(j) PROVE Aligning(i)'
  BY <1>2 DEF Ends, Finish
<1>3. ASSUME NEW j \in Jobs, NEW own \in BOOLEAN, Start(j, own)
      PROVE  Aligning(i)'
  <2>1. ~Active(i)
    BY <1>3 DEF HoldsSlot, Start, SlotFree
  <2>2. i # j => job'[i] = job[i]
    BY <1>0, <1>3 DEF Start, JobsOK
  <2>3. i = j /\ i = slot.id + 1 /\ UNCHANGED rows
    BY <1>3, <2>1, <2>2 DEF Start, Active, tables
  <2>4. job'[i].pc = "truncate"
    BY <1>0, <1>3, <2>3 DEF Start, JobsOK, NoJob
  <2>5. MarkedIsDisk(i)'
    <3>1. ASSUME NEW f \in Files PROVE rows[f].scan # i
      BY <2>3 DEF AlignInv, ScansPast, TypeInv, TablesOK, SlotOK
    <3> QED
      BY <2>3, <3>1 DEF MarkedIsDisk
  <2> QED
    BY <2>4, <2>5
       DEF Aligning, MetIsDisk, ComparesRows, FlushedHasNumber, PassedAligned,
           Passed, LastSteps, Collecting, At
<1>4. CASE Cancel
  <2>1. Aligning(i)
    BY <1>4, CancelShape DEF AlignInv, Active
  <2>2. Passed(i)' = Passed(i) /\ Indexed' = Indexed
    BY <1>4, CancelShape DEF Passed, Collecting, At, Indexed, tables
  <2> QED
    BY <1>4, <2>1, <2>2, CancelShape
       DEF Aligning, MarkedIsDisk, MetIsDisk, ComparesRows, FlushedHasNumber,
           PassedAligned, LastSteps, Collecting, At, State, tables
<1>5. CASE Request
  BY <1>0, <1>5, RequestLoud
<1>6. CASE UNCHANGED vars
  <2>1. Aligning(i)
    BY <1>6 DEF AlignInv, Active, vars, jobs
  <2>2. Passed(i)' = Passed(i) /\ Indexed' = Indexed
    BY <1>6 DEF Passed, Collecting, At, Indexed, tables, vars, jobs
  <2> QED
    BY <1>6, <2>1, <2>2
       DEF Aligning, MarkedIsDisk, MetIsDisk, ComparesRows, FlushedHasNumber,
           PassedAligned, LastSteps, Collecting, At, State, tables, vars, jobs
<1> QED
  BY <1>1, <1>2, <1>3, <1>4, <1>5, <1>6, NextCases

\* What a job that runs alone achieves holds for good.
LEMMA AlignInvariant == Spec => [](TypeInv /\ HoldsSlot /\ ScanInv /\ AlignInv)
<1>1. Init => AlignInv
  <2> SUFFICES ASSUME Init PROVE AlignInv
    OBVIOUS
  <2>1. \A f \in Files : rows[f].scan = 0
    BY DEF Init
  <2>2. slot.id = 0 /\ ~quiet
    BY DEF Init
  <2> QED
    BY <2>1, <2>2 DEF AlignInv, ScansPast
<1> QED
  BY <1>1, AlignStep, ScanInvariant, PTL DEF Spec

\* When a job that ran alone completes, the rows and the names that search finds
\* are those of the disk, however stale the index was, whatever earlier jobs
\* left behind and however the batches of any users' files are cut.
THEOREM IndexAligned == Spec => []CompletedAligned
<1>1. TypeInv /\ AlignInv => CompletedAligned
  <2> SUFFICES ASSUME TypeInv, AlignInv, NEW j \in Jobs,
                      At(j, "complete"), quiet
               PROVE  /\ \A f \in Files : rows[f].ver = disk[f]
                      /\ names = {f \in Files : disk[f] # 0}
    BY DEF CompletedAligned
  <2>1. Aligning(j)
    BY DEF AlignInv, Active, At
  <2>2. Passed(j) = Files
    BY <2>1 DEF Aligning, LastSteps, Passed, Collecting, At
  <2> QED
    BY <2>1, <2>2 DEF Aligning, PassedAligned, LastSteps, Indexed
<1> QED
  BY <1>1, AlignInvariant, PTL

-----------------------------------------------------------------------------
(* The document text after a job that ran alone *)

\* The text is the one of the version in the row.
TextOf(f) == text[f] = rows[f].ver

\* Between the truncation of the staging table and its application.
Staging(j) ==
  /\ job[j].pc \in {"users", "load", "scan", "flush", "prune", "apply"}
  /\ ~job[j].failed

\* Text that is staged belongs to a row the job has written or touched; where
\* none is staged the old text is right, or is about to be staged.
StagedIsRow(j) ==
  \A f \in Files :
    IF staging[f] # NoText
      THEN staging[f] = rows[f].ver /\ rows[f].scan = j
      ELSE TextOf(f) \/ (Collecting(j) /\ State(j, f) = "rowed")

\* What a clean job knows of the text.
StagedText(j) ==
  /\ job[j].pc \in {"truncate", "rebuild", "complete"}
       => \A f \in Files : TextOf(f)
  /\ Staging(j) => StagedIsRow(j)

\* Between jobs only a request's new row may wait for its text.
RestText ==
  /\ \A f \in Files : TextOf(f) \/ (api.pc = "text" /\ f = api.file)
  /\ api.pc = "text" => rows[api.file].ver = api.ver

TextInv ==
  clean => /\ (\A j \in Jobs : ~Active(j)) => RestText
           /\ \A j \in Jobs : Active(j) => quiet /\ StagedText(j)

\* A job that goes on is still at work.
LEMMA JobGoesOn ==
  ASSUME JobsOK, NEW j \in Jobs, WorkSteps(j)
  PROVE  Active(j)'
<1>1. job[j] \in JobRecords
  BY DEF JobsOK
<1>2. CASE Truncate(j)
  <2>1. job'[j] = [job[j] EXCEPT !.pc = "users", !.left = Users]
    BY <1>2 DEF Truncate, JobsOK
  <2> QED
    BY <1>1, <2>1 DEF JobRecords, Active
<1>3. ASSUME NEW u \in Users, NextUser(j, u) PROVE Active(j)'
  <2>1. job'[j].pc = "load"
    BY <1>1, <1>3 DEF NextUser, JobsOK, JobRecords
  <2> QED
    BY <2>1 DEF Active
<1>4. CASE LoadSnapshot(j) \/ ScanEnds(j) \/ GiveUpUser(j)
  <2>1. job'[j].pc \in {"scan", "flush", "users"}
    BY <1>1, <1>4 DEF LoadSnapshot, ScanEnds, GiveUpUser, JobsOK, JobRecords
  <2> QED
    BY <2>1 DEF Active
<1>5. CASE FlushEnds(j) \/ Prune(j) \/ Apply(j) \/ Rebuild(j) \/ Goto(j, "apply")
  <2>1. job'[j].pc \in {"prune", "users", "rebuild", "complete", "apply"}
    BY <1>1, <1>5 DEF FlushEnds, Prune, Apply, Rebuild, Goto, JobsOK, JobRecords
  <2> QED
    BY <2>1 DEF Active
<1>6. CASE \/ \E f \in Files : WalkFile(j, f) \/ ReadFile(j, f) \/ CompareFile(j, f)
           \/ \E b \in SUBSET Files :
                FlushChanged(j, b) \/ FlushUnchanged(j, b) \/ FlushStaging(j, b)
  BY <1>6 DEF WalkFile, ReadFile, CompareFile, FlushChanged, FlushUnchanged,
              FlushStaging, Batch, Scanning, Active, At
<1> QED
  BY <1>2, <1>3, <1>4, <1>5, <1>6 DEF WorkSteps

\* The steps of a scan that write no table keep the rows that wait for text.
LEMMA WalkText ==
  ASSUME TypeInv, NEW j \in Jobs, StagedText(j),
         \/ \E u \in Users : NextUser(j, u)
         \/ LoadSnapshot(j) \/ ScanEnds(j) \/ FlushEnds(j) \/ GiveUpUser(j)
         \/ \E f \in Files : WalkFile(j, f) \/ ReadFile(j, f) \/ CompareFile(j, f)
         \/ /\ At(j, "users") /\ Goto(j, "apply")
            /\ UNCHANGED <<disk, version, tables, slot, item, api, quiet, clean>>
  PROVE  StagedText(j)'
<1>1. JobsOK /\ ItemsOK /\ job[j] \in JobRecords
  BY DEF TypeInv, JobsOK
<1>2. ASSUME UNCHANGED tables, ~job'[j].failed => Staging(j),
             job'[j].pc \notin {"truncate", "rebuild", "complete"},
             \A f \in Files : Collecting(j) /\ State(j, f) = "rowed"
                                => (Collecting(j) /\ State(j, f) = "rowed")'
      PROVE  StagedText(j)'
  <2> SUFFICES ASSUME Staging(j)' PROVE StagedIsRow(j)'
    BY <1>2 DEF StagedText
  <2>1. StagedIsRow(j)
    BY <1>2 DEF Staging, StagedText
  <2> QED
    BY <1>2, <2>1 DEF StagedIsRow, TextOf, tables
<1>3. ASSUME NEW u \in Users, NextUser(j, u) PROVE StagedText(j)'
  <2>1. /\ job'[j].pc = "load" /\ job'[j].failed = job[j].failed
        /\ job[j].pc = "users" /\ UNCHANGED tables
    BY <1>1, <1>3 DEF NextUser, At, JobsOK, JobRecords
  <2> QED
    BY <1>2, <2>1 DEF Staging, Collecting
<1>4. CASE LoadSnapshot(j) \/ ScanEnds(j)
  <2>1. \E p, s : /\ job'[j] = [job[j] EXCEPT !.pc = p, !.snap = s]
                  /\ p \in {"scan", "flush"}
    BY <1>1, <1>4 DEF LoadSnapshot, ScanEnds, JobsOK
  <2>2. /\ job'[j].pc \in {"scan", "flush"} /\ job'[j].failed = job[j].failed
        /\ job[j].pc \in {"load", "scan"} /\ UNCHANGED <<tables, item>>
    BY <1>1, <1>4, <2>1 DEF LoadSnapshot, ScanEnds, At, JobRecords
  <2> QED
    BY <1>2, <2>2 DEF Staging, Collecting, State
<1>5. CASE FlushEnds(j)
  <2>1. /\ job'[j].pc = "prune" /\ job'[j].failed = job[j].failed
        /\ job[j].pc = "flush" /\ UNCHANGED tables
    BY <1>1, <1>5 DEF FlushEnds, Goto, At, JobsOK, JobRecords
  <2>2. \A f \in Files : State(j, f) # "rowed"
    BY <1>5 DEF FlushEnds, With, State
  <2> QED
    BY <1>2, <2>1, <2>2 DEF Staging, Collecting
<1>6. CASE GiveUpUser(j)
  <2>1. job'[j].failed /\ job'[j].pc = "users"
    BY <1>1, <1>6 DEF GiveUpUser, JobsOK, JobRecords
  <2> QED
    BY <2>1 DEF StagedText, Staging
<1>7. ASSUME NEW f \in Files, WalkFile(j, f) \/ ReadFile(j, f) \/ CompareFile(j, f)
      PROVE  StagedText(j)'
  <2>1. /\ UNCHANGED <<job, tables>>
        /\ \A g \in Files \ {f} : item'[j][g] = item[j][g]
        /\ job[j].pc \in {"load", "scan"}
        /\ State(j, f) \in {"todo", "walked", "read"}
    BY <1>1, <1>7 DEF WalkFile, ReadFile, CompareFile, ItemsOK, Scanning, At,
                      State
  <2> QED
    BY <1>2, <2>1 DEF Staging, Collecting, State
<1>8. CASE At(j, "users") /\ Goto(j, "apply") /\ UNCHANGED tables
  <2>1. /\ job'[j].pc = "apply" /\ job'[j].failed = job[j].failed
        /\ job[j].pc = "users"
    BY <1>1, <1>8 DEF Goto, At, JobsOK, JobRecords
  <2> QED
    BY <1>2, <1>8, <2>1 DEF Staging, Collecting
<1> QED
  BY <1>3, <1>4, <1>5, <1>6, <1>7, <1>8

\* A batch of rows waits for its text, and a batch of texts joins its rows.
LEMMA BatchText ==
  ASSUME TypeInv, NEW j \in Jobs, Scanned(j), Aligning(j), StagedText(j),
         NEW b \in SUBSET Files,
         FlushChanged(j, b) \/ FlushUnchanged(j, b) \/ FlushStaging(j, b)
  PROVE  StagedText(j)'
<1>1. PICK st \in {"rowed", "done"} : Moved(j, b, st)
  BY DEF FlushChanged, FlushUnchanged, FlushStaging
<1>2. /\ UNCHANGED <<disk, text, job>>
      /\ job[j].pc \in {"scan", "flush"} /\ Collecting(j)
  BY DEF FlushChanged, FlushUnchanged, FlushStaging, Batch, At, Collecting
<1> SUFFICES ASSUME Staging(j), NEW f \in Files
             PROVE  (IF staging[f] # NoText
                       THEN staging[f] = rows[f].ver /\ rows[f].scan = j
                       ELSE TextOf(f) \/ (Collecting(j) /\ State(j, f) = "rowed"))'
  BY <1>2 DEF StagedText, StagedIsRow, Staging
<1>3. /\ f \in b => State(j, f)' = st
      /\ f \notin b => State(j, f)' = State(j, f)
  BY <1>1, BatchShape
<1>4. /\ f \in b => rows'[f].ver = disk[f] /\ rows'[f].scan = j
      /\ f \notin b => rows'[f] = rows[f]
  BY BatchRows
<1>5. IF staging[f] # NoText
        THEN staging[f] = rows[f].ver /\ rows[f].scan = j
        ELSE TextOf(f) \/ State(j, f) = "rowed"
  BY DEF StagedText, StagedIsRow
<1>6. rows[f].scan = j => rows[f].ver = disk[f]
  BY DEF Aligning, MarkedIsDisk
<1>7. TablesOK /\ item[j][f] \in Items
  BY DEF TypeInv, ItemsOK
<1>8. CASE f \notin b
  <2>1. staging'[f] = staging[f]
    BY <1>7, <1>8 DEF FlushChanged, FlushUnchanged, FlushStaging, TablesOK
  <2> QED
    BY <1>2, <1>3, <1>4, <1>5, <1>8, <2>1 DEF TextOf, Collecting
<1>9. CASE f \in b /\ FlushChanged(j, b)
  <2>1. State(j, f)' = "rowed" /\ staging' = staging
    BY <1>7, <1>9 DEF FlushChanged, Moved, TypeInv, ItemsOK, Items, State
  <2> QED
    BY <1>2, <1>4, <1>5, <1>6, <1>9, <2>1 DEF Collecting
<1>10. CASE f \in b /\ FlushUnchanged(j, b)
  <2>1. State(j, f) = "same" /\ staging' = staging
    BY <1>10 DEF FlushUnchanged, Batch, With, State
  <2>2. rows'[f].ver = rows[f].ver
    BY <1>7, <1>10 DEF FlushUnchanged, TablesOK
  <2> QED
    BY <1>2, <1>4, <1>5, <1>10, <2>1, <2>2 DEF TextOf
<1>11. CASE f \in b /\ FlushStaging(j, b)
  <2>1. staging'[f] = item[j][f].txt /\ State(j, f) = "rowed"
    BY <1>11 DEF FlushStaging, Batch, With, State
  <2>2. item[j][f].txt = disk[f]
    BY <1>2, <2>1 DEF Aligning, MetIsDisk
  <2>3. staging'[f] # NoText
    BY <1>7, <2>1, Numbers DEF Items
  <2> QED
    BY <1>4, <1>11, <2>1, <2>2, <2>3
<1> QED
  BY <1>8, <1>9, <1>10, <1>11

\* The other steps that write a table.
LEMMA TableText ==
  ASSUME TypeInv, NEW j \in Jobs, StagedText(j), LastSteps(j),
         Truncate(j) \/ Prune(j) \/ Apply(j) \/ Rebuild(j)
  PROVE  StagedText(j)'
<1>1. JobsOK /\ TablesOK /\ job[j] \in JobRecords
  BY DEF TypeInv, JobsOK
<1>2. CASE Truncate(j)
  <2>1. /\ job[j].pc = "truncate" /\ job'[j].pc = "users"
        /\ UNCHANGED <<rows, text>> /\ \A f \in Files : staging'[f] = NoText
    BY <1>1, <1>2 DEF Truncate, At, JobsOK, JobRecords
  <2> QED
    BY <2>1 DEF StagedText, StagedIsRow, TextOf
<1>3. CASE Prune(j)
  <2>1. /\ job[j].pc = "prune" /\ job'[j].pc = "users"
        /\ job'[j].failed = job[j].failed /\ UNCHANGED staging
    BY <1>1, <1>3 DEF Prune, Goto, At, JobsOK, JobRecords
  <2>2. ASSUME NEW f \in Files
        PROVE  IF f \in Unseen(j) THEN rows'[f] = NoRow /\ text'[f] = 0
                                  ELSE rows'[f] = rows[f] /\ text'[f] = text[f]
    BY <1>3 DEF Prune
  <2>3. \A f \in Files : rows[f].scan = j => f \notin Unseen(j)
    BY DEF Unseen
  <2>4. Staging(j) => StagedIsRow(j)'
    BY <2>1, <2>2, <2>3 DEF StagedText, StagedIsRow, TextOf, Collecting, NoRow
  <2> QED
    BY <2>1, <2>4 DEF StagedText, Staging
<1>4. CASE Apply(j)
  <2>1. job[j].pc = "apply" /\ job'[j].pc = "rebuild" /\ UNCHANGED rows
    BY <1>1, <1>4 DEF Apply, Goto, At, JobsOK, JobRecords
  <2>2. StagedIsRow(j)
    BY <2>1 DEF LastSteps, StagedText, Staging
  <2>3. ASSUME NEW f \in Files PROVE text'[f] = rows[f].ver
    <3>1. text'[f] = CASE f \notin Indexed -> 0
                       [] staging[f] # NoText -> staging[f]
                       [] OTHER -> text[f]
      BY <1>4 DEF Apply
    <3>2. CASE rows[f].ver = 0
      <4>1. f \notin Indexed
        BY <3>2 DEF Indexed
      <4>2. staging[f] # NoText => staging[f] = 0
        BY <2>2, <3>2 DEF StagedIsRow
      <4>3. text'[f] = 0
        BY <1>4, <4>1, <4>2 DEF Apply
      <4> QED
        BY <3>2, <4>3
    <3>3. CASE rows[f].ver # 0
      <4>1. f \in Indexed
        BY <3>3 DEF Indexed
      <4>2. CASE staging[f] # NoText
        BY <2>2, <3>1, <4>1, <4>2 DEF StagedIsRow
      <4>3. CASE staging[f] = NoText
        BY <2>1, <2>2, <3>1, <4>1, <4>3 DEF StagedIsRow, TextOf, Collecting
      <4> QED
        BY <4>2, <4>3
    <3> QED
      BY <3>2, <3>3
  <2> QED
    BY <2>1, <2>3 DEF StagedText, Staging, TextOf
<1>5. CASE Rebuild(j)
  <2>1. /\ job[j].pc = "rebuild" /\ job'[j].pc = "complete"
        /\ UNCHANGED <<rows, text>>
    BY <1>1, <1>5 DEF Rebuild, Goto, At, JobsOK, JobRecords
  <2> QED
    BY <2>1 DEF StagedText, Staging, TextOf
<1> QED
  BY <1>2, <1>3, <1>4, <1>5

\* A request that meets no job leaves a row without its text only for a moment,
\* or for good and then nothing is clean any more.
LEMMA RequestKeepsText ==
  ASSUME TypeInv, RestText, Request, clean'
  PROVE  RestText'
<1>1. TablesOK /\ RequestOK
  BY DEF TypeInv
<1>2. CASE UNCHANGED tables /\ api.pc # "text" /\ api'.pc # "text"
  BY <1>2 DEF RestText, TextOf, tables
<1>3. CASE RequestRow
  <2>1. /\ api.file \in Files /\ api.pc = "row"
        /\ api'.pc = "text" /\ api'.file = api.file /\ api'.ver = api.ver
    BY <1>1, <1>3 DEF RequestRow, InRequest, Proceed, RequestOK
  <2>2. /\ rows'[api.file].ver = api.ver /\ UNCHANGED text
        /\ \A f \in Files \ {api.file} : rows'[f] = rows[f]
    BY <1>1, <1>3, <2>1 DEF RequestRow, TablesOK
  <2> QED
    BY <2>1, <2>2 DEF RestText, TextOf
<1>4. CASE RequestText
  <2>1. api.file \in Files /\ api.pc = "text" /\ api'.pc = "idle"
    BY <1>1, <1>4 DEF RequestText, InRequest, RequestOK, NoRequest
  <2>2. /\ text'[api.file] = api.ver /\ UNCHANGED rows
        /\ \A f \in Files \ {api.file} : text'[f] = text[f]
    BY <1>1, <1>4, <2>1 DEF RequestText, TablesOK
  <2> QED
    BY <2>1, <2>2 DEF RestText, TextOf
<1>5. CASE RequestUnindexes
  <2>1. api.file \in Files /\ api.pc = "unindex" /\ api'.pc = "idle"
    BY <1>1, <1>5 DEF RequestUnindexes, InRequest, RequestOK, NoRequest
  <2>2. /\ text'[api.file] = 0 /\ rows'[api.file] = NoRow
        /\ \A f \in Files \ {api.file} : text'[f] = text[f] /\ rows'[f] = rows[f]
    BY <1>1, <1>5, <2>1 DEF RequestUnindexes, TablesOK
  <2> QED
    BY <2>1, <2>2 DEF RestText, TextOf, NoRow
<1>6. ASSUME NEW f \in Files, RequestWrites(f) \/ RequestDeletes(f)
      PROVE  UNCHANGED tables /\ api.pc # "text" /\ api'.pc # "text"
  BY <1>6 DEF RequestWrites, RequestDeletes, Change, InRequest
<1>7. CASE RequestStat
  <2>1. ASSUME api' = NoRequest PROVE api'.pc # "text"
    BY <2>1 DEF NoRequest
  <2>2. ASSUME api' = [api EXCEPT !.pc = "row", !.ver = disk[api.file]]
        PROVE  api'.pc # "text"
    BY <1>1, <2>2 DEF RequestOK
  <2>3. api'.pc # "text"
    BY <1>7, <2>1, <2>2 DEF RequestStat
  <2>4. UNCHANGED tables /\ api.pc # "text"
    BY <1>7 DEF RequestStat, InRequest
  <2> QED
    BY <1>2, <2>3, <2>4
<1>8. CASE RequestStops
  BY <1>2, <1>8 DEF RequestStops, InRequest, NoRequest
<1> QED
  BY <1>2, <1>3, <1>4, <1>5, <1>6, <1>7, <1>8 DEF Request

\* Every step of every actor keeps what is known of the text.
LEMMA TextStep ==
  TypeInv /\ HoldsSlot /\ ScanInv /\ AlignInv /\ TextInv /\ [Next]_vars => TextInv'
<1> SUFFICES ASSUME TypeInv, HoldsSlot, ScanInv, AlignInv, TextInv,
                    [Next]_vars, clean'
             PROVE  /\ (\A j \in Jobs : ~Active(j)') => RestText'
                    /\ \A i \in Jobs : Active(i)' => quiet' /\ StagedText(i)'
  BY DEF TextInv
<1>0. JobsOK /\ QuietIsIdle
  BY DEF TypeInv, ScanInv
<1>1. ASSUME NEW j \in Jobs, WorkSteps(j)
      PROVE  /\ Active(j)'
             /\ \A i \in Jobs : Active(i)' => quiet' /\ StagedText(i)'
  <2>1. Active(j) /\ OnlyOf(j)
    BY <1>1, WorkShape
  <2>2. \A i \in Jobs : Active(i)' => i = j
    BY <2>1 DEF OnlyOf, Active, HoldsSlot
  <2>3. /\ quiet /\ quiet' /\ StagedText(j) /\ Aligning(j) /\ Scanned(j)
        /\ LastSteps(j)
    BY <2>1 DEF OnlyOf, TextInv, AlignInv, ScanInv, Aligning
  <2>4. StagedText(j)'
    BY <1>1, <2>3, WalkText, BatchText, TableText DEF WorkSteps
  <2>5. Active(j)'
    BY <1>0, <1>1, JobGoesOn
  <2> QED
    BY <2>2, <2>3, <2>4, <2>5
<1>2. ASSUME NEW j \in Jobs, Ends(j)
      PROVE  RestText' /\ \A i \in Jobs : ~Active(i)'
  <2>1. /\ Active(j) /\ clean /\ At(j, "complete")
        /\ job' = [job EXCEPT ![j] = [NoJob EXCEPT !.pc = "over"]]
        /\ UNCHANGED <<rows, text, api>>
    BY <1>2 DEF Ends, Finish, tables
  <2>2. job'[j].pc = "over" /\ \A i \in Jobs \ {j} : job'[i] = job[i]
    BY <1>0, <2>1 DEF JobsOK, NoJob
  <2>3. \A i \in Jobs : ~Active(i)'
    BY <2>1, <2>2 DEF HoldsSlot, Active
  <2>4. api.pc = "idle" /\ \A f \in Files : TextOf(f)
    BY <1>0, <2>1 DEF TextInv, StagedText, QuietIsIdle, At
  <2> QED
    BY <2>1, <2>3, <2>4 DEF RestText, TextOf
<1>3. ASSUME NEW j \in Jobs, NEW own \in BOOLEAN, Start(j, own)
      PROVE  /\ Active(j)'
             /\ \A i \in Jobs : Active(i)' => quiet' /\ StagedText(i)'
  <2>1. \A i \in Jobs : ~Active(i)
    BY <1>3 DEF HoldsSlot, Start, SlotFree
  <2>2. /\ clean /\ api = NoRequest /\ quiet' /\ UNCHANGED <<rows, text>>
    BY <1>3 DEF Start, tables
  <2>3. \A f \in Files : TextOf(f)
    BY <2>1, <2>2 DEF TextInv, RestText, NoRequest
  <2>4. job'[j].pc = "truncate" /\ \A i \in Jobs \ {j} : job'[i] = job[i]
    BY <1>0, <1>3 DEF Start, JobsOK, NoJob
  <2> QED
    BY <2>1, <2>2, <2>3, <2>4 DEF Active, StagedText, Staging, TextOf
<1>4. ASSUME Cancel \/ UNCHANGED vars
      PROVE  /\ UNCHANGED <<tables, item, api, quiet, clean>>
             /\ \A j \in Jobs : /\ job'[j].pc = job[j].pc
                                /\ job'[j].failed = job[j].failed
  BY <1>4, CancelShape DEF vars, jobs
<1>5. CASE Cancel \/ UNCHANGED vars
  <2>1. /\ UNCHANGED <<rows, text, staging, item, api, quiet>> /\ clean
        /\ \A j \in Jobs : Active(j)' <=> Active(j)
    BY <1>4, <1>5 DEF Active, tables
  <2>2. RestText => RestText'
    BY <2>1 DEF RestText, TextOf
  <2>3. ASSUME NEW j \in Jobs, StagedText(j) PROVE StagedText(j)'
    BY <1>4, <1>5, <2>1, <2>3 DEF StagedText, StagedIsRow, Staging, TextOf,
                                  Collecting, State
  <2> QED
    BY <2>1, <2>2, <2>3 DEF TextInv
<1>6. CASE Request
  <2>1. clean /\ UNCHANGED jobs
    BY <1>6, RequestShape
       DEF Request, RequestWrites, RequestDeletes, Change, Disturb, RequestStat,
           RequestRow, RequestText, RequestUnindexes, RequestStops
  <2>2. ASSUME NEW j \in Jobs, Active(j) PROVE FALSE
    <3>1. quiet /\ api.pc = "idle"
      BY <1>0, <2>1, <2>2 DEF TextInv, QuietIsIdle
    <3>2. \E f \in Files : RequestWrites(f) \/ RequestDeletes(f)
      BY <1>6, <3>1 DEF Request, RequestStat, RequestRow, RequestText,
                        RequestUnindexes, RequestStops, InRequest
    <3> QED
      BY <2>2, <3>2 DEF RequestWrites, RequestDeletes, Change, Disturb
  <2>3. \A j \in Jobs : ~Active(j)'
    BY <2>1, <2>2 DEF jobs, Active
  <2> QED
    BY <1>6, <2>1, <2>2, <2>3, RequestKeepsText DEF TextInv
<1> QED
  BY <1>1, <1>2, <1>3, <1>5, <1>6, NextCases

\* What is known of the text holds for good.
LEMMA TextInvariant ==
  Spec => [](TypeInv /\ HoldsSlot /\ ScanInv /\ AlignInv /\ TextInv)
<1>1. Init => TextInv
  <2> SUFFICES ASSUME Init PROVE TextInv
    OBVIOUS
  <2>1. /\ \A f \in Files : TextOf(f)
        /\ api.pc = "idle"
    BY DEF Init, TextOf, NoRequest
  <2>2. \A j \in Jobs : ~Active(j)
    BY DEF Init, Active, NoJob
  <2> QED
    BY <2>1, <2>2 DEF TextInv, RestText
<1> QED
  BY <1>1, TextStep, AlignInvariant, PTL DEF Spec

\* The document text is rebuilt with the index, although only changed rows have
\* their text read: as long as every job that ran before completed undisturbed
\* and every request stored the text of the row it wrote, a job that runs alone
\* ends with the text of the disk.
THEOREM TextRebuilt == Spec => []CompletedTextAligned
<1>1. TypeInv /\ AlignInv /\ TextInv /\ CompletedAligned => CompletedTextAligned
  BY DEF TextInv, StagedText, TextOf, CompletedTextAligned, CompletedAligned,
         Active, At
<1> QED
  BY <1>1, TextInvariant, IndexAligned, PTL
=============================================================================
