--------------------------- MODULE TusUploadProofs ---------------------------
(***************************************************************************)
(* Proofs about the upload server, for every value of the constants.       *)
(*                                                                         *)
(* First the types, and one completion event per upload, however requests  *)
(* overlap.  These proofs go variable by variable: the lemmas named        *)
(* ...Steps say which actions can change a variable, the lemmas named      *)
(* ...Shape what a request looks like afterwards, and the lemmas named     *)
(* ...Step that one conjunct of an invariant survives a step.              *)
(*                                                                         *)
(* Then what one request per upload at a time (Apart) gives: the bytes of  *)
(* a staging file are those the row and the request vouch for, a file that *)
(* rename(2) put into the target folder is whole for good, and so is the   *)
(* file of a completed upload when it had to be copied.  Last, names: a    *)
(* completed upload is under its final name unless two requests have held  *)
(* that name, and the server keeps the promise of UploadPromise.           *)
(***************************************************************************)
EXTENDS TusRefinement, TLAPS

-----------------------------------------------------------------------------
(* Which steps touch which variables *)

\* A request goes on: the actions of Handle by the handler they belong to.
Creating(h) == CreateBodyEnds(h) \/ CreateFails(h) \/ CreateRecord(h)
Patching(h) == \/ PatchOpen(h) \/ PatchTruncate(h) \/ WriteByte(h)
               \/ PatchFails(h) \/ PatchEnds(h) \/ UpdateOffset(h)
Moving(h) == \/ CompleteCheck(h) \/ FindName(h) \/ Rename(h)
             \/ CopyCreate(h) \/ CopyData(h) \/ CopyFails(h)
Ending(h) == \/ RemoveSource(h) \/ CompleteRecord(h)
             \/ DeleteFile(h) \/ DeleteRecord(h) \/ Abort(h)

\* What a step can be.
LEMMA NextCases ==
  ASSUME [Next]_vars
  PROVE  \/ \E h \in Handlers : \/ Arrive(h) \/ Creating(h) \/ Patching(h)
                                \/ Moving(h) \/ Ending(h) \/ Respond(h)
         \/ Cleanup \/ Environment \/ UNCHANGED vars
BY DEF Next, Request, Handle, Creating, Patching, Moving, Ending

\* The rows and the events change in six actions only.
LEMMA RowSteps ==
  ASSUME [Next]_vars
  PROVE  \/ UNCHANGED <<rec, published>>
         \/ \E h \in Handlers : \/ CreateRecord(h) \/ UpdateOffset(h)
                                \/ CompleteRecord(h) \/ DeleteRecord(h)
         \/ CleanupDelete
         \/ \E u \in Uploads : Expire(u)
<1>1. ASSUME NEW h \in Handlers, Arrive(h)
      PROVE  UNCHANGED <<rec, published>>
  BY <1>1 DEF Arrive, CreateFile, PatchRead, DeleteRead
<1>2. ASSUME NEW h \in Handlers, Creating(h)
      PROVE  UNCHANGED <<rec, published>> \/ CreateRecord(h)
  BY <1>2 DEF Creating, CreateBodyEnds, CreateFails
<1>3. ASSUME NEW h \in Handlers, Patching(h)
      PROVE  UNCHANGED <<rec, published>> \/ UpdateOffset(h)
  BY <1>3
     DEF Patching, PatchOpen, PatchTruncate, WriteByte, PatchFails,
         PatchEnds
<1>4. ASSUME NEW h \in Handlers, Moving(h)
      PROVE  UNCHANGED <<rec, published>>
  BY <1>4
     DEF Moving, CompleteCheck, FindName, Rename, CopyCreate, CopyData,
         CopyFails
<1>5. ASSUME NEW h \in Handlers, Ending(h)
      PROVE  \/ UNCHANGED <<rec, published>>
             \/ CompleteRecord(h) \/ DeleteRecord(h)
  BY <1>5 DEF Ending, RemoveSource, DeleteFile, Abort
<1>6. ASSUME NEW h \in Handlers, Respond(h)
      PROVE  UNCHANGED <<rec, published>>
  BY <1>6 DEF Respond
<1>7. ASSUME Cleanup
      PROVE  UNCHANGED <<rec, published>> \/ CleanupDelete
  BY <1>7
     DEF Cleanup, CleanupList, ScanStart, CleanupDone, CleanupRemove,
         ScanPart, SweepOrphan
<1>8. ASSUME Environment
      PROVE  UNCHANGED <<rec, published>> \/ \E u \in Uploads : Expire(u)
  BY <1>8 DEF Environment, Crash, FolderGone
<1>9. CASE UNCHANGED vars
  BY <1>9 DEF vars
<1> QED
  BY <1>1, <1>2, <1>3, <1>4, <1>5, <1>6, <1>7, <1>8, <1>9, NextCases

\* The staging files' bytes change in four actions only.
LEMMA PartSteps ==
  ASSUME [Next]_vars
  PROVE  \/ UNCHANGED part
         \/ \E h \in Handlers, u \in Uploads : CreateFile(h, u)
         \/ \E h \in Handlers : \/ PatchTruncate(h) \/ WriteByte(h)
                                \/ PatchFails(h)
<1>1. ASSUME NEW h \in Handlers, Arrive(h)
      PROVE  UNCHANGED part \/ \E u \in Uploads : CreateFile(h, u)
  BY <1>1 DEF Arrive, PatchRead, DeleteRead
<1>2. ASSUME NEW h \in Handlers, Creating(h)
      PROVE  UNCHANGED part
  BY <1>2 DEF Creating, CreateBodyEnds, CreateFails, CreateRecord
<1>3. ASSUME NEW h \in Handlers, Patching(h)
      PROVE  \/ UNCHANGED part
             \/ PatchTruncate(h) \/ WriteByte(h) \/ PatchFails(h)
  BY <1>3 DEF Patching, PatchOpen, PatchEnds, UpdateOffset
<1>4. ASSUME NEW h \in Handlers, Moving(h)
      PROVE  UNCHANGED part
  BY <1>4
     DEF Moving, CompleteCheck, FindName, Rename, CopyCreate, CopyData,
         CopyFails
<1>5. ASSUME NEW h \in Handlers, Ending(h)
      PROVE  UNCHANGED part
  BY <1>5
     DEF Ending, RemoveSource, CompleteRecord, DeleteFile, DeleteRecord,
         Abort
<1>6. ASSUME NEW h \in Handlers, Respond(h)
      PROVE  UNCHANGED part
  BY <1>6 DEF Respond
<1>7. ASSUME Cleanup
      PROVE  UNCHANGED part
  BY <1>7
     DEF Cleanup, CleanupList, CleanupDelete, ScanStart, CleanupDone,
         CleanupRemove, ScanPart, SweepOrphan
<1>8. ASSUME Environment
      PROVE  UNCHANGED part
  BY <1>8 DEF Environment, Crash, FolderGone, Expire
<1>9. CASE UNCHANGED vars
  BY <1>9 DEF vars
<1> QED
  BY <1>1, <1>2, <1>3, <1>4, <1>5, <1>6, <1>7, <1>8, <1>9, NextCases

\* The target folder changes in four actions only.
LEMMA FolderSteps ==
  ASSUME [Next]_vars
  PROVE  \/ UNCHANGED <<owner, by, copy>>
         \/ \E h \in Handlers : \/ Rename(h) \/ CopyCreate(h) \/ CopyData(h)
                                \/ CopyFails(h)
<1>1. ASSUME NEW h \in Handlers, Arrive(h)
      PROVE  UNCHANGED <<owner, by, copy>>
  BY <1>1 DEF Arrive, CreateFile, PatchRead, DeleteRead
<1>2. ASSUME NEW h \in Handlers, Creating(h)
      PROVE  UNCHANGED <<owner, by, copy>>
  BY <1>2 DEF Creating, CreateBodyEnds, CreateFails, CreateRecord
<1>3. ASSUME NEW h \in Handlers, Patching(h)
      PROVE  UNCHANGED <<owner, by, copy>>
  BY <1>3
     DEF Patching, PatchOpen, PatchTruncate, WriteByte, PatchFails,
         PatchEnds, UpdateOffset
<1>4. ASSUME NEW h \in Handlers, Moving(h)
      PROVE  \/ UNCHANGED <<owner, by, copy>>
             \/ Rename(h) \/ CopyCreate(h) \/ CopyData(h) \/ CopyFails(h)
  BY <1>4 DEF Moving, CompleteCheck, FindName
<1>5. ASSUME NEW h \in Handlers, Ending(h)
      PROVE  UNCHANGED <<owner, by, copy>>
  BY <1>5
     DEF Ending, RemoveSource, CompleteRecord, DeleteFile, DeleteRecord,
         Abort
<1>6. ASSUME NEW h \in Handlers, Respond(h)
      PROVE  UNCHANGED <<owner, by, copy>>
  BY <1>6 DEF Respond
<1>7. ASSUME Cleanup
      PROVE  UNCHANGED <<owner, by, copy>>
  BY <1>7
     DEF Cleanup, CleanupList, CleanupDelete, ScanStart, CleanupDone,
         CleanupRemove, ScanPart, SweepOrphan
<1>8. ASSUME Environment
      PROVE  UNCHANGED <<owner, by, copy>>
  BY <1>8 DEF Environment, Crash, FolderGone, Expire
<1>9. CASE UNCHANGED vars
  BY <1>9 DEF vars
<1> QED
  BY <1>1, <1>2, <1>3, <1>4, <1>5, <1>6, <1>7, <1>8, <1>9, NextCases
-----------------------------------------------------------------------------
(* Type correctness *)

\* What TypeOK leaves out: an idle request has no upload, and the offsets of
\* a request stay within the upload it is about.
Bounded(h) ==
  LET u == req[h].up IN
  /\ req[h].pc = "idle" <=> u = None
  /\ u # None => /\ req[h].off <= Length[u]
                 /\ req[h].pos <= Length[u] + 1
  /\ req[h].pc \in {"insert", "update"} => req[h].pos <= Length[u]

Requests == [pc : Steps, up : Uploads \cup {None},
             off : Nat, pos : Nat, name : Names]

RowsOK ==
  /\ rec \in [Uploads -> Rows]
  /\ \A u \in Uploads : rec[u].offset <= Length[u]
  /\ published \in [Uploads -> Nat]

PartsOK == DOMAIN part = Uploads /\ \A u \in Uploads : part[u] \in Content(u)

Contents == {Empty} \cup UNION {Content(u) : u \in Uploads}

FolderOK ==
  /\ owner \in [Names -> Uploads \cup {None, Other}]
  /\ by \in [Names -> Handlers]
  /\ DOMAIN copy = Names /\ \A n \in Names : copy[n] \in Contents

RequestsOK == req \in [Handlers -> Requests] /\ \A h \in Handlers : Bounded(h)

RestOK ==
  /\ sameFS \in Mounts
  /\ staged \subseteq Uploads
  /\ folder \in BOOLEAN
  /\ cl \in [pc : {"boot", "idle", "expire", "scan"}, list : SUBSET Uploads,
             cur : Uploads \cup {None}, just : SUBSET Uploads,
             parts : SUBSET Uploads, orphans : SUBSET Uploads]

NamesOK == Shared \subseteq contended /\ contended \subseteq Names

TypeInv == RowsOK /\ PartsOK /\ FolderOK /\ RequestsOK /\ RestOK /\ NamesOK

\* The invariant of the proof is stronger than the one the runs check.
LEMMA TypeInvImpliesTypeOK == TypeInv => TypeOK
BY DEF TypeInv, RowsOK, PartsOK, FolderOK, RequestsOK, RestOK, NamesOK, TypeOK,
       Requests, Contents

\* It holds when the server starts with an empty table.
LEMMA TypeInit == Init => TypeInv
<1> SUFFICES ASSUME Init PROVE TypeInv
  OBVIOUS
<1> USE UploadsAssumption, LengthAssumption, SuffixAssumption DEF Init
<1>1. RowsOK
  BY DEF RowsOK, Row, Rows, Names
<1>2. PartsOK
  BY DEF PartsOK, Empty, Content
<1>3. FolderOK
  BY DEF FolderOK, Contents
<1>4. RequestsOK
  BY DEF RequestsOK, Requests, Bounded, IdleRequest, Steps, Names
<1>5. RestOK
  BY FlagsAssumption DEF RestOK, BootCleanup, IdleCleanup
<1>6. NamesOK
  BY DEF NamesOK, Shared, Holds, IdleRequest
<1> QED
  BY <1>1, <1>2, <1>3, <1>4, <1>5, <1>6 DEF TypeInv

\* The files of one upload keep its shape.
LEMMA ContentShape ==
  ASSUME NEW u \in Uploads, NEW c \in Content(u),
         NEW k \in Nat, k <= Length[u]
  PROVE  Truncated(c, k) \in Content(u) /\ WithByte(c, k) \in Content(u)
<1> Length[u] \in Nat
  BY LengthAssumption
<1> QED
  BY DEF Content, Truncated, WithByte

\* A request that is being served is about an upload.
LEMMA BusyHasUpload ==
  ASSUME RequestsOK, NEW h \in Handlers, req[h].pc # "idle"
  PROVE  req[h].up \in Uploads
BY DEF RequestsOK, Requests, Bounded

\* The table without the row of an upload.
LEMMA DeletedShape ==
  ASSUME RowsOK, NEW u \in Uploads
  PROVE  /\ Deleted(u) \in [Uploads -> Rows]
         /\ \A v \in Uploads : Deleted(u)[v].offset <= Length[v]
         /\ Deleted(u)[u].st = "gone"
         /\ \A v \in Uploads : v # u => Deleted(u)[v] = rec[v]
<1> DEFINE r == [st |-> "gone", offset |-> 0, final |-> 0, old |-> FALSE]
<1>1. r \in Rows
  BY SuffixAssumption DEF Rows, Names
<1>2. Deleted(u) = [rec EXCEPT ![u] = r]
  BY DEF Deleted, Row
<1>3. r.st = "gone" /\ r.offset = 0
  OBVIOUS
<1> HIDE DEF r
<1>4. Deleted(u) \in [Uploads -> Rows]
  BY <1>1, <1>2 DEF RowsOK
<1>5. Deleted(u)[u] = r
  BY <1>2 DEF RowsOK
<1>6. \A v \in Uploads : v # u => Deleted(u)[v] = rec[v]
  BY <1>2 DEF RowsOK
<1>7. \A v \in Uploads : Deleted(u)[v].offset <= Length[v]
  BY <1>3, <1>5, <1>6, LengthAssumption DEF RowsOK
<1> QED
  BY <1>3, <1>4, <1>5, <1>6, <1>7

\* Offsets stay within the declared lengths.
LEMMA RowsStep == TypeInv /\ [Next]_vars => RowsOK'
<1> SUFFICES ASSUME TypeInv, [Next]_vars PROVE RowsOK'
  OBVIOUS
<1> USE DEF TypeInv
<1>1. CASE UNCHANGED <<rec, published>>
  BY <1>1 DEF RowsOK
<1>2. ASSUME NEW h \in Handlers, CreateRecord(h) PROVE RowsOK'
  <2>1. /\ req[h].up \in Uploads
        /\ req[h].pos \in Nat /\ req[h].pos <= Length[req[h].up]
    BY <1>2, BusyHasUpload DEF CreateRecord, At, RequestsOK, Requests, Bounded
  <2>2. rec' = [rec EXCEPT ![req[h].up] = [st |-> "open",
                  offset |-> req[h].pos, final |-> 0, old |-> FALSE]]
    BY <1>2 DEF CreateRecord, Row
  <2>3. 0 \in Names /\ published' = published
    BY <1>2, SuffixAssumption DEF Names, CreateRecord
  <2> QED
    BY <2>1, <2>2, <2>3 DEF RowsOK, Rows
<1>3. ASSUME NEW h \in Handlers, UpdateOffset(h) PROVE RowsOK'
  <2>1. /\ req[h].up \in Uploads
        /\ req[h].pos \in Nat /\ req[h].pos <= Length[req[h].up]
    BY <1>3, BusyHasUpload DEF UpdateOffset, At, RequestsOK, Requests, Bounded
  <2> QED
    BY <1>3, <2>1 DEF UpdateOffset, RowsOK, Rows
<1>4. ASSUME NEW h \in Handlers, CompleteRecord(h) PROVE RowsOK'
  <2>1. req[h].up \in Uploads /\ req[h].name \in Names
    BY <1>4, BusyHasUpload DEF CompleteRecord, At, RequestsOK, Requests
  <2> QED
    BY <1>4, <2>1, LengthAssumption, SMTT(30) DEF CompleteRecord, RowsOK, Rows
<1>5. ASSUME NEW h \in Handlers, DeleteRecord(h) PROVE RowsOK'
  <2>1. req[h].up \in Uploads
    BY <1>5, BusyHasUpload DEF DeleteRecord, At
  <2> QED
    BY <1>5, <2>1, DeletedShape DEF DeleteRecord, RowsOK
<1>6. CASE CleanupDelete
  <2>1. cl.cur \in Uploads
    BY <1>6 DEF CleanupDelete, RestOK
  <2> QED
    BY <1>6, <2>1, DeletedShape DEF CleanupDelete, RowsOK
<1>7. ASSUME NEW u \in Uploads, Expire(u) PROVE RowsOK'
  BY <1>7 DEF Expire, RowsOK, Rows
<1> QED
  BY <1>1, <1>2, <1>3, <1>4, <1>5, <1>6, <1>7, RowSteps

\* Staging files stay within one byte past the declared lengths.
LEMMA PartsStep == TypeInv /\ [Next]_vars => PartsOK'
<1> SUFFICES ASSUME TypeInv, [Next]_vars PROVE PartsOK'
  OBVIOUS
<1> USE DEF TypeInv
<1>1. CASE UNCHANGED part
  BY <1>1 DEF PartsOK
<1>2. ASSUME NEW h \in Handlers, NEW u \in Uploads, CreateFile(h, u)
      PROVE  PartsOK'
  <2>1. Empty \in Content(u)
    BY LengthAssumption DEF Empty, Content
  <2> QED
    BY <1>2, <2>1 DEF CreateFile, PartsOK
<1>3. ASSUME NEW h \in Handlers, PatchTruncate(h) \/ PatchFails(h)
      PROVE  PartsOK'
  <2>1. req[h].up \in Uploads
    BY <1>3, BusyHasUpload DEF PatchTruncate, PatchFails, At
  <2>2. req[h].off \in Nat /\ req[h].off <= Length[req[h].up]
    BY <2>1, UploadsAssumption DEF RequestsOK, Requests, Bounded
  <2>3. Truncated(part[req[h].up], req[h].off) \in Content(req[h].up)
    BY <2>1, <2>2, ContentShape DEF PartsOK
  <2> QED
    BY <1>3, <2>1, <2>3 DEF PatchTruncate, PatchFails, PartsOK
<1>4. ASSUME NEW h \in Handlers, WriteByte(h) PROVE PartsOK'
  <2>1. req[h].up \in Uploads
    BY <1>4, BusyHasUpload DEF WriteByte
  <2>2. req[h].pos \in Nat /\ req[h].pos <= Length[req[h].up]
    BY <1>4, <2>1 DEF WriteByte, RequestsOK, Requests
  <2>3. WithByte(part[req[h].up], req[h].pos) \in Content(req[h].up)
    BY <2>1, <2>2, ContentShape DEF PartsOK
  <2> QED
    BY <1>4, <2>1, <2>3 DEF WriteByte, PartsOK
<1> QED
  BY <1>1, <1>2, <1>3, <1>4, PartSteps

\* A name of the folder shows nothing, a foreign file or an upload.
LEMMA FolderStep == TypeInv /\ [Next]_vars => FolderOK'
<1> SUFFICES ASSUME TypeInv, [Next]_vars PROVE FolderOK'
  OBVIOUS
<1> USE DEF TypeInv
<1>1. CASE UNCHANGED <<owner, by, copy>>
  BY <1>1 DEF FolderOK
<1>2. ASSUME NEW h \in Handlers,
             Rename(h) \/ CopyCreate(h) \/ CopyData(h) \/ CopyFails(h)
      PROVE  FolderOK'
  <2>1. req[h].up \in Uploads /\ req[h].name \in Names
    BY <1>2, BusyHasUpload DEF Rename, CopyCreate, CopyData, CopyFails, At,
                               RequestsOK, Requests
  <2>2. part[req[h].up] \in Contents /\ Empty \in Contents
    BY <2>1 DEF Contents, PartsOK
  <2>3. CASE Rename(h)
    BY <2>1, <2>3 DEF Rename, FolderOK
  <2>4. CASE CopyCreate(h)
    BY <2>1, <2>2, <2>4 DEF CopyCreate, TargetRemoved, FolderOK
  <2>5. CASE CopyData(h)
    BY <2>1, <2>2, <2>5 DEF CopyData, FolderOK
  <2>6. CASE CopyFails(h)
    BY <2>1, <2>6 DEF CopyFails, TargetRemoved, FolderOK
  <2> QED
    BY <1>2, <2>3, <2>4, <2>5, <2>6
<1> QED
  BY <1>1, <1>2, FolderSteps

\* The staging paths and the cleanup are about known uploads.
LEMMA RestStep == TypeInv /\ [Next]_vars => RestOK'
<1> SUFFICES ASSUME TypeInv, [Next]_vars PROVE RestOK'
  OBVIOUS
<1> USE DEF TypeInv, RestOK
<1>1. CASE UNCHANGED vars
  BY <1>1 DEF vars
<1>2. ASSUME NEW h \in Handlers, Request(h), UNCHANGED sameFS PROVE RestOK'
  <2>1. cl' = cl /\ folder' = folder
    BY <1>2 DEF Request, Arrive, Handle, CreateFile, PatchRead, DeleteRead,
         CreateBodyEnds, CreateFails, CreateRecord, PatchOpen, PatchTruncate,
         WriteByte, PatchFails, PatchEnds, UpdateOffset, CompleteCheck,
         FindName, Rename, CopyCreate, CopyData, CopyFails, RemoveSource,
         CompleteRecord, DeleteFile, DeleteRecord, Abort, Respond
  <2>2. staged' \subseteq staged \cup Uploads
    BY <1>2 DEF Request, Arrive, Handle, CreateFile, PatchRead, DeleteRead,
         CreateBodyEnds, CreateFails, CreateRecord, PatchOpen, PatchTruncate,
         WriteByte, PatchFails, PatchEnds, UpdateOffset, CompleteCheck,
         FindName, Rename, CopyCreate, CopyData, CopyFails, RemoveSource,
         CompleteRecord, DeleteFile, DeleteRecord, Abort, Respond
  <2> QED
    BY <1>2, <2>1, <2>2
<1>3. ASSUME Cleanup, UNCHANGED sameFS PROVE RestOK'
  <2>1. staged' \subseteq staged /\ folder' = folder
    BY <1>3 DEF Cleanup, CleanupList, CleanupRemove, CleanupDelete, ScanStart,
                ScanPart, SweepOrphan, CleanupDone
  <2>2. CASE CleanupList
    BY <1>3, <2>1, <2>2 DEF CleanupList
  <2>3. CASE CleanupDelete
    BY <1>3, <2>1, <2>3 DEF CleanupDelete
  <2>4. CASE ScanStart
    BY <1>3, <2>1, <2>4 DEF ScanStart
  <2>5. CASE CleanupDone
    BY <1>3, <2>1, <2>5 DEF CleanupDone, IdleCleanup
  <2>6. ASSUME NEW u \in Uploads, CleanupRemove(u) PROVE RestOK'
    BY <1>3, <2>1, <2>6 DEF CleanupRemove
  <2>7. ASSUME NEW u \in Uploads, ScanPart(u) PROVE RestOK'
    <3>1. PICK orphan \in BOOLEAN :
            cl' = [cl EXCEPT !.parts = @ \ {u},
                             !.orphans = IF orphan THEN @ \cup {u} ELSE @]
      BY <2>7 DEF ScanPart
    <3>2. CASE orphan
      BY <1>3, <2>1, <3>1, <3>2
    <3>3. CASE ~orphan
      BY <1>3, <2>1, <3>1, <3>3
    <3> QED
      BY <3>2, <3>3
  <2>8. ASSUME NEW u \in Uploads, SweepOrphan(u) PROVE RestOK'
    BY <1>3, <2>1, <2>8 DEF SweepOrphan
  <2> QED
    BY <1>3, <2>2, <2>3, <2>4, <2>5, <2>6, <2>7, <2>8 DEF Cleanup
<1>4. ASSUME Environment, UNCHANGED sameFS PROVE RestOK'
  <2>1. CASE Crash
    BY <1>4, <2>1 DEF Crash, BootCleanup, IdleCleanup
  <2>2. CASE FolderGone \/ \E u \in Uploads : Expire(u)
    BY <1>4, <2>2 DEF FolderGone, Expire
  <2> QED
    BY <1>4, <2>1, <2>2 DEF Environment
<1> QED
  BY <1>1, <1>2, <1>3, <1>4 DEF Next, Always

\* The names two requests hold are remembered.
LEMMA NamesStep == TypeInv /\ [Next]_vars => NamesOK'
<1> SUFFICES ASSUME TypeInv, [Next]_vars PROVE NamesOK'
  OBVIOUS
<1>1. CASE UNCHANGED vars
  BY <1>1 DEF vars, TypeInv, NamesOK, Shared, Holds
<1>2. CASE contended' = contended \cup Shared'
  BY <1>2 DEF TypeInv, NamesOK, Shared
<1> QED
  BY <1>1, <1>2 DEF Next, Always

\* A step that only moves a request to another point of its handler.
LEMMA GoShape ==
  ASSUME RequestsOK, NEW h \in Handlers, NEW s \in Steps, Go(h, s)
  PROVE  /\ req' \in [Handlers -> Requests]
         /\ req'[h].pc = s /\ req'[h].up = req[h].up
         /\ req'[h].off = req[h].off /\ req'[h].pos = req[h].pos
         /\ \A x \in Handlers : x # h => req'[x] = req[x]
BY DEF RequestsOK, Requests, Go

\* A handler goes on with the request it has, and stays within the bounds.
LEMMA HandleShape ==
  ASSUME TypeInv, NEW h \in Handlers, Handle(h)
  PROVE  /\ req' \in [Handlers -> Requests]
         /\ req'[h].up = req[h].up /\ req[h].up # None
         /\ req'[h].pc # "idle"
         /\ req'[h].off = req[h].off
         /\ Bounded(h)'
         /\ \A x \in Handlers : x # h => req'[x] = req[x]
<1> USE DEF TypeInv
<1> DEFINE u == req[h].up
<1>1. /\ req[h].pc # "idle" /\ u \in Uploads /\ u # None
      /\ req[h].off \in Nat /\ req[h].pos \in Nat
      /\ Length[u] \in Nat
  <2>1. req[h].pc # "idle"
    BY DEF Handle, At, CreateBodyEnds, CreateFails, CreateRecord, PatchOpen,
       PatchTruncate, WriteByte, PatchFails, PatchEnds, UpdateOffset,
       CompleteCheck, FindName, Rename, CopyCreate, CopyData, CopyFails,
       RemoveSource, CompleteRecord, DeleteFile, DeleteRecord, Abort
  <2> QED
    BY <2>1, BusyHasUpload, LengthAssumption, UploadsAssumption
       DEF RequestsOK, Requests
<1> HIDE DEF u
<1>2. ASSUME NEW s \in Steps, Go(h, s), s # "idle",
             s \in {"insert", "update"} => req[h].pos <= Length[req[h].up]
      PROVE  /\ req' \in [Handlers -> Requests]
             /\ req'[h].up = req[h].up /\ req'[h].pc # "idle"
             /\ req'[h].off = req[h].off /\ Bounded(h)'
             /\ \A x \in Handlers : x # h => req'[x] = req[x]
  <2>1. /\ req' \in [Handlers -> Requests]
        /\ req'[h].pc = s /\ req'[h].up = req[h].up
        /\ req'[h].off = req[h].off /\ req'[h].pos = req[h].pos
        /\ \A x \in Handlers : x # h => req'[x] = req[x]
    BY <1>2, GoShape
  <2>2. Bounded(h)
    BY DEF RequestsOK
  <2> QED
    BY <1>1, <1>2, <2>1, <2>2 DEF Bounded, u
<1>3. CASE WriteByte(h)
  BY <1>1, <1>3 DEF WriteByte, RequestsOK, Requests, Bounded, u
<1>4. CASE FindName(h)
  <2>1. CASE Go(h, "error")
    BY <1>1, <1>2, <2>1 DEF Steps, u
  <2>2. ASSUME NEW n \in Names,
               req' = [req EXCEPT ![h].pc = "move", ![h].name = n]
        PROVE  /\ req' \in [Handlers -> Requests]
               /\ req'[h].up = req[h].up /\ req'[h].pc # "idle"
               /\ req'[h].off = req[h].off /\ Bounded(h)'
               /\ \A x \in Handlers : x # h => req'[x] = req[x]
    BY <1>1, <2>2 DEF RequestsOK, Requests, Bounded, Steps, u
  <2> QED
    BY <1>1, <1>4, <2>1, <2>2 DEF FindName, u
<1>5. CASE ~WriteByte(h) /\ ~FindName(h)
  <2> DEFINE Goes == \E s \in Steps \ {"idle"} :
                       /\ Go(h, s)
                       /\ s \in {"insert", "update"}
                            => req[h].pos <= Length[req[h].up]
  <2>1. ASSUME Creating(h) PROVE Goes
    BY <2>1 DEF Creating, Steps, CreateBodyEnds, CreateFails, CreateRecord
  <2>2. ASSUME PatchOpen(h) \/ PatchTruncate(h) \/ PatchFails(h) PROVE Goes
    BY <2>2 DEF Steps, PatchOpen, PatchTruncate, PatchFails
  <2>3. ASSUME PatchEnds(h) \/ UpdateOffset(h) PROVE Goes
    BY <2>3 DEF Steps, PatchEnds, UpdateOffset
  <2>4. ASSUME CompleteCheck(h) \/ Rename(h) PROVE Goes
    BY <2>4 DEF Steps, CompleteCheck, Rename
  <2>5. ASSUME CopyCreate(h) \/ CopyData(h) \/ CopyFails(h) PROVE Goes
    BY <2>5 DEF Steps, CopyCreate, CopyData, CopyFails
  <2>6. ASSUME Ending(h) PROVE Goes
    BY <2>6 DEF Ending, Steps, RemoveSource, CompleteRecord, DeleteFile,
       DeleteRecord, Abort
  <2> HIDE DEF Goes
  <2>7. Goes
    BY <1>5, <2>1, <2>2, <2>3, <2>4, <2>5, <2>6 DEF Handle, Creating, Ending
  <2> QED
    BY <1>1, <1>2, <2>7 DEF Goes, u
<1> QED
  BY <1>3, <1>4, <1>5

\* A request that has just arrived.
LEMMA BeginShape ==
  ASSUME TypeInv, NEW h \in Handlers, NEW u \in Uploads,
         NEW s \in {"body", "open", "remove"},
         NEW k \in Nat, k <= Length[u], Begin(h, u, s, k)
  PROVE  /\ req' \in [Handlers -> Requests]
         /\ req'[h].pc = s /\ req'[h].up = u
         /\ req'[h].off = k /\ req'[h].pos = k
         /\ Bounded(h)'
         /\ \A x \in Handlers : x # h => req'[x] = req[x]
<1>1. Length[u] \in Nat /\ 0 \in Names /\ u # None
  BY UploadsAssumption, LengthAssumption, SuffixAssumption DEF Names
<1>2. /\ req' \in [Handlers -> Requests]
      /\ req'[h] = [pc |-> s, up |-> u, off |-> k, pos |-> k, name |-> 0]
      /\ \A x \in Handlers : x # h => req'[x] = req[x]
  BY <1>1 DEF TypeInv, RequestsOK, Requests, Steps, Begin
<1>3. /\ req'[h].pc = s /\ req'[h].up = u
      /\ req'[h].off = k /\ req'[h].pos = k
  BY <1>2
<1>4. Bounded(h)'
  BY <1>1, <1>3 DEF Bounded
<1> QED
  BY <1>2, <1>3, <1>4

\* The three ways in which a request arrives.
LEMMA ArriveShape ==
  ASSUME TypeInv, NEW h \in Handlers, NEW u \in Uploads,
         CreateFile(h, u) \/ PatchRead(h, u) \/ DeleteRead(h, u)
  PROVE  /\ req' \in [Handlers -> Requests]
         /\ req'[h].up = u /\ req[h].up = None
         /\ Bounded(h)'
         /\ \A x \in Handlers : x # h => req'[x] = req[x]
         /\ CreateFile(h, u) => /\ req'[h].pc = "body"
                                /\ req'[h].off = 0 /\ req'[h].pos = 0
         /\ PatchRead(h, u) => /\ req'[h].pc = "open"
                               /\ req'[h].off = rec[u].offset
                               /\ req'[h].pos = rec[u].offset
         /\ DeleteRead(h, u) => req'[h].pc = "remove"
<1>1. /\ 0 \in Nat /\ 0 <= Length[u]
      /\ rec[u].offset \in Nat /\ rec[u].offset <= Length[u]
  BY LengthAssumption DEF TypeInv, RowsOK, Rows
<1>2. req[h].up = None
  BY DEF CreateFile, PatchRead, DeleteRead, MayStart, At, TypeInv, RequestsOK,
         Bounded
<1>3. CASE CreateFile(h, u)
  <2>1. Begin(h, u, "body", 0) /\ u \in Uploads /\ rec[u].st = "none"
    BY <1>3 DEF CreateFile
  <2> QED
    BY <1>1, <1>2, <2>1, BeginShape DEF PatchRead, DeleteRead, Open
<1>4. CASE PatchRead(h, u)
  <2>1. Begin(h, u, "open", rec[u].offset)
    BY <1>4 DEF PatchRead
  <2>2. /\ req' \in [Handlers -> Requests]
        /\ req'[h].pc = "open" /\ req'[h].up = u
        /\ req'[h].off = rec[u].offset /\ req'[h].pos = rec[u].offset
        /\ Bounded(h)'
        /\ \A x \in Handlers : x # h => req'[x] = req[x]
    BY <1>1, <2>1, BeginShape
  <2>3. ~CreateFile(h, u)
    BY <1>4 DEF CreateFile, PatchRead, Open
  <2>4. ~DeleteRead(h, u)
    <3>1. SUFFICES ASSUME DeleteRead(h, u) PROVE FALSE
      OBVIOUS
    <3>2. Begin(h, u, "remove", 0)
      BY <3>1 DEF DeleteRead
    <3> QED
      BY <1>1, <2>2, <3>2, BeginShape
  <2> QED
    BY <1>2, <2>2, <2>3, <2>4
<1>5. CASE DeleteRead(h, u)
  <2>1. Begin(h, u, "remove", 0)
    BY <1>5 DEF DeleteRead
  <2>2. /\ req' \in [Handlers -> Requests]
        /\ req'[h].pc = "remove" /\ req'[h].up = u
        /\ Bounded(h)'
        /\ \A x \in Handlers : x # h => req'[x] = req[x]
    BY <1>1, <2>1, BeginShape
  <2>3. ~CreateFile(h, u)
    BY <1>5 DEF CreateFile, DeleteRead, Open
  <2>4. ~PatchRead(h, u)
    <3>1. SUFFICES ASSUME PatchRead(h, u) PROVE FALSE
      OBVIOUS
    <3>2. Begin(h, u, "open", rec[u].offset)
      BY <3>1 DEF PatchRead
    <3> QED
      BY <1>1, <2>2, <3>2, BeginShape
  <2> QED
    BY <1>2, <2>2, <2>3, <2>4
<1> QED
  BY <1>3, <1>4, <1>5

\* What a step can do to the requests.
LEMMA RequestSteps ==
  ASSUME [Next]_vars
  PROVE  \/ UNCHANGED req
         \/ \E h \in Handlers, u \in Uploads :
              CreateFile(h, u) \/ PatchRead(h, u) \/ DeleteRead(h, u)
         \/ \E h \in Handlers : Handle(h) \/ Respond(h)
         \/ Crash
BY DEF Next, Request, Arrive, Cleanup, Environment, vars, FolderGone, Expire,
       CleanupList, CleanupRemove, CleanupDelete, ScanStart, ScanPart,
       SweepOrphan, CleanupDone

\* Requests stay within the bounds of their uploads.
LEMMA RequestsStep == TypeInv /\ [Next]_vars => RequestsOK'
<1> SUFFICES ASSUME TypeInv, [Next]_vars PROVE RequestsOK'
  OBVIOUS
<1>1. CASE UNCHANGED req
  BY <1>1 DEF TypeInv, RequestsOK, Bounded
<1>2. ASSUME NEW h \in Handlers, req' \in [Handlers -> Requests], Bounded(h)',
             \A x \in Handlers : x # h => req'[x] = req[x]
      PROVE  RequestsOK'
  BY <1>2 DEF TypeInv, RequestsOK, Bounded
<1>3. ASSUME NEW h \in Handlers, NEW u \in Uploads,
             CreateFile(h, u) \/ PatchRead(h, u) \/ DeleteRead(h, u)
      PROVE  RequestsOK'
  BY <1>2, <1>3, ArriveShape
<1>4. ASSUME NEW h \in Handlers, Handle(h) PROVE RequestsOK'
  BY <1>2, <1>4, HandleShape
<1>5. IdleRequest \in Requests /\ IdleRequest.pc = "idle"
                               /\ IdleRequest.up = None
  BY SuffixAssumption DEF IdleRequest, Requests, Steps, Names
<1>6. ASSUME NEW h \in Handlers, Respond(h) PROVE RequestsOK'
  <2>1. /\ req' \in [Handlers -> Requests] /\ req'[h] = IdleRequest
        /\ \A x \in Handlers : x # h => req'[x] = req[x]
    BY <1>5, <1>6 DEF Respond, TypeInv, RequestsOK
  <2> QED
    BY <1>2, <1>5, <2>1 DEF Bounded
<1>7. CASE Crash
  BY <1>5, <1>7 DEF Crash, RequestsOK, Bounded
<1> QED
  BY <1>1, <1>3, <1>4, <1>6, <1>7, RequestSteps

\* Every step keeps the type invariant.
LEMMA TypeStep == TypeInv /\ [Next]_vars => TypeInv'
BY RowsStep, PartsStep, FolderStep, RequestsStep, RestStep, NamesStep DEF TypeInv

\* The type invariant holds for good.
LEMMA TypeInvariant == Spec => []TypeInv
BY TypeInit, TypeStep, PTL DEF Spec

\* Every variable stays in its domain, for any uploads, lengths, number of
\* requests and suffixes: no staging file grows past one byte beyond its
\* declared length, no row's offset past the length.
THEOREM TypeCorrect == Spec => []TypeOK
BY TypeInvariant, TypeInvImpliesTypeOK, PTL

-----------------------------------------------------------------------------
(* One upload.complete event per upload *)

St(u) == rec[u].st

\* An event has been published only for an upload whose row will never be
\* open again.
EventsOnce ==
  \A u \in Uploads :
    published[u] <= 1 /\ (published[u] = 1 => St(u) \in {"done", "gone"})

\* A POST that has not stored its row yet is the only request that knows the
\* upload; any other working request is about an upload that has a row.
CreatorAlone(h) ==
  req[h].pc \in {"body", "insert"} =>
    /\ St(req[h].up) = "none"
    /\ \A x \in Handlers : x # h => req[x].up # req[h].up

HasRow(h) ==
  req[h].pc \notin {"idle", "ok", "error", "body", "insert"} =>
    St(req[h].up) # "none"

\* The cleanup works on uploads that have, or had, a row.
ListKnown ==
  \A u \in Uploads : u \in cl.list \/ u = cl.cur => St(u) # "none"

EventInv ==
  /\ EventsOnce
  /\ \A h \in Handlers : CreatorAlone(h) /\ HasRow(h)
  /\ ListKnown

\* Once stored, a row is never forgotten without a trace.
LEMMA KnownStays ==
  ASSUME TypeInv, [Next]_vars, NEW u \in Uploads, St(u) # "none"
  PROVE  rec'[u].st # "none"
<1> USE DEF TypeInv, St
<1>1. CASE UNCHANGED <<rec, published>>
  BY <1>1
<1>2. ASSUME NEW h \in Handlers, CreateRecord(h) PROVE rec'[u].st # "none"
  BY <1>2 DEF CreateRecord, Row, RowsOK
<1>3. ASSUME NEW h \in Handlers, UpdateOffset(h) PROVE rec'[u].st # "none"
  BY <1>3 DEF UpdateOffset, RowsOK, Rows
<1>4. ASSUME NEW h \in Handlers, CompleteRecord(h) PROVE rec'[u].st # "none"
  BY <1>4 DEF CompleteRecord, RowsOK, Rows
<1>5. ASSUME NEW v \in Uploads, rec' = Deleted(v) PROVE rec'[u].st # "none"
  BY <1>5, DeletedShape
<1>6. ASSUME NEW h \in Handlers, DeleteRecord(h) PROVE rec'[u].st # "none"
  BY <1>5, <1>6, BusyHasUpload DEF DeleteRecord, At
<1>7. CASE CleanupDelete
  BY <1>5, <1>7 DEF CleanupDelete, RestOK
<1>8. ASSUME NEW v \in Uploads, Expire(v) PROVE rec'[u].st # "none"
  BY <1>8 DEF Expire, RowsOK, Rows
<1> QED
  BY <1>1, <1>2, <1>3, <1>4, <1>6, <1>7, <1>8, RowSteps

\* Only the POST that is creating an upload stores its row.
LEMMA UnknownStays ==
  ASSUME TypeInv, EventInv, [Next]_vars, NEW u \in Uploads, St(u) = "none",
         \A h \in Handlers : CreateRecord(h) => req[h].up # u
  PROVE  rec'[u].st = "none"
<1> USE DEF TypeInv, St
<1>1. CASE UNCHANGED <<rec, published>>
  BY <1>1
<1>2. ASSUME NEW h \in Handlers, CreateRecord(h) PROVE rec'[u].st = "none"
  BY <1>2 DEF CreateRecord, RowsOK
<1>3. ASSUME NEW h \in Handlers, UpdateOffset(h) PROVE rec'[u].st = "none"
  BY <1>3 DEF UpdateOffset, RowsOK, Rows
<1>4. ASSUME NEW h \in Handlers, CompleteRecord(h) PROVE rec'[u].st = "none"
  BY <1>4 DEF CompleteRecord, Open, RowsOK, Rows
<1>5. ASSUME NEW v \in Uploads, St(v) # "none", rec' = Deleted(v)
      PROVE  rec'[u].st = "none"
  BY <1>5, DeletedShape
<1>6. ASSUME NEW h \in Handlers, DeleteRecord(h) PROVE rec'[u].st = "none"
  BY <1>5, <1>6, BusyHasUpload DEF DeleteRecord, At, EventInv, HasRow
<1>7. CASE CleanupDelete
  BY <1>5, <1>7 DEF CleanupDelete, RestOK, EventInv, ListKnown
<1>8. ASSUME NEW v \in Uploads, Expire(v) PROVE rec'[u].st = "none"
  BY <1>8 DEF Expire, RowsOK, Rows
<1> QED
  BY <1>1, <1>2, <1>3, <1>4, <1>6, <1>7, <1>8, RowSteps

\* What a step can do to the cleanup.
LEMMA CleanupSteps ==
  ASSUME [Next]_vars
  PROVE  \/ UNCHANGED cl \/ Crash
         \/ CleanupList \/ CleanupDelete \/ ScanStart \/ CleanupDone
         \/ \E u \in Uploads : \/ CleanupRemove(u) \/ ScanPart(u)
                               \/ SweepOrphan(u)
<1>1. ASSUME NEW h \in Handlers, Arrive(h)
      PROVE  UNCHANGED cl
  BY <1>1 DEF Arrive, CreateFile, PatchRead, DeleteRead
<1>2. ASSUME NEW h \in Handlers, Creating(h)
      PROVE  UNCHANGED cl
  BY <1>2 DEF Creating, CreateBodyEnds, CreateFails, CreateRecord
<1>3. ASSUME NEW h \in Handlers, Patching(h)
      PROVE  UNCHANGED cl
  BY <1>3
     DEF Patching, PatchOpen, PatchTruncate, WriteByte, PatchFails,
         PatchEnds, UpdateOffset
<1>4. ASSUME NEW h \in Handlers, Moving(h)
      PROVE  UNCHANGED cl
  BY <1>4
     DEF Moving, CompleteCheck, FindName, Rename, CopyCreate, CopyData,
         CopyFails
<1>5. ASSUME NEW h \in Handlers, Ending(h)
      PROVE  UNCHANGED cl
  BY <1>5
     DEF Ending, RemoveSource, CompleteRecord, DeleteFile, DeleteRecord,
         Abort
<1>6. ASSUME NEW h \in Handlers, Respond(h)
      PROVE  UNCHANGED cl
  BY <1>6 DEF Respond
<1>7. ASSUME Environment
      PROVE  UNCHANGED cl \/ Crash
  BY <1>7 DEF Environment, FolderGone, Expire
<1>8. CASE UNCHANGED vars
  BY <1>8 DEF vars
<1> QED
  BY <1>1, <1>2, <1>3, <1>4, <1>5, <1>6, <1>7, <1>8, NextCases DEF Cleanup

\* CompleteUpload, which alone publishes, also closes the row for good.
LEMMA EventsOnceStep ==
  ASSUME TypeInv, EventInv, [Next]_vars
  PROVE  EventsOnce'
<1> USE DEF TypeInv, St, EventsOnce
<1> EventsOnce
  BY DEF EventInv
<1>1. CASE UNCHANGED <<rec, published>>
  BY <1>1
<1>2. ASSUME NEW h \in Handlers, CreateRecord(h) PROVE EventsOnce'
  <2>1. req[h].up \in Uploads /\ St(req[h].up) = "none"
    BY <1>2, BusyHasUpload DEF CreateRecord, At, EventInv, CreatorAlone
  <2> QED
    BY <1>2, <2>1 DEF CreateRecord, Row, RowsOK
<1>3. ASSUME NEW h \in Handlers, UpdateOffset(h) PROVE EventsOnce'
  BY <1>3 DEF UpdateOffset, RowsOK, Rows
<1>4. ASSUME NEW h \in Handlers, CompleteRecord(h) PROVE EventsOnce'
  <2>1. req[h].up \in Uploads
    BY <1>4, BusyHasUpload DEF CompleteRecord, At
  <2>2. CASE Open(req[h].up)
    <3>1. published[req[h].up] = 0
      BY <2>1, <2>2 DEF Open, RowsOK
    <3>2. published' = [published EXCEPT ![req[h].up] = 1]
      BY <1>4, <2>1, <2>2, <3>1 DEF CompleteRecord, RowsOK
    <3>3. /\ rec'[req[h].up].st = "done"
          /\ \A u \in Uploads : u # req[h].up => rec'[u] = rec[u]
      BY <1>4, <2>1, <2>2 DEF CompleteRecord, RowsOK, Rows
    <3> QED
      BY <2>1, <3>2, <3>3 DEF RowsOK
  <2>3. CASE ~Open(req[h].up)
    BY <1>4, <2>3 DEF CompleteRecord
  <2> QED
    BY <2>2, <2>3
<1>5. ASSUME NEW v \in Uploads, rec' = Deleted(v), published' = published
      PROVE  EventsOnce'
  BY <1>5, DeletedShape
<1>6. ASSUME NEW h \in Handlers, DeleteRecord(h) PROVE EventsOnce'
  BY <1>5, <1>6, BusyHasUpload DEF DeleteRecord, At
<1>7. CASE CleanupDelete
  BY <1>5, <1>7 DEF CleanupDelete, RestOK
<1>8. ASSUME NEW v \in Uploads, Expire(v) PROVE EventsOnce'
  BY <1>8 DEF Expire, RowsOK, Rows
<1> QED
  BY <1>1, <1>2, <1>3, <1>4, <1>6, <1>7, <1>8, RowSteps

\* The random id makes a POST the only request that knows its upload.
LEMMA CreatorAloneStep ==
  ASSUME TypeInv, EventInv, [Next]_vars, NEW h \in Handlers
  PROVE  CreatorAlone(h)'
<1> USE DEF TypeInv
<1> SUFFICES ASSUME req'[h].pc \in {"body", "insert"}
             PROVE  /\ rec'[req'[h].up].st = "none"
                    /\ \A x \in Handlers : x # h => req'[x].up # req'[h].up
  BY DEF CreatorAlone, St
<1>1. RequestsOK /\ RequestsOK'
  BY RequestsStep DEF RequestsOK
\* A creator that was one before, while the others keep or drop their upload.
<1>2. ASSUME req[h].pc \in {"body", "insert"}, req'[h].up = req[h].up,
             ~CreateRecord(h),
             \A x \in Handlers : \/ req'[x].up = req[x].up
                                 \/ req'[x].up = None
                                 \/ req'[x].up # req[h].up
      PROVE  /\ rec'[req'[h].up].st = "none"
             /\ \A x \in Handlers : x # h => req'[x].up # req'[h].up
  <2>1. /\ req[h].up \in Uploads /\ St(req[h].up) = "none"
        /\ \A x \in Handlers : x # h => req[x].up # req[h].up
    BY <1>1, <1>2, BusyHasUpload DEF EventInv, CreatorAlone
  <2>2. \A x \in Handlers : CreateRecord(x) => req[x].up # req[h].up
    BY <1>2, <2>1
  <2>3. rec'[req[h].up].st = "none"
    BY <2>1, <2>2, UnknownStays
  <2> QED
    BY <1>2, <2>1, <2>3, UploadsAssumption DEF St
<1>3. CASE UNCHANGED req
  <2>1. ~CreateRecord(h)
    BY <1>1, <1>3 DEF CreateRecord, At, Go, RequestsOK, Requests
  <2> QED
    BY <1>2, <1>3, <2>1
<1>4. ASSUME NEW k \in Handlers, NEW u \in Uploads, CreateFile(k, u)
      PROVE  /\ rec'[req'[h].up].st = "none"
             /\ \A x \in Handlers : x # h => req'[x].up # req'[h].up
  <2>1. /\ req'[k].pc = "body" /\ req'[k].up = u /\ St(u) = "none"
        /\ \A x \in Handlers : x # k => req'[x] = req[x]
        /\ \A x \in Handlers : req[x].up # u
        /\ rec' = rec
    BY <1>4, ArriveShape DEF CreateFile, St
  <2>2. CASE h = k
    BY <2>1, <2>2 DEF St
  <2>3. CASE h # k
    BY <2>1, <2>3 DEF EventInv, CreatorAlone, St
  <2> QED
    BY <2>2, <2>3
<1>5. ASSUME NEW k \in Handlers, NEW u \in Uploads,
             PatchRead(k, u) \/ DeleteRead(k, u)
      PROVE  /\ rec'[req'[h].up].st = "none"
             /\ \A x \in Handlers : x # h => req'[x].up # req'[h].up
  <2>1. /\ req'[k].pc \in {"open", "remove"} /\ req'[k].up = u
        /\ St(u) = "open"
        /\ \A x \in Handlers : x # k => req'[x] = req[x]
        /\ rec' = rec
    BY <1>5, ArriveShape DEF PatchRead, DeleteRead, St, Open
  <2>2. h # k /\ req[h].pc \in {"body", "insert"}
    BY <2>1
  <2> QED
    BY <2>1, <2>2 DEF EventInv, CreatorAlone, St
<1>6. ASSUME NEW k \in Handlers, Handle(k)
      PROVE  /\ rec'[req'[h].up].st = "none"
             /\ \A x \in Handlers : x # h => req'[x].up # req'[h].up
  <2>1. \A x \in Handlers : req'[x].up = req[x].up
    BY <1>6, HandleShape
  <2>2. ~CreateRecord(h)
    <3>1. SUFFICES ASSUME CreateRecord(h) PROVE FALSE
      OBVIOUS
    <3>2. Go(h, "check") \/ Go(h, "ok")
      BY <3>1 DEF CreateRecord
    <3> QED
      BY <1>1, <3>2, GoShape DEF Steps
  <2>3. req[h].pc \in {"body", "insert"}
    <3>1. CASE k # h
      BY <1>6, <3>1, HandleShape
    <3>2. CASE k = h
      <4>1. \/ WriteByte(h) \/ CreateBodyEnds(h) \/ FindName(h)
            \/ \E s \in Steps \ {"body", "insert"} : Go(h, s)
        BY <1>6, <3>2 DEF Handle, Steps, CreateFails, CreateRecord, At,
           PatchOpen, PatchTruncate, PatchFails, PatchEnds, UpdateOffset,
           CompleteCheck, Rename, CopyCreate, CopyData, CopyFails,
           RemoveSource, CompleteRecord, DeleteFile, DeleteRecord, Abort
      <4>2. CASE WriteByte(h)
        BY <1>1, <4>2 DEF WriteByte, RequestsOK, Requests
      <4>3. CASE CreateBodyEnds(h)
        BY <4>3 DEF CreateBodyEnds, At
      <4>4. ASSUME NEW s \in Steps \ {"body", "insert"}, Go(h, s)
            PROVE  FALSE
        BY <1>1, <4>4, GoShape
      <4>5. CASE FindName(h)
        BY <1>1, <4>5 DEF FindName, Go, RequestsOK, Requests
      <4> QED
        BY <4>1, <4>2, <4>3, <4>4, <4>5
    <3> QED
      BY <3>1, <3>2
  <2> QED
    BY <1>2, <2>1, <2>2, <2>3
<1>7. ASSUME NEW k \in Handlers, Respond(k)
      PROVE  /\ rec'[req'[h].up].st = "none"
             /\ \A x \in Handlers : x # h => req'[x].up # req'[h].up
  <2>1. /\ req'[k].pc = "idle" /\ req'[k].up = None
        /\ \A x \in Handlers : x # k => req'[x] = req[x]
    BY <1>1, <1>7 DEF Respond, IdleRequest, RequestsOK
  <2>2. ~CreateRecord(h)
    BY <1>1, <1>7 DEF CreateRecord, Respond, At, Go, RequestsOK, Requests
  <2> QED
    BY <1>2, <2>1, <2>2
<1>8. CASE Crash
  BY <1>8 DEF Crash, IdleRequest
<1> QED
  BY <1>3, <1>4, <1>5, <1>6, <1>7, <1>8, RequestSteps

\* A handler past its first step found a row, and rows leave a trace.
LEMMA HasRowStep ==
  ASSUME TypeInv, EventInv, [Next]_vars, NEW h \in Handlers
  PROVE  HasRow(h)'
<1> USE DEF TypeInv
<1> DEFINE NoRow == {"idle", "ok", "error", "body", "insert"}
<1> SUFFICES ASSUME req'[h].pc \notin NoRow
             PROVE  rec'[req'[h].up].st # "none"
  BY DEF HasRow, St
<1>1. RequestsOK /\ RequestsOK'
  BY RequestsStep
<1>2. ASSUME req[h].pc \notin NoRow, req'[h].up = req[h].up
      PROVE  rec'[req'[h].up].st # "none"
  <2>1. req[h].up \in Uploads /\ St(req[h].up) # "none"
    BY <1>1, <1>2, BusyHasUpload DEF EventInv, HasRow
  <2> QED
    BY <1>2, <2>1, KnownStays
<1>3. CASE UNCHANGED req
  BY <1>2, <1>3
<1>4. ASSUME NEW k \in Handlers, NEW u \in Uploads,
             CreateFile(k, u) \/ PatchRead(k, u) \/ DeleteRead(k, u)
      PROVE  rec'[req'[h].up].st # "none"
  <2>1. /\ req'[k].up = u
        /\ req'[k].pc = "body" \/ St(u) = "open"
        /\ \A x \in Handlers : x # k => req'[x] = req[x]
        /\ rec' = rec
    BY <1>4, ArriveShape DEF CreateFile, PatchRead, DeleteRead, St, Open
  <2> QED
    BY <1>2, <2>1 DEF St
<1>5. ASSUME NEW k \in Handlers, Handle(k)
      PROVE  rec'[req'[h].up].st # "none"
  <2>1. CASE k # h \/ req[h].pc \notin NoRow
    BY <1>2, <1>5, <2>1, HandleShape
  <2>2. CASE k = h /\ req[h].pc \in NoRow
    <3>1. \/ CreateBodyEnds(h) \/ CreateFails(h) \/ WriteByte(h)
          \/ CreateRecord(h)
      BY <1>5, <2>2 DEF Handle, At, PatchOpen, PatchTruncate, PatchFails,
         PatchEnds, UpdateOffset, CompleteCheck, FindName, Rename, CopyCreate,
         CopyData, CopyFails, RemoveSource, CompleteRecord, DeleteFile,
         DeleteRecord, Abort
    <3>2. CASE CreateBodyEnds(h)
      BY <1>1, <3>2, GoShape DEF CreateBodyEnds, Steps
    <3>3. CASE CreateFails(h)
      BY <1>1, <3>3, GoShape DEF CreateFails, Steps
    <3>4. CASE WriteByte(h)
      BY <1>1, <2>2, <3>4 DEF WriteByte, RequestsOK, Requests
    <3>5. CASE CreateRecord(h)
      <4>1. req[h].up \in Uploads
        BY <1>1, <3>5, BusyHasUpload DEF CreateRecord, At
      <4>2. rec'[req[h].up].st = "open"
        BY <3>5, <4>1 DEF CreateRecord, Row, RowsOK
      <4> QED
        BY <1>5, <2>2, <4>2, HandleShape
    <3> QED
      BY <3>1, <3>2, <3>3, <3>4, <3>5
  <2> QED
    BY <2>1, <2>2
<1>6. ASSUME NEW k \in Handlers, Respond(k)
      PROVE  rec'[req'[h].up].st # "none"
  <2>1. /\ req'[k].pc = "idle"
        /\ \A x \in Handlers : x # k => req'[x] = req[x]
    BY <1>1, <1>6 DEF Respond, IdleRequest, RequestsOK
  <2> QED
    BY <1>2, <2>1
<1>7. CASE Crash
  BY <1>7 DEF Crash, IdleRequest
<1> QED
  BY <1>3, <1>4, <1>5, <1>6, <1>7, RequestSteps

\* The cleanup lists rows.
LEMMA ListKnownStep ==
  ASSUME TypeInv, EventInv, [Next]_vars
  PROVE  ListKnown'
<1> USE DEF TypeInv
<1> SUFFICES ASSUME NEW u \in Uploads, u \in cl'.list \/ u = cl'.cur
             PROVE  rec'[u].st # "none"
  BY DEF ListKnown, St
<1>1. u \in cl.list \/ u = cl.cur \/ Open(u)
  <2>1. CASE CleanupList
    BY <2>1 DEF CleanupList, RestOK
  <2>2. ASSUME NEW v \in Uploads, CleanupRemove(v)
        PROVE  u \in cl.list \/ u = cl.cur
    BY <2>2 DEF CleanupRemove, RestOK
  <2>3. CASE CleanupDelete
    BY <2>3, UploadsAssumption DEF CleanupDelete, RestOK
  <2>4. CASE CleanupDone \/ Crash
    BY <2>4, UploadsAssumption DEF CleanupDone, Crash, BootCleanup, IdleCleanup
  <2>5. ASSUME cl'.list = cl.list, cl'.cur = cl.cur
        PROVE  u \in cl.list \/ u = cl.cur
    BY <2>5
  <2>6. CASE ScanStart
    BY <2>5, <2>6 DEF ScanStart, RestOK
  <2>7. ASSUME NEW v \in Uploads, ScanPart(v) \/ SweepOrphan(v)
        PROVE  u \in cl.list \/ u = cl.cur
    BY <2>5, <2>7 DEF ScanPart, SweepOrphan, RestOK
  <2>8. CASE UNCHANGED cl
    BY <2>5, <2>8
  <2> QED
    BY <2>1, <2>2, <2>3, <2>4, <2>6, <2>7, <2>8, CleanupSteps
<1>2. St(u) # "none"
  BY <1>1 DEF EventInv, ListKnown, St, Open
<1> QED
  BY <1>2, KnownStays

\* At the start there are no rows, requests or events.
LEMMA EventInit == Init => EventInv
BY UploadsAssumption
   DEF Init, EventInv, EventsOnce, CreatorAlone, HasRow, ListKnown, St, Row,
       IdleRequest, BootCleanup, IdleCleanup

\* Every step keeps the invariant of the events.
LEMMA EventStep == TypeInv /\ EventInv /\ [Next]_vars => EventInv'
BY EventsOnceStep, CreatorAloneStep, HasRowStep, ListKnownStep DEF EventInv

\* The invariant of the events holds for good.
LEMMA EventInvariant == Spec => [](TypeInv /\ EventInv)
BY TypeInit, TypeStep, EventInit, EventStep, PTL DEF Spec

\* Whatever requests overlap, retry, crash or race with the cleanup, an upload
\* causes at most one upload.complete event.
THEOREM EventPublishedOnce == Spec => []PublishedOnce
<1>1. EventInv => PublishedOnce
  BY DEF EventInv, EventsOnce, PublishedOnce
<1> QED
  BY <1>1, EventInvariant, PTL
-----------------------------------------------------------------------------
(* Files, and the promise *)

\* AcknowledgedBytesStaged and NamedIsWhole speak of idle uploads and of the
\* folder; to survive every step they need to know what a request between two
\* of its steps has in its hands: FileOf says it for each program point, and
\* Alone that nobody else writes the same file.

\* Requests of one upload do not overlap: nothing starts one while another one
\* runs, or there is one request at a time anyway.
OneRequest == \A g, h \in Handlers : g = h
Apart == ~Overlap \/ OneRequest

Prefix(u, k) == k <= part[u].len /\ 0..(k - 1) \subseteq part[u].good

Exactly(u, k) == part[u] = [len |-> k, good |-> 0..(k - 1)]

\* No two requests are about the same upload.
Alone(h) ==
  req[h].up # None => \A x \in Handlers : x # h => req[x].up # req[h].up

\* The staging file at each point of a request, and its offset when the row
\* is open.
FileOf(h) ==
  LET u == req[h].up
      pc == req[h].pc IN
  /\ pc \in {"body", "insert"} => Exactly(u, req[h].pos)
  /\ pc \in {"open", "truncate"} =>
       Prefix(u, req[h].off) /\ req[h].off = req[h].pos
  /\ pc \in {"patch", "update"} =>
       Exactly(u, req[h].pos) /\ req[h].off <= req[h].pos
  /\ pc \in {"open", "truncate", "patch", "update"} /\ Open(u) =>
       rec[u].offset = req[h].off
  /\ pc \in {"check", "name", "move", "copying"} => Whole(part[u], u)

\* An open row is backed by its bytes, whether or not the file has a name.
RowBacked(u) == Open(u) => Prefix(u, rec[u].offset)

\* A renamed file is whole, nobody holds it open to write, and its upload can
\* be neither created again nor staged again.
NameWhole(n) ==
  LET u == owner[n] IN
  sameFS /\ u \in Uploads =>
    /\ Whole(part[u], u)
    /\ St(u) # "none" /\ u \notin staged
    /\ \A h \in Handlers :
         req[h].up = u => req[h].pc \notin {"truncate", "patch"}

FileInv ==
  /\ \A h \in Handlers : Alone(h) /\ FileOf(h)
  /\ \A u \in Uploads : RowBacked(u)
  /\ \A n \in Names : NameWhole(n)

Inv == TypeInv /\ EventInv /\ FileInv

\* At the start there are no rows, requests or uploaded files.
LEMMA FileInit == Init => FileInv
BY UploadsAssumption
   DEF Init, FileInv, Alone, FileOf, RowBacked, NameWhole, IdleRequest, Open,
       Row

-----------------------------------------------------------------------------
(* Bytes *)

\* Cutting a file at a point up to which it is right leaves the right bytes
\* only; writing the next byte extends them.
LEMMA ExactFiles ==
  ASSUME NEW u \in Uploads, NEW c \in Content(u), NEW k \in Nat
  PROVE  /\ k <= c.len /\ 0..(k - 1) \subseteq c.good
              => Truncated(c, k) = [len |-> k, good |-> 0..(k - 1)]
         /\ c = [len |-> k, good |-> 0..(k - 1)]
              => WithByte(c, k) = [len |-> k + 1, good |-> 0..k]
<1>1. c.good \subseteq Nat
  BY LengthAssumption DEF Content
<1>2. ASSUME k <= c.len, 0..(k - 1) \subseteq c.good
      PROVE  Truncated(c, k) = [len |-> k, good |-> 0..(k - 1)]
  <2>1. {i \in c.good : i < k} = 0..(k - 1)
    BY <1>1, <1>2
  <2> QED
    BY <2>1 DEF Truncated
<1>3. ASSUME c = [len |-> k, good |-> 0..(k - 1)]
      PROVE  WithByte(c, k) = [len |-> k + 1, good |-> 0..k]
  <2>1. c.len = k /\ c.good = 0..(k - 1)
    BY <1>3
  <2>2. 0..(k - 1) \cup {k} = 0..k
    OBVIOUS
  <2>3. (IF k < c.len THEN c.len ELSE k + 1) = k + 1
    BY <2>1
  <2> QED
    BY <2>1, <2>2, <2>3, Zenon DEF WithByte
<1> QED
  BY <1>2, <1>3

\* A file that is right up to p is right up to any k below p.
LEMMA ExactlyIsPrefix ==
  ASSUME NEW u \in Uploads, NEW p \in Nat, NEW k \in Nat, k <= p,
         Exactly(u, p)
  PROVE  Prefix(u, k)
BY DEF Exactly, Prefix

\* A file that is right up to the declared length is the source file.
LEMMA ExactlyIsWhole ==
  ASSUME NEW u \in Uploads, Exactly(u, Length[u])
  PROVE  Whole(part[u], u)
BY DEF Exactly, Whole

-----------------------------------------------------------------------------
(* One request per upload *)

\* A request arrives only when no other one is about its upload.
LEMMA AloneStep ==
  ASSUME Apart, Inv, [Next]_vars
  PROVE  \A h \in Handlers : Alone(h)'
<1> USE DEF Inv
<1>0. CASE OneRequest
  BY <1>0 DEF OneRequest, Alone
<1>1. \A h \in Handlers : Alone(h)
  BY DEF FileInv
<1>2. CASE UNCHANGED req
  BY <1>1, <1>2 DEF Alone
<1>3. ASSUME NEW k \in Handlers, NEW u \in Uploads, ~Overlap,
             CreateFile(k, u) \/ PatchRead(k, u) \/ DeleteRead(k, u)
      PROVE  \A h \in Handlers : Alone(h)'
  <2>1. /\ req'[k].up = u
        /\ \A x \in Handlers : x # k => req'[x] = req[x]
        /\ \A x \in Handlers : req[x].up # u
    BY <1>3, ArriveShape DEF CreateFile, PatchRead, DeleteRead, MayStart
  <2> QED
    BY <1>1, <2>1 DEF Alone
<1>4. ASSUME NEW k \in Handlers, Handle(k)
      PROVE  \A h \in Handlers : Alone(h)'
  <2>1. \A x \in Handlers : req'[x].up = req[x].up
    BY <1>4, HandleShape
  <2> QED
    BY <1>1, <2>1 DEF Alone
<1>5. ASSUME NEW k \in Handlers, Respond(k)
      PROVE  \A h \in Handlers : Alone(h)'
  <2>1. /\ req'[k].up = None
        /\ \A x \in Handlers : x # k => req'[x] = req[x]
    BY <1>5 DEF Respond, IdleRequest, TypeInv, RequestsOK
  <2> QED
    BY <1>1, <2>1 DEF Alone
<1>6. CASE Crash
  BY <1>6 DEF Crash, IdleRequest, Alone
<1> QED
  BY <1>0, <1>2, <1>3, <1>4, <1>5, <1>6, RequestSteps DEF Apart

\* A step that is not of the request leaves its upload's file and, while it is
\* open, its row alone.
LEMMA OthersLeaveIt ==
  ASSUME Inv, [Next]_vars, NEW h \in Handlers, req[h].up \in Uploads,
         ~Handle(h)
  PROVE  /\ part'[req[h].up] = part[req[h].up]
         /\ rec'[req[h].up].st = "open" =>
              /\ rec[req[h].up].st = "open"
              /\ rec'[req[h].up].offset = rec[req[h].up].offset
<1> USE DEF Inv, TypeInv
<1> DEFINE u == req[h].up
<1>1. \A k \in Handlers : Handle(k) => req[k].up # u
  BY UploadsAssumption DEF FileInv, Alone
<1>2. part'[u] = part[u]
  <2>1. ASSUME NEW k \in Handlers, NEW v \in Uploads, CreateFile(k, v)
        PROVE  part'[u] = part[u]
    BY <2>1 DEF CreateFile, PartsOK
  <2>2. ASSUME NEW k \in Handlers,
               PatchTruncate(k) \/ WriteByte(k) \/ PatchFails(k)
        PROVE  part'[u] = part[u]
    <3>1. Handle(k)
      BY <2>2 DEF Handle
    <3> QED
      BY <1>1, <2>2, <3>1 DEF PatchTruncate, WriteByte, PatchFails, PartsOK
  <2> QED
    BY <2>1, <2>2, PartSteps
<1>3. rec'[u].st = "open" => /\ rec[u].st = "open"
                             /\ rec'[u].offset = rec[u].offset
  <2>1. CASE UNCHANGED <<rec, published>>
    BY <2>1
  <2>2. ASSUME NEW k \in Handlers, \/ CreateRecord(k) \/ UpdateOffset(k)
                                   \/ CompleteRecord(k)
        PROVE  rec'[u] = rec[u]
    <3>1. Handle(k)
      BY <2>2 DEF Handle
    <3> QED
      BY <1>1, <2>2, <3>1 DEF CreateRecord, UpdateOffset, CompleteRecord,
                              RowsOK
  <2>3. ASSUME NEW v \in Uploads, rec' = Deleted(v)
        PROVE  rec'[u].st = "gone" \/ rec'[u] = rec[u]
    BY <2>3, DeletedShape
  <2>4. ASSUME NEW k \in Handlers, DeleteRecord(k)
        PROVE  rec'[u].st = "gone" \/ rec'[u] = rec[u]
    BY <2>3, <2>4, BusyHasUpload DEF DeleteRecord, At
  <2>5. CASE CleanupDelete
    BY <2>3, <2>5 DEF CleanupDelete, RestOK
  <2>6. ASSUME NEW v \in Uploads, Expire(v)
        PROVE  rec'[u].st = rec[u].st /\ rec'[u].offset = rec[u].offset
    BY <2>6 DEF Expire, RowsOK, Rows
  <2> QED
    BY <2>1, <2>2, <2>3, <2>4, <2>5, <2>6, RowSteps
<1> QED
  BY <1>2, <1>3

-----------------------------------------------------------------------------
(* A request and its file *)

\* The steps of the request itself, one by one.
LEMMA OwnStep ==
  ASSUME Inv, [Next]_vars, NEW h \in Handlers, Handle(h)
  PROVE  FileOf(h)'
<1> USE DEF Inv, TypeInv
<1> DEFINE u == req[h].up
           pc == req[h].pc
<1>1. /\ u \in Uploads /\ part[u] \in Content(u)
      /\ req[h].off \in Nat /\ req[h].pos \in Nat
      /\ req'[h].up = u /\ req'[h].off = req[h].off
  BY HandleShape, UploadsAssumption DEF PartsOK, RequestsOK, Requests
<1>2. FileOf(h) /\ RowBacked(u)
  BY <1>1 DEF FileInv
<1>3. ASSUME NEW s \in Steps, Go(h, s)
      PROVE  req'[h].pc = s /\ req'[h].pos = req[h].pos
  BY <1>3, GoShape
<1>4. ASSUME req'[h].pc \in {"ok", "error", "unlink", "finish", "remove",
                             "forget"}
      PROVE  FileOf(h)'
  BY <1>4 DEF FileOf
<1>5. CASE CreateBodyEnds(h)
  <2>1. pc = "body" /\ req'[h].pc = "insert" /\ req'[h].pos = req[h].pos
    BY <1>3, <1>5 DEF CreateBodyEnds, At, Steps
  <2> QED
    BY <1>1, <1>2, <1>5, <2>1 DEF CreateBodyEnds, FileOf, Exactly
<1>6. CASE CreateRecord(h) \/ UpdateOffset(h)
  <2>1. pc \in {"insert", "update"} /\ Exactly(u, req[h].pos) /\ part' = part
    BY <1>2, <1>6 DEF CreateRecord, UpdateOffset, At, FileOf
  <2>2. \/ req'[h].pc \in {"ok", "error"}
        \/ req'[h].pc = "check" /\ req[h].pos = Length[u]
    BY <1>3, <1>6 DEF CreateRecord, UpdateOffset, Steps
  <2>3. ASSUME req'[h].pc = "check", req[h].pos = Length[u]
        PROVE  FileOf(h)'
    BY <1>1, <2>1, <2>3, ExactlyIsWhole DEF FileOf
  <2> QED
    BY <1>4, <2>2, <2>3
<1>7. CASE PatchOpen(h)
  <2>1. /\ pc = "open" /\ req'[h].pc \in {"truncate", "error"}
        /\ req'[h].pos = req[h].pos
    BY <1>3, <1>7 DEF PatchOpen, At, Steps
  <2> QED
    BY <1>1, <1>2, <1>7, <2>1 DEF PatchOpen, FileOf, Prefix, Open
<1>8. CASE PatchTruncate(h)
  <2>1. pc = "truncate" /\ req'[h].pc = "patch" /\ req'[h].pos = req[h].pos
    BY <1>3, <1>8 DEF PatchTruncate, At, Steps
  <2>2. Prefix(u, req[h].off) /\ req[h].pos = req[h].off
    BY <1>2, <2>1 DEF FileOf
  <2>3. part'[u] = [len |-> req[h].off, good |-> 0..(req[h].off - 1)]
    BY <1>1, <1>8, <2>2, ExactFiles
       DEF PatchTruncate, Prefix, Exactly, PartsOK
  <2> QED
    BY <1>1, <1>2, <1>8, <2>1, <2>2, <2>3
       DEF PatchTruncate, FileOf, Open, Exactly
<1>9. CASE WriteByte(h)
  <2>1. /\ pc \in {"body", "patch"} /\ req'[h].pc = pc
        /\ req'[h].pos = req[h].pos + 1
    BY <1>9 DEF WriteByte, RequestsOK, Requests
  <2>2. Exactly(u, req[h].pos)
    BY <1>2, <2>1 DEF FileOf
  <2>3. part'[u] = [len |-> req[h].pos + 1, good |-> 0..req[h].pos]
    BY <1>1, <1>9, <2>2, ExactFiles DEF WriteByte, Exactly, PartsOK
  <2>4. part'[u] = [len |-> req'[h].pos, good |-> 0..(req'[h].pos - 1)]
    BY <1>1, <2>1, <2>3
  <2> QED
    BY <1>1, <1>2, <1>9, <2>1, <2>4 DEF WriteByte, FileOf, Open, Exactly
<1>10. CASE PatchEnds(h)
  <2>1. pc = "patch" /\ req'[h].pc = "update" /\ req'[h].pos = req[h].pos
    BY <1>3, <1>10 DEF PatchEnds, At, Steps
  <2> QED
    BY <1>1, <1>2, <1>10, <2>1 DEF PatchEnds, FileOf, Exactly, Open
<1>11. CASE CompleteCheck(h) \/ FindName(h) \/ CopyCreate(h)
  <2>1. /\ pc \in {"check", "name", "move"} /\ part' = part
        /\ req'[h].pc \in {"ok", "error", "name", "move", "copying"}
    BY <1>3, <1>11
       DEF CompleteCheck, FindName, CopyCreate, At, Steps, RequestsOK, Requests
  <2> QED
    BY <1>1, <1>2, <1>4, <2>1 DEF FileOf
<1>12. CASE \/ CreateFails(h) \/ PatchFails(h) \/ Rename(h) \/ CopyData(h)
            \/ CopyFails(h) \/ RemoveSource(h) \/ CompleteRecord(h)
            \/ DeleteFile(h) \/ DeleteRecord(h) \/ Abort(h)
  <2>1. \E s \in {"ok", "error", "unlink", "finish", "remove", "forget"} : Go(h, s)
    BY <1>12 DEF CreateFails, PatchFails, Rename, CopyData, CopyFails,
       RemoveSource, CompleteRecord, DeleteFile, DeleteRecord, Abort
  <2> QED
    BY <1>3, <1>4, <2>1 DEF Steps
<1> QED
  BY <1>5, <1>6, <1>7, <1>8, <1>9, <1>10, <1>11, <1>12 DEF Handle

\* Every step leaves every request's file as the request expects it.
LEMMA FileOfStep ==
  ASSUME Apart, Inv, [Next]_vars, NEW h \in Handlers
  PROVE  FileOf(h)'
<1> USE DEF Inv, TypeInv
<1>1. FileOf(h) /\ RequestsOK'
  BY RequestsStep DEF FileInv
<1>2. ASSUME req'[h] = req[h], ~Handle(h) PROVE FileOf(h)'
  <2>1. CASE req[h].up \in Uploads
    BY <1>1, <1>2, <2>1, OthersLeaveIt
       DEF FileOf, Exactly, Prefix, Whole, Open
  <2>2. CASE req[h].up \notin Uploads
    <3>1. req[h].pc = "idle"
      BY <2>2, BusyHasUpload
    <3> QED
      BY <1>2, <3>1 DEF FileOf
  <2> QED
    BY <2>1, <2>2
<1>3. CASE Handle(h)
  BY <1>3, OwnStep
<1>4. CASE ~Handle(h) /\ UNCHANGED req
  BY <1>2, <1>4
<1>5. ASSUME NEW k \in Handlers, NEW u \in Uploads,
             CreateFile(k, u) \/ PatchRead(k, u) \/ DeleteRead(k, u),
             ~Handle(h)
      PROVE  FileOf(h)'
  <2>1. /\ req'[k].up = u
        /\ \A x \in Handlers : x # k => req'[x] = req[x]
        /\ CreateFile(k, u) => /\ req'[k].pc = "body"
                               /\ req'[k].off = 0 /\ req'[k].pos = 0
        /\ PatchRead(k, u) => /\ req'[k].pc = "open"
                              /\ req'[k].off = rec[u].offset
                              /\ req'[k].pos = rec[u].offset
        /\ DeleteRead(k, u) => req'[k].pc = "remove"
    BY <1>5, ArriveShape
  <2>2. CASE h # k
    BY <1>2, <1>5, <2>1, <2>2
  <2>3. CASE h = k /\ CreateFile(k, u)
    <3>1. part'[u] = [len |-> 0, good |-> 0..(0 - 1)]
      BY <2>3 DEF CreateFile, Empty, PartsOK
    <3> QED
      BY <2>1, <2>3, <3>1 DEF FileOf, Exactly
  <2>4. CASE h = k /\ PatchRead(k, u)
    <3>1. RowBacked(u) /\ Open(u) /\ rec' = rec /\ part' = part
      BY <2>4 DEF FileInv, PatchRead
    <3> QED
      BY <2>1, <2>4, <3>1 DEF FileOf, RowBacked, Prefix
  <2>5. CASE h = k /\ DeleteRead(k, u)
    BY <2>1, <2>5 DEF FileOf
  <2> QED
    BY <1>5, <2>2, <2>3, <2>4, <2>5
<1>6. ASSUME NEW k \in Handlers, Handle(k), ~Handle(h) PROVE FileOf(h)'
  BY <1>2, <1>6, HandleShape
<1>7. ASSUME NEW k \in Handlers, Respond(k), ~Handle(h) PROVE FileOf(h)'
  <2>1. /\ req'[k].pc = "idle"
        /\ \A x \in Handlers : x # k => req'[x] = req[x]
    BY <1>7 DEF Respond, IdleRequest, RequestsOK
  <2> QED
    BY <1>2, <1>7, <2>1 DEF FileOf
<1>8. CASE Crash
  BY <1>8 DEF Crash, IdleRequest, FileOf
<1> QED
  BY <1>3, <1>4, <1>5, <1>6, <1>7, <1>8, RequestSteps

-----------------------------------------------------------------------------
(* Rows and names *)

\* Every step leaves an open row backed by its bytes.
LEMMA RowBackedStep ==
  ASSUME Apart, Inv, [Next]_vars, NEW u \in Uploads
  PROVE  RowBacked(u)'
<1> USE DEF Inv, TypeInv
<1> SUFFICES ASSUME rec'[u].st = "open"
             PROVE  /\ rec'[u].offset <= part'[u].len
                    /\ 0..(rec'[u].offset - 1) \subseteq part'[u].good
  BY DEF RowBacked, Open, Prefix
<1>1. \A h \in Handlers : FileOf(h)' /\ FileOf(h)
  BY FileOfStep DEF FileInv
<1>2. RowBacked(u)
  BY DEF FileInv
<1>3. RowsOK' /\ PartsOK' /\ RequestsOK'
  BY RowsStep, PartsStep, RequestsStep
\* Nobody works on u: nothing changes.
<1>4. ASSUME part'[u] = part[u], rec[u].st = "open",
             rec'[u].offset = rec[u].offset
      PROVE  /\ rec'[u].offset <= part'[u].len
             /\ 0..(rec'[u].offset - 1) \subseteq part'[u].good
  BY <1>2, <1>4 DEF RowBacked, Open, Prefix
<1>5. ASSUME NEW h \in Handlers, req[h].up = u, Handle(h)
      PROVE  /\ rec'[u].offset <= part'[u].len
             /\ 0..(rec'[u].offset - 1) \subseteq part'[u].good
  <2>1. /\ req[h].pos \in Nat /\ req[h].off \in Nat
        /\ req'[h].pos \in Nat /\ req'[h].up = u
    BY <1>3, <1>5, HandleShape DEF RequestsOK, Requests
  <2>2. CASE CreateRecord(h) \/ UpdateOffset(h)
    <3>1. Exactly(u, req[h].pos) /\ part' = part
      BY <1>1, <1>5, <2>2 DEF CreateRecord, UpdateOffset, At, FileOf
    <3>2. rec'[u].offset = req[h].pos
      BY <1>5, <2>2 DEF CreateRecord, UpdateOffset, Row, Open, RowsOK, Rows
    <3> QED
      BY <2>1, <3>1, <3>2 DEF Exactly
  <2>3. CASE PatchTruncate(h)
    <3>1. /\ Prefix(u, req[h].off)
          /\ rec[u].offset = req[h].off /\ rec' = rec
      BY <1>1, <1>5, <2>3 DEF PatchTruncate, At, FileOf, Open
    <3>2. part'[u] = [len |-> req[h].off, good |-> 0..(req[h].off - 1)]
      BY <1>5, <2>1, <2>3, <3>1, ExactFiles
         DEF PatchTruncate, Prefix, PartsOK
    <3> QED
      BY <2>1, <3>1, <3>2
  <2>4. CASE WriteByte(h)
    <3>1. /\ req[h].pc \in {"body", "patch"} /\ rec' = rec
      BY <2>4 DEF WriteByte
    <3>2. req[h].pc # "body"
      BY <1>5, <3>1 DEF EventInv, CreatorAlone, St
    <3>3. /\ Exactly(u, req[h].pos) /\ req[h].off <= req[h].pos
          /\ rec[u].offset = req[h].off
      BY <1>1, <1>5, <3>1, <3>2 DEF FileOf, Open
    <3>4. part'[u] = [len |-> req[h].pos + 1, good |-> 0..req[h].pos]
      BY <1>5, <2>1, <2>4, <3>3, ExactFiles DEF WriteByte, Exactly, PartsOK
    <3> QED
      BY <2>1, <3>1, <3>3, <3>4
  <2>5. CASE PatchFails(h)
    <3>1. /\ Exactly(u, req[h].pos) /\ req[h].off <= req[h].pos
          /\ rec[u].offset = req[h].off /\ rec' = rec
      BY <1>1, <1>5, <2>5 DEF PatchFails, At, FileOf, Open
    <3>2. Prefix(u, req[h].off)
      BY <2>1, <3>1, ExactlyIsPrefix
    <3>3. part'[u] = [len |-> req[h].off, good |-> 0..(req[h].off - 1)]
      BY <1>5, <2>1, <2>5, <3>2, ExactFiles DEF PatchFails, Prefix, PartsOK
    <3> QED
      BY <2>1, <3>1, <3>3
  <2>6. CASE DeleteRecord(h)
    BY <1>5, <2>6, DeletedShape DEF DeleteRecord
  <2>7. CASE CompleteRecord(h)
    BY <1>4, <1>5, <2>7 DEF CompleteRecord, Open, RowsOK, Rows
  <2>8. CASE UNCHANGED <<rec, part>>
    BY <1>4, <2>8
  <2> QED
    BY <1>5, <2>2, <2>3, <2>4, <2>5, <2>6, <2>7, <2>8
       DEF Handle, CreateBodyEnds, CreateFails, PatchOpen, PatchEnds,
           CompleteCheck, FindName, Rename, CopyCreate, CopyData, CopyFails,
           RemoveSource, DeleteFile, Abort
<1>6. CASE \A h \in Handlers : Handle(h) => req[h].up # u
  <2>1. ASSUME NEW k \in Handlers, NEW v \in Uploads, CreateFile(k, v)
        PROVE  /\ rec'[u].offset <= part'[u].len
               /\ 0..(rec'[u].offset - 1) \subseteq part'[u].good
    BY <1>4, <2>1 DEF CreateFile, PartsOK
  <2>2. \/ part'[u] = part[u]
        \/ \E k \in Handlers, v \in Uploads : CreateFile(k, v)
    <3>1. ASSUME NEW k \in Handlers,
                 PatchTruncate(k) \/ WriteByte(k) \/ PatchFails(k)
          PROVE  part'[u] = part[u]
      <4>1. Handle(k)
        BY <3>1 DEF Handle
      <4> QED
        BY <1>6, <3>1, <4>1 DEF PatchTruncate, WriteByte, PatchFails, PartsOK
    <3> QED
      BY <3>1, PartSteps
  <2>3. rec[u].st = "open" /\ rec'[u].offset = rec[u].offset
    <3>1. CASE UNCHANGED <<rec, published>>
      BY <3>1
    <3>2. ASSUME NEW k \in Handlers, \/ CreateRecord(k) \/ UpdateOffset(k)
                                     \/ CompleteRecord(k)
          PROVE  rec'[u] = rec[u]
      <4>1. Handle(k)
        BY <3>2 DEF Handle
      <4> QED
        BY <1>6, <3>2, <4>1 DEF CreateRecord, UpdateOffset, CompleteRecord,
                                RowsOK
    <3>3. ASSUME NEW v \in Uploads, rec' = Deleted(v) PROVE rec'[u] = rec[u]
      BY <3>3, DeletedShape
    <3>4. ASSUME NEW k \in Handlers, DeleteRecord(k) PROVE rec'[u] = rec[u]
      BY <3>3, <3>4, BusyHasUpload DEF DeleteRecord, At
    <3>5. CASE CleanupDelete
      BY <3>3, <3>5 DEF CleanupDelete, RestOK
    <3>6. ASSUME NEW v \in Uploads, Expire(v)
          PROVE  rec'[u].st = rec[u].st /\ rec'[u].offset = rec[u].offset
      BY <3>6 DEF Expire, RowsOK, Rows
    <3> QED
      BY <3>1, <3>2, <3>4, <3>5, <3>6, RowSteps
  <2> QED
    BY <1>4, <2>1, <2>2, <2>3
<1> QED
  BY <1>5, <1>6

\* What a step can do to the staging paths.
LEMMA StagedSteps ==
  ASSUME [Next]_vars
  PROVE  \/ staged' \subseteq staged
         \/ \E h \in Handlers, u \in Uploads : CreateFile(h, u)
BY DEF Next, Request, Arrive, Handle, Cleanup, Environment, vars,
       PatchRead, DeleteRead, CreateBodyEnds, CreateFails, CreateRecord,
       PatchOpen, PatchTruncate, WriteByte, PatchFails, PatchEnds,
       UpdateOffset, CompleteCheck, FindName, Rename, CopyCreate, CopyData,
       CopyFails, RemoveSource, CompleteRecord, DeleteFile, DeleteRecord,
       Abort, Respond, Crash, FolderGone, Expire, CleanupList, CleanupRemove,
       CleanupDelete, ScanStart, ScanPart, SweepOrphan, CleanupDone

\* Which handler steps begin to write to a file: only those that found it
\* under its staging path.
LEMMA BecomesWriter ==
  ASSUME Inv, [Next]_vars, NEW h \in Handlers, req'[h].up \in Uploads,
         req'[h].pc \in {"truncate", "patch"}
  PROVE  /\ req[h].up = req'[h].up
         /\ \/ req[h].pc \in {"truncate", "patch"}
            \/ req[h].pc = "open" /\ req[h].up \in staged
<1> USE DEF Inv, TypeInv
<1>1. RequestsOK /\ RequestsOK'
  BY RequestsStep
<1>2. CASE UNCHANGED req
  BY <1>2
<1>3. ASSUME NEW k \in Handlers, NEW u \in Uploads,
             CreateFile(k, u) \/ PatchRead(k, u) \/ DeleteRead(k, u)
      PROVE  req'[h] = req[h]
  BY <1>3, ArriveShape
<1>4. ASSUME NEW k \in Handlers, Handle(k)
      PROVE  /\ req[h].up = req'[h].up
             /\ \/ req[h].pc \in {"truncate", "patch"}
                \/ req[h].pc = "open" /\ req[h].up \in staged
  <2>1. CASE k # h
    BY <1>4, <2>1, HandleShape
  <2>2. CASE k = h
    <3>1. req[h].up = req'[h].up
      BY <1>4, <2>2, HandleShape
    <3>2. CASE PatchOpen(h)
      <4>1. CASE req[h].up \in staged
        BY <3>1, <3>2, <4>1 DEF PatchOpen, At
      <4>2. CASE req[h].up \notin staged
        BY <1>1, <3>2, <4>2, GoShape DEF PatchOpen, Steps
      <4> QED
        BY <4>1, <4>2
    <3>3. CASE PatchTruncate(h)
      BY <3>1, <3>3 DEF PatchTruncate, At
    <3>4. CASE WriteByte(h)
      BY <1>1, <3>1, <3>4 DEF WriteByte, RequestsOK, Requests
    <3>5. CASE FindName(h)
      BY <1>1, <3>5 DEF FindName, Go, RequestsOK, Requests
    <3>6. ASSUME NEW s \in Steps \ {"truncate", "patch"}, Go(h, s)
          PROVE  FALSE
      BY <1>1, <3>6, GoShape
    <3>7. \/ PatchOpen(h) \/ PatchTruncate(h) \/ WriteByte(h) \/ FindName(h)
          \/ \E s \in Steps \ {"truncate", "patch"} : Go(h, s)
      BY <1>4, <2>2 DEF Handle, Steps, CreateBodyEnds, CreateFails,
         CreateRecord, PatchFails, PatchEnds, UpdateOffset, CompleteCheck,
         Rename, CopyCreate, CopyData, CopyFails, RemoveSource,
         CompleteRecord, DeleteFile, DeleteRecord, Abort
    <3> QED
      BY <3>2, <3>3, <3>4, <3>5, <3>6, <3>7
  <2> QED
    BY <2>1, <2>2
<1>5. ASSUME NEW k \in Handlers, Respond(k) PROVE req'[h] = req[h]
  BY <1>1, <1>5 DEF Respond, IdleRequest, RequestsOK
<1>6. CASE Crash
  BY <1>6, UploadsAssumption DEF Crash, IdleRequest
<1> QED
  BY <1>2, <1>3, <1>4, <1>5, <1>6, RequestSteps

\* A renamed file is left alone by every step.
LEMMA NameStays ==
  ASSUME Inv, [Next]_vars, NEW n \in Names, sameFS,
         owner[n] \in Uploads, owner'[n] = owner[n]
  PROVE  NameWhole(n)'
<1> USE DEF Inv, TypeInv
<1> DEFINE u == owner[n]
<1>1. /\ Whole(part[u], u) /\ St(u) # "none" /\ u \notin staged
      /\ \A h \in Handlers :
           req[h].up = u => req[h].pc \notin {"truncate", "patch"}
  BY DEF FileInv, NameWhole
<1>2. \A h \in Handlers :
        req[h].up = u => req[h].pc \notin {"body", "insert"}
  BY <1>1 DEF EventInv, CreatorAlone
<1>3. part'[u] = part[u]
  <2>1. ASSUME NEW k \in Handlers, NEW v \in Uploads, CreateFile(k, v)
        PROVE  part'[u] = part[u]
    BY <1>1, <2>1 DEF CreateFile, PartsOK, St
  <2>2. ASSUME NEW k \in Handlers,
               PatchTruncate(k) \/ WriteByte(k) \/ PatchFails(k)
        PROVE  part'[u] = part[u]
    BY <1>1, <1>2, <2>2 DEF PatchTruncate, WriteByte, PatchFails, At, PartsOK
  <2> QED
    BY <2>1, <2>2, PartSteps
<1>4. rec'[u].st # "none"
  BY <1>1, KnownStays
<1>5. u \notin staged'
  <2>1. ASSUME NEW k \in Handlers, NEW v \in Uploads, CreateFile(k, v)
        PROVE  u \notin staged'
    BY <1>1, <2>1 DEF CreateFile, St
  <2> QED
    BY <1>1, <2>1, StagedSteps
<1>6. \A h \in Handlers :
        req'[h].up = u => req'[h].pc \notin {"truncate", "patch"}
  BY <1>1, BecomesWriter
<1> QED
  BY <1>1, <1>3, <1>4, <1>5, <1>6 DEF NameWhole, St

\* Every step keeps the renamed files, and Rename adds a whole one.
LEMMA NameWholeStep ==
  ASSUME Apart, Inv, [Next]_vars, NEW n \in Names
  PROVE  NameWhole(n)'
<1> USE DEF Inv, TypeInv
<1>1. sameFS' = sameFS /\ FolderOK'
  BY FolderStep DEF Next, Always, vars
<1> SUFFICES ASSUME sameFS, owner'[n] \in Uploads PROVE NameWhole(n)'
  BY <1>1 DEF NameWhole
<1>2. CASE owner'[n] = owner[n]
  BY <1>2, NameStays
<1>3. CASE owner'[n] # owner[n]
  <2>1. PICK h \in Handlers : Rename(h)
    BY <1>3, UploadsAssumption, FolderSteps
       DEF CopyCreate, CopyData, CopyFails, TargetRemoved, FolderOK
  <2> DEFINE u == req[h].up
  <2>2. /\ req[h].pc = "move" /\ u \in Uploads /\ req[h].name \in Names
    BY <2>1, BusyHasUpload DEF Rename, At, RequestsOK, Requests
  <2>3. /\ owner'[n] = u /\ staged' = staged \ {u} /\ Go(h, "finish")
        /\ part' = part /\ rec' = rec
    BY <1>3, <2>1, <2>2 DEF Rename, FolderOK
  <2>4. Whole(part[u], u) /\ St(u) # "none"
    BY <2>2 DEF FileInv, FileOf, EventInv, HasRow
  <2>5. \A x \in Handlers : x # h => req'[x].up # u
    <3>1. \A x \in Handlers : x # h => req'[x] = req[x]
      BY <2>3, GoShape DEF Steps
    <3> QED
      BY <2>2, <3>1, UploadsAssumption DEF FileInv, Alone
  <2>6. req'[h].pc = "finish"
    BY <2>3, GoShape DEF Steps
  <2> QED
    BY <2>3, <2>4, <2>5, <2>6 DEF NameWhole, St
<1> QED
  BY <1>2, <1>3

-----------------------------------------------------------------------------
(* The theorems *)

\* Every step keeps the invariant of the files.
LEMMA InvStep == Apart /\ Inv /\ [Next]_vars => Inv'
<1> SUFFICES ASSUME Apart, Inv, [Next]_vars PROVE Inv'
  OBVIOUS
<1>1. TypeInv' /\ EventInv'
  BY TypeStep, EventStep DEF Inv
<1>2. FileInv'
  BY AloneStep, FileOfStep, RowBackedStep, NameWholeStep DEF FileInv
<1> QED
  BY <1>1, <1>2 DEF Inv

\* The invariant of the files holds for good.
LEMMA FileInvariant ==
  ASSUME Apart
  PROVE  Spec => []Inv
<1>1. Init => Inv
  BY TypeInit, EventInit, FileInit DEF Inv
<1>2. Inv /\ [Next]_vars => Inv'
  BY InvStep
<1> QED
  BY <1>1, <1>2, PTL DEF Spec

\* With one request per upload at a time, an open upload's staging file holds
\* every byte below the acknowledged offset, whatever fails or crashes.
THEOREM BytesStaged ==
  ASSUME Apart
  PROVE  Spec => []AcknowledgedBytesStaged
<1>1. Inv => AcknowledgedBytesStaged
  BY DEF Inv, FileInv, RowBacked, Prefix, AcknowledgedBytesStaged
<1> QED
  BY <1>1, FileInvariant, PTL

\* With one request per upload at a time, a file that rename(2) put into the
\* target folder is the whole source file, at once and for good.
THEOREM NamesWhole ==
  ASSUME Apart
  PROVE  Spec => []NamedIsWhole
<1>1. Inv => NamedIsWhole
  BY DEF Inv, FileInv, NameWhole, NamedIsWhole, Body
<1> QED
  BY <1>1, FileInvariant, PTL

\* With one request per upload at a time, the acknowledged offset of an open
\* upload never moves backwards.
THEOREM OffsetsGrow ==
  ASSUME Apart
  PROVE  Spec => OffsetMonotone
<1>1. ASSUME Inv, [Next]_vars, NEW u \in Uploads, Open(u), Open(u)'
      PROVE  rec[u].offset <= rec'[u].offset
  <2> USE DEF Inv, TypeInv
  <2>1. rec[u].offset \in Nat /\ rec'[u].offset \in Nat
    BY <1>1, RowsStep DEF RowsOK, Rows
  <2>2. CASE UNCHANGED <<rec, published>>
    BY <2>1, <2>2
  <2>3. ASSUME NEW h \in Handlers, CreateRecord(h)
        PROVE  rec'[u] = rec[u]
    BY <1>1, <2>3
       DEF CreateRecord, At, EventInv, CreatorAlone, St, Open, RowsOK
  <2>4. ASSUME NEW h \in Handlers, UpdateOffset(h)
        PROVE  rec[u].offset <= rec'[u].offset
    <3>1. CASE req[h].up # u
      BY <1>1, <2>1, <2>4, <3>1 DEF UpdateOffset, RowsOK
    <3>2. CASE req[h].up = u
      <4>1. rec[u].offset = req[h].off /\ req[h].off <= req[h].pos
        BY <1>1, <2>4, <3>2 DEF UpdateOffset, At, FileInv, FileOf
      <4>2. rec'[u].offset = req[h].pos
        BY <1>1, <2>4, <3>2 DEF UpdateOffset, RowsOK, Rows
      <4> QED
        BY <4>1, <4>2
    <3> QED
      BY <3>1, <3>2
  <2>5. ASSUME NEW h \in Handlers, CompleteRecord(h)
        PROVE  rec'[u] = rec[u]
    <3>1. CASE req[h].up = u
      BY <1>1, <2>5, <3>1 DEF CompleteRecord, Open, RowsOK, Rows
    <3>2. CASE req[h].up # u
      BY <1>1, <2>5, <3>2 DEF CompleteRecord, RowsOK
    <3> QED
      BY <3>1, <3>2
  <2>6. ASSUME NEW v \in Uploads, rec' = Deleted(v) PROVE rec'[u] = rec[u]
    BY <1>1, <2>6, DeletedShape DEF Open
  <2>7. ASSUME NEW h \in Handlers, DeleteRecord(h) PROVE rec'[u] = rec[u]
    BY <1>1, <2>6, <2>7, BusyHasUpload DEF DeleteRecord, At
  <2>8. CASE CleanupDelete
    BY <1>1, <2>1, <2>6, <2>8 DEF CleanupDelete, RestOK
  <2>9. ASSUME NEW v \in Uploads, Expire(v)
        PROVE  rec'[u].offset = rec[u].offset
    BY <1>1, <2>9 DEF Expire, RowsOK, Rows
  <2> QED
    BY <1>1, <2>1, <2>2, <2>3, <2>4, <2>5, <2>7, <2>8, <2>9, RowSteps
<1>2. Inv /\ [Next]_vars =>
        [\A u \in Uploads :
           Open(u) /\ Open(u)' => rec[u].offset <= rec'[u].offset]_vars
  BY <1>1
<1> QED
  BY <1>2, FileInvariant, PTL DEF Spec, OffsetMonotone
-----------------------------------------------------------------------------
(* Completed uploads *)

\* A request that is not over is about an upload that is not completed, and
\* what a copy has made is the source file, as long as its name is still its own.
Unfinished(h) ==
  req[h].pc \notin {"idle", "ok", "error"} => St(req[h].up) # "done"

CopyRight(h) ==
  LET u == req[h].up
      n == req[h].name IN
  /\ req[h].pc = "copying" /\ ~sameFS /\ owner[n] = u => by[n] = h
  /\ req[h].pc \in {"unlink", "finish"} /\ ~sameFS /\ owner[n] = u
       => Whole(copy[n], u)

DoneWhole(u) ==
  LET n == rec[u].final IN
  St(u) = "done" /\ ~sameFS /\ owner[n] = u => Whole(copy[n], u)

CopyInv ==
  /\ \A h \in Handlers : Unfinished(h) /\ CopyRight(h)
  /\ \A u \in Uploads : DoneWhole(u)

\* At the start there are no requests and no rows.
LEMMA CopyInit == Init => CopyInv
BY DEF Init, CopyInv, Unfinished, CopyRight, DoneWhole, IdleRequest, St, Row

\* An upload becomes completed by the last step of a request only.
LEMMA BecomesDone ==
  ASSUME TypeInv, [Next]_vars, NEW u \in Uploads, rec'[u].st = "done"
  PROVE  \/ rec[u].st = "done" /\ rec'[u].final = rec[u].final
         \/ \E h \in Handlers : /\ CompleteRecord(h) /\ req[h].up = u
                                /\ rec'[u].final = req[h].name
<1> USE DEF TypeInv
<1>1. CASE UNCHANGED <<rec, published>>
  BY <1>1
<1>2. ASSUME NEW h \in Handlers, CreateRecord(h) \/ UpdateOffset(h)
      PROVE  rec[u].st = "done" /\ rec'[u].final = rec[u].final
  BY <1>2 DEF CreateRecord, UpdateOffset, Row, RowsOK, Rows
<1>3. ASSUME NEW h \in Handlers, CompleteRecord(h)
      PROVE  \/ rec[u].st = "done" /\ rec'[u].final = rec[u].final
             \/ req[h].up = u /\ rec'[u].final = req[h].name
  BY <1>3 DEF CompleteRecord, RowsOK, Rows
<1>4. ASSUME NEW v \in Uploads, rec' = Deleted(v)
      PROVE  rec[u].st = "done" /\ rec'[u].final = rec[u].final
  BY <1>4, DeletedShape
<1>5. ASSUME NEW h \in Handlers, DeleteRecord(h)
      PROVE  rec[u].st = "done" /\ rec'[u].final = rec[u].final
  BY <1>4, <1>5, BusyHasUpload DEF DeleteRecord, At
<1>6. CASE CleanupDelete
  BY <1>4, <1>6 DEF CleanupDelete, RestOK
<1>7. ASSUME NEW v \in Uploads, Expire(v)
      PROVE  rec[u].st = "done" /\ rec'[u].final = rec[u].final
  BY <1>7 DEF Expire, RowsOK, Rows
<1> QED
  BY <1>1, <1>2, <1>3, <1>5, <1>6, <1>7, RowSteps

\* The last step of a request ends it.
LEMMA CompletingEnds ==
  ASSUME TypeInv, NEW h \in Handlers, CompleteRecord(h)
  PROVE  /\ req'[h].pc \in {"ok", "error"} /\ req'[h].up = req[h].up
         /\ \A x \in Handlers : x # h => req'[x] = req[x]
BY GoShape DEF CompleteRecord, TypeInv, Steps

\* A request at work is about an upload that is not completed.
LEMMA UnfinishedStep ==
  ASSUME Apart, Inv, CopyInv, [Next]_vars, NEW h \in Handlers
  PROVE  Unfinished(h)'
<1> USE DEF Inv, TypeInv
<1>0. RequestsOK' /\ Alone(h)'
  BY RequestsStep, AloneStep
<1> SUFFICES ASSUME req'[h].pc \notin {"idle", "ok", "error"},
                    rec'[req'[h].up].st = "done"
             PROVE  FALSE
  BY DEF Unfinished, St
<1> DEFINE u == req'[h].up
<1>1. u \in Uploads
  BY <1>0 DEF RequestsOK, Requests, Bounded
<1>2. CASE rec[u].st = "done"
  <2>1. CASE req'[h] = req[h]
    BY <1>2, <2>1 DEF CopyInv, Unfinished, St
  <2>2. ASSUME NEW k \in Handlers, NEW v \in Uploads,
               CreateFile(k, v) \/ PatchRead(k, v) \/ DeleteRead(k, v)
        PROVE  FALSE
    <3>1. CASE k # h
      BY <2>1, <2>2, <3>1, ArriveShape
    <3>2. CASE k = h
      <4>1. u = v
        BY <2>2, <3>2, ArriveShape
      <4> QED
        BY <1>2, <2>2, <4>1 DEF CreateFile, PatchRead, DeleteRead, Open
    <3> QED
      BY <3>1, <3>2
  <2>3. ASSUME NEW k \in Handlers, Handle(k) PROVE FALSE
    <3>1. CASE k # h
      BY <2>1, <2>3, <3>1, HandleShape
    <3>2. CASE k = h
      <4>1. req[h].up = u /\ req[h].pc \notin {"idle", "ok", "error"}
        <5>1. req[h].up = u /\ req[h].up # None
          BY <2>3, <3>2, HandleShape
        <5>2. req[h].pc \notin {"ok", "error"}
          BY <2>3, <3>2 DEF Handle, At, CreateBodyEnds, CreateFails,
             CreateRecord, PatchOpen, PatchTruncate, WriteByte, PatchFails,
             PatchEnds, UpdateOffset, CompleteCheck, FindName, Rename,
             CopyCreate, CopyData, CopyFails, RemoveSource, CompleteRecord,
             DeleteFile, DeleteRecord, Abort
        <5> QED
          BY <5>1, <5>2 DEF RequestsOK, Bounded
      <4> QED
        BY <1>2, <4>1 DEF CopyInv, Unfinished, St
    <3> QED
      BY <3>1, <3>2
  <2>4. ASSUME NEW k \in Handlers, Respond(k) PROVE FALSE
    BY <2>1, <2>4 DEF Respond, IdleRequest, RequestsOK
  <2>5. CASE Crash
    BY <2>5 DEF Crash, IdleRequest
  <2> QED
    BY <2>1, <2>2, <2>3, <2>4, <2>5, RequestSteps
<1>3. ASSUME NEW k \in Handlers, CompleteRecord(k), req[k].up = u
      PROVE  FALSE
  <2>1. k # h
    BY <1>3, CompletingEnds
  <2>2. req'[k].up = u
    BY <1>3, CompletingEnds
  <2> QED
    BY <1>0, <1>1, <2>1, <2>2, UploadsAssumption DEF Alone
<1> QED
  BY <1>1, <1>2, <1>3, BecomesDone

\* Where a request is while it copies, and how it gets there.
LEMMA EntersCopy ==
  ASSUME TypeInv, [Next]_vars, NEW h \in Handlers,
         req'[h].pc \in {"copying", "unlink", "finish"}
  PROVE  /\ req'[h].up = req[h].up /\ req'[h].up \in Uploads
         /\ req'[h].name = req[h].name /\ req[h].name \in Names
         /\ \/ req'[h] = req[h]
            \/ CopyCreate(h) /\ req[h].pc = "move" /\ req'[h].pc = "copying"
            \/ CopyData(h) /\ req[h].pc = "copying" /\ req'[h].pc = "unlink"
            \/ RemoveSource(h) /\ req[h].pc = "unlink" /\ req'[h].pc = "finish"
            \/ Rename(h) /\ req[h].pc = "move" /\ req'[h].pc = "finish"
<1> USE DEF TypeInv
<1>0. RequestsOK /\ RequestsOK'
  BY RequestsStep
<1>1. req'[h].up \in Uploads /\ req[h].name \in Names /\ req'[h].name \in Names
  BY <1>0 DEF RequestsOK, Requests, Bounded
<1>2. CASE req'[h] = req[h]
  BY <1>1, <1>2
<1>3. ASSUME NEW k \in Handlers, NEW v \in Uploads,
             CreateFile(k, v) \/ PatchRead(k, v) \/ DeleteRead(k, v)
      PROVE  req'[h] = req[h]
  BY <1>3, ArriveShape
<1>4. ASSUME NEW k \in Handlers, Handle(k), k # h PROVE req'[h] = req[h]
  BY <1>4, HandleShape
<1>5. CASE Handle(h)
  <2>0. ASSUME NEW s \in Steps, Go(h, s)
        PROVE  req'[h].pc = s /\ req'[h].up = req[h].up /\ req'[h].name = req[h].name
    BY <1>0, <2>0 DEF Go, RequestsOK, Requests
  <2>1. CASE CopyCreate(h) \/ CopyData(h) \/ RemoveSource(h) \/ Rename(h)
    BY <1>1, <2>0, <2>1 DEF CopyCreate, CopyData, RemoveSource, Rename, At, Steps
  <2>2. ASSUME NEW s \in Steps \ {"copying", "unlink", "finish"}, Go(h, s)
        PROVE  FALSE
    BY <2>0, <2>2
  <2>3. ASSUME WriteByte(h) \/ FindName(h) PROVE FALSE
    BY <1>0, <2>2, <2>3 DEF WriteByte, FindName, RequestsOK, Requests, Steps
  <2> QED
    BY <1>5, <2>1, <2>2, <2>3
       DEF Handle, Steps, CreateBodyEnds, CreateFails, CreateRecord, PatchOpen,
           PatchTruncate, PatchFails, PatchEnds, UpdateOffset, CompleteCheck,
           CopyFails, CompleteRecord, DeleteFile, DeleteRecord, Abort
<1>6. ASSUME NEW k \in Handlers, Respond(k) PROVE req'[h] = req[h]
  BY <1>0, <1>6 DEF Respond, IdleRequest, RequestsOK, Requests
<1>7. CASE Crash
  BY <1>7 DEF Crash, IdleRequest
<1> QED
  BY <1>2, <1>3, <1>4, <1>5, <1>6, <1>7, RequestSteps

\* A name that shows a copy: its file was made by a request of its upload, and
\* only that request writes into it.
LEMMA NameSteps ==
  ASSUME TypeInv, [Next]_vars, ~sameFS,
         NEW n \in Names, NEW u \in Uploads, owner'[n] = u
  PROVE  \/ owner[n] = u /\ by'[n] = by[n] /\ copy'[n] = copy[n]
         \/ \E k \in Handlers : /\ CopyCreate(k) /\ req[k].name = n
                                /\ req[k].up = u /\ by'[n] = k
         \/ \E k \in Handlers : /\ CopyData(k) /\ req[k].name = n
                                /\ req[k].up = u /\ owner[n] = u
                                /\ by[n] = k /\ by'[n] = k
                                /\ copy'[n] = part[u]
<1> USE DEF TypeInv, FolderOK
<1>1. CASE UNCHANGED <<owner, by, copy>>
  BY <1>1
<1>2. ASSUME NEW k \in Handlers, Rename(k) PROVE FALSE
  BY <1>2 DEF Rename
<1>3. ASSUME NEW k \in Handlers, CopyCreate(k)
      PROVE  \/ owner[n] = u /\ by'[n] = by[n] /\ copy'[n] = copy[n]
             \/ req[k].name = n /\ req[k].up = u /\ by'[n] = k
  <2>1. req[k].name \in Names /\ req[k].up \in Uploads
    BY <1>3, BusyHasUpload DEF CopyCreate, At, RequestsOK, Requests
  <2>2. CASE owner' = TargetRemoved(k) /\ UNCHANGED <<by, copy>>
    BY <2>1, <2>2, UploadsAssumption DEF TargetRemoved
  <2>3. CASE /\ owner' = [owner EXCEPT ![req[k].name] = req[k].up]
             /\ by' = [by EXCEPT ![req[k].name] = k]
             /\ copy' = [copy EXCEPT ![req[k].name] = Empty]
    BY <2>1, <2>3
  <2> QED
    BY <1>3, <2>2, <2>3 DEF CopyCreate
<1>4. ASSUME NEW k \in Handlers, CopyData(k)
      PROVE  \/ owner[n] = u /\ by'[n] = by[n] /\ copy'[n] = copy[n]
             \/ /\ req[k].name = n /\ req[k].up = u /\ owner[n] = u
                /\ by[n] = k /\ by'[n] = k /\ copy'[n] = part[u]
  BY <1>4 DEF CopyData
<1>5. ASSUME NEW k \in Handlers, CopyFails(k)
      PROVE  owner[n] = u /\ by'[n] = by[n] /\ copy'[n] = copy[n]
  BY <1>5, UploadsAssumption DEF CopyFails, TargetRemoved
<1> QED
  BY <1>1, <1>2, <1>3, <1>4, <1>5, FolderSteps

\* The target of a copy stays the file its request has made.
LEMMA CopyRightStep ==
  ASSUME Apart, Inv, CopyInv, [Next]_vars, NEW h \in Handlers
  PROVE  CopyRight(h)'
<1> USE DEF Inv
<1>0. sameFS' = sameFS
  BY DEF Next, Always, vars
<1> SUFFICES ASSUME ~sameFS, req'[h].pc \in {"copying", "unlink", "finish"},
                    owner'[req'[h].name] = req'[h].up
             PROVE  /\ req'[h].pc = "copying" => by'[req'[h].name] = h
                    /\ req'[h].pc \in {"unlink", "finish"}
                         => Whole(copy'[req'[h].name], req'[h].up)
  BY <1>0 DEF CopyRight
<1> DEFINE u == req[h].up
           n == req[h].name
<1>1. /\ req'[h].up = u /\ u \in Uploads /\ req'[h].name = n /\ n \in Names
      /\ \/ req'[h] = req[h]
         \/ CopyCreate(h) /\ req[h].pc = "move" /\ req'[h].pc = "copying"
         \/ CopyData(h) /\ req[h].pc = "copying" /\ req'[h].pc = "unlink"
         \/ RemoveSource(h) /\ req[h].pc = "unlink" /\ req'[h].pc = "finish"
         \/ Rename(h) /\ req[h].pc = "move" /\ req'[h].pc = "finish"
  BY EntersCopy
<1>2. ~Rename(h)
  BY DEF Rename
<1>3. \A k \in Handlers : req[k].up = u => k = h
  BY <1>1, UploadsAssumption DEF FileInv, Alone
<1>4. /\ CopyCreate(h) => req[h].pc = "move" /\ req'[h].pc \in {"copying", "error"}
      /\ CopyData(h) => req[h].pc = "copying" /\ req'[h].pc \in {"unlink", "error"}
  BY GoShape DEF CopyCreate, CopyData, At, Steps, TypeInv
<1>5. owner'[n] = u
  BY <1>1
<1>6. CopyRight(h) /\ FileOf(h)
  BY DEF CopyInv, FileInv
<1>7. CASE CopyCreate(h)
  <2>1. req'[h].pc = "copying"
    BY <1>4, <1>7
  <2>2. ~Go(h, "error")
    BY <2>1, GoShape DEF TypeInv, Steps
  <2>3. by' = [by EXCEPT ![n] = h]
    BY <1>7, <2>2 DEF CopyCreate
  <2>4. by'[n] = h
    BY <1>1, <2>3 DEF TypeInv, FolderOK
  <2> QED
    BY <1>1, <2>1, <2>4
<1>8. CASE CopyData(h)
  <2>1. req[h].pc = "copying" /\ req'[h].pc = "unlink"
    BY <1>4, <1>8
  <2>2. owner[n] = u /\ owner' = owner
    BY <1>5, <1>8 DEF CopyData
  <2>3. by[n] = h
    BY <1>6, <2>1, <2>2 DEF CopyRight
  <2>4. copy'[n] = part[u]
    BY <1>1, <1>8, <2>2, <2>3 DEF CopyData, TypeInv, FolderOK
  <2>5. Whole(part[u], u)
    BY <1>6, <2>1 DEF FileOf
  <2> QED
    BY <1>1, <2>1, <2>4, <2>5
<1>9. CASE ~CopyCreate(h) /\ ~CopyData(h)
  <2>1. owner[n] = u /\ by'[n] = by[n] /\ copy'[n] = copy[n]
    BY <1>1, <1>3, <1>5, <1>9, NameSteps
  <2>2. \/ req'[h] = req[h]
        \/ req[h].pc = "unlink" /\ req'[h].pc = "finish"
    BY <1>1, <1>2, <1>9
  <2> QED
    BY <1>1, <1>6, <2>1, <2>2 DEF CopyRight
<1> QED
  BY <1>7, <1>8, <1>9

\* The file of a completed upload stays whole.
LEMMA DoneWholeStep ==
  ASSUME Apart, Inv, CopyInv, [Next]_vars, NEW u \in Uploads
  PROVE  DoneWhole(u)'
<1> USE DEF Inv
<1>0. sameFS' = sameFS
  BY DEF Next, Always, vars
<1> DEFINE n == rec'[u].final
<1> SUFFICES ASSUME ~sameFS, rec'[u].st = "done", owner'[n] = u
             PROVE  Whole(copy'[n], u)
  BY <1>0 DEF DoneWhole, St
<1>1. n \in Names
  BY RowsStep DEF RowsOK, Rows
<1>2. \A k \in Handlers :
        CopyCreate(k) \/ CopyData(k) => req[k].up # u \/ rec[u].st # "done"
  BY DEF CopyCreate, CopyData, At, CopyInv, Unfinished, St
<1>3. CASE rec[u].st = "done" /\ rec'[u].final = rec[u].final
  <2>1. owner[n] = u /\ copy'[n] = copy[n]
    BY <1>1, <1>2, <1>3, NameSteps
  <2> QED
    BY <1>3, <2>1 DEF CopyInv, DoneWhole, St
<1>4. ASSUME NEW h \in Handlers, CompleteRecord(h), req[h].up = u,
             rec'[u].final = req[h].name
      PROVE  Whole(copy'[n], u)
  <2>1. UNCHANGED <<owner, copy>> /\ req[h].pc = "finish"
    BY <1>4 DEF CompleteRecord, At
  <2> QED
    BY <1>4, <2>1 DEF CopyInv, CopyRight
<1> QED
  BY <1>3, <1>4, BecomesDone DEF TypeInv

\* The invariant of copies holds for good.
LEMMA CopyInvariant ==
  ASSUME Apart
  PROVE  Spec => [](Inv /\ CopyInv)
<1>1. Inv /\ CopyInv /\ [Next]_vars => CopyInv'
  BY UnfinishedStep, CopyRightStep, DoneWholeStep DEF CopyInv
<1> QED
  BY <1>1, CopyInit, FileInvariant, PTL DEF Spec

\* With one request per upload at a time, the file of a completed upload is the
\* whole source file, also when finalisation copies it over a file system
\* boundary and other uploads compete for its name.
THEOREM CompletedWhole ==
  ASSUME Apart
  PROVE  Spec => []CompletedIsWhole
<1>1. Inv /\ CopyInv => CompletedIsWhole
  <2> SUFFICES ASSUME Inv, CopyInv, NEW u \in Uploads,
                      rec[u].st = "done", owner[rec[u].final] = u
               PROVE  Whole(Body(rec[u].final), u)
    BY DEF CompletedIsWhole
  <2>1. rec[u].final \in Names
    BY DEF Inv, TypeInv, RowsOK, Rows
  <2>2. CASE sameFS
    BY <2>1, <2>2 DEF Body, Inv, FileInv, NameWhole
  <2>3. CASE ~sameFS
    BY <2>3 DEF Body, CopyInv, DoneWhole, St
  <2> QED
    BY <2>2, <2>3
<1> QED
  BY <1>1, CopyInvariant, PTL

-----------------------------------------------------------------------------
(* Final names *)

\* A request has a name to itself from its pick to the row, as long as no other
\* request picks it too: the name stays free until its file is there, then shows
\* its upload, and no completed upload has it.
Picked(h) ==
  LET n == req[h].name IN
  n \notin contended =>
    /\ req[h].pc = "move" => owner[n] = None
    /\ req[h].pc \in {"copying", "unlink", "finish"} => owner[n] = req[h].up
    /\ Holds(h, n) => \A u \in Uploads : St(u) = "done" => rec[u].final # n

ThereInv ==
  /\ \A h \in Handlers : Picked(h)
  /\ UncontendedIsThere

\* At the start there are no requests and no rows.
LEMMA ThereInit == Init => ThereInv
BY DEF Init, ThereInv, Picked, Holds, UncontendedIsThere, IdleRequest, Row

\* Only a request that moves or copies changes the folder, at the name it has,
\* and it goes on or gives up with that step.
LEMMA OwnerSteps ==
  ASSUME TypeInv, [Next]_vars
  PROVE  \/ UNCHANGED owner
         \/ \E h \in Handlers :
              /\ req[h].pc \in {"move", "copying"}
              /\ req[h].name \in Names /\ req[h].up \in Uploads
              /\ \A m \in Names : m # req[h].name => owner'[m] = owner[m]
              /\ \/ req'[h].pc = "error"
                 \/ CopyCreate(h) /\ owner'[req[h].name] = req[h].up
                 \/ Rename(h) /\ owner'[req[h].name] = req[h].up
<1> USE DEF TypeInv
<1>0. ASSUME NEW h \in Handlers, req[h].pc # "idle"
      PROVE  req[h].name \in Names /\ req[h].up \in Uploads
  BY <1>0, BusyHasUpload DEF RequestsOK, Requests
<1>1. ASSUME NEW h \in Handlers, owner' = TargetRemoved(h), req[h].name \in Names
      PROVE  \A m \in Names : m # req[h].name => owner'[m] = owner[m]
  BY <1>1 DEF TargetRemoved, FolderOK
<1>2. ASSUME NEW h \in Handlers, owner' = [owner EXCEPT ![req[h].name] = req[h].up],
             req[h].name \in Names
      PROVE  /\ owner'[req[h].name] = req[h].up
             /\ \A m \in Names : m # req[h].name => owner'[m] = owner[m]
  BY <1>2 DEF FolderOK
<1>3. ASSUME NEW h \in Handlers, Go(h, "error")
      PROVE  req'[h].pc = "error"
  BY <1>3, GoShape DEF Steps
<1>4. ASSUME NEW h \in Handlers, Rename(h)
      PROVE  \/ UNCHANGED owner
             \/ /\ req[h].pc = "move" /\ req[h].name \in Names
                /\ req[h].up \in Uploads
                /\ owner'[req[h].name] = req[h].up
                /\ \A m \in Names : m # req[h].name => owner'[m] = owner[m]
  BY <1>0, <1>2, <1>4 DEF Rename, At
<1>5. ASSUME NEW h \in Handlers, CopyCreate(h)
      PROVE  /\ req[h].pc = "move" /\ req[h].name \in Names
             /\ req[h].up \in Uploads
             /\ \A m \in Names : m # req[h].name => owner'[m] = owner[m]
             /\ owner'[req[h].name] = req[h].up \/ req'[h].pc = "error"
  <2>1. /\ req[h].pc = "move" /\ req[h].name \in Names /\ req[h].up \in Uploads
    BY <1>0, <1>5 DEF CopyCreate, At
  <2>2. CASE owner' = TargetRemoved(h) /\ Go(h, "error")
    BY <1>1, <1>3, <2>1, <2>2
  <2>3. CASE owner' = [owner EXCEPT ![req[h].name] = req[h].up]
    BY <1>2, <2>1, <2>3
  <2> QED
    BY <1>5, <2>1, <2>2, <2>3 DEF CopyCreate
<1>6. ASSUME NEW h \in Handlers, CopyFails(h)
      PROVE  /\ req[h].pc = "copying" /\ req[h].name \in Names
             /\ req[h].up \in Uploads
             /\ \A m \in Names : m # req[h].name => owner'[m] = owner[m]
             /\ req'[h].pc = "error"
  BY <1>0, <1>1, <1>3, <1>6 DEF CopyFails, At
<1>7. ASSUME NEW h \in Handlers, CopyData(h) PROVE UNCHANGED owner
  BY <1>7 DEF CopyData
<1> QED
  BY <1>4, <1>5, <1>6, <1>7, FolderSteps

\* A request gets to the move by finding a free name.
LEMMA EntersMove ==
  ASSUME TypeInv, [Next]_vars, NEW h \in Handlers, req'[h].pc = "move"
  PROVE  \/ req'[h] = req[h]
         \/ /\ FindName(h) /\ UNCHANGED owner
            /\ req'[h].name \in Names /\ owner[req'[h].name] = None
<1> USE DEF TypeInv
<1>1. ASSUME NEW k \in Handlers, NEW v \in Uploads,
             CreateFile(k, v) \/ PatchRead(k, v) \/ DeleteRead(k, v)
      PROVE  req'[h] = req[h]
  BY <1>1, ArriveShape
<1>2. ASSUME NEW k \in Handlers, Handle(k), k # h PROVE req'[h] = req[h]
  BY <1>2, HandleShape
<1>3. CASE Handle(h)
  <2>1. ASSUME NEW s \in Steps \ {"move"}, Go(h, s) PROVE FALSE
    BY <2>1, GoShape
  <2>2. CASE FindName(h)
    <3>1. ~Go(h, "error")
      BY <2>1 DEF Steps
    <3>2. PICK n \in Names : /\ IsAvailable(n)
                            /\ req' = [req EXCEPT ![h].pc = "move", ![h].name = n]
      BY <2>2, <3>1 DEF FindName
    <3>3. req'[h].name = n
      BY <3>2 DEF RequestsOK, Requests
    <3> QED
      BY <2>2, <3>2, <3>3 DEF FindName, IsAvailable
  <2>3. CASE WriteByte(h)
    BY <2>3 DEF WriteByte, RequestsOK, Requests, Steps
  <2>4. ~Rename(h) /\ ~CopyCreate(h) /\ ~CopyData(h) /\ ~CopyFails(h)
    BY <2>1 DEF Rename, CopyCreate, CopyData, CopyFails, Steps
  <2> QED
    BY <1>3, <2>1, <2>2, <2>3, <2>4
       DEF Handle, Steps, CreateBodyEnds, CreateFails, CreateRecord, PatchOpen,
           PatchTruncate, PatchFails, PatchEnds, UpdateOffset, CompleteCheck,
           RemoveSource, CompleteRecord, DeleteFile, DeleteRecord, Abort
<1>4. ASSUME NEW k \in Handlers, Respond(k) PROVE req'[h] = req[h]
  BY <1>4 DEF Respond, IdleRequest, RequestsOK, Requests
<1>5. CASE Crash
  BY <1>5 DEF Crash, IdleRequest
<1> QED
  BY <1>1, <1>2, <1>3, <1>4, <1>5, RequestSteps

\* What is contended stays so.
LEMMA ContendedGrows ==
  ASSUME [Next]_vars
  PROVE  contended \subseteq contended'
BY DEF Next, Always, vars

\* Two requests hold a name only when it is contended.
LEMMA HeldOnce ==
  ASSUME TypeInv, NEW g \in Handlers, NEW h \in Handlers, g # h, NEW n \in Names,
         Holds(g, n), Holds(h, n)
  PROVE  n \in contended
BY DEF TypeInv, NamesOK, Shared

\* A request that holds a name held it before, or has just found it free.
LEMMA EntersHolding ==
  ASSUME TypeInv, [Next]_vars, NEW h \in Handlers, NEW n \in Names,
         req'[h].pc \in {"move", "copying", "unlink", "finish"}, req'[h].name = n
  PROVE  \/ Holds(h, n)
         \/ FindName(h) /\ req'[h].pc = "move" /\ owner[n] = None /\ UNCHANGED owner
<1>1. CASE req'[h].pc = "move"
  BY <1>1, EntersMove DEF Holds
<1>2. CASE req'[h].pc \in {"copying", "unlink", "finish"}
  BY <1>2, EntersCopy DEF Holds
<1> QED
  BY <1>1, <1>2 DEF Holds

\* The name a request has picked stays free, or its own.
LEMMA PickedStep ==
  ASSUME TypeInv, ThereInv, [Next]_vars, NEW h \in Handlers
  PROVE  Picked(h)'
<1> USE DEF TypeInv
<1> DEFINE n == req'[h].name
<1>0. RequestsOK'
  BY RequestsStep
<1> SUFFICES ASSUME n \notin contended',
                    req'[h].pc \in {"move", "copying", "unlink", "finish"}
             PROVE  /\ req'[h].pc = "move" => owner'[n] = None
                    /\ req'[h].pc \in {"copying", "unlink", "finish"}
                         => owner'[n] = req'[h].up
                    /\ \A u \in Uploads : rec'[u].st = "done" => rec'[u].final # n
  BY DEF Picked, Holds, St
<1>1. n \in Names /\ n \notin contended
  BY <1>0, ContendedGrows DEF RequestsOK, Requests
<1>2. ASSUME req'[h] = req[h]
      PROVE  owner'[n] = owner[n]
  <2>1. ASSUME NEW k \in Handlers, k = h, CopyCreate(k) \/ Rename(k)
        PROVE  req'[k].pc # "move" /\ req[k].pc = "move"
    BY <2>1, GoShape DEF CopyCreate, Rename, At, Steps
  <2>2. ASSUME NEW k \in Handlers, k # h, req[k].pc \in {"move", "copying"}
        PROVE  req[k].name # n
    BY <1>1, <1>2, <2>2, HeldOnce DEF Holds
  <2>3. req[h].pc # "error" /\ req[h].pc = req'[h].pc
    BY <1>2 DEF Holds
  <2> QED
    BY <1>1, <1>2, <2>1, <2>2, <2>3, OwnerSteps
<1>3. ASSUME NEW u \in Uploads, rec'[u].st = "done"
      PROVE  rec'[u].final # n
  <2>1. CASE rec[u].st = "done" /\ rec'[u].final = rec[u].final
    <3>1. CASE Holds(h, n)
      BY <1>1, <2>1, <3>1 DEF ThereInv, Picked, Holds, St
    <3>2. CASE owner[n] = None
      BY <1>1, <2>1, <3>2, UploadsAssumption DEF ThereInv, UncontendedIsThere
    <3> QED
      BY <1>1, <3>1, <3>2, EntersHolding
  <2>2. ASSUME NEW k \in Handlers, CompleteRecord(k), rec'[u].final = req[k].name,
               req[k].name = n
        PROVE  FALSE
    <3>1. k # h /\ Holds(k, n)
      BY <2>2, CompletingEnds DEF CompleteRecord, At, Holds
    <3>2. Holds(h, n)
      BY <2>2, <3>1, CompletingEnds DEF Holds
    <3> QED
      BY <1>1, <3>1, <3>2, HeldOnce
  <2> QED
    BY <1>3, <2>1, <2>2, BecomesDone
<1>4. CASE req'[h].pc = "move"
  BY <1>1, <1>2, <1>3, <1>4, EntersMove DEF ThereInv, Picked
<1>5. CASE req'[h].pc \in {"copying", "unlink", "finish"}
  <2>1. /\ req'[h].up = req[h].up /\ req'[h].name = req[h].name
        /\ req[h].name \in Names
        /\ \/ req'[h] = req[h]
           \/ CopyCreate(h) /\ req'[h].pc = "copying"
           \/ CopyData(h) /\ req[h].pc = "copying"
           \/ RemoveSource(h) /\ req[h].pc = "unlink"
           \/ Rename(h)
    BY <1>5, EntersCopy
  <2>2. CASE req'[h] = req[h]
    BY <1>1, <1>2, <1>3, <1>5, <2>2 DEF ThereInv, Picked
  <2>3. ASSUME Go(h, "error") PROVE FALSE
    BY <1>5, <2>3, GoShape DEF Steps
  <2>4. ASSUME owner' = [owner EXCEPT ![req[h].name] = req[h].up]
        PROVE  owner'[req'[h].name] = req'[h].up
    BY <2>1, <2>4 DEF FolderOK
  <2>5. CASE CopyCreate(h)
    BY <1>3, <1>5, <2>3, <2>4, <2>5 DEF CopyCreate
  <2>6. CASE Rename(h)
    BY <1>3, <1>5, <2>3, <2>4, <2>6 DEF Rename
  <2>7. CASE CopyData(h) /\ req[h].pc = "copying"
    BY <1>1, <1>3, <1>5, <2>1, <2>7 DEF CopyData, ThereInv, Picked
  <2>8. CASE RemoveSource(h) /\ req[h].pc = "unlink"
    BY <1>1, <1>3, <1>5, <2>1, <2>8 DEF RemoveSource, ThereInv, Picked
  <2> QED
    BY <2>1, <2>2, <2>5, <2>6, <2>7, <2>8
<1> QED
  BY <1>4, <1>5 DEF Holds

\* A completed upload keeps its name.
LEMMA UncontendedStep ==
  ASSUME TypeInv, ThereInv, [Next]_vars
  PROVE  UncontendedIsThere'
<1> USE DEF TypeInv
<1> DEFINE n(u) == rec'[u].final
<1> SUFFICES ASSUME NEW u \in Uploads, rec'[u].st = "done", n(u) \notin contended'
             PROVE  owner'[n(u)] = u
  BY DEF UncontendedIsThere
<1>0. n(u) \in Names /\ n(u) \notin contended
  BY RowsStep, ContendedGrows DEF RowsOK, Rows
<1>1. CASE rec[u].st = "done" /\ rec'[u].final = rec[u].final
  <2>1. owner[n(u)] = u
    BY <1>0, <1>1 DEF ThereInv, UncontendedIsThere
  <2>2. ASSUME NEW h \in Handlers, req[h].pc \in {"move", "copying"}
        PROVE  req[h].name # n(u)
    BY <1>0, <1>1, <2>2 DEF ThereInv, Picked, Holds, St
  <2> QED
    BY <1>0, <2>1, <2>2, OwnerSteps
<1>2. ASSUME NEW h \in Handlers, CompleteRecord(h), req[h].up = u,
             rec'[u].final = req[h].name
      PROVE  owner'[n(u)] = u
  BY <1>0, <1>2 DEF CompleteRecord, At, ThereInv, Picked
<1> QED
  BY <1>1, <1>2, BecomesDone

\* The invariant of final names holds for good.
LEMMA ThereInvariant == Spec => [](TypeInv /\ ThereInv)
<1>1. TypeInv /\ ThereInv /\ [Next]_vars => ThereInv'
  BY PickedStep, UncontendedStep DEF ThereInv
<1> QED
  BY <1>1, ThereInit, TypeInvariant, PTL DEF Spec

\* A completed upload is found under the path its row records, unless two
\* requests have found that name free at the same time: no later upload, crash,
\* failed copy or cleanup takes the file away, however requests overlap.
THEOREM UncontendedThere == Spec => []UncontendedIsThere
<1>1. ThereInv => UncontendedIsThere
  BY DEF ThereInv
<1> QED
  BY <1>1, ThereInvariant, PTL

-----------------------------------------------------------------------------
(* The promise to the client, when requests of one upload do not overlap *)

Finalising == {"name", "move", "copying", "unlink", "finish"}

\* A request at work is about an upload that has never been completed, one that
\* finalises it about an upload whose every byte has been acknowledged.
Pending(h) ==
  LET u == req[h].up IN
  /\ req[h].pc \notin {"idle", "ok", "error"} => published[u] = 0
  /\ req[h].pc \in Finalising /\ Open(u) => rec[u].offset = Length[u]
  /\ req[h].pc = "copying" => ~sameFS
  /\ req[h].pc = "forget" => u \notin staged

\* What the cleanup or a DELETE takes out of the table is not staged any more.
Unstaged(u) ==
  /\ St(u) = "gone" => rec[u].offset = 0
  /\ St(u) = "gone" \/ u = cl.cur => u \notin staged
  /\ St(u) = "done" => published[u] > 0

PromiseInv ==
  /\ \A h \in Handlers : Pending(h)
  /\ \A u \in Uploads : Unstaged(u)

\* All that is known of the server.
ServerInv == Inv /\ CopyInv /\ ThereInv /\ PromiseInv

\* At the start there are no requests and no rows.
LEMMA PromiseInvInit == Init => PromiseInv
BY DEF Init, PromiseInv, Pending, Unstaged, Finalising, IdleRequest, St, Row

\* A request at work was at work before, or has just found its upload.
LEMMA WorksOn ==
  ASSUME TypeInv, [Next]_vars, NEW h \in Handlers,
         req'[h].pc \notin {"idle", "ok", "error"}
  PROVE  /\ req'[h].up \in Uploads
         /\ \/ req[h].up = req'[h].up /\ req[h].pc \notin {"idle", "ok", "error"}
            \/ UNCHANGED <<rec, published>> /\ St(req'[h].up) \in {"none", "open"}
<1> USE DEF TypeInv
<1>0. RequestsOK'
  BY RequestsStep
<1>1. req'[h].up \in Uploads
  BY <1>0 DEF RequestsOK, Requests, Bounded
<1>2. CASE req'[h] = req[h]
  BY <1>1, <1>2
<1>3. ASSUME NEW k \in Handlers, NEW v \in Uploads,
             CreateFile(k, v) \/ PatchRead(k, v) \/ DeleteRead(k, v), req'[h] # req[h]
      PROVE  UNCHANGED <<rec, published>> /\ St(req'[h].up) \in {"none", "open"}
  <2>1. k = h /\ req'[h].up = v
    BY <1>3, ArriveShape
  <2> QED
    BY <1>3, <2>1 DEF CreateFile, PatchRead, DeleteRead, Open, St
<1>4. ASSUME NEW k \in Handlers, Handle(k), req'[h] # req[h]
      PROVE  req[h].up = req'[h].up /\ req[h].pc \notin {"idle", "ok", "error"}
  <2>1. k = h /\ req'[h].up = req[h].up /\ req[h].up # None
    BY <1>4, HandleShape
  <2>2. req[h].pc \notin {"ok", "error"}
    BY <1>4, <2>1 DEF Handle, At, CreateBodyEnds, CreateFails, CreateRecord,
       PatchOpen, PatchTruncate, WriteByte, PatchFails, PatchEnds, UpdateOffset,
       CompleteCheck, FindName, Rename, CopyCreate, CopyData, CopyFails,
       RemoveSource, CompleteRecord, DeleteFile, DeleteRecord, Abort
  <2> QED
    BY <2>1, <2>2 DEF RequestsOK, Bounded
<1>5. ASSUME NEW k \in Handlers, Respond(k) PROVE req'[h] = req[h]
  BY <1>5 DEF Respond, IdleRequest, RequestsOK
<1>6. ~Crash
  BY DEF Crash, IdleRequest
<1> QED
  BY <1>1, <1>2, <1>3, <1>4, <1>5, <1>6, RequestSteps

\* A request gets to the search for a name when all its bytes are acknowledged,
\* and to the end of a DELETE by removing the file.
LEMMA EntersName ==
  ASSUME TypeInv, [Next]_vars, NEW h \in Handlers, req'[h].pc \in {"name", "forget"}
  PROVE  \/ req'[h] = req[h]
         \/ /\ req'[h].pc = "name" /\ UNCHANGED rec /\ req'[h].up = req[h].up
            /\ rec[req[h].up].offset = Length[req[h].up]
         \/ /\ req'[h].pc = "forget" /\ req'[h].up = req[h].up
            /\ staged' = staged \ {req[h].up}
<1> USE DEF TypeInv
<1>1. ASSUME NEW k \in Handlers, NEW v \in Uploads,
             CreateFile(k, v) \/ PatchRead(k, v) \/ DeleteRead(k, v)
      PROVE  req'[h] = req[h]
  BY <1>1, ArriveShape
<1>2. ASSUME NEW k \in Handlers, Handle(k), k # h PROVE req'[h] = req[h]
  BY <1>2, HandleShape
<1>3. CASE Handle(h)
  <2>1. ASSUME NEW s \in Steps \ {"name", "forget"}, Go(h, s) PROVE FALSE
    BY <2>1, GoShape
  <2>2. CASE CompleteCheck(h)
    <3>1. UNCHANGED rec
      BY <2>2 DEF CompleteCheck
    <3>2. /\ Open(req[h].up) /\ rec[req[h].up].offset = Length[req[h].up]
          /\ req[h].up \in staged
      <4>1. ASSUME ~(/\ Open(req[h].up) /\ rec[req[h].up].offset = Length[req[h].up]
                     /\ req[h].up \in staged)
            PROVE  Go(h, "ok") \/ Go(h, "error")
        BY <2>2, <4>1 DEF CompleteCheck
      <4> QED
        BY <2>1, <4>1 DEF Steps
    <3>3. Go(h, "name")
      BY <2>2, <3>2 DEF CompleteCheck, Open
    <3>4. "name" \in Steps
      BY DEF Steps
    <3> QED
      BY <3>1, <3>2, <3>3, <3>4, GoShape
  <2>3. CASE DeleteFile(h)
    <3>1. Go(h, "forget") /\ staged' = staged \ {req[h].up} /\ "forget" \in Steps
      BY <2>3 DEF DeleteFile, Steps
    <3> QED
      BY <3>1, GoShape
  <2>4. CASE WriteByte(h)
    BY <2>4 DEF WriteByte, RequestsOK, Requests, Steps
  <2>5. ASSUME FindName(h) PROVE FALSE
    BY <2>1, <2>5 DEF FindName, RequestsOK, Requests, Steps
  <2>6. ~Rename(h) /\ ~CopyCreate(h) /\ ~CopyData(h) /\ ~CopyFails(h)
    BY <2>1 DEF Rename, CopyCreate, CopyData, CopyFails, Steps
  <2> QED
    BY <1>3, <2>1, <2>2, <2>3, <2>4, <2>5, <2>6
       DEF Handle, Steps, CreateBodyEnds, CreateFails, CreateRecord, PatchOpen,
           PatchTruncate, PatchFails, PatchEnds, UpdateOffset,
           RemoveSource, CompleteRecord, DeleteRecord, Abort
<1>4. ASSUME NEW k \in Handlers, Respond(k) PROVE req'[h] = req[h]
  BY <1>4 DEF Respond, IdleRequest, RequestsOK, Requests
<1>5. CASE Crash
  BY <1>5 DEF Crash, IdleRequest
<1> QED
  BY <1>1, <1>2, <1>3, <1>4, <1>5, RequestSteps

\* The acknowledged bytes of an upload that is being finalised stay all.
LEMMA AllStays ==
  ASSUME Inv, [Next]_vars, NEW h \in Handlers, req[h].pc \in Finalising,
         Open(req[h].up) => rec[req[h].up].offset = Length[req[h].up],
         rec'[req[h].up].st = "open"
  PROVE  rec'[req[h].up].offset = Length[req[h].up]
<1> USE DEF Inv, TypeInv
<1> DEFINE u == req[h].up
<1>1. u \in Uploads /\ u # None
  BY BusyHasUpload, UploadsAssumption DEF Finalising
<1>2. ASSUME NEW k \in Handlers, req[k].up = u PROVE req[k].pc \in Finalising
  BY <1>1, <1>2 DEF FileInv, Alone
<1>3. CASE UNCHANGED <<rec, published>>
  BY <1>3 DEF Open
<1>4. ASSUME NEW k \in Handlers, CreateRecord(k) \/ UpdateOffset(k)
      PROVE  rec'[u] = rec[u]
  <2>1. req[k].up # u
    BY <1>2, <1>4 DEF CreateRecord, UpdateOffset, At, Finalising
  <2> QED
    BY <1>1, <1>4, <2>1 DEF CreateRecord, UpdateOffset, RowsOK
<1>5. ASSUME NEW k \in Handlers, CompleteRecord(k) PROVE rec'[u] = rec[u]
  <2>1. CASE req[k].up = u
    BY <1>1, <1>5, <2>1 DEF CompleteRecord, RowsOK, Rows
  <2>2. CASE req[k].up # u
    BY <1>1, <1>5, <2>2 DEF CompleteRecord, RowsOK, Rows
  <2> QED
    BY <2>1, <2>2
<1>6. ASSUME NEW v \in Uploads, rec' = Deleted(v) PROVE rec'[u] = rec[u]
  BY <1>1, <1>6, DeletedShape
<1>7. ASSUME NEW k \in Handlers, DeleteRecord(k) PROVE rec'[u] = rec[u]
  BY <1>6, <1>7, BusyHasUpload DEF DeleteRecord, At
<1>8. ASSUME CleanupDelete PROVE rec'[u] = rec[u]
  BY <1>6, <1>8 DEF CleanupDelete, RestOK
<1>9. ASSUME NEW v \in Uploads, Expire(v)
      PROVE  rec'[u].st = rec[u].st /\ rec'[u].offset = rec[u].offset
  BY <1>1, <1>9 DEF Expire, RowsOK, Rows
<1> QED
  BY <1>3, <1>4, <1>5, <1>7, <1>8, <1>9, RowSteps DEF Open

\* A file is staged by the POST of an upload that has no row.
LEMMA StaysUnstaged ==
  ASSUME [Next]_vars, NEW u \in Uploads, u \notin staged, St(u) # "none"
  PROVE  u \notin staged'
BY StagedSteps DEF CreateFile, St

\* A request at work stays about an upload that is not completed, and so on.
LEMMA PendingStep ==
  ASSUME Apart, ServerInv, [Next]_vars, NEW h \in Handlers
  PROVE  Pending(h)'
<1> USE DEF ServerInv, Inv
<1> DEFINE u == req'[h].up
           busy == req'[h].pc \notin {"idle", "ok", "error"}
<1>0. sameFS' = sameFS /\ Alone(h)'
  BY AloneStep DEF Next, Always, vars
<1>1. ASSUME busy PROVE published'[u] = 0
  <2>1. u \in Uploads
    BY <1>1, WorksOn
  <2>2. published[u] = 0
    <3>1. CASE req[h].up = u /\ req[h].pc \notin {"idle", "ok", "error"}
      BY <3>1 DEF PromiseInv, Pending
    <3>2. CASE St(u) \in {"none", "open"}
      BY <2>1, <3>2 DEF EventInv, EventsOnce, TypeInv, RowsOK
    <3> QED
      BY <1>1, <3>1, <3>2, WorksOn
  <2>3. ASSUME NEW k \in Handlers, CompleteRecord(k), req[k].up = u PROVE FALSE
    <3>1. k # h /\ req'[k].up = u
      BY <1>1, <2>3, CompletingEnds
    <3> QED
      BY <1>0, <2>1, <3>1, UploadsAssumption DEF Alone
  <2>4. ASSUME NEW k \in Handlers, CompleteRecord(k)
        PROVE  published'[u] = published[u]
    BY <2>1, <2>3, <2>4 DEF CompleteRecord, TypeInv, RowsOK
  <2>5. CASE UNCHANGED published
    BY <2>2, <2>5
  <2> QED
    BY <2>2, <2>4, <2>5, RowSteps
       DEF CreateRecord, UpdateOffset, DeleteRecord, CleanupDelete, Expire
<1>2. ASSUME req'[h].pc \in Finalising, rec'[u].st = "open"
      PROVE  rec'[u].offset = Length[u]
  <2>1. ASSUME req[h].pc \in Finalising, req[h].up = u
        PROVE  rec'[u].offset = Length[u]
    BY <1>2, <2>1, AllStays DEF PromiseInv, Pending
  <2>2. CASE req'[h] = req[h]
    BY <1>2, <2>1, <2>2
  <2>3. CASE req'[h].pc = "name"
    BY <2>2, <2>3, EntersName
  <2>4. CASE req'[h].pc = "move"
    <3>1. ASSUME FindName(h) PROVE req[h].pc \in Finalising /\ req[h].up = u
      BY <3>1 DEF FindName, At, Go, Finalising, TypeInv, RequestsOK, Requests
    <3> QED
      BY <2>1, <2>2, <2>4, <3>1, EntersMove
  <2>5. CASE req'[h].pc \in {"copying", "unlink", "finish"}
    BY <1>2, <2>1, <2>5, EntersCopy DEF Finalising
  <2> QED
    BY <1>2, <2>3, <2>4, <2>5 DEF Finalising
<1>3. ASSUME req'[h].pc = "copying" PROVE ~sameFS
  BY <1>3, EntersCopy DEF CopyCreate, PromiseInv, Pending
<1>4. ASSUME req'[h].pc = "forget" PROVE u \notin staged'
  <2>1. u \in Uploads
    BY <1>4, WorksOn
  <2>2. CASE req'[h] = req[h]
    BY <1>4, <2>1, <2>2, StaysUnstaged DEF PromiseInv, Pending, EventInv, HasRow
  <2> QED
    BY <1>4, <2>2, EntersName
<1> QED
  BY <1>0, <1>1, <1>2, <1>3, <1>4 DEF Pending, Open

\* What has been taken out of the table stays unstaged.
LEMMA UnstagedStep ==
  ASSUME ServerInv, [Next]_vars, NEW u \in Uploads
  PROVE  Unstaged(u)'
<1> USE DEF ServerInv, Inv, TypeInv
<1>0. Unstaged(u)
  BY DEF PromiseInv
<1>1. ASSUME rec'[u].st = "gone"
      PROVE  \/ St(u) = "gone" /\ rec'[u].offset = rec[u].offset
             \/ /\ rec'[u].offset = 0 /\ UNCHANGED staged /\ St(u) # "none"
                /\ u = cl.cur \/ \E h \in Handlers : req[h].pc = "forget" /\ req[h].up = u
  <2>1. CASE UNCHANGED <<rec, published>>
    BY <1>1, <2>1 DEF St
  <2>2. ASSUME NEW h \in Handlers, CreateRecord(h) \/ UpdateOffset(h) \/ CompleteRecord(h)
        PROVE  rec'[u] = rec[u]
    BY <1>1, <2>2 DEF CreateRecord, UpdateOffset, CompleteRecord, Open, Row, RowsOK, Rows
  <2>3. ASSUME NEW h \in Handlers, DeleteRecord(h), req[h].up = u
        PROVE  /\ rec'[u].offset = 0 /\ UNCHANGED staged /\ St(u) # "none"
               /\ req[h].pc = "forget"
    BY <2>3 DEF DeleteRecord, At, Deleted, Row, RowsOK, EventInv, HasRow
  <2>4. ASSUME NEW h \in Handlers, DeleteRecord(h), req[h].up # u
        PROVE  rec'[u] = rec[u]
    BY <2>4 DEF DeleteRecord, Deleted, RowsOK
  <2>5. CASE CleanupDelete /\ cl.cur = u
    BY <2>5 DEF CleanupDelete, Deleted, Row, RowsOK, EventInv, ListKnown
  <2>6. CASE CleanupDelete /\ cl.cur # u
    BY <1>1, <2>6 DEF CleanupDelete, Deleted, RowsOK, St
  <2>7. ASSUME NEW v \in Uploads, Expire(v)
        PROVE  rec'[u].st = rec[u].st /\ rec'[u].offset = rec[u].offset
    BY <2>7 DEF Expire, RowsOK, Rows
  <2> QED
    BY <1>1, <2>1, <2>2, <2>3, <2>4, <2>5, <2>6, <2>7, RowSteps DEF St
<1>2. ASSUME rec'[u].st = "gone" PROVE rec'[u].offset = 0 /\ u \notin staged'
  <2>1. CASE St(u) = "gone"
    BY <1>0, <1>1, <1>2, <2>1, StaysUnstaged DEF Unstaged
  <2>2. CASE St(u) # "gone"
    BY <1>0, <1>1, <1>2, <2>2 DEF Unstaged, PromiseInv, Pending
  <2> QED
    BY <2>1, <2>2
<1>3. ASSUME u = cl'.cur PROVE u \notin staged'
  <2>1. u # None
    BY UploadsAssumption
  <2>2. ASSUME u = cl.cur PROVE u \notin staged'
    BY <1>0, <2>2, StaysUnstaged DEF Unstaged, EventInv, ListKnown
  <2>3. ASSUME NEW v \in Uploads, CleanupRemove(v) PROVE u \notin staged'
    BY <1>3, <2>3 DEF CleanupRemove, RestOK
  <2>4. ASSUME NEW v \in Uploads, ScanPart(v) PROVE u = cl.cur
    BY <1>3, <2>4 DEF ScanPart, RestOK
  <2>5. CASE UNCHANGED cl \/ CleanupList \/ ScanStart \/ \E v \in Uploads : SweepOrphan(v)
    BY <1>3, <2>2, <2>5 DEF CleanupList, ScanStart, SweepOrphan, RestOK
  <2>6. ~CleanupDelete /\ ~CleanupDone /\ ~Crash
    BY <1>3, <2>1 DEF CleanupDelete, CleanupDone, Crash, BootCleanup, IdleCleanup, RestOK
  <2> QED
    BY <2>2, <2>3, <2>4, <2>5, <2>6, CleanupSteps
<1>4. ASSUME rec'[u].st = "done" PROVE published'[u] > 0
  <2>1. ASSUME NEW h \in Handlers, CompleteRecord(h)
        PROVE  published'[u] >= published[u] /\ (req[h].up = u /\ Open(u) => published'[u] > 0)
    BY <2>1 DEF CompleteRecord, RowsOK, Rows
  <2>2. published'[u] >= published[u]
    <3>1. published[u] \in Nat
      BY DEF RowsOK
    <3>2. UNCHANGED published \/ \E h \in Handlers : CompleteRecord(h)
      BY RowSteps
         DEF CreateRecord, UpdateOffset, DeleteRecord, CleanupDelete, Expire
    <3> QED
      BY <2>1, <3>1, <3>2
  <2>3. CASE rec[u].st = "done"
    BY <1>0, <2>2, <2>3, RowsStep DEF Unstaged, St, RowsOK
  <2>4. ASSUME NEW h \in Handlers, CompleteRecord(h), req[h].up = u, rec[u].st # "done"
        PROVE  Open(u)
    BY <1>4, <2>4 DEF CompleteRecord
  <2> QED
    BY <1>4, <2>1, <2>3, <2>4, BecomesDone
<1> QED
  BY <1>2, <1>3, <1>4 DEF Unstaged, St

\* All of it holds for good.
LEMMA ServerInvariant ==
  ASSUME Apart
  PROVE  Spec => []ServerInv
<1>1. ServerInv /\ [Next]_vars => PromiseInv'
  BY PendingStep, UnstagedStep DEF PromiseInv
<1>2. (Inv /\ CopyInv) /\ (TypeInv /\ ThereInv) /\ PromiseInv <=> ServerInv
  BY DEF ServerInv, Inv
<1> QED
  BY <1>1, <1>2, PromiseInvInit, ThereInvariant, CopyInvariant, PTL DEF Spec

\* The steps of the promise.
LEMMA PromiseCases ==
  \/ \E v \in Uploads :
       \/ \E k \in 0..Length[v] : Promise!Accept(v, k) \/ Promise!Acknowledge(v, k)
       \/ \E n \in Names : \/ Promise!Land(v, n) \/ Promise!Withdraw(v, n)
                           \/ Promise!Confirm(v, n)
       \/ Promise!GiveUp(v) \/ Promise!Forget(v)
  \/ \E n \in Names : Promise!Contest(n)
  => Promise!PromiseNext
BY DEF Promise!PromiseNext

\* What a step leaves alone looks the same to the client.
LEMMA SameFolder ==
  ASSUME UNCHANGED <<sameFS, owner, contended>>
  PROVE  UNCHANGED <<sameFS, [n \in Names |-> Shown(n)], contended>>
BY DEF Shown

LEMMA SameRows ==
  ASSUME UNCHANGED <<rec, published>>
  PROVE  UNCHANGED <<[u \in Uploads |-> Status(u)], [u \in Uploads |-> rec[u].offset],
                     [u \in Uploads |-> Place(u)]>>
BY DEF Status, Place

\* A step that changes no row and nothing under a name that is not contended.
LEMMA Invisible ==
  ASSUME UNCHANGED <<sameFS, rec, published, contended>>,
         \A n \in Names : n \in contended \/ owner'[n] = owner[n]
  PROVE  UNCHANGED Promise!promise
<1>1. [n \in Names |-> Shown(n)]' = [n \in Names |-> Shown(n)]
  BY DEF Shown
<1> QED
  BY <1>1, SameRows DEF Promise!promise

\* A name becomes contended when a second request finds it free.
LEMMA Contends ==
  ASSUME ServerInv, [Next]_vars, contended' # contended
  PROVE  Promise!PromiseNext
<1> USE DEF ServerInv, Inv
<1>1. contended' = contended \cup Shared'
  BY DEF Next, Always, vars
<1>2. ASSUME NEW n \in Names, n \in Shared', n \notin contended
      PROVE  \E h \in Handlers : /\ FindName(h) /\ req'[h].pc = "move"
                                 /\ req'[h].name = n
                                 /\ owner[n] = None /\ UNCHANGED owner
  <2>1. PICK g \in Handlers, h \in Handlers : g # h /\ Holds(g, n)' /\ Holds(h, n)'
    BY <1>2 DEF Shared
  <2>2. ~(Holds(g, n) /\ Holds(h, n))
    BY <1>2, <2>1, HeldOnce
  <2> QED
    BY <2>1, <2>2, EntersHolding DEF Holds
<1>3. PICK n \in Names : n \in Shared' /\ n \notin contended
  BY <1>1 DEF Shared
<1>4. PICK h \in Handlers : /\ FindName(h) /\ req'[h].pc = "move"
                            /\ req'[h].name = n
                            /\ owner[n] = None /\ UNCHANGED owner
  BY <1>2, <1>3
<1>5. UNCHANGED <<rec, published, sameFS>>
  BY <1>4 DEF FindName, Next, Always, vars
<1>6. ASSUME NEW k \in Handlers, FindName(k), req'[k].pc = "move" PROVE k = h
  <2>1. ASSUME k # h PROVE req'[k] = req[k]
    BY <1>4, <2>1, HandleShape DEF TypeInv, Handle
  <2> QED
    BY <1>6, <2>1 DEF FindName, At
<1>7. contended' = contended \cup {n}
  BY <1>1, <1>2, <1>3, <1>4, <1>6 DEF Shared
<1>8. Shown(n) = None /\ [m \in Names |-> Shown(m)]' = [m \in Names |-> Shown(m)]
  BY <1>3, <1>4, <1>7 DEF Shown
<1>9. Promise!Contest(n)
  BY <1>3, <1>5, <1>7, <1>8, SameRows DEF Promise!Contest
<1> QED
  BY <1>9, PromiseCases

\* The first row of an upload is its acceptance.
LEMMA AcceptsRow ==
  ASSUME ServerInv, TypeInv', NEW h \in Handlers, CreateRecord(h),
         UNCHANGED <<sameFS, contended>>,
         NEW u, NEW k, u = req[h].up, k = req[h].pos
  PROVE  Promise!PromiseNext
<1> USE DEF ServerInv, Inv, TypeInv
<1>1. u \in Uploads /\ rec[u].st = "none"
  BY BusyHasUpload DEF CreateRecord, At, EventInv, CreatorAlone, St
<1>2. k \in 0..Length[u] /\ k <= Length[u]
  BY <1>1, LengthAssumption
     DEF CreateRecord, At, RequestsOK, Requests, Bounded
<1>3. rec' = [rec EXCEPT ![u] = Row("open", k)] /\ UNCHANGED <<owner, published>>
  BY DEF CreateRecord
<1>4. /\ rec'[u].st = "open" /\ rec'[u].offset = k
      /\ \A v \in Uploads : v # u => rec'[v] = rec[v]
  BY <1>1, <1>3 DEF RowsOK, Row
<1>5. [v \in Uploads |-> Status(v)]'
        = [[v \in Uploads |-> Status(v)] EXCEPT ![u] = "open"]
  <2>1. Status(u)' = "open"
    BY <1>4 DEF Status
  <2>2. \A v \in Uploads : v # u => Status(v)' = Status(v)
    BY <1>3, <1>4 DEF Status
  <2> QED
    BY <1>1, <2>1, <2>2
<1>6. [v \in Uploads |-> rec'[v].offset]
        = [[v \in Uploads |-> rec[v].offset] EXCEPT ![u] = k]
  BY <1>4
<1>7. [v \in Uploads |-> Place(v)]' = [v \in Uploads |-> Place(v)]
  BY <1>1, <1>4 DEF Place
<1>8. Status(u) = "none"
  BY <1>1 DEF Status
<1>9. Promise!Accept(u, k)
  BY <1>1, <1>2, <1>3, <1>5, <1>6, <1>7, <1>8, SameFolder DEF Promise!Accept
<1> QED
  BY <1>1, <1>2, <1>9, PromiseCases

\* A PATCH that updates the row acknowledges what it has written.
LEMMA AcknowledgesBytes ==
  ASSUME ServerInv, TypeInv', NEW h \in Handlers, UpdateOffset(h),
         UNCHANGED <<sameFS, contended>>,
         NEW u, NEW k, u = req[h].up, k = req[h].pos, ~UNCHANGED rec
  PROVE  Promise!PromiseNext
<1> USE DEF ServerInv, Inv, TypeInv
<1>1. u \in Uploads /\ rec[u].st = "open"
  BY BusyHasUpload DEF UpdateOffset, At, Open
<1>2. k \in 0..Length[u] /\ k <= Length[u]
  BY <1>1, LengthAssumption
     DEF UpdateOffset, At, RequestsOK, Requests, Bounded
<1>3. rec[u].offset <= k
  BY <1>1 DEF UpdateOffset, At, FileInv, FileOf, Open
<1>4. /\ rec' = [rec EXCEPT ![u].offset = k, ![u].old = FALSE]
      /\ UNCHANGED <<owner, published>>
  BY <1>1 DEF UpdateOffset, Open
<1>5. /\ rec'[u].st = "open" /\ rec'[u].offset = k
      /\ \A v \in Uploads : v # u => rec'[v] = rec[v]
  BY <1>1, <1>4 DEF RowsOK, Rows
<1>6. /\ [v \in Uploads |-> Status(v)]' = [v \in Uploads |-> Status(v)]
      /\ [v \in Uploads |-> Place(v)]' = [v \in Uploads |-> Place(v)]
  <2>1. \A v \in Uploads : Status(v)' = Status(v)
    <3>1. /\ \A v \in Uploads : rec'[v].st = rec[v].st
          /\ published' = published
      BY <1>1, <1>4, <1>5
    <3> QED
      BY <3>1 DEF Status
  <2>2. \A v \in Uploads : Place(v)' = Place(v)
    BY <1>1, <1>5 DEF Place
  <2> QED
    BY <2>1, <2>2
<1>7. [v \in Uploads |-> rec'[v].offset]
        = [[v \in Uploads |-> rec[v].offset] EXCEPT ![u] = k]
  BY <1>1, <1>5
<1>8. Status(u) = "open"
  BY <1>1 DEF Status
<1>9. Promise!Acknowledge(u, k)
  BY <1>1, <1>2, <1>3, <1>4, <1>6, <1>7, <1>8, SameFolder DEF Promise!Acknowledge
<1> QED
  BY <1>1, <1>2, <1>9, PromiseCases

\* An upload that a request finalises is received, not confirmed, and staged
\* as long as it has a row.
LEMMA FinalisesOpen ==
  ASSUME ServerInv, NEW h \in Handlers, req[h].pc \in Finalising,
         NEW u, u = req[h].up
  PROVE  /\ u \in Uploads /\ u # None /\ req[h].name \in Names
         /\ rec[u].st \in {"open", "gone"} /\ Status(u) = rec[u].st
         /\ rec[u].st = "open" => rec[u].offset = Length[u]
         /\ u \in staged => rec[u].st = "open"
<1> USE DEF ServerInv, Inv, TypeInv, Finalising
<1>1. u \in Uploads /\ u # None /\ req[h].name \in Names
  BY BusyHasUpload, UploadsAssumption DEF RequestsOK, Requests
<1>2. rec[u].st \in {"open", "gone"}
  BY <1>1 DEF RowsOK, Rows, EventInv, HasRow, CopyInv, Unfinished, St
<1>3. published[u] = 0 /\ (rec[u].st = "open" => rec[u].offset = Length[u])
  BY DEF PromiseInv, Pending, Open
<1>4. u \in staged => rec[u].st # "gone"
  BY <1>1 DEF PromiseInv, Unstaged, St
<1> QED
  BY <1>1, <1>2, <1>3, <1>4 DEF Status

\* A file that appears under a free name lands the upload.
LEMMA LandsFile ==
  ASSUME ServerInv, NEW h \in Handlers, NEW u, NEW n, u = req[h].up,
         n = req[h].name, At(h, "move"), u \in staged, n \notin contended,
         owner' = [owner EXCEPT ![n] = u],
         UNCHANGED <<sameFS, rec, published, contended>>
  PROVE  Promise!PromiseNext
<1> USE DEF ServerInv, Inv, TypeInv
<1>1. /\ u \in Uploads /\ u # None /\ n \in Names
      /\ Status(u) = "open" /\ rec[u].offset = Length[u]
  BY FinalisesOpen DEF Finalising, At
<1>2. Shown(n) = None
  BY DEF At, ThereInv, Picked, Shown
<1>3. sameFS => \A m \in Names : Shown(m) # u
  BY <1>1 DEF FileInv, NameWhole, Shown
<1>4. [m \in Names |-> Shown(m)]' = [[m \in Names |-> Shown(m)] EXCEPT ![n] = u]
  BY <1>1 DEF FolderOK, Shown
<1>5. Promise!Land(u, n)
  BY <1>1, <1>2, <1>3, <1>4, SameRows DEF Promise!Land, Promise!Landed
<1> QED
  BY <1>1, <1>5, PromiseCases

\* A request that removes the name it has: only a copy it has made.
LEMMA RemovesTarget ==
  ASSUME ServerInv, NEW h \in Handlers, req[h].pc \in {"move", "copying"},
         owner' = TargetRemoved(h),
         UNCHANGED <<sameFS, rec, published, contended>>
  PROVE  [Promise!PromiseNext]_(Promise!promise)
<1> USE DEF ServerInv, Inv, TypeInv
<1> DEFINE u == req[h].up
           n == req[h].name
<1>1. u \in Uploads /\ u # None /\ n \in Names /\ Status(u) \in {"open", "gone"}
  BY FinalisesOpen DEF Finalising
<1>2. \A m \in Names : m # n => owner'[m] = owner[m]
  BY DEF TargetRemoved, FolderOK
<1>3. CASE n \in contended \/ owner'[n] = owner[n]
  BY <1>2, <1>3, Invisible
<1>4. CASE n \notin contended /\ owner'[n] # owner[n]
  <2>1. owner'[n] = None
    BY <1>1, <1>4 DEF TargetRemoved, FolderOK
  <2>2. req[h].pc = "copying" /\ owner[n] = u
    BY <1>4, <2>1 DEF ThereInv, Picked
  <2>3. ~sameFS /\ Shown(n) = u
    BY <1>4, <2>2 DEF PromiseInv, Pending, Shown
  <2>4. [m \in Names |-> Shown(m)]' = [[m \in Names |-> Shown(m)] EXCEPT ![n] = None]
    BY <1>1, <1>2, <1>4, <2>1 DEF Shown
  <2>5. Promise!Withdraw(u, n)
    BY <1>1, <2>3, <2>4, SameRows DEF Promise!Withdraw
  <2> QED
    BY <1>1, <2>5, PromiseCases
<1> QED
  BY <1>3, <1>4

\* What the target folder shows the client.
LEMMA FolderKeeps ==
  ASSUME ServerInv, [Next]_vars, UNCHANGED <<rec, published, contended>>
  PROVE  [Promise!PromiseNext]_(Promise!promise)
<1> USE DEF ServerInv, Inv, TypeInv
<1>0. sameFS' = sameFS
  BY DEF Next, Always, vars
<1>1. CASE UNCHANGED owner
  BY <1>0, <1>1, Invisible
<1>2. ASSUME NEW h \in Handlers, At(h, "move"), req[h].up \in staged,
             owner' = [owner EXCEPT ![req[h].name] = req[h].up]
      PROVE  [Promise!PromiseNext]_(Promise!promise)
  <2>1. CASE req[h].name \in contended
    <3>1. \A m \in Names : m # req[h].name => owner'[m] = owner[m]
      BY <1>2 DEF FolderOK
    <3> QED
      BY <1>0, <2>1, <3>1, Invisible
  <2>2. CASE req[h].name \notin contended
    BY <1>0, <1>2, <2>2, LandsFile
  <2> QED
    BY <2>1, <2>2
<1>3. ASSUME NEW h \in Handlers, Rename(h), ~UNCHANGED owner
      PROVE  [Promise!PromiseNext]_(Promise!promise)
  BY <1>2, <1>3 DEF Rename
<1>4. ASSUME NEW h \in Handlers, CopyCreate(h)
      PROVE  [Promise!PromiseNext]_(Promise!promise)
  <2>1. CASE owner' = TargetRemoved(h)
    BY <1>0, <1>4, <2>1, RemovesTarget DEF CopyCreate, At
  <2>2. CASE req[h].up \in staged /\ owner' = [owner EXCEPT ![req[h].name] = req[h].up]
    BY <1>2, <1>4, <2>2 DEF CopyCreate
  <2> QED
    BY <1>4, <2>1, <2>2 DEF CopyCreate
<1>5. ASSUME NEW h \in Handlers, CopyFails(h)
      PROVE  [Promise!PromiseNext]_(Promise!promise)
  BY <1>0, <1>5, RemovesTarget DEF CopyFails, At
<1>6. ASSUME NEW h \in Handlers, CopyData(h) PROVE UNCHANGED owner
  BY <1>6 DEF CopyData
<1> QED
  BY <1>1, <1>3, <1>4, <1>5, <1>6, FolderSteps

\* Completing the row confirms an upload where it has landed.
LEMMA ConfirmsUpload ==
  ASSUME ServerInv, NEW h \in Handlers, CompleteRecord(h),
         UNCHANGED <<sameFS, contended>>,
         NEW u, NEW n, u = req[h].up, n = req[h].name,
         ~UNCHANGED rec
  PROVE  Promise!PromiseNext
<1> USE DEF ServerInv, Inv, TypeInv
<1>1. rec[u].st = "open" /\ req[h].pc = "finish"
  BY DEF CompleteRecord, At, Open
<1>2. u \in Uploads /\ n \in Names /\ Status(u) = "open" /\ rec[u].offset = Length[u]
  BY <1>1, FinalisesOpen DEF Finalising
<1>3. Shown(n) = u \/ n \in contended
  BY <1>1 DEF ThereInv, Picked, Shown
<1>4. /\ rec' = [rec EXCEPT ![u].st = "done", ![u].offset = Length[u],
                            ![u].final = n]
      /\ published' = [published EXCEPT ![u] = @ + 1]
      /\ UNCHANGED owner
  BY <1>1 DEF CompleteRecord, Open
<1>5. /\ rec'[u].st = "done" /\ rec'[u].offset = rec[u].offset /\ rec'[u].final = n
      /\ \A v \in Uploads : v # u => rec'[v] = rec[v] /\ published'[v] = published[v]
  BY <1>2, <1>4 DEF RowsOK, Rows
<1>6. [v \in Uploads |-> Status(v)]'
        = [[v \in Uploads |-> Status(v)] EXCEPT ![u] = "done"]
  BY <1>2, <1>5 DEF Status
<1>7. [v \in Uploads |-> rec'[v].offset] = [v \in Uploads |-> rec[v].offset]
  BY <1>2, <1>5
<1>8. [v \in Uploads |-> Place(v)]'
        = [[v \in Uploads |-> Place(v)] EXCEPT ![u] = n]
  BY <1>2, <1>5 DEF Place
<1>9. Promise!Confirm(u, n)
  BY <1>2, <1>3, <1>4, <1>6, <1>7, <1>8, SameFolder DEF Promise!Confirm
<1> QED
  BY <1>2, <1>9, PromiseCases

\* Deleting the row of an upload gives it up, or forgets it when it had been
\* confirmed.
LEMMA GivesUp ==
  ASSUME ServerInv, NEW u \in Uploads, St(u) # "none", rec' = Deleted(u),
         UNCHANGED <<sameFS, owner, contended, published>>
  PROVE  [Promise!PromiseNext]_(Promise!promise)
<1> USE DEF ServerInv, Inv, TypeInv
<1>1. /\ rec'[u].st = "gone" /\ rec'[u].offset = 0
      /\ \A v \in Uploads : v # u => rec'[v] = rec[v]
  BY DEF Deleted, Row, RowsOK
<1>2. [v \in Uploads |-> rec'[v].offset]
        = [[v \in Uploads |-> rec[v].offset] EXCEPT ![u] = 0]
  BY <1>1
<1>3. CASE rec[u].st = "open"
  <2>1. published[u] = 0
    BY <1>3 DEF EventInv, EventsOnce, RowsOK, St
  <2>2. [v \in Uploads |-> Status(v)]'
          = [[v \in Uploads |-> Status(v)] EXCEPT ![u] = "gone"]
    <3>1. Status(u)' = "gone"
      BY <1>1, <2>1 DEF Status, EventInv, EventsOnce
    <3>2. \A v \in Uploads : v # u => Status(v)' = Status(v)
      BY <1>1 DEF Status
    <3> QED
      BY <3>1, <3>2
  <2>3. [v \in Uploads |-> Place(v)]' = [v \in Uploads |-> Place(v)]
    BY <1>1, <1>3 DEF Place
  <2>4. Status(u) = "open"
    BY <1>3 DEF Status
  <2>5. Promise!GiveUp(u)
    BY <1>2, <2>2, <2>3, <2>4, SameFolder DEF Promise!GiveUp
  <2> QED
    BY <2>5, PromiseCases
<1>4. CASE rec[u].st = "done"
  <2>1. published[u] > 0
    BY <1>4 DEF PromiseInv, Unstaged, St
  <2>2. [v \in Uploads |-> Status(v)]'
          = [[v \in Uploads |-> Status(v)] EXCEPT ![u] = "forgotten"]
    BY <1>1, <2>1 DEF Status
  <2>3. [v \in Uploads |-> Place(v)]'
          = [[v \in Uploads |-> Place(v)] EXCEPT ![u] = None]
    BY <1>1 DEF Place
  <2>4. Status(u) = "done"
    BY <1>4 DEF Status
  <2>5. Promise!Forget(u)
    BY <1>2, <2>2, <2>3, <2>4, SameFolder DEF Promise!Forget
  <2> QED
    BY <2>5, PromiseCases
<1>5. CASE rec[u].st = "gone"
  <2>1. rec[u].offset = 0
    BY <1>5 DEF PromiseInv, Unstaged, St
  <2>2. /\ [v \in Uploads |-> Status(v)]' = [v \in Uploads |-> Status(v)]
        /\ [v \in Uploads |-> Place(v)]' = [v \in Uploads |-> Place(v)]
        /\ [v \in Uploads |-> rec'[v].offset] = [v \in Uploads |-> rec[v].offset]
    BY <1>1, <1>5, <2>1 DEF Status, Place
  <2> QED
    BY <2>2, SameFolder DEF Promise!promise
<1> QED
  BY <1>3, <1>4, <1>5 DEF RowsOK, Rows, St

\* Every step of the server is a step of the promise, or invisible.
LEMMA PromiseStep ==
  ASSUME ServerInv, [Next]_vars
  PROVE  [Promise!PromiseNext]_(Promise!promise)
<1> USE DEF ServerInv, Inv, TypeInv
<1>0. TypeInv' /\ sameFS' = sameFS
  BY TypeStep DEF Next, Always, vars
<1>1. CASE contended' # contended
  BY <1>1, Contends
<1>2. CASE contended' = contended
  <2>1. CASE UNCHANGED <<rec, published>>
    BY <1>2, <2>1, FolderKeeps
  <2>2. ASSUME NEW h \in Handlers, CreateRecord(h) PROVE Promise!PromiseNext
    BY <1>0, <1>2, <2>2, AcceptsRow
  <2>3. ASSUME NEW h \in Handlers, UpdateOffset(h)
        PROVE  [Promise!PromiseNext]_(Promise!promise)
    <3>1. CASE UNCHANGED rec
      BY <1>2, <2>1, <2>3, <3>1 DEF UpdateOffset
    <3> QED
      BY <1>0, <1>2, <2>3, <3>1, AcknowledgesBytes
  <2>4. ASSUME NEW h \in Handlers, CompleteRecord(h)
        PROVE  [Promise!PromiseNext]_(Promise!promise)
    <3>1. CASE Open(req[h].up)
      <4>1. ~UNCHANGED rec
        <5>1. req[h].up \in Uploads
          BY <2>4, BusyHasUpload DEF CompleteRecord, At
        <5>2. rec'[req[h].up].st = "done"
          BY <2>4, <3>1, <5>1 DEF CompleteRecord, RowsOK, Rows
        <5> QED
          BY <3>1, <5>2 DEF Open
      <4> QED
        BY <1>0, <1>2, <2>4, <4>1, ConfirmsUpload
    <3>2. CASE ~Open(req[h].up)
      BY <1>2, <2>1, <2>4, <3>2 DEF CompleteRecord
    <3> QED
      BY <3>1, <3>2
  <2>5. ASSUME NEW h \in Handlers, DeleteRecord(h)
        PROVE  [Promise!PromiseNext]_(Promise!promise)
    <3>1. req[h].up \in Uploads /\ St(req[h].up) # "none"
      BY <2>5, BusyHasUpload DEF DeleteRecord, At, EventInv, HasRow
    <3> QED
      BY <1>0, <1>2, <2>5, <3>1, GivesUp DEF DeleteRecord
  <2>6. ASSUME CleanupDelete PROVE [Promise!PromiseNext]_(Promise!promise)
    <3>1. cl.cur \in Uploads /\ St(cl.cur) # "none"
      BY <2>6 DEF CleanupDelete, RestOK, EventInv, ListKnown
    <3> QED
      BY <1>0, <1>2, <2>6, <3>1, GivesUp DEF CleanupDelete
  <2>7. ASSUME NEW u \in Uploads, Expire(u) PROVE UNCHANGED Promise!promise
    <3>1. \A v \in Uploads : /\ rec'[v].st = rec[v].st /\ rec'[v].offset = rec[v].offset
                             /\ rec'[v].final = rec[v].final
      BY <2>7 DEF Expire, RowsOK, Rows
    <3>2. /\ [v \in Uploads |-> Status(v)]' = [v \in Uploads |-> Status(v)]
          /\ [v \in Uploads |-> Place(v)]' = [v \in Uploads |-> Place(v)]
          /\ [v \in Uploads |-> rec'[v].offset] = [v \in Uploads |-> rec[v].offset]
      BY <2>7, <3>1 DEF Expire, Status, Place
    <3> QED
      BY <1>0, <1>2, <2>7, <3>2, SameFolder DEF Expire, Promise!promise
  <2> QED
    BY <2>1, <2>2, <2>3, <2>4, <2>5, <2>6, <2>7, RowSteps
<1> QED
  BY <1>1, <1>2

\* The server implements the promise as long as requests of one upload do not
\* overlap, however many uploads are finalised at once, by rename or by copy,
\* and whatever the cleanup deletes: an upload is accepted once, its offset only
\* grows, it lands under a free name with all its bytes acknowledged, and is
\* confirmed where it has landed; a confirmed upload's name is taken by nobody,
\* unless two requests have held it, across any crash.
THEOREM PromiseKept ==
  ASSUME Apart
  PROVE  Spec => KeepsPromise
<1>1. Init => Promise!PromiseInit
  <2> SUFFICES ASSUME Init PROVE Promise!PromiseInit
    OBVIOUS
  <2>1. sameFS \in BOOLEAN
    BY FlagsAssumption DEF Init
  <2>2. [n \in Names |-> Shown(n)] \in [Names -> {None, Other}]
    BY DEF Init, Shown
  <2>3. /\ [u \in Uploads |-> Status(u)] = [u \in Uploads |-> "none"]
        /\ [u \in Uploads |-> rec[u].offset] = [u \in Uploads |-> 0]
        /\ [u \in Uploads |-> Place(u)] = [u \in Uploads |-> None]
    BY DEF Init, Status, Place, Row
  <2> QED
    BY <2>1, <2>2, <2>3 DEF Init, Promise!PromiseInit
<1>2. ServerInv /\ [Next]_vars => [Promise!PromiseNext]_(Promise!promise)
  BY PromiseStep
<1> QED
  BY <1>1, <1>2, ServerInvariant, PTL
     DEF Spec, KeepsPromise, Promise!PromiseSpec

=============================================================================
