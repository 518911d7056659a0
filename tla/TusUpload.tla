------------------------------ MODULE TusUpload ------------------------------
(***************************************************************************)
(* The resumable-upload server of goDrive (internal/server/tus.go,         *)
(* internal/server/upload_cleanup.go, internal/store/uploads.go and the    *)
(* finalisation half of internal/files/service.go).                        *)
(*                                                                         *)
(* A request is a goroutine: every system call or SQL statement of its     *)
(* handler is one action, so requests, the TTL cleanup and a crash of the  *)
(* process interleave wherever the code lets them.  All uploads here have  *)
(* the same target folder and the same file name, the case in which they   *)
(* compete for a name: name 0 is "a.txt", name i is "a_0i.txt".            *)
(*                                                                         *)
(* Bytes: position i of the source file of an upload is written only at    *)
(* offset i of a file, so a file is its length and the set of positions    *)
(* that hold the byte of the source; any other position below the length   *)
(* is a hole of zeros.                                                     *)
(***************************************************************************)
EXTENDS Integers, FiniteSets

CONSTANTS
  Uploads,          \* upload ids (random in the code, hence never reused)
  Handlers,         \* request slots: how many requests run at once
  Length,           \* Length[u]: the Upload-Length declared for u
  MaxSuffix,        \* the highest conflict suffix (9999 in AvailableName)
  Mounts,           \* may staging and home root share a file system?
  Overlap,          \* may a request for u start while another one runs?
  CleanupEnabled,   \* GODRIVE_UPLOAD_TTL > 0
  ScanLookupFails,  \* may the orphan scan's GetUpload fail with an error?
  None,             \* no upload: a free name, an idle request
  Other             \* a file in the target folder that no upload put there

ASSUME UploadsAssumption ==
  /\ None \notin Uploads
  /\ Other \notin Uploads
  /\ None # Other
ASSUME LengthAssumption == Length \in [Uploads -> Nat]
ASSUME SuffixAssumption == MaxSuffix \in Nat
ASSUME FlagsAssumption ==
  /\ Mounts # {} /\ Mounts \subseteq BOOLEAN
  /\ {Overlap, CleanupEnabled, ScanLookupFails} \subseteq BOOLEAN

VARIABLES
  sameFS,     \* the home root is on the file system of the staging files
  rec,        \* the row of each upload in table uploads
  part,       \* the inode of each upload's staging file
  staged,     \* the uploads whose staging path <id>.part exists
  owner,      \* the target folder: which upload's file each name is
  by,         \* the request that created the file of a name (EXDEV copy)
  copy,       \* the bytes of a file that was copied, not renamed
  folder,     \* does the target folder still resolve?
  req,        \* the requests being served
  cl,         \* the cleanup goroutine
  published,  \* how many upload.complete events each upload caused
  contended   \* history: the names two requests have held at the same time

vars == <<sameFS, rec, part, staged, owner, by, copy, folder, req, cl,
          published, contended>>

-----------------------------------------------------------------------------
Names == 0..MaxSuffix

\* A staging file: positions run to Length[u], one past the declared end.
Content(u) == [len : 0..(Length[u] + 1), good : SUBSET (0..Length[u])]
Empty == [len |-> 0, good |-> {}]

Truncated(c, k) == [len |-> k, good |-> {i \in c.good : i < k}]
WithByte(c, p) == [len  |-> IF p < c.len THEN c.len ELSE p + 1,
                   good |-> c.good \cup {p}]

Whole(c, u) == c = [len |-> Length[u], good |-> 0..(Length[u] - 1)]

\* The file a name of the target folder shows.
Body(n) == IF sameFS THEN part[owner[n]] ELSE copy[n]

Rows == [st : {"none", "open", "done", "gone"}, offset : Nat,
         final : Names, old : BOOLEAN]
Row(st, offset) == [st |-> st, offset |-> offset, final |-> 0, old |-> FALSE]

Steps == {"idle", "ok", "error",
          "body", "insert",
          "open", "truncate", "patch", "update",
          "check", "name", "move", "copying", "unlink", "finish",
          "remove", "forget"}
IdleRequest == [pc |-> "idle", up |-> None, off |-> 0, pos |-> 0, name |-> 0]
IdleCleanup == [pc |-> "idle", list |-> {}, cur |-> None,
                just |-> {}, parts |-> {}, orphans |-> {}]

\* The process has just started and its first cleanup is next.
BootCleanup == [IdleCleanup EXCEPT !.pc = "boot"]

At(h, step) == req[h].pc = step
Go(h, step) == req' = [req EXCEPT ![h].pc = step]

\* A request for u reaches the server.
MayStart(h, u) ==
  /\ At(h, "idle")
  /\ Overlap \/ \A x \in Handlers : req[x].up # u

Begin(h, u, step, k) ==
  req' = [req EXCEPT ![h] = [pc |-> step, up |-> u, off |-> k, pos |-> k,
                             name |-> 0]]

Open(u) == rec[u].st = "open"

Init ==
  /\ sameFS \in Mounts
  /\ rec = [u \in Uploads |-> Row("none", 0)]
  /\ part = [u \in Uploads |-> Empty]
  /\ staged = {}
  /\ owner \in [Names -> {None, Other}]
  /\ \E h \in Handlers : by = [n \in Names |-> h]
  /\ copy = [n \in Names |-> Empty]
  /\ folder = TRUE
  /\ req = [h \in Handlers |-> IdleRequest]
  /\ cl = BootCleanup
  /\ contended = {}
  /\ published = [u \in Uploads |-> 0]

-----------------------------------------------------------------------------
(* POST /api/tus *)

\* The target folder resolves and the staging file is created (O_EXCL).
CreateFile(h, u) ==
  /\ MayStart(h, u)
  /\ \A x \in Handlers : req[x].up # u    \* the id is new
  /\ rec[u].st = "none" /\ u \notin staged
  /\ folder
  /\ staged' = staged \cup {u}
  /\ part' = [part EXCEPT ![u] = Empty]
  /\ Begin(h, u, "body", 0)
  /\ UNCHANGED <<rec, owner, by, copy, folder, cl, published>>

\* The optional first chunk has been read; the row is next.
CreateBodyEnds(h) ==
  /\ At(h, "body")
  /\ req[h].pos <= Length[req[h].up]
  /\ Go(h, "insert")
  /\ UNCHANGED <<rec, part, staged, owner, by, copy, folder, cl, published>>

\* A failed body, close or INSERT removes the staging file.
CreateFails(h) ==
  /\ req[h].pc \in {"body", "insert"}
  /\ staged' = staged \ {req[h].up}
  /\ Go(h, "error")
  /\ UNCHANGED <<rec, part, owner, by, copy, folder, cl, published>>

CreateRecord(h) ==
  LET u == req[h].up IN
  /\ At(h, "insert")
  /\ rec' = [rec EXCEPT ![u] = Row("open", req[h].pos)]
  /\ Go(h, IF req[h].pos = Length[u] THEN "check" ELSE "ok")
  /\ UNCHANGED <<part, staged, owner, by, copy, folder, cl, published>>

-----------------------------------------------------------------------------
(* PATCH /api/tus/{id} *)

\* The row exists, is not completed, and the client's offset is the row's.
PatchRead(h, u) ==
  /\ MayStart(h, u)
  /\ Open(u)
  /\ Begin(h, u, "open", rec[u].offset)
  /\ UNCHANGED <<rec, part, staged, owner, by, copy, folder, cl, published>>

\* The path is checked and opened: from here on the request holds the inode.
PatchOpen(h) ==
  /\ At(h, "open")
  /\ Go(h, IF req[h].up \in staged THEN "truncate" ELSE "error")
  /\ UNCHANGED <<rec, part, staged, owner, by, copy, folder, cl, published>>

\* Mutant: the staging file is not repaired after an interrupted PATCH.
PatchKeepsTail(h) ==
  /\ At(h, "truncate")
  /\ Go(h, "patch")
  /\ UNCHANGED <<rec, part, staged, owner, by, copy, folder, cl, published>>

\* The file is cut, or grown with zeros, to the offset read from the row.
PatchTruncate(h) ==
  /\ At(h, "truncate")
  /\ part' = [part EXCEPT ![req[h].up] = Truncated(@, req[h].off)]
  /\ Go(h, "patch")
  /\ UNCHANGED <<rec, staged, owner, by, copy, folder, cl, published>>

\* Mutant: io.Copy without the LimitReader.
WriteUnlimited(h) ==
  LET u == req[h].up IN
  /\ req[h].pc \in {"body", "patch"}
  /\ req[h].pos <= Length[u] + 1
  /\ part' = [part EXCEPT ![u] = WithByte(@, req[h].pos)]
  /\ req' = [req EXCEPT ![h].pos = @ + 1]
  /\ UNCHANGED <<rec, staged, owner, by, copy, folder, cl, published>>

\* copyUploadChunk writes the next byte, at most one past the length.
WriteByte(h) ==
  LET u == req[h].up IN
  /\ req[h].pc \in {"body", "patch"}
  /\ req[h].pos <= Length[u]
  /\ part' = [part EXCEPT ![u] = WithByte(@, req[h].pos)]
  /\ req' = [req EXCEPT ![h].pos = @ + 1]
  /\ UNCHANGED <<rec, staged, owner, by, copy, folder, cl, published>>

\* Mutant: a failed PATCH restarts the staging file.
PatchFailsToZero(h) ==
  /\ At(h, "patch")
  /\ part' = [part EXCEPT ![req[h].up] = Truncated(@, 0)]
  /\ Go(h, "error")
  /\ UNCHANGED <<rec, staged, owner, by, copy, folder, cl, published>>

\* The connection breaks or the chunk is too long: back to the old offset.
PatchFails(h) ==
  /\ At(h, "patch")
  /\ part' = [part EXCEPT ![req[h].up] = Truncated(@, req[h].off)]
  /\ Go(h, "error")
  /\ UNCHANGED <<rec, staged, owner, by, copy, folder, cl, published>>

\* The body ends within the length (and the final chunk is synced).
PatchEnds(h) ==
  /\ At(h, "patch")
  /\ req[h].pos <= Length[req[h].up]
  /\ Go(h, "update")
  /\ UNCHANGED <<rec, part, staged, owner, by, copy, folder, cl, published>>

\* Mutant: the size of the chunk is recorded instead of the new offset.
UpdateChunkSize(h) ==
  LET u == req[h].up
      n == req[h].pos - req[h].off IN
  /\ At(h, "update")
  /\ IF Open(u)
       THEN /\ rec' = [rec EXCEPT ![u].offset = n, ![u].old = FALSE]
            /\ Go(h, IF n = Length[u] THEN "check" ELSE "ok")
       ELSE /\ Go(h, "error")
            /\ UNCHANGED rec
  /\ UNCHANGED <<part, staged, owner, by, copy, folder, cl, published>>

\* UPDATE ... WHERE completed_at IS NULL: the offset is acknowledged.
UpdateOffset(h) ==
  LET u == req[h].up IN
  /\ At(h, "update")
  /\ IF Open(u)
       THEN /\ rec' = [rec EXCEPT ![u].offset = req[h].pos, ![u].old = FALSE]
            /\ Go(h, IF req[h].pos = Length[u] THEN "check" ELSE "ok")
       ELSE /\ Go(h, "error")
            /\ UNCHANGED rec
  /\ UNCHANGED <<part, staged, owner, by, copy, folder, cl, published>>

-----------------------------------------------------------------------------
(* completeUpload, shared by POST and PATCH *)

\* The row is read again: a completed one is reported as it is.
CompleteCheck(h) ==
  LET u == req[h].up IN
  /\ At(h, "check")
  /\ Go(h, CASE rec[u].st = "done" -> "ok"
             [] Open(u) /\ rec[u].offset = Length[u] /\ u \in staged -> "name"
             [] OTHER -> "error")
  /\ UNCHANGED <<rec, part, staged, owner, by, copy, folder, cl, published>>

\* Mutant: the suffix loop stops at the first name, free or not.
FirstName(n) == n = 0

\* AvailableName: the first suffix whose name is free at this moment.
IsAvailable(n) == owner[n] = None /\ \A m \in Names : m < n => owner[m] # None

FindName(h) ==
  /\ At(h, "name")
  /\ \/ \E n \in Names :
          /\ folder /\ IsAvailable(n)
          /\ req' = [req EXCEPT ![h].pc = "move", ![h].name = n]
     \/ /\ ~folder \/ \A n \in Names : owner[n] # None
        /\ Go(h, "error")
  /\ UNCHANGED <<rec, part, staged, owner, by, copy, folder, cl, published>>

\* rename(2) within one file system: it replaces whatever the name shows.
Rename(h) ==
  LET u == req[h].up
      n == req[h].name IN
  /\ At(h, "move") /\ sameFS
  /\ IF u \in staged /\ folder
       THEN /\ owner' = [owner EXCEPT ![n] = u]
            /\ staged' = staged \ {u}
            /\ Go(h, "finish")
       ELSE /\ Go(h, "error")
            /\ UNCHANGED <<owner, staged>>
  /\ UNCHANGED <<rec, part, by, copy, folder, cl, published>>

\* os.RemoveAll(target) after a failed copy: whoever made the file, it goes.
TargetRemoved(h) ==
  IF folder THEN [owner EXCEPT ![req[h].name] = None] ELSE owner

\* EXDEV: the copy starts by creating the target with O_EXCL.
CopyCreate(h) ==
  LET u == req[h].up
      n == req[h].name IN
  /\ At(h, "move") /\ ~sameFS
  /\ \/ /\ u \in staged /\ folder /\ owner[n] = None
        /\ owner' = [owner EXCEPT ![n] = u]
        /\ by' = [by EXCEPT ![n] = h]
        /\ copy' = [copy EXCEPT ![n] = Empty]
        /\ Go(h, "copying")
     \/ /\ u \notin staged \/ ~folder \/ owner[n] # None
        /\ owner' = TargetRemoved(h)
        /\ Go(h, "error")
        /\ UNCHANGED <<by, copy>>
  /\ UNCHANGED <<rec, part, staged, folder, cl, published>>

\* The bytes arrive in the file this request created, if it is still there;
\* Chtimes fails, and with it the copy, when the name is gone.
CopyData(h) ==
  LET u == req[h].up
      n == req[h].name IN
  /\ At(h, "copying")
  /\ copy' = IF owner[n] = u /\ by[n] = h
               THEN [copy EXCEPT ![n] = part[u]] ELSE copy
  /\ Go(h, IF folder /\ owner[n] # None THEN "unlink" ELSE "error")
  /\ UNCHANGED <<rec, part, staged, owner, by, folder, cl, published>>

\* Mutant: an error of io.Copy is ignored.
CopyErrorIgnored(h) ==
  /\ At(h, "copying")
  /\ Go(h, "unlink")
  /\ UNCHANGED <<rec, part, staged, owner, by, copy, folder, cl, published>>

\* The copy fails half-way (a full disk).
CopyFails(h) ==
  /\ At(h, "copying")
  /\ owner' = TargetRemoved(h)
  /\ Go(h, "error")
  /\ UNCHANGED <<rec, part, staged, by, copy, folder, cl, published>>

\* os.RemoveAll(source) after the copy.
RemoveSource(h) ==
  /\ At(h, "unlink")
  /\ staged' = staged \ {req[h].up}
  /\ Go(h, "finish")
  /\ UNCHANGED <<rec, part, owner, by, copy, folder, cl, published>>

\* Mutant: the UPDATE without its WHERE on completed_at.
CompleteAgain(h) ==
  LET u == req[h].up IN
  /\ At(h, "finish")
  /\ rec' = [rec EXCEPT ![u].st = "done", ![u].final = req[h].name]
  /\ published' = [published EXCEPT ![u] = @ + 1]
  /\ Go(h, "ok")
  /\ UNCHANGED <<part, staged, owner, by, copy, folder, cl>>

\* CompleteUpload, WHERE completed_at IS NULL; then index, preview, event.
CompleteRecord(h) ==
  LET u == req[h].up IN
  /\ At(h, "finish")
  /\ IF Open(u)
       THEN /\ rec' = [rec EXCEPT ![u].st = "done",
                                   ![u].offset = Length[u],
                                   ![u].final = req[h].name]
            /\ published' = [published EXCEPT ![u] = @ + 1]
            /\ Go(h, "ok")
       ELSE /\ Go(h, "error")
            /\ UNCHANGED <<rec, published>>
  /\ UNCHANGED <<part, staged, owner, by, copy, folder, cl>>

-----------------------------------------------------------------------------
(* DELETE /api/tus/{id} *)

DeleteRead(h, u) ==
  /\ MayStart(h, u)
  /\ Open(u) /\ u \in staged
  /\ Begin(h, u, "remove", 0)
  /\ UNCHANGED <<rec, part, staged, owner, by, copy, folder, cl, published>>

DeleteFile(h) ==
  /\ At(h, "remove")
  /\ staged' = staged \ {req[h].up}
  /\ Go(h, "forget")
  /\ UNCHANGED <<rec, part, owner, by, copy, folder, cl, published>>

\* DELETE FROM uploads WHERE id = ?: the row goes, completed or not.
Deleted(u) == [rec EXCEPT ![u] = Row("gone", 0)]

DeleteRecord(h) ==
  /\ At(h, "forget")
  /\ rec' = Deleted(req[h].up)
  /\ Go(h, IF rec[req[h].up].st \in {"open", "done"} THEN "ok" ELSE "error")
  /\ UNCHANGED <<part, staged, owner, by, copy, folder, cl, published>>

-----------------------------------------------------------------------------
(* What can happen to any request *)

\* A cancelled request context or an I/O error ends the handler early; the
\* steps that clean up after an error have actions of their own above.
Abort(h) ==
  /\ req[h].pc \in {"open", "truncate", "update", "check", "name", "move",
                    "unlink", "finish", "remove", "forget"}
  /\ Go(h, "error")
  /\ UNCHANGED <<rec, part, staged, owner, by, copy, folder, cl, published>>

\* The response leaves, whether or not anybody still waits for it.
Respond(h) ==
  /\ req[h].pc \in {"ok", "error"}
  /\ req' = [req EXCEPT ![h] = IdleRequest]
  /\ UNCHANGED <<rec, part, staged, owner, by, copy, folder, cl, published>>

\* The process stops and starts again: rows and files stay.
Crash ==
  /\ req' = [h \in Handlers |-> IdleRequest]
  /\ cl' = BootCleanup
  /\ UNCHANGED <<rec, part, staged, owner, by, copy, folder, published>>

\* The target folder is moved, deleted or renamed by somebody.
FolderGone ==
  /\ folder
  /\ folder' = FALSE
  /\ UNCHANGED <<rec, part, staged, owner, by, copy, req, cl, published>>

-----------------------------------------------------------------------------
(* RunUploadCleanup *)

\* The TTL passes without an update of the row.
Expire(u) ==
  /\ Open(u) /\ ~rec[u].old
  /\ rec' = [rec EXCEPT ![u].old = TRUE]
  /\ UNCHANGED <<part, staged, owner, by, copy, folder, req, cl, published>>

\* ListExpiredUploads, when the process starts and whenever the ticker fires:
\* the list is not looked at again in the table.
CleanupList ==
  LET expired == {u \in Uploads : Open(u) /\ rec[u].old} IN
  /\ CleanupEnabled /\ cl.pc \in {"boot", "idle"}
  /\ cl' = [cl EXCEPT !.pc = "expire", !.list = expired, !.just = expired]
  /\ UNCHANGED <<rec, part, staged, owner, by, copy, folder, req, published>>

CleanupRemove(u) ==
  /\ cl.pc = "expire" /\ cl.cur = None /\ u \in cl.list
  /\ staged' = staged \ {u}
  /\ cl' = [cl EXCEPT !.cur = u, !.list = @ \ {u}]
  /\ UNCHANGED <<rec, part, owner, by, copy, folder, req, published>>

CleanupDelete ==
  /\ cl.pc = "expire" /\ cl.cur # None
  /\ rec' = Deleted(cl.cur)
  /\ cl' = [cl EXCEPT !.cur = None]
  /\ UNCHANGED <<part, staged, owner, by, copy, folder, req, published>>

\* Mutant: the cleanup of expired rows without the orphan scan.
ScanNothing ==
  /\ cl.pc = "expire" /\ cl.cur = None /\ cl.list = {}
  /\ cl' = [cl EXCEPT !.pc = "scan"]
  /\ UNCHANGED <<rec, part, staged, owner, by, copy, folder, req, published>>

\* WalkDir reads the directory; files of the listed uploads are skipped.
ScanStart ==
  /\ cl.pc = "expire" /\ cl.cur = None /\ cl.list = {}
  /\ cl' = [cl EXCEPT !.pc = "scan", !.parts = staged \ cl.just]
  /\ UNCHANGED <<rec, part, staged, owner, by, copy, folder, req, published>>

\* GetUpload per file: no row, or any error of the query, is an orphan.
ScanPart(u) ==
  /\ cl.pc = "scan" /\ u \in cl.parts
  /\ \E orphan \in BOOLEAN :
       /\ orphan => rec[u].st \in {"none", "gone"} \/ ScanLookupFails
       /\ ~orphan => rec[u].st \in {"open", "done"}
       /\ cl' = [cl EXCEPT !.parts = @ \ {u},
                           !.orphans = IF orphan THEN @ \cup {u} ELSE @]
  /\ UNCHANGED <<rec, part, staged, owner, by, copy, folder, req, published>>

SweepOrphan(u) ==
  /\ cl.pc = "scan" /\ cl.parts = {} /\ u \in cl.orphans
  /\ staged' = staged \ {u}
  /\ cl' = [cl EXCEPT !.orphans = @ \ {u}]
  /\ UNCHANGED <<rec, part, owner, by, copy, folder, req, published>>

CleanupDone ==
  /\ cl.pc = "scan" /\ cl.parts = {} /\ cl.orphans = {}
  /\ cl' = IdleCleanup
  /\ UNCHANGED <<rec, part, staged, owner, by, copy, folder, req, published>>

-----------------------------------------------------------------------------
\* A request arrives.
Arrive(h) ==
  \E u \in Uploads : CreateFile(h, u) \/ PatchRead(h, u) \/ DeleteRead(h, u)

\* A request goes on.
Handle(h) ==
  \/ CreateBodyEnds(h) \/ CreateFails(h) \/ CreateRecord(h)
  \/ PatchOpen(h) \/ PatchTruncate(h) \/ WriteByte(h)
  \/ PatchFails(h) \/ PatchEnds(h) \/ UpdateOffset(h)
  \/ CompleteCheck(h) \/ FindName(h) \/ Rename(h)
  \/ CopyCreate(h) \/ CopyData(h) \/ CopyFails(h) \/ RemoveSource(h)
  \/ CompleteRecord(h)
  \/ DeleteFile(h) \/ DeleteRecord(h)
  \/ Abort(h)

Request(h) == Arrive(h) \/ Handle(h) \/ Respond(h)

Cleanup ==
  \/ CleanupList \/ CleanupDelete \/ ScanStart \/ CleanupDone
  \/ \E u \in Uploads : CleanupRemove(u) \/ ScanPart(u) \/ SweepOrphan(u)

Environment == Crash \/ FolderGone \/ \E u \in Uploads : Expire(u)

\* The names that two requests hold: picked, and not yet in a row.
Holds(h, n) ==
  req[h].pc \in {"move", "copying", "unlink", "finish"} /\ req[h].name = n
Shared == {n \in Names : \E g, h \in Handlers : g # h /\ Holds(g, n) /\ Holds(h, n)}

\* What all steps have in common.
Always == UNCHANGED sameFS /\ contended' = contended \cup Shared'

Next ==
  /\ (\E h \in Handlers : Request(h)) \/ Cleanup \/ Environment
  /\ Always

Spec == Init /\ [][Next]_vars

\* The clock passes the TTL of an upload left alone, and the ticker starts the
\* cleanup again and again.
Upkeep ==
  /\ \A u \in Uploads : WF_vars(Expire(u) /\ Always)
  /\ WF_vars(Cleanup /\ Always)

-----------------------------------------------------------------------------
(* Properties *)

\* Every variable stays in its domain; in particular no file grows past one
\* byte beyond its declared length (the LimitReader of copyUploadChunk).
TypeOK ==
  /\ sameFS \in Mounts
  /\ rec \in [Uploads -> Rows]
  /\ \A u \in Uploads : rec[u].offset <= Length[u]
  /\ DOMAIN part = Uploads /\ \A u \in Uploads : part[u] \in Content(u)
  /\ staged \subseteq Uploads
  /\ owner \in [Names -> Uploads \cup {None, Other}]
  /\ by \in [Names -> Handlers]
  /\ DOMAIN copy = Names
  /\ \A n \in Names : copy[n] \in {Empty} \cup UNION {Content(u) : u \in Uploads}
  /\ folder \in BOOLEAN
  /\ req \in [Handlers -> [pc : Steps, up : Uploads \cup {None},
                          off : Nat, pos : Nat, name : Names]]
  /\ cl \in [pc : {"boot", "idle", "expire", "scan"}, list : SUBSET Uploads,
             cur : Uploads \cup {None}, just : SUBSET Uploads,
             parts : SUBSET Uploads, orphans : SUBSET Uploads]
  /\ published \in [Uploads -> Nat]
  /\ Shared \subseteq contended /\ contended \subseteq Names

\* What the server has acknowledged is on disk: while an upload is open and
\* its staging file exists, that file holds every byte below the recorded
\* offset, so a client that resumes at the offset leaves no hole.
AcknowledgedBytesStaged ==
  \A u \in Uploads :
    Open(u) /\ u \in staged =>
      /\ rec[u].offset <= part[u].len
      /\ 0..(rec[u].offset - 1) \subseteq part[u].good

\* Atomic finalisation: a file that rename(2) put into the target folder is,
\* from the moment its name shows and for good, the whole source file.
NamedIsWhole ==
  sameFS => \A n \in Names :
              owner[n] \in Uploads => Whole(Body(n), owner[n])

\* What is left of it when finalisation copies: the name shows a partial
\* file for a while, but the file of a completed upload is whole.
CompletedIsWhole ==
  \A u \in Uploads :
    rec[u].st = "done" /\ owner[rec[u].final] = u => Whole(Body(rec[u].final), u)

\* Conflict-safe naming: a completed upload is found under its final path.
CompletedIsThere ==
  \A u \in Uploads : rec[u].st = "done" => owner[rec[u].final] = u

\* What is left of it when requests overlap: a completed upload is found under
\* its final path, however uploads of the name come, fail half-way and crash,
\* unless two requests found that name free at the same time (AvailableName
\* looks, and the move comes later).
UncontendedIsThere ==
  \A u \in Uploads :
    rec[u].st = "done" /\ rec[u].final \notin contended
      => owner[rec[u].final] = u

\* The acknowledged offset of an open upload never moves backwards.
OffsetMonotone ==
  [][\A u \in Uploads :
       Open(u) /\ Open(u)' => rec[u].offset <= rec'[u].offset]_vars

\* At most one upload.complete event per upload, however many requests,
\* retries and restarts try to finish it.
PublishedOnce == \A u \in Uploads : published[u] <= 1

\* Staging space is given back: once the process stays up (the first cleanup
\* after a start is never again due), a staging file on which no request works
\* (an abandoned upload, or what a crash left behind between the file and its
\* row) is removed, completed or worked on again.
StagingReclaimed ==
  <>[](cl.pc # "boot") =>
    \A u \in Uploads :
      []<>(u \notin staged \/ \E h \in Handlers : req[h].up = u)
=============================================================================
