-------------------------- MODULE UploadClientProofs --------------------------
(***************************************************************************)
(* The app's queue for every number of files, uploads, requests and        *)
(* attempts: its steps are steps of the server or leave it alone, it gives *)
(* up an upload only when the server has forgotten it, and without the TTL *)
(* cleanup it stores a non-empty file once, however often it retries.      *)
(***************************************************************************)
EXTENDS UploadClient, TusUploadProofs, FiniteSetTheorems

-----------------------------------------------------------------------------
(* What an item knows *)

Stages == {"rest", "head", "create", "creating", "patch", "patching"}

ItemShape == [st : {"queued", "uploading", "done", "error"}, stage : Stages,
              url : Uploads \cup {None}, off : Nat, tries : Nat,
              h : Handlers \cup {None}]

\* An attempt asks for a new upload when the item knows none, and for the
\* one it knows otherwise.
ItemOK(it) ==
  /\ it \in ItemShape
  /\ it.stage \in {"create", "creating"} => it.url = None
  /\ it.stage \in {"head", "patch", "patching"} => it.url # None

ItemsOK == DOMAIN item = Items /\ item = [i \in Items |-> item[i]]
                               /\ \A i \in Items : ItemOK(item[i])

\* The verdict on an attempt keeps the upload the item knows.
LEMMA VerdictShape ==
  ASSUME NEW it, ItemOK(it)
  PROVE  /\ ItemOK(Failed(it)) /\ Failed(it).url = it.url
         /\ ItemOK(Succeeded(it)) /\ Succeeded(it).url = it.url
<1>1. FirstStage(it) = "head" \/ (FirstStage(it) = "create" /\ it.url = None)
  BY DEF FirstStage
<1>2. FirstStage(it) = "head" => it.url # None
  BY DEF FirstStage
<1>3. /\ ItemOK(Succeeded(it)) /\ Succeeded(it).url = it.url
  BY DEF ItemOK, ItemShape, Stages, Succeeded
<1>4. CASE it.tries < MaxAttempts
  <2>1. PICK f \in Stages : f = FirstStage(it)
    BY <1>1 DEF Stages
  <2>2. PICK k \in Nat : k = it.tries + 1
    BY DEF ItemOK, ItemShape
  <2>3. Failed(it) = [it EXCEPT !.tries = k, !.stage = f, !.h = None]
    BY <1>4, <2>1, <2>2 DEF Failed
  <2>4. ItemOK([it EXCEPT !.tries = k, !.stage = f, !.h = None])
    BY <1>1, <1>2, <2>1 DEF ItemOK, ItemShape
  <2> QED
    BY <1>3, <2>3, <2>4 DEF ItemOK, ItemShape
<1>5. CASE ~(it.tries < MaxAttempts)
  <2>1. Failed(it) = [it EXCEPT !.st = "error", !.stage = "rest", !.h = None]
    BY <1>5 DEF Failed
  <2> QED
    BY <1>3, <2>1 DEF ItemOK, ItemShape, Stages
<1> QED
  BY <1>4, <1>5

\* One item changes: it keeps its upload, had none, or lost it to a 404.
LEMMA ItemBecomes ==
  ASSUME ItemsOK, NEW i \in Items, NEW it, ItemOK(it), Becomes(i, it),
         \/ it.url = item[i].url \/ item[i].url = None
         \/ rec[item[i].url].st = "gone"
  PROVE  /\ ItemsOK'
         /\ \A j \in Items : \/ item'[j].url = item[j].url
                             \/ item[j].url = None
                             \/ rec[item[j].url].st = "gone"
BY DEF ItemsOK, Becomes

\* Every step of the queue keeps ItemsOK, and an item drops an upload only
\* when the server has told it that the upload is gone.
LEMMA ItemsStep ==
  ASSUME TypeInv, ItemsOK, [ClientNext]_cvars
  PROVE  /\ ItemsOK'
         /\ \A j \in Items : \/ item'[j].url = item[j].url
                             \/ item[j].url = None
                             \/ rec[item[j].url].st = "gone"
<1> DEFINE Result == /\ ItemsOK'
                     /\ \A j \in Items : \/ item'[j].url = item[j].url
                                         \/ item[j].url = None
                                         \/ rec[item[j].url].st = "gone"
<1>1. ASSUME item' = item PROVE Result
  BY <1>1 DEF ItemsOK
<1>2. \A i \in Items : /\ ItemOK(item[i]) /\ ItemOK(Failed(item[i]))
                       /\ ItemOK(Succeeded(item[i]))
                       /\ Failed(item[i]).url = item[i].url
                       /\ Succeeded(item[i]).url = item[i].url
  BY VerdictShape DEF ItemsOK
<1> DEFINE Keeps(i) == \E it : /\ ItemOK(it) /\ Becomes(i, it)
                               /\ \/ it.url = item[i].url
                                  \/ item[i].url = None
                                  \/ rec[item[i].url].st = "gone"
<1>3. ASSUME NEW i \in Items, Keeps(i) PROVE Result
  BY <1>3, ItemBecomes
<1> HIDE DEF Result
<1>a. ASSUME NEW i \in Items, NEW it, ItemOK(it), Becomes(i, it),
             \/ it.url = item[i].url \/ item[i].url = None
             \/ rec[item[i].url].st = "gone"
      PROVE  Keeps(i)
  BY <1>a
<1> HIDE DEF Keeps
<1>4. ASSUME NEW i \in Items, StartUpload(i) PROVE Keeps(i)
  <2>1. PICK f \in {"head", "create"} : f = FirstStage(item[i])
    BY DEF FirstStage
  <2>2. Becomes(i, [item[i] EXCEPT !.st = "uploading", !.tries = 1,
                                   !.stage = f])
    BY <1>4, <2>1 DEF StartUpload
  <2>3. /\ f = "head" => item[i].url # None
        /\ f = "create" => item[i].url = None
    BY <2>1 DEF FirstStage
  <2>4. /\ ItemOK([item[i] EXCEPT !.st = "uploading", !.tries = 1,
                                  !.stage = f])
        /\ [item[i] EXCEPT !.st = "uploading", !.tries = 1,
                           !.stage = f].url = item[i].url
    BY <1>2, <2>3 DEF ItemOK, ItemShape, Stages
  <2> QED
    BY <1>a, <2>2, <2>4
<1>5. ASSUME NEW i \in Items, HeadAnswered(i) PROVE Keeps(i)
  <2>1. PICK u \in Uploads : u = item[i].url
    BY <1>2, <1>5 DEF HeadAnswered, Stage, ItemOK, ItemShape
  <2>2. rec[u].offset \in Nat
    BY DEF TypeInv, RowsOK, Rows
  <2>3. CASE rec[u].st = "gone"
    <3>1. Becomes(i, [item[i] EXCEPT !.url = None, !.stage = "create"])
      BY <1>5, <2>1, <2>3 DEF HeadAnswered
    <3>2. ItemOK([item[i] EXCEPT !.url = None, !.stage = "create"])
      BY <1>2 DEF ItemOK, ItemShape, Stages
    <3> QED
      BY <1>a, <2>1, <2>3, <3>1, <3>2
  <2>4. CASE rec[u].st # "gone" /\ rec[u].offset >= Length[u]
    <3>1. Becomes(i, Succeeded(item[i]))
      BY <1>5, <2>1, <2>4 DEF HeadAnswered
    <3> QED
      BY <1>2, <1>a, <3>1
  <2>5. CASE rec[u].st # "gone" /\ ~(rec[u].offset >= Length[u])
    <3>1. Becomes(i, [item[i] EXCEPT !.stage = "patch",
                                     !.off = rec[u].offset])
      BY <1>5, <2>1, <2>5 DEF HeadAnswered
    <3>2. item[i].url # None
      BY <2>1, UploadsAssumption
    <3>3. /\ ItemOK([item[i] EXCEPT !.stage = "patch",
                                    !.off = rec[u].offset])
          /\ [item[i] EXCEPT !.stage = "patch",
                             !.off = rec[u].offset].url = item[i].url
      BY <1>2, <2>2, <3>2 DEF ItemOK, ItemShape, Stages
    <3> QED
      BY <1>a, <3>1, <3>3
  <2> QED
    BY <2>3, <2>4, <2>5
<1>6. ASSUME NEW i \in Items, NEW h \in Handlers, NEW u \in Uploads,
             SendCreate(i, h, u)
      PROVE  Keeps(i)
  <2>1. Becomes(i, [item[i] EXCEPT !.stage = "creating", !.h = h])
    BY <1>6 DEF SendCreate
  <2>2. item[i].url = None
    BY <1>2, <1>6 DEF SendCreate, Stage, ItemOK
  <2>3. ItemOK([item[i] EXCEPT !.stage = "creating", !.h = h])
    BY <1>2, <2>2 DEF ItemOK, ItemShape, Stages
  <2> QED
    BY <1>a, <2>1, <2>2, <2>3
<1>7. ASSUME NEW i \in Items, NEW h \in Handlers, SendPatch(i, h)
      PROVE  Keeps(i)
  <2>1. Becomes(i, [item[i] EXCEPT !.stage = "patching", !.h = h])
    BY <1>7 DEF SendPatch
  <2>2. item[i].url # None
    BY <1>2, <1>7 DEF SendPatch, Stage, ItemOK
  <2>3. /\ ItemOK([item[i] EXCEPT !.stage = "patching", !.h = h])
        /\ [item[i] EXCEPT !.stage = "patching", !.h = h].url = item[i].url
    BY <1>2, <2>2 DEF ItemOK, ItemShape, Stages
  <2> QED
    BY <1>a, <2>1, <2>3
<1>8. ASSUME NEW i \in Items, PatchRefused(i) \/ ConnectionLost(i)
      PROVE  Keeps(i)
  BY <1>2, <1>8, <1>a DEF PatchRefused, ConnectionLost
<1>9. ASSUME NEW i \in Items, UserRetries(i) PROVE Keeps(i)
  <2>1. /\ ItemOK([item[i] EXCEPT !.st = "queued"])
        /\ [item[i] EXCEPT !.st = "queued"].url = item[i].url
    BY <1>2 DEF ItemOK, ItemShape, Stages
  <2> QED
    BY <1>a, <1>9, <2>1 DEF UserRetries
<1>10. ASSUME NEW i \in Items, NEW h \in Handlers, ReplyArrives(i, h)
       PROVE  Keeps(i)
  <2>1. CASE At(h, "error") /\ ~Created(i, h)
    <3>1. Becomes(i, Failed(item[i]))
      BY <1>10, <2>1 DEF ReplyArrives
    <3> QED
      BY <1>2, <1>a, <3>1
  <2>2. CASE Created(i, h)
    <3>1. req[h].up \in Uploads /\ req[h].up # None
      BY <1>10, BusyHasUpload, UploadsAssumption DEF ReplyArrives, Respond, At, TypeInv
    <3>2. Becomes(i, [item[i] EXCEPT !.stage = "patch", !.url = req[h].up,
                                     !.off = 0, !.h = None])
      BY <1>10, <2>2 DEF ReplyArrives
    <3>3. item[i].url = None
      BY <1>2, <2>2 DEF ItemOK, Created
    <3>4. ItemOK([item[i] EXCEPT !.stage = "patch", !.url = req[h].up,
                                 !.off = 0, !.h = None])
      BY <1>2, <3>1 DEF ItemOK, ItemShape, Stages
    <3> QED
      BY <1>a, <3>2, <3>3, <3>4
  <2>3. CASE ~At(h, "error") /\ ~Created(i, h)
    <3>1. Becomes(i, Succeeded(item[i]))
      BY <1>10, <2>3 DEF ReplyArrives
    <3> QED
      BY <1>2, <1>a, <3>1
  <2> QED
    BY <2>1, <2>2, <2>3
<1>11. ASSUME ServerCrashes PROVE Result
  BY <1>2, <1>11 DEF ServerCrashes, ItemsOK, Result
<1>12. ASSUME NEW i \in Items, Client(i) \/ UserRetries(i) PROVE Keeps(i)
  BY <1>4, <1>5, <1>6, <1>7, <1>8, <1>9, <1>10, <1>12 DEF Client
<1>13. Result
  BY <1>1, <1>3, <1>11, <1>12 DEF ClientNext, cvars
<1> QED
  BY <1>13 DEF Result

\* A step of the queue is a step of the server or leaves it alone.
LEMMA ServerStep == ItemsOK /\ [ClientNext]_cvars => [Next]_vars
<1> SUFFICES ASSUME ItemsOK, [ClientNext]_cvars PROVE [Next]_vars
  OBVIOUS
<1>1. CASE UNCHANGED cvars
  BY <1>1 DEF cvars
<1>2. ASSUME NEW h \in Handlers, Always,
             \/ Handle(h) \/ Respond(h)
             \/ \E u \in Uploads : CreateFile(h, u) \/ PatchRead(h, u)
      PROVE  Next
  BY <1>2 DEF Next, Request, Arrive
<1>3. ASSUME NEW i \in Items, Client(i) \/ UserRetries(i), Always
      PROVE  [Next]_vars
  <2>1. ASSUME \/ StartUpload(i) \/ HeadAnswered(i) \/ PatchRefused(i)
               \/ ConnectionLost(i) \/ UserRetries(i)
        PROVE  UNCHANGED vars
    BY <2>1 DEF StartUpload, HeadAnswered, PatchRefused, ConnectionLost,
                UserRetries
  <2>2. ASSUME NEW h \in Handlers, SendPatch(i, h)
        PROVE  PatchRead(h, item[i].url) /\ item[i].url \in Uploads
    BY <2>2 DEF SendPatch, Stage, ItemsOK, ItemOK, ItemShape
  <2>3. ASSUME NEW h \in Handlers, ReplyArrives(i, h) PROVE Respond(h)
    BY <2>3 DEF ReplyArrives
  <2>4. ASSUME NEW h \in Handlers, NEW u \in Uploads, SendCreate(i, h, u)
        PROVE  CreateFile(h, u)
    BY <2>4 DEF SendCreate
  <2> QED
    BY <1>2, <1>3, <2>1, <2>2, <2>3, <2>4 DEF Client
<1>4. ASSUME ServerCrashes \/ Cleanup \/ FolderGone
             \/ \E u \in Uploads : Expire(u),
             Always
      PROVE  Next
  BY <1>4 DEF ServerCrashes, Next, Environment
<1>5. ASSUME NEW h \in Handlers, HandleFromClient(h) PROVE Handle(h)
  BY <1>5 DEF HandleFromClient
<1> QED
  BY <1>1, <1>2, <1>3, <1>4, <1>5 DEF ClientNext

\* At the start every item waits and knows no upload.
LEMMA ItemsInit == ClientInit => Init /\ ItemsOK
BY DEF ClientInit, ItemsOK, ItemOK, ItemShape, Stages

\* The invariants of the server and of the items hold for good.
LEMMA ItemsInvariant ==
  ClientSpec => /\ [](TypeInv /\ EventInv /\ ItemsOK) /\ Init
                /\ [][Next]_vars
<1>1. ClientInit => Init /\ TypeInv /\ EventInv /\ ItemsOK
  BY ItemsInit, TypeInit, EventInit
<1>2. TypeInv /\ EventInv /\ ItemsOK /\ [ClientNext]_cvars
        => TypeInv' /\ EventInv' /\ ItemsOK' /\ [Next]_vars
  BY ServerStep, ItemsStep, TypeStep, EventStep
<1> QED
  BY <1>1, <1>2, PTL DEF ClientSpec

\* The queue drives the server only in ways the server's own specification
\* allows: what is proved of every client holds behind this one.
THEOREM ServerImplemented == ClientSpec => Spec
BY ItemsInvariant, PTL DEF Spec

\* One upload.complete event per upload, however often the queue resumes,
\* retries or gives up requests that the server goes on with.
THEOREM RetriesPublishOnce == ClientSpec => []PublishedOnce
BY ServerImplemented, EventPublishedOnce, PTL

\* A broken connection is followed by a resume: the queue gives up the URL of
\* an upload only when the server no longer knows it.
THEOREM ResumesKnown == ClientSpec => ResumesKnownUpload
<1>1. TypeInv /\ ItemsOK /\ [ClientNext]_cvars
        => [\A i \in Items :
              item[i].url # None /\ item'[i].url # item[i].url
                => rec[item[i].url].st = "gone"]_cvars
  BY ItemsStep
<1> QED
  BY <1>1, ItemsInvariant, PTL DEF ClientSpec, ResumesKnownUpload

-----------------------------------------------------------------------------
(* A file is stored once *)

\* The upload is the one some item knows.
Mine(u) == \E i \in Items : item[i].url = u

\* A request that works on an upload that has a row.
BeyondInsert(h) == req[h].pc \notin {"idle", "ok", "error", "body", "insert"}

\* Nothing forgets an upload: there is no cleanup, and the queue deletes none.
Remembered ==
  /\ cl.pc \in {"boot", "idle"}
  /\ \A u \in Uploads : St(u) # "gone"
  /\ \A h \in Handlers : req[h].pc \notin {"remove", "forget"}

\* A POST carries no bytes; every other request is about an item's upload, so
\* that an upload whose answer was lost stays without bytes for good.
ServedFor(h) ==
  /\ req[h].pc \in {"body", "insert"} => req[h].pos = 0
  /\ BeyondInsert(h) => Mine(req[h].up)

\* The files that uploads have put into the target folder are different
\* uploads, each known to an item; their staging files are used up.
StoredApart ==
  sameFS =>
    \A n \in Names : owner[n] \in Uploads =>
      /\ owner[n] \notin staged
      /\ St(owner[n]) # "none"
      /\ Mine(owner[n])
      /\ \A m \in Names : owner[m] = owner[n] => m = n

StoredInv == Remembered /\ (\A h \in Handlers : ServedFor(h)) /\ StoredApart

\* What a step of the queue does to the requests.
LEMMA ClientRequests ==
  ASSUME ItemsOK, [ClientNext]_cvars
  PROVE  \/ UNCHANGED req
         \/ \E h \in Handlers, u \in Uploads : CreateFile(h, u)
         \/ \E h \in Handlers, u \in Uploads : PatchRead(h, u) /\ Mine(u)
         \/ \E h \in Handlers : HandleFromClient(h) \/ Respond(h)
         \/ Crash
<1>1. ASSUME NEW i \in Items, Client(i) \/ UserRetries(i)
      PROVE  \/ UNCHANGED req
             \/ \E h \in Handlers, u \in Uploads : CreateFile(h, u)
             \/ \E h \in Handlers, u \in Uploads : PatchRead(h, u) /\ Mine(u)
             \/ \E h \in Handlers : Respond(h)
  <2>1. ASSUME \/ StartUpload(i) \/ HeadAnswered(i) \/ PatchRefused(i)
               \/ ConnectionLost(i) \/ UserRetries(i)
        PROVE  UNCHANGED req
    BY <2>1 DEF StartUpload, HeadAnswered, PatchRefused, ConnectionLost,
                UserRetries, vars
  <2>2. ASSUME NEW h \in Handlers, SendPatch(i, h)
        PROVE  \E u \in Uploads : PatchRead(h, u) /\ Mine(u)
    BY <2>2 DEF SendPatch, Stage, ItemsOK, ItemOK, ItemShape, Mine
  <2> QED
    BY <1>1, <2>1, <2>2 DEF Client, ReplyArrives, SendCreate
<1>2. ASSUME Cleanup \/ FolderGone \/ \E u \in Uploads : Expire(u)
      PROVE  UNCHANGED req
  BY <1>2 DEF Cleanup, FolderGone, Expire, CleanupList, CleanupRemove,
              CleanupDelete, ScanStart, ScanPart, SweepOrphan, CleanupDone
<1>3. CASE UNCHANGED cvars
  BY <1>3 DEF cvars, vars
<1> QED
  BY <1>1, <1>2, <1>3 DEF ClientNext, ServerCrashes

\* Without a cleanup and without DELETE no upload is forgotten.
LEMMA RememberedStep ==
  ASSUME ~CleanupEnabled, TypeInv, ItemsOK, StoredInv, [ClientNext]_cvars
  PROVE  Remembered'
<1> USE DEF TypeInv
<1>0. [Next]_vars /\ Remembered /\ RequestsOK /\ RequestsOK'
  BY ServerStep, RequestsStep DEF StoredInv
<1>1. cl'.pc \in {"boot", "idle"}
  BY <1>0, CleanupSteps
     DEF Remembered, Crash, BootCleanup, IdleCleanup, CleanupList, CleanupDelete,
         ScanStart, CleanupDone, CleanupRemove, ScanPart, SweepOrphan
<1>2. ASSUME NEW u \in Uploads PROVE rec'[u].st # "gone"
  <2>1. St(u) # "gone"
    BY <1>0 DEF Remembered
  <2>2. CASE UNCHANGED <<rec, published>>
    BY <2>1, <2>2 DEF St
  <2>3. ASSUME NEW h \in Handlers, CreateRecord(h) PROVE rec'[u].st # "gone"
    BY <2>1, <2>3 DEF CreateRecord, Row, RowsOK, St
  <2>4. ASSUME NEW h \in Handlers, UpdateOffset(h) PROVE rec'[u].st # "gone"
    BY <2>1, <2>4 DEF UpdateOffset, RowsOK, Rows, St
  <2>5. ASSUME NEW h \in Handlers, CompleteRecord(h)
        PROVE  rec'[u].st # "gone"
    BY <2>1, <2>5 DEF CompleteRecord, RowsOK, Rows, St
  <2>6. ~CleanupDelete /\ \A h \in Handlers : ~DeleteRecord(h)
    BY <1>0 DEF Remembered, CleanupDelete, DeleteRecord, At
  <2>7. ASSUME NEW v \in Uploads, Expire(v) PROVE rec'[u].st # "gone"
    BY <2>1, <2>7 DEF Expire, RowsOK, Rows, St
  <2> QED
    BY <1>0, <2>2, <2>3, <2>4, <2>5, <2>6, <2>7, RowSteps
<1>3. ASSUME NEW h \in Handlers PROVE req'[h].pc \notin {"remove", "forget"}
  <2> DEFINE Result == req'[h].pc \notin {"remove", "forget"}
  <2>1. ASSUME req'[h].pc = req[h].pc PROVE Result
    BY <1>0, <2>1 DEF Remembered
  <2>2. ASSUME NEW k \in Handlers, NEW u \in Uploads,
               CreateFile(k, u) \/ PatchRead(k, u)
        PROVE  Result
    BY <2>1, <2>2, ArriveShape
  <2>3. ASSUME NEW k \in Handlers, HandleFromClient(k) PROVE Result
    <3>1. Handle(k)
      BY <2>3 DEF HandleFromClient
    <3>2. CASE k # h
      BY <2>1, <3>1, <3>2, HandleShape
    <3>3. CASE k = h
      <4>1. req[h].pc \notin {"remove", "forget"}
        BY <1>0 DEF Remembered
      <4>2. ~DeleteFile(h) /\ ~DeleteRecord(h)
        BY <4>1 DEF DeleteFile, DeleteRecord, At
      <4>3. ASSUME NEW s \in Steps \ {"remove", "forget"}, Go(h, s)
            PROVE  Result
        BY <1>0, <4>3, GoShape
      <4>4. CASE Creating(h)
        BY <4>3, <4>4 DEF Creating, CreateBodyEnds, CreateFails,
                          CreateRecord, Steps
      <4>5. CASE PatchOpen(h) \/ PatchTruncate(h) \/ PatchFails(h)
                 \/ PatchEnds(h) \/ UpdateOffset(h)
        BY <4>3, <4>5 DEF PatchOpen, PatchTruncate, PatchFails, PatchEnds,
                          UpdateOffset, Steps
      <4>6. CASE WriteByte(h)
        BY <1>0, <4>1, <4>6 DEF WriteByte, RequestsOK, Requests
      <4>7. CASE FindName(h)
        BY <1>0, <4>3, <4>7 DEF FindName, RequestsOK, Requests, Steps
      <4>8. CASE CompleteCheck(h) \/ Rename(h) \/ CopyCreate(h)
                 \/ CopyData(h) \/ CopyFails(h)
        BY <4>3, <4>8 DEF CompleteCheck, Rename, CopyCreate, CopyData,
                          CopyFails, Steps
      <4>9. CASE RemoveSource(h) \/ CompleteRecord(h) \/ Abort(h)
        BY <4>3, <4>9 DEF RemoveSource, CompleteRecord, Abort, Steps
      <4> QED
        BY <3>1, <3>3, <4>2, <4>4, <4>5, <4>6, <4>7, <4>8, <4>9
           DEF Handle, Creating
    <3> QED
      BY <3>2, <3>3
  <2>4. ASSUME NEW k \in Handlers, Respond(k) PROVE Result
    <3>1. CASE k = h
      BY <1>0, <2>4, <3>1 DEF Respond, RequestsOK, IdleRequest
    <3>2. CASE k # h
      BY <1>0, <2>1, <2>4, <3>2 DEF Respond, RequestsOK
    <3> QED
      BY <3>1, <3>2
  <2>5. ASSUME Crash PROVE Result
    BY <2>5 DEF Crash, IdleRequest
  <2> QED
    BY <2>1, <2>2, <2>3, <2>4, <2>5, ClientRequests
<1> QED
  BY <1>1, <1>2, <1>3 DEF Remembered, St

\* An item that knows an upload goes on knowing it.
LEMMA MineStays ==
  ASSUME TypeInv, ItemsOK, StoredInv, [ClientNext]_cvars,
         NEW u \in Uploads, Mine(u)
  PROVE  Mine(u)'
<1>1. PICK i \in Items : item[i].url = u
  BY DEF Mine
<1>2. u # None /\ rec[u].st # "gone"
  BY UploadsAssumption DEF StoredInv, Remembered, St
<1>3. item'[i].url = item[i].url
  BY <1>1, <1>2, ItemsStep
<1> QED
  BY <1>1, <1>3 DEF Mine

\* A POST goes on without bytes and ends before the finalisation; the other
\* requests come from items.
LEMMA ServedStep ==
  ASSUME \A u \in Uploads : Length[u] > 0,
         TypeInv, ItemsOK, StoredInv, [ClientNext]_cvars, NEW h \in Handlers
  PROVE  ServedFor(h)'
<1> USE DEF TypeInv
<1>0. [Next]_vars /\ RequestsOK /\ RequestsOK' /\ ServedFor(h)
  BY ServerStep, RequestsStep DEF StoredInv
\* The request goes on as it was, or past the row, with the upload it has.
<1>1. ASSUME req'[h].up = req[h].up,
             req'[h].pc \in {"body", "insert"}
               => req[h].pc \in {"body", "insert"} /\ req'[h].pos = req[h].pos,
             BeyondInsert(h)' => BeyondInsert(h)
      PROVE  ServedFor(h)'
  <2>1. req'[h].pc \in {"body", "insert"} => req'[h].pos = 0
    BY <1>0, <1>1 DEF ServedFor
  <2>2. ASSUME BeyondInsert(h)' PROVE \E i \in Items : item'[i].url = req'[h].up
    <3>1. BeyondInsert(h) /\ Mine(req[h].up)
      BY <1>0, <1>1, <2>2 DEF ServedFor
    <3>2. req[h].up \in Uploads
      BY <1>0, <3>1, BusyHasUpload DEF BeyondInsert
    <3>3. PICK u \in Uploads : u = req[h].up
      BY <3>2
    <3>4. Mine(u)'
      BY <3>1, <3>3, MineStays
    <3> QED
      BY <1>1, <3>3, <3>4 DEF Mine
  <2> QED
    BY <2>1, <2>2 DEF ServedFor, Mine, BeyondInsert
<1>2. ASSUME req'[h] = req[h] PROVE ServedFor(h)'
  BY <1>1, <1>2 DEF BeyondInsert
<1>3. ASSUME NEW k \in Handlers, NEW u \in Uploads, CreateFile(k, u)
      PROVE  ServedFor(h)'
  <2>1. CASE k = h
    BY <1>3, <2>1, ArriveShape DEF ServedFor, BeyondInsert
  <2>2. CASE k # h
    BY <1>2, <1>3, <2>2, ArriveShape
  <2> QED
    BY <2>1, <2>2
<1>4. ASSUME NEW k \in Handlers, NEW u \in Uploads, PatchRead(k, u), Mine(u)
      PROVE  ServedFor(h)'
  <2>1. CASE k = h
    <3>1. req'[h].pc = "open" /\ req'[h].up = u
      BY <1>4, <2>1, ArriveShape
    <3>2. Mine(u)'
      BY <1>4, MineStays
    <3> QED
      BY <3>1, <3>2 DEF ServedFor, Mine
  <2>2. CASE k # h
    BY <1>2, <1>4, <2>2, ArriveShape
  <2> QED
    BY <2>1, <2>2
<1>5. ASSUME NEW k \in Handlers, HandleFromClient(k) PROVE ServedFor(h)'
  <2>0. Handle(k)
    BY <1>5 DEF HandleFromClient
  <2>1. CASE k # h
    BY <1>2, <2>0, <2>1, HandleShape
  <2>2. CASE k = h /\ BeyondInsert(h)
    <3>1. req'[h].up = req[h].up
      BY <2>0, <2>2, HandleShape
    <3>2. req'[h].pc \notin {"body", "insert"}
      <4>1. ASSUME NEW s \in Steps \ {"body", "insert"}, Go(h, s)
            PROVE  req'[h].pc \notin {"body", "insert"}
        BY <1>0, <4>1, GoShape
      <4>2. ~Creating(h)
        BY <2>2 DEF Creating, CreateBodyEnds, CreateFails, CreateRecord,
                    BeyondInsert, At
      <4>3. CASE PatchOpen(h) \/ PatchTruncate(h) \/ PatchFails(h)
                 \/ PatchEnds(h) \/ UpdateOffset(h)
        BY <4>1, <4>3 DEF PatchOpen, PatchTruncate, PatchFails, PatchEnds,
                          UpdateOffset, Steps
      <4>4. CASE WriteByte(h)
        BY <1>0, <2>2, <4>4 DEF WriteByte, RequestsOK, Requests, BeyondInsert
      <4>5. CASE FindName(h)
        BY <1>0, <4>1, <4>5 DEF FindName, RequestsOK, Requests, Steps
      <4>6. CASE CompleteCheck(h) \/ Rename(h) \/ CopyCreate(h)
                 \/ CopyData(h) \/ CopyFails(h)
        BY <4>1, <4>6 DEF CompleteCheck, Rename, CopyCreate, CopyData,
                          CopyFails, Steps
      <4>7. CASE Ending(h)
        BY <4>1, <4>7 DEF Ending, RemoveSource, CompleteRecord, DeleteFile,
                          DeleteRecord, Abort, Steps
      <4> QED
        BY <2>0, <2>2, <4>2, <4>3, <4>4, <4>5, <4>6, <4>7
           DEF Handle, Creating, Ending
    <3> QED
      BY <1>1, <2>2, <3>1, <3>2
  <2>3. CASE k = h /\ ~BeyondInsert(h)
    <3>1. \/ CreateBodyEnds(h) \/ CreateFails(h) \/ CreateRecord(h)
      BY <1>5, <2>0, <2>3
         DEF HandleFromClient, BeyondInsert, Handle, At, PatchOpen, PatchTruncate,
             WriteByte, PatchFails, PatchEnds, UpdateOffset, CompleteCheck,
             FindName, Rename, CopyCreate, CopyData, CopyFails, RemoveSource,
             CompleteRecord, DeleteFile, DeleteRecord, Abort
    <3>2. CASE CreateBodyEnds(h)
      <4>1. Go(h, "insert") /\ req[h].pc = "body"
        BY <3>2 DEF CreateBodyEnds, At
      <4>2. /\ req'[h].pc = "insert" /\ req'[h].up = req[h].up
            /\ req'[h].pos = req[h].pos
        BY <1>0, <4>1, GoShape DEF Steps
      <4> QED
        BY <1>1, <4>1, <4>2 DEF BeyondInsert
    <3>3. CASE CreateFails(h)
      <4>1. req'[h].pc = "error"
        BY <1>0, <3>3, GoShape DEF CreateFails, Steps
      <4> QED
        BY <4>1 DEF ServedFor, BeyondInsert
    <3>4. CASE CreateRecord(h)
      <4>1. req[h].pos = 0 /\ req[h].up \in Uploads
        BY <1>0, <3>4, BusyHasUpload DEF ServedFor, CreateRecord, At
      <4>2. req[h].pos # Length[req[h].up]
        BY <4>1
      <4>3. Go(h, "ok")
        BY <3>4, <4>2 DEF CreateRecord
      <4>4. req'[h].pc = "ok"
        BY <1>0, <4>3, GoShape DEF Steps
      <4> QED
        BY <4>4 DEF ServedFor, BeyondInsert
    <3> QED
      BY <3>1, <3>2, <3>3, <3>4
  <2> QED
    BY <2>1, <2>2, <2>3
<1>6. ASSUME NEW k \in Handlers, Respond(k) PROVE ServedFor(h)'
  <2>1. CASE k = h
    <3>1. req'[h].pc = "idle"
      BY <1>0, <1>6, <2>1 DEF Respond, RequestsOK, IdleRequest
    <3> QED
      BY <3>1 DEF ServedFor, BeyondInsert
  <2>2. CASE k # h
    BY <1>0, <1>2, <1>6, <2>2 DEF Respond, RequestsOK
  <2> QED
    BY <2>1, <2>2
<1>7. ASSUME Crash PROVE ServedFor(h)'
  <2>1. req'[h].pc = "idle"
    BY <1>7 DEF Crash, IdleRequest
  <2> QED
    BY <2>1 DEF ServedFor, BeyondInsert
<1>8. CASE UNCHANGED req
  BY <1>2, <1>8
<1> QED
  BY <1>3, <1>4, <1>5, <1>6, <1>7, <1>8, ClientRequests

\* Staging files are made by POST only.
LEMMA StagedGrows ==
  ASSUME [Next]_vars
  PROVE  \/ staged' \subseteq staged
         \/ \E h \in Handlers, u \in Uploads : CreateFile(h, u)
<1>1. ASSUME NEW h \in Handlers, Arrive(h)
      PROVE  \/ staged' \subseteq staged
             \/ \E u \in Uploads : CreateFile(h, u)
  BY <1>1 DEF Arrive, PatchRead, DeleteRead
<1>2. ASSUME NEW h \in Handlers, Creating(h) PROVE staged' \subseteq staged
  BY <1>2 DEF Creating, CreateBodyEnds, CreateFails, CreateRecord
<1>3. ASSUME NEW h \in Handlers, Patching(h) PROVE staged' \subseteq staged
  BY <1>3
     DEF Patching, PatchOpen, PatchTruncate, WriteByte, PatchFails,
         PatchEnds, UpdateOffset
<1>4. ASSUME NEW h \in Handlers, Moving(h) PROVE staged' \subseteq staged
  BY <1>4
     DEF Moving, CompleteCheck, FindName, Rename, CopyCreate, CopyData,
         CopyFails
<1>5. ASSUME NEW h \in Handlers, Ending(h) PROVE staged' \subseteq staged
  BY <1>5
     DEF Ending, RemoveSource, CompleteRecord, DeleteFile, DeleteRecord,
         Abort
<1>6. ASSUME NEW h \in Handlers, Respond(h) PROVE staged' \subseteq staged
  BY <1>6 DEF Respond
<1>7. ASSUME Cleanup PROVE staged' \subseteq staged
  BY <1>7
     DEF Cleanup, CleanupList, CleanupDelete, ScanStart, CleanupDone,
         CleanupRemove, ScanPart, SweepOrphan
<1>8. ASSUME Environment PROVE staged' \subseteq staged
  BY <1>8 DEF Environment, Crash, FolderGone, Expire
<1>9. CASE UNCHANGED vars
  BY <1>9 DEF vars
<1> QED
  BY <1>1, <1>2, <1>3, <1>4, <1>5, <1>6, <1>7, <1>8, <1>9, NextCases

\* A rename uses up the staging file of an upload that an item knows, and no
\* step makes that file again.
LEMMA StoredStep ==
  ASSUME TypeInv, EventInv, ItemsOK, StoredInv, [ClientNext]_cvars
  PROVE  StoredApart'
<1> USE DEF TypeInv
<1>0. [Next]_vars /\ sameFS' = sameFS /\ FolderOK /\ FolderOK' /\ RequestsOK
  BY ServerStep, FolderStep DEF ClientNext, Always, cvars, vars
<1> SUFFICES ASSUME sameFS, NEW n \in Names, owner'[n] \in Uploads
             PROVE  /\ owner'[n] \notin staged'
                    /\ rec'[owner'[n]].st # "none"
                    /\ \E i \in Items : item'[i].url = owner'[n]
                    /\ \A m \in Names : owner'[m] = owner'[n] => m = n
  BY <1>0 DEF StoredApart, St, Mine
<1> PICK u \in Uploads : u = owner'[n]
  OBVIOUS
<1>1. \A k \in Names : owner[k] \in Uploads =>
        /\ owner[k] \notin staged
        /\ St(owner[k]) # "none"
        /\ Mine(owner[k])
        /\ \A m \in Names : owner[m] = owner[k] => m = k
  BY DEF StoredInv, StoredApart
\* The name shows what it showed, and so does any other name of an upload.
<1>2. ASSUME owner[n] = u,
             \A m \in Names : owner'[m] = u => owner[m] = u
      PROVE  /\ u \notin staged' /\ rec'[u].st # "none" /\ Mine(u)'
             /\ \A m \in Names : owner'[m] = u => m = n
  <2>1. u \notin staged /\ St(u) # "none" /\ Mine(u)
    BY <1>1, <1>2
  <2>2. u \notin staged'
    BY <1>0, <2>1, StagedGrows DEF CreateFile, St, RestOK
  <2> QED
    BY <1>0, <1>1, <1>2, <2>1, <2>2, KnownStays, MineStays
<1>3. ASSUME owner' = owner
      PROVE  /\ u \notin staged' /\ rec'[u].st # "none" /\ Mine(u)'
             /\ \A m \in Names : owner'[m] = u => m = n
  BY <1>2, <1>3
<1>4. ASSUME NEW h \in Handlers, Rename(h)
      PROVE  /\ u \notin staged' /\ rec'[u].st # "none" /\ Mine(u)'
             /\ \A m \in Names : owner'[m] = u => m = n
  <2>1. CASE owner' = owner
    BY <1>3, <2>1
  <2>2. CASE owner' # owner
    <3> PICK v \in Uploads : v = req[h].up
      BY <1>0, <1>4, BusyHasUpload DEF Rename, At
    <3> PICK k \in Names : k = req[h].name
      BY <1>0 DEF RequestsOK, Requests
    <3>1. /\ owner' = [owner EXCEPT ![k] = v] /\ v \in staged
          /\ staged' = staged \ {v} /\ rec' = rec
      BY <1>4, <2>2 DEF Rename
    <3>2. /\ owner'[k] = v
          /\ \A m \in Names : m # k => owner'[m] = owner[m]
          /\ \A m \in Names : owner[m] # v
      BY <1>0, <1>1, <3>1 DEF FolderOK
    <3>3. CASE n # k
      BY <1>2, <3>2, <3>3
    <3>4. CASE n = k
      <4>1. u = v
        BY <3>2, <3>4
      <4>2. BeyondInsert(h) /\ St(v) # "none"
        BY <1>4 DEF Rename, At, BeyondInsert, EventInv, HasRow
      <4>3. Mine(v)
        BY <4>2 DEF StoredInv, ServedFor, Mine
      <4>4. Mine(v)'
        BY <4>3, MineStays
      <4>5. Mine(u)'
        BY <4>1, <4>4 DEF Mine
      <4> QED
        BY <3>1, <3>2, <3>4, <4>1, <4>2, <4>5 DEF St
    <3> QED
      BY <3>3, <3>4
  <2> QED
    BY <2>1, <2>2
<1>5. ASSUME NEW h \in Handlers, CopyCreate(h) PROVE FALSE
  BY <1>5 DEF CopyCreate
<1>6. ASSUME NEW h \in Handlers, CopyData(h) PROVE owner' = owner
  BY <1>6 DEF CopyData
<1>7. ASSUME NEW h \in Handlers, CopyFails(h)
      PROVE  /\ u \notin staged' /\ rec'[u].st # "none" /\ Mine(u)'
             /\ \A m \in Names : owner'[m] = u => m = n
  <2> PICK k \in Names : k = req[h].name
    BY <1>0 DEF RequestsOK, Requests
  <2>1. owner' = owner \/ owner' = [owner EXCEPT ![k] = None]
    BY <1>7 DEF CopyFails, TargetRemoved
  <2>2. \A m \in Names : owner'[m] \in Uploads => owner'[m] = owner[m]
    BY <1>0, <2>1, UploadsAssumption DEF FolderOK
  <2> QED
    BY <1>2, <2>2
<1>8. /\ u \notin staged' /\ rec'[u].st # "none" /\ Mine(u)'
      /\ \A m \in Names : owner'[m] = u => m = n
  BY <1>0, <1>3, <1>4, <1>5, <1>6, <1>7, FolderSteps
<1> QED
  BY <1>8 DEF Mine

\* At the start no upload has a file, and no request runs.
LEMMA StoredInit == ClientInit => StoredInv
BY UploadsAssumption
   DEF ClientInit, Init, StoredInv, Remembered, ServedFor, BeyondInsert,
       StoredApart, St, Row, IdleRequest, BootCleanup, IdleCleanup

\* The uploads in the folder are as many as the items that know them, or fewer.
LEMMA StoredCount ==
  ASSUME IsFiniteSet(Items), FolderOK, StoredApart
  PROVE  StoredOnce
<1> SUFFICES ASSUME sameFS
             PROVE  Cardinality({n \in Names : owner[n] \in Uploads})
                      <= Cardinality(Items)
  BY DEF StoredOnce
<1> DEFINE Told == {n \in Names : owner[n] \in Uploads}
           F == [n \in Told |-> CHOOSE i \in Items : item[i].url = owner[n]]
<1>1. ASSUME NEW n \in Told
      PROVE  F[n] \in Items /\ item[F[n]].url = owner[n]
  BY <1>1 DEF StoredApart, Mine
<1>2. ASSUME NEW n \in Told, NEW m \in Told, F[n] = F[m] PROVE n = m
  <2>1. owner[n] = owner[m]
    BY <1>1, <1>2
  <2> QED
    BY <2>1 DEF StoredApart
<1> HIDE DEF F
<1>3. F \in [Told -> Items]
  BY <1>1 DEF F
<1>4. F \in Injection(Told, Items)
  BY <1>2, <1>3 DEF Injection, IsInjective
<1> QED
  BY <1>4, FS_Injection

\* Where finalisation is a rename and rows are not cleaned up, a queued file
\* that is not empty is stored at most once, whatever breaks and however often
\* it is retried.  (The POST of an empty file finishes it at once: when its
\* answer is lost the next attempt stores it again.)
THEOREM FileStoredOnce ==
  ASSUME ~CleanupEnabled, \A u \in Uploads : Length[u] > 0, IsFiniteSet(Items)
  PROVE  ClientSpec => []StoredOnce
<1>1. TypeInv /\ EventInv /\ ItemsOK /\ StoredInv /\ [ClientNext]_cvars
        => StoredInv'
  BY RememberedStep, ServedStep, StoredStep DEF StoredInv
<1>2. TypeInv /\ StoredInv => StoredOnce
  BY StoredCount DEF TypeInv, StoredInv
<1> QED
  BY <1>1, <1>2, StoredInit, ItemsInvariant, PTL DEF ClientSpec
=============================================================================
