---------------------------- MODULE UploadClient ----------------------------
(***************************************************************************)
(* The upload queue of the Flutter app (mobile/lib/state/upload_queue.dart *)
(* with mobile/lib/api/tus.dart) in front of the server of TusUpload, over *)
(* connections that break: the client forgets the request, the server's    *)
(* handler goes on with what has reached it.                               *)
(***************************************************************************)
EXTENDS TusUpload

CONSTANTS
  Items,          \* the files in the queue
  MaxAttempts     \* attempts before the error is shown (4 in the code)

VARIABLE item   \* of each file its status (st), the await its attempt is at (stage), the
                \* upload it knows (url) with the offset (off), the attempts so
                \* far (tries), and the server's handler of its request (h)

cvars == <<vars, item>>

ClientInit ==
  /\ Init
  /\ item = [i \in Items |-> [st |-> "queued", stage |-> "rest", url |-> None,
                              off |-> 0, tries |-> 0, h |-> None]]

Stage(i, stage) == item[i].st = "uploading" /\ item[i].stage = stage

\* Mutant: every attempt starts from nothing.
AlwaysCreate(it) == "create"

\* Where an automatic attempt for an item begins.
FirstStage(it) == IF it.url # None THEN "head" ELSE "create"

\* Mutant: attempts are not counted.
FailedForever(it) == [it EXCEPT !.stage = FirstStage(it), !.h = None]

\* The attempt failed: the next one, or the error shown to the user.
Failed(it) ==
  IF it.tries < MaxAttempts
    THEN [it EXCEPT !.tries = @ + 1, !.stage = FirstStage(it), !.h = None]
    ELSE [it EXCEPT !.st = "error", !.stage = "rest", !.h = None]

Succeeded(it) == [it EXCEPT !.st = "done", !.stage = "rest", !.h = None]

Becomes(i, it) == item' = [item EXCEPT ![i] = it]

StartUpload(i) ==
  /\ item[i].st = "queued"
  /\ Becomes(i, [item[i] EXCEPT !.st = "uploading", !.tries = 1,
                                !.stage = FirstStage(item[i])])
  /\ UNCHANGED vars

\* HEAD with an answer.  404: a new upload is created at once.  An offset at
\* the end counts as complete.
HeadAnswered(i) ==
  LET u == item[i].url IN
  /\ Stage(i, "head")
  /\ Becomes(i,
       CASE rec[u].st = "gone" ->
              [item[i] EXCEPT !.url = None, !.stage = "create"]
         [] rec[u].st # "gone" /\ rec[u].offset >= Length[u] ->
              Succeeded(item[i])
         [] OTHER -> [item[i] EXCEPT !.stage = "patch",
                                     !.off = rec[u].offset])
  /\ UNCHANGED vars

SendCreate(i, h, u) ==
  /\ Stage(i, "create")
  /\ CreateFile(h, u)
  /\ Becomes(i, [item[i] EXCEPT !.stage = "creating", !.h = h])

SendPatch(i, h) ==
  /\ Stage(i, "patch")
  /\ rec[item[i].url].offset = item[i].off
  /\ PatchRead(h, item[i].url)
  /\ Becomes(i, [item[i] EXCEPT !.stage = "patching", !.h = h])

\* 404, or 409 because the offset has moved or the upload is completed.
PatchRefused(i) ==
  /\ Stage(i, "patch")
  /\ ~Open(item[i].url) \/ rec[item[i].url].offset # item[i].off
  /\ Becomes(i, Failed(item[i]))
  /\ UNCHANGED vars

\* POST answers 201 once the row is stored, also when an upload without bytes
\* could not be finalised.
Created(i, h) == item[i].stage = "creating" /\ rec[req[h].up].st # "none"

ReplyArrives(i, h) ==
  /\ item[i].h = h
  /\ Respond(h)
  /\ Becomes(i,
       CASE Created(i, h) ->
              [item[i] EXCEPT !.stage = "patch", !.url = req[h].up,
                              !.off = 0, !.h = None]
         [] At(h, "error") /\ ~Created(i, h) -> Failed(item[i])
         [] OTHER -> Succeeded(item[i]))

\* The connection is refused or breaks, in any stage of an attempt.
ConnectionLost(i) ==
  /\ item[i].st = "uploading"
  /\ Becomes(i, Failed(item[i]))
  /\ UNCHANGED vars

\* The Retry button.
UserRetries(i) ==
  /\ item[i].st = "error"
  /\ Becomes(i, [item[i] EXCEPT !.st = "queued"])
  /\ UNCHANGED vars

\* The client sends no bytes with POST and all the remaining bytes with
\* PATCH: a shorter body breaks its Content-Length and is a read error.
HandleFromClient(h) ==
  /\ Handle(h)
  /\ WriteByte(h) => At(h, "patch") /\ req[h].pos < Length[req[h].up]
  /\ PatchEnds(h) => req[h].pos = Length[req[h].up]

\* A server crash breaks every connection.
ServerCrashes ==
  /\ Crash
  /\ item' = [i \in Items |-> IF item[i].h # None THEN Failed(item[i])
                                                  ELSE item[i]]

Client(i) ==
  \/ StartUpload(i) \/ HeadAnswered(i) \/ PatchRefused(i) \/ ConnectionLost(i)
  \/ \E h \in Handlers : SendPatch(i, h) \/ ReplyArrives(i, h)
  \/ \E h \in Handlers, u \in Uploads : SendCreate(i, h, u)

ClientNext ==
  /\ \/ \E i \in Items : Client(i) \/ UserRetries(i)
     \/ ServerCrashes
     \/ /\ \/ \E h \in Handlers :
                \/ HandleFromClient(h)
                \/ Respond(h) /\ \A i \in Items : item[i].h # h
           \/ Cleanup
           \/ FolderGone
           \/ \E u \in Uploads : Expire(u)
        /\ UNCHANGED item
  /\ Always

ClientSpec == ClientInit /\ [][ClientNext]_cvars

\* The client's event loop runs, answers or time-outs arrive, and the server's
\* ticker and clock go on.
ClientLiveSpec ==
  /\ ClientSpec
  /\ Upkeep
  /\ \A i \in Items : WF_cvars(Client(i) /\ Always)

-----------------------------------------------------------------------------
(* Properties *)

\* An item shown as done is stored: once no request works on its upload any
\* more, the upload is completed.
DoneIsFinalised ==
  \A i \in Items :
    item[i].st = "done" /\ (\A h \in Handlers : req[h].up # item[i].url)
      => rec[item[i].url].st = "done"

\* The queue gives up the URL of an upload only when the server no longer
\* knows it: a broken connection is followed by a resume, not a new upload.
ResumesKnownUpload ==
  [][\A i \in Items :
       item[i].url # None /\ item'[i].url # item[i].url
         => rec[item[i].url].st = "gone"]_cvars

\* However often the connection breaks and the user retries, a queued file
\* is stored at most once (where finalisation is a rename).
StoredOnce ==
  sameFS => Cardinality({n \in Names : owner[n] \in Uploads}) <= Cardinality(Items)

\* Every started upload ends with a verdict for the user.
VerdictReached ==
  \A i \in Items : item[i].st = "uploading" ~> item[i].st \in {"done", "error"}
=============================================================================
