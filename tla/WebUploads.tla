----------------------------- MODULE WebUploads -----------------------------
(***************************************************************************)
(* The upload queue of the web client (web/src/App.svelte with uploadTus   *)
(* and resumeUploadTus of web/src/lib/api.ts) in front of the server of    *)
(* UploadPromise.  A task is a chain of awaits that works on one item      *)
(* after the other: a worker of a batch, or a retry the user asked for.    *)
(* Connections break at any point; the server's handler goes on.           *)
(***************************************************************************)
EXTENDS UploadPromise, Sequences, FiniteSets

CONSTANTS
  MaxItems,           \* files the user can have in the queue
  Size,               \* the size of each of them
  Tasks,              \* chains of awaits that can exist at once
  uploadConcurrency,  \* workers of one batch (3 in the code)
  uploadMaxAttempts   \* attempts before the error is shown (3 in the code)

Items == 1..MaxItems

ASSUME ItemsAssumption == MaxItems \in Nat /\ Size \in [Items -> Nat]
ASSUME AttemptsAssumption ==
  /\ uploadConcurrency \in Nat \ {0} /\ uploadMaxAttempts \in Nat \ {0}
ASSUME TasksAssumption == Tasks \subseteq Nat /\ IsFiniteSet(Tasks)
ASSUME LengthAssumption == Length \in [Uploads -> Nat]
ASSUME NoneAssumption == None \notin Items \cup Tasks \cup Uploads

VARIABLES
  queue,      \* uploadQueue: what is shown of each item
  rest,       \* of each batch: the items its workers still have to take
  task,       \* what each chain of awaits is waiting for
  sent,       \* uploads whose bytes a handler of the server may have
  received    \* history: the uploads of which the server has had every byte

queueVars == <<queue, rest, task, sent>>
serverSide == <<promise, received>>
uploadVars == <<queueVars, serverSide>>

\* The item is not in the queue.
NoItem == [st |-> "absent", file |-> FALSE, url |-> None, attempts |-> 0]

FreeTask == [item |-> None, batch |-> None, step |-> "free", up |-> None,
             attempt |-> 0]

QueueTypeOK ==
  /\ queue \in [Items ->
       [st : {"absent", "queued", "uploading", "done", "error"},
        file : BOOLEAN, url : Uploads \cup {None},
        attempts : 0..uploadMaxAttempts]]
  /\ DOMAIN rest = Tasks /\ \A b \in Tasks : rest[b] \in Seq(Items)
  /\ task \in [Tasks ->
       [item : Items \cup {None}, batch : Tasks \cup {None},
        step : {"free", "create", "patch", "head", "part", "whole", "wait"},
        up : Uploads \cup {None}, attempt : 0..uploadMaxAttempts]]
  /\ sent \subseteq Uploads /\ received \subseteq Uploads

UploadsInit ==
  /\ PromiseInit /\ shelf = [n \in Names |-> None]
  /\ queue = [i \in Items |-> NoItem]
  /\ rest = [b \in Tasks |-> <<>>]
  /\ task = [t \in Tasks |-> FreeTask]
  /\ sent = {} /\ received = {}

-----------------------------------------------------------------------------
(* Items and tasks *)

\* createUploadQueueItem
NewItem == [st |-> "queued", file |-> TRUE, url |-> None, attempts |-> 0]

\* The first lines of uploadOne: one more attempt, the old error is cleared.
Begun(it) == [it EXCEPT !.st = "uploading", !.attempts = @ + 1]

\* uploadOne up to its first await: the POST has been sent.
Creating(b, i, attempt) ==
  [item |-> i, batch |-> b, step |-> "create", up |-> None,
   attempt |-> attempt]

Absent == {i \in Items : queue[i].st = "absent"}
IdleTasks == {t \in Tasks : task[t].step = "free"}

\* Mutant: an item that has failed stops its worker.
NoNext(b) == None

\* The item a worker of batch b takes next: uploadQueuedFiles, items[next++].
NextOf(b) == IF b # None /\ rest[b] # <<>> THEN Head(rest[b]) ELSE None

\* Task t is through with its item, which now looks like it: a worker goes on
\* with the next one in the same turn, a retry is over.
Through(t, it) ==
  LET b == task[t].batch
      i == task[t].item
      n == NextOf(b)
  IN IF n = None
       THEN /\ task' = [task EXCEPT ![t] = FreeTask]
            /\ queue' = [queue EXCEPT ![i] = it]
            /\ UNCHANGED rest
       ELSE /\ task' = [task EXCEPT ![t] = Creating(b, n, queue[n].attempts + 1)]
            /\ queue' = [queue EXCEPT ![i] = it, ![n] = Begun(queue[n])]
            /\ rest' = [rest EXCEPT ![b] = Tail(@)]

Waits(t, step) == task[t].step = step
Item(t) == queue[task[t].item]

Done(t, url) == Through(t, [Item(t) EXCEPT !.st = "done", !.url = url])

-----------------------------------------------------------------------------
(* The user *)

\* uploadFiles: n files are chosen or dropped; the first workers start at once
\* and send their POST.
UploadFiles(n) ==
  LET new == CHOOSE s \in [1..n -> Absent] : \A j, k \in 1..n : j < k => s[j] < s[k]
      w   == IF n < uploadConcurrency THEN n ELSE uploadConcurrency
  IN /\ n > 0 /\ n <= Cardinality(Absent) /\ w <= Cardinality(IdleTasks)
     /\ LET worker == CHOOSE s \in [1..w -> IdleTasks] :
                        \A j, k \in 1..w : j < k => s[j] < s[k]
            b == CHOOSE c \in Tasks : \A t \in Tasks : task[t].batch # c
            started == {new[j] : j \in 1..w}
        IN /\ queue' = [i \in Items |->
                IF \E j \in 1..n : new[j] = i
                  THEN IF i \in started THEN Begun(NewItem) ELSE NewItem
                  ELSE queue[i]]
           /\ task' = [t \in Tasks |->
                IF \E j \in 1..w : worker[j] = t
                  THEN Creating(b, new[CHOOSE j \in 1..w : worker[j] = t], 1)
                  ELSE task[t]]
           /\ rest' = [rest EXCEPT ![b] = SubSeq(new, w + 1, n)]
           /\ UNCHANGED <<sent, serverSide>>

\* Mutant: a retry is offered while the item is still uploading.
MayRetryEarly(i) == queue[i].st \in {"error", "uploading"} /\ queue[i].file

\* The Retry button stands beside an error; without the file it does nothing.
MayRetry(i) == queue[i].st = "error" /\ queue[i].file

\* retryUpload: an upload whose URL is known is resumed, else one is created.
Retry(i) ==
  /\ MayRetry(i)
  /\ \E t \in IdleTasks :
       /\ \A s \in IdleTasks : t <= s
       /\ IF queue[i].url # None
            THEN /\ queue' = [queue EXCEPT ![i].attempts = 0,
                                           ![i].st = "uploading"]
                 /\ task' = [task EXCEPT ![t] =
                      [item |-> i, batch |-> None, step |-> "head",
                       up |-> queue[i].url, attempt |-> uploadMaxAttempts]]
            ELSE /\ queue' = [queue EXCEPT ![i].attempts = 1,
                                           ![i].st = "uploading"]
                 /\ task' = [task EXCEPT ![t] = Creating(None, i, 1)]
  /\ UNCHANGED <<rest, sent, serverSide>>

\* clearCompletedUploads
ClearCompleted ==
  /\ \E i \in Items : queue[i].st = "done"
  /\ queue' = [i \in Items |-> IF queue[i].st = "done" THEN NoItem ELSE queue[i]]
  /\ UNCHANGED <<rest, task, sent, serverSide>>

\* saveQueueToStorage and loadQueueFromStorage: of an item only its verdict
\* survives, without the file.
Stored(it) == IF it.st \in {"done", "error"} THEN [it EXCEPT !.file = FALSE]
                                             ELSE NoItem

\* The page is reloaded or the browser stops: all chains of awaits are gone.
Reload ==
  /\ \E i \in Items : queue[i] # Stored(queue[i])
  /\ queue' = [i \in Items |-> Stored(queue[i])]
  /\ task' = [t \in Tasks |-> FreeTask]
  /\ rest' = [b \in Tasks |-> <<>>]
  /\ UNCHANGED <<sent, serverSide>>

\* What the queue's panel offers.
UploadPanel ==
  (\E i \in Items : Retry(i)) \/ ClearCompleted

-----------------------------------------------------------------------------
(* A task goes on *)

\* What the server has received after this step of it.
Receives ==
  received' = received \cup
                {u \in Uploads : status'[u] = "open" /\ got'[u] = Length[u]}

\* The POST of uploadTus reaches the server.  A file without bytes is
\* finalised by the same handler.
PostAccepted(t) ==
  /\ Waits(t, "create") /\ task[t].up = None
  /\ \E u \in Uploads :
       /\ Length[u] = Size[task[t].item]
       /\ \A v \in Uploads : status[v] = "none" /\ Length[v] = Length[u] => u <= v
       /\ Accept(u, 0)
       /\ task' = [task EXCEPT ![t].up = u]
       /\ sent' = IF Length[u] = 0 THEN sent \cup {u} ELSE sent
  /\ Receives /\ UNCHANGED <<queue, rest>>

\* Its answer: onUploadCreated keeps the URL, the PATCH is sent at once.  A
\* file without bytes is done, however its finalisation went.
PostAnswered(t) ==
  LET u == task[t].up IN
  /\ Waits(t, "create") /\ u # None
  /\ IF Size[task[t].item] = 0
       THEN Done(t, u) /\ UNCHANGED sent
       ELSE /\ queue' = [queue EXCEPT ![task[t].item].url = u]
            /\ task' = [task EXCEPT ![t].step = "patch"]
            /\ sent' = sent \cup {u}
            /\ UNCHANGED rest
  /\ UNCHANGED serverSide

\* The server answers the PATCH once the upload is finalised: by its handler,
\* or by one that an earlier attempt has left behind.
PatchServed(t) ==
  LET u == task[t].up IN
  /\ Waits(t, "patch")
  /\ \/ (\E n \in Names : Confirm(u, n)) /\ Receives
     \/ status[u] = "done" /\ UNCHANGED serverSide
  /\ task' = [task EXCEPT ![t].step = "whole"]
  /\ UNCHANGED <<queue, rest, sent>>

\* Mutant: what has been received counts as all.
AtEndSoon(i, u) == got[u] >= Size[i] - 1

\* resumeUploadTus, startOffset >= file.size
AtEnd(i, u) == got[u] >= Size[i]

\* The server answers the HEAD of a known upload with the offset it has read.
HeadServed(t) ==
  LET u == task[t].up IN
  /\ Waits(t, "head") /\ status[u] \in {"open", "done"}
  /\ task' = [task EXCEPT ![t].step =
                IF AtEnd(task[t].item, u) THEN "whole" ELSE "part"]
  /\ UNCHANGED <<queue, rest, sent, serverSide>>

\* The answer arrives, whatever has become of the upload since: nothing is
\* left to be sent (xhr.onload with a 2xx status, or HEAD), ...
WholeAnswered(t) ==
  /\ Waits(t, "whole")
  /\ Done(t, task[t].up)
  /\ UNCHANGED <<sent, serverSide>>

\* ... or the rest is sent.
PartAnswered(t) ==
  /\ Waits(t, "part")
  /\ task' = [task EXCEPT ![t].step = "patch"]
  /\ sent' = sent \cup {task[t].up}
  /\ UNCHANGED <<queue, rest, serverSide>>

\* An error answer, or the connection is refused or breaks.  uploadOne waits
\* and tries again, or shows the error; a retry of the user shows it at once.
CallFails(t) ==
  /\ task[t].step \in {"create", "patch", "head", "part", "whole"}
  /\ IF task[t].attempt < uploadMaxAttempts
       THEN /\ task' = [task EXCEPT ![t].step = "wait", ![t].up = None]
            /\ UNCHANGED <<queue, rest>>
       ELSE Through(t, [Item(t) EXCEPT !.st = "error"])
  /\ UNCHANGED <<sent, serverSide>>

\* The timer of uploadOne: the next attempt, for the item as it is now.
TryAgain(t) ==
  LET i == task[t].item IN
  /\ Waits(t, "wait")
  /\ queue' = [queue EXCEPT ![i] = Begun(@)]
  /\ task' = [task EXCEPT ![t] =
                Creating(task[t].batch, i, queue[i].attempts + 1)]
  /\ UNCHANGED <<rest, sent, serverSide>>

GoesOn(t) ==
  \/ PostAccepted(t) \/ PostAnswered(t)
  \/ PatchServed(t) \/ HeadServed(t) \/ WholeAnswered(t) \/ PartAnswered(t)
  \/ CallFails(t) \/ TryAgain(t)

-----------------------------------------------------------------------------
(* The server, which has only what was sent *)

FreeNames == {n \in Names : shelf[n] = None}

\* The queue never looks at the folder: names that two uploads pick at once
\* and copies that fail half-way are left to TusRefinement.
ServerGoesOn ==
  /\ \/ \E u \in sent :
          \/ Acknowledge(u, got[u] + 1)
          \/ \E n \in FreeNames : (\A m \in FreeNames : n <= m) /\ Land(u, n)
          \/ \E n \in Names : Confirm(u, n)
     \/ \E u \in Uploads : GiveUp(u) \/ Forget(u)
  /\ Receives /\ UNCHANGED queueVars

-----------------------------------------------------------------------------
UploadsUser ==
  \/ \E n \in Items : UploadFiles(n)
  \/ UploadPanel \/ Reload

UploadsNext ==
  UploadsUser \/ (\E t \in Tasks : GoesOn(t)) \/ ServerGoesOn

UploadsSpec == UploadsInit /\ [][UploadsNext]_uploadVars

-----------------------------------------------------------------------------
(* Properties *)

Holds(t, i) == task[t].item = i
Listed(b, i) == \E k \in 1..Len(rest[b]) : rest[b][k] = i

\* However the user retries, clears and adds files while uploads fail, an item
\* that is shown as waiting or uploading is worked on by exactly one chain of
\* awaits, or left to exactly one batch that still has a worker; no other item
\* is (uploadOne and retryUpload write the queue item without looking whether
\* somebody else does).
ChainsMatchQueue ==
  \A i \in Items :
    LET at    == {t \in Tasks : Holds(t, i)}
        lists == {b \in Tasks : Listed(b, i)}
    IN IF queue[i].st \in {"queued", "uploading"}
         THEN /\ Cardinality(at) + Cardinality(lists) = 1
              /\ \A b \in lists : \E t \in Tasks : task[t].batch = b
         ELSE at = {} /\ lists = {}

\* An item that is shown as done stands for an upload of its own, of which the
\* server has had every byte: however many uploads its attempts have begun, and
\* although the row may be cleaned up before the answer to its HEAD or PATCH
\* arrives.
DoneIsReceived ==
  \A i \in Items :
    queue[i].st = "done" =>
      /\ queue[i].url \in received
      /\ \A j \in Items \ {i} : queue[j].url # queue[i].url

\* Every item that waits or uploads gets a verdict, or goes with the page.
UploadVerdict ==
  \A i \in Items :
    queue[i].st \in {"queued", "uploading"}
      ~> queue[i].st \in {"done", "error", "absent"}
=============================================================================
