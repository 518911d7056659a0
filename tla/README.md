# goDrive in TLA+

goDrive is a self-hosted file server: a Go program (`cmd/`, `internal/`) that
serves the home directories of its users over an HTTP API, keeps an index of
them in SQLite, and is used by a web client (`web/`) and a Flutter app with
native background uploaders (`mobile/`). This directory holds TLA+ models of the
parts whose behaviour depends on interleaving, failure and retries, the TLC
configurations that check them and TLAPS proofs about them. Paths below are
relative to the root of the repository (`src/` in `PROJECT.json`).

    tlc -workers 2 -config tus_exclusive.cfg MCTusUpload.tla     # a run
    tlapm TusUploadProofs.tla; tlapm UploadClientProofs.tla      # the proofs
    tlapm ReindexProofs.tla; tlapm ServerProofs.tla; tlapm WatcherProofs.tla
    tlapm WebUploadsProofs.tla; tlapm WebFolderProofs.tla; tlapm WebClientProofs.tla

`PROJECT.json` lists the runs, the lines each definition translates, the
mutants that show a property can fail, the hazards and the findings.

## 1. Inventory

| Component | State | Operations | What is hard | What makes it correct |
|---|---|---|---|---|
| **TUS upload server** `internal/server/tus.go`, `upload_cleanup.go`, `internal/store/uploads.go`, `FinalizeUpload`/`AvailableName`/`movePath` in `internal/files/service.go` | table `uploads`; staging files `<id>.part`; the target folder | POST (with an optional first chunk), PATCH, HEAD, DELETE; finalisation; TTL cleanup and orphan scan | no lock between requests of one upload; the row, the file and the folder change in different steps; chunks break off; `rename` or, on EXDEV, a copy; crashes between any two steps | acknowledged bytes are on disk; a file that shows is whole; naming never replaces a file; one event per upload; staging space is given back |
| **Mobile upload queue** `mobile/lib/state/upload_queue.dart`, `mobile/lib/api/tus.dart` | items with status, TUS URL, attempts | attempts with HEAD/resume, 404 recovery, retry by the user | an answer can be lost while the server goes on | each file stored once; every upload gets a verdict; "done" means stored |
| **Background uploaders** `BackgroundUploadService.kt`, `AppDelegate.swift` | a persisted JSON queue shared with the app | take an item, upload it, write the queue back | two processes rewrite one preference | no item lost or uploaded twice |
| **Web client: uploads** `web/src/App.svelte`, `uploadTus`/`resumeUploadTus` in `web/src/lib/api.ts` | `uploadQueue`; the batches' lists; one chain of awaits per worker or retry | batches with workers, automatic attempts, Retry, clearing, reload with stored verdicts | several chains write one item; answers are lost while the server goes on; an automatic retry starts a new upload | each waiting item is worked on once; "done" means received; every item gets a verdict |
| **Web client: folder, tree, live refresh** `App.svelte` | session, path, entries, cursor, tree, address bar; the event stream and its timer | login, logout, navigate, refresh, next page, tree, create/rename/move/delete, events | listings overlap; streams are replaced while their readers run; changes by others | at rest the screen shows the server's folder; no stream outlives its user |
| **Web client: selection, keyboard, menus, dialogs** `App.svelte` | filter, order, selected entries, anchor, menu, dialog, viewer | click, shift, arrows, select all, menu, dialogs, next image | the listing changes under the selection | what is acted on is on the screen |
| **Web client: text viewer and editor** `App.svelte`, `CodeEditor.svelte` | open file, its text, edit mode, dirty and saving flags, the lazily loaded editor | open, edit, type, save, preview, close | a text, a save or the editor's module arrives after the user has moved on | the editor holds the open file's text; Save is offered when it is needed |
| **Web client: trash panel** `App.svelte` | items, selection | list, select, restore and delete one or many, empty | one of several requests fails | the panel lists what is in the trash |
| **Web client: admin panel** `App.svelte` | the job on the screen, the polling interval, forms | open, poll, start, cancel, edit | polls overtake each other | a job's end is shown |
| **Web client: search, info panel** `App.svelte` | query, results, timer, dialog; the panel's file and its EXIF data | type, Enter, clear, close; open and close the panel | answers of different queries or files overtake each other | what is shown belongs to the query or the file |
| **Web client: 3D thumbnails** `ThreeDThumb.ts`, `ThreeDGridThumb.svelte` | cache, pending callbacks, cards | come into view, render, leave | cards of one file come and go while it is rendered | every card is answered |
| **Web client: 3D viewer** `ThreeDViewer.svelte` | scene, current object, overlay | mount, show, load, fail, unmount | loaders call back after the viewer has gone on | one model in the scene, the one wanted |
| **Filesystem watcher** `internal/watch/watch.go` | pending events, debounce timer, `NeedsRescan`, status | receive, coalesce, flush, upsert or delete an index path, record an error | operations of a path are merged; a timer that is reset; overflow | what changes on disk is in the index after the debounce, or `NeedsRescan` says so |
| **File index and search** `internal/store/index.go`, `internal/search`, `internal/files/text_index.go` | `file_index`, document text, staging table, FTS, Bleve | upsert, delete, prune what a scan has not seen, apply staged text, rebuild FTS | a scan over minutes beside uploads, edits and the watcher | the index agrees with the disk when nothing changes any more; no text is lost |
| **Admin jobs** `internal/server/admin_jobs.go`, `admin.go` | one job slot, contexts, progress | start, cancel, reindex of users or a path, reconciliation, preview warm-up | the slot can change hands while its old owner looks at it; workers and channels | one job at a time; cancelling ends a job; a job ends |
| **File operations** `internal/files/service.go`, `internal/server/files.go`, `bulk.go` | home directories, favourites, shares by path | list, make folder, move, write content, bulk | check-then-act on names; fixed temporary names; calls that fail or are the last before the process stops | no file lost, shown in part or replaced unasked |
| **Trash** `internal/files/service.go`, `internal/store/trash.go` | trash directory, table `trash_items` | delete, restore, purge | file, directory and row change in separate steps; requests for one item overlap | a deleted file is in the trash with its `meta.json` or back in the home; the trash lists what is in it |
| **Listing pagination** `internal/server/files.go`, `ListFileIndexFolder` | none | cursor encode/decode, page after cursor | ties in name, case, size, date | pages partition the folder |
| **Events, SSE, webhooks** `internal/server/events.go`, `webhooks.go`, `server.go` | subscriber channels, webhook rows | subscribe, publish, unsubscribe, shutdown, deliver with retries | channels closed by two parties; full channels; repeated deliveries | no send to a closed channel; events in order, dropped only when a channel is full; streams do not hold up the end |
| **Sessions, rate limiter, API keys** `internal/server/auth.go`, `ratelimit.go`, `internal/store` | session rows, limiter windows | login, logout, allow, record, clean | window boundaries | a blocked key stays blocked for its time |
| **Demo mode** `internal/server/demo_cleanup.go` | uploads of the demo user | limit, hourly removal | check long before the effect; removal by path | limit respected, only demo uploads removed |
| **Previews, WebDAV, configuration, migrations, CLI, logging, static files, screens** | caches, library locks | — | — | not protocol state; see section 8 |

Interactions. The upload server, the file handlers and the watcher all write
the file index; admin jobs scan the disk and prune the index; upload
finalisation updates the index, warms a preview and publishes `upload.complete`
to SSE subscribers and webhooks. The clients reach the server over HTTP only;
Go's `net/http` runs every request in a goroutine of its own, and a handler
whose client has gone keeps running until it next looks at its context or reads
from the connection. The ticker goroutines (TTL cleanup, demo cleanup, watcher)
share the database and the disk with the handlers and hold no lock over them.
A page of the web client is one JavaScript thread: a function runs to its next
`await` without interruption, and what interleaves are the rests of functions
after their awaits, timers, events of the user and loaders that call back.

## 2. Plan

1. **Uploads** (done here): `TusUpload`, the abstract `UploadPromise`, the
   refinement `TusRefinement`, the client composition `UploadClient`, and proofs
   of everything the runs check of them but liveness.
2. **Index and admin jobs**: `Reindex` (done here: job slot, scan, batches,
   staged text, pruning, one request beside it; all its properties are proved in
   `ReindexProofs`). To do: the channels between walk, workers and collector (does
   every error path end the goroutines?), the reindex of a path and of a moved
   folder, what is done with a finished reconciliation.
3. **Web client** (done here): a module for each part that has protocol state,
   `WebClient` with all of them, proofs of every safety property of its parts.
   Left: API keys and the forms for users.
4. **Watcher**: `Watcher` (done here: timer, coalescing, walk, watches, and the proof
   that it is aligned at rest). To do:
   reloading the roots, `ClearNeedsRescan` together with the reconciliation, a second
   batch of events once the code takes one (section 4).
5. **Trash and file operations** of the server: `FileOps` (done here, with proofs). To
   do: folders that are copied piece by piece, the index updates that follow a
   change, an abstract home with atomic operations and the refinement for requests that do not overlap.
6. **Events, webhooks, limiter, demo mode**: `Events` (done here, with proofs). To
   do: deliveries to webhooks with their retries, window arithmetic of the limiter
   against a reference, the demo limit.
7. **Pagination**: pure operators, pages partition a folder for every order.
8. **Persisted mobile queue**: the app and the background service over one
   preference.

Theorems in the order of worth: type correctness and the upload invariants, the
refinement of `UploadPromise`, that a file is stored once (done); one job at a time,
the safety of pruning, alignment after a job (done); no file lost, the trash
listed (done); the queue, the folder and the other parts of the web client (done);
alignment at the watcher's rest (done). Every safety property that a run checks and finds
to hold is the property of a theorem. Left: what the modules still to be written will promise;
of those at hand, `StoredOnce` for uploads that may be empty, once the code resumes them,
and `AtRestAligned` without its two hypotheses, once the watcher watches a directory again.

## 3. Modules

| Module | Models | Composition |
|---|---|---|
| `TusUpload` | the upload server and its cleanup | — |
| `UploadPromise` | what uploads promise, without files, requests or cleanup | — |
| `TusRefinement` | the mapping from `TusUpload` to `UploadPromise` | `EXTENDS TusUpload`, `INSTANCE UploadPromise WITH ...` |
| `UploadClient` | the Flutter queue over breaking connections | `EXTENDS TusUpload`; every client step that reaches the server conjoins an action of the server |
| `TusUploadProofs` | type correctness, one event per upload, staged bytes, whole files, growing offsets, completed uploads and their names, the promise | `EXTENDS TusRefinement, TLAPS` |
| `UploadClientProofs` | the queue uses the server as it may, resumes, stores once | `EXTENDS UploadClient, TusUploadProofs` |
| `Watcher` | the filesystem watcher beside other programs | — |
| `WatcherProofs` | alignment at rest | `EXTENDS Watcher, TLAPS` |
| `Reindex` | the job slot, reindex jobs and a request over the index tables | — |
| `ReindexProofs` | type correctness, one job at a time, pruning, alignment of rows, names and text | `EXTENDS Reindex, FiniteSetTheorems, TLAPS` |
| `WebUploads` | the web client's upload queue | `EXTENDS UploadPromise`: what the server promises is all the client may rely on |
| `WebLists` | arrays that are sorted, filtered and sliced | — |
| `WebFolder` | session, listing, tree, file actions, event stream | `EXTENDS WebLists` |
| `WebSelection` | selection, keyboard, menus, dialogs, stepping through images | `EXTENDS WebLists` |
| `WebViewer` | text viewer and editor | — |
| `WebTrash` | the trash panel | `EXTENDS WebLists` |
| `WebAdmin` | the admin panel's job and its polling | — |
| `WebThumbs` | 3D thumbnails | — |
| `WebModel` | the 3D viewer | — |
| `WebSearch` | the search dialog and the info panel | — |
| `WebClient` | the page | `EXTENDS` the nine modules above |
| `WebUploadsProofs` | what is proved of the queue | `EXTENDS WebUploads`, libraries of finite sets and well-founded induction |
| `WebFolderProofs` | arrays; the session and its stream; the folder on the screen | `EXTENDS WebFolder`, libraries of finite sets and sequences |
| `WebClientProofs` | thumbnails, 3D viewer, editor, search, info panel, trash panel, selection; types; all parts together | `EXTENDS WebClient, WebUploadsProofs, WebFolderProofs` |
| `FileOps` | moving, deleting, restoring, purging and saving files; the trash | — |
| `Events` | event streams and the end of the server | — |
| `Server` | files and streams of a user | `EXTENDS FileOps, Events` |
| `ServerProofs` | files kept, the trash listed, channels and order of events, both together | `EXTENDS Server, SequenceTheorems, TLAPS` |
| `MCTusUpload`, `MCUploadClient`, `MCReindex`, `MCServer`, `MCWebClient` | lengths, homes, paths, taps for TLC | |

### TusUpload and the code

| Variable | In the program |
|---|---|
| `rec[u]` | the row of `u` in table `uploads`: `none` (not inserted), `open` (`completed_at` null), `done`, `gone` (deleted); `offset`; `final`, the number of the name in `final_path`; `old`: `updated_at` is more than the TTL ago |
| `part[u]`, `staged` | the inode of `<id>.part`, and whether the path still leads to it. A handler that has the file open writes to the inode, wherever its path went |
| `owner`, `copy`, `by` | the names `a.txt`, `a_01.txt`, ... of the target folder: whose file each one is; if finalisation copied, what that file holds and which request created it |
| `sameFS` | chosen once: does `rename` from staging to home succeed or report EXDEV? |
| `folder` | the target folder resolves (`FinalizeUpload` fails when it does not) |
| `req[h]` | a request: the step it is at, its upload, the offset it read (`off`), the position it writes next (`pos`), the name it chose |
| `cl` | the cleanup goroutine with the lists it made earlier |
| `published[u]` | `upload.complete` events |
| `contended` | history: the names two requests have held at once, between `AvailableName` and the row |

A handler is a sequence of steps, one per system call or SQL statement, in the
order of the code:

    POST   CreateFile  WriteByte*  CreateBodyEnds  CreateRecord  [finalisation]
    PATCH  PatchRead  PatchOpen  PatchTruncate  WriteByte*  PatchEnds  UpdateOffset  [finalisation]
    finalisation (completeUpload)
           CompleteCheck  FindName  Rename                         CompleteRecord
                                    CopyCreate CopyData RemoveSource
    DELETE DeleteRead  DeleteFile  DeleteRecord
    ticker CleanupList  (CleanupRemove CleanupDelete)*  ScanStart  ScanPart*  SweepOrphan*  CleanupDone

`PatchFails`, `CreateFails` and `CopyFails` are the error paths with effects
(truncate back, remove the staging file, remove the target); `Abort` is every
error path without one (a cancelled context, a failing statement or call).
HEAD changes nothing and is a read in `UploadClient!HeadAnswered`. `Crash`
drops requests and the cleanup's lists, and keeps rows and files; the next step of
the cleanup after it is the one `RunUploadCleanup` makes when the process starts
(`BootCleanup`). `FolderGone` is another user action on the target folder. `Expire` is the clock.

What is abstracted: a file is its length and the set of positions that hold the
byte of the source (a position is only ever written with its own byte, other
positions are holes of zeros), so "the same content" is `Whole`; all uploads
compete for one file name; header syntax, path validation and authentication
are outside. The index update and the preview inside `completeUpload` do not
influence uploads and are part of step 2 of the plan. A read of the file during
the copy is one step (`CopyData`), which is the last moment at which the bytes
could still be wrong.

### UploadClient and the code

An item goes through `queued`, `uploading`, `done` or `error`; `stage` is where
`_uploadOne` stands inside an attempt. `ConnectionLost` may happen in any stage:
the app forgets the request (`h`) and goes to the next attempt, while the
handler remains and finishes, fails or hangs as it likes. Answers arrive through
`ReplyArrives`, which is also the moment the handler is over. POST answers 201 as soon
as the row is stored (`Created`), also when an empty upload could not be finalised, which the
server only logs (`tus.go:133`). `HandleFromClient`
restricts the bytes a handler can see to what the app sends: no body with POST,
exactly the remaining bytes with PATCH, or a broken connection.

### Watcher and the code

| Variable | In the program |
|---|---|
| `disk`, `version` | the home root: files (`Top`), one directory (`Dir`) and its files (`Inner`); a number stands for size, time and text, 0 for "not there". For the directory it only says whether it is there: its modification time, which its row keeps (`watch.go:397`) and no event refreshes, is left out |
| `watched`, `seen` | the kernel's watch on the directory, and its entry in `Watcher.seen`; they part when the directory is removed |
| `queue`, `lost` | `watcher.Events`, and an overflow waiting in `watcher.Errors` |
| `pending`, `timer`, `armed` | the map of coalesced events, the debounce timer, and whether the local `timerC` is the timer's channel |
| `batch`, `cur` | what `processEvents` still has to handle; the event in work, with the step of its handler, the `FileInfo` it holds and the entries its walk still has to visit |
| `index`, `text`, `needsRescan` | `file_index`, `document_fts`, `health.NeedsRescan` |

    Run           Receive  RecordError  Flush
    processEvents TakeEvent* BatchDone
    one event     Stat -> Delete
                       -> UpsertRow ReadText UpsertText                       (a file)
                       -> AddWatch WalkRoot UpsertRow ReadDir NextFile* EventDone   (a directory)

`Fail` is the error return of any of these. Everything else in the module
(`Report`, `Write`, `Remove`, `MakeDir`, `LoseDir`, `TimerFires`) is the world.
The operations of an event are two: `touched` (create, write, chmod) and `gone`
(remove, rename), since `handleEvent` tells no more apart. Two switches enlarge
the world beyond what the passing run assumes: `Recreate` lets a directory come
back under a path that was watched before, `MayMisread` lets the text of a file
be unreadable for a moment. With either of them `AtRestAligned` does not hold:
`add` finds the path in `seen` and does not watch it again; the read error is
swallowed and empty text stored.

### Reindex and the code

| Variable | In the program |
|---|---|
| `disk`, `version` | the files of all users; a number as above |
| `rows`, `names`, `text`, `staging` | tables `file_index` (with `last_seen_scan`), `file_index_fts`, `document_fts`, `document_staging` |
| `slot` | `AdminJobs.current` |
| `job[j]` | the goroutine of job `j`: its step, the user in work, the users left, whether one has failed, the loaded snapshot; `own`: does it run with the job's context (reindex) or the server's (reconciliation)? |
| `item[j][f]` | how far the scan has got with a file: walked, its text read, compared, in a batch, flushed |
| `api` | a request between its change on disk and its index update |
| `quiet`, `clean` | history: see the properties |

    job     Start Truncate (NextUser scan Prune)* AllUsersDone Apply Rebuild Complete
    scan    WalkFile ReadFile CompareFile per file, in any interleaving, with LoadSnapshot;
            FlushChanged, FlushUnchanged, FlushStaging; ScanEnds, FlushEnds
    request RequestWrites RequestStat RequestRow RequestText  |  RequestDeletes RequestUnindexes

The walk goroutine, the workers and the collecting loop share `item`; their
channels are left out, so a file is in the hand of exactly one of them. Batches
are any non-empty set of the files ready for it, at any time: `reindexBatchSize`
only decides which. The request is the only writer of the disk beside a job,
so it reads version and text in one step; unreadable text is left out.

Where the condition `quiet` (no request since the job started) is dropped,
`ScanSparesPresent` and `CompletedAligned` fail: `DeleteFileIndexEntriesNotSeen`
prunes the row a request has just written, because the row carries the request's
scan id; the next job brings it back. Where `clean` is dropped,
`CompletedTextAligned` fails: rows are written during the scan, text is applied
only at the end, and the next job finds the rows unchanged and does not read the
text again. A failed or cancelled job so leaves text behind for good.

### The web client and the code

`App.svelte` is one component with some two hundred reactive variables. They
fall into nine groups that only meet through a few calls, and each group is a
module. An action is the part of a function between two awaits; a slot (`calls`,
`requests`, `trashCalls`, `task`, `fetching`, `saving`, `arriving`) holds what the
function needs after its await, that is, its local variables. Between `...Served`
(the server has acted) and `...Answers`, `...Answered` or `...Fails` (the rest of the function)
anything else may happen; an answer may fail after the server has acted. For the queue's
HEAD and PATCH that means: an upload that the server has called whole (`HeadServed`, `PatchServed`)
may have been cleaned up by the time the item becomes done (`WholeAnswered`).

| Module | Variables | In the program |
|---|---|---|
| `WebUploads` | `queue[i]` | `uploadQueue`: status, `tusUrl`, `attempts`, whether the `File` is still there (not after a reload) |
| | `rest[b]`, `task[t]` | the `remaining` list of a batch in `uploadFiles`; a worker or a retry, with the await it is at |
| | `promise` | the server: the variables of `UploadPromise` |
| | `received` | history: the uploads of which the server has had every byte |
| `WebFolder` | `fs` | the user's home on the server |
| | `currentPath`, `entries`, `more`, `cursor`, `treeEntries`, `openTree`, `url` | the listing, `nextCursor`, the tree and the address bar |
| | `calls[s]` | pending `loadEntries`, `loadMoreEntries`, tree loads, actions, login and logout |
| | `busy` | the label of a running action, put out by `runAction`'s `finally` |
| | `conn[r]`, `fileEvents`, `events`, `timer` | the readers of `startFileEvents`, the abort controller, published events, the refresh 250 ms later |
| `WebSelection` | `listed`, `fileTypeFilter`, `descending` | what `visibleEntries` is made from |
| | `selectedIds`, `anchorId`, `contextMenu`, `actionDialog`, `shownFile` | the variables of these names (`viewerFile`) |
| `WebViewer` | `stored` | file contents on the server: the file a content comes from and the last change to it |
| | `viewerText`, `editorMode`, `editorDirty`, `editorSaving`, `codeEditor`, `editor` | the flags of the viewer, the lazily imported editor module, the CodeMirror document |
| | `fetching`, `saving`, `opens` | texts asked for and contents being saved, each with the opening of the viewer it belongs to |
| `WebTrash` | `bin`; `trashItems`, `trashSelectedIds`, `trashAnchorId` | the server's trash; the panel |
| `WebAdmin` | `job`; `adminJob`, `adminPoll` | the server's job; the one on the screen and the `setInterval` of 1.5 s |
| `WebThumbs` | `cache`, `pending`, `waiting` | the two maps of `ThreeDThumb.ts` and the callbacks in the second |
| `WebModel` | `loadedSrc`, `scene`, `currentObject`, `asked`, `arriving` | the component's variables and the loads that have not called back |
| `WebSearch` | `searchQuery`, `searchResults`, `searchOpen`, `searchDebounce`, `searches` | the dialog (results named by the query they answer), the timer of 300 ms, pending `searchFiles` |
| | `infoEntry`, `infoExif`, `infoExifLoading`, `reads` | the info panel (data named by its file) and pending `fetchExif` |

Seven variables are history: `received`, which a property is about, and six on which properties are
conditional: `calm` (no overlapping loads, failed calls, changes
without a subscription since the last lone listing), `missed` (the panel's last
request failed, or somebody else changed the trash), `unsure` (files whose last
save seemed to fail and was done), `strayed` (what the viewer shows has been changed by an answer that
belongs to something else; section 5), `crossed` (searches for different queries were
on their way together, the query was cleared meanwhile, or one failed) and `mixed` (the
info panel was opened while the data of another file was on its way).
Section 5 says what TLC finds without them.

Why the parts are checked one at a time. `WebClient` has one state with the
variables of all parts, and a behaviour exercises the part that `focus` names. Since
the page is one thread, the other parts can act on a part only between
its steps, and each module contains what they can do to it as actions of its own:
after an upload, a restored item or a saved text `refreshCurrent` is called, which is
`Refresh` at any time in `WebFolder`; a listing that arrives is `ListReplaced` or
`ListExtended` at any time in `WebSelection`; deleting files behind the panel is
`TrashChanges` in `WebTrash`; jobs that others start are `JobStarts`
in `WebAdmin`. These are wider than what the other parts really do.

Deliberate abstractions. Entries are numbers in the order of their names, paths
are sequences of names, a page is the entries after the cursor in `Order`.
`Order` tells siblings apart, and 0, the cursor of the first page, is before them all.
Folders, trash and listings are finite, and arrays are defined by the places of
their elements (`WebLists`): how many elements come before. That says the same of a finite
set as a recursive sort, and can be reasoned about without induction.
`Act` is creating, renaming, moving or deleting one path, which is what
each item of a bulk call does; a folder takes what is in it along (`Along`). Going back in the browser is left out:
`syncURLPath` uses `replaceState` (`App.svelte:1462`), so there is nothing to go back to.
A save replaces the content, and typing makes a content that exists nowhere else.
CodeEditor appears in the step in which both its module is loaded and the mode
is edit. A failing logout leaves the user on the screen, as in the code; that Logout is not
pressed again while it is pending is the parameter `LogoutOnce`. The
status "interrupted" is set by `uploadOne` for an item without its `File`
(`App.svelte:560`); such items come from a reload only, `retryUpload` returns for
them before it gets there, and so no behaviour reaches it.

### FileOps and the code

| Variable | In the program |
|---|---|
| `home`, `edit` | the inode at each path of the home, and at its `.godrive-edit.tmp` |
| `bin`, `meta`, `rows` | of each trash item: the inode at `file` in its directory, whether `meta.json` is there, the original path in its row of `trash_items` |
| `data`, `made` | whose content each part of an inode is (0: nothing yet), and how many inodes there have been |
| `issued` | ids that `RandomID` has given |
| `sameFS` | chosen once: `rename` works between home and trash, or reports EXDEV |
| `req[h]` | a request: its operation, its next step, its local variables (`from`, `to`, `id`; for a copy the two open files; for a save the open file, the position, and the number of the new content) |
| `kept`, `smooth`, `alone` | history: contents the user has and has not given up; no call has failed and the process has not stopped; no two requests have overlapped |

    Move, MoveInto           AskMove     MoveInHome
    DeleteToTrash            AskDelete   WriteMeta  (movePath)  InsertRow
    RestoreTrash             AskRestore  FindPlace  (movePath)  DeleteRow  RemoveDir
    PermanentlyDeleteTrash   AskPurge    RemoveDir  DeleteRow
    WriteContent             AskSave     OpenEdit  WritePart*  Replace  |  SaveFails
    movePath                 Rename  |  CopyCreate  CopyData  RemoveSource  |  CopyFails

`Fails` ends a request at any call or statement without an effect of its own, `Crash`
ends all of them; neither undoes what is done. A content is given up by the request that
purges it (`AskPurge`) and by the rename that replaces it by a save (`Replace`).
Requests overlap in the code; `alone` is the condition of three properties. Between two file systems Linux reports EXDEV
before it looks at the names, so `copyPath` is also what finds a source that has gone, and `movePath`
then removes the target (`service.go:483`). Entries are files: a folder that is moved by
`rename` behaves like one, a folder that is copied does not. The suffixes of `AvailableName` are
the sequence `Candidates`; the parent folder is always there.

### Events and the code

One user's `eventsSubs`; `channel[r]`, `closes[r]` and `stream[r]` are the
channel of a stream, how often it has been closed, and where its handler is. What is done
under `eventsMu` is one step (`Subscribe`, `Publish`, `Unsubscribe`,
`CloseAllSubscriptions`). `Accept` and the end of the server are `net/http`'s: `Shutdown`
closes the event channels first and the listeners after that, so a request
can still subscribe in between and later (`late`). `Drained` is its return, `CutOff` the
end of the context given to it. That context has 5 seconds (`cmd/godrive/main.go`), where `README.md:29`
and `docs/getting-started/deployment.md:91` say 15; time is not in the model. A second
`close` in the deferred `unsubscribeEvents` panics; the deferred `Unlock` runs, `net/http`
recovers the panic, and the stream has ended. A send to a closed channel would
panic in `publishEvent`, which the watcher's goroutine calls as well, where nobody recovers it:
`panicked` records that, and `ChannelsRight` says it never happens.

`Server` puts files and streams beside each other. A handler publishes after its files are done with, no
request waits for a stream, and an event carries no content, so that `Publish` at any time
is all a stream sees of the requests; a behaviour exercises one of the two, the `focus`.

## 4. Runs

| Run | Asks | Instance | Result |
|---|---|---|---|
| `tus_exclusive` | Are acknowledged bytes and stored files right when each upload has one request at a time? `TypeOK`, `AcknowledgedBytesStaged`, `NamedIsWhole`, `CompletedIsWhole`, `OffsetMonotone`. And does a stored file keep its name, and the server its promise, when uploads race for a name? `UncontendedIsThere`, `KeepsPromise` | 2 uploads of 2 and 1 bytes, 2 request slots, 1 name, rename and copy | holds |
| `mobile_retry` | Can retries store a file twice or announce it twice? `StoredOnce`, `PublishedOnce` | 1 item, 2 uploads, 2 request slots, 2 names, 2 attempts, any number of retries by the user | holds |
| `mobile_cleanup` | Does the queue resume what the server knows, does each upload end, is space given back, and is the promise kept while the TTL cleanup and its orphan scan work beside the requests? `ResumesKnownUpload`, `VerdictReached`, `StagingReclaimed`, `KeepsPromise` | 1 item, 1 request slot, rename and copy, cleanup with failing look-ups | holds |
| `mobile_late_patch` | Is finalisation atomic for the app's queue? `NamedIsWhole` | as `mobile_retry`, rename | violated |
| `mobile_not_stored` | Is an item shown as done stored? `DoneIsFinalised` | as `mobile_retry`, rename | violated |
| `reindex` | Is the index right after a job, and safe during one? `ReindexTypeOK`, `OneJobAtATime`, `ScanSparesPresent`, `CompletedAligned`, `CompletedTextAligned` | 2 users with 1 file each, any index older than the disk, 2 jobs, 1 change by a request, failures, cancellation | holds |
| `watch_aligned` | Does coalescing lose a change? `AtRestAligned`, `FirstEventsFlushed` | 1 file, 1 directory with 1 file, 4 changes, overflow, failures | holds |
| `watch_second_flush` | Does a change reach the index? `ChangesReachIndex` | the same, 2 changes, no failures | violated |
| `tus_exdev_removes` | Is naming conflict-safe when finalisation copies? `CompletedIsThere` | 2 uploads, 2 request slots, 2 names, copy | violated |
| `web_client` | Does the page stay right while answers come late, out of order or not at all? `WebTypeOK`; uploads: `ChainsMatchQueue`, `DoneIsReceived`; folder: `AtRestShown`, `StreamOfUser`; selection: `SelectionVisible`; editor: `EditorShowsFile`; trash: `TrashShown`; 3D: `SceneHoldsCurrent`; search and info panel: `FoundIsShown` | each of the nine parts (search and info panel apart) with 2 to 7 actions of the user, see section 5 | holds |
| `web_progress` | Does what is asked for come to an end? `UploadVerdict`, `JobEndShown`, `EveryCardAnswered` | uploads, admin panel and thumbnails as in `web_client` | holds |
| `server` | Is a file ever lost, shown in part or replaced by a restore; does the trash list what is in it? Are channels closed and used in the right order, events delivered in order, and does the server end? Files: `NothingLost`, `HomeIsWhole`, `RestoreReplacesNothing`, `TrashListsFiles`; streams: `ChannelsRight`, `StreamsInOrder`, `ShutdownDrains` | 2 files, 3 names, 2 trash items, 3 requests, of which 2 can overlap, by rename and by copy, failures, crashes; 2 streams, 3 events, channels of 2 | holds |

In the upload runs `Crash` is always possible, so that TLC's deadlock check says
nothing; progress is stated by `VerdictReached` and `StagingReclaimed`. In
`reindex`, the watcher, web and server runs it is off: jobs, changes, requests, events and taps of the user are bounded, and an
instance that has used them up stops.

### Findings

* **A late PATCH damages a stored file** (`mobile_late_patch`). A connection
  breaks while the handler of a PATCH has read the row but not truncated yet.
  The app resumes; its second PATCH finishes the upload, and `rename` moves the
  inode into the target folder. The first handler still has that inode open and
  truncates it to the old offset (`internal/server/tus.go:194`). The stored file
  is short although the upload is completed. The proofs in section 6 show that
  excluding a second request for an upload is enough to rule this out.
* **Done, but not stored** (`mobile_not_stored`). `tusPatch` acknowledges the
  last offset before it finalises. If finalisation fails (the folder was moved,
  the process stops), a resumed attempt reads an offset at the end and
  `tus.dart:147` reports success. Nothing finalises the upload afterwards: a
  PATCH at the end would, but no client sends one; the TTL cleanup deletes it.
* **A copy removes another upload's file** (`tus_exdev_removes`). When staging
  and home are on different file systems, two uploads of the same name choose
  the same free name; the second copy fails on `O_EXCL`, and `movePath` answers
  every copy error with `os.RemoveAll(target)`: the other, completed upload.

* **Only the first flush** (`watch_second_flush`). Every flush calls `stopTimer`,
  which sets `timerC` to nil (`internal/watch/watch.go:200`). `resetTimer` sets it
  only when it makes the timer; later it resets the old timer, whose channel no
  `select` listens to. Events after the first flush stay pending until the watcher
  is closed, and `NeedsRescan` does not tell; the periodic reconciliation, where it is
  configured, hides this. `FirstEventsFlushed` therefore speaks of the first
  events only, and `AtRestAligned` is met with one batch: what comes later is
  pending, and the watcher is not at rest. A timer whose
  channel is set again would not be all there is to put right: `AtRestAligned` is then violated
  after five changes. A directory is made; while its event is handled it is removed before
  `AddRecursive` and made again after it, so that it has no watch; a file in it is written,
  indexed by the walk, and removed unseen. The second batch has both events of the directory as one, which
  `handleEvent` takes for a change, and the walk it starts adds rows but removes none.

Three more disagreements with the documentation, which no run states. TLC finds the
last two when `alone` is dropped from the properties named.

* **No automatic resume.** After a failed attempt `uploadOne`
  calls itself (`web/src/App.svelte:577`) and so `uploadTus`, which begins with a new
  POST (`web/src/lib/api.ts:324`); the URL of the upload that broke off is overwritten
  (`TryAgain` and `PostAnswered` of `WebUploads`). Only the user's Retry resumes (`App.svelte:588`).
  `docs/features/web-ui.md:19` says "Resumes automatically after connection drops". If only
  the last answer was lost, the file is stored twice, the second time under a conflict suffix.
* **A restore takes another file's place** (`RestoreReplacesNothing` without `alone`). `RestoreTrash`
  looks for a free name (`internal/files/service.go:315`) and moves the file in a later call (`:319`), and
  `rename` replaces what has come there; between two file systems the copy fails
  on it and `movePath` removes it (`:483`). `docs/security-audit.md:103` says "Restore from trash handles
  conflicts and does not overwrite existing files." Two versions of one path, restored
  together from the trash panel (`Promise.all`, `web/src/App.svelte:749`), are
  enough to lose one. `RestoresApart` proves the sentence for requests that do not overlap.
* **Two saves at once** (`HomeIsWhole` without `alone`). All saves of a file use one temporary
  name (`internal/files/service.go:413`) and open it with `O_TRUNC`. The rename of the
  first puts into place what the second has just emptied, which the second then fills before
  the user's eyes; a stop of the process there leaves the file in pieces. The comment of
  `WriteContent` says "atomically replaces"; `SavesWhole` proves it for requests that do not overlap.

## 5. Bounds and fairness

* `Uploads`: two, since every property relates at most two uploads; for the
  client, the second upload is the one an extra POST would create.
* `Length`: 2 bytes and 1 byte. Two bytes distinguish "nothing", "a prefix" and
  "everything", so that a resume in the middle exists; one byte is enough for
  the client runs, where an attempt is lost before or after all of its bytes.
* `Handlers`: two, the least number at which requests race.
* `MaxSuffix`: 0 or 1 conflict suffix, so that a free name, a taken one and the
  exhausted loop (9999 in `AvailableName`) occur.
* `MaxAttempts`: 1 or 2 of the 4 in the app; the user's retry makes the number of
  attempts unlimited anyway, and `UserRetries` does not reset what the item knows.
* `WriteByte` stops at one byte past `Length`, as `copyUploadChunk` does.
* `Overlap` is a parameter: TRUE is the code, where nothing prevents a second
  request of an upload; FALSE is the restriction under which the byte-level
  invariants hold. The theorems say `Apart`: it is FALSE, or there is only one request slot.
  `CleanupEnabled` is the configuration `GODRIVE_UPLOAD_TTL`.

* `Watcher`: `MaxVersion` 5 is four changes by other programs, enough to make a
  directory, fill it, and remove or change it while a walk is in it; one name per
  place, since events of different paths are handled one after the other.
* `Reindex`: `MaxJobs` 2 (a job and its successor, which meets what the first
  one left behind), `MaxVersion` 3 (one change by a request; two older versions give the
  stale index), a file per user. Two files of one user (21 s without, 49 s with the
  request) hold as well; the theorems cover any number.
* `WebClient`: `MaxTaps` bounds the actions of users (and of others elsewhere)
  per part: uploads 2, folder 2, selection 3, editor 7, trash 4, admin 3, thumbnails
  7, 3D viewer 6, search 7, info panel 6. Everything that goes on by itself is bounded by the slots
  only. Uploads: two items (one byte, and empty), three server uploads, two chains,
  one worker per batch, two attempts: two batches, or a batch and a retry, meet on
  the queue. Folder: seven paths, so that a folder with a file in it is moved
  into another one, or deleted under the client, and with `PageSize` 1 has two pages; two
  pending calls and two streams. Selection: four entries, a folder and two images
  among them, three filters, two columns. Editor: two files, two changes (one that is
  saved and one that is typed meanwhile), and seven taps: enough to edit a file, type and save, open another and
  come back, with answers of each opening on their way. Trash: two items
  and two requests. Admin: two jobs and two requests, so that polls overtake. Thumbnails:
  two cards of one file and one of another. 3D viewer: two models and one without a loader.
  Search: two queries; info panel: two photos and another file; three requests pending of each,
  so that a search in time, one by Enter and one for another query meet.
  Larger explorations that were made once, with the same results: the folder with 2 taps
  of the user and a change elsewhere on top (243,875 states), uploads with 3 taps (117,680 states), the editor alone with any number of taps, three openings and
  two changes (2,229,973 states), and `KeepsPromise` with DELETE beside the cleanup, two names, an upload of
  one byte and an empty one, by rename and by copy (2,959,336 states).
* Parameters of `WebClient` that narrow the world, and what TLC finds without them:
  `Revisit` FALSE, no model is opened twice while the 3D viewer stays. TRUE violates
  `SceneHoldsCurrent`: loads are told apart by their source, and two of one source
  both add an object, one of which is never removed. `WebGL` TRUE, a renderer can
  be made. FALSE violates `EveryCardAnswered`: the exception leaves the file in
  `pending`, and the next card of it waits for ever. Dropping `calm` from
  `AtRestShown` shows the listing of another folder after overlapping loads, or a stale one
  after a change during the subscription. Dropping `crossed` or `mixed` from `FoundIsShown` shows
  nothing for a query whose search failed, what an older query has found because its answer
  came last, and the EXIF data of one image under the name of another (`App.svelte:243`).
* `strayed` in `EditorShowsFile`. Users may type, leave, open, save and press Edit whenever the page
  lets them; the property holds until an answer that belongs to something else has changed what is open,
  and again from the next opening on. `strayed` is set in these cases, and each of them does go wrong: TLC
  violates the property in `web_client` when any one is no longer excepted.
  - The text of an earlier opening is answered, and shown in the file that is open now (`App.svelte:656`).
  - A save begun in an earlier opening is answered: the file that is open now is marked as not dirty
    and its text replaced (`App.svelte:680`); or it is served after the open file's text has
    been read, which is then out of date.
  - The user types on during a save: its answer clears `editorDirty`, and Save is not offered for
    what was typed since.
  - The editor appears before the text, by Edit in the header (`App.svelte:1929`) or because its module arrives
    earlier: it is empty, and Save replaces the file by what is typed.

  No document of the repository promises otherwise, so there is no finding about them.

* `FileOps`: the second name is what `AvailableName` gives when the first is taken; `Parts` 2,
  so that a save has a beginning and an end; `MaxAsked` 3 requests are a delete, another file at
  its path and a restore, or two that meet and one before; `MaxInodes` 5 is the two files and three that
  are made. With 4 requests all properties of the run hold as well (6,120,084 states, 4 minutes).
* `Events`: two streams, one of which can be late; a channel of 2 (32 in the code) is
  empty, in part full and full, and a third event finds it full.

`mobile_cleanup` and the watcher runs need fairness. `WF(TimerFires)`: a running
`time.Timer` fires. `WF(Watch)`: the goroutine of `Run` takes what its `select`
offers and its file and database operations end. There is none on the world.
In `mobile_cleanup`: `WF(Expire)`: time passes for an upload
nobody touches. `WF(Cleanup)`: the ticker goroutine of `RunUploadCleanup` loops
for as long as the process lives, and its file and SQL operations end.
`WF(Client)`: Dart's event loop runs and a request ends in an answer or, by
`ConnectionLost`, in a time-out or an error; there is no fairness on a
particular outcome and none on the server's handlers, so a handler may hang.
`StagingReclaimed` is stated for behaviours in which the cleanup of a start is not due for
ever again (`<>[](cl.pc # "boot")`, which a `Crash` makes due), that is, in which the process
stays up at last; it exempts an upload on which a request works.

In `web_progress`, `WF(GoesOn(t))`: the await of an upload ends, in an answer or an
error; no outcome is favoured. `ThumbsFairness`, `WF(Rendered(m))`: a loader calls
back, since each has an error callback. `AdminFairness`: `WF(PollTick)`, an interval that is
set fires; `SF(Served)` and `SF(Answers)`, a request that is sent again and again is not
lost every time (strong, because a failing request disables its own step); `WF(OpenEnds)`,
the requests that open the panel end. Nothing is assumed of users, or of jobs.

In `server`: `WF(Stream(r))`, a handler's goroutine goes on and its writes end (a client that never
reads is cut off by the kernel or by `CutOff`, on which there is no fairness); `WF(StopListening)` and
`WF(Drained)`, `Shutdown` runs and polls the connections. Nothing is assumed of clients or events.
`ShutdownDrains` excludes streams that subscribe after the channels were
closed: nothing ends them but their clients and the end of `Shutdown`'s time.

## 6. Proofs

The upload theorems are for arbitrary `Uploads`, `Handlers`, `Length`,
`MaxSuffix` and `Mounts`, under the named assumptions of `TusUpload` and those a
theorem names itself.

* `TypeCorrect`: `Spec => []TypeOK`. `TypeOK` alone is not inductive: the
  recorded offset comes from the position of a handler, so `TypeInv` bounds the
  positions at each step of a request and ties a busy request to an upload.
* `EventPublishedOnce`: `Spec => []PublishedOnce`, whatever overlaps, fails or
  is cleaned up. `EventInv` says that an upload that is not completed or deleted
  has no event; the `WHERE completed_at IS NULL` of `CompleteUpload` does the rest.
* `BytesStaged`, `NamesWhole`, `OffsetsGrow`: `AcknowledgedBytesStaged`,
  `NamedIsWhole` and `OffsetMonotone`, each with `ASSUME Apart`. The
  invariant `FileInv` has four parts: `Alone`, two requests never work on one
  upload; `FileOf`, what a request's step says of the staging file it holds
  (from `truncate` on, everything below the offset is there; at `update`, everything
  below the position; in finalisation, the file is whole); `RowBacked`, the same for
  the rows; and `NameWhole`. `Alone` is what the code does not enforce:
  `mobile_late_patch` is the counterexample without it, so the theorems say exactly
  what a per-upload lock would give. The cleanup may be enabled: it only ever
  removes paths and rows.
* `CompletedWhole`: `CompletedIsWhole` with `ASSUME Apart`, also where finalisation
  copies. `CopyInv` follows a copy from `CopyCreate` to `CompleteUpload` (`CopyRight`: the
  name is still this request's, and holds all bytes once they are copied) and says
  of a completed upload that the file under its name, if it still owns it, is
  whole (`DoneWhole`): another upload's failed copy can take it away, but not damage it.
* `UncontendedThere`: `Spec => []UncontendedIsThere`, with no hypothesis: whatever overlaps, fails, is cut off
  or cleaned up. `ThereInv` adds `Picked`: as long as no other request picks it too, the name a request
  has chosen stays free until its file is there, then shows its upload, and is no completed upload's.
  What it excepts is exactly the finding `tus_exdev_removes`.
* `PromiseKept`: `Spec => KeepsPromise` with `ASSUME Apart`, that is without two requests at one upload:
  with any number of request slots, uploads that race for a name, crashes, the cleanup, rename and copy, every
  step of the server is a step of `UploadPromise` or stutters there. The promise says `Contest(n)` when two
  uploads pick one name, and nothing of that name from then on. `PromiseInv` says what a handler
  still knows of its upload (`Pending`), which the cleanup may take out of the table under it
  and which nobody else can have completed, and what has left the staging directory (`Unstaged`).

`UploadClientProofs` is about any number of files, uploads, requests and attempts.

* `ServerImplemented`: `ClientSpec => Spec`. Each client step that reaches the server
  conjoins one of its actions, so that what is proved of the server holds behind
  the queue; `RetriesPublishOnce` is the first use. `ItemsOK` is the type of the items with what each
  stage knows (an upload once it has a URL, a request while one is on its way).
* `ResumesKnown`: `ResumesKnownUpload`, an action property, from `ItemsOK`: the URL is given up in
  `HeadAnswered` only, on a 404.
* `FileStoredOnce`: `StoredOnce`, with `ASSUME ~CleanupEnabled`, uploads that are not empty, and finitely
  many items. `StoredInv` has three parts: `Remembered`, nothing makes the server forget an upload
  (no cleanup, and the queue deletes none); `ServedFor`, a POST carries no bytes and every other
  request is about an upload that some item knows, so an upload whose answer was lost stays
  without bytes; `StoredApart`, the uploads that have put a file under a name are each known to an
  item, each under one name, and their staging files are used up. The conditions are the code's:
  the POST of an empty file finalises at once, and when its answer is lost the next attempt
  makes another upload and stores the file again; and the cleanup makes the queue forget a URL.

The theorems of `ReindexProofs` are for arbitrary users, files, homes, numbers of
jobs and changes, under the assumptions of `Reindex`.

* `ReindexTypeCorrect`: the types, one part of the state after the other.
* `JobsAlone`: `OneJobAtATime`. The invariant `HoldsSlot` ties every goroutine that
  has not ended to the slot and to the status "running"; `startFrom` gives the slot away
  only when that status is over.
* `PresentSpared`: `ScanSparesPresent`. `DELETE ... WHERE last_seen_scan <> ?` is safe
  because of a chain the code builds over a whole scan, and `ScanInv` states it
  link by link: the walk meets every present file (`PresentMet`); once it is over
  every file met waits for a batch or has been in one (`WalkOver`); what was in
  a batch carries the scan's number (`FlushedMarked`); so before pruning every
  present file with a row carries it (`PruneReady`). A scan that fails or is
  cancelled never gets there. `HoldsSlot` keeps other jobs out, `QuietIsIdle`
  requests.

* `IndexAligned`: `CompletedAligned`. `AlignInv` says of a job that runs alone: a row with its number
  is the one of the file on disk (`MarkedIsDisk`; `ScansPast` makes that true when it
  starts: no row has the number of a job to come); what it has met is on disk as it was met
  (`MetIsDisk`); the snapshot still speaks of the rows it is compared with
  (`ComparesRows`); what is flushed has the number (`FlushedHasNumber`); the users it has left
  behind without an error are aligned (`PassedAligned`), and the last steps are only
  taken for all of them (`LastSteps`). The rows it prunes are then those of files
  that are not on disk, whatever they held.
* `TextRebuilt`: `CompletedTextAligned`. A row that is found unchanged is not read again, so the text is right
  only if it was right before: `RestText` says that it was between jobs, a request's
  row apart whose text is still to come; `StagedIsRow` says that what is staged is the text of a row
  with the job's number, and that other text is right unless it is about to be staged. `clean`
  is what this needs: after a failed job neither half holds.

The theorems about the web client are for arbitrary cards, models, files, items,
chains, batches, calls, streams and numbers of steps.

* `ThumbsTypeCorrect`, and `WaitersKept`: `LoadingWaits`, with `ASSUME WebGL`. It is
  inductive as it stands: a card becomes "loading" in the step that puts its callback
  into `pending`, and the step that answers a file empties exactly that entry.
  `EveryCardAnswered` follows from it with fairness, which TLC checks.
* `SceneCurrent`: `SceneHoldsCurrent`, with `ASSUME ~Revisit`. `ModelInv` adds
  `LoadsDiffer`, no two loads of a component are of one source, and `LastLoad`, the load that
  may still pass the test `loadedSrc = asked[n]` is the last one and nothing is in the
  scene before it.
* `EditorRight`: `EditorShowsFile`, with no hypothesis. `ViewerInv` says what every
  pending answer of the present opening will find, until one of an earlier opening has come in between: one save
  is on its way at a time and one text in each opening (`CallsApart`); a text belongs to
  the open file, which shows none yet (`FetchOf`); a content being saved is a version of the open
  file (`SaveOf`); the text shown is the stored one, or a save lies between (`TextOf`); the editor
  differs from the text only when Save is offered (`EditorOf`).

* `ChainsMatch`: `ChainsMatchQueue`, the chains of `uploadFiles` and `retryUpload` never meet at an item.
  `ChainsInv` ties an item to the one chain or list that has it: a chain's item is shown as uploading
  and has counted no more attempts than the chain (`TaskRight`), no two chains have one item
  (`OneEach`), what a batch still lists is untouched and the batch is alive (`RestRight`), no item
  is listed twice (`ListedOnce`) and none is left to nobody (`NoneForgotten`). What takes the work is
  `UploadFiles`, which lists the new items in order: that finitely many keys can be listed so is
  a fact about finite sets, proved from the library's well-founded induction with smallest
  counterexamples, since induction with an operator parameter is out of reach.
* `DoneWhenReceived`: `UploadsSpec => []DoneIsReceived`. Between the server's answer to a HEAD or a PATCH and its use
  the upload may be given up or forgotten, so the invariant `ReceivedInv` is about what the server has had
  (`received`) and not about what it still has: an upload that a chain has been told is whole has been
  received (`WholeRight`), so have all that items call done (`DoneRight`), and an upload is for one
  item, whose size it has, whether the item keeps its URL or a chain still does (`ForOne`).
  `QueueServerKeeps`: the server in that module keeps `UploadPromise`.
* `ScreenCurrent`: `AtRestShown`, with `ASSUME LogoutOnce`. `FolderInv` has four parts:
  `SessionInv` (below); `FolderShape`, the types with what each kind of call remembers;
  `StreamQuiet`, nothing is to be read without a stream, and nothing is due while the session is
  being entered; and `ShownOK`. While the client is calm, `ShownOK` says, at most one call
  will change the list when it is answered. If there is none, what is on the screen
  is a beginning of the folder as it is now (`ListsFirst`), or else the timer runs or an event of
  that folder is still to be read (`Due`), so that a refresh follows. If there is one, the same
  holds of what it will put there: a load that has been served answers with the folder as it is
  or is due (`LoadOK`), a next page goes with the list on the screen (`MoreOK`). The lemmas
  that carry it: `ChangeSeen`, every change of a folder's entries, by whomever, is told to the open
  stream, or the client is not calm; `PageLists`, a page in place of the list is a beginning of the
  folder; `ListsOn`, one behind the list is its continuation; `InOrderSame`, of one set there is
  one array in `Order`.
* `StreamBelongs`: `StreamOfUser`, with `ASSUME LogoutOnce`. `SessionCalls` says that one call at a time
  enters the session, behind the loading screen where Logout cannot be pressed, that one at a time
  leaves it, and that a page is only loaded for a user. A second Logout, pressed while the first is
  pending, breaks it: its answer can come after the next login and take the user away
  from a stream that goes on.
* `FoundShown`: `FoundIsShown`. `SearchInv` and `InfoInv` say that unless requests for different
  things were on their way together, all that are belong to what the field or the panel shows.
* `TrashCurrent`: `TrashShown`. `TrashInv` says what a pending call holds (`TrashCallShape`) and that
  only listed items are selected (`TrashSelected`). `TrashSync` is about the time in which nothing was missed
  (no failed request, nobody else at the trash, no second listing beside a first): unless a request has been
  served whose call has yet to ask for the list again (`Acting`), a listing that is under way and
  served, and the list of an open panel when none is under way, is what is in the trash.
* `SelectionSeen`: `SelectionVisible`. The invariant is the property with the types, `SelectionInv`; the work is
  in what an array of the visible entries is. Every place of it is taken, since as many entries as
  places have different ranks (`VisibleSeq`, from the cardinalities of the sets below); so a range, the next entry of
  an arrow key and the next image of the viewer are visible entries, each once.
* `ClientTyped`: `WebTypeOK`, in every behaviour, since it needs none of the hypotheses above. Most parts have
  their types from their invariants; the viewer and the admin panel have lemmas of their own
  (`ViewerTyped` adds that editing needs an open file).
* `ClientParts`, `ClientSafe`: the page implements the specification of each of its nine parts, so that
  every theorem about a part holds for the page, under the assumptions of all of them: `LogoutOnce`,
  `WebGL` and `~Revisit`.

`WatcherProofs` is about arbitrary files in a home and in one directory of it, and any number of
changes, overflows and errors.

* `RestAligned`: `AtRestAligned`, with `ASSUME ~MayMisread, ~Recreate`. `FollowInv` says who will bring the
  index up to date as long as the watcher comes to rest and asks for no rescan (`~Excused`): a
  path whose row is not that of the disk has an operation that is still to be worked off, is
  being handled, or will be met by the walk of its directory (`RowsRight`). That this is enough needs
  that the operations of a path tell whether it is there (`OpsTell`), that a directory without a watch will get
  one (`WillWatch`), that each step of the handler knows what it has read (`StepKnows`), and that
  the directory's files have no rows before the walk comes to them (`NoRowsYet`): the walk adds rows
  and removes none. `DirWatched` ties the watch to the directory, and `OneFlush` says that what `Run`
  works off is one flush: later events stay pending, the finding of section 4, so the theorem is about
  the one batch the code takes. The hypotheses exclude two defects: a
  text that cannot be read for a moment is stored as empty (`watch.go:406`), and a directory that
  comes back under a path that was watched before may be left without a watch (section 4).

The theorems of `ServerProofs` are for arbitrary paths, names, trash items, handlers, sizes,
streams, buffers and numbers of requests, under the assumptions of `FileOps` and `Events`.
Requests may overlap; `alone` says that none has yet, and the first three invariants hold as
long as it does (`InvAlone`, `InvWhole`).

* `FilesKept`: `NothingLost`. The inductive invariant `FilesInv` has, beside the types:
  `Alone`, one request at a time; `Fresh`, ids and inodes are new when they are made; `Separate`, what
  saves write is nowhere else; and `Knows`, what each step of each operation builds on: that the target is
  still free when the file is moved there, that source and target are equal when the source is removed,
  that `meta.json` is there before the file, that a directory that is removed holds nothing the user keeps,
  that a save has written what it replaces the file by. One lemma per action shows
  that it is kept; failures and crashes (`FailsKeeps`, `CrashKeeps`) are easy, because
  every step leaves a state in which the request may as well stop.
* `RestoresApart`: `RestoreReplacesNothing`, from the same invariant.
* `SavesWhole`: `HomeIsWhole`. `WholeInv` adds the trash, from which files come back.
* `FilesTypeCorrect`, and `TrashListed`: `TrashListsFiles`, which needs no `alone`: only that no call has
  failed (`smooth`). `TrashInv` says what each step of a request is about (`Shapes`) and, while nothing has
  failed, that one deletion makes an item (`DeletesAlone`), what the requests at an item rely on,
  however many of them meet: only its deletion puts a file into it, and nobody looks at it
  before it has its row (`Relies`); and that an item that is half there has a request that will see
  to it (`Seen`).

Without `alone` `FilesKept`, `RestoresApart` and `SavesWhole` are false: two moves to one free name leave one file
(`service.go:145`), between two file systems the second of two restores of one item
removes what the first has made, and the findings name the others.

* `ChannelsSafe`: `ChannelsRight`. The
  invariant says which streams have a channel in the set and who can have closed it so far.
* `OrderKept`: `StreamsInOrder`. `OrderInv` speaks of what a client has got followed by what
  is in its channel: it ascends, and with the dropped events it is all since the subscription.
* `ServerFiles`, `ServerEvents`, `ServerSafe`: the server implements the specification of each part, and what is
  proved of the parts holds for it.

Only model-checked: liveness.
The properties `VerdictReached`, `StagingReclaimed`, `FirstEventsFlushed`, `UploadVerdict`, `JobEndShown`,
`EveryCardAnswered` and `ShutdownDrains` rest on fairness
and ENABLED, which the installed provers do not handle. The four findings are
counterexamples of TLC; `Apart`, `contended` and the other conditions above are what excludes them.

## 7. Properties and what breaks them

Each property of a passing run has a mutant in `PROJECT.json`: a definition of
the model changed as a plausible error in the code would change it, next to the
definition (comment `Mutant:`). Examples: a staging file that is not truncated
before it is resumed, the size of the chunk recorded as the offset, `UPDATE`
without its `WHERE`, a copy whose error is ignored, an attempt that always starts
a new upload (which is what the automatic retry of the web client does), a reader
of an old event stream that forgets the new one, an answer that wakes only one of the
cards waiting for it, a worker that does not take the next item after a failure.

## 8. Not modelled

* Steps 7 and 8 of the plan and what steps 2 and 4 to 6 leave.
* Of files: making folders, listing and downloading; a folder that is copied and removed entry by entry;
  a part of a copy that a crash leaves in the home (`HomeIsWhole` is about one file system); moves between file
  systems inside a home; WebDAV, which writes in place.
* Of the web client: opening a search result 400 ms after its folder was asked for, the list of
  shortcuts, API keys, the fields of user forms, notices, zoom, drag and drop, layout,
  formatting helpers and icons, which show what one request answered; cameras, lights and
  the render loops of the 3D components; a `WebGLRenderer` that throws when the 3D viewer
  mounts. `internal/server/static/assets/` is the built client with a vendored loader.
* Hazards of the code that no model reaches yet, beside those in `PROJECT.json`: a
  reconciliation looks at the current job after its own has ended, and runs with the
  server's context, so cancelling does not stop it (`internal/server/admin_jobs.go:256`,
  `:258`); repeated and reordered webhook deliveries (`webhooks.go:80`); names that differ in
  case at a page boundary (`files.go:303`); the demo limit is checked long before its effect
  and demo uploads are removed by path (`tus.go:69`, `demo_cleanup.go:42`); limiter windows
  (`ratelimit.go:69`); Bleve deletes a prefix up to a limit (`internal/search/bleve.go:107`);
  a second `createNewAPIKey` hides the first token (`App.svelte:961`); polling that starts after
  the admin panel was closed (`App.svelte:796`); items that still waited are gone after
  a reload (`App.svelte:1212`); an upload the server has given up keeps its URL, so
  that Retry fails again and again (`App.svelte:588`).
* A folder that is moved or restored: `refreshIndexPath` scans it with
  `scanUserTree`, which only stages its text (`internal/server/admin_jobs.go:498`).
* The Bleve engine, which repeats the rows; a power failure of the database.
* Previews (external programs), WebDAV (library adapter), migrations and
  configuration (parsing), static files, logging, deployment, screens of the app.
* The HTTP layer, SQLite and the file system are external: a statement or a
  system call is atomic, `rename` replaces its target, an open descriptor
  outlives its path. A power failure that loses synced data is not modelled;
  `Crash` is a stop of the process.
