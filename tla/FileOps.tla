------------------------------ MODULE FileOps -------------------------------
(***************************************************************************)
(* The files of a user and the trash (internal/files/service.go with       *)
(* internal/store/trash.go): moving, deleting into the trash, restoring,   *)
(* purging, and saving from the editor.  A request is a sequence of system *)
(* calls and statements, one step each; no lock is held from one to the    *)
(* next.                                                                   *)
(***************************************************************************)
EXTENDS Naturals, Sequences, FiniteSets

CONSTANTS
  Places,       \* paths a file of the home can have
  NoPlace,
  Candidates,   \* the names AvailableName tries for each, in order
  Start,        \* the file at each place at first, 0 if there is none
  Parts,        \* writes that make up a file
  Ids,          \* items of the trash
  Handlers,     \* requests that can run at once
  Mounts,       \* home and trash can be on one file system, on two
  MaxAsked,     \* bound on the requests
  MaxInodes     \* bound on the files that are ever made

Inodes == 1..MaxInodes
InodesOrNone == 0..MaxInodes
PlacesOrNone == Places \cup {NoPlace}

ASSUME PlacesAssumption ==
  /\ NoPlace \notin Places
  /\ Candidates \in [Places -> Seq(Places)]
  /\ Start \in [Places -> InodesOrNone]
  /\ \A p, q \in Places : Start[p] = Start[q] => p = q \/ Start[p] = 0
ASSUME BoundsAssumption ==
  /\ Parts \in Nat \ {0} /\ MaxAsked \in Nat /\ MaxInodes \in Nat
  /\ Mounts \subseteq BOOLEAN
ASSUME IdsAssumption == Ids \subseteq Nat \ {0}

VARIABLES
  home,     \* the inode at each place, 0 if there is none
  edit,     \* the inode at its ".godrive-edit.tmp"
  bin,      \* the inode at the "file" of each trash item
  meta,     \* the trash items that have a meta.json
  rows,     \* table trash_items: the original place of each item
  data,     \* the content of each inode: whose each part is
  made,     \* inodes made so far
  issued,   \* ids given to trash items so far
  sameFS,   \* rename works between home and trash
  req,      \* the requests
  asked,    \* how many there have been
  alone,    \* history: no two of them have overlapped
  kept,     \* history: contents the user has and has not given up
  smooth    \* history: no call has failed, and the process has not stopped

trashVars == <<bin, meta, rows, issued>>
fileVars ==
  <<home, edit, trashVars, data, made, sameFS, req, asked, alone, kept,
    smooth>>

\* A file at first is its own content; a save has the number of its request.
Versions == 0..(MaxInodes + MaxAsked)
Content(v) == [k \in 1..Parts |-> v]
Blank == Content(0)

Idle ==
  [op |-> "none", step |-> "idle", from |-> NoPlace, to |-> NoPlace,
   id |-> 0, src |-> 0, fd |-> 0, pos |-> 0, ver |-> 0]

Steps == {"idle", "meta", "name", "move", "copy", "unlink", "row", "clean",
          "open", "write"}

Requests ==
  [op : {"none", "move", "delete", "restore", "purge", "save"},
   step : Steps, from : PlacesOrNone, to : PlacesOrNone, id : Ids \cup {0},
   src : InodesOrNone, fd : InodesOrNone, pos : 0..Parts, ver : Versions]

FilesTypeOK ==
  /\ home \in [Places -> InodesOrNone] /\ edit \in [Places -> InodesOrNone]
  /\ bin \in [Ids -> InodesOrNone] /\ meta \subseteq Ids
  /\ rows \in [Ids -> PlacesOrNone]
  /\ data \in [Inodes -> [1..Parts -> Versions]]
  /\ made \in InodesOrNone /\ issued \subseteq Ids
  /\ sameFS \in BOOLEAN /\ alone \in BOOLEAN /\ smooth \in BOOLEAN
  /\ asked \in 0..MaxAsked /\ kept \subseteq Versions
  /\ req \in [Handlers -> Requests]

FilesInit ==
  /\ home = Start /\ edit = [p \in Places |-> 0]
  /\ bin = [i \in Ids |-> 0] /\ meta = {} /\ issued = {}
  /\ rows = [i \in Ids |-> NoPlace]
  /\ data = [i \in Inodes |-> Content(i)]
  /\ made \in InodesOrNone /\ \A p \in Places : Start[p] <= made
  /\ \A n \in InodesOrNone : (\A p \in Places : Start[p] <= n) => made <= n
  /\ sameFS \in Mounts /\ smooth = TRUE
  /\ req = [h \in Handlers |-> Idle] /\ asked = 0 /\ alone = TRUE
  /\ kept = {Start[p] : p \in Places} \ {0}

-----------------------------------------------------------------------------
(* Requests *)

At(h, op, step) == req[h].op = op /\ req[h].step = step
Goes(h, r) == req' = [req EXCEPT ![h] = r]
GoesTo(h, step) == req' = [req EXCEPT ![h].step = step]
Ends(h) == Goes(h, Idle)

\* A request arrives.
Asks(h, r) ==
  /\ req[h].step = "idle"
  /\ asked < MaxAsked /\ asked' = asked + 1
  /\ alone' = (alone /\ \A g \in Handlers : req[g].step = "idle")
  /\ Goes(h, r)

\* Move and MoveInto find what they need: the source and no target.
AskMove(h) ==
  /\ \E p, q \in Places :
       /\ home[p] # 0 /\ home[q] = 0
       /\ Asks(h, [Idle EXCEPT !.op = "move", !.step = "move", !.from = p,
                               !.to = q])
  /\ UNCHANGED <<home, edit, trashVars, data, made, sameFS, kept, smooth>>

\* DeleteToTrash, with a new id.
AskDelete(h) ==
  /\ \E p \in Places, i \in Ids \ issued :
       /\ home[p] # 0 /\ \A j \in Ids \ issued : i <= j
       /\ Asks(h, [Idle EXCEPT !.op = "delete", !.step = "meta", !.from = p,
                               !.id = i])
       /\ issued' = issued \cup {i}
  /\ UNCHANGED <<home, edit, bin, meta, rows, data, made, sameFS, kept, smooth>>

\* GetTrashItem of RestoreTrash
AskRestore(h) ==
  /\ \E i \in Ids :
       /\ rows[i] # NoPlace
       /\ Asks(h, [Idle EXCEPT !.op = "restore", !.step = "name",
                               !.from = rows[i], !.id = i])
  /\ UNCHANGED <<home, edit, trashVars, data, made, sameFS, kept, smooth>>

\* GetTrashItem of PermanentlyDeleteTrash: the user gives the content up.
AskPurge(h) ==
  /\ \E i \in Ids :
       /\ rows[i] # NoPlace
       /\ Asks(h, [Idle EXCEPT !.op = "purge", !.step = "clean", !.id = i])
       /\ kept' = IF bin[i] = 0 THEN kept ELSE kept \ {data[bin[i]][1]}
  /\ UNCHANGED <<home, edit, trashVars, data, made, sameFS, smooth>>

\* ResolveForRead of WriteContent
AskSave(h) ==
  /\ \E p \in Places :
       /\ home[p] # 0
       /\ Asks(h, [Idle EXCEPT !.op = "save", !.step = "open", !.from = p,
                               !.src = home[p], !.ver = MaxInodes + asked'])
  /\ UNCHANGED <<home, edit, trashVars, data, made, sameFS, kept, smooth>>

-----------------------------------------------------------------------------
(* Moving: rename, or copy and remove *)

\* rename in the home
MoveInHome(h) ==
  /\ At(h, "move", "move")
  /\ LET r == req[h] IN
     home' = IF home[r.from] = 0 \/ r.from = r.to THEN home
             ELSE [home EXCEPT ![r.to] = home[r.from], ![r.from] = 0]
  /\ Ends(h)
  /\ UNCHANGED <<edit, trashVars, data, made, sameFS, asked, alone, kept,
                 smooth>>

\* MkdirAll and WriteFile of meta.json
WriteMeta(h) ==
  /\ At(h, "delete", "meta")
  /\ meta' = meta \cup {req[h].id}
  /\ GoesTo(h, "move")
  /\ UNCHANGED <<home, edit, bin, rows, issued, data, made, sameFS, asked,
                 alone, kept, smooth>>

\* Mutant: a restored file takes its old place, free or not.
SamePlace(p) == {p}

\* AvailableName: the first name that is not taken, if there is one.
Available(p) ==
  {Candidates[p][k] : k \in
     {k \in 1..Len(Candidates[p]) :
        /\ home[Candidates[p][k]] = 0
        /\ \A j \in 1..(k - 1) : home[Candidates[p][j]] # 0}}

FindPlace(h) ==
  /\ At(h, "restore", "name")
  /\ IF Available(req[h].from) = {} THEN Ends(h)
     ELSE \E q \in Available(req[h].from) :
            Goes(h, [req[h] EXCEPT !.to = q, !.step = "move"])
  /\ UNCHANGED <<home, edit, trashVars, data, made, sameFS, asked, alone, kept,
                 smooth>>

\* movePath goes from the home to the trash or back.
MovesOut(h) == req[h].op = "delete"
SourceOf(h) == IF MovesOut(h) THEN home[req[h].from] ELSE bin[req[h].id]
TargetOf(h) == IF MovesOut(h) THEN bin[req[h].id] ELSE home[req[h].to]
SetsSource(h, i) ==
  IF MovesOut(h) THEN home' = [home EXCEPT ![req[h].from] = i] /\ UNCHANGED bin
                 ELSE bin' = [bin EXCEPT ![req[h].id] = i] /\ UNCHANGED home
SetsTarget(h, i) ==
  IF MovesOut(h) THEN bin' = [bin EXCEPT ![req[h].id] = i] /\ UNCHANGED home
                 ELSE home' = [home EXCEPT ![req[h].to] = i] /\ UNCHANGED bin
Moves(h) == req[h].op \in {"delete", "restore"} /\ req[h].step = "move"

\* rename replaces what has come to the target since it was looked at.
Rename(h) ==
  /\ Moves(h) /\ sameFS
  /\ IF SourceOf(h) = 0 THEN Ends(h) /\ UNCHANGED <<home, bin>>
     ELSE /\ GoesTo(h, "row")
          /\ IF MovesOut(h)
               THEN /\ bin' = [bin EXCEPT ![req[h].id] = SourceOf(h)]
                    /\ home' = [home EXCEPT ![req[h].from] = 0]
               ELSE /\ home' = [home EXCEPT ![req[h].to] = SourceOf(h)]
                    /\ bin' = [bin EXCEPT ![req[h].id] = 0]
  /\ UNCHANGED <<edit, meta, rows, issued, data, made, sameFS, asked, alone,
                 kept, smooth>>

\* copyPath makes the target.  If the source has gone, or the target is there
\* already, it fails and movePath removes the target.
CopyCreate(h) ==
  /\ Moves(h) /\ ~sameFS
  /\ IF SourceOf(h) = 0 \/ TargetOf(h) # 0
       THEN Ends(h) /\ SetsTarget(h, 0) /\ UNCHANGED <<data, made>>
     ELSE /\ made < MaxInodes /\ made' = made + 1
          /\ data' = [data EXCEPT ![made'] = Blank]
          /\ SetsTarget(h, made')
          /\ Goes(h, [req[h] EXCEPT !.step = "copy", !.src = SourceOf(h),
                                    !.fd = made'])
  /\ UNCHANGED <<edit, meta, rows, issued, sameFS, asked, alone, kept, smooth>>

CopyData(h) ==
  /\ req[h].step = "copy"
  /\ data' = [data EXCEPT ![req[h].fd] = data[req[h].src]]
  /\ GoesTo(h, "unlink")
  /\ UNCHANGED <<home, edit, trashVars, made, sameFS, asked, alone, kept,
                 smooth>>

\* Mutant: the source is removed although the copy broke off.
CopyGoesOn(h) ==
  /\ req[h].step = "copy" /\ smooth' = FALSE
  /\ GoesTo(h, "unlink")
  /\ UNCHANGED <<home, edit, trashVars, data, made, sameFS, asked, alone,
                 kept>>

\* An error: what was copied so far is removed.
CopyFails(h) ==
  /\ req[h].step = "copy" /\ smooth' = FALSE
  /\ SetsTarget(h, 0) /\ Ends(h)
  /\ UNCHANGED <<edit, meta, rows, issued, data, made, sameFS, asked, alone,
                 kept>>

\* RemoveAll of the source
RemoveSource(h) ==
  /\ req[h].step = "unlink"
  /\ SetsSource(h, 0) /\ GoesTo(h, "row")
  /\ UNCHANGED <<edit, meta, rows, issued, data, made, sameFS, asked, alone,
                 kept, smooth>>

-----------------------------------------------------------------------------
(* The table, and the end of a request *)

\* CreateTrashItem
InsertRow(h) ==
  /\ At(h, "delete", "row")
  /\ rows' = [rows EXCEPT ![req[h].id] = req[h].from]
  /\ Ends(h)
  /\ UNCHANGED <<home, edit, bin, meta, issued, data, made, sameFS, asked,
                 alone, kept, smooth>>

\* Mutant: RestoreTrash leaves the row.
Relist(h) ==
  /\ At(h, "restore", "row")
  /\ GoesTo(h, "clean")
  /\ UNCHANGED <<home, edit, trashVars, data, made, sameFS, asked, alone, kept,
                 smooth>>

\* DeleteTrashItem, which fails if there is no row.
DeleteRow(h) ==
  /\ req[h].op \in {"restore", "purge"} /\ req[h].step = "row"
  /\ rows' = [rows EXCEPT ![req[h].id] = NoPlace]
  /\ IF req[h].op = "restore" /\ rows[req[h].id] # NoPlace
       THEN GoesTo(h, "clean") ELSE Ends(h)
  /\ UNCHANGED <<home, edit, bin, meta, issued, data, made, sameFS, asked,
                 alone, kept, smooth>>

\* RemoveAll of the item's directory: the end of a restore, the first thing a
\* purge does.
RemoveDir(h) ==
  /\ req[h].step = "clean"
  /\ bin' = [bin EXCEPT ![req[h].id] = 0] /\ meta' = meta \ {req[h].id}
  /\ IF req[h].op = "purge" THEN GoesTo(h, "row") ELSE Ends(h)
  /\ UNCHANGED <<home, edit, rows, issued, data, made, sameFS, asked, alone,
                 kept, smooth>>

-----------------------------------------------------------------------------
(* WriteContent *)

\* OpenFile of the temporary file, with O_CREATE and O_TRUNC
OpenEdit(h) ==
  /\ At(h, "save", "open")
  /\ LET p == req[h].from IN
     IF edit[p] # 0
       THEN /\ data' = [data EXCEPT ![edit[p]] = Blank]
            /\ Goes(h, [req[h] EXCEPT !.step = "write", !.fd = edit[p]])
            /\ UNCHANGED <<edit, made>>
       ELSE /\ made < MaxInodes /\ made' = made + 1
            /\ edit' = [edit EXCEPT ![p] = made']
            /\ data' = [data EXCEPT ![made'] = Blank]
            /\ Goes(h, [req[h] EXCEPT !.step = "write", !.fd = made'])
  /\ UNCHANGED <<home, trashVars, sameFS, asked, alone, kept, smooth>>

HasMore(h) == req[h].pos < Parts

\* io.Copy
WritePart(h) ==
  /\ At(h, "save", "write") /\ HasMore(h)
  /\ data' = [data EXCEPT ![req[h].fd][req[h].pos + 1] = req[h].ver]
  /\ req' = [req EXCEPT ![h].pos = @ + 1]
  /\ UNCHANGED <<home, edit, trashVars, made, sameFS, asked, alone, kept,
                 smooth>>

\* The body breaks off or is too large: the temporary file is removed.
SaveFails(h) ==
  /\ At(h, "save", "write")
  /\ edit' = [edit EXCEPT ![req[h].from] = 0]
  /\ Ends(h)
  /\ UNCHANGED <<home, trashVars, data, made, sameFS, asked, alone, kept,
                 smooth>>

\* Mutant: an error of io.Copy is not looked at.
MayReplaceEarly(h) == At(h, "save", "write")

MayReplace(h) == At(h, "save", "write") /\ req[h].pos = Parts

\* rename of the temporary file: the new content replaces the one the user saw.
Replace(h) ==
  /\ MayReplace(h)
  /\ LET r == req[h] IN
     IF edit[r.from] = 0 THEN UNCHANGED <<home, edit, kept>>
     ELSE /\ home' = [home EXCEPT ![r.from] = edit[r.from]]
          /\ edit' = [edit EXCEPT ![r.from] = 0]
          /\ kept' = (kept \ {data[r.src][1]}) \cup {r.ver}
  /\ Ends(h)
  /\ UNCHANGED <<trashVars, data, made, sameFS, asked, alone, smooth>>

-----------------------------------------------------------------------------
\* A call or a statement fails and the request ends; a failing removal of an
\* item's directory is not looked at after a restore.
Fails(h) ==
  /\ req[h].step \notin {"idle", "copy", "write"}
  /\ Ends(h) /\ smooth' = FALSE
  /\ UNCHANGED <<home, edit, trashVars, data, made, sameFS, asked, alone,
                 kept>>

\* The process stops and starts again.
Crash ==
  /\ \E h \in Handlers : req[h].step # "idle"
  /\ req' = [h \in Handlers |-> Idle] /\ smooth' = FALSE
  /\ UNCHANGED <<home, edit, trashVars, data, made, sameFS, asked, alone,
                 kept>>

Ask(h) == AskMove(h) \/ AskDelete(h) \/ AskRestore(h) \/ AskPurge(h) \/ AskSave(h)

Works(h) ==
  \/ MoveInHome(h) \/ WriteMeta(h) \/ FindPlace(h)
  \/ Rename(h) \/ CopyCreate(h) \/ CopyData(h) \/ CopyFails(h) \/ RemoveSource(h)
  \/ InsertRow(h) \/ DeleteRow(h) \/ RemoveDir(h)
  \/ OpenEdit(h) \/ WritePart(h) \/ SaveFails(h) \/ Replace(h)

FilesNext == Crash \/ \E h \in Handlers : Ask(h) \/ Works(h) \/ Fails(h)

FilesSpec == FilesInit /\ [][FilesNext]_fileVars

-----------------------------------------------------------------------------
(* Properties *)

\* What the user has and has not given up is there in full: in the home, or in
\* the trash beside the meta.json that says where it was.
AllThere ==
  \A v \in kept :
    \/ \E p \in Places : home[p] # 0 /\ data[home[p]] = Content(v)
    \/ \E i \in meta : bin[i] # 0 /\ data[bin[i]] = Content(v)

\* As long as requests have not overlapped, neither a failing call nor a stop of
\* the process between two steps of a move into the trash, out of it or of a save
\* loses a file.
NothingLost == alone => AllThere

\* As long as requests have not overlapped, and where nothing is copied, every
\* file of the home is whole at any time: a save shows all of the new content or
\* none of it (the comment of WriteContent).
HomeIsWhole ==
  alone /\ sameFS => \A p \in Places : home[p] # 0 =>
    \E v \in Versions \ {0} : data[home[p]] = Content(v)

\* When no request is under way and nothing has failed, the trash lists exactly
\* the files that are in it, however deleting, restoring and purging the same
\* items overlap.
TrashListsFiles ==
  smooth /\ (\A h \in Handlers : req[h].step = "idle") =>
    \A i \in Ids : rows[i] # NoPlace <=> bin[i] # 0

\* As long as requests have not overlapped, a file that is restored replaces no
\* other file (docs/security-audit.md:103).
RestoreReplacesNothing ==
  [][alone => \A h \in Handlers :
       At(h, "restore", "move") /\ req'[h].step \in {"row", "idle"}
         => LET q == req[h].to IN home[q] # 0 => home'[q] = home[q]]_fileVars
=============================================================================
