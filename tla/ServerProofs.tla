---------------------------- MODULE ServerProofs ----------------------------
(***************************************************************************)
(* Proofs about Server.  Files: requests that do not overlap lose no file,  *)
(* restore none over another and show none in part, however many calls     *)
(* fail and wherever the process stops; as long as no call fails, the      *)
(* trash lists what is in it, however requests overlap.  Streams: who      *)
(* closes a channel and who may still send to it; which events a client    *)
(* receives, and in what order.  Server composes the two.                  *)
(***************************************************************************)
EXTENDS Server, SequenceTheorems, TLAPS

-----------------------------------------------------------------------------
(* Files *)

(* The parts of the inductive invariant. *)

\* At most one request is under way.
Alone == \A g, h \in Handlers :
           req[g].step # "idle" /\ req[h].step # "idle" => g = h

\* Inodes are new when they are made, ids when they are given.
Fresh ==
  /\ \A p \in Places : home[p] <= made /\ edit[p] <= made
  /\ \A i \in Ids : bin[i] <= made /\ (i \notin issued => bin[i] = 0)

\* What is written by saves is nowhere else.
Separate ==
  \A p \in Places : edit[p] # 0 =>
    /\ \A q \in Places : home[q] # edit[p] /\ (edit[q] = edit[p] => p = q)
    /\ \A i \in Ids : bin[i] # edit[p]

\* What the steps of a request build on.
MoveKnows(r) ==
  r.op = "move" =>
    /\ r.step = "move" /\ r.from \in Places /\ r.to \in Places
    /\ home[r.to] = 0

DeleteKnows(r) ==
  r.op = "delete" =>
    /\ r.from \in Places /\ r.id \in Ids
    /\ r.step \in {"meta", "move", "copy", "unlink", "row"}
    /\ r.step # "meta" => r.id \in meta
    /\ r.step \in {"meta", "move"} => bin[r.id] = 0 /\ r.id \in issued
    /\ r.step = "copy" =>
         /\ r.src = home[r.from] /\ r.src # 0
         /\ r.fd = bin[r.id] /\ r.fd # 0 /\ data[r.fd] = Blank
    /\ r.step = "unlink" =>
         home[r.from] # 0 /\ bin[r.id] # 0 /\ data[bin[r.id]] = data[home[r.from]]

RestoreKnows(r) ==
  r.op = "restore" =>
    /\ r.from \in Places /\ r.id \in Ids
    /\ r.step \in {"name", "move", "copy", "unlink", "row", "clean"}
    /\ r.step # "name" => r.to \in Places
    /\ r.step = "move" => home[r.to] = 0
    /\ r.step = "copy" =>
         /\ r.src = bin[r.id] /\ r.src # 0
         /\ r.fd = home[r.to] /\ r.fd # 0 /\ data[r.fd] = Blank
    /\ r.step = "unlink" =>
         bin[r.id] # 0 /\ home[r.to] # 0 /\ data[home[r.to]] = data[bin[r.id]]
    /\ r.step \in {"row", "clean"} => bin[r.id] = 0

PurgeKnows(r) ==
  r.op = "purge" =>
    /\ r.id \in Ids /\ r.step \in {"clean", "row"}
    /\ r.step = "clean" /\ bin[r.id] # 0 => data[bin[r.id]][1] \notin kept

SaveKnows(r) ==
  r.op = "save" =>
    /\ r.from \in Places /\ r.step \in {"open", "write"} /\ r.ver # 0
    /\ home[r.from] = r.src /\ r.src # 0
    /\ r.step = "open" => r.pos = 0
    /\ r.step = "write" =>
         /\ r.fd = edit[r.from] /\ r.fd # 0
         /\ \A k \in 1..r.pos : data[r.fd][k] = r.ver

Knows(r) ==
  /\ r.op = "none" <=> r.step = "idle"
  /\ MoveKnows(r) /\ DeleteKnows(r) /\ RestoreKnows(r) /\ PurgeKnows(r)
  /\ SaveKnows(r)

Apart == 0 \notin kept /\ Fresh /\ Separate

FilesInv ==
  /\ FilesTypeOK /\ Alone /\ Apart /\ (\A h \in Handlers : Knows(req[h]))
  /\ AllThere

-----------------------------------------------------------------------------
(* Contents, and what becomes of the requests in a step. *)

\* A content of one version is not the blank one of a new file.
LEMMA Contents ==
  /\ \A v \in Nat : Content(v)[1] = v
  /\ \A v \in Nat \ {0} : Blank # Content(v)
BY BoundsAssumption DEF Content, Blank

\* An idle handler knows nothing it could act on.
LEMMA IdleKnows == Idle \in Requests /\ Knows(Idle) /\ Idle.step = "idle"
BY BoundsAssumption DEF Idle, Requests, PlacesOrNone, InodesOrNone, Versions, Steps,
  Knows, MoveKnows, DeleteKnows, RestoreKnows, PurgeKnows, SaveKnows

\* All of the type invariant but the requests.
StateOK ==
  /\ home \in [Places -> InodesOrNone] /\ edit \in [Places -> InodesOrNone]
  /\ bin \in [Ids -> InodesOrNone] /\ meta \subseteq Ids
  /\ rows \in [Ids -> PlacesOrNone]
  /\ data \in [Inodes -> [1..Parts -> Versions]]
  /\ made \in InodesOrNone /\ issued \subseteq Ids
  /\ sameFS \in BOOLEAN /\ alone \in BOOLEAN /\ smooth \in BOOLEAN
  /\ asked \in 0..MaxAsked /\ kept \subseteq Versions

\* The type invariant: the files and, beside them, the handlers.
LEMMA StateIsOK == FilesTypeOK <=> StateOK /\ req \in [Handlers -> Requests]
BY DEF FilesTypeOK, StateOK

\* The request of h goes on, the others are idle and stay so.
LEMMA OneGoes ==
  ASSUME FilesInv, NEW h \in Handlers, NEW r \in Requests, Goes(h, r),
         \A g \in Handlers \ {h} : req[g].step = "idle"
  PROVE  /\ req' \in [Handlers -> Requests] /\ req'[h] = r
         /\ \A g \in Handlers \ {h} : Knows(req[g])'
         /\ Alone'
<1>1. req \in [Handlers -> Requests] /\ \A g \in Handlers : Knows(req[g])
  BY DEF FilesInv, FilesTypeOK
<1>2. req' \in [Handlers -> Requests] /\ req'[h] = r
      /\ \A g \in Handlers \ {h} : req'[g] = req[g]
  BY <1>1 DEF Goes
<1>3. Alone'
  BY <1>2 DEF Alone
<1>4. ASSUME NEW g \in Handlers \ {h}  PROVE Knows(req[g])'
  <2>1. req'[g].op = "none" /\ req'[g].step = "idle"
    BY <1>1, <1>2 DEF Knows
  <2>2. QED
    BY <2>1 DEF Knows, MoveKnows, DeleteKnows, RestoreKnows, PurgeKnows, SaveKnows
<1>5. QED
  BY <1>2, <1>3, <1>4

\* Without overlap the other handlers are idle while one works.
LEMMA OthersIdle ==
  ASSUME FilesInv, NEW h \in Handlers, req[h].step # "idle"
  PROVE  \A g \in Handlers \ {h} : req[g].step = "idle"
BY DEF FilesInv, Alone

\* A handler that goes to another step goes on as a request.
LEMMA GoesOn ==
  ASSUME FilesInv, NEW h \in Handlers, NEW s \in Steps, GoesTo(h, s)
  PROVE  Goes(h, [req[h] EXCEPT !.step = s]) /\ [req[h] EXCEPT !.step = s] \in Requests
BY DEF FilesInv, FilesTypeOK, GoesTo, Goes, Requests

\* What is left to show of a step.
LEMMA StepKeeps ==
  ASSUME FilesInv, NEW h \in Handlers, NEW r \in Requests, Goes(h, r),
         \A g \in Handlers \ {h} : req[g].step = "idle",
         StateOK', Apart', Knows(r)', AllThere'
  PROVE  FilesInv'
<1>1. req' \in [Handlers -> Requests] /\ req'[h] = r /\ Alone'
      /\ \A g \in Handlers \ {h} : Knows(req[g])'
  BY OneGoes
<1>2. Knows(req[h])'
  BY <1>1 DEF Knows, MoveKnows, DeleteKnows, RestoreKnows, PurgeKnows, SaveKnows
<1>3. \A g \in Handlers : Knows(req[g])'
  BY <1>1, <1>2
<1>4. FilesTypeOK'
  BY <1>1 DEF FilesTypeOK, StateOK
<1>5. QED
  BY <1>1, <1>3, <1>4 DEF FilesInv

\* The end of a request keeps the invariant.
LEMMA EndKeeps ==
  ASSUME FilesInv, NEW h \in Handlers, Ends(h), req[h].step # "idle",
         StateOK', Apart', AllThere'
  PROVE  FilesInv'
<1>1. Knows(Idle)'
  BY DEF Idle, Knows, MoveKnows, DeleteKnows, RestoreKnows, PurgeKnows, SaveKnows
<1>2. QED
  BY <1>1, IdleKnows, OthersIdle, StepKeeps DEF Ends

\* A step that leaves the files alone.
LEMMA FilesStay ==
  ASSUME FilesInv, UNCHANGED <<home, edit, bin, data, made>>, kept' \subseteq kept,
         meta \subseteq meta', issued \subseteq issued'
  PROVE  Apart' /\ AllThere'
BY DEF FilesInv, Apart, Fresh, Separate, AllThere

-----------------------------------------------------------------------------
(* Requests that arrive *)

\* The start of a request keeps it.
LEMMA AskKeeps ==
  ASSUME FilesInv, alone', NEW h \in Handlers, Ask(h)
  PROVE  FilesInv'
<1> USE BoundsAssumption, IdsAssumption
<1>1. FilesTypeOK /\ StateOK /\ 0 \notin kept /\ Fresh /\ NoPlace \notin Places
  BY StateIsOK, PlacesAssumption DEF FilesInv, Apart
<1>2. ASSUME NEW r \in Requests, Asks(h, r), StateOK', Apart', Knows(r)', AllThere'
      PROVE  FilesInv'
  BY <1>2, StepKeeps DEF Asks
<1>3. CASE AskMove(h)
  <2>1. PICK p, q \in Places :
          /\ home[p] # 0 /\ home[q] = 0
          /\ Asks(h, [Idle EXCEPT !.op = "move", !.step = "move", !.from = p, !.to = q])
    BY <1>3 DEF AskMove
  <2> DEFINE r == [Idle EXCEPT !.op = "move", !.step = "move", !.from = p, !.to = q]
  <2>2. r \in Requests
    BY IdleKnows DEF Requests, Steps, PlacesOrNone
  <2>3. UNCHANGED <<home, edit, trashVars, data, made, sameFS, kept, smooth>>
    BY <1>3 DEF AskMove
  <2>4. StateOK'
    BY <1>1, <2>1, <2>3 DEF StateOK, Asks, trashVars
  <2>5. Knows(r)'
    BY <2>1, <2>3 DEF Idle, Knows, MoveKnows, DeleteKnows, RestoreKnows, PurgeKnows,
      SaveKnows
  <2>6. QED
    BY <1>2, <2>1, <2>2, <2>3, <2>4, <2>5, FilesStay DEF trashVars
<1>4. CASE AskDelete(h)
  <2>1. PICK p \in Places, i \in Ids \ issued :
          /\ home[p] # 0 /\ issued' = issued \cup {i}
          /\ Asks(h, [Idle EXCEPT !.op = "delete", !.step = "meta", !.from = p, !.id = i])
    BY <1>4 DEF AskDelete
  <2> DEFINE r == [Idle EXCEPT !.op = "delete", !.step = "meta", !.from = p, !.id = i]
  <2>2. r \in Requests
    BY IdleKnows DEF Requests, Steps, PlacesOrNone
  <2>3. UNCHANGED <<home, edit, bin, meta, rows, data, made, sameFS, kept, smooth>>
    BY <1>4 DEF AskDelete
  <2>4. StateOK'
    BY <1>1, <2>1, <2>3 DEF StateOK, Asks
  <2>5. Knows(r)'
    BY <1>1, <2>1, <2>3 DEF Fresh, Idle, Knows, MoveKnows, DeleteKnows, RestoreKnows,
      PurgeKnows, SaveKnows
  <2>6. QED
    BY <1>2, <2>1, <2>2, <2>3, <2>4, <2>5, FilesStay
<1>5. CASE AskRestore(h)
  <2>1. PICK i \in Ids :
          /\ rows[i] # NoPlace
          /\ Asks(h, [Idle EXCEPT !.op = "restore", !.step = "name", !.from = rows[i],
                                  !.id = i])
    BY <1>5 DEF AskRestore
  <2> DEFINE r == [Idle EXCEPT !.op = "restore", !.step = "name", !.from = rows[i],
                               !.id = i]
  <2>2. rows[i] \in Places
    BY <1>1, <2>1 DEF StateOK, PlacesOrNone
  <2>3. r \in Requests
    BY <2>2, IdleKnows DEF Requests, Steps, PlacesOrNone
  <2>4. UNCHANGED <<home, edit, trashVars, data, made, sameFS, kept, smooth>>
    BY <1>5 DEF AskRestore
  <2>5. StateOK'
    BY <1>1, <2>1, <2>4 DEF StateOK, Asks, trashVars
  <2>6. \A x \in Requests : x = r => Knows(x)'
    BY <2>2 DEF Idle, Knows, MoveKnows, DeleteKnows, RestoreKnows, PurgeKnows, SaveKnows
  <2>7. QED
    BY <1>2, <2>1, <2>3, <2>4, <2>5, <2>6, FilesStay DEF trashVars
<1>6. CASE AskPurge(h)
  <2>1. PICK i \in Ids :
          /\ rows[i] # NoPlace
          /\ Asks(h, [Idle EXCEPT !.op = "purge", !.step = "clean", !.id = i])
          /\ kept' = IF bin[i] = 0 THEN kept ELSE kept \ {data[bin[i]][1]}
    BY <1>6 DEF AskPurge
  <2> DEFINE r == [Idle EXCEPT !.op = "purge", !.step = "clean", !.id = i]
  <2>2. r \in Requests
    BY IdleKnows DEF Requests, Steps, PlacesOrNone
  <2>3. UNCHANGED <<home, edit, trashVars, data, made, sameFS, smooth>>
    BY <1>6 DEF AskPurge
  <2>4. StateOK' /\ kept' \subseteq kept
    BY <1>1, <2>1, <2>3 DEF StateOK, Asks, trashVars
  <2>5. Knows(r)'
    BY <2>1, <2>3 DEF trashVars, Idle, Knows, MoveKnows, DeleteKnows, RestoreKnows,
      PurgeKnows, SaveKnows
  <2>6. QED
    BY <1>2, <2>1, <2>2, <2>3, <2>4, <2>5, FilesStay DEF trashVars
<1>7. CASE AskSave(h)
  <2>1. PICK p \in Places :
          /\ home[p] # 0
          /\ Asks(h, [Idle EXCEPT !.op = "save", !.step = "open", !.from = p,
                                  !.src = home[p], !.ver = MaxInodes + asked'])
    BY <1>7 DEF AskSave
  <2> DEFINE r == [Idle EXCEPT !.op = "save", !.step = "open", !.from = p,
                               !.src = home[p], !.ver = MaxInodes + asked']
  <2>2. home[p] \in InodesOrNone /\ MaxInodes + asked' \in Versions \ {0}
    BY <1>1, <2>1 DEF StateOK, Asks, Versions
  <2>3. r \in Requests
    BY <2>2, IdleKnows DEF Requests, Steps, PlacesOrNone
  <2>4. UNCHANGED <<home, edit, trashVars, data, made, sameFS, kept, smooth>>
    BY <1>7 DEF AskSave
  <2>5. StateOK'
    BY <1>1, <2>1, <2>4 DEF StateOK, Asks, trashVars
  <2>6. \A x \in Requests : x = r => Knows(x)'
    BY <2>1, <2>2, <2>4 DEF Idle, Knows, MoveKnows, DeleteKnows, RestoreKnows, PurgeKnows,
      SaveKnows
  <2>7. QED
    BY <1>2, <2>1, <2>3, <2>4, <2>5, <2>6, FilesStay DEF trashVars
<1>8. QED
  BY <1>3, <1>4, <1>5, <1>6, <1>7 DEF Ask

-----------------------------------------------------------------------------
(* Steps of a request *)

\* So does a move or rename within the home.
LEMMA MoveInHomeKeeps ==
  ASSUME FilesInv, NEW h \in Handlers, MoveInHome(h)
  PROVE  FilesInv'
<1> DEFINE p == req[h].from  q == req[h].to
<1>1. /\ StateOK /\ Apart /\ AllThere
      /\ p \in Places /\ q \in Places /\ home[q] = 0 /\ req[h].step = "move"
  BY StateIsOK DEF FilesInv, MoveInHome, At, Knows, MoveKnows
<1>2. /\ home' = IF home[p] = 0 \/ p = q THEN home
                 ELSE [home EXCEPT ![q] = home[p], ![p] = 0]
      /\ Ends(h)
      /\ UNCHANGED <<edit, trashVars, data, made, sameFS, asked, alone, kept,
                     smooth>>
  BY DEF MoveInHome
<1>3. \/ UNCHANGED home
      \/ /\ home[p] # 0 /\ home'[q] = home[p] /\ home'[p] = 0 /\ p # q
         /\ home' \in [Places -> InodesOrNone]
         /\ \A o \in Places \ {p, q} : home'[o] = home[o]
  BY <1>1, <1>2 DEF StateOK, InodesOrNone
<1>4. StateOK'
  BY <1>1, <1>2, <1>3 DEF StateOK, trashVars
<1>5. Apart'
  BY <1>1, <1>2, <1>3 DEF Apart, Fresh, Separate, trashVars, StateOK, InodesOrNone
<1>6. AllThere'
  BY <1>1, <1>2, <1>3 DEF AllThere, trashVars
<1>7. QED
  BY <1>1, <1>2, <1>4, <1>5, <1>6, EndKeeps

\* The metadata of a deletion.
LEMMA WriteMetaKeeps ==
  ASSUME FilesInv, NEW h \in Handlers, WriteMeta(h)
  PROVE  FilesInv'
<1> DEFINE r == [req[h] EXCEPT !.step = "move"]
<1>1. /\ StateOK /\ req[h].op = "delete" /\ req[h].step = "meta" /\ req[h] \in Requests
      /\ DeleteKnows(req[h])
  BY StateIsOK DEF FilesInv, WriteMeta, At, Knows
<1>2. /\ meta' = meta \cup {req[h].id} /\ GoesTo(h, "move")
      /\ UNCHANGED <<home, edit, bin, rows, issued, data, made, sameFS, asked,
                     alone, kept, smooth>>
  BY DEF WriteMeta
<1>3. StateOK'
  BY <1>1, <1>2 DEF StateOK, DeleteKnows
<1>4. r \in Requests /\ Goes(h, r)
  BY <1>2, GoesOn DEF Steps
<1>5. \A x \in Requests : x = r => Knows(x)'
  BY <1>1, <1>2 DEF Requests, Knows, MoveKnows, DeleteKnows, RestoreKnows, PurgeKnows,
    SaveKnows
<1>6. QED
  BY <1>1, <1>2, <1>3, <1>4, <1>5, FilesStay, OthersIdle, StepKeeps

\* The search for a free name.
LEMMA FindPlaceKeeps ==
  ASSUME FilesInv, NEW h \in Handlers, FindPlace(h)
  PROVE  FilesInv'
<1>1. /\ StateOK /\ req[h].op = "restore" /\ req[h].step = "name" /\ req[h] \in Requests
      /\ RestoreKnows(req[h])
      /\ UNCHANGED <<home, edit, trashVars, data, made, sameFS, asked, alone,
                     kept, smooth>>
  BY StateIsOK DEF FilesInv, FindPlace, At, Knows
<1>2. StateOK' /\ Apart' /\ AllThere'
  BY <1>1, FilesStay DEF StateOK, trashVars
<1>3. CASE Ends(h)
  BY <1>1, <1>2, <1>3, EndKeeps
<1>4. ASSUME NEW q \in Available(req[h].from),
             Goes(h, [req[h] EXCEPT !.to = q, !.step = "move"])
      PROVE  FilesInv'
  <2> DEFINE r == [req[h] EXCEPT !.to = q, !.step = "move"]
  <2>1. q \in Places /\ home[q] = 0
    <3>1. req[h].from \in Places /\ Candidates[req[h].from] \in Seq(Places)
      BY <1>1, PlacesAssumption DEF RestoreKnows
    <3>2. QED
      BY <3>1 DEF Available
  <2>2. r \in Requests
    BY <1>1, <2>1 DEF Requests, Steps, PlacesOrNone
  <2>3. \A x \in Requests : x = r => Knows(x)'
    BY <1>1, <2>1 DEF Requests, Knows, MoveKnows, DeleteKnows, RestoreKnows, PurgeKnows,
      SaveKnows
  <2>4. QED
    BY <1>1, <1>2, <1>4, <2>2, <2>3, OthersIdle, StepKeeps
<1>5. QED
  BY <1>3, <1>4 DEF FindPlace

\* The rename of a move, a deletion or a restore.
LEMMA RenameKeeps ==
  ASSUME FilesInv, NEW h \in Handlers, Rename(h)
  PROVE  FilesInv'
<1> DEFINE p == req[h].from  q == req[h].to  i == req[h].id
           r == [req[h] EXCEPT !.step = "row"]
<1>1. /\ StateOK /\ Apart /\ AllThere /\ req[h] \in Requests
      /\ req[h].op \in {"delete", "restore"} /\ req[h].step = "move"
      /\ DeleteKnows(req[h]) /\ RestoreKnows(req[h]) /\ i \in Ids
  BY StateIsOK DEF FilesInv, Rename, Moves, Knows, DeleteKnows, RestoreKnows
<1>2. UNCHANGED <<edit, meta, rows, issued, data, made, sameFS, asked, alone,
                  kept, smooth>>
  BY DEF Rename
<1>3. CASE SourceOf(h) = 0
  <2>1. Ends(h) /\ UNCHANGED <<home, bin>>
    BY <1>3 DEF Rename
  <2>2. QED
    BY <1>1, <1>2, <2>1, FilesStay, EndKeeps DEF StateOK
<1>4. CASE req[h].op = "delete" /\ SourceOf(h) # 0
  <2>1. /\ p \in Places /\ home[p] # 0 /\ bin[i] = 0 /\ i \in meta /\ i \in issued
        /\ GoesTo(h, "row")
        /\ home' = [home EXCEPT ![p] = 0] /\ bin' = [bin EXCEPT ![i] = home[p]]
    BY <1>1, <1>4 DEF DeleteKnows, Rename, MovesOut, SourceOf
  <2>2. StateOK'
    BY <1>1, <1>2, <2>1 DEF StateOK, InodesOrNone
  <2>3. Apart'
    BY <1>1, <1>2, <2>1 DEF Apart, Fresh, Separate, StateOK, InodesOrNone
  <2>4. AllThere'
    BY <1>1, <1>2, <2>1 DEF AllThere, StateOK
  <2>5. r \in Requests /\ Goes(h, r)
    BY <2>1, GoesOn DEF Steps
  <2>6. \A x \in Requests : x = r => Knows(x)'
    BY <1>1, <1>2, <1>4, <2>1 DEF Requests, Knows, MoveKnows, DeleteKnows, RestoreKnows,
      PurgeKnows, SaveKnows
  <2>7. QED
    BY <1>1, <2>2, <2>3, <2>4, <2>5, <2>6, OthersIdle, StepKeeps
<1>5. CASE req[h].op = "restore" /\ SourceOf(h) # 0
  <2>1. /\ q \in Places /\ home[q] = 0 /\ bin[i] # 0
        /\ GoesTo(h, "row")
        /\ home' = [home EXCEPT ![q] = bin[i]] /\ bin' = [bin EXCEPT ![i] = 0]
    BY <1>1, <1>5 DEF RestoreKnows, Rename, MovesOut, SourceOf
  <2>2. StateOK'
    BY <1>1, <1>2, <2>1 DEF StateOK, InodesOrNone
  <2>3. Apart'
    BY <1>1, <1>2, <2>1 DEF Apart, Fresh, Separate, StateOK, InodesOrNone
  <2>4. AllThere'
    BY <1>1, <1>2, <2>1 DEF AllThere, StateOK
  <2>5. r \in Requests /\ Goes(h, r)
    BY <2>1, GoesOn DEF Steps
  <2>6. \A x \in Requests : x = r => Knows(x)'
    BY <1>1, <1>2, <1>5, <2>1 DEF StateOK, Requests, Knows, MoveKnows, DeleteKnows,
      RestoreKnows, PurgeKnows, SaveKnows
  <2>7. QED
    BY <1>1, <2>2, <2>3, <2>4, <2>5, <2>6, OthersIdle, StepKeeps
<1>6. QED
  BY <1>1, <1>3, <1>4, <1>5

\* The first step of a copy over file systems.
LEMMA CopyCreateKeeps ==
  ASSUME FilesInv, NEW h \in Handlers, CopyCreate(h)
  PROVE  FilesInv'
<1> DEFINE p == req[h].from  q == req[h].to  i == req[h].id
           r == [req[h] EXCEPT !.step = "copy", !.src = SourceOf(h), !.fd = made']
<1>1. /\ StateOK /\ Apart /\ AllThere /\ req[h] \in Requests
      /\ req[h].op \in {"delete", "restore"} /\ req[h].step = "move"
      /\ DeleteKnows(req[h]) /\ RestoreKnows(req[h]) /\ i \in Ids
  BY StateIsOK DEF FilesInv, CopyCreate, Moves, Knows, DeleteKnows, RestoreKnows
<1>2. /\ UNCHANGED <<edit, meta, rows, issued, sameFS, asked, alone, kept,
                     smooth>>
      /\ req[h].op = "delete" =>
           p \in Places /\ bin[i] = 0 /\ i \in meta /\ i \in issued
      /\ req[h].op = "restore" => q \in Places /\ home[q] = 0
  BY <1>1 DEF CopyCreate, DeleteKnows, RestoreKnows
<1>3. TargetOf(h) = 0
  BY <1>1, <1>2 DEF TargetOf, MovesOut
<1>4. CASE SourceOf(h) = 0
  <2>1. Ends(h) /\ SetsTarget(h, 0) /\ UNCHANGED <<data, made>>
    BY <1>4 DEF CopyCreate
  <2>2. UNCHANGED <<home, bin>>
    BY <1>1, <1>2, <2>1 DEF SetsTarget, MovesOut, StateOK
  <2>3. QED
    BY <1>1, <1>2, <2>1, <2>2, FilesStay, EndKeeps DEF StateOK
<1>5. CASE SourceOf(h) # 0
  <2>1. /\ made < MaxInodes /\ made' = made + 1
        /\ data' = [data EXCEPT ![made'] = Blank]
        /\ SetsTarget(h, made') /\ Goes(h, r)
    BY <1>3, <1>5 DEF CopyCreate
  <2>2. /\ made \in Nat /\ MaxInodes \in Nat /\ made' \in Inodes /\ made' # 0
        /\ Blank \in [1..Parts -> Versions]
    BY <1>1, <2>1, BoundsAssumption DEF StateOK, Inodes, InodesOrNone, Blank, Content,
      Versions
  <2>3. /\ data' \in [Inodes -> [1..Parts -> Versions]] /\ data'[made'] = Blank
        /\ \A n \in Inodes : n # made' => data'[n] = data[n]
    BY <1>1, <2>1, <2>2 DEF StateOK
  <2>4. \/ /\ req[h].op = "delete" /\ SourceOf(h) = home[p] /\ home' = home
           /\ bin' = [bin EXCEPT ![i] = made']
        \/ /\ req[h].op = "restore" /\ SourceOf(h) = bin[i] /\ bin' = bin
           /\ home' = [home EXCEPT ![q] = made']
    BY <1>1, <2>1 DEF SourceOf, SetsTarget, MovesOut
  <2>5. StateOK'
    <3>1. /\ made' \in InodesOrNone
          /\ home \in [Places -> InodesOrNone] /\ bin \in [Ids -> InodesOrNone]
      BY <1>1, <2>2 DEF StateOK, Inodes, InodesOrNone
    <3>2. home' \in [Places -> InodesOrNone] /\ bin' \in [Ids -> InodesOrNone]
      BY <1>2, <2>4, <3>1
    <3>3. QED
      BY <1>1, <1>2, <2>3, <3>1, <3>2 DEF StateOK
  <2>6. Apart'
    <3>1. /\ \A o \in Places : home'[o] \in {home[o], made'}
          /\ \A j \in Ids : bin'[j] \in {bin[j], made'} /\ (j \notin issued => bin'[j] = 0)
          /\ \A o \in Places : home[o] \in Nat /\ edit[o] \in Nat /\ edit[o] < made'
          /\ \A j \in Ids : bin[j] \in Nat
      BY <1>1, <1>2, <2>1, <2>2, <2>4 DEF Apart, Fresh, StateOK, InodesOrNone
    <3>2. Fresh'
      BY <1>1, <1>2, <2>1, <2>2, <3>1 DEF Apart, Fresh
    <3>3. Separate'
      BY <1>1, <1>2, <3>1 DEF Apart, Separate
    <3>4. QED
      BY <1>1, <1>2, <3>2, <3>3 DEF Apart
  <2>7. AllThere'
    <3>1. \A o \in Places : home[o] # 0 =>
            home'[o] = home[o] /\ data'[home[o]] = data[home[o]]
      BY <1>1, <1>2, <2>1, <2>2, <2>3, <2>4 DEF Apart, Fresh, StateOK, Inodes, InodesOrNone
    <3>2. \A j \in Ids : bin[j] # 0 =>
            bin'[j] = bin[j] /\ data'[bin[j]] = data[bin[j]]
      BY <1>1, <1>2, <2>1, <2>2, <2>3, <2>4 DEF Apart, Fresh, StateOK, Inodes, InodesOrNone
    <3>3. QED
      BY <1>1, <1>2, <3>1, <3>2 DEF AllThere, StateOK
  <2>8. r \in Requests
    <3>1. SourceOf(h) \in InodesOrNone /\ made' \in InodesOrNone
      BY <1>1, <1>2, <2>2, <2>4 DEF StateOK, Inodes, InodesOrNone
    <3>2. QED
      BY <1>1, <3>1 DEF Requests, Steps
  <2>9. \A x \in Requests : x = r => Knows(x)'
    BY <1>1, <1>2, <1>5, <2>2, <2>3, <2>4 DEF StateOK, Requests, Knows, MoveKnows,
      DeleteKnows, RestoreKnows, PurgeKnows, SaveKnows
  <2>10. QED
    BY <1>1, <2>1, <2>5, <2>6, <2>7, <2>8, <2>9, OthersIdle, StepKeeps
<1>6. QED
  BY <1>4, <1>5

\* A request that copies, or has copied.
LEMMA Copying ==
  ASSUME FilesInv, NEW h \in Handlers, req[h].step \in {"copy", "unlink"}
  PROVE  /\ StateOK /\ Apart /\ AllThere /\ req[h] \in Requests
         /\ req[h].id \in Ids /\ req[h].op \in {"delete", "restore"}
         /\ req[h].op = "delete" => req[h].from \in Places /\ req[h].id \in meta
         /\ req[h].op = "restore" => req[h].to \in Places
         /\ DeleteKnows(req[h]) /\ RestoreKnows(req[h])
BY StateIsOK DEF FilesInv, Knows, MoveKnows, DeleteKnows, RestoreKnows, PurgeKnows, SaveKnows,
  FilesTypeOK, Requests

\* The bytes of a copy.
LEMMA CopyDataKeeps ==
  ASSUME FilesInv, NEW h \in Handlers, CopyData(h)
  PROVE  FilesInv'
<1> DEFINE fd == req[h].fd  src == req[h].src
           r == [req[h] EXCEPT !.step = "unlink"]
<1>1. /\ req[h].step = "copy" /\ data' = [data EXCEPT ![fd] = data[src]]
      /\ GoesTo(h, "unlink")
      /\ UNCHANGED <<home, edit, trashVars, made, sameFS, asked, alone, kept,
                     smooth>>
  BY DEF CopyData
<1>2. /\ StateOK /\ Apart /\ AllThere /\ req[h] \in Requests
      /\ req[h].id \in Ids /\ req[h].op \in {"delete", "restore"}
      /\ req[h].op = "delete" => req[h].from \in Places /\ req[h].id \in meta
      /\ req[h].op = "restore" => req[h].to \in Places
      /\ DeleteKnows(req[h]) /\ RestoreKnows(req[h])
  BY <1>1, Copying
<1>3. fd \in Inodes /\ src \in Inodes /\ data[fd] = Blank
  BY <1>1, <1>2 DEF DeleteKnows, RestoreKnows, Requests, Inodes, InodesOrNone
<1>4. /\ data' \in [Inodes -> [1..Parts -> Versions]] /\ data'[fd] = data[src]
      /\ data'[src] = data[src] /\ \A n \in Inodes : n # fd => data'[n] = data[n]
  BY <1>1, <1>2, <1>3 DEF StateOK
<1>5. StateOK'
  BY <1>1, <1>2, <1>4 DEF StateOK, trashVars
<1>6. Apart'
  BY <1>1, <1>2 DEF Apart, Fresh, Separate, trashVars
<1>7. AllThere'
  <2>1. \A n \in Inodes, v \in kept : data[n] = Content(v) => data'[n] = Content(v)
    BY <1>2, <1>3, <1>4, Contents DEF StateOK, Versions, Apart
  <2>2. QED
    BY <1>1, <1>2, <2>1 DEF AllThere, StateOK, trashVars, Inodes, InodesOrNone
<1>8. r \in Requests /\ Goes(h, r)
  BY <1>1, GoesOn DEF Steps
<1>9. \A x \in Requests : x = r => Knows(x)'
  BY <1>1, <1>2, <1>4 DEF trashVars, Requests, Knows, MoveKnows, DeleteKnows, RestoreKnows,
    PurgeKnows, SaveKnows
<1>10. QED
  BY <1>1, <1>2, <1>5, <1>6, <1>7, <1>8, <1>9, OthersIdle, StepKeeps

\* A step that takes files away.
LEMMA FilesGo ==
  ASSUME StateOK, Apart, UNCHANGED <<edit, made, issued, kept>>,
         home' \in [Places -> InodesOrNone], bin' \in [Ids -> InodesOrNone],
         \A o \in Places : home'[o] \in {home[o], 0},
         \A j \in Ids : bin'[j] \in {bin[j], 0}
  PROVE  Apart'
<1>1. made \in Nat
  BY BoundsAssumption DEF StateOK, InodesOrNone
<1>2. Fresh'
  BY <1>1 DEF Apart, Fresh
<1>3. Separate'
  BY DEF Apart, Separate
<1>4. QED
  BY <1>2, <1>3 DEF Apart

\* A copy that fails half-way.
LEMMA CopyFailsKeeps ==
  ASSUME FilesInv, NEW h \in Handlers, CopyFails(h)
  PROVE  FilesInv'
<1> DEFINE i == req[h].id  q == req[h].to  fd == req[h].fd
<1>1. /\ req[h].step = "copy" /\ smooth' = FALSE /\ SetsTarget(h, 0) /\ Ends(h)
      /\ UNCHANGED <<edit, meta, rows, issued, data, made, sameFS, asked,
                     alone, kept>>
  BY DEF CopyFails
<1>2. /\ StateOK /\ Apart /\ AllThere /\ req[h] \in Requests
      /\ req[h].id \in Ids /\ req[h].op \in {"delete", "restore"}
      /\ req[h].op = "restore" => req[h].to \in Places
      /\ DeleteKnows(req[h]) /\ RestoreKnows(req[h])
  BY <1>1, Copying
<1>3. \/ /\ data[bin[i]] = Blank /\ home' = home /\ bin' = [bin EXCEPT ![i] = 0]
      \/ /\ q \in Places /\ data[home[q]] = Blank /\ bin' = bin
         /\ home' = [home EXCEPT ![q] = 0]
  BY <1>1, <1>2 DEF SetsTarget, MovesOut, DeleteKnows, RestoreKnows
<1>4. /\ home' \in [Places -> InodesOrNone] /\ bin' \in [Ids -> InodesOrNone]
      /\ \A o \in Places : home'[o] \in {home[o], 0}
      /\ \A j \in Ids : bin'[j] \in {bin[j], 0}
  <2>1. /\ 0 \in InodesOrNone
        /\ home \in [Places -> InodesOrNone] /\ bin \in [Ids -> InodesOrNone]
    BY <1>2, BoundsAssumption DEF StateOK, InodesOrNone
  <2>2. QED
    BY <1>2, <1>3, <2>1
<1>5. StateOK' /\ Apart'
  BY <1>1, <1>2, <1>4, FilesGo DEF StateOK
<1>6. AllThere'
  <2>1. \A v \in kept : Blank # Content(v)
    BY <1>2, Contents DEF StateOK, Versions, Apart
  <2>2. QED
    BY <1>1, <1>2, <1>3, <2>1 DEF AllThere, StateOK
<1>7. QED
  BY <1>1, <1>5, <1>6, EndKeeps

\* The source that goes after the copy.
LEMMA RemoveSourceKeeps ==
  ASSUME FilesInv, NEW h \in Handlers, RemoveSource(h)
  PROVE  FilesInv'
<1> DEFINE p == req[h].from  q == req[h].to  i == req[h].id
           r == [req[h] EXCEPT !.step = "row"]
<1>1. /\ req[h].step = "unlink" /\ SetsSource(h, 0) /\ GoesTo(h, "row")
      /\ UNCHANGED <<edit, meta, rows, issued, data, made, sameFS, asked,
                     alone, kept, smooth>>
  BY DEF RemoveSource
<1>2. /\ StateOK /\ Apart /\ AllThere /\ req[h] \in Requests
      /\ req[h].id \in Ids /\ req[h].op \in {"delete", "restore"}
      /\ req[h].op = "delete" => req[h].from \in Places /\ req[h].id \in meta
      /\ req[h].op = "restore" => req[h].to \in Places
      /\ DeleteKnows(req[h]) /\ RestoreKnows(req[h])
  BY <1>1, Copying
<1>3. \/ /\ req[h].op = "delete" /\ p \in Places /\ i \in meta /\ bin[i] # 0
         /\ data[bin[i]] = data[home[p]]
         /\ bin' = bin /\ home' = [home EXCEPT ![p] = 0]
      \/ /\ req[h].op = "restore" /\ q \in Places /\ home[q] # 0
         /\ data[home[q]] = data[bin[i]]
         /\ home' = home /\ bin' = [bin EXCEPT ![i] = 0]
  BY <1>1, <1>2 DEF SetsSource, MovesOut, DeleteKnows, RestoreKnows
<1>4. /\ home' \in [Places -> InodesOrNone] /\ bin' \in [Ids -> InodesOrNone]
      /\ \A o \in Places : home'[o] \in {home[o], 0}
      /\ \A j \in Ids : bin'[j] \in {bin[j], 0}
  <2>1. /\ 0 \in InodesOrNone
        /\ home \in [Places -> InodesOrNone] /\ bin \in [Ids -> InodesOrNone]
    BY <1>2, BoundsAssumption DEF StateOK, InodesOrNone
  <2>2. QED
    BY <1>2, <1>3, <2>1
<1>5. StateOK' /\ Apart'
  BY <1>1, <1>2, <1>4, FilesGo DEF StateOK
<1>6. AllThere'
  BY <1>1, <1>2, <1>3 DEF AllThere, StateOK
<1>7. r \in Requests /\ Goes(h, r)
  BY <1>1, GoesOn DEF Steps
<1>8. \A x \in Requests : x = r => Knows(x)'
  BY <1>1, <1>2, <1>3 DEF StateOK, Requests, Knows, MoveKnows, DeleteKnows, RestoreKnows,
    PurgeKnows, SaveKnows
<1>9. QED
  BY <1>1, <1>5, <1>6, <1>7, <1>8, OthersIdle, StepKeeps

\* The row of a trash item, inserted or removed.
LEMMA RowKeeps ==
  ASSUME FilesInv, NEW h \in Handlers, InsertRow(h) \/ DeleteRow(h)
  PROVE  FilesInv'
<1> DEFINE r == [req[h] EXCEPT !.step = "clean"]
<1>1. /\ StateOK /\ req[h] \in Requests /\ Knows(req[h]) /\ req[h].step = "row"
      /\ UNCHANGED <<home, edit, bin, meta, issued, data, made, sameFS, asked,
                     alone, kept, smooth>>
  BY StateIsOK DEF FilesInv, InsertRow, DeleteRow, At
<1>2. StateOK' /\ Apart' /\ AllThere'
  <2>1. rows' \in [Ids -> PlacesOrNone]
    BY <1>1 DEF StateOK, InsertRow, DeleteRow, At, Knows, DeleteKnows, PlacesOrNone
  <2>2. QED
    BY <1>1, <2>1, FilesStay DEF StateOK
<1>3. CASE Ends(h)
  BY <1>1, <1>2, <1>3, EndKeeps
<1>4. CASE req[h].op = "restore" /\ GoesTo(h, "clean")
  <2>1. r \in Requests /\ Goes(h, r)
    BY <1>4, GoesOn DEF Steps
  <2>2. \A x \in Requests : x = r => Knows(x)'
    BY <1>1, <1>4 DEF Requests, Knows, MoveKnows, DeleteKnows, RestoreKnows, PurgeKnows,
      SaveKnows
  <2>3. QED
    BY <1>1, <1>2, <2>1, <2>2, OthersIdle, StepKeeps
<1>5. QED
  BY <1>3, <1>4 DEF InsertRow, DeleteRow

\* The directory of a trash item, removed.
LEMMA RemoveDirKeeps ==
  ASSUME FilesInv, NEW h \in Handlers, RemoveDir(h)
  PROVE  FilesInv'
<1> DEFINE i == req[h].id  r == [req[h] EXCEPT !.step = "row"]
<1>1. /\ StateOK /\ Apart /\ AllThere /\ req[h] \in Requests /\ Knows(req[h])
      /\ req[h].step = "clean" /\ req[h].op \in {"restore", "purge"} /\ i \in Ids
      /\ req[h].op = "restore" => bin[i] = 0
      /\ bin[i] # 0 => data[bin[i]][1] \notin kept
  BY StateIsOK DEF FilesInv, RemoveDir, Knows, MoveKnows, DeleteKnows, RestoreKnows,
    PurgeKnows, SaveKnows, Requests
<1>2. /\ bin' = [bin EXCEPT ![i] = 0] /\ meta' = meta \ {i}
      /\ UNCHANGED <<home, edit, rows, issued, data, made, sameFS, asked,
                     alone, kept, smooth>>
  BY DEF RemoveDir
<1>3. bin' \in [Ids -> InodesOrNone]
  BY <1>1, <1>2, BoundsAssumption DEF StateOK, InodesOrNone
<1>4. StateOK' /\ Apart'
  BY <1>1, <1>2, <1>3, FilesGo DEF StateOK
<1>5. AllThere'
  <2>1. \A v \in kept : bin[i] # 0 => data[bin[i]] # Content(v)
    BY <1>1, Contents DEF StateOK, Versions
  <2>2. QED
    BY <1>1, <1>2, <2>1 DEF AllThere, StateOK
<1>6. CASE Ends(h)
  BY <1>1, <1>4, <1>5, <1>6, EndKeeps
<1>7. CASE req[h].op = "purge" /\ GoesTo(h, "row")
  <2>1. r \in Requests /\ Goes(h, r)
    BY <1>7, GoesOn DEF Steps
  <2>2. \A x \in Requests : x = r => Knows(x)'
    BY <1>1, <1>7 DEF Requests, Knows, MoveKnows, DeleteKnows, RestoreKnows, PurgeKnows,
      SaveKnows
  <2>3. QED
    BY <1>1, <1>4, <1>5, <2>1, <2>2, OthersIdle, StepKeeps
<1>8. QED
  BY <1>6, <1>7 DEF RemoveDir

-----------------------------------------------------------------------------
(* Saving *)

\* A save that is under way.
LEMMA Saving ==
  ASSUME FilesInv, NEW h \in Handlers, req[h].op = "save"
  PROVE  /\ StateOK /\ Apart /\ AllThere /\ req[h] \in Requests
         /\ SaveKnows(req[h]) /\ req[h].from \in Places /\ req[h].step # "idle"
         /\ home[req[h].from] = req[h].src /\ req[h].src # 0
         /\ req[h].step = "write" =>
              req[h].fd = edit[req[h].from] /\ req[h].fd \in Inodes
BY StateIsOK DEF FilesInv, Knows, SaveKnows, Requests, Inodes, InodesOrNone

\* What is not in the home and not in the trash can be written.
LEMMA WrittenApart ==
  ASSUME StateOK, AllThere, NEW n \in Inodes, UNCHANGED <<home, bin, meta, kept>>,
         \A o \in Places : home[o] # n, \A j \in Ids : bin[j] # n,
         \A m \in Inodes \ {n} : data'[m] = data[m]
  PROVE  AllThere'
<1>1. \A o \in Places : home[o] # 0 => data'[home[o]] = data[home[o]]
  BY DEF StateOK, Inodes, InodesOrNone
<1>2. \A j \in meta : bin[j] # 0 => data'[bin[j]] = data[bin[j]]
  BY DEF StateOK, Inodes, InodesOrNone
<1>3. QED
  BY <1>1, <1>2 DEF AllThere

\* The temporary file of a save, opened.
LEMMA OpenEditKeeps ==
  ASSUME FilesInv, NEW h \in Handlers, OpenEdit(h)
  PROVE  FilesInv'
<1> DEFINE p == req[h].from
<1>1. /\ StateOK /\ Apart /\ AllThere /\ req[h] \in Requests
      /\ p \in Places /\ req[h].step = "open" /\ req[h].op = "save"
      /\ home[p] = req[h].src /\ req[h].src # 0 /\ SaveKnows(req[h])
      /\ UNCHANGED <<home, trashVars, sameFS, asked, alone, kept, smooth>>
  BY Saving DEF OpenEdit, At
<1>2. Blank \in [1..Parts -> Versions] /\ made \in Nat /\ MaxInodes \in Nat
  BY <1>1, BoundsAssumption DEF StateOK, InodesOrNone, Blank, Content, Versions
<1>3. PICK n \in Inodes :
        /\ data' = [data EXCEPT ![n] = Blank]
        /\ Goes(h, [req[h] EXCEPT !.step = "write", !.fd = n])
        /\ edit' = [edit EXCEPT ![p] = n]
        /\ \/ n = edit[p] /\ made' = made
           \/ n = made + 1 /\ made' = n
  <2>1. CASE edit[p] # 0
    <3>1. edit[p] \in Inodes /\ edit = [edit EXCEPT ![p] = edit[p]]
      BY <1>1, <2>1 DEF StateOK, Inodes, InodesOrNone
    <3>2. QED
      BY <2>1, <3>1 DEF OpenEdit
  <2>2. CASE edit[p] = 0
    <3>1. made < MaxInodes /\ made' = made + 1
      BY <2>2 DEF OpenEdit
    <3>2. made' \in Inodes
      BY <1>2, <3>1 DEF Inodes
    <3>3. QED
      BY <2>2, <3>1, <3>2 DEF OpenEdit
  <2>3. QED
    BY <2>1, <2>2
<1> DEFINE r == [req[h] EXCEPT !.step = "write", !.fd = n]
<1>4. /\ data' \in [Inodes -> [1..Parts -> Versions]]
      /\ \A m \in Inodes \ {n} : data'[m] = data[m]
      /\ n \in InodesOrNone /\ made' \in InodesOrNone
      /\ edit' \in [Places -> InodesOrNone] /\ edit'[p] = n
      /\ \A o \in Places \ {p} : edit'[o] = edit[o]
  BY <1>1, <1>2, <1>3 DEF StateOK, Inodes, InodesOrNone
<1>5. StateOK'
  BY <1>1, <1>4 DEF StateOK, trashVars
<1>6. /\ \A o \in Places : home[o] # n /\ (edit[o] = n => o = p)
      /\ \A j \in Ids : bin[j] # n
  <2>1. \A o \in Places : home[o] \in Nat /\ edit[o] \in Nat
    BY <1>1 DEF StateOK, InodesOrNone
  <2>2. \A j \in Ids : bin[j] \in Nat
    BY <1>1 DEF StateOK, InodesOrNone
  <2>3. n # 0
    BY DEF Inodes
  <2>4. QED
    BY <1>1, <1>2, <1>3, <2>1, <2>2, <2>3 DEF Apart, Fresh, Separate
<1>7. Fresh'
  <2>1. \A o \in Places : home[o] \in Nat /\ edit[o] \in Nat
    BY <1>1 DEF StateOK, InodesOrNone
  <2>2. \A j \in Ids : bin[j] \in Nat
    BY <1>1 DEF StateOK, InodesOrNone
  <2>3. QED
    BY <1>1, <1>2, <1>3, <1>4, <2>1, <2>2 DEF Apart, Fresh, trashVars
<1>8. Separate'
  BY <1>1, <1>4, <1>6 DEF Apart, Separate, trashVars
<1>9. AllThere'
  BY <1>1, <1>4, <1>6, WrittenApart DEF trashVars
<1>10. r \in Requests
  BY <1>1, <1>4 DEF Requests, Steps
<1>11. \A x \in Requests : x = r => Knows(x)'
  BY <1>1, <1>4 DEF Inodes, trashVars, SaveKnows, Requests, Knows, MoveKnows, DeleteKnows,
    RestoreKnows, PurgeKnows
<1>12. Apart'
  BY <1>1, <1>7, <1>8 DEF Apart
<1>13. QED
  BY <1>1, <1>3, <1>5, <1>9, <1>10, <1>11, <1>12, OthersIdle, StepKeeps

\* A part of the text, written.
LEMMA WritePartKeeps ==
  ASSUME FilesInv, NEW h \in Handlers, WritePart(h)
  PROVE  FilesInv'
<1> DEFINE p == req[h].from  n == req[h].fd  k == req[h].pos + 1
           r == [req[h] EXCEPT !.pos = k]
<1>1. /\ StateOK /\ Apart /\ AllThere /\ req[h] \in Requests
      /\ p \in Places /\ req[h].step = "write" /\ req[h].op = "save"
      /\ home[p] = req[h].src /\ req[h].src # 0 /\ SaveKnows(req[h])
      /\ n = edit[p] /\ n \in Inodes
      /\ UNCHANGED <<home, edit, trashVars, made, sameFS, asked, alone, kept,
                     smooth>>
  BY Saving DEF WritePart, At
<1>2. k \in 1..Parts /\ req[h].pos \in Nat /\ req[h].ver \in Versions
  BY <1>1, BoundsAssumption DEF WritePart, HasMore, Requests
<1>3. data' = [data EXCEPT ![n][k] = req[h].ver] /\ Goes(h, r)
  BY <1>1 DEF WritePart, Goes
<1>4. /\ data' \in [Inodes -> [1..Parts -> Versions]]
      /\ \A m \in Inodes \ {n} : data'[m] = data[m]
      /\ data'[n][k] = req[h].ver
      /\ \A j \in 1..Parts : j # k => data'[n][j] = data[n][j]
  BY <1>1, <1>2, <1>3 DEF StateOK
<1>5. StateOK' /\ Apart'
  BY <1>1, <1>4 DEF StateOK, trashVars, Apart, Fresh, Separate
<1>6. AllThere'
  <2>1. \A o \in Places : home[o] # n
    BY <1>1 DEF Apart, Separate, Inodes
  <2>2. \A j \in Ids : bin[j] # n
    BY <1>1 DEF Apart, Separate, Inodes
  <2>3. QED
    BY <1>1, <1>4, <2>1, <2>2, WrittenApart DEF trashVars
<1>7. r \in Requests
  BY <1>1, <1>2, BoundsAssumption DEF Requests
<1>8. \A x \in Requests : x = r => Knows(x)'
  <2>1. \A j \in 1..k : data'[n][j] = req[h].ver
    BY <1>1, <1>2, <1>4, BoundsAssumption DEF SaveKnows
  <2>2. QED
    BY <1>1, <2>1 DEF trashVars, SaveKnows, Requests, Knows, MoveKnows, DeleteKnows,
      RestoreKnows, PurgeKnows
<1>9. QED
  BY <1>1, <1>3, <1>5, <1>6, <1>7, <1>8, OthersIdle, StepKeeps

\* A save that fails.
LEMMA SaveFailsKeeps ==
  ASSUME FilesInv, NEW h \in Handlers, SaveFails(h)
  PROVE  FilesInv'
<1> DEFINE p == req[h].from
<1>1. /\ StateOK /\ Apart /\ AllThere /\ p \in Places /\ req[h].step # "idle"
      /\ edit' = [edit EXCEPT ![p] = 0] /\ Ends(h)
      /\ UNCHANGED <<home, trashVars, data, made, sameFS, asked, alone, kept,
                     smooth>>
  BY Saving DEF SaveFails, At
<1>2. /\ edit' \in [Places -> InodesOrNone]
      /\ \A o \in Places : edit'[o] \in {edit[o], 0} /\ (o # p => edit'[o] = edit[o])
  BY <1>1, BoundsAssumption DEF StateOK, InodesOrNone
<1>3. StateOK'
  BY <1>1, <1>2 DEF StateOK, trashVars
<1>4. Apart'
  BY <1>1, <1>2, BoundsAssumption DEF Apart, Fresh, Separate, trashVars, StateOK, InodesOrNone
<1>5. AllThere'
  BY <1>1 DEF AllThere, trashVars
<1>6. QED
  BY <1>1, <1>3, <1>4, <1>5, EndKeeps

\* The content that comes to the name is the one the save was for, in full, and
\* no content but the replaced one goes.
LEMMA ReplaceKeeps ==
  ASSUME FilesInv, NEW h \in Handlers, Replace(h)
  PROVE  FilesInv'
<1> DEFINE p == req[h].from  n == req[h].fd  v == req[h].ver  gone == data[req[h].src][1]
<1>1. /\ StateOK /\ Apart /\ AllThere /\ req[h] \in Requests
      /\ p \in Places /\ req[h].step = "write" /\ req[h].pos = Parts
      /\ home[p] = req[h].src /\ req[h].src # 0 /\ SaveKnows(req[h]) /\ req[h].op = "save"
      /\ n = edit[p] /\ n \in Inodes /\ Ends(h)
      /\ UNCHANGED <<trashVars, data, made, sameFS, asked, alone, smooth>>
  BY Saving DEF Replace, MayReplace, At
<1>2. /\ home' = [home EXCEPT ![p] = n] /\ edit' = [edit EXCEPT ![p] = 0]
      /\ kept' = (kept \ {gone}) \cup {v}
  BY <1>1 DEF Replace, Inodes
<1>3. /\ n \in InodesOrNone /\ n # 0
      /\ home' \in [Places -> InodesOrNone] /\ edit' \in [Places -> InodesOrNone]
      /\ home'[p] = n /\ edit'[p] = 0
      /\ \A o \in Places \ {p} : home'[o] = home[o] /\ edit'[o] = edit[o]
  BY <1>1, <1>2, BoundsAssumption DEF StateOK, Inodes, InodesOrNone
<1>4. v \in Versions /\ v # 0
  BY <1>1 DEF SaveKnows, Requests
<1>5. StateOK'
  BY <1>1, <1>2, <1>3, <1>4 DEF StateOK, trashVars
<1>6. Apart'
  BY <1>1, <1>2, <1>3, <1>4, BoundsAssumption DEF Apart, Fresh, Separate, trashVars,
    StateOK, InodesOrNone
<1>7. data[n] = Content(v)
  BY <1>1 DEF SaveKnows, StateOK, Content
<1>8. \A w \in kept \ {gone} : data[home[p]] # Content(w)
  <2>1. \A w \in kept : w \in Nat
    BY <1>1 DEF StateOK, Versions
  <2>2. QED
    BY <1>1, <2>1, Contents
<1>9. AllThere'
  <2>1. \A w \in kept \ {gone} :
          \/ \E o \in Places \ {p} : home[o] # 0 /\ data[home[o]] = Content(w)
          \/ \E i \in meta : bin[i] # 0 /\ data[bin[i]] = Content(w)
    BY <1>1, <1>8 DEF AllThere
  <2>2. ASSUME NEW w \in kept'
        PROVE  \/ \E o \in Places : home'[o] # 0 /\ data[home'[o]] = Content(w)
               \/ \E i \in meta : bin[i] # 0 /\ data[bin[i]] = Content(w)
    <3>1. CASE w = v
      BY <1>1, <1>3, <1>7, <3>1
    <3>2. CASE w # v
      BY <1>2, <1>3, <2>1, <3>2
    <3>3. QED
      BY <3>1, <3>2
  <2>3. QED
    BY <1>1, <2>2 DEF AllThere, Content, trashVars
<1>10. QED
  BY <1>1, <1>5, <1>6, <1>9, EndKeeps

-----------------------------------------------------------------------------
(* The theorem *)

\* A handler that gives up.
LEMMA FailsKeeps ==
  ASSUME FilesInv, NEW h \in Handlers, Fails(h)
  PROVE  FilesInv'
<1>1. /\ StateOK /\ req[h].step # "idle" /\ Ends(h) /\ smooth' = FALSE
      /\ UNCHANGED <<home, edit, trashVars, data, made, sameFS, asked, alone,
                     kept>>
  BY StateIsOK DEF FilesInv, Fails
<1>2. QED
  BY <1>1, FilesStay, EndKeeps DEF StateOK, trashVars

\* A crash keeps the invariant: what is on disk stands by itself.
LEMMA CrashKeeps == FilesInv /\ Crash => FilesInv'
<1> SUFFICES ASSUME FilesInv, Crash  PROVE FilesInv'
  OBVIOUS
<1>1. /\ StateOK /\ req' = [h \in Handlers |-> Idle] /\ smooth' = FALSE
      /\ UNCHANGED <<home, edit, trashVars, data, made, sameFS, asked, alone,
                     kept>>
  BY StateIsOK DEF FilesInv, Crash
<1>2. FilesTypeOK'
  BY <1>1, IdleKnows DEF StateOK, FilesTypeOK, trashVars
<1>3. Apart' /\ AllThere'
  BY <1>1, FilesStay DEF trashVars
<1>4. Alone'
  BY <1>1, IdleKnows DEF Alone
<1>5. \A h \in Handlers : Knows(req[h])'
  <2>1. Knows(Idle)'
    BY DEF Idle, Knows, MoveKnows, DeleteKnows, RestoreKnows, PurgeKnows, SaveKnows
  <2>2. \A h \in Handlers : req'[h] = Idle
    BY <1>1
  <2>3. QED
    BY <2>1, <2>2 DEF Knows, MoveKnows, DeleteKnows, RestoreKnows, PurgeKnows, SaveKnows
<1>6. QED
  BY <1>2, <1>3, <1>4, <1>5 DEF FilesInv

\* It holds when the server starts.
LEMMA InitIsRight == FilesInit => FilesInv
<1> SUFFICES ASSUME FilesInit  PROVE FilesInv
  OBVIOUS
<1> USE PlacesAssumption, BoundsAssumption
<1>1. FilesTypeOK
  <2>1. StateOK
    BY DEF FilesInit, StateOK, Content, Versions, Inodes, InodesOrNone, PlacesOrNone
  <2>2. QED
    BY <2>1, StateIsOK, IdleKnows DEF FilesInit
<1>2. Apart
  BY DEF FilesInit, Apart, Fresh, Separate, InodesOrNone
<1>3. Alone /\ \A h \in Handlers : Knows(req[h])
  BY IdleKnows DEF FilesInit, Alone
<1>4. AllThere
  <2>1. ASSUME NEW o \in Places, Start[o] # 0  PROVE data[home[o]] = Content(Start[o])
    <3>1. home = Start /\ Start[o] \in Inodes /\ data = [n \in Inodes |-> Content(n)]
      BY <2>1 DEF FilesInit, Inodes, InodesOrNone
    <3>2. QED
      BY <3>1
  <2>2. QED
    BY <2>1 DEF FilesInit, AllThere
<1>5. QED
  BY <1>1, <1>2, <1>3, <1>4 DEF FilesInv

\* Every step keeps it when requests come one after the other.
LEMMA StepKeepsInv ==
  ASSUME alone', FilesInv, [FilesNext]_fileVars
  PROVE  FilesInv'
<1>1. CASE Crash
  BY <1>1, CrashKeeps
<1>2. ASSUME NEW h \in Handlers, Ask(h)  PROVE FilesInv'
  BY <1>2, AskKeeps
<1>3. ASSUME NEW h \in Handlers, Works(h)  PROVE FilesInv'
  BY <1>3, MoveInHomeKeeps, WriteMetaKeeps, FindPlaceKeeps, RenameKeeps, CopyCreateKeeps,
    CopyDataKeeps, CopyFailsKeeps, RemoveSourceKeeps, RowKeeps, RemoveDirKeeps,
    OpenEditKeeps, WritePartKeeps, SaveFailsKeeps, ReplaceKeeps DEF Works
<1>4. ASSUME NEW h \in Handlers, Fails(h)  PROVE FilesInv'
  BY <1>4, FailsKeeps
<1>5. CASE UNCHANGED fileVars
  BY <1>5 DEF fileVars, trashVars, FilesInv, FilesTypeOK, Alone, Apart, Fresh, Separate,
    Knows, MoveKnows, DeleteKnows, RestoreKnows, PurgeKnows, SaveKnows, AllThere
<1>6. QED
  BY <1>1, <1>2, <1>3, <1>4, <1>5 DEF FilesNext

\* Requests that have overlapped stay so.
LEMMA AloneBefore == [FilesNext]_fileVars /\ alone' => alone
BY DEF FilesNext, Crash, Ask, AskMove, AskDelete, AskRestore, AskPurge, AskSave, Asks,
  Works, MoveInHome, WriteMeta, FindPlace, Rename, CopyCreate, CopyData, CopyFails,
  RemoveSource, InsertRow, DeleteRow, RemoveDir, OpenEdit, WritePart, SaveFails, Replace,
  Fails, fileVars

InvAlone == alone => FilesInv

\* Every step keeps it, together with requests that stay apart.
LEMMA InvAloneKept == InvAlone /\ [FilesNext]_fileVars => InvAlone'
BY AloneBefore, StepKeepsInv DEF InvAlone

\* As long as the requests of a user do not overlap, no file is lost, whatever
\* calls fail and wherever the process stops (DeleteToTrash, RestoreTrash,
\* WriteContent and their like), for every set of files, of handlers, of trash
\* items.
THEOREM FilesKept == FilesSpec => []NothingLost
<1>1. FilesInit => InvAlone
  BY InitIsRight DEF InvAlone
<1>2. InvAlone => NothingLost
  BY DEF InvAlone, FilesInv, NothingLost
<1>3. QED
  BY <1>1, <1>2, InvAloneKept, PTL DEF FilesSpec

\* As long as requests do not overlap, none restores a file over another
\* (docs/security-audit.md:103), calls that fail and stops of the process included.
THEOREM RestoresApart == FilesSpec => RestoreReplacesNothing
<1> DEFINE Kind == alone => \A h \in Handlers :
              At(h, "restore", "move") /\ req'[h].step \in {"row", "idle"}
                => LET q == req[h].to IN home[q] # 0 => home'[q] = home[q]
<1>1. FilesInit => InvAlone
  BY InitIsRight DEF InvAlone
<1>2. InvAlone => Kind
  BY DEF InvAlone, FilesInv, Knows, RestoreKnows, At
<1>3. QED
  BY <1>1, <1>2, InvAloneKept, PTL DEF FilesSpec, RestoreReplacesNothing

-----------------------------------------------------------------------------
(* Where nothing is copied *)

Whole(n) == n # 0 => \E v \in Versions \ {0} : data[n] = Content(v)

\* What is in the trash is whole as well: it can be restored.
WholeInv ==
  sameFS =>
    /\ \A p \in Places : Whole(home[p])
    /\ \A i \in Ids : Whole(bin[i])
    /\ \A h \in Handlers : req[h].step # "copy"

\* A step in which files are moved, removed or left alone.
LEMMA WholeMoves ==
  ASSUME WholeInv, UNCHANGED <<data, sameFS>>,
         \A p \in Places :
           \/ home'[p] = 0
           \/ \E q \in Places : home'[p] = home[q]
           \/ \E i \in Ids : home'[p] = bin[i],
         \A i \in Ids :
           \/ bin'[i] = 0
           \/ \E q \in Places : bin'[i] = home[q]
           \/ \E j \in Ids : bin'[i] = bin[j],
         sameFS => \A h \in Handlers : req'[h].step # "copy"
  PROVE  WholeInv'
<1> DEFINE Good(n) == n # 0 => \E v \in Versions \ {0} : data'[n] = Content(v)
<1>1. SUFFICES ASSUME sameFS
               PROVE  /\ \A p \in Places : Good(home'[p])
                      /\ \A i \in Ids : Good(bin'[i])
  BY DEF WholeInv, Whole, Content
<1>2. /\ \A p \in Places : Good(home[p])
      /\ \A i \in Ids : Good(bin[i])
  BY <1>1 DEF WholeInv, Whole
<1> HIDE DEF Good
<1>3. Good(0)
  BY DEF Good
<1>4. QED
  BY <1>2, <1>3

\* Nothing begins to be copied.
LEMMA NoneCopies ==
  ASSUME FilesInv, WholeInv, sameFS, NEW h \in Handlers, NEW r,
         Goes(h, r), r.step # "copy"
  PROVE  \A g \in Handlers : req'[g].step # "copy"
BY DEF FilesInv, FilesTypeOK, WholeInv, Goes

\* On one file system no request copies: not one that goes on,
LEMMA NoneCopiesOn ==
  ASSUME FilesInv, WholeInv, sameFS, NEW h \in Handlers, NEW s \in Steps \ {"copy"},
         GoesTo(h, s)
  PROVE  \A g \in Handlers : req'[g].step # "copy"
<1>1. [req[h] EXCEPT !.step = s].step # "copy"
  BY DEF FilesInv, FilesTypeOK, Requests
<1>2. QED
  BY <1>1, GoesOn, NoneCopies

\* nor one that ends.
LEMMA NoneCopiesAtEnd ==
  ASSUME FilesInv, WholeInv, sameFS, NEW h \in Handlers, Ends(h)
  PROVE  \A g \in Handlers : req'[g].step # "copy"
BY NoneCopies, IdleKnows DEF Ends

\* Steps that only requests and the table notice.
LEMMA WholeStays ==
  ASSUME FilesInv, WholeInv, sameFS, NEW h \in Handlers,
         Ask(h) \/ WriteMeta(h) \/ FindPlace(h) \/ InsertRow(h) \/ DeleteRow(h)
           \/ SaveFails(h) \/ Fails(h)
  PROVE  WholeInv'
<1>1. UNCHANGED <<home, bin, data, sameFS>>
  BY DEF Ask, AskMove, AskDelete, AskRestore, AskPurge, AskSave, WriteMeta, FindPlace,
    InsertRow, DeleteRow, SaveFails, Fails, trashVars
<1>2. \A g \in Handlers : req'[g].step # "copy"
  <2>1. CASE Ask(h)
    <3>1. req \in [Handlers -> Requests] /\ \A g \in Handlers : req[g].step # "copy"
      BY DEF FilesInv, FilesTypeOK, WholeInv
    <3>2. QED
      BY <2>1, <3>1 DEF Ask, AskMove, AskDelete, AskRestore, AskPurge, AskSave, Asks, Goes,
        Idle
  <2>2. CASE FindPlace(h)
    <3>1. CASE Ends(h)
      BY <3>1, NoneCopiesAtEnd
    <3>2. ASSUME NEW q, Goes(h, [req[h] EXCEPT !.to = q, !.step = "move"])
          PROVE  \A g \in Handlers : req'[g].step # "copy"
      <4>1. [req[h] EXCEPT !.to = q, !.step = "move"].step # "copy"
        BY DEF FilesInv, FilesTypeOK, Requests
      <4>2. QED
        BY <3>2, <4>1, NoneCopies
    <3>3. QED
      BY <2>2, <3>1, <3>2 DEF FindPlace
  <2>3. CASE Ends(h)
    BY <2>3, NoneCopiesAtEnd
  <2>4. CASE \E s \in {"move", "clean"} : GoesTo(h, s)
    BY <2>4, NoneCopiesOn DEF Steps
  <2>5. QED
    BY <2>1, <2>2, <2>3, <2>4 DEF WriteMeta, InsertRow, DeleteRow, SaveFails, Fails
<1>3. QED
  BY <1>1, <1>2, WholeMoves

\* A file that moves stays whole.
LEMMA WholeMoved ==
  ASSUME FilesInv, WholeInv, sameFS, NEW h \in Handlers,
         MoveInHome(h) \/ Rename(h) \/ CopyFails(h) \/ RemoveSource(h) \/ RemoveDir(h)
  PROVE  WholeInv'
<1>1. StateOK /\ Knows(req[h]) /\ UNCHANGED <<data, sameFS>>
  BY StateIsOK DEF FilesInv, MoveInHome, Rename, CopyFails, RemoveSource, RemoveDir
<1>2. \A g \in Handlers : req'[g].step # "copy"
  BY NoneCopiesAtEnd, NoneCopiesOn DEF MoveInHome, Rename, CopyFails, RemoveSource,
    RemoveDir, Steps
<1>3. SUFFICES ASSUME TRUE
               PROVE  /\ \A p \in Places :
                           \/ home'[p] = 0
                           \/ \E q \in Places : home'[p] = home[q]
                           \/ \E i \in Ids : home'[p] = bin[i]
                      /\ \A i \in Ids :
                           \/ bin'[i] = 0
                           \/ \E q \in Places : bin'[i] = home[q]
                           \/ \E j \in Ids : bin'[i] = bin[j]
  BY <1>1, <1>2, WholeMoves
<1>4. CASE MoveInHome(h)
  BY <1>1, <1>4 DEF MoveInHome, At, Knows, MoveKnows, StateOK, trashVars
<1>5. CASE Rename(h)
  BY <1>1, <1>5 DEF Rename, Moves, MovesOut, SourceOf, Knows, DeleteKnows, RestoreKnows,
    StateOK
<1>6. CASE CopyFails(h) \/ RemoveSource(h)
  BY <1>1, <1>6 DEF CopyFails, RemoveSource, SetsTarget, SetsSource, StateOK
<1>7. CASE RemoveDir(h)
  BY <1>1, <1>7 DEF RemoveDir, StateOK
<1>8. QED
  BY <1>4, <1>5, <1>6, <1>7

\* Saves write what is neither in the home nor in the trash.
LEMMA WholeWritten ==
  ASSUME FilesInv, WholeInv, sameFS, NEW h \in Handlers, OpenEdit(h) \/ WritePart(h)
  PROVE  WholeInv'
<1> DEFINE p == req[h].from
<1>1. /\ StateOK /\ Apart /\ req[h] \in Requests /\ req[h].op = "save" /\ p \in Places
      /\ req[h].step = "write" => req[h].fd = edit[p] /\ req[h].fd \in Inodes
      /\ UNCHANGED <<home, bin, sameFS>>
  BY Saving DEF OpenEdit, WritePart, At, trashVars
<1>2. PICK n \in Inodes : /\ n = edit[p] \/ n = made + 1
                          /\ \A m \in Inodes \ {n} : data'[m] = data[m]
  <2>1. made \in Nat /\ MaxInodes \in Nat /\ data \in [Inodes -> [1..Parts -> Versions]]
        /\ edit[p] \in InodesOrNone
    BY <1>1, BoundsAssumption DEF StateOK, InodesOrNone
  <2>2. CASE WritePart(h)
    BY <1>1, <2>1, <2>2 DEF WritePart, At
  <2>3. CASE OpenEdit(h) /\ edit[p] # 0
    <3>1. edit[p] \in Inodes
      BY <2>1, <2>3 DEF Inodes, InodesOrNone
    <3>2. data' = [data EXCEPT ![edit[p]] = Blank]
      BY <2>3 DEF OpenEdit
    <3>3. QED
      BY <2>1, <3>1, <3>2
  <2>4. CASE OpenEdit(h) /\ edit[p] = 0
    <3>1. made < MaxInodes /\ made' = made + 1 /\ data' = [data EXCEPT ![made'] = Blank]
      BY <2>4 DEF OpenEdit
    <3>2. made' \in Inodes
      BY <2>1, <3>1 DEF Inodes
    <3>3. QED
      BY <2>1, <3>1, <3>2
  <2>5. QED
    BY <2>2, <2>3, <2>4
<1>3. (\A o \in Places : home[o] # n) /\ \A j \in Ids : bin[j] # n
  <2>1. n # 0 /\ made \in Nat /\ (\A o \in Places : home[o] \in Nat)
        /\ \A j \in Ids : bin[j] \in Nat
    BY <1>1, BoundsAssumption DEF StateOK, Inodes, InodesOrNone
  <2>2. QED
    BY <1>1, <1>2, <2>1 DEF Apart, Fresh, Separate
<1>4. /\ \A o \in Places : home[o] # 0 => data'[home[o]] = data[home[o]]
      /\ \A j \in Ids : bin[j] # 0 => data'[bin[j]] = data[bin[j]]
  BY <1>1, <1>2, <1>3 DEF StateOK, Inodes, InodesOrNone
<1>5. \A g \in Handlers : req'[g].step # "copy"
  <2>1. req \in [Handlers -> Requests] /\ \A g \in Handlers : req[g].step # "copy"
    BY DEF FilesInv, FilesTypeOK, WholeInv
  <2>2. CASE OpenEdit(h)
    <3>1. PICK m : Goes(h, [req[h] EXCEPT !.step = "write", !.fd = m])
      BY <2>2 DEF OpenEdit
    <3>2. [req[h] EXCEPT !.step = "write", !.fd = m].step # "copy"
      BY <1>1 DEF Requests
    <3>3. QED
      BY <3>1, <3>2, NoneCopies
  <2>3. CASE WritePart(h)
    BY <1>1, <2>1, <2>3 DEF WritePart, Requests
  <2>4. QED
    BY <2>2, <2>3
<1>6. QED
  BY <1>1, <1>4, <1>5 DEF WholeInv, Whole, Content

\* A file that is replaced by a whole one is whole.
LEMMA WholeReplaced ==
  ASSUME FilesInv, WholeInv, sameFS, NEW h \in Handlers, Replace(h)
  PROVE  WholeInv'
<1> DEFINE p == req[h].from  n == req[h].fd
<1>1. /\ StateOK /\ req[h] \in Requests /\ p \in Places /\ SaveKnows(req[h])
      /\ req[h].op = "save" /\ req[h].step = "write" /\ req[h].pos = Parts
      /\ n = edit[p] /\ n \in Inodes /\ Ends(h) /\ UNCHANGED <<bin, data, sameFS>>
  BY Saving DEF Replace, MayReplace, At, trashVars
<1>2. home' = [home EXCEPT ![p] = n]
  BY <1>1 DEF Replace, Inodes
<1>3. data[n] = Content(req[h].ver) /\ req[h].ver \in Versions \ {0}
  BY <1>1 DEF SaveKnows, StateOK, Content, Requests
<1>4. Whole(n) /\ \A o \in Places : home'[o] \in {n, home[o]}
  BY <1>1, <1>2, <1>3 DEF Whole, StateOK
<1>5. \A g \in Handlers : req'[g].step # "copy"
  BY <1>1, NoneCopiesAtEnd
<1>6. /\ \A o \in Places : Whole(home'[o])
      /\ \A i \in Ids : Whole(bin[i])
  BY <1>4 DEF WholeInv
<1>7. QED
  BY <1>1, <1>5, <1>6 DEF WholeInv, Whole

\* What other requests do leaves a whole file whole.
LEMMA WholeKept ==
  ASSUME FilesInv, WholeInv, [FilesNext]_fileVars
  PROVE  WholeInv'
<1>1. CASE ~sameFS
  <2>1. sameFS' = sameFS
    BY DEF FilesNext, Crash, Ask, AskMove, AskDelete, AskRestore, AskPurge, AskSave, Works,
      MoveInHome, WriteMeta, FindPlace, Rename, CopyCreate, CopyData, CopyFails,
      RemoveSource, InsertRow, DeleteRow, RemoveDir, OpenEdit, WritePart, SaveFails,
      Replace, Fails, fileVars
  <2>2. QED
    BY <1>1, <2>1 DEF WholeInv
<1>2. CASE sameFS
  <2>1. CASE Crash
    <3>1. UNCHANGED <<home, bin, data, sameFS>> /\ req' = [h \in Handlers |-> Idle]
      BY <2>1 DEF Crash, trashVars
    <3>2. QED
      BY <3>1, IdleKnows, WholeMoves
  <2>2. ASSUME NEW h \in Handlers, Ask(h) \/ Works(h) \/ Fails(h)
        PROVE  WholeInv'
    <3>1. ~CopyCreate(h) /\ ~CopyData(h)
      BY <1>2 DEF CopyCreate, CopyData, WholeInv
    <3>2. QED
      BY <1>2, <2>2, <3>1, WholeStays, WholeMoved, WholeWritten, WholeReplaced DEF Works
  <2>3. CASE UNCHANGED fileVars
    BY <2>3 DEF fileVars, trashVars, WholeInv, Whole
  <2>4. QED
    BY <2>1, <2>2, <2>3 DEF FilesNext
<1>3. QED
  BY <1>1, <1>2

InvWhole == alone => FilesInv /\ WholeInv

\* As long as the requests of a user do not overlap, and where home and trash are
\* on one file system, every file of the home is whole at any time: WriteContent
\* replaces the content atomically, as its comment says, and moving takes files
\* as they are.
THEOREM SavesWhole == FilesSpec => []HomeIsWhole
<1>1. FilesInit => InvWhole
  <2> SUFFICES ASSUME FilesInit  PROVE WholeInv
    BY InitIsRight DEF InvWhole
  <2>1. \A o \in Places : Start[o] # 0 => Start[o] \in Inodes
    BY PlacesAssumption, BoundsAssumption DEF Inodes, InodesOrNone
  <2>2. \A n \in Inodes : data[n] = Content(n) /\ n \in Versions \ {0}
    BY BoundsAssumption DEF FilesInit, Inodes, Versions
  <2>3. QED
    BY <2>1, <2>2, IdleKnows DEF FilesInit, WholeInv, Whole, Idle
<1>2. InvWhole /\ [FilesNext]_fileVars => InvWhole'
  BY AloneBefore, StepKeepsInv, WholeKept DEF InvWhole
<1>3. InvWhole => HomeIsWhole
  BY DEF InvWhole, WholeInv, Whole, HomeIsWhole
<1>4. QED
  BY <1>1, <1>2, <1>3, PTL DEF FilesSpec

-----------------------------------------------------------------------------
(* The trash, when requests overlap as they like *)

\* What a request is about, whatever the others do.
Shape(r) ==
  /\ r.op = "none" <=> r.step = "idle"
  /\ r.op = "move" => r.step = "move" /\ {r.from, r.to} \subseteq Places
  /\ r.op = "save" => r.step \in {"open", "write"} /\ r.from \in Places
  /\ r.op \in {"delete", "restore"} => r.from \in Places
  /\ r.op \in {"delete", "restore", "purge"} => r.id \in Ids
  /\ r.op = "delete" => r.step \in {"meta", "move", "copy", "unlink", "row"}
  /\ r.op = "restore" =>
       /\ r.step \in {"name", "move", "copy", "unlink", "row", "clean"}
       /\ r.step # "name" => r.to \in Places
  /\ r.op = "purge" => r.step \in {"clean", "row"}
  /\ r.step \in {"copy", "write"} => r.fd \in Inodes
  /\ r.step = "copy" => r.src \in Inodes

Shapes == FilesTypeOK /\ \A h \in Handlers : Shape(req[h])

\* A request about a trash item, and where it is in its steps.
About(r, i) == r.op \in {"delete", "restore", "purge"} /\ r.id = i
Brings(r) == r.op = "delete" /\ r.step \in {"copy", "unlink", "row"}
Unlists(r) == r.op \in {"restore", "purge"} /\ r.step = "row"
Ending(r) == r.op = "restore" /\ r.step = "clean"

\* What a request can rely on: only its deletion puts a file into an item, and
\* nobody looks at the item before it has its row.
Relies(r, i) ==
  About(r, i) =>
    /\ i \in issued
    /\ r.op = "delete" => rows[i] = NoPlace /\ (Brings(r) <=> bin[i] # 0)
    /\ Unlists(r) \/ Ending(r) => bin[i] = 0

DeletesAlone(i) ==
  \A g, h \in Handlers :
    About(req[g], i) /\ About(req[h], i) /\ req[g].op = "delete" => g = h

\* An item that is half there has a request that will see to it.
Seen(i) ==
  /\ i \notin issued => rows[i] = NoPlace /\ bin[i] = 0
  /\ rows[i] # NoPlace /\ bin[i] = 0 =>
       \E h \in Handlers : About(req[h], i) /\ Unlists(req[h])
  /\ rows[i] = NoPlace /\ bin[i] # 0 =>
       \E h \in Handlers : About(req[h], i) /\ Brings(req[h])

ItemOK(i) == DeletesAlone(i) /\ Seen(i) /\ \A h \in Handlers : Relies(req[h], i)

TrashInv == Shapes /\ (smooth => \A i \in Ids : ItemOK(i))

\* The request of h is replaced by r; the types and the shapes stay.
LEMMA ShapesKeep ==
  ASSUME Shapes, NEW h \in Handlers, NEW r \in Requests, Goes(h, r), Shape(r), StateOK'
  PROVE  Shapes'
<1>1. req \in [Handlers -> Requests] /\ \A g \in Handlers : Shape(req[g])
  BY DEF Shapes, FilesTypeOK
<1>2. req' \in [Handlers -> Requests] /\ \A g \in Handlers : req'[g] \in {r, req[g]}
  BY <1>1 DEF Goes
<1>3. ASSUME NEW g \in Handlers  PROVE Shape(req'[g])
  BY <1>1, <1>2
<1>4. Shapes' <=> FilesTypeOK' /\ \A g \in Handlers : Shape(req'[g])
  BY DEF Shapes, Shape
<1> QED
  BY <1>2, <1>3, <1>4 DEF FilesTypeOK, StateOK

\* The next request of a handler, field by field.
LEMMA NextStep ==
  ASSUME FilesTypeOK, NEW h \in Handlers, NEW s \in Steps, GoesTo(h, s)
  PROVE  \E r \in Requests :
           /\ Goes(h, r) /\ r.step = s
           /\ r.op = req[h].op /\ r.id = req[h].id /\ r.from = req[h].from
           /\ r.to = req[h].to /\ r.src = req[h].src /\ r.fd = req[h].fd
<1>1. req \in [Handlers -> Requests] /\ req[h] \in Requests
  BY DEF FilesTypeOK
<1>2. PICK r : r = [req[h] EXCEPT !.step = s]
  OBVIOUS
<1>3. r \in Requests /\ Goes(h, r)
  BY <1>1, <1>2 DEF Requests, GoesTo, Goes
<1>4. /\ r.step = s /\ r.op = req[h].op /\ r.id = req[h].id /\ r.from = req[h].from
      /\ r.to = req[h].to /\ r.src = req[h].src /\ r.fd = req[h].fd
  BY <1>1, <1>2 DEF Requests
<1> QED
  BY <1>3, <1>4

\* An idle request has the shape of requests.
LEMMA IdleShape ==
  Idle \in Requests /\ Shape(Idle) /\ Idle.op = "none" /\ Idle.step = "idle"
BY IdleKnows DEF Idle, Shape

\* A request that has nothing to do with an item leaves it as it is.
LEMMA ItemStays ==
  ASSUME Shapes, NEW h \in Handlers, NEW r, Goes(h, r), NEW i \in Ids, ItemOK(i),
         ~About(req[h], i), ~About(r, i), bin'[i] = bin[i], rows'[i] = rows[i],
         i \in issued' <=> i \in issued
  PROVE  ItemOK(i)'
<1>1. req'[h] = r /\ \A g \in Handlers \ {h} : req'[g] = req[g]
  BY DEF Shapes, FilesTypeOK, Goes
<1>2. DeletesAlone(i)'
  BY <1>1 DEF ItemOK, DeletesAlone, About
<1>3. Seen(i)'
  BY <1>1 DEF ItemOK, Seen, About, Unlists, Brings
<1>4. ASSUME NEW g \in Handlers  PROVE Relies(req[g], i)'
  <2>1. CASE g = h
    BY <1>1, <2>1 DEF Relies, About
  <2>2. CASE g # h
    BY <1>1, <2>2 DEF ItemOK, Relies, About, Unlists, Ending, Brings
  <2> QED
    BY <2>1, <2>2
<1> QED
  BY <1>2, <1>3, <1>4 DEF ItemOK

\* A request about an item goes on or ends.  The others about it are not
\* deletions, and all they rely on is that what has gone stays away.
LEMMA ItemTurns ==
  ASSUME Shapes, NEW h \in Handlers, NEW r, Goes(h, r), NEW i \in Ids, ItemOK(i),
         About(req[h], i), r.op = "none" \/ (r.op = req[h].op /\ r.id = i),
         issued' = issued,
         \/ req[h].op = "delete"
         \/ bin'[i] \in {bin[i], 0} /\ rows'[i] \in {rows[i], NoPlace},
         Relies(r, i)',
         rows'[i] # NoPlace /\ bin'[i] = 0 =>
           \/ About(r, i) /\ Unlists(r)
           \/ rows[i] # NoPlace /\ bin[i] = 0 /\ ~Unlists(req[h]),
         rows'[i] = NoPlace /\ bin'[i] # 0 =>
           \/ About(r, i) /\ Brings(r)
           \/ rows[i] = NoPlace /\ bin[i] # 0 /\ ~Brings(req[h])
  PROVE  ItemOK(i)'
<1>1. req'[h] = r /\ \A g \in Handlers \ {h} : req'[g] = req[g]
  BY DEF Shapes, FilesTypeOK, Goes
<1>2. DeletesAlone(i)'
  BY <1>1 DEF ItemOK, DeletesAlone, About
<1>3. Seen(i)'
  <2>1. i \in issued'
    BY DEF ItemOK, Relies
  <2>2. rows'[i] # NoPlace /\ bin'[i] = 0 =>
          \E g \in Handlers : About(req'[g], i) /\ Unlists(req'[g])
    BY <1>1 DEF ItemOK, Seen
  <2>3. rows'[i] = NoPlace /\ bin'[i] # 0 =>
          \E g \in Handlers : About(req'[g], i) /\ Brings(req'[g])
    BY <1>1 DEF ItemOK, Seen
  <2> QED
    BY <2>1, <2>2, <2>3 DEF Seen, About, Unlists, Brings
<1>4. ASSUME NEW g \in Handlers  PROVE Relies(req[g], i)'
  <2>1. CASE g = h
    BY <1>1, <2>1 DEF Relies, About, Unlists, Ending, Brings
  <2>2. CASE g # h
    <3>1. About(req[g], i) => req[g].op # "delete" /\ req[h].op # "delete"
      BY <2>2 DEF ItemOK, DeletesAlone
    <3> QED
      BY <1>1, <2>2, <3>1 DEF ItemOK, Relies, About, Unlists, Ending, Brings
  <2> QED
    BY <2>1, <2>2
<1> QED
  BY <1>2, <1>3, <1>4 DEF ItemOK

\* What is to be shown of a step.
ItemsKeep == \A i \in Ids : smooth /\ ItemOK(i) => ItemOK(i)'

\* A step that no item notices.
LEMMA NoneNotices ==
  ASSUME Shapes, NEW h \in Handlers, NEW r, Goes(h, r),
         req[h].op \notin {"delete", "restore", "purge"},
         r.op \notin {"delete", "restore", "purge"}, UNCHANGED <<bin, rows, issued>>
  PROVE  ItemsKeep
BY ItemStays DEF ItemsKeep, About

-----------------------------------------------------------------------------
(* Requests that arrive *)

\* A request that starts has the type of requests.
LEMMA AskTypes ==
  ASSUME Shapes, NEW h \in Handlers, Ask(h)
  PROVE  /\ StateOK' /\ UNCHANGED <<bin, rows>> /\ req[h].step = "idle"
         /\ req[h].op = "none" /\ asked' \in Nat /\ asked' <= MaxAsked
<1>1. StateOK /\ req[h].op = "none" <=> StateOK /\ req[h].step = "idle"
  BY DEF Shapes, Shape
<1>2. StateOK
  BY StateIsOK DEF Shapes
<1>3. asked \in 0..MaxAsked /\ MaxAsked \in Nat
  BY <1>2, BoundsAssumption DEF StateOK
<1>4. /\ asked < MaxAsked /\ asked' = asked + 1 /\ req[h].step = "idle"
      /\ alone' \in BOOLEAN
  BY DEF Ask, AskMove, AskDelete, AskRestore, AskPurge, AskSave, Asks
<1>5. /\ UNCHANGED <<home, edit, bin, meta, rows, data, made, sameFS, smooth>>
      /\ kept' \subseteq kept /\ issued' \subseteq Ids
  BY <1>2 DEF Ask, AskMove, AskDelete, AskRestore, AskPurge, AskSave, trashVars, StateOK
<1>6. StateOK'
  BY <1>2, <1>3, <1>4, <1>5 DEF StateOK
<1> QED
  BY <1>1, <1>2, <1>3, <1>4, <1>5, <1>6

\* Moves and saves arrive.
LEMMA AskHomeTurns ==
  ASSUME Shapes, NEW h \in Handlers, AskMove(h) \/ AskSave(h)
  PROVE  Shapes' /\ ItemsKeep
<1>1. PICK r \in Requests :
        /\ Goes(h, r) /\ r.op \in {"move", "save"} /\ Shape(r) /\ issued' = issued
  <2>1. CASE AskMove(h)
    <3>1. PICK p, q \in Places :
            Asks(h, [Idle EXCEPT !.op = "move", !.step = "move", !.from = p, !.to = q])
      BY <2>1 DEF AskMove
    <3>2. PICK r : r = [Idle EXCEPT !.op = "move", !.step = "move", !.from = p, !.to = q]
      OBVIOUS
    <3>3. r \in Requests /\ r.op = "move" /\ Shape(r)
      BY <3>2, IdleKnows DEF Requests, Steps, PlacesOrNone, Idle, Shape
    <3> QED
      BY <2>1, <3>1, <3>2, <3>3 DEF Asks, AskMove, trashVars
  <2>2. CASE AskSave(h)
    <3>1. PICK p \in Places :
            Asks(h, [Idle EXCEPT !.op = "save", !.step = "open", !.from = p,
                                 !.src = home[p], !.ver = MaxInodes + asked'])
      BY <2>2 DEF AskSave
    <3>2. PICK r : r = [Idle EXCEPT !.op = "save", !.step = "open", !.from = p,
                                    !.src = home[p], !.ver = MaxInodes + asked']
      OBVIOUS
    <3>3. home[p] \in InodesOrNone /\ MaxInodes + asked' \in Versions
      BY <2>2, AskTypes, StateIsOK, BoundsAssumption DEF Shapes, StateOK, Versions, Ask
    <3>4. r \in Requests /\ r.op = "save" /\ Shape(r)
      BY <3>2, <3>3, IdleKnows DEF Requests, Steps, PlacesOrNone, Idle, Shape
    <3> QED
      BY <2>2, <3>1, <3>2, <3>4 DEF Asks, AskSave, trashVars
  <2> QED
    BY <2>1, <2>2
<1>2. StateOK' /\ UNCHANGED <<bin, rows>> /\ req[h].op = "none"
  BY AskTypes DEF Ask
<1> QED
  BY <1>1, <1>2, ShapesKeep, NoneNotices

\* A deletion arrives with an item nobody knows.
LEMMA AskDeleteTurns ==
  ASSUME Shapes, NEW h \in Handlers, AskDelete(h)
  PROVE  Shapes' /\ ItemsKeep
<1>1. PICK p \in Places, i \in Ids \ issued :
        /\ issued' = issued \cup {i}
        /\ Asks(h, [Idle EXCEPT !.op = "delete", !.step = "meta", !.from = p, !.id = i])
  BY DEF AskDelete
<1>2. PICK r : r = [Idle EXCEPT !.op = "delete", !.step = "meta", !.from = p, !.id = i]
  OBVIOUS
<1>3. /\ r \in Requests /\ Shape(r) /\ r.op = "delete" /\ r.id = i /\ r.step = "meta"
      /\ Goes(h, r)
  BY <1>1, <1>2, IdleKnows DEF Requests, Steps, PlacesOrNone, Idle, Shape, Asks
<1>4. StateOK' /\ UNCHANGED <<bin, rows>> /\ req[h].op = "none"
  BY AskTypes DEF Ask
<1>5. ASSUME NEW j \in Ids, ItemOK(j)  PROVE ItemOK(j)'
  <2>1. CASE j # i
    BY <1>1, <1>3, <1>4, <1>5, <2>1, ItemStays DEF About
  <2>2. CASE j = i
    <3>1. /\ rows[j] = NoPlace /\ bin[j] = 0 /\ j \notin issued /\ j \in issued'
          /\ \A g \in Handlers : ~About(req[g], j)
      BY <1>1, <1>5, <2>2 DEF ItemOK, Seen, Relies
    <3>2. req'[h] = r /\ \A g \in Handlers \ {h} : req'[g] = req[g]
      BY <1>3 DEF Shapes, FilesTypeOK, Goes
    <3>3. DeletesAlone(j)'
      BY <3>1, <3>2 DEF DeletesAlone, About
    <3>4. Seen(j)'
      BY <1>4, <3>1 DEF Seen
    <3>5. ASSUME NEW g \in Handlers  PROVE Relies(req[g], j)'
      BY <1>3, <1>4, <3>1, <3>2 DEF Relies, About, Unlists, Ending, Brings
    <3> QED
      BY <3>3, <3>4, <3>5 DEF ItemOK
  <2> QED
    BY <2>1, <2>2
<1> QED
  BY <1>3, <1>4, <1>5, ShapesKeep DEF ItemsKeep

\* A restore or a purge arrives for an item that is listed: no deletion has it.
LEMMA AskTrashTurns ==
  ASSUME Shapes, NEW h \in Handlers, AskRestore(h) \/ AskPurge(h)
  PROVE  Shapes' /\ ItemsKeep
<1>1. PICK i \in Ids, r \in Requests :
        /\ rows[i] # NoPlace /\ Goes(h, r) /\ Shape(r) /\ r.id = i /\ issued' = issued
        /\ \/ r.op = "restore" /\ r.step = "name"
           \/ r.op = "purge" /\ r.step = "clean"
  <2>1. CASE AskRestore(h)
    <3>1. PICK i \in Ids :
            /\ rows[i] # NoPlace
            /\ Asks(h, [Idle EXCEPT !.op = "restore", !.step = "name", !.from = rows[i],
                                    !.id = i])
      BY <2>1 DEF AskRestore
    <3>2. PICK r : r = [Idle EXCEPT !.op = "restore", !.step = "name", !.from = rows[i],
                                    !.id = i]
      OBVIOUS
    <3>3. rows[i] \in Places
      BY <3>1 DEF Shapes, FilesTypeOK, PlacesOrNone
    <3>4. /\ r \in Requests /\ Shape(r) /\ r.op = "restore" /\ r.step = "name"
          /\ r.id = i
      BY <3>2, <3>3, IdleKnows DEF Requests, Steps, PlacesOrNone, Idle, Shape
    <3> QED
      BY <2>1, <3>1, <3>2, <3>4 DEF Asks, AskRestore, trashVars
  <2>2. CASE AskPurge(h)
    <3>1. PICK i \in Ids :
            /\ rows[i] # NoPlace
            /\ Asks(h, [Idle EXCEPT !.op = "purge", !.step = "clean", !.id = i])
      BY <2>2 DEF AskPurge
    <3>2. PICK r : r = [Idle EXCEPT !.op = "purge", !.step = "clean", !.id = i]
      OBVIOUS
    <3>3. r \in Requests /\ Shape(r) /\ r.op = "purge" /\ r.step = "clean" /\ r.id = i
      BY <3>2, IdleKnows DEF Requests, Steps, PlacesOrNone, Idle, Shape
    <3> QED
      BY <2>2, <3>1, <3>2, <3>3 DEF Asks, AskPurge, trashVars
  <2> QED
    BY <2>1, <2>2
<1>2. StateOK' /\ UNCHANGED <<bin, rows>> /\ req[h].op = "none"
  BY AskTypes DEF Ask
<1>3. ASSUME NEW j \in Ids, ItemOK(j)  PROVE ItemOK(j)'
  <2>1. CASE j # i
    BY <1>1, <1>2, <1>3, <2>1, ItemStays DEF About
  <2>2. CASE j = i
    <3>1. /\ j \in issued
          /\ \A g \in Handlers : About(req[g], j) => req[g].op # "delete"
      BY <1>1, <1>3, <2>2 DEF ItemOK, Seen, Relies, About
    <3>2. req'[h] = r /\ \A g \in Handlers \ {h} : req'[g] = req[g]
      BY <1>1 DEF Shapes, FilesTypeOK, Goes
    <3>3. DeletesAlone(j)'
      BY <1>1, <3>1, <3>2 DEF DeletesAlone, About
    <3>4. Seen(j)'
      BY <1>1, <1>2, <1>3, <2>2, <3>2 DEF ItemOK, Seen, About, Unlists, Brings
    <3>5. ASSUME NEW g \in Handlers  PROVE Relies(req[g], j)'
      <4>1. CASE g = h
        BY <1>1, <3>1, <3>2, <4>1 DEF Relies, About, Unlists, Ending, Brings
      <4>2. CASE g # h
        BY <1>1, <1>2, <1>3, <3>2, <4>2 DEF ItemOK, Relies, About, Unlists, Ending, Brings
      <4> QED
        BY <4>1, <4>2
    <3> QED
      BY <3>3, <3>4, <3>5 DEF ItemOK
  <2> QED
    BY <2>1, <2>2
<1> QED
  BY <1>1, <1>2, <1>3, ShapesKeep DEF ItemsKeep

-----------------------------------------------------------------------------
(* Steps of a request *)

\* The items a step of h does not touch, and the one it does.
LEMMA OneTurns ==
  ASSUME Shapes, NEW h \in Handlers, NEW r, Goes(h, r), NEW i \in Ids,
         About(req[h], i), r.op = "none" \/ (r.op = req[h].op /\ r.id = i),
         issued' = issued,
         \A j \in Ids \ {i} : bin'[j] = bin[j] /\ rows'[j] = rows[j],
         smooth /\ ItemOK(i) => ItemOK(i)'
  PROVE  ItemsKeep
<1>1. ASSUME NEW j \in Ids \ {i}, ItemOK(j)  PROVE ItemOK(j)'
  BY <1>1, ItemStays DEF About
<1> QED
  BY <1>1 DEF ItemsKeep

\* A move within the home leaves the items of the trash alone.
LEMMA MoveInHomeTurns ==
  ASSUME Shapes, NEW h \in Handlers, MoveInHome(h)
  PROVE  Shapes' /\ ItemsKeep
<1>1. /\ StateOK /\ req[h].op = "move" /\ Ends(h)
      /\ req[h].from \in Places /\ req[h].to \in Places
  BY StateIsOK DEF Shapes, Shape, MoveInHome, At
<1>2. /\ home' \in [Places -> InodesOrNone]
      /\ UNCHANGED <<edit, trashVars, data, made, sameFS, asked, alone, kept, smooth>>
  BY <1>1, BoundsAssumption DEF MoveInHome, StateOK, InodesOrNone
<1>3. StateOK' /\ UNCHANGED <<bin, rows, issued>>
  BY <1>1, <1>2 DEF StateOK, trashVars
<1> QED
  BY <1>1, <1>3, IdleShape, ShapesKeep, NoneNotices DEF Ends

\* The metadata of an item, written before anything moves.
LEMMA WriteMetaTurns ==
  ASSUME Shapes, NEW h \in Handlers, WriteMeta(h)
  PROVE  Shapes' /\ ItemsKeep
<1>1. PICK i \in Ids :
        /\ StateOK /\ req[h].op = "delete" /\ req[h].step = "meta" /\ Shape(req[h])
        /\ i = req[h].id /\ About(req[h], i)
  BY StateIsOK DEF Shapes, Shape, WriteMeta, At, About
<1>2. PICK r \in Requests :
        /\ Goes(h, r) /\ r.step = "move"
        /\ r.op = req[h].op /\ r.id = i /\ r.from = req[h].from
  BY <1>1, NextStep DEF Shapes, WriteMeta, Steps
<1>3. StateOK' /\ UNCHANGED <<bin, rows, issued>>
  BY <1>1 DEF WriteMeta, StateOK
<1>4. Shape(r)
  BY <1>1, <1>2 DEF Shape
<1>5. ASSUME smooth, ItemOK(i)  PROVE ItemOK(i)'
  <2>1. Relies(r, i)' /\ ~Unlists(req[h]) /\ ~Brings(req[h])
    BY <1>1, <1>2, <1>3, <1>5 DEF ItemOK, Relies, About, Unlists, Ending, Brings
  <2> QED
    BY <1>1, <1>2, <1>3, <1>5, <2>1, ItemTurns
<1>6. ItemsKeep
  BY <1>1, <1>2, <1>3, <1>5, OneTurns
<1> QED
  BY <1>2, <1>3, <1>4, <1>6, ShapesKeep

\* A restore that looks for its place leaves the items alone.
LEMMA FindPlaceTurns ==
  ASSUME Shapes, NEW h \in Handlers, FindPlace(h)
  PROVE  Shapes' /\ ItemsKeep
<1>1. PICK i \in Ids :
        /\ StateOK /\ req[h].op = "restore" /\ req[h].step = "name" /\ Shape(req[h])
        /\ i = req[h].id /\ About(req[h], i) /\ req[h] \in Requests
  BY StateIsOK DEF Shapes, FilesTypeOK, Shape, FindPlace, At, About
<1>2. StateOK' /\ UNCHANGED <<bin, rows, issued>>
  BY <1>1 DEF FindPlace, StateOK, trashVars
<1>3. PICK r \in Requests :
        /\ Goes(h, r) /\ Shape(r) /\ ~Unlists(r) /\ ~Ending(r)
        /\ r.op = "none" \/ (r.op = req[h].op /\ r.id = i)
  <2>1. CASE Ends(h)
    BY <2>1, IdleShape DEF Ends, Unlists, Ending
  <2>2. ASSUME NEW q \in Available(req[h].from),
               Goes(h, [req[h] EXCEPT !.to = q, !.step = "move"])
        PROVE  \E r \in Requests :
                 /\ Goes(h, r) /\ Shape(r) /\ ~Unlists(r) /\ ~Ending(r)
                 /\ r.op = "none" \/ (r.op = req[h].op /\ r.id = i)
    <3>1. q \in Places
      <4>1. req[h].from \in Places /\ Candidates[req[h].from] \in Seq(Places)
        BY <1>1, PlacesAssumption DEF Shape
      <4> QED
        BY <4>1 DEF Available
    <3>2. PICK r : r = [req[h] EXCEPT !.to = q, !.step = "move"]
      OBVIOUS
    <3>3. r \in Requests /\ r.op = req[h].op /\ r.id = i /\ r.step = "move" /\ r.to = q
          /\ r.from = req[h].from
      BY <1>1, <3>1, <3>2 DEF Requests, Steps, PlacesOrNone
    <3>4. Shape(r) /\ ~Unlists(r) /\ ~Ending(r)
      BY <1>1, <3>1, <3>3 DEF Shape, Unlists, Ending
    <3> QED
      BY <2>2, <3>2, <3>3, <3>4
  <2> QED
    BY <2>1, <2>2 DEF FindPlace
<1>4. ASSUME smooth, ItemOK(i)  PROVE ItemOK(i)'
  <2>1. Relies(r, i)' /\ ~Unlists(req[h]) /\ ~Brings(req[h])
    BY <1>1, <1>2, <1>3, <1>4 DEF ItemOK, Relies, About, Unlists, Ending, Brings
  <2> QED
    BY <1>1, <1>2, <1>3, <1>4, <2>1, ItemTurns
<1>5. ItemsKeep
  BY <1>1, <1>2, <1>3, <1>4, OneTurns
<1> QED
  BY <1>2, <1>3, <1>5, ShapesKeep

\* What the steps of movePath have in common.
LEMMA Moving ==
  ASSUME Shapes, NEW h \in Handlers,
         Moves(h) \/ req[h].step \in {"copy", "unlink"}
  PROVE  /\ StateOK /\ Shape(req[h]) /\ req[h] \in Requests
         /\ req[h].op \in {"delete", "restore"} /\ req[h].id \in Ids
         /\ req[h].from \in Places /\ (req[h].op = "restore" => req[h].to \in Places)
         /\ About(req[h], req[h].id) /\ ~Unlists(req[h])
         /\ SourceOf(h) \in InodesOrNone
<1>1. /\ StateOK /\ Shape(req[h]) /\ req[h] \in Requests
      /\ req[h].op \in {"delete", "restore"} /\ req[h].id \in Ids
      /\ req[h].from \in Places /\ (req[h].op = "restore" => req[h].to \in Places)
  BY StateIsOK DEF Shapes, FilesTypeOK, Shape, Moves, Requests
<1> QED
  BY <1>1 DEF About, Unlists, SourceOf, MovesOut, StateOK, Moves

\* A rename moves a file into the trash or out of it.
LEMMA RenameTurns ==
  ASSUME Shapes, NEW h \in Handlers, Rename(h)
  PROVE  Shapes' /\ ItemsKeep
<1>1. PICK i, p, q, n :
        /\ i \in Ids /\ p \in Places /\ n \in InodesOrNone /\ StateOK
        /\ Shape(req[h]) /\ req[h].op \in {"delete", "restore"}
        /\ i = req[h].id /\ p = req[h].from /\ q = req[h].to
        /\ req[h].op = "restore" => q \in Places
        /\ About(req[h], i) /\ ~Unlists(req[h]) /\ ~Brings(req[h])
        /\ n = SourceOf(h)
  BY Moving DEF Rename, Moves, Brings
<1>2. UNCHANGED <<edit, meta, rows, issued, data, made, sameFS, asked, alone, kept, smooth>>
  BY DEF Rename
<1>3. CASE n = 0
  <2>1. Ends(h) /\ UNCHANGED <<home, bin>> /\ StateOK'
    BY <1>1, <1>2, <1>3 DEF Rename, StateOK
  <2>2. ASSUME smooth, ItemOK(i)  PROVE ItemOK(i)'
    BY <1>1, <1>2, <2>1, <2>2, IdleShape, ItemTurns DEF Ends, Relies, About
  <2>3. ItemsKeep
    BY <1>1, <1>2, <2>1, <2>2, IdleShape, OneTurns DEF Ends
  <2> QED
    BY <2>1, <2>3, IdleShape, ShapesKeep DEF Ends
<1>4. CASE n # 0
  <2>1. PICK r \in Requests :
          /\ Goes(h, r) /\ r.step = "row" /\ r.op = req[h].op /\ r.id = i /\ r.from = p
          /\ r.to = q
    BY <1>1, <1>4, NextStep DEF Shapes, Rename, Steps
  <2>2. /\ req[h].op = "delete" =>
             /\ bin' = [bin EXCEPT ![i] = n]
             /\ home' = [home EXCEPT ![p] = 0]
        /\ req[h].op = "restore" =>
             /\ home' = [home EXCEPT ![q] = n]
             /\ bin' = [bin EXCEPT ![i] = 0]
    BY <1>1, <1>4 DEF Rename, MovesOut
  <2>3. /\ home' \in [Places -> InodesOrNone] /\ bin' \in [Ids -> InodesOrNone]
        /\ \A j \in Ids \ {i} : bin'[j] = bin[j]
        /\ bin'[i] = (IF req[h].op = "delete" THEN n ELSE 0)
    <3>1. 0 \in InodesOrNone
      BY BoundsAssumption DEF InodesOrNone
    <3> QED
      BY <1>1, <2>2, <3>1 DEF StateOK
  <2>4. StateOK' /\ Shape(r)
    BY <1>1, <1>2, <2>1, <2>3 DEF StateOK, Shape
  <2>5. ASSUME smooth, ItemOK(i)  PROVE ItemOK(i)'
    <3>1. About(r, i) /\ (Brings(r) <=> req[h].op = "delete")
          /\ (Unlists(r) <=> req[h].op = "restore") /\ ~Ending(r)
      BY <1>1, <2>1 DEF About, Brings, Unlists, Ending
    <3>2. /\ i \in issued' /\ rows'[i] = rows[i]
          /\ req[h].op = "delete" => rows'[i] = NoPlace /\ bin'[i] # 0
          /\ req[h].op = "restore" => bin'[i] = 0
      BY <1>1, <1>2, <1>4, <2>3, <2>5 DEF ItemOK, Relies
    <3>3. Relies(r, i)'
      BY <1>1, <2>1, <3>1, <3>2 DEF Relies, About, Unlists, Brings, Ending
    <3> QED
      BY <1>1, <1>2, <2>1, <2>5, <3>1, <3>2, <3>3, ItemTurns
  <2>6. ItemsKeep
    BY <1>1, <1>2, <2>1, <2>3, <2>5, OneTurns
  <2> QED
    BY <2>1, <2>4, <2>6, ShapesKeep
<1> QED
  BY <1>3, <1>4

\* A copy begins.
LEMMA CopyCreateTurns ==
  ASSUME Shapes, NEW h \in Handlers, CopyCreate(h)
  PROVE  Shapes' /\ ItemsKeep
<1>1. PICK i, p, q, n :
        /\ i \in Ids /\ p \in Places /\ n \in InodesOrNone /\ StateOK
        /\ Shape(req[h]) /\ req[h] \in Requests /\ req[h].op \in {"delete", "restore"}
        /\ i = req[h].id /\ p = req[h].from /\ q = req[h].to
        /\ req[h].op = "restore" => q \in Places
        /\ About(req[h], i) /\ ~Unlists(req[h]) /\ ~Brings(req[h])
        /\ n = SourceOf(h)
  BY Moving DEF CopyCreate, Moves, Brings
<1>2. UNCHANGED <<edit, meta, rows, issued, sameFS, asked, alone, kept, smooth>>
  BY DEF CopyCreate
<1>3. ASSUME NEW m \in InodesOrNone, SetsTarget(h, m)
      PROVE  /\ home' \in [Places -> InodesOrNone] /\ bin' \in [Ids -> InodesOrNone]
             /\ \A j \in Ids \ {i} : bin'[j] = bin[j]
             /\ bin'[i] = (IF req[h].op = "delete" THEN m ELSE bin[i])
  BY <1>1, <1>3 DEF SetsTarget, MovesOut, StateOK
<1>4. CASE n = 0 \/ TargetOf(h) # 0
  <2>1. Ends(h) /\ SetsTarget(h, 0) /\ UNCHANGED <<data, made>> /\ 0 \in InodesOrNone
    BY <1>1, <1>4, BoundsAssumption DEF CopyCreate, InodesOrNone
  <2>2. StateOK'
    BY <1>1, <1>2, <1>3, <2>1 DEF StateOK
  <2>3. ASSUME smooth, ItemOK(i)  PROVE ItemOK(i)'
    <3>1. bin'[i] = bin[i]
      BY <1>1, <1>3, <2>1, <2>3 DEF ItemOK, Relies
    <3> QED
      BY <1>1, <1>2, <2>1, <2>3, <3>1, IdleShape, ItemTurns DEF Ends, Relies, About
  <2>4. ItemsKeep
    BY <1>1, <1>2, <1>3, <2>1, <2>3, IdleShape, OneTurns DEF Ends
  <2> QED
    BY <2>1, <2>2, <2>4, IdleShape, ShapesKeep DEF Ends
<1>5. CASE ~(n = 0 \/ TargetOf(h) # 0)
  <2>1. PICK m : m = made'
    OBVIOUS
  <2>2. /\ made < MaxInodes /\ m = made + 1 /\ SetsTarget(h, m)
        /\ data' = [data EXCEPT ![m] = Blank]
        /\ Goes(h, [req[h] EXCEPT !.step = "copy", !.src = n, !.fd = m])
    BY <1>1, <1>5, <2>1 DEF CopyCreate
  <2>3. m \in Inodes /\ m \in InodesOrNone /\ m # 0 /\ n \in Inodes
    BY <1>1, <1>5, <2>2, BoundsAssumption DEF StateOK, Inodes, InodesOrNone
  <2>4. PICK r : r = [req[h] EXCEPT !.step = "copy", !.src = n, !.fd = m]
    OBVIOUS
  <2>5. /\ r \in Requests /\ Goes(h, r) /\ r.step = "copy" /\ r.src = n /\ r.fd = m
        /\ r.op = req[h].op /\ r.id = i /\ r.from = p /\ r.to = q
    BY <1>1, <2>2, <2>3, <2>4 DEF Requests, Steps
  <2>6. Shape(r)
    BY <1>1, <2>3, <2>5 DEF Shape
  <2>7. StateOK'
    <3>1. Blank \in [1..Parts -> Versions]
      BY BoundsAssumption DEF Blank, Content, Versions
    <3> QED
      BY <1>1, <1>2, <1>3, <2>1, <2>2, <2>3, <3>1 DEF StateOK
  <2>8. ASSUME smooth, ItemOK(i)  PROVE ItemOK(i)'
    <3>1. About(r, i) /\ (Brings(r) <=> req[h].op = "delete") /\ ~Unlists(r) /\ ~Ending(r)
      BY <1>1, <2>5 DEF About, Brings, Unlists, Ending
    <3>2. /\ i \in issued' /\ rows'[i] = rows[i]
          /\ req[h].op = "delete" => rows'[i] = NoPlace /\ bin'[i] = m
          /\ req[h].op = "restore" => bin'[i] = bin[i]
      BY <1>1, <1>2, <1>3, <2>2, <2>3, <2>8 DEF ItemOK, Relies
    <3>3. Relies(r, i)'
      BY <1>1, <2>3, <2>5, <3>1, <3>2 DEF Relies, About, Unlists, Brings, Ending
    <3> QED
      BY <1>1, <1>2, <2>3, <2>5, <2>8, <3>1, <3>2, <3>3, ItemTurns
  <2>9. ItemsKeep
    BY <1>1, <1>2, <1>3, <2>2, <2>3, <2>5, <2>8, OneTurns
  <2> QED
    BY <2>5, <2>6, <2>7, <2>9, ShapesKeep
<1> QED
  BY <1>4, <1>5

\* The bytes of a copy arrive.
LEMMA CopyDataTurns ==
  ASSUME Shapes, NEW h \in Handlers, CopyData(h)
  PROVE  Shapes' /\ ItemsKeep
<1>1. PICK i :
        /\ i \in Ids /\ StateOK /\ Shape(req[h]) /\ req[h].op \in {"delete", "restore"}
        /\ i = req[h].id /\ About(req[h], i) /\ ~Unlists(req[h]) /\ req[h].step = "copy"
        /\ req[h].src \in Inodes /\ req[h].fd \in Inodes
  BY Moving DEF CopyData, Shape
<1>2. PICK r \in Requests :
        /\ Goes(h, r) /\ r.step = "unlink" /\ r.op = req[h].op /\ r.id = i
        /\ r.from = req[h].from /\ r.to = req[h].to
  BY <1>1, NextStep DEF Shapes, CopyData, Steps
<1>3. StateOK' /\ UNCHANGED <<bin, rows, issued>>
  BY <1>1 DEF CopyData, StateOK, trashVars
<1>4. Shape(r)
  BY <1>1, <1>2 DEF Shape
<1>5. ASSUME smooth, ItemOK(i)  PROVE ItemOK(i)'
  <2>1. /\ About(r, i) /\ ~Unlists(r) /\ ~Ending(r)
        /\ Brings(r) <=> Brings(req[h])
    BY <1>1, <1>2 DEF About, Unlists, Ending, Brings
  <2>2. Relies(r, i)'
    BY <1>1, <1>2, <1>3, <1>5, <2>1 DEF ItemOK, Relies, About, Unlists, Ending, Brings
  <2> QED
    BY <1>1, <1>2, <1>3, <1>5, <2>1, <2>2, ItemTurns
<1>6. ItemsKeep
  BY <1>1, <1>2, <1>3, <1>5, OneTurns
<1> QED
  BY <1>2, <1>3, <1>4, <1>6, ShapesKeep

\* The source goes.
LEMMA RemoveSourceTurns ==
  ASSUME Shapes, NEW h \in Handlers, RemoveSource(h)
  PROVE  Shapes' /\ ItemsKeep
<1>1. PICK i :
        /\ i \in Ids /\ StateOK /\ Shape(req[h]) /\ req[h].op \in {"delete", "restore"}
        /\ i = req[h].id /\ About(req[h], i) /\ ~Unlists(req[h]) /\ req[h].step = "unlink"
        /\ req[h].from \in Places
  BY Moving DEF RemoveSource
<1>2. PICK r \in Requests :
        /\ Goes(h, r) /\ r.step = "row" /\ r.op = req[h].op /\ r.id = i
        /\ r.from = req[h].from /\ r.to = req[h].to
  BY <1>1, NextStep DEF Shapes, RemoveSource, Steps
<1>3. UNCHANGED <<edit, meta, rows, issued, data, made, sameFS, asked, alone, kept, smooth>>
  BY DEF RemoveSource
<1>4. /\ home' \in [Places -> InodesOrNone] /\ bin' \in [Ids -> InodesOrNone]
      /\ \A j \in Ids \ {i} : bin'[j] = bin[j]
      /\ bin'[i] = (IF req[h].op = "delete" THEN bin[i] ELSE 0)
  <2>1. 0 \in InodesOrNone
    BY BoundsAssumption DEF InodesOrNone
  <2> QED
    BY <1>1, <2>1 DEF RemoveSource, SetsSource, MovesOut, StateOK
<1>5. StateOK' /\ Shape(r)
  BY <1>1, <1>2, <1>3, <1>4 DEF StateOK, Shape
<1>6. ASSUME smooth, ItemOK(i)  PROVE ItemOK(i)'
  <2>1. /\ About(r, i) /\ (Unlists(r) <=> req[h].op = "restore") /\ ~Ending(r)
        /\ Brings(r) <=> Brings(req[h])
        /\ Brings(req[h]) <=> req[h].op = "delete"
    BY <1>1, <1>2 DEF About, Unlists, Ending, Brings
  <2>2. /\ i \in issued' /\ rows'[i] = rows[i]
        /\ req[h].op = "delete" => rows'[i] = NoPlace /\ bin'[i] # 0
        /\ req[h].op = "restore" => bin'[i] = 0
    BY <1>1, <1>3, <1>4, <1>6, <2>1 DEF ItemOK, Relies
  <2>3. Relies(r, i)'
    BY <1>1, <1>2, <2>1, <2>2 DEF Relies, About, Unlists, Ending, Brings
  <2> QED
    BY <1>1, <1>2, <1>3, <1>6, <2>1, <2>2, <2>3, ItemTurns
<1>7. ItemsKeep
  BY <1>1, <1>2, <1>3, <1>4, <1>6, OneTurns
<1> QED
  BY <1>2, <1>5, <1>7, ShapesKeep

\* The row of an item is inserted after its file is there.
LEMMA InsertRowTurns ==
  ASSUME Shapes, NEW h \in Handlers, InsertRow(h)
  PROVE  Shapes' /\ ItemsKeep
<1>1. PICK i, p :
        /\ i \in Ids /\ p \in Places /\ StateOK /\ req[h].op = "delete"
        /\ i = req[h].id /\ p = req[h].from /\ About(req[h], i) /\ req[h].step = "row"
        /\ p # NoPlace
  BY StateIsOK, PlacesAssumption DEF Shapes, Shape, InsertRow, At, About
<1>2. /\ rows' = [rows EXCEPT ![i] = p] /\ Ends(h)
      /\ UNCHANGED <<home, edit, bin, meta, issued, data, made, sameFS, asked,
                     alone, kept, smooth>>
  BY <1>1 DEF InsertRow
<1>3. /\ rows' \in [Ids -> PlacesOrNone] /\ rows'[i] # NoPlace
      /\ \A j \in Ids \ {i} : rows'[j] = rows[j]
  BY <1>1, <1>2 DEF StateOK, PlacesOrNone
<1>4. StateOK'
  BY <1>1, <1>2, <1>3 DEF StateOK
<1>5. ASSUME smooth, ItemOK(i)  PROVE ItemOK(i)'
  <2>1. bin[i] # 0
    BY <1>1, <1>5 DEF ItemOK, Relies, Brings
  <2> QED
    BY <1>1, <1>2, <1>3, <1>5, <2>1, IdleShape, ItemTurns DEF Ends, Relies, About
<1>6. ItemsKeep
  BY <1>1, <1>2, <1>3, <1>5, IdleShape, OneTurns DEF Ends
<1> QED
  BY <1>2, <1>4, <1>6, IdleShape, ShapesKeep DEF Ends

\* The row goes when the item is empty.
LEMMA DeleteRowTurns ==
  ASSUME Shapes, NEW h \in Handlers, DeleteRow(h)
  PROVE  Shapes' /\ ItemsKeep
<1>1. PICK i :
        /\ i \in Ids /\ StateOK /\ Shape(req[h]) /\ req[h].op \in {"restore", "purge"}
        /\ i = req[h].id /\ About(req[h], i) /\ req[h].step = "row" /\ Unlists(req[h])
  BY StateIsOK DEF Shapes, Shape, DeleteRow, About, Unlists
<1>2. /\ rows' = [rows EXCEPT ![i] = NoPlace]
      /\ UNCHANGED <<home, edit, bin, meta, issued, data, made, sameFS, asked,
                     alone, kept, smooth>>
  BY <1>1 DEF DeleteRow
<1>3. /\ rows' \in [Ids -> PlacesOrNone] /\ rows'[i] = NoPlace
      /\ \A j \in Ids \ {i} : rows'[j] = rows[j]
  BY <1>1, <1>2 DEF StateOK, PlacesOrNone
<1>4. StateOK'
  BY <1>1, <1>2, <1>3 DEF StateOK
<1>5. PICK r \in Requests :
        /\ Goes(h, r) /\ Shape(r) /\ ~Unlists(r) /\ ~Brings(r)
        /\ r.op = "none" \/ (r.op = req[h].op /\ r.id = i)
  <2>1. CASE Ends(h)
    BY <2>1, IdleShape DEF Ends, Unlists, Brings
  <2>2. CASE req[h].op = "restore" /\ GoesTo(h, "clean")
    <3>1. PICK r \in Requests :
            /\ Goes(h, r) /\ r.step = "clean" /\ r.op = req[h].op /\ r.id = i
            /\ r.from = req[h].from /\ r.to = req[h].to
      BY <1>1, <2>2, NextStep DEF Shapes, Steps
    <3>2. Shape(r) /\ ~Unlists(r) /\ ~Brings(r)
      BY <1>1, <2>2, <3>1 DEF Shape, Unlists, Brings
    <3> QED
      BY <3>1, <3>2
  <2> QED
    BY <2>1, <2>2 DEF DeleteRow
<1>6. ASSUME smooth, ItemOK(i)  PROVE ItemOK(i)'
  <2>1. bin'[i] = 0 /\ i \in issued'
    BY <1>1, <1>2, <1>6 DEF ItemOK, Relies
  <2>2. Relies(r, i)'
    BY <1>1, <1>3, <1>5, <2>1 DEF Relies, About, Unlists, Ending, Brings
  <2> QED
    BY <1>1, <1>2, <1>3, <1>5, <1>6, <2>1, <2>2, ItemTurns
<1>7. ItemsKeep
  BY <1>1, <1>2, <1>3, <1>5, <1>6, OneTurns
<1> QED
  BY <1>4, <1>5, <1>7, ShapesKeep

\* The directory of an item goes after its row.
LEMMA RemoveDirTurns ==
  ASSUME Shapes, NEW h \in Handlers, RemoveDir(h)
  PROVE  Shapes' /\ ItemsKeep
<1>1. PICK i :
        /\ i \in Ids /\ StateOK /\ Shape(req[h]) /\ req[h].op \in {"restore", "purge"}
        /\ i = req[h].id /\ About(req[h], i) /\ req[h].step = "clean" /\ ~Unlists(req[h])
  <2>1. /\ StateOK /\ Shape(req[h]) /\ req[h] \in Requests /\ req[h].step = "clean"
    BY StateIsOK DEF Shapes, FilesTypeOK, RemoveDir
  <2>2. req[h].op \in {"restore", "purge"} /\ req[h].id \in Ids
    BY <2>1 DEF Shape, Requests
  <2> QED
    BY <2>1, <2>2 DEF About, Unlists
<1>2. /\ bin' = [bin EXCEPT ![i] = 0] /\ meta' = meta \ {i}
      /\ UNCHANGED <<home, edit, rows, issued, data, made, sameFS, asked, alone,
                     kept, smooth>>
  BY <1>1 DEF RemoveDir
<1>3. /\ bin' \in [Ids -> InodesOrNone] /\ bin'[i] = 0
      /\ \A j \in Ids \ {i} : bin'[j] = bin[j]
  <2>1. 0 \in InodesOrNone
    BY BoundsAssumption DEF InodesOrNone
  <2> QED
    BY <1>1, <1>2, <2>1 DEF StateOK
<1>4. StateOK'
  BY <1>1, <1>2, <1>3 DEF StateOK
<1>5. CASE req[h].op = "purge"
  <2>1. PICK r \in Requests :
          /\ Goes(h, r) /\ r.step = "row" /\ r.op = req[h].op /\ r.id = i
          /\ r.from = req[h].from /\ r.to = req[h].to
    BY <1>1, <1>5, NextStep DEF Shapes, RemoveDir, Steps
  <2>2. Shape(r) /\ Unlists(r) /\ ~Brings(r) /\ ~Ending(r) /\ About(r, i)
    BY <1>1, <1>5, <2>1 DEF Shape, Unlists, Brings, Ending, About
  <2>3. ASSUME smooth, ItemOK(i)  PROVE ItemOK(i)'
    <3>1. Relies(r, i)'
      BY <1>1, <1>2, <1>3, <1>5, <2>1, <2>2, <2>3
      DEF ItemOK, Relies, About, Unlists, Ending, Brings
    <3> QED
      BY <1>1, <1>2, <1>3, <2>1, <2>2, <2>3, <3>1, ItemTurns
  <2>4. ItemsKeep
    BY <1>1, <1>2, <1>3, <2>1, <2>3, OneTurns
  <2> QED
    BY <1>4, <2>1, <2>2, <2>4, ShapesKeep
<1>6. CASE req[h].op = "restore"
  <2>1. Ends(h)
    BY <1>6 DEF RemoveDir
  <2>2. ASSUME smooth, ItemOK(i)  PROVE ItemOK(i)'
    <3>1. bin[i] = 0
      BY <1>1, <1>6, <2>2 DEF ItemOK, Relies, Ending
    <3> QED
      BY <1>1, <1>2, <1>3, <2>1, <2>2, <3>1, IdleShape, ItemTurns DEF Ends, Relies, About
  <2>3. ItemsKeep
    BY <1>1, <1>2, <1>3, <2>1, <2>2, IdleShape, OneTurns DEF Ends
  <2> QED
    BY <1>4, <2>1, <2>3, IdleShape, ShapesKeep DEF Ends
<1> QED
  BY <1>1, <1>5, <1>6

\* A save leaves the trash alone.
LEMMA SaveTurns ==
  ASSUME Shapes, NEW h \in Handlers,
         OpenEdit(h) \/ WritePart(h) \/ SaveFails(h) \/ Replace(h)
  PROVE  Shapes' /\ ItemsKeep
<1>1. /\ StateOK /\ req[h] \in Requests /\ Shape(req[h]) /\ req[h].op = "save"
      /\ req[h].from \in Places /\ (req[h].step = "write" => req[h].fd \in Inodes)
      /\ 0 \in InodesOrNone /\ Blank \in [1..Parts -> Versions]
  <2>1. 0 \in InodesOrNone /\ Blank \in [1..Parts -> Versions]
    BY BoundsAssumption DEF InodesOrNone, Blank, Content, Versions
  <2> QED
    BY <2>1, StateIsOK DEF Shapes, FilesTypeOK, Shape, OpenEdit, WritePart, SaveFails,
      Replace, MayReplace, At
<1>2. UNCHANGED <<bin, rows, issued, meta, sameFS, asked, alone, smooth>>
  BY DEF OpenEdit, WritePart, SaveFails, Replace, trashVars
<1>3. CASE OpenEdit(h)
  <2>1. PICK m \in Inodes :
          /\ Goes(h, [req[h] EXCEPT !.step = "write", !.fd = m])
          /\ made' \in InodesOrNone /\ edit' \in [Places -> InodesOrNone]
          /\ data' = [data EXCEPT ![m] = Blank] /\ UNCHANGED <<home, kept>>
    <3>1. CASE edit[req[h].from] # 0
      <4>1. edit[req[h].from] \in Inodes
        BY <1>1, <3>1 DEF StateOK, Inodes, InodesOrNone
      <4> QED
        BY <1>1, <1>3, <3>1, <4>1 DEF OpenEdit, StateOK
    <3>2. CASE edit[req[h].from] = 0
      <4>1. PICK m : m = made'
        OBVIOUS
      <4>2. made < MaxInodes /\ m = made + 1
        BY <1>3, <3>2, <4>1 DEF OpenEdit
      <4>3. m \in Inodes /\ m \in InodesOrNone
        BY <1>1, <4>2, BoundsAssumption DEF StateOK, Inodes, InodesOrNone
      <4>4. /\ edit' = [edit EXCEPT ![req[h].from] = m]
            /\ data' = [data EXCEPT ![m] = Blank]
            /\ Goes(h, [req[h] EXCEPT !.step = "write", !.fd = m])
            /\ UNCHANGED <<home, kept>>
        BY <1>3, <3>2, <4>1 DEF OpenEdit
      <4>5. edit' \in [Places -> InodesOrNone]
        BY <1>1, <4>3, <4>4 DEF StateOK
      <4> QED
        BY <4>1, <4>3, <4>4, <4>5
    <3> QED
      BY <3>1, <3>2
  <2>2. PICK r : r = [req[h] EXCEPT !.step = "write", !.fd = m]
    OBVIOUS
  <2>3. /\ r \in Requests /\ r.op = "save" /\ r.step = "write" /\ r.fd = m
        /\ r.from = req[h].from
    <3>1. m \in InodesOrNone
      BY BoundsAssumption DEF Inodes, InodesOrNone
    <3> QED
      BY <1>1, <2>2, <3>1 DEF Requests, Steps
  <2>4. Shape(r)
    BY <1>1, <2>3 DEF Shape
  <2>5. StateOK'
    BY <1>1, <1>2, <2>1 DEF StateOK
  <2> QED
    BY <1>1, <1>2, <2>1, <2>2, <2>3, <2>4, <2>5, ShapesKeep, NoneNotices
<1>4. CASE WritePart(h)
  <2>1. PICK r : r = [req[h] EXCEPT !.pos = @ + 1]
    OBVIOUS
  <2>2. /\ req[h].step = "write" /\ req[h].pos < Parts /\ req[h].pos \in 0..Parts
        /\ req[h].fd \in Inodes /\ req[h].ver \in Versions /\ Parts \in Nat
    BY <1>1, <1>4, BoundsAssumption DEF WritePart, HasMore, At, Requests
  <2>3. r \in Requests /\ r.op = "save" /\ r.step = "write" /\ r.fd = req[h].fd
        /\ r.from = req[h].from
    BY <1>1, <2>1, <2>2 DEF Requests
  <2>4. Goes(h, r) /\ Shape(r)
    BY <1>1, <1>4, <2>1, <2>2, <2>3 DEF WritePart, Goes, Shape
  <2>5. PICK n, k, v :
          /\ n \in Inodes /\ k \in 1..Parts /\ v \in Versions
          /\ data' = [data EXCEPT ![n][k] = v]
    <3>1. data' = [data EXCEPT ![req[h].fd][req[h].pos + 1] = req[h].ver]
      BY <1>4 DEF WritePart
    <3>2. req[h].pos + 1 \in 1..Parts
      BY <2>2
    <3> QED
      BY <2>2, <3>1, <3>2
  <2>6. data' \in [Inodes -> [1..Parts -> Versions]]
    BY <1>1, <2>5 DEF StateOK
  <2>7. StateOK'
    BY <1>1, <1>2, <1>4, <2>6 DEF WritePart, StateOK
  <2> QED
    BY <1>1, <1>2, <2>3, <2>4, <2>7, ShapesKeep, NoneNotices
<1>5. CASE SaveFails(h) \/ Replace(h)
  <2>1. Ends(h)
    BY <1>5 DEF SaveFails, Replace
  <2>2. req[h].ver \in Versions
    BY <1>1 DEF Requests
  <2>3. StateOK'
    BY <1>1, <1>2, <1>5, <2>2 DEF SaveFails, Replace, StateOK
  <2> QED
    BY <1>1, <1>2, <2>1, <2>3, IdleShape, ShapesKeep, NoneNotices DEF Ends
<1> QED
  BY <1>3, <1>4, <1>5

\* A failure, after which nothing is asked of the trash.
LEMMA FailureTurns ==
  ASSUME Shapes, Crash \/ \E h \in Handlers : CopyFails(h) \/ Fails(h)
  PROVE  Shapes' /\ ~smooth'
<1>1. CASE Crash
  <2>1. StateOK' /\ req' = [h \in Handlers |-> Idle]
    BY <1>1, StateIsOK DEF Shapes, Crash, StateOK, trashVars
  <2>2. req' \in [Handlers -> Requests] /\ \A h \in Handlers : req'[h] = Idle
    BY <2>1, IdleShape
  <2>3. \A h \in Handlers : Shape(req'[h])
    BY <2>2, IdleShape
  <2>4. Shapes' <=> FilesTypeOK' /\ \A g \in Handlers : Shape(req'[g])
    BY DEF Shapes, Shape
  <2> QED
    BY <1>1, <2>1, <2>2, <2>3, <2>4 DEF FilesTypeOK, StateOK, Crash
<1>2. ASSUME NEW h \in Handlers, CopyFails(h)  PROVE Shapes' /\ ~smooth'
  <2>1. /\ StateOK /\ req[h].id \in Ids /\ (~MovesOut(h) => req[h].to \in Places)
        /\ 0 \in InodesOrNone
    <3>1. 0 \in InodesOrNone
      BY BoundsAssumption DEF InodesOrNone
    <3> QED
      BY <1>2, <3>1, Moving DEF CopyFails, MovesOut
  <2>2. home' \in [Places -> InodesOrNone] /\ bin' \in [Ids -> InodesOrNone]
    BY <1>2, <2>1 DEF CopyFails, SetsTarget, StateOK
  <2>3. StateOK' /\ Ends(h) /\ ~smooth'
    BY <1>2, <2>1, <2>2 DEF CopyFails, StateOK
  <2> QED
    BY <2>3, IdleShape, ShapesKeep DEF Ends
<1>3. ASSUME NEW h \in Handlers, Fails(h)  PROVE Shapes' /\ ~smooth'
  <2>1. StateOK' /\ Ends(h) /\ ~smooth'
    BY <1>3, StateIsOK DEF Shapes, Fails, StateOK, trashVars
  <2> QED
    BY <2>1, IdleShape, ShapesKeep DEF Ends
<1> QED
  BY <1>1, <1>2, <1>3

-----------------------------------------------------------------------------
(* The trash and its list *)

\* The trash is empty at the start.
LEMMA TrashInvInit == FilesInit => TrashInv
<1> SUFFICES ASSUME FilesInit  PROVE TrashInv
  OBVIOUS
<1>1. FilesTypeOK /\ \A h \in Handlers : req[h] = Idle
  BY InitIsRight DEF FilesInit, FilesInv
<1>2. Shapes
  BY <1>1, IdleShape DEF Shapes
<1>3. ASSUME NEW i \in Ids  PROVE ItemOK(i)
  BY <1>1, IdleShape DEF FilesInit, ItemOK, DeletesAlone, Seen, Relies, About
<1> QED
  BY <1>2, <1>3 DEF TrashInv

\* Every step keeps the invariant of the trash.
LEMMA TrashInvStep == TrashInv /\ [FilesNext]_fileVars => TrashInv'
<1> SUFFICES ASSUME TrashInv, [FilesNext]_fileVars  PROVE TrashInv'
  OBVIOUS
<1>1. CASE UNCHANGED fileVars
  BY <1>1 DEF fileVars, trashVars, TrashInv, Shapes, FilesTypeOK, Shape, ItemOK,
    DeletesAlone, Seen, Relies, About, Unlists, Brings, Ending
<1>2. CASE Crash \/ \E h \in Handlers : CopyFails(h) \/ Fails(h)
  BY <1>2, FailureTurns DEF TrashInv
<1>3. ASSUME NEW h \in Handlers, Ask(h) \/ Works(h), ~CopyFails(h)
      PROVE  TrashInv'
  <2>1. Shapes' /\ ItemsKeep
    BY <1>3, AskHomeTurns, AskDeleteTurns, AskTrashTurns, MoveInHomeTurns, WriteMetaTurns,
      FindPlaceTurns, RenameTurns, CopyCreateTurns, CopyDataTurns, RemoveSourceTurns,
      InsertRowTurns, DeleteRowTurns, RemoveDirTurns, SaveTurns DEF TrashInv, Ask, Works
  <2>2. smooth' = smooth
    BY <1>3 DEF Ask, AskMove, AskDelete, AskRestore, AskPurge, AskSave, Works, MoveInHome,
      WriteMeta, FindPlace, Rename, CopyCreate, CopyData, RemoveSource, InsertRow,
      DeleteRow, RemoveDir, OpenEdit, WritePart, SaveFails, Replace
  <2>3. ASSUME smooth', NEW i \in Ids  PROVE ItemOK(i)'
    BY <2>1, <2>2, <2>3 DEF TrashInv, ItemsKeep
  <2> QED
    BY <2>1, <2>3 DEF TrashInv
<1> QED
  BY <1>1, <1>2, <1>3 DEF FilesNext

\* What the state holds of files, trash items and requests has its type, however
\* requests overlap, calls fail and the process stops.
THEOREM FilesTypeCorrect == FilesSpec => []FilesTypeOK
<1>1. TrashInv => FilesTypeOK
  BY DEF TrashInv, Shapes
<1> QED
  BY <1>1, TrashInvInit, TrashInvStep, PTL DEF FilesSpec

\* As long as no call fails, the trash lists exactly what is in it whenever no
\* request is under way, however deletions, restores and purges of the same items
\* have overlapped (DeleteToTrash, RestoreTrash and PermanentlyDeleteTrash with
\* their rows in trash_items).
THEOREM TrashListed == FilesSpec => []TrashListsFiles
<1>1. TrashInv => TrashListsFiles
  BY DEF TrashInv, Shapes, Shape, ItemOK, Seen, About, TrashListsFiles
<1> QED
  BY <1>1, TrashInvInit, TrashInvStep, PTL DEF FilesSpec

-----------------------------------------------------------------------------
(* Streams *)

\* How often the channel of a stream has been closed follows from where its
\* goroutine is, and from whether the set still has it: a channel in the set is
\* open, one that has left the set has been closed by the end of its stream or
\* by Shutdown.
ClosedBy ==
  \A r \in Streams :
    /\ stream[r] \in {"none", "asked"} => closes[r] = 0
    /\ stream[r] \in {"open", "leaving"} =>
         \/ r \in eventsSubs /\ closes[r] = 0
         \/ r \notin eventsSubs /\ closes[r] = 1 /\ server # "serving"
    /\ stream[r] = "ended" =>
         /\ closes[r] = 2 => server # "serving"
         /\ server # "stopped" => r \notin eventsSubs

Kinds ==
  /\ stream \in [Streams -> {"none", "asked", "open", "leaving", "ended"}]
  /\ closes \in [Streams -> Nat]
  /\ eventsSubs \subseteq {r \in Streams : stream[r] \notin {"none", "asked"}}

ChannelInv == Kinds /\ ClosedBy /\ ~panicked

\* At the start there are no channels.
LEMMA ChannelInvInit == EventsInit => ChannelInv
BY DEF EventsInit, ChannelInv, Kinds, ClosedBy

\* A stream that is asked for or subscribed keeps them right.
LEMMA OpeningKeeps ==
  ASSUME ChannelInv, NEW r \in Streams, Accept(r) \/ Subscribe(r)
  PROVE  ChannelInv'
<1> USE DEF ChannelInv
<1>1. Kinds'
  BY DEF Kinds, Accept, Subscribe, history
<1>2. ClosedBy'
  BY DEF Kinds, ClosedBy, Accept, Subscribe, history
<1>3. ~panicked'
  BY DEF Accept, Subscribe, history
<1> QED
  BY <1>1, <1>2, <1>3

\* A delivery, and a handler that returns.
LEMMA LeavingKeeps ==
  ASSUME ChannelInv, NEW r \in Streams,
         Deliver(r) \/ Returns(r, TRUE) \/ Returns(r, FALSE) \/ Unsubscribe(r)
  PROVE  ChannelInv'
<1> USE DEF ChannelInv, history
<1>1. CASE Deliver(r)
  BY <1>1 DEF Deliver, Kinds, ClosedBy
<1>2. CASE Returns(r, TRUE) \/ Returns(r, FALSE)
  BY <1>2 DEF Returns, Kinds, ClosedBy
<1>3. CASE Unsubscribe(r)
  <2>1. Kinds'
    BY <1>3 DEF Unsubscribe, Kinds, WithoutStream
  <2>2. ClosedBy'
    BY <1>3 DEF Unsubscribe, Kinds, ClosedBy, WithoutStream
  <2> QED
    BY <1>3, <2>1, <2>2 DEF Unsubscribe
<1> QED
  BY <1>1, <1>2, <1>3

\* An event only goes to channels in the set, none of which is closed.
LEMMA PublishKeeps ==
  ASSUME ChannelInv, Publish PROVE ChannelInv'
<1> USE DEF ChannelInv
<1>1. Kinds' /\ ClosedBy'
  BY DEF Publish, Kinds, ClosedBy
<1>2. \A r \in eventsSubs : ~(closes[r] > 0)
  BY DEF Publish, Kinds, ClosedBy
<1>3. ~panicked'
  BY <1>2 DEF Publish
<1> QED
  BY <1>1, <1>3

\* The server that shuts down: streams closed, drained, cut off.
LEMMA ServerKeeps ==
  ASSUME ChannelInv,
         CloseAllSubscriptions \/ StopListening \/ Drained \/ CutOff
  PROVE  ChannelInv'
<1> USE DEF ChannelInv, history
<1>1. CASE CloseAllSubscriptions
  <2>1. Kinds'
    BY <1>1 DEF CloseAllSubscriptions, ClosesAll, Kinds
  <2>2. ClosedBy'
    BY <1>1 DEF CloseAllSubscriptions, ClosesAll, Kinds, ClosedBy
  <2> QED
    BY <1>1, <2>1, <2>2 DEF CloseAllSubscriptions
<1>2. CASE StopListening
  BY <1>2 DEF StopListening, Kinds, ClosedBy
<1>3. CASE Drained
  BY <1>3 DEF Drained, Kinds, ClosedBy, Busy
<1>4. CASE CutOff
  <2>1. Kinds'
    BY <1>4 DEF CutOff, Kinds, Busy
  <2>2. ClosedBy'
    BY <1>4 DEF CutOff, Kinds, ClosedBy, Busy
  <2> QED
    BY <1>4, <2>1, <2>2 DEF CutOff
<1> QED
  BY <1>1, <1>2, <1>3, <1>4

\* Every step keeps the channels right.
LEMMA ChannelInvStep == ChannelInv /\ [EventsNext]_eventVars => ChannelInv'
<1> SUFFICES ASSUME ChannelInv, [EventsNext]_eventVars PROVE ChannelInv'
  OBVIOUS
<1>1. CASE UNCHANGED eventVars
  BY <1>1 DEF eventVars, history, ChannelInv, Kinds, ClosedBy
<1>2. CASE Publish
  BY <1>2, PublishKeeps
<1>3. CASE CloseAllSubscriptions \/ StopListening \/ Drained \/ CutOff
  BY <1>3, ServerKeeps
<1>4. CASE \E r \in Streams : Accept(r) \/ Returns(r, TRUE) \/ Stream(r)
  BY <1>4, OpeningKeeps, LeavingKeeps DEF Stream
<1> QED
  BY <1>1, <1>2, <1>3, <1>4 DEF EventsNext

\* For any number of streams and events, no event is sent to a closed channel,
\* and only Shutdown makes a channel be closed twice (publishEvent,
\* unsubscribeEvents and closeAllSubscriptions).
THEOREM ChannelsSafe == EventsSpec => []ChannelsRight
<1>1. EventsSpec => EventsInit /\ [][EventsNext]_eventVars
  BY PTL DEF EventsSpec
<1>2. ChannelInv => ChannelsRight
  BY DEF ChannelInv, Kinds, ClosedBy, ChannelsRight
<1> QED
  BY <1>1, <1>2, ChannelInvInit, ChannelInvStep, PTL

-----------------------------------------------------------------------------
(* What a client receives *)

\* A stream's events: those its client has, and those waiting in its channel.
Ascending(s) == \A j, k \in 1..Len(s) : j < k => s[j] < s[k]
UpTo(s, n) == \A k \in 1..Len(s) : s[k] <= n

\* An event that is newer than all others keeps them ascending.
LEMMA Newest ==
  ASSUME NEW s \in Seq(Nat), NEW n \in Nat, Ascending(s), UpTo(s, n)
  PROVE  LET t == Append(s, n + 1) IN
         t \in Seq(Nat) /\ Ascending(t) /\ UpTo(t, n + 1) /\ Range(t) = Range(s) \cup {n + 1}
<1>1. PICK t : t = Append(s, n + 1)
  OBVIOUS
<1>2. /\ t \in Seq(Nat) /\ Len(t) = Len(s) + 1 /\ Len(s) \in Nat
      /\ \A k \in 1..Len(s) : t[k] = s[k] /\ s[k] \in Nat
      /\ t[Len(s) + 1] = n + 1
  BY <1>1, AppendProperties, LenProperties, ElementOfSeq
<1>3. \A k \in 1..Len(t) : k \in 1..Len(s) \/ k = Len(s) + 1
  BY <1>2
<1>4. Ascending(t) /\ UpTo(t, n + 1)
  <2>1. \A k \in 1..Len(s) : t[k] \in Nat /\ t[k] < n + 1
    BY <1>2 DEF UpTo
  <2>2. UpTo(t, n + 1)
    BY <1>2, <1>3, <2>1 DEF UpTo
  <2>3. ASSUME NEW j \in 1..Len(t), NEW k \in 1..Len(t), j < k  PROVE t[j] < t[k]
    <3>1. j \in 1..Len(s)
      BY <1>2, <2>3
    <3>2. CASE k \in 1..Len(s)
      BY <1>2, <2>3, <3>1, <3>2 DEF Ascending
    <3>3. CASE k = Len(s) + 1
      BY <1>2, <2>1, <3>1, <3>3
    <3> QED
      BY <1>3, <3>2, <3>3
  <2> QED
    BY <2>2, <2>3 DEF Ascending
<1>5. Range(t) = Range(s) \cup {n + 1}
  <2>1. Range(t) = {t[k] : k \in 1..Len(t)} /\ Range(s) = {s[k] : k \in 1..Len(s)}
    BY <1>2, RangeEquality
  <2>2. Len(s) + 1 \in 1..Len(t) /\ \A k \in 1..Len(s) : k \in 1..Len(t)
    BY <1>2
  <2> QED
    BY <1>2, <1>3, <2>1, <2>2
<1> QED
  BY <1>1, <1>2, <1>4, <1>5

\* Putting an event into the channel puts it behind all of the stream's events.
LEMMA AppendBehind ==
  ASSUME NEW g \in Seq(Nat), NEW c \in Seq(Nat), NEW e \in Nat
  PROVE  g \o Append(c, e) = Append(g \o c, e)
<1>1. <<e>> \in Seq(Nat) /\ g \o c \in Seq(Nat)
  BY ConcatProperties
<1>2. Append(c, e) = c \o <<e>> /\ Append(g \o c, e) = (g \o c) \o <<e>>
  BY <1>1, AppendIsConcat
<1> QED
  BY <1>1, <1>2, ConcatAssociative

\* Handing the first event of the channel to the client changes nothing of them.
LEMMA HeadMoves ==
  ASSUME NEW g \in Seq(Nat), NEW c \in Seq(Nat), c # <<>>
  PROVE  /\ Append(g, Head(c)) \in Seq(Nat) /\ Tail(c) \in Seq(Nat)
         /\ Append(g, Head(c)) \o Tail(c) = g \o c
<1>1. PICK a, b : a = Append(g, Head(c)) /\ b = Tail(c)
  OBVIOUS
<1>2. /\ Head(c) \in Nat /\ b \in Seq(Nat) /\ Len(b) = Len(c) - 1 /\ Head(c) = c[1]
      /\ \A k \in 1..Len(b) : b[k] = c[k + 1]
  BY <1>1, HeadTailProperties
<1>3. /\ a \in Seq(Nat) /\ Len(a) = Len(g) + 1 /\ a[Len(g) + 1] = c[1]
      /\ \A k \in 1..Len(g) : a[k] = g[k]
  BY <1>1, <1>2, AppendProperties
<1>4. Len(g) \in Nat /\ Len(c) \in Nat \ {0}
  BY LenProperties, EmptySeq
<1>5. /\ a \o b \in Seq(Nat) /\ Len(a \o b) = Len(a) + Len(b)
      /\ \A k \in 1..Len(a) + Len(b) :
           (a \o b)[k] = IF k <= Len(a) THEN a[k] ELSE b[k - Len(a)]
  BY <1>2, <1>3, ConcatProperties
<1>6. /\ g \o c \in Seq(Nat) /\ Len(g \o c) = Len(g) + Len(c)
      /\ \A k \in 1..Len(g) + Len(c) :
           (g \o c)[k] = IF k <= Len(g) THEN g[k] ELSE c[k - Len(g)]
  BY ConcatProperties
<1>7. PICK m, l : m = Len(g) /\ l = Len(c) /\ Len(a) = m + 1 /\ Len(b) = l - 1
                   /\ m \in Nat /\ l \in Nat \ {0}
  BY <1>2, <1>3, <1>4
<1>8. ASSUME NEW k \in 1..(m + l)  PROVE (a \o b)[k] = (g \o c)[k]
  <2>1. /\ (a \o b)[k] = IF k <= m + 1 THEN a[k] ELSE b[k - (m + 1)]
        /\ (g \o c)[k] = IF k <= m THEN g[k] ELSE c[k - m]
    <3>1. k \in 1..(Len(a) + Len(b)) /\ k \in 1..(Len(g) + Len(c))
      BY <1>7
    <3> QED
      BY <1>5, <1>6, <1>7, <3>1
  <2>2. CASE k <= m
    <3>1. k <= m + 1 /\ k \in 1..Len(g)
      BY <1>7, <2>2
    <3> QED
      BY <1>3, <2>1, <2>2, <3>1
  <2>3. CASE k = m + 1
    <3>1. ~(k <= m) /\ k <= m + 1 /\ k - m = 1 /\ k = Len(g) + 1
      BY <1>7, <2>3
    <3> QED
      BY <1>3, <2>1, <3>1
  <2>4. CASE k > m + 1
    <3>1. PICK d : d = k - (m + 1)
      OBVIOUS
    <3>2. ~(k <= m) /\ ~(k <= m + 1) /\ d \in 1..Len(b) /\ d + 1 = k - m
      BY <1>7, <2>4, <3>1
    <3>3. b[d] = c[d + 1]
      BY <1>2, <3>2
    <3> QED
      BY <2>1, <3>1, <3>2, <3>3
  <2> QED
    BY <1>7, <2>2, <2>3, <2>4
<1>9. a \o b = g \o c
  <2>1. Len(a \o b) = m + l /\ Len(g \o c) = m + l
    BY <1>5, <1>6, <1>7
  <2> QED
    BY <1>5, <1>6, <1>8, <2>1, SeqEqual
<1> QED
  BY <1>1, <1>2, <1>3, <1>9

Received(r) == got[r] \o channel[r]

OrderTypes ==
  /\ events \in Nat /\ got \in [Streams -> Seq(Nat)] /\ channel \in [Streams -> Seq(Nat)]
  /\ since \in [Streams -> Nat] /\ dropped \in [Streams -> SUBSET Nat]

\* The events of a stream ascend up to the last one there was, and as long as
\* its channel is in the set they are all since it subscribed, but for those
\* that were dropped.
InOrder(r) ==
  /\ Ascending(Received(r)) /\ UpTo(Received(r), events)
  /\ since[r] <= events
  /\ stream[r] \in {"none", "asked"} =>
       got[r] = <<>> /\ channel[r] = <<>> /\ dropped[r] = {}
  /\ stream[r] = "open" /\ r \in eventsSubs =>
       Range(Received(r)) \cup dropped[r] = (since[r] + 1)..events

OrderInv == ChannelInv /\ OrderTypes /\ \A r \in Streams : InOrder(r)

\* At the start nothing has been received.
LEMMA OrderInvInit == EventsInit => OrderInv
<1> SUFFICES ASSUME EventsInit  PROVE OrderInv
  OBVIOUS
<1>1. ChannelInv
  BY ChannelInvInit
<1>2. OrderTypes
  BY DEF EventsInit, OrderTypes
<1>3. ASSUME NEW r \in Streams  PROVE InOrder(r)
  <2>1. Received(r) = <<>>
    BY ConcatEmptySeq DEF Received, EventsInit
  <2> QED
    BY <2>1 DEF EventsInit, InOrder, Ascending, UpTo
<1> QED
  BY <1>1, <1>2, <1>3 DEF OrderInv

\* A step in which the stream's events stay, and it does not begin to listen.
LEMMA OrderStays ==
  ASSUME OrderInv, NEW r \in Streams, Received(r)' = Received(r),
         UNCHANGED <<since[r], dropped[r], events>>,
         stream'[r] = stream[r] \/ stream'[r] \notin {"none", "open"},
         stream'[r] \in {"none", "asked"} =>
           stream[r] \in {"none", "asked"} /\ got'[r] = got[r] /\ channel'[r] = channel[r],
         r \in eventsSubs' => r \in eventsSubs
  PROVE  InOrder(r)'
BY DEF OrderInv, InOrder, Ascending, UpTo

\* A subscription starts with nothing received.
LEMMA SubscribeKeepsOrder ==
  ASSUME OrderInv, NEW r \in Streams, Subscribe(r)
  PROVE  OrderTypes' /\ \A s \in Streams : InOrder(s)'
<1>1. OrderTypes'
  BY DEF OrderInv, OrderTypes, Subscribe
<1>2. stream \in [Streams -> {"none", "asked", "open", "leaving", "ended"}]
  BY DEF OrderInv, ChannelInv, Kinds
<1>3. ASSUME NEW s \in Streams \ {r}  PROVE InOrder(s)'
  BY <1>2, OrderStays DEF OrderInv, OrderTypes, Subscribe, Received
<1>4. InOrder(r)'
  <2>1. got[r] = <<>> /\ channel[r] = <<>> /\ dropped[r] = {} /\ events \in Nat
    BY DEF OrderInv, OrderTypes, InOrder, Subscribe
  <2>2. /\ UNCHANGED <<got, channel, dropped, events>> /\ since'[r] = events
        /\ stream'[r] = "open"
    BY <1>2 DEF OrderInv, OrderTypes, Subscribe
  <2>3. Received(r)' = <<>>
    BY <2>1, <2>2, ConcatEmptySeq DEF Received
  <2>4. Range(<<>>) = {} /\ (events + 1)..events = {}
    BY <2>1 DEF Range
  <2> QED
    BY <2>1, <2>2, <2>3, <2>4 DEF InOrder, Ascending, UpTo
<1> QED
  BY <1>1, <1>3, <1>4

\* A delivery takes the oldest event from the channel.
LEMMA DeliverKeepsOrder ==
  ASSUME OrderInv, NEW r \in Streams, Deliver(r)
  PROVE  OrderTypes' /\ \A s \in Streams : InOrder(s)'
<1>1. /\ got[r] \in Seq(Nat) /\ channel[r] \in Seq(Nat) /\ channel[r] # <<>>
      /\ stream[r] = "open"
      /\ got' = [got EXCEPT ![r] = Append(got[r], Head(channel[r]))]
      /\ channel' = [channel EXCEPT ![r] = Tail(channel[r])]
      /\ UNCHANGED <<eventsSubs, stream, events, since, dropped>>
  BY DEF OrderInv, OrderTypes, Deliver, Rest, history
<1>2. /\ Append(got[r], Head(channel[r])) \in Seq(Nat) /\ Tail(channel[r]) \in Seq(Nat)
      /\ Append(got[r], Head(channel[r])) \o Tail(channel[r]) = Received(r)
  BY <1>1, HeadMoves DEF Received
<1>3. OrderTypes'
  BY <1>1, <1>2 DEF OrderInv, OrderTypes
<1>4. ASSUME NEW s \in Streams  PROVE InOrder(s)'
  <2>1. Received(s)' = Received(s)
    BY <1>1, <1>2 DEF OrderInv, OrderTypes, Received
  <2>2. s # r => got'[s] = got[s] /\ channel'[s] = channel[s]
    BY <1>1 DEF OrderInv, OrderTypes
  <2> QED
    BY <1>1, <2>1, <2>2, OrderStays
<1> QED
  BY <1>3, <1>4

\* An event goes behind the others, or is remembered as dropped.
LEMMA PublishKeepsOrder ==
  ASSUME OrderInv, Publish
  PROVE  OrderTypes' /\ \A s \in Streams : InOrder(s)'
<1>1. PICK e : e = events + 1
  OBVIOUS
<1>2. /\ events \in Nat /\ e \in Nat /\ events' = e
      /\ UNCHANGED <<eventsSubs, stream, got, since>>
      /\ channel' = [s \in Streams |-> IF s \in eventsSubs /\ Fits(s)
                                         THEN Append(channel[s], e) ELSE channel[s]]
      /\ dropped' = [s \in Streams |-> IF s \in eventsSubs /\ ~Fits(s)
                                         THEN dropped[s] \cup {e} ELSE dropped[s]]
  BY <1>1 DEF OrderInv, OrderTypes, Publish
<1>3. /\ got \in [Streams -> Seq(Nat)] /\ channel \in [Streams -> Seq(Nat)]
      /\ dropped \in [Streams -> SUBSET Nat] /\ since \in [Streams -> Nat]
  BY DEF OrderInv, OrderTypes
<1>4. OrderTypes'
  <2>1. \A s \in Streams : Append(channel[s], e) \in Seq(Nat)
    BY <1>2, <1>3, AppendProperties
  <2>2. channel' \in [Streams -> Seq(Nat)] /\ dropped' \in [Streams -> SUBSET Nat]
    BY <1>2, <1>3, <2>1
  <2> QED
    BY <1>2, <1>3, <2>2 DEF OrderTypes
<1>5. ASSUME NEW s \in Streams  PROVE InOrder(s)'
  <2>1. /\ InOrder(s) /\ Received(s) \in Seq(Nat) /\ since[s] \in Nat /\ since[s] <= events
        /\ dropped[s] \subseteq Nat
    BY <1>3, ConcatProperties DEF OrderInv, InOrder, Received
  <2>2. (since[s] + 1)..e = ((since[s] + 1)..events) \cup {e}
    BY <1>1, <1>2, <2>1
  <2>3. CASE s \in eventsSubs /\ Fits(s)
    <3>1. channel'[s] = Append(channel[s], e) /\ dropped'[s] = dropped[s]
      BY <1>2, <2>3
    <3>2. Received(s)' = Append(Received(s), e)
      BY <1>2, <1>3, <3>1, AppendBehind DEF Received
    <3>3. /\ Ascending(Received(s)) /\ UpTo(Received(s), events)
      BY <2>1 DEF InOrder
    <3>4. PICK t : t = Append(Received(s), e)
      OBVIOUS
    <3>5. Ascending(t) /\ UpTo(t, e) /\ Range(t) = Range(Received(s)) \cup {e}
      BY <1>1, <1>2, <2>1, <3>3, <3>4, Newest
    <3>6. stream[s] \notin {"none", "asked"}
      BY <2>3 DEF OrderInv, ChannelInv, Kinds
    <3>7. Ascending(Received(s))' /\ UpTo(Received(s), events)'
      <4>1. Received(s)' = t /\ events' = e
        BY <1>2, <3>2, <3>4
      <4>2. Ascending(Received(s))'
        BY <3>5, <4>1 DEF Ascending
      <4>3. UpTo(Received(s), events)'
        BY <3>5, <4>1 DEF UpTo
      <4> QED
        BY <4>2, <4>3
    <3>8. stream[s] = "open" => Range(Received(s)') \cup dropped'[s] = (since[s] + 1)..e
      BY <2>1, <2>2, <2>3, <3>1, <3>2, <3>4, <3>5 DEF InOrder
    <3>9. Range(Received(s))' = Range(Received(s)')
      BY DEF Range
    <3> QED
      BY <1>1, <1>2, <2>1, <3>6, <3>7, <3>8, <3>9 DEF InOrder
  <2>4. CASE ~(s \in eventsSubs /\ Fits(s))
    <3>1. channel'[s] = channel[s] /\ Received(s)' = Received(s)
      BY <1>2, <2>4 DEF Received
    <3>2. dropped'[s] = (IF s \in eventsSubs THEN dropped[s] \cup {e} ELSE dropped[s])
      BY <1>2, <2>4
    <3>3. stream[s] \in {"none", "asked"} => s \notin eventsSubs
      BY DEF OrderInv, ChannelInv, Kinds
    <3>4. \A k \in 1..Len(Received(s)) : Received(s)[k] \in Nat
      BY <2>1, ElementOfSeq
    <3>5. Ascending(Received(s))' /\ UpTo(Received(s), events)'
      BY <1>1, <1>2, <2>1, <3>1, <3>4 DEF InOrder, Ascending, UpTo
    <3>6. stream[s] = "open" /\ s \in eventsSubs =>
            Range(Received(s)) \cup dropped'[s] = (since[s] + 1)..e
      BY <2>1, <2>2, <3>2 DEF InOrder
    <3>7. Range(Received(s))' = Range(Received(s))
      BY <3>1 DEF Range
    <3> QED
      BY <1>1, <1>2, <2>1, <3>1, <3>2, <3>3, <3>5, <3>6, <3>7 DEF InOrder
  <2> QED
    BY <2>3, <2>4
<1> QED
  BY <1>4, <1>5

\* Opening and leaving a stream, and the end of the server.
LEMMA OthersKeepOrder ==
  ASSUME OrderInv,
         \/ CloseAllSubscriptions \/ StopListening \/ Drained \/ CutOff
         \/ \E r \in Streams : \/ Accept(r) \/ Returns(r, TRUE) \/ Returns(r, FALSE)
                               \/ Unsubscribe(r)
  PROVE  OrderTypes' /\ \A s \in Streams : InOrder(s)'
<1>1. /\ UNCHANGED <<channel, got, events, since, dropped>>
      /\ eventsSubs' \subseteq eventsSubs
  BY DEF CloseAllSubscriptions, StopListening, Drained, CutOff, Accept, Returns,
    Unsubscribe, WithoutStream, history
<1>2. OrderTypes'
  BY <1>1 DEF OrderInv, OrderTypes
<1>3. ASSUME NEW s \in Streams
      PROVE  \/ stream'[s] = stream[s]
             \/ stream[s] = "none" /\ stream'[s] = "asked"
             \/ stream'[s] \in {"leaving", "ended"}
  BY DEF OrderInv, ChannelInv, Kinds, CloseAllSubscriptions, StopListening, Drained,
    CutOff, Accept, Returns, Unsubscribe, history
<1>4. ASSUME NEW s \in Streams  PROVE InOrder(s)'
  BY <1>1, <1>3, OrderStays DEF Received
<1> QED
  BY <1>2, <1>4

\* Every step keeps the order.
LEMMA OrderInvStep == OrderInv /\ [EventsNext]_eventVars => OrderInv'
<1> SUFFICES ASSUME OrderInv, [EventsNext]_eventVars  PROVE OrderInv'
  OBVIOUS
<1>1. ChannelInv'
  BY ChannelInvStep DEF OrderInv
<1>2. OrderTypes' /\ \A s \in Streams : InOrder(s)'
  <2>1. CASE UNCHANGED eventVars
    <3>1. UNCHANGED <<eventsSubs, channel, stream, got, events, since, dropped>>
      BY <2>1 DEF eventVars, history
    <3> QED
      BY <3>1, OrderStays DEF OrderInv, OrderTypes, Received
  <2>2. CASE EventsNext
    BY <2>2, PublishKeepsOrder, SubscribeKeepsOrder, DeliverKeepsOrder, OthersKeepOrder
    DEF EventsNext, Stream
  <2> QED
    BY <2>1, <2>2
<1> QED
  BY <1>1, <1>2 DEF OrderInv

\* For any number of streams and events and any size of the channels, a client
\* receives the events since its subscription in their order, each once, and
\* misses only those that found its channel full (publishEvent and the loop of
\* the events handler).
THEOREM OrderKept == EventsSpec => []StreamsInOrder
<1>1. EventsSpec => EventsInit /\ [][EventsNext]_eventVars
  BY PTL DEF EventsSpec
<1>2. OrderInv => StreamsInOrder
  BY DEF OrderInv, InOrder, Ascending, Received, StreamsInOrder
<1> QED
  BY <1>1, <1>2, OrderInvInit, OrderInvStep, PTL

-----------------------------------------------------------------------------
(* Files and streams beside each other *)

\* Seen from the files, the server does what the handlers of files do.
THEOREM ServerFiles == ServerSpec => FilesSpec
<1>1. ServerInit => FilesInit
  BY DEF ServerInit
<1>2. [ServerNext]_serverVars => [FilesNext]_fileVars
  BY DEF ServerNext, FilesStep, StreamsStep, serverVars
<1> QED
  BY <1>1, <1>2, PTL DEF ServerSpec, FilesSpec

\* Seen from the streams, it does what Events says, with its fairness.
THEOREM ServerEvents == ServerSpec => EventsSpec
<1>1. ServerInit => EventsInit
  BY DEF ServerInit
<1>2. [ServerNext]_serverVars => [EventsNext]_eventVars
  BY DEF ServerNext, FilesStep, StreamsStep, serverVars
<1> QED
  BY <1>1, <1>2, PTL DEF ServerSpec, EventsSpec

\* What is proved of the two parts holds for the server.
THEOREM ServerSafe ==
  ServerSpec =>
    /\ []NothingLost /\ []HomeIsWhole /\ []TrashListsFiles /\ RestoreReplacesNothing
    /\ []ChannelsRight /\ []StreamsInOrder
BY ServerFiles, ServerEvents, FilesKept, SavesWhole, TrashListed, RestoresApart,
  ChannelsSafe, OrderKept, PTL
=============================================================================
