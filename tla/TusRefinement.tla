---------------------------- MODULE TusRefinement ----------------------------
(***************************************************************************)
(* TusUpload seen as UploadPromise: a row's state and offset are what the  *)
(* client has been promised, the target folder is the shelf, except for    *)
(* the names two requests have held at the same time.                      *)
(***************************************************************************)
EXTENDS TusUpload

\* A row that is deleted after its upload has been completed is forgotten.
Status(u) ==
  IF rec[u].st = "gone" /\ published[u] > 0 THEN "forgotten" ELSE rec[u].st

Shown(n) == IF n \in contended THEN None ELSE owner[n]

Place(u) == IF rec[u].st = "done" THEN rec[u].final ELSE None

Promise == INSTANCE UploadPromise WITH
  atomic    <- sameFS,
  status    <- [u \in Uploads |-> Status(u)],
  got       <- [u \in Uploads |-> rec[u].offset],
  shelf     <- [n \in Names |-> Shown(n)],
  contested <- contended,
  place     <- [u \in Uploads |-> Place(u)]

\* The server keeps the promise of UploadPromise: every step of a request,
\* a crash or a cleanup is one of its steps or invisible.
KeepsPromise == Promise!PromiseSpec
=============================================================================
