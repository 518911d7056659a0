---------------------------- MODULE UploadPromise ----------------------------
(***************************************************************************)
(* What the upload server promises, with no files, requests or cleanup: an *)
(* upload receives bytes from the front, lands under a free name when all  *)
(* of them are there and is then confirmed under it.  A name that two      *)
(* uploads pick at the same time is contested, and nothing is promised of  *)
(* it.  The source states it in docs/architecture.md ("Upload Flow"); the  *)
(* definitions name the code that has to keep each part of it.             *)
(***************************************************************************)
EXTENDS Integers

CONSTANTS Uploads, Length, Names, None, Other

VARIABLES
  atomic,     \* a file appears in the folder at once, or is copied there
  status,     \* what the server says of each upload
  got,        \* the bytes it has acknowledged
  shelf,      \* whose file each name that is not contested shows
  contested,  \* the names of which nothing is promised
  place       \* the name each confirmed upload is confirmed under

promise == <<atomic, status, got, shelf, contested, place>>

PromiseInit ==
  /\ atomic \in BOOLEAN
  /\ status = [u \in Uploads |-> "none"]
  /\ got = [u \in Uploads |-> 0]
  /\ shelf \in [Names -> {None, Other}]
  /\ contested = {}
  /\ place = [u \in Uploads |-> None]

Landed(u) == \E n \in Names : shelf[n] = u

\* An upload is accepted with its first k bytes.
Accept(u, k) ==
  /\ status[u] = "none" /\ k <= Length[u]
  /\ status' = [status EXCEPT ![u] = "open"]
  /\ got' = [got EXCEPT ![u] = k]
  /\ UNCHANGED <<atomic, shelf, contested, place>>

\* More bytes are acknowledged, never fewer.
Acknowledge(u, k) ==
  /\ status[u] = "open" /\ got[u] <= k /\ k <= Length[u]
  /\ got' = [got EXCEPT ![u] = k]
  /\ UNCHANGED <<atomic, status, shelf, contested, place>>

\* The received upload appears under a name that is free: once, or by a copy
\* that may have to be made again.
Land(u, n) ==
  /\ status[u] = "open" /\ got[u] = Length[u]
  /\ shelf[n] = None /\ n \notin contested
  /\ atomic => ~Landed(u)
  /\ shelf' = [shelf EXCEPT ![n] = u]
  /\ UNCHANGED <<atomic, status, got, contested, place>>

\* A copy of an upload that is not confirmed fails.
Withdraw(u, n) ==
  /\ ~atomic /\ status[u] \in {"open", "gone"} /\ shelf[n] = u
  /\ shelf' = [shelf EXCEPT ![n] = None]
  /\ UNCHANGED <<atomic, status, got, contested, place>>

\* Two uploads pick a free name at the same time.
Contest(n) ==
  /\ shelf[n] = None /\ n \notin contested
  /\ contested' = contested \cup {n}
  /\ UNCHANGED <<atomic, status, got, shelf, place>>

\* A received upload is confirmed where it has landed.
Confirm(u, n) ==
  /\ status[u] = "open" /\ got[u] = Length[u]
  /\ shelf[n] = u \/ n \in contested
  /\ status' = [status EXCEPT ![u] = "done"]
  /\ place' = [place EXCEPT ![u] = n]
  /\ UNCHANGED <<atomic, got, shelf, contested>>

\* An unconfirmed upload is given up (DELETE, or its TTL has passed).
GiveUp(u) ==
  /\ status[u] = "open"
  /\ status' = [status EXCEPT ![u] = "gone"]
  /\ got' = [got EXCEPT ![u] = 0]
  /\ UNCHANGED <<atomic, shelf, contested, place>>

\* A confirmed upload is forgotten, and its file stays: the TTL had passed
\* before it was confirmed.
Forget(u) ==
  /\ status[u] = "done"
  /\ status' = [status EXCEPT ![u] = "forgotten"]
  /\ got' = [got EXCEPT ![u] = 0]
  /\ place' = [place EXCEPT ![u] = None]
  /\ UNCHANGED <<atomic, shelf, contested>>

PromiseNext ==
  \/ \E u \in Uploads :
       \/ \E k \in 0..Length[u] : Accept(u, k) \/ Acknowledge(u, k)
       \/ \E n \in Names : Land(u, n) \/ Withdraw(u, n) \/ Confirm(u, n)
       \/ GiveUp(u) \/ Forget(u)
  \/ \E n \in Names : Contest(n)

PromiseSpec == PromiseInit /\ [][PromiseNext]_promise
=============================================================================
