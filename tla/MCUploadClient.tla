--------------------------- MODULE MCUploadClient ---------------------------
(* TLC instances of UploadClient: one item whose file has one byte.  With    *)
(* TusRefinement, so that the server behind the queue can be held to its     *)
(* promise.                                                                  *)
EXTENDS UploadClient, TusRefinement

MCLength == [u \in Uploads |-> 1]
=============================================================================
