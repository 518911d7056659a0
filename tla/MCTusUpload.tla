----------------------------- MODULE MCTusUpload -----------------------------
(* TLC instances of TusUpload. *)
EXTENDS TusRefinement

\* The two uploads and two request slots.
CONSTANTS u1, u2, h1, h2

\* The order of bytes matters within an upload: u1 has two bytes, u2 one.
MCLength == [u \in Uploads |-> IF u = u1 THEN 2 ELSE 1]
=============================================================================
