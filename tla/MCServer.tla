------------------------------ MODULE MCServer ------------------------------
(* The TLC instance of Server. *)
EXTENDS Server

\* Two files; a second name for one of them.
MCPlaces == {"a", "a_01", "b"}
MCCandidates == [p \in MCPlaces |-> IF p = "a" THEN <<"a", "a_01">> ELSE <<p>>]
MCStart == [p \in MCPlaces |-> IF p = "a" THEN 1 ELSE IF p = "b" THEN 2 ELSE 0]

\* A stream that is open when the server ends, and one that can come later.
MCStreams == {"early", "late"}
=============================================================================
