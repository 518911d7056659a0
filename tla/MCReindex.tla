------------------------------ MODULE MCReindex ------------------------------
(* TLC instances of Reindex: two users with a file each. *)
EXTENDS Reindex

CONSTANTS alice, bob, a, c

MCHome == [f \in Files |-> IF f = c THEN bob ELSE alice]
=============================================================================
