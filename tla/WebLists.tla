------------------------------ MODULE WebLists -------------------------------
(***************************************************************************)
(* Arrays of the web client that are sorted and filtered                   *)
(* (web/src/App.svelte).  They are defined by places: a place in an array  *)
(* is the number of elements before it.                                    *)
(***************************************************************************)
EXTENDS Naturals, Sequences, FiniteSets

\* The elements of a finite set, each behind those in below[x].
Ranked(S, below) ==
  [k \in 1..Cardinality(S) |-> CHOOSE x \in S : Cardinality(below[x]) = k - 1]

Ascending(S) == Ranked(S, [x \in S |-> {y \in S : y < x}])

\* The elements of s that are in S, in their order.
Kept(s, S) ==
  LET at == Ascending({k \in 1..Len(s) : s[k] \in S})
  IN [n \in DOMAIN at |-> s[at[n]]]

\* What lies between two places, counted from 1 and given in either order.
Slice(s, j, k) == IF j < k THEN SubSeq(s, j, k) ELSE SubSeq(s, k, j)
=============================================================================
