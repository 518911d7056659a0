---------------------------- MODULE MCWebClient ----------------------------
(* TLC instances of WebClient. *)
EXTENDS WebClient

CONSTANTS c1, c2, c3

\* One item with a byte and an empty one; two uploads for the first.
MCSize == <<1, 0>>
MCLength == <<1, 1, 0>>

\* Two folders beside each other, of which one fits into the other, and a file
\* that is in it or outside.
MCPaths == {<<>>, <<"a">>, <<"b">>, <<"y">>, <<"a", "b">>, <<"b", "y">>,
            <<"a", "b", "y">>}
MCDirs == {<<>>, <<"a">>, <<"b">>, <<"a", "b">>}
MCOrder ==
  [p \in MCPaths |-> CASE p = <<>> -> 0 [] p = <<"a">> -> 1
                       [] p # <<>> /\ p[Len(p)] = "b" -> 2
                       [] p # <<>> /\ p[Len(p)] = "y" -> 3]

\* Two cards of one file, which can be rendered, and one of another.
MCModel == [c \in {c1, c2, c3} |-> IF c = c3 THEN "g" ELSE "f"]

MCTaps ==
  [uploads |-> 2, folder |-> 2, selection |-> 3, viewer |-> 7, trash |-> 4,
   admin |-> 3, thumbs |-> 7, model |-> 6, search |-> 7, info |-> 6]

\* The parts begin with what there is to do something to.
MCInit ==
  /\ ClientInit /\ atomic
  /\ fs = {<<>>, <<"a">>, <<"b">>, <<"b", "y">>} /\ url \in {<<>>, <<"a">>}
  /\ focus # "folder" => url = <<>>
  /\ listed = Entries
  /\ focus # "trash" => bin = {}

MCSpec == MCInit /\ [][ClientNext]_clientVars /\ ClientFairness
=============================================================================
