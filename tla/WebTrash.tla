------------------------------ MODULE WebTrash ------------------------------
(***************************************************************************)
(* The trash panel of the web client (web/src/App.svelte): what it lists,  *)
(* what is selected in it, and the requests that restore or delete one     *)
(* item or all that are selected, each on its own on the server.           *)
(***************************************************************************)
EXTENDS WebLists, Integers, SequencesExt

CONSTANTS
  TrashIds,   \* items there can be, in the order of the list
  TrashCalls  \* requests of the panel that can be pending at once

ASSUME TrashAssumption ==
  /\ TrashIds \subseteq Nat \ {0} /\ IsFiniteSet(TrashIds)
  /\ TrashCalls \subseteq Nat

VARIABLES
  bin,            \* the trash on the server
  trashOpen,      \* the panel is on the screen
  trashItems,     \* what it lists
  trashSelectedIds, trashAnchorId,
  trashCalls,     \* pending awaits
  missed          \* the list may be behind: a failure, somebody else, a race

trashSelection == <<trashSelectedIds, trashAnchorId>>
trashVars == <<bin, trashOpen, trashItems, trashSelection, trashCalls, missed>>

NoTrashCall == [op |-> "free"]

TrashTypeOK ==
  /\ bin \subseteq TrashIds /\ trashItems \subseteq TrashIds
  /\ {trashOpen, missed} \subseteq BOOLEAN
  /\ trashSelectedIds \in Seq(TrashIds) /\ IsInjective(trashSelectedIds)
  /\ trashAnchorId \in TrashIds \cup {0}
  /\ DOMAIN trashCalls = TrashCalls

TrashInit ==
  /\ bin \in SUBSET TrashIds
  /\ trashOpen = FALSE /\ trashItems = {}
  /\ trashSelectedIds = <<>> /\ trashAnchorId = 0
  /\ trashCalls = [c \in TrashCalls |-> NoTrashCall]
  /\ missed = FALSE

-----------------------------------------------------------------------------
(* Selecting *)

\* The list, the place of an item in it, and the items between two places.
TrashList == Ascending(trashItems)
TrashPlace(i) == Cardinality({j \in trashItems : j < i}) + 1
Between(j, k) == Slice(TrashList, j, k)

Without(s, i) == Kept(s, Range(s) \ {i})
WithToggled(s, i) == IF Contains(s, i) THEN Without(s, i) ELSE Append(s, i)

\* selectTrashItem: a click, with Ctrl, or with Shift from a listed anchor.
SelectTrashItem ==
  /\ trashOpen
  /\ \E i \in trashItems :
       \/ trashSelectedIds' = <<i>> /\ trashAnchorId' = i
       \/ /\ trashSelectedIds' = WithToggled(trashSelectedIds, i)
          /\ trashAnchorId' = i
       \/ /\ trashAnchorId \in trashItems
          /\ trashSelectedIds' = Between(TrashPlace(trashAnchorId), TrashPlace(i))
          /\ UNCHANGED trashAnchorId
  /\ UNCHANGED <<bin, trashOpen, trashItems, trashCalls, missed>>

\* moveTrashSelection: an arrow key, alone, with Ctrl or with Shift.  What is
\* not in the list counts as its first item.
MoveTrashSelection ==
  LET at(i) == IF i \in trashItems THEN TrashPlace(i) ELSE 1
      last  == IF trashSelectedIds = <<>> THEN trashAnchorId
               ELSE Last(trashSelectedIds)
      start == IF trashAnchorId # 0 THEN trashAnchorId
               ELSE IF trashSelectedIds # <<>> THEN Head(trashSelectedIds) ELSE 0
  IN /\ trashOpen /\ trashItems # {}
     /\ \E delta \in {-1, 1} :
          LET k    == at(last) + delta
              n    == Cardinality(trashItems)
              to   == IF k < 1 THEN 1 ELSE IF k < n THEN k ELSE n
              next == TrashList[to]
          IN \/ trashSelectedIds' = <<next>> /\ trashAnchorId' = next
             \/ /\ trashSelectedIds' = IF Contains(trashSelectedIds, next)
                                         THEN trashSelectedIds
                                         ELSE Append(trashSelectedIds, next)
                /\ trashAnchorId' = next
             \/ LET from == IF start = 0 THEN next ELSE start
                IN /\ trashSelectedIds' = Between(at(from), to)
                   /\ trashAnchorId' = from
  /\ UNCHANGED <<bin, trashOpen, trashItems, trashCalls, missed>>

\* Ctrl+A while the panel is open
SelectAllTrash ==
  /\ trashOpen
  /\ trashSelectedIds' = TrashList
  /\ UNCHANGED <<bin, trashOpen, trashItems, trashAnchorId, trashCalls, missed>>

\* The panel is left: Escape also drops the selection, its button keeps it.
CloseTrash ==
  /\ trashOpen /\ trashOpen' = FALSE
  /\ trashSelectedIds' \in {<<>>, trashSelectedIds}
  /\ UNCHANGED <<bin, trashItems, trashAnchorId, trashCalls, missed>>

-----------------------------------------------------------------------------
(* Requests *)

TrashSlot ==
  {c \in TrashCalls : trashCalls[c] = NoTrashCall
                      /\ \A d \in TrashCalls : d < c => trashCalls[d] # NoTrashCall}

TurnsTo(c, call) == trashCalls' = [trashCalls EXCEPT ![c] = call]
TrashOp(c, op) == trashCalls[c].op = op

ListTrash == [op |-> "list", served |-> FALSE, items |-> {}]

\* refreshTrash begins.  Alone, it will see all there is.
RefreshTrash(c) ==
  /\ TurnsTo(c, ListTrash)
  /\ missed' = \E d \in TrashCalls \ {c} : trashCalls[d] # NoTrashCall

OpenTrash ==
  /\ trashOpen' = TRUE
  /\ \E c \in TrashSlot : RefreshTrash(c)
  /\ UNCHANGED <<bin, trashItems, trashSelection>>

\* restoreTrashItem and deleteTrashItem, with one request; restoreSelectedTrash
\* and deleteSelectedTrash, with one for each item.
AskFor(ids, many) ==
  \E c \in TrashSlot :
    TurnsTo(c, [op |-> "act", ids |-> ids, left |-> ids, many |-> many,
                failed |-> FALSE])

OneTrashItem == \E i \in trashItems : AskFor({i}, FALSE)

SelectedTrash ==
  LET ids == {i \in trashItems : Contains(trashSelectedIds, i)}
  IN ids # {} /\ AskFor(ids, TRUE)

\* What the panel offers; its toolbar needs a selection.
TrashPanel ==
  \/ SelectTrashItem \/ CloseTrash
  \/ /\ trashOpen
     /\ OneTrashItem \/ (trashSelectedIds # <<>> /\ SelectedTrash)
     /\ UNCHANGED <<bin, trashOpen, trashItems, trashSelection, missed>>

\* The server serves one of the requests of call c.  An item that is no longer
\* there, or cannot be moved, is an error; so is an answer that is lost.
TrashServed(c) ==
  /\ TrashOp(c, "act")
  /\ \E i \in trashCalls[c].left :
       \/ /\ i \in bin /\ bin' = bin \ {i}
          /\ TurnsTo(c, [trashCalls[c] EXCEPT !.left = @ \ {i}])
          /\ UNCHANGED missed
       \/ /\ bin' \in {bin, bin \ {i}} /\ missed' = TRUE
          /\ TurnsTo(c, [trashCalls[c] EXCEPT !.left = @ \ {i}, !.failed = TRUE])
  /\ UNCHANGED <<trashOpen, trashItems, trashSelection>>

\* All requests have succeeded: the selection is adjusted and the list asked
\* for again.
TrashActed(c) ==
  LET call == trashCalls[c] IN
  /\ TrashOp(c, "act") /\ call.left = {} /\ ~call.failed
  /\ trashSelectedIds' = IF call.many THEN <<>>
       ELSE Kept(trashSelectedIds, TrashIds \ call.ids)
  /\ RefreshTrash(c)
  /\ UNCHANGED <<bin, trashOpen, trashItems, trashAnchorId>>

\* The first error ends Promise.all for the client; the other requests go on.
TrashFails(c) ==
  /\ TrashOp(c, "act") /\ trashCalls[c].failed /\ trashCalls[c].left = {}
  /\ TurnsTo(c, NoTrashCall)
  /\ UNCHANGED <<bin, trashOpen, trashItems, trashSelection, missed>>

TrashListServed(c) ==
  /\ TrashOp(c, "list") /\ ~trashCalls[c].served
  /\ TurnsTo(c, [trashCalls[c] EXCEPT !.served = TRUE, !.items = bin])
  /\ UNCHANGED <<bin, trashOpen, trashItems, trashSelection, missed>>

\* Mutant: what is selected is not compared with the new list.
KeepsSelection(items) == trashSelectedIds

\* trashSelectedIds.filter(...)
StillListed(items) == Kept(trashSelectedIds, items)

TrashListAnswers(c) ==
  /\ TrashOp(c, "list") /\ trashCalls[c].served
  /\ trashItems' = trashCalls[c].items
  /\ trashSelectedIds' = StillListed(trashCalls[c].items)
  /\ TurnsTo(c, NoTrashCall)
  /\ UNCHANGED <<bin, trashOpen, trashAnchorId, missed>>

TrashListFails(c) ==
  /\ TrashOp(c, "list") /\ TurnsTo(c, NoTrashCall)
  /\ missed' = TRUE
  /\ UNCHANGED <<bin, trashOpen, trashItems, trashSelection>>

\* Other clients, and files deleted in the folder behind the panel.
TrashChanges ==
  /\ \E i \in TrashIds : bin' \in {bin \cup {i}, bin \ {i}}
  /\ bin' # bin /\ missed' = TRUE
  /\ UNCHANGED <<trashOpen, trashItems, trashSelection, trashCalls>>

-----------------------------------------------------------------------------
TrashUser == OpenTrash \/ TrashPanel \/ MoveTrashSelection \/ SelectAllTrash

TrashAnswers ==
  \E c \in TrashCalls :
    \/ TrashServed(c) \/ TrashActed(c) \/ TrashFails(c)
    \/ TrashListServed(c) \/ TrashListAnswers(c) \/ TrashListFails(c)

TrashNext == TrashUser \/ TrashAnswers \/ TrashChanges
TrashSpec == TrashInit /\ [][TrashNext]_trashVars

-----------------------------------------------------------------------------
(* Properties *)

\* Only listed items are ever selected, so what the toolbar offers is never
\* about items that are gone from the list; and when all is answered, nothing
\* has failed and nobody else was at the trash, the panel lists what is in it.
TrashShown ==
  /\ Range(trashSelectedIds) \subseteq trashItems
  /\ (\A c \in TrashCalls : trashCalls[c] = NoTrashCall) /\ trashOpen /\ ~missed
       => trashItems = bin
=============================================================================
