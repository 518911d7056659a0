---------------------------- MODULE WebSelection ----------------------------
(***************************************************************************)
(* What is selected in the listing of the web client (web/src/App.svelte)  *)
(* and what acts on it: the mouse, the keyboard, the context menu, the     *)
(* dialogs and the viewer.  The listing is replaced and extended under     *)
(* them when answers arrive.                                               *)
(***************************************************************************)
EXTENDS WebLists, Integers, SequencesExt

CONSTANTS
  Entries,    \* paths that can be listed, in the order of their names
  Folders,    \* the folders among them
  Images,     \* the files the viewer steps through
  Viewable,   \* the files it can show
  Filters,    \* what the type filter lets through: a set of sets of entries
  Columns     \* entries in a row of the grid

ASSUME SelectionAssumption ==
  /\ Entries \subseteq Nat \ {0} /\ IsFiniteSet(Entries)
  /\ Folders \subseteq Entries
  /\ Images \subseteq Viewable /\ Viewable \subseteq Entries \ Folders
  /\ Filters \subseteq SUBSET Entries /\ Entries \in Filters
  /\ Columns \in Nat \ {0}

VARIABLES
  listed,         \* the entries of the listing
  fileTypeFilter, descending,     \* which of it is visible, in which order
  selectedIds, anchorId,
  shownFile,      \* viewerFile: the file in the viewer, 0 if it is closed
  contextMenu,    \* the entry its menu is open for, 0 if none
  actionDialog,   \* the dialog that is open, with the entry it is about
  picked          \* the entry chosen last in a menu, a search or the viewer

selectVars == <<selectedIds, anchorId, picked>>
selectionVars == <<listed, fileTypeFilter, descending, selectVars, shownFile,
                   contextMenu, actionDialog>>

NoDialog == [kind |-> "none", entry |-> 0]

SelectionTypeOK ==
  /\ listed \subseteq Entries
  /\ fileTypeFilter \in Filters /\ descending \in BOOLEAN
  /\ selectedIds \in Seq(Entries) /\ IsInjective(selectedIds)
  /\ {anchorId, shownFile, contextMenu, picked} \subseteq Entries \cup {0}
  /\ actionDialog \in [kind : {"none", "create", "rename", "move", "delete"},
                       entry : Entries \cup {0}]

SelectionInit ==
  /\ listed \in SUBSET Entries
  /\ fileTypeFilter = Entries /\ descending = FALSE
  /\ selectedIds = <<>> /\ anchorId = 0 /\ picked = 0
  /\ shownFile = 0 /\ contextMenu = 0 /\ actionDialog = NoDialog

-----------------------------------------------------------------------------
(* What is visible *)

\* filterEntries and sortEntries: folders come first in either order.
Before(a, b) ==
  IF (a \in Folders) # (b \in Folders) THEN a \in Folders
  ELSE IF descending THEN a > b ELSE a < b

Visible == listed \cap fileTypeFilter
Ahead(e) == {f \in Visible : Before(f, e)}
VisibleEntries == Ranked(Visible, [e \in Visible |-> Ahead(e)])

Place(e) == Cardinality(Ahead(e)) + 1

\* The visible entries from one place to another.
Span(j, k) == Slice(VisibleEntries, j, k)

\* entryByPath finds what is listed; a folder it may also find in the tree.
MayBeFound(e) == e \in listed \cup Folders

-----------------------------------------------------------------------------
(* The listing changes *)

\* Mutant: a new listing keeps the selection.
KeptSelection == selectedIds

\* selectedIds = [] in loadPath
FreshSelection == <<>>

\* loadPath shows a listing, of the same folder or another, or the user is
\* logged out and there is none.
ListReplaced ==
  /\ \/ listed' \in SUBSET Entries /\ anchorId' = 0
     \/ listed' = {} /\ UNCHANGED anchorId
  /\ selectedIds' = FreshSelection
  /\ UNCHANGED <<fileTypeFilter, descending, picked, shownFile, contextMenu,
                 actionDialog>>

\* loadMoreFolder appends a page.
ListExtended ==
  /\ \E e \in Entries \ listed : listed' = listed \cup {e}
  /\ UNCHANGED <<fileTypeFilter, descending, selectVars, shownFile, contextMenu,
                 actionDialog>>

\* changeFileTypeFilter, and what is hidden is no longer selected;
\* changeSort and setTableSort.
ChangeView ==
  /\ \/ /\ fileTypeFilter' \in Filters \ {fileTypeFilter}
        /\ selectedIds' = Kept(selectedIds, listed \cap fileTypeFilter')
        /\ UNCHANGED descending
     \/ descending' = ~descending /\ UNCHANGED <<fileTypeFilter, selectedIds>>
  /\ UNCHANGED <<listed, anchorId, picked, shownFile, contextMenu, actionDialog>>

-----------------------------------------------------------------------------
(* Selecting *)

\* Mutant: a second click with Ctrl adds the entry once more.
AddedAgain(e) == Append(selectedIds, e)

\* A click with Ctrl, of selectEntry
Toggled(e) == IF Contains(selectedIds, e)
                THEN Kept(selectedIds, Entries \ {e})
                ELSE Append(selectedIds, e)

\* selectEntry: a click, with Ctrl, or with Shift from a visible anchor.
SelectEntry ==
  /\ \E e \in Visible :
       \/ selectedIds' = <<e>> /\ anchorId' = e
       \/ selectedIds' = Toggled(e) /\ anchorId' = e
       \/ /\ anchorId \in Visible
          /\ selectedIds' = Span(Place(anchorId), Place(e))
          /\ UNCHANGED anchorId
  /\ UNCHANGED <<listed, fileTypeFilter, descending, shownFile, contextMenu,
                 actionDialog, picked>>

\* moveSelection: an arrow key, alone, with Ctrl or with Shift.  What is not
\* visible counts as the first entry.  It works behind dialogs and the viewer.
MoveSelection ==
  LET at(e) == IF e \in Visible THEN Place(e) ELSE 1
      last  == IF selectedIds = <<>> THEN anchorId ELSE Last(selectedIds)
      n     == Cardinality(Visible)
  IN /\ Visible # {}
     /\ \E delta \in {-1, 1, -Columns, Columns} :
          LET k    == at(last) + delta
              to   == IF k < 1 THEN 1 ELSE IF k < n THEN k ELSE n
              next == VisibleEntries[to]
              from == IF anchorId # 0 THEN anchorId
                      ELSE IF selectedIds # <<>> THEN Head(selectedIds) ELSE next
          IN \/ selectedIds' = <<next>> /\ anchorId' = next
             \/ /\ selectedIds' = IF Contains(selectedIds, next) THEN selectedIds
                                  ELSE Append(selectedIds, next)
                /\ anchorId' = next
             \/ selectedIds' = Span(at(from), to) /\ anchorId' = from
  /\ UNCHANGED <<listed, fileTypeFilter, descending, shownFile, contextMenu,
                 actionDialog, picked>>

\* Ctrl+A
SelectAll ==
  /\ selectedIds' = VisibleEntries
  /\ UNCHANGED <<listed, fileTypeFilter, descending, anchorId, shownFile,
                 contextMenu, actionDialog, picked>>

-----------------------------------------------------------------------------
(* Opening *)

\* Only e is selected from now on.
Picks(e) == selectedIds' = <<e>> /\ picked' = e

\* openEntry: a folder is loaded; a file is shown by openViewer or downloaded.
OpenEntry(e) ==
  /\ IF e \in Folders THEN UNCHANGED <<selectVars, shownFile>>
     ELSE /\ Picks(e)
          /\ IF e \in Viewable THEN shownFile' = e /\ anchorId' = e
                               ELSE UNCHANGED <<shownFile, anchorId>>
  /\ UNCHANGED <<listed, fileTypeFilter, descending, actionDialog>>

\* A double click; Enter with one entry selected that is still known; a result
\* of a search, 400 ms after its folder was asked for.
OpenSome ==
  /\ \E e \in Entries :
       /\ \/ e \in Visible
          \/ selectedIds = <<e>> /\ MayBeFound(e)
          \/ e \notin Folders
       /\ OpenEntry(e)
  /\ UNCHANGED contextMenu

\* showAdjacentImage
ShowAdjacentImage ==
  LET images == Kept(VisibleEntries, Images) IN
  /\ Contains(images, shownFile) /\ Len(images) > 1
  /\ \E k \in DOMAIN images, delta \in {-1, 1} :
       /\ images[k] = shownFile
       /\ LET next == images[((k - 1 + delta + Len(images)) % Len(images)) + 1]
          IN shownFile' = next /\ Picks(next) /\ anchorId' = next
  /\ UNCHANGED <<listed, fileTypeFilter, descending, contextMenu, actionDialog>>

\* closeViewer
LeaveViewer ==
  /\ shownFile # 0 /\ shownFile' = 0
  /\ UNCHANGED <<listed, fileTypeFilter, descending, selectVars, contextMenu,
                 actionDialog>>

-----------------------------------------------------------------------------
(* Menus and dialogs *)

\* openContextMenu
OpenContextMenu ==
  /\ contextMenu' \in Visible
  /\ UNCHANGED <<listed, fileTypeFilter, descending, selectVars, shownFile,
                 actionDialog>>

Dialog(kind, e) == actionDialog' = [kind |-> kind, entry |-> e]

\* The menu: Open, Download or Copy path, Rename, Move and Delete, for the
\* entry it was opened for; or a click elsewhere.
ContextMenu ==
  /\ contextMenu # 0 /\ contextMenu' = 0
  /\ \/ OpenEntry(contextMenu)
     \/ /\ \/ Picks(contextMenu) /\ UNCHANGED actionDialog
           \/ Picks(contextMenu) /\ Dialog("rename", contextMenu)
           \/ Picks(contextMenu) /\ \E kind \in {"move", "delete"} : Dialog(kind, 0)
           \/ UNCHANGED <<selectedIds, picked, actionDialog>>
        /\ UNCHANGED <<listed, fileTypeFilter, descending, anchorId, shownFile>>

\* createFolder; renameSelected, of the first selected entry that is known;
\* moveSelected and deleteSelected.
CommandBar ==
  /\ \/ Dialog("create", 0)
     \/ \E k \in DOMAIN selectedIds :
          /\ MayBeFound(selectedIds[k])
          /\ \A j \in 1..(k - 1) : selectedIds[j] \notin listed
          /\ Dialog("rename", selectedIds[k])
     \/ selectedIds # <<>> /\ \E kind \in {"move", "delete"} : Dialog(kind, 0)
  /\ UNCHANGED <<listed, fileTypeFilter, descending, selectVars, shownFile,
                 contextMenu>>

\* The dialog is submitted or cancelled.
ActionDialog ==
  /\ actionDialog # NoDialog /\ actionDialog' = NoDialog
  /\ UNCHANGED <<listed, fileTypeFilter, descending, selectVars, shownFile,
                 contextMenu>>

\* Escape closes what is open, else it clears the selection; so does Clear.
Escape ==
  /\ IF contextMenu # 0
       THEN contextMenu' = 0 /\ UNCHANGED <<actionDialog, shownFile, selectedIds>>
     ELSE IF actionDialog # NoDialog
       THEN actionDialog' = NoDialog /\ UNCHANGED <<contextMenu, shownFile, selectedIds>>
     ELSE IF shownFile # 0
       THEN shownFile' = 0 /\ UNCHANGED <<contextMenu, actionDialog, selectedIds>>
     ELSE selectedIds' = <<>> /\ UNCHANGED <<contextMenu, actionDialog, shownFile>>
  /\ UNCHANGED <<listed, fileTypeFilter, descending, anchorId, picked>>

-----------------------------------------------------------------------------
\* handleGlobalKeydown
Keyboard == SelectAll \/ MoveSelection \/ Escape

\* What the list of files and the bars around it offer.
FileArea == SelectEntry \/ OpenSome \/ OpenContextMenu \/ ChangeView

SelectionUser ==
  \/ Keyboard \/ FileArea \/ CommandBar \/ ContextMenu \/ ActionDialog
  \/ ShowAdjacentImage \/ LeaveViewer

SelectionAnswers == ListReplaced \/ ListExtended

SelectionNext == SelectionUser \/ SelectionAnswers
SelectionSpec == SelectionInit /\ [][SelectionNext]_selectionVars

-----------------------------------------------------------------------------
(* Properties *)

\* What is selected, and so what Delete, Move and Download act on, is on the
\* screen, but for the one entry the user has just picked by name: neither a
\* filter, nor a listing that arrives, leaves an entry selected unseen.
SelectionVisible == Range(selectedIds) \subseteq Visible \cup {picked}
=============================================================================
