----------------------------- MODULE WebClient -----------------------------
(***************************************************************************)
(* The web client: its parts beside each other.  A page of the client is   *)
(* one thread, so what the parts can do to each other happens between      *)
(* their own steps, and each module holds that as actions of its own: a    *)
(* listing that arrives in WebSelection, a refresh at any time after an    *)
(* upload in WebFolder, files deleted behind the panel in WebTrash.  A     *)
(* behaviour therefore exercises one part, the focus, with a bounded       *)
(* number of taps of the user, while the others stay as they began.        *)
(***************************************************************************)
EXTENDS WebUploads, WebFolder, WebSelection, WebViewer, WebTrash, WebAdmin,
        WebThumbs, WebModel, WebSearch

CONSTANTS
  Foci,       \* the parts that are exercised
  MaxTaps     \* bound on what users do to each of them

ASSUME ClientAssumption == \A f \in Foci : MaxTaps[f] \in Nat

VARIABLES
  focus,      \* the part that is exercised
  taps        \* what the user, and others elsewhere, have done so far

boundVars == <<focus, taps>>
clientVars ==
  <<boundVars, uploadVars, folderVars, selectionVars, viewerVars, trashVars,
    adminVars, thumbVars, modelVars, findVars>>

\* A link into a folder counts as a tap.
ClientInit ==
  /\ focus \in Foci
  /\ UploadsInit /\ FolderInit /\ SelectionInit /\ ViewerInit /\ TrashInit
  /\ AdminInit /\ ThumbsInit /\ ModelInit /\ SearchInit
  /\ taps = IF url = Root THEN 0 ELSE 1

-----------------------------------------------------------------------------
(* Steps: of users, and what goes on by itself *)

Tap == taps < MaxTaps[focus] /\ taps' = taps + 1 /\ UNCHANGED focus
ByItself == UNCHANGED boundVars

UploadsStep ==
  /\ focus = "uploads"
  /\ \/ UploadsUser /\ Tap
     \/ (ServerGoesOn \/ \E t \in Tasks : GoesOn(t)) /\ ByItself
  /\ UNCHANGED <<folderVars, selectionVars, viewerVars, trashVars, adminVars,
                 thumbVars, modelVars, findVars>>

FolderStep ==
  /\ focus = "folder"
  /\ \/ (FolderUser \/ Outside) /\ Tap
     \/ (FolderAnswers \/ FolderStream) /\ ByItself
  /\ UNCHANGED <<uploadVars, selectionVars, viewerVars, trashVars, adminVars,
                 thumbVars, modelVars, findVars>>

SelectionStep ==
  /\ focus = "selection"
  /\ \/ SelectionUser /\ Tap
     \/ SelectionAnswers /\ ByItself
  /\ UNCHANGED <<uploadVars, folderVars, viewerVars, trashVars, adminVars,
                 thumbVars, modelVars, findVars>>

ViewerStep ==
  /\ focus = "viewer"
  /\ \/ ViewerUser /\ Tap
     \/ ViewerAnswers /\ ByItself
  /\ UNCHANGED <<uploadVars, folderVars, selectionVars, trashVars, adminVars,
                 thumbVars, modelVars, findVars>>

TrashStep ==
  /\ focus = "trash"
  /\ \/ (TrashUser \/ TrashChanges) /\ Tap
     \/ TrashAnswers /\ ByItself
  /\ UNCHANGED <<uploadVars, folderVars, selectionVars, viewerVars, adminVars,
                 thumbVars, modelVars, findVars>>

AdminStep ==
  /\ focus = "admin"
  /\ \/ (OpenAdmin \/ AdminPanel) /\ Tap
     \/ (AdminAnswers \/ JobEnds \/ JobStarts) /\ ByItself
  /\ UNCHANGED <<uploadVars, folderVars, selectionVars, viewerVars, trashVars,
                 thumbVars, modelVars, findVars>>

ThumbsStep ==
  /\ focus = "thumbs"
  /\ \/ ThumbsUser /\ Tap
     \/ (\E m \in ThumbFiles : Rendered(m)) /\ ByItself
  /\ UNCHANGED <<uploadVars, folderVars, selectionVars, viewerVars, trashVars,
                 adminVars, modelVars, findVars>>

ModelStep ==
  /\ focus = "model"
  /\ \/ ModelUser /\ Tap
     \/ ModelAnswers /\ ByItself
  /\ UNCHANGED <<uploadVars, folderVars, selectionVars, viewerVars, trashVars,
                 adminVars, thumbVars, findVars>>

\* The search dialog, and the info panel.
SearchStep ==
  /\ \/ focus = "search" /\ SearchUser /\ Tap
     \/ focus = "search" /\ SearchGoesOn /\ ByItself
     \/ focus = "info" /\ InfoUser /\ Tap
     \/ focus = "info" /\ InfoGoesOn /\ ByItself
  /\ UNCHANGED <<uploadVars, folderVars, selectionVars, viewerVars, trashVars,
                 adminVars, thumbVars, modelVars>>

ClientNext ==
  \/ UploadsStep \/ FolderStep \/ SelectionStep \/ ViewerStep \/ TrashStep
  \/ AdminStep \/ ThumbsStep \/ ModelStep \/ SearchStep

\* Awaits go on, pictures that are being rendered get ready, the interval of
\* the admin panel fires.
ClientFairness ==
  /\ \A t \in Tasks : WF_uploadVars(GoesOn(t))
  /\ ThumbsFairness /\ AdminFairness

ClientSpec == ClientInit /\ [][ClientNext]_clientVars /\ ClientFairness

-----------------------------------------------------------------------------
\* The state of every part has its type.
WebTypeOK ==
  /\ QueueTypeOK /\ FolderTypeOK /\ SelectionTypeOK /\ ViewerTypeOK
  /\ TrashTypeOK /\ AdminTypeOK /\ ThumbsTypeOK /\ ModelTypeOK
  /\ SearchTypeOK
=============================================================================
