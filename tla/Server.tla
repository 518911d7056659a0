------------------------------- MODULE Server -------------------------------
(***************************************************************************)
(* What the server does for one user: the requests that change files, and  *)
(* the event streams.  A handler publishes an event after its files are    *)
(* done with, and an event says no more than that something has changed,   *)
(* so to a stream it may come at any time (Publish of Events), and no      *)
(* request waits for a stream.  A behaviour therefore exercises one part,  *)
(* the focus, while the other stays as it began.                           *)
(***************************************************************************)
EXTENDS FileOps, Events

VARIABLE focus   \* the part that is exercised

serverVars == <<focus, fileVars, eventVars>>

ServerInit == focus \in {"files", "streams"} /\ FilesInit /\ EventsInit

FilesStep == focus = "files" /\ FilesNext /\ UNCHANGED <<focus, eventVars>>
StreamsStep == focus = "streams" /\ EventsNext /\ UNCHANGED <<focus, fileVars>>

ServerNext == FilesStep \/ StreamsStep

ServerSpec == ServerInit /\ [][ServerNext]_serverVars /\ EventsFairness

=============================================================================
