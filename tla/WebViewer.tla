----------------------------- MODULE WebViewer ------------------------------
(***************************************************************************)
(* Text files in the viewer of the web client (web/src/App.svelte) and the *)
(* editor in it (web/src/lib/CodeEditor.svelte).  The editor is loaded     *)
(* when it is first needed and takes the text once, as it is when it       *)
(* appears; texts and saves are answered later, whatever is open by then.  *)
(***************************************************************************)
EXTENDS Naturals, FiniteSets

CONSTANTS
  Files,      \* text files
  MaxRev,     \* bound on how often the user types
  NoFile

ASSUME ViewerAssumption ==
  MaxRev \in Nat /\ NoFile \notin Files

VARIABLES
  stored,         \* the content of each file on the server
  viewerFile,     \* the file that is open
  viewerText,     \* its text, as far as it is known
  editorMode, editorDirty, editorSaving,
  codeEditor,     \* the module of the editor
  editor,         \* the editor, with the text in it
  fetching,       \* texts that have been asked for
  saving,         \* contents on their way to the server
  opens,          \* how often a file has been opened
  revs,           \* how often the user has typed
  unsure,         \* history: files whose last save seemed to fail and was done
  strayed         \* history: what is open has been changed by an answer that
                  \* was meant for something else, see Late

editorVars == <<editorMode, editorDirty, editorSaving, codeEditor, editor>>
viewerVars ==
  <<stored, viewerFile, viewerText, editorVars, fetching, saving, opens, revs,
    unsure, strayed>>

\* A content is known by the file it comes from and the last change to it.
Empty == [of |-> NoFile, rev |-> 0]
Contents == [of : Files \cup {NoFile}, rev : 0..MaxRev]

\* A text that is asked for or a content to be saved, with the opening of the
\* viewer it belongs to.
Calls == [of : Files, open : Nat, served : BOOLEAN, content : Contents]

NoText == [known |-> FALSE, content |-> Empty]
NoEditor == [on |-> FALSE, content |-> Empty]

\* onMount of CodeEditor
Editing(text) == [on |-> TRUE, content |-> text.content]

ViewerTypeOK ==
  /\ stored \in [Files -> Contents]
  /\ viewerFile \in Files \cup {NoFile}
  /\ viewerText \in [known : BOOLEAN, content : Contents]
  /\ editor \in [on : BOOLEAN, content : Contents]
  /\ opens \in Nat /\ revs \in 0..MaxRev /\ unsure \subseteq Files
  /\ {editorMode, editorDirty, editorSaving, strayed} \subseteq BOOLEAN
  /\ codeEditor \in {"none", "loading", "loaded"}
  /\ editorMode => codeEditor # "none"
  /\ editor.on <=> editorMode /\ codeEditor = "loaded"
  /\ fetching \subseteq Calls /\ saving \subseteq Calls

ViewerInit ==
  /\ stored = [f \in Files |-> [of |-> f, rev |-> 0]]
  /\ viewerFile = NoFile /\ viewerText = NoText
  /\ editorMode = FALSE /\ editorDirty = FALSE /\ editorSaving = FALSE
  /\ codeEditor = "none" /\ editor = NoEditor
  /\ fetching = {} /\ saving = {} /\ opens = 0 /\ revs = 0
  /\ unsure = {} /\ strayed = FALSE

-----------------------------------------------------------------------------
(* The user *)

\* Asked for in an earlier opening: another file is open now, the same one
\* again, or none.
Late(r) == r.open # opens

\* The editor appears before the text does.
TooEarly == ~viewerText.known

\* What is open is changed by what does not belong to it, if c.
Strays(c) == strayed' = (strayed \/ c)

\* Mutant: a new file opens in the editor if the last one was edited.
SameMode == editorMode

\* The mode openViewer sets.
FirstMode == FALSE

\* openViewer, for a text file.
OpenViewer(f) ==
  /\ viewerFile' = f /\ viewerText' = NoText
  /\ editorMode' = FirstMode /\ editorDirty' = FALSE
  /\ editor' = IF FirstMode THEN editor ELSE NoEditor
  /\ opens' = opens + 1
  /\ fetching' = fetching \cup
       {[of |-> f, open |-> opens', served |-> FALSE, content |-> Empty]}
  /\ unsure' = unsure \ {f} /\ strayed' = FALSE
  /\ UNCHANGED <<stored, editorSaving, codeEditor, saving, revs>>

\* closeViewer
CloseViewer ==
  /\ viewerFile # NoFile /\ viewerFile' = NoFile
  /\ viewerText' = NoText
  /\ editorMode' = FALSE /\ editorDirty' = FALSE /\ editor' = NoEditor
  /\ UNCHANGED <<stored, editorSaving, codeEditor, fetching, saving, opens,
                 revs, unsure, strayed>>

\* Edit beside the text, or in the header of the viewer, where it is before the
\* text is.  CodeEditor takes the text as it is when it appears.
Edit ==
  /\ viewerFile # NoFile /\ ~editorMode
  /\ editorMode' = TRUE
  /\ IF codeEditor = "loaded"
       THEN /\ editor' = Editing(viewerText) /\ UNCHANGED codeEditor
            /\ Strays(TooEarly)
       ELSE codeEditor' = "loading" /\ UNCHANGED <<editor, strayed>>
  /\ UNCHANGED <<stored, viewerFile, viewerText, editorDirty, editorSaving,
                 fetching, saving, opens, revs, unsure>>

\* Preview in the header or, dropping what was typed, beside Save.
Preview ==
  /\ editorMode
  /\ editorMode' = FALSE /\ editor' = NoEditor
  /\ editorDirty' \in {editorDirty, FALSE}
  /\ UNCHANGED <<stored, viewerFile, viewerText, editorSaving, codeEditor,
                 fetching, saving, opens, revs, unsure, strayed>>

\* onChange: the user types.
Type ==
  /\ editor.on
  /\ revs < MaxRev /\ revs' = revs + 1
  /\ editor' = [editor EXCEPT !.content.rev = revs']
  /\ editorDirty' = TRUE
  /\ UNCHANGED <<stored, viewerFile, viewerText, editorMode, editorSaving,
                 codeEditor, fetching, saving, opens, unsure, strayed>>

\* saveEditorContent
SaveEditorContent ==
  /\ editor.on /\ editorDirty /\ ~editorSaving
  /\ editorSaving' = TRUE
  /\ saving' = saving \cup
       {[of |-> viewerFile, open |-> opens, served |-> FALSE,
         content |-> editor.content]}
  /\ UNCHANGED <<stored, viewerFile, viewerText, editorMode, editorDirty,
                 codeEditor, editor, fetching, opens, revs, unsure, strayed>>

\* What the viewer offers.
ViewerPanel == CloseViewer \/ Edit \/ Preview \/ Type \/ SaveEditorContent

-----------------------------------------------------------------------------
(* The editor appears; answers *)

\* The module of the editor arrives, perhaps after Preview.
EditorMounts ==
  /\ codeEditor = "loading" /\ codeEditor' = "loaded"
  /\ editor' = IF editorMode THEN Editing(viewerText) ELSE editor
  /\ Strays(editorMode /\ TooEarly)
  /\ UNCHANGED <<stored, viewerFile, viewerText, editorMode, editorDirty,
                 editorSaving, fetching, saving, opens, revs, unsure>>

TextServed(r) ==
  /\ ~r.served
  /\ fetching' = (fetching \ {r})
       \cup {[r EXCEPT !.served = TRUE, !.content = stored[r.of]]}
  /\ UNCHANGED <<stored, viewerFile, viewerText, editorVars, saving, opens, revs,
                 unsure, strayed>>

\* The rest of openViewer: the text, or its error, is shown in what is open.
TextAnswers(r) ==
  /\ r.served
  /\ \/ /\ viewerText' = [known |-> TRUE, content |-> r.content]
        /\ Strays(Late(r))
     \/ UNCHANGED <<viewerText, strayed>>
  /\ fetching' = fetching \ {r}
  /\ UNCHANGED <<stored, viewerFile, editorVars, saving, opens, revs, unsure>>

\* The text of what is open has not been read yet.
Asking == \E q \in fetching : ~Late(q) /\ ~q.served

SaveServed(r) ==
  /\ ~r.served
  /\ stored' = [stored EXCEPT ![r.of] = r.content]
  /\ saving' = (saving \ {r}) \cup {[r EXCEPT !.served = TRUE]}
  /\ Strays(Late(r) /\ r.of = viewerFile /\ ~Asking)
  /\ UNCHANGED <<viewerFile, viewerText, editorVars, fetching, opens, revs,
                 unsure>>

\* The editor holds something else than what has been saved.
TypedOn(r) == editor.on /\ editor.content # r.content

\* The rest of saveEditorContent: whatever is open is no longer dirty and has
\* the saved content.
SaveAnswers(r) ==
  /\ r.served
  /\ editorDirty' = FALSE /\ editorSaving' = FALSE
  /\ viewerText' = IF viewerText.known
                     THEN [viewerText EXCEPT !.content = r.content] ELSE viewerText
  /\ saving' = saving \ {r}
  /\ Strays((Late(r) /\ viewerText.known) \/ TypedOn(r))
  /\ UNCHANGED <<stored, viewerFile, editorMode, codeEditor, editor, fetching,
                 opens, revs, unsure>>

\* An error, also one that hides a save that was done.
SaveFails(r) ==
  /\ editorSaving' = FALSE /\ saving' = saving \ {r}
  /\ unsure' = IF r.served THEN unsure \cup {r.of} ELSE unsure
  /\ UNCHANGED <<stored, viewerFile, viewerText, editorMode, editorDirty,
                 codeEditor, editor, fetching, opens, revs, strayed>>

ViewerUser == (\E f \in Files : OpenViewer(f)) \/ ViewerPanel

ViewerAnswers ==
  \/ EditorMounts
  \/ \E r \in fetching : TextServed(r) \/ TextAnswers(r)
  \/ \E r \in saving : SaveServed(r) \/ SaveAnswers(r) \/ SaveFails(r)

ViewerNext == ViewerUser \/ ViewerAnswers
ViewerSpec == ViewerInit /\ [][ViewerNext]_viewerVars

-----------------------------------------------------------------------------
(* Properties *)

\* Whatever the user does and in whatever order the server answers: the editor
\* holds a version of the file that Save will replace, and unless Save is
\* offered, a save is on its way or the answer of one was lost, it is what the
\* server has.  So Save never puts one file's text into another and is not
\* missing when something is unsaved.  It is so until what is open is changed by
\* what does not belong to it: an answer of an earlier opening, the answer of
\* a save after which the user typed on, or an editor that came before the text;
\* and again when a file is opened.
EditorShowsFile ==
  ~strayed /\ editor.on =>
    /\ editor.content.of = stored[viewerFile].of
    /\ ~editorDirty /\ saving = {} /\ viewerFile \notin unsure
         => editor.content = stored[viewerFile]
=============================================================================
