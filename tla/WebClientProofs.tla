--------------------------- MODULE WebClientProofs ---------------------------
(***************************************************************************)
(* Proofs about what the web client shows.  Of a file: thumbnails (the     *)
(* cards that wait for one picture are all among those its answer          *)
(* reaches), the 3D viewer (what its scene holds when no model is opened a *)
(* second time while it stays), the text viewer with its editor for users  *)
(* who wait for answers.  Of the search dialog and the info panel, whose   *)
(* answers may come late, in another order or not at all.  Of the lists of *)
(* the trash panel and what is selected in them and in a folder.  And, at  *)
(* the end, about all the parts of the client beside each other.           *)
(***************************************************************************)
EXTENDS WebClient, WebUploadsProofs, WebFolderProofs

-----------------------------------------------------------------------------
(* Thumbnails *)

\* At the start every card is hidden.
LEMMA ThumbsTypeInit == ThumbsInit => ThumbsTypeOK
BY DEF ThumbsInit, ThumbsTypeOK

\* Every step keeps the types of the thumbnails.
LEMMA ThumbsTypeStep == ThumbsTypeOK /\ [ThumbsNext]_thumbVars => ThumbsTypeOK'
<1> SUFFICES ASSUME ThumbsTypeOK, [ThumbsNext]_thumbVars PROVE ThumbsTypeOK'
  OBVIOUS
<1> USE DEF ThumbsTypeOK
<1>1. CASE UNCHANGED thumbVars
  BY <1>1 DEF thumbVars
<1>2. ASSUME NEW c \in Cards, ComesIntoView(c) PROVE ThumbsTypeOK'
  <2>1. Model[c] \in ThumbFiles
    BY DEF ThumbFiles
  <2>2. CASE cache[Model[c]] # "none"
    BY <1>2, <2>2 DEF ComesIntoView, Look
  <2>3. CASE cache[Model[c]] = "none"
    BY <1>2, <2>1, <2>3 DEF ComesIntoView
  <2> QED
    BY <2>2, <2>3
<1>3. ASSUME NEW c \in Cards, Leaves(c) PROVE ThumbsTypeOK'
  BY <1>3 DEF Leaves
<1>4. ASSUME NEW m \in ThumbFiles, Rendered(m) PROVE ThumbsTypeOK'
  <2>1. PICK result \in {"url", "null"} :
          /\ cache' = [cache EXCEPT ![m] = result]
          /\ card' = [c \in Cards |->
               IF c \in Answered(m) /\ card[c] = "loading" THEN Look(result)
               ELSE card[c]]
    BY <1>4 DEF Rendered
  <2>2. cache' \in [ThumbFiles -> {"none", "url", "null"}]
    BY <2>1
  <2>3. card' \in [Cards -> {"hidden", "loading", "shown", "failed"}]
    BY <2>1 DEF Look
  <2>4. pending' \subseteq ThumbFiles /\ waiting' \in [ThumbFiles -> SUBSET Cards]
    BY <1>4 DEF Rendered
  <2> QED
    BY <2>2, <2>3, <2>4
<1> QED
  BY <1>1, <1>2, <1>3, <1>4 DEF ThumbsNext, ThumbsUser

\* The state of cards and renderer has its type, for any cards and formats,
\* with and without a renderer (the maps cache and pending of ThreeDThumb.ts).
THEOREM ThumbsTypeCorrect == ThumbsSpec => []ThumbsTypeOK
<1>1. ThumbsSpec => ThumbsInit /\ [][ThumbsNext]_thumbVars
  BY PTL DEF ThumbsSpec
<1> QED
  BY <1>1, ThumbsTypeInit, ThumbsTypeStep, PTL

-----------------------------------------------------------------------------
\* One step: a card that asks is put where the answer looks, nobody is taken
\* out without an answer, and the answer leaves no card of its file loading.
LEMMA WaitersStep ==
  ASSUME WebGL
  PROVE  ThumbsTypeOK /\ LoadingWaits /\ [ThumbsNext]_thumbVars => LoadingWaits'
<1> SUFFICES ASSUME ThumbsTypeOK, LoadingWaits, [ThumbsNext]_thumbVars,
                    NEW d \in Cards, card'[d] = "loading"
             PROVE  (Model[d] \in pending /\ d \in waiting[Model[d]])'
  BY DEF LoadingWaits
<1>0. Model[d] \in ThumbFiles
  BY DEF ThumbFiles
<1>a. card[d] = "loading" => Model[d] \in pending /\ d \in waiting[Model[d]]
  BY DEF LoadingWaits
<1>1. CASE UNCHANGED thumbVars
  BY <1>1, <1>a DEF thumbVars
<1>2. ASSUME NEW c \in Cards, ComesIntoView(c)
      PROVE  (Model[d] \in pending /\ d \in waiting[Model[d]])'
  <2>1. CASE cache[Model[c]] # "none"
    <3>1. d # c
      BY <1>2, <2>1 DEF ComesIntoView, Look, ThumbsTypeOK
    <3> QED
      BY <1>2, <2>1, <3>1, <1>a DEF ComesIntoView, ThumbsTypeOK
  <2>2. CASE cache[Model[c]] = "none"
    <3>1. pending' = pending \cup {Model[c]}
      BY <1>2, <2>2 DEF ComesIntoView
    <3>2. waiting' = [waiting EXCEPT ![Model[c]] = @ \cup {c}]
      BY <1>2, <2>2 DEF ComesIntoView, HasRenderer
    <3>3. d # c => card[d] = "loading"
      BY <1>2, <2>2 DEF ComesIntoView, ThumbsTypeOK
    <3> QED
      BY <1>0, <1>a, <3>1, <3>2, <3>3 DEF ThumbsTypeOK
  <2> QED
    BY <2>1, <2>2
<1>3. ASSUME NEW c \in Cards, Leaves(c)
      PROVE  (Model[d] \in pending /\ d \in waiting[Model[d]])'
  BY <1>3, <1>a DEF Leaves, ThumbsTypeOK
<1>4. ASSUME NEW m \in ThumbFiles, Rendered(m)
      PROVE  (Model[d] \in pending /\ d \in waiting[Model[d]])'
  <2>1. PICK result \in {"url", "null"} :
          card' = [c \in Cards |->
            IF c \in Answered(m) /\ card[c] = "loading" THEN Look(result)
            ELSE card[c]]
    BY <1>4 DEF Rendered
  <2>2. card[d] = "loading" /\ d \notin Answered(m)
    BY <2>1 DEF Look
  <2>3. Model[d] # m
    BY <2>2, <1>a DEF Answered
  <2> QED
    BY <1>0, <1>4, <1>a, <2>2, <2>3 DEF Rendered, ThumbsTypeOK
<1> QED
  BY <1>1, <1>2, <1>3, <1>4 DEF ThumbsNext, ThumbsUser

\* With a renderer, every card that loads is among those the answer to its
\* file will reach, however many cards share a file, ask while it is being
\* rendered, and leave and come back (pending and resolve in ThreeDThumb.ts).
THEOREM WaitersKept == ASSUME WebGL PROVE ThumbsSpec => []LoadingWaits
<1>1. ThumbsSpec => ThumbsInit /\ [][ThumbsNext]_thumbVars
  BY PTL DEF ThumbsSpec
<1>2. ThumbsInit => LoadingWaits
  BY DEF ThumbsInit, LoadingWaits
<1>3. ThumbsTypeOK /\ LoadingWaits /\ [ThumbsNext]_thumbVars => LoadingWaits'
  BY WaitersStep
<1> QED
  BY <1>1, <1>2, <1>3, ThumbsTypeCorrect, PTL

-----------------------------------------------------------------------------
(* The 3D viewer *)

Newest == Len(asked)

\* The parts of the inductive invariant.  A load is known by its model...
LoadsDiffer ==
  \A j, k \in DOMAIN asked : asked[j] = asked[k] => j = k

\* ... so what was wanted last is the last load: until it calls back the
\* overlay says so and nothing is shown, and then one of two things is.
LastLoad ==
  mounted =>
    /\ asked # <<>>
    /\ currentObject \in {0, Newest} /\ scene = {currentObject} \ {0}
    /\ Newest \in arriving => modelLoading /\ ~modelError /\ currentObject = 0
    /\ Newest \notin arriving => ~modelLoading /\ (modelError <=> currentObject = 0)

ModelInv == ModelTypeOK /\ LoadsDiffer /\ LastLoad

\* A longer list of loads.
LEMMA OneMore ==
  ASSUME NEW s \in Seq(Models), NEW m \in Models
  PROVE  /\ Append(s, m) \in Seq(Models)
         /\ Append(s, m) # <<>>
         /\ Len(Append(s, m)) = Len(s) + 1
         /\ Len(s) \in Nat /\ DOMAIN s = 1..Len(s)
         /\ DOMAIN Append(s, m) = 1..(Len(s) + 1)
         /\ \A k \in 1..Len(s) : Append(s, m)[k] = s[k]
         /\ Append(s, m)[Len(s) + 1] = m
OBVIOUS

\* At the start the scene is empty.
LEMMA ModelInvInit == ModelInit => ModelInv
<1> SUFFICES ASSUME ModelInit PROVE ModelInv
  OBVIOUS
<1>1. <<>> \in Seq(Models) /\ DOMAIN <<>> = {}
  OBVIOUS
<1>2. ModelTypeOK
  BY <1>1 DEF ModelInit, ModelTypeOK
<1>3. LoadsDiffer /\ LastLoad
  BY <1>1 DEF ModelInit, LoadsDiffer, LastLoad
<1> QED
  BY <1>2, <1>3 DEF ModelInv

\* Every step keeps the invariant of the scene.
LEMMA ModelInvStep ==
  ASSUME ~Revisit
  PROVE  ModelInv /\ [ModelNext]_modelVars => ModelInv'
<1> SUFFICES ASSUME ModelInv, [ModelNext]_modelVars PROVE ModelInv'
  OBVIOUS
<1> USE DEF ModelInv
<1>0. /\ asked \in Seq(Models) /\ Newest \in Nat /\ DOMAIN asked = 1..Newest
      /\ arriving \subseteq 1..Newest /\ scene \subseteq 1..Newest
      /\ currentObject \in 0..Newest
  BY DEF ModelTypeOK, Newest
<1>1. CASE UNCHANGED modelVars
  BY <1>1 DEF modelVars, ModelTypeOK, LoadsDiffer, LastLoad, Newest
<1>2. CASE Mount
  <2>1. PICK m \in Models : LoadModel(m, <<>>) /\ arriving' = Loads(m, 1) /\ scene' = {}
    BY <1>2 DEF Mount
  <2>2. asked' = Append(<<>>, m) /\ <<>> \in Seq(Models) /\ Len(<<>>) = 0
    BY <2>1 DEF LoadModel
  <2>3. /\ asked' \in Seq(Models) /\ asked' # <<>> /\ Newest' = 1 /\ DOMAIN asked' = 1..1
        /\ asked'[1] = m
    BY <2>2, OneMore DEF Newest
  <2>4. mounted' = TRUE
    BY <1>2 DEF Mount
  <2>5. ModelTypeOK'
    BY <2>1, <2>3, <2>4 DEF ModelTypeOK, LoadModel, Loads, Newest
  <2>6. LoadsDiffer'
    BY <2>3 DEF LoadsDiffer
  <2>7. LastLoad'
    BY <2>1, <2>3 DEF LastLoad, LoadModel, Loads
  <2> QED
    BY <2>5, <2>6, <2>7
<1>3. CASE ShowModel
  <2>1. PICK m \in Models \ {loadedSrc} :
          /\ \A k \in DOMAIN asked : asked[k] # m
          /\ LoadModel(m, asked)
          /\ arriving' = arriving \cup Loads(m, Newest + 1)
          /\ scene' = WithoutObject(scene, currentObject)
    BY <1>3 DEF ShowModel, Newest
  <2>2. asked' = Append(asked, m)
    BY <2>1 DEF LoadModel
  <2>3. /\ asked' \in Seq(Models) /\ asked' # <<>>
        /\ Newest' = Newest + 1 /\ DOMAIN asked' = 1..(Newest + 1)
        /\ \A k \in 1..Newest : asked'[k] = asked[k]
        /\ asked'[Newest + 1] = m
    BY <1>0, <2>2, OneMore DEF Newest
  <2>4. mounted /\ mounted' = mounted
    BY <1>3 DEF ShowModel
  <2>5. scene' = {}
    BY <2>1, <2>4 DEF LastLoad, WithoutObject
  <2>6. ModelTypeOK'
    BY <1>0, <2>1, <2>3, <2>4, <2>5 DEF ModelTypeOK, LoadModel, Loads, Newest
  <2>7. LoadsDiffer'
    BY <1>0, <2>1, <2>3 DEF LoadsDiffer
  <2>8. LastLoad'
    BY <1>0, <2>1, <2>3, <2>5 DEF LastLoad, LoadModel, Loads
  <2> QED
    BY <2>6, <2>7, <2>8
<1>4. ASSUME ObjectArrives \/ ModelFails PROVE ModelInv'
  <2>1. UNCHANGED <<mounted, loadedSrc, asked>>
    BY <1>4 DEF ObjectArrives, ModelFails
  <2>2. Newest' = Newest /\ LoadsDiffer'
    BY <2>1 DEF LoadsDiffer, Newest
  <2>3. \A n \in arriving : Wanted(n) => n = Newest
    BY <1>0 DEF Wanted, ModelTypeOK, LoadsDiffer, Newest
  <2>4. CASE ObjectArrives
    <3>1. PICK n \in arriving :
            /\ arriving' = arriving \ {n}
            /\ IF Wanted(n)
                 THEN /\ currentObject' = n /\ scene' = scene \cup {n}
                      /\ modelLoading' = FALSE
                 ELSE UNCHANGED <<currentObject, scene, modelLoading>>
      BY <2>4 DEF ObjectArrives
    <3>2. modelError' = modelError
      BY <2>4 DEF ObjectArrives
    <3>3. ModelTypeOK'
      BY <1>0, <2>1, <3>1, <3>2 DEF ModelTypeOK, Newest
    <3>4. CASE Wanted(n)
      BY <1>0, <2>1, <2>2, <2>3, <3>1, <3>2, <3>3, <3>4 DEF LastLoad
    <3>5. CASE ~Wanted(n)
      <4>1. n # Newest
        BY <1>0, <3>1, <3>5 DEF Wanted, ModelTypeOK, Newest
      <4> QED
        BY <1>0, <2>1, <2>2, <3>1, <3>2, <3>3, <3>5, <4>1 DEF LastLoad
    <3> QED
      BY <3>4, <3>5
  <2>5. CASE ModelFails
    <3>1. PICK n \in arriving :
            /\ arriving' = arriving \ {n}
            /\ IF Wanted(n) THEN modelLoading' = FALSE /\ modelError' = TRUE
                            ELSE UNCHANGED <<modelLoading, modelError>>
      BY <2>5 DEF ModelFails
    <3>2. UNCHANGED <<scene, currentObject>>
      BY <2>5 DEF ModelFails
    <3>3. ModelTypeOK'
      BY <1>0, <2>1, <3>1, <3>2 DEF ModelTypeOK, Newest
    <3>4. CASE Wanted(n)
      BY <1>0, <2>1, <2>2, <2>3, <3>1, <3>2, <3>3, <3>4 DEF LastLoad
    <3>5. CASE ~Wanted(n)
      <4>1. n # Newest
        BY <1>0, <3>1, <3>5 DEF Wanted, ModelTypeOK, Newest
      <4> QED
        BY <1>0, <2>1, <2>2, <3>1, <3>2, <3>3, <3>5, <4>1 DEF LastLoad
    <3> QED
      BY <3>4, <3>5
  <2> QED
    BY <1>4, <2>4, <2>5
<1>5. CASE Cleanup
  BY <1>0, <1>5 DEF Cleanup, WithoutObject, ModelTypeOK, LoadsDiffer, LastLoad
<1> QED
  BY <1>1, <1>2, <1>3, <1>4, <1>5 DEF ModelNext, ModelUser, ModelAnswers

\* The 3D viewer never shows two models at once, nor one that was left, nor one
\* beside the overlay that says it is loading or has failed, for any models
\* and any order in which the loaders call back, as long as no model is opened
\* again while the viewer stays (loadModel of ThreeDViewer.svelte tells loads
\* apart by their source only).
THEOREM SceneCurrent ==
  ASSUME ~Revisit PROVE ModelSpec => []SceneHoldsCurrent
<1>1. ModelInv => SceneHoldsCurrent
  <2> SUFFICES ASSUME ModelInv, mounted
               PROVE  /\ scene = {currentObject} \ {0}
                      /\ currentObject # 0 => asked[currentObject] = loadedSrc
                      /\ (currentObject = 0) <=> (modelLoading \/ modelError)
    BY DEF SceneHoldsCurrent
  <2>1. /\ currentObject \in {0, Newest} /\ scene = {currentObject} \ {0}
        /\ Newest \in arriving => modelLoading /\ ~modelError /\ currentObject = 0
        /\ Newest \notin arriving => ~modelLoading /\ (modelError <=> currentObject = 0)
    BY DEF ModelInv, LastLoad
  <2>2. loadedSrc = asked[Newest]
    BY DEF ModelInv, LastLoad, ModelTypeOK, Newest
  <2>3. (currentObject = 0) <=> (modelLoading \/ modelError)
    BY <2>1 DEF ModelInv, ModelTypeOK
  <2> QED
    BY <2>1, <2>2, <2>3
<1>2. ModelInv /\ [ModelNext]_modelVars => ModelInv'
  BY ModelInvStep
<1> QED
  BY <1>1, <1>2, ModelInvInit, PTL DEF ModelSpec

-----------------------------------------------------------------------------
(* The text viewer and its editor *)

\* The editor is on only where a file is open.
ViewerTyped == ViewerTypeOK /\ (editorMode => viewerFile # NoFile)

(* The parts of the inductive invariant.  Each is about what is open until an *)
(* answer that does not belong to it has changed it.                          *)

\* A save begins when no other is on its way; a text is asked for once in each
\* opening; and nothing comes from an opening that is yet to be.
CallsApart ==
  /\ \A q, r \in saving : q = r
  /\ saving # {} => editorSaving
  /\ \A q, r \in fetching : q.open = r.open => q = r
  /\ \A r \in fetching \cup saving : r.open <= opens

\* What an answer that is not late belongs to.
Current(r) == ~Late(r) /\ viewerFile # NoFile /\ ~strayed

\* A text that is asked for is the one of the open file, which shows nothing
\* yet.
FetchOf ==
  \A r \in fetching : Current(r) =>
    /\ viewerFile = r.of /\ ~viewerText.known
    /\ r.served => r.content = stored[viewerFile]

\* What is being saved is a version of the open file.
SaveOf ==
  \A r \in saving : Current(r) =>
    /\ viewerFile = r.of /\ viewerText.known
    /\ r.content.of = stored[viewerFile].of
    /\ r.served => stored[viewerFile] = r.content

\* The text that is shown is what the server has, unless a save has been
\* served and not answered.
TextOf ==
  ~strayed /\ viewerText.known /\ viewerFile # NoFile =>
    /\ viewerText.content.of = stored[viewerFile].of
    /\ viewerFile \notin unsure /\ (\A r \in saving : Late(r) \/ ~r.served)
         => viewerText.content = stored[viewerFile]

\* The editor is only there for a text that is shown, and differs from it only
\* when Save is offered.
EditorOf ==
  ~strayed /\ editor.on =>
    /\ viewerText.known /\ editor.content.of = stored[viewerFile].of
    /\ ~editorDirty => editor.content = viewerText.content

ViewerInv ==
  /\ ViewerTyped
  /\ CallsApart /\ FetchOf /\ SaveOf /\ TextOf /\ EditorOf

-----------------------------------------------------------------------------
(* Types of the viewer *)

\* The contents that the viewer starts with.
LEMMA EmptyContents ==
  /\ NoText \in [known : BOOLEAN, content : Contents]
  /\ NoEditor \in [on : BOOLEAN, content : Contents]
  /\ Empty \in Contents /\ \A f \in Files : [of |-> f, rev |-> 0] \in Contents
<1>1. 0 \in 0..MaxRev
  BY ViewerAssumption
<1> QED
  BY <1>1 DEF NoText, NoEditor, Empty, Contents

\* The types at the start.
LEMMA ViewerTypedInit == ViewerInit => ViewerTyped
<1> SUFFICES ASSUME ViewerInit PROVE ViewerTyped
  OBVIOUS
<1> USE DEF ViewerInit
<1>1. stored \in [Files -> Contents] /\ viewerFile \in Files \cup {NoFile}
  BY EmptyContents
<1>2. /\ viewerText \in [known : BOOLEAN, content : Contents]
      /\ editor \in [on : BOOLEAN, content : Contents]
  BY EmptyContents
<1>3. {editorMode, editorDirty, editorSaving, strayed} \subseteq BOOLEAN
  OBVIOUS
<1>4. ~editor.on /\ ~editorMode
  BY DEF NoEditor
<1>5. revs \in 0..MaxRev /\ opens \in Nat
  BY ViewerAssumption
<1>6. /\ unsure \subseteq Files /\ fetching \subseteq Calls /\ saving \subseteq Calls
      /\ codeEditor \in {"none", "loading", "loaded"}
  OBVIOUS
<1> QED
  BY <1>1, <1>2, <1>3, <1>4, <1>5, <1>6 DEF ViewerTyped, ViewerTypeOK

\* What the user does keeps the types of the viewer.
LEMMA ViewerUserTyped == ViewerTyped /\ ViewerUser => ViewerTyped'
<1> SUFFICES ASSUME ViewerTyped, ViewerUser PROVE ViewerTyped'
  OBVIOUS
<1> USE DEF ViewerTyped, ViewerTypeOK
<1>1. ASSUME NEW f \in Files, OpenViewer(f) PROVE ViewerTyped'
  <2>1. opens' \in Nat
    BY <1>1 DEF OpenViewer
  <2>2. [of |-> f, open |-> opens', served |-> FALSE, content |-> Empty] \in Calls
    BY <2>1, EmptyContents DEF Calls
  <2>3. ~NoEditor.on
    BY DEF NoEditor
  <2> QED
    BY <1>1, <2>1, <2>2, <2>3, EmptyContents, ViewerAssumption DEF OpenViewer, FirstMode
<1>2. CASE CloseViewer
  <2>1. ~NoEditor.on
    BY DEF NoEditor
  <2> QED
    BY <1>2, <2>1, EmptyContents DEF CloseViewer
<1>3. CASE Edit
  <2>1. /\ Editing(viewerText) \in [on : BOOLEAN, content : Contents]
        /\ Editing(viewerText).on
    BY DEF Editing
  <2>2. strayed' \in BOOLEAN
    BY <1>3 DEF Edit, Strays, TooEarly
  <2> QED
    BY <1>3, <2>1, <2>2 DEF Edit
<1>4. CASE Preview
  <2>1. ~NoEditor.on
    BY DEF NoEditor
  <2> QED
    BY <1>4, <2>1, EmptyContents DEF Preview
<1>5. CASE Type
  <2>1. revs' \in 0..MaxRev
    BY <1>5, ViewerAssumption DEF Type
  <2>2. editor' \in [on : BOOLEAN, content : Contents] /\ editor'.on = editor.on
    BY <1>5, <2>1 DEF Type, Contents
  <2> QED
    BY <1>5, <2>1, <2>2 DEF Type
<1>6. CASE SaveEditorContent
  <2>1. [of |-> viewerFile, open |-> opens, served |-> FALSE,
         content |-> editor.content] \in Calls
    BY <1>6 DEF SaveEditorContent, Calls
  <2> QED
    BY <1>6, <2>1 DEF SaveEditorContent
<1> QED
  BY <1>1, <1>2, <1>3, <1>4, <1>5, <1>6 DEF ViewerUser, ViewerPanel

\* And so do the answers.
LEMMA ViewerAnswersTyped == ViewerTyped /\ ViewerAnswers => ViewerTyped'
<1> SUFFICES ASSUME ViewerTyped, ViewerAnswers PROVE ViewerTyped'
  OBVIOUS
<1> USE DEF ViewerTyped, ViewerTypeOK
<1>1. CASE EditorMounts
  <2>1. /\ Editing(viewerText) \in [on : BOOLEAN, content : Contents]
        /\ Editing(viewerText).on
    BY DEF Editing
  <2>2. strayed' \in BOOLEAN
    BY <1>1 DEF EditorMounts, Strays, TooEarly
  <2> QED
    BY <1>1, <2>1, <2>2 DEF EditorMounts
<1>2. ASSUME NEW r \in fetching, TextServed(r) PROVE ViewerTyped'
  <2>1. [r EXCEPT !.served = TRUE, !.content = stored[r.of]] \in Calls
    BY DEF Calls
  <2> QED
    BY <1>2, <2>1 DEF TextServed, editorVars
<1>3. ASSUME NEW r \in fetching, TextAnswers(r) PROVE ViewerTyped'
  <2>1. [known |-> TRUE, content |-> r.content] \in [known : BOOLEAN, content : Contents]
    BY DEF Calls
  <2>2. viewerText' \in [known : BOOLEAN, content : Contents] /\ strayed' \in BOOLEAN
    BY <1>3, <2>1 DEF TextAnswers, Strays, Late
  <2> QED
    BY <1>3, <2>2 DEF TextAnswers, editorVars
<1>4. ASSUME NEW r \in saving, SaveServed(r) PROVE ViewerTyped'
  <2>1. [r EXCEPT !.served = TRUE] \in Calls
    BY DEF Calls
  <2>2. strayed' \in BOOLEAN
    BY <1>4 DEF SaveServed, Strays, Late, Asking
  <2>3. stored' \in [Files -> Contents]
    BY <1>4 DEF SaveServed, Calls
  <2> QED
    BY <1>4, <2>1, <2>2, <2>3 DEF SaveServed, editorVars
<1>5. ASSUME NEW r \in saving, SaveAnswers(r) PROVE ViewerTyped'
  <2>1. viewerText' \in [known : BOOLEAN, content : Contents]
    BY <1>5 DEF SaveAnswers, Calls
  <2>2. strayed' \in BOOLEAN
    BY <1>5 DEF SaveAnswers, Strays, Late, TypedOn
  <2> QED
    BY <1>5, <2>1, <2>2 DEF SaveAnswers
<1>6. ASSUME NEW r \in saving, SaveFails(r) PROVE ViewerTyped'
  BY <1>6 DEF SaveFails, Calls
<1> QED
  BY <1>1, <1>2, <1>3, <1>4, <1>5, <1>6 DEF ViewerAnswers

\* Every step of the viewer.
LEMMA ViewerTypedStep == ViewerTyped /\ [ViewerNext]_viewerVars => ViewerTyped'
<1>1. CASE ViewerTyped /\ UNCHANGED viewerVars
  BY <1>1 DEF ViewerTyped, ViewerTypeOK, viewerVars, editorVars
<1> QED
  BY <1>1, ViewerUserTyped, ViewerAnswersTyped DEF ViewerNext

-----------------------------------------------------------------------------
(* One lemma for each kind of step. *)

\* The other parts of the invariant.
ViewerParts == CallsApart /\ FetchOf /\ SaveOf /\ TextOf /\ EditorOf

\* At the start no file is open.
LEMMA ViewerInvInit == ViewerInit => ViewerInv
<1> SUFFICES ASSUME ViewerInit PROVE ViewerParts
  BY ViewerTypedInit DEF ViewerInv, ViewerParts
<1> QED
  BY DEF ViewerInit, ViewerParts, CallsApart, FetchOf, SaveOf, TextOf, EditorOf,
     NoText, NoEditor

\* A file is opened: all that is on its way is late.
LEMMA OpenKeeps ==
  ASSUME ViewerInv, NEW f \in Files, OpenViewer(f) PROVE ViewerParts'
<1> DEFINE r == [of |-> f, open |-> opens', served |-> FALSE, content |-> Empty]
<1> USE DEF ViewerInv, OpenViewer, FirstMode
<1>1. /\ opens \in Nat /\ opens' = opens + 1 /\ r.open = opens'
      /\ fetching' = fetching \cup {r} /\ saving' = saving
      /\ \A q \in fetching \cup saving : q.open \in Nat
      /\ ~viewerText'.known /\ ~editor'.on /\ viewerFile' = f
      /\ editorSaving' = editorSaving
  BY DEF ViewerTyped, ViewerTypeOK, Calls, NoText, NoEditor
<1>2. \A q \in fetching \cup saving : q.open < opens' /\ q.open <= opens'
  BY <1>1 DEF CallsApart
<1>3. CallsApart'
  <2>1. \A q \in fetching' \cup saving' : q.open <= opens'
    <3> HIDE DEF r
    <3> QED
      BY <1>1, <1>2
  <2>2. \A p, q \in fetching' : p.open = q.open => p = q
    <3> HIDE DEF r
    <3>1. \A p \in fetching : p.open # r.open
      BY <1>1, <1>2
    <3> QED
      BY <1>1, <3>1 DEF CallsApart
  <2> QED
    BY <1>1, <2>1, <2>2 DEF CallsApart
<1>4. FetchOf' /\ SaveOf'
  BY <1>1, <1>2 DEF FetchOf, SaveOf, Current, Late
<1>5. TextOf' /\ EditorOf'
  BY <1>1 DEF TextOf, EditorOf
<1> QED
  BY <1>3, <1>4, <1>5 DEF ViewerParts

\* It is closed.
LEMMA CloseKeeps ==
  ASSUME ViewerInv, CloseViewer PROVE ViewerParts'
<1> USE DEF ViewerInv, CloseViewer
<1>1. ~editor'.on /\ viewerFile' = NoFile
  BY DEF NoEditor
<1>2. CallsApart'
  BY DEF CallsApart
<1>3. FetchOf' /\ SaveOf' /\ TextOf' /\ EditorOf'
  BY <1>1 DEF FetchOf, SaveOf, TextOf, EditorOf, Current
<1> QED
  BY <1>2, <1>3 DEF ViewerParts

\* The editor appears, at once or when its module has arrived.
LEMMA AppearKeeps ==
  ASSUME ViewerInv, Edit \/ EditorMounts PROVE ViewerParts'
<1> USE DEF ViewerInv
<1>1. /\ UNCHANGED <<stored, viewerFile, viewerText, editorDirty, editorSaving,
                     fetching, saving, opens, revs, unsure>>
      /\ strayed => strayed'
  BY DEF Edit, EditorMounts, Strays
<1>2. CallsApart' /\ FetchOf' /\ SaveOf' /\ TextOf'
  BY <1>1 DEF CallsApart, FetchOf, SaveOf, TextOf, Current, Late
<1>3. ~strayed' /\ editor'.on =>
        \/ editor' = editor
        \/ viewerText.known /\ editor'.content = viewerText.content
  <2>1. /\ editor' \in {editor, Editing(viewerText)}
        /\ editor' = editor \/ (strayed' <=> strayed \/ TooEarly)
    BY DEF Edit, EditorMounts, Strays
  <2> QED
    BY <2>1 DEF TooEarly, Editing
<1>4. editor'.on => viewerFile # NoFile
  BY DEF Edit, EditorMounts, Editing, ViewerTyped, ViewerTypeOK
<1>5. EditorOf'
  BY <1>1, <1>3, <1>4 DEF EditorOf, TextOf
<1> QED
  BY <1>2, <1>5 DEF ViewerParts

\* It is left, or typed in.
LEMMA EditKeeps ==
  ASSUME ViewerInv, Preview \/ Type PROVE ViewerParts'
<1> USE DEF ViewerInv
<1>1. UNCHANGED <<stored, viewerFile, viewerText, editorSaving, fetching,
                  saving, opens, unsure, strayed>>
  BY DEF Preview, Type
<1>2. CallsApart' /\ FetchOf' /\ SaveOf' /\ TextOf'
  BY <1>1 DEF CallsApart, FetchOf, SaveOf, TextOf, Current, Late
<1>3. editor'.on => /\ editor.on /\ editor'.content.of = editor.content.of
                    /\ editorDirty'
  <2>1. CASE Preview
    BY <2>1 DEF Preview, NoEditor
  <2>2. CASE Type
    BY <2>2 DEF Type, ViewerTyped, ViewerTypeOK, Contents
  <2> QED
    BY <2>1, <2>2
<1>4. EditorOf'
  BY <1>1, <1>3 DEF EditorOf
<1> QED
  BY <1>2, <1>4 DEF ViewerParts

\* Save, which begins.
LEMMA SaveKeeps ==
  ASSUME ViewerInv, SaveEditorContent PROVE ViewerParts'
<1> DEFINE r == [of |-> viewerFile, open |-> opens, served |-> FALSE,
                 content |-> editor.content]
<1> USE DEF ViewerInv, SaveEditorContent
<1>1. saving = {} /\ saving' = {r} /\ opens \in Nat
  BY DEF CallsApart, ViewerTyped, ViewerTypeOK
<1>2. CallsApart'
  BY <1>1 DEF CallsApart
<1>3. FetchOf'
  BY DEF FetchOf, Current, Late
<1>4. SaveOf'
  BY <1>1 DEF SaveOf, EditorOf, Current
<1>5. TextOf' /\ EditorOf'
  BY <1>1 DEF TextOf, EditorOf
<1> QED
  BY <1>2, <1>3, <1>4, <1>5 DEF ViewerParts

\* A text is read by the server.
LEMMA TextServedKeeps ==
  ASSUME ViewerInv, NEW r \in fetching, TextServed(r) PROVE ViewerParts'
<1> DEFINE q == [r EXCEPT !.served = TRUE, !.content = stored[r.of]]
<1> USE DEF ViewerInv, TextServed
<1>1. /\ fetching' = (fetching \ {r}) \cup {q}
      /\ q.of = r.of /\ q.open = r.open /\ q.content = stored[r.of]
  BY DEF ViewerTyped, ViewerTypeOK, Calls
<1>2. UNCHANGED <<stored, viewerFile, viewerText, editorMode, editorDirty,
                  editorSaving, codeEditor, editor, saving, opens, unsure, strayed>>
  BY DEF editorVars
<1>3. CallsApart'
  BY <1>1, <1>2 DEF CallsApart
<1>4. FetchOf'
  <2> HIDE DEF q
  <2>1. ASSUME NEW p \in fetching', Current(p)'
        PROVE  /\ viewerFile = p.of /\ ~viewerText.known
               /\ p.served => p.content = stored[viewerFile]
    <3>1. CASE p = q
      <4>1. Current(r)
        BY <1>1, <1>2, <2>1, <3>1 DEF Current, Late
      <4> QED
        BY <1>1, <3>1, <4>1 DEF FetchOf
    <3>2. CASE p \in fetching
      BY <1>2, <2>1, <3>2 DEF FetchOf, Current, Late
    <3> QED
      BY <1>1, <3>1, <3>2
  <2> QED
    BY <1>2, <2>1 DEF FetchOf
<1>5. SaveOf' /\ TextOf' /\ EditorOf'
  BY <1>2 DEF SaveOf, TextOf, EditorOf, Current, Late
<1> QED
  BY <1>3, <1>4, <1>5 DEF ViewerParts

\* It is shown, or its error is.
LEMMA TextAnswersKeeps ==
  ASSUME ViewerInv, NEW r \in fetching, TextAnswers(r) PROVE ViewerParts'
<1> USE DEF ViewerInv, TextAnswers
<1>1. /\ fetching' = fetching \ {r}
      /\ UNCHANGED <<stored, viewerFile, editorMode, editorDirty, editorSaving,
                     codeEditor, editor, saving, opens, unsure>>
  BY DEF editorVars
<1>2. CallsApart'
  BY <1>1 DEF CallsApart
<1>3. CASE UNCHANGED <<viewerText, strayed>>
  BY <1>1, <1>2, <1>3 DEF FetchOf, SaveOf, TextOf, EditorOf, Current, Late, ViewerParts
<1>4. CASE strayed' \/ viewerFile = NoFile
  <2>1. FetchOf' /\ SaveOf' /\ TextOf'
    BY <1>1, <1>4 DEF FetchOf, SaveOf, TextOf, Current
  <2>2. ~editor.on \/ strayed'
    BY <1>4 DEF ViewerTyped, ViewerTypeOK
  <2> QED
    BY <1>1, <1>2, <2>1, <2>2 DEF EditorOf, ViewerParts
<1>5. CASE /\ viewerText' = [known |-> TRUE, content |-> r.content]
           /\ ~strayed /\ ~strayed' /\ ~Late(r) /\ viewerFile # NoFile
  <2>1. /\ viewerFile = r.of /\ ~viewerText.known
        /\ r.content = stored[viewerFile]
    BY <1>5 DEF FetchOf, Current
  <2>2. \A q \in fetching' : Late(q)
    BY <1>1, <1>5 DEF CallsApart, Late
  <2>3. FetchOf' /\ SaveOf'
    BY <1>1, <1>5, <2>2 DEF FetchOf, SaveOf, Current, Late
  <2>4. ~editor.on
    BY <1>5, <2>1 DEF EditorOf
  <2>5. TextOf' /\ EditorOf'
    BY <1>1, <1>5, <2>1, <2>4 DEF TextOf, EditorOf
  <2> QED
    BY <1>2, <2>3, <2>5 DEF ViewerParts
<1> QED
  BY <1>3, <1>4, <1>5 DEF Strays

\* A content is stored by the server.
LEMMA SaveServedKeeps ==
  ASSUME ViewerInv, NEW r \in saving, SaveServed(r) PROVE ViewerParts'
<1> DEFINE q == [r EXCEPT !.served = TRUE]
<1> USE DEF ViewerInv, SaveServed
<1>1. /\ saving = {r} /\ saving' = {q}
      /\ q.of = r.of /\ q.open = r.open /\ q.content = r.content /\ q.served
      /\ r.of \in Files
  BY DEF CallsApart, ViewerTyped, ViewerTypeOK, Calls
<1>2. UNCHANGED <<viewerFile, viewerText, editorMode, editorDirty,
                  editorSaving, codeEditor, editor, fetching, opens, unsure>>
  BY DEF editorVars
<1>3. /\ \A f \in Files : f # r.of => stored'[f] = stored[f]
      /\ stored'[r.of] = r.content
  BY <1>1 DEF ViewerTyped, ViewerTypeOK
<1>4. /\ viewerFile \in Files \cup {NoFile}
      /\ editor.on => viewerFile # NoFile
  BY DEF ViewerTyped, ViewerTypeOK
<1>5. CallsApart'
  BY <1>1, <1>2 DEF CallsApart
<1>6. CASE strayed' \/ viewerFile = NoFile
  <2>1. FetchOf' /\ SaveOf' /\ TextOf' /\ EditorOf'
    BY <1>2, <1>4, <1>6 DEF FetchOf, SaveOf, TextOf, EditorOf, Current
  <2> QED
    BY <1>5, <2>1 DEF ViewerParts
<1>7. CASE ~Late(r) /\ ~strayed /\ ~strayed' /\ viewerFile # NoFile
  <2>1. /\ viewerFile = r.of /\ viewerText.known
        /\ r.content.of = stored[viewerFile].of
    BY <1>7 DEF SaveOf, Current
  <2>2. FetchOf'
    BY <1>2, <1>7, <2>1 DEF FetchOf, Current, Late
  <2>3. SaveOf'
    BY <1>1, <1>2, <1>3, <2>1 DEF SaveOf
  <2>4. TextOf' /\ EditorOf'
    BY <1>1, <1>2, <1>3, <1>7, <2>1 DEF TextOf, EditorOf, Late
  <2> QED
    BY <1>5, <2>2, <2>3, <2>4 DEF ViewerParts
<1>8. CASE Late(r) /\ ~strayed /\ ~strayed' /\ viewerFile # NoFile
  <2>1. SaveOf'
    BY <1>1, <1>2, <1>8 DEF SaveOf, Current, Late
  <2>2. CASE viewerFile # r.of
    <3>1. stored'[viewerFile] = stored[viewerFile]
      BY <1>3, <1>4, <1>8, <2>2
    <3>2. FetchOf'
      BY <1>2, <1>8, <3>1 DEF FetchOf, Current, Late
    <3>3. TextOf' /\ EditorOf'
      BY <1>1, <1>2, <1>8, <3>1 DEF TextOf, EditorOf, Late
    <3> QED
      BY <1>5, <2>1, <3>2, <3>3 DEF ViewerParts
  <2>3. CASE viewerFile = r.of
    <3>1. PICK p \in fetching : ~Late(p) /\ ~p.served
      BY <1>8, <2>3 DEF Strays, Asking
    <3>2. ~viewerText.known
      BY <1>8, <3>1 DEF FetchOf, Current
    <3>3. FetchOf'
      BY <1>2, <1>8, <3>1, <3>2 DEF FetchOf, CallsApart, Current, Late
    <3>4. TextOf' /\ EditorOf'
      BY <1>2, <1>8, <3>2 DEF TextOf, EditorOf
    <3> QED
      BY <1>5, <2>1, <3>3, <3>4 DEF ViewerParts
  <2> QED
    BY <2>2, <2>3
<1> QED
  BY <1>6, <1>7, <1>8 DEF Strays

\* Its answer.
LEMMA SaveAnswersKeeps ==
  ASSUME ViewerInv, NEW r \in saving, SaveAnswers(r) PROVE ViewerParts'
<1> USE DEF ViewerInv, SaveAnswers
<1>1. saving = {r} /\ saving' = {} /\ viewerText'.known = viewerText.known
  BY DEF CallsApart, ViewerTyped, ViewerTypeOK
<1>2. CallsApart'
  BY <1>1 DEF CallsApart
<1>3. FetchOf' /\ SaveOf'
  BY <1>1 DEF FetchOf, SaveOf, Current, Late, Strays
<1>4. editor.on => viewerFile # NoFile
  BY DEF ViewerTyped, ViewerTypeOK
<1>5. CASE strayed' \/ viewerFile = NoFile \/ ~viewerText.known
  BY <1>1, <1>2, <1>3, <1>4, <1>5 DEF TextOf, EditorOf, ViewerParts, Strays
<1>6. CASE ~strayed' /\ viewerFile # NoFile /\ viewerText.known
  <2>1. ~strayed /\ ~Late(r) /\ ~TypedOn(r)
    BY <1>6 DEF Strays
  <2>2. /\ viewerFile = r.of /\ stored[viewerFile] = r.content
    BY <1>6, <2>1 DEF SaveOf, Current
  <2>3. viewerText'.content = r.content
    BY <1>6 DEF ViewerTyped, ViewerTypeOK
  <2>4. editor.on => editor.content = r.content
    BY <2>1 DEF TypedOn
  <2>5. TextOf' /\ EditorOf'
    BY <1>6, <1>1, <2>2, <2>3, <2>4 DEF TextOf, EditorOf
  <2> QED
    BY <1>2, <1>3, <2>5 DEF ViewerParts
<1> QED
  BY <1>5, <1>6 DEF ViewerTyped, ViewerTypeOK

\* A save fails, or seems to.
LEMMA SaveFailsKeeps ==
  ASSUME ViewerInv, NEW r \in saving, SaveFails(r) PROVE ViewerParts'
<1> USE DEF ViewerInv, SaveFails
<1>1. saving = {r} /\ saving' = {}
  BY DEF CallsApart
<1>2. CallsApart'
  BY <1>1 DEF CallsApart
<1>3. FetchOf' /\ SaveOf' /\ EditorOf'
  BY <1>1 DEF FetchOf, SaveOf, EditorOf, Current, Late
<1>4. TextOf'
  <2> SUFFICES ASSUME ~strayed, viewerText.known, viewerFile # NoFile
               PROVE  /\ viewerText.content.of = stored[viewerFile].of
                      /\ viewerFile \notin unsure'
                           => viewerText.content = stored[viewerFile]
    BY DEF TextOf
  <2>1. viewerText.content.of = stored[viewerFile].of
    BY DEF TextOf
  <2>2. ASSUME viewerFile \notin unsure'
        PROVE  viewerFile \notin unsure /\ (Late(r) \/ ~r.served)
    BY <2>2 DEF SaveOf, Current
  <2> QED
    BY <1>1, <2>1, <2>2 DEF TextOf
<1> QED
  BY <1>2, <1>3, <1>4 DEF ViewerParts

-----------------------------------------------------------------------------
\* Every step keeps the invariant of the editor.
LEMMA ViewerInvStep == ViewerInv /\ [ViewerNext]_viewerVars => ViewerInv'
<1> SUFFICES ASSUME ViewerInv, [ViewerNext]_viewerVars PROVE ViewerParts'
  BY ViewerTypedStep DEF ViewerInv, ViewerParts
<1>1. CASE UNCHANGED viewerVars
  BY <1>1 DEF viewerVars, editorVars, ViewerInv, ViewerParts, CallsApart, FetchOf,
     SaveOf, TextOf, EditorOf, Current, Late
<1>2. CASE ViewerUser
  BY <1>2, OpenKeeps, CloseKeeps, AppearKeeps, EditKeeps, SaveKeeps
     DEF ViewerUser, ViewerPanel
<1>3. CASE ViewerAnswers
  BY <1>3, AppearKeeps, TextServedKeeps, TextAnswersKeeps, SaveServedKeeps,
     SaveAnswersKeeps, SaveFailsKeeps DEF ViewerAnswers
<1> QED
  BY <1>1, <1>2, <1>3 DEF ViewerNext

\* Save never puts one file's text into another and is offered whenever there
\* is something to save, until an answer that does not belong to what is open
\* has changed it: for every user, any files and any number of openings and
\* changes (openViewer and saveEditorContent of App.svelte, onMount of
\* CodeEditor.svelte).
THEOREM EditorRight == ViewerSpec => []EditorShowsFile
<1>1. ViewerInv => EditorShowsFile
  <2> SUFFICES ASSUME ViewerInv, ~strayed, editor.on
               PROVE  /\ editor.content.of = stored[viewerFile].of
                      /\ ~editorDirty /\ saving = {} /\ viewerFile \notin unsure
                           => editor.content = stored[viewerFile]
    BY DEF EditorShowsFile
  <2>1. viewerFile # NoFile
    BY DEF ViewerInv, ViewerTyped, ViewerTypeOK
  <2> QED
    BY <2>1 DEF ViewerInv, EditorOf, TextOf
<1> QED
  BY <1>1, ViewerInvInit, ViewerInvStep, PTL DEF ViewerSpec

-----------------------------------------------------------------------------
(* The search dialog and the info panel *)

\* Searches for one query only are on their way, and it is the one in the
\* field unless the timer is about to ask for another.
SearchesAgree ==
  ~crossed =>
    \A c \in SearchCalls : searches[c] # Blank =>
      /\ searchQuery # Blank
      /\ ~searchDebounce => searches[c] = searchQuery
      /\ \A d \in SearchCalls : searches[d] \in {Blank, searches[c]}

SearchInv ==
  /\ searchQuery = Blank => ~searchDebounce
  /\ SearchesAgree
  /\ ~crossed /\ ~searchDebounce /\ OnTheirWay = {} => searchResults = searchQuery

\* What is read for the panel is about the file it shows, and the label says
\* so at least as long as a read is pending.
InfoInv ==
  /\ ~mixed /\ infoEntry # NoShot =>
       /\ infoExif \in {NoShot, infoEntry}
       /\ \A c \in SearchCalls : reads[c] \in {NoShot, infoEntry}
  /\ (\A c \in SearchCalls : reads[c] = NoShot) => ~infoExifLoading

FoundInv == SearchTypeOK /\ SearchInv /\ InfoInv

\* At the start nothing has been searched.
LEMMA FoundInit == SearchInit => FoundInv
BY SearchAssumption
   DEF SearchInit, FoundInv, SearchTypeOK, SearchInv, SearchesAgree, InfoInv,
       OnTheirWay

\* Nothing is on its way exactly when every slot is free.
LEMMA NoneOnTheirWay == OnTheirWay = {} <=> \A c \in SearchCalls : searches[c] = Blank
BY DEF OnTheirWay

\* A search that begins: it is for the query in the field.
LEMMA Submitting ==
  ASSUME FoundInv, SubmitSearch, UNCHANGED searchQuery, searchDebounce' \in BOOLEAN
  PROVE  /\ searches' \in [SearchCalls -> Queries \cup {Blank}]
         /\ crossed' \in BOOLEAN
         /\ searchResults' \in Queries \cup {Blank} /\ searchOpen' \in BOOLEAN
         /\ ~crossed' => /\ SearchesAgree'
                         /\ OnTheirWay' = {} => searchResults' = searchQuery
<1> USE DEF FoundInv, SearchTypeOK
<1>1. CASE searchQuery = Blank
  <2>1. UNCHANGED <<searches, crossed>> /\ searchResults' = Blank /\ searchOpen' = FALSE
    BY <1>1 DEF SubmitSearch
  <2>2. ~crossed => \A c \in SearchCalls : searches[c] = Blank
    BY <1>1 DEF SearchInv, SearchesAgree
  <2> QED
    BY <1>1, <2>1, <2>2 DEF SearchesAgree
<1>2. ASSUME searchQuery # Blank, NEW c \in FreeCall(searches, Blank),
             searches' = [searches EXCEPT ![c] = searchQuery]
      PROVE  /\ searches' \in [SearchCalls -> Queries \cup {Blank}]
             /\ crossed' \in BOOLEAN
             /\ searchResults' \in Queries \cup {Blank} /\ searchOpen' \in BOOLEAN
             /\ ~crossed' => SearchesAgree' /\ OnTheirWay' # {}
  <2>1. c \in SearchCalls /\ UNCHANGED <<searchResults, searchOpen>>
    BY <1>2 DEF FreeCall, SubmitSearch
  <2>2. crossed' = (OnTheirWay # {} /\ (crossed \/ OnTheirWay # {searchQuery}))
    BY <1>2 DEF SubmitSearch
  <2>3. ASSUME ~crossed'
        PROVE  \A d \in SearchCalls : searches[d] \in {Blank, searchQuery}
    BY <2>2, <2>3 DEF OnTheirWay
  <2>4. ~crossed' => \A d \in SearchCalls : searches'[d] \in {Blank, searchQuery}
    BY <1>2, <2>1, <2>3
  <2>5. searches'[c] = searchQuery
    BY <1>2, <2>1
  <2>6. OnTheirWay' # {}
    BY <1>2, <2>1, <2>5 DEF OnTheirWay
  <2>7. searches' \in [SearchCalls -> Queries \cup {Blank}] /\ crossed' \in BOOLEAN
    BY <1>2, <2>1, <2>2
  <2>8. ~crossed' => SearchesAgree'
    BY <1>2, <2>4 DEF SearchesAgree
  <2> QED
    BY <2>1, <2>6, <2>7, <2>8
<1> QED
  BY <1>1, <1>2 DEF SubmitSearch

\* The steps of the search dialog.
LEMMA SearchesStep ==
  ASSUME FoundInv, SearchUser \/ SearchGoesOn
  PROVE  FoundInv'
<1> USE DEF FoundInv
<1>0. ASSUME UNCHANGED infoVars PROVE InfoInv'
  BY <1>0 DEF infoVars, InfoInv
<1>1. CASE OnSearchInput
  <2> PICK q \in (Queries \cup {Blank}) \ {searchQuery} :
         /\ searchQuery' = q
         /\ IF q = Blank
              THEN /\ searchOpen' = FALSE /\ searchResults' = Blank
                   /\ searchDebounce' = FALSE
                   /\ crossed' = (crossed \/ OnTheirWay # {})
              ELSE /\ searchDebounce' = TRUE
                   /\ UNCHANGED <<searchOpen, searchResults, crossed>>
    BY <1>1 DEF OnSearchInput, Debounces
  <2>1. UNCHANGED <<searches, infoVars>>
    BY <1>1 DEF OnSearchInput
  <2>2. CASE q = Blank
    <3>1. ~crossed' => \A c \in SearchCalls : searches'[c] = Blank
      BY <2>1, <2>2, NoneOnTheirWay
    <3>2. SearchInv'
      BY <2>1, <2>2, <3>1 DEF SearchInv, SearchesAgree
    <3> QED
      BY <1>0, <2>1, <2>2, <3>2 DEF SearchTypeOK, infoVars
  <2>3. CASE q # Blank
    <3>1. SearchInv'
      BY <2>1, <2>3 DEF SearchInv, SearchesAgree
    <3> QED
      BY <1>0, <2>1, <2>3, <3>1 DEF SearchTypeOK, infoVars
  <2> QED
    BY <2>2, <2>3
<1>2. CASE PressEnter
  <2>1. SubmitSearch /\ UNCHANGED <<searchQuery, searchDebounce, infoVars>>
    BY <1>2 DEF PressEnter
  <2> QED
    BY <1>0, <2>1, Submitting DEF SearchInv, SearchesAgree, SearchTypeOK, infoVars
<1>3. CASE SearchTimerFires
  <2>1. SubmitSearch /\ UNCHANGED <<searchQuery, infoVars>> /\ searchDebounce' = FALSE
    BY <1>3 DEF SearchTimerFires
  <2> QED
    BY <1>0, <2>1, Submitting DEF SearchInv, SearchesAgree, SearchTypeOK, infoVars
<1>4. CASE ShowSearch
  BY <1>0, <1>4 DEF ShowSearch, SearchInv, SearchesAgree, SearchTypeOK, infoVars,
                    OnTheirWay
<1>5. ASSUME NEW c \in SearchCalls, SearchAnswers(c) \/ SearchFails(c)
      PROVE  FoundInv'
  <2>1. /\ searches' = [searches EXCEPT ![c] = Blank] /\ searches[c] # Blank
        /\ UNCHANGED <<searchQuery, searchDebounce, infoVars>>
    BY <1>5 DEF SearchAnswers, SearchFails
  <2>2. /\ searches' \in [SearchCalls -> Queries \cup {Blank}]
        /\ \A d \in SearchCalls : searches'[d] \in {Blank, searches[d]}
    BY <2>1 DEF SearchTypeOK
  <2>3. CASE SearchAnswers(c)
    <3>1. searchResults' = searches[c] /\ UNCHANGED crossed /\ searchOpen' = TRUE
      BY <2>3 DEF SearchAnswers
    <3>2. SearchesAgree'
      BY <2>1, <2>2, <3>1 DEF SearchInv, SearchesAgree
    <3>3. ~crossed' /\ ~searchDebounce' => searchResults' = searchQuery'
      BY <2>1, <3>1 DEF SearchInv, SearchesAgree
    <3>4. SearchTypeOK'
      BY <2>1, <2>2, <3>1 DEF SearchTypeOK, infoVars
    <3> QED
      BY <1>0, <2>1, <3>2, <3>3, <3>4 DEF SearchInv
  <2>4. CASE SearchFails(c)
    <3>1. crossed' /\ UNCHANGED <<searchResults, searchOpen>>
      BY <2>4 DEF SearchFails
    <3> QED
      BY <1>0, <2>1, <2>2, <3>1
         DEF SearchInv, SearchesAgree, SearchTypeOK, infoVars
  <2> QED
    BY <1>5, <2>3, <2>4
<1> QED
  BY <1>1, <1>2, <1>3, <1>4, <1>5 DEF SearchUser, SearchGoesOn

\* The steps of the info panel.
LEMMA InfoStep ==
  ASSUME FoundInv, InfoUser \/ InfoGoesOn
  PROVE  FoundInv'
<1> USE DEF FoundInv
<1>0. UNCHANGED searchVars
  BY DEF InfoUser, InfoGoesOn, OpenInfoPanel, CloseInfoPanel, InfoAnswers
<1>1. SearchInv'
  BY <1>0 DEF searchVars, SearchInv, SearchesAgree, OnTheirWay
<1>2. CASE OpenInfoPanel
  <2> PICK e \in Shots \cup {NoShot} :
         /\ infoEntry' = e /\ infoExif' = NoShot
         /\ mixed' = \E c \in SearchCalls : reads[c] \notin {NoShot, e}
         /\ IF e \in Photos
              THEN /\ infoExifLoading' = TRUE
                   /\ \E c \in FreeCall(reads, NoShot) :
                        reads' = [reads EXCEPT ![c] = e]
              ELSE UNCHANGED <<infoExifLoading, reads>>
    BY <1>2 DEF OpenInfoPanel
  <2>1. CASE e \in Photos
    <3> PICK c \in FreeCall(reads, NoShot) : reads' = [reads EXCEPT ![c] = e]
      BY <2>1
    <3>1. c \in SearchCalls /\ e # NoShot
      BY <2>1, SearchAssumption DEF FreeCall
    <3>2. reads'[c] = e /\ \A d \in SearchCalls : reads'[d] \in {reads[d], e}
      BY <3>1 DEF SearchTypeOK
    <3>3. InfoInv'
      BY <3>1, <3>2 DEF InfoInv
    <3>4. SearchTypeOK'
      BY <1>0, <2>1, <3>1 DEF SearchTypeOK, searchVars
    <3> QED
      BY <1>1, <3>3, <3>4
  <2>2. CASE e \notin Photos
    <3>1. InfoInv'
      BY <2>2 DEF InfoInv
    <3>2. SearchTypeOK'
      BY <1>0, <2>2 DEF SearchTypeOK, searchVars
    <3> QED
      BY <1>1, <3>1, <3>2
  <2> QED
    BY <2>1, <2>2
<1>3. CASE CloseInfoPanel
  BY <1>0, <1>1, <1>3 DEF CloseInfoPanel, InfoInv, SearchTypeOK, searchVars
<1>4. ASSUME NEW c \in SearchCalls, InfoAnswers(c)
      PROVE  FoundInv'
  <2>1. /\ reads' \in [SearchCalls -> Photos \cup {NoShot}]
        /\ \A d \in SearchCalls : reads'[d] \in {NoShot, reads[d]}
        /\ reads[c] \in Photos \cup {NoShot}
    BY <1>4 DEF InfoAnswers, SearchTypeOK
  <2>2. InfoInv'
    BY <1>4, <2>1 DEF InfoAnswers, InfoInv
  <2>3. SearchTypeOK'
    BY <1>0, <1>4, <2>1, SearchAssumption DEF InfoAnswers, SearchTypeOK, searchVars
  <2> QED
    BY <1>1, <2>2, <2>3
<1> QED
  BY <1>2, <1>3, <1>4 DEF InfoUser, InfoGoesOn

\* Every step keeps both invariants.
LEMMA FoundStep == FoundInv /\ [SearchNext]_findVars => FoundInv'
<1>1. ASSUME FoundInv, UNCHANGED findVars PROVE FoundInv'
  BY <1>1 DEF findVars, searchVars, infoVars, FoundInv, SearchTypeOK, SearchInv,
              SearchesAgree, InfoInv, OnTheirWay
<1> QED
  BY <1>1, SearchesStep, InfoStep DEF SearchNext

\* The dialog lists what its query has found and the panel the data of its
\* file, whatever order the answers come in, unless requests for different
\* things were on their way together, or one failed.
THEOREM FoundShown == SearchSpec => []FoundIsShown
<1>1. FoundInv => FoundIsShown
  BY DEF FoundInv, SearchInv, InfoInv, FoundIsShown
<1> QED
  BY <1>1, FoundInit, FoundStep, PTL DEF SearchSpec

-----------------------------------------------------------------------------
(* The trash panel *)

\* A pending call is a listing or some requests, of which some are left.
TrashCallShape ==
  \A c \in TrashCalls :
    \/ trashCalls[c] = NoTrashCall
    \/ trashCalls[c] \in [op : {"list"}, served : BOOLEAN, items : SUBSET TrashIds]
    \/ /\ trashCalls[c] \in [op : {"act"}, ids : SUBSET TrashIds,
                             left : SUBSET TrashIds, many : BOOLEAN,
                             failed : BOOLEAN]
       /\ trashCalls[c].left \subseteq trashCalls[c].ids

\* Some request has been served whose call has not been answered: it will ask
\* for the list again.
Acting ==
  \E c \in TrashCalls :
    TrashOp(c, "act") /\ trashCalls[c].left # trashCalls[c].ids

\* Unless something was missed, one listing is pending at most and no request
\* has failed; and if no request has been served since, a listing that has been
\* served is what is in the trash, and so is what the panel lists when none is
\* pending.
TrashSync ==
  ~missed =>
    /\ \A c, d \in TrashCalls : TrashOp(c, "list") /\ TrashOp(d, "list") => c = d
    /\ \A c \in TrashCalls : TrashOp(c, "act") => ~trashCalls[c].failed
    /\ Acting \/ \A c \in TrashCalls :
         TrashOp(c, "list") /\ trashCalls[c].served => trashCalls[c].items = bin
    /\ \/ Acting \/ ~trashOpen \/ trashItems = bin
       \/ \E c \in TrashCalls : TrashOp(c, "list")

TrashSelected == Range(trashSelectedIds) \subseteq trashItems

TrashInv == TrashTypeOK /\ TrashCallShape /\ TrashSync /\ TrashSelected

-----------------------------------------------------------------------------

\* The list is an array of the items.
LEMMA TrashListSeq ==
  ASSUME trashItems \subseteq TrashIds
  PROVE  /\ Cardinality(trashItems) \in Nat
         /\ TrashList \in Seq(trashItems) /\ Len(TrashList) = Cardinality(trashItems)
         /\ IsInjective(TrashList)
         /\ \A i \in trashItems : TrashPlace(i) \in 1..Cardinality(trashItems)
<1>1. IsFiniteSet(trashItems) /\ trashItems \subseteq Nat
  BY TrashAssumption, FS_Subset
<1>2. ASSUME NEW i \in trashItems
      PROVE  TrashPlace(i) \in 1..Cardinality(trashItems)
  <2>1. TrashPlace(i) = Cardinality(Below(trashItems)[i]) + 1
    BY DEF TrashPlace, Below
  <2>2. LinearOn(trashItems, Below(trashItems))
    BY <1>1, AscendingSeq
  <2>3. /\ Cardinality(trashItems) \in Nat
        /\ Cardinality(Below(trashItems)[i]) \in 0..(Cardinality(trashItems) - 1)
    BY <2>2, PlaceIn
  <2> QED
    BY <2>1, <2>3
<1> QED
  BY <1>1, <1>2, AscendingSeq DEF TrashList

\* What a step of the user selects is an array of listed items.
SelectsListed ==
  /\ trashSelectedIds' \in Seq(trashItems) /\ IsInjective(trashSelectedIds')
  /\ trashAnchorId' \in TrashIds \cup {0}

\* An array of items is one of ids, and holds items only.
LEMMA ListedOnly ==
  ASSUME NEW items \in SUBSET TrashIds, NEW s \in Seq(items)
  PROVE  s \in Seq(TrashIds) /\ Range(s) \subseteq items
BY DEF Range

\* What is selected is an array of listed items.
LEMMA SelectedSeq ==
  ASSUME TrashTypeOK, TrashSelected
  PROVE  trashSelectedIds \in Seq(trashItems)
BY DEF TrashTypeOK, TrashSelected, Range

\* One element by itself.
LEMMA OneSelected ==
  ASSUME NEW S, NEW x \in S
  PROVE  <<x>> \in Seq(S) /\ IsInjective(<<x>>)
BY DEF IsInjective

\* A click selects what is listed.
LEMMA SelectKeeps ==
  ASSUME TrashTypeOK, TrashSelected, SelectTrashItem PROVE SelectsListed
<1> USE DEF TrashTypeOK
<1>1. trashItems \subseteq TrashIds /\ trashSelectedIds \in Seq(trashItems)
  BY SelectedSeq
<1>2. PICK i \in trashItems :
        \/ trashSelectedIds' = <<i>> /\ trashAnchorId' = i
        \/ /\ trashSelectedIds' = WithToggled(trashSelectedIds, i)
           /\ trashAnchorId' = i
        \/ /\ trashAnchorId \in trashItems
           /\ trashSelectedIds' = Between(TrashPlace(trashAnchorId), TrashPlace(i))
           /\ UNCHANGED trashAnchorId
  BY DEF SelectTrashItem
<1>3. CASE trashSelectedIds' = <<i>> /\ trashAnchorId' = i
  BY <1>1, <1>3, OneSelected DEF SelectsListed
<1>4. CASE trashSelectedIds' = WithToggled(trashSelectedIds, i) /\ trashAnchorId' = i
  <2>1. CASE Contains(trashSelectedIds, i)
    <3>1. trashSelectedIds' = Kept(trashSelectedIds, Range(trashSelectedIds) \ {i})
      BY <1>4, <2>1 DEF WithToggled, Without
    <3>2. /\ trashSelectedIds' \in Seq(trashItems \cap (Range(trashSelectedIds) \ {i}))
          /\ IsInjective(trashSelectedIds')
      BY <1>1, <3>1, KeptSeq
    <3>3. trashSelectedIds' \in Seq(trashItems)
      BY <3>2
    <3> QED
      BY <1>1, <1>4, <3>2, <3>3 DEF SelectsListed
  <2>2. CASE ~Contains(trashSelectedIds, i)
    BY <1>1, <1>4, <2>2, AppendSeq DEF WithToggled, SelectsListed
  <2> QED
    BY <2>1, <2>2
<1>5. CASE /\ trashAnchorId \in trashItems
           /\ trashSelectedIds' = Between(TrashPlace(trashAnchorId), TrashPlace(i))
           /\ UNCHANGED trashAnchorId
  BY <1>1, <1>5, TrashListSeq, SliceSeq DEF Between, SelectsListed
<1> QED
  BY <1>2, <1>3, <1>4, <1>5

\* So does an arrow key.
LEMMA MoveKeeps ==
  ASSUME TrashTypeOK, TrashSelected, MoveTrashSelection PROVE SelectsListed
<1> USE DEF TrashTypeOK
<1> DEFINE n     == Cardinality(trashItems)
           at(i) == IF i \in trashItems THEN TrashPlace(i) ELSE 1
           last  == IF trashSelectedIds = <<>> THEN trashAnchorId
                    ELSE Last(trashSelectedIds)
           start == IF trashAnchorId # 0 THEN trashAnchorId
                    ELSE IF trashSelectedIds # <<>> THEN Head(trashSelectedIds) ELSE 0
           to(k) == IF k < 1 THEN 1 ELSE IF k < n THEN k ELSE n
           next(k) == TrashList[to(k)]
           from(k) == IF start = 0 THEN next(k) ELSE start
<1>1. trashItems \subseteq TrashIds /\ trashSelectedIds \in Seq(trashItems)
  BY SelectedSeq
<1>2. PICK delta \in {-1, 1} :
        \/ /\ trashSelectedIds' = <<next(at(last) + delta)>>
           /\ trashAnchorId' = next(at(last) + delta)
        \/ /\ trashSelectedIds' = IF Contains(trashSelectedIds, next(at(last) + delta))
                                    THEN trashSelectedIds
                                    ELSE Append(trashSelectedIds, next(at(last) + delta))
           /\ trashAnchorId' = next(at(last) + delta)
        \/ /\ trashSelectedIds' = Between(at(from(at(last) + delta)), to(at(last) + delta))
           /\ trashAnchorId' = from(at(last) + delta)
  BY DEF MoveTrashSelection
<1>3. n \in Nat \ {0} /\ TrashList \in [1..n -> trashItems] /\ Len(TrashList) = n
  <2>1. trashItems # {} /\ IsFiniteSet(trashItems)
    BY <1>1, TrashAssumption, FS_Subset DEF MoveTrashSelection
  <2> QED
    BY <1>1, <2>1, TrashListSeq, FS_EmptySet
<1>4. \A i : at(i) \in 1..n
  BY <1>1, <1>3, TrashListSeq
<1> DEFINE k == at(last) + delta
<1>5. k \in Int
  <2> HIDE DEF at, last
  <2> QED BY <1>3, <1>4
<1>6. to(k) \in 1..n
  <2> HIDE DEF k, n
  <2> QED BY <1>3, <1>5
<1>7. next(k) \in trashItems
  <2> HIDE DEF to, n
  <2> QED BY <1>3, <1>6
<1>8. from(k) \in TrashIds
  <2>1. trashSelectedIds # <<>> => Head(trashSelectedIds) \in trashItems
    BY <1>1, HeadTailProperties
  <2>2. start \in TrashIds \cup {0}
    BY <1>1, <2>1
  <2> HIDE DEF next, k, start
  <2> QED BY <1>1, <1>7, <2>2
<1> HIDE DEF next, from, to, at, k, n
<1>9. CASE trashSelectedIds' = <<next(k)>> /\ trashAnchorId' = next(k)
  BY <1>1, <1>7, <1>9, OneSelected DEF SelectsListed
<1>10. CASE /\ trashSelectedIds' = IF Contains(trashSelectedIds, next(k))
                                     THEN trashSelectedIds
                                     ELSE Append(trashSelectedIds, next(k))
            /\ trashAnchorId' = next(k)
  BY <1>1, <1>7, <1>10, AppendSeq DEF SelectsListed
<1>11. CASE /\ trashSelectedIds' = Between(at(from(k)), to(k))
            /\ trashAnchorId' = from(k)
  <2>1. at(from(k)) \in 1..Len(TrashList) /\ to(k) \in 1..Len(TrashList)
    BY <1>3, <1>4, <1>6
  <2>2. TrashList \in Seq(trashItems) /\ IsInjective(TrashList)
    BY <1>1, TrashListSeq
  <2> QED
    BY <1>8, <1>11, <2>1, <2>2, SliceSeq DEF Between, SelectsListed
<1> QED
  BY <1>2, <1>9, <1>10, <1>11 DEF k

-----------------------------------------------------------------------------

\* Nothing is selected at the start.
LEMMA TrashInvInit == TrashInit => TrashInv
<1> SUFFICES ASSUME TrashInit PROVE TrashInv
  OBVIOUS
<1>1. TrashTypeOK
  <2>1. <<>> \in Seq(TrashIds) /\ IsInjective(<<>>)
    BY DEF IsInjective
  <2> QED
    BY <2>1 DEF TrashInit, TrashTypeOK
<1>2. TrashCallShape /\ TrashSync
  BY DEF TrashInit, TrashCallShape, TrashSync, TrashOp, NoTrashCall
<1>3. TrashSelected
  BY DEF TrashInit, TrashSelected, Range
<1> QED
  BY <1>1, <1>2, <1>3 DEF TrashInv

\* What the panel does without a request.
LEMMA PanelKeeps ==
  ASSUME TrashInv,
         \/ SelectTrashItem \/ MoveTrashSelection \/ SelectAllTrash \/ CloseTrash
  PROVE  TrashInv'
<1> USE DEF TrashInv
<1>1. SelectsListed \/ (trashSelectedIds' = <<>> /\ UNCHANGED trashAnchorId)
  <2>1. CASE SelectAllTrash
    BY <2>1, TrashListSeq DEF SelectAllTrash, SelectsListed, TrashTypeOK
  <2>2. CASE CloseTrash
    BY <2>2, SelectedSeq DEF CloseTrash, SelectsListed, TrashTypeOK
  <2> QED
    BY <2>1, <2>2, SelectKeeps, MoveKeeps
<1>2. /\ UNCHANGED <<bin, trashItems, trashCalls, missed>>
      /\ trashOpen' \in BOOLEAN /\ (trashOpen' => trashOpen)
  BY DEF TrashTypeOK, SelectTrashItem, MoveTrashSelection, SelectAllTrash, CloseTrash
<1>3. /\ trashSelectedIds' \in Seq(trashItems) /\ IsInjective(trashSelectedIds')
      /\ trashAnchorId' \in TrashIds \cup {0}
  <2>1. <<>> \in Seq(trashItems) /\ IsInjective(<<>>)
    BY DEF IsInjective
  <2> QED
    BY <1>1, <2>1 DEF SelectsListed, TrashTypeOK
<1>4. TrashTypeOK' /\ TrashSelected'
  BY <1>2, <1>3, ListedOnly DEF TrashTypeOK, TrashSelected
<1>5. TrashCallShape'
  BY <1>2 DEF TrashCallShape, NoTrashCall
<1>6. TrashSync'
  BY <1>2 DEF TrashSync, Acting, TrashOp
<1> QED
  BY <1>4, <1>5, <1>6

\* A listing that begins, in a slot that is free or whose requests are served.
LEMMA RefreshKeeps ==
  ASSUME TrashInv, NEW c \in TrashCalls, RefreshTrash(c), ~TrashOp(c, "list"),
         UNCHANGED <<bin, trashItems>>, trashOpen' \in BOOLEAN,
         trashSelectedIds' \in Seq(trashItems), IsInjective(trashSelectedIds'),
         UNCHANGED trashAnchorId
  PROVE  TrashInv'
<1> USE DEF TrashInv
<1>1. /\ trashCalls' = [trashCalls EXCEPT ![c] = ListTrash]
      /\ DOMAIN trashCalls = TrashCalls
      /\ missed' = \E d \in TrashCalls \ {c} : trashCalls[d] # NoTrashCall
  BY DEF RefreshTrash, TurnsTo, TrashTypeOK
<1>2. TrashTypeOK' /\ TrashSelected'
  BY <1>1, ListedOnly DEF TrashTypeOK, TrashSelected
<1>3. ListTrash \in [op : {"list"}, served : BOOLEAN, items : SUBSET TrashIds]
  BY DEF ListTrash
<1>4. TrashCallShape'
  <2> SUFFICES ASSUME NEW d \in TrashCalls
               PROVE  \/ trashCalls'[d] = NoTrashCall
                      \/ trashCalls'[d] \in [op : {"list"}, served : BOOLEAN,
                                             items : SUBSET TrashIds]
                      \/ /\ trashCalls'[d] \in [op : {"act"}, ids : SUBSET TrashIds,
                                                left : SUBSET TrashIds,
                                                many : BOOLEAN, failed : BOOLEAN]
                         /\ trashCalls'[d].left \subseteq trashCalls'[d].ids
    BY DEF TrashCallShape, NoTrashCall
  <2> QED
    BY <1>1, <1>3 DEF TrashCallShape
<1>5. TrashSync'
  <2> SUFFICES ASSUME ~missed' PROVE TrashSync'
    BY DEF TrashSync
  <2>1. \A d \in TrashCalls \ {c} : trashCalls'[d] = NoTrashCall
    BY <1>1
  <2>2. trashCalls'[c] = ListTrash
    BY <1>1
  <2> QED
    BY <2>1, <2>2 DEF TrashSync, TrashOp, ListTrash, NoTrashCall
<1> QED
  BY <1>2, <1>4, <1>5

\* Requests that begin.
LEMMA AskKeeps ==
  ASSUME TrashInv, NEW ids \in SUBSET TrashIds, NEW many \in BOOLEAN,
         AskFor(ids, many),
         UNCHANGED <<bin, trashOpen, trashItems, trashSelection, missed>>
  PROVE  TrashInv'
<1> USE DEF TrashInv
<1> DEFINE call == [op |-> "act", ids |-> ids, left |-> ids, many |-> many,
                    failed |-> FALSE]
<1>1. PICK c \in TrashCalls : /\ trashCalls[c] = NoTrashCall
                              /\ trashCalls' = [trashCalls EXCEPT ![c] = call]
  BY DEF AskFor, TrashSlot, TurnsTo
<1>2. DOMAIN trashCalls = TrashCalls
  BY DEF TrashTypeOK
<1>3. /\ trashCalls'[c] = call /\ DOMAIN trashCalls' = TrashCalls
      /\ \A d \in TrashCalls \ {c} : trashCalls'[d] = trashCalls[d]
  <2> HIDE DEF call
  <2> QED BY <1>1, <1>2
<1>4. TrashTypeOK' /\ TrashSelected'
  BY <1>3 DEF TrashTypeOK, TrashSelected, trashSelection
<1>5. TrashCallShape'
  <2>1. call \in [op : {"act"}, ids : SUBSET TrashIds, left : SUBSET TrashIds,
                  many : BOOLEAN, failed : BOOLEAN] /\ call.left \subseteq call.ids
    OBVIOUS
  <2> HIDE DEF call
  <2> QED BY <1>3, <2>1 DEF TrashCallShape, NoTrashCall
<1>6. /\ trashCalls[c].op = "free" /\ call.op = "act" /\ ~call.failed
      /\ call.left = call.ids
  BY <1>1 DEF NoTrashCall
<1>7. Acting' <=> Acting
  <2> HIDE DEF call
  <2> QED BY <1>3, <1>6 DEF Acting, TrashOp
<1>8. TrashSync'
  <2> HIDE DEF call
  <2> QED BY <1>3, <1>6, <1>7 DEF TrashSync, TrashOp
<1> QED
  BY <1>4, <1>5, <1>8

\* A request is served.
LEMMA ServedKeeps ==
  ASSUME TrashInv, NEW c \in TrashCalls, TrashServed(c)
  PROVE  TrashInv'
<1> USE DEF TrashInv
<1>1. DOMAIN trashCalls = TrashCalls
  BY DEF TrashTypeOK
<1>2. /\ trashCalls[c] \in [op : {"act"}, ids : SUBSET TrashIds,
                            left : SUBSET TrashIds, many : BOOLEAN,
                            failed : BOOLEAN]
      /\ trashCalls[c].left \subseteq trashCalls[c].ids
  BY DEF TrashServed, TrashOp, TrashCallShape, NoTrashCall
<1>3. PICK i \in trashCalls[c].left, failed \in BOOLEAN :
        /\ trashCalls' = [trashCalls EXCEPT
             ![c] = [trashCalls[c] EXCEPT !.left = @ \ {i}, !.failed = failed]]
        /\ bin' \subseteq bin
        /\ \/ failed = trashCalls[c].failed /\ missed' = missed
           \/ missed' = TRUE
  <2>1. PICK i \in trashCalls[c].left :
       \/ /\ i \in bin /\ bin' = bin \ {i}
          /\ TurnsTo(c, [trashCalls[c] EXCEPT !.left = @ \ {i}])
          /\ UNCHANGED missed
       \/ /\ bin' \in {bin, bin \ {i}} /\ missed' = TRUE
          /\ TurnsTo(c, [trashCalls[c] EXCEPT !.left = @ \ {i}, !.failed = TRUE])
    BY DEF TrashServed
  <2>2. [trashCalls[c] EXCEPT !.left = @ \ {i}]
          = [trashCalls[c] EXCEPT !.left = @ \ {i}, !.failed = trashCalls[c].failed]
    BY <1>2
  <2>3. trashCalls[c].failed \in BOOLEAN
    BY <1>2
  <2> QED
    BY <2>1, <2>2, <2>3 DEF TurnsTo
<1> DEFINE call == [trashCalls[c] EXCEPT !.left = @ \ {i}, !.failed = failed]
<1>4. /\ call \in [op : {"act"}, ids : SUBSET TrashIds, left : SUBSET TrashIds,
                   many : BOOLEAN, failed : BOOLEAN]
      /\ call.left \subseteq call.ids /\ call.left # call.ids
      /\ call.op = "act" /\ call.failed = failed
  BY <1>2
<1>5. trashCalls' = [trashCalls EXCEPT ![c] = call]
  BY <1>3
<1> HIDE DEF call
<1>6. /\ trashCalls'[c] = call /\ DOMAIN trashCalls' = TrashCalls
      /\ \A d \in TrashCalls \ {c} : trashCalls'[d] = trashCalls[d]
  BY <1>1, <1>5
<1>7. UNCHANGED <<trashOpen, trashItems, trashSelectedIds, trashAnchorId>>
  BY DEF TrashServed, trashSelection
<1>8. TrashTypeOK' /\ TrashSelected'
  BY <1>3, <1>6, <1>7 DEF TrashTypeOK, TrashSelected
<1>9. TrashCallShape'
  BY <1>4, <1>6 DEF TrashCallShape, NoTrashCall
<1>10. Acting'
  BY <1>4, <1>6 DEF Acting, TrashOp
<1>11. TrashSync'
  BY <1>2, <1>3, <1>4, <1>6, <1>10 DEF TrashSync, TrashOp
<1> QED
  BY <1>8, <1>9, <1>11

\* A call ends without an answer, or is a listing that is served or answered.
LEMMA CallKeeps ==
  ASSUME TrashInv, NEW c \in TrashCalls,
         \/ TrashFails(c) \/ TrashListServed(c)
         \/ TrashListAnswers(c) \/ TrashListFails(c)
  PROVE  TrashInv'
<1> USE DEF TrashInv
<1>1. DOMAIN trashCalls = TrashCalls /\ bin \subseteq TrashIds
  BY DEF TrashTypeOK
<1>2. CASE TrashFails(c)
  <2>1. /\ trashCalls' = [trashCalls EXCEPT ![c] = NoTrashCall] /\ missed
        /\ UNCHANGED <<bin, trashOpen, trashItems, trashSelectedIds, trashAnchorId,
                       missed>>
    BY <1>2 DEF TrashFails, TurnsTo, TrashSync, TrashOp, trashSelection, TrashTypeOK
  <2> QED
    BY <1>1, <2>1 DEF TrashTypeOK, TrashSelected, TrashCallShape, TrashSync,
                      NoTrashCall
<1>3. CASE TrashListFails(c)
  <2>1. /\ trashCalls' = [trashCalls EXCEPT ![c] = NoTrashCall] /\ missed'
        /\ UNCHANGED <<bin, trashOpen, trashItems, trashSelectedIds, trashAnchorId>>
        /\ missed' \in BOOLEAN
    BY <1>3 DEF TrashListFails, TurnsTo, trashSelection
  <2> QED
    BY <1>1, <2>1 DEF TrashTypeOK, TrashSelected, TrashCallShape, TrashSync,
                      NoTrashCall
<1>4. CASE TrashListServed(c)
  <2> DEFINE call == [trashCalls[c] EXCEPT !.served = TRUE, !.items = bin]
  <2>1. /\ trashCalls' = [trashCalls EXCEPT ![c] = call]
        /\ UNCHANGED <<bin, trashOpen, trashItems, trashSelectedIds, trashAnchorId,
                       missed>>
    BY <1>4 DEF TrashListServed, TurnsTo, trashSelection
  <2>2. TrashOp(c, "list") /\ trashCalls[c] \in [op : {"list"}, served : BOOLEAN,
                                                 items : SUBSET TrashIds]
    BY <1>4 DEF TrashListServed, TrashOp, TrashCallShape, NoTrashCall
  <2>3. /\ call \in [op : {"list"}, served : BOOLEAN, items : SUBSET TrashIds]
        /\ call.op = "list" /\ call.items = bin
    BY <1>1, <2>2
  <2> HIDE DEF call
  <2>4. /\ trashCalls'[c] = call /\ DOMAIN trashCalls' = TrashCalls
        /\ \A d \in TrashCalls \ {c} : trashCalls'[d] = trashCalls[d]
    BY <1>1, <2>1
  <2>5. TrashTypeOK' /\ TrashSelected'
    BY <2>1, <2>4 DEF TrashTypeOK, TrashSelected
  <2>6. TrashCallShape'
    BY <2>3, <2>4 DEF TrashCallShape, NoTrashCall
  <2>7. Acting' <=> Acting
    BY <2>2, <2>3, <2>4 DEF Acting, TrashOp
  <2>8. TrashSync'
    BY <2>1, <2>2, <2>3, <2>4, <2>7 DEF TrashSync, TrashOp
  <2> QED
    BY <2>5, <2>6, <2>8
<1>5. CASE TrashListAnswers(c)
  <2> DEFINE items == trashCalls[c].items
  <2>1. /\ trashCalls' = [trashCalls EXCEPT ![c] = NoTrashCall]
        /\ trashItems' = items /\ trashSelectedIds' = Kept(trashSelectedIds, items)
        /\ UNCHANGED <<bin, trashOpen, trashAnchorId, missed>>
        /\ TrashOp(c, "list") /\ trashCalls[c].served
    BY <1>5 DEF TrashListAnswers, TurnsTo, StillListed
  <2>2. items \in SUBSET TrashIds
    BY <2>1 DEF TrashOp, TrashCallShape, NoTrashCall
  <2>3. /\ trashSelectedIds' \in Seq(TrashIds \cap items)
        /\ IsInjective(trashSelectedIds')
    BY <2>1, KeptSeq DEF TrashTypeOK
  <2>4. trashSelectedIds' \in Seq(items)
    BY <2>3
  <2> HIDE DEF items
  <2>5. /\ trashCalls'[c] = NoTrashCall /\ DOMAIN trashCalls' = TrashCalls
        /\ \A d \in TrashCalls \ {c} : trashCalls'[d] = trashCalls[d]
    BY <1>1, <2>1
  <2>6. TrashTypeOK' /\ TrashSelected'
    BY <2>1, <2>2, <2>3, <2>4, <2>5, ListedOnly DEF TrashTypeOK, TrashSelected
  <2>7. TrashCallShape'
    BY <2>5 DEF TrashCallShape, NoTrashCall
  <2>8. Acting' <=> Acting
    BY <2>1, <2>5 DEF Acting, TrashOp, NoTrashCall
  <2>9. ~missed => Acting \/ items = bin
    BY <2>1 DEF TrashSync, items
  <2>10. TrashSync'
    BY <2>1, <2>5, <2>8, <2>9 DEF TrashSync, TrashOp, NoTrashCall
  <2> QED
    BY <2>6, <2>7, <2>10
<1> QED
  BY <1>2, <1>3, <1>4, <1>5

\* Every step keeps the invariant.
LEMMA TrashInvStep == TrashInv /\ [TrashNext]_trashVars => TrashInv'
<1> SUFFICES ASSUME TrashInv, [TrashNext]_trashVars PROVE TrashInv'
  OBVIOUS
<1> USE DEF TrashInv
<1>1. CASE UNCHANGED trashVars
  <2>1. UNCHANGED <<bin, trashOpen, trashItems, trashSelectedIds, trashAnchorId,
                    trashCalls, missed>>
    BY <1>1 DEF trashVars, trashSelection
  <2>2. TrashTypeOK' /\ TrashSelected'
    BY <2>1 DEF TrashTypeOK, TrashSelected
  <2>3. TrashCallShape'
    BY <2>1 DEF TrashCallShape, NoTrashCall
  <2>4. TrashSync'
    BY <2>1 DEF TrashSync, Acting, TrashOp
  <2> QED
    BY <2>2, <2>3, <2>4
<1>2. CASE OpenTrash
  <2>1. PICK c \in TrashCalls : trashCalls[c] = NoTrashCall /\ RefreshTrash(c)
    BY <1>2 DEF OpenTrash, TrashSlot
  <2>2. ~TrashOp(c, "list")
    BY <2>1 DEF TrashOp, NoTrashCall
  <2>3. /\ UNCHANGED <<bin, trashItems, trashSelectedIds, trashAnchorId>>
        /\ trashOpen' \in BOOLEAN
    BY <1>2 DEF OpenTrash, trashSelection
  <2>4. trashSelectedIds' \in Seq(trashItems) /\ IsInjective(trashSelectedIds')
    BY <2>3, SelectedSeq DEF TrashTypeOK
  <2> QED
    BY <2>1, <2>2, <2>3, <2>4, RefreshKeeps
<1>3. CASE SelectTrashItem \/ MoveTrashSelection \/ SelectAllTrash \/ CloseTrash
  BY <1>3, PanelKeeps
<1>4. CASE /\ OneTrashItem \/ SelectedTrash
           /\ UNCHANGED <<bin, trashOpen, trashItems, trashSelection, missed>>
  <2>1. PICK ids \in SUBSET TrashIds, many \in BOOLEAN : AskFor(ids, many)
    BY <1>4 DEF OneTrashItem, SelectedTrash, TrashTypeOK
  <2> QED
    BY <1>4, <2>1, AskKeeps
<1>5. ASSUME NEW c \in TrashCalls, TrashActed(c) PROVE TrashInv'
  <2> DEFINE call == trashCalls[c]
  <2>1. /\ RefreshTrash(c) /\ ~TrashOp(c, "list")
        /\ UNCHANGED <<bin, trashOpen, trashItems, trashAnchorId>>
        /\ \/ trashSelectedIds' = <<>>
           \/ trashSelectedIds' = Kept(trashSelectedIds, TrashIds \ call.ids)
    BY <1>5 DEF TrashActed, TrashOp
  <2>2. trashSelectedIds \in Seq(trashItems) /\ IsInjective(trashSelectedIds)
    BY SelectedSeq DEF TrashTypeOK
  <2>3. CASE trashSelectedIds' = <<>>
    BY <2>1, <2>3, RefreshKeeps DEF TrashTypeOK, IsInjective
  <2>4. CASE trashSelectedIds' = Kept(trashSelectedIds, TrashIds \ call.ids)
    <3>1. /\ trashSelectedIds' \in Seq(trashItems \cap (TrashIds \ call.ids))
          /\ IsInjective(trashSelectedIds')
      BY <2>2, <2>4, KeptSeq
    <3>2. trashSelectedIds' \in Seq(trashItems)
      BY <3>1
    <3> QED
      BY <2>1, <3>1, <3>2, RefreshKeeps DEF TrashTypeOK
  <2> QED
    BY <2>1, <2>3, <2>4
<1>6. ASSUME NEW c \in TrashCalls,
             \/ TrashFails(c) \/ TrashListServed(c)
             \/ TrashListAnswers(c) \/ TrashListFails(c)
      PROVE  TrashInv'
  BY <1>6, CallKeeps
<1>7. CASE TrashChanges
  <2>1. /\ bin' \subseteq TrashIds /\ missed' = TRUE
        /\ UNCHANGED <<trashOpen, trashItems, trashSelectedIds, trashAnchorId,
                       trashCalls>>
    BY <1>7 DEF TrashChanges, trashSelection, TrashTypeOK
  <2>2. TrashCallShape'
    BY <2>1 DEF TrashCallShape, NoTrashCall
  <2> QED
    BY <2>1, <2>2 DEF TrashTypeOK, TrashSync, TrashSelected
<1> QED
  BY <1>1, <1>2, <1>3, <1>4, <1>5, <1>6, <1>7, ServedKeeps
  DEF TrashNext, TrashUser, TrashPanel, TrashAnswers

\* Only listed items are selected, whatever answers when, and what the panel
\* lists when all is answered is what is in the trash, unless something failed
\* or somebody else was at it (refreshTrash, restoreTrashItem, deleteTrashItem
\* and selectTrashItem of App.svelte).
THEOREM TrashCurrent == TrashSpec => []TrashShown
<1>1. TrashInv => TrashShown
  <2> SUFFICES ASSUME TrashInv PROVE TrashShown
    OBVIOUS
  <2>1. ASSUME \A c \in TrashCalls : trashCalls[c] = NoTrashCall, trashOpen, ~missed
        PROVE  trashItems = bin
    BY <2>1 DEF TrashInv, TrashSync, Acting, TrashOp, NoTrashCall
  <2> QED
    BY <2>1 DEF TrashInv, TrashShown, TrashSelected
<1> QED
  BY <1>1, TrashInvInit, TrashInvStep, PTL DEF TrashSpec

-----------------------------------------------------------------------------
(* The selection *)

\* What is selected is visible, or what was picked last.
Selection == selectedIds \in Seq(Visible \cup {picked})

SelectionInv == SelectionTypeOK /\ SelectionVisible

\* Names are in a linear order, with the folders before the files.
LEMMA VisibleSeq ==
  ASSUME listed \subseteq Entries, descending \in BOOLEAN
  PROVE  /\ Cardinality(Visible) \in Nat /\ IsFiniteSet(Visible)
         /\ VisibleEntries \in [1..Cardinality(Visible) -> Visible]
         /\ VisibleEntries \in Seq(Visible)
         /\ Len(VisibleEntries) = Cardinality(Visible)
         /\ IsInjective(VisibleEntries)
         /\ \A e \in Visible : Place(e) \in 1..Cardinality(Visible)
<1> DEFINE below == [e \in Visible |-> Ahead(e)]
<1>1. IsFiniteSet(Visible) /\ Visible \subseteq Nat
  <2>1. Visible \in SUBSET Entries
    BY DEF Visible
  <2> QED
    BY <2>1, SelectionAssumption, FS_Subset
<1>2. \A x \in Visible : below[x] \subseteq Visible \ {x}
  BY <1>1 DEF Ahead, Before
<1>3. ASSUME NEW x \in Visible, NEW y \in Visible, x # y
      PROVE  x \in below[y] \/ y \in below[x]
  BY <1>1, <1>3 DEF Ahead, Before
<1>4. ASSUME NEW x \in Visible, NEW y \in Visible, x \in below[y], NEW z \in below[x]
      PROVE  z \in below[y]
  <2>1. z \in Visible /\ Before(z, x) /\ Before(x, y)
    BY <1>4 DEF Ahead
  <2>2. x \in Nat /\ y \in Nat /\ z \in Nat
    BY <1>1, <2>1
  <2>3. Before(z, y)
    BY <2>1, <2>2 DEF Before
  <2> QED
    BY <2>1, <2>3 DEF Ahead
<1>5. LinearOn(Visible, below)
  BY <1>1, <1>2, <1>3, <1>4 DEF LinearOn
<1>6. ASSUME NEW e \in Visible PROVE Place(e) \in 1..Cardinality(Visible)
  <2>1. Place(e) = Cardinality(below[e]) + 1
    BY DEF Place
  <2> HIDE DEF below
  <2>2. /\ Cardinality(Visible) \in Nat
        /\ Cardinality(below[e]) \in 0..(Cardinality(Visible) - 1)
    BY <1>5, PlaceIn
  <2> QED
    BY <2>1, <2>2
<1> HIDE DEF below
<1>7. VisibleEntries = Ranked(Visible, below)
  BY DEF VisibleEntries, below
<1> QED
  BY <1>1, <1>5, <1>6, <1>7, RankedSeq

\* The entries that are selected, as an array.
LEMMA SelectionSeq ==
  ASSUME SelectionInv PROVE Selection
BY DEF SelectionInv, SelectionTypeOK, SelectionVisible, Selection, Range

\* An array of visible entries, or of the one picked, is a selection.
LEMMA SelectionNow ==
  ASSUME selectedIds \in Seq(Entries), Selection PROVE SelectionVisible
BY DEF Selection, SelectionVisible, Range

\* A step that selects visible entries and leaves the listing alone.
SelectsVisible ==
  /\ selectedIds' \in Seq(Visible \cup {picked}) /\ IsInjective(selectedIds')
  /\ selectedIds' \in Seq(Entries) /\ anchorId' \in Entries \cup {0}

\* An array of visible entries is one of entries.
LEMMA VisibleOnly ==
  ASSUME listed \subseteq Entries, NEW s \in Seq(Visible)
  PROVE  s \in Seq(Entries) /\ s \in Seq(Visible \cup {picked})
BY DEF Visible

\* A click.
LEMMA ClickSelects ==
  ASSUME SelectionInv, SelectEntry PROVE SelectsVisible
<1> USE DEF SelectionInv, SelectionTypeOK
<1>1. PICK e \in Visible :
        \/ selectedIds' = <<e>> /\ anchorId' = e
        \/ selectedIds' = Toggled(e) /\ anchorId' = e
        \/ /\ anchorId \in Visible
           /\ selectedIds' = Span(Place(anchorId), Place(e))
           /\ UNCHANGED anchorId
  BY DEF SelectEntry
<1>2. e \in Entries
  BY DEF Visible
<1>3. CASE selectedIds' = <<e>> /\ anchorId' = e
  BY <1>2, <1>3, OneSelected DEF SelectsVisible
<1>4. CASE selectedIds' = Toggled(e) /\ anchorId' = e
  <2>1. selectedIds \in Seq(Visible \cup {picked})
    BY SelectionSeq DEF Selection
  <2>2. CASE Contains(selectedIds, e)
    <3>1. selectedIds' = Kept(selectedIds, Entries \ {e})
      BY <1>4, <2>2 DEF Toggled
    <3>2. /\ selectedIds' \in Seq((Visible \cup {picked}) \cap (Entries \ {e}))
          /\ IsInjective(selectedIds')
      BY <2>1, <3>1, KeptSeq
    <3>3. selectedIds' \in Seq(Visible \cup {picked}) /\ selectedIds' \in Seq(Entries)
      BY <3>2
    <3> QED
      BY <1>2, <1>4, <3>2, <3>3 DEF SelectsVisible
  <2>3. CASE ~Contains(selectedIds, e)
    <3>1. selectedIds' = Append(selectedIds, e)
      BY <1>4, <2>3 DEF Toggled
    <3> QED
      BY <1>2, <1>4, <2>1, <2>3, <3>1, AppendSeq DEF SelectsVisible
  <2> QED
    BY <2>2, <2>3
<1>5. CASE /\ anchorId \in Visible
           /\ selectedIds' = Span(Place(anchorId), Place(e))
           /\ UNCHANGED anchorId
  <2>1. selectedIds' \in Seq(Visible) /\ IsInjective(selectedIds')
    BY <1>5, VisibleSeq, SliceSeq DEF Span
  <2> QED
    BY <1>2, <1>5, <2>1, VisibleOnly DEF SelectsVisible
<1> QED
  BY <1>1, <1>3, <1>4, <1>5

\* An arrow key.
LEMMA ArrowSelects ==
  ASSUME SelectionInv, MoveSelection PROVE SelectsVisible
<1> USE DEF SelectionInv, SelectionTypeOK
<1> DEFINE n     == Cardinality(Visible)
           at(e) == IF e \in Visible THEN Place(e) ELSE 1
           last  == IF selectedIds = <<>> THEN anchorId ELSE Last(selectedIds)
           to(k) == IF k < 1 THEN 1 ELSE IF k < n THEN k ELSE n
           next(k) == VisibleEntries[to(k)]
           from(k) == IF anchorId # 0 THEN anchorId
                      ELSE IF selectedIds # <<>> THEN Head(selectedIds) ELSE next(k)
<1>1. PICK delta \in {-1, 1, -Columns, Columns} :
        \/ /\ selectedIds' = <<next(at(last) + delta)>>
           /\ anchorId' = next(at(last) + delta)
        \/ /\ selectedIds' = IF Contains(selectedIds, next(at(last) + delta))
                               THEN selectedIds
                               ELSE Append(selectedIds, next(at(last) + delta))
           /\ anchorId' = next(at(last) + delta)
        \/ /\ selectedIds' = Span(at(from(at(last) + delta)), to(at(last) + delta))
           /\ anchorId' = from(at(last) + delta)
  BY DEF MoveSelection
<1>2. n \in Nat \ {0} /\ VisibleEntries \in [1..n -> Visible] /\ Len(VisibleEntries) = n
  <2>1. Visible # {}
    BY DEF MoveSelection
  <2> QED
    BY <2>1, VisibleSeq, FS_EmptySet
<1>3. \A e : at(e) \in 1..n
  BY <1>2, VisibleSeq
<1> DEFINE k == at(last) + delta
<1>4. k \in Int
  <2> HIDE DEF at, last
  <2> QED BY <1>2, <1>3, SelectionAssumption
<1>5. to(k) \in 1..n
  <2> HIDE DEF k, n
  <2> QED BY <1>2, <1>4
<1>6. next(k) \in Visible
  <2> HIDE DEF to, n
  <2> QED BY <1>2, <1>5
<1>7. next(k) \in Entries
  <2> HIDE DEF next, k
  <2> QED BY <1>6 DEF Visible
<1>8. from(k) \in Entries
  <2>1. selectedIds # <<>> => Head(selectedIds) \in Entries
    BY HeadTailProperties
  <2> HIDE DEF next, k
  <2> QED BY <1>7, <2>1
<1>9. selectedIds \in Seq(Visible \cup {picked})
  BY SelectionSeq DEF Selection
<1> HIDE DEF next, from, to, at, k, n
<1>10. CASE selectedIds' = <<next(k)>> /\ anchorId' = next(k)
  BY <1>6, <1>7, <1>10, OneSelected DEF SelectsVisible
<1>11. CASE /\ selectedIds' = IF Contains(selectedIds, next(k)) THEN selectedIds
                              ELSE Append(selectedIds, next(k))
            /\ anchorId' = next(k)
  BY <1>6, <1>7, <1>9, <1>11, AppendSeq DEF SelectsVisible
<1>12. CASE selectedIds' = Span(at(from(k)), to(k)) /\ anchorId' = from(k)
  <2>1. at(from(k)) \in 1..Len(VisibleEntries) /\ to(k) \in 1..Len(VisibleEntries)
    BY <1>2, <1>3, <1>5
  <2>2. selectedIds' \in Seq(Visible) /\ IsInjective(selectedIds')
    BY <1>12, <2>1, VisibleSeq, SliceSeq DEF Span
  <2> QED
    BY <1>8, <1>12, <2>2, VisibleOnly DEF SelectsVisible
<1> QED
  BY <1>1, <1>10, <1>11, <1>12 DEF k

\* A file is opened and picked, or a folder asked for.
LEMMA OpenSelects ==
  ASSUME SelectionInv, NEW e \in Entries, OpenEntry(e)
  PROVE  /\ UNCHANGED <<selectedIds, picked>> \/ Picks(e)
         /\ anchorId' \in Entries \cup {0} /\ shownFile' \in Entries \cup {0}
BY DEF OpenEntry, SelectionInv, SelectionTypeOK, selectVars, Picks

\* What is picked is all that is selected.
LEMMA PickKeeps ==
  ASSUME NEW e \in Entries, Picks(e)
  PROVE  /\ SelectionVisible' /\ picked' \in Entries
         /\ selectedIds' \in Seq(Entries) /\ IsInjective(selectedIds')
BY OneSelected DEF Picks, SelectionVisible, Range

\* The image shown next is one of the visible entries.
LEMMA NextImage ==
  ASSUME SelectionInv, ShowAdjacentImage
  PROVE  \E e \in Entries : Picks(e) /\ anchorId' = e /\ shownFile' = e
<1> USE DEF SelectionInv, SelectionTypeOK
<1> DEFINE images == Kept(VisibleEntries, Images)
<1>1. PICK k \in DOMAIN images, delta \in {-1, 1} :
        LET next == images[((k - 1 + delta + Len(images)) % Len(images)) + 1]
        IN shownFile' = next /\ Picks(next) /\ anchorId' = next
  BY DEF ShowAdjacentImage
<1>2. images \in Seq(Visible \cap Images) /\ Len(images) > 1
  BY VisibleSeq, KeptSeq DEF ShowAdjacentImage
<1> DEFINE m == (k - 1 + delta + Len(images)) % Len(images)
<1>3. Len(images) \in Nat /\ DOMAIN images = 1..Len(images)
  <2> HIDE DEF images
  <2> QED BY <1>2
<1>4. m \in 0..(Len(images) - 1)
  <2> DEFINE l == Len(images)
  <2>1. l \in Nat \ {0} /\ k - 1 + delta + l \in Int
    <3> HIDE DEF images
    <3> QED BY <1>2, <1>3
  <2> HIDE DEF l
  <2>2. (k - 1 + delta + l) % l \in 0..(l - 1)
    BY <2>1
  <2> QED
    BY <2>2 DEF l
<1>5. images[m + 1] \in Entries
  <2> HIDE DEF images, m
  <2> QED BY <1>2, <1>3, <1>4 DEF Visible
<1> QED
  BY <1>1, <1>5

\* Every step keeps the invariant.
LEMMA SelectionInvStep ==
  SelectionInv /\ [SelectionNext]_selectionVars => SelectionInv'
<1> SUFFICES ASSUME SelectionInv, [SelectionNext]_selectionVars PROVE SelectionInv'
  OBVIOUS
<1> USE DEF SelectionInv
<1>1. CASE UNCHANGED selectionVars
  BY <1>1 DEF selectionVars, selectVars, SelectionTypeOK, SelectionVisible, Visible
<1>2. CASE SelectEntry \/ MoveSelection
  <2>1. SelectsVisible
    BY <1>2, ClickSelects, ArrowSelects
  <2>2. UNCHANGED <<listed, fileTypeFilter, descending, shownFile, contextMenu,
                    actionDialog, picked>>
    BY <1>2 DEF SelectEntry, MoveSelection
  <2>3. Range(selectedIds') \subseteq Visible \cup {picked}
    BY <2>1 DEF SelectsVisible, Range
  <2> QED
    BY <2>1, <2>2, <2>3 DEF SelectsVisible, SelectionTypeOK, SelectionVisible, Visible
<1>3. CASE SelectAll
  <2>1. selectedIds' \in Seq(Visible) /\ IsInjective(selectedIds')
    BY <1>3, VisibleSeq DEF SelectAll, SelectionTypeOK
  <2>2. selectedIds' \in Seq(Entries) /\ Range(selectedIds') \subseteq Visible
    BY <2>1, VisibleOnly DEF Range, SelectionTypeOK
  <2> QED
    BY <1>3, <2>1, <2>2 DEF SelectAll, SelectionTypeOK, SelectionVisible, Visible
<1>4. CASE Escape
  <2>1. selectedIds' \in {<<>>, selectedIds}
    BY <1>4 DEF Escape
  <2>2. <<>> \in Seq(Entries) /\ IsInjective(<<>>) /\ Range(<<>>) = {}
    BY DEF IsInjective, Range
  <2>3. /\ contextMenu' \in {0, contextMenu} /\ shownFile' \in {0, shownFile}
        /\ actionDialog' \in {NoDialog, actionDialog}
        /\ UNCHANGED <<listed, fileTypeFilter, descending, anchorId, picked>>
    BY <1>4 DEF Escape
  <2>4. /\ selectedIds' \in Seq(Entries) /\ IsInjective(selectedIds')
        /\ Range(selectedIds') \subseteq Range(selectedIds)
    BY <2>1, <2>2 DEF SelectionTypeOK
  <2>5. NoDialog \in [kind : {"none", "create", "rename", "move", "delete"},
                      entry : Entries \cup {0}]
    BY DEF NoDialog
  <2>6. SelectionTypeOK'
    BY <2>3, <2>4, <2>5 DEF SelectionTypeOK
  <2> QED
    BY <2>3, <2>4, <2>6 DEF SelectionVisible, Visible
<1>5. CASE ShowAdjacentImage
  <2>1. PICK e \in Entries : Picks(e) /\ anchorId' = e /\ shownFile' = e
    BY <1>5, NextImage
  <2>2. UNCHANGED <<listed, fileTypeFilter, descending, contextMenu, actionDialog>>
    BY <1>5 DEF ShowAdjacentImage
  <2> QED
    BY <2>1, <2>2, PickKeeps DEF SelectionTypeOK
<1>6. CASE OpenSome
  <2>1. PICK e \in Entries : OpenEntry(e)
    BY <1>6 DEF OpenSome
  <2>2. UNCHANGED <<listed, fileTypeFilter, descending, contextMenu, actionDialog>>
    BY <1>6, <2>1 DEF OpenSome, OpenEntry
  <2> QED
    BY <2>1, <2>2, OpenSelects, PickKeeps DEF SelectionTypeOK, SelectionVisible, Visible
<1>7. CASE ContextMenu
  <2>1. contextMenu \in Entries /\ contextMenu' = 0
    BY <1>7 DEF ContextMenu, SelectionTypeOK
  <2>2. /\ UNCHANGED <<selectedIds, picked>> \/ Picks(contextMenu)
        /\ anchorId' \in Entries \cup {0} /\ shownFile' \in Entries \cup {0}
        /\ UNCHANGED <<listed, fileTypeFilter, descending>>
        /\ \/ UNCHANGED actionDialog
           \/ Dialog("rename", contextMenu)
           \/ \E kind \in {"move", "delete"} : Dialog(kind, 0)
    <3>1. CASE OpenEntry(contextMenu)
      BY <2>1, <3>1, OpenSelects DEF OpenEntry
    <3>2. CASE ~OpenEntry(contextMenu)
      BY <1>7, <3>2 DEF ContextMenu, SelectionTypeOK
    <3> QED
      BY <3>1, <3>2
  <2>3. actionDialog' \in [kind : {"none", "create", "rename", "move", "delete"},
                           entry : Entries \cup {0}]
    BY <2>1, <2>2 DEF Dialog, SelectionTypeOK
  <2> QED
    BY <2>1, <2>2, <2>3, PickKeeps DEF SelectionTypeOK, SelectionVisible, Visible
<1>8. CASE CommandBar \/ ActionDialog \/ LeaveViewer \/ OpenContextMenu
  <2>1. UNCHANGED <<listed, fileTypeFilter, descending, selectedIds, anchorId, picked>>
    BY <1>8 DEF CommandBar, ActionDialog, LeaveViewer, OpenContextMenu, selectVars
  <2>2. contextMenu' \in Entries \cup {0} /\ shownFile' \in Entries \cup {0}
    BY <1>8 DEF CommandBar, ActionDialog, LeaveViewer, OpenContextMenu,
                SelectionTypeOK, Visible
  <2>3. actionDialog' \in [kind : {"none", "create", "rename", "move", "delete"},
                           entry : Entries \cup {0}]
    BY <1>8 DEF CommandBar, ActionDialog, LeaveViewer, OpenContextMenu,
                SelectionTypeOK, Dialog, NoDialog
  <2> QED
    BY <2>1, <2>2, <2>3 DEF SelectionTypeOK, SelectionVisible, Visible
<1>9. CASE ListReplaced
  <2>1. /\ listed' \subseteq Entries /\ anchorId' \in Entries \cup {0}
        /\ selectedIds' = <<>>
        /\ UNCHANGED <<fileTypeFilter, descending, picked, shownFile, contextMenu,
                       actionDialog>>
    BY <1>9 DEF ListReplaced, FreshSelection, SelectionTypeOK
  <2>2. <<>> \in Seq(Entries) /\ IsInjective(<<>>) /\ Range(<<>>) = {}
    BY DEF IsInjective, Range
  <2> QED
    BY <2>1, <2>2 DEF SelectionTypeOK, SelectionVisible
<1>10. CASE ListExtended
  <2>1. /\ listed' \subseteq Entries /\ listed \subseteq listed'
        /\ UNCHANGED <<fileTypeFilter, descending, selectedIds, anchorId, picked,
                       shownFile, contextMenu, actionDialog>>
    BY <1>10 DEF ListExtended, SelectionTypeOK, selectVars
  <2> QED
    BY <2>1 DEF SelectionTypeOK, SelectionVisible, Visible
<1>11. CASE ChangeView
  <2>1. UNCHANGED <<listed, anchorId, picked, shownFile, contextMenu, actionDialog>>
    BY <1>11 DEF ChangeView
  <2>2. CASE /\ fileTypeFilter' \in Filters
             /\ selectedIds' = Kept(selectedIds, listed \cap fileTypeFilter')
             /\ UNCHANGED descending
    <3>1. /\ selectedIds' \in Seq(Entries \cap (listed \cap fileTypeFilter'))
          /\ IsInjective(selectedIds')
      BY <2>2, KeptSeq DEF SelectionTypeOK
    <3>2. /\ selectedIds' \in Seq(Entries)
          /\ Range(selectedIds') \subseteq listed \cap fileTypeFilter'
      BY <3>1 DEF Range
    <3> QED
      BY <2>1, <2>2, <3>1, <3>2 DEF SelectionTypeOK, SelectionVisible, Visible
  <2>3. CASE descending' = ~descending /\ UNCHANGED <<fileTypeFilter, selectedIds>>
    BY <2>1, <2>3 DEF SelectionTypeOK, SelectionVisible, Visible
  <2> QED
    BY <1>11, <2>2, <2>3 DEF ChangeView
<1> QED
  BY <1>1, <1>2, <1>3, <1>4, <1>5, <1>6, <1>7, <1>8, <1>9, <1>10, <1>11
  DEF SelectionNext, SelectionUser, SelectionAnswers, Keyboard, FileArea

\* At the start nothing is selected.
LEMMA SelectionInvInit == SelectionInit => SelectionInv
<1> SUFFICES ASSUME SelectionInit PROVE SelectionInv
  OBVIOUS
<1>1. <<>> \in Seq(Entries) /\ IsInjective(<<>>) /\ Range(<<>>) = {}
  BY DEF IsInjective, Range
<1> QED
  BY <1>1, SelectionAssumption
  DEF SelectionInit, SelectionInv, SelectionTypeOK, SelectionVisible, NoDialog

\* What is selected is on the screen, or was picked by name, however the user,
\* the keyboard and answers that arrive take turns (selectedIds of App.svelte).
THEOREM SelectionSeen == SelectionSpec => []SelectionVisible
<1>1. SelectionInv => SelectionVisible
  BY DEF SelectionInv
<1> QED
  BY <1>1, SelectionInvInit, SelectionInvStep, PTL DEF SelectionSpec
-----------------------------------------------------------------------------
(* Types *)

\* The 3D viewer.
LEMMA ModelTyped == ModelTypeOK /\ [ModelNext]_modelVars => ModelTypeOK'
<1> SUFFICES ASSUME ModelTypeOK, [ModelNext]_modelVars PROVE ModelTypeOK'
  OBVIOUS
<1> USE DEF ModelTypeOK
<1>1. ASSUME NEW m \in Models, NEW before \in Seq(Models), LoadModel(m, before)
      PROVE  /\ asked' \in Seq(Models) /\ asked' # <<>>
             /\ Len(asked') = Len(before) + 1 /\ DOMAIN asked' = 1..(Len(before) + 1)
             /\ loadedSrc' = asked'[Len(asked')] /\ currentObject' = 0
             /\ {modelLoading', modelError'} \subseteq BOOLEAN
  BY <1>1, AppendProperties DEF LoadModel
<1>2. CASE Mount
  <2>1. PICK m \in Models : LoadModel(m, <<>>) /\ arriving' = Loads(m, 1)
    BY <1>2 DEF Mount
  <2>2. <<>> \in Seq(Models) /\ Len(<<>>) = 0
    BY EmptySeq
  <2>3. /\ asked' \in Seq(Models) /\ asked' # <<>> /\ DOMAIN asked' = {1}
        /\ loadedSrc' = asked'[Len(asked')] /\ currentObject' = 0
        /\ {modelLoading', modelError'} \subseteq BOOLEAN
    <3>1. LoadModel(m, <<>>)
      BY <2>1
    <3>2. /\ asked' \in Seq(Models) /\ asked' # <<>>
          /\ DOMAIN asked' = 1..(Len(<<>>) + 1)
          /\ loadedSrc' = asked'[Len(asked')] /\ currentObject' = 0
          /\ {modelLoading', modelError'} \subseteq BOOLEAN
      BY <1>1, <2>2, <3>1, Zenon
    <3> QED
      BY <2>2, <3>2
  <2>4. scene' = {} /\ mounted' = TRUE
    BY <1>2 DEF Mount
  <2>5. arriving' \subseteq {1}
    BY <2>1 DEF Loads
  <2>6. {mounted', modelLoading', modelError'} \subseteq BOOLEAN
    BY <2>3, <2>4
  <2> HIDE DEF ModelTypeOK
  <2>7. (asked' # <<>>) /\ arriving' \subseteq DOMAIN asked'
          /\ scene' \subseteq DOMAIN asked' /\ currentObject' \in DOMAIN asked' \cup {0}
    BY <2>3, <2>4, <2>5
  <2> QED
    BY <2>3, <2>6, <2>7 DEF ModelTypeOK
<1>3. CASE ShowModel
  <2>1. PICK m \in Models :
          LoadModel(m, asked) /\ arriving' = arriving \cup Loads(m, Len(asked) + 1)
    BY <1>3 DEF ShowModel
  <2>2. DOMAIN asked \subseteq 1..(Len(asked) + 1) /\ Len(asked) + 1 \in 1..(Len(asked) + 1)
    OBVIOUS
  <2> QED
    BY <1>1, <1>3, <2>1, <2>2 DEF ShowModel, WithoutObject, Loads
<1>4. CASE ObjectArrives
  BY <1>4 DEF ObjectArrives
<1>5. CASE ModelFails
  BY <1>5 DEF ModelFails
<1>6. CASE Cleanup
  BY <1>6 DEF Cleanup, WithoutObject
<1>7. CASE UNCHANGED modelVars
  BY <1>7 DEF modelVars
<1> QED
  BY <1>2, <1>3, <1>4, <1>5, <1>6, <1>7 DEF ModelNext, ModelUser, ModelAnswers

\* The admin panel.
LEMMA AdminTyped == AdminTypeOK /\ [AdminNext]_adminVars => AdminTypeOK'
<1> SUFFICES ASSUME AdminTypeOK, [AdminNext]_adminVars PROVE AdminTypeOK'
  OBVIOUS
<1> USE DEF AdminTypeOK, Status
<1> DEFINE Awaits == [op : {"free", "open", "poll", "stats", "start", "cancel", "edit"},
                      at : {"free", "sent", "served", "rest"}, status : Status]
<1>1. /\ NoRequest \in Awaits
      /\ \A op \in {"open", "poll", "stats", "start", "cancel", "edit"} :
           Sent(op) \in Awaits
  BY DEF NoRequest, Sent
<1>2. ASSUME NEW op \in {"open", "poll", "start", "cancel", "edit"}, Send(op)
      PROVE  requests' \in [Requests -> Awaits]
  BY <1>1, <1>2 DEF Send
<1>3. ASSUME NEW r \in Requests, NEW to \in Awaits, Turns(r, to)
      PROVE  requests' \in [Requests -> Awaits]
  BY <1>3 DEF Turns
<1>4. CASE OpenAdmin \/ CloseAdmin \/ RunAdminJob \/ CancelAdminJob \/ EditAdmin \/ PollTick
  BY <1>2, <1>4 DEF OpenAdmin, CloseAdmin, RunAdminJob, CancelAdminJob, EditAdmin, PollTick
<1>5. CASE JobEnds \/ JobStarts
  BY <1>5, AdminAssumption DEF JobEnds, JobStarts
<1>6. ASSUME NEW r \in Requests, Served(r) PROVE AdminTypeOK'
  <2>1. job' \in Status /\ jobs' \in 0..MaxJobs
    BY <1>6, AdminAssumption DEF Served, Starts
  <2>2. [requests[r] EXCEPT !.at = "served", !.status = job'] \in Awaits
    BY <2>1
  <2>3. \E to \in Awaits : Turns(r, to)
    BY <1>1, <1>6, <2>2 DEF Served
  <2> QED
    BY <1>3, <1>6, <2>1, <2>3 DEF Served
<1>7. ASSUME NEW r \in Requests, Answers(r) PROVE AdminTypeOK'
  <2>1. [requests[r] EXCEPT !.at = "rest"] \in Awaits
    OBVIOUS
  <2>2. \E to \in Awaits : Turns(r, to)
    BY <1>1, <1>7, <2>1 DEF Answers
  <2> QED
    BY <1>3, <1>7, <2>2 DEF Answers
<1>8. ASSUME NEW r \in Requests, OpenEnds(r) PROVE AdminTypeOK'
  BY <1>1, <1>3, <1>8 DEF OpenEnds
<1>9. ASSUME NEW r \in Requests, Fails(r) PROVE AdminTypeOK'
  <2>1. [requests[r] EXCEPT !.at = "rest"] \in Awaits
    OBVIOUS
  <2>2. \E to \in Awaits : Turns(r, to)
    BY <1>1, <1>9, <2>1 DEF Fails
  <2> QED
    BY <1>3, <1>9, <2>2 DEF Fails
<1>10. CASE UNCHANGED adminVars
  BY <1>10 DEF adminVars
<1> QED
  BY <1>4, <1>5, <1>6, <1>7, <1>8, <1>9, <1>10 DEF AdminNext, AdminPanel, AdminAnswers

\* The folder view, however often the user logs out.
LEMMA FolderTyped == FolderShape /\ [FolderNext]_folderVars => FolderShape'
<1>1. CASE FolderShape /\ UNCHANGED folderVars
  BY <1>1 DEF FolderShape, FolderTypeOK, FolderCalls, folderVars, listVars, treeVars,
              streamVars
<1>2. CASE FolderShape /\ FolderNext
  BY <1>2, UserShape, LoadShape, OtherShape DEF FolderNext, FolderAnswers, FolderStream
<1> QED
  BY <1>1, <1>2

\* The types at the start.
LEMMA TypedInit ==
  /\ ModelInit => ModelTypeOK
  /\ AdminInit => AdminTypeOK
  /\ FolderInit => FolderShape
<1>1. ModelInit => ModelTypeOK
  BY EmptySeq DEF ModelInit, ModelTypeOK
<1>2. ASSUME AdminInit PROVE AdminTypeOK
  <2> USE <1>2 DEF AdminInit
  <2>1. {adminOpen, adminPoll} \subseteq BOOLEAN
    OBVIOUS
  <2>2. {adminJob, job} \subseteq Status /\ jobs \in 0..MaxJobs
    BY AdminAssumption DEF Status
  <2>3. NoRequest \in
          [op : {"free", "open", "poll", "stats", "start", "cancel", "edit"},
           at : {"free", "sent", "served", "rest"}, status : Status]
    BY DEF NoRequest, Status
  <2> QED
    BY <2>1, <2>2, <2>3 DEF AdminTypeOK
<1> QED
  BY <1>1, <1>2, FolderBegins DEF FolderInv
-----------------------------------------------------------------------------
(* The parts beside each other *)

\* Each part of the client sees its own steps, and otherwise nothing: the
\* steps of the other parts leave its state alone.
LEMMA PartsInit ==
  ClientInit => /\ UploadsInit /\ FolderInit /\ SelectionInit /\ ViewerInit
                /\ TrashInit /\ AdminInit /\ ThumbsInit /\ ModelInit
                /\ SearchInit
BY DEF ClientInit

\* A step of the client is a step of the part in focus.
LEMMA PartsStep ==
  [ClientNext]_clientVars =>
    /\ [UploadsNext]_uploadVars /\ [FolderNext]_folderVars
    /\ [SelectionNext]_selectionVars /\ [ViewerNext]_viewerVars
    /\ [TrashNext]_trashVars /\ [AdminNext]_adminVars
    /\ [ThumbsNext]_thumbVars /\ [ModelNext]_modelVars
    /\ [SearchNext]_findVars
<1>1. ASSUME UploadsStep PROVE UploadsNext
  BY <1>1 DEF UploadsStep, UploadsNext
<1>2. ASSUME FolderStep PROVE FolderNext
  BY <1>2 DEF FolderStep, FolderNext
<1>3. ASSUME SelectionStep PROVE SelectionNext
  BY <1>3 DEF SelectionStep, SelectionNext
<1>4. ASSUME ViewerStep PROVE ViewerNext
  BY <1>4 DEF ViewerStep, ViewerNext
<1>5. ASSUME TrashStep PROVE TrashNext
  BY <1>5 DEF TrashStep, TrashNext
<1>6. ASSUME AdminStep PROVE AdminNext
  BY <1>6 DEF AdminStep, AdminNext
<1>7. ASSUME ThumbsStep PROVE ThumbsNext
  BY <1>7 DEF ThumbsStep, ThumbsNext
<1>8. ASSUME ModelStep PROVE ModelNext
  BY <1>8 DEF ModelStep, ModelNext
<1>9. ASSUME SearchStep PROVE SearchNext
  BY <1>9 DEF SearchStep, SearchNext
<1>10. UploadsStep => UNCHANGED <<folderVars, selectionVars, viewerVars,
                                  trashVars, adminVars, thumbVars,
                                  modelVars, findVars>>
  BY DEF UploadsStep
<1>11. FolderStep => UNCHANGED <<uploadVars, selectionVars, viewerVars,
                                 trashVars, adminVars, thumbVars,
                                 modelVars, findVars>>
  BY DEF FolderStep
<1>12. SelectionStep => UNCHANGED <<uploadVars, folderVars, viewerVars,
                                    trashVars, adminVars, thumbVars,
                                    modelVars, findVars>>
  BY DEF SelectionStep
<1>13. ViewerStep => UNCHANGED <<uploadVars, folderVars, selectionVars,
                                 trashVars, adminVars, thumbVars,
                                 modelVars, findVars>>
  BY DEF ViewerStep
<1>14. TrashStep => UNCHANGED <<uploadVars, folderVars, selectionVars,
                                viewerVars, adminVars, thumbVars,
                                modelVars, findVars>>
  BY DEF TrashStep
<1>15. AdminStep => UNCHANGED <<uploadVars, folderVars, selectionVars,
                                viewerVars, trashVars, thumbVars,
                                modelVars, findVars>>
  BY DEF AdminStep
<1>16. ThumbsStep => UNCHANGED <<uploadVars, folderVars, selectionVars,
                                 viewerVars, trashVars, adminVars,
                                 modelVars, findVars>>
  BY DEF ThumbsStep
<1>17. ModelStep => UNCHANGED <<uploadVars, folderVars, selectionVars,
                                viewerVars, trashVars, adminVars,
                                thumbVars, findVars>>
  BY DEF ModelStep
<1>18. SearchStep => UNCHANGED <<uploadVars, folderVars, selectionVars,
                                 viewerVars, trashVars, adminVars,
                                 thumbVars, modelVars>>
  BY DEF SearchStep
<1>19. UNCHANGED clientVars =>
         UNCHANGED <<uploadVars, folderVars, selectionVars, viewerVars, trashVars,
                     adminVars, thumbVars, modelVars, findVars>>
  BY DEF clientVars
<1> QED
  BY <1>1, <1>2, <1>3, <1>4, <1>5, <1>6, <1>7, <1>8, <1>9, <1>10, <1>11,
     <1>12, <1>13, <1>14, <1>15, <1>16, <1>17, <1>18, <1>19 DEF ClientNext

\* The client does in each of its parts what the part's own specification
\* says (the thumbnails and the admin panel with their fairness).
THEOREM ClientParts ==
  ClientSpec => /\ UploadsSpec /\ FolderSpec /\ SelectionSpec /\ ViewerSpec
                /\ TrashSpec /\ AdminSpec /\ ThumbsSpec /\ ModelSpec
                /\ SearchSpec
BY PartsInit, PartsStep, PTL
   DEF ClientSpec, ClientFairness, UploadsSpec, FolderSpec, SelectionSpec,
       ViewerSpec, TrashSpec, AdminSpec, ThumbsSpec, ModelSpec, SearchSpec

\* The state of every part has its type in every behaviour of the client,
\* one logout or many (the state of App.svelte).
THEOREM ClientTyped == ClientSpec => []WebTypeOK
<1>1. UploadsSpec => []QueueTypeOK
  BY ChainsMatch, PTL
<1>2. FolderSpec => []FolderShape
  BY TypedInit, FolderTyped, PTL DEF FolderSpec
<1>3. SelectionSpec => []SelectionInv
  BY SelectionInvInit, SelectionInvStep, PTL DEF SelectionSpec
<1>4. ViewerSpec => []ViewerTyped
  BY ViewerTypedInit, ViewerTypedStep, PTL DEF ViewerSpec
<1>5. TrashSpec => []TrashInv
  BY TrashInvInit, TrashInvStep, PTL DEF TrashSpec
<1>6. AdminSpec => []AdminTypeOK
  BY TypedInit, AdminTyped, PTL DEF AdminSpec
<1>7. ModelSpec => []ModelTypeOK
  BY TypedInit, ModelTyped, PTL DEF ModelSpec
<1>8. SearchSpec => []FoundInv
  BY FoundInit, FoundStep, PTL DEF SearchSpec
<1>9. QueueTypeOK /\ FolderShape /\ SelectionInv /\ ViewerTyped /\ TrashInv
        /\ AdminTypeOK /\ ThumbsTypeOK /\ ModelTypeOK /\ FoundInv => WebTypeOK
  BY DEF FolderShape, SelectionInv, ViewerTyped, TrashInv, FoundInv, WebTypeOK
<1> QED
  BY <1>1, <1>2, <1>3, <1>4, <1>5, <1>6, <1>7, <1>8, <1>9, ClientParts,
     ThumbsTypeCorrect, PTL

\* What is proved of the parts holds for the whole client.
THEOREM ClientSafe ==
  ASSUME LogoutOnce, WebGL, ~Revisit
  PROVE  ClientSpec =>
           /\ []ChainsMatchQueue /\ []DoneIsReceived
           /\ []StreamOfUser /\ []AtRestShown
           /\ []EditorShowsFile /\ []LoadingWaits /\ []SceneHoldsCurrent
           /\ []FoundIsShown /\ []SelectionVisible /\ []TrashShown
BY ClientParts, ChainsMatch, DoneWhenReceived, StreamBelongs, ScreenCurrent,
   EditorRight, WaitersKept, SceneCurrent, FoundShown, SelectionSeen, TrashCurrent, PTL
=============================================================================
