----------------------------- MODULE WebThumbs ------------------------------
(***************************************************************************)
(* Thumbnails of 3D files in the web client: the cards of a folder         *)
(* (web/src/lib/ThreeDGridThumb.svelte) and the renderer they share        *)
(* (web/src/lib/ThreeDThumb.ts).  A file is loaded once; the cards that    *)
(* ask for it meanwhile wait for the same picture.                         *)
(***************************************************************************)
EXTENDS FiniteSets

CONSTANTS
  Cards,      \* cards that can be on the screen
  Model,      \* the file of each of them
  Renderable,  \* the files of a format there is a loader for
  WebGL       \* the browser can give the renderer a context

ThumbFiles == {Model[c] : c \in Cards}

ASSUME ThumbsAssumption ==
  /\ DOMAIN Model = Cards /\ Renderable \subseteq ThumbFiles /\ WebGL \in BOOLEAN

VARIABLES
  card,       \* what each card shows
  cache,      \* the pictures there are; "null" is a failure
  pending,    \* the files that are being rendered
  waiting     \* the cards whose getThumb waits for each file

thumbVars == <<card, cache, pending, waiting>>

ThumbsTypeOK ==
  /\ card \in [Cards -> {"hidden", "loading", "shown", "failed"}]
  /\ cache \in [ThumbFiles -> {"none", "url", "null"}]
  /\ pending \subseteq ThumbFiles
  /\ waiting \in [ThumbFiles -> SUBSET Cards]

ThumbsInit ==
  /\ card = [c \in Cards |-> "hidden"]
  /\ cache = [m \in ThumbFiles |-> "none"]
  /\ pending = {}
  /\ waiting = [m \in ThumbFiles |-> {}]

\* load(): if (url) thumbUrl = url; else failed = true
Look(result) == IF result = "url" THEN "shown" ELSE "failed"

\* init(): without a context the renderer throws, each time it is needed.
HasRenderer == WebGL

\* A card comes into view and asks getThumb: the cache, the callers that
\* already wait, or the renderer.  When init() throws the caller gets no
\* answer, and the file stays pending.
ComesIntoView(c) ==
  LET m == Model[c] IN
  /\ card[c] = "hidden"
  /\ IF cache[m] # "none"
       THEN /\ card' = [card EXCEPT ![c] = Look(cache[m])]
            /\ UNCHANGED <<pending, waiting>>
       ELSE /\ card' = [card EXCEPT ![c] = "loading"]
            /\ pending' = pending \cup {m}
            /\ waiting' = IF m \in pending \/ HasRenderer
                            THEN [waiting EXCEPT ![m] = @ \cup {c}]
                            ELSE waiting
  /\ UNCHANGED cache

\* Mutant: only one of the callers gets the picture.
AnswersOne(m) == {CHOOSE c \in waiting[m] : TRUE}

\* resolve answers everybody who waits for the file.
Answered(m) == waiting[m]

\* renderURL's loader calls back: with an object that is rendered, or that
\* cannot be, or with an error; resolve keeps the result for good.
Rendered(m) ==
  /\ m \in pending /\ HasRenderer
  /\ \E result \in IF m \in Renderable THEN {"url", "null"} ELSE {"null"} :
       /\ cache' = [cache EXCEPT ![m] = result]
       /\ card' = [c \in Cards |->
            IF c \in Answered(m) /\ card[c] = "loading" THEN Look(result)
            ELSE card[c]]
  /\ pending' = pending \ {m}
  /\ waiting' = [waiting EXCEPT ![m] = {}]

\* The card is taken off the screen, and perhaps put there again: what it
\* asked for goes on.
Leaves(c) ==
  /\ card[c] # "hidden"
  /\ card' = [card EXCEPT ![c] = "hidden"]
  /\ UNCHANGED <<cache, pending, waiting>>

ThumbsUser == \E c \in Cards : ComesIntoView(c) \/ Leaves(c)

ThumbsNext == ThumbsUser \/ \E m \in ThumbFiles : Rendered(m)

\* Loaders call back at last.
ThumbsFairness == \A m \in ThumbFiles : WF_thumbVars(Rendered(m))

ThumbsSpec == ThumbsInit /\ [][ThumbsNext]_thumbVars /\ ThumbsFairness

-----------------------------------------------------------------------------
(* Properties *)

\* Whenever cards load there comes a time when none does: no card loads
\* forever, however the cards that share a file come and go while it is being
\* rendered.
EveryCardAnswered ==
  (\E c \in Cards : card[c] = "loading")
    ~> (\A c \in Cards : card[c] # "loading")

\* The inductive invariant behind it: every card that loads is among those the
\* answer will reach.
LoadingWaits ==
  \A c \in Cards : card[c] = "loading"
    => Model[c] \in pending /\ c \in waiting[Model[c]]
=============================================================================
