------------------------------ MODULE WebModel ------------------------------
(***************************************************************************)
(* The 3D viewer of the web client (web/src/lib/ThreeDViewer.svelte).  The *)
(* component stays while the viewer goes from one model to the next, so    *)
(* models that were asked for earlier arrive in the scene of a later one.  *)
(***************************************************************************)
EXTENDS Naturals, FiniteSets, Sequences

CONSTANTS
  Models,     \* model files that can be opened
  Supported,  \* those of a format there is a loader for
  Revisit     \* a model is opened again while its viewer is still up

ASSUME ModelsAssumption == Supported \subseteq Models /\ Revisit \in BOOLEAN

VARIABLES
  mounted,      \* the component is on the page
  loadedSrc,    \* the model asked for last
  modelLoading, modelError,   \* the overlay
  scene,        \* the objects in the scene, each by the number of its load
  currentObject,    \* the one disposeCurrentObject takes out; 0 is none
  asked,        \* the loads of this component, in order
  arriving      \* those whose loader has not called back

modelVars == <<mounted, loadedSrc, modelLoading, modelError, scene,
               currentObject, asked, arriving>>

ModelTypeOK ==
  /\ {mounted, modelLoading, modelError} \subseteq BOOLEAN
  /\ asked \in Seq(Models)
  /\ loadedSrc = (IF asked = <<>> THEN "none" ELSE asked[Len(asked)])
  /\ arriving \subseteq DOMAIN asked /\ scene \subseteq DOMAIN asked
  /\ currentObject \in DOMAIN asked \cup {0}

ModelInit ==
  /\ mounted = FALSE /\ loadedSrc = "none"
  /\ modelLoading = TRUE /\ modelError = FALSE
  /\ scene = {} /\ currentObject = 0
  /\ asked = <<>> /\ arriving = {}

\* Mutant: the object that is shown stays in the scene.
KeepsObject(s, o) == s

\* disposeCurrentObject, on the scene
WithoutObject(s, o) == s \ {o}

\* loadModel, in a component that has made these loads before: a model of an
\* unknown format is refused at once.
LoadModel(m, before) ==
  /\ loadedSrc' = m /\ asked' = Append(before, m)
  /\ currentObject' = 0
  /\ modelLoading' = (m \in Supported) /\ modelError' = (m \notin Supported)

Loads(m, n) == IF m \in Supported THEN {n} ELSE {}

\* onMount: a new component with a scene of its own loads its first model.
Mount ==
  /\ ~mounted /\ mounted' = TRUE
  /\ \E m \in Models :
       /\ LoadModel(m, <<>>)
       /\ arriving' = Loads(m, 1) /\ scene' = {}

\* The src changes under the component: the reactive statement loads it.
ShowModel ==
  /\ mounted
  /\ \E m \in Models \ {loadedSrc} :
       /\ ~Revisit => \A k \in DOMAIN asked : asked[k] # m
       /\ LoadModel(m, asked)
       /\ arriving' = arriving \cup Loads(m, Len(asked) + 1)
       /\ scene' = WithoutObject(scene, currentObject)
  /\ UNCHANGED mounted

\* Mutant: the answer is not compared with what is wanted now.
AnyAnswer(n) == TRUE

\* if (loadedSrc !== url) ...
Wanted(n) == loadedSrc = asked[n]

\* onObject: a model that is no longer wanted is thrown away.  The component
\* may be gone by then.
ObjectArrives ==
  /\ \E n \in arriving :
       /\ arriving' = arriving \ {n}
       /\ IF Wanted(n)
            THEN /\ currentObject' = n /\ scene' = scene \cup {n}
                 /\ modelLoading' = FALSE
            ELSE UNCHANGED <<currentObject, scene, modelLoading>>
  /\ UNCHANGED <<mounted, loadedSrc, modelError, asked>>

\* onError
ModelFails ==
  /\ \E n \in arriving :
       /\ arriving' = arriving \ {n}
       /\ IF Wanted(n) THEN modelLoading' = FALSE /\ modelError' = TRUE
                       ELSE UNCHANGED <<modelLoading, modelError>>
  /\ UNCHANGED <<mounted, loadedSrc, scene, currentObject, asked>>

\* cleanup: the viewer is closed or shows something else.
Cleanup ==
  /\ mounted /\ mounted' = FALSE
  /\ scene' = WithoutObject(scene, currentObject) /\ currentObject' = 0
  /\ UNCHANGED <<loadedSrc, modelLoading, modelError, asked, arriving>>

ModelUser == Mount \/ ShowModel \/ Cleanup
ModelAnswers == ObjectArrives \/ ModelFails
ModelNext == ModelUser \/ ModelAnswers
ModelSpec == ModelInit /\ [][ModelNext]_modelVars

-----------------------------------------------------------------------------
(* Properties *)

\* The scene never shows two models at once or one that was left: it holds
\* the object that can be taken out again and nothing else, that object is of
\* the model wanted last, and while the overlay says that it is loading or has
\* failed there is none.
SceneHoldsCurrent ==
  mounted =>
    /\ scene = {currentObject} \ {0}
    /\ currentObject # 0 => asked[currentObject] = loadedSrc
    /\ (currentObject = 0) <=> (modelLoading \/ modelError)
=============================================================================
