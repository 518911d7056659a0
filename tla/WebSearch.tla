------------------------------ MODULE WebSearch ------------------------------
(***************************************************************************)
(* The search dialog and the info panel of the web client                  *)
(* (web/src/App.svelte).  A search begins 300 ms after the last change of  *)
(* the query, or at once with Enter; searches that are on their way are    *)
(* not given up when another one begins.  Results are told apart by the    *)
(* query they answer, EXIF data by its file.                               *)
(***************************************************************************)
EXTENDS Naturals, FiniteSets

CONSTANTS
  Queries,      \* queries that are not blank
  Blank,        \* the empty query, and no results
  Shots,        \* files, images or not, whose info can be opened
  Photos,       \* those that may have EXIF data
  NoShot,
  SearchCalls   \* requests that can be pending at once

ASSUME SearchAssumption ==
  /\ Blank \notin Queries /\ Photos \subseteq Shots /\ NoShot \notin Shots
  /\ SearchCalls \subseteq Nat

VARIABLES
  searchQuery, searchResults, searchOpen,
  searchDebounce,   \* the timer runs
  searches,         \* the queries that are on their way
  crossed,          \* history: since a search began alone, another query was on
                    \* its way with it, or the query was cleared, or it failed
  infoEntry, infoExif, infoExifLoading,
  reads,            \* the files whose EXIF data is on its way
  mixed             \* history: the panel was opened while another file's was

searchVars == <<searchQuery, searchResults, searchOpen, searchDebounce, searches,
                crossed>>
infoVars == <<infoEntry, infoExif, infoExifLoading, reads, mixed>>
findVars == <<searchVars, infoVars>>

SearchTypeOK ==
  /\ {searchQuery, searchResults} \subseteq Queries \cup {Blank}
  /\ {searchOpen, searchDebounce, crossed, infoExifLoading, mixed} \subseteq BOOLEAN
  /\ searches \in [SearchCalls -> Queries \cup {Blank}]
  /\ {infoEntry, infoExif} \subseteq Shots \cup {NoShot}
  /\ reads \in [SearchCalls -> Photos \cup {NoShot}]

SearchInit ==
  /\ searchQuery = Blank /\ searchResults = Blank
  /\ searches = [c \in SearchCalls |-> Blank]
  /\ infoEntry = NoShot /\ infoExif = NoShot
  /\ reads = [c \in SearchCalls |-> NoShot]
  /\ searchOpen = FALSE /\ searchDebounce = FALSE /\ crossed = FALSE
  /\ infoExifLoading = FALSE /\ mixed = FALSE

-----------------------------------------------------------------------------
(* Searching *)

OnTheirWay == {searches[c] : c \in SearchCalls} \ {Blank}

\* The first slot that is free.
FreeCall(calls, none) ==
  {c \in SearchCalls : calls[c] = none
                       /\ \A d \in SearchCalls : d < c => calls[d] # none}

\* Mutant: typing searches only while nothing has been found.
UntilFound == searchResults = Blank

\* setTimeout, after the timer that ran has been stopped.
Debounces == TRUE

\* onSearchInput, in the top bar or in the dialog: a blank query closes the
\* dialog at once.
OnSearchInput ==
  /\ \E q \in (Queries \cup {Blank}) \ {searchQuery} :
       /\ searchQuery' = q
       /\ IF q = Blank
            THEN /\ searchOpen' = FALSE /\ searchResults' = Blank
                 /\ searchDebounce' = FALSE
                 /\ crossed' = (crossed \/ OnTheirWay # {})
            ELSE /\ searchDebounce' = Debounces
                 /\ UNCHANGED <<searchOpen, searchResults, crossed>>
  /\ UNCHANGED <<searches, infoVars>>

\* submitSearch: a blank query closes the dialog, any other is asked for.
SubmitSearch ==
  IF searchQuery = Blank
    THEN searchOpen' = FALSE /\ searchResults' = Blank /\ UNCHANGED <<searches, crossed>>
    ELSE /\ \E c \in FreeCall(searches, Blank) :
              searches' = [searches EXCEPT ![c] = searchQuery]
         /\ crossed' = (OnTheirWay # {} /\ (crossed \/ OnTheirWay # {searchQuery}))
         /\ UNCHANGED <<searchOpen, searchResults>>

\* Enter leaves the timer running, which then searches once more.
PressEnter ==
  /\ SubmitSearch
  /\ UNCHANGED <<searchQuery, searchDebounce, infoVars>>

SearchTimerFires ==
  /\ searchDebounce /\ searchDebounce' = FALSE
  /\ SubmitSearch
  /\ UNCHANGED <<searchQuery, infoVars>>

\* The results are shown, and the dialog opens, whatever has become of the query.
SearchAnswers(c) ==
  /\ searches[c] # Blank
  /\ searchResults' = searches[c] /\ searchOpen' = TRUE
  /\ searches' = [searches EXCEPT ![c] = Blank]
  /\ UNCHANGED <<searchQuery, searchDebounce, crossed, infoVars>>

\* runAction shows the error and leaves the rest as it was.
SearchFails(c) ==
  /\ searches[c] # Blank /\ crossed' = TRUE
  /\ searches' = [searches EXCEPT ![c] = Blank]
  /\ UNCHANGED <<searchQuery, searchResults, searchOpen, searchDebounce, infoVars>>

\* Escape, a click beside the dialog or on a result close it; the field in the
\* top bar opens it when it gets the focus.
ShowSearch ==
  /\ searchOpen' = ~searchOpen /\ (searchOpen' => searchQuery # Blank)
  /\ UNCHANGED <<searchQuery, searchResults, searchDebounce, searches, crossed, infoVars>>

-----------------------------------------------------------------------------
(* The info panel *)

\* openInfoPanel, with no entry when the selected one is no longer listed.  The
\* data is asked for where there may be some; the read before is not given up.
OpenInfoPanel ==
  /\ \E e \in Shots \cup {NoShot} :
       /\ infoEntry' = e /\ infoExif' = NoShot
       /\ mixed' = \E c \in SearchCalls : reads[c] \notin {NoShot, e}
       /\ IF e \in Photos
            THEN /\ infoExifLoading' = TRUE
                 /\ \E c \in FreeCall(reads, NoShot) : reads' = [reads EXCEPT ![c] = e]
            ELSE UNCHANGED <<infoExifLoading, reads>>
  /\ UNCHANGED searchVars

CloseInfoPanel ==
  /\ infoEntry # NoShot /\ infoEntry' = NoShot
  /\ UNCHANGED <<infoExif, infoExifLoading, reads, mixed, searchVars>>

\* The data, or an error that is ignored.
InfoAnswers(c) ==
  /\ reads[c] # NoShot /\ reads' = [reads EXCEPT ![c] = NoShot]
  /\ infoExif' \in {reads[c], infoExif} /\ infoExifLoading' = FALSE
  /\ UNCHANGED <<infoEntry, mixed, searchVars>>

SearchUser == OnSearchInput \/ PressEnter \/ ShowSearch
SearchGoesOn ==
  SearchTimerFires \/ \E c \in SearchCalls : SearchAnswers(c) \/ SearchFails(c)
InfoUser == OpenInfoPanel \/ CloseInfoPanel
InfoGoesOn == \E c \in SearchCalls : InfoAnswers(c)

SearchNext == SearchUser \/ SearchGoesOn \/ InfoUser \/ InfoGoesOn
SearchSpec == SearchInit /\ [][SearchNext]_findVars

-----------------------------------------------------------------------------
\* When nothing is on its way, the dialog lists what its query has found, and the
\* panel the data of its file - unless, since a request was last made alone,
\* requests for different things were on their way together, or one failed.
FoundIsShown ==
  /\ ~crossed /\ ~searchDebounce /\ OnTheirWay = {} => searchResults = searchQuery
  /\ ~mixed /\ infoEntry # NoShot => infoExif \in {NoShot, infoEntry}
  /\ (\A c \in SearchCalls : reads[c] = NoShot) => ~infoExifLoading
=============================================================================
