----------------------------- MODULE WebFolder ------------------------------
(***************************************************************************)
(* The folder on the screen of the web client (web/src/App.svelte): the    *)
(* session, listings and pages, the folder tree, the actions that change   *)
(* files, and the event stream that keeps the listing fresh.  Every await  *)
(* is a slot of calls; answers arrive in any order, late, or as errors.    *)
(***************************************************************************)
EXTENDS WebLists, SequencesExt, Integers

CONSTANTS
  Paths,      \* paths that can exist, as sequences of names; <<>> is "/"
  Dirs,       \* the folders among them
  Order,      \* place of a path in a listing: folders first, then by name
  PageSize,   \* entries of one page (500 in the code)
  Slots,      \* calls that can be pending at once
  Readers,    \* event streams that can exist at once
  LogoutOnce  \* Logout is not pressed again while it is pending

Root == <<>>

ASSUME PathsAssumption ==
  /\ Root \in Dirs /\ Dirs \subseteq Paths
  /\ Paths \subseteq Seq(STRING) /\ IsFiniteSet(Paths)
  /\ \A p \in Paths : p # Root => Front(p) \in Dirs
ASSUME OrderAssumption ==
  /\ Order \in [Paths -> Nat]
  /\ \A p \in Paths : p # Root => Order[p] > 0
  /\ \A p, q \in Paths \ {Root} :
       Front(p) = Front(q) /\ p # q => Order[p] # Order[q]
ASSUME PageAssumption == PageSize \in Nat \ {0}
ASSUME SlotsAssumption == Slots \subseteq Nat /\ Readers \subseteq Nat \ {0}

VARIABLES
  fs,           \* the paths that exist on the server
  user,         \* somebody is logged in
  loading,      \* the page shows only "Loading"
  busy,         \* a label stands beside the search field
  currentPath, entries, more, cursor,         \* the listing on the screen
  treeEntries, openTree,                      \* the folder tree
  url,          \* the path in the address bar
  calls,        \* pending awaits
  conn,         \* what each event stream is doing
  fileEvents,   \* the stream the client can abort, 0 if none
  events,       \* published and not yet read, in order
  timer,        \* the refresh 250 ms after an event is due
  calm          \* since the last lone load nothing has got past the client

serverVars == <<fs, events>>
listVars == <<currentPath, entries, more, cursor, url>>
treeVars == <<treeEntries, openTree>>
streamVars == <<conn, fileEvents, timer>>
folderVars == <<fs, user, loading, busy, listVars, treeVars, calls, streamVars,
                events, calm>>

-----------------------------------------------------------------------------
(* Paths and listings *)

\* parentPath and joinPath
Parent(p) == IF p = Root THEN Root ELSE Front(p)
Join(p, name) == Append(p, name)

Within(p, d) == IsPrefix(d, p)
Ancestors(p) == {d \in Dirs : Within(p, d) /\ d # p}
Children(d) == {p \in fs : p # Root /\ Parent(p) = d}

\* A page of a folder as the server sends it: the first entries behind the
\* cursor, by name, and whether there are more.
Page(d, after) ==
  LET tail  == {p \in Children(d) : Order[p] > after}
      all   == Ranked(tail, [p \in tail |-> {q \in tail : Order[q] < Order[p]}])
      count == IF Len(all) < PageSize THEN Len(all) ELSE PageSize
  IN [ok |-> d \in fs, list |-> SubSeq(all, 1, count), more |-> Len(all) > count,
      cursor |-> IF Len(all) > count THEN Order[all[count]] ELSE 0]

\* Not served yet.
NoPage == [ok |-> FALSE, list |-> <<>>, more |-> FALSE, cursor |-> 0]

FolderOf(list) == {p \in Range(list) : p \in Dirs}

\* currentPathFallbackEntries: the folders on the way to the current one.
Fallback(p) == (Ancestors(p) \cup {p}) \ {Root}

\* mergeFolderLists and treeRows: the rows of the tree, each below its parent
\* and under open folders only.
TreeFolders ==
  (treeEntries \cup Fallback(currentPath)
     \cup {p \in FolderOf(entries) : Parent(p) = currentPath}) \ {Root}

TreeRows ==
  {p \in TreeFolders : \A d \in Ancestors(p) :
     d \in openTree /\ (d # Root => d \in TreeFolders)}

-----------------------------------------------------------------------------
(* Pending calls *)

NoCall == [op |-> "none"]

\* loadPath alone or with loadTree (refreshCurrentFolder), and what its caller
\* does afterwards.
Load(p, push, tree, then) ==
  [op |-> "load", path |-> p, push |-> push, tree |-> tree, list |-> "sent",
   page |-> NoPage, then |-> then]

FreeSlot == {s \in Slots : calls[s] = NoCall /\ \A r \in Slots : r < s => calls[r] # NoCall}
Op(s, op) == calls[s].op = op
Pending(op) == {s \in Slots : Op(s, op)}

\* Calls whose answer will change the listing.
Listing == {s \in Slots : (Op(s, "load") /\ calls[s].list # "done") \/ Op(s, "more")}

Becomes(s, c) == calls' = [calls EXCEPT ![s] = c]

\* A load begins.  It is a fresh start unless it overlaps another one.
BeginsLoad(s, load) ==
  /\ Becomes(s, load)
  /\ busy' = TRUE
  /\ calm' = IF Listing \ {s} # {} THEN FALSE
             ELSE calm \/ load.push \/ url = load.path

-----------------------------------------------------------------------------
(* The event stream *)

Live(r) == conn[r] \in {"opening", "open"}
Subscribed == \E r \in Readers : conn[r] = "open"

\* stopFileEvents, from the point of view of conn
Aborted == [r \in Readers |-> IF r = fileEvents /\ Live(r) THEN "aborted"
                              ELSE conn[r]]

StopFileEvents ==
  /\ conn' = Aborted /\ fileEvents' = 0 /\ timer' = FALSE
  /\ events' = IF \E r \in Readers : Aborted[r] = "open" THEN events ELSE <<>>

\* startFileEvents: the old stream is aborted, a new one requested.
StartFileEvents ==
  \E r \in Readers :
    /\ conn[r] = "free" /\ \A q \in Readers : q < r => conn[q] # "free"
    /\ conn' = [Aborted EXCEPT ![r] = "opening"]
    /\ fileEvents' = r /\ timer' = FALSE
    /\ events' = IF \E q \in Readers : Aborted[q] = "open" THEN events ELSE <<>>

StreamOpens ==
  /\ \E r \in Readers : conn[r] = "opening" /\ conn' = [conn EXCEPT ![r] = "open"]
  /\ UNCHANGED <<fs, user, loading, busy, listVars, treeVars, calls, fileEvents,
                 events, timer, calm>>

\* Mutant: the reader that ends forgets the stream, whichever it is.
ForgetsStream(r) == 0

\* if (fileEvents === controller) fileEvents = null
AfterReader(r) == IF fileEvents = r THEN 0 ELSE fileEvents

\* readFileEvents ends: refused, aborted, closed by the server or broken.
\* It is not started again.
ReaderEnds ==
  /\ \E r \in Readers :
       /\ conn[r] # "free"
       /\ conn' = [conn EXCEPT ![r] = "free"]
       /\ fileEvents' = AfterReader(r)
       /\ events' = IF conn[r] = "open" THEN <<>> ELSE events
       /\ calm' = (calm /\ (conn[r] = "open" => events = <<>>))
  /\ UNCHANGED <<fs, user, loading, busy, listVars, treeVars, calls, timer>>

\* Mutant: a file that is moved away is not noticed where it was.
AffectsNew(e, p) == Parent(e.path) = p \/ e.path = p \/ Within(p, e.path)

\* eventAffectsCurrentFolder, for the folder p
Affects(e, p) ==
  \E q \in {e.path, e.old} : Parent(q) = p \/ q = p \/ Within(p, q)

\* A chunk of the stream: scheduleRefreshForEvent starts the timer anew or
\* drops the event, also when the folder it is about is just being loaded.
EventRead ==
  /\ Subscribed /\ events # <<>>
  /\ LET e == Head(events) IN
       /\ timer' = (timer \/ Affects(e, currentPath))
       /\ calm' = (calm /\ \/ Affects(e, currentPath)
                           \/ \A s \in Listing : ~Affects(e, calls[s].path))
  /\ events' = Tail(events)
  /\ UNCHANGED <<fs, user, loading, busy, listVars, treeVars, calls, conn, fileEvents>>

\* The timer fires: refreshCurrentFolder
TimerFires ==
  /\ timer /\ timer' = FALSE
  /\ \E s \in FreeSlot : BeginsLoad(s, Load(currentPath, FALSE, TRUE, "end"))
  /\ UNCHANGED <<serverVars, user, loading, listVars, treeVars, conn, fileEvents>>

-----------------------------------------------------------------------------
(* The session *)

\* restoreSession: a token was kept, me() has been sent.
FolderInit ==
  /\ fs \in {f \in SUBSET Paths : Root \in f /\ \A p \in f : Parent(p) \in f}
  /\ user = FALSE /\ loading = TRUE /\ busy = FALSE
  /\ currentPath = Root /\ entries = <<>> /\ more = FALSE /\ cursor = 0
  /\ treeEntries = {} /\ openTree = {Root}
  /\ url \in Dirs
  /\ calls \in {[s \in Slots |-> IF s = t THEN [op |-> "me"] ELSE NoCall] :
                  t \in {t \in Slots : \A s \in Slots : t <= s}}
  /\ conn = [r \in Readers |-> "free"] /\ fileEvents = 0
  /\ events = <<>> /\ timer = FALSE
  /\ calm = FALSE

\* me() or login() is answered: the user is known, tree and folder are loaded.
Enters(s) ==
  /\ \/ Op(s, "me") /\ BeginsLoad(s, Load(url, FALSE, TRUE, "enter"))
     \/ Op(s, "login") /\ BeginsLoad(s, Load(Root, TRUE, TRUE, "enter"))
  /\ user' = TRUE
  /\ UNCHANGED <<serverVars, loading, listVars, treeVars, streamVars>>

\* The session is over, or the password is wrong: the login form.
EntryFails(s) ==
  /\ Op(s, "me") \/ Op(s, "login")
  /\ Becomes(s, NoCall) /\ loading' = FALSE
  /\ UNCHANGED <<serverVars, user, busy, listVars, treeVars, streamVars, calm>>

SubmitLogin ==
  /\ ~user /\ ~loading
  /\ \E s \in FreeSlot : Becomes(s, [op |-> "login"])
  /\ loading' = TRUE
  /\ UNCHANGED <<serverVars, user, busy, listVars, treeVars, streamVars, calm>>

\* The pages behind the login form.
AtWork == user /\ ~loading

SubmitLogout ==
  /\ AtWork /\ (LogoutOnce => Pending("logout") = {})
  /\ \E s \in FreeSlot : Becomes(s, [op |-> "logout"])
  /\ UNCHANGED <<serverVars, user, loading, busy, listVars, treeVars, streamVars,
                 calm>>

\* logout() is answered.  If it fails, submitLogout ends there.
LoggedOut(s) ==
  /\ Op(s, "logout")
  /\ Becomes(s, NoCall)
  /\ \/ /\ StopFileEvents /\ user' = FALSE
        /\ entries' = <<>> /\ treeEntries' = {}
     \/ UNCHANGED <<streamVars, events, user, entries, treeEntries>>
  /\ UNCHANGED <<fs, loading, busy, currentPath, more, cursor, url, openTree, calm>>

-----------------------------------------------------------------------------
(* Loading *)

\* A folder the page offers to open: the crumbs, the tree, the list.
Offered == Ancestors(currentPath) \cup TreeRows \cup FolderOf(entries) \cup {Root}

\* loadPath(p, { push: true })
Navigate ==
  /\ AtWork
  /\ \E p \in Offered, s \in FreeSlot : BeginsLoad(s, Load(p, TRUE, FALSE, "end"))
  /\ UNCHANGED <<serverVars, user, loading, listVars, treeVars, streamVars>>

\* refreshCurrentFolder, from its button or after an upload
Refresh ==
  /\ AtWork
  /\ \E s \in FreeSlot : BeginsLoad(s, Load(currentPath, FALSE, TRUE, "end"))
  /\ UNCHANGED <<serverVars, user, loading, listVars, treeVars, streamVars>>

\* The server reads the folder.
ListServed(s) ==
  /\ Op(s, "load") /\ calls[s].list = "sent"
  /\ Becomes(s, [calls[s] EXCEPT !.list = "served",
                                 !.page = Page(calls[s].path, 0)])
  /\ UNCHANGED <<serverVars, user, loading, busy, listVars, treeVars, streamVars,
                 calm>>

\* Call s has lost a part: when both are through its caller goes on.
Ends(s, c) ==
  IF c.list # "done" \/ c.tree
    THEN Becomes(s, c) /\ UNCHANGED <<loading, streamVars, events>>
    ELSE /\ Becomes(s, NoCall)
         /\ IF c.then = "enter"
              THEN StartFileEvents /\ loading' = FALSE
              ELSE UNCHANGED <<loading, streamVars, events>>

\* Mutant: the address bar is not brought along.
KeepsURL(c) == url

\* if (options.push !== false) syncURLPath(currentPath)
URLAfter(c) == IF c.push THEN c.path ELSE url

\* loadPath shows the answer, whatever has happened since it asked.
ListAnswers(s) ==
  LET c == calls[s] IN
  /\ Op(s, "load") /\ c.list = "served" /\ c.page.ok
  /\ currentPath' = c.path /\ entries' = c.page.list
  /\ more' = c.page.more /\ cursor' = c.page.cursor
  /\ treeEntries' = treeEntries \cup FolderOf(c.page.list)
  /\ openTree' = openTree \cup Ancestors(c.path) \cup {Root}
  /\ url' = URLAfter(c)
  /\ busy' = FALSE
  /\ Ends(s, [c EXCEPT !.list = "done"])
  /\ UNCHANGED <<fs, user, calm>>

\* The folder is gone, or the call fails: the old listing stays.
ListFails(s) ==
  /\ Op(s, "load") /\ calls[s].list = "served"
  /\ busy' = FALSE /\ calm' = FALSE
  /\ Ends(s, [calls[s] EXCEPT !.list = "done"])
  /\ UNCHANGED <<fs, user, listVars, treeVars>>

\* With its tree call c ends, and runAction with it, which puts out the label.
EndsAction(c) == c.list = "done" /\ c.then = "action"

\* loadTree: all folders, or an error
TreeAnswers(s) ==
  /\ Op(s, "load") /\ calls[s].tree
  /\ \/ /\ treeEntries' = (fs \cap Dirs) \ {Root}
        /\ openTree' = openTree \cup Ancestors(currentPath) \cup {Root}
     \/ UNCHANGED treeVars
  /\ Ends(s, [calls[s] EXCEPT !.tree = FALSE])
  /\ busy' = (busy /\ ~EndsAction(calls[s]))
  /\ UNCHANGED <<fs, user, listVars, calm>>

\* The sentinel below the list comes into view: loadMoreFolder
LoadMore ==
  /\ AtWork /\ more /\ ~busy
  /\ \E s \in FreeSlot :
       Becomes(s, [op |-> "more", path |-> currentPath, after |-> cursor,
                   served |-> FALSE, page |-> NoPage])
  /\ calm' = (calm /\ Listing = {})
  /\ UNCHANGED <<serverVars, user, loading, busy, listVars, treeVars, streamVars>>

MoreServed(s) ==
  /\ Op(s, "more") /\ ~calls[s].served
  /\ Becomes(s, [calls[s] EXCEPT !.served = TRUE,
                                 !.page = Page(calls[s].path, calls[s].after)])
  /\ UNCHANGED <<serverVars, user, loading, busy, listVars, treeVars, streamVars,
                 calm>>

\* The page is appended to the list that is there now.
MoreAnswers(s) ==
  LET page == calls[s].page IN
  /\ Op(s, "more") /\ calls[s].served
  /\ \/ /\ page.ok
        /\ entries' = entries \o page.list
        /\ more' = page.more /\ cursor' = page.cursor
     \/ UNCHANGED <<entries, more, cursor>>
  /\ Becomes(s, NoCall)
  /\ UNCHANGED <<serverVars, user, loading, busy, currentPath, url, treeVars,
                 streamVars, calm>>

\* toggleTree
ToggleTree ==
  /\ AtWork
  /\ \E d \in TreeRows : openTree' = IF d \in openTree THEN openTree \ {d}
                                     ELSE openTree \cup {d}
  /\ UNCHANGED <<serverVars, user, loading, busy, listVars, treeEntries, calls,
                 streamVars, calm>>

-----------------------------------------------------------------------------
(* Changing files *)

\* p is below n, the new place of g, and comes along with it.
Along(p, g, n) ==
  Within(p, n) /\ g \o SubSeq(p, Len(n) + 1, Len(p)) \in fs

\* Files change on the server, which tells the streams that are open.
Changes(gone, new) ==
  LET left  == {p \in fs : \A g \in gone : ~Within(p, g)}
      there == {n \in new : Parent(n) \in left}
  IN
  /\ fs' = left \cup there
            \cup {p \in Paths : \E n \in there, g \in gone : Along(p, g, n)}
  /\ fs' # fs
  /\ events' = IF Subscribed
                 THEN events \o [k \in 1..1 |->
                        [path |-> CHOOSE p \in (IF new = {} THEN gone ELSE new) : TRUE,
                         old  |-> CHOOSE p \in (IF gone = {} THEN new ELSE gone) : TRUE]]
                 ELSE events
  /\ calm' = (calm /\ Subscribed)

\* Another client, WebDAV or the disk itself.
Outside ==
  /\ \E p \in Paths \ {Root} :
       IF p \in fs THEN Changes({p}, {}) ELSE Changes({}, {p})
  /\ UNCHANGED <<user, loading, busy, listVars, treeVars, calls, streamVars>>

\* submitActionDialog and the drop on a row of the tree, for one item: mkdir,
\* move (also rename) or delete, each inside runAction.
Act ==
  /\ AtWork
  /\ \E s \in FreeSlot :
       \/ \E d \in Dirs : /\ d # Root /\ Parent(d) = currentPath
                          /\ Becomes(s, [op |-> "act", gone |-> {}, new |-> {d}])
       \/ \E p \in Range(entries) :
            \/ Becomes(s, [op |-> "act", gone |-> {p}, new |-> {}])
            \/ \E d \in TreeRows \cup {Root} :
                 /\ Join(d, Last(p)) \in Paths \ fs
                 /\ Becomes(s, [op |-> "act", gone |-> {p}, new |-> {Join(d, Last(p))}])
  /\ busy' = TRUE
  /\ UNCHANGED <<serverVars, user, loading, listVars, treeVars, streamVars, calm>>

\* The server does it; the answer is on its way.
ActServed(s) ==
  /\ Op(s, "act")
  /\ calls[s].gone \subseteq fs /\ calls[s].new \cap fs = {}
  /\ Changes(calls[s].gone, calls[s].new)
  /\ Becomes(s, [op |-> "acted"])
  /\ UNCHANGED <<user, loading, busy, listVars, treeVars, streamVars>>

\* Success: refreshCurrentFolder.
ActAnswers(s) ==
  /\ Op(s, "acted")
  /\ BeginsLoad(s, Load(currentPath, FALSE, TRUE, "action"))
  /\ UNCHANGED <<serverVars, user, loading, listVars, treeVars, streamVars>>

\* An error, also one that hides that the server has done it.
ActFails(s) ==
  /\ Op(s, "act") \/ Op(s, "acted")
  /\ Becomes(s, NoCall) /\ busy' = FALSE
  /\ UNCHANGED <<serverVars, user, loading, listVars, treeVars, streamVars, calm>>

-----------------------------------------------------------------------------
FolderUser ==
  \/ SubmitLogin \/ SubmitLogout \/ Navigate \/ Refresh \/ LoadMore
  \/ ToggleTree \/ Act

FolderAnswers ==
  \E s \in Slots :
    \/ Enters(s) \/ EntryFails(s) \/ LoggedOut(s)
    \/ ListServed(s) \/ ListAnswers(s) \/ ListFails(s) \/ TreeAnswers(s)
    \/ MoreServed(s) \/ MoreAnswers(s)
    \/ ActServed(s) \/ ActAnswers(s) \/ ActFails(s)

FolderStream == StreamOpens \/ ReaderEnds \/ EventRead \/ TimerFires

FolderNext == FolderUser \/ FolderAnswers \/ FolderStream \/ Outside

FolderSpec == FolderInit /\ [][FolderNext]_folderVars

-----------------------------------------------------------------------------
(* Properties *)

FolderTypeOK ==
  /\ fs \subseteq Paths /\ Root \in fs
  /\ {user, loading, busy, more, timer, calm} \subseteq BOOLEAN
  /\ currentPath \in Dirs /\ url \in Dirs /\ cursor \in Nat
  /\ Range(entries) \subseteq Paths
  /\ treeEntries \subseteq Dirs /\ openTree \subseteq Dirs
  /\ conn \in [Readers -> {"free", "opening", "open", "aborted"}]
  /\ fileEvents \in Readers \cup {0}

Resting ==
  /\ AtWork /\ ~timer /\ events = <<>>
  /\ \A s \in Slots : calls[s] = NoCall

\* When all is answered and nothing got past the client, the screen shows the
\* first entries of the current folder as it is on the server, the address bar
\* names it, and it has a row in the tree under open folders: changes made by
\* anybody have reached the screen through the event stream.
AtRestShown ==
  Resting /\ calm /\ currentPath \in fs =>
    /\ LET now == Page(currentPath, 0).list IN
       /\ Len(entries) >= Len(now) /\ SubSeq(entries, 1, Len(now)) = now
       /\ Range(entries) \subseteq Children(currentPath)
       /\ more <=> Len(entries) < Cardinality(Children(currentPath))
    /\ url = currentPath
    /\ currentPath # Root /\ Ancestors(currentPath) \subseteq openTree
         => currentPath \in TreeRows

\* An event stream that is open or being opened belongs to the user on the
\* screen and can be aborted: no stream or refresh timer outlives the logout.
StreamOfUser ==
  /\ \A r \in Readers : Live(r) => r = fileEvents /\ user
  /\ timer => user
=============================================================================
