--------------------------- MODULE WebFolderProofs ---------------------------
(***************************************************************************)
(* Proofs about the folder view of the web client: the arrays it shows,    *)
(* its session and event stream, and that the list on the screen is the    *)
(* folder on the server when all is answered.                              *)
(***************************************************************************)
EXTENDS WebFolder, FiniteSetTheorems, SequenceTheorems, TLAPS

-----------------------------------------------------------------------------
(* Arrays *)

\* below is a linear order of the finite set S: the elements before each one.
LinearOn(S, below) ==
  /\ IsFiniteSet(S)
  /\ \A x \in S : below[x] \subseteq S \ {x}
  /\ \A x, y \in S : x # y => x \in below[y] \/ y \in below[x]
  /\ \A x, y \in S : x \in below[y] => below[x] \subseteq below[y]

\* Before an element there is a place in the array.
LEMMA PlaceIn ==
  ASSUME NEW S, NEW below, LinearOn(S, below), NEW x \in S
  PROVE  /\ Cardinality(S) \in Nat /\ IsFiniteSet(below[x])
         /\ Cardinality(below[x]) \in 0..(Cardinality(S) - 1)
<1>1. Cardinality(S) \in Nat /\ IsFiniteSet(S)
  BY FS_CardinalityType DEF LinearOn
<1>2. below[x] \in SUBSET S /\ x \notin below[x]
  BY DEF LinearOn
<1>3. /\ IsFiniteSet(below[x]) /\ Cardinality(below[x]) <= Cardinality(S)
      /\ Cardinality(below[x]) # Cardinality(S)
  BY <1>1, <1>2, FS_Subset
<1>4. Cardinality(below[x]) \in Nat
  BY <1>3, FS_CardinalityType
<1> QED
  BY <1>1, <1>3, <1>4

\* No two elements have the same place.
LEMMA PlaceApart ==
  ASSUME NEW S, NEW below, LinearOn(S, below), NEW x \in S, NEW y \in S,
         Cardinality(below[x]) = Cardinality(below[y])
  PROVE  x = y
<1>1. ASSUME NEW a \in S, NEW b \in S, a \in below[b]
      PROVE  Cardinality(below[a]) # Cardinality(below[b])
  <2>1. below[a] \in SUBSET below[b] /\ a \notin below[a]
    BY <1>1 DEF LinearOn
  <2> QED
    BY <1>1, <2>1, PlaceIn, FS_Subset
<1> QED
  BY <1>1 DEF LinearOn

\* In a linear order every place is taken.
LEMMA PlaceTaken ==
  ASSUME NEW S, NEW below, LinearOn(S, below), NEW k \in 1..Cardinality(S)
  PROVE  \E x \in S : Cardinality(below[x]) = k - 1
<1> DEFINE n == Cardinality(S)
           T == 0..(n - 1)
           f == [x \in S |-> Cardinality(below[x])]
<1>1. n \in Nat /\ IsFiniteSet(S)
  BY FS_CardinalityType DEF LinearOn
<1>2. IsFiniteSet(T) /\ Cardinality(T) = n
  <2> HIDE DEF n
  <2> QED BY <1>1, FS_Interval
<1>3. ASSUME NEW x \in S
      PROVE  IsFiniteSet(below[x]) /\ Cardinality(below[x]) \in T
  BY PlaceIn
<1>5. f \in [S -> T] /\ \A x, y \in S : f[x] = f[y] => x = y
  BY <1>3, PlaceApart
<1>6. f \in Injection(S, T)
  <2> HIDE DEF f, T
  <2> QED BY <1>5 DEF Injection, IsInjective
<1>7. f \in Surjection(S, T)
  <2> HIDE DEF f, T, n
  <2>1. Cardinality(S) = Cardinality(T)
    BY <1>2 DEF n
  <2> QED BY <1>2, <1>6, <2>1, FS_Injection
<1>8. k - 1 \in T
  BY <1>1
<1>9. \E x \in S : f[x] = k - 1
  <2> HIDE DEF f, T
  <2> QED BY <1>7, <1>8 DEF Surjection
<1> QED
  BY <1>9

\* A sorted array holds the elements of its set, as many as they are.
LEMMA RankedSeq ==
  ASSUME NEW S, NEW below, LinearOn(S, below)
  PROVE  /\ Cardinality(S) \in Nat
         /\ Ranked(S, below) \in [1..Cardinality(S) -> S]
         /\ Ranked(S, below) \in Seq(S) /\ Len(Ranked(S, below)) = Cardinality(S)
         /\ IsInjective(Ranked(S, below))
         /\ \A k \in 1..Cardinality(S) :
              Cardinality(below[Ranked(S, below)[k]]) = k - 1
<1>1. Cardinality(S) \in Nat
  BY FS_CardinalityType DEF LinearOn
<1>2. ASSUME NEW k \in 1..Cardinality(S)
      PROVE  /\ Ranked(S, below)[k] \in S
             /\ Cardinality(below[Ranked(S, below)[k]]) = k - 1
  BY PlaceTaken DEF Ranked
<1>3. Ranked(S, below) \in [1..Cardinality(S) -> S]
  <2>1. DOMAIN Ranked(S, below) = 1..Cardinality(S)
    BY DEF Ranked
  <2>2. Ranked(S, below) = [k \in 1..Cardinality(S) |-> Ranked(S, below)[k]]
    BY DEF Ranked
  <2> QED
    BY <1>2, <2>1, <2>2
<1>4. Ranked(S, below) \in Seq(S) /\ Len(Ranked(S, below)) = Cardinality(S)
  BY <1>1, <1>3
<1>5. IsInjective(Ranked(S, below))
  BY <1>2, <1>3 DEF IsInjective
<1> QED
  BY <1>1, <1>2, <1>3, <1>4, <1>5

\* The numbers below each one of a set of numbers.
Below(S) == [x \in S |-> {y \in S : y < x}]

\* Numbers are in a linear order.
LEMMA AscendingSeq ==
  ASSUME NEW S, IsFiniteSet(S), S \subseteq Nat
  PROVE  /\ LinearOn(S, Below(S)) /\ Cardinality(S) \in Nat
         /\ Ascending(S) \in [1..Cardinality(S) -> S]
         /\ Ascending(S) \in Seq(S) /\ Len(Ascending(S)) = Cardinality(S)
         /\ IsInjective(Ascending(S))
<1>1. \A x \in S : Below(S)[x] \subseteq S \ {x}
  BY DEF Below
<1>2. \A x, y \in S : x # y => x \in Below(S)[y] \/ y \in Below(S)[x]
  BY DEF Below
<1>3. ASSUME NEW x \in S, NEW y \in S, x \in Below(S)[y], NEW z \in Below(S)[x]
      PROVE  z \in Below(S)[y]
  <2>1. x < y /\ z \in S /\ z < x /\ {x, y, z} \subseteq Nat
    BY <1>3 DEF Below
  <2> QED
    BY <2>1 DEF Below
<1>4. LinearOn(S, Below(S))
  BY <1>1, <1>2, <1>3 DEF LinearOn
<1>5. Ascending(S) = Ranked(S, Below(S))
  BY DEF Ascending, Below
<1> QED
  BY <1>4, <1>5, RankedSeq

\* A filter keeps only what passes it, of what there was.
LEMMA KeptSeq ==
  ASSUME NEW A, NEW s \in Seq(A), NEW S
  PROVE  /\ Kept(s, S) \in Seq(A \cap S)
         /\ \A k \in DOMAIN Kept(s, S) : \E j \in 1..Len(s) : Kept(s, S)[k] = s[j]
         /\ IsInjective(s) => IsInjective(Kept(s, S))
<1> DEFINE K == {k \in 1..Len(s) : s[k] \in S}
<1>1. Len(s) \in Nat /\ DOMAIN s = 1..Len(s)
  OBVIOUS
<1>2. IsFiniteSet(K) /\ K \subseteq Nat
  <2>1. IsFiniteSet(1..Len(s))
    BY <1>1, FS_Interval
  <2>2. K \in SUBSET (1..Len(s))
    OBVIOUS
  <2> QED
    BY <1>1, <2>1, <2>2, FS_Subset
<1> DEFINE at == Ascending(K)
<1>3. /\ Cardinality(K) \in Nat /\ at \in [1..Cardinality(K) -> K]
      /\ IsInjective(at)
  BY <1>2, AscendingSeq
<1>4. Kept(s, S) = [n \in DOMAIN at |-> s[at[n]]]
  BY DEF Kept
<1>5. ASSUME NEW n \in 1..Cardinality(K)
      PROVE  at[n] \in 1..Len(s) /\ s[at[n]] \in A \cap S
  <2>1. at[n] \in K
    <3> HIDE DEF at, K
    <3> QED BY <1>3
  <2>2. s[at[n]] \in A
    <3> HIDE DEF at
    <3> QED BY <2>1
  <2> HIDE DEF at
  <2> QED
    BY <2>1, <2>2
<1>6. Kept(s, S) \in [1..Cardinality(K) -> A \cap S]
  <2> HIDE DEF at, K
  <2> QED BY <1>3, <1>4, <1>5
<1>7. Kept(s, S) \in Seq(A \cap S)
  <2> HIDE DEF at, K
  <2> QED BY <1>3, <1>6
<1>8. \A k \in DOMAIN Kept(s, S) : \E j \in 1..Len(s) : Kept(s, S)[k] = s[j]
  <2> HIDE DEF at, K
  <2> QED BY <1>3, <1>4, <1>5
<1>9. IsInjective(s) => IsInjective(Kept(s, S))
  <2> HIDE DEF at, K
  <2> QED BY <1>1, <1>3, <1>4, <1>5 DEF IsInjective
<1> QED
  BY <1>7, <1>8, <1>9

\* A slice between two places of an array holds elements of it.
LEMMA SliceSeq ==
  ASSUME NEW A, NEW s \in Seq(A), NEW j \in 1..Len(s), NEW k \in 1..Len(s)
  PROVE  Slice(s, j, k) \in Seq(A) /\ (IsInjective(s) => IsInjective(Slice(s, j, k)))
<1>1. ASSUME NEW a \in 1..Len(s), NEW b \in 1..Len(s)
      PROVE  /\ SubSeq(s, a, b) \in Seq(A)
             /\ IsInjective(s) => IsInjective(SubSeq(s, a, b))
  <2>1. \A i \in a..b : s[i] \in A
    OBVIOUS
  <2>2. /\ SubSeq(s, a, b) \in Seq(A)
        /\ Len(SubSeq(s, a, b)) = IF a <= b THEN b - a + 1 ELSE 0
        /\ \A i \in 1..(b - a + 1) : SubSeq(s, a, b)[i] = s[a + i - 1]
    BY <2>1, SubSeqProperties
  <2>3. DOMAIN SubSeq(s, a, b) = 1..(IF a <= b THEN b - a + 1 ELSE 0)
    BY <2>2
  <2>4. ASSUME IsInjective(s) PROVE IsInjective(SubSeq(s, a, b))
    <3>1. ASSUME NEW i \in 1..(b - a + 1), NEW m \in 1..(b - a + 1),
                 SubSeq(s, a, b)[i] = SubSeq(s, a, b)[m]
          PROVE  i = m
      <4>1. /\ a + i - 1 \in 1..Len(s) /\ a + m - 1 \in 1..Len(s)
            /\ DOMAIN s = 1..Len(s)
        OBVIOUS
      <4>2. s[a + i - 1] = s[a + m - 1]
        BY <2>2, <3>1
      <4> QED
        BY <2>4, <4>1, <4>2 DEF IsInjective
    <3>2. DOMAIN SubSeq(s, a, b) \subseteq 1..(b - a + 1)
      BY <2>3
    <3> QED
      BY <3>1, <3>2 DEF IsInjective
  <2> QED
    BY <2>2, <2>4
<1> QED
  BY <1>1 DEF Slice

\* An append of something new keeps an array without repetitions.
LEMMA AppendSeq ==
  ASSUME NEW A, NEW s \in Seq(A), NEW x \in A
  PROVE  /\ Append(s, x) \in Seq(A)
         /\ IsInjective(s) /\ ~Contains(s, x) => IsInjective(Append(s, x))
         /\ Range(Append(s, x)) \subseteq Range(s) \cup {x}
<1>1. /\ Append(s, x) \in Seq(A) /\ Len(Append(s, x)) = Len(s) + 1
      /\ DOMAIN Append(s, x) = 1..(Len(s) + 1) /\ DOMAIN s = 1..Len(s)
      /\ \A i \in 1..Len(s) : Append(s, x)[i] = s[i]
      /\ Append(s, x)[Len(s) + 1] = x
  OBVIOUS
<1>2. IsInjective(s) /\ ~Contains(s, x) => IsInjective(Append(s, x))
  BY <1>1 DEF IsInjective, Contains
<1>3. Range(Append(s, x)) \subseteq Range(s) \cup {x}
  BY <1>1 DEF Range
<1> QED
  BY <1>1, <1>2, <1>3

\* What is in an array of elements of a set.
LEMMA RangeSeq ==
  ASSUME NEW A, NEW s \in Seq(A) PROVE Range(s) \subseteq A
BY DEF Range

-----------------------------------------------------------------------------
(* The event stream and the session *)

\* A call of a session that is being entered, and one that loads its first page.
PageLoads(c) == c.op = "load" /\ c.then = "enter"
EntryCall(c) == c.op \in {"me", "login"} \/ PageLoads(c)

\* Calls that change while they are pending keep all their fields.
CallShape(c) ==
  \/ c.op \in {"none", "me", "login", "logout", "act", "acted"}
  \/ /\ c.op \in {"load", "more"} /\ c = [field \in DOMAIN c |-> c[field]]
     /\ "op" \in DOMAIN c /\ (c.op = "load" => "then" \in DOMAIN c)

\* One call at a time enters the session, behind the loading screen, where
\* Logout cannot be pressed; one at a time leaves it.
SessionCalls ==
  /\ calls = [s \in Slots |-> calls[s]]
  /\ \A s \in Slots : CallShape(calls[s])
  /\ \A s \in Slots : EntryCall(calls[s]) =>
       /\ loading
       /\ \A t \in Slots : EntryCall(calls[t]) => t = s
  /\ \A s \in Slots : PageLoads(calls[s]) => user
  /\ \A s \in Slots : calls[s].op = "logout" =>
       /\ user /\ ~loading
       /\ \A t \in Slots : calls[t].op = "logout" => t = s

StreamOK ==
  /\ conn \in [Readers -> {"free", "opening", "open", "aborted"}]
  /\ StreamOfUser

SessionInv == SessionCalls /\ StreamOK

\* At the start one call asks who is logged in.
LEMMA SessionInit == FolderInit => SessionInv
<1> SUFFICES ASSUME FolderInit PROVE SessionInv
  OBVIOUS
<1>1. PICK t \in Slots :
        calls = [s \in Slots |-> IF s = t THEN [op |-> "me"] ELSE NoCall]
  BY DEF FolderInit
<1>2. \A s \in Slots : calls[s].op = (IF s = t THEN "me" ELSE "none")
  BY <1>1 DEF NoCall
<1>3. calls = [s \in Slots |-> calls[s]]
  BY <1>1
<1>4. SessionCalls
  BY <1>2, <1>3 DEF FolderInit, SessionCalls, CallShape, EntryCall, PageLoads
<1>5. StreamOK
  BY DEF FolderInit, StreamOK, StreamOfUser, Live
<1> QED
  BY <1>4, <1>5 DEF SessionInv

\* A slot turns into another call.
LEMMA BecomesCall ==
  ASSUME SessionCalls, NEW s \in Slots, NEW c, Becomes(s, c)
  PROVE  /\ calls' = [t \in Slots |-> calls'[t]]
         /\ calls'[s] = c
         /\ \A t \in Slots : t # s => calls'[t] = calls[t]
BY DEF SessionCalls, Becomes

\* A call that has nothing to do with the session's beginning and end, or goes
\* on as the one it is.
LEMMA OrdinaryCall ==
  ASSUME SessionCalls, NEW s \in Slots, NEW c, Becomes(s, c), CallShape(c),
         c.op \notin {"logout", "me", "login"},
         PageLoads(c) => PageLoads(calls[s]),
         UNCHANGED <<user, loading>>
  PROVE  SessionCalls'
<1>1. /\ calls' = [t \in Slots |-> calls'[t]]
      /\ calls'[s] = c
      /\ \A t \in Slots : t # s => calls'[t] = calls[t]
  BY BecomesCall
<1>2. \A t \in Slots : /\ CallShape(calls'[t])
                       /\ EntryCall(calls'[t]) => EntryCall(calls[t])
                       /\ PageLoads(calls'[t]) => PageLoads(calls[t])
                       /\ calls'[t].op = "logout" => calls[t].op = "logout"
  BY <1>1 DEF SessionCalls, EntryCall
<1> QED
  BY <1>1, <1>2 DEF SessionCalls

\* The calls of the folder that are made anew.
LEMMA NewCalls ==
  ASSUME NEW p, NEW push, NEW tree, NEW after, NEW gone, NEW new
  PROVE  /\ \A then \in {"end", "action"} :
              LET c == Load(p, push, tree, then) IN
              CallShape(c) /\ c.op = "load" /\ ~PageLoads(c)
         /\ LET c == Load(p, push, tree, "enter") IN
              CallShape(c) /\ c.op = "load" /\ PageLoads(c)
         /\ LET c == [op |-> "more", path |-> p, after |-> after,
                      served |-> FALSE, page |-> NoPage] IN
              CallShape(c) /\ c.op = "more" /\ ~PageLoads(c)
         /\ LET c == [op |-> "act", gone |-> gone, new |-> new] IN
              CallShape(c) /\ c.op = "act" /\ ~PageLoads(c)
         /\ LET c == [op |-> "acted"] IN
              CallShape(c) /\ c.op = "acted" /\ ~PageLoads(c)
         /\ CallShape(NoCall) /\ NoCall.op = "none" /\ ~PageLoads(NoCall)
BY DEF CallShape, PageLoads, Load, NoCall

\* The stream is left alone, or only the timer stops.
LEMMA StreamKept ==
  ASSUME StreamOK, UNCHANGED <<conn, fileEvents>>, timer' => timer, user => user'
  PROVE  StreamOK'
BY DEF StreamOK, StreamOfUser, Live

\* A stream that is started for a user is the only one, as is none.
LEMMA StreamStarts ==
  ASSUME StreamOK, StartFileEvents, user'
  PROVE  StreamOK'
<1>1. PICK r \in Readers : /\ conn[r] = "free"
                           /\ conn' = [Aborted EXCEPT ![r] = "opening"]
                           /\ fileEvents' = r /\ ~timer'
  BY DEF StartFileEvents
<1>2. /\ Aborted \in [Readers -> {"free", "opening", "open", "aborted"}]
      /\ \A q \in Readers : Aborted[q] \notin {"opening", "open"}
  BY DEF Aborted, StreamOK, StreamOfUser, Live
<1> QED
  BY <1>1, <1>2 DEF StreamOK, StreamOfUser, Live

\* A logout stops the reader and the timer.
LEMMA StreamStops ==
  ASSUME StreamOK, StopFileEvents
  PROVE  StreamOK'
<1>1. conn' = Aborted /\ ~timer'
  BY DEF StopFileEvents
<1>2. /\ Aborted \in [Readers -> {"free", "opening", "open", "aborted"}]
      /\ \A q \in Readers : Aborted[q] \notin {"opening", "open"}
  BY DEF Aborted, StreamOK, StreamOfUser, Live
<1> QED
  BY <1>1, <1>2 DEF StreamOK, StreamOfUser, Live

\* A load whose last part has been answered starts the stream of the session
\* it has entered.
LEMMA LoadEnds ==
  ASSUME SessionInv, NEW s \in Slots, NEW c, Ends(s, c),
         Op(s, "load"), CallShape(c), c.op = "load", c.then = calls[s].then,
         UNCHANGED user
  PROVE  SessionInv'
<1> USE DEF SessionInv
<1>1. CASE c.list # "done" \/ c.tree
  <2>1. Becomes(s, c) /\ UNCHANGED <<loading, streamVars>>
    BY <1>1 DEF Ends
  <2>2. SessionCalls'
    BY <2>1, OrdinaryCall DEF PageLoads, Op
  <2> QED
    BY <2>1, <2>2, StreamKept DEF streamVars
<1>2. CASE ~(c.list # "done" \/ c.tree) /\ c.then # "enter"
  <2>1. Becomes(s, NoCall) /\ UNCHANGED <<loading, streamVars>>
    BY <1>2 DEF Ends
  <2>2. SessionCalls'
    BY <2>1, OrdinaryCall, NewCalls
  <2> QED
    BY <2>1, <2>2, StreamKept DEF streamVars
<1>3. CASE ~(c.list # "done" \/ c.tree) /\ c.then = "enter"
  <2>1. Becomes(s, NoCall) /\ StartFileEvents /\ ~loading'
    BY <1>3 DEF Ends
  <2>2. PageLoads(calls[s]) /\ EntryCall(calls[s])
    BY <1>3 DEF Op, PageLoads, EntryCall
  <2>3. user /\ user' /\ loading
    BY <2>2 DEF SessionCalls
  <2>4. /\ calls' = [t \in Slots |-> calls'[t]]
        /\ calls'[s] = NoCall
        /\ \A t \in Slots : t # s => calls'[t] = calls[t]
    BY <2>1, BecomesCall
  <2>5. \A t \in Slots : ~EntryCall(calls'[t]) /\ ~PageLoads(calls'[t])
                         /\ CallShape(calls'[t])
    BY <2>2, <2>4, NewCalls DEF SessionCalls, EntryCall, NoCall, PageLoads
  <2>6. \A t \in Slots : calls'[t].op # "logout"
    BY <2>3, <2>4, NewCalls DEF SessionCalls
  <2>7. SessionCalls'
    BY <2>4, <2>5, <2>6 DEF SessionCalls
  <2> QED
    BY <2>1, <2>3, <2>7, StreamStarts
<1> QED
  BY <1>1, <1>2, <1>3

\* A call whose page has been read is still the call it was.
LEMMA ServedCalls ==
  ASSUME NEW c, c = [x \in DOMAIN c |-> c[x]], "op" \in DOMAIN c,
         NEW d, NEW page,
         \/ d = [c EXCEPT !.list = "served", !.page = page]
         \/ d = [c EXCEPT !.served = TRUE, !.page = page]
         \/ d = [c EXCEPT !.list = "done"]
         \/ d = [c EXCEPT !.tree = FALSE]
  PROVE  /\ d = [x \in DOMAIN d |-> d[x]] /\ DOMAIN d = DOMAIN c
         /\ d.op = c.op /\ ("then" \in DOMAIN c => d.then = c.then)
OBVIOUS

\* What the user asks for at work.
LEMMA AskingStep ==
  ASSUME SessionInv,
         Navigate \/ Refresh \/ LoadMore \/ ToggleTree \/ Act \/ TimerFires
  PROVE  SessionInv'
<1> USE DEF SessionInv
<1>1. UNCHANGED <<user, loading, conn, fileEvents>> /\ (timer' => timer)
  <2>1. CASE TimerFires
    BY <2>1 DEF TimerFires
  <2>2. CASE Navigate \/ Refresh \/ LoadMore \/ ToggleTree \/ Act
    <3>1. UNCHANGED <<user, loading, streamVars>>
      BY <2>2 DEF Navigate, Refresh, LoadMore, ToggleTree, Act
    <3> QED
      BY <3>1 DEF streamVars
  <2> QED
    BY <2>1, <2>2
<1>2. CASE ToggleTree
  BY <1>1, <1>2, StreamKept DEF ToggleTree, SessionCalls
<1>3. ASSUME NEW s \in Slots, NEW c, Becomes(s, c), CallShape(c), ~PageLoads(c),
             c.op \notin {"logout", "me", "login"}
      PROVE  SessionInv'
  BY <1>1, <1>3, OrdinaryCall, StreamKept
<1>4. ASSUME NEW p, NEW s \in FreeSlot, NEW push, NEW tree,
             BeginsLoad(s, Load(p, push, tree, "end"))
      PROVE  SessionInv'
  BY <1>3, <1>4, NewCalls DEF BeginsLoad, FreeSlot
<1>5. CASE Navigate
  BY <1>4, <1>5 DEF Navigate
<1>6. CASE Refresh \/ TimerFires
  BY <1>4, <1>6 DEF Refresh, TimerFires
<1>7. CASE LoadMore
  BY <1>3, <1>7, NewCalls DEF LoadMore, FreeSlot
<1>8. CASE Act
  <2>1. \E s \in Slots : \E gone, new :
          Becomes(s, [op |-> "act", gone |-> gone, new |-> new])
    BY <1>8 DEF Act, FreeSlot
  <2> QED
    BY <1>3, <2>1, NewCalls
<1> QED
  BY <1>2, <1>5, <1>6, <1>7, <1>8

\* Login and Logout.
LEMMA DoorStep ==
  ASSUME LogoutOnce, SessionInv, SubmitLogin \/ SubmitLogout
  PROVE  SessionInv'
<1> USE DEF SessionInv
<1>1. CASE SubmitLogin
  <2>1. PICK s \in FreeSlot : Becomes(s, [op |-> "login"])
    BY <1>1 DEF SubmitLogin
  <2>2. ~user /\ ~loading /\ loading' /\ UNCHANGED <<user, streamVars>>
    BY <1>1 DEF SubmitLogin
  <2>3. s \in Slots
    BY DEF FreeSlot
  <2>4. /\ calls' = [t \in Slots |-> calls'[t]]
        /\ calls'[s] = [op |-> "login"]
        /\ \A t \in Slots : t # s => calls'[t] = calls[t]
    BY <2>1, <2>3, BecomesCall
  <2>5. \A t \in Slots : ~EntryCall(calls[t]) /\ calls[t].op # "logout"
    BY <2>2 DEF SessionCalls
  <2>6. \A t \in Slots : /\ CallShape(calls'[t]) /\ calls'[t].op # "logout"
                         /\ ~PageLoads(calls'[t])
                         /\ EntryCall(calls'[t]) => t = s
    BY <2>4, <2>5 DEF SessionCalls, CallShape, EntryCall, PageLoads
  <2>7. SessionCalls'
    BY <2>2, <2>4, <2>6 DEF SessionCalls
  <2> QED
    BY <2>2, <2>7, StreamKept DEF streamVars
<1>2. CASE SubmitLogout
  <2>1. PICK s \in FreeSlot : Becomes(s, [op |-> "logout"])
    BY <1>2 DEF SubmitLogout
  <2>2. /\ user /\ ~loading /\ UNCHANGED <<user, loading, streamVars>>
        /\ \A t \in Slots : calls[t].op # "logout"
    BY <1>2 DEF SubmitLogout, AtWork, Pending, Op
  <2>3. s \in Slots
    BY DEF FreeSlot
  <2>4. /\ calls' = [t \in Slots |-> calls'[t]]
        /\ calls'[s] = [op |-> "logout"]
        /\ \A t \in Slots : t # s => calls'[t] = calls[t]
    BY <2>1, <2>3, BecomesCall
  <2>5. \A t \in Slots : /\ CallShape(calls'[t]) /\ ~EntryCall(calls'[t])
                         /\ ~PageLoads(calls'[t])
                         /\ calls'[t].op = "logout" => t = s
    BY <2>2, <2>4 DEF SessionCalls, CallShape, EntryCall, PageLoads
  <2>6. SessionCalls'
    BY <2>2, <2>4, <2>5 DEF SessionCalls
  <2> QED
    BY <2>2, <2>6, StreamKept DEF streamVars
<1> QED
  BY <1>1, <1>2

\* Their answers.
LEMMA EntryStep ==
  ASSUME SessionInv, NEW s \in Slots, Enters(s) \/ EntryFails(s) \/ LoggedOut(s)
  PROVE  SessionInv'
<1> USE DEF SessionInv
<1>1. CASE Enters(s)
  <2>1. EntryCall(calls[s]) /\ UNCHANGED <<loading, streamVars>> /\ user'
    BY <1>1 DEF Enters, Op, EntryCall
  <2>2. PICK c : Becomes(s, c) /\ CallShape(c) /\ PageLoads(c) /\ c.op = "load"
    <3>1. \E p, push : Becomes(s, Load(p, push, TRUE, "enter"))
      BY <1>1 DEF Enters, BeginsLoad
    <3> QED
      BY <3>1, NewCalls
  <2>3. /\ calls' = [t \in Slots |-> calls'[t]]
        /\ calls'[s] = c
        /\ \A t \in Slots : t # s => calls'[t] = calls[t]
    BY <2>2, BecomesCall
  <2>4. \A t \in Slots : /\ CallShape(calls'[t])
                         /\ EntryCall(calls'[t]) => t = s
                         /\ calls'[t].op # "logout"
    BY <2>1, <2>2, <2>3 DEF SessionCalls
  <2>5. SessionCalls'
    BY <2>1, <2>3, <2>4 DEF SessionCalls
  <2> QED
    BY <2>1, <2>5, StreamKept DEF streamVars
<1>2. CASE EntryFails(s)
  <2>1. /\ EntryCall(calls[s]) /\ Becomes(s, NoCall) /\ ~loading'
        /\ UNCHANGED <<user, streamVars>>
    BY <1>2 DEF EntryFails, Op, EntryCall
  <2>2. /\ calls' = [t \in Slots |-> calls'[t]]
        /\ calls'[s] = NoCall
        /\ \A t \in Slots : t # s => calls'[t] = calls[t]
    BY <2>1, BecomesCall
  <2>3. \A t \in Slots : /\ CallShape(calls'[t]) /\ ~EntryCall(calls'[t])
                         /\ ~PageLoads(calls'[t]) /\ calls'[t].op # "logout"
    BY <2>1, <2>2, NewCalls DEF SessionCalls, EntryCall
  <2>4. SessionCalls'
    BY <2>2, <2>3 DEF SessionCalls
  <2> QED
    BY <2>1, <2>4, StreamKept DEF streamVars
<1>3. CASE LoggedOut(s)
  <2>1. calls[s].op = "logout" /\ Becomes(s, NoCall) /\ UNCHANGED loading
    BY <1>3 DEF LoggedOut, Op
  <2>2. user /\ ~loading
    BY <2>1 DEF SessionCalls
  <2>3. /\ calls' = [t \in Slots |-> calls'[t]]
        /\ calls'[s] = NoCall
        /\ \A t \in Slots : t # s => calls'[t] = calls[t]
    BY <2>1, BecomesCall
  <2>4. \A t \in Slots : /\ CallShape(calls'[t]) /\ ~EntryCall(calls'[t])
                         /\ ~PageLoads(calls'[t]) /\ calls'[t].op # "logout"
    BY <2>1, <2>2, <2>3, NewCalls DEF SessionCalls, EntryCall
  <2>5. SessionCalls'
    BY <2>3, <2>4 DEF SessionCalls
  <2>6. CASE StopFileEvents
    BY <2>5, <2>6, StreamStops
  <2>7. CASE UNCHANGED <<streamVars, user>>
    BY <2>5, <2>7, StreamKept DEF streamVars
  <2> QED
    BY <1>3, <2>6, <2>7 DEF LoggedOut
<1> QED
  BY <1>1, <1>2, <1>3

\* Answers to loads.
LEMMA LoadStep ==
  ASSUME SessionInv, NEW s \in Slots,
         ListServed(s) \/ ListAnswers(s) \/ ListFails(s) \/ TreeAnswers(s)
  PROVE  SessionInv'
<1> USE DEF SessionInv
<1> DEFINE c == calls[s]
<1>1. Op(s, "load")
  BY DEF ListServed, ListAnswers, ListFails, TreeAnswers
<1>2. ASSUME NEW d, NEW page,
             \/ d = [c EXCEPT !.list = "served", !.page = page]
             \/ d = [c EXCEPT !.list = "done"]
             \/ d = [c EXCEPT !.tree = FALSE]
      PROVE  CallShape(d) /\ d.op = "load" /\ d.then = c.then
  <2>1. /\ c.op = "load" /\ c = [field \in DOMAIN c |-> c[field]]
        /\ "op" \in DOMAIN c /\ "then" \in DOMAIN c
    BY <1>1 DEF SessionCalls, CallShape, Op
  <2>2. /\ d = [field \in DOMAIN d |-> d[field]] /\ DOMAIN d = DOMAIN c
        /\ d.op = c.op /\ d.then = c.then
    BY <1>2, <2>1, ServedCalls
  <2> QED
    BY <2>1, <2>2 DEF CallShape
<1>3. ASSUME NEW d, Ends(s, d),
             d = [c EXCEPT !.list = "done"] \/ d = [c EXCEPT !.tree = FALSE],
             UNCHANGED user
      PROVE  SessionInv'
  BY <1>1, <1>2, <1>3, LoadEnds
<1>7. CASE ListServed(s)
  <2>1. PICK d : /\ d = [c EXCEPT !.list = "served", !.page = Page(c.path, 0)]
                 /\ Becomes(s, d) /\ UNCHANGED <<user, loading, streamVars>>
    BY <1>7 DEF ListServed
  <2>2. CallShape(d) /\ d.op = "load" /\ d.then = c.then
    BY <1>2, <2>1
  <2>3. SessionCalls'
    BY <1>1, <2>1, <2>2, OrdinaryCall DEF PageLoads, Op
  <2> QED
    BY <2>1, <2>3, StreamKept DEF streamVars
<1>4. CASE ListAnswers(s)
  BY <1>3, <1>4 DEF ListAnswers
<1>5. CASE ListFails(s)
  BY <1>3, <1>5 DEF ListFails
<1>6. CASE TreeAnswers(s)
  BY <1>3, <1>6 DEF TreeAnswers
<1> QED
  BY <1>4, <1>5, <1>6, <1>7

\* Answers to the other calls.
LEMMA OtherAnswers ==
  ASSUME SessionInv, NEW s \in Slots,
         MoreServed(s) \/ MoreAnswers(s) \/ ActServed(s) \/ ActAnswers(s)
           \/ ActFails(s)
  PROVE  SessionInv'
<1> USE DEF SessionInv
<1>1. UNCHANGED <<user, loading, streamVars>>
  BY DEF MoreServed, MoreAnswers, ActServed, ActAnswers, ActFails
<1>2. ASSUME NEW c, Becomes(s, c), CallShape(c), ~PageLoads(c),
             c.op \notin {"logout", "me", "login"}
      PROVE  SessionInv'
  BY <1>1, <1>2, OrdinaryCall, StreamKept DEF streamVars
<1>3. CASE MoreServed(s)
  <2> DEFINE c == calls[s]
  <2>1. /\ c.op = "more" /\ c = [field \in DOMAIN c |-> c[field]]
        /\ "op" \in DOMAIN c
    BY <1>3 DEF MoreServed, Op, SessionCalls, CallShape
  <2>2. PICK d : /\ Becomes(s, d)
                 /\ d = [c EXCEPT !.served = TRUE,
                                  !.page = Page(c.path, c.after)]
    BY <1>3 DEF MoreServed
  <2>3. /\ d = [field \in DOMAIN d |-> d[field]] /\ DOMAIN d = DOMAIN c
        /\ d.op = "more"
    BY <2>1, <2>2, ServedCalls
  <2>4. CallShape(d) /\ ~PageLoads(d)
    BY <2>1, <2>3 DEF CallShape, PageLoads
  <2> QED
    BY <1>2, <2>2, <2>3, <2>4
<1>4. CASE MoreAnswers(s) \/ ActFails(s)
  BY <1>2, <1>4, NewCalls DEF MoreAnswers, ActFails
<1>5. CASE ActServed(s)
  BY <1>2, <1>5, NewCalls DEF ActServed
<1>6. CASE ActAnswers(s)
  BY <1>2, <1>6, NewCalls DEF ActAnswers, BeginsLoad
<1> QED
  BY <1>3, <1>4, <1>5, <1>6

\* The stream by itself.
LEMMA ReaderStep ==
  ASSUME SessionInv, StreamOpens \/ ReaderEnds \/ EventRead
  PROVE  SessionInv'
<1> USE DEF SessionInv
<1>1. SessionCalls'
  BY DEF StreamOpens, ReaderEnds, EventRead, SessionCalls
<1>2. CASE StreamOpens
  BY <1>1, <1>2 DEF StreamOpens, StreamOK, StreamOfUser, Live
<1>3. CASE ReaderEnds
  BY <1>1, <1>3 DEF ReaderEnds, AfterReader, StreamOK, StreamOfUser, Live
<1>4. CASE EventRead
  BY <1>1, <1>4 DEF EventRead, Subscribed, StreamOK, StreamOfUser, Live
<1> QED
  BY <1>2, <1>3, <1>4

\* Every step keeps the invariant of the session.
LEMMA SessionStep ==
  ASSUME LogoutOnce, SessionInv, [FolderNext]_folderVars
  PROVE  SessionInv'
<1>1. CASE UNCHANGED <<user, loading, calls, streamVars>>
  BY <1>1 DEF SessionInv, SessionCalls, StreamOK, StreamOfUser, Live, streamVars
<1>2. Outside => UNCHANGED <<user, loading, calls, streamVars>>
  BY DEF Outside
<1>3. UNCHANGED folderVars => UNCHANGED <<user, loading, calls, streamVars>>
  BY DEF folderVars
<1>4. FolderUser => SessionInv'
  BY AskingStep, DoorStep DEF FolderUser
<1>5. FolderAnswers => SessionInv'
  BY EntryStep, LoadStep, OtherAnswers DEF FolderAnswers
<1>6. FolderStream => SessionInv'
  BY ReaderStep, AskingStep DEF FolderStream
<1> QED
  BY <1>1, <1>2, <1>3, <1>4, <1>5, <1>6 DEF FolderNext

\* The event stream belongs to the session on the screen, for a user who does
\* not press Logout again while the first is pending: whatever answers late, no
\* stream or refresh timer is left behind by a logout, or started twice.
THEOREM StreamBelongs ==
  ASSUME LogoutOnce
  PROVE  FolderSpec => []StreamOfUser
<1>1. SessionInv => StreamOfUser
  BY DEF SessionInv, StreamOK
<1> QED
  BY <1>1, SessionInit, SessionStep, PTL DEF FolderSpec

-----------------------------------------------------------------------------
(* Listings *)

\* The elements of S before x.
Sooner(S, x) == {q \in S : Order[q] < Order[x]}
Later(S, after) == {q \in S : Order[q] > after}

\* The array holds the first elements of S in their order.
InOrder(list, S) ==
  /\ list \in Seq(S)
  /\ \A k \in 1..Len(list) : Cardinality(Sooner(S, list[k])) = k - 1

\* It is a page or more of S, and what is said about the rest is right.
ListsFirst(list, rest, last, S) ==
  /\ InOrder(list, S)
  /\ rest <=> Len(list) < Cardinality(S)
  /\ rest => Len(list) >= PageSize /\ last = Order[list[Len(list)]]

\* Paths that have different places.
Siblings(S) ==
  /\ S \subseteq Paths /\ IsFiniteSet(S)
  /\ \A p, q \in S : p # q => Order[p] # Order[q]

\* Every path has a place.
LEMMA OrderNat == \A p \in Paths : Order[p] \in Nat
BY OrderAssumption

\* The entries of a folder are siblings, all behind the start of the list.
LEMMA ChildrenSiblings ==
  ASSUME fs \subseteq Paths, NEW d
  PROVE  /\ Siblings(Children(d)) /\ Children(d) \subseteq Paths \ {Root}
         /\ Later(Children(d), 0) = Children(d)
         /\ \A after : Siblings(Later(Children(d), after))
<1>1. Children(d) \subseteq Paths \ {Root} /\ \A p \in Children(d) : Front(p) = d
  BY DEF Children, Parent
<1>2. \A p, q \in Children(d) : p # q => Order[p] # Order[q]
  BY <1>1, OrderAssumption
<1>3. \A S \in SUBSET Children(d) : Siblings(S)
  <2> TAKE S \in SUBSET Children(d)
  <2>1. S \in SUBSET Paths
    BY <1>1
  <2>2. IsFiniteSet(S)
    BY <2>1, PathsAssumption, FS_Subset
  <2> QED
    BY <1>2, <2>1, <2>2 DEF Siblings
<1>4. Later(Children(d), 0) = Children(d)
  BY <1>1, OrderAssumption DEF Later
<1> QED
  BY <1>1, <1>3, <1>4 DEF Later

\* Siblings are in a linear order.
LEMMA SiblingsLinear ==
  ASSUME NEW S, Siblings(S)
  PROVE  LinearOn(S, [x \in S |-> Sooner(S, x)])
<1> DEFINE below == [x \in S |-> Sooner(S, x)]
<1>1. \A x \in S : Order[x] \in Nat
  BY OrderNat DEF Siblings
<1>2. \A x \in S : below[x] \subseteq S \ {x}
  BY <1>1 DEF Sooner
<1>3. ASSUME NEW x \in S, NEW y \in S, x # y
      PROVE  x \in below[y] \/ y \in below[x]
  BY <1>1, <1>3 DEF Sooner, Siblings
<1>4. ASSUME NEW x \in S, NEW y \in S, x \in below[y], NEW z \in below[x]
      PROVE  z \in below[y]
  <2>1. z \in S /\ Order[z] < Order[x] /\ Order[x] < Order[y]
    BY <1>4 DEF Sooner
  <2>2. Order[z] < Order[y]
    BY <1>1, <2>1
  <2> QED
    BY <2>1, <2>2 DEF Sooner
<1> QED
  BY <1>2, <1>3, <1>4 DEF LinearOn, Siblings

\* Two arrays of the first elements agree as far as both go.
LEMMA InOrderSame ==
  ASSUME NEW S, Siblings(S), NEW l, NEW m, InOrder(l, S), InOrder(m, S),
         NEW k \in 1..Len(l), k \in 1..Len(m)
  PROVE  l[k] = m[k]
<1> DEFINE below == [x \in S |-> Sooner(S, x)]
<1>1. l[k] \in S /\ m[k] \in S
  BY DEF InOrder
<1>2. Cardinality(below[l[k]]) = Cardinality(below[m[k]])
  BY <1>1 DEF InOrder
<1> HIDE DEF below
<1>3. LinearOn(S, below)
  BY SiblingsLinear DEF below
<1> QED
  BY <1>1, <1>2, <1>3, PlaceApart

\* A page lists what is behind its cursor.
LEMMA PageLists ==
  ASSUME fs \subseteq Paths, NEW d, NEW after
  PROVE  LET page == Page(d, after) IN
         /\ ListsFirst(page.list, page.more, page.cursor, Later(Children(d), after))
         /\ page \in [ok : BOOLEAN, list : Seq(Paths \ {Root}), more : BOOLEAN,
                      cursor : Nat]
         /\ page.more \/ Len(page.list) = Cardinality(Later(Children(d), after))
         /\ Len(page.list) <= PageSize
<1> DEFINE tail  == Later(Children(d), after)
           below == [p \in tail |-> Sooner(tail, p)]
           all   == Ranked(tail, below)
           count == IF Len(all) < PageSize THEN Len(all) ELSE PageSize
           page  == [ok |-> d \in fs, list |-> SubSeq(all, 1, count),
                     more |-> Len(all) > count,
                     cursor |-> IF Len(all) > count THEN Order[all[count]] ELSE 0]
<1>1. Page(d, after) = page
  BY DEF Page, Later, Sooner
<1>2. Siblings(tail) /\ tail \subseteq Paths \ {Root}
  BY ChildrenSiblings DEF Later
<1>3. /\ Cardinality(tail) \in Nat /\ all \in Seq(tail)
      /\ Len(all) = Cardinality(tail)
      /\ \A k \in 1..Cardinality(tail) : /\ all[k] \in tail
                                         /\ Cardinality(below[all[k]]) = k - 1
  <2> HIDE DEF tail
  <2>1. LinearOn(tail, below)
    BY <1>2, SiblingsLinear
  <2> HIDE DEF below
  <2> QED BY <2>1, RankedSeq
<1>4. /\ count \in Nat /\ count <= Len(all) /\ count <= PageSize
      /\ (Len(all) > count) => count = PageSize
      /\ PageSize \in Nat \ {0}
  <2> HIDE DEF all, tail
  <2> QED BY <1>3, PageAssumption
<1> DEFINE list == SubSeq(all, 1, count)
<1>5. /\ list \in Seq(tail) /\ Len(list) = count
      /\ \A k \in 1..count : list[k] = all[k]
  <2> HIDE DEF all, tail, count
  <2>1. \A k \in 1..count : all[k] \in tail
    BY <1>3, <1>4
  <2>2. /\ SubSeq(all, 1, count) \in Seq(tail)
        /\ Len(SubSeq(all, 1, count)) = IF 1 <= count THEN count - 1 + 1 ELSE 0
        /\ \A i \in 1..(count - 1 + 1) : SubSeq(all, 1, count)[i] = all[1 + i - 1]
    BY <1>4, <2>1, SubSeqProperties
  <2> QED
    BY <1>4, <2>2
<1>6. InOrder(list, tail)
  <2>1. ASSUME NEW k \in 1..Len(list)
        PROVE  Cardinality(Sooner(tail, list[k])) = k - 1
    <3>1. k \in 1..Cardinality(tail) /\ list[k] = all[k]
      <4> HIDE DEF all, tail, count, list
      <4> QED BY <1>3, <1>4, <1>5
    <3>2. below[all[k]] = Sooner(tail, all[k])
      <4> HIDE DEF all, tail
      <4> QED BY <1>3, <3>1
    <3> HIDE DEF all, tail, below, list
    <3> QED
      BY <1>3, <3>1, <3>2
  <2> HIDE DEF list, tail
  <2> QED
    BY <1>5, <2>1 DEF InOrder
<1>7. /\ page.list = list /\ (page.more <=> Len(all) > count)
      /\ page.cursor = IF Len(all) > count THEN Order[all[count]] ELSE 0
      /\ page.more \in BOOLEAN /\ page.ok \in BOOLEAN
      /\ page = [ok |-> page.ok, list |-> page.list, more |-> page.more,
                 cursor |-> page.cursor]
  <2> HIDE DEF all, list, count
  <2>1. page.list = list
    BY DEF list
  <2>2. page.more <=> Len(all) > count
    OBVIOUS
  <2>3. page.cursor = IF Len(all) > count THEN Order[all[count]] ELSE 0
    OBVIOUS
  <2>4. page.more \in BOOLEAN /\ page.ok \in BOOLEAN
    OBVIOUS
  <2>5. page = [ok |-> page.ok, list |-> page.list, more |-> page.more,
                cursor |-> page.cursor]
    OBVIOUS
  <2> QED BY <2>1, <2>2, <2>3, <2>4, <2>5
<1> HIDE DEF all, tail, count, list, page
<1>8. ListsFirst(page.list, page.more, page.cursor, tail)
  <2>1. page.more <=> Len(page.list) < Cardinality(tail)
    BY <1>3, <1>4, <1>5, <1>7
  <2>2. ASSUME page.more
        PROVE  Len(page.list) >= PageSize /\ page.cursor = Order[list[Len(list)]]
    BY <1>3, <1>4, <1>5, <1>7, <2>2
  <2> QED
    BY <1>6, <1>7, <2>1, <2>2 DEF ListsFirst
<1>9. page.list \in Seq(Paths \ {Root}) /\ page.cursor \in Nat
  <2>1. page.list \in Seq(Paths \ {Root})
    BY <1>2, <1>5, <1>7, SeqMonotonic
  <2>2. CASE Len(all) > count
    <3>1. count \in 1..Cardinality(tail)
      BY <1>3, <1>4, <2>2
    <3>2. all[count] \in Paths
      BY <1>2, <1>3, <3>1
    <3> QED
      BY <1>7, <2>1, <2>2, <3>2, OrderNat
  <2>3. CASE ~(Len(all) > count)
    BY <1>7, <2>1, <2>3
  <2> QED
    BY <2>1, <2>2, <2>3
<1>10. page.more \in BOOLEAN /\ page.ok \in BOOLEAN
  BY <1>7
<1>11. page \in [ok : BOOLEAN, list : Seq(Paths \ {Root}), more : BOOLEAN,
                 cursor : Nat]
  BY <1>7, <1>9, <1>10
<1>12. page.more \/ Len(page.list) = Cardinality(tail)
  BY <1>3, <1>4, <1>5, <1>7
<1>13. Len(page.list) <= PageSize
  BY <1>4, <1>5, <1>7
<1> QED
  BY <1>1, <1>8, <1>11, <1>12, <1>13 DEF tail

\* A page behind a list makes a longer list.
LEMMA ListsOn ==
  ASSUME NEW S, Siblings(S), NEW l, NEW m, NEW rest, NEW last, NEW end,
         ListsFirst(l, TRUE, last, S), ListsFirst(m, rest, end, Later(S, last))
  PROVE  ListsFirst(l \o m, rest, end, S)
<1> DEFINE n == Len(l)
           T == Later(S, last)
           A == {q \in S : ~(Order[q] > last)}
<1>1. /\ PageSize \in Nat \ {0} /\ n \in Nat \ {0} /\ n >= PageSize
      /\ l \in Seq(S) /\ l[n] \in S /\ last = Order[l[n]] /\ last \in Nat
      /\ Cardinality(Sooner(S, l[n])) = n - 1
  <2>1. l \in Seq(S) /\ n >= PageSize /\ last = Order[l[n]] /\ PageSize \in Nat \ {0}
    BY PageAssumption DEF ListsFirst, InOrder
  <2>2. n \in Nat \ {0} /\ l[n] \in S
    BY <2>1
  <2> QED
    BY <2>1, <2>2, OrderNat DEF ListsFirst, InOrder, Siblings
<1>2. \A q \in S : Order[q] \in Nat
  BY OrderNat DEF Siblings
<1>3. /\ IsFiniteSet(A) /\ IsFiniteSet(T) /\ IsFiniteSet(S) /\ T \subseteq S
      /\ Cardinality(A) = n /\ Cardinality(T) \in Nat
  <2>1. Sooner(S, l[n]) \in SUBSET S /\ T \in SUBSET S /\ IsFiniteSet(S)
    BY DEF Sooner, Siblings, Later
  <2>2. IsFiniteSet(Sooner(S, l[n])) /\ IsFiniteSet(T)
    BY <2>1, FS_Subset
  <2>3. A = Sooner(S, l[n]) \cup {l[n]} /\ l[n] \notin Sooner(S, l[n])
    BY <1>1, <1>2 DEF Sooner, Siblings
  <2>4. IsFiniteSet(A) /\ Cardinality(A) = Cardinality(Sooner(S, l[n])) + 1
    <3> HIDE DEF A
    <3> QED BY <2>2, <2>3, FS_AddElement
  <2> HIDE DEF A, T
  <2> QED
    BY <1>1, <2>1, <2>2, <2>4, FS_CardinalityType
<1>4. Cardinality(S) = n + Cardinality(T)
  <2>1. S = A \cup T /\ A \cap T = {}
    BY DEF Later
  <2> HIDE DEF A, T, n
  <2>2. Cardinality(A \cup T) = Cardinality(A) + Cardinality(T) - Cardinality(A \cap T)
    BY <1>3, FS_Union
  <2>3. Cardinality(A \cap T) = 0
    BY <2>1, FS_EmptySet
  <2> QED
    BY <1>1, <1>3, <2>1, <2>2, <2>3
<1>5. ASSUME NEW x \in T
      PROVE  Cardinality(Sooner(S, x)) = n + Cardinality(Sooner(T, x))
  <2>1. Sooner(S, x) = A \cup Sooner(T, x) /\ A \cap Sooner(T, x) = {}
    BY <1>1, <1>2 DEF Sooner, Later
  <2>2. Sooner(T, x) \in SUBSET T
    BY DEF Sooner
  <2> HIDE DEF A, T, n
  <2>3. IsFiniteSet(Sooner(T, x))
    BY <1>3, <2>2, FS_Subset
  <2>4. Cardinality(Sooner(T, x)) \in Nat
    BY <2>3, FS_CardinalityType
  <2> DEFINE Near == Sooner(T, x)
  <2> HIDE DEF Near
  <2>5. Cardinality(A \cup Near)
          = Cardinality(A) + Cardinality(Near) - Cardinality(A \cap Near)
    BY <1>3, <2>3, FS_Union DEF Near
  <2>6. Cardinality(A \cap Near) = 0
    BY <2>1, FS_EmptySet DEF Near
  <2> QED
    BY <1>1, <1>3, <2>1, <2>4, <2>5, <2>6 DEF Near
<1>6. /\ m \in Seq(T) /\ m \in Seq(S) /\ Len(m) \in Nat
      /\ \A k \in 1..Len(m) : m[k] \in T /\ Cardinality(Sooner(T, m[k])) = k - 1
  <2>1. m \in Seq(T) /\ \A k \in 1..Len(m) : Cardinality(Sooner(T, m[k])) = k - 1
    BY DEF ListsFirst, InOrder
  <2> HIDE DEF T
  <2> QED
    BY <1>3, <2>1, SeqMonotonic
<1>7. /\ l \o m \in Seq(S) /\ Len(l \o m) = n + Len(m)
      /\ \A k \in 1..(n + Len(m)) : (l \o m)[k] = IF k <= n THEN l[k] ELSE m[k - n]
  BY <1>1, <1>6, ConcatProperties
<1>8. ASSUME NEW k \in 1..(n + Len(m))
      PROVE  Cardinality(Sooner(S, (l \o m)[k])) = k - 1
  <2>1. CASE k <= n
    <3>1. (l \o m)[k] = l[k] /\ k \in 1..Len(l)
      BY <1>1, <1>7, <2>1
    <3> QED
      BY <3>1 DEF ListsFirst, InOrder
  <2>2. CASE ~(k <= n)
    <3> HIDE DEF T
    <3>1. (l \o m)[k] = m[k - n] /\ k - n \in 1..Len(m)
      BY <1>1, <1>6, <1>7, <2>2
    <3>2. m[k - n] \in T /\ Cardinality(Sooner(T, m[k - n])) = k - n - 1
      BY <1>6, <3>1
    <3> QED
      BY <1>1, <1>5, <3>1, <3>2
  <2> QED
    BY <2>1, <2>2
<1>9. InOrder(l \o m, S)
  BY <1>7, <1>8 DEF InOrder
<1>10. rest <=> Len(l \o m) < Cardinality(S)
  <2>1. rest <=> Len(m) < Cardinality(T)
    BY DEF ListsFirst
  <2> HIDE DEF T, n
  <2> QED
    BY <1>1, <1>3, <1>4, <1>6, <1>7, <2>1
<1>11. ASSUME rest
       PROVE  Len(l \o m) >= PageSize /\ end = Order[(l \o m)[Len(l \o m)]]
  <2>1. Len(m) >= PageSize /\ end = Order[m[Len(m)]]
    BY <1>11 DEF ListsFirst
  <2> HIDE DEF T, n
  <2>2. (l \o m)[n + Len(m)] = m[n + Len(m) - n] /\ n + Len(m) - n = Len(m)
    BY <1>1, <1>6, <1>7, <2>1
  <2> QED
    BY <1>1, <1>6, <1>7, <2>1, <2>2
<1> QED
  BY <1>9, <1>10, <1>11 DEF ListsFirst

-----------------------------------------------------------------------------
(* What is pending *)

Pages == [ok : BOOLEAN, list : Seq(Paths \ {Root}), more : BOOLEAN, cursor : Nat]
LoadCalls ==
  [op : {"load"}, path : Dirs, push : BOOLEAN, tree : BOOLEAN,
   list : {"sent", "served", "done"}, page : Pages, then : {"enter", "end", "action"}]
MoreCalls ==
  [op : {"more"}, path : Dirs, after : Nat, served : BOOLEAN, page : Pages]

\* One path goes, one comes, or one becomes the other.
OnePath == {{}} \cup {{p} : p \in Paths \ {Root}}
ActCalls ==
  {c \in [op : {"act"}, gone : OnePath, new : OnePath] : c.gone \cup c.new # {}}
PlainCalls == {[op |-> o] : o \in {"none", "me", "login", "logout", "acted"}}

CallOK(c) == c \in LoadCalls \/ c \in MoreCalls \/ c \in ActCalls \/ c \in PlainCalls

FolderCalls ==
  /\ calls = [s \in Slots |-> calls[s]]
  /\ \A s \in Slots : CallOK(calls[s])

FolderShape ==
  /\ FolderTypeOK
  /\ entries \in Seq(Paths \ {Root})
  /\ events \in Seq([path : Paths, old : Paths])
  /\ FolderCalls

\* Without a stream nothing is to be read, and there is none, and no refresh
\* is due, while the session is being entered.
StreamQuiet ==
  /\ ~Subscribed => events = <<>>
  /\ \A s \in Slots : EntryCall(calls[s]) => ~timer /\ \A r \in Readers : ~Live(r)

\* Folder p will be refreshed if it is the current one.
Due(p) == timer \/ \E k \in DOMAIN events : Affects(events[k], p)

\* The list on the screen is right, or will be replaced.
ScreenOK ==
  /\ url = currentPath
  /\ user => Due(currentPath) \/ ListsFirst(entries, more, cursor, Children(currentPath))

\* The answer of a load will be right, or replaced.
LoadOK(c) ==
  /\ c.push \/ url = c.path
  /\ user /\ c.list = "served" /\ c.page.ok =>
       \/ Due(c.path)
       \/ ListsFirst(c.page.list, c.page.more, c.page.cursor, Children(c.path))

\* The next page will go with the list on the screen.
MoreOK(c) ==
  /\ c.path = currentPath /\ url = currentPath /\ c.after = cursor
  /\ user /\ ~Due(currentPath) =>
       /\ more /\ ListsFirst(entries, more, cursor, Children(currentPath))
       /\ c.served /\ c.page.ok =>
            ListsFirst(c.page.list, c.page.more, c.page.cursor,
                  Later(Children(currentPath), cursor))

\* While the client is calm it has one call at most that changes the list.
ShownOK ==
  calm =>
    /\ \A s, t \in Listing : s = t
    /\ Listing = {} => ScreenOK
    /\ \A s \in Listing : /\ Op(s, "load") => LoadOK(calls[s])
                          /\ Op(s, "more") => MoreOK(calls[s])

\* The calls that the folder makes.
LEMMA CallTypes ==
  /\ NoPage \in Pages
  /\ \A p \in Dirs, push, tree \in BOOLEAN, then \in {"enter", "end", "action"} :
       Load(p, push, tree, then) \in LoadCalls
  /\ \A p \in Dirs, after \in Nat :
       [op |-> "more", path |-> p, after |-> after, served |-> FALSE,
        page |-> NoPage] \in MoreCalls
  /\ \A gone, new \in OnePath : gone \cup new # {} =>
       [op |-> "act", gone |-> gone, new |-> new] \in ActCalls
  /\ NoCall \in PlainCalls
  /\ \A o \in {"none", "me", "login", "logout", "acted"} : [op |-> o] \in PlainCalls
<1>1. NoPage \in Pages
  BY DEF NoPage, Pages
<1> QED
  BY <1>1 DEF Load, LoadCalls, MoreCalls, ActCalls, NoCall, PlainCalls

\* What kind of call it is shows in its op.
LEMMA CallKinds ==
  ASSUME FolderCalls, NEW s \in Slots
  PROVE  /\ Op(s, "load") => calls[s] \in LoadCalls
         /\ Op(s, "more") => calls[s] \in MoreCalls
         /\ Op(s, "act") => calls[s] \in ActCalls
<1>1. CallOK(calls[s])
  BY DEF FolderCalls
<1>2. /\ calls[s] \in LoadCalls => calls[s].op = "load"
      /\ calls[s] \in MoreCalls => calls[s].op = "more"
      /\ calls[s] \in ActCalls => calls[s].op = "act"
      /\ calls[s] \in PlainCalls =>
           calls[s].op \in {"none", "me", "login", "logout", "acted"}
  BY DEF LoadCalls, MoreCalls, ActCalls, PlainCalls
<1> QED
  BY <1>1, <1>2 DEF CallOK, Op

\* A slot is taken by another call, or freed.
LEMMA CallTaken ==
  ASSUME FolderCalls, NEW s \in Slots, NEW c, CallOK(c), Becomes(s, c)
  PROVE  /\ FolderCalls' /\ calls'[s] = c
         /\ \A t \in Slots : t # s => calls'[t] = calls[t]
<1>1. calls' = [calls EXCEPT ![s] = c] /\ calls = [t \in Slots |-> calls[t]]
  BY DEF Becomes, FolderCalls
<1>2. /\ calls'[s] = c /\ calls' = [t \in Slots |-> calls'[t]]
      /\ \A t \in Slots : t # s => calls'[t] = calls[t]
  BY <1>1
<1>3. \A t \in Slots : CallOK(calls'[t])
  BY <1>2 DEF FolderCalls
<1>4. \A t \in Slots : CallOK(calls'[t]) = CallOK(calls[t])'
  BY DEF CallOK, LoadCalls, MoreCalls, ActCalls, PlainCalls, Pages, OnePath
<1> QED
  BY <1>2, <1>3 DEF FolderCalls, CallOK

\* A call that has been served, and one that has lost a part.
LEMMA CallGoesOn ==
  ASSUME NEW page \in Pages
  PROVE  /\ \A c \in LoadCalls :
              /\ [c EXCEPT !.list = "served", !.page = page] \in LoadCalls
              /\ [c EXCEPT !.list = "done"] \in LoadCalls
              /\ [c EXCEPT !.tree = FALSE] \in LoadCalls
         /\ \A c \in MoreCalls :
              [c EXCEPT !.served = TRUE, !.page = page] \in MoreCalls
BY DEF LoadCalls, MoreCalls

\* The folders that the page offers.
LEMMA OfferedDirs ==
  ASSUME FolderTypeOK
  PROVE  /\ Offered \subseteq Dirs /\ TreeRows \subseteq Dirs
         /\ \A p : Ancestors(p) \subseteq Dirs
         /\ \A list : FolderOf(list) \subseteq Dirs
<1>1. /\ \A p : Ancestors(p) \subseteq Dirs
      /\ \A list : FolderOf(list) \subseteq Dirs
  BY DEF Ancestors, FolderOf
<1>2. TreeRows \subseteq TreeFolders
  BY DEF TreeRows
<1>3. TreeFolders \subseteq Dirs
  BY <1>1 DEF TreeFolders, Fallback, FolderTypeOK
<1> QED
  BY <1>1, <1>2, <1>3, PathsAssumption DEF Offered

\* The root is within no other path, and a path that is within another one is
\* that one, or its folder is within it.
LEMMA WithinParent ==
  ASSUME NEW c \in Paths, NEW g \in Paths \ {Root}, Within(c, g)
  PROVE  c # Root /\ (c = g \/ Within(Parent(c), g))
<1>1. c \in Seq(STRING) /\ g \in Seq(STRING) /\ g # <<>>
  BY PathsAssumption DEF Root
<1>2. Len(g) \in Nat /\ Len(c) \in Nat /\ Len(g) > 0
  BY <1>1, EmptySeq, LenProperties
<1>3. Len(g) <= Len(c) /\ SubSeq(g, 1, Len(g)) = SubSeq(c, 1, Len(g))
  BY DEF Within, IsPrefix
<1>4. \A i \in 1..Len(g) : g[i] = c[i]
  <2>1. \A i \in 1..Len(g) : SubSeq(g, 1, Len(g))[i] = g[i]
    BY <1>1, <1>2
  <2>2. \A i \in 1..Len(g) : SubSeq(c, 1, Len(g))[i] = c[i]
    BY <1>1, <1>2, <1>3
  <2> QED
    BY <1>3, <2>1, <2>2
<1>5. c # Root
  BY <1>2, <1>3 DEF Root
<1>6. CASE Len(c) = Len(g)
  BY <1>1, <1>4, <1>6, SeqEqual
<1>7. CASE Len(c) > Len(g)
  <2>1. Parent(c) = SubSeq(c, 1, Len(c) - 1)
    BY <1>5 DEF Parent, Front
  <2>2. /\ Parent(c) \in Seq(STRING) /\ Len(Parent(c)) = Len(c) - 1
        /\ \A i \in 1..(Len(c) - 1) : Parent(c)[i] = c[i]
    BY <1>1, <1>2, <1>7, <2>1
  <2>3. Len(g) <= Len(Parent(c))
    BY <1>2, <1>7, <2>2
  <2>4. /\ SubSeq(Parent(c), 1, Len(g)) \in Seq(STRING)
        /\ Len(SubSeq(Parent(c), 1, Len(g))) = Len(g)
        /\ \A i \in 1..Len(g) : SubSeq(Parent(c), 1, Len(g))[i] = Parent(c)[i]
    BY <1>2, <2>2, <2>3
  <2>5. /\ SubSeq(g, 1, Len(g)) \in Seq(STRING)
        /\ Len(SubSeq(g, 1, Len(g))) = Len(g)
        /\ \A i \in 1..Len(g) : SubSeq(g, 1, Len(g))[i] = g[i]
    BY <1>1, <1>2
  <2>6. \A i \in 1..Len(g) : SubSeq(Parent(c), 1, Len(g))[i] = SubSeq(g, 1, Len(g))[i]
    BY <1>2, <1>4, <1>7, <2>2, <2>4, <2>5
  <2>7. SubSeq(Parent(c), 1, Len(g)) = SubSeq(g, 1, Len(g))
    BY <2>4, <2>5, <2>6, SeqEqual
  <2> QED
    BY <1>5, <2>3, <2>7 DEF Within, IsPrefix
<1> QED
  BY <1>2, <1>3, <1>5, <1>6, <1>7

\* Files change.
LEMMA ChangesShape ==
  ASSUME FolderShape, NEW gone \in OnePath, NEW new \in OnePath,
         gone \cup new # {}, Changes(gone, new)
  PROVE  /\ fs' \subseteq Paths /\ Root \in fs' /\ calm' \in BOOLEAN
         /\ events' \in Seq([path : Paths, old : Paths])
<1>1. fs \subseteq Paths /\ Root \in fs
  BY DEF FolderShape, FolderTypeOK
<1>2. gone \subseteq Paths \ {Root} /\ new \subseteq Paths \ {Root}
  BY DEF OnePath
<1>3. fs' \subseteq Paths
  BY <1>1, <1>2 DEF Changes
<1>4. \A g \in gone : ~Within(Root, g)
  BY <1>1, <1>2, WithinParent
<1>5. Root \in fs'
  BY <1>1, <1>4 DEF Changes
<1>6. calm' \in BOOLEAN
  BY DEF Changes
<1>7. CASE ~Subscribed
  BY <1>3, <1>5, <1>6, <1>7 DEF Changes, FolderShape
<1>8. CASE Subscribed
  <2> DEFINE e == [path |-> CHOOSE p \in (IF new = {} THEN gone ELSE new) : TRUE,
                   old  |-> CHOOSE p \in (IF gone = {} THEN new ELSE gone) : TRUE]
  <2>1. (CHOOSE p \in (IF new = {} THEN gone ELSE new) : TRUE) \in Paths
    BY <1>2
  <2>2. (CHOOSE p \in (IF gone = {} THEN new ELSE gone) : TRUE) \in Paths
    BY <1>2
  <2>3. e \in [path : Paths, old : Paths]
    BY <2>1, <2>2
  <2>4. events' = events \o [k \in 1..1 |-> e]
    BY <1>8 DEF Changes
  <2> HIDE DEF e
  <2>5. [k \in 1..1 |-> e] \in Seq([path : Paths, old : Paths])
    <3>1. \A k \in 1..1 : e \in [path : Paths, old : Paths]
      BY <2>3
    <3> QED
      BY <3>1
  <2>6. events' \in Seq([path : Paths, old : Paths])
    BY <2>4, <2>5, ConcatProperties DEF FolderShape
  <2> QED
    BY <1>3, <1>5, <1>6, <2>6
<1> QED
  BY <1>7, <1>8

\* Where the entries change, the client hears of it.
LEMMA ChangeSeen ==
  ASSUME FolderShape, NEW gone \in OnePath, NEW new \in OnePath,
         gone \cup new # {}, Changes(gone, new), Subscribed, NEW p \in Paths,
         UNCHANGED timer
  PROVE  Due(p)' \/ Children(p)' = Children(p)
<1> DEFINE e == [path |-> CHOOSE q \in (IF new = {} THEN gone ELSE new) : TRUE,
                 old  |-> CHOOSE q \in (IF gone = {} THEN new ELSE gone) : TRUE]
<1>1. fs \subseteq Paths /\ Root \in fs
  BY DEF FolderShape, FolderTypeOK
<1>2. gone \subseteq Paths \ {Root} /\ new \subseteq Paths \ {Root}
  BY DEF OnePath
<1>3. \A q \in gone \cup new : q \in {e.path, e.old}
  BY DEF OnePath
<1>4. events' = events \o [k \in 1..1 |-> e]
  BY DEF Changes
<1> HIDE DEF e
<1>5. Len(events) + 1 \in DOMAIN events' /\ events'[Len(events) + 1] = e
  <2>1. [k \in 1..1 |-> e] \in Seq({e})
    OBVIOUS
  <2>2. /\ Len([k \in 1..1 |-> e]) = 1 /\ [k \in 1..1 |-> e][1] = e
        /\ events \in Seq([path : Paths, old : Paths])
    BY <2>1 DEF FolderShape
  <2> QED
    BY <1>4, <2>1, <2>2
<1>6. ASSUME NEW q \in gone \cup new, Parent(q) = p \/ q = p \/ Within(p, q)
      PROVE  Due(p)'
  <2>1. Affects(e, p)
    BY <1>3, <1>6 DEF Affects
  <2>2. Affects(e, p)'
    BY <2>1 DEF Affects, Parent, Within
  <2> QED
    BY <1>5, <2>2 DEF Due
<1>7. ASSUME NEW c \in Children(p), c \notin Children(p)'
      PROVE  Due(p)'
  <2>1. c \in fs /\ c # Root /\ Parent(c) = p /\ c \notin fs'
    BY <1>7 DEF Children, Parent
  <2>2. PICK g \in gone : Within(c, g)
    BY <2>1 DEF Changes
  <2>3. c = g \/ Within(p, g)
    BY <1>1, <1>2, <2>1, <2>2, WithinParent
  <2> QED
    BY <1>6, <2>1, <2>3
<1>8. ASSUME NEW c \in Children(p)', c \notin Children(p)
      PROVE  Due(p)'
  <2>1. c \in fs' /\ Parent(c) = p /\ c \notin fs
    BY <1>8 DEF Children, Parent
  <2>2. PICK n \in new : c = n \/ (c \in Paths /\ Within(c, n))
    BY <2>1 DEF Changes, Along
  <2>3. c = n \/ Within(p, n)
    BY <1>2, <2>1, <2>2, WithinParent
  <2> QED
    BY <1>6, <2>1, <2>2, <2>3
<1> QED
  BY <1>7, <1>8

\* A load has lost a part.
LEMMA EndsShape ==
  ASSUME FolderShape, NEW s \in Slots, NEW c \in LoadCalls, Ends(s, c)
  PROVE  /\ FolderCalls' /\ loading' \in BOOLEAN /\ timer' \in BOOLEAN
         /\ conn' \in [Readers -> {"free", "opening", "open", "aborted"}]
         /\ fileEvents' \in Readers \cup {0}
         /\ events' \in Seq([path : Paths, old : Paths])
<1>1. FolderCalls'
  <2>1. Becomes(s, c) \/ Becomes(s, NoCall)
    BY DEF Ends
  <2>2. CallOK(c) /\ CallOK(NoCall)
    BY CallTypes DEF CallOK
  <2> QED
    BY <2>1, <2>2, CallTaken DEF FolderShape
<1>2. CASE UNCHANGED <<loading, streamVars, events>>
  BY <1>1, <1>2 DEF FolderShape, FolderTypeOK, streamVars
<1>3. CASE StartFileEvents /\ loading' = FALSE
  <2>1. PICK r \in Readers : conn' = [Aborted EXCEPT ![r] = "opening"] /\ fileEvents' = r
    BY <1>3 DEF StartFileEvents
  <2>2. Aborted \in [Readers -> {"free", "opening", "open", "aborted"}]
    BY DEF Aborted, FolderShape, FolderTypeOK
  <2>3. events' = events \/ events' = <<>>
    BY <1>3 DEF StartFileEvents
  <2>4. timer' = FALSE
    BY <1>3 DEF StartFileEvents
  <2> QED
    BY <1>1, <1>3, <2>1, <2>2, <2>3, <2>4, EmptySeq DEF FolderShape
<1> QED
  BY <1>2, <1>3 DEF Ends

\* A load begins.
LEMMA BeginsShape ==
  ASSUME FolderShape, NEW s \in Slots, NEW p \in Dirs, NEW push \in BOOLEAN,
         NEW tree \in BOOLEAN, NEW then \in {"enter", "end", "action"},
         BeginsLoad(s, Load(p, push, tree, then))
  PROVE  FolderCalls' /\ busy' \in BOOLEAN /\ calm' \in BOOLEAN
<1>1. CallOK(Load(p, push, tree, then))
  BY CallTypes DEF CallOK
<1>2. FolderCalls'
  BY <1>1, CallTaken DEF BeginsLoad, FolderShape
<1>3. calm \in BOOLEAN
  BY DEF FolderShape, FolderTypeOK
<1>4. Load(p, push, tree, then).push = push
  BY DEF Load
<1> QED
  BY <1>2, <1>3, <1>4 DEF BeginsLoad

\* The user at work.
LEMMA UserShape ==
  ASSUME FolderShape, FolderUser \/ TimerFires
  PROVE  FolderShape'
<1> USE DEF FolderShape
<1>1. currentPath \in Dirs /\ cursor \in Nat
  BY DEF FolderTypeOK
<1>2. ASSUME NEW s \in Slots, NEW c, CallOK(c), Becomes(s, c)
      PROVE  FolderCalls'
  BY <1>2, CallTaken
<1>3. \A s \in FreeSlot : s \in Slots
  BY DEF FreeSlot
<1>4. CASE SubmitLogin
  BY <1>2, <1>3, <1>4, CallTypes
  DEF SubmitLogin, serverVars, listVars, treeVars, streamVars, FolderTypeOK, CallOK
<1>5. CASE SubmitLogout
  BY <1>2, <1>3, <1>5, CallTypes
  DEF SubmitLogout, serverVars, listVars, treeVars, streamVars, FolderTypeOK, CallOK
<1>6. CASE Navigate
  <2>1. \E p \in Dirs, s \in Slots : BeginsLoad(s, Load(p, TRUE, FALSE, "end"))
    BY <1>3, <1>6, OfferedDirs DEF Navigate
  <2>2. FolderCalls' /\ busy' \in BOOLEAN /\ calm' \in BOOLEAN
    BY <2>1, BeginsShape
  <2> QED
    BY <1>6, <2>2
    DEF Navigate, serverVars, listVars, treeVars, streamVars, FolderTypeOK
<1>7. CASE Refresh \/ TimerFires
  <2>1. \E s \in Slots : BeginsLoad(s, Load(currentPath, FALSE, TRUE, "end"))
    BY <1>3, <1>7 DEF Refresh, TimerFires
  <2>2. FolderCalls' /\ busy' \in BOOLEAN /\ calm' \in BOOLEAN
    BY <1>1, <2>1, BeginsShape
  <2>3. timer' \in BOOLEAN
    BY <1>7 DEF Refresh, TimerFires, streamVars, FolderTypeOK
  <2>4. UNCHANGED <<serverVars, user, loading, listVars, treeVars, conn, fileEvents>>
    BY <1>7 DEF Refresh, TimerFires, streamVars
  <2> QED
    BY <2>2, <2>3, <2>4 DEF serverVars, listVars, treeVars, FolderTypeOK
<1>8. CASE LoadMore
  <2>1. FolderCalls'
    BY <1>1, <1>2, <1>3, <1>8, CallTypes DEF LoadMore, CallOK
  <2>2. calm' \in BOOLEAN
    BY <1>8 DEF LoadMore, FolderTypeOK
  <2> QED
    BY <1>8, <2>1, <2>2
    DEF LoadMore, serverVars, listVars, treeVars, streamVars, FolderTypeOK
<1>9. CASE ToggleTree
  <2>1. openTree' \subseteq Dirs
    BY <1>9, OfferedDirs DEF ToggleTree, FolderTypeOK
  <2> QED
    BY <1>9, <2>1
    DEF ToggleTree, serverVars, listVars, streamVars, FolderTypeOK, FolderCalls
<1>10. CASE Act
  <2>1. PICK s \in Slots :
          \/ \E d \in Dirs : d # Root /\ Becomes(s, [op |-> "act", gone |-> {}, new |-> {d}])
          \/ \E p \in Range(entries) : Becomes(s, [op |-> "act", gone |-> {p}, new |-> {}])
          \/ \E p \in Range(entries), d \in TreeRows \cup {Root} :
               /\ Join(d, Last(p)) \in Paths
               /\ Becomes(s, [op |-> "act", gone |-> {p}, new |-> {Join(d, Last(p))}])
    BY <1>3, <1>10 DEF Act
  <2>2. \A p \in Range(entries) : p \in Paths \ {Root}
    BY RangeSeq
  <2>3. \A d \in TreeRows \cup {Root} : d \in Seq(STRING)
    BY OfferedDirs, PathsAssumption
  <2>4. \A d \in TreeRows \cup {Root} : \A name : Join(d, name) # Root
    BY <2>3, AppendProperties, EmptySeq DEF Join, Root
  <2>5. \E gone, new \in OnePath :
          /\ gone \cup new # {}
          /\ Becomes(s, [op |-> "act", gone |-> gone, new |-> new])
    <3>1. CASE \E d \in Dirs :
                 d # Root /\ Becomes(s, [op |-> "act", gone |-> {}, new |-> {d}])
      BY <3>1, PathsAssumption DEF OnePath
    <3>2. CASE \E p \in Range(entries) :
                 Becomes(s, [op |-> "act", gone |-> {p}, new |-> {}])
      BY <2>2, <3>2 DEF OnePath
    <3>3. CASE \E p \in Range(entries), d \in TreeRows \cup {Root} :
                 /\ Join(d, Last(p)) \in Paths
                 /\ Becomes(s, [op |-> "act", gone |-> {p}, new |-> {Join(d, Last(p))}])
      BY <2>2, <2>4, <3>3 DEF OnePath
    <3> QED
      BY <2>1, <3>1, <3>2, <3>3
  <2>6. FolderCalls'
    BY <1>2, <2>5, CallTypes DEF CallOK
  <2> QED
    BY <1>10, <2>6
    DEF Act, serverVars, listVars, treeVars, streamVars, FolderTypeOK
<1> QED
  BY <1>4, <1>5, <1>6, <1>7, <1>8, <1>9, <1>10 DEF FolderUser

\* Answers to loads.
LEMMA LoadShape ==
  ASSUME FolderShape, NEW s \in Slots,
         \/ ListServed(s) \/ ListAnswers(s) \/ ListFails(s) \/ TreeAnswers(s)
         \/ MoreServed(s) \/ MoreAnswers(s)
  PROVE  FolderShape'
<1> USE DEF FolderShape
<1> DEFINE c == calls[s]
<1>1. /\ fs \subseteq Paths /\ Root \in Dirs
      /\ entries \in Seq(Paths \ {Root}) /\ \A p : Ancestors(p) \subseteq Dirs
  BY OfferedDirs, PathsAssumption DEF FolderTypeOK
<1>2. \A d, after : Page(d, after) \in Pages
  BY <1>1, PageLists DEF Pages
<1>3. \A list \in Seq(Paths \ {Root}) : Range(list) \subseteq Paths
  BY RangeSeq
<1>4. CASE ListServed(s)
  <2>1. c \in LoadCalls
    BY <1>4, CallKinds DEF ListServed
  <2>2. [c EXCEPT !.list = "served", !.page = Page(c.path, 0)] \in LoadCalls
    BY <1>2, <2>1, CallGoesOn
  <2>3. FolderCalls'
    BY <1>4, <2>2, CallTaken DEF ListServed, CallOK
  <2> QED
    BY <1>4, <2>3
    DEF ListServed, serverVars, listVars, treeVars, streamVars, FolderTypeOK
<1>5. CASE ListAnswers(s)
  <2>1. c \in LoadCalls
    BY <1>5, CallKinds DEF ListAnswers
  <2>2. [c EXCEPT !.list = "done"] \in LoadCalls
    BY <2>1, CallTypes, CallGoesOn
  <2>3. /\ c.path \in Dirs /\ c.page.list \in Seq(Paths \ {Root})
        /\ c.page.more \in BOOLEAN /\ c.page.cursor \in Nat
    BY <2>1 DEF LoadCalls, Pages
  <2>4. Ends(s, [c EXCEPT !.list = "done"]) /\ UNCHANGED <<fs, user, calm>>
    BY <1>5 DEF ListAnswers
  <2>5. /\ currentPath' \in Dirs /\ more' \in BOOLEAN /\ cursor' \in Nat
        /\ entries' \in Seq(Paths \ {Root}) /\ busy' \in BOOLEAN
    BY <1>5, <2>3 DEF ListAnswers
  <2>6. /\ treeEntries' \subseteq Dirs /\ openTree' \subseteq Dirs
        /\ url' \in Dirs
    BY <1>1, <1>5, <2>3, OfferedDirs DEF ListAnswers, URLAfter, FolderTypeOK
  <2> QED
    BY <1>3, <2>2, <2>4, <2>5, <2>6, EndsShape DEF FolderTypeOK
<1>6. CASE ListFails(s)
  <2>1. c \in LoadCalls
    BY <1>6, CallKinds DEF ListFails
  <2>2. [c EXCEPT !.list = "done"] \in LoadCalls
    BY <2>1, CallTypes, CallGoesOn
  <2>3. /\ Ends(s, [c EXCEPT !.list = "done"])
        /\ busy' = FALSE /\ calm' = FALSE /\ UNCHANGED <<fs, user, listVars, treeVars>>
    BY <1>6 DEF ListFails
  <2> QED
    BY <2>2, <2>3, EndsShape DEF FolderTypeOK, listVars, treeVars
<1>7. CASE TreeAnswers(s)
  <2>1. c \in LoadCalls
    BY <1>7, CallKinds DEF TreeAnswers
  <2>2. [c EXCEPT !.tree = FALSE] \in LoadCalls
    BY <2>1, CallTypes, CallGoesOn
  <2>3. /\ Ends(s, [c EXCEPT !.tree = FALSE])
        /\ UNCHANGED <<fs, user, listVars, calm>> /\ busy' \in BOOLEAN
    BY <1>7 DEF TreeAnswers, EndsAction, FolderTypeOK
  <2>4. treeEntries' \subseteq Dirs /\ openTree' \subseteq Dirs
    BY <1>1, <1>7 DEF TreeAnswers, treeVars, FolderTypeOK
  <2> QED
    BY <2>2, <2>3, <2>4, EndsShape DEF FolderTypeOK, listVars
<1>8. CASE MoreServed(s)
  <2>1. c \in MoreCalls
    BY <1>8, CallKinds DEF MoreServed
  <2>2. [c EXCEPT !.served = TRUE, !.page = Page(c.path, c.after)] \in MoreCalls
    BY <1>2, <2>1, CallGoesOn
  <2>3. FolderCalls'
    BY <1>8, <2>2, CallTaken DEF MoreServed, CallOK
  <2> QED
    BY <1>8, <2>3
    DEF MoreServed, serverVars, listVars, treeVars, streamVars, FolderTypeOK
<1>9. CASE MoreAnswers(s)
  <2>1. c \in MoreCalls
    BY <1>9, CallKinds DEF MoreAnswers
  <2>2. /\ c.page.list \in Seq(Paths \ {Root})
        /\ c.page.more \in BOOLEAN /\ c.page.cursor \in Nat
    BY <2>1 DEF MoreCalls, Pages
  <2>3. entries \o c.page.list \in Seq(Paths \ {Root})
    BY <1>1, <2>2, ConcatProperties
  <2>4. /\ entries' \in Seq(Paths \ {Root}) /\ more' \in BOOLEAN /\ cursor' \in Nat
    BY <1>9, <2>2, <2>3 DEF MoreAnswers, FolderTypeOK
  <2>5. FolderCalls'
    BY <1>9, CallTypes, CallTaken DEF MoreAnswers, CallOK
  <2> QED
    BY <1>3, <1>9, <2>4, <2>5
    DEF MoreAnswers, serverVars, treeVars, streamVars, FolderTypeOK
<1> QED
  BY <1>4, <1>5, <1>6, <1>7, <1>8, <1>9

\* The other answers, the stream, and changes from outside.
LEMMA OtherShape ==
  ASSUME FolderShape,
         \/ \E s \in Slots : \/ Enters(s) \/ EntryFails(s) \/ LoggedOut(s)
                             \/ ActServed(s) \/ ActAnswers(s) \/ ActFails(s)
         \/ StreamOpens \/ ReaderEnds \/ EventRead \/ Outside
  PROVE  FolderShape'
<1> USE DEF FolderShape
<1>1. url \in Dirs /\ currentPath \in Dirs /\ Root \in Dirs
  BY PathsAssumption DEF FolderTypeOK
<1>2. ASSUME NEW s \in Slots, Becomes(s, NoCall)
      PROVE  FolderCalls'
  BY <1>2, CallTypes, CallTaken DEF CallOK
<1>3. ASSUME NEW s \in Slots, Enters(s)
      PROVE  FolderShape'
  <2>1. \E p \in Dirs, push \in BOOLEAN : BeginsLoad(s, Load(p, push, TRUE, "enter"))
    BY <1>1, <1>3 DEF Enters
  <2>2. FolderCalls' /\ busy' \in BOOLEAN /\ calm' \in BOOLEAN
    BY <2>1, BeginsShape
  <2> QED
    BY <1>3, <2>2
    DEF Enters, serverVars, listVars, treeVars, streamVars, FolderTypeOK
<1>4. ASSUME NEW s \in Slots, EntryFails(s) \/ ActFails(s)
      PROVE  FolderShape'
  BY <1>2, <1>4 DEF EntryFails, ActFails, serverVars, listVars, treeVars,
                    streamVars, FolderTypeOK
<1>5. ASSUME NEW s \in Slots, LoggedOut(s)
      PROVE  FolderShape'
  <2>1. FolderCalls'
    BY <1>2, <1>5 DEF LoggedOut
  <2>2. CASE UNCHANGED <<streamVars, events, user, entries, treeEntries>>
    BY <1>5, <2>1, <2>2 DEF LoggedOut, streamVars, FolderTypeOK
  <2>3. CASE StopFileEvents /\ user' = FALSE /\ entries' = <<>> /\ treeEntries' = {}
    <3>1. /\ conn' \in [Readers -> {"free", "opening", "open", "aborted"}]
          /\ fileEvents' = 0 /\ timer' = FALSE
      BY <2>3 DEF StopFileEvents, Aborted, FolderTypeOK
    <3>2. events' = events \/ events' = <<>>
      BY <2>3 DEF StopFileEvents
    <3>3. events' \in Seq([path : Paths, old : Paths])
      BY <3>2, EmptySeq
    <3>4. entries' \in Seq(Paths \ {Root}) /\ Range(entries') = {}
      <4>1. Range(<<>>) = {}
        BY DEF Range
      <4> QED
        BY <2>3, <4>1, EmptySeq
    <3> QED
      BY <1>5, <2>1, <2>3, <3>1, <3>3, <3>4 DEF LoggedOut, FolderTypeOK
  <2> QED
    BY <1>5, <2>2, <2>3 DEF LoggedOut
<1>6. ASSUME NEW s \in Slots, ActServed(s)
      PROVE  FolderShape'
  <2>1. calls[s] \in ActCalls
    BY <1>6, CallKinds DEF ActServed
  <2>2. /\ calls[s].gone \in OnePath /\ calls[s].new \in OnePath
        /\ calls[s].gone \cup calls[s].new # {}
    BY <2>1 DEF ActCalls
  <2>3. /\ fs' \subseteq Paths /\ Root \in fs' /\ calm' \in BOOLEAN
        /\ events' \in Seq([path : Paths, old : Paths])
    BY <1>6, <2>2, ChangesShape DEF ActServed
  <2>4. FolderCalls'
    BY <1>6, CallTypes, CallTaken DEF ActServed, CallOK
  <2> QED
    BY <1>6, <2>3, <2>4 DEF ActServed, listVars, treeVars, streamVars, FolderTypeOK
<1>7. ASSUME NEW s \in Slots, ActAnswers(s)
      PROVE  FolderShape'
  <2>1. FolderCalls' /\ busy' \in BOOLEAN /\ calm' \in BOOLEAN
    BY <1>1, <1>7, BeginsShape DEF ActAnswers
  <2> QED
    BY <1>7, <2>1
    DEF ActAnswers, serverVars, listVars, treeVars, streamVars, FolderTypeOK
<1>8. CASE StreamOpens
  BY <1>8 DEF StreamOpens, listVars, treeVars, FolderTypeOK, FolderCalls
<1>9. CASE ReaderEnds
  <2>1. /\ conn' \in [Readers -> {"free", "opening", "open", "aborted"}]
        /\ fileEvents' \in Readers \cup {0}
        /\ events' = events \/ events' = <<>>
        /\ calm' \in BOOLEAN
    BY <1>9 DEF ReaderEnds, AfterReader, FolderTypeOK
  <2>2. events' \in Seq([path : Paths, old : Paths])
    BY <2>1, EmptySeq
  <2> QED
    BY <1>9, <2>1, <2>2 DEF ReaderEnds, listVars, treeVars, FolderTypeOK, FolderCalls
<1>10. CASE EventRead
  <2>1. timer' \in BOOLEAN /\ calm' \in BOOLEAN
    BY <1>10 DEF EventRead, FolderTypeOK
  <2>2. events' \in Seq([path : Paths, old : Paths])
    BY <1>10, HeadTailProperties DEF EventRead
  <2> QED
    BY <1>10, <2>1, <2>2 DEF EventRead, listVars, treeVars, FolderTypeOK, FolderCalls
<1>11. CASE Outside
  <2>1. \E gone, new \in OnePath : gone \cup new # {} /\ Changes(gone, new)
    BY <1>11 DEF Outside, OnePath
  <2>2. /\ fs' \subseteq Paths /\ Root \in fs' /\ calm' \in BOOLEAN
        /\ events' \in Seq([path : Paths, old : Paths])
    BY <2>1, ChangesShape
  <2> QED
    BY <1>11, <2>2
    DEF Outside, listVars, treeVars, streamVars, FolderTypeOK, FolderCalls
<1> QED
  BY <1>3, <1>4, <1>5, <1>6, <1>7, <1>8, <1>9, <1>10, <1>11

\* A slot enters the session only if it did so before, or to log in.
LEMMA EntryOld ==
  ASSUME SessionInv, FolderShape, FolderNext, ~SubmitLogin
  PROVE  \A t \in Slots : EntryCall(calls'[t]) => EntryCall(calls[t])
<1> USE DEF SessionInv
<1>1. ASSUME NEW s \in Slots, NEW c, Becomes(s, c), EntryCall(c) => EntryCall(calls[s])
      PROVE  \A t \in Slots : EntryCall(calls'[t]) => EntryCall(calls[t])
  BY <1>1, BecomesCall
<1>2. ASSUME NEW s \in Slots, NEW c, Becomes(s, c), ~PageLoads(c),
             c.op \notin {"me", "login"}
      PROVE  \A t \in Slots : EntryCall(calls'[t]) => EntryCall(calls[t])
  BY <1>1, <1>2 DEF EntryCall
<1>3. \A s \in FreeSlot : s \in Slots
  BY DEF FreeSlot
<1>4. ASSUME NEW s \in Slots, NEW p, NEW push, NEW tree,
             NEW then \in {"end", "action"}, BeginsLoad(s, Load(p, push, tree, then))
      PROVE  \A t \in Slots : EntryCall(calls'[t]) => EntryCall(calls[t])
  BY <1>2, <1>4, NewCalls DEF BeginsLoad
<1>5. ASSUME NEW s \in Slots, NEW page, NEW d, Op(s, "load"),
             \/ d = [calls[s] EXCEPT !.list = "served", !.page = page]
             \/ d = [calls[s] EXCEPT !.list = "done"]
             \/ d = [calls[s] EXCEPT !.tree = FALSE],
             Becomes(s, d) \/ Ends(s, d)
      PROVE  \A t \in Slots : EntryCall(calls'[t]) => EntryCall(calls[t])
  <2>1. calls[s] \in LoadCalls
    BY <1>5, CallKinds DEF FolderShape
  <2>2. d.op = "load" /\ d.then = calls[s].then
    BY <1>5, <2>1 DEF LoadCalls
  <2>3. EntryCall(d) => EntryCall(calls[s])
    BY <1>5, <2>2 DEF EntryCall, PageLoads, Op
  <2>4. Becomes(s, d) \/ Becomes(s, NoCall)
    BY <1>5 DEF Ends
  <2> QED
    BY <1>1, <1>2, <2>3, <2>4, NewCalls
<1>6. CASE \/ SubmitLogout \/ Navigate \/ Refresh \/ TimerFires
           \/ LoadMore \/ ToggleTree \/ Act
  <2>1. CASE SubmitLogout
    <3>1. PICK s \in Slots : Becomes(s, [op |-> "logout"])
      BY <1>3, <2>1 DEF SubmitLogout
    <3>2. [op |-> "logout"].op = "logout"
      OBVIOUS
    <3> QED
      BY <1>2, <3>1, <3>2 DEF PageLoads
  <2>2. CASE Navigate
    BY <1>3, <1>4, <2>2 DEF Navigate
  <2>3. CASE Refresh \/ TimerFires
    BY <1>3, <1>4, <2>3 DEF Refresh, TimerFires
  <2>4. CASE LoadMore
    <3>1. \E s \in Slots : Becomes(s, [op |-> "more", path |-> currentPath,
                                       after |-> cursor, served |-> FALSE,
                                       page |-> NoPage])
      BY <1>3, <2>4 DEF LoadMore
    <3> QED
      BY <1>2, <3>1, NewCalls
  <2>5. CASE ToggleTree
    BY <2>5 DEF ToggleTree
  <2>6. CASE Act
    <3>1. \E s \in Slots : \E gone, new :
            Becomes(s, [op |-> "act", gone |-> gone, new |-> new])
      BY <1>3, <2>6 DEF Act
    <3> QED
      BY <1>2, <3>1, NewCalls
  <2> QED
    BY <1>6, <2>1, <2>2, <2>3, <2>4, <2>5, <2>6
<1>7. CASE \E s \in Slots : ListServed(s) \/ ListAnswers(s) \/ ListFails(s) \/ TreeAnswers(s)
  <2>1. PICK s \in Slots : ListServed(s) \/ ListAnswers(s) \/ ListFails(s) \/ TreeAnswers(s)
    BY <1>7
  <2>2. /\ Op(s, "load")
        /\ \/ Becomes(s, [calls[s] EXCEPT !.list = "served",
                                          !.page = Page(calls[s].path, 0)])
           \/ Ends(s, [calls[s] EXCEPT !.list = "done"])
           \/ Ends(s, [calls[s] EXCEPT !.tree = FALSE])
    BY <2>1 DEF ListServed, ListAnswers, ListFails, TreeAnswers
  <2> QED
    BY <1>5, <2>2
<1>8. CASE \E s \in Slots : \/ MoreServed(s) \/ MoreAnswers(s) \/ LoggedOut(s)
                            \/ EntryFails(s) \/ ActServed(s) \/ ActFails(s)
  <2>1. PICK s \in Slots : \/ MoreServed(s) \/ MoreAnswers(s) \/ LoggedOut(s)
                           \/ EntryFails(s) \/ ActServed(s) \/ ActFails(s)
    BY <1>8
  <2>2. CASE MoreServed(s)
    <3>1. calls[s] \in MoreCalls
      BY <2>2, CallKinds DEF MoreServed, FolderShape
    <3>2. PICK d : Becomes(s, d) /\ d = [calls[s] EXCEPT !.served = TRUE,
                     !.page = Page(calls[s].path, calls[s].after)]
      BY <2>2 DEF MoreServed
    <3>3. d.op = "more"
      BY <3>1, <3>2 DEF MoreCalls
    <3> QED
      BY <1>2, <3>2, <3>3 DEF PageLoads
  <2>3. CASE MoreAnswers(s) \/ LoggedOut(s) \/ EntryFails(s) \/ ActFails(s)
    <3>1. Becomes(s, NoCall)
      BY <2>3 DEF MoreAnswers, LoggedOut, EntryFails, ActFails
    <3> QED
      BY <1>2, <3>1, NewCalls
  <2>4. CASE ActServed(s)
    <3>1. Becomes(s, [op |-> "acted"])
      BY <2>4 DEF ActServed
    <3> QED
      BY <1>2, <3>1, NewCalls
  <2> QED
    BY <2>1, <2>2, <2>3, <2>4
<1>9. CASE \E s \in Slots : Enters(s) \/ ActAnswers(s)
  <2>1. PICK s \in Slots : Enters(s) \/ ActAnswers(s)
    BY <1>9
  <2>2. CASE Enters(s)
    <3>1. EntryCall(calls[s]) /\ \E c : Becomes(s, c)
      BY <2>2 DEF Enters, BeginsLoad, EntryCall, Op
    <3> QED
      BY <1>1, <3>1
  <2>3. CASE ActAnswers(s)
    BY <1>4, <2>3 DEF ActAnswers
  <2> QED
    BY <2>1, <2>2, <2>3
<1>10. CASE StreamOpens \/ ReaderEnds \/ EventRead \/ Outside
  BY <1>10 DEF StreamOpens, ReaderEnds, EventRead, Outside
<1> QED
  BY <1>6, <1>7, <1>8, <1>9, <1>10
  DEF FolderNext, FolderUser, FolderAnswers, FolderStream

\* What a step may do to the stream: leave it alone, but read from it or add to
\* it when it is open, or one of the four.
LEMMA StreamSteps ==
  ASSUME FolderShape, FolderNext
  PROVE  \/ /\ UNCHANGED <<conn, fileEvents>>
            /\ (timer' => timer) \/ Subscribed
            /\ UNCHANGED events \/ Subscribed
         \/ StreamOpens \/ ReaderEnds
         \/ \E s \in Slots : LoggedOut(s) /\ StopFileEvents
         \/ \E s \in Slots : /\ Op(s, "load") /\ calls[s].then = "enter"
                             /\ StartFileEvents
                             /\ Becomes(s, NoCall)
<1>1. CASE UNCHANGED <<streamVars, events>>
  BY <1>1 DEF streamVars
<1>2. CASE FolderUser
  <2>1. UNCHANGED <<serverVars, streamVars>>
    BY <1>2 DEF FolderUser, SubmitLogin, SubmitLogout, Navigate, Refresh, LoadMore,
                ToggleTree, Act
  <2> QED
    BY <1>1, <2>1 DEF serverVars
<1>3. CASE TimerFires \/ EventRead
  BY <1>3 DEF TimerFires, EventRead, serverVars
<1>4. CASE Outside \/ \E s \in Slots : ActServed(s)
  <2>1. UNCHANGED streamVars /\ \E gone, new : Changes(gone, new)
    BY <1>4 DEF Outside, ActServed
  <2>2. UNCHANGED events \/ Subscribed
    BY <2>1 DEF Changes
  <2> QED
    BY <2>1, <2>2 DEF streamVars
<1>5. CASE \E s \in Slots : \/ Enters(s) \/ EntryFails(s) \/ ListServed(s)
                            \/ MoreServed(s) \/ MoreAnswers(s) \/ ActAnswers(s)
                            \/ ActFails(s)
  <2>1. UNCHANGED <<streamVars, events>>
    BY <1>5 DEF Enters, EntryFails, ListServed, MoreServed, MoreAnswers, ActAnswers,
                ActFails, serverVars
  <2> QED
    BY <1>1, <2>1
<1>6. CASE \E s \in Slots : LoggedOut(s)
  BY <1>1, <1>6 DEF LoggedOut
<1>7. CASE \E s \in Slots : ListAnswers(s) \/ ListFails(s) \/ TreeAnswers(s)
  <2>1. PICK s \in Slots : ListAnswers(s) \/ ListFails(s) \/ TreeAnswers(s)
    BY <1>7
  <2>2. PICK d : /\ Op(s, "load") /\ Ends(s, d)
                 /\ \/ d = [calls[s] EXCEPT !.list = "done"]
                    \/ d = [calls[s] EXCEPT !.tree = FALSE]
    BY <2>1 DEF ListAnswers, ListFails, TreeAnswers
  <2>3. calls[s] \in LoadCalls
    BY <2>2, CallKinds DEF FolderShape
  <2>4. d.then = calls[s].then
    BY <2>2, <2>3 DEF LoadCalls
  <2> QED
    BY <1>1, <2>2, <2>4 DEF Ends
<1> QED
  BY <1>2, <1>3, <1>4, <1>5, <1>6, <1>7 DEF FolderNext, FolderAnswers, FolderStream

\* Every step keeps the stream quiet where it has to be.
LEMMA QuietStep ==
  ASSUME SessionInv, FolderShape, StreamQuiet, [FolderNext]_folderVars
  PROVE  StreamQuiet'
<1> USE DEF StreamQuiet
<1>1. CASE UNCHANGED folderVars
  BY <1>1 DEF folderVars, streamVars, Subscribed, Live
<1>2. CASE SubmitLogin
  <2>1. UNCHANGED <<conn, timer, events>> /\ ~user
    BY <1>2 DEF SubmitLogin, serverVars, streamVars
  <2>2. ~timer /\ \A r \in Readers : ~Live(r)
    BY <2>1 DEF SessionInv, StreamOK, StreamOfUser
  <2> QED
    BY <2>1, <2>2 DEF Subscribed, Live
<1>3. CASE FolderNext /\ ~SubmitLogin
  <2>1. \A t \in Slots : EntryCall(calls'[t]) => EntryCall(calls[t])
    BY <1>3, EntryOld
  <2>2. \A t \in Slots : EntryCall(calls[t])' = EntryCall(calls'[t])
    BY DEF EntryCall, PageLoads
  <2>3. Subscribed => \A t \in Slots : ~EntryCall(calls'[t])
    BY <2>1 DEF Subscribed, Live
  <2>4. CASE /\ UNCHANGED <<conn, fileEvents>>
             /\ (timer' => timer) \/ Subscribed
             /\ UNCHANGED events \/ Subscribed
    BY <2>1, <2>2, <2>3, <2>4 DEF Subscribed, Live
  <2>5. CASE StreamOpens
    <3>1. PICK r \in Readers : conn[r] = "opening" /\ conn' = [conn EXCEPT ![r] = "open"]
      BY <2>5 DEF StreamOpens
    <3>2. Subscribed'
      BY <3>1 DEF Subscribed, SessionInv, StreamOK
    <3>3. \A t \in Slots : ~EntryCall(calls'[t])
      BY <2>1, <3>1 DEF Live
    <3> QED
      BY <2>2, <3>2, <3>3
  <2>6. CASE ReaderEnds
    <3>1. PICK r \in Readers : /\ conn' = [conn EXCEPT ![r] = "free"]
                               /\ events' = IF conn[r] = "open" THEN <<>> ELSE events
      BY <2>6 DEF ReaderEnds
    <3>2. UNCHANGED timer /\ \A q \in Readers : Live(q)' => Live(q)
      BY <2>6, <3>1 DEF ReaderEnds, Live, SessionInv, StreamOK
    <3>3. ~Subscribed' => events' = <<>>
      <4>1. CASE conn[r] = "open"
        BY <3>1, <4>1
      <4>2. CASE conn[r] # "open"
        BY <3>1, <4>2 DEF Subscribed, SessionInv, StreamOK
      <4> QED
        BY <4>1, <4>2
    <3> QED
      BY <2>1, <2>2, <3>2, <3>3
  <2>7. CASE \E s \in Slots : LoggedOut(s) /\ StopFileEvents
    <3>1. ~timer' /\ conn' = Aborted /\
            events' = IF \E r \in Readers : Aborted[r] = "open" THEN events ELSE <<>>
      BY <2>7 DEF StopFileEvents
    <3>2. \A r \in Readers : Aborted[r] \notin {"open", "opening"}
      BY DEF Aborted, SessionInv, StreamOK, StreamOfUser, Live
    <3> QED
      BY <3>1, <3>2 DEF Live, Subscribed
  <2>8. ASSUME NEW s \in Slots, Op(s, "load"), calls[s].then = "enter",
               StartFileEvents, Becomes(s, NoCall)
        PROVE  StreamQuiet'
    <3>1. EntryCall(calls[s])
      BY <2>8 DEF EntryCall, PageLoads, Op
    <3>2. \A t \in Slots : ~EntryCall(calls'[t])
      <4>1. /\ calls'[s] = NoCall
            /\ \A t \in Slots : t # s => calls'[t] = calls[t]
        BY <2>8, BecomesCall DEF SessionInv
      <4>2. \A t \in Slots : EntryCall(calls[t]) => t = s
        BY <3>1 DEF SessionInv, SessionCalls
      <4>3. ~EntryCall(NoCall)
        BY NewCalls DEF EntryCall
      <4> QED
        BY <4>1, <4>2, <4>3
    <3>3. \A r \in Readers : Aborted[r] \notin {"open", "opening"}
      BY DEF Aborted, SessionInv, StreamOK, StreamOfUser, Live
    <3>4. events' = <<>>
      BY <2>8, <3>3 DEF StartFileEvents
    <3> QED
      BY <2>2, <3>2, <3>4
  <2> QED
    BY <1>3, <2>4, <2>5, <2>6, <2>7, <2>8, StreamSteps
<1> QED
  BY <1>1, <1>2, <1>3

-----------------------------------------------------------------------------
(* The list on the screen *)

FolderInv == SessionInv /\ FolderShape /\ StreamQuiet /\ ShownOK

\* A call that will change the list when it is answered.
Changing(c) == (c.op = "load" /\ c.list # "done") \/ c.op = "more"

\* The same call as far as the list is concerned.
SameAnswer(c, d) ==
  /\ d.op = c.op /\ d.path = c.path
  /\ c.op = "load" => d.push = c.push /\ d.list = c.list /\ d.page = c.page
  /\ c.op = "more" => d = c

\* The calls that change the list, now and after a step.
LEMMA ListingIs ==
  /\ Listing = {s \in Slots : Changing(calls[s])}
  /\ Listing' = {s \in Slots : Changing(calls'[s])}
BY DEF Listing, Changing, Op

\* A slot that is not about the list becomes one that is not.
LEMMA ListingKept ==
  ASSUME FolderShape, NEW s \in Slots, ~Changing(calls[s]),
         NEW c, ~Changing(c), Becomes(s, c)
  PROVE  Listing' = Listing /\ \A t \in Listing : calls'[t] = calls[t]
<1>1. calls' = [calls EXCEPT ![s] = c] /\ calls = [t \in Slots |-> calls[t]]
  BY DEF Becomes, FolderShape, FolderCalls
<1>2. calls'[s] = c /\ \A t \in Slots : t # s => calls'[t] = calls[t]
  BY <1>1
<1> QED
  BY <1>2, ListingIs

\* Calls that are not about the list.
LEMMA OtherCalls ==
  /\ ~Changing(NoCall)
  /\ \A o \in {"none", "me", "login", "logout", "acted"} : ~Changing([op |-> o])
  /\ \A gone, new : ~Changing([op |-> "act", gone |-> gone, new |-> new])
BY DEF Changing, NoCall

\* A step that hears nothing leaves what is due.
LEMMA DueSame ==
  ASSUME UNCHANGED <<timer, events>>
  PROVE  \A p : Due(p)' = Due(p)
BY DEF Due, Affects, Parent, Within

\* A step that leaves the files leaves what a folder holds.
LEMMA ChildrenSame ==
  ASSUME UNCHANGED fs
  PROVE  \A p : Children(p)' = Children(p)
BY DEF Children, Parent

\* What is due, and what is to be shown, after a step.
DueNext(p) == timer' \/ \E k \in DOMAIN events' : Affects(events'[k], p)
ChildrenNext(p) == {q \in fs' : q # Root /\ Parent(q) = p}

\* They are what their names say,
LEMMA NextDue ==
  \A p : (Due(p)' <=> DueNext(p)) /\ Children(p)' = ChildrenNext(p)
BY DEF Due, DueNext, Children, ChildrenNext, Affects, Parent, Within

\* and so are the screen,
LEMMA NextScreen ==
  ScreenOK' <=>
    /\ url' = currentPath'
    /\ user' => \/ DueNext(currentPath')
                \/ ListsFirst(entries', more', cursor', ChildrenNext(currentPath'))
BY DEF ScreenOK, Due, DueNext, Children, ChildrenNext, Affects, Parent, Within,
       ListsFirst, InOrder, Sooner

\* a pending load,
LEMMA NextLoad ==
  ASSUME NEW s
  PROVE  LoadOK(calls[s])' <=>
           LET d == calls'[s] IN
           /\ d.push \/ url' = d.path
           /\ user' /\ d.list = "served" /\ d.page.ok =>
                \/ DueNext(d.path)
                \/ ListsFirst(d.page.list, d.page.more, d.page.cursor, ChildrenNext(d.path))
BY DEF LoadOK, Due, DueNext, Children, ChildrenNext, Affects, Parent, Within,
       ListsFirst, InOrder, Sooner

\* and a pending next page after the step.
LEMMA NextMore ==
  ASSUME NEW s
  PROVE  MoreOK(calls[s])' <=>
           LET d == calls'[s] IN
           /\ d.path = currentPath' /\ url' = currentPath' /\ d.after = cursor'
           /\ user' /\ ~DueNext(currentPath') =>
                /\ more' /\ ListsFirst(entries', more', cursor', ChildrenNext(currentPath'))
                /\ d.served /\ d.page.ok =>
                     ListsFirst(d.page.list, d.page.more, d.page.cursor,
                           Later(ChildrenNext(currentPath'), cursor'))
BY DEF MoreOK, Due, DueNext, Children, ChildrenNext, Affects, Parent, Within,
       ListsFirst, InOrder, Sooner, Later

\* A step leaves the list alone.  A folder that changes is due, and what was
\* due still is.
LEMMA ListKept ==
  ASSUME FolderShape, ShownOK, calm' => calm, user' => user,
         UNCHANGED <<currentPath, url, more, cursor>>,
         user' => UNCHANGED entries,
         Listing' = Listing,
         \A s \in Listing : SameAnswer(calls[s], calls'[s]),
         \A p : /\ calm' /\ user'
                /\ p = currentPath \/ \E s \in Listing : p = calls[s].path
                => /\ Due(p) => Due(p)'
                   /\ Due(p)' \/ Children(p)' = Children(p)
  PROVE  ShownOK'
<1> SUFFICES ASSUME calm'
             PROVE  /\ \A s, t \in Listing' : s = t
                    /\ Listing' = {} => ScreenOK'
                    /\ \A s \in Listing' : /\ Op(s, "load")' => LoadOK(calls[s])'
                                           /\ Op(s, "more")' => MoreOK(calls[s])'
  BY DEF ShownOK
<1>1. \A s, t \in Listing : s = t
  BY DEF ShownOK
<1>2. ASSUME user', NEW p, p = currentPath \/ \E s \in Listing : p = calls[s].path,
             ~DueNext(p)
      PROVE  ~Due(p) /\ ChildrenNext(p) = Children(p)
  BY <1>2, NextDue
<1>3. ASSUME Listing = {}
      PROVE  ScreenOK'
  <2>1. ScreenOK
    BY <1>3 DEF ShownOK
  <2> QED
    BY <1>2, <2>1, NextScreen DEF ScreenOK
<1>4. ASSUME NEW s \in Listing, Op(s, "load")'
      PROVE  LoadOK(calls[s])'
  <2> DEFINE c == calls[s]
             d == calls'[s]
  <2>1. /\ c.op = "load" /\ d.path = c.path /\ d.push = c.push
        /\ d.list = c.list /\ d.page = c.page
    BY <1>4 DEF SameAnswer, Op
  <2>2. LoadOK(c)
    BY <1>4, <2>1 DEF ShownOK, Op
  <2>3. d.push \/ url' = d.path
    BY <2>1, <2>2 DEF LoadOK
  <2>4. ASSUME user', d.list = "served", d.page.ok, ~DueNext(d.path)
        PROVE  ListsFirst(d.page.list, d.page.more, d.page.cursor, ChildrenNext(d.path))
    <3>1. ~Due(c.path) /\ ChildrenNext(c.path) = Children(c.path)
      BY <1>2, <1>4, <2>1, <2>4
    <3> QED
      BY <2>1, <2>2, <2>4, <3>1 DEF LoadOK
  <2> QED
    BY <2>3, <2>4, NextLoad
<1>5. ASSUME NEW s \in Listing, Op(s, "more")'
      PROVE  MoreOK(calls[s])'
  <2> DEFINE c == calls[s]
  <2>1. c.op = "more" /\ calls'[s] = c
    BY <1>5 DEF SameAnswer, Op
  <2>2. MoreOK(c)
    BY <1>5, <2>1 DEF ShownOK, Op
  <2>3. c.path = currentPath' /\ url' = currentPath' /\ c.after = cursor'
    BY <2>2 DEF MoreOK
  <2>4. ASSUME user', ~DueNext(currentPath)
        PROVE  /\ more' /\ ListsFirst(entries', more', cursor', ChildrenNext(currentPath))
               /\ c.served /\ c.page.ok =>
                    ListsFirst(c.page.list, c.page.more, c.page.cursor,
                          Later(ChildrenNext(currentPath), cursor))
    <3>1. ~Due(currentPath) /\ ChildrenNext(currentPath) = Children(currentPath)
      BY <1>2, <2>4
    <3> QED
      BY <2>2, <2>4, <3>1 DEF MoreOK
  <2> QED
    BY <2>1, <2>3, <2>4, NextMore
<1> QED
  BY <1>1, <1>3, <1>4, <1>5

\* Steps that have to do with neither the list nor what is to be shown.
LEMMA ListAlone ==
  ASSUME FolderInv,
         \/ StreamOpens \/ SubmitLogin \/ SubmitLogout \/ ToggleTree \/ Act
         \/ \E s \in Slots : EntryFails(s) \/ ActFails(s) \/ LoggedOut(s)
  PROVE  ShownOK'
<1> USE DEF FolderInv
<1>1. ASSUME UNCHANGED <<fs, currentPath, url, more, cursor, calm>>,
             user' => UNCHANGED <<user, entries, timer, events>>,
             Listing' = Listing, \A s \in Listing : calls'[s] = calls[s]
      PROVE  ShownOK'
  <2>1. \A s \in Listing : SameAnswer(calls[s], calls'[s])
    BY <1>1 DEF SameAnswer
  <2>2. user' => \A p : Due(p)' = Due(p)
    BY <1>1, DueSame
  <2>3. \A p : Children(p)' = Children(p)
    BY <1>1, ChildrenSame
  <2> QED
    BY <1>1, <2>1, <2>2, <2>3, ListKept
<1>2. ASSUME NEW s \in Slots, NEW c, ~Changing(calls[s]), ~Changing(c), Becomes(s, c)
      PROVE  Listing' = Listing /\ \A t \in Listing : calls'[t] = calls[t]
  BY <1>2, ListingKept
<1>3. \A s \in FreeSlot : s \in Slots /\ ~Changing(calls[s])
  BY OtherCalls DEF FreeSlot
<1>4. CASE StreamOpens \/ ToggleTree
  <2>1. UNCHANGED <<fs, currentPath, url, more, cursor, calm, user, entries, timer,
                    events, calls>>
    BY <1>4 DEF StreamOpens, ToggleTree, serverVars, listVars, streamVars
  <2>2. Listing' = Listing
    BY <2>1, ListingIs
  <2> QED
    BY <1>1, <2>1, <2>2
<1>5. CASE SubmitLogin \/ SubmitLogout \/ Act
  <2>1. UNCHANGED <<fs, currentPath, url, more, cursor, calm, user, entries, timer,
                    events>>
    BY <1>5 DEF SubmitLogin, SubmitLogout, Act, serverVars, listVars, streamVars
  <2>2. \E s \in FreeSlot : \E c : ~Changing(c) /\ Becomes(s, c)
    BY <1>5, OtherCalls DEF SubmitLogin, SubmitLogout, Act
  <2> QED
    BY <1>1, <1>2, <1>3, <2>1, <2>2
<1>6. ASSUME NEW s \in Slots, EntryFails(s) \/ ActFails(s) \/ LoggedOut(s)
      PROVE  ShownOK'
  <2>1. ~Changing(calls[s]) /\ Becomes(s, NoCall)
    BY <1>6 DEF EntryFails, ActFails, LoggedOut, Changing, Op
  <2>2. UNCHANGED <<fs, currentPath, url, more, cursor, calm>>
    BY <1>6 DEF EntryFails, ActFails, LoggedOut, serverVars, listVars
  <2>3. user' => UNCHANGED <<user, entries, timer, events>>
    BY <1>6 DEF EntryFails, ActFails, LoggedOut, serverVars, listVars, streamVars
  <2> QED
    BY <1>1, <1>2, <2>1, <2>2, <2>3, OtherCalls
<1> QED
  BY <1>4, <1>5, <1>6

\* Files change.
LEMMA ListOutdated ==
  ASSUME FolderInv, Outside \/ \E s \in Slots : ActServed(s)
  PROVE  ShownOK'
<1> USE DEF FolderInv
<1>1. UNCHANGED <<currentPath, url, more, cursor, user, entries, timer>>
  BY DEF Outside, ActServed, listVars, streamVars
<1>2. Listing' = Listing /\ \A t \in Listing : calls'[t] = calls[t]
  <2>1. CASE Outside
    <3>1. UNCHANGED calls
      BY <2>1 DEF Outside
    <3> QED
      BY <3>1, ListingIs
  <2>2. ASSUME NEW s \in Slots, ActServed(s)
        PROVE  Listing' = Listing /\ \A t \in Listing : calls'[t] = calls[t]
    <3>1. ~Changing(calls[s]) /\ Becomes(s, [op |-> "acted"])
      BY <2>2 DEF ActServed, Changing, Op
    <3> QED
      BY <3>1, ListingKept, OtherCalls
  <2> QED
    BY <2>1, <2>2
<1>3. PICK gone, new \in OnePath : gone \cup new # {} /\ Changes(gone, new)
  <2>1. CASE Outside
    BY <2>1 DEF Outside, OnePath
  <2>2. ASSUME NEW s \in Slots, ActServed(s)
        PROVE  \E gone, new \in OnePath : gone \cup new # {} /\ Changes(gone, new)
    <3>1. calls[s] \in ActCalls
      BY <2>2, CallKinds DEF ActServed, FolderShape
    <3> QED
      BY <2>2, <3>1 DEF ActServed, ActCalls
  <2> QED
    BY <2>1, <2>2
<1>4. calm' => calm /\ Subscribed
  BY <1>3 DEF Changes
<1>5. ASSUME Subscribed, NEW p, Due(p)
      PROVE  Due(p)'
  <2> DEFINE e == [path |-> CHOOSE q \in (IF new = {} THEN gone ELSE new) : TRUE,
                   old  |-> CHOOSE q \in (IF gone = {} THEN new ELSE gone) : TRUE]
  <2>1. events' = events \o [k \in 1..1 |-> e]
    BY <1>3, <1>5 DEF Changes
  <2> HIDE DEF e
  <2>2. /\ events \in Seq([path : Paths, old : Paths])
        /\ [k \in 1..1 |-> e] \in Seq({e}) /\ Len([k \in 1..1 |-> e]) = 1
    BY DEF FolderShape
  <2>3. \A k \in DOMAIN events : k \in DOMAIN events' /\ events'[k] = events[k]
    BY <2>1, <2>2
  <2>4. \A k \in DOMAIN events : Affects(events'[k], p) = Affects(events[k], p)
    BY <2>3
  <2>5. \A k : Affects(events[k], p)' = Affects(events'[k], p)
    BY DEF Affects, Parent, Within
  <2> QED
    BY <1>1, <1>5, <2>3, <2>4, <2>5 DEF Due
<1>6. ASSUME Subscribed, NEW p \in Paths
      PROVE  Due(p)' \/ Children(p)' = Children(p)
  BY <1>1, <1>3, <1>6, ChangeSeen
<1>7. /\ currentPath \in Paths
      /\ \A s \in Listing : calls[s].path \in Paths
  <2>1. currentPath \in Paths
    BY PathsAssumption DEF FolderShape, FolderTypeOK
  <2>2. \A s \in Listing : calls[s] \in LoadCalls \/ calls[s] \in MoreCalls
    BY CallKinds DEF Listing, FolderShape
  <2>3. \A s \in Listing : calls[s].path \in Dirs
    BY <2>2 DEF LoadCalls, MoreCalls
  <2> QED
    BY <2>1, <2>3, PathsAssumption
<1>8. \A s \in Listing : SameAnswer(calls[s], calls'[s])
  BY <1>2 DEF SameAnswer
<1> QED
  BY <1>1, <1>2, <1>4, <1>5, <1>6, <1>7, <1>8, ListKept

\* An event is read, or the reader ends.
LEMMA ListHears ==
  ASSUME FolderInv, EventRead \/ ReaderEnds
  PROVE  ShownOK'
<1> USE DEF FolderInv
<1>1. UNCHANGED <<fs, currentPath, url, more, cursor, user, entries, calls>>
  BY DEF EventRead, ReaderEnds, listVars
<1>2. /\ Listing' = Listing /\ \A s \in Listing : SameAnswer(calls[s], calls'[s])
      /\ \A p : Children(p)' = Children(p)
  BY <1>1, ListingIs, ChildrenSame DEF SameAnswer
<1>3. calm' => calm
  BY DEF EventRead, ReaderEnds
<1>4. ASSUME EventRead, calm', NEW p, Due(p),
             p = currentPath \/ \E s \in Listing : p = calls[s].path
      PROVE  Due(p)'
  <2>1. /\ events \in Seq([path : Paths, old : Paths]) /\ events # <<>>
        /\ events' = Tail(events)
    BY <1>4 DEF EventRead, FolderShape
  <2>2. /\ timer' = (timer \/ Affects(Head(events), currentPath))
        /\ calm' = (calm /\ \/ Affects(Head(events), currentPath)
                            \/ \A s \in Listing : ~Affects(Head(events), calls[s].path))
    BY <1>4 DEF EventRead
  <2>3. CASE timer'
    BY <2>3 DEF Due
  <2>4. CASE ~timer'
    <3>1. ~timer /\ ~Affects(Head(events), p)
      BY <1>4, <2>2, <2>4
    <3>2. PICK k \in DOMAIN events : Affects(events[k], p)
      BY <1>4, <3>1 DEF Due
    <3>3. k # 1
      BY <2>1, <3>1, <3>2
    <3>4. k - 1 \in DOMAIN Tail(events) /\ Tail(events)[k - 1] = events[k]
      BY <2>1, <3>3, HeadTailProperties
    <3>5. DueNext(p)
      BY <2>1, <3>2, <3>4 DEF DueNext
    <3> QED
      BY <3>5, NextDue
  <2> QED
    BY <2>3, <2>4
<1>5. ASSUME ReaderEnds, calm', NEW p, Due(p)
      PROVE  Due(p)'
  <2>1. UNCHANGED <<timer, events>>
    BY <1>5 DEF ReaderEnds
  <2> QED
    BY <1>5, <2>1, DueSame
<1> QED
  BY <1>1, <1>2, <1>3, <1>4, <1>5, ListKept

\* What is due remains due when a load has lost a part: the stream that is
\* started for a session is its first.
LEMMA EndsDue ==
  ASSUME SessionInv, FolderShape, StreamQuiet, NEW s \in Slots, Op(s, "load"),
         NEW d, d.then = calls[s].then, Ends(s, d), NEW p, Due(p)
  PROVE  Due(p)'
<1>1. CASE UNCHANGED <<streamVars, events>>
  BY <1>1, DueSame DEF streamVars
<1>2. CASE d.then = "enter"
  <2>1. EntryCall(calls[s])
    BY <1>2 DEF EntryCall, PageLoads, Op
  <2>2. ~timer /\ events = <<>>
    BY <2>1 DEF StreamQuiet, Subscribed, Live
  <2> QED
    BY <2>2 DEF Due
<1> QED
  BY <1>1, <1>2 DEF Ends

\* The tree arrives.
LEMMA ListBesideTree ==
  ASSUME FolderInv, NEW s \in Slots, TreeAnswers(s)
  PROVE  ShownOK'
<1> USE DEF FolderInv
<1> DEFINE c == calls[s]
<1>1. /\ UNCHANGED <<fs, currentPath, url, more, cursor, user, entries, calm>>
      /\ c.op = "load"
  BY DEF TreeAnswers, listVars, Op
<1>2. c \in LoadCalls
  BY CallKinds DEF TreeAnswers, FolderShape
<1>3. PICK d : d = [c EXCEPT !.tree = FALSE] /\ Ends(s, d)
  BY DEF TreeAnswers
<1>4. /\ d.op = c.op /\ d.path = c.path /\ d.push = c.push /\ d.list = c.list
      /\ d.page = c.page /\ d.then = c.then /\ ~d.tree
  BY <1>2, <1>3 DEF LoadCalls
<1>5. /\ \A t \in Slots : t # s => calls'[t] = calls[t]
      /\ \/ calls'[s] = d
         \/ calls'[s] = NoCall /\ d.list = "done"
  BY <1>3, BecomesCall DEF Ends, SessionInv
<1>6. Listing' = Listing
  <2>1. Changing(calls'[s]) <=> Changing(c)
    BY <1>1, <1>4, <1>5, OtherCalls DEF Changing
  <2> QED
    BY <1>5, <2>1, ListingIs
<1>7. \A t \in Listing : SameAnswer(calls[t], calls'[t])
  <2>1. s \in Listing => SameAnswer(calls[s], calls'[s])
    BY <1>1, <1>4, <1>5 DEF SameAnswer, Listing, Op
  <2>2. \A t \in Slots : t # s => SameAnswer(calls[t], calls'[t])
    BY <1>5 DEF SameAnswer
  <2> QED
    BY <2>1, <2>2 DEF Listing
<1>8. \A p : Children(p)' = Children(p)
  BY <1>1, ChildrenSame
<1>9. \A p : Due(p) => Due(p)'
  BY <1>1, <1>3, <1>4, EndsDue DEF TreeAnswers
<1> QED
  BY <1>1, <1>6, <1>7, <1>8, <1>9, ListKept

\* A load begins: of the folder in the address bar, or of one that will be.
LEMMA ListAsked ==
  ASSUME FolderInv, NEW s \in Slots, ~Changing(calls[s]), NEW p, NEW push, NEW tree,
         NEW then, BeginsLoad(s, Load(p, push, tree, then)),
         push \/ p = currentPath \/ p = url, UNCHANGED <<currentPath, url>>
  PROVE  ShownOK'
<1> USE DEF FolderInv
<1> DEFINE c == Load(p, push, tree, then)
<1>1. /\ c.op = "load" /\ c.path = p /\ c.push = push /\ c.list = "sent"
  BY DEF Load
<1>2. /\ calls'[s] = c /\ \A t \in Slots : t # s => calls'[t] = calls[t]
  BY BecomesCall DEF BeginsLoad, SessionInv
<1>3. calm' = IF Listing \ {s} # {} THEN FALSE ELSE calm \/ push \/ url = p
  BY <1>1 DEF BeginsLoad
<1>4. s \notin Listing
  BY ListingIs
<1> SUFFICES ASSUME calm'
             PROVE  ShownOK'
  BY DEF ShownOK
<1>5. Listing = {}
  BY <1>3, <1>4
<1>6. Listing' = {s}
  BY <1>1, <1>2, <1>5, ListingIs DEF Changing
<1>7. push \/ url = p
  BY <1>3, <1>5 DEF ShownOK, ScreenOK
<1>8. LoadOK(calls[s])'
  <2>1. LET d == calls'[s] IN /\ d.push \/ url' = d.path
                              /\ d.list # "served"
    BY <1>1, <1>2, <1>7
  <2> HIDE DEF c
  <2> QED
    BY <2>1, NextLoad
<1>9. ~Op(s, "more")'
  BY <1>1, <1>2 DEF Op
<1> QED
  BY <1>6, <1>8, <1>9 DEF ShownOK

\* All that begins a load.
LEMMA LoadBegins ==
  ASSUME FolderInv,
         \/ Navigate \/ Refresh \/ TimerFires
         \/ \E s \in Slots : Enters(s) \/ ActAnswers(s)
  PROVE  ShownOK'
<1>1. UNCHANGED <<currentPath, url>>
  BY DEF Navigate, Refresh, TimerFires, Enters, ActAnswers, listVars
<1>2. \A s \in FreeSlot : s \in Slots /\ ~Changing(calls[s])
  BY OtherCalls DEF FreeSlot
<1>3. CASE Navigate
  BY <1>1, <1>2, <1>3, ListAsked DEF Navigate
<1>4. CASE Refresh \/ TimerFires
  BY <1>1, <1>2, <1>4, ListAsked DEF Refresh, TimerFires
<1>5. ASSUME NEW s \in Slots, Enters(s)
      PROVE  ShownOK'
  <2>1. ~Changing(calls[s])
    BY <1>5 DEF Enters, Op, Changing
  <2>2. \/ BeginsLoad(s, Load(url, FALSE, TRUE, "enter"))
        \/ BeginsLoad(s, Load(Root, TRUE, TRUE, "enter"))
    BY <1>5 DEF Enters
  <2> QED
    BY <1>1, <2>1, <2>2, ListAsked
<1>6. ASSUME NEW s \in Slots, ActAnswers(s)
      PROVE  ShownOK'
  BY <1>1, <1>6, ListAsked DEF ActAnswers, Op, Changing
<1> QED
  BY <1>3, <1>4, <1>5, <1>6

\* The server reads a folder: the answer to the only load is its first page.
LEMMA LoadServed ==
  ASSUME FolderInv, NEW s \in Slots, ListServed(s)
  PROVE  ShownOK'
<1> USE DEF FolderInv
<1> DEFINE c == calls[s]
           page == Page(c.path, 0)
<1>1. UNCHANGED <<fs, currentPath, url, more, cursor, user, entries, timer, events, calm>>
  BY DEF ListServed, serverVars, listVars, streamVars
<1>2. c \in LoadCalls /\ c.op = "load" /\ c.list = "sent"
  BY CallKinds DEF ListServed, FolderShape, Op
<1>3. PICK d : d = [c EXCEPT !.list = "served", !.page = page] /\ Becomes(s, d)
  BY DEF ListServed
<1>4. /\ d.op = "load" /\ d.path = c.path /\ d.push = c.push /\ d.list = "served"
      /\ d.page = page
  <2> HIDE DEF page
  <2> QED BY <1>2, <1>3 DEF LoadCalls
<1>5. /\ calls'[s] = d /\ \A t \in Slots : t # s => calls'[t] = calls[t]
  BY <1>3, BecomesCall DEF SessionInv
<1>6. s \in Listing /\ Listing' = Listing
  BY <1>2, <1>4, <1>5, ListingIs DEF Changing
<1> SUFFICES ASSUME calm'
             PROVE  ShownOK'
  BY DEF ShownOK
<1>7. Listing = {s} /\ LoadOK(c)
  BY <1>1, <1>2, <1>6 DEF ShownOK, Op
<1>8. ListsFirst(page.list, page.more, page.cursor, Children(c.path))
  <2>1. fs \subseteq Paths
    BY DEF FolderShape, FolderTypeOK
  <2>2. Later(Children(c.path), 0) = Children(c.path)
    BY <2>1, ChildrenSiblings
  <2> QED
    BY <2>1, <2>2, PageLists
<1>9. LoadOK(calls[s])'
  <2>1. ChildrenNext(c.path) = Children(c.path)
    BY <1>1, ChildrenSame, NextDue
  <2>2. d.push \/ url' = d.path
    BY <1>1, <1>4, <1>7 DEF LoadOK
  <2>3. ListsFirst(d.page.list, d.page.more, d.page.cursor, ChildrenNext(d.path))
    BY <1>4, <1>8, <2>1
  <2> QED
    BY <1>5, <2>2, <2>3, NextLoad
<1>10. ~Op(s, "more")'
  BY <1>4, <1>5 DEF Op
<1> QED
  BY <1>6, <1>7, <1>9, <1>10 DEF ShownOK

\* It is shown.
LEMMA LoadShown ==
  ASSUME FolderInv, NEW s \in Slots, ListAnswers(s)
  PROVE  ShownOK'
<1> USE DEF FolderInv
<1> DEFINE c == calls[s]
<1>1. /\ UNCHANGED <<fs, user, calm>> /\ c.op = "load" /\ c.list = "served" /\ c.page.ok
      /\ currentPath' = c.path /\ entries' = c.page.list
      /\ more' = c.page.more /\ cursor' = c.page.cursor
      /\ url' = URLAfter(c)
  BY DEF ListAnswers, Op
<1>2. c \in LoadCalls
  BY CallKinds DEF ListAnswers, FolderShape
<1>3. PICK d : d = [c EXCEPT !.list = "done"] /\ Ends(s, d)
  BY DEF ListAnswers
<1>4. d.op = "load" /\ d.list = "done" /\ d.then = c.then
  BY <1>1, <1>2, <1>3 DEF LoadCalls
<1>5. /\ \A t \in Slots : t # s => calls'[t] = calls[t]
      /\ calls'[s] = d \/ calls'[s] = NoCall
  BY <1>3, BecomesCall DEF Ends, SessionInv
<1> SUFFICES ASSUME calm'
             PROVE  ShownOK'
  BY DEF ShownOK
<1>6. s \in Listing
  BY <1>1, ListingIs DEF Changing
<1>7. Listing = {s} /\ LoadOK(c)
  BY <1>1, <1>6 DEF ShownOK, Op
<1>8. Listing' = {}
  BY <1>4, <1>5, <1>7, ListingIs, OtherCalls DEF Changing
<1>9. ScreenOK'
  <2>1. url' = currentPath'
    BY <1>1, <1>7 DEF LoadOK, URLAfter
  <2>2. ChildrenNext(c.path) = Children(c.path)
    BY <1>1, ChildrenSame, NextDue
  <2>3. Due(c.path) => DueNext(c.path)
    BY <1>1, <1>3, <1>4, EndsDue, NextDue DEF Op
  <2>4. user => Due(c.path) \/ ListsFirst(entries', more', cursor', ChildrenNext(c.path))
    BY <1>1, <1>7, <2>2 DEF LoadOK
  <2> QED
    BY <1>1, <2>1, <2>3, <2>4, NextScreen
<1> QED
  BY <1>8, <1>9 DEF ShownOK

\* The next page is asked for.
LEMMA MoreAsked ==
  ASSUME FolderInv, LoadMore
  PROVE  ShownOK'
<1> USE DEF FolderInv
<1>1. /\ UNCHANGED <<fs, currentPath, url, more, cursor, user, entries, timer, events>>
      /\ user /\ more /\ calm' = (calm /\ Listing = {})
  BY DEF LoadMore, AtWork, serverVars, listVars, streamVars
<1> DEFINE c == [op |-> "more", path |-> currentPath, after |-> cursor,
                 served |-> FALSE, page |-> NoPage]
<1>2. PICK s \in Slots : Becomes(s, c)
  BY DEF LoadMore, FreeSlot
<1>3. /\ c.op = "more" /\ c.path = currentPath /\ c.after = cursor /\ ~c.served
  BY <1>2
<1>4. /\ calls'[s] = c /\ \A t \in Slots : t # s => calls'[t] = calls[t]
  BY <1>2, BecomesCall DEF SessionInv
<1> SUFFICES ASSUME calm'
             PROVE  ShownOK'
  BY DEF ShownOK
<1>5. Listing = {} /\ ScreenOK
  BY <1>1 DEF ShownOK
<1>6. Listing' = {s}
  BY <1>3, <1>4, <1>5, ListingIs DEF Changing
<1>7. MoreOK(calls[s])'
  <2>1. ChildrenNext(currentPath) = Children(currentPath)
    BY <1>1, ChildrenSame, NextDue
  <2>2. ~DueNext(currentPath) => ~Due(currentPath)
    BY <1>1, DueSame, NextDue
  <2>3. ~DueNext(currentPath) => ListsFirst(entries, more, cursor, Children(currentPath))
    BY <1>1, <1>5, <2>2 DEF ScreenOK
  <2>4. url = currentPath
    BY <1>5 DEF ScreenOK
  <2> QED
    BY <1>1, <1>3, <1>4, <2>1, <2>3, <2>4, NextMore
<1>8. ~Op(s, "load")'
  BY <1>3, <1>4 DEF Op
<1> QED
  BY <1>6, <1>7, <1>8 DEF ShownOK

\* The server reads the next page: what is behind the last name shown.
LEMMA NextServed ==
  ASSUME FolderInv, NEW s \in Slots, MoreServed(s)
  PROVE  ShownOK'
<1> USE DEF FolderInv
<1> DEFINE c == calls[s]
           page == Page(c.path, c.after)
<1>1. UNCHANGED <<fs, currentPath, url, more, cursor, user, entries, timer, events, calm>>
  BY DEF MoreServed, serverVars, listVars, streamVars
<1>2. c \in MoreCalls /\ c.op = "more"
  BY CallKinds DEF MoreServed, FolderShape, Op
<1>3. PICK d : d = [c EXCEPT !.served = TRUE, !.page = page] /\ Becomes(s, d)
  BY DEF MoreServed
<1>4. d.op = "more" /\ d.path = c.path /\ d.after = c.after /\ d.page = page
  <2> HIDE DEF page
  <2> QED BY <1>2, <1>3 DEF MoreCalls
<1>5. /\ calls'[s] = d /\ \A t \in Slots : t # s => calls'[t] = calls[t]
  BY <1>3, BecomesCall DEF SessionInv
<1>6. s \in Listing /\ Listing' = Listing
  BY <1>2, <1>4, <1>5, ListingIs DEF Changing
<1> SUFFICES ASSUME calm'
             PROVE  ShownOK'
  BY DEF ShownOK
<1>7. Listing = {s} /\ MoreOK(c)
  BY <1>1, <1>2, <1>6 DEF ShownOK, Op
<1>8. ListsFirst(page.list, page.more, page.cursor, Later(Children(c.path), c.after))
  <2>1. fs \subseteq Paths
    BY DEF FolderShape, FolderTypeOK
  <2> QED
    BY <2>1, PageLists
<1>9. MoreOK(calls[s])'
  <2>1. /\ ChildrenNext(currentPath) = Children(currentPath)
        /\ DueNext(currentPath) <=> Due(currentPath)
    BY <1>1, ChildrenSame, DueSame, NextDue
  <2>2. c.path = currentPath /\ url = currentPath /\ c.after = cursor
    BY <1>7 DEF MoreOK
  <2>3. user /\ ~Due(currentPath) =>
          more /\ ListsFirst(entries, more, cursor, Children(currentPath))
    BY <1>7 DEF MoreOK
  <2>4. ListsFirst(d.page.list, d.page.more, d.page.cursor,
              Later(ChildrenNext(currentPath), cursor))
    BY <1>4, <1>8, <2>1, <2>2
  <2> QED
    BY <1>1, <1>4, <1>5, <2>1, <2>2, <2>3, <2>4, NextMore
<1>10. ~Op(s, "load")'
  BY <1>4, <1>5 DEF Op
<1> QED
  BY <1>6, <1>7, <1>9, <1>10 DEF ShownOK

\* It is put behind the list.
LEMMA NextShown ==
  ASSUME FolderInv, NEW s \in Slots, MoreAnswers(s)
  PROVE  ShownOK'
<1> USE DEF FolderInv
<1> DEFINE c == calls[s]
<1>1. /\ UNCHANGED <<fs, currentPath, url, user, timer, events, calm>>
      /\ c.op = "more" /\ c.served /\ Becomes(s, NoCall)
  BY DEF MoreAnswers, Op, serverVars, streamVars
<1>2. /\ calls'[s] = NoCall /\ \A t \in Slots : t # s => calls'[t] = calls[t]
  BY <1>1, BecomesCall DEF SessionInv
<1> SUFFICES ASSUME calm'
             PROVE  ShownOK'
  BY DEF ShownOK
<1>3. s \in Listing
  BY <1>1, ListingIs DEF Changing
<1>4. Listing = {s} /\ MoreOK(c)
  BY <1>1, <1>3 DEF ShownOK, Op
<1>5. Listing' = {}
  BY <1>2, <1>4, ListingIs, OtherCalls
<1>6. ScreenOK'
  <2> DEFINE S == Children(currentPath)
  <2>1. ChildrenNext(currentPath) = S /\ (DueNext(currentPath) <=> Due(currentPath))
    BY <1>1, ChildrenSame, DueSame, NextDue
  <2>2. url = currentPath
    BY <1>4 DEF MoreOK
  <2>3. ASSUME user, ~Due(currentPath)
        PROVE  ListsFirst(entries', more', cursor', S)
    <3>1. more /\ ListsFirst(entries, more, cursor, S)
      BY <1>4, <2>3 DEF MoreOK
    <3>2. CASE UNCHANGED <<entries, more, cursor>>
      BY <3>1, <3>2
    <3>3. CASE /\ c.page.ok /\ entries' = entries \o c.page.list
               /\ more' = c.page.more /\ cursor' = c.page.cursor
      <4>1. ListsFirst(c.page.list, c.page.more, c.page.cursor, Later(S, cursor))
        BY <1>1, <1>4, <2>3, <3>3 DEF MoreOK
      <4>2. ListsFirst(entries, TRUE, cursor, S)
        BY <3>1 DEF ListsFirst
      <4>3. Siblings(S)
        BY ChildrenSiblings DEF FolderShape, FolderTypeOK
      <4> HIDE DEF S
      <4> QED
        BY <3>3, <4>1, <4>2, <4>3, ListsOn
    <3> QED
      BY <3>2, <3>3 DEF MoreAnswers
  <2> QED
    BY <1>1, <2>1, <2>2, <2>3, NextScreen
<1> QED
  BY <1>5, <1>6 DEF ShownOK

\* Every step keeps the folder on the screen in order.
LEMMA FolderKeeps ==
  ASSUME LogoutOnce, FolderInv, [FolderNext]_folderVars
  PROVE  FolderInv'
<1>1. SessionInv' /\ StreamQuiet'
  BY SessionStep, QuietStep DEF FolderInv
<1>2. CASE UNCHANGED folderVars
  <2>1. UNCHANGED <<fs, user, currentPath, entries, more, cursor, url, calls, events,
                    timer, calm>>
    BY <1>2 DEF folderVars, listVars, streamVars
  <2>2. FolderShape'
    BY <1>2 DEF FolderInv, FolderShape, FolderTypeOK, FolderCalls, folderVars, listVars,
                treeVars, streamVars
  <2>3. Listing' = Listing /\ \A s \in Listing : SameAnswer(calls[s], calls'[s])
    BY <2>1, ListingIs DEF SameAnswer
  <2>4. ShownOK'
    BY <2>1, <2>3, DueSame, ChildrenSame, ListKept DEF FolderInv
  <2> QED
    BY <1>1, <2>2, <2>4 DEF FolderInv
<1>3. CASE FolderNext
  <2>1. FolderShape'
    BY <1>3, UserShape, LoadShape, OtherShape
    DEF FolderNext, FolderAnswers, FolderStream, FolderInv
  <2>2. \A s \in Slots : ListFails(s) => ShownOK'
    BY DEF ListFails, ShownOK
  <2>3. FolderUser \/ TimerFires => ShownOK'
    BY ListAlone, LoadBegins, MoreAsked DEF FolderUser
  <2>4. ASSUME NEW s \in Slots,
               \/ Enters(s) \/ EntryFails(s) \/ LoggedOut(s)
               \/ ActServed(s) \/ ActAnswers(s) \/ ActFails(s)
        PROVE  ShownOK'
    BY <2>4, ListAlone, ListOutdated, LoadBegins
  <2>5. ASSUME NEW s \in Slots,
               \/ ListServed(s) \/ ListAnswers(s) \/ ListFails(s) \/ TreeAnswers(s)
               \/ MoreServed(s) \/ MoreAnswers(s)
        PROVE  ShownOK'
    BY <2>2, <2>5, ListBesideTree, LoadServed, LoadShown, NextServed, NextShown
  <2>6. StreamOpens \/ ReaderEnds \/ EventRead \/ Outside => ShownOK'
    BY ListAlone, ListHears, ListOutdated
  <2>7. ShownOK'
    BY <1>3, <2>3, <2>4, <2>5, <2>6 DEF FolderNext, FolderAnswers, FolderStream
  <2> QED
    BY <1>1, <2>1, <2>7 DEF FolderInv
<1> QED
  BY <1>2, <1>3

\* At the start nothing is shown, and the client is not calm.
LEMMA FolderBegins == FolderInit => FolderInv
<1> SUFFICES ASSUME FolderInit PROVE FolderInv
  OBVIOUS
<1>1. PICK t \in Slots :
        calls = [s \in Slots |-> IF s = t THEN [op |-> "me"] ELSE NoCall]
  BY DEF FolderInit
<1>2. FolderCalls
  <2>1. \A s \in Slots : CallOK(calls[s])
    BY <1>1, CallTypes DEF CallOK
  <2> QED
    BY <1>1, <2>1 DEF FolderCalls
<1>3. <<>> \in Seq(Paths \ {Root}) /\ Range(<<>>) = {}
  BY EmptySeq DEF Range
<1>4. <<>> \in Seq([path : Paths, old : Paths])
  BY EmptySeq
<1>5. FolderTypeOK
  <2>1. currentPath \in Dirs /\ url \in Dirs /\ openTree \subseteq Dirs
    BY PathsAssumption DEF FolderInit
  <2>2. conn \in [Readers -> {"free", "opening", "open", "aborted"}]
    BY DEF FolderInit
  <2>3. fs \subseteq Paths /\ Root \in fs
    BY DEF FolderInit
  <2> QED
    BY <1>3, <2>1, <2>2, <2>3 DEF FolderInit, FolderTypeOK
<1>6. FolderShape
  BY <1>2, <1>3, <1>4, <1>5 DEF FolderShape, FolderInit
<1>7. StreamQuiet
  BY DEF FolderInit, StreamQuiet, Live
<1>8. ShownOK
  BY DEF FolderInit, ShownOK
<1> QED
  BY <1>6, <1>7, <1>8, SessionInit DEF FolderInv

\* A list that holds the first entries of a folder begins with its first page.
LEMMA BeginsWithPage ==
  ASSUME fs \subseteq Paths, NEW d, NEW list, NEW rest, NEW last,
         ListsFirst(list, rest, last, Children(d))
  PROVE  LET now == Page(d, 0).list IN
         Len(list) >= Len(now) /\ SubSeq(list, 1, Len(now)) = now
<1> DEFINE S == Children(d)
           page == Page(d, 0)
           now == page.list
<1>1. Siblings(S) /\ S = Later(S, 0)
  BY ChildrenSiblings
<1>2. /\ ListsFirst(now, page.more, page.cursor, S) /\ Len(now) <= PageSize
      /\ page.more \/ Len(now) = Cardinality(S)
  BY <1>1, PageLists
<1> HIDE DEF S, page
<1>3. InOrder(list, S) /\ InOrder(now, S)
  BY <1>2 DEF ListsFirst, S
<1>4. /\ list \in Seq(S) /\ now \in Seq(S)
      /\ Len(list) \in Nat /\ Len(now) \in Nat /\ PageSize \in Nat
      /\ Cardinality(S) \in Nat
  BY <1>1, <1>3, PageAssumption, FS_CardinalityType DEF InOrder, Siblings
<1>5. Len(list) >= Len(now)
  <2>1. CASE rest
    BY <1>2, <1>4, <2>1 DEF ListsFirst
  <2>2. CASE ~rest
    BY <1>2, <1>4, <2>2 DEF ListsFirst, S
  <2> QED
    BY <2>1, <2>2
<1>6. /\ SubSeq(list, 1, Len(now)) \in Seq(S)
      /\ Len(SubSeq(list, 1, Len(now))) = Len(now)
      /\ \A k \in 1..Len(now) : SubSeq(list, 1, Len(now))[k] = list[k]
  BY <1>4, <1>5
<1>7. \A k \in 1..Len(now) : list[k] = now[k]
  BY <1>1, <1>3, <1>4, <1>5, InOrderSame
<1>8. SubSeq(list, 1, Len(now)) = now
  BY <1>4, <1>6, <1>7, SeqEqual
<1> QED
  BY <1>5, <1>8 DEF page

\* What the screen shows when all is answered.
LEMMA ShownAtRest == FolderInv => AtRestShown
<1> SUFFICES ASSUME FolderInv, Resting, calm, currentPath \in fs
             PROVE  /\ LET now == Page(currentPath, 0).list IN
                       /\ Len(entries) >= Len(now) /\ SubSeq(entries, 1, Len(now)) = now
                       /\ Range(entries) \subseteq Children(currentPath)
                       /\ more <=> Len(entries) < Cardinality(Children(currentPath))
                    /\ url = currentPath
                    /\ currentPath # Root /\ Ancestors(currentPath) \subseteq openTree
                         => currentPath \in TreeRows
  BY DEF AtRestShown
<1>1. Listing = {}
  BY OtherCalls, ListingIs DEF Resting
<1>2. ScreenOK
  BY <1>1 DEF FolderInv, ShownOK
<1>3. ~Due(currentPath)
  BY DEF Resting, Due
<1>4. ListsFirst(entries, more, cursor, Children(currentPath))
  BY <1>2, <1>3 DEF ScreenOK, Resting, AtWork
<1>5. LET now == Page(currentPath, 0).list IN
      Len(entries) >= Len(now) /\ SubSeq(entries, 1, Len(now)) = now
  BY <1>4, BeginsWithPage DEF FolderInv, FolderShape, FolderTypeOK
<1>6. Range(entries) \subseteq Children(currentPath)
  BY <1>4, RangeSeq DEF ListsFirst, InOrder
<1>7. more <=> Len(entries) < Cardinality(Children(currentPath))
  BY <1>4 DEF ListsFirst
<1>8. ASSUME currentPath # Root, Ancestors(currentPath) \subseteq openTree
      PROVE  currentPath \in TreeRows
  <2>1. \A d \in Ancestors(currentPath) \cup {currentPath} :
          d # Root => d \in TreeFolders
    BY DEF TreeFolders, Fallback
  <2> QED
    BY <1>8, <2>1 DEF TreeRows
<1>9. url = currentPath
  BY <1>2 DEF ScreenOK
<1> QED
  BY <1>5, <1>6, <1>7, <1>8, <1>9

\* When all is answered and nothing got past the client, the screen shows the
\* current folder as it is on the server, whoever changed it in the meantime.
THEOREM ScreenCurrent ==
  ASSUME LogoutOnce
  PROVE  FolderSpec => []AtRestShown
BY FolderBegins, FolderKeeps, ShownAtRest, PTL DEF FolderSpec
=============================================================================
