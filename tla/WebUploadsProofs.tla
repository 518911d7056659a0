-------------------------- MODULE WebUploadsProofs --------------------------
(***************************************************************************)
(* Proofs about WebUploads: what is shown of the queue and the chains of   *)
(* awaits that work on it agree, an item that is shown as done has been    *)
(* received, and the server the queue talks to keeps UploadPromise.        *)
(***************************************************************************)
EXTENDS WebUploads, FiniteSetTheorems, WellFoundedInduction, TLAPS

-----------------------------------------------------------------------------
(* Enumerations *)

\* Induction over the subsets of a finite set: a family of them has a smallest member.
LEMMA SmallestSubset ==
  ASSUME NEW S, IsFiniteSet(S), NEW F \in SUBSET (SUBSET S), F # {}
  PROVE  \E T \in F : \A U \in F : U \subseteq T => U = T
<1>1. F \subseteq FiniteSubsetsOf(S)
  BY FS_FiniteSubsetsOfFinite
<1>2. IsWellFoundedOn(StrictSubsetOrdering(S), FiniteSubsetsOf(S))
  BY FS_StrictSubsetOrderingWellFounded
<1>3. PICK T \in F : \A U \in F : ~ (<<U, T>> \in StrictSubsetOrdering(S))
  BY <1>1, <1>2, WFMin
<1>4. \A U \in F : U \subseteq T => U = T
  BY <1>3 DEF StrictSubsetOrdering
<1> QED
  BY <1>4

\* One of the elements of a finite set has the lowest key.
Lowest(T, key) == \E m \in T : \A x \in T : key[m] <= key[x]

\* In a finite set that is not empty one element has the lowest key.
LEMMA LowestKey ==
  ASSUME NEW S, IsFiniteSet(S), S # {}, NEW key \in [S -> Nat]
  PROVE  Lowest(S, key)
<1>1. ASSUME NEW F, F = {T \in SUBSET S : T # {} /\ ~Lowest(T, key)}, F # {}
      PROVE  FALSE
  <2>1. PICK T \in F : \A U \in F : U \subseteq T => U = T
    BY <1>1, SmallestSubset
  <2>2. T \subseteq S /\ T # {} /\ ~Lowest(T, key)
    BY <1>1
  <2>3. PICK y \in T : TRUE
    BY <2>2
  <2>4. T \ {y} \notin F
    BY <2>1, <2>3
  <2>5. CASE T = {y}
    <3>1. key[y] \in Nat
      BY <2>2, <2>3
    <3> QED
      BY <2>2, <2>5, <3>1 DEF Lowest
  <2>6. CASE Lowest(T \ {y}, key)
    <3>1. PICK m \in T \ {y} : \A x \in T \ {y} : key[m] <= key[x]
      BY <2>6 DEF Lowest
    <3>2. \A x \in T : key[x] \in Nat
      BY <2>2
    <3>3. CASE key[m] <= key[y]
      BY <2>2, <3>1, <3>3 DEF Lowest
    <3>4. CASE key[y] < key[m]
      <4>1. \A x \in T : key[y] <= key[x]
        BY <3>1, <3>2, <3>4
      <4> QED
        BY <2>2, <4>1 DEF Lowest
    <3> QED
      BY <3>2, <3>3, <3>4
  <2> QED
    BY <1>1, <2>2, <2>4, <2>5, <2>6
<1> QED
  BY <1>1

\* The elements of a finite set, each once, by ascending key.
Lists(f, n, T, key) ==
  /\ f \in [1..n -> T]
  /\ \A i, j \in 1..n : i < j => key[f[i]] <= key[f[j]]
  /\ \A i, j \in 1..n : f[i] = f[j] => i = j
  /\ \A x \in T : \E i \in 1..n : f[i] = x

\* An enumeration of the rest gives one of the whole set.
LEMMA ListWithLowest ==
  ASSUME NEW T, NEW key \in [T -> Nat], NEW m \in T, \A x \in T : key[m] <= key[x],
         NEW n \in Nat, NEW g, Lists(g, n, T \ {m}, key),
         NEW f, f = [i \in 1..(n + 1) |-> IF i = 1 THEN m ELSE g[i - 1]]
  PROVE  Lists(f, n + 1, T, key)
<1> USE DEF Lists
<1>1. \A i \in 1..(n + 1) :
        i # 1 => i - 1 \in 1..n /\ f[i] = g[i - 1] /\ f[i] \in T \ {m}
  OBVIOUS
<1>2. f[1] = m /\ f \in [1..(n + 1) -> T]
  BY <1>1
<1>3. ASSUME NEW i \in 1..(n + 1), NEW j \in 1..(n + 1), i < j
      PROVE  key[f[i]] <= key[f[j]] /\ f[i] # f[j]
  <2>1. j # 1 /\ f[j] \in T \ {m}
    BY <1>1, <1>3
  <2>2. CASE i = 1
    BY <1>2, <2>1, <2>2
  <2>3. CASE i # 1
    <3>1. i - 1 \in 1..n /\ j - 1 \in 1..n /\ i - 1 < j - 1
      BY <1>1, <1>3, <2>1, <2>3
    <3>2. key[g[i - 1]] <= key[g[j - 1]] /\ g[i - 1] # g[j - 1]
      BY <3>1
    <3> QED
      BY <1>1, <2>1, <2>3, <3>2
  <2> QED
    BY <2>2, <2>3
<1>4. ASSUME NEW i \in 1..(n + 1), NEW j \in 1..(n + 1), f[i] = f[j]
      PROVE  i = j
  BY <1>3, <1>4
<1>5. ASSUME NEW x \in T PROVE \E i \in 1..(n + 1) : f[i] = x
  <2>1. CASE x = m
    BY <1>2, <2>1
  <2>2. CASE x # m
    <3>1. PICK i \in 1..n : g[i] = x
      BY <2>2
    <3>2. i + 1 \in 1..(n + 1) /\ i + 1 # 1 /\ (i + 1) - 1 = i
      OBVIOUS
    <3> QED
      BY <1>1, <3>1, <3>2
  <2> QED
    BY <2>1, <2>2
<1> QED
  BY <1>2, <1>3, <1>4, <1>5

HasList(T, key) == \E f : Lists(f, Cardinality(T), T, key)

\* Every finite set has an enumeration by its keys (by smallest
\* counterexample: no induction theorem is needed).
LEMMA ListedByKey ==
  ASSUME NEW S, IsFiniteSet(S), NEW key \in [S -> Nat]
  PROVE  HasList(S, key)
<1>1. ASSUME NEW F, F # {}, F = {T \in SUBSET S : ~HasList(T, key)}
      PROVE  FALSE
  <2>1. PICK T \in F : \A U \in F : U \subseteq T => U = T
    BY <1>1, SmallestSubset
  <2>2. T \subseteq S /\ ~HasList(T, key)
    BY <1>1
  <2>3. IsFiniteSet(T)
    BY <2>2, FS_Subset
  <2>4. T # {}
    <3>1. Lists([i \in 1..0 |-> i], 0, {}, key)
      BY DEF Lists
    <3> QED
      BY <2>2, <3>1, FS_EmptySet DEF HasList
  <2>5. PICK k \in [T -> Nat] : \A x \in T : k[x] = key[x]
    <3>1. [x \in T |-> key[x]] \in [T -> Nat]
      BY <2>2
    <3> QED
      BY <3>1
  <2>6. Lowest(T, k)
    BY <2>3, <2>4, LowestKey
  <2>7. PICK m \in T : \A x \in T : k[m] <= k[x]
    BY <2>6 DEF Lowest
  <2>8. PICK U : U = T \ {m}
    OBVIOUS
  <2>9. IsFiniteSet(U) /\ Cardinality(U) = Cardinality(T) - 1
    BY <2>3, <2>7, <2>8, FS_RemoveElement
  <2>10. Cardinality(U) \in Nat /\ Cardinality(T) = Cardinality(U) + 1
    BY <2>3, <2>9, FS_CardinalityType
  <2>11. U \in SUBSET S /\ U \notin F
    BY <2>1, <2>2, <2>7, <2>8
  <2>12. PICK g : Lists(g, Cardinality(U), U, key)
    BY <1>1, <2>11 DEF HasList
  <2>13. Lists(g, Cardinality(U), U, k)
    BY <2>5, <2>8, <2>10, <2>12 DEF Lists
  <2>14. PICK f : f = [i \in 1..(Cardinality(U) + 1) |-> IF i = 1 THEN m ELSE g[i - 1]]
    OBVIOUS
  <2>15. Lists(f, Cardinality(U) + 1, T, k)
    BY <2>7, <2>8, <2>10, <2>13, <2>14, ListWithLowest
  <2>16. Lists(f, Cardinality(U) + 1, T, key)
    BY <2>5, <2>10, <2>15 DEF Lists
  <2> QED
    BY <2>2, <2>10, <2>16 DEF HasList
<1> QED
  BY <1>1

\* Some of the numbers of a finite set, in ascending order.
LEMMA SomeInOrder ==
  ASSUME NEW S \in SUBSET Nat, IsFiniteSet(S), NEW n \in Nat, n <= Cardinality(S)
  PROVE  \E s \in [1..n -> S] : \A j, k \in 1..n : j < k => s[j] < s[k]
<1>1. PICK key \in [S -> Nat] : \A x \in S : key[x] = x
  <2>1. [x \in S |-> x] \in [S -> Nat]
    OBVIOUS
  <2> QED
    BY <2>1
<1>2. Cardinality(S) \in Nat
  BY FS_CardinalityType
<1>3. PICK f : Lists(f, Cardinality(S), S, key)
  BY <1>1, ListedByKey DEF HasList
<1>4. PICK s : s = [k \in 1..n |-> f[k]]
  OBVIOUS
<1>5. \A k \in 1..n : k \in 1..Cardinality(S)
  BY <1>2
<1>6. s \in [1..n -> S]
  BY <1>3, <1>4, <1>5 DEF Lists
<1>7. ASSUME NEW j \in 1..n, NEW k \in 1..n, j < k PROVE s[j] < s[k]
  <2>1. key[f[j]] <= key[f[k]] /\ f[j] # f[k] /\ f[j] \in S /\ f[k] \in S
    BY <1>3, <1>5, <1>7 DEF Lists
  <2>2. f[j] <= f[k] /\ f[j] \in Nat /\ f[k] \in Nat
    BY <1>1, <2>1
  <2> QED
    BY <1>4, <2>1, <2>2
<1> QED
  BY <1>6, <1>7

\* What is left of a sequence behind its head.
LEMMA TailOf ==
  ASSUME NEW S, NEW s \in Seq(S), s # <<>>
  PROVE  /\ Head(s) = s[1] /\ Head(s) \in S
         /\ Tail(s) \in Seq(S) /\ Len(s) \in Nat \ {0} /\ Len(Tail(s)) = Len(s) - 1
         /\ \A k \in 1..(Len(s) - 1) : Tail(s)[k] = s[k + 1]
OBVIOUS

\* The end of a finite list.
LEMMA EndOf ==
  ASSUME NEW S, NEW n \in Nat, NEW s \in [1..n -> S], NEW w \in Nat, w <= n
  PROVE  /\ SubSeq(s, w + 1, n) \in Seq(S)
         /\ Len(SubSeq(s, w + 1, n)) = n - w
         /\ \A k \in 1..(n - w) : SubSeq(s, w + 1, n)[k] = s[w + k]
<1>1. s \in Seq(S) /\ Len(s) = n
  OBVIOUS
<1>2. SubSeq(s, w + 1, n) = [k \in 1..(n - w) |-> s[w + k]]
  BY <1>1
<1> QED
  BY <1>1, <1>2
-----------------------------------------------------------------------------
(* The inductive invariant *)

ItemSet ==
  [st : {"absent", "queued", "uploading", "done", "error"},
   file : BOOLEAN, url : Uploads \cup {None}, attempts : 0..uploadMaxAttempts]

TaskSet ==
  [item : Items \cup {None}, batch : Tasks \cup {None},
   step : {"free", "create", "patch", "head", "part", "whole", "wait"},
   up : Uploads \cup {None}, attempt : 0..uploadMaxAttempts]

ChainsTyped ==
  /\ queue \in [Items -> ItemSet] /\ task \in [Tasks -> TaskSet]
  /\ DOMAIN rest = Tasks /\ (\A b \in Tasks : rest[b] \in Seq(Items))
  /\ sent \subseteq Uploads

Busy(t) == task[t].step # "free"

\* A chain works on an item that is shown as uploading, and counts its
\* attempts at least as far as the item does; with the last one it is over.
TaskRight(t) ==
  /\ ~Busy(t) => task[t].item = None /\ task[t].batch = None
  /\ Busy(t) =>
       /\ task[t].item # None
       /\ queue[task[t].item].st = "uploading"
       /\ queue[task[t].item].attempts <= task[t].attempt
       /\ Waits(t, "wait") => task[t].attempt < uploadMaxAttempts

\* No two chains work on one item.
OneEach ==
  \A t, s \in Tasks : Busy(t) /\ Busy(s) /\ task[t].item = task[s].item => t = s

\* What a batch still has to do is shown as queued and is not tried yet, and
\* one of its workers is left.
PlaceRight(b, k) ==
  /\ queue[rest[b][k]].st = "queued" /\ queue[rest[b][k]].attempts = 0
  /\ \E t \in Tasks : task[t].batch = b

RestRight == \A b \in Tasks : \A k \in 1..Len(rest[b]) : PlaceRight(b, k)

\* No item is left to two batches, or twice to one.
ListedOnce ==
  \A b, c \in Tasks : \A k \in 1..Len(rest[b]), m \in 1..Len(rest[c]) :
    rest[b][k] = rest[c][m] => b = c /\ k = m

\* Nobody has forgotten an item.
NoneForgotten ==
  \A i \in Items :
    /\ queue[i].st = "uploading" => \E t \in Tasks : Holds(t, i)
    /\ queue[i].st = "queued" => \E b \in Tasks : Listed(b, i)

ChainsInv ==
  /\ ChainsTyped /\ (\A t \in Tasks : TaskRight(t)) /\ OneEach
  /\ RestRight /\ ListedOnce /\ NoneForgotten

\* A call other than POST is for an upload.
UploadKnown ==
  \A t \in Tasks :
    task[t].step \in {"patch", "head", "part", "whole"} => task[t].up # None

\* The upload is kept with the item, or a chain works on it for the item.
For(u, i) ==
  queue[i].url = u \/ \E t \in Tasks : task[t].up = u /\ task[t].item = i

\* An upload is for one item, whose size it has, and has been accepted.
ForOne ==
  \A u \in Uploads, i \in Items :
    For(u, i) =>
      /\ Length[u] = Size[i] /\ status[u] # "none"
      /\ \A j \in Items : For(u, j) => j = i

\* What the server has called whole, and what is shown as done, is received.
WholeRight == \A t \in Tasks : Waits(t, "whole") => task[t].up \in received
DoneRight == \A i \in Items : queue[i].st = "done" => queue[i].url \in received

UploadsRight == UploadKnown /\ ForOne /\ WholeRight /\ DoneRight

\* The server: what it has had every byte of is remembered as received.
ServerRight ==
  /\ status \in [Uploads -> {"none", "open", "done", "gone", "forgotten"}]
  /\ got \in [Uploads -> Nat] /\ received \subseteq Uploads
  /\ \A u \in Uploads :
       /\ got[u] <= Length[u]
       /\ status[u] = "open" /\ got[u] = Length[u] => u \in received
       /\ status[u] = "done" => u \in received
       /\ status[u] # "none" /\ Length[u] = 0 => u \in received

ReceivedInv == ChainsInv /\ UploadsRight /\ ServerRight


-----------------------------------------------------------------------------
(* Types *)

\* The types of the queue, as the steps use them.
LEMMA Types ==
  ChainsTyped <=>
    /\ queue \in [Items -> ItemSet] /\ task \in [Tasks -> TaskSet]
    /\ DOMAIN rest = Tasks /\ (\A b \in Tasks : rest[b] \in Seq(Items))
    /\ sent \subseteq Uploads
BY DEF ChainsTyped

\* The same of the next state.
LEMMA TypesNext ==
  ASSUME queue' \in [Items -> ItemSet], task' \in [Tasks -> TaskSet],
         DOMAIN rest' = Tasks, \A b \in Tasks : rest'[b] \in Seq(Items),
         sent' \subseteq Uploads
  PROVE  ChainsTyped'
BY DEF ChainsTyped

\* The items and chains that the steps make have their types.
LEMMA FixedTypes ==
  /\ NoItem \in ItemSet /\ NewItem \in ItemSet
  /\ FreeTask \in TaskSet
  /\ \A it \in ItemSet :
       it.attempts < uploadMaxAttempts =>
         /\ Begun(it) \in ItemSet /\ Begun(it).st = "uploading"
         /\ Begun(it).attempts = it.attempts + 1 /\ Begun(it).url = it.url
  /\ \A b \in Tasks \cup {None}, i \in Items, a \in 0..uploadMaxAttempts :
       Creating(b, i, a) \in TaskSet
<1>1. uploadMaxAttempts \in Nat \ {0}
  BY AttemptsAssumption
<1>2. NoItem \in ItemSet /\ NewItem \in ItemSet
  BY <1>1 DEF NoItem, NewItem, ItemSet
<1>3. FreeTask \in TaskSet
  BY <1>1 DEF FreeTask, TaskSet
<1>4. ASSUME NEW it \in ItemSet, it.attempts < uploadMaxAttempts
      PROVE  /\ Begun(it) \in ItemSet /\ Begun(it).st = "uploading"
             /\ Begun(it).attempts = it.attempts + 1 /\ Begun(it).url = it.url
  <2>1. it.attempts \in Nat /\ it.attempts + 1 \in 0..uploadMaxAttempts
    BY <1>1, <1>4 DEF ItemSet
  <2> QED
    BY <2>1 DEF Begun, ItemSet
<1>5. ASSUME NEW b \in Tasks \cup {None}, NEW i \in Items,
             NEW a \in 0..uploadMaxAttempts
      PROVE  Creating(b, i, a) \in TaskSet
  BY DEF Creating, TaskSet
<1> QED
  BY <1>2, <1>3, <1>4, <1>5

\* At the start no chain runs.
LEMMA ChainsInit == UploadsInit => ChainsInv
<1> SUFFICES ASSUME UploadsInit PROVE ChainsInv
  OBVIOUS
<1>1. /\ queue = [i \in Items |-> NoItem] /\ rest = [b \in Tasks |-> <<>>]
      /\ task = [t \in Tasks |-> FreeTask] /\ sent = {}
  BY DEF UploadsInit
<1>2. ChainsTyped
  BY <1>1, FixedTypes, Types
<1>3. /\ \A t \in Tasks : task[t] = FreeTask /\ ~Busy(t) /\ TaskRight(t)
      /\ \A i \in Items : queue[i].st = "absent"
  BY <1>1 DEF FreeTask, NoItem, TaskRight, Busy
<1>4. \A b \in Tasks : rest[b] = <<>> /\ Len(rest[b]) = 0
  BY <1>1
<1> QED
  BY <1>2, <1>3, <1>4 DEF ChainsInv, OneEach, RestRight, ListedOnce, NoneForgotten

-----------------------------------------------------------------------------
(* A chain goes on *)

\* A chain that stays with its item, in whatever step.
LEMMA ChainStays ==
  ASSUME ChainsInv, NEW t \in Tasks, Busy(t), sent' \subseteq Uploads, rest' = rest,
         NEW c \in TaskSet, task' = [task EXCEPT ![t] = c],
         c.step # "free", c.item = task[t].item, c.batch = task[t].batch,
         c.step = "wait" => c.attempt < uploadMaxAttempts,
         NEW it \in ItemSet, it.st = "uploading", it.attempts <= c.attempt,
         NEW i, i = task[t].item, queue' = [queue EXCEPT ![i] = it]
  PROVE  ChainsInv'
<1>1. /\ queue \in [Items -> ItemSet] /\ task \in [Tasks -> TaskSet]
      /\ DOMAIN rest = Tasks /\ (\A b \in Tasks : rest[b] \in Seq(Items))
  BY Types DEF ChainsInv
<1>2. i \in Items /\ queue[i].st = "uploading"
  BY <1>1 DEF ChainsInv, TaskRight, TaskSet
<1>3. /\ task'[t] = c /\ (\A s \in Tasks \ {t} : task'[s] = task[s])
      /\ queue'[i] = it /\ (\A j \in Items \ {i} : queue'[j] = queue[j])
  BY <1>1, <1>2
<1>4. ChainsTyped'
  BY <1>1, TypesNext
<1>5. ASSUME NEW s \in Tasks PROVE TaskRight(s)'
  <2>1. CASE s = t
    BY <1>2, <1>3, <2>1, NoneAssumption DEF TaskRight, Busy, Waits
  <2>2. CASE s # t /\ Busy(s)
    <3>1. task[s].item \in Items \ {i}
      BY <1>1, <2>2 DEF ChainsInv, OneEach, TaskRight, TaskSet
    <3> QED
      BY <1>3, <2>2, <3>1 DEF ChainsInv, TaskRight, Busy, Waits
  <2>3. CASE s # t /\ ~Busy(s)
    BY <1>3, <2>3 DEF ChainsInv, TaskRight, Busy, Waits
  <2> QED
    BY <2>1, <2>2, <2>3
<1>6. OneEach'
  <2>1. \A s \in Tasks :
          Busy(s)' <=> Busy(s)
    BY <1>3 DEF Busy
  <2>2. \A s \in Tasks : task'[s].item = task[s].item
    BY <1>3
  <2> QED
    BY <2>1, <2>2 DEF ChainsInv, OneEach
<1>7. RestRight'
  <2>1. \A s \in Tasks : task'[s].batch = task[s].batch
    BY <1>3
  <2>2. ASSUME NEW b \in Tasks, NEW k \in 1..Len(rest[b]) PROVE PlaceRight(b, k)'
    <3>1. PlaceRight(b, k) /\ rest[b][k] \in Items
      BY <1>1 DEF ChainsInv, RestRight
    <3>2. rest[b][k] # i
      BY <1>2, <3>1 DEF PlaceRight
    <3> QED
      BY <1>3, <2>1, <3>1, <3>2 DEF PlaceRight
  <2> QED
    BY <2>2 DEF RestRight
<1>8. ListedOnce'
  BY DEF ChainsInv, ListedOnce
<1>9. NoneForgotten'
  <2>1. ASSUME NEW j \in Items
        PROVE  /\ queue'[j].st = "uploading" => \E s \in Tasks : Holds(s, j)'
               /\ queue'[j].st = "queued" => \E b \in Tasks : Listed(b, j)'
    <3>1. Holds(t, i)' /\ (\A s \in Tasks : Holds(s, j) => Holds(s, j)')
      BY <1>3 DEF Holds
    <3>2. \A b \in Tasks : Listed(b, j) => Listed(b, j)'
      BY DEF Listed
    <3>3. queue'[i].st = "uploading"
      BY <1>3
    <3> QED
      BY <1>3, <3>1, <3>2, <3>3 DEF ChainsInv, NoneForgotten
  <2> QED
    BY <2>1 DEF NoneForgotten
<1> QED
  BY <1>4, <1>5, <1>6, <1>7, <1>8, <1>9 DEF ChainsInv

\* The last item of a batch, or a retry: the chain ends.
LEMMA ChainEnds ==
  ASSUME ChainsInv, NEW t \in Tasks, Busy(t), sent' \subseteq Uploads, rest' = rest,
         task[t].batch = None \/ rest[task[t].batch] = <<>>,
         task' = [task EXCEPT ![t] = FreeTask],
         NEW it \in ItemSet, it.st \in {"done", "error"},
         NEW i, i = task[t].item, queue' = [queue EXCEPT ![i] = it]
  PROVE  ChainsInv'
<1>1. /\ queue \in [Items -> ItemSet] /\ task \in [Tasks -> TaskSet]
      /\ DOMAIN rest = Tasks /\ (\A b \in Tasks : rest[b] \in Seq(Items))
  BY Types DEF ChainsInv
<1>2. i \in Items /\ queue[i].st = "uploading"
  BY <1>1 DEF ChainsInv, TaskRight, TaskSet
<1>3. /\ task'[t] = FreeTask /\ (\A s \in Tasks \ {t} : task'[s] = task[s])
      /\ queue'[i] = it /\ (\A j \in Items \ {i} : queue'[j] = queue[j])
  BY <1>1, <1>2
<1>4. ChainsTyped'
  BY <1>1, FixedTypes, TypesNext
<1>5. ~Busy(t)' /\ (\A s \in Tasks \ {t} : Busy(s)' <=> Busy(s))
  BY <1>3 DEF Busy, FreeTask
<1>6. ASSUME NEW s \in Tasks PROVE TaskRight(s)'
  <2>1. CASE s = t
    BY <1>3, <1>5, <2>1 DEF TaskRight, FreeTask
  <2>2. CASE s # t /\ Busy(s)
    <3>1. task[s].item \in Items \ {i}
      BY <1>1, <2>2 DEF ChainsInv, OneEach, TaskRight, TaskSet
    <3> QED
      BY <1>3, <2>2, <3>1 DEF ChainsInv, TaskRight, Busy, Waits
  <2>3. CASE s # t /\ ~Busy(s)
    BY <1>3, <2>3 DEF ChainsInv, TaskRight, Busy, Waits
  <2> QED
    BY <2>1, <2>2, <2>3
<1>7. OneEach'
  BY <1>3, <1>5 DEF ChainsInv, OneEach
<1>8. RestRight'
  <2>1. ASSUME NEW b \in Tasks, NEW k \in 1..Len(rest[b]) PROVE PlaceRight(b, k)'
    <3>1. PlaceRight(b, k) /\ rest[b][k] \in Items
      BY <1>1 DEF ChainsInv, RestRight
    <3>2. rest[b][k] # i
      BY <1>2, <3>1 DEF PlaceRight
    <3>3. PICK s \in Tasks : task[s].batch = b
      BY <3>1 DEF PlaceRight
    <3>4. s # t
      <4>1. rest[b] # <<>>
        BY <1>1
      <4> QED
        BY <3>3, <4>1, NoneAssumption
    <3> QED
      BY <1>3, <3>1, <3>2, <3>3, <3>4 DEF PlaceRight
  <2> QED
    BY <2>1 DEF RestRight
<1>9. ListedOnce'
  BY DEF ChainsInv, ListedOnce
<1>10. NoneForgotten'
  <2>1. ASSUME NEW j \in Items
        PROVE  /\ queue'[j].st = "uploading" => \E s \in Tasks : Holds(s, j)'
               /\ queue'[j].st = "queued" => \E b \in Tasks : Listed(b, j)'
    <3>1. CASE j = i
      BY <1>3, <3>1
    <3>2. CASE j # i
      <4>1. \A s \in Tasks : Holds(s, j) => Holds(s, j)'
        BY <1>3, <3>2 DEF Holds
      <4>2. \A b \in Tasks : Listed(b, j) => Listed(b, j)'
        BY DEF Listed
      <4> QED
        BY <1>3, <3>2, <4>1, <4>2 DEF ChainsInv, NoneForgotten
    <3> QED
      BY <3>1, <3>2
  <2> QED
    BY <2>1 DEF NoneForgotten
<1> QED
  BY <1>4, <1>6, <1>7, <1>8, <1>9, <1>10 DEF ChainsInv

\* Where an item of batch b was listed before its first one was taken.
LEMMA OneTaken ==
  ASSUME ChainsInv, NEW b \in Tasks, rest[b] # <<>>,
         rest' = [rest EXCEPT ![b] = Tail(@)]
  PROVE  /\ Head(rest[b]) = rest[b][1] /\ 1 \in 1..Len(rest[b])
         /\ DOMAIN rest' = Tasks /\ (\A c \in Tasks : rest'[c] \in Seq(Items))
         /\ \A c \in Tasks : \A k \in 1..Len(rest'[c]) :
              \E m \in 1..Len(rest[c]) :
                /\ rest'[c][k] = rest[c][m]
                /\ m = IF c = b THEN k + 1 ELSE k
         /\ \A c \in Tasks : \A k \in 1..Len(rest[c]) :
              c # b \/ k # 1 => \E m \in 1..Len(rest'[c]) : rest'[c][m] = rest[c][k]
<1>1. DOMAIN rest = Tasks /\ (\A c \in Tasks : rest[c] \in Seq(Items))
  BY Types DEF ChainsInv
<1>2. /\ Head(rest[b]) = rest[b][1] /\ Head(rest[b]) \in Items
      /\ Tail(rest[b]) \in Seq(Items) /\ Len(rest[b]) \in Nat \ {0}
      /\ Len(Tail(rest[b])) = Len(rest[b]) - 1
      /\ \A k \in 1..(Len(rest[b]) - 1) : Tail(rest[b])[k] = rest[b][k + 1]
  BY <1>1, TailOf
<1>3. rest'[b] = Tail(rest[b]) /\ DOMAIN rest' = Tasks
  BY <1>1
<1>4. \A c \in Tasks \ {b} : rest'[c] = rest[c]
  BY <1>1
<1>5. ASSUME NEW k \in 1..Len(rest'[b])
      PROVE  k + 1 \in 1..Len(rest[b]) /\ rest'[b][k] = rest[b][k + 1]
  BY <1>2, <1>3
<1>6. ASSUME NEW k \in 1..Len(rest[b]), k # 1
      PROVE  k - 1 \in 1..Len(rest'[b]) /\ rest'[b][k - 1] = rest[b][k]
  BY <1>2, <1>3, <1>6
<1>7. 1 \in 1..Len(rest[b])
  BY <1>2
<1>8. \A c \in Tasks : rest'[c] \in Seq(Items)
  BY <1>1, <1>2, <1>3, <1>4
<1>9. ASSUME NEW c \in Tasks, NEW k \in 1..Len(rest'[c])
      PROVE  \E m \in 1..Len(rest[c]) :
               /\ rest'[c][k] = rest[c][m]
               /\ m = IF c = b THEN k + 1 ELSE k
  BY <1>4, <1>5
<1>10. ASSUME NEW c \in Tasks, NEW k \in 1..Len(rest[c]), c # b \/ k # 1
       PROVE  \E m \in 1..Len(rest'[c]) : rest'[c][m] = rest[c][k]
  BY <1>4, <1>6, <1>10
<1> QED
  BY <1>2, <1>3, <1>7, <1>8, <1>9, <1>10

\* A worker takes the next item of its batch.
LEMMA ChainTakesNext ==
  ASSUME ChainsInv, NEW t \in Tasks, Busy(t), sent' \subseteq Uploads,
         NEW b \in Tasks, b = task[t].batch, rest[b] # <<>>,
         NEW n, n = Head(rest[b]),
         NEW it \in ItemSet, it.st \in {"done", "error"},
         NEW i, i = task[t].item
  PROVE  /\ rest' = [rest EXCEPT ![b] = Tail(@)]
         /\ task' = [task EXCEPT ![t] = Creating(b, n, queue[n].attempts + 1)]
         /\ queue' = [queue EXCEPT ![i] = it, ![n] = Begun(queue[n])]
         => ChainsInv'
<1>a. SUFFICES
        ASSUME rest' = [rest EXCEPT ![b] = Tail(@)],
               task' = [task EXCEPT ![t] = Creating(b, n, queue[n].attempts + 1)],
               queue' = [queue EXCEPT ![i] = it, ![n] = Begun(queue[n])]
        PROVE  ChainsInv'
  OBVIOUS
<1>1. /\ queue \in [Items -> ItemSet] /\ task \in [Tasks -> TaskSet]
      /\ DOMAIN rest = Tasks /\ (\A c \in Tasks : rest[c] \in Seq(Items))
  BY Types DEF ChainsInv
<1>2. i \in Items /\ queue[i].st = "uploading"
  BY <1>1 DEF ChainsInv, TaskRight, TaskSet
<1>3. n = rest[b][1] /\ 1 \in 1..Len(rest[b]) /\ PlaceRight(b, 1) /\ n \in Items
  BY <1>1, TailOf DEF ChainsInv, RestRight
<1>0. /\ DOMAIN rest' = Tasks /\ (\A c \in Tasks : rest'[c] \in Seq(Items))
      /\ \A c \in Tasks : \A k \in 1..Len(rest'[c]) :
           \E m \in 1..Len(rest[c]) :
             /\ rest'[c][k] = rest[c][m]
             /\ m = IF c = b THEN k + 1 ELSE k
      /\ \A c \in Tasks : \A k \in 1..Len(rest[c]) :
           c # b \/ k # 1 => \E m \in 1..Len(rest'[c]) : rest'[c][m] = rest[c][k]
  BY <1>a, OneTaken
<1>b. \A c \in Tasks : \A k \in 1..Len(rest'[c]) :
        \E m \in 1..Len(rest[c]) :
          rest'[c][k] = rest[c][m] /\ m = IF c = b THEN k + 1 ELSE k
  BY <1>0
<1>4. queue[n].st = "queued" /\ queue[n].attempts = 0 /\ n # i
  BY <1>2, <1>3 DEF PlaceRight
<1>5. /\ queue[n].attempts < uploadMaxAttempts
      /\ queue[n].attempts + 1 = 1 /\ 1 \in 0..uploadMaxAttempts
  BY <1>4, AttemptsAssumption
<1>6. /\ Begun(queue[n]) \in ItemSet /\ Begun(queue[n]).st = "uploading"
      /\ Begun(queue[n]).attempts = 1
  BY <1>1, <1>3, <1>5, FixedTypes
<1>7. Creating(b, n, 1) \in TaskSet
  BY <1>3, <1>5, FixedTypes
<1>8. /\ task'[t] = Creating(b, n, 1)
      /\ \A s \in Tasks \ {t} : task'[s] = task[s]
      /\ queue'[i] = it /\ queue'[n] = Begun(queue[n])
      /\ \A j \in Items \ {i, n} : queue'[j] = queue[j]
  BY <1>a, <1>1, <1>2, <1>3, <1>4, <1>5
<1>9. queue' \in [Items -> ItemSet] /\ task' \in [Tasks -> TaskSet]
  BY <1>a, <1>1, <1>2, <1>3, <1>5, <1>6, <1>7
<1>10. ChainsTyped'
  BY <1>9, <1>0, TypesNext
<1>11. /\ Busy(t)' /\ task'[t].item = n /\ task'[t].batch = b /\ ~Waits(t, "wait")'
       /\ task'[t].attempt = 1
  BY <1>8 DEF Busy, Creating, Waits
<1>12. \A s \in Tasks \ {t} : Busy(s) => task[s].item \in Items \ {i, n}
  BY <1>1, <1>4 DEF ChainsInv, OneEach, TaskRight, TaskSet
<1>13. ASSUME NEW s \in Tasks PROVE TaskRight(s)'
  <2>1. CASE s = t
    <3>1. task'[s].item = n /\ queue'[n].st = "uploading" /\ queue'[n].attempts = 1
      BY <1>6, <1>8, <1>11, <2>1
    <3>2. n # None
      BY <1>3, NoneAssumption
    <3> QED
      BY <1>11, <2>1, <3>1, <3>2 DEF TaskRight, Busy, Waits
  <2>2. CASE s # t /\ Busy(s)
    <3>1. task[s].item \in Items \ {i, n}
      BY <1>12, <2>2
    <3>2. task'[s] = task[s] /\ queue'[task[s].item] = queue[task[s].item]
      BY <1>8, <2>2, <3>1
    <3> QED
      BY <2>2, <3>2 DEF ChainsInv, TaskRight, Busy, Waits
  <2>3. CASE s # t /\ ~Busy(s)
    BY <1>8, <2>3 DEF ChainsInv, TaskRight, Busy, Waits
  <2> QED
    BY <2>1, <2>2, <2>3
<1>14. OneEach'
  <2>1. ASSUME NEW s \in Tasks \ {t}, Busy(s)'
        PROVE  Busy(s) /\ task'[s].item = task[s].item /\ task'[s].item # n
    BY <1>8, <1>12, <2>1 DEF Busy
  <2> QED
    BY <1>8, <1>11, <2>1 DEF ChainsInv, OneEach
<1>15. RestRight'
  <2>1. \A s \in Tasks : task'[s].batch = task[s].batch
    BY <1>8, <1>11
  <2>2. ASSUME NEW c \in Tasks, NEW k \in 1..Len(rest'[c]) PROVE PlaceRight(c, k)'
    <3>1. PICK m \in 1..Len(rest[c]) :
            rest'[c][k] = rest[c][m] /\ m = IF c = b THEN k + 1 ELSE k
      BY <1>0
    <3>2. PlaceRight(c, m) /\ rest[c][m] \in Items
      BY <1>1 DEF ChainsInv, RestRight
    <3>3. c # b \/ m # 1
      BY <3>1
    <3>4. rest[c][m] # n
      BY <1>3, <3>3 DEF ChainsInv, ListedOnce
    <3>5. rest[c][m] # i
      BY <1>2, <3>2 DEF PlaceRight
    <3> QED
      BY <1>8, <2>1, <3>1, <3>2, <3>4, <3>5 DEF PlaceRight
  <2> QED
    BY <2>2 DEF RestRight
<1>16. ListedOnce'
  <2>1. ASSUME NEW c \in Tasks, NEW d \in Tasks, NEW k \in 1..Len(rest'[c]),
               NEW m \in 1..Len(rest'[d]), rest'[c][k] = rest'[d][m]
        PROVE  c = d /\ k = m
    <3>1. PICK x \in 1..Len(rest[c]) :
            rest'[c][k] = rest[c][x] /\ x = IF c = b THEN k + 1 ELSE k
      BY <1>b
    <3>2. PICK y \in 1..Len(rest[d]) :
            rest'[d][m] = rest[d][y] /\ y = IF d = b THEN m + 1 ELSE m
      BY <1>b
    <3>3. c = d /\ x = y
      <4>1. rest[c][x] = rest[d][y]
        BY <2>1, <3>1, <3>2
      <4>2. ListedOnce
        BY DEF ChainsInv
      <4> QED
        BY <4>1, <4>2 DEF ListedOnce
    <3>4. k \in Int /\ m \in Int
      OBVIOUS
    <3> QED
      BY <3>1, <3>2, <3>3, <3>4
  <2> QED
    BY <2>1 DEF ListedOnce
<1>17. NoneForgotten'
  <2>1. ASSUME NEW j \in Items
        PROVE  /\ queue'[j].st = "uploading" => \E s \in Tasks : Holds(s, j)'
               /\ queue'[j].st = "queued" => \E c \in Tasks : Listed(c, j)'
    <3>1. CASE j = i
      BY <1>8, <3>1
    <3>2. CASE j = n
      BY <1>6, <1>8, <1>11, <3>2 DEF Holds
    <3>3. CASE j # i /\ j # n
      <4>1. \A s \in Tasks : Holds(s, j) => Holds(s, j)'
        BY <1>8, <3>3 DEF Holds
      <4>2. ASSUME NEW c \in Tasks, Listed(c, j) PROVE Listed(c, j)'
        <5>1. PICK k \in 1..Len(rest[c]) : rest[c][k] = j
          BY <4>2 DEF Listed
        <5>2. c # b \/ k # 1
          BY <1>3, <3>3, <5>1
        <5> QED
          BY <5>1, <5>2, <1>0 DEF Listed
      <4> QED
        BY <1>8, <3>3, <4>1, <4>2 DEF ChainsInv, NoneForgotten
    <3> QED
      BY <3>1, <3>2, <3>3
  <2> QED
    BY <2>1 DEF NoneForgotten
<1> QED
  BY <1>10, <1>13, <1>14, <1>15, <1>16, <1>17 DEF ChainsInv

\* A chain is through with its item.
LEMMA ChainThrough ==
  ASSUME ChainsInv, NEW t \in Tasks, Busy(t), sent' \subseteq Uploads,
         NEW it \in ItemSet, it.st \in {"done", "error"}, Through(t, it)
  PROVE  ChainsInv'
<1>1. task \in [Tasks -> TaskSet] /\ (\A b \in Tasks : rest[b] \in Seq(Items))
  BY Types DEF ChainsInv
<1>2. task[t].batch \in Tasks \cup {None}
  BY <1>1 DEF TaskSet
<1>3. CASE task[t].batch # None /\ rest[task[t].batch] # <<>>
  <2>1. NextOf(task[t].batch) = Head(rest[task[t].batch])
    BY <1>3 DEF NextOf
  <2>2. Head(rest[task[t].batch]) \in Items
    BY <1>1, <1>2, <1>3, TailOf
  <2>3. NextOf(task[t].batch) # None
    BY <2>1, <2>2, NoneAssumption
  <2>4. PICK b \in Tasks : b = task[t].batch
    BY <1>2, <1>3
  <2>5. PICK n : n = Head(rest[b])
    OBVIOUS
  <2>6. /\ task' = [task EXCEPT ![t] = Creating(b, n, queue[n].attempts + 1)]
        /\ queue' = [queue EXCEPT ![task[t].item] = it, ![n] = Begun(queue[n])]
        /\ rest' = [rest EXCEPT ![b] = Tail(@)]
    BY <2>1, <2>3, <2>4, <2>5 DEF Through
  <2> QED
    BY <1>3, <2>4, <2>5, <2>6, ChainTakesNext
<1>4. CASE ~(task[t].batch # None /\ rest[task[t].batch] # <<>>)
  <2>1. NextOf(task[t].batch) = None
    BY <1>4 DEF NextOf
  <2> QED
    BY <1>4, <2>1, ChainEnds DEF Through
<1> QED
  BY <1>3, <1>4

-----------------------------------------------------------------------------
(* The user *)

\* An item that has failed gets a chain of its own.
LEMMA ChainStarts ==
  ASSUME ChainsInv, NEW i \in Items, queue[i].st = "error",
         NEW t \in Tasks, ~Busy(t), UNCHANGED <<rest, sent>>,
         NEW it \in ItemSet, it.st = "uploading",
         NEW c \in TaskSet, it.attempts <= c.attempt,
         c.item = i, c.batch = None, c.step \in {"head", "create"},
         queue' = [queue EXCEPT ![i] = it], task' = [task EXCEPT ![t] = c]
  PROVE  ChainsInv'
<1>1. /\ queue \in [Items -> ItemSet] /\ task \in [Tasks -> TaskSet]
      /\ DOMAIN rest = Tasks /\ (\A b \in Tasks : rest[b] \in Seq(Items))
      /\ sent \subseteq Uploads
  BY Types DEF ChainsInv
<1>7. /\ task'[t] = c /\ (\A s \in Tasks \ {t} : task'[s] = task[s])
      /\ queue'[i] = it /\ (\A j \in Items \ {i} : queue'[j] = queue[j])
      /\ queue' \in [Items -> ItemSet] /\ task' \in [Tasks -> TaskSet]
  BY <1>1
<1>8. ChainsTyped'
  BY <1>1, <1>7, TypesNext
<1>9. \A s \in Tasks : Busy(s) => task[s].item \in Items \ {i}
  BY <1>1 DEF ChainsInv, TaskRight, TaskSet
<1>10. Busy(t)' /\ (\A s \in Tasks \ {t} : Busy(s)' <=> Busy(s))
  BY <1>7 DEF Busy
<1>11. ASSUME NEW s \in Tasks PROVE TaskRight(s)'
  <2>1. CASE s = t
    <3>1. i # None
      BY NoneAssumption
    <3> QED
      BY <1>7, <2>1, <3>1 DEF TaskRight, Busy, Waits
  <2>2. CASE s # t /\ Busy(s)
    <3>1. task'[s] = task[s] /\ queue'[task[s].item] = queue[task[s].item]
      BY <1>7, <1>9, <2>2
    <3> QED
      BY <2>2, <3>1 DEF ChainsInv, TaskRight, Busy, Waits
  <2>3. CASE s # t /\ ~Busy(s)
    BY <1>7, <2>3 DEF ChainsInv, TaskRight, Busy, Waits
  <2> QED
    BY <2>1, <2>2, <2>3
<1>12. OneEach'
  <2>1. ASSUME NEW s \in Tasks \ {t}, Busy(s)'
        PROVE  Busy(s) /\ task'[s].item = task[s].item /\ task'[s].item # task'[t].item
    BY <1>7, <1>9, <1>10, <2>1
  <2> QED
    BY <2>1 DEF ChainsInv, OneEach
<1>13. RestRight'
  <2>1. ASSUME NEW b \in Tasks, NEW k \in 1..Len(rest[b]) PROVE PlaceRight(b, k)'
    <3>1. PlaceRight(b, k) /\ rest[b][k] \in Items
      BY <1>1 DEF ChainsInv, RestRight
    <3>2. rest[b][k] # i
      BY <3>1 DEF PlaceRight
    <3>3. PICK s \in Tasks : task[s].batch = b
      BY <3>1 DEF PlaceRight
    <3>4. s # t
      BY <3>3, NoneAssumption DEF ChainsInv, TaskRight
    <3> QED
      BY <1>7, <3>1, <3>2, <3>3, <3>4 DEF PlaceRight
  <2> QED
    BY <2>1 DEF RestRight
<1>14. ListedOnce'
  BY DEF ChainsInv, ListedOnce
<1>15. NoneForgotten'
  <2>1. ASSUME NEW j \in Items
        PROVE  /\ queue'[j].st = "uploading" => \E s \in Tasks : Holds(s, j)'
               /\ queue'[j].st = "queued" => \E b \in Tasks : Listed(b, j)'
    <3>1. CASE j = i
      BY <1>7, <3>1 DEF Holds
    <3>2. CASE j # i
      <4>1. ASSUME NEW s \in Tasks, Holds(s, j) PROVE Holds(s, j)'
        <5>1. s # t
          BY <4>1, NoneAssumption DEF Holds, ChainsInv, TaskRight
        <5> QED
          BY <1>7, <4>1, <5>1 DEF Holds
      <4>2. \A b \in Tasks : Listed(b, j) => Listed(b, j)'
        BY DEF Listed
      <4> QED
        BY <1>7, <3>2, <4>1, <4>2 DEF ChainsInv, NoneForgotten
    <3> QED
      BY <3>1, <3>2
  <2> QED
    BY <2>1 DEF NoneForgotten
<1> QED
  BY <1>8, <1>11, <1>12, <1>13, <1>14, <1>15 DEF ChainsInv

\* The Retry button: the upload whose URL is known is asked for, or a new one.
LEMMA RetryKeeps ==
  ASSUME ChainsInv, NEW i \in Items, Retry(i)
  PROVE  ChainsInv'
<1>1. queue \in [Items -> ItemSet] /\ task \in [Tasks -> TaskSet]
  BY Types DEF ChainsInv
<1>2. PICK t \in IdleTasks :
        IF queue[i].url # None
          THEN /\ queue' = [queue EXCEPT ![i].attempts = 0, ![i].st = "uploading"]
               /\ task' = [task EXCEPT ![t] =
                    [item |-> i, batch |-> None, step |-> "head",
                     up |-> queue[i].url, attempt |-> uploadMaxAttempts]]
          ELSE /\ queue' = [queue EXCEPT ![i].attempts = 1, ![i].st = "uploading"]
               /\ task' = [task EXCEPT ![t] = Creating(None, i, 1)]
  BY DEF Retry
<1>3. UNCHANGED <<rest, sent>> /\ queue[i].st = "error"
  BY DEF Retry, MayRetry
<1>4. t \in Tasks /\ ~Busy(t)
  BY DEF IdleTasks, Busy
<1>5. uploadMaxAttempts \in Nat \ {0}
  BY AttemptsAssumption
<1>6. CASE queue[i].url # None
  <2>1. PICK it : it = [queue[i] EXCEPT !.attempts = 0, !.st = "uploading"]
    OBVIOUS
  <2>2. it \in ItemSet /\ it.st = "uploading" /\ it.attempts = 0
    <3>1. PICK q \in ItemSet : q = queue[i]
      BY <1>1
    <3>2. PICK a \in 0..uploadMaxAttempts : a = 0
      BY <1>5
    <3>3. it = [q EXCEPT !.attempts = a, !.st = "uploading"]
      BY <2>1, <3>1, <3>2
    <3> QED
      BY <3>2, <3>3 DEF ItemSet
  <2>3. queue' = [queue EXCEPT ![i] = it]
    BY <1>1, <1>2, <1>6, <2>1
  <2>4. PICK c : c = [item |-> i, batch |-> None, step |-> "head",
                      up |-> queue[i].url, attempt |-> uploadMaxAttempts]
    OBVIOUS
  <2>5. queue[i].url \in Uploads \cup {None}
    BY <1>1 DEF ItemSet
  <2>6. c \in TaskSet
    BY <1>5, <2>4, <2>5 DEF TaskSet
  <2>7. /\ c.item = i /\ c.batch = None /\ c.step \in {"head", "create"}
        /\ it.attempts <= c.attempt
    BY <1>5, <2>2, <2>4
  <2>8. task' = [task EXCEPT ![t] = c]
    BY <1>2, <1>6, <2>4
  <2> QED
    BY <1>3, <1>4, <2>2, <2>3, <2>6, <2>7, <2>8, ChainStarts
<1>7. CASE queue[i].url = None
  <2>1. PICK it : it = [queue[i] EXCEPT !.attempts = 1, !.st = "uploading"]
    OBVIOUS
  <2>2. it \in ItemSet /\ it.st = "uploading" /\ it.attempts = 1
    <3>1. PICK q \in ItemSet : q = queue[i]
      BY <1>1
    <3>2. PICK a \in 0..uploadMaxAttempts : a = 1
      BY <1>5
    <3>3. it = [q EXCEPT !.attempts = a, !.st = "uploading"]
      BY <2>1, <3>1, <3>2
    <3> QED
      BY <3>2, <3>3 DEF ItemSet
  <2>3. queue' = [queue EXCEPT ![i] = it]
    BY <1>1, <1>2, <1>7, <2>1
  <2>4. PICK c : c = Creating(None, i, 1)
    OBVIOUS
  <2>5. c \in TaskSet
    <3>1. 1 \in 0..uploadMaxAttempts
      BY <1>5
    <3> QED
      BY <2>4, <3>1, FixedTypes
  <2>6. /\ c.item = i /\ c.batch = None /\ c.step \in {"head", "create"}
        /\ it.attempts <= c.attempt
    BY <2>2, <2>4 DEF Creating
  <2>7. task' = [task EXCEPT ![t] = c]
    BY <1>2, <1>7, <2>4
  <2> QED
    BY <1>3, <1>4, <2>2, <2>3, <2>5, <2>6, <2>7, ChainStarts
<1> QED
  BY <1>6, <1>7

\* clearCompletedUploads removes only what no chain works on.
LEMMA ClearKeeps == ChainsInv /\ ClearCompleted => ChainsInv'
<1> SUFFICES ASSUME ChainsInv, ClearCompleted PROVE ChainsInv'
  OBVIOUS
<1>1. /\ queue \in [Items -> ItemSet] /\ task \in [Tasks -> TaskSet]
      /\ DOMAIN rest = Tasks /\ (\A b \in Tasks : rest[b] \in Seq(Items))
      /\ sent \subseteq Uploads
  BY Types DEF ChainsInv
<1>2. /\ UNCHANGED <<rest, task, sent>>
      /\ queue' = [i \in Items |-> IF queue[i].st = "done" THEN NoItem ELSE queue[i]]
  BY DEF ClearCompleted
<1>3. ChainsTyped'
  BY <1>1, <1>2, FixedTypes, TypesNext
<1>4. \A i \in Items :
        /\ queue[i].st # "done" => queue'[i] = queue[i]
        /\ queue[i].st = "done" => queue'[i].st = "absent"
  BY <1>2 DEF NoItem
<1>5. ASSUME NEW s \in Tasks PROVE TaskRight(s)'
  <2>1. CASE Busy(s)
    <3>1. task[s].item \in Items /\ queue[task[s].item].st = "uploading"
      BY <1>1, <2>1 DEF ChainsInv, TaskRight, TaskSet
    <3>2. queue'[task[s].item] = queue[task[s].item]
      BY <1>4, <3>1
    <3> QED
      BY <1>2, <2>1, <3>2 DEF ChainsInv, TaskRight, Busy, Waits
  <2>2. CASE ~Busy(s)
    BY <1>2, <2>2 DEF ChainsInv, TaskRight, Busy, Waits
  <2> QED
    BY <2>1, <2>2
<1>6. OneEach' /\ ListedOnce'
  BY <1>2 DEF ChainsInv, OneEach, ListedOnce, Busy
<1>7. RestRight'
  <2>1. ASSUME NEW b \in Tasks, NEW k \in 1..Len(rest[b]) PROVE PlaceRight(b, k)'
    <3>1. PlaceRight(b, k) /\ rest[b][k] \in Items
      BY <1>1 DEF ChainsInv, RestRight
    <3> QED
      BY <1>2, <1>4, <3>1 DEF PlaceRight
  <2> QED
    BY <1>2, <2>1 DEF RestRight
<1>8. NoneForgotten'
  BY <1>2, <1>4 DEF ChainsInv, NoneForgotten, Holds, Listed
<1> QED
  BY <1>3, <1>5, <1>6, <1>7, <1>8 DEF ChainsInv

\* After a reload there are no chains, and no item that waits for one.
LEMMA ReloadKeeps == ChainsInv /\ Reload => ChainsInv'
<1> SUFFICES ASSUME ChainsInv, Reload PROVE ChainsInv'
  OBVIOUS
<1>1. queue \in [Items -> ItemSet] /\ sent \subseteq Uploads
  BY Types DEF ChainsInv
<1>2. /\ UNCHANGED sent /\ queue' = [i \in Items |-> Stored(queue[i])]
      /\ rest' = [b \in Tasks |-> <<>>] /\ task' = [t \in Tasks |-> FreeTask]
  BY DEF Reload
<1>3. ASSUME NEW i \in Items
      PROVE  /\ Stored(queue[i]) \in ItemSet
             /\ Stored(queue[i]).st \notin {"queued", "uploading"}
  <2>1. queue[i] \in ItemSet
    BY <1>1
  <2>2. NoItem \in ItemSet /\ NoItem.st = "absent"
    BY FixedTypes DEF NoItem
  <2> QED
    BY <2>1, <2>2 DEF Stored, ItemSet
<1>4. ChainsTyped'
  BY <1>1, <1>2, <1>3, FixedTypes, TypesNext
<1>5. /\ \A t \in Tasks : task'[t] = FreeTask
      /\ \A i \in Items : queue'[i].st \notin {"queued", "uploading"}
      /\ \A b \in Tasks : rest'[b] = <<>> /\ Len(rest'[b]) = 0
  BY <1>2, <1>3
<1>6. \A t \in Tasks : ~Busy(t)' /\ TaskRight(t)'
  BY <1>5 DEF FreeTask, TaskRight, Busy
<1> QED
  BY <1>4, <1>5, <1>6 DEF ChainsInv, OneEach, RestRight, ListedOnce, NoneForgotten

\* The number of a batch is free as long as a chain is: every batch that is
\* left has a worker, and each worker only one.
LEMMA FreshBatch ==
  ASSUME NEW T, IsFiniteSet(T), NEW f, NEW t \in T, f[t] \notin T
  PROVE  \E c \in T : \A s \in T : f[s] # c
<1>1. SUFFICES ASSUME \A c \in T : \E s \in T : f[s] = c PROVE FALSE
  OBVIOUS
<1>2. PICK U : U = T \ {t}
  OBVIOUS
<1>3. PICK g : g = [c \in T |-> CHOOSE s \in T : f[s] = c]
  OBVIOUS
<1>4. \A c \in T : g[c] \in T /\ f[g[c]] = c
  BY <1>1, <1>3
<1>5. g \in [T -> U]
  BY <1>2, <1>3, <1>4
<1>6. IsFiniteSet(U) /\ Cardinality(U) < Cardinality(T)
  <2>1. IsFiniteSet(U) /\ Cardinality(U) = Cardinality(T) - 1
    BY <1>2, FS_RemoveElement
  <2>2. Cardinality(T) \in Nat
    BY FS_CardinalityType
  <2> QED
    BY <2>1, <2>2
<1>7. PICK x \in T, y \in T : x # y /\ g[x] = g[y]
  BY <1>5, <1>6, FS_PigeonHole
<1> QED
  BY <1>4, <1>7

\* What uploadFiles does, with names for what it chooses.
Started(n, w, new, worker, b) ==
  /\ new \in [1..n -> Items]
  /\ \A j \in 1..n : queue[new[j]].st = "absent"
  /\ \A j, k \in 1..n : new[j] = new[k] => j = k
  /\ worker \in [1..w -> Tasks]
  /\ \A j \in 1..w : ~Busy(worker[j])
  /\ \A j, k \in 1..w : worker[j] = worker[k] => j = k
  /\ b \in Tasks /\ \A t \in Tasks : task[t].batch # b

StartedNext(n, w, new, worker, b) ==
  /\ \A j \in 1..n :
       queue'[new[j]] = IF j \in 1..w THEN Begun(NewItem) ELSE NewItem
  /\ \A i \in Items : (\A j \in 1..n : new[j] # i) => queue'[i] = queue[i]
  /\ \A j \in 1..w : task'[worker[j]] = Creating(b, new[j], 1)
  /\ \A t \in Tasks : (\A j \in 1..w : worker[j] # t) => task'[t] = task[t]
  /\ rest' = [rest EXCEPT ![b] = SubSeq(new, w + 1, n)]

\* Adding files starts a batch with its workers.
LEMMA UploadFilesStarts ==
  ASSUME ChainsInv, NEW n \in Items, UploadFiles(n)
  PROVE  \E w \in 1..n : \E new, worker, b :
           /\ Started(n, w, new, worker, b) /\ StartedNext(n, w, new, worker, b)
           /\ sent' = sent /\ queue' = [i \in Items |-> queue'[i]]
           /\ task' = [t \in Tasks |-> task'[t]]
<1>1. /\ queue \in [Items -> ItemSet] /\ task \in [Tasks -> TaskSet]
      /\ DOMAIN rest = Tasks /\ (\A b \in Tasks : rest[b] \in Seq(Items))
  BY Types DEF ChainsInv
<1>2. n \in Nat \ {0} /\ MaxItems \in Nat /\ uploadConcurrency \in Nat \ {0}
  BY ItemsAssumption, AttemptsAssumption DEF Items
<1>3. IsFiniteSet(Items) /\ Items \subseteq Nat
  BY <1>2, FS_Interval DEF Items
<1>4. /\ Absent \subseteq Items /\ Absent \subseteq Nat /\ IsFiniteSet(Absent)
      /\ IdleTasks \subseteq Tasks /\ IdleTasks \subseteq Nat
      /\ IsFiniteSet(IdleTasks)
  BY <1>3, FS_Subset, TasksAssumption DEF Absent, IdleTasks
<1>5. PICK w : w = IF n < uploadConcurrency THEN n ELSE uploadConcurrency
  OBVIOUS
<1>6. w \in 1..n
  BY <1>2, <1>5
<1>7. PICK new : new = CHOOSE s \in [1..n -> Absent] :
                         \A j, k \in 1..n : j < k => s[j] < s[k]
  OBVIOUS
<1>8. PICK worker : worker = CHOOSE s \in [1..w -> IdleTasks] :
                               \A j, k \in 1..w : j < k => s[j] < s[k]
  OBVIOUS
<1>9. PICK b : b = CHOOSE c \in Tasks : \A t \in Tasks : task[t].batch # c
  OBVIOUS
<1>10. PICK started : started = {new[j] : j \in 1..w}
  OBVIOUS
<1>11. /\ n <= Cardinality(Absent) /\ w <= Cardinality(IdleTasks)
       /\ queue' = [i \in Items |->
            IF \E j \in 1..n : new[j] = i
              THEN IF i \in started THEN Begun(NewItem) ELSE NewItem
              ELSE queue[i]]
       /\ task' = [t \in Tasks |->
            IF \E j \in 1..w : worker[j] = t
              THEN Creating(b, new[CHOOSE j \in 1..w : worker[j] = t], 1)
              ELSE task[t]]
       /\ rest' = [rest EXCEPT ![b] = SubSeq(new, w + 1, n)]
       /\ sent' = sent
  BY <1>5, <1>7, <1>8, <1>9, <1>10 DEF UploadFiles
<1>12. new \in [1..n -> Absent] /\ \A j, k \in 1..n : j < k => new[j] < new[k]
  <2>1. \E s \in [1..n -> Absent] : \A j, k \in 1..n : j < k => s[j] < s[k]
    BY <1>2, <1>4, <1>11, SomeInOrder
  <2> QED
    BY <1>7, <2>1
<1>13. /\ worker \in [1..w -> IdleTasks]
       /\ \A j, k \in 1..w : j < k => worker[j] < worker[k]
  <2>1. w \in Nat
    BY <1>6
  <2>2. \E s \in [1..w -> IdleTasks] : \A j, k \in 1..w : j < k => s[j] < s[k]
    BY <1>4, <1>11, <2>1, SomeInOrder
  <2> QED
    BY <1>8, <2>2
<1>14. \A j, k \in 1..n : new[j] = new[k] => j = k
  <2>1. ASSUME NEW j \in 1..n, NEW k \in 1..n, j # k PROVE new[j] # new[k]
    <3>1. new[j] \in Nat /\ new[k] \in Nat
      BY <1>4, <1>12
    <3>2. j < k \/ k < j
      BY <2>1
    <3> QED
      BY <1>12, <3>1, <3>2
  <2> QED
    BY <2>1
<1>15. \A j, k \in 1..w : worker[j] = worker[k] => j = k
  <2>1. ASSUME NEW j \in 1..w, NEW k \in 1..w, j # k PROVE worker[j] # worker[k]
    <3>1. worker[j] \in Nat /\ worker[k] \in Nat
      BY <1>4, <1>13
    <3>2. j < k \/ k < j
      BY <2>1
    <3> QED
      BY <1>13, <3>1, <3>2
  <2> QED
    BY <2>1
<1>16. b \in Tasks /\ \A t \in Tasks : task[t].batch # b
  <2>1. PICK t \in IdleTasks : TRUE
    BY <1>6, <1>13
  <2>2. t \in Tasks /\ task[t].batch = None
    BY <2>1 DEF IdleTasks, ChainsInv, TaskRight, Busy
  <2>3. PICK f : f = [s \in Tasks |-> task[s].batch]
    OBVIOUS
  <2>4. f[t] \notin Tasks
    BY <2>2, <2>3, NoneAssumption
  <2>5. \E c \in Tasks : \A s \in Tasks : f[s] # c
    BY <2>2, <2>4, TasksAssumption, FreshBatch
  <2>6. \E c \in Tasks : \A s \in Tasks : task[s].batch # c
    BY <2>3, <2>5
  <2> QED
    BY <1>9, <2>6
<1>17. Started(n, w, new, worker, b)
  <2>1. \A j \in 1..n : new[j] \in Items /\ queue[new[j]].st = "absent"
    BY <1>12 DEF Absent
  <2>2. \A j \in 1..w : worker[j] \in Tasks /\ ~Busy(worker[j])
    BY <1>13 DEF IdleTasks, Busy
  <2>3. new \in [1..n -> Items] /\ worker \in [1..w -> Tasks]
    BY <1>4, <1>12, <1>13
  <2> QED
    BY <1>14, <1>15, <1>16, <2>1, <2>2, <2>3 DEF Started
<1>18. StartedNext(n, w, new, worker, b)
  <2>1. ASSUME NEW j \in 1..n
        PROVE  queue'[new[j]] = IF j \in 1..w THEN Begun(NewItem) ELSE NewItem
    <3>1. new[j] \in Items
      BY <1>4, <1>12
    <3>2. new[j] \in started <=> j \in 1..w
      <4>1. \A k \in 1..w : k \in 1..n
        BY <1>2, <1>6
      <4>2. ASSUME new[j] \in started PROVE j \in 1..w
        <5>1. PICK k \in 1..w : new[k] = new[j]
          BY <1>10, <4>2
        <5> QED
          BY <1>14, <4>1, <5>1
      <4> QED
        BY <1>10, <4>2
    <3> QED
      BY <1>11, <3>1, <3>2
  <2>2. \A i \in Items : (\A j \in 1..n : new[j] # i) => queue'[i] = queue[i]
    BY <1>11
  <2>3. ASSUME NEW j \in 1..w
        PROVE  task'[worker[j]] = Creating(b, new[j], 1)
    <3>1. worker[j] \in Tasks
      BY <1>4, <1>13
    <3>2. (CHOOSE k \in 1..w : worker[k] = worker[j]) = j
      BY <1>15
    <3> QED
      BY <1>11, <3>1, <3>2
  <2>4. \A t \in Tasks : (\A j \in 1..w : worker[j] # t) => task'[t] = task[t]
    BY <1>11
  <2> QED
    BY <1>11, <2>1, <2>2, <2>3, <2>4 DEF StartedNext
<1>19. /\ queue' = [i \in Items |-> queue'[i]]
       /\ task' = [t \in Tasks |-> task'[t]]
  BY <1>11
<1> QED
  BY <1>6, <1>11, <1>17, <1>18, <1>19

\* uploadFiles starts chains only for items that were not in the queue, and
\* leaves the others to a batch of its own.
LEMMA UploadFilesKeeps ==
  ASSUME ChainsInv, NEW n \in Items, UploadFiles(n)
  PROVE  ChainsInv'
<1>1. /\ queue \in [Items -> ItemSet] /\ task \in [Tasks -> TaskSet]
      /\ DOMAIN rest = Tasks /\ (\A b \in Tasks : rest[b] \in Seq(Items))
      /\ sent \subseteq Uploads
  BY Types DEF ChainsInv
<1>2. PICK w \in 1..n : \E new, worker, b :
        /\ Started(n, w, new, worker, b) /\ StartedNext(n, w, new, worker, b)
        /\ sent' = sent /\ queue' = [i \in Items |-> queue'[i]]
        /\ task' = [t \in Tasks |-> task'[t]]
  BY UploadFilesStarts
<1>3. PICK new, worker, b :
        /\ Started(n, w, new, worker, b) /\ StartedNext(n, w, new, worker, b)
        /\ sent' = sent /\ queue' = [i \in Items |-> queue'[i]]
        /\ task' = [t \in Tasks |-> task'[t]]
  BY <1>2
<1>4. n \in Nat \ {0} /\ w \in Nat /\ w <= n /\ 1 \in 1..w
      /\ uploadMaxAttempts \in Nat \ {0}
  BY AttemptsAssumption, ItemsAssumption DEF Items
<1>5. /\ new \in [1..n -> Items]
      /\ \A j \in 1..n : queue[new[j]].st = "absent"
      /\ \A j, k \in 1..n : new[j] = new[k] => j = k
  BY <1>3 DEF Started
<1>6. /\ worker \in [1..w -> Tasks]
      /\ \A j \in 1..w : ~Busy(worker[j])
      /\ \A j, k \in 1..w : worker[j] = worker[k] => j = k
  BY <1>3 DEF Started
<1>7. b \in Tasks /\ \A t \in Tasks : task[t].batch # b
  BY <1>3 DEF Started
<1>8. PICK left : left = SubSeq(new, w + 1, n)
  OBVIOUS
<1>9. /\ left \in Seq(Items) /\ Len(left) = n - w
      /\ \A k \in 1..(n - w) : left[k] = new[w + k]
  BY <1>4, <1>5, <1>8, EndOf
<1>10. /\ rest'[b] = left /\ DOMAIN rest' = Tasks
       /\ \A c \in Tasks \ {b} : rest'[c] = rest[c]
  BY <1>1, <1>3, <1>7, <1>8 DEF StartedNext
<1>11. /\ Begun(NewItem) \in ItemSet /\ Begun(NewItem).st = "uploading"
       /\ Begun(NewItem).attempts = 1
       /\ NewItem \in ItemSet /\ NewItem.st = "queued" /\ NewItem.attempts = 0
  <2>1. NewItem.attempts = 0 /\ NewItem.st = "queued"
    BY DEF NewItem
  <2>2. NewItem.attempts < uploadMaxAttempts /\ NewItem.attempts + 1 = 1
    BY <1>4, <2>1
  <2> QED
    BY <2>1, <2>2, FixedTypes
<1>12. \A i \in Items :
         \/ \E j \in 1..w : i = new[j] /\ queue'[i] = Begun(NewItem)
         \/ \E j \in (w + 1)..n : i = new[j] /\ queue'[i] = NewItem
         \/ (\A j \in 1..n : new[j] # i) /\ queue'[i] = queue[i]
  BY <1>3, <1>4 DEF StartedNext
<1>13. \A t \in Tasks :
         \/ \E j \in 1..w : t = worker[j] /\ task'[t] = Creating(b, new[j], 1)
         \/ (\A j \in 1..w : worker[j] # t) /\ task'[t] = task[t]
  BY <1>3 DEF StartedNext
<1>14. ASSUME NEW j \in 1..w
       PROVE  j \in 1..n /\ new[j] \in Items /\ Creating(b, new[j], 1) \in TaskSet
  <2>1. 1 \in 0..uploadMaxAttempts /\ j \in 1..n
    BY <1>4
  <2>2. new[j] \in Items /\ b \in Tasks \cup {None}
    BY <1>5, <1>7, <2>1
  <2> QED
    BY <2>1, <2>2, FixedTypes
<1>15. queue' \in [Items -> ItemSet]
  BY <1>1, <1>3, <1>11, <1>12
<1>16. task' \in [Tasks -> TaskSet]
  BY <1>1, <1>3, <1>13, <1>14
<1>17. ChainsTyped'
  BY <1>1, <1>3, <1>9, <1>10, <1>15, <1>16, TypesNext
<1>18. \A s \in Tasks : Busy(s) =>
         task[s].item \in Items /\ \A j \in 1..n : new[j] # task[s].item
  BY <1>1, <1>5 DEF ChainsInv, TaskRight, TaskSet
<1>19. rest[b] = <<>> /\ Len(rest[b]) = 0
  <2>1. ~ (1 \in 1..Len(rest[b]))
    BY <1>7 DEF ChainsInv, RestRight, PlaceRight
  <2> QED
    BY <1>1, <1>7, <2>1
<1>20. ASSUME NEW j \in 1..w
       PROVE  LET t == worker[j] IN
              /\ t \in Tasks /\ Busy(t)' /\ task'[t].item = new[j]
              /\ task'[t].batch = b /\ ~Waits(t, "wait")' /\ task'[t].attempt = 1
              /\ queue'[new[j]] = Begun(NewItem)
  <2>1. worker[j] \in Tasks /\ task'[worker[j]] = Creating(b, new[j], 1)
    BY <1>3, <1>6 DEF StartedNext
  <2>2. j \in 1..n
    BY <1>4
  <2>3. queue'[new[j]] = Begun(NewItem)
    BY <1>3, <2>2 DEF StartedNext
  <2> QED
    BY <2>1, <2>3 DEF Busy, Waits, Creating
<1>21. \A s \in Tasks : ~Busy(s) => task[s].item = None
  BY DEF ChainsInv, TaskRight
<1>22. ASSUME NEW s \in Tasks, \A j \in 1..w : worker[j] # s
       PROVE  task'[s] = task[s] /\ (Busy(s)' <=> Busy(s))
  BY <1>13, <1>22 DEF Busy
<1>23. \A i \in Items : (\A j \in 1..n : new[j] # i) => queue'[i] = queue[i]
  BY <1>3 DEF StartedNext
<1>24. ASSUME NEW s \in Tasks PROVE TaskRight(s)'
  <2>1. CASE \E j \in 1..w : worker[j] = s
    <3>1. PICK j \in 1..w : worker[j] = s
      BY <2>1
    <3>2. new[j] # None
      BY <1>14, NoneAssumption
    <3>3. /\ task'[s].item = new[j] /\ task'[s].attempt = 1 /\ Busy(s)'
          /\ ~Waits(s, "wait")' /\ queue'[new[j]] = Begun(NewItem)
      BY <1>20, <3>1
    <3> QED
      BY <1>11, <3>2, <3>3 DEF TaskRight, Busy, Waits
  <2>2. CASE (\A j \in 1..w : worker[j] # s) /\ Busy(s)
    <3>1. task'[s] = task[s] /\ queue'[task[s].item] = queue[task[s].item]
      BY <1>18, <1>22, <1>23, <2>2
    <3> QED
      BY <2>2, <3>1 DEF ChainsInv, TaskRight, Busy, Waits
  <2>3. CASE (\A j \in 1..w : worker[j] # s) /\ ~Busy(s)
    BY <1>22, <2>3 DEF ChainsInv, TaskRight, Busy, Waits
  <2> QED
    BY <2>1, <2>2, <2>3
<1>25. OneEach'
  <2>1. ASSUME NEW s \in Tasks, NEW r \in Tasks, Busy(s)', Busy(r)',
               task'[s].item = task'[r].item
        PROVE  s = r
    <3>1. CASE \E j \in 1..w, k \in 1..w : worker[j] = s /\ worker[k] = r
      <4>1. PICK j \in 1..w, k \in 1..w : worker[j] = s /\ worker[k] = r
        BY <3>1
      <4>2. new[j] = new[k] /\ j \in 1..n /\ k \in 1..n
        BY <1>14, <1>20, <2>1, <4>1
      <4> QED
        BY <1>5, <4>1, <4>2
    <3>2. CASE \E j \in 1..w : worker[j] = s /\ \A k \in 1..w : worker[k] # r
      <4>1. Busy(r) /\ task'[r].item = task[r].item
        BY <1>22, <2>1, <3>2
      <4> QED
        BY <1>14, <1>18, <1>20, <2>1, <3>2, <4>1
    <3>3. CASE \E j \in 1..w : worker[j] = r /\ \A k \in 1..w : worker[k] # s
      <4>1. Busy(s) /\ task'[s].item = task[s].item
        BY <1>22, <2>1, <3>3
      <4> QED
        <5>1. PICK j \in 1..w : worker[j] = r
          BY <3>3
        <5>2. task'[r].item = new[j] /\ j \in 1..n
          BY <1>14, <1>20, <5>1
        <5> QED
          BY <1>18, <2>1, <4>1, <5>2
    <3>4. CASE \A k \in 1..w : worker[k] # s /\ worker[k] # r
      <4>1. /\ Busy(s) /\ task'[s].item = task[s].item
            /\ Busy(r) /\ task'[r].item = task[r].item
        BY <1>22, <2>1, <3>4
      <4> QED
        BY <2>1, <4>1 DEF ChainsInv, OneEach
    <3> QED
      BY <3>1, <3>2, <3>3, <3>4
  <2> QED
    BY <2>1 DEF OneEach
<1>26. ASSUME NEW k \in 1..Len(left)
       PROVE  /\ w + k \in 1..n /\ w + k \notin 1..w /\ left[k] = new[w + k]
              /\ left[k] \in Items /\ queue'[left[k]] = NewItem
  <2>1. /\ w + k \in 1..n /\ w + k \notin 1..w /\ left[k] = new[w + k]
        /\ left[k] \in Items
    BY <1>4, <1>5, <1>9
  <2> QED
    BY <1>3, <2>1 DEF StartedNext
<1>27. ASSUME NEW c \in Tasks, NEW k \in 1..Len(rest[c])
       PROVE  /\ c # b /\ rest'[c] = rest[c] /\ rest[c][k] \in Items
              /\ \A j \in 1..n : new[j] # rest[c][k]
  <2>1. PlaceRight(c, k) /\ rest[c][k] \in Items
    BY <1>1 DEF ChainsInv, RestRight
  <2> QED
    BY <1>5, <1>10, <1>19, <2>1 DEF PlaceRight
<1>28. RestRight'
  <2>1. ASSUME NEW c \in Tasks, NEW k \in 1..Len(rest'[c]) PROVE PlaceRight(c, k)'
    <3>1. CASE c = b
      <4>1. worker[1] \in Tasks /\ task'[worker[1]].batch = b
        BY <1>4, <1>20
      <4> QED
        BY <1>10, <1>11, <1>26, <2>1, <3>1, <4>1 DEF PlaceRight
    <3>2. CASE c # b
      <4>1. k \in 1..Len(rest[c]) /\ rest'[c] = rest[c]
        BY <1>10, <3>2
      <4>2. PlaceRight(c, k) /\ queue'[rest[c][k]] = queue[rest[c][k]]
        BY <1>23, <1>27, <4>1 DEF ChainsInv, RestRight
      <4>3. PICK s \in Tasks : task[s].batch = c
        BY <4>2 DEF PlaceRight
      <4>4. \A j \in 1..w : worker[j] # s
        BY <1>6, <4>3, NoneAssumption DEF ChainsInv, TaskRight
      <4>5. task'[s] = task[s]
        BY <1>22, <4>4
      <4> QED
        BY <4>1, <4>2, <4>3, <4>5 DEF PlaceRight
    <3> QED
      BY <3>1, <3>2
  <2> QED
    BY <2>1 DEF RestRight
<1>29. ListedOnce'
  <2>1. ASSUME NEW c \in Tasks, NEW d \in Tasks, NEW k \in 1..Len(rest'[c]),
               NEW m \in 1..Len(rest'[d]), rest'[c][k] = rest'[d][m]
        PROVE  c = d /\ k = m
    <3>1. CASE c = b /\ d = b
      <4>1. new[w + k] = new[w + m] /\ w + k \in 1..n /\ w + m \in 1..n
        BY <1>10, <1>26, <2>1, <3>1
      <4>2. w + k = w + m
        BY <1>5, <4>1
      <4> QED
        BY <1>4, <3>1, <4>2
    <3>2. CASE c = b /\ d # b
      BY <1>10, <1>26, <1>27, <2>1, <3>2
    <3>3. CASE c # b /\ d = b
      BY <1>10, <1>26, <1>27, <2>1, <3>3
    <3>4. CASE c # b /\ d # b
      BY <1>10, <2>1, <3>4 DEF ChainsInv, ListedOnce
    <3> QED
      BY <3>1, <3>2, <3>3, <3>4
  <2> QED
    BY <2>1 DEF ListedOnce
<1>30. NoneForgotten'
  <2>1. ASSUME NEW i \in Items
        PROVE  /\ queue'[i].st = "uploading" => \E s \in Tasks : Holds(s, i)'
               /\ queue'[i].st = "queued" => \E c \in Tasks : Listed(c, i)'
    <3>1. CASE \E j \in 1..w : i = new[j]
      <4>1. PICK j \in 1..w : i = new[j]
        BY <3>1
      <4>2. /\ worker[j] \in Tasks /\ task'[worker[j]].item = i
            /\ queue'[i].st = "uploading"
        BY <1>11, <1>20, <4>1
      <4> QED
        BY <4>2 DEF Holds
    <3>2. CASE \E j \in (w + 1)..n : i = new[j]
      <4>1. PICK j \in (w + 1)..n : i = new[j]
        BY <3>2
      <4>2. j - w \in 1..(n - w) /\ w + (j - w) = j
        BY <1>4
      <4>3. left[j - w] = i /\ j - w \in 1..Len(left)
        BY <1>9, <4>1, <4>2
      <4>4. queue'[i].st = "queued"
        BY <1>11, <1>26, <4>3
      <4> QED
        BY <1>7, <1>10, <4>3, <4>4 DEF Listed
    <3>3. CASE (\A j \in 1..n : new[j] # i) /\ queue'[i] = queue[i]
      <4>1. ASSUME NEW s \in Tasks, Holds(s, i) PROVE Holds(s, i)'
        <5>1. \A j \in 1..w : worker[j] # s
          BY <1>6, <1>21, <4>1, NoneAssumption DEF Holds
        <5> QED
          BY <1>22, <4>1, <5>1 DEF Holds
      <4>2. ASSUME NEW c \in Tasks, Listed(c, i) PROVE Listed(c, i)'
        <5>1. PICK k \in 1..Len(rest[c]) : rest[c][k] = i
          BY <4>2 DEF Listed
        <5>2. rest'[c] = rest[c]
          BY <1>27
        <5> QED
          BY <5>1, <5>2 DEF Listed
      <4> QED
        BY <3>3, <4>1, <4>2 DEF ChainsInv, NoneForgotten
    <3> QED
      BY <1>12, <3>1, <3>2, <3>3
  <2> QED
    BY <2>1 DEF NoneForgotten
<1> QED
  BY <1>17, <1>24, <1>25, <1>28, <1>29, <1>30 DEF ChainsInv

-----------------------------------------------------------------------------
(* The steps of a chain *)

\* Once begun, a chain may change what it waits for and with which upload.
LEMMA BusyTask ==
  ASSUME ChainsInv, NEW t \in Tasks, Busy(t)
  PROVE  /\ task[t] \in TaskSet /\ task[t].item \in Items
         /\ queue[task[t].item] \in ItemSet
         /\ queue[task[t].item].st = "uploading"
         /\ queue[task[t].item].attempts <= task[t].attempt
         /\ task[t].attempt \in 0..uploadMaxAttempts
         /\ queue = [queue EXCEPT ![task[t].item] = queue[task[t].item]]
<1>1. queue \in [Items -> ItemSet] /\ task \in [Tasks -> TaskSet]
  BY Types DEF ChainsInv
<1>2. task[t].item \in Items /\ task[t].attempt \in 0..uploadMaxAttempts
  BY <1>1 DEF ChainsInv, TaskRight, TaskSet
<1> QED
  BY <1>1, <1>2 DEF ChainsInv, TaskRight

\* An item that is done.
LEMMA DoneKeeps ==
  ASSUME ChainsInv, NEW t \in Tasks, Busy(t), NEW u \in Uploads,
         sent' \subseteq Uploads, Done(t, u)
  PROVE  ChainsInv'
<1>1. Item(t) \in ItemSet
  BY BusyTask DEF Item
<1>2. PICK it : it = [Item(t) EXCEPT !.st = "done", !.url = u]
  OBVIOUS
<1>3. it \in ItemSet /\ it.st \in {"done", "error"}
  BY <1>1, <1>2 DEF ItemSet
<1> QED
  BY <1>2, <1>3, ChainThrough DEF Done

\* A POST that reaches the server keeps the invariant.
LEMMA PostAcceptedKeeps ==
  ASSUME ChainsInv, NEW t \in Tasks, PostAccepted(t)
  PROVE  ChainsInv'
<1>1. /\ Busy(t) /\ task[t].step = "create" /\ UNCHANGED <<queue, rest>>
  BY DEF PostAccepted, Waits, Busy
<1>2. PICK u \in Uploads :
        /\ task' = [task EXCEPT ![t].up = u]
        /\ sent' = IF Length[u] = 0 THEN sent \cup {u} ELSE sent
  BY DEF PostAccepted
<1>3. sent' \subseteq Uploads
  BY <1>2, Types DEF ChainsInv
<1>4. PICK d \in TaskSet : d = task[t]
  BY <1>1, BusyTask
<1>5. PICK c : c = [d EXCEPT !.up = u]
  OBVIOUS
<1>6. /\ c \in TaskSet /\ c.step = "create" /\ c.item = d.item
      /\ c.batch = d.batch /\ c.attempt = d.attempt
  BY <1>1, <1>4, <1>5 DEF TaskSet
<1>7. task' = [task EXCEPT ![t] = c]
  BY <1>2, <1>4, <1>5
<1>8. PICK it \in ItemSet : it = queue[task[t].item]
  BY <1>1, BusyTask
<1>9. it.st = "uploading" /\ it.attempts <= c.attempt
  BY <1>1, <1>4, <1>6, <1>8, BusyTask
<1>10. queue' = [queue EXCEPT ![task[t].item] = it]
  BY <1>1, <1>8, BusyTask
<1> QED
  BY <1>1, <1>3, <1>4, <1>6, <1>7, <1>9, <1>10, ChainStays

\* So does its answer.
LEMMA PostAnsweredKeeps ==
  ASSUME ChainsInv, NEW t \in Tasks, PostAnswered(t)
  PROVE  ChainsInv'
<1>1. Busy(t) /\ task[t].step = "create"
  BY DEF PostAnswered, Waits, Busy
<1>2. PICK u \in Uploads : u = task[t].up
  BY <1>1, BusyTask DEF PostAnswered, TaskSet
<1>3. sent' \subseteq Uploads
  BY <1>2, Types DEF ChainsInv, PostAnswered
<1>4. CASE Size[task[t].item] = 0
  BY <1>1, <1>2, <1>3, <1>4, DoneKeeps DEF PostAnswered
<1>5. CASE Size[task[t].item] # 0
  <2>1. /\ queue' = [queue EXCEPT ![task[t].item].url = u]
        /\ task' = [task EXCEPT ![t].step = "patch"] /\ rest' = rest
    BY <1>2, <1>5 DEF PostAnswered
  <2>2. PICK d \in TaskSet : d = task[t]
    BY <1>1, BusyTask
  <2>3. PICK c : c = [d EXCEPT !.step = "patch"]
    OBVIOUS
  <2>4. /\ c \in TaskSet /\ c.step = "patch" /\ c.item = d.item
        /\ c.batch = d.batch /\ c.attempt = d.attempt
    BY <2>2, <2>3 DEF TaskSet
  <2>5. task' = [task EXCEPT ![t] = c]
    BY <2>1, <2>2, <2>3
  <2>6. PICK q \in ItemSet : q = queue[task[t].item]
    BY <1>1, BusyTask
  <2>7. PICK it : it = [q EXCEPT !.url = u]
    OBVIOUS
  <2>8. it \in ItemSet /\ it.st = q.st /\ it.attempts = q.attempts
    BY <2>6, <2>7 DEF ItemSet
  <2>9. it.st = "uploading" /\ it.attempts <= c.attempt
    BY <1>1, <2>2, <2>4, <2>6, <2>8, BusyTask
  <2>10. queue' = [queue EXCEPT ![task[t].item] = it]
    BY <2>1, <2>6, <2>7
  <2> QED
    <3>1. /\ c.step # "free" /\ c.item = task[t].item /\ c.batch = task[t].batch
          /\ (c.step = "wait" => c.attempt < uploadMaxAttempts)
      BY <2>2, <2>4
    <3>2. PICK i : i = task[t].item
      OBVIOUS
    <3>3. queue' = [queue EXCEPT ![i] = it]
      BY <2>10, <3>2
    <3>4. Busy(t) /\ c \in TaskSet /\ it \in ItemSet /\ rest' = rest
      BY <1>1, <2>1, <2>4, <2>8
    <3> QED
      BY <1>3, <2>5, <2>9, <3>1, <3>2, <3>3, <3>4, ChainStays
<1> QED
  BY <1>4, <1>5

\* A chain that stays with its item and makes its next call.
LEMMA NextCallKeeps ==
  ASSUME ChainsInv, NEW t \in Tasks, Busy(t), sent' \subseteq Uploads,
         UNCHANGED <<queue, rest>>, NEW s \in {"patch", "part", "whole"},
         task' = [task EXCEPT ![t].step = s]
  PROVE  ChainsInv'
<1>1. PICK d \in TaskSet : d = task[t]
  BY BusyTask
<1>2. PICK c : c = [d EXCEPT !.step = s]
  OBVIOUS
<1>3. /\ c \in TaskSet /\ c.step = s /\ c.item = d.item
      /\ c.batch = d.batch /\ c.attempt = d.attempt
  BY <1>1, <1>2 DEF TaskSet
<1>4. task' = [task EXCEPT ![t] = c]
  BY <1>1, <1>2
<1>5. PICK it \in ItemSet : it = queue[task[t].item]
  BY BusyTask
<1>6. it.st = "uploading" /\ it.attempts <= c.attempt
  BY <1>1, <1>3, <1>5, BusyTask
<1>7. queue' = [queue EXCEPT ![task[t].item] = it]
  BY <1>5, BusyTask
<1>8. /\ c.step # "free" /\ c.item = task[t].item /\ c.batch = task[t].batch
      /\ (c.step = "wait" => c.attempt < uploadMaxAttempts)
  BY <1>1, <1>3
<1> QED
  BY <1>3, <1>4, <1>6, <1>7, <1>8, ChainStays

\* The answers to PATCH and HEAD, on the server and in the client.
LEMMA CallServedKeeps ==
  ASSUME ChainsInv, UploadKnown, NEW t \in Tasks,
         PatchServed(t) \/ HeadServed(t) \/ WholeAnswered(t) \/ PartAnswered(t)
  PROVE  ChainsInv'
<1>1. Busy(t) /\ task[t].up # None
  BY DEF PatchServed, HeadServed, WholeAnswered, PartAnswered, Waits, Busy,
         UploadKnown
<1>2. PICK u \in Uploads : u = task[t].up
  BY <1>1, BusyTask DEF TaskSet
<1>3. sent' \subseteq Uploads
  BY <1>2, Types
     DEF ChainsInv, PatchServed, HeadServed, WholeAnswered, PartAnswered
<1>4. CASE PatchServed(t)
  BY <1>1, <1>3, <1>4, NextCallKeeps DEF PatchServed
<1>5. CASE HeadServed(t)
  <2>1. PICK s \in {"part", "whole"} : task' = [task EXCEPT ![t].step = s]
    BY <1>5 DEF HeadServed
  <2> QED
    BY <1>1, <1>3, <1>5, <2>1, NextCallKeeps DEF HeadServed
<1>6. CASE PartAnswered(t)
  BY <1>1, <1>3, <1>6, NextCallKeeps DEF PartAnswered
<1>7. CASE WholeAnswered(t)
  BY <1>1, <1>2, <1>3, <1>7, DoneKeeps DEF WholeAnswered
<1> QED
  BY <1>4, <1>5, <1>6, <1>7

\* A call that fails.
LEMMA CallFailsKeeps ==
  ASSUME ChainsInv, NEW t \in Tasks, CallFails(t)
  PROVE  ChainsInv'
<1>1. Busy(t) /\ sent' = sent
  BY DEF CallFails, Busy
<1>2. sent' \subseteq Uploads
  BY <1>1, Types DEF ChainsInv
<1>3. CASE task[t].attempt < uploadMaxAttempts
  <2>1. /\ task' = [task EXCEPT ![t].step = "wait", ![t].up = None]
        /\ UNCHANGED <<queue, rest>>
    BY <1>3 DEF CallFails
  <2>2. PICK d \in TaskSet : d = task[t]
    BY <1>1, BusyTask
  <2>3. PICK c : c = [d EXCEPT !.step = "wait", !.up = None]
    OBVIOUS
  <2>4. /\ c \in TaskSet /\ c.step = "wait" /\ c.item = d.item
        /\ c.batch = d.batch /\ c.attempt = d.attempt
    BY <2>2, <2>3 DEF TaskSet
  <2>5. task' = [task EXCEPT ![t] = c]
    BY <2>1, <2>2, <2>3
  <2>6. PICK it \in ItemSet : it = queue[task[t].item]
    BY <1>1, BusyTask
  <2>7. /\ it.st = "uploading" /\ it.attempts <= c.attempt
        /\ c.attempt < uploadMaxAttempts
    BY <1>1, <1>3, <2>2, <2>4, <2>6, BusyTask
  <2>8. queue' = [queue EXCEPT ![task[t].item] = it]
    BY <1>1, <2>1, <2>6, BusyTask
  <2> QED
    <3>1. c.step # "free" /\ c.item = task[t].item /\ c.batch = task[t].batch
      BY <2>2, <2>4
    <3> QED
      BY <1>1, <1>2, <2>1, <2>4, <2>5, <2>7, <2>8, <3>1, ChainStays
<1>4. CASE ~(task[t].attempt < uploadMaxAttempts)
  <2>1. Through(t, [Item(t) EXCEPT !.st = "error"])
    BY <1>4 DEF CallFails
  <2>2. Item(t) \in ItemSet
    BY <1>1, BusyTask DEF Item
  <2>3. PICK it : it = [Item(t) EXCEPT !.st = "error"]
    OBVIOUS
  <2>4. it \in ItemSet /\ it.st \in {"done", "error"}
    BY <2>2, <2>3 DEF ItemSet
  <2> QED
    BY <1>1, <1>2, <2>1, <2>3, <2>4, ChainThrough
<1> QED
  BY <1>3, <1>4

\* The end of the wait before another attempt.
LEMMA TryAgainKeeps ==
  ASSUME ChainsInv, NEW t \in Tasks, TryAgain(t)
  PROVE  ChainsInv'
<1>1. Busy(t) /\ sent' = sent /\ rest' = rest /\ task[t].step = "wait"
  BY DEF TryAgain, Waits, Busy
<1>2. sent' \subseteq Uploads
  BY <1>1, Types DEF ChainsInv
<1>3. PICK d \in TaskSet : d = task[t]
  BY <1>1, BusyTask
<1>4. PICK i \in Items : i = d.item
  BY <1>1, <1>3, BusyTask
<1>5. PICK q \in ItemSet : q = queue[i]
  BY <1>1, <1>3, <1>4, BusyTask
<1>6. q.attempts < uploadMaxAttempts
  <2>1. q.attempts <= d.attempt /\ d.attempt \in Nat /\ q.attempts \in Nat
    BY <1>1, <1>3, <1>4, <1>5, BusyTask DEF ItemSet
  <2>2. d.attempt < uploadMaxAttempts
    BY <1>1, <1>3 DEF ChainsInv, TaskRight, Waits
  <2>3. uploadMaxAttempts \in Nat
    BY AttemptsAssumption
  <2> QED
    BY <2>1, <2>2, <2>3
<1>7. PICK it : it = Begun(q)
  OBVIOUS
<1>8. it \in ItemSet /\ it.st = "uploading" /\ it.attempts = q.attempts + 1
  BY <1>6, <1>7, FixedTypes
<1>9. PICK c : c = Creating(d.batch, i, q.attempts + 1)
  OBVIOUS
<1>10. /\ c \in TaskSet /\ c.step = "create" /\ c.item = d.item
       /\ c.batch = d.batch /\ c.attempt = q.attempts + 1
  <2>1. q.attempts + 1 \in 0..uploadMaxAttempts
    BY <1>6, AttemptsAssumption DEF ItemSet
  <2>2. d.batch \in Tasks \cup {None}
    BY DEF TaskSet
  <2> QED
    BY <1>4, <1>9, <2>1, <2>2, FixedTypes DEF Creating
<1>11. it.attempts <= c.attempt
  BY <1>8, <1>10 DEF ItemSet
<1>12. queue' = [queue EXCEPT ![i] = it] /\ task' = [task EXCEPT ![t] = c]
  BY <1>3, <1>4, <1>5, <1>7, <1>9 DEF TryAgain
<1> QED
  BY <1>1, <1>2, <1>3, <1>4, <1>8, <1>10, <1>11, <1>12, ChainStays

-----------------------------------------------------------------------------
(* Every step *)

\* Only what the panel shows and the chains matters to their invariant.
LEMMA ChainsUnchanged == ChainsInv /\ UNCHANGED queueVars => ChainsInv'
<1> SUFFICES ASSUME ChainsInv, UNCHANGED queueVars PROVE ChainsInv'
  OBVIOUS
<1>1. UNCHANGED <<queue, rest, task, sent>>
  BY DEF queueVars
<1>2. ChainsTyped'
  BY <1>1 DEF ChainsInv, ChainsTyped
<1>3. \A t \in Tasks : TaskRight(t)'
  BY <1>1 DEF ChainsInv, TaskRight, Busy, Waits
<1>4. OneEach' /\ ListedOnce'
  BY <1>1 DEF ChainsInv, OneEach, ListedOnce, Busy
<1>5. RestRight'
  BY <1>1 DEF ChainsInv, RestRight, PlaceRight
<1>6. NoneForgotten'
  BY <1>1 DEF ChainsInv, NoneForgotten, Holds, Listed
<1> QED
  BY <1>2, <1>3, <1>4, <1>5, <1>6 DEF ChainsInv

\* Every step keeps the invariant of the chains.
LEMMA ChainsStep ==
  ASSUME ChainsInv, UploadKnown, [UploadsNext]_uploadVars
  PROVE  ChainsInv'
<1>1. CASE UNCHANGED uploadVars
  BY <1>1, ChainsUnchanged DEF uploadVars
<1>2. CASE \E n \in Items : UploadFiles(n)
  BY <1>2, UploadFilesKeeps
<1>3. CASE \E i \in Items : Retry(i)
  BY <1>3, RetryKeeps
<1>4. CASE ClearCompleted
  BY <1>4, ClearKeeps
<1>5. CASE Reload
  BY <1>5, ReloadKeeps
<1>6. ASSUME NEW t \in Tasks, GoesOn(t) PROVE ChainsInv'
  <2>1. CASE PostAccepted(t)
    BY <2>1, PostAcceptedKeeps
  <2>2. CASE PostAnswered(t)
    BY <2>2, PostAnsweredKeeps
  <2>3. CASE PatchServed(t) \/ HeadServed(t) \/ WholeAnswered(t) \/ PartAnswered(t)
    BY <2>3, CallServedKeeps
  <2>4. CASE CallFails(t)
    BY <2>4, CallFailsKeeps
  <2>5. CASE TryAgain(t)
    BY <2>5, TryAgainKeeps
  <2> QED
    BY <1>6, <2>1, <2>2, <2>3, <2>4, <2>5 DEF GoesOn
<1>7. CASE ServerGoesOn
  BY <1>7, ChainsUnchanged DEF ServerGoesOn
<1> QED
  BY <1>1, <1>2, <1>3, <1>4, <1>5, <1>6, <1>7
     DEF UploadsNext, UploadsUser, UploadPanel

\* One chain at most works on an item, or one batch keeps it: the sets of
\* ChainsMatchQueue have at most one member.
LEMMA ChainsCounted == ChainsInv => ChainsMatchQueue
<1> SUFFICES ASSUME ChainsInv, NEW i \in Items
             PROVE  LET at    == {t \in Tasks : Holds(t, i)}
                        lists == {b \in Tasks : Listed(b, i)}
                    IN IF queue[i].st \in {"queued", "uploading"}
                         THEN /\ Cardinality(at) + Cardinality(lists) = 1
                              /\ \A b \in lists : \E t \in Tasks : task[t].batch = b
                         ELSE at = {} /\ lists = {}
  BY DEF ChainsMatchQueue
<1>1. PICK at : at = {t \in Tasks : Holds(t, i)}
  OBVIOUS
<1>2. PICK lists : lists = {b \in Tasks : Listed(b, i)}
  OBVIOUS
<1>3. ASSUME NEW t \in at
      PROVE  /\ t \in Tasks /\ Busy(t) /\ task[t].item = i
             /\ queue[i].st = "uploading"
  <2>1. t \in Tasks /\ task[t].item = i
    BY <1>1 DEF Holds
  <2>2. i # None
    BY NoneAssumption
  <2> QED
    BY <2>1, <2>2 DEF ChainsInv, TaskRight
<1>4. ASSUME NEW b \in lists
      PROVE  /\ b \in Tasks /\ (\E k \in 1..Len(rest[b]) : rest[b][k] = i)
             /\ queue[i].st = "queued" /\ \E t \in Tasks : task[t].batch = b
  <2>1. PICK k \in 1..Len(rest[b]) : rest[b][k] = i
    BY <1>2 DEF Listed
  <2>2. b \in Tasks
    BY <1>2
  <2>3. PlaceRight(b, k)
    BY <2>1, <2>2 DEF ChainsInv, RestRight
  <2> QED
    BY <2>1, <2>2, <2>3 DEF PlaceRight
<1>5. Cardinality({}) = 0 /\ \A x : Cardinality({x}) = 1
  BY FS_EmptySet, FS_Singleton
<1>6. CASE queue[i].st = "uploading"
  <2>1. lists = {}
    BY <1>4, <1>6
  <2>2. PICK t \in at : TRUE
    BY <1>1, <1>6 DEF ChainsInv, NoneForgotten
  <2>3. \A s \in at : s = t
    <3>1. OneEach
      BY DEF ChainsInv
    <3> QED
      BY <1>3, <2>2, <3>1 DEF OneEach
  <2>4. at = {t}
    BY <2>2, <2>3
  <2>5. Cardinality(at) = 1 /\ Cardinality(lists) = 0
    BY <1>5, <2>1, <2>4
  <2> QED
    BY <1>1, <1>2, <1>6, <2>1, <2>5
<1>7. CASE queue[i].st = "queued"
  <2>1. at = {}
    BY <1>3, <1>7
  <2>2. PICK b \in lists : TRUE
    BY <1>2, <1>7 DEF ChainsInv, NoneForgotten
  <2>3. \A c \in lists : c = b
    <3>1. ListedOnce
      BY DEF ChainsInv
    <3> QED
      BY <1>4, <2>2, <3>1 DEF ListedOnce
  <2>4. lists = {b}
    BY <2>2, <2>3
  <2>5. Cardinality(at) = 0 /\ Cardinality(lists) = 1
    BY <1>5, <2>1, <2>4
  <2> QED
    BY <1>1, <1>2, <1>4, <1>7, <2>5
<1>8. CASE queue[i].st \notin {"queued", "uploading"}
  BY <1>1, <1>2, <1>3, <1>4, <1>8
<1> QED
  BY <1>6, <1>7, <1>8

-----------------------------------------------------------------------------
(* The server *)

\* Whatever the client does, its server takes steps of UploadPromise, and what
\* they receive is remembered.
LEMMA PromiseStep ==
  ASSUME ServerRight, ChainsTyped, UploadKnown, [UploadsNext]_uploadVars
  PROVE  [PromiseNext]_promise /\ (UNCHANGED serverSide \/ Receives)
<1>1. CASE UNCHANGED uploadVars
  BY <1>1 DEF uploadVars, serverSide
<1>2. CASE UploadsUser
  BY <1>2 DEF UploadsUser, UploadPanel, UploadFiles, Retry, ClearCompleted,
              Reload, serverSide
<1>3. ASSUME NEW t \in Tasks, GoesOn(t)
      PROVE  [PromiseNext]_promise /\ (UNCHANGED serverSide \/ Receives)
  <2>1. CASE PostAccepted(t)
    <3>1. PICK u \in Uploads : Accept(u, 0)
      BY <2>1 DEF PostAccepted
    <3>2. 0 \in 0..Length[u]
      BY LengthAssumption
    <3> QED
      BY <2>1, <3>1, <3>2 DEF PromiseNext, PostAccepted
  <2>2. CASE PatchServed(t)
    <3>1. CASE status[task[t].up] = "done" /\ UNCHANGED serverSide
      BY <3>1 DEF serverSide
    <3>2. CASE (\E n \in Names : Confirm(task[t].up, n)) /\ Receives
      <4>1. task[t].up \in Uploads
        BY <2>2 DEF PatchServed, Waits, UploadKnown, ChainsTyped, TaskSet
      <4> QED
        BY <3>2, <4>1 DEF PromiseNext
    <3> QED
      BY <2>2, <3>1, <3>2 DEF PatchServed
  <2>3. CASE PostAnswered(t) \/ HeadServed(t) \/ WholeAnswered(t)
             \/ PartAnswered(t) \/ CallFails(t) \/ TryAgain(t)
    BY <2>3 DEF PostAnswered, HeadServed, WholeAnswered, PartAnswered, CallFails,
                TryAgain, serverSide
  <2> QED
    BY <1>3, <2>1, <2>2, <2>3 DEF GoesOn
<1>4. CASE ServerGoesOn
  <2>0. sent \subseteq Uploads
    BY DEF ChainsTyped
  <2>1. ASSUME NEW u \in sent, Acknowledge(u, got[u] + 1) PROVE PromiseNext
    <3>1. u \in Uploads /\ got[u] \in Nat /\ Length[u] \in Nat
      BY <2>0, LengthAssumption DEF ServerRight
    <3>2. got[u] + 1 \in 0..Length[u]
      BY <2>1, <3>1 DEF Acknowledge
    <3> QED
      BY <2>1, <3>1, <3>2 DEF PromiseNext
  <2>2. ASSUME NEW u \in sent, NEW n \in FreeNames, Land(u, n) PROVE PromiseNext
    <3>1. u \in Uploads /\ n \in Names
      BY <2>0 DEF FreeNames
    <3> QED
      BY <2>2, <3>1 DEF PromiseNext
  <2>3. ASSUME NEW u \in sent, NEW n \in Names, Confirm(u, n) PROVE PromiseNext
    <3>1. u \in Uploads
      BY <2>0
    <3> QED
      BY <2>3, <3>1 DEF PromiseNext
  <2>4. ASSUME NEW u \in Uploads, GiveUp(u) \/ Forget(u) PROVE PromiseNext
    BY <2>4 DEF PromiseNext
  <2> QED
    BY <1>4, <2>1, <2>2, <2>3, <2>4 DEF ServerGoesOn
<1> QED
  BY <1>1, <1>2, <1>3, <1>4 DEF UploadsNext

\* At the start the server holds no upload.
LEMMA ServerInit == UploadsInit => ServerRight
BY LengthAssumption DEF UploadsInit, PromiseInit, ServerRight

\* What a step of the promise does to what an upload is and has.
LEMMA PromiseSteps ==
  ASSUME ServerRight, PromiseNext, NEW v \in Uploads
  PROVE  /\ status' \in [Uploads -> {"none", "open", "done", "gone", "forgotten"}]
         /\ got' \in [Uploads -> Nat] /\ got'[v] <= Length[v]
         /\ status[v] # "none" => status'[v] # "none"
         /\ status'[v] = "done"
              => \/ status[v] = "done"
                 \/ status[v] = "open" /\ got[v] = Length[v]
         /\ status[v] = "none" /\ status'[v] # "none"
              => status'[v] = "open" /\ got'[v] \in Nat
<1>1. ASSUME NEW u \in Uploads, NEW k \in 0..Length[u],
             Accept(u, k) \/ Acknowledge(u, k)
      PROVE  /\ k \in Nat /\ k <= Length[u] /\ got' = [got EXCEPT ![u] = k]
             /\ \/ status[u] = "none" /\ status' = [status EXCEPT ![u] = "open"]
                \/ status' = status
  BY <1>1, LengthAssumption DEF Accept, Acknowledge
<1>2. ASSUME NEW u \in Uploads, NEW n \in Names,
             Land(u, n) \/ Withdraw(u, n) \/ Contest(n)
      PROVE  UNCHANGED <<status, got>>
  BY <1>2 DEF Land, Withdraw, Contest
<1>3. ASSUME NEW u \in Uploads, NEW n \in Names, Confirm(u, n)
      PROVE  /\ status[u] = "open" /\ got[u] = Length[u] /\ got' = got
             /\ status' = [status EXCEPT ![u] = "done"]
  BY <1>3 DEF Confirm
<1>4. ASSUME NEW u \in Uploads, GiveUp(u) \/ Forget(u)
      PROVE  /\ got' = [got EXCEPT ![u] = 0] /\ status[u] # "none"
             /\ \/ status' = [status EXCEPT ![u] = "gone"]
                \/ status' = [status EXCEPT ![u] = "forgotten"]
  BY <1>4 DEF GiveUp, Forget
<1>5. Length[v] \in Nat
  BY LengthAssumption
<1>6. ASSUME NEW n \in Names, Contest(n) PROVE UNCHANGED <<status, got>>
  BY <1>6 DEF Contest
<1> QED
  BY <1>1, <1>2, <1>3, <1>4, <1>5, <1>6 DEF PromiseNext, ServerRight

\* The promise is enough for what the client relies on, and nothing is
\* un-received.
LEMMA ServerStep ==
  ASSUME ServerRight, [PromiseNext]_promise, UNCHANGED serverSide \/ Receives
  PROVE  /\ ServerRight' /\ received \subseteq received'
         /\ \A v \in Uploads : status[v] # "none" => status'[v] # "none"
<1>1. CASE UNCHANGED serverSide
  BY <1>1 DEF serverSide, promise, ServerRight
<1>2. CASE UNCHANGED promise /\ Receives
  BY <1>2 DEF promise, ServerRight, Receives
<1>3. CASE PromiseNext /\ Receives
  <2>1. received \subseteq received' /\ received' \subseteq Uploads
    BY <1>3 DEF Receives, ServerRight
  <2>2. ASSUME NEW v \in Uploads
        PROVE  /\ got'[v] <= Length[v] /\ (status[v] # "none" => status'[v] # "none")
               /\ status'[v] = "open" /\ got'[v] = Length[v] => v \in received'
               /\ status'[v] = "done" => v \in received'
               /\ status'[v] # "none" /\ Length[v] = 0 => v \in received'
    <3>1. status'[v] = "open" /\ got'[v] = Length[v] => v \in received'
      BY <1>3 DEF Receives
    <3>2. status'[v] = "done" => v \in received'
      BY <1>3, <2>1, PromiseSteps DEF ServerRight
    <3>3. status'[v] # "none" /\ Length[v] = 0 => v \in received'
      <4>1. CASE status[v] # "none"
        BY <2>1, <4>1 DEF ServerRight
      <4>2. CASE status[v] = "none"
        BY <1>3, <3>1, <4>2, PromiseSteps
      <4> QED
        BY <4>1, <4>2
    <3> QED
      BY <1>3, <3>1, <3>2, <3>3, PromiseSteps
  <2>3. /\ status' \in [Uploads -> {"none", "open", "done", "gone", "forgotten"}]
        /\ got' \in [Uploads -> Nat]
    <3>1. CASE Uploads = {}
      BY <1>3, <3>1 DEF PromiseNext, Contest, ServerRight
    <3> QED
      BY <1>3, <3>1, PromiseSteps
  <2> QED
    BY <2>1, <2>2, <2>3 DEF ServerRight
<1> QED
  BY <1>1, <1>2, <1>3

-----------------------------------------------------------------------------
(* What is received when an item is done *)

\* Uploads stay with their items when a step gives none of them to another.
LEMMA ForOneStays ==
  ASSUME ForOne, \A v \in Uploads : status[v] # "none" => status'[v] # "none",
         \A v \in Uploads, j \in Items : For(v, j)' => For(v, j)
  PROVE  ForOne'
BY DEF ForOne

\* The uploads the chains and items stand for stay right when a chain is
\* through with its item.
LEMMA ThroughUploads ==
  ASSUME ReceivedInv, NEW t \in Tasks, Busy(t), NEW it \in ItemSet,
         it.url # None => For(it.url, task[t].item),
         it.st = "done" => it.url \in received,
         Through(t, it), UNCHANGED serverSide
  PROVE  UploadsRight'
<1>1. /\ queue \in [Items -> ItemSet] /\ task \in [Tasks -> TaskSet]
      /\ (\A b \in Tasks : rest[b] \in Seq(Items))
  BY Types DEF ReceivedInv, ChainsInv
<1>2. PICK i \in Items : i = task[t].item
  BY BusyTask DEF ReceivedInv
<1>3. queue[i].st = "uploading" /\ status' = status /\ received' = received
  BY <1>2, BusyTask DEF ReceivedInv, serverSide, promise
<1>4. PICK b \in Tasks \cup {None} : b = task[t].batch
  BY <1>1 DEF TaskSet
<1>5. PICK n : n = NextOf(b)
  OBVIOUS
<1>6. /\ \A s \in Tasks \ {t} : task'[s] = task[s]
      /\ task'[t].up = None /\ task'[t].step \in {"free", "create"}
      /\ queue'[i] = it
      /\ \A j \in Items \ {i} :
           /\ queue'[j].url = queue[j].url
           /\ queue'[j].st # queue[j].st => queue'[j].st = "uploading"
  <2>1. CASE n = None
    <3>1. task' = [task EXCEPT ![t] = FreeTask] /\ queue' = [queue EXCEPT ![i] = it]
      BY <1>2, <1>4, <1>5, <2>1 DEF Through
    <3> QED
      BY <1>1, <1>2, <3>1 DEF FreeTask
  <2>2. CASE n # None
    <3>1. b \in Tasks /\ rest[b] # <<>> /\ n = Head(rest[b])
      BY <1>4, <1>5, <2>2 DEF NextOf
    <3>2. n = rest[b][1] /\ n \in Items /\ 1 \in 1..Len(rest[b])
      BY <1>1, <3>1, TailOf
    <3>3. queue[n].st = "queued"
      BY <3>1, <3>2 DEF ReceivedInv, ChainsInv, RestRight, PlaceRight
    <3>4. /\ task' = [task EXCEPT ![t] = Creating(b, n, queue[n].attempts + 1)]
          /\ queue' = [queue EXCEPT ![i] = it, ![n] = Begun(queue[n])]
      BY <1>2, <1>4, <1>5, <2>2 DEF Through
    <3>5. /\ \A s \in Tasks \ {t} : task'[s] = task[s]
          /\ task'[t] = Creating(b, n, queue[n].attempts + 1)
      BY <1>1, <3>4
    <3>6. /\ n # i /\ queue'[n] = Begun(queue[n]) /\ queue'[i] = it
          /\ \A j \in Items \ {i, n} : queue'[j] = queue[j]
      BY <1>1, <1>3, <3>2, <3>3, <3>4
    <3>7. Begun(queue[n]).st = "uploading" /\ Begun(queue[n]).url = queue[n].url
      <4>1. PICK q \in ItemSet : q = queue[n]
        BY <1>1, <3>2
      <4> QED
        BY <4>1 DEF Begun, ItemSet
    <3>8. \A j \in Items \ {i} :
            /\ queue'[j].url = queue[j].url
            /\ queue'[j].st # queue[j].st => queue'[j].st = "uploading"
      BY <3>6, <3>7
    <3>9. task'[t].up = None /\ task'[t].step = "create"
      BY <3>5 DEF Creating
    <3> QED
      BY <3>5, <3>6, <3>8, <3>9
  <2> QED
    BY <2>1, <2>2
<1>7. UploadKnown' /\ WholeRight'
  BY <1>3, <1>6 DEF ReceivedInv, UploadsRight, UploadKnown, WholeRight, Waits
<1>8. ASSUME NEW v \in Uploads, NEW j \in Items, For(v, j)' PROVE For(v, j)
  <2>1. CASE queue'[j].url = v
    BY <1>2, <1>6, <2>1, NoneAssumption DEF For
  <2>2. ASSUME NEW s \in Tasks, task'[s].up = v, task'[s].item = j
        PROVE  For(v, j)
    BY <1>6, <2>2, NoneAssumption DEF For
  <2> QED
    BY <1>8, <2>1, <2>2 DEF For
<1>9. ForOne'
  BY <1>3, <1>8, ForOneStays DEF ReceivedInv, UploadsRight
<1>10. DoneRight'
  BY <1>3, <1>6 DEF ReceivedInv, UploadsRight, DoneRight
<1> QED
  BY <1>7, <1>9, <1>10 DEF UploadsRight

\* A chain stays with its item, which has its upload or the one kept before.
StaysWith(t, c, it) ==
  /\ task' = [task EXCEPT ![t] = c] /\ c.item = task[t].item
  /\ c.up \in {None, task[t].up}
  /\ c.step \in {"patch", "head", "part", "whole"} => c.up # None
  /\ c.step = "whole" => c.up \in received'
  /\ it.st = "uploading"
  /\ it.url = queue[task[t].item].url \/ it.url = task[t].up
  /\ queue' = [queue EXCEPT ![task[t].item] = it]

LEMMA StayUploads ==
  ASSUME ReceivedInv, NEW t \in Tasks, Busy(t), NEW c \in TaskSet,
         NEW it \in ItemSet, StaysWith(t, c, it), received \subseteq received',
         \A v \in Uploads : status[v] # "none" => status'[v] # "none"
  PROVE  UploadsRight'
<1> USE DEF StaysWith
<1> DEFINE i == task[t].item
<1>1. queue \in [Items -> ItemSet] /\ task \in [Tasks -> TaskSet]
  BY Types DEF ReceivedInv, ChainsInv
<1>2. i \in Items
  BY BusyTask DEF ReceivedInv
<1>3. /\ task'[t] = c /\ (\A s \in Tasks \ {t} : task'[s] = task[s])
      /\ queue'[i] = it /\ (\A j \in Items \ {i} : queue'[j] = queue[j])
  BY <1>1, <1>2
<1>4. UploadKnown' /\ WholeRight'
  BY <1>3 DEF ReceivedInv, UploadsRight, UploadKnown, WholeRight, Waits
<1>5. ASSUME NEW v \in Uploads, NEW j \in Items, For(v, j)' PROVE For(v, j)
  <2>1. CASE queue'[j].url = v
    <3>1. CASE j = i
      BY <1>2, <1>3, <2>1, <3>1 DEF For
    <3>2. CASE j # i
      BY <1>3, <2>1, <3>2 DEF For
    <3> QED
      BY <3>1, <3>2
  <2>2. ASSUME NEW s \in Tasks, task'[s].up = v, task'[s].item = j
        PROVE  For(v, j)
    BY <1>3, <2>2, NoneAssumption DEF For
  <2> QED
    BY <1>5, <2>1, <2>2 DEF For
<1>6. ForOne'
  BY <1>5, ForOneStays DEF ReceivedInv, UploadsRight
<1>7. DoneRight'
  BY <1>2, <1>3 DEF ReceivedInv, UploadsRight, DoneRight
<1> QED
  BY <1>4, <1>6, <1>7 DEF UploadsRight

\* An item that becomes done has an upload with all its bytes.
LEMMA DoneUploads ==
  ASSUME ReceivedInv, NEW t \in Tasks, Busy(t), NEW u \in Uploads, Done(t, u),
         UNCHANGED serverSide, u = task[t].up, u \in received
  PROVE  UploadsRight'
<1>1. Item(t) \in ItemSet
  BY BusyTask DEF ReceivedInv, Item
<1>2. PICK it : it = [Item(t) EXCEPT !.st = "done", !.url = u]
  OBVIOUS
<1>3. it \in ItemSet /\ it.url = u
  BY <1>1, <1>2 DEF ItemSet
<1>4. Through(t, it) /\ For(u, task[t].item)
  BY <1>2 DEF Done, For
<1> QED
  BY <1>3, <1>4, ThroughUploads

\* A chain makes its next call with the upload it has.
LEMMA NextCallUploads ==
  ASSUME ReceivedInv, NEW t \in Tasks, Busy(t), task[t].up # None,
         NEW s \in {"patch", "part", "whole"},
         s = "whole" => task[t].up \in received',
         task' = [task EXCEPT ![t].step = s], NEW q \in ItemSet,
         q = queue[task[t].item], NEW it \in ItemSet, it.st = "uploading",
         it.url = q.url \/ it.url = task[t].up,
         queue' = [queue EXCEPT ![task[t].item] = it],
         received \subseteq received',
         \A v \in Uploads : status[v] # "none" => status'[v] # "none"
  PROVE  UploadsRight'
<1>1. PICK d \in TaskSet : d = task[t]
  BY BusyTask DEF ReceivedInv
<1>2. PICK c : c = [d EXCEPT !.step = s]
  OBVIOUS
<1>3. /\ c \in TaskSet /\ c.step = s /\ c.item = d.item /\ c.up = d.up
  BY <1>1, <1>2 DEF TaskSet
<1>4. task' = [task EXCEPT ![t] = c]
  BY <1>1, <1>2
<1>5. StaysWith(t, c, it)
  BY <1>1, <1>3, <1>4 DEF StaysWith
<1> QED
  BY <1>3, <1>5, StayUploads

\* A file without bytes is done with the answer to its POST.
LEMMA PostAnsweredUploads ==
  ASSUME ReceivedInv, NEW t \in Tasks, PostAnswered(t)
  PROVE  UploadsRight'
<1>1. Busy(t) /\ task[t].step = "create" /\ UNCHANGED serverSide
  BY DEF PostAnswered, Waits, Busy
<1>2. PICK u \in Uploads : u = task[t].up
  BY <1>1, BusyTask DEF ReceivedInv, PostAnswered, TaskSet
<1>3. PICK i \in Items : i = task[t].item
  BY <1>1, BusyTask DEF ReceivedInv
<1>4. Length[u] = Size[i] /\ status[u] # "none"
  BY <1>2, <1>3 DEF ReceivedInv, UploadsRight, ForOne, For
<1>5. CASE Size[i] = 0
  <2>1. u \in received
    BY <1>4, <1>5 DEF ReceivedInv, ServerRight
  <2> QED
    BY <1>1, <1>2, <1>3, <1>5, <2>1, DoneUploads DEF PostAnswered
<1>6. CASE Size[i] # 0
  <2>1. PICK q \in ItemSet : q = queue[i] /\ q.st = "uploading"
    BY <1>1, <1>3, BusyTask DEF ReceivedInv
  <2>2. PICK it : it = [q EXCEPT !.url = u]
    OBVIOUS
  <2>3. it \in ItemSet /\ it.st = "uploading" /\ it.url = u
    BY <2>1, <2>2 DEF ItemSet
  <2>4. /\ queue' = [queue EXCEPT ![i] = it]
        /\ task' = [task EXCEPT ![t].step = "patch"]
    BY <1>2, <1>3, <1>6, <2>1, <2>2 DEF PostAnswered
  <2>5. status' = status /\ received' = received /\ u # None
    BY <1>1, NoneAssumption DEF serverSide, promise
  <2> QED
    BY <1>1, <1>2, <1>3, <2>1, <2>3, <2>4, <2>5, NextCallUploads
<1> QED
  BY <1>5, <1>6

\* The answers to PATCH and HEAD: what the server calls whole is received.
LEMMA CallServedUploads ==
  ASSUME ReceivedInv, [UploadsNext]_uploadVars, NEW t \in Tasks,
         PatchServed(t) \/ HeadServed(t) \/ WholeAnswered(t) \/ PartAnswered(t)
  PROVE  UploadsRight'
<1>1. Busy(t) /\ task[t].up # None
  BY DEF PatchServed, HeadServed, WholeAnswered, PartAnswered, Waits, Busy,
         ReceivedInv, UploadsRight, UploadKnown
<1>2. PICK u \in Uploads : u = task[t].up
  BY <1>1, BusyTask DEF ReceivedInv, TaskSet
<1>3. PICK i \in Items : i = task[t].item
  BY <1>1, BusyTask DEF ReceivedInv
<1>4. PICK q \in ItemSet : q = queue[i] /\ q.st = "uploading"
  BY <1>1, <1>3, BusyTask DEF ReceivedInv
<1>5. queue = [queue EXCEPT ![i] = q]
  BY <1>1, <1>3, <1>4, BusyTask DEF ReceivedInv
<1>6. /\ received \subseteq received'
      /\ \A v \in Uploads : status[v] # "none" => status'[v] # "none"
  <2>1. [PromiseNext]_promise /\ (UNCHANGED serverSide \/ Receives)
    BY PromiseStep DEF ReceivedInv, ChainsInv, UploadsRight
  <2> QED
    BY <2>1, ServerStep DEF ReceivedInv
<1>7. ASSUME NEW s \in {"patch", "part", "whole"}, queue' = queue,
             task' = [task EXCEPT ![t].step = s], s = "whole" => u \in received
      PROVE  UploadsRight'
  BY <1>1, <1>2, <1>3, <1>4, <1>5, <1>6, <1>7, NextCallUploads
<1>8. CASE PatchServed(t)
  <2>1. status[u] = "done" \/ (status[u] = "open" /\ got[u] = Length[u])
    BY <1>2, <1>8 DEF PatchServed, Confirm
  <2>2. u \in received
    BY <2>1 DEF ReceivedInv, ServerRight
  <2> QED
    BY <1>7, <1>8, <2>2 DEF PatchServed
<1>9. CASE HeadServed(t)
  <2>1. PICK s \in {"part", "whole"} :
          /\ task' = [task EXCEPT ![t].step = s]
          /\ s = "whole" => AtEnd(i, u)
    BY <1>2, <1>3, <1>9 DEF HeadServed
  <2>2. ASSUME AtEnd(i, u) PROVE u \in received
    <3>1. Length[u] = Size[i]
      BY <1>2, <1>3 DEF ReceivedInv, UploadsRight, ForOne, For
    <3>2. got[u] \in Nat /\ got[u] <= Length[u] /\ Length[u] \in Nat
      BY LengthAssumption DEF ReceivedInv, ServerRight
    <3>3. got[u] = Length[u]
      BY <2>2, <3>1, <3>2 DEF AtEnd
    <3> QED
      BY <1>2, <1>9, <3>3 DEF ReceivedInv, ServerRight, HeadServed
  <2> QED
    BY <1>7, <1>9, <2>1, <2>2 DEF HeadServed
<1>10. CASE PartAnswered(t)
  BY <1>7, <1>10 DEF PartAnswered
<1>11. CASE WholeAnswered(t)
  <2>1. u \in received
    BY <1>2, <1>11 DEF WholeAnswered, ReceivedInv, UploadsRight, WholeRight
  <2> QED
    BY <1>1, <1>2, <1>11, <2>1, DoneUploads DEF WholeAnswered
<1> QED
  BY <1>8, <1>9, <1>10, <1>11

\* A call that fails, and a new attempt: there is no upload any more.
LEMMA CallFailsUploads ==
  ASSUME ReceivedInv, NEW t \in Tasks, CallFails(t)
  PROVE  UploadsRight'
<1>1. Busy(t) /\ UNCHANGED serverSide
  BY DEF CallFails, Busy
<1>2. PICK i \in Items : i = task[t].item
  BY <1>1, BusyTask DEF ReceivedInv
<1>3. PICK q \in ItemSet : q = queue[i] /\ q.st = "uploading"
  BY <1>1, <1>2, BusyTask DEF ReceivedInv
<1>4. CASE task[t].attempt < uploadMaxAttempts
  <2>1. /\ task' = [task EXCEPT ![t].step = "wait", ![t].up = None]
        /\ UNCHANGED queue
    BY <1>4 DEF CallFails
  <2>2. PICK d \in TaskSet : d = task[t]
    BY <1>1, BusyTask DEF ReceivedInv
  <2>3. PICK c : c = [d EXCEPT !.step = "wait", !.up = None]
    OBVIOUS
  <2>4. /\ c \in TaskSet /\ c.step = "wait" /\ c.item = task[t].item /\ c.up = None
    BY <2>2, <2>3 DEF TaskSet
  <2>5. task' = [task EXCEPT ![t] = c]
    BY <2>1, <2>2, <2>3
  <2>6. queue' = [queue EXCEPT ![i] = q]
    BY <1>1, <1>2, <1>3, <2>1, BusyTask DEF ReceivedInv
  <2>7. status' = status /\ received' = received
    BY <1>1 DEF serverSide, promise
  <2> QED
    BY <1>1, <1>2, <1>3, <2>4, <2>5, <2>6, <2>7, StayUploads DEF StaysWith
<1>5. CASE ~(task[t].attempt < uploadMaxAttempts)
  <2>1. PICK it : it = [q EXCEPT !.st = "error"]
    OBVIOUS
  <2>2. it \in ItemSet /\ it.st = "error" /\ it.url = q.url
    BY <2>1 DEF ItemSet
  <2>3. Through(t, it)
    BY <1>2, <1>3, <1>5, <2>1 DEF CallFails, Item
  <2>4. it.url # None => For(it.url, task[t].item)
    BY <1>2, <1>3, <2>2 DEF For
  <2> QED
    BY <1>1, <2>2, <2>3, <2>4, ThroughUploads
<1> QED
  BY <1>4, <1>5

\* Another attempt and the uploads of the server.
LEMMA TryAgainUploads ==
  ASSUME ReceivedInv, NEW t \in Tasks, TryAgain(t)
  PROVE  UploadsRight'
<1>1. Busy(t) /\ UNCHANGED serverSide
  BY DEF TryAgain, Waits, Busy
<1>2. PICK i \in Items : i = task[t].item
  BY <1>1, BusyTask DEF ReceivedInv
<1>3. PICK q \in ItemSet : q = queue[i]
  BY <1>1, <1>2, BusyTask DEF ReceivedInv
<1>4. PICK it : it = Begun(q)
  OBVIOUS
<1>5. PICK d \in TaskSet : d = task[t]
  BY <1>1, BusyTask DEF ReceivedInv
<1>6. q.attempts < uploadMaxAttempts
  <2>1. q.attempts <= d.attempt /\ d.attempt \in Nat /\ q.attempts \in Nat
    BY <1>1, <1>2, <1>3, <1>5, BusyTask DEF ReceivedInv, ItemSet
  <2>2. d.attempt < uploadMaxAttempts
    BY <1>1, <1>5 DEF ReceivedInv, ChainsInv, TaskRight, TryAgain
  <2>3. uploadMaxAttempts \in Nat
    BY AttemptsAssumption
  <2> QED
    BY <2>1, <2>2, <2>3
<1>7. it \in ItemSet /\ it.st = "uploading" /\ it.url = q.url
  BY <1>4, <1>6, FixedTypes
<1>8. PICK c : c = Creating(d.batch, i, q.attempts + 1)
  OBVIOUS
<1>9. c \in TaskSet /\ c.step = "create" /\ c.item = i /\ c.up = None
  <2>1. q.attempts + 1 \in 0..uploadMaxAttempts
    BY <1>6, AttemptsAssumption DEF ItemSet
  <2>2. d.batch \in Tasks \cup {None}
    BY DEF TaskSet
  <2> QED
    BY <1>8, <2>1, <2>2, FixedTypes DEF Creating
<1>10. queue' = [queue EXCEPT ![i] = it] /\ task' = [task EXCEPT ![t] = c]
  BY <1>2, <1>3, <1>4, <1>5, <1>8 DEF TryAgain
<1>11. status' = status /\ received' = received
  BY <1>1 DEF serverSide, promise
<1> QED
  BY <1>1, <1>2, <1>3, <1>7, <1>9, <1>10, <1>11, StayUploads DEF StaysWith

\* The POST reaches the server: a new upload of the item's size.
LEMMA PostAcceptedUploads ==
  ASSUME ReceivedInv, [UploadsNext]_uploadVars, NEW t \in Tasks, PostAccepted(t)
  PROVE  UploadsRight'
<1>1. /\ Busy(t) /\ task[t].step = "create" /\ UNCHANGED queue
  BY DEF PostAccepted, Waits, Busy
<1>2. queue \in [Items -> ItemSet] /\ task \in [Tasks -> TaskSet]
  BY Types DEF ReceivedInv, ChainsInv
<1>3. PICK u \in Uploads :
        /\ Length[u] = Size[task[t].item] /\ Accept(u, 0)
        /\ task' = [task EXCEPT ![t].up = u]
  BY DEF PostAccepted
<1>4. /\ status[u] = "none" /\ status'[u] = "open"
      /\ \A v \in Uploads \ {u} : status'[v] = status[v]
  BY <1>3 DEF Accept, ReceivedInv, ServerRight
<1>5. /\ \A s \in Tasks \ {t} : task'[s] = task[s]
      /\ task'[t].up = u /\ task'[t].item = task[t].item
      /\ task'[t].step = "create"
  <2>1. PICK d \in TaskSet : d = task[t]
    BY <1>2
  <2>2. task'[t] = [d EXCEPT !.up = u]
    BY <1>2, <1>3, <2>1
  <2> QED
    BY <1>1, <1>2, <1>3, <2>1, <2>2 DEF TaskSet
<1>6. received \subseteq received'
  <2>1. [PromiseNext]_promise /\ (UNCHANGED serverSide \/ Receives)
    BY PromiseStep DEF ReceivedInv, ChainsInv, UploadsRight
  <2> QED
    BY <2>1, ServerStep DEF ReceivedInv
<1>7. UploadKnown' /\ WholeRight' /\ DoneRight'
  BY <1>1, <1>5, <1>6
     DEF ReceivedInv, UploadsRight, UploadKnown, WholeRight, DoneRight, Waits
<1>8. ASSUME NEW v \in Uploads, NEW j \in Items, For(v, j)'
      PROVE  For(v, j) \/ (v = u /\ j = task[t].item)
  BY <1>1, <1>5, <1>8 DEF For
<1>9. \A j \in Items : ~For(u, j)
  BY <1>4 DEF ReceivedInv, UploadsRight, ForOne
<1>10. ForOne'
  BY <1>3, <1>4, <1>8, <1>9 DEF ReceivedInv, UploadsRight, ForOne
<1> QED
  BY <1>7, <1>10 DEF UploadsRight

\* The user: a new chain has no upload, or the one kept with the item.
LEMMA UserUploads ==
  ASSUME ReceivedInv, UploadsUser
  PROVE  UploadsRight'
<1>1. queue \in [Items -> ItemSet] /\ task \in [Tasks -> TaskSet]
  BY Types DEF ReceivedInv, ChainsInv
<1>2. status' = status /\ received' = received
  BY DEF UploadsUser, UploadPanel, UploadFiles, Retry, ClearCompleted, Reload,
         serverSide, promise
<1>3. ASSUME \A s \in Tasks :
               \/ task'[s] = task[s]
               \/ task'[s].step \in {"free", "create"} /\ task'[s].up = None
               \/ /\ task'[s].step = "head" /\ task'[s].up # None
                  /\ task'[s].item \in Items /\ queue[task'[s].item].url = task'[s].up,
             \A j \in Items :
               /\ queue'[j].url \in {None, queue[j].url}
               /\ queue'[j].st = "done" =>
                    queue[j].st = "done" /\ queue'[j].url = queue[j].url
      PROVE  UploadsRight'
  <2>1. UploadKnown' /\ WholeRight' /\ DoneRight'
    BY <1>2, <1>3
       DEF ReceivedInv, UploadsRight, UploadKnown, WholeRight, DoneRight, Waits
  <2>2. ASSUME NEW v \in Uploads, NEW j \in Items, For(v, j)' PROVE For(v, j)
    <3>1. CASE queue'[j].url = v
      BY <1>3, <3>1, NoneAssumption DEF For
    <3>2. ASSUME NEW s \in Tasks, task'[s].up = v, task'[s].item = j
          PROVE  For(v, j)
      BY <1>3, <3>2, NoneAssumption DEF For
    <3> QED
      BY <2>2, <3>1, <3>2 DEF For
  <2>3. ForOne'
    BY <1>2, <2>2, ForOneStays DEF ReceivedInv, UploadsRight
  <2> QED
    BY <2>1, <2>3 DEF UploadsRight
<1>4. ASSUME NEW n \in Items, UploadFiles(n) PROVE UploadsRight'
  <2>1. PICK w, new, worker, b :
          /\ w \in 1..n
          /\ Started(n, w, new, worker, b) /\ StartedNext(n, w, new, worker, b)
    <3>1. PICK w \in 1..n : \E new, worker, b :
            Started(n, w, new, worker, b) /\ StartedNext(n, w, new, worker, b)
      BY <1>4, UploadFilesStarts DEF ReceivedInv
    <3> QED
      BY <3>1
  <2>2. \A s \in Tasks :
          \/ \E j \in 1..w : task'[s] = Creating(b, new[j], 1)
          \/ task'[s] = task[s]
    BY <2>1 DEF StartedNext
  <2>3. \A s \in Tasks :
          task'[s] = task[s] \/ (task'[s].step = "create" /\ task'[s].up = None)
    <3>1. \A i : Creating(b, i, 1).step = "create" /\ Creating(b, i, 1).up = None
      BY DEF Creating
    <3> QED
      BY <2>2, <3>1
  <2>4. \A j \in Items :
          \/ queue'[j] \in {NewItem, Begun(NewItem)}
          \/ queue'[j] = queue[j]
    BY <2>1 DEF StartedNext
  <2>5. \A j \in Items :
          queue'[j] = queue[j] \/ (queue'[j].url = None /\ queue'[j].st # "done")
    <3>1. /\ NewItem.url = None /\ NewItem.st = "queued"
          /\ Begun(NewItem).url = None /\ Begun(NewItem).st = "uploading"
      BY DEF NewItem, Begun
    <3> QED
      BY <2>4, <3>1
  <2> QED
    BY <1>3, <2>3, <2>5
<1>5. ASSUME NEW i \in Items, Retry(i) PROVE UploadsRight'
  <2>1. PICK t \in IdleTasks :
          IF queue[i].url # None
            THEN /\ queue' = [queue EXCEPT ![i].attempts = 0, ![i].st = "uploading"]
                 /\ task' = [task EXCEPT ![t] =
                      [item |-> i, batch |-> None, step |-> "head",
                       up |-> queue[i].url, attempt |-> uploadMaxAttempts]]
            ELSE /\ queue' = [queue EXCEPT ![i].attempts = 1, ![i].st = "uploading"]
                 /\ task' = [task EXCEPT ![t] = Creating(None, i, 1)]
    BY <1>5 DEF Retry
  <2>2. t \in Tasks
    BY DEF IdleTasks
  <2>3. PICK q \in ItemSet : q = queue[i]
    BY <1>1
  <2>4. PICK a \in {0, 1} :
          queue' = [queue EXCEPT ![i] = [q EXCEPT !.attempts = a, !.st = "uploading"]]
    BY <2>1, <2>3
  <2>5. PICK it : it = [q EXCEPT !.attempts = a, !.st = "uploading"]
    OBVIOUS
  <2>6. it.st = "uploading" /\ it.url = q.url
    BY <2>5 DEF ItemSet
  <2>7. \A j \in Items :
          /\ queue'[j].url = queue[j].url
          /\ queue'[j] = queue[j] \/ queue'[j].st = "uploading"
    BY <1>1, <2>3, <2>4, <2>5, <2>6
  <2>8. /\ \A s \in Tasks \ {t} : task'[s] = task[s]
        /\ task'[t].item = i
        /\ \/ task'[t].step = "head" /\ task'[t].up = queue[i].url
              /\ queue[i].url # None
           \/ task'[t].step = "create" /\ task'[t].up = None
    BY <1>1, <2>1, <2>2 DEF Creating
  <2> QED
    BY <1>3, <2>2, <2>7, <2>8
<1>6. CASE ClearCompleted
  <2>1. /\ UNCHANGED task
        /\ queue' = [i \in Items |->
                       IF queue[i].st = "done" THEN NoItem ELSE queue[i]]
    BY <1>6 DEF ClearCompleted
  <2>2. \A j \in Items :
          queue'[j] = queue[j] \/ (queue'[j].url = None /\ queue'[j].st = "absent")
    BY <2>1 DEF NoItem
  <2> QED
    BY <1>3, <2>1, <2>2
<1>7. CASE Reload
  <2>1. /\ queue' = [i \in Items |-> Stored(queue[i])]
        /\ task' = [t \in Tasks |-> FreeTask]
    BY <1>7 DEF Reload
  <2>2. ASSUME NEW j \in Items
        PROVE  /\ queue'[j].url \in {None, queue[j].url}
               /\ queue'[j].st = "done" =>
                    queue[j].st = "done" /\ queue'[j].url = queue[j].url
    <3>1. PICK q \in ItemSet : q = queue[j]
      BY <1>1
    <3>2. /\ Stored(q).url \in {None, q.url}
          /\ Stored(q).st = "done" => q.st = "done" /\ Stored(q).url = q.url
      BY DEF Stored, NoItem, ItemSet
    <3> QED
      BY <2>1, <3>1, <3>2
  <2>3. \A s \in Tasks : task'[s].step = "free" /\ task'[s].up = None
    BY <2>1 DEF FreeTask
  <2> QED
    BY <1>3, <2>2, <2>3
<1> QED
  BY <1>4, <1>5, <1>6, <1>7 DEF UploadsUser, UploadPanel

\* The server gives no upload to an item.
LEMMA ServerUploads ==
  ASSUME ReceivedInv, [UploadsNext]_uploadVars, UNCHANGED queueVars
  PROVE  UploadsRight'
<1>1. UNCHANGED <<queue, task>>
  BY DEF queueVars
<1>2. /\ received \subseteq received'
      /\ \A v \in Uploads : status[v] # "none" => status'[v] # "none"
  <2>1. [PromiseNext]_promise /\ (UNCHANGED serverSide \/ Receives)
    BY PromiseStep DEF ReceivedInv, ChainsInv, UploadsRight
  <2> QED
    BY <2>1, ServerStep DEF ReceivedInv
<1>3. UploadKnown' /\ WholeRight' /\ DoneRight'
  BY <1>1, <1>2
     DEF ReceivedInv, UploadsRight, UploadKnown, WholeRight, DoneRight, Waits
<1>4. \A v \in Uploads, j \in Items : For(v, j)' <=> For(v, j)
  BY <1>1 DEF For
<1> QED
  BY <1>2, <1>3, <1>4, ForOneStays DEF ReceivedInv, UploadsRight

\* The whole invariant holds at the start.
LEMMA ReceivedInit == UploadsInit => ReceivedInv
<1> SUFFICES ASSUME UploadsInit PROVE ReceivedInv
  OBVIOUS
<1>1. /\ \A t \in Tasks : task[t].step = "free" /\ task[t].up = None
      /\ \A i \in Items : queue[i].url = None /\ queue[i].st = "absent"
  BY DEF UploadsInit, FreeTask, NoItem
<1>2. \A u \in Uploads, i \in Items : ~For(u, i)
  BY <1>1, NoneAssumption DEF For
<1> QED
  BY <1>1, <1>2, ChainsInit, ServerInit
     DEF ReceivedInv, UploadsRight, UploadKnown, ForOne, WholeRight, DoneRight,
         Waits

\* Every step keeps it.
LEMMA ReceivedStep ==
  ASSUME ReceivedInv, [UploadsNext]_uploadVars
  PROVE  ReceivedInv'
<1>1. ChainsInv'
  BY ChainsStep DEF ReceivedInv, UploadsRight
<1>2. ServerRight'
  <2>1. [PromiseNext]_promise /\ (UNCHANGED serverSide \/ Receives)
    BY PromiseStep DEF ReceivedInv, ChainsInv, UploadsRight
  <2> QED
    BY <2>1, ServerStep DEF ReceivedInv
<1>3. UploadsRight'
  <2>1. ASSUME NEW t \in Tasks, GoesOn(t) PROVE UploadsRight'
    BY <2>1, PostAcceptedUploads, PostAnsweredUploads, CallServedUploads,
       CallFailsUploads, TryAgainUploads DEF GoesOn
  <2>2. CASE UNCHANGED uploadVars \/ ServerGoesOn
    BY <2>2, ServerUploads DEF uploadVars, ServerGoesOn
  <2> QED
    BY <2>1, <2>2, UserUploads DEF UploadsNext
<1> QED
  BY <1>1, <1>2, <1>3 DEF ReceivedInv

\* It holds for good.
LEMMA ReceivedAlways == UploadsSpec => []ReceivedInv
<1>1. UploadsInit => ReceivedInv
  BY ReceivedInit
<1>2. ReceivedInv /\ [UploadsNext]_uploadVars => ReceivedInv'
  BY ReceivedStep
<1> QED
  BY <1>1, <1>2, PTL DEF UploadsSpec

-----------------------------------------------------------------------------
(* The theorems *)

\* However the user adds, retries and clears while calls fail and the page is
\* reloaded, an item that is shown as waiting or uploading has exactly one
\* chain of awaits or one batch with a worker, and no other item has any: the
\* chains of uploadFiles and retryUpload never meet at an item.
THEOREM ChainsMatch == UploadsSpec => [](QueueTypeOK /\ ChainsMatchQueue)
<1>1. ReceivedInv => QueueTypeOK /\ ChainsMatchQueue
  BY ChainsCounted
     DEF ReceivedInv, ChainsInv, QueueTypeOK, ChainsTyped, ServerRight, ItemSet,
         TaskSet
<1> QED
  BY <1>1, ReceivedAlways, PTL

\* What uploadTus or resumeUploadTus lets be shown as done has been received
\* whole by the server, for this item alone: also when the answer was that of
\* HEAD, whatever was retried before, and although the row may be cleaned up
\* while the answer is under way.
THEOREM DoneWhenReceived == UploadsSpec => []DoneIsReceived
<1>1. ReceivedInv => DoneIsReceived
  <2> SUFFICES ASSUME ReceivedInv, NEW i \in Items, queue[i].st = "done"
               PROVE  /\ queue[i].url \in received
                      /\ \A j \in Items \ {i} : queue[j].url # queue[i].url
    BY DEF DoneIsReceived
  <2>1. queue[i].url \in received /\ queue[i].url \in Uploads
    BY DEF ReceivedInv, UploadsRight, DoneRight, ServerRight
  <2> QED
    BY <2>1 DEF ReceivedInv, UploadsRight, ForOne, For
<1> QED
  BY <1>1, ReceivedAlways, PTL

\* The server the queue talks to keeps UploadPromise whatever the client does.
THEOREM QueueServerKeeps == UploadsSpec => PromiseSpec
<1>1. UploadsInit => PromiseInit
  BY DEF UploadsInit
<1>2. ReceivedInv /\ [UploadsNext]_uploadVars => [PromiseNext]_promise
  BY PromiseStep DEF ReceivedInv, ChainsInv, UploadsRight
<1> QED
  BY <1>1, <1>2, ReceivedAlways, PTL DEF UploadsSpec, PromiseSpec

=============================================================================
