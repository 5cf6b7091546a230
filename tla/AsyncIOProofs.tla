----------------------------- MODULE AsyncIOProofs -----------------------------
(***************************************************************************)
(* Proofs about AsyncIO, for any finite numbers of threads, workers and    *)
(* files, any set of queues and any number of reads and writes.            *)
(***************************************************************************)
EXTENDS AsyncIO, FiniteSetTheorems, TLAPS

-------------------------------------------------------------------------------
(* Lists of tasks *)

In(t, s) == \E i \in 1 .. Len(s) : s[i] = t
Distinct(s) == \A i, j \in 1 .. Len(s) : s[i] = s[j] => i = j

\* Nothing is in an empty list.
LEMMA Empty == Distinct(<<>>) /\ \A t : ~In(t, <<>>)
BY DEF In, Distinct

\* LINKED_LIST_PREPEND puts one task in a list, and leaves the others in it.
LEMMA Prepend ==
  ASSUME NEW T, NEW s \in Seq(T), NEW t \in T
  PROVE  /\ <<t>> \o s \in Seq(T)
         /\ <<t>> \o s # <<>>
         /\ Len(<<t>> \o s) = Len(s) + 1
         /\ \A x : In(x, <<t>> \o s) <=> x = t \/ In(x, s)
         /\ Distinct(s) /\ ~In(t, s) => Distinct(<<t>> \o s)
<1> DEFINE p == <<t>> \o s
<1>1. p \in Seq(T) /\ Len(p) = Len(s) + 1 /\ Len(s) \in Nat
  OBVIOUS
<1>2. p[1] = t /\ \A i \in 2 .. Len(p) : p[i] = s[i - 1]
  OBVIOUS
<1>3. \A i \in 1 .. Len(s) : p[i + 1] = s[i]
  BY <1>1, <1>2
<1>4. p # <<>>
  BY <1>1
<1> HIDE DEF p
<1>5. ASSUME NEW x
      PROVE  In(x, p) <=> x = t \/ In(x, s)
  <2>1. In(x, p) => x = t \/ In(x, s)
    BY <1>1, <1>2 DEF In
  <2>2. x = t => In(x, p)
    BY <1>1, <1>2 DEF In
  <2>3. In(x, s) => In(x, p)
    BY <1>1, <1>3 DEF In
  <2> QED BY <2>1, <2>2, <2>3
<1>6. Distinct(s) /\ ~In(t, s) => Distinct(p)
  BY <1>1, <1>2 DEF In, Distinct
<1> QED BY <1>1, <1>4, <1>5, <1>6 DEF p

\* Taking the first task from a list leaves the others in it.
LEMMA TakeFirst ==
  ASSUME NEW T, NEW s \in Seq(T), s # <<>>
  PROVE  /\ Head(s) \in T
         /\ Tail(s) \in Seq(T)
         /\ Len(s) = Len(Tail(s)) + 1
         /\ In(Head(s), s)
         /\ \A x : In(x, Tail(s)) => In(x, s)
         /\ \A x : In(x, s) => x = Head(s) \/ In(x, Tail(s))
         /\ Distinct(s) => Distinct(Tail(s)) /\ ~In(Head(s), Tail(s))
<1> DEFINE r == Tail(s)
<1>1. /\ r \in Seq(T) /\ Len(s) \in Nat /\ Len(s) = Len(r) + 1 /\ Len(r) \in Nat
      /\ Head(s) = s[1] /\ Head(s) \in T
  OBVIOUS
<1>2. \A i \in 1 .. Len(r) : r[i] = s[i + 1]
  OBVIOUS
<1> HIDE DEF r
<1>3. In(Head(s), s)
  BY <1>1 DEF In
<1>4. \A x : In(x, r) => In(x, s)
  BY <1>1, <1>2 DEF In
<1>5. ASSUME NEW x, In(x, s), x # Head(s)
      PROVE  In(x, r)
  <2>1. PICK i \in 1 .. Len(s) : s[i] = x
    BY <1>5 DEF In
  <2>2. i - 1 \in 1 .. Len(r) /\ r[i - 1] = s[(i - 1) + 1]
    BY <1>1, <1>2, <1>5, <2>1
  <2> QED BY <1>1, <2>1, <2>2 DEF In
<1>6. ASSUME Distinct(s)
      PROVE  Distinct(r) /\ ~In(Head(s), r)
  <2>1. ASSUME NEW i \in 1 .. Len(r), NEW j \in 1 .. Len(r), r[i] = r[j]
        PROVE  i = j
    BY <1>1, <1>2, <1>6, <2>1 DEF Distinct
  <2>2. ASSUME NEW i \in 1 .. Len(r), r[i] = Head(s)
        PROVE  FALSE
    BY <1>1, <1>2, <1>6, <2>2 DEF Distinct
  <2> QED BY <2>1, <2>2 DEF In, Distinct
<1> QED BY <1>1, <1>3, <1>4, <1>5, <1>6 DEF r

-------------------------------------------------------------------------------
(* Tasks and files *)

\* Files are finite in number, and what they are asked, so tasks are too.
LEMMA TasksAreFinite == IsFiniteSet(Tasks)
<1>1. IsFiniteSet(0 .. MaxIO)
  BY AsyncIOAssumption, FS_Interval
<1>2. IsFiniteSet(Files)
  BY AsyncIOAssumption
<1> QED BY <1>1, <1>2, FS_Product DEF Tasks

\* Tasks belong to files, and a file's close is none of its reads and writes.
LEMMA TaskFacts ==
  /\ None \notin Tasks
  /\ \A t \in Tasks : FileOf(t) \in Files
  /\ \A f \in Files : CloseOf(f) \in Tasks /\ FileOf(CloseOf(f)) = f
  /\ \A f \in Files, n \in 1 .. MaxIO :
       <<f, n>> \in Tasks /\ FileOf(<<f, n>>) = f /\ <<f, n>> # CloseOf(f)
BY AsyncIOAssumption DEF Tasks, FileOf, CloseOf

-------------------------------------------------------------------------------
(* Where tasks are, as a function of the variables that tell: the tasks in   *)
(* hand of the application's threads and of the workers, the pool, the       *)
(* results, the files' tasks and the queues that tasks name.                 *)

\* A task that was started and not taken yet.
Live(t, ts) == t \in ts[FileOf(t)]

Nowhere(t, tk, wt, po, co) ==
  /\ \A a \in Apps : tk[a] # t
  /\ \A w \in Workers : wt[w] # t
  /\ ~In(t, po)
  /\ \A q \in Queues : ~In(t, co[q])

HandTypes(tk, wt, po, co) ==
  /\ tk \in [Apps -> Tasks \cup {None}]
  /\ wt \in [Workers -> Tasks \cup {None}]
  /\ po \in Seq(Tasks)
  /\ co \in [Queues -> Seq(Tasks)]

\* No task is in two places, nor twice in one.
Apart(tk, wt, po, co) ==
  /\ \A a, b \in Apps : tk[a] \in Tasks /\ tk[a] = tk[b] => a = b
  /\ \A v, w \in Workers : wt[v] \in Tasks /\ wt[v] = wt[w] => v = w
  /\ Distinct(po)
  /\ \A q \in Queues : Distinct(co[q])
  /\ \A a \in Apps, w \in Workers : tk[a] \in Tasks => tk[a] # wt[w]
  /\ \A a \in Apps : tk[a] \in Tasks => ~In(tk[a], po)
  /\ \A a \in Apps, q \in Queues : tk[a] \in Tasks => ~In(tk[a], co[q])
  /\ \A w \in Workers : wt[w] \in Tasks => ~In(wt[w], po)
  /\ \A w \in Workers, q \in Queues : wt[w] \in Tasks => ~In(wt[w], co[q])
  /\ \A t \in Tasks, q \in Queues : In(t, po) => ~In(t, co[q])

\* What is in some place is live, and a result is on the queue it names.
Underway(tk, wt, po, co, ts, qu) ==
  /\ \A a \in Apps : tk[a] \in Tasks => Live(tk[a], ts)
  /\ \A w \in Workers : wt[w] \in Tasks => Live(wt[w], ts)
  /\ \A t \in Tasks : In(t, po) => Live(t, ts)
  /\ \A t \in Tasks, q \in Queues : In(t, co[q]) => Live(t, ts) /\ qu[t] = q

Placed(tk, wt, po, co, ts, qu) ==
  /\ HandTypes(tk, wt, po, co)
  /\ Apart(tk, wt, po, co)
  /\ Underway(tk, wt, po, co, ts, qu)

\* What is not live is nowhere.
LEMMA NotLive ==
  ASSUME NEW tk, NEW wt, NEW po, NEW co, NEW ts, NEW qu,
         Placed(tk, wt, po, co, ts, qu),
         NEW t \in Tasks, ~Live(t, ts)
  PROVE  Nowhere(t, tk, wt, po, co)
BY DEF Placed, Underway, Nowhere, HandTypes

\* A thread of the application gets a task.
LEMMA AppGets ==
  ASSUME NEW tk, NEW wt, NEW po, NEW co, NEW ts, NEW qu,
         Placed(tk, wt, po, co, ts, qu),
         NEW t \in Tasks, Live(t, ts), Nowhere(t, tk, wt, po, co),
         NEW a \in Apps
  PROVE  Placed([tk EXCEPT ![a] = t], wt, po, co, ts, qu)
BY DEF Placed, Apart, Underway, Nowhere, HandTypes

\* A thread of the application has done with its task.
LEMMA AppDrops ==
  ASSUME NEW tk, NEW wt, NEW po, NEW co, NEW ts, NEW qu,
         Placed(tk, wt, po, co, ts, qu),
         NEW a \in Apps, tk[a] \in Tasks
  PROVE  /\ Placed([tk EXCEPT ![a] = None], wt, po, co, ts, qu)
         /\ Nowhere(tk[a], [tk EXCEPT ![a] = None], wt, po, co)
         /\ Live(tk[a], ts)
BY TaskFacts DEF Placed, Apart, Underway, Nowhere, HandTypes

\* A worker gets a task.
LEMMA WorkerGets ==
  ASSUME NEW tk, NEW wt, NEW po, NEW co, NEW ts, NEW qu,
         Placed(tk, wt, po, co, ts, qu),
         NEW t \in Tasks, Live(t, ts), Nowhere(t, tk, wt, po, co),
         NEW w \in Workers
  PROVE  Placed(tk, [wt EXCEPT ![w] = t], po, co, ts, qu)
BY DEF Placed, Apart, Underway, Nowhere, HandTypes

\* A worker has done with its task.
LEMMA WorkerDrops ==
  ASSUME NEW tk, NEW wt, NEW po, NEW co, NEW ts, NEW qu,
         Placed(tk, wt, po, co, ts, qu),
         NEW w \in Workers, wt[w] \in Tasks
  PROVE  /\ Placed(tk, [wt EXCEPT ![w] = None], po, co, ts, qu)
         /\ Nowhere(wt[w], tk, [wt EXCEPT ![w] = None], po, co)
         /\ Live(wt[w], ts)
BY TaskFacts DEF Placed, Apart, Underway, Nowhere, HandTypes

\* The pool gets a task.
LEMMA PoolGets ==
  ASSUME NEW tk, NEW wt, NEW po, NEW co, NEW ts, NEW qu,
         Placed(tk, wt, po, co, ts, qu),
         NEW t \in Tasks, Live(t, ts), Nowhere(t, tk, wt, po, co)
  PROVE  Placed(tk, wt, <<t>> \o po, co, ts, qu)
<1> DEFINE p == <<t>> \o po
<1>1. /\ p \in Seq(Tasks)
      /\ \A x : In(x, p) <=> x = t \/ In(x, po)
      /\ Distinct(po) /\ ~In(t, po) => Distinct(p)
  BY Prepend DEF Placed, HandTypes
<1> HIDE DEF p
<1> QED BY <1>1 DEF Placed, Apart, Underway, Nowhere, HandTypes, p

\* The pool gives its first task away.
LEMMA PoolGives ==
  ASSUME NEW tk, NEW wt, NEW po, NEW co, NEW ts, NEW qu,
         Placed(tk, wt, po, co, ts, qu),
         po # <<>>
  PROVE  /\ Placed(tk, wt, Tail(po), co, ts, qu)
         /\ Nowhere(Head(po), tk, wt, Tail(po), co)
         /\ Head(po) \in Tasks
         /\ Live(Head(po), ts)
<1> DEFINE p == Tail(po)
           t == Head(po)
<1>1. /\ p \in Seq(Tasks) /\ t \in Tasks /\ In(t, po)
      /\ \A x : In(x, p) => In(x, po)
      /\ Distinct(po) => Distinct(p) /\ ~In(t, p)
  BY TakeFirst DEF Placed, HandTypes
<1> HIDE DEF p, t
<1>2. Placed(tk, wt, p, co, ts, qu)
  BY <1>1 DEF Placed, Apart, Underway, HandTypes
<1>3. Nowhere(t, tk, wt, p, co) /\ Live(t, ts)
  BY <1>1 DEF Placed, Apart, Underway, Nowhere, HandTypes
<1> QED BY <1>1, <1>2, <1>3 DEF p, t

\* The queue that a task names gets its result.
LEMMA QueueGets ==
  ASSUME NEW tk, NEW wt, NEW po, NEW co, NEW ts, NEW qu,
         Placed(tk, wt, po, co, ts, qu),
         NEW t \in Tasks, Live(t, ts), Nowhere(t, tk, wt, po, co)
  PROVE  Placed(tk, wt, po, [co EXCEPT ![qu[t]] = <<t>> \o @], ts, qu)
<1>1. CASE qu[t] \notin Queues
  <2>1. [co EXCEPT ![qu[t]] = <<t>> \o @] = co
    BY <1>1 DEF Placed, HandTypes
  <2> QED BY <2>1
<1>2. CASE qu[t] \in Queues
  <2> DEFINE q == qu[t]
             p == <<t>> \o co[q]
  <2>1. /\ p \in Seq(Tasks)
        /\ \A x : In(x, p) <=> x = t \/ In(x, co[q])
        /\ Distinct(co[q]) /\ ~In(t, co[q]) => Distinct(p)
    BY <1>2, Prepend DEF Placed, HandTypes
  <2>2. q \in Queues /\ q = qu[t]
    BY <1>2
  <2> HIDE DEF p, q
  <2>3. Placed(tk, wt, po, [co EXCEPT ![q] = p], ts, qu)
    <3> DEFINE c == [co EXCEPT ![q] = p]
    <3>1. HandTypes(tk, wt, po, c)
      BY <2>1 DEF Placed, HandTypes
    <3>2. c[q] = p /\ \A k \in Queues : k # q => c[k] = co[k]
      BY <2>2 DEF Placed, HandTypes
    <3> HIDE DEF c
    <3>3. Apart(tk, wt, po, c)
      BY <2>1, <2>2, <3>2 DEF Placed, Apart, Nowhere, HandTypes
    <3>4. Underway(tk, wt, po, c, ts, qu)
      BY <2>1, <2>2, <3>2 DEF Placed, Underway
    <3> QED BY <3>1, <3>3, <3>4 DEF Placed, c
  <2> QED BY <2>3, <2>2 DEF p, q, Placed, HandTypes
<1> QED BY <1>1, <1>2

\* A queue gives its first result away.
LEMMA QueueGives ==
  ASSUME NEW tk, NEW wt, NEW po, NEW co, NEW ts, NEW qu,
         Placed(tk, wt, po, co, ts, qu),
         NEW q \in Queues, co[q] # <<>>
  PROVE  /\ Placed(tk, wt, po, [co EXCEPT ![q] = Tail(@)], ts, qu)
         /\ Nowhere(Head(co[q]), tk, wt, po, [co EXCEPT ![q] = Tail(@)])
         /\ Head(co[q]) \in Tasks
         /\ Live(Head(co[q]), ts)
<1> DEFINE p == Tail(co[q])
           t == Head(co[q])
           c == [co EXCEPT ![q] = p]
<1>1. /\ p \in Seq(Tasks) /\ t \in Tasks /\ In(t, co[q])
      /\ \A x : In(x, p) => In(x, co[q])
      /\ Distinct(co[q]) => Distinct(p) /\ ~In(t, p)
  BY TakeFirst DEF Placed, HandTypes
<1>2. c = [co EXCEPT ![q] = Tail(@)]
  BY DEF Placed, HandTypes
<1> HIDE DEF p, t
<1>3. HandTypes(tk, wt, po, c)
  BY <1>1 DEF Placed, HandTypes
<1>4. c[q] = p /\ \A k \in Queues : k # q => c[k] = co[k]
  BY DEF Placed, HandTypes
<1> HIDE DEF c
<1>5. Apart(tk, wt, po, c) /\ Underway(tk, wt, po, c, ts, qu)
  BY <1>1, <1>4 DEF Placed, Apart, Underway, HandTypes
<1>6. Nowhere(t, tk, wt, po, c) /\ Live(t, ts)
  BY <1>1, <1>4 DEF Placed, Apart, Underway, Nowhere, HandTypes
<1> QED BY <1>1, <1>2, <1>3, <1>5, <1>6 DEF Placed, t

\* The files' tasks change, but for what is nowhere.
LEMMA FilesChange ==
  ASSUME NEW tk, NEW wt, NEW po, NEW co, NEW ts, NEW qu,
         Placed(tk, wt, po, co, ts, qu),
         NEW t \in Tasks, Nowhere(t, tk, wt, po, co),
         NEW ts2, \A x \in Tasks : Live(x, ts) /\ x # t => Live(x, ts2)
  PROVE  Placed(tk, wt, po, co, ts2, qu)
BY DEF Placed, Underway, Nowhere, HandTypes

\* What is nowhere names a queue.
LEMMA NamesQueue ==
  ASSUME NEW tk, NEW wt, NEW po, NEW co, NEW ts, NEW qu,
         qu \in [Tasks -> Queues \cup {None}],
         Placed(tk, wt, po, co, ts, qu),
         NEW t \in Tasks, Nowhere(t, tk, wt, po, co), NEW q
  PROVE  Placed(tk, wt, po, co, ts, [qu EXCEPT ![t] = q])
BY DEF Placed, Underway, Nowhere, HandTypes

-------------------------------------------------------------------------------
(* Types *)

Labels ==
  {"idle", "start", "asleep", "woken", "outcome", "destroy", "cancel"}

\* TypeOK, but for what the counts are between.
Types ==
  /\ files \subseteq opened /\ closing \subseteq opened /\ opened \subseteq Files
  /\ tasks \in [Files -> SUBSET Tasks]
  /\ next_io \in [Files -> 0 .. MaxIO]
  /\ queue \in [Tasks -> Queues \cup {None}]
  /\ dying \subseteq queues /\ queues \subseteq made /\ made \subseteq Queues
  /\ inflight \in [Queues -> Int]
  /\ completed \in [Queues -> Seq(Tasks)]
  /\ pc \in [Apps -> Labels]
  /\ task \in [Apps -> Tasks \cup {None}]
  /\ at \in [Apps -> Queues \cup {None}]
  /\ status \in {"uninitialized", "initialized", "uninitializing"}
  /\ stop \in BOOLEAN
  /\ pool \in Seq(Tasks)
  /\ running \in Int /\ idle \in Int
  /\ wpc \in [Workers -> {"none", "top", "idle", "woken", "timedout", "io"}]
  /\ wtask \in [Workers -> Tasks \cup {None}]

\* When threads have a task in hand, and when a queue.
HandsKept ==
  /\ \A a \in Apps :
       /\ task[a] \in Tasks <=> pc[a] \in {"start", "outcome"}
       /\ pc[a] \in {"idle", "start", "cancel"} => at[a] = None
       /\ pc[a] \in {"outcome", "destroy"} => at[a] \in Queues
  /\ \A w \in Workers : wtask[w] \in Tasks <=> wpc[w] = "io"

TypeInv == Types /\ HandsKept

\* The types hold at first.
LEMMA TypeInit ==
  ASSUME Init
  PROVE  TypeInv
<1> USE AsyncIOAssumption, TaskFacts DEF Init
<1>1. <<>> \in Seq(Tasks)
  OBVIOUS
<1>2. completed \in [Queues -> Seq(Tasks)] /\ pool \in Seq(Tasks)
  BY <1>1
<1>3. pc \in [Apps -> Labels]
  BY DEF Labels
<1>4. Types
  <2>1. running \in Int /\ idle \in Int /\ inflight \in [Queues -> Int]
    OBVIOUS
  <2>5. stop \in BOOLEAN
    OBVIOUS
  <2>4. next_io \in [Files -> 0 .. MaxIO]
    <3>1. 0 \in 0 .. MaxIO
      OBVIOUS
    <3> QED BY <3>1
  <2>2. /\ tasks \in [Files -> SUBSET Tasks]
        /\ queue \in [Tasks -> Queues \cup {None}]
        /\ task \in [Apps -> Tasks \cup {None}]
        /\ at \in [Apps -> Queues \cup {None}]
        /\ wtask \in [Workers -> Tasks \cup {None}]
    OBVIOUS
  <2>3. /\ wpc \in [Workers -> {"none", "top", "idle", "woken", "timedout", "io"}]
        /\ status \in {"uninitialized", "initialized", "uninitializing"}
    OBVIOUS
  <2> QED BY <1>2, <1>3, <2>1, <2>2, <2>3, <2>4, <2>5 DEF Types
<1>5. HandsKept
  BY DEF HandsKept
<1> QED BY <1>4, <1>5 DEF TypeInv

\* Waking threads up leaves them in their calls.
LEMMA WokenTypes ==
  ASSUME NEW p \in [Apps -> Labels], NEW S
  PROVE  Woken(p, S) \in [Apps -> Labels]
BY DEF Woken, Labels

\* A task is completed by a caller that may have moved on.
LEMMA CompleteTypes ==
  ASSUME Types, NEW t \in Tasks, NEW p \in [Apps -> Labels],
         AsyncIOTaskComplete(t, p)
  PROVE  /\ completed' \in [Queues -> Seq(Tasks)]
         /\ pc' \in [Apps -> Labels]
         /\ \A a \in Apps :
              pc'[a] = p[a] \/ (pc'[a] = "woken" /\ pc[a] = "asleep")
<1>1. completed' \in [Queues -> Seq(Tasks)]
  <2>1. CASE queue[t] \in Queues
    <3>1. <<t>> \o completed[queue[t]] \in Seq(Tasks)
      BY <2>1, Prepend DEF Types
    <3> QED BY <3>1 DEF AsyncIOTaskComplete, Types
  <2>2. CASE queue[t] \notin Queues
    BY <2>2 DEF AsyncIOTaskComplete, Types
  <2> QED BY <2>1, <2>2
<1>2. PICK S \in SignalledOn(queue[t]) : pc' = Woken(p, S)
  BY DEF AsyncIOTaskComplete
<1>3. \A a \in S : pc[a] = "asleep"
  BY DEF SignalledOn, Sleepers
<1> QED BY <1>1, <1>2, <1>3, WokenTypes DEF Woken

\* At most one worker is created, and only when there are too few.
LEMMA WorkersAdded ==
  ASSUME NEW n, NEW W \in NewWorkers(n)
  PROVE  /\ W = {} \/ \E w \in Workers : W = {w} /\ wpc[w] = "none" /\ NeedsWorker(n)
         /\ Cardinality(W) \in Int
<1>1. W = {} \/ \E w \in Workers : W = {w} /\ wpc[w] = "none" /\ NeedsWorker(n)
  BY DEF NewWorkers
<1>2. \A w : Cardinality({w}) = 1
  BY FS_Singleton
<1>3. Cardinality({}) = 0
  BY FS_EmptySet
<1>4. CASE W = {}
  BY <1>1, <1>3, <1>4
<1>5. CASE W # {}
  <2>1. PICK w \in Workers : W = {w}
    BY <1>1, <1>5
  <2>2. Cardinality({w}) = 1
    BY FS_Singleton
  <2>3. Cardinality(W) = 1
    BY <2>1, <2>2
  <2> QED BY <1>1, <2>3
<1> QED BY <1>4, <1>5

\* A task is queued by a caller that has moved on to p.
LEMMA QueueTypes ==
  ASSUME Types, NEW t \in Tasks, NEW p \in [Apps -> Labels],
         QueueAsyncIOTask(t, p)
  PROVE  /\ completed' \in [Queues -> Seq(Tasks)]
         /\ pc' \in [Apps -> Labels]
         /\ \A a \in Apps :
              pc'[a] = p[a] \/ (pc'[a] = "woken" /\ pc[a] = "asleep")
         /\ pool' \in Seq(Tasks)
         /\ status' = status /\ stop' = stop /\ idle' = idle /\ wtask' = wtask
         /\ running' \in Int
         /\ wpc' \in [Workers -> {"none", "top", "idle", "woken", "timedout", "io"}]
         /\ \A w \in Workers : wpc'[w] = "io" <=> wpc[w] = "io"
<1>1. CASE stop
  <2>1. AsyncIOTaskComplete(t, p) /\ UNCHANGED poolVars
    BY <1>1 DEF QueueAsyncIOTask
  <2> QED BY <2>1, CompleteTypes DEF Types, poolVars
<1>2. CASE ~stop
  <2>1. /\ pool' = <<t>> \o pool
        /\ pc' = Woken(p, Quitters)
        /\ UNCHANGED <<completed, status, stop, idle, wtask>>
    BY <1>2 DEF QueueAsyncIOTask
  <2>2. PICK W \in NewWorkers(MaxThreads) :
          /\ Spin(W)
          /\ wpc' = [w \in Workers |-> IF w \in W THEN "top" ELSE WorkersWoken[w]]
    BY <1>2 DEF QueueAsyncIOTask
  <2>3. W = {} \/ \E w \in Workers : W = {w} /\ wpc[w] = "none"
    BY <2>2, WorkersAdded
  <2>4. Cardinality(W) \in Int
    BY <2>2, WorkersAdded
  <2>5. running' \in Int
    BY <2>2, <2>4 DEF Spin, Types
  <2>6. /\ wpc' \in [Workers -> {"none", "top", "idle", "woken", "timedout", "io"}]
        /\ \A w \in Workers : wpc'[w] = "io" <=> wpc[w] = "io"
    BY <2>2, <2>3 DEF WorkersWoken, Types
  <2>7. pool' \in Seq(Tasks)
    BY <2>1, Prepend DEF Types
  <2>8. /\ pc' \in [Apps -> Labels]
        /\ \A a \in Apps :
             pc'[a] = p[a] \/ (pc'[a] = "woken" /\ pc[a] = "asleep")
    BY <2>1, WokenTypes DEF Woken, Quitters, Sleepers
  <2> QED BY <2>1, <2>5, <2>6, <2>7, <2>8 DEF Types
<1> QED BY <1>1, <1>2 DEF Types

\* The pool is there, or is started.
LEMMA PrepareTypes ==
  ASSUME Types, PrepareThreadpool
  PROVE  /\ status' \in {"uninitialized", "initialized", "uninitializing"}
         /\ stop' = stop /\ pool' = pool /\ idle' = idle /\ wtask' = wtask
         /\ running' \in Int
         /\ wpc' \in [Workers -> {"none", "top", "idle", "woken", "timedout", "io"}]
         /\ \A w \in Workers : wpc'[w] = "io" <=> wpc[w] = "io"
<1>1. CASE status = "initialized"
  BY <1>1 DEF PrepareThreadpool, poolVars, Types
<1>2. CASE status # "initialized"
  <2>1. status' = "initialized" /\ UNCHANGED <<stop, pool, idle, wtask>>
    BY <1>2 DEF PrepareThreadpool
  <2>2. PICK W \in NewWorkers(Cardinality(Workers)) :
          /\ Spin(W)
          /\ wpc' = [w \in Workers |-> IF w \in W THEN "top" ELSE wpc[w]]
    BY <1>2 DEF PrepareThreadpool
  <2>3. W = {} \/ \E w \in Workers : W = {w} /\ wpc[w] = "none"
    BY <2>2, WorkersAdded
  <2>4. Cardinality(W) \in Int
    BY <2>2, WorkersAdded
  <2>5. running' \in Int
    BY <2>2, <2>4 DEF Spin, Types
  <2> QED BY <2>1, <2>2, <2>3, <2>5 DEF Types
<1> QED BY <1>1, <1>2

\* A thread of the pool leaves, waits or takes a task.
LEMMA LoopTypes ==
  ASSUME Types, NEW w \in Workers, NEW i \in Int,
         WorkerLoop(w, i) \/ WorkerExits(w, i), wpc[w] # "io",
         \A v \in Workers : wtask[v] \in Tasks <=> wpc[v] = "io"
  PROVE  /\ pc' \in [Apps -> Labels]
         /\ \A a \in Apps :
              pc'[a] = pc[a] \/ (pc'[a] = "woken" /\ pc[a] = "asleep")
         /\ pool' \in Seq(Tasks)
         /\ running' \in Int /\ idle' \in Int
         /\ wpc' \in [Workers -> {"none", "top", "idle", "woken", "timedout", "io"}]
         /\ wtask' \in [Workers -> Tasks \cup {None}]
         /\ \A v \in Workers : wtask'[v] \in Tasks <=> wpc'[v] = "io"
<1>1. CASE WorkerExits(w, i)
  <2>1. /\ pc' \in [Apps -> Labels]
        /\ \A a \in Apps :
             pc'[a] = pc[a] \/ (pc'[a] = "woken" /\ pc[a] = "asleep")
    <3> DEFINE S == IF stop THEN Quitters ELSE {}
    <3>1. pc' = Woken(pc, S)
      BY <1>1 DEF WorkerExits, QuitterTold
    <3>2. \A a \in S : pc[a] = "asleep"
      BY DEF Quitters, Sleepers
    <3> HIDE DEF S
    <3> QED BY <3>1, <3>2, WokenTypes DEF Woken, Types
  <2>2. /\ wpc' \in [Workers -> {"none", "top", "idle", "woken", "timedout", "io"}]
        /\ \A v \in Workers : wpc'[v] = "io" <=> wpc[v] = "io"
    BY <1>1 DEF WorkerExits, WorkersWoken, Types
  <2> QED BY <1>1, <2>1, <2>2 DEF WorkerExits, Types
<1>2. CASE WorkerLoop(w, i) /\ ~stop /\ pool = <<>>
  <2>1. /\ idle' = i + 1
        /\ wpc' = [wpc EXCEPT ![w] = "idle"]
        /\ UNCHANGED <<pc, pool, running, wtask>>
    BY <1>2 DEF WorkerLoop
  <2>2. \A v \in Workers : wpc'[v] = "io" <=> wpc[v] = "io"
    BY <2>1 DEF Types
  <2>3. wpc' \in [Workers -> {"none", "top", "idle", "woken", "timedout", "io"}]
    BY <2>1 DEF Types
  <2> QED BY <2>1, <2>2, <2>3 DEF Types
<1>3. CASE WorkerLoop(w, i) /\ ~stop /\ pool # <<>>
  <2>1. Head(pool) \in Tasks /\ Tail(pool) \in Seq(Tasks)
    BY <1>3, TakeFirst DEF Types
  <2> QED BY <1>3, <2>1 DEF WorkerLoop, Types
<1> QED BY <1>1, <1>2, <1>3 DEF WorkerLoop, Types

\* One more task is counted, or one less.
LEMMA CountTypes ==
  ASSUME NEW n \in [Queues -> Int], NEW q
  PROVE  /\ [n EXCEPT ![q] = @ + 1] \in [Queues -> Int]
         /\ [n EXCEPT ![q] = @ - 1] \in [Queues -> Int]
<1>1. CASE q \in Queues
  BY <1>1
<1>2. CASE q \notin Queues
  BY <1>2
<1> QED BY <1>1, <1>2

\* What threads have in hand keeps its type.
LEMMA TypeStep ==
  ASSUME TypeInv, [Next]_vars
  PROVE  TypeInv'
<1> USE AsyncIOAssumption, TaskFacts DEF TypeInv
<1>1. ASSUME NEW a \in Apps, NEW q \in Queues, CreateAsyncIOQueue(a, q)
      PROVE  TypeInv'
  BY <1>1, PrepareTypes DEF CreateAsyncIOQueue, Types, HandsKept, fileVars, lifeVars,
     callVars, poolVars
<1>2. ASSUME NEW a \in Apps, NEW q \in Queues, WaitAsyncIOResult(a, q)
      PROVE  TypeInv'
  <2>1. CASE PopResult(a, q)
    <3>1. Head(completed[q]) \in Tasks /\ Tail(completed[q]) \in Seq(Tasks)
      BY <2>1, TakeFirst DEF PopResult, Types
    <3> QED BY <1>2, <2>1, <3>1
         DEF WaitAsyncIOResult, PopResult, Move, Labels, Types, HandsKept, fileVars,
         lifeVars, callVars, poolVars
  <2>2. CASE SleepOn(a, q)
    BY <1>2, <2>2 DEF WaitAsyncIOResult, SleepOn, Move, Labels, Types, HandsKept, fileVars,
       lifeVars, callVars, poolVars
  <2> QED BY <1>2, <2>1, <2>2 DEF WaitAsyncIOResult
<1>3. ASSUME NEW a \in Apps, NEW q \in Queues, DestroyAsyncIOQueue(a, q)
      PROVE  TypeInv'
  BY <1>3 DEF DestroyAsyncIOQueue, Move, Labels, Types, HandsKept, fileVars, lifeVars,
     callVars, poolVars
<1>4. ASSUME NEW a \in Apps, NEW f \in Files, NEW q \in Queues, RequestAsyncIO(a, f, q)
      PROVE  TypeInv'
  <2> DEFINE t == <<f, next_io[f] + 1>>
  <2>1. t \in Tasks /\ next_io[f] + 1 \in 0 .. MaxIO
    BY <1>4 DEF RequestAsyncIO, Types
  <2>2. next_io'[f] = next_io[f] + 1
    BY <1>4 DEF RequestAsyncIO, Types
  <2>3. /\ tasks' = [tasks EXCEPT ![f] = @ \cup {t}]
        /\ queue' = [queue EXCEPT ![t] = q]
        /\ Start(a, t, q)
    BY <1>4, <2>2 DEF RequestAsyncIO
  <2> HIDE DEF t
  <2>4. Types'
    BY <1>4, <2>1, <2>3 DEF RequestAsyncIO, Start, Move, Labels, Types, lifeVars, poolVars
  <2>5. HandsKept'
    BY <1>4, <2>1, <2>3 DEF RequestAsyncIO, Start, Move, Types, HandsKept, fileVars,
       lifeVars, callVars, poolVars
  <2> QED BY <2>4, <2>5
<1>5. ASSUME NEW a \in Apps, NEW f \in Files, NEW q \in Queues, CloseAsyncIO(a, f, q)
      PROVE  TypeInv'
  <2>1. CloseOf(f) \in Tasks
    OBVIOUS
  <2>2. CASE tasks' # tasks \/ NoTasks(f)
    <3>1. tasks' = [tasks EXCEPT ![f] = @ \cup {CloseOf(f)}] /\ Start(a, CloseOf(f), q)
      BY <1>5, <2>2 DEF CloseAsyncIO
    <3>2. Types'
      BY <1>5, <2>1, <3>1 DEF CloseAsyncIO, Start, Move, Labels, Types, lifeVars, poolVars
    <3>3. HandsKept'
      BY <1>5, <2>1, <3>1 DEF CloseAsyncIO, Start, Move, Types, HandsKept, fileVars,
         lifeVars, callVars, poolVars
    <3> QED BY <3>2, <3>3
  <2>3. CASE ~NoTasks(f)
    BY <1>5, <2>1, <2>3 DEF CloseAsyncIO, Types, HandsKept, fileVars, lifeVars, callVars,
       poolVars
  <2> QED BY <2>2, <2>3
<1>6. ASSUME NEW a \in Apps, NEW f \in Files, AsyncIOFromFile(a, f)
      PROVE  TypeInv'
  BY <1>6, PrepareTypes DEF AsyncIOFromFile, Types, HandsKept, fileVars, lifeVars, callVars,
     poolVars
<1>7. ASSUME NEW a \in Apps, ShutdownThreadpool(a)
      PROVE  TypeInv'
  BY <1>7 DEF ShutdownThreadpool, Move, Labels, Types, HandsKept, fileVars, lifeVars,
     callVars, poolVars
<1>8. ASSUME NEW a \in Apps, StartTask(a)
      PROVE  TypeInv'
  <2>1. task[a] \in Tasks /\ Move(a, "idle") \in [Apps -> Labels]
    BY <1>8 DEF StartTask, Move, Labels, Types, HandsKept, fileVars, lifeVars, callVars,
       poolVars
  <2>2. QueueAsyncIOTask(task[a], Move(a, "idle"))
    BY <1>8 DEF StartTask
  <2>3. Types'
    BY <1>8, <2>1, <2>2, QueueTypes DEF StartTask, Types, fileVars, lifeVars
  <2>4. \A b \in Apps : \/ pc'[b] = (IF b = a THEN "idle" ELSE pc[b])
                        \/ pc'[b] = "woken" /\ pc[b] = "asleep"
    <3> DEFINE p == Move(a, "idle")
    <3>1. \A b \in Apps : p[b] = IF b = a THEN "idle" ELSE pc[b]
      BY DEF Move, Types
    <3>2. p \in [Apps -> Labels] /\ QueueAsyncIOTask(task[a], p)
      BY <2>1, <2>2
    <3> HIDE DEF p
    <3>3. \A b \in Apps : pc'[b] = p[b] \/ (pc'[b] = "woken" /\ pc[b] = "asleep")
      BY <2>1, <3>2, QueueTypes
    <3> QED BY <3>1, <3>3
  <2>5. \A w \in Workers : wpc'[w] = "io" <=> wpc[w] = "io"
    BY <2>1, <2>2, QueueTypes
  <2>6. wtask' = wtask
    BY <2>1, <2>2, QueueTypes
  <2>7. HandsKept'
    BY <1>8, <2>4, <2>5, <2>6 DEF StartTask, Types, HandsKept, fileVars, lifeVars, callVars,
       poolVars
  <2> QED BY <2>3, <2>7
<1>9. ASSUME NEW a \in Apps, WaitReturns(a)
      PROVE  TypeInv'
  <2>0. at[a] \in Queues
    BY <1>9 DEF WaitReturns, Types
  <2>1. CASE PopResult(a, at[a]) /\ UNCHANGED at
    <3>1. /\ Head(completed[at[a]]) \in Tasks
          /\ Tail(completed[at[a]]) \in Seq(Tasks)
      BY <2>0, <2>1, TakeFirst DEF PopResult, Types
    <3> QED BY <1>9, <2>0, <2>1, <3>1
         DEF WaitReturns, PopResult, Move, Labels, Types, HandsKept, fileVars, lifeVars,
         callVars, poolVars
  <2>2. CASE completed[at[a]] = <<>>
    BY <1>9, <2>0, <2>2
    DEF WaitReturns, PopResult, After, AtAfter, Move, Labels, Types, HandsKept, fileVars,
    lifeVars, callVars, poolVars
  <2> QED BY <1>9, <2>1, <2>2 DEF WaitReturns
<1>10. ASSUME NEW a \in Apps, TaskOutcome(a)
       PROVE  TypeInv'
  <2> DEFINE t == task[a]
             f == FileOf(t)
             c == CloseOf(f)
             p == Move(a, After(a))
  <2>1. t \in Tasks /\ f \in Files /\ c \in Tasks /\ p \in [Apps -> Labels]
    BY <1>10 DEF TaskOutcome, Move, After, Labels, Types, HandsKept, fileVars, lifeVars,
       callVars, poolVars
  <2>2. /\ files' \subseteq files
        /\ at' = AtAfter(a)
        /\ task' = [task EXCEPT ![a] = None]
        /\ pc[a] = "outcome"
        /\ UNCHANGED <<opened, closing, next_io, queue, lifeVars>>
    BY <1>10 DEF TaskOutcome
  <2>3. AtAfter(a) \in [Apps -> Queues \cup {None}]
    BY DEF AtAfter, Types
  <2>4. CASE Due(f, t)
    <3>1. /\ tasks' = [tasks EXCEPT ![f] = {c}]
          /\ inflight' = [Counted(queue[c]) EXCEPT ![queue[t]] = @ - 1]
          /\ QueueAsyncIOTask(c, p)
      BY <1>10, <2>4 DEF TaskOutcome
    <3> HIDE DEF t, f, c, p
    <3>2. Counted(queue[c]) \in [Queues -> Int]
      BY CountTypes DEF Counted, Types
    <3>3. inflight' \in [Queues -> Int]
      BY <3>1, <3>2, CountTypes
    <3>9. tasks' \in [Files -> SUBSET Tasks]
      BY <2>1, <3>1 DEF Types
    <3>4. Types'
      BY <2>1, <2>2, <2>3, <3>1, <3>3, <3>9, QueueTypes DEF Types, lifeVars
    <3>5. \A b \in Apps : pc'[b] = p[b] \/ (pc'[b] = "woken" /\ pc[b] = "asleep")
      BY <2>1, <3>1, QueueTypes
    <3>6. wtask' = wtask /\ \A w \in Workers : wpc'[w] = "io" <=> wpc[w] = "io"
      BY <2>1, <3>1, QueueTypes
    <3>7. HandsKept'
      BY <2>1, <2>2, <3>4, <3>5, <3>6 DEF p, AtAfter, After, Move, HandsKept, Types
    <3> QED BY <3>4, <3>7
  <2>5. CASE ~Due(f, t)
    <3>1. /\ tasks' = [tasks EXCEPT ![f] = @ \ {t}]
          /\ inflight' = [inflight EXCEPT ![queue[t]] = @ - 1]
          /\ pc' = p
          /\ UNCHANGED <<completed, poolVars>>
      BY <1>10, <2>5 DEF TaskOutcome
    <3> HIDE DEF t, f, c
    <3>9. inflight' \in [Queues -> Int]
      BY <3>1, CountTypes DEF Types
    <3>2. Types'
      BY <2>1, <2>2, <2>3, <3>1, <3>9 DEF Types, lifeVars, poolVars
    <3>3. HandsKept'
      BY <2>2, <3>1 DEF AtAfter, After, Move, HandsKept, Types, poolVars
    <3> QED BY <3>2, <3>3
  <2> QED BY <2>4, <2>5
<1>11. ASSUME NEW a \in Apps, DestroyLoop(a)
       PROVE  TypeInv'
  <2> DEFINE q == at[a]
  <2>0. q \in Queues
    BY <1>11 DEF DestroyLoop, HandsKept
  <2>1. CASE PopResult(a, q) /\ UNCHANGED <<queues, dying, at>>
    <3>1. Head(completed[q]) \in Tasks /\ Tail(completed[q]) \in Seq(Tasks)
      BY <2>0, <2>1, TakeFirst DEF PopResult, Types
    <3> QED BY <1>11, <2>0, <2>1, <3>1
         DEF DestroyLoop, PopResult, Move, Labels, Types, HandsKept, fileVars, lifeVars,
         callVars, poolVars
  <2>2. CASE SleepOn(a, q) /\ UNCHANGED <<queues, dying, at>>
    BY <1>11, <2>2 DEF DestroyLoop, SleepOn, Move, Labels, Types, HandsKept, fileVars,
       lifeVars, callVars, poolVars
  <2>3. CASE inflight[q] = 0
    <3>1. /\ queues' = queues \ {q}
          /\ dying' = dying \ {q}
          /\ pc' = Move(a, "idle")
          /\ at' = [at EXCEPT ![a] = None]
          /\ UNCHANGED <<completed, task>>
          /\ UNCHANGED <<fileVars, made, inflight, poolVars>>
          /\ pc[a] = "destroy"
      BY <1>11, <2>3 DEF DestroyLoop
    <3> HIDE DEF q
    <3>2. Types'
      BY <3>1 DEF Move, Labels, Types, HandsKept, fileVars, lifeVars, callVars, poolVars
    <3>3. HandsKept'
      BY <3>1 DEF Move, Types, HandsKept, fileVars, lifeVars, callVars, poolVars
    <3> QED BY <3>2, <3>3
  <2> QED BY <1>11, <2>1, <2>2, <2>3 DEF DestroyLoop
<1>12. ASSUME NEW a \in Apps, CancelLoop(a)
       PROVE  TypeInv'
  <2>1. CASE pool # <<>>
    <3>1. Head(pool) \in Tasks /\ Tail(pool) \in Seq(Tasks)
      BY <2>1, TakeFirst DEF Types
    <3>2. AsyncIOTaskComplete(Head(pool), pc) /\ pool' = Tail(pool) /\ UNCHANGED <<stop, wpc>>
      BY <1>12, <2>1 DEF CancelLoop
    <3>3. /\ completed' \in [Queues -> Seq(Tasks)]
          /\ pc' \in [Apps -> Labels]
          /\ \A b \in Apps :
               pc'[b] = pc[b] \/ (pc'[b] = "woken" /\ pc[b] = "asleep")
      BY <3>1, <3>2, CompleteTypes DEF Types
    <3> QED BY <1>12, <3>1, <3>2, <3>3 DEF CancelLoop, Types, HandsKept, fileVars, lifeVars,
         callVars, poolVars
  <2>2. CASE pool = <<>>
    <3>1. /\ wpc' \in [Workers -> {"none", "top", "idle", "woken", "timedout", "io"}]
          /\ \A w \in Workers : wpc'[w] = "io" <=> wpc[w] = "io"
      BY <1>12, <2>2 DEF CancelLoop, WorkersWoken, Types
    <3> QED BY <1>12, <2>2, <3>1 DEF CancelLoop, Move, Labels, Types, HandsKept, fileVars,
         lifeVars, callVars, poolVars
  <2> QED BY <2>1, <2>2
<1>13. ASSUME NEW a \in Apps, QuitLoop(a)
       PROVE  TypeInv'
  BY <1>13 DEF QuitLoop, Move, Labels, Types, HandsKept, fileVars, lifeVars, callVars,
     poolVars
<1>14. ASSUME NEW a \in Apps, WaitTimesOut(a)
       PROVE  TypeInv'
  BY <1>14 DEF WaitTimesOut, Move, Labels, Types, HandsKept, fileVars, lifeVars, callVars,
     poolVars
<1>15. ASSUME NEW q \in Queues, SignalAsyncIOQueue(q)
       PROVE  TypeInv'
  BY <1>15, WokenTypes DEF SignalAsyncIOQueue, Woken, Sleepers, Labels, Types, HandsKept,
     fileVars, lifeVars, callVars, poolVars
<1>16. ASSUME NEW w \in Workers, WorkerRuns(w)
       PROVE  TypeInv'
  <2>1. /\ wpc[w] # "io"
        /\ \/ WorkerLoop(w, idle) \/ WorkerLoop(w, idle - 1)
           \/ WorkerExits(w, idle - 1)
        /\ UNCHANGED <<fileVars, lifeVars, inflight, completed, callVars, status, stop>>
    BY <1>16 DEF WorkerRuns
  <2>2. idle \in Int /\ idle - 1 \in Int
    BY DEF Types
  <2>3. \A v \in Workers : wtask[v] \in Tasks <=> wpc[v] = "io"
    BY DEF HandsKept
  <2>4. /\ pc' \in [Apps -> Labels]
        /\ \A a \in Apps :
             pc'[a] = pc[a] \/ (pc'[a] = "woken" /\ pc[a] = "asleep")
        /\ pool' \in Seq(Tasks)
        /\ running' \in Int /\ idle' \in Int
        /\ wpc' \in [Workers -> {"none", "top", "idle", "woken", "timedout", "io"}]
        /\ wtask' \in [Workers -> Tasks \cup {None}]
        /\ \A v \in Workers : wtask'[v] \in Tasks <=> wpc'[v] = "io"
    BY <2>1, <2>2, <2>3, LoopTypes
  <2> QED BY <2>1, <2>4 DEF Types, HandsKept, fileVars, lifeVars, callVars, poolVars
<1>17. ASSUME NEW w \in Workers, SynchronousIO(w)
       PROVE  TypeInv'
  <2>1. wtask[w] \in Tasks /\ AsyncIOTaskComplete(wtask[w], pc)
    BY <1>17 DEF SynchronousIO, HandsKept
  <2>2. /\ completed' \in [Queues -> Seq(Tasks)]
        /\ pc' \in [Apps -> Labels]
        /\ \A b \in Apps :
             pc'[b] = pc[b] \/ (pc'[b] = "woken" /\ pc[b] = "asleep")
    BY <2>1, CompleteTypes DEF Types
  <2> QED BY <1>17, <2>2 DEF SynchronousIO, Types, HandsKept, fileVars, lifeVars, callVars,
       poolVars
<1>18. ASSUME NEW w \in Workers, WorkerTimesOut(w)
       PROVE  TypeInv'
  BY <1>18 DEF WorkerTimesOut, Types, HandsKept, fileVars, lifeVars, callVars, poolVars
<1>19. CASE UNCHANGED vars
  BY <1>19 DEF vars, Types, HandsKept, fileVars, lifeVars, callVars, poolVars
<1> QED
  BY <1>1, <1>2, <1>3, <1>4, <1>5, <1>6, <1>7, <1>8, <1>9, <1>10, <1>11, <1>12,
     <1>13, <1>14, <1>15, <1>16, <1>17, <1>18, <1>19 DEF Next, App, Call, Worker

-------------------------------------------------------------------------------
(* Every task is in one place *)

\* A file's tasks are its own, as many as were started, and its close has no
\* company.
FileTasks ==
  \A f \in Files :
    /\ \A t \in tasks[f] : FileOf(t) = f /\ t[2] <= next_io[f]
    /\ CloseOf(f) \in tasks[f] => tasks[f] = {CloseOf(f)} /\ f \in closing

TaskInv == Placed(task, wtask, pool, completed, tasks, queue) /\ FileTasks

\* Queueing a task that is in no other place puts it in the pool or, canceled,
\* on its queue.
LEMMA QueuePlaces ==
  ASSUME NEW tk, NEW ts, NEW t \in Tasks, NEW p,
         Placed(tk, wtask, pool, completed, ts, queue),
         Live(t, ts), Nowhere(t, tk, wtask, pool, completed),
         QueueAsyncIOTask(t, p)
  PROVE  Placed(tk, wtask', pool', completed', ts, queue)
<1>1. CASE stop
  <2>1. /\ completed' = [completed EXCEPT ![queue[t]] = <<t>> \o @]
        /\ pool' = pool /\ wtask' = wtask
    BY <1>1 DEF QueueAsyncIOTask, AsyncIOTaskComplete, poolVars
  <2> QED BY <2>1, QueueGets
<1>2. CASE ~stop
  <2>1. pool' = <<t>> \o pool /\ completed' = completed /\ wtask' = wtask
    BY <1>2 DEF QueueAsyncIOTask
  <2> QED BY <2>1, PoolGets
<1> QED BY <1>1, <1>2

\* The first result of a queue goes to the thread that takes it.
LEMMA PopPlaces ==
  ASSUME Placed(task, wtask, pool, completed, tasks, queue),
         NEW a \in Apps, NEW q \in Queues, PopResult(a, q)
  PROVE  Placed(task', wtask, pool, completed', tasks, queue)
<1> DEFINE t == Head(completed[q])
           co == [completed EXCEPT ![q] = Tail(@)]
<1>1. completed[q] # <<>> /\ task' = [task EXCEPT ![a] = t] /\ completed' = co
  BY DEF PopResult
<1>2. /\ Placed(task, wtask, pool, co, tasks, queue)
      /\ Nowhere(t, task, wtask, pool, co)
      /\ t \in Tasks /\ Live(t, tasks)
  BY <1>1, QueueGives
<1> HIDE DEF t, co
<1> QED BY <1>1, <1>2, AppGets

\* There are no tasks at first.
LEMMA TaskInit ==
  ASSUME Init
  PROVE  TaskInv
<1> USE AsyncIOAssumption, TaskFacts, Empty DEF Init
<1>1. HandTypes(task, wtask, pool, completed)
  <2>1. <<>> \in Seq(Tasks)
    OBVIOUS
  <2> QED BY <2>1 DEF HandTypes
<1>2. Apart(task, wtask, pool, completed)
  BY DEF Apart
<1>3. Underway(task, wtask, pool, completed, tasks, queue)
  BY DEF Underway
<1>4. FileTasks
  BY DEF FileTasks
<1> QED BY <1>1, <1>2, <1>3, <1>4 DEF TaskInv, Placed

\* No step copies a task or leaves it in two places.
LEMMA TaskStep ==
  ASSUME TypeInv, TaskInv, [Next]_vars
  PROVE  TaskInv'
<1> USE TaskFacts DEF TypeInv
<1>0. /\ Placed(task, wtask, pool, completed, tasks, queue)
      /\ FileTasks
  BY DEF TaskInv
<1>1. ASSUME NEW a \in Apps, NEW q \in Queues, CreateAsyncIOQueue(a, q)
      PROVE  TaskInv'
  <2>1. UNCHANGED <<task, wtask, pool, completed, tasks, queue, next_io, closing>>
    BY <1>1, PrepareTypes DEF CreateAsyncIOQueue, fileVars, lifeVars, callVars, poolVars
  <2> QED BY <1>0, <2>1 DEF TaskInv, FileTasks
<1>2. ASSUME NEW a \in Apps, NEW q \in Queues, WaitAsyncIOResult(a, q)
      PROVE  TaskInv'
  <2>1. CASE PopResult(a, q)
    <3>1. UNCHANGED <<wtask, pool, tasks, queue, next_io, closing>>
      BY <1>2 DEF WaitAsyncIOResult, fileVars, lifeVars, callVars, poolVars
    <3>2. PopResult(a, q) /\ q \in Queues
      BY <1>2, <2>1 DEF WaitAsyncIOResult
    <3>3. Placed(task', wtask, pool, completed', tasks, queue)
      BY <1>0, <3>2, PopPlaces
    <3> QED BY <1>0, <3>1, <3>3 DEF TaskInv, FileTasks
  <2>2. CASE SleepOn(a, q)
    <3>1. UNCHANGED <<task, wtask, pool, completed, tasks, queue, next_io, closing>>
      BY <1>2, <2>2 DEF WaitAsyncIOResult, SleepOn, fileVars, lifeVars, callVars, poolVars
    <3> QED BY <1>0, <3>1 DEF TaskInv, FileTasks
  <2> QED BY <1>2, <2>1, <2>2 DEF WaitAsyncIOResult
<1>3. ASSUME NEW a \in Apps, NEW q \in Queues, DestroyAsyncIOQueue(a, q)
      PROVE  TaskInv'
  <2>1. UNCHANGED <<task, wtask, pool, completed, tasks, queue, next_io, closing>>
    BY <1>3 DEF DestroyAsyncIOQueue, fileVars, lifeVars, callVars, poolVars
  <2> QED BY <1>0, <2>1 DEF TaskInv, FileTasks
<1>4. ASSUME NEW a \in Apps, NEW f \in Files, NEW q \in Queues, RequestAsyncIO(a, f, q)
      PROVE  TaskInv'
  <2> DEFINE t == <<f, next_io[f] + 1>>
  <2>1. /\ t \in Tasks /\ FileOf(t) = f /\ t # CloseOf(f) /\ t[2] = next_io[f] + 1
        /\ next_io[f] + 1 \in 1 .. MaxIO
    BY <1>4, AsyncIOAssumption DEF RequestAsyncIO, Types
  <2>2. /\ next_io' = [next_io EXCEPT ![f] = @ + 1]
        /\ f \notin closing
    BY <1>4 DEF RequestAsyncIO
  <2>3. next_io'[f] = next_io[f] + 1
    BY <2>2 DEF Types
  <2>4. /\ tasks' = [tasks EXCEPT ![f] = @ \cup {t}]
        /\ queue' = [queue EXCEPT ![t] = q]
        /\ task' = [task EXCEPT ![a] = t]
    BY <1>4, <2>3 DEF RequestAsyncIO, Start
  <2>5. UNCHANGED <<wtask, pool, completed, closing>>
    BY <1>4 DEF RequestAsyncIO, poolVars
  <2>6. ~Live(t, tasks)
    BY <1>0, <2>1 DEF Live, FileTasks, Types
  <2> HIDE DEF t
  <2>7. Nowhere(t, task, wtask, pool, completed)
    BY <1>0, <2>1, <2>6, NotLive
  <2>8. Placed(task, wtask, pool, completed, tasks, queue')
    BY <1>0, <2>1, <2>4, <2>7, NamesQueue DEF Types
  <2>9. /\ \A x \in Tasks : Live(x, tasks) /\ x # t => Live(x, tasks')
        /\ Live(t, tasks')
    BY <2>1, <2>4 DEF Live, Types
  <2>10. Placed(task, wtask, pool, completed, tasks', queue')
    BY <2>1, <2>7, <2>8, <2>9, FilesChange
  <2>11. Placed(task', wtask', pool', completed', tasks', queue')
    BY <2>1, <2>4, <2>5, <2>7, <2>9, <2>10, AppGets
  <2>12. FileTasks'
    <3>1. ASSUME NEW k \in Files, k # f
          PROVE  tasks'[k] = tasks[k] /\ next_io'[k] = next_io[k]
      BY <2>2, <2>4, <3>1 DEF Types
    <3>2. tasks'[f] = tasks[f] \cup {t}
      BY <2>4 DEF Types
    <3>3. CloseOf(f) \notin tasks'[f]
      BY <1>0, <2>1, <2>2, <3>2 DEF FileTasks
    <3>4. \A x \in tasks'[f] : FileOf(x) = f /\ x[2] <= next_io'[f]
      <4>1. \A x \in tasks[f] : FileOf(x) = f /\ x[2] <= next_io[f] /\ x[2] \in Int
        BY <1>0 DEF FileTasks, Types, Tasks
      <4>2. next_io[f] \in Int
        BY AsyncIOAssumption DEF Types
      <4> QED BY <2>1, <2>3, <3>2, <4>1, <4>2
    <3> QED BY <1>0, <2>5, <3>1, <3>3, <3>4 DEF FileTasks
  <2> QED BY <2>11, <2>12 DEF TaskInv
<1>5. ASSUME NEW a \in Apps, NEW f \in Files, NEW q \in Queues, CloseAsyncIO(a, f, q)
      PROVE  TaskInv'
  <2> DEFINE t == CloseOf(f)
  <2>1. t \in Tasks /\ FileOf(t) = f
    OBVIOUS
  <2>2. /\ f \notin closing /\ closing' = closing \cup {f}
        /\ queue' = [queue EXCEPT ![t] = q]
        /\ UNCHANGED <<wtask, pool, completed, next_io>>
    BY <1>5 DEF CloseAsyncIO, poolVars
  <2>3. ~Live(t, tasks)
    BY <1>0, <2>1, <2>2 DEF Live, FileTasks
  <2>4. Nowhere(t, task, wtask, pool, completed)
    BY <1>0, <2>1, <2>3, NotLive
  <2>5. Placed(task, wtask, pool, completed, tasks, queue')
    BY <1>0, <2>1, <2>2, <2>4, NamesQueue DEF Types
  <2>6. CASE NoTasks(f) /\ ~UNCHANGED <<tasks, task>>
    <3>1. /\ tasks[f] = {}
          /\ tasks' = [tasks EXCEPT ![f] = @ \cup {t}]
          /\ task' = [task EXCEPT ![a] = t]
      BY <1>5, <2>6 DEF CloseAsyncIO, Start, NoTasks
    <3>2. t[2] = 0 /\ \A k \in Files : next_io[k] >= 0
      BY AsyncIOAssumption DEF CloseOf, Types
    <3> HIDE DEF t
    <3>3. /\ \A x \in Tasks : Live(x, tasks) /\ x # t => Live(x, tasks')
          /\ Live(t, tasks')
      BY <2>1, <3>1 DEF Live, Types
    <3>4. Placed(task, wtask, pool, completed, tasks', queue')
      BY <2>1, <2>4, <2>5, <3>3, FilesChange
    <3>5. Placed(task', wtask', pool', completed', tasks', queue')
      BY <2>1, <2>2, <2>4, <3>1, <3>3, <3>4, AppGets
    <3>6. FileTasks'
      BY <1>0, <2>1, <2>2, <3>1, <3>2 DEF FileTasks, Types, t
    <3> QED BY <3>5, <3>6 DEF TaskInv
  <2>7. CASE UNCHANGED <<tasks, task>>
    BY <1>0, <2>2, <2>5, <2>7 DEF TaskInv, FileTasks
  <2> QED BY <1>5, <2>6, <2>7 DEF CloseAsyncIO
<1>6. ASSUME NEW a \in Apps, NEW f \in Files, AsyncIOFromFile(a, f)
      PROVE  TaskInv'
  <2>1. UNCHANGED <<task, wtask, pool, completed, tasks, queue, next_io, closing>>
    BY <1>6, PrepareTypes DEF AsyncIOFromFile, fileVars, lifeVars, callVars, poolVars
  <2> QED BY <1>0, <2>1 DEF TaskInv, FileTasks
<1>7. ASSUME NEW a \in Apps, ShutdownThreadpool(a)
      PROVE  TaskInv'
  <2>1. UNCHANGED <<task, wtask, pool, completed, tasks, queue, next_io, closing>>
    BY <1>7 DEF ShutdownThreadpool, fileVars, lifeVars, callVars, poolVars
  <2> QED BY <1>0, <2>1 DEF TaskInv, FileTasks
<1>8. ASSUME NEW a \in Apps, StartTask(a)
      PROVE  TaskInv'
  <2> DEFINE t == task[a]
             tk == [task EXCEPT ![a] = None]
  <2>1. /\ t \in Tasks /\ QueueAsyncIOTask(t, Move(a, "idle")) /\ task' = tk
        /\ UNCHANGED <<tasks, queue, next_io, closing>>
    BY <1>8 DEF StartTask, HandsKept, fileVars
  <2>2. /\ Placed(tk, wtask, pool, completed, tasks, queue)
        /\ Nowhere(t, tk, wtask, pool, completed) /\ Live(t, tasks)
    BY <1>0, <2>1, AppDrops
  <2> HIDE DEF t, tk
  <2>3. Placed(tk, wtask', pool', completed', tasks, queue)
    BY <2>1, <2>2, QueuePlaces
  <2> QED BY <1>0, <2>1, <2>3 DEF TaskInv, FileTasks
<1>9. ASSUME NEW a \in Apps, WaitReturns(a)
      PROVE  TaskInv'
  <2>1. CASE PopResult(a, at[a]) /\ UNCHANGED at
    <3>1. UNCHANGED <<wtask, pool, tasks, queue, next_io, closing>>
      BY <1>9 DEF WaitReturns, Types, fileVars, lifeVars, callVars, poolVars
    <3>2. PopResult(a, at[a]) /\ at[a] \in Queues
      BY <1>9, <2>1 DEF WaitReturns, Types
    <3>3. Placed(task', wtask, pool, completed', tasks, queue)
      BY <1>0, <3>2, PopPlaces
    <3> QED BY <1>0, <3>1, <3>3 DEF TaskInv, FileTasks
  <2>2. CASE UNCHANGED <<task, completed>>
    <3>1. UNCHANGED <<task, wtask, pool, completed, tasks, queue, next_io, closing>>
      BY <1>9, <2>2 DEF WaitReturns, fileVars, lifeVars, callVars, poolVars
    <3> QED BY <1>0, <3>1 DEF TaskInv, FileTasks
  <2> QED BY <1>9, <2>1, <2>2 DEF WaitReturns
<1>10. ASSUME NEW a \in Apps, TaskOutcome(a)
       PROVE  TaskInv'
  <2> DEFINE t == task[a]
             f == FileOf(t)
             c == CloseOf(f)
             tk == [task EXCEPT ![a] = None]
  <2>1. t \in Tasks /\ f \in Files /\ c \in Tasks /\ FileOf(c) = f
    BY <1>10 DEF TaskOutcome, HandsKept
  <2>2. task' = tk /\ UNCHANGED <<closing, next_io, queue>>
    BY <1>10 DEF TaskOutcome
  <2>3. /\ Placed(tk, wtask, pool, completed, tasks, queue)
        /\ Nowhere(t, tk, wtask, pool, completed)
    BY <1>0, <2>1, AppDrops
  <2>4. CASE Due(f, t)
    <3>1. /\ tasks' = [tasks EXCEPT ![f] = {c}]
          /\ QueueAsyncIOTask(c, Move(a, After(a)))
          /\ f \in closing /\ t # c /\ tasks[f] = {t}
      BY <1>10, <2>4 DEF TaskOutcome, Due
    <3>2. c[2] = 0 /\ next_io[f] >= 0
      BY <2>1, AsyncIOAssumption DEF CloseOf, Types
    <3>3. ~Live(c, tasks)
      BY <2>1, <3>1 DEF Live
    <3>4. Nowhere(c, tk, wtask, pool, completed)
      BY <2>1, <2>3, <3>3, NotLive
    <3>5. /\ \A x \in Tasks : Live(x, tasks) /\ x # t => Live(x, tasks')
          /\ Live(c, tasks')
      <4> HIDE DEF c, f, t
      <4>1. \A x \in Tasks : FileOf(x) = f /\ Live(x, tasks) => x = t
        BY <3>1 DEF Live
      <4> QED BY <2>1, <3>1, <4>1 DEF Live, Types
    <3> HIDE DEF t, f, tk
    <3>6. Placed(tk, wtask, pool, completed, tasks', queue)
      BY <2>1, <2>3, <3>5, FilesChange
    <3>7. Placed(tk, wtask', pool', completed', tasks', queue)
      BY <2>1, <3>1, <3>4, <3>5, <3>6, QueuePlaces
    <3>8. FileTasks'
      BY <1>0, <2>1, <2>2, <3>1, <3>2 DEF FileTasks, Types
    <3> QED BY <2>2, <3>7, <3>8 DEF TaskInv
  <2>5. CASE ~Due(f, t)
    <3>1. /\ tasks' = [tasks EXCEPT ![f] = @ \ {t}]
          /\ UNCHANGED <<completed, pool, wtask>>
      BY <1>10, <2>5 DEF TaskOutcome, poolVars
    <3> HIDE DEF t, f, tk
    <3>2. \A x \in Tasks : Live(x, tasks) /\ x # t => Live(x, tasks')
      BY <2>1, <3>1 DEF Live, Types
    <3>3. Placed(tk, wtask, pool, completed, tasks', queue)
      BY <2>1, <2>3, <3>2, FilesChange
    <3>4. FileTasks'
      BY <1>0, <2>1, <2>2, <3>1 DEF FileTasks, Types
    <3> QED BY <2>2, <3>1, <3>3, <3>4 DEF TaskInv
  <2> QED BY <2>4, <2>5
<1>11. ASSUME NEW a \in Apps, DestroyLoop(a)
       PROVE  TaskInv'
  <2> DEFINE q == at[a]
  <2>0. q \in Queues
    BY <1>11 DEF DestroyLoop, HandsKept
  <2>1. CASE PopResult(a, q)
    <3>1. UNCHANGED <<wtask, pool, tasks, queue, next_io, closing>>
      BY <1>11 DEF DestroyLoop, fileVars, lifeVars, callVars, poolVars
    <3>2. PopResult(a, q) /\ q \in Queues
      BY <1>11, <2>0, <2>1 DEF DestroyLoop
    <3>3. Placed(task', wtask, pool, completed', tasks, queue)
      BY <1>0, <3>2, PopPlaces
    <3> QED BY <1>0, <3>1, <3>3 DEF TaskInv, FileTasks
  <2>2. CASE UNCHANGED <<task, completed>>
    <3>1. UNCHANGED <<task, wtask, pool, completed, tasks, queue, next_io, closing>>
      BY <1>11, <2>2 DEF DestroyLoop, fileVars, lifeVars, callVars, poolVars
    <3> QED BY <1>0, <3>1 DEF TaskInv, FileTasks
  <2> QED BY <1>11, <2>1, <2>2 DEF DestroyLoop, SleepOn
<1>12. ASSUME NEW a \in Apps, CancelLoop(a)
       PROVE  TaskInv'
  <2>0. UNCHANGED <<task, wtask, tasks, queue, next_io, closing>>
    BY <1>12 DEF CancelLoop, fileVars, lifeVars, callVars, poolVars
  <2>1. CASE pool # <<>>
    <3> DEFINE t == Head(pool)
    <3>1. /\ completed' = [completed EXCEPT ![queue[t]] = <<t>> \o @]
          /\ pool' = Tail(pool)
      BY <1>12, <2>1 DEF CancelLoop, AsyncIOTaskComplete
    <3>2. /\ Placed(task, wtask, pool', completed, tasks, queue)
          /\ Nowhere(t, task, wtask, pool', completed)
          /\ t \in Tasks /\ Live(t, tasks)
      BY <1>0, <2>1, <3>1, PoolGives
    <3> HIDE DEF t
    <3>3. Placed(task, wtask, pool', completed', tasks, queue)
      BY <3>1, <3>2, QueueGets
    <3> QED BY <1>0, <2>0, <3>3 DEF TaskInv, FileTasks
  <2>2. CASE pool = <<>>
    <3>1. UNCHANGED <<completed, pool>>
      BY <1>12, <2>2 DEF CancelLoop
    <3> QED BY <1>0, <2>0, <3>1 DEF TaskInv, FileTasks
  <2> QED BY <2>1, <2>2
<1>13. ASSUME NEW a \in Apps, QuitLoop(a)
       PROVE  TaskInv'
  <2>1. UNCHANGED <<task, wtask, pool, completed, tasks, queue, next_io, closing>>
    BY <1>13 DEF QuitLoop, fileVars, lifeVars, callVars, poolVars
  <2> QED BY <1>0, <2>1 DEF TaskInv, FileTasks
<1>14. ASSUME NEW a \in Apps, WaitTimesOut(a)
       PROVE  TaskInv'
  <2>1. UNCHANGED <<task, wtask, pool, completed, tasks, queue, next_io, closing>>
    BY <1>14 DEF WaitTimesOut, fileVars, lifeVars, callVars, poolVars
  <2> QED BY <1>0, <2>1 DEF TaskInv, FileTasks
<1>15. ASSUME NEW q \in Queues, SignalAsyncIOQueue(q)
       PROVE  TaskInv'
  <2>1. UNCHANGED <<task, wtask, pool, completed, tasks, queue, next_io, closing>>
    BY <1>15 DEF SignalAsyncIOQueue, fileVars, lifeVars, callVars, poolVars
  <2> QED BY <1>0, <2>1 DEF TaskInv, FileTasks
<1>16. ASSUME NEW w \in Workers, WorkerRuns(w)
       PROVE  TaskInv'
  <2>0. UNCHANGED <<task, completed, tasks, queue, next_io, closing>>
    BY <1>16 DEF WorkerRuns, fileVars, lifeVars, callVars, poolVars
  <2>1. CASE UNCHANGED <<pool, wtask>>
    BY <1>0, <2>0, <2>1 DEF TaskInv, FileTasks
  <2>2. CASE /\ pool # <<>>
             /\ wtask' = [wtask EXCEPT ![w] = Head(pool)]
             /\ pool' = Tail(pool)
    <3>1. Placed(task, wtask', pool', completed, tasks, queue)
      BY <1>0, <2>2, PoolGives, WorkerGets
    <3> QED BY <1>0, <2>0, <3>1 DEF TaskInv, FileTasks
  <2>3. \/ UNCHANGED <<pool, wtask>>
        \/ /\ pool # <<>>
           /\ wtask' = [wtask EXCEPT ![w] = Head(pool)]
           /\ pool' = Tail(pool)
    BY <1>16 DEF WorkerRuns, WorkerLoop, WorkerExits
  <2> QED BY <2>1, <2>2, <2>3
<1>17. ASSUME NEW w \in Workers, SynchronousIO(w)
       PROVE  TaskInv'
  <2> DEFINE t == wtask[w]
             wt == [wtask EXCEPT ![w] = None]
  <2>1. /\ t \in Tasks /\ wtask' = wt
        /\ completed' = [completed EXCEPT ![queue[t]] = <<t>> \o @]
        /\ UNCHANGED <<task, pool, tasks, queue, next_io, closing>>
    BY <1>17 DEF SynchronousIO, AsyncIOTaskComplete, HandsKept, fileVars, lifeVars,
       callVars, poolVars
  <2>2. /\ Placed(task, wt, pool, completed, tasks, queue)
        /\ Nowhere(t, task, wt, pool, completed) /\ Live(t, tasks)
    BY <1>0, <2>1, WorkerDrops
  <2> HIDE DEF t, wt
  <2>3. Placed(task, wt, pool, completed', tasks, queue)
    BY <2>1, <2>2, QueueGets
  <2> QED BY <1>0, <2>1, <2>3 DEF TaskInv, FileTasks
<1>18. ASSUME NEW w \in Workers, WorkerTimesOut(w)
       PROVE  TaskInv'
  <2>1. UNCHANGED <<task, wtask, pool, completed, tasks, queue, next_io, closing>>
    BY <1>18 DEF WorkerTimesOut, fileVars, lifeVars, callVars, poolVars
  <2> QED BY <1>0, <2>1 DEF TaskInv, FileTasks
<1>19. CASE UNCHANGED vars
  <2>1. UNCHANGED <<task, wtask, pool, completed, tasks, queue, next_io, closing>>
    BY <1>19 DEF vars, fileVars, lifeVars, callVars, poolVars
  <2> QED BY <1>0, <2>1 DEF TaskInv, FileTasks
<1> QED
  BY <1>1, <1>2, <1>3, <1>4, <1>5, <1>6, <1>7, <1>8, <1>9, <1>10, <1>11, <1>12,
     <1>13, <1>14, <1>15, <1>16, <1>17, <1>18, <1>19 DEF Next, App, Call, Worker

-------------------------------------------------------------------------------
(* Files and counts *)

\* A file with tasks is in memory, and tasks and closes asked for name a queue.
FilesKept ==
  /\ \A f \in Files : tasks[f] # {} => f \in files
  /\ CloseNotForgotten
  /\ \A t \in Tasks : Live(t, tasks) => queue[t] \in Queues
  /\ \A f \in closing : queue[CloseOf(f)] \in Queues

\* The live tasks that name queue q.
Naming(q) == {t \in Tasks : Live(t, tasks) /\ queue[t] = q}

\* tasks_inflight counts the live tasks that name a queue.
InflightCounts == \A q \in Queues : inflight[q] = Cardinality(Naming(q))

FileInv == FilesKept /\ InflightCounts

\* Sets that gain or lose one element.
LEMMA OneMore ==
  ASSUME NEW S, IsFiniteSet(S), NEW x, x \notin S
  PROVE  Cardinality(S \cup {x}) = Cardinality(S) + 1 /\ IsFiniteSet(S \cup {x})
BY FS_AddElement

LEMMA OneLess ==
  ASSUME NEW S, IsFiniteSet(S), NEW x \in S
  PROVE  /\ Cardinality(S \ {x}) = Cardinality(S) - 1
         /\ IsFiniteSet(S \ {x})
         /\ Cardinality(S) \in Nat /\ Cardinality(S) >= 1
<1>1. /\ IsFiniteSet(S \ {x})
      /\ Cardinality(S \ {x}) = IF x \in S THEN Cardinality(S) - 1 ELSE Cardinality(S)
  BY FS_RemoveElement
<1>2. Cardinality(S) \in Nat /\ Cardinality(S \ {x}) \in Nat
  BY <1>1, FS_CardinalityType
<1> QED BY <1>1, <1>2

\* Finitely many tasks name a queue.
LEMMA NamingIsFinite ==
  ASSUME NEW q
  PROVE  /\ IsFiniteSet(Naming(q))
         /\ Cardinality(Naming(q)) \in 0 .. Cardinality(Tasks)
<1>1. Naming(q) \subseteq Tasks
  BY DEF Naming
<1>2. IsFiniteSet(Naming(q)) /\ Cardinality(Naming(q)) <= Cardinality(Tasks)
  BY <1>1, TasksAreFinite, FS_Subset
<1>3. Cardinality(Naming(q)) \in Nat /\ Cardinality(Tasks) \in Nat
  BY <1>2, TasksAreFinite, FS_CardinalityType
<1> QED BY <1>2, <1>3

\* Nothing names a queue at first.
LEMMA FileInit ==
  ASSUME Init
  PROVE  FileInv
<1> USE TaskFacts DEF Init
<1>1. FilesKept
  BY DEF FilesKept, CloseNotForgotten, Live
<1>2. ASSUME NEW q \in Queues
      PROVE  inflight[q] = Cardinality(Naming(q))
  <2>1. Naming(q) = {}
    BY DEF Naming, Live
  <2>2. Cardinality({}) = 0
    BY FS_EmptySet
  <2> QED BY <2>1, <2>2
<1> QED BY <1>1, <1>2 DEF FileInv, InflightCounts

\* Files and counts follow their tasks.
LEMMA FileStep ==
  ASSUME TypeInv, TaskInv, FileInv, [Next]_vars
  PROVE  FileInv'
<1> USE TaskFacts DEF TypeInv
<1>0. FilesKept /\ InflightCounts /\ FileTasks
  BY DEF FileInv, TaskInv
<1>00. ASSUME UNCHANGED <<files, tasks, closing, queue, inflight>>
       PROVE  FileInv'
  BY <1>0, <1>00 DEF FileInv, FilesKept, InflightCounts, Naming, CloseNotForgotten
<1>1. ASSUME NEW a \in Apps, NEW q \in Queues, CreateAsyncIOQueue(a, q)
      PROVE  FileInv'
  BY <1>1, <1>00 DEF CreateAsyncIOQueue, fileVars
<1>2. ASSUME NEW a \in Apps, NEW q \in Queues, WaitAsyncIOResult(a, q)
      PROVE  FileInv'
  BY <1>2, <1>00 DEF WaitAsyncIOResult, fileVars
<1>3. ASSUME NEW a \in Apps, NEW q \in Queues, DestroyAsyncIOQueue(a, q)
      PROVE  FileInv'
  BY <1>3, <1>00 DEF DestroyAsyncIOQueue, fileVars
<1>4. ASSUME NEW a \in Apps, NEW f \in Files, NEW q \in Queues, RequestAsyncIO(a, f, q)
      PROVE  FileInv'
  <2> DEFINE t == <<f, next_io[f] + 1>>
  <2>1. /\ t \in Tasks /\ FileOf(t) = f /\ t # CloseOf(f) /\ t[2] = next_io[f] + 1
        /\ next_io[f] \in Int
    BY <1>4, AsyncIOAssumption DEF RequestAsyncIO, Types
  <2>2. next_io'[f] = next_io[f] + 1
    BY <1>4 DEF RequestAsyncIO, Types
  <2>3. /\ tasks' = [tasks EXCEPT ![f] = @ \cup {t}]
        /\ queue' = [queue EXCEPT ![t] = q]
        /\ inflight' = [inflight EXCEPT ![q] = @ + 1]
        /\ f \in files /\ f \notin closing
        /\ UNCHANGED <<files, closing>>
    BY <1>4, <2>2 DEF RequestAsyncIO, Start
  <2>4. ~Live(t, tasks)
    BY <1>0, <2>1 DEF Live, FileTasks, Types
  <2> HIDE DEF t
  <2>5. \A x \in Tasks : Live(x, tasks') <=> Live(x, tasks) \/ x = t
    BY <2>1, <2>3 DEF Live, Types
  <2>6. FilesKept'
    <3>1. \A k \in Files : tasks'[k] # {} => k \in files'
      BY <1>0, <2>3 DEF FilesKept, Types
    <3>2. \A k \in closing' : k # f /\ tasks'[k] = tasks[k] /\ k \in Files
      BY <2>3 DEF Types
    <3>3. CloseNotForgotten'
      BY <1>0, <2>3, <3>2 DEF FilesKept, CloseNotForgotten
    <3>4. \A x \in Tasks : Live(x, tasks') => queue'[x] \in Queues
      BY <1>0, <2>1, <2>3, <2>5 DEF FilesKept, Types
    <3>5. \A k \in closing' : queue'[CloseOf(k)] \in Queues
      BY <1>0, <2>1, <2>3, <3>2 DEF FilesKept, Types
    <3> QED BY <3>1, <3>3, <3>4, <3>5 DEF FilesKept
  <2>7. ASSUME NEW k \in Queues
        PROVE  inflight'[k] = Cardinality(Naming(k)')
    <3>1. CASE k = q
      <4>0. queue'[t] = q /\ \A x \in Tasks : x # t => queue'[x] = queue[x]
        BY <2>1, <2>3 DEF Types
      <4>1. Naming(q)' = Naming(q) \cup {t} /\ t \notin Naming(q)
        BY <2>1, <2>4, <2>5, <4>0 DEF Naming
      <4>2. Cardinality(Naming(q) \cup {t}) = Cardinality(Naming(q)) + 1
        BY <4>1, NamingIsFinite, OneMore
      <4>3. inflight'[q] = inflight[q] + 1
        BY <2>3 DEF Types
      <4> QED BY <1>0, <3>1, <4>1, <4>2, <4>3 DEF InflightCounts
    <3>2. CASE k # q
      <4>1. Naming(k)' = Naming(k)
        BY <2>1, <2>3, <2>4, <2>5, <3>2 DEF Naming, Types
      <4>2. inflight'[k] = inflight[k]
        BY <2>3, <3>2 DEF Types
      <4> QED BY <1>0, <4>1, <4>2 DEF InflightCounts
    <3> QED BY <3>1, <3>2
  <2> QED BY <2>6, <2>7 DEF FileInv, InflightCounts
<1>5. ASSUME NEW a \in Apps, NEW f \in Files, NEW q \in Queues, CloseAsyncIO(a, f, q)
      PROVE  FileInv'
  <2> DEFINE t == CloseOf(f)
  <2>1. t \in Tasks /\ FileOf(t) = f
    OBVIOUS
  <2>2. /\ f \notin closing /\ f \in files /\ closing' = closing \cup {f}
        /\ queue' = [queue EXCEPT ![t] = q]
        /\ UNCHANGED files
    BY <1>5 DEF CloseAsyncIO
  <2>3. ~Live(t, tasks)
    BY <1>0, <2>1, <2>2 DEF Live, FileTasks
  <2>4. \A k \in Files : k # f => CloseOf(k) # t
    BY <2>1
  <2>5. CASE NoTasks(f) /\ ~UNCHANGED <<tasks, inflight>>
    <3>1. /\ tasks[f] = {}
          /\ tasks' = [tasks EXCEPT ![f] = @ \cup {t}]
          /\ inflight' = [inflight EXCEPT ![q] = @ + 1]
      BY <1>5, <2>5 DEF CloseAsyncIO, Start, NoTasks
    <3> HIDE DEF t
    <3>2. \A x \in Tasks : Live(x, tasks') <=> Live(x, tasks) \/ x = t
      BY <2>1, <3>1 DEF Live, Types
    <3>3. FilesKept'
      <4>1. \A k \in Files : tasks'[k] # {} => k \in files'
        BY <1>0, <2>2, <3>1 DEF FilesKept, Types
      <4>2. \A k \in Files : k # f => tasks'[k] = tasks[k]
        BY <3>1 DEF Types
      <4>3. tasks'[f] # {}
        BY <3>1 DEF Types
      <4>4. CloseNotForgotten'
        BY <1>0, <2>2, <4>2, <4>3 DEF FilesKept, CloseNotForgotten, Types
      <4>5. \A x \in Tasks : Live(x, tasks') => queue'[x] \in Queues
        BY <1>0, <2>1, <2>2, <3>2 DEF FilesKept, Types
      <4>6. \A k \in closing' : queue'[CloseOf(k)] \in Queues
        BY <1>0, <2>1, <2>2, <2>4 DEF FilesKept, Types, t
      <4> QED BY <4>1, <4>4, <4>5, <4>6 DEF FilesKept
    <3>4. ASSUME NEW k \in Queues
          PROVE  inflight'[k] = Cardinality(Naming(k)')
      <4>1. CASE k = q
        <5>1. Naming(q)' = Naming(q) \cup {t} /\ t \notin Naming(q)
          BY <2>1, <2>2, <2>3, <3>2 DEF Naming, Types
        <5>2. Cardinality(Naming(q) \cup {t}) = Cardinality(Naming(q)) + 1
          BY <5>1, NamingIsFinite, OneMore
        <5>3. inflight'[q] = inflight[q] + 1
          BY <3>1 DEF Types
        <5> QED BY <1>0, <4>1, <5>1, <5>2, <5>3 DEF InflightCounts
      <4>2. CASE k # q
        <5>1. Naming(k)' = Naming(k)
          BY <2>1, <2>2, <2>3, <3>2, <4>2 DEF Naming, Types
        <5>2. inflight'[k] = inflight[k]
          BY <3>1, <4>2 DEF Types
        <5> QED BY <1>0, <5>1, <5>2 DEF InflightCounts
      <4> QED BY <4>1, <4>2
    <3> QED BY <3>3, <3>4 DEF FileInv, InflightCounts
  <2>6. CASE ~NoTasks(f)
    <3>1. UNCHANGED <<tasks, inflight>> /\ tasks[f] # {}
      BY <1>5, <2>6 DEF CloseAsyncIO, NoTasks
    <3> HIDE DEF t
    <3>2. \A x \in Tasks : Live(x, tasks) => queue'[x] = queue[x]
      BY <2>1, <2>2, <2>3 DEF Types
    <3>3. \A k \in closing' : queue'[CloseOf(k)] \in Queues
      BY <1>0, <2>1, <2>2, <2>4 DEF FilesKept, Types, t
    <3>4. CloseNotForgotten'
      BY <1>0, <2>2, <3>1 DEF FilesKept, CloseNotForgotten
    <3>5. FilesKept'
      BY <1>0, <2>2, <3>1, <3>2, <3>3, <3>4 DEF FilesKept
    <3>6. \A k : Naming(k)' = Naming(k)
      BY <3>1, <3>2 DEF Naming
    <3> QED BY <1>0, <3>1, <3>5, <3>6 DEF FileInv, InflightCounts
  <2>7. NoTasks(f) \/ ~NoTasks(f)
    OBVIOUS
  <2>8. CASE NoTasks(f) /\ UNCHANGED <<tasks, inflight>>
    <3>1. tasks[f] = {} /\ t \in tasks'[f]
      BY <1>5, <2>8 DEF CloseAsyncIO, NoTasks, Types
    <3> QED BY <2>8, <3>1
  <2> QED BY <2>5, <2>6, <2>8
<1>6. ASSUME NEW a \in Apps, NEW f \in Files, AsyncIOFromFile(a, f)
      PROVE  FileInv'
  <2>1. /\ f \notin opened /\ files' = files \cup {f}
        /\ UNCHANGED <<tasks, closing, queue, inflight>>
    BY <1>6 DEF AsyncIOFromFile
  <2>2. f \notin closing
    BY <2>1 DEF Types
  <2>3. FilesKept'
    BY <1>0, <2>1, <2>2 DEF FilesKept, CloseNotForgotten
  <2>4. \A k : Naming(k)' = Naming(k)
    BY <2>1 DEF Naming
  <2> QED BY <1>0, <2>1, <2>3, <2>4 DEF FileInv, InflightCounts
<1>7. ASSUME NEW a \in Apps, ShutdownThreadpool(a)
      PROVE  FileInv'
  BY <1>7, <1>00 DEF ShutdownThreadpool, fileVars
<1>8. ASSUME NEW a \in Apps, StartTask(a)
      PROVE  FileInv'
  BY <1>8, <1>00 DEF StartTask, fileVars
<1>9. ASSUME NEW a \in Apps, WaitReturns(a)
      PROVE  FileInv'
  BY <1>9, <1>00 DEF WaitReturns, fileVars
<1>10. ASSUME NEW a \in Apps, TaskOutcome(a)
       PROVE  FileInv'
  <2> DEFINE t == task[a]
             f == FileOf(t)
             c == CloseOf(f)
  <2>1. t \in Tasks /\ f \in Files /\ c \in Tasks /\ FileOf(c) = f
    BY <1>10 DEF TaskOutcome, HandsKept
  <2>2. /\ UNCHANGED <<closing, queue>>
        /\ files' = IF t = c THEN files \ {f} ELSE files
    BY <1>10 DEF TaskOutcome
  <2>3. Live(t, tasks) /\ t \in tasks[f]
    BY <2>1 DEF TaskInv, Placed, Underway, Live
  <2>4. queue[t] \in Queues
    BY <1>0, <2>1, <2>3 DEF FilesKept
  <2>5. CASE Due(f, t)
    <3>1. /\ tasks' = [tasks EXCEPT ![f] = {c}]
          /\ inflight' = [Counted(queue[c]) EXCEPT ![queue[t]] = @ - 1]
          /\ f \in closing /\ t # c /\ tasks[f] = {t}
      BY <1>10, <2>5 DEF TaskOutcome, Due
    <3>2. queue[c] \in Queues
      BY <1>0, <3>1 DEF FilesKept
    <3>3. f \in files
      BY <1>0, <2>1, <2>3 DEF FilesKept
    <3>4. ~Live(c, tasks)
      BY <2>1, <3>1 DEF Live
    <3>5. \A x \in Tasks : Live(x, tasks') <=> (Live(x, tasks) /\ x # t) \/ x = c
      <4> HIDE DEF t, f, c
      <4>1. \A x \in Tasks : FileOf(x) = f => (Live(x, tasks) <=> x = t)
        BY <2>1, <3>1 DEF Live
      <4>2. \A x \in Tasks : FileOf(x) = f => (Live(x, tasks') <=> x = c)
        BY <2>1, <3>1 DEF Live, Types
      <4>3. \A x \in Tasks : FileOf(x) # f => (Live(x, tasks') <=> Live(x, tasks))
        BY <2>1, <3>1 DEF Live, Types
      <4>4. FileOf(t) = f
        BY DEF f
      <4> QED BY <2>1, <4>1, <4>2, <4>3, <4>4
    <3> HIDE DEF t, f, c
    <3>6. FilesKept'
      <4>1. \A k \in Files : k # f => tasks'[k] = tasks[k]
        BY <3>1 DEF Types
      <4>2. tasks'[f] = {c}
        BY <2>1, <3>1 DEF Types
      <4>3. files' = files
        BY <2>2, <3>1
      <4>4. CloseNotForgotten'
        BY <1>0, <2>2, <3>3, <4>1, <4>2, <4>3 DEF FilesKept, CloseNotForgotten, Types
      <4>5. \A k \in Files : tasks'[k] # {} => k \in files'
        BY <1>0, <3>3, <4>1, <4>3 DEF FilesKept
      <4>6. \A x \in Tasks : Live(x, tasks') => queue'[x] \in Queues
        BY <1>0, <2>2, <3>2, <3>5 DEF FilesKept
      <4>7. \A k \in closing' : queue'[CloseOf(k)] \in Queues
        BY <1>0, <2>2 DEF FilesKept
      <4> QED BY <4>4, <4>5, <4>6, <4>7 DEF FilesKept
    <3>7. ASSUME NEW k \in Queues
          PROVE  inflight'[k] = Cardinality(Naming(k)')
      <4>1. inflight'[k] = inflight[k] + (IF k = queue[c] THEN 1 ELSE 0)
                                       - (IF k = queue[t] THEN 1 ELSE 0)
        BY <2>4, <3>1, <3>2 DEF Counted, Types
      <4> DEFINE S == Naming(k)
                 R == IF k = queue[t] THEN S \ {t} ELSE S
                 N == IF k = queue[c] THEN R \cup {c} ELSE R
      <4>2. Naming(k)' = N
        BY <2>1, <2>2, <3>5 DEF Naming
      <4>3. c \notin S /\ (k = queue[t] => t \in S)
        BY <2>1, <2>3, <3>4 DEF Naming
      <4>4. IsFiniteSet(S) /\ Cardinality(S) \in Nat
        BY NamingIsFinite
      <4> HIDE DEF S
      <4>5. /\ IsFiniteSet(R) /\ c \notin R
            /\ Cardinality(R) = Cardinality(S) - (IF k = queue[t] THEN 1 ELSE 0)
        BY <4>3, <4>4, OneLess
      <4> HIDE DEF R
      <4>6. Cardinality(N) = Cardinality(R) + (IF k = queue[c] THEN 1 ELSE 0)
        <5>1. Cardinality(R) \in Nat
          BY <4>5, FS_CardinalityType
        <5> QED BY <4>5, <5>1, OneMore
      <4> HIDE DEF N
      <4>7. inflight[k] = Cardinality(S)
        BY <1>0 DEF InflightCounts, S
      <4> QED BY <4>1, <4>2, <4>4, <4>5, <4>6, <4>7
    <3> QED BY <3>6, <3>7 DEF FileInv, InflightCounts
  <2>6. CASE ~Due(f, t)
    <3>1. /\ tasks' = [tasks EXCEPT ![f] = @ \ {t}]
          /\ inflight' = [inflight EXCEPT ![queue[t]] = @ - 1]
      BY <1>10, <2>6 DEF TaskOutcome
    <3>2. FileOf(t) = f
      OBVIOUS
    <3>3. f \in closing /\ t # c => tasks[f] # {t}
      BY <2>6 DEF Due
    <3>4. t = c => tasks[f] = {c}
      BY <1>0, <2>1, <2>3 DEF FileTasks
    <3>5. f \in files
      BY <1>0, <2>1, <2>3 DEF FilesKept
    <3> HIDE DEF t, f, c
    <3>6. \A x \in Tasks : Live(x, tasks') <=> Live(x, tasks) /\ x # t
      BY <2>1, <3>1, <3>2 DEF Live, Types
    <3>7. FilesKept'
      <4>1. \A k \in Files : k # f => tasks'[k] = tasks[k]
        BY <3>1 DEF Types
      <4>2. tasks'[f] = tasks[f] \ {t}
        BY <2>1, <3>1 DEF Types
      <4>3. f \in closing => (f \in files' <=> tasks'[f] # {})
        BY <2>2, <2>3, <3>3, <3>4, <3>5, <4>2
      <4>4. \A k \in Files : k # f => (k \in files' <=> k \in files)
        BY <2>2
      <4>5. CloseNotForgotten'
        BY <1>0, <2>2, <4>1, <4>3, <4>4 DEF FilesKept, CloseNotForgotten, Types
      <4>6. tasks'[f] # {} => f \in files'
        BY <2>2, <3>4, <3>5, <4>2
      <4>7. \A k \in Files : tasks'[k] # {} => k \in files'
        BY <1>0, <4>1, <4>4, <4>6 DEF FilesKept
      <4>8. \A x \in Tasks : Live(x, tasks') => queue'[x] \in Queues
        BY <1>0, <2>2, <3>6 DEF FilesKept
      <4>9. \A k \in closing' : queue'[CloseOf(k)] \in Queues
        BY <1>0, <2>2 DEF FilesKept
      <4> QED BY <4>5, <4>7, <4>8, <4>9 DEF FilesKept
    <3>8. ASSUME NEW k \in Queues
          PROVE  inflight'[k] = Cardinality(Naming(k)')
      <4>1. CASE k = queue[t]
        <5>1. Naming(k)' = Naming(k) \ {t} /\ t \in Naming(k)
          BY <2>1, <2>2, <2>3, <3>6, <4>1 DEF Naming
        <5>2. Cardinality(Naming(k) \ {t}) = Cardinality(Naming(k)) - 1
          BY <5>1, NamingIsFinite, OneLess
        <5>3. inflight'[k] = inflight[k] - 1
          BY <3>1, <4>1 DEF Types
        <5> QED BY <1>0, <5>1, <5>2, <5>3 DEF InflightCounts
      <4>2. CASE k # queue[t]
        <5>1. Naming(k)' = Naming(k)
          BY <2>2, <3>6, <4>2 DEF Naming
        <5>2. inflight'[k] = inflight[k]
          BY <3>1, <4>2 DEF Types
        <5> QED BY <1>0, <5>1, <5>2 DEF InflightCounts
      <4> QED BY <4>1, <4>2
    <3> QED BY <3>7, <3>8 DEF FileInv, InflightCounts
  <2> QED BY <2>5, <2>6
<1>11. ASSUME NEW a \in Apps, DestroyLoop(a)
       PROVE  FileInv'
  BY <1>11, <1>00 DEF DestroyLoop, fileVars
<1>12. ASSUME NEW a \in Apps, CancelLoop(a)
       PROVE  FileInv'
  BY <1>12, <1>00 DEF CancelLoop, fileVars
<1>13. ASSUME NEW a \in Apps, QuitLoop(a)
       PROVE  FileInv'
  BY <1>13, <1>00 DEF QuitLoop, fileVars
<1>14. ASSUME NEW a \in Apps, WaitTimesOut(a)
       PROVE  FileInv'
  BY <1>14, <1>00 DEF WaitTimesOut, fileVars
<1>15. ASSUME NEW q \in Queues, SignalAsyncIOQueue(q)
       PROVE  FileInv'
  BY <1>15, <1>00 DEF SignalAsyncIOQueue, fileVars
<1>16. ASSUME NEW w \in Workers, WorkerRuns(w)
       PROVE  FileInv'
  BY <1>16, <1>00 DEF WorkerRuns, fileVars
<1>17. ASSUME NEW w \in Workers, SynchronousIO(w)
       PROVE  FileInv'
  BY <1>17, <1>00 DEF SynchronousIO, fileVars
<1>18. ASSUME NEW w \in Workers, WorkerTimesOut(w)
       PROVE  FileInv'
  BY <1>18, <1>00 DEF WorkerTimesOut, fileVars
<1>19. CASE UNCHANGED vars
  BY <1>19, <1>00 DEF vars, fileVars
<1> QED
  BY <1>1, <1>2, <1>3, <1>4, <1>5, <1>6, <1>7, <1>8, <1>9, <1>10, <1>11, <1>12,
     <1>13, <1>14, <1>15, <1>16, <1>17, <1>18, <1>19 DEF Next, App, Call, Worker

-------------------------------------------------------------------------------
(* Who shuts the pool down *)

\* In SDL_QuitAsyncIO, canceling or waiting for the workers.
Quits(a) == pc[a] = "cancel" \/ (pc[a] \in {"asleep", "woken"} /\ at[a] = None)

\* One thread shuts the pool down, and only then are workers to stop.
QuitInv ==
  /\ \A a \in Apps : Quits(a) => status = "uninitializing"
  /\ \A a, b \in Apps : Quits(a) /\ Quits(b) => a = b
  /\ stop => status = "uninitializing"

\* Nobody shuts the pool down at first.
LEMMA QuitInit ==
  ASSUME Init
  PROVE  QuitInv
<1>1. ~stop
  BY DEF Init
<1>2. \A a \in Apps : ~Quits(a)
  BY DEF Init, Quits
<1> QED BY <1>1, <1>2 DEF QuitInv

\* A second thread comes to shut the pool down only after the first has.
LEMMA QuitStep ==
  ASSUME TypeInv, QuitInv, [Next]_vars
  PROVE  QuitInv'
<1> USE DEF TypeInv
<1>0. None \notin Queues
  BY AsyncIOAssumption
<1>00. ASSUME \A a \in Apps : Quits(a)' => Quits(a), UNCHANGED <<status, stop>>
       PROVE  QuitInv'
  BY <1>00 DEF QuitInv
<1>1. ASSUME NEW a \in Apps, NEW q \in Queues, CreateAsyncIOQueue(a, q)
      PROVE  QuitInv'
  <2>1. PrepareThreadpool /\ UNCHANGED <<pc, at>>
    BY <1>1 DEF CreateAsyncIOQueue, callVars
  <2>2. /\ stop' = stop
        /\ status' = status \/ (status = "uninitialized" /\ status' = "initialized")
    BY <2>1 DEF PrepareThreadpool, poolVars
  <2>3. \A b \in Apps : Quits(b)' <=> Quits(b)
    BY <2>1 DEF Quits
  <2> QED BY <2>2, <2>3 DEF QuitInv
<1>2. ASSUME NEW a \in Apps, NEW q \in Queues, WaitAsyncIOResult(a, q)
      PROVE  QuitInv'
  <2>1. \A b \in Apps : Quits(b)' => Quits(b)
    BY <1>2, <1>0 DEF WaitAsyncIOResult, PopResult, SleepOn, Quits, Move, HandsKept, Types,
       fileVars, lifeVars, callVars, poolVars
  <2>2. UNCHANGED <<status, stop>>
    BY <1>2 DEF WaitAsyncIOResult, PopResult, SleepOn, fileVars, lifeVars, callVars,
       poolVars
  <2> QED BY <1>00, <2>1, <2>2
<1>3. ASSUME NEW a \in Apps, NEW q \in Queues, DestroyAsyncIOQueue(a, q)
      PROVE  QuitInv'
  <2>1. \A b \in Apps : Quits(b)' => Quits(b)
    BY <1>3, <1>0 DEF DestroyAsyncIOQueue, Quits, Move, HandsKept, Types, fileVars,
       lifeVars, callVars, poolVars
  <2>2. UNCHANGED <<status, stop>>
    BY <1>3 DEF DestroyAsyncIOQueue, fileVars, lifeVars, callVars, poolVars
  <2> QED BY <1>00, <2>1, <2>2
<1>4. ASSUME NEW a \in Apps, NEW f \in Files, NEW q \in Queues, RequestAsyncIO(a, f, q)
      PROVE  QuitInv'
  <2>1. pc' = Move(a, "start") /\ UNCHANGED <<at, status, stop>>
    BY <1>4 DEF RequestAsyncIO, Start, poolVars
  <2>2. \A b \in Apps : Quits(b)' => Quits(b)
    BY <2>1 DEF Quits, Move, Types
  <2> QED BY <1>00, <2>1, <2>2
<1>5. ASSUME NEW a \in Apps, NEW f \in Files, NEW q \in Queues, CloseAsyncIO(a, f, q)
      PROVE  QuitInv'
  <2>1. (pc' = Move(a, "start") \/ pc' = pc) /\ UNCHANGED <<at, status, stop>>
    BY <1>5 DEF CloseAsyncIO, Start, poolVars
  <2>2. \A b \in Apps : Quits(b)' => Quits(b)
    BY <2>1 DEF Quits, Move, Types
  <2> QED BY <1>00, <2>1, <2>2
<1>6. ASSUME NEW a \in Apps, NEW f \in Files, AsyncIOFromFile(a, f)
      PROVE  QuitInv'
  <2>1. PrepareThreadpool /\ UNCHANGED <<pc, at>>
    BY <1>6 DEF AsyncIOFromFile, callVars
  <2>2. /\ stop' = stop
        /\ status' = status \/ (status = "uninitialized" /\ status' = "initialized")
    BY <2>1 DEF PrepareThreadpool, poolVars
  <2>3. \A b \in Apps : Quits(b)' <=> Quits(b)
    BY <2>1 DEF Quits
  <2> QED BY <2>2, <2>3 DEF QuitInv
<1>7. ASSUME NEW a \in Apps, ShutdownThreadpool(a)
      PROVE  QuitInv'
  <2>1. /\ status = "initialized" /\ status' = "uninitializing"
        /\ pc' = Move(a, "cancel") /\ UNCHANGED <<at, stop>>
    BY <1>7 DEF ShutdownThreadpool, callVars
  <2>2. \A b \in Apps : ~Quits(b)
    BY <2>1 DEF QuitInv
  <2>3. \A b \in Apps : Quits(b)' => b = a
    BY <2>1, <2>2 DEF Quits, Move, Types
  <2> QED BY <2>1, <2>3 DEF QuitInv
<1>8. ASSUME NEW a \in Apps, StartTask(a)
      PROVE  QuitInv'
  <2> DEFINE p == Move(a, "idle")
  <2>1. /\ QueueAsyncIOTask(task[a], p) /\ task[a] \in Tasks /\ at' = at
        /\ p \in [Apps -> Labels]
    BY <1>8 DEF StartTask, HandsKept, Move, Labels, Types
  <2>2. \A b \in Apps : p[b] = IF b = a THEN "idle" ELSE pc[b]
    BY DEF Types, Move
  <2> HIDE DEF p
  <2>3. /\ \A b \in Apps : pc'[b] = p[b] \/ (pc'[b] = "woken" /\ pc[b] = "asleep")
        /\ UNCHANGED <<status, stop>>
    BY <2>1, QueueTypes
  <2>4. \A b \in Apps : Quits(b)' => Quits(b)
    BY <2>1, <2>2, <2>3 DEF Quits
  <2> QED BY <1>00, <2>3, <2>4
<1>9. ASSUME NEW a \in Apps, WaitReturns(a)
      PROVE  QuitInv'
  <2>1. /\ pc' = Move(a, "outcome") \/ pc' = Move(a, After(a))
        /\ at' = at \/ at' = AtAfter(a)
        /\ UNCHANGED <<status, stop>>
    BY <1>9 DEF WaitReturns, PopResult, poolVars
  <2>2. \A b \in Apps : Quits(b)' => Quits(b)
    BY <2>1 DEF Quits, Move, After, AtAfter, Types
  <2> QED BY <1>00, <2>1, <2>2
<1>10. ASSUME NEW a \in Apps, TaskOutcome(a)
       PROVE  QuitInv'
  <2> DEFINE t == task[a]
             c == CloseOf(FileOf(t))
             p == Move(a, After(a))
  <2>1. c \in Tasks /\ p \in [Apps -> Labels]
    BY <1>10, TaskFacts DEF TaskOutcome, HandsKept, Move, After, Labels, Types
  <2>2. at' = AtAfter(a)
    BY <1>10 DEF TaskOutcome
  <2>3. \A b \in Apps : p[b] = IF b = a THEN After(a) ELSE pc[b]
    BY DEF Types, Move
  <2>4. QueueAsyncIOTask(c, p) \/ (pc' = p /\ UNCHANGED <<status, stop>>)
    BY <1>10 DEF TaskOutcome, poolVars
  <2> HIDE DEF p, c
  <2>5. /\ \A b \in Apps : pc'[b] = p[b] \/ (pc'[b] = "woken" /\ pc[b] = "asleep")
        /\ UNCHANGED <<status, stop>>
    BY <2>1, <2>4, QueueTypes
  <2>6. pc[a] = "outcome"
    BY <1>10 DEF TaskOutcome
  <2>7. \A b \in Apps : Quits(b)' => Quits(b)
    BY <2>2, <2>3, <2>5, <2>6 DEF Quits, After, AtAfter, Types
  <2> QED BY <1>00, <2>5, <2>7
<1>11. ASSUME NEW a \in Apps, DestroyLoop(a)
       PROVE  QuitInv'
  <2>1. at[a] \in Queues /\ UNCHANGED <<status, stop>>
    BY <1>11 DEF DestroyLoop, HandsKept, poolVars
  <2>2. \/ pc' = Move(a, "outcome") /\ at' = at
        \/ pc' = Move(a, "asleep") /\ at' = at
        \/ pc' = Move(a, "idle") /\ at' = [at EXCEPT ![a] = None]
    BY <1>11 DEF DestroyLoop, PopResult, SleepOn
  <2>3. \A b \in Apps : Quits(b)' => Quits(b)
    BY <1>0, <2>1, <2>2 DEF Quits, Move, Types
  <2> QED BY <1>00, <2>1, <2>3
<1>12. ASSUME NEW a \in Apps, CancelLoop(a)
       PROVE  QuitInv'
  <2>0. /\ pc[a] = "cancel" /\ at[a] = None
        /\ UNCHANGED <<at, status>>
    BY <1>12 DEF CancelLoop, HandsKept, callVars
  <2>1. status = "uninitializing"
    BY <2>0 DEF QuitInv, Quits
  <2>2. CASE pool # <<>>
    <3>1. Head(pool) \in Tasks
      BY <2>2, TakeFirst DEF Types
    <3>2. AsyncIOTaskComplete(Head(pool), pc) /\ UNCHANGED stop
      BY <1>12, <2>2 DEF CancelLoop
    <3>3. \A b \in Apps : pc'[b] = pc[b] \/ (pc'[b] = "woken" /\ pc[b] = "asleep")
      BY <3>1, <3>2, CompleteTypes DEF Types
    <3>4. \A b \in Apps : Quits(b)' => Quits(b)
      BY <2>0, <3>3 DEF Quits
    <3> QED BY <1>00, <2>0, <3>2, <3>4
  <2>3. CASE pool = <<>>
    <3>1. pc' = Move(a, "woken")
      BY <1>12, <2>3 DEF CancelLoop
    <3>2. \A b \in Apps : Quits(b)' => Quits(b)
      BY <2>0, <3>1 DEF Quits, Move, Types
    <3> QED BY <2>0, <2>1, <3>2 DEF QuitInv
  <2> QED BY <2>2, <2>3
<1>13. ASSUME NEW a \in Apps, QuitLoop(a)
       PROVE  QuitInv'
  <2>1. /\ Quits(a) /\ at' = at
        /\ \/ pc' = Move(a, "asleep") /\ UNCHANGED <<status, stop>>
           \/ pc' = Move(a, "idle") /\ ~stop'
    BY <1>13 DEF QuitLoop, Quits, callVars
  <2>2. \A b \in Apps : Quits(b)' => Quits(b)
    BY <2>1 DEF Quits, Move, Types
  <2>3. CASE UNCHANGED <<status, stop>>
    BY <1>00, <2>2, <2>3
  <2>4. CASE pc' = Move(a, "idle") /\ ~stop'
    <3>1. ~Quits(a)'
      BY <2>4 DEF Quits, Move, Types
    <3>2. \A b \in Apps : ~Quits(b)'
      BY <2>1, <2>2, <3>1 DEF QuitInv
    <3> QED BY <2>4, <3>2 DEF QuitInv
  <2> QED BY <2>1, <2>3, <2>4
<1>14. ASSUME NEW a \in Apps, WaitTimesOut(a)
       PROVE  QuitInv'
  <2>1. \A b \in Apps : Quits(b)' => Quits(b)
    BY <1>14, <1>0 DEF WaitTimesOut, Quits, Move, HandsKept, Types, fileVars, lifeVars,
       callVars, poolVars
  <2>2. UNCHANGED <<status, stop>>
    BY <1>14 DEF WaitTimesOut, fileVars, lifeVars, callVars, poolVars
  <2> QED BY <1>00, <2>1, <2>2
<1>15. ASSUME NEW q \in Queues, SignalAsyncIOQueue(q)
       PROVE  QuitInv'
  <2>1. \A b \in Apps : Quits(b)' => Quits(b)
    BY <1>15, <1>0 DEF SignalAsyncIOQueue, Woken, Sleepers, Quits, Move, HandsKept, Types,
       fileVars, lifeVars, callVars, poolVars
  <2>2. UNCHANGED <<status, stop>>
    BY <1>15 DEF SignalAsyncIOQueue, Woken, Sleepers, fileVars, lifeVars, callVars, poolVars
  <2> QED BY <1>00, <2>1, <2>2
<1>16. ASSUME NEW w \in Workers, WorkerRuns(w)
       PROVE  QuitInv'
  <2>1. /\ wpc[w] # "io"
        /\ \/ WorkerLoop(w, idle) \/ WorkerLoop(w, idle - 1)
           \/ WorkerExits(w, idle - 1)
        /\ UNCHANGED <<at, status, stop>>
    BY <1>16 DEF WorkerRuns, callVars
  <2>2. idle \in Int /\ idle - 1 \in Int
    BY DEF Types
  <2>3. \A v \in Workers : wtask[v] \in Tasks <=> wpc[v] = "io"
    BY DEF HandsKept
  <2>4. \A b \in Apps : pc'[b] = pc[b] \/ (pc'[b] = "woken" /\ pc[b] = "asleep")
    BY <2>1, <2>2, <2>3, LoopTypes
  <2>5. \A b \in Apps : Quits(b)' => Quits(b)
    BY <2>1, <2>4 DEF Quits
  <2> QED BY <1>00, <2>1, <2>5
<1>17. ASSUME NEW w \in Workers, SynchronousIO(w)
       PROVE  QuitInv'
  <2>1. /\ wtask[w] \in Tasks /\ AsyncIOTaskComplete(wtask[w], pc)
        /\ UNCHANGED <<at, status, stop>>
    BY <1>17 DEF SynchronousIO, HandsKept, callVars
  <2>2. \A b \in Apps : pc'[b] = pc[b] \/ (pc'[b] = "woken" /\ pc[b] = "asleep")
    BY <2>1, CompleteTypes DEF Types
  <2>3. \A b \in Apps : Quits(b)' => Quits(b)
    BY <2>1, <2>2 DEF Quits
  <2> QED BY <1>00, <2>1, <2>3
<1>18. ASSUME NEW w \in Workers, WorkerTimesOut(w)
       PROVE  QuitInv'
  <2>1. \A b \in Apps : Quits(b)' => Quits(b)
    BY <1>18, <1>0 DEF WorkerTimesOut, Quits, Move, HandsKept, Types, fileVars, lifeVars,
       callVars, poolVars
  <2>2. UNCHANGED <<status, stop>>
    BY <1>18 DEF WorkerTimesOut, fileVars, lifeVars, callVars, poolVars
  <2> QED BY <1>00, <2>1, <2>2
<1>19. CASE UNCHANGED vars
  BY <1>19, <1>00 DEF vars, Quits, fileVars, lifeVars, callVars, poolVars
<1> QED
  BY <1>1, <1>2, <1>3, <1>4, <1>5, <1>6, <1>7, <1>8, <1>9, <1>10, <1>11, <1>12,
     <1>13, <1>14, <1>15, <1>16, <1>17, <1>18, <1>19 DEF Next, App, Call, Worker

-------------------------------------------------------------------------------
(* The workers *)

Running == {w \in Workers : wpc[w] # "none"}
Idle == {w \in Workers : wpc[w] \in {"idle", "woken", "timedout"}}

\* The counts are right, a pool that is there has a worker, and none sleeps
\* while there are tasks.
PoolInv ==
  /\ running = Cardinality(Running)
  /\ idle = Cardinality(Idle)
  /\ status = "initialized" => Running # {}
  /\ pool # <<>> => \A w \in Workers : wpc[w] # "idle"

\* There are finitely many workers.
LEMMA WorkersAreFinite ==
  /\ IsFiniteSet(Running) /\ IsFiniteSet(Idle)
  /\ Cardinality(Running) \in Nat /\ Cardinality(Idle) \in Nat
<1>1. Running \subseteq Workers /\ Idle \subseteq Workers
  BY DEF Running, Idle
<1>2. IsFiniteSet(Running) /\ IsFiniteSet(Idle)
  BY <1>1, AsyncIOAssumption, FS_Subset
<1> QED BY <1>2, FS_CardinalityType

\* There are no workers before the pool is used.
LEMMA PoolInit ==
  ASSUME Init
  PROVE  PoolInv
<1>1. Running = {} /\ Idle = {}
  BY DEF Init, Running, Idle
<1>2. Cardinality({}) = 0
  BY FS_EmptySet
<1>3. running = 0 /\ idle = 0 /\ status # "initialized" /\ pool = <<>>
  BY DEF Init
<1> QED BY <1>1, <1>2, <1>3 DEF PoolInv

\* A worker more is counted, and does not sleep.
LEMMA WorkerComes ==
  ASSUME Types, PoolInv, NEW n, NEW W \in NewWorkers(n), Spin(W), idle' = idle,
         \/ wpc' = [w \in Workers |-> IF w \in W THEN "top" ELSE wpc[w]]
         \/ wpc' = [w \in Workers |-> IF w \in W THEN "top" ELSE WorkersWoken[w]]
  PROVE  /\ running' = Cardinality(Running')
         /\ idle' = Cardinality(Idle')
         /\ Running' = Running \cup W
         /\ \A w \in Workers : wpc'[w] = "idle" => wpc[w] = "idle"
<1>1. W = {} \/ \E w \in Workers : W = {w} /\ wpc[w] = "none"
  BY WorkersAdded
<1>2. \A w \in Workers :
        /\ w \in W => wpc'[w] = "top" /\ wpc[w] = "none"
        /\ w \notin W =>
             /\ wpc'[w] = "none" <=> wpc[w] = "none"
             /\ wpc'[w] \in {"idle", "woken", "timedout"}
                  <=> wpc[w] \in {"idle", "woken", "timedout"}
             /\ wpc'[w] = "idle" => wpc[w] = "idle"
  BY <1>1 DEF WorkersWoken, Types
<1>3. Running' = Running \cup W /\ Idle' = Idle
  BY <1>1, <1>2 DEF Running, Idle
<1>4. running' = running + Cardinality(W)
  BY DEF Spin
<1>5. Cardinality(Running \cup W) = Cardinality(Running) + Cardinality(W)
  <2>1. CASE W = {}
    <3>1. Cardinality(W) = 0
      BY <2>1, FS_EmptySet
    <3> QED BY <2>1, <3>1, WorkersAreFinite
  <2>2. ASSUME NEW w \in Workers, W = {w}, wpc[w] = "none"
        PROVE  Cardinality(Running \cup W) = Cardinality(Running) + Cardinality(W)
    <3>1. w \notin Running
      BY <2>2 DEF Running
    <3>2. Cardinality(Running \cup {w}) = Cardinality(Running) + 1
      BY <3>1, WorkersAreFinite, OneMore
    <3>3. Cardinality({w}) = 1
      BY FS_Singleton
    <3> QED BY <2>2, <3>2, <3>3
  <2> QED BY <1>1, <2>1, <2>2
<1> QED BY <1>2, <1>3, <1>4, <1>5 DEF PoolInv

\* A queued task finds the workers awake, or the pool shut.
LEMMA QueueServes ==
  ASSUME Types, PoolInv, NEW t, NEW p, QueueAsyncIOTask(t, p)
  PROVE  PoolInv'
<1>1. CASE stop
  <2>1. UNCHANGED poolVars
    BY <1>1 DEF QueueAsyncIOTask
  <2> QED BY <2>1 DEF PoolInv, Running, Idle, poolVars
<1>2. CASE ~stop
  <2>1. idle' = idle /\ status' = status
    BY <1>2 DEF QueueAsyncIOTask
  <2>2. PICK W \in NewWorkers(MaxThreads) :
          /\ Spin(W)
          /\ wpc' = [w \in Workers |-> IF w \in W THEN "top" ELSE WorkersWoken[w]]
    BY <1>2 DEF QueueAsyncIOTask
  <2>3. /\ running' = Cardinality(Running')
        /\ idle' = Cardinality(Idle')
        /\ Running' = Running \cup W
    BY <2>1, <2>2, WorkerComes
  <2>4. \A w \in Workers : wpc'[w] # "idle"
    BY <2>2 DEF WorkersWoken
  <2> QED BY <2>1, <2>3, <2>4 DEF PoolInv
<1> QED BY <1>1, <1>2

\* A pool that is started has a worker.
LEMMA PrepareServes ==
  ASSUME Types, PoolInv, PrepareThreadpool
  PROVE  PoolInv'
<1>1. CASE status = "initialized"
  <2>1. UNCHANGED poolVars
    BY <1>1 DEF PrepareThreadpool
  <2> QED BY <2>1 DEF PoolInv, Running, Idle, poolVars
<1>2. CASE status # "initialized"
  <2>1. UNCHANGED <<stop, pool, idle, wtask>>
    BY <1>2 DEF PrepareThreadpool
  <2>2. PICK W \in NewWorkers(Cardinality(Workers)) :
          /\ W # {}
          /\ Spin(W)
          /\ wpc' = [w \in Workers |-> IF w \in W THEN "top" ELSE wpc[w]]
    BY <1>2 DEF PrepareThreadpool
  <2>3. /\ running' = Cardinality(Running')
        /\ idle' = Cardinality(Idle')
        /\ Running' = Running \cup W
        /\ \A w \in Workers : wpc'[w] = "idle" => wpc[w] = "idle"
    BY <2>1, <2>2, WorkerComes
  <2> QED BY <2>1, <2>2, <2>3 DEF PoolInv
<1> QED BY <1>1, <1>2

\* A worker leaves only when the pool stops, or another is idle.
LEMMA ExitServes ==
  ASSUME Types, QuitInv, PoolInv, NEW w \in Workers, NEW i,
         WorkerExits(w, i), wpc[w] # "none",
         i = Cardinality(Idle \ {w}), status' = status,
         stop \/ Idle \ {w} # {}
  PROVE  PoolInv'
<1>1. /\ running' = running - 1 /\ idle' = i /\ pool' = pool
      /\ wpc' = [IF stop THEN WorkersWoken ELSE wpc EXCEPT ![w] = "none"]
  BY DEF WorkerExits
<1>2. \A v \in Workers :
        /\ v = w => wpc'[v] = "none"
        /\ v # w =>
             /\ wpc'[v] = "none" <=> wpc[v] = "none"
             /\ wpc'[v] \in {"idle", "woken", "timedout"}
                  <=> wpc[v] \in {"idle", "woken", "timedout"}
             /\ wpc'[v] = "idle" => wpc[v] = "idle"
  BY <1>1 DEF WorkersWoken, Types
<1>3. Running' = Running \ {w} /\ Idle' = Idle \ {w} /\ w \in Running
  BY <1>2 DEF Running, Idle
<1>4. Cardinality(Running \ {w}) = Cardinality(Running) - 1
  BY <1>3, WorkersAreFinite, OneLess
<1>5. status = "initialized" => Running' # {}
  <2>1. status = "initialized" => ~stop
    BY DEF QuitInv
  <2>2. Idle \ {w} \subseteq Running \ {w}
    BY DEF Idle, Running
  <2> QED BY <1>3, <2>1, <2>2
<1> QED BY <1>1, <1>2, <1>3, <1>4, <1>5 DEF PoolInv

\* A worker sleeps only when there is nothing to do.
LEMMA LoopServes ==
  ASSUME Types, QuitInv, PoolInv, NEW w \in Workers, NEW i,
         WorkerLoop(w, i), wpc[w] \notin {"none", "idle"},
         i = Cardinality(Idle \ {w}), status' = status
  PROVE  PoolInv'
<1>1. CASE stop
  BY <1>1, ExitServes DEF WorkerLoop
<1>2. CASE ~stop
  <2>1. running' = running
    BY <1>2 DEF WorkerLoop
  <2>2. \A v \in Workers : v # w => wpc'[v] = wpc[v]
    BY <1>2 DEF WorkerLoop, Types
  <2>3. wpc'[w] \in {"idle", "io"}
    BY <1>2 DEF WorkerLoop, Types
  <2>4. Running' = Running /\ w \in Running
    BY <2>2, <2>3 DEF Running
  <2>5. CASE pool = <<>>
    <3>1. idle' = i + 1 /\ wpc'[w] = "idle" /\ pool' = <<>>
      BY <1>2, <2>5 DEF WorkerLoop, Types
    <3>2. Idle' = (Idle \ {w}) \cup {w}
      BY <2>2, <3>1 DEF Idle
    <3>3. IsFiniteSet(Idle \ {w})
      BY WorkersAreFinite, FS_RemoveElement
    <3>4. Cardinality((Idle \ {w}) \cup {w}) = i + 1
      BY <3>3, OneMore
    <3> QED BY <2>1, <2>4, <3>1, <3>2, <3>4 DEF PoolInv
  <2>6. CASE pool # <<>>
    <3>1. idle' = i /\ wpc'[w] = "io"
      BY <1>2, <2>6 DEF WorkerLoop, Types
    <3>2. Idle' = Idle \ {w}
      BY <2>2, <3>1 DEF Idle
    <3>3. \A v \in Workers : wpc'[v] # "idle"
      BY <2>2, <2>6, <3>1 DEF PoolInv
    <3> QED BY <2>1, <2>4, <3>1, <3>2, <3>3 DEF PoolInv
  <2> QED BY <2>5, <2>6
<1> QED BY <1>1, <1>2

\* Workers are counted, and enough of them stay awake.
LEMMA PoolStep ==
  ASSUME TypeInv, QuitInv, PoolInv, [Next]_vars
  PROVE  PoolInv'
<1> USE DEF TypeInv
<1>00. ASSUME UNCHANGED <<status, pool, running, idle, wpc>>
       PROVE  PoolInv'
  BY <1>00 DEF PoolInv, Running, Idle
<1>1. ASSUME NEW a \in Apps, NEW q \in Queues, CreateAsyncIOQueue(a, q)
      PROVE  PoolInv'
  BY <1>1, PrepareServes DEF CreateAsyncIOQueue
<1>2. ASSUME NEW a \in Apps, NEW q \in Queues, WaitAsyncIOResult(a, q)
      PROVE  PoolInv'
  BY <1>2, <1>00 DEF WaitAsyncIOResult, poolVars
<1>3. ASSUME NEW a \in Apps, NEW q \in Queues, DestroyAsyncIOQueue(a, q)
      PROVE  PoolInv'
  BY <1>3, <1>00 DEF DestroyAsyncIOQueue, poolVars
<1>4. ASSUME NEW a \in Apps, NEW f \in Files, NEW q \in Queues, RequestAsyncIO(a, f, q)
      PROVE  PoolInv'
  BY <1>4, <1>00 DEF RequestAsyncIO, poolVars
<1>5. ASSUME NEW a \in Apps, NEW f \in Files, NEW q \in Queues, CloseAsyncIO(a, f, q)
      PROVE  PoolInv'
  BY <1>5, <1>00 DEF CloseAsyncIO, poolVars
<1>6. ASSUME NEW a \in Apps, NEW f \in Files, AsyncIOFromFile(a, f)
      PROVE  PoolInv'
  BY <1>6, PrepareServes DEF AsyncIOFromFile
<1>7. ASSUME NEW a \in Apps, ShutdownThreadpool(a)
      PROVE  PoolInv'
  <2>1. status' = "uninitializing" /\ UNCHANGED <<pool, running, idle, wpc>>
    BY <1>7 DEF ShutdownThreadpool
  <2> QED BY <2>1 DEF PoolInv, Running, Idle
<1>8. ASSUME NEW a \in Apps, StartTask(a)
      PROVE  PoolInv'
  BY <1>8, QueueServes DEF StartTask
<1>9. ASSUME NEW a \in Apps, WaitReturns(a)
      PROVE  PoolInv'
  BY <1>9, <1>00 DEF WaitReturns, poolVars
<1>10. ASSUME NEW a \in Apps, TaskOutcome(a)
       PROVE  PoolInv'
  <2>1. \/ \E c, p : QueueAsyncIOTask(c, p)
        \/ UNCHANGED poolVars
    BY <1>10 DEF TaskOutcome
  <2> QED BY <1>00, <2>1, QueueServes DEF poolVars
<1>11. ASSUME NEW a \in Apps, DestroyLoop(a)
       PROVE  PoolInv'
  BY <1>11, <1>00 DEF DestroyLoop, poolVars
<1>12. ASSUME NEW a \in Apps, CancelLoop(a)
       PROVE  PoolInv'
  <2>1. UNCHANGED <<status, running, idle>>
    BY <1>12 DEF CancelLoop
  <2>2. CASE pool # <<>>
    <3>1. wpc' = wpc
      BY <1>12, <2>2 DEF CancelLoop
    <3> QED BY <2>1, <2>2, <3>1 DEF PoolInv, Running, Idle
  <2>3. CASE pool = <<>>
    <3>1. wpc' = WorkersWoken /\ pool' = <<>>
      BY <1>12, <2>3 DEF CancelLoop
    <3>2. Running' = Running /\ Idle' = Idle
      BY <3>1 DEF WorkersWoken, Running, Idle, Types
    <3> QED BY <2>1, <3>1, <3>2 DEF PoolInv
  <2> QED BY <2>2, <2>3
<1>13. ASSUME NEW a \in Apps, QuitLoop(a)
       PROVE  PoolInv'
  <2>1. /\ status' = status \/ status' = "uninitialized"
        /\ UNCHANGED <<pool, running, idle, wpc>>
    BY <1>13 DEF QuitLoop
  <2> QED BY <2>1 DEF PoolInv, Running, Idle
<1>14. ASSUME NEW a \in Apps, WaitTimesOut(a)
       PROVE  PoolInv'
  BY <1>14, <1>00 DEF WaitTimesOut, poolVars
<1>15. ASSUME NEW q \in Queues, SignalAsyncIOQueue(q)
       PROVE  PoolInv'
  BY <1>15, <1>00 DEF SignalAsyncIOQueue, poolVars
<1>16. ASSUME NEW w \in Workers, WorkerRuns(w)
       PROVE  PoolInv'
  <2>1. status' = status
    BY <1>16 DEF WorkerRuns
  <2>2. CASE wpc[w] = "top" /\ WorkerLoop(w, idle)
    <3>1. w \notin Idle
      BY <2>2 DEF Idle
    <3>2. idle = Cardinality(Idle \ {w})
      BY <3>1 DEF PoolInv
    <3> QED BY <2>1, <2>2, <3>2, LoopServes
  <2>3. CASE wpc[w] \in {"woken", "timedout"}
    <3>1. w \in Idle
      BY <2>3 DEF Idle
    <3>2. Cardinality(Idle \ {w}) = idle - 1
      BY <3>1, WorkersAreFinite, OneLess DEF PoolInv
    <3>3. CASE WorkerLoop(w, idle - 1)
      BY <2>1, <2>3, <3>2, <3>3, LoopServes
    <3>4. CASE OthersIdle(w) /\ WorkerExits(w, idle - 1)
      <4>1. Idle \ {w} # {}
        BY <3>2, <3>4, FS_EmptySet DEF OthersIdle
      <4> QED BY <2>1, <2>3, <3>2, <3>4, <4>1, ExitServes
    <3> QED BY <1>16, <2>3, <3>3, <3>4 DEF WorkerRuns
  <2> QED BY <1>16, <2>2, <2>3 DEF WorkerRuns
<1>17. ASSUME NEW w \in Workers, SynchronousIO(w)
       PROVE  PoolInv'
  <2>1. /\ wpc[w] = "io" /\ wpc' = [wpc EXCEPT ![w] = "top"]
        /\ UNCHANGED <<status, pool, running, idle>>
    BY <1>17 DEF SynchronousIO
  <2>2. /\ Running' = Running /\ Idle' = Idle
        /\ \A v \in Workers : wpc'[v] = "idle" => wpc[v] = "idle"
    BY <2>1 DEF Running, Idle, Types
  <2> QED BY <2>1, <2>2 DEF PoolInv
<1>18. ASSUME NEW w \in Workers, WorkerTimesOut(w)
       PROVE  PoolInv'
  <2>1. /\ wpc[w] = "idle" /\ wpc' = [wpc EXCEPT ![w] = "timedout"]
        /\ UNCHANGED <<status, pool, running, idle>>
    BY <1>18 DEF WorkerTimesOut
  <2>2. /\ Running' = Running /\ Idle' = Idle
        /\ \A v \in Workers : wpc'[v] = "idle" => wpc[v] = "idle"
    BY <2>1 DEF Running, Idle, Types
  <2> QED BY <2>1, <2>2 DEF PoolInv
<1>19. CASE UNCHANGED vars
  BY <1>19, <1>00 DEF vars, poolVars
<1> QED
  BY <1>1, <1>2, <1>3, <1>4, <1>5, <1>6, <1>7, <1>8, <1>9, <1>10, <1>11, <1>12,
     <1>13, <1>14, <1>15, <1>16, <1>17, <1>18, <1>19 DEF Next, App, Call, Worker


-------------------------------------------------------------------------------
(* Waiting for results *)

\* The threads on their way to queue q.
Awake(q) == {a \in Apps : pc[a] = "woken" /\ at[a] = q}

\* Finitely many threads are on their way to a queue.
LEMMA AwakeIsFinite ==
  ASSUME NEW q
  PROVE  IsFiniteSet(Awake(q)) /\ Cardinality(Awake(q)) \in Nat
<1>1. Awake(q) \subseteq Apps
  BY DEF Awake
<1>2. IsFiniteSet(Awake(q))
  BY <1>1, AsyncIOAssumption, FS_Subset
<1> QED BY <1>2, FS_CardinalityType

\* A queue with the same results, and as many threads awake or more, is served
\* as before.
LEMMA AwakeSuffice ==
  ASSUME Types, NoLostWakeup, NEW q \in Queues,
         Sleepers(q)' # {} => /\ Sleepers(q) # {}
                              /\ completed'[q] = completed[q]
                              /\ Awake(q) \subseteq Awake(q)'
  PROVE  Sleepers(q)' # {} => Len(completed'[q]) <= Cardinality(Awake(q)')
<1> SUFFICES ASSUME Sleepers(q)' # {}
             PROVE  Len(completed'[q]) <= Cardinality(Awake(q)')
  OBVIOUS
<1>1. Len(completed[q]) <= Cardinality(Awake(q))
  BY DEF NoLostWakeup, Awake
<1>2. Awake(q)' \subseteq Apps
  BY DEF Awake
<1>3. IsFiniteSet(Awake(q)')
  BY <1>2, AsyncIOAssumption, FS_Subset
<1>4. Cardinality(Awake(q)) <= Cardinality(Awake(q)')
  BY <1>3, FS_Subset
<1>5. Cardinality(Awake(q)') \in Nat /\ Cardinality(Awake(q)) \in Nat
  BY <1>3, AwakeIsFinite, FS_CardinalityType
<1>6. Len(completed[q]) \in Nat
  BY DEF Types
<1>7. completed'[q] = completed[q]
  OBVIOUS
<1> QED BY <1>1, <1>4, <1>5, <1>6, <1>7

\* The caller p stands where it stood in pc, as far as sleepers are concerned.
CallerAwake(p) ==
  \A a \in Apps : /\ p[a] = "asleep" <=> pc[a] = "asleep"
                  /\ p[a] = "woken" <=> pc[a] = "woken"
                  /\ pc[a] \in {"asleep", "woken"} => at'[a] = at[a]

\* A result wakes one of the threads that sleep for it.
LEMMA CompleteWakes ==
  ASSUME Types, NoLostWakeup, NEW t \in Tasks, NEW p \in [Apps -> Labels],
         AsyncIOTaskComplete(t, p), CallerAwake(p)
  PROVE  NoLostWakeup'
<1>1. PICK S \in SignalledOn(queue[t]) : pc' = Woken(p, S)
  BY DEF AsyncIOTaskComplete
<1>2. \/ S = {} /\ Sleepers(queue[t]) = {}
      \/ \E b \in Sleepers(queue[t]) : S = {b}
  BY DEF SignalledOn
<1>3. \A a \in Apps : pc'[a] = IF a \in S THEN "woken" ELSE p[a]
  BY <1>1 DEF Woken
<1>4. completed' = [completed EXCEPT ![queue[t]] = <<t>> \o @]
  BY DEF AsyncIOTaskComplete
<1>5. ASSUME NEW q \in Queues
      PROVE  Sleepers(q)' # {} => Len(completed'[q]) <= Cardinality(Awake(q)')
  <2>1. CASE q # queue[t]
    <3>1. completed'[q] = completed[q]
      BY <1>4, <2>1 DEF Types
    <3>2. \A b \in S : pc[b] = "asleep" /\ at[b] # q
      BY <1>2, <2>1 DEF Sleepers
    <3>3. Sleepers(q)' \subseteq Sleepers(q) /\ Awake(q) \subseteq Awake(q)'
      BY <1>3, <3>2 DEF Sleepers, Awake, CallerAwake
    <3> QED BY <3>1, <3>3, AwakeSuffice
  <2>2. CASE q = queue[t]
    <3>1. CASE Sleepers(q) = {}
      <4>1. S = {}
        BY <1>2, <2>2, <3>1
      <4>2. Sleepers(q)' = {}
        BY <1>3, <3>1, <4>1 DEF Sleepers, CallerAwake
      <4> QED BY <4>2
    <3>2. CASE Sleepers(q) # {}
      <4>1. PICK b \in Sleepers(q) : S = {b}
        BY <1>2, <2>2, <3>2
      <4>2. b \in Apps /\ pc[b] = "asleep" /\ at[b] = q
        BY DEF Sleepers
      <4>3. Awake(q)' = Awake(q) \cup {b} /\ b \notin Awake(q)
        BY <1>3, <4>1, <4>2 DEF Awake, CallerAwake
      <4>4. Cardinality(Awake(q)') = Cardinality(Awake(q)) + 1
        BY <4>3, AwakeIsFinite, OneMore
      <4>5. Len(completed'[q]) = Len(completed[q]) + 1
        <5>1. completed[q] \in Seq(Tasks) /\ completed'[q] = <<t>> \o completed[q]
          BY <1>4, <2>2 DEF Types
        <5> QED BY <5>1, Prepend
      <4>6. Len(completed[q]) <= Cardinality(Awake(q))
        BY <3>2 DEF NoLostWakeup, Awake
      <4>7. Len(completed[q]) \in Nat /\ Cardinality(Awake(q)) \in Nat
        BY AwakeIsFinite DEF Types
      <4> QED BY <4>4, <4>5, <4>6, <4>7
    <3> QED BY <3>1, <3>2
  <2> QED BY <2>1, <2>2
<1> QED BY <1>5 DEF NoLostWakeup, Awake

\* So it is when a task is queued: those who wait for the pool are others.
LEMMA QueueWakes ==
  ASSUME Types, NoLostWakeup, NEW t \in Tasks, NEW p \in [Apps -> Labels],
         QueueAsyncIOTask(t, p), CallerAwake(p)
  PROVE  NoLostWakeup'
<1>1. CASE stop
  <2>1. AsyncIOTaskComplete(t, p)
    BY <1>1 DEF QueueAsyncIOTask
  <2> QED BY <2>1, CompleteWakes
<1>2. CASE ~stop
  <2>1. pc' = Woken(p, Quitters) /\ completed' = completed
    BY <1>2 DEF QueueAsyncIOTask
  <2>2. ASSUME NEW q \in Queues
        PROVE  Sleepers(q)' # {} => Len(completed'[q]) <= Cardinality(Awake(q)')
    <3>1. \A b \in Quitters : pc[b] = "asleep" /\ at[b] # q
      BY AsyncIOAssumption DEF Quitters, Sleepers
    <3>2. \A b \in Apps : pc'[b] = IF b \in Quitters THEN "woken" ELSE p[b]
      BY <2>1 DEF Woken
    <3>3. Sleepers(q)' \subseteq Sleepers(q) /\ Awake(q) \subseteq Awake(q)'
      BY <3>1, <3>2 DEF Sleepers, Awake, CallerAwake
    <3> QED BY <2>1, <3>3, AwakeSuffice
  <2> QED BY <2>2 DEF NoLostWakeup, Awake
<1> QED BY <1>1, <1>2

\* Nobody sleeps at first.
LEMMA WakeInit ==
  ASSUME Init
  PROVE  NoLostWakeup
BY DEF Init, NoLostWakeup, Sleepers

\* No step leaves results behind with threads asleep.
LEMMA WakeStep ==
  ASSUME TypeInv, NoLostWakeup, [Next]_vars
  PROVE  NoLostWakeup'
<1> USE DEF TypeInv
<1>0. None \notin Queues
  BY AsyncIOAssumption
<1>00. ASSUME \A q \in Queues :
                /\ completed'[q] = completed[q]
                /\ Sleepers(q)' \subseteq Sleepers(q)
                /\ Awake(q) \subseteq Awake(q)'
       PROVE  NoLostWakeup'
  <2>1. ASSUME NEW q \in Queues
        PROVE  Sleepers(q)' # {} => Len(completed'[q]) <= Cardinality(Awake(q)')
    <3>1. Sleepers(q)' # {} => /\ Sleepers(q) # {}
                               /\ completed'[q] = completed[q]
                               /\ Awake(q) \subseteq Awake(q)'
      BY <1>00
    <3> QED BY <3>1, AwakeSuffice
  <2> QED BY <2>1 DEF NoLostWakeup, Awake
<1>01. ASSUME NEW a \in Apps, NEW q \in Queues, PopResult(a, q),
              pc[a] = "woken" => at[a] = q, at'[a] = q,
              \A b \in Apps : b # a => at'[b] = at[b],
              pc[a] # "asleep"
       PROVE  NoLostWakeup'
  <2>1. /\ completed[q] # <<>> /\ completed' = [completed EXCEPT ![q] = Tail(@)]
        /\ pc' = Move(a, "outcome")
    BY <1>01 DEF PopResult
  <2>2. pc'[a] = "outcome" /\ \A b \in Apps : b # a => pc'[b] = pc[b]
    BY <2>1 DEF Move, Types
  <2>3. ASSUME NEW k \in Queues
        PROVE  Sleepers(k)' # {} => Len(completed'[k]) <= Cardinality(Awake(k)')
    <3>1. CASE k # q
      <4>1. completed'[k] = completed[k]
        BY <2>1, <3>1 DEF Types
      <4>2. Sleepers(k)' \subseteq Sleepers(k) /\ Awake(k) \subseteq Awake(k)'
        BY <1>01, <2>2, <3>1 DEF Sleepers, Awake
      <4> QED BY <4>1, <4>2, AwakeSuffice
    <3>2. CASE k = q
      <4>1. Sleepers(q)' \subseteq Sleepers(q)
        BY <1>01, <2>2 DEF Sleepers
      <4>2. Awake(q)' = Awake(q) \ {a}
        BY <1>01, <2>2 DEF Awake
      <4>3. Len(completed[q]) = Len(completed'[q]) + 1 /\ Len(completed'[q]) \in Nat
        <5>1. completed[q] \in Seq(Tasks) /\ completed'[q] = Tail(completed[q])
          BY <2>1 DEF Types
        <5>2. /\ Tail(completed[q]) \in Seq(Tasks)
              /\ Len(completed[q]) = Len(Tail(completed[q])) + 1
          BY <2>1, <5>1, TakeFirst
        <5>3. Len(completed'[q]) \in Nat
          BY <5>1, <5>2
        <5> QED BY <5>1, <5>2, <5>3
      <4>4. Cardinality(Awake(q) \ {a}) >= Cardinality(Awake(q)) - 1
        <5>1. CASE a \in Awake(q)
          BY <5>1, AwakeIsFinite, OneLess
        <5>2. CASE a \notin Awake(q)
          <6>1. Awake(q) \ {a} = Awake(q)
            BY <5>2
          <6> QED BY <6>1, AwakeIsFinite
        <5> QED BY <5>1, <5>2
      <4>5. Sleepers(q)' # {} => Len(completed[q]) <= Cardinality(Awake(q))
        BY <4>1 DEF NoLostWakeup, Awake
      <4>6. Cardinality(Awake(q)) \in Nat /\ Cardinality(Awake(q) \ {a}) \in Nat
        BY AwakeIsFinite, FS_RemoveElement, FS_CardinalityType
      <4> QED BY <3>2, <4>2, <4>3, <4>4, <4>5, <4>6
    <3> QED BY <3>1, <3>2
  <2> QED BY <2>3 DEF NoLostWakeup, Awake
<1>02. ASSUME NEW a \in Apps, NEW q \in Queues, completed[q] = <<>>,
              completed' = completed,
              pc[a] \in {"asleep", "woken"} => at[a] = q,
              pc'[a] = "asleep" => at'[a] = q,
              \A b \in Apps : b # a => pc'[b] = pc[b] /\ at'[b] = at[b]
       PROVE  NoLostWakeup'
  <2>1. ASSUME NEW k \in Queues
        PROVE  Sleepers(k)' # {} => Len(completed'[k]) <= Cardinality(Awake(k)')
    <3>1. CASE k # q
      <4>1. Sleepers(k)' \subseteq Sleepers(k) /\ Awake(k) \subseteq Awake(k)'
        BY <1>02, <3>1 DEF Sleepers, Awake
      <4> QED BY <1>02, <4>1, AwakeSuffice
    <3>2. CASE k = q
      <4>1. Len(completed'[k]) = 0
        BY <1>02, <3>2
      <4>2. Awake(k)' \subseteq Apps
        BY DEF Awake
      <4>3. Cardinality(Awake(k)') \in Nat
        BY <4>2, AsyncIOAssumption, FS_Subset, FS_CardinalityType
      <4> QED BY <4>1, <4>3
    <3> QED BY <3>1, <3>2
  <2> QED BY <2>1 DEF NoLostWakeup, Awake
<1>1. ASSUME NEW a \in Apps, NEW q \in Queues, CreateAsyncIOQueue(a, q)
      PROVE  NoLostWakeup'
  <2>1. /\ completed' = completed
        /\ \A k \in Queues : /\ Sleepers(k)' \subseteq Sleepers(k)
                             /\ Awake(k) \subseteq Awake(k)'
    BY <1>1 DEF CreateAsyncIOQueue, Sleepers, Awake, Move, Types, callVars
  <2> QED BY <1>00, <2>1
<1>2. ASSUME NEW a \in Apps, NEW q \in Queues, WaitAsyncIOResult(a, q)
      PROVE  NoLostWakeup'
  <2>1. /\ pc[a] = "idle" /\ at'[a] = q
        /\ \A b \in Apps : b # a => at'[b] = at[b]
    BY <1>2 DEF WaitAsyncIOResult, Types
  <2>2. CASE PopResult(a, q)
    BY <1>01, <2>1, <2>2
  <2>3. CASE SleepOn(a, q)
    <3>1. \A b \in Apps : b # a => pc'[b] = pc[b]
      BY <2>3 DEF SleepOn, Move, Types
    <3>2. completed[q] = <<>> /\ completed' = completed
      BY <2>3 DEF SleepOn
    <3> QED BY <1>02, <2>1, <3>1, <3>2
  <2> QED BY <1>2, <2>2, <2>3 DEF WaitAsyncIOResult
<1>3. ASSUME NEW a \in Apps, NEW q \in Queues, DestroyAsyncIOQueue(a, q)
      PROVE  NoLostWakeup'
  <2>1. /\ completed' = completed
        /\ \A k \in Queues : /\ Sleepers(k)' \subseteq Sleepers(k)
                             /\ Awake(k) \subseteq Awake(k)'
    BY <1>3 DEF DestroyAsyncIOQueue, Sleepers, Awake, Move, Types, callVars
  <2> QED BY <1>00, <2>1
<1>4. ASSUME NEW a \in Apps, NEW f \in Files, NEW q \in Queues, RequestAsyncIO(a, f, q)
      PROVE  NoLostWakeup'
  <2>1. /\ pc[a] = "idle" /\ pc' = Move(a, "start")
        /\ completed' = completed /\ at' = at
    BY <1>4 DEF RequestAsyncIO, Start
  <2>2. \A k \in Queues : /\ Sleepers(k)' \subseteq Sleepers(k)
                          /\ Awake(k) \subseteq Awake(k)'
    BY <2>1 DEF Sleepers, Awake, Move, Types
  <2> QED BY <1>00, <2>1, <2>2
<1>5. ASSUME NEW a \in Apps, NEW f \in Files, NEW q \in Queues, CloseAsyncIO(a, f, q)
      PROVE  NoLostWakeup'
  <2>1. /\ pc[a] = "idle" /\ (pc' = Move(a, "start") \/ pc' = pc)
        /\ completed' = completed /\ at' = at
    BY <1>5 DEF CloseAsyncIO, Start
  <2>2. \A k \in Queues : /\ Sleepers(k)' \subseteq Sleepers(k)
                          /\ Awake(k) \subseteq Awake(k)'
    BY <2>1 DEF Sleepers, Awake, Move, Types
  <2> QED BY <1>00, <2>1, <2>2
<1>6. ASSUME NEW a \in Apps, NEW f \in Files, AsyncIOFromFile(a, f)
      PROVE  NoLostWakeup'
  <2>1. /\ completed' = completed
        /\ \A q \in Queues : /\ Sleepers(q)' \subseteq Sleepers(q)
                             /\ Awake(q) \subseteq Awake(q)'
    BY <1>6 DEF AsyncIOFromFile, Sleepers, Awake, Move, Types, callVars
  <2> QED BY <1>00, <2>1
<1>7. ASSUME NEW a \in Apps, ShutdownThreadpool(a)
      PROVE  NoLostWakeup'
  <2>1. /\ completed' = completed
        /\ \A q \in Queues : /\ Sleepers(q)' \subseteq Sleepers(q)
                             /\ Awake(q) \subseteq Awake(q)'
    BY <1>7 DEF ShutdownThreadpool, Sleepers, Awake, Move, Types, callVars
  <2> QED BY <1>00, <2>1
<1>8. ASSUME NEW a \in Apps, StartTask(a)
      PROVE  NoLostWakeup'
  <2> DEFINE p == Move(a, "idle")
  <2>1. /\ task[a] \in Tasks /\ QueueAsyncIOTask(task[a], p) /\ at' = at
        /\ p \in [Apps -> Labels] /\ pc[a] = "start"
    BY <1>8 DEF StartTask, HandsKept, Move, Labels, Types
  <2>2. \A b \in Apps : p[b] = IF b = a THEN "idle" ELSE pc[b]
    BY DEF Types, Move
  <2> HIDE DEF p
  <2>3. CallerAwake(p)
    BY <2>1, <2>2 DEF CallerAwake
  <2> QED BY <2>1, <2>3, QueueWakes
<1>9. ASSUME NEW a \in Apps, WaitReturns(a)
      PROVE  NoLostWakeup'
  <2>0. at[a] \in Queues /\ pc[a] = "woken"
    BY <1>9 DEF WaitReturns, Types
  <2>1. CASE PopResult(a, at[a]) /\ UNCHANGED at
    BY <1>01, <2>0, <2>1
  <2>2. CASE /\ completed[at[a]] = <<>> /\ completed' = completed
             /\ pc' = Move(a, After(a)) /\ at' = AtAfter(a)
    <3>1. pc'[a] # "asleep"
      BY <2>2 DEF Move, After, Types
    <3>2. \A b \in Apps : b # a => pc'[b] = pc[b] /\ at'[b] = at[b]
      BY <2>2 DEF Move, AtAfter, Types
    <3> QED BY <1>02, <2>0, <2>2, <3>1, <3>2
  <2> QED BY <1>9, <2>1, <2>2 DEF WaitReturns
<1>10. ASSUME NEW a \in Apps, TaskOutcome(a)
       PROVE  NoLostWakeup'
  <2> DEFINE t == task[a]
             c == CloseOf(FileOf(t))
             p == Move(a, After(a))
  <2>1. c \in Tasks /\ p \in [Apps -> Labels] /\ pc[a] = "outcome"
    BY <1>10, TaskFacts DEF TaskOutcome, HandsKept, Move, After, Labels, Types
  <2>2. /\ \A b \in Apps : b # a => at'[b] = at[b]
        /\ \A b \in Apps : p[b] = IF b = a THEN After(a) ELSE pc[b]
        /\ After(a) \notin {"asleep", "woken"}
    BY <1>10 DEF TaskOutcome, Types, Move, AtAfter, After
  <2>3. QueueAsyncIOTask(c, p) \/ (pc' = p /\ completed' = completed)
    BY <1>10 DEF TaskOutcome
  <2> HIDE DEF p, c
  <2>4. CallerAwake(p)
    BY <2>1, <2>2 DEF CallerAwake
  <2>5. CASE QueueAsyncIOTask(c, p)
    BY <2>1, <2>4, <2>5, QueueWakes
  <2>6. CASE pc' = p /\ completed' = completed
    <3>1. \A k \in Queues : /\ Sleepers(k)' \subseteq Sleepers(k)
                            /\ Awake(k) \subseteq Awake(k)'
      BY <2>4, <2>6 DEF Sleepers, Awake, CallerAwake
    <3> QED BY <1>00, <2>6, <3>1
  <2> QED BY <2>3, <2>5, <2>6
<1>11. ASSUME NEW a \in Apps, DestroyLoop(a)
       PROVE  NoLostWakeup'
  <2> DEFINE q == at[a]
  <2>1. q \in Queues /\ pc[a] = "destroy"
    BY <1>11 DEF DestroyLoop, HandsKept
  <2>2. CASE PopResult(a, q) /\ UNCHANGED at
    BY <1>01, <2>1, <2>2
  <2>3. CASE SleepOn(a, q) /\ UNCHANGED at
    <3>1. \A b \in Apps : b # a => pc'[b] = pc[b]
      BY <2>3 DEF SleepOn, Move, Types
    <3>2. completed[q] = <<>> /\ completed' = completed
      BY <2>3 DEF SleepOn
    <3> QED BY <1>02, <2>1, <2>3, <3>1, <3>2
  <2>4. CASE /\ pc' = Move(a, "idle") /\ at' = [at EXCEPT ![a] = None]
             /\ UNCHANGED completed
    <3>1. \A k \in Queues : /\ Sleepers(k)' \subseteq Sleepers(k)
                            /\ Awake(k) \subseteq Awake(k)'
      BY <2>1, <2>4 DEF Sleepers, Awake, Move, Types
    <3> QED BY <1>00, <2>4, <3>1
  <2> QED BY <1>11, <2>2, <2>3, <2>4 DEF DestroyLoop
<1>12. ASSUME NEW a \in Apps, CancelLoop(a)
       PROVE  NoLostWakeup'
  <2>0. pc[a] = "cancel" /\ at[a] = None /\ at' = at
    BY <1>12 DEF CancelLoop, HandsKept, callVars
  <2>1. CASE pool # <<>>
    <3>1. Head(pool) \in Tasks /\ pc \in [Apps -> Labels]
      BY <2>1, TakeFirst DEF Types
    <3>2. AsyncIOTaskComplete(Head(pool), pc)
      BY <1>12, <2>1 DEF CancelLoop
    <3>3. CallerAwake(pc)
      BY <2>0 DEF CallerAwake
    <3> QED BY <3>1, <3>2, <3>3, CompleteWakes
  <2>2. CASE pool = <<>>
    <3>1. pc' = Move(a, "woken") /\ completed' = completed
      BY <1>12, <2>2 DEF CancelLoop
    <3>2. \A q \in Queues : /\ Sleepers(q)' \subseteq Sleepers(q)
                            /\ Awake(q) \subseteq Awake(q)'
      BY <2>0, <3>1 DEF Sleepers, Awake, Move, Types
    <3> QED BY <1>00, <3>1, <3>2
  <2> QED BY <2>1, <2>2
<1>13. ASSUME NEW a \in Apps, QuitLoop(a)
       PROVE  NoLostWakeup'
  <2>1. /\ at[a] = None /\ at' = at /\ completed' = completed
        /\ pc' = Move(a, "asleep") \/ pc' = Move(a, "idle")
        /\ pc[a] = "woken"
    BY <1>13 DEF QuitLoop, callVars
  <2>2. \A q \in Queues : /\ Sleepers(q)' \subseteq Sleepers(q)
                          /\ Awake(q) \subseteq Awake(q)'
    BY <1>0, <2>1 DEF Sleepers, Awake, Move, Types
  <2> QED BY <1>00, <2>1, <2>2
<1>14. ASSUME NEW a \in Apps, WaitTimesOut(a)
       PROVE  NoLostWakeup'
  <2>1. /\ completed' = completed
        /\ \A q \in Queues : /\ Sleepers(q)' \subseteq Sleepers(q)
                             /\ Awake(q) \subseteq Awake(q)'
    BY <1>14 DEF WaitTimesOut, Sleepers, Awake, Move, Types, callVars
  <2> QED BY <1>00, <2>1
<1>15. ASSUME NEW q \in Queues, SignalAsyncIOQueue(q)
       PROVE  NoLostWakeup'
  <2>1. completed' = completed /\ pc' = Woken(pc, Sleepers(q)) /\ at' = at
    BY <1>15 DEF SignalAsyncIOQueue, callVars
  <2>2. \A k \in Queues : /\ Sleepers(k)' \subseteq Sleepers(k)
                          /\ Awake(k) \subseteq Awake(k)'
    BY <2>1 DEF Woken, Sleepers, Awake, Types
  <2> QED BY <1>00, <2>1, <2>2
<1>16. ASSUME NEW w \in Workers, WorkerRuns(w)
       PROVE  NoLostWakeup'
  <2>1. at' = at /\ completed' = completed
    BY <1>16 DEF WorkerRuns, callVars
  <2>2. pc' = pc \/ pc' = QuitterTold
    BY <1>16 DEF WorkerRuns, WorkerLoop, WorkerExits
  <2>3. \A b \in Apps : \/ pc'[b] = pc[b]
                        \/ pc'[b] = "woken" /\ pc[b] = "asleep"
    BY <2>2 DEF QuitterTold, Quitters, Woken, Sleepers, Types
  <2>4. \A q \in Queues : /\ Sleepers(q)' \subseteq Sleepers(q)
                          /\ Awake(q) \subseteq Awake(q)'
    BY <2>1, <2>3 DEF Sleepers, Awake
  <2> QED BY <1>00, <2>1, <2>4
<1>17. ASSUME NEW w \in Workers, SynchronousIO(w)
       PROVE  NoLostWakeup'
  <2>1. /\ wtask[w] \in Tasks /\ AsyncIOTaskComplete(wtask[w], pc) /\ at' = at
        /\ pc \in [Apps -> Labels]
    BY <1>17 DEF SynchronousIO, HandsKept, callVars, Types
  <2>2. CallerAwake(pc)
    BY <2>1 DEF CallerAwake
  <2> QED BY <2>1, <2>2, CompleteWakes
<1>18. ASSUME NEW w \in Workers, WorkerTimesOut(w)
       PROVE  NoLostWakeup'
  <2>1. /\ completed' = completed
        /\ \A q \in Queues : /\ Sleepers(q)' \subseteq Sleepers(q)
                             /\ Awake(q) \subseteq Awake(q)'
    BY <1>18 DEF WorkerTimesOut, Sleepers, Awake, Move, Types, callVars
  <2> QED BY <1>00, <2>1
<1>19. CASE UNCHANGED vars
  <2>1. completed' = completed /\ pc' = pc /\ at' = at
    BY <1>19 DEF vars, callVars
  <2>2. \A q \in Queues : Sleepers(q)' = Sleepers(q) /\ Awake(q)' = Awake(q)
    BY <2>1 DEF Sleepers, Awake
  <2> QED BY <1>00, <2>1, <2>2
<1> QED
  BY <1>1, <1>2, <1>3, <1>4, <1>5, <1>6, <1>7, <1>8, <1>9, <1>10, <1>11, <1>12,
     <1>13, <1>14, <1>15, <1>16, <1>17, <1>18, <1>19 DEF Next, App, Call, Worker


-------------------------------------------------------------------------------
(* Destroying queues *)

\* One thread destroys a queue, and no other is in a call with it.
DestroyInv ==
  /\ \A a \in Apps : pc[a] = "destroy" => at[a] \in dying
  /\ \A a, b \in Apps : at[a] \in dying /\ at[a] = at[b] => a = b

\* Completing or queueing a task moves other threads only to "woken".
LEMMA OthersWake ==
  ASSUME NEW t, NEW p, QueueAsyncIOTask(t, p) \/ AsyncIOTaskComplete(t, p)
  PROVE  \A b \in Apps : pc'[b] = p[b] \/ pc'[b] = "woken"
<1>1. CASE AsyncIOTaskComplete(t, p)
  BY <1>1 DEF AsyncIOTaskComplete, Woken
<1>2. CASE QueueAsyncIOTask(t, p) /\ stop
  BY <1>2 DEF QueueAsyncIOTask, AsyncIOTaskComplete, Woken
<1>3. CASE QueueAsyncIOTask(t, p) /\ ~stop
  BY <1>3 DEF QueueAsyncIOTask, Woken
<1> QED BY <1>1, <1>2, <1>3

\* Nobody is in a call at first.
LEMMA DestroyInit ==
  ASSUME Init
  PROVE  DestroyInv
BY DEF Init, DestroyInv

\* A queue is destroyed once, and the queue of another's call never.
LEMMA DestroyStep ==
  ASSUME TypeInv, DestroyInv, [Next]_vars
  PROVE  DestroyInv'
<1> USE DEF TypeInv
<1>0. None \notin dying /\ dying \subseteq Queues
  BY AsyncIOAssumption DEF Types
<1>00. ASSUME dying' = dying, at' = at,
              \A b \in Apps : pc'[b] = "destroy" => pc[b] = "destroy"
       PROVE  DestroyInv'
  BY <1>00 DEF DestroyInv
<1>01. ASSUME NEW a \in Apps, dying' = dying,
              at'[a] \in dying => at'[a] = at[a],
              pc'[a] = "destroy" => at'[a] \in dying,
              \A b \in Apps : b # a => /\ at'[b] = at[b]
                                       /\ pc'[b] = "destroy" => pc[b] = "destroy"
       PROVE  DestroyInv'
  BY <1>01 DEF DestroyInv
<1>1. ASSUME NEW a \in Apps, NEW q \in Queues, CreateAsyncIOQueue(a, q)
      PROVE  DestroyInv'
  BY <1>00, <1>1 DEF CreateAsyncIOQueue, callVars
<1>2. ASSUME NEW a \in Apps, NEW q \in Queues, WaitAsyncIOResult(a, q)
      PROVE  DestroyInv'
  <2>1. /\ q \notin dying /\ dying' = dying /\ at'[a] = q
        /\ \A b \in Apps : b # a => at'[b] = at[b]
    BY <1>2 DEF WaitAsyncIOResult, lifeVars, Types
  <2>2. pc' = Move(a, "outcome") \/ pc' = Move(a, "asleep")
    BY <1>2 DEF WaitAsyncIOResult, PopResult, SleepOn
  <2>3. pc'[a] # "destroy" /\ \A b \in Apps : b # a => pc'[b] = pc[b]
    BY <2>2 DEF Move, Types
  <2> QED BY <1>01, <2>1, <2>3
<1>3. ASSUME NEW a \in Apps, NEW q \in Queues, DestroyAsyncIOQueue(a, q)
      PROVE  DestroyInv'
  <2>1. /\ dying' = dying \cup {q} /\ at'[a] = q /\ pc'[a] = "destroy"
        /\ \A b \in Apps : b # a => at'[b] = at[b] /\ pc'[b] = pc[b]
        /\ \A b \in Apps : at[b] # q
    BY <1>3 DEF DestroyAsyncIOQueue, MayDestroy, Move, Types
  <2> QED BY <2>1 DEF DestroyInv
<1>4. ASSUME NEW a \in Apps, NEW f \in Files, NEW q \in Queues, RequestAsyncIO(a, f, q)
      PROVE  DestroyInv'
  <2>1. dying' = dying /\ at' = at /\ pc' = Move(a, "start")
    BY <1>4 DEF RequestAsyncIO, Start, lifeVars
  <2> QED BY <1>00, <2>1 DEF Move, Types
<1>5. ASSUME NEW a \in Apps, NEW f \in Files, NEW q \in Queues, CloseAsyncIO(a, f, q)
      PROVE  DestroyInv'
  <2>1. dying' = dying /\ at' = at /\ (pc' = Move(a, "start") \/ pc' = pc)
    BY <1>5 DEF CloseAsyncIO, Start, lifeVars
  <2> QED BY <1>00, <2>1 DEF Move, Types
<1>6. ASSUME NEW a \in Apps, NEW f \in Files, AsyncIOFromFile(a, f)
      PROVE  DestroyInv'
  BY <1>00, <1>6 DEF AsyncIOFromFile, callVars, lifeVars
<1>7. ASSUME NEW a \in Apps, ShutdownThreadpool(a)
      PROVE  DestroyInv'
  <2>1. dying' = dying /\ at' = at /\ pc' = Move(a, "cancel")
    BY <1>7 DEF ShutdownThreadpool, callVars, lifeVars
  <2> QED BY <1>00, <2>1 DEF Move, Types
<1>8. ASSUME NEW a \in Apps, StartTask(a)
      PROVE  DestroyInv'
  <2>1. dying' = dying /\ at' = at /\ QueueAsyncIOTask(task[a], Move(a, "idle"))
    BY <1>8 DEF StartTask, lifeVars
  <2>2. \A b \in Apps : pc'[b] = Move(a, "idle")[b] \/ pc'[b] = "woken"
    BY <2>1, OthersWake
  <2> QED BY <1>00, <2>1, <2>2 DEF Move, Types
<1>9. ASSUME NEW a \in Apps, WaitReturns(a)
      PROVE  DestroyInv'
  <2>0. dying' = dying
    BY <1>9 DEF WaitReturns, lifeVars
  <2>1. CASE PopResult(a, at[a]) /\ UNCHANGED at
    BY <1>00, <2>0, <2>1 DEF PopResult, Move, Types
  <2>2. CASE pc' = Move(a, After(a)) /\ at' = AtAfter(a)
    <3>1. /\ at'[a] = IF at[a] \in dying THEN at[a] ELSE None
          /\ pc'[a] = IF at[a] \in dying THEN "destroy" ELSE "idle"
          /\ \A b \in Apps : b # a => at'[b] = at[b] /\ pc'[b] = pc[b]
      BY <2>2 DEF Move, After, AtAfter, Types
    <3> QED BY <1>0, <1>01, <2>0, <3>1
  <2> QED BY <1>9, <2>1, <2>2 DEF WaitReturns
<1>10. ASSUME NEW a \in Apps, TaskOutcome(a)
       PROVE  DestroyInv'
  <2> DEFINE p == Move(a, After(a))
  <2>1. /\ dying' = dying
        /\ at'[a] = IF at[a] \in dying THEN at[a] ELSE None
        /\ \A b \in Apps : b # a => at'[b] = at[b]
    BY <1>10 DEF TaskOutcome, AtAfter, lifeVars, Types
  <2>2. /\ p[a] = IF at[a] \in dying THEN "destroy" ELSE "idle"
        /\ \A b \in Apps : b # a => p[b] = pc[b]
    BY DEF Move, After, Types
  <2>3. QueueAsyncIOTask(CloseOf(FileOf(task[a])), p) \/ pc' = p
    BY <1>10 DEF TaskOutcome
  <2> HIDE DEF p
  <2>4. \A b \in Apps : pc'[b] = p[b] \/ pc'[b] = "woken"
    BY <2>3, OthersWake
  <2> QED BY <1>0, <1>01, <2>1, <2>2, <2>4
<1>11. ASSUME NEW a \in Apps, DestroyLoop(a)
       PROVE  DestroyInv'
  <2> DEFINE q == at[a]
  <2>1. CASE (PopResult(a, q) \/ SleepOn(a, q)) /\ UNCHANGED <<queues, dying, at>>
    <3>1. pc' = Move(a, "outcome") \/ pc' = Move(a, "asleep")
      BY <2>1 DEF PopResult, SleepOn
    <3> QED BY <1>00, <2>1, <3>1 DEF Move, Types
  <2>2. CASE /\ dying' = dying \ {q} /\ pc' = Move(a, "idle")
             /\ at' = [at EXCEPT ![a] = None]
    <3>1. /\ at'[a] = None /\ pc'[a] = "idle"
          /\ \A b \in Apps : b # a => at'[b] = at[b] /\ pc'[b] = pc[b]
      BY <2>2 DEF Move, Types
    <3>2. pc[a] = "destroy" /\ q \in dying
      BY <1>11 DEF DestroyLoop, DestroyInv
    <3> QED BY <1>0, <2>2, <3>1, <3>2 DEF DestroyInv
  <2> QED BY <1>11, <2>1, <2>2 DEF DestroyLoop
<1>12. ASSUME NEW a \in Apps, CancelLoop(a)
       PROVE  DestroyInv'
  <2>1. dying' = dying /\ at' = at
    BY <1>12 DEF CancelLoop, callVars, lifeVars
  <2>2. AsyncIOTaskComplete(Head(pool), pc) \/ pc' = Move(a, "woken")
    BY <1>12 DEF CancelLoop
  <2>3. \A b \in Apps : pc'[b] = pc[b] \/ pc'[b] = "woken"
    BY <2>2, OthersWake DEF Move, Types
  <2> QED BY <1>00, <2>1, <2>3
<1>13. ASSUME NEW a \in Apps, QuitLoop(a)
       PROVE  DestroyInv'
  <2>1. dying' = dying /\ at' = at /\ (pc' = Move(a, "asleep") \/ pc' = Move(a, "idle"))
    BY <1>13 DEF QuitLoop, callVars, lifeVars
  <2> QED BY <1>00, <2>1 DEF Move, Types
<1>14. ASSUME NEW a \in Apps, WaitTimesOut(a)
       PROVE  DestroyInv'
  <2>1. dying' = dying /\ at' = at /\ pc' = Move(a, "woken")
    BY <1>14 DEF WaitTimesOut, callVars, lifeVars
  <2> QED BY <1>00, <2>1 DEF Move, Types
<1>15. ASSUME NEW q \in Queues, SignalAsyncIOQueue(q)
       PROVE  DestroyInv'
  <2>1. dying' = dying /\ at' = at /\ pc' = Woken(pc, Sleepers(q))
    BY <1>15 DEF SignalAsyncIOQueue, callVars, lifeVars
  <2> QED BY <1>00, <2>1 DEF Woken
<1>16. ASSUME NEW w \in Workers, WorkerRuns(w)
       PROVE  DestroyInv'
  <2>1. dying' = dying /\ at' = at
    BY <1>16 DEF WorkerRuns, callVars, lifeVars
  <2>2. pc' = pc \/ pc' = QuitterTold
    BY <1>16 DEF WorkerRuns, WorkerLoop, WorkerExits
  <2>3. \A b \in Apps : pc'[b] = "destroy" => pc[b] = "destroy"
    BY <2>2 DEF QuitterTold, Woken
  <2> QED BY <1>00, <2>1, <2>3
<1>17. ASSUME NEW w \in Workers, SynchronousIO(w)
       PROVE  DestroyInv'
  <2>1. dying' = dying /\ at' = at /\ AsyncIOTaskComplete(wtask[w], pc)
    BY <1>17 DEF SynchronousIO, callVars, lifeVars
  <2>2. \A b \in Apps : pc'[b] = pc[b] \/ pc'[b] = "woken"
    BY <2>1, OthersWake
  <2> QED BY <1>00, <2>1, <2>2
<1>18. ASSUME NEW w \in Workers, WorkerTimesOut(w)
       PROVE  DestroyInv'
  BY <1>00, <1>18 DEF WorkerTimesOut, callVars, lifeVars
<1>19. CASE UNCHANGED vars
  BY <1>00, <1>19 DEF vars, callVars, lifeVars
<1> QED
  BY <1>1, <1>2, <1>3, <1>4, <1>5, <1>6, <1>7, <1>8, <1>9, <1>10, <1>11, <1>12,
     <1>13, <1>14, <1>15, <1>16, <1>17, <1>18, <1>19 DEF Next, App, Call, Worker

-------------------------------------------------------------------------------
(* Queues outlive their tasks *)

\* The tasks that name a queue, and the closes that wait to be tasks, find it
\* in memory.  A close that waits for its turn and names a queue that is being
\* destroyed waits for tasks of that queue.
LifeInv ==
  /\ \A f \in Files : \A t \in tasks[f] : queue[t] \in queues
  /\ \A f \in files \cap closing :
       /\ queue[CloseOf(f)] \in queues
       /\ queue[CloseOf(f)] \in dying =>
            \A t \in tasks[f] : queue[t] = queue[CloseOf(f)]

\* There are no tasks at first.
LEMMA LifeInit ==
  ASSUME Init
  PROVE  LifeInv
BY DEF Init, LifeInv

\* A queue is freed when no task and no close names it, if its destroyer is
\* careful.
LEMMA LifeStep ==
  ASSUME Careful, TypeInv, TaskInv, FileInv, DestroyInv, LifeInv, [Next]_vars
  PROVE  LifeInv'
<1> USE TaskFacts DEF TypeInv
<1>0. FilesKept /\ InflightCounts /\ FileTasks
  BY DEF FileInv, TaskInv
<1>00. ASSUME fileVars' = fileVars, dying' = dying, queues \subseteq queues'
       PROVE  LifeInv'
  <2>1. files' = files /\ closing' = closing /\ tasks' = tasks /\ queue' = queue
    BY <1>00 DEF fileVars
  <2> QED BY <1>00, <2>1 DEF LifeInv
<1>1. ASSUME NEW a \in Apps, NEW q \in Queues, CreateAsyncIOQueue(a, q)
      PROVE  LifeInv'
  BY <1>00, <1>1 DEF CreateAsyncIOQueue
<1>2. ASSUME NEW a \in Apps, NEW q \in Queues, WaitAsyncIOResult(a, q)
      PROVE  LifeInv'
  BY <1>00, <1>2 DEF WaitAsyncIOResult, lifeVars
<1>3. ASSUME NEW a \in Apps, NEW q \in Queues, DestroyAsyncIOQueue(a, q)
      PROVE  LifeInv'
  <2>1. /\ files' = files /\ closing' = closing /\ tasks' = tasks /\ queue' = queue
        /\ queues' = queues /\ dying' = dying \cup {q}
    BY <1>3 DEF DestroyAsyncIOQueue, fileVars
  <2>2. \A f \in files \cap closing :
          queue[CloseOf(f)] = q => \A t \in tasks[f] : queue[t] = q
    BY <1>3 DEF DestroyAsyncIOQueue, MayDestroy
  <2> QED BY <2>1, <2>2 DEF LifeInv
<1>4. ASSUME NEW a \in Apps, NEW f \in Files, NEW q \in Queues, RequestAsyncIO(a, f, q)
      PROVE  LifeInv'
  <2> DEFINE t == <<f, next_io[f] + 1>>
  <2>1. /\ files' = files /\ closing' = closing /\ queues' = queues /\ dying' = dying
        /\ f \notin closing /\ q \in queues
    BY <1>4 DEF RequestAsyncIO, lifeVars
  <2>2. next_io[f] \in 0 .. MaxIO /\ next_io[f] < MaxIO /\ MaxIO \in Nat
    BY <1>4, AsyncIOAssumption DEF RequestAsyncIO, Types
  <2>3. next_io'[f] = next_io[f] + 1
    BY <1>4 DEF RequestAsyncIO, Types
  <2>4. /\ tasks' = [tasks EXCEPT ![f] = @ \cup {t}]
        /\ queue' = [queue EXCEPT ![t] = q]
    BY <1>4, <2>3 DEF RequestAsyncIO
  <2>5. /\ t \in Tasks /\ t[1] = f /\ t[2] = next_io[f] + 1
    BY <2>2 DEF Tasks
  <2> HIDE DEF t
  <2>6. ASSUME NEW g \in Files
        PROVE  t \notin tasks[g] /\ t # CloseOf(g)
    <3>1. t \in tasks[g] => t[1] = g /\ t[2] <= next_io[g]
      BY <1>0 DEF FileTasks, FileOf
    <3>2. CloseOf(g)[2] = 0
      BY DEF CloseOf
    <3> QED BY <2>2, <2>5, <3>1, <3>2
  <2>7. /\ \A g \in Files : tasks'[g] = IF g = f THEN tasks[f] \cup {t} ELSE tasks[g]
        /\ \A u \in Tasks : queue'[u] = IF u = t THEN q ELSE queue[u]
    BY <2>4, <2>5 DEF Types
  <2>8. \A g \in Files : tasks[g] \subseteq Tasks /\ CloseOf(g) \in Tasks
    BY DEF Types
  <2>9. ASSUME NEW g \in Files, NEW u \in tasks'[g]
        PROVE  queue'[u] \in queues'
    BY <2>1, <2>5, <2>7, <2>8, <2>9 DEF LifeInv
  <2>10. ASSUME NEW g \in files' \cap closing'
         PROVE  /\ queue'[CloseOf(g)] \in queues'
                /\ queue'[CloseOf(g)] \in dying' =>
                     \A u \in tasks'[g] : queue'[u] = queue'[CloseOf(g)]
    <3>1. g \in Files /\ g # f
      BY <2>1 DEF Types
    <3>2. queue'[CloseOf(g)] = queue[CloseOf(g)] /\ tasks'[g] = tasks[g]
      BY <2>6, <2>7, <2>8, <3>1
    <3>3. \A u \in tasks[g] : queue'[u] = queue[u]
      BY <2>6, <2>7, <2>8, <3>1
    <3> QED BY <2>1, <3>2, <3>3 DEF LifeInv
  <2> QED BY <2>9, <2>10 DEF LifeInv
<1>5. ASSUME NEW a \in Apps, NEW f \in Files, NEW q \in Queues, CloseAsyncIO(a, f, q)
      PROVE  LifeInv'
  <2>1. /\ files' = files /\ closing' = closing \cup {f}
        /\ queues' = queues /\ dying' = dying
        /\ f \notin closing /\ q \in queues \ dying
        /\ queue' = [queue EXCEPT ![CloseOf(f)] = q]
    BY <1>5 DEF CloseAsyncIO, lifeVars
  <2>2. \/ tasks' = [tasks EXCEPT ![f] = @ \cup {CloseOf(f)}]
        \/ tasks' = tasks
    BY <1>5 DEF CloseAsyncIO
  <2>3. \A g \in Files : /\ tasks[g] \subseteq Tasks /\ CloseOf(g) \in Tasks
                         /\ CloseOf(f) \notin tasks[g]
                         /\ g # f => CloseOf(f) # CloseOf(g)
    BY <1>0, <2>1 DEF Types, FileTasks, FileOf, CloseOf
  <2>4. \A g \in Files : \/ tasks'[g] = tasks[g]
                         \/ g = f /\ tasks'[g] = tasks[f] \cup {CloseOf(f)}
    BY <2>2 DEF Types
  <2>5. \A u \in Tasks : queue'[u] = IF u = CloseOf(f) THEN q ELSE queue[u]
    BY <2>1, <2>3 DEF Types
  <2>6. ASSUME NEW g \in Files, NEW u \in tasks'[g]
        PROVE  queue'[u] \in queues'
    BY <2>1, <2>3, <2>4, <2>5, <2>6 DEF LifeInv
  <2>7. ASSUME NEW g \in files' \cap closing'
        PROVE  /\ queue'[CloseOf(g)] \in queues'
               /\ queue'[CloseOf(g)] \in dying' =>
                    \A u \in tasks'[g] : queue'[u] = queue'[CloseOf(g)]
    <3>1. CASE g = f
      BY <2>1, <2>3, <2>5, <3>1
    <3>2. CASE g # f
      <4>1. g \in Files /\ g \in files \cap closing
        BY <2>1, <3>2 DEF Types
      <4>2. queue'[CloseOf(g)] = queue[CloseOf(g)] /\ tasks'[g] = tasks[g]
        BY <2>3, <2>4, <2>5, <3>2, <4>1
      <4>3. \A u \in tasks[g] : queue'[u] = queue[u]
        BY <2>3, <2>5, <4>1
      <4> QED BY <2>1, <4>1, <4>2, <4>3 DEF LifeInv
    <3> QED BY <3>1, <3>2
  <2> QED BY <2>6, <2>7 DEF LifeInv
<1>6. ASSUME NEW a \in Apps, NEW f \in Files, AsyncIOFromFile(a, f)
      PROVE  LifeInv'
  <2>1. /\ files' = files \cup {f} /\ closing' = closing /\ tasks' = tasks
        /\ queue' = queue /\ queues' = queues /\ dying' = dying /\ f \notin opened
    BY <1>6 DEF AsyncIOFromFile, lifeVars
  <2>2. f \notin closing
    BY <2>1 DEF Types
  <2> QED BY <2>1, <2>2 DEF LifeInv
<1>7. ASSUME NEW a \in Apps, ShutdownThreadpool(a)
      PROVE  LifeInv'
  BY <1>00, <1>7 DEF ShutdownThreadpool, lifeVars
<1>8. ASSUME NEW a \in Apps, StartTask(a)
      PROVE  LifeInv'
  BY <1>00, <1>8 DEF StartTask, lifeVars
<1>9. ASSUME NEW a \in Apps, WaitReturns(a)
      PROVE  LifeInv'
  BY <1>00, <1>9 DEF WaitReturns, lifeVars
<1>10. ASSUME NEW a \in Apps, TaskOutcome(a)
       PROVE  LifeInv'
  <2> DEFINE t == task[a]
             f == FileOf(t)
             c == CloseOf(f)
  <2>1. /\ files' = IF t = c THEN files \ {f} ELSE files
        /\ closing' = closing /\ queue' = queue /\ queues' = queues /\ dying' = dying
    BY <1>10 DEF TaskOutcome, lifeVars
  <2>2. \/ Due(f, t) /\ tasks' = [tasks EXCEPT ![f] = {c}]
        \/ tasks' = [tasks EXCEPT ![f] = @ \ {t}]
    BY <1>10 DEF TaskOutcome
  <2>3. t \in Tasks /\ f \in Files
    BY <1>10 DEF TaskOutcome, HandsKept
  <2>4. CASE Due(f, t) /\ tasks' = [tasks EXCEPT ![f] = {c}]
    <3>1. f \in closing /\ tasks[f] # {}
      BY <2>4 DEF Due
    <3>2. f \in files
      BY <1>0, <2>3, <3>1 DEF FilesKept
    <3>3. queue[c] \in queues
      BY <3>1, <3>2 DEF LifeInv
    <3>4. \A g \in Files : tasks'[g] = IF g = f THEN {c} ELSE tasks[g]
      BY <2>3, <2>4 DEF Types
    <3> HIDE DEF c, f, t
    <3>5. files' \subseteq files /\ files' \cap closing' \subseteq Files
      BY <2>1 DEF Types
    <3>6. \A g \in files' \cap closing' :
            /\ queue[CloseOf(g)] \in queues
            /\ queue[CloseOf(g)] \in dying =>
                 \A u \in tasks'[g] : queue[u] = queue[CloseOf(g)]
      BY <2>1, <3>4, <3>5 DEF LifeInv, c
    <3>7. \A g \in Files : \A u \in tasks'[g] : queue[u] \in queues
      BY <3>3, <3>4 DEF LifeInv
    <3> QED BY <2>1, <3>6, <3>7 DEF LifeInv
  <2>5. CASE tasks' = [tasks EXCEPT ![f] = @ \ {t}]
    <3>1. files' \subseteq files /\ \A g \in Files : tasks'[g] \subseteq tasks[g]
      BY <2>1, <2>3, <2>5 DEF Types
    <3>2. files' \cap closing' \subseteq Files
      BY <2>1 DEF Types
    <3> HIDE DEF c, f, t
    <3> QED BY <2>1, <3>1, <3>2 DEF LifeInv
  <2> QED BY <2>2, <2>4, <2>5
<1>11. ASSUME NEW a \in Apps, DestroyLoop(a)
       PROVE  LifeInv'
  <2> DEFINE q == at[a]
  <2>1. fileVars' = fileVars
    BY <1>11 DEF DestroyLoop
  <2>2. CASE UNCHANGED <<queues, dying>>
    BY <1>00, <2>1, <2>2
  <2>3. CASE inflight[q] = 0 /\ queues' = queues \ {q} /\ dying' = dying \ {q}
    <3>1. q \in dying /\ q \in Queues
      BY <1>11 DEF DestroyLoop, DestroyInv, Types
    <3> HIDE DEF q
    <3>2. Naming(q) = {}
      <4>1. IsFiniteSet(Naming(q)) /\ Cardinality(Naming(q)) = 0
        BY <1>0, <2>3, <3>1, NamingIsFinite DEF InflightCounts
      <4> QED BY <4>1, FS_EmptySet
    <3>3. \A f \in Files : \A t \in tasks[f] : queue[t] # q
      BY <1>0, <3>2 DEF Naming, Live, FileTasks, Types
    <3>4. ASSUME NEW f \in files \cap closing
          PROVE  queue[CloseOf(f)] # q
      <4>1. f \in Files /\ tasks[f] # {}
        BY <1>0 DEF FilesKept, CloseNotForgotten, Types
      <4> QED BY <3>1, <3>3, <4>1 DEF LifeInv
    <3>5. files' = files /\ closing' = closing /\ tasks' = tasks /\ queue' = queue
      BY <2>1 DEF fileVars
    <3> QED BY <2>3, <3>3, <3>4, <3>5 DEF LifeInv
  <2> QED BY <1>11, <2>2, <2>3 DEF DestroyLoop
<1>12. ASSUME NEW a \in Apps, CancelLoop(a)
       PROVE  LifeInv'
  BY <1>00, <1>12 DEF CancelLoop, lifeVars
<1>13. ASSUME NEW a \in Apps, QuitLoop(a)
       PROVE  LifeInv'
  BY <1>00, <1>13 DEF QuitLoop, lifeVars
<1>14. ASSUME NEW a \in Apps, WaitTimesOut(a)
       PROVE  LifeInv'
  BY <1>00, <1>14 DEF WaitTimesOut, lifeVars
<1>15. ASSUME NEW q \in Queues, SignalAsyncIOQueue(q)
       PROVE  LifeInv'
  BY <1>00, <1>15 DEF SignalAsyncIOQueue, lifeVars
<1>16. ASSUME NEW w \in Workers, WorkerRuns(w) \/ SynchronousIO(w) \/ WorkerTimesOut(w)
       PROVE  LifeInv'
  BY <1>00, <1>16 DEF WorkerRuns, SynchronousIO, WorkerTimesOut, lifeVars
<1>17. CASE UNCHANGED vars
  BY <1>00, <1>17 DEF vars, lifeVars
<1> QED
  BY <1>1, <1>2, <1>3, <1>4, <1>5, <1>6, <1>7, <1>8, <1>9, <1>10, <1>11, <1>12,
     <1>13, <1>14, <1>15, <1>16, <1>17 DEF Next, App, Call, Worker


-------------------------------------------------------------------------------
(* No task is lost *)

\* Every task that was started and not taken is somewhere.
Somewhere(t) == ~Nowhere(t, task, wtask, pool, completed)
Kept == \A t \in Tasks : Live(t, tasks) => Somewhere(t)

\* The places a task can be in.
LEMMA Somewheres ==
  ASSUME NEW t
  PROVE  Somewhere(t) <=> \/ \E a \in Apps : task[a] = t
                          \/ \E w \in Workers : wtask[w] = t
                          \/ In(t, pool)
                          \/ \E q \in Queues : In(t, completed[q])
BY DEF Somewhere, Nowhere

\* A task completed is on the list of its queue, and the others stay there.
LEMMA CompleteKeeps ==
  ASSUME Types, NEW t \in Tasks, queue[t] \in Queues, NEW p, AsyncIOTaskComplete(t, p)
  PROVE  /\ In(t, completed'[queue[t]])
         /\ \A x, q : q \in Queues /\ In(x, completed[q]) => In(x, completed'[q])
<1>1. completed[queue[t]] \in Seq(Tasks)
  BY DEF Types
<1>2. completed' = [completed EXCEPT ![queue[t]] = <<t>> \o completed[queue[t]]]
  BY DEF AsyncIOTaskComplete
<1> DEFINE s == <<t>> \o completed[queue[t]]
<1>3. In(t, s) /\ \A x : In(x, completed[queue[t]]) => In(x, s)
  BY <1>1, Prepend
<1> HIDE DEF s
<1>4. \A q \in Queues : completed'[q] = IF q = queue[t] THEN s ELSE completed[q]
  BY <1>2 DEF Types, s
<1> QED BY <1>3, <1>4

\* A task queued is in the pool or canceled, and the others stay where they are.
LEMMA QueueKeeps ==
  ASSUME Types, NEW t \in Tasks, queue[t] \in Queues, NEW p, QueueAsyncIOTask(t, p)
  PROVE  /\ In(t, pool') \/ In(t, completed'[queue[t]])
         /\ \A x : In(x, pool) => In(x, pool')
         /\ \A x, q : q \in Queues /\ In(x, completed[q]) => In(x, completed'[q])
         /\ wtask' = wtask
<1>1. CASE stop
  <2>1. AsyncIOTaskComplete(t, p) /\ pool' = pool /\ wtask' = wtask
    BY <1>1 DEF QueueAsyncIOTask, poolVars
  <2> QED BY <2>1, CompleteKeeps
<1>2. CASE ~stop
  <2>1. pool' = <<t>> \o pool /\ completed' = completed /\ wtask' = wtask
    BY <1>2 DEF QueueAsyncIOTask
  <2>2. pool \in Seq(Tasks)
    BY DEF Types
  <2>3. In(t, pool') /\ \A x : In(x, pool) => In(x, pool')
    BY <2>1, <2>2, Prepend
  <2> QED BY <2>1, <2>3
<1> QED BY <1>1, <1>2

\* A thread with nothing in hand takes a result: all others stay where they are.
LEMMA PopKeeps ==
  ASSUME Types, Kept, NEW a \in Apps, task[a] \notin Tasks, NEW q \in Queues,
         PopResult(a, q), UNCHANGED <<wtask, pool, tasks>>
  PROVE  Kept'
<1> DEFINE h == Head(completed[q])
<1>1. /\ completed[q] # <<>> /\ completed[q] \in Seq(Tasks)
      /\ task' = [task EXCEPT ![a] = h]
      /\ completed' = [completed EXCEPT ![q] = Tail(completed[q])]
  BY DEF PopResult, Types
<1>2. \A x : In(x, completed[q]) => x = h \/ In(x, Tail(completed[q]))
  BY <1>1, TakeFirst
<1> HIDE DEF h
<1>3. task'[a] = h /\ \A b \in Apps : b # a => task'[b] = task[b]
  BY <1>1 DEF Types
<1>4. \A k \in Queues : completed'[k] = IF k = q THEN Tail(completed[q]) ELSE completed[k]
  BY <1>1 DEF Types
<1>5. ASSUME NEW t \in Tasks, Live(t, tasks)
      PROVE  ~Nowhere(t, task', wtask, pool, completed')
  <2>1. Somewhere(t)
    BY <1>5 DEF Kept
  <2> QED BY <1>2, <1>3, <1>4, <2>1, Somewheres DEF Nowhere
<1> QED BY <1>5 DEF Kept, Somewhere

\* Nothing is started at first.
LEMMA KeptInit ==
  ASSUME Init
  PROVE  Kept
BY TaskFacts DEF Init, Kept, Live

\* No step loses a task.
LEMMA KeptStep ==
  ASSUME TypeInv, TaskInv, FileInv, Kept, [Next]_vars
  PROVE  Kept'
<1> USE TaskFacts DEF TypeInv
<1>0. /\ FilesKept
      /\ \A t \in Tasks : Live(t, tasks) => queue[t] \in Queues
  BY DEF FileInv, FilesKept
<1>00. ASSUME UNCHANGED <<task, wtask, pool, completed, tasks>>
       PROVE  Kept'
  BY <1>00 DEF Kept, Somewhere
<1>1. ASSUME NEW a \in Apps, NEW q \in Queues, CreateAsyncIOQueue(a, q)
      PROVE  Kept'
  BY <1>00, <1>1, PrepareTypes DEF CreateAsyncIOQueue, fileVars, callVars
<1>2. ASSUME NEW a \in Apps, NEW q \in Queues, WaitAsyncIOResult(a, q)
      PROVE  Kept'
  <2>1. UNCHANGED <<wtask, pool, tasks>> /\ task[a] \notin Tasks
    BY <1>2 DEF WaitAsyncIOResult, HandsKept, fileVars, poolVars
  <2>2. PopResult(a, q) \/ UNCHANGED <<task, completed>>
    BY <1>2 DEF WaitAsyncIOResult, SleepOn
  <2> QED BY <1>00, <2>1, <2>2, PopKeeps
<1>3. ASSUME NEW a \in Apps, NEW q \in Queues, DestroyAsyncIOQueue(a, q)
      PROVE  Kept'
  BY <1>00, <1>3 DEF DestroyAsyncIOQueue, fileVars, poolVars
<1>4. ASSUME NEW a \in Apps, NEW f \in Files, NEW q \in Queues, RequestAsyncIO(a, f, q)
      PROVE  Kept'
  <2> DEFINE t == <<f, next_io[f] + 1>>
  <2>1. next_io'[f] = next_io[f] + 1
    BY <1>4 DEF RequestAsyncIO, Types
  <2>2. /\ tasks' = [tasks EXCEPT ![f] = @ \cup {t}]
        /\ task' = [task EXCEPT ![a] = t]
        /\ UNCHANGED <<wtask, pool, completed>>
        /\ task[a] \notin Tasks
    BY <1>4, <2>1 DEF RequestAsyncIO, Start, HandsKept, poolVars
  <2> HIDE DEF t
  <2>3. \A x \in Tasks : Live(x, tasks') => x = t \/ Live(x, tasks)
    BY <2>2 DEF Live, Types
  <2>4. task'[a] = t /\ \A b \in Apps : b # a => task'[b] = task[b]
    BY <2>2 DEF Types
  <2>5. ASSUME NEW x \in Tasks, Live(x, tasks')
        PROVE  ~Nowhere(x, task', wtask, pool, completed)
    BY <2>2, <2>3, <2>4, <2>5 DEF Kept, Somewhere, Nowhere
  <2> QED BY <2>2, <2>5 DEF Kept, Somewhere
<1>5. ASSUME NEW a \in Apps, NEW f \in Files, NEW q \in Queues, CloseAsyncIO(a, f, q)
      PROVE  Kept'
  <2> DEFINE t == CloseOf(f)
  <2>1. UNCHANGED <<wtask, pool, completed>> /\ task[a] \notin Tasks
    BY <1>5 DEF CloseAsyncIO, HandsKept, poolVars
  <2>2. CASE /\ tasks' = [tasks EXCEPT ![f] = @ \cup {t}]
             /\ task' = [task EXCEPT ![a] = t]
    <3> HIDE DEF t
    <3>3. \A x \in Tasks : Live(x, tasks') => x = t \/ Live(x, tasks)
      BY <2>2 DEF Live, Types
    <3>4. task'[a] = t /\ \A b \in Apps : b # a => task'[b] = task[b]
      BY <2>2 DEF Types
    <3>5. ASSUME NEW x \in Tasks, Live(x, tasks')
          PROVE  ~Nowhere(x, task', wtask, pool, completed)
      BY <2>1, <3>3, <3>4, <3>5 DEF Kept, Somewhere, Nowhere
    <3> QED BY <2>1, <3>5 DEF Kept, Somewhere
  <2>3. CASE UNCHANGED <<tasks, task>>
    BY <1>00, <2>1, <2>3
  <2> QED BY <1>5, <2>2, <2>3 DEF CloseAsyncIO, Start
<1>6. ASSUME NEW a \in Apps, NEW f \in Files, AsyncIOFromFile(a, f)
      PROVE  Kept'
  BY <1>00, <1>6, PrepareTypes DEF AsyncIOFromFile, callVars
<1>7. ASSUME NEW a \in Apps, ShutdownThreadpool(a)
      PROVE  Kept'
  BY <1>00, <1>7 DEF ShutdownThreadpool, fileVars, callVars
<1>8. ASSUME NEW a \in Apps, StartTask(a)
      PROVE  Kept'
  <2> DEFINE t == task[a]
  <2>1. /\ QueueAsyncIOTask(t, Move(a, "idle"))
        /\ t \in Tasks /\ queue[t] \in Queues
        /\ tasks' = tasks /\ task' = [task EXCEPT ![a] = None]
    BY <1>0, <1>8 DEF StartTask, HandsKept, TaskInv, Placed, Underway, fileVars
  <2>2. \A b \in Apps : b # a => task'[b] = task[b]
    BY <2>1 DEF Types
  <2>3. /\ In(t, pool') \/ In(t, completed'[queue[t]])
        /\ \A x : In(x, pool) => In(x, pool')
        /\ \A x, q : q \in Queues /\ In(x, completed[q]) => In(x, completed'[q])
        /\ wtask' = wtask
    BY <2>1, QueueKeeps
  <2>4. ASSUME NEW x \in Tasks, Live(x, tasks)
        PROVE  ~Nowhere(x, task', wtask', pool', completed')
    <3>1. Somewhere(x)
      BY <2>4 DEF Kept
    <3> QED BY <2>1, <2>2, <2>3, <3>1, Somewheres DEF Nowhere
  <2> QED BY <2>1, <2>4 DEF Kept, Somewhere
<1>9. ASSUME NEW a \in Apps, WaitReturns(a)
      PROVE  Kept'
  <2>1. UNCHANGED <<wtask, pool, tasks>> /\ task[a] \notin Tasks
    BY <1>9 DEF WaitReturns, HandsKept, fileVars, poolVars
  <2>2. PopResult(a, at[a]) \/ UNCHANGED <<task, completed>>
    BY <1>9 DEF WaitReturns
  <2>3. at[a] \in Queues
    BY <1>9 DEF WaitReturns, Types
  <2> QED BY <1>00, <2>1, <2>2, <2>3, PopKeeps
<1>10. ASSUME NEW a \in Apps, TaskOutcome(a)
       PROVE  Kept'
  <2> DEFINE t == task[a]
             f == FileOf(t)
             c == CloseOf(f)
  <2>1. t \in Tasks /\ f \in Files /\ c \in Tasks /\ FileOf(c) = f
    BY <1>10 DEF TaskOutcome, HandsKept
  <2>2. task' = [task EXCEPT ![a] = None]
    BY <1>10 DEF TaskOutcome
  <2>3. \A b \in Apps : b # a => task'[b] = task[b]
    BY <2>2 DEF Types
  <2>4. CASE Due(f, t)
    <3>1. /\ tasks' = [tasks EXCEPT ![f] = {c}]
          /\ QueueAsyncIOTask(c, Move(a, After(a)))
          /\ tasks[f] = {t} /\ f \in closing
      BY <1>10, <2>4 DEF TaskOutcome, Due
    <3>2. queue[c] \in Queues
      BY <1>0, <3>1 DEF FilesKept
    <3>3. /\ In(c, pool') \/ In(c, completed'[queue[c]])
          /\ \A x : In(x, pool) => In(x, pool')
          /\ \A x, q : q \in Queues /\ In(x, completed[q]) => In(x, completed'[q])
          /\ wtask' = wtask
      BY <2>1, <3>1, <3>2, QueueKeeps
    <3> HIDE DEF t, f, c
    <3>4. \A x \in Tasks : Live(x, tasks') => x = c \/ (Live(x, tasks) /\ FileOf(x) # f)
      BY <2>1, <3>1 DEF Live, Types
    <3>5. FileOf(t) = f
      BY DEF f
    <3>6. ASSUME NEW x \in Tasks, Live(x, tasks')
          PROVE  ~Nowhere(x, task', wtask', pool', completed')
      <4>1. CASE x = c
        BY <3>2, <3>3, <4>1 DEF Nowhere
      <4>2. CASE Live(x, tasks) /\ x # t
        <5>1. Somewhere(x)
          BY <4>2 DEF Kept
        <5> QED BY <2>3, <3>3, <4>2, <5>1, Somewheres DEF Nowhere, t
      <4> QED BY <3>4, <3>5, <3>6, <4>1, <4>2
    <3> QED BY <3>6 DEF Kept, Somewhere
  <2>5. CASE ~Due(f, t)
    <3>1. /\ tasks' = [tasks EXCEPT ![f] = @ \ {t}]
          /\ UNCHANGED <<completed, pool, wtask>>
      BY <1>10, <2>5 DEF TaskOutcome, poolVars
    <3>2. FileOf(t) = f
      OBVIOUS
    <3> HIDE DEF f, c, t
    <3>3. \A x \in Tasks : Live(x, tasks') => Live(x, tasks) /\ x # t
      BY <2>1, <3>1, <3>2 DEF Live, Types
    <3>4. ASSUME NEW x \in Tasks, Live(x, tasks')
          PROVE  ~Nowhere(x, task', wtask, pool, completed)
      <4>1. Somewhere(x) /\ x # t
        BY <3>3, <3>4 DEF Kept
      <4> QED BY <2>3, <4>1, Somewheres DEF Nowhere, t
    <3> QED BY <3>1, <3>4 DEF Kept, Somewhere
  <2> QED BY <2>4, <2>5
<1>11. ASSUME NEW a \in Apps, DestroyLoop(a)
       PROVE  Kept'
  <2>1. UNCHANGED <<wtask, pool, tasks>> /\ task[a] \notin Tasks /\ at[a] \in Queues
    BY <1>11 DEF DestroyLoop, HandsKept, fileVars, poolVars
  <2>2. PopResult(a, at[a]) \/ UNCHANGED <<task, completed>>
    BY <1>11 DEF DestroyLoop, SleepOn
  <2> QED BY <1>00, <2>1, <2>2, PopKeeps
<1>12. ASSUME NEW a \in Apps, CancelLoop(a)
       PROVE  Kept'
  <2>0. UNCHANGED <<task, wtask, tasks>>
    BY <1>12 DEF CancelLoop, fileVars, callVars
  <2>1. CASE pool # <<>>
    <3> DEFINE t == Head(pool)
    <3>1. /\ pool \in Seq(Tasks) /\ pool' = Tail(pool)
          /\ AsyncIOTaskComplete(t, pc)
      BY <1>12, <2>1 DEF CancelLoop, Types
    <3>2. /\ t \in Tasks /\ In(t, pool)
          /\ \A x : In(x, pool) => x = t \/ In(x, pool')
      BY <2>1, <3>1, TakeFirst
    <3> HIDE DEF t
    <3>3. queue[t] \in Queues
      BY <1>0, <3>2 DEF TaskInv, Placed, Underway
    <3>4. /\ In(t, completed'[queue[t]])
          /\ \A x, q : q \in Queues /\ In(x, completed[q]) => In(x, completed'[q])
      BY <3>1, <3>2, <3>3, CompleteKeeps
    <3>5. ASSUME NEW x \in Tasks, Live(x, tasks)
          PROVE  ~Nowhere(x, task, wtask, pool', completed')
      <4>1. Somewhere(x)
        BY <3>5 DEF Kept
      <4> QED BY <3>2, <3>3, <3>4, <4>1, Somewheres DEF Nowhere
    <3> QED BY <2>0, <3>5 DEF Kept, Somewhere
  <2>2. CASE pool = <<>>
    BY <1>00, <1>12, <2>0, <2>2 DEF CancelLoop
  <2> QED BY <2>1, <2>2
<1>13. ASSUME NEW a \in Apps, QuitLoop(a)
       PROVE  Kept'
  BY <1>00, <1>13 DEF QuitLoop, fileVars, callVars
<1>14. ASSUME NEW a \in Apps, WaitTimesOut(a)
       PROVE  Kept'
  BY <1>00, <1>14 DEF WaitTimesOut, fileVars, callVars, poolVars
<1>15. ASSUME NEW q \in Queues, SignalAsyncIOQueue(q)
       PROVE  Kept'
  BY <1>00, <1>15 DEF SignalAsyncIOQueue, fileVars, callVars, poolVars
<1>16. ASSUME NEW w \in Workers, WorkerRuns(w)
       PROVE  Kept'
  <2>0. UNCHANGED <<task, completed, tasks>>
    BY <1>16 DEF WorkerRuns, fileVars, callVars
  <2>1. wtask[w] \notin Tasks
    BY <1>16 DEF WorkerRuns, HandsKept
  <2>2. \/ UNCHANGED <<pool, wtask>>
        \/ /\ pool # <<>>
           /\ wtask' = [wtask EXCEPT ![w] = Head(pool)]
           /\ pool' = Tail(pool)
    BY <1>16 DEF WorkerRuns, WorkerLoop, WorkerExits
  <2>3. CASE /\ pool # <<>>
             /\ wtask' = [wtask EXCEPT ![w] = Head(pool)]
             /\ pool' = Tail(pool)
    <3> DEFINE t == Head(pool)
    <3>1. pool \in Seq(Tasks)
      BY DEF Types
    <3>2. \A x : In(x, pool) => x = t \/ In(x, pool')
      BY <2>3, <3>1, TakeFirst
    <3>3. wtask'[w] = t /\ \A v \in Workers : v # w => wtask'[v] = wtask[v]
      BY <2>3 DEF Types
    <3> HIDE DEF t
    <3>4. ASSUME NEW x \in Tasks, Live(x, tasks)
          PROVE  ~Nowhere(x, task, wtask', pool', completed)
      <4>1. Somewhere(x)
        BY <3>4 DEF Kept
      <4> QED BY <2>1, <3>2, <3>3, <4>1, Somewheres DEF Nowhere
    <3> QED BY <2>0, <3>4 DEF Kept, Somewhere
  <2> QED BY <1>00, <2>0, <2>2, <2>3
<1>17. ASSUME NEW w \in Workers, SynchronousIO(w)
       PROVE  Kept'
  <2> DEFINE t == wtask[w]
  <2>1. /\ t \in Tasks /\ queue[t] \in Queues
        /\ wtask' = [wtask EXCEPT ![w] = None]
        /\ AsyncIOTaskComplete(t, pc)
        /\ UNCHANGED <<task, pool, tasks>>
    BY <1>0, <1>17 DEF SynchronousIO, HandsKept, TaskInv, Placed, Underway, fileVars,
       callVars
  <2>2. \A v \in Workers : v # w => wtask'[v] = wtask[v]
    BY <2>1 DEF Types
  <2>3. /\ In(t, completed'[queue[t]])
        /\ \A x, q : q \in Queues /\ In(x, completed[q]) => In(x, completed'[q])
    BY <2>1, CompleteKeeps
  <2>4. ASSUME NEW x \in Tasks, Live(x, tasks)
        PROVE  ~Nowhere(x, task, wtask', pool, completed')
    <3>1. Somewhere(x)
      BY <2>4 DEF Kept
    <3> QED BY <2>1, <2>2, <2>3, <3>1, Somewheres DEF Nowhere
  <2> QED BY <2>1, <2>4 DEF Kept, Somewhere
<1>18. ASSUME NEW w \in Workers, WorkerTimesOut(w)
       PROVE  Kept'
  BY <1>00, <1>18 DEF WorkerTimesOut, fileVars, callVars
<1>19. CASE UNCHANGED vars
  BY <1>00, <1>19 DEF vars, fileVars, callVars, poolVars
<1> QED
  BY <1>1, <1>2, <1>3, <1>4, <1>5, <1>6, <1>7, <1>8, <1>9, <1>10, <1>11, <1>12,
     <1>13, <1>14, <1>15, <1>16, <1>17, <1>18, <1>19 DEF Next, App, Call, Worker

\* A task that is somewhere, and in no two places, is in one.
LEMMA OnePlaceOnly ==
  ASSUME Kept, Placed(task, wtask, pool, completed, tasks, queue),
         NEW t \in Tasks, Live(t, tasks)
  PROVE  Cardinality(Places(t)) = 1
<1> DEFINE A == {<<"thread", a>> : a \in {b \in Apps : task[b] = t}}
           W == {<<"worker", w>> : w \in {v \in Workers : wtask[v] = t}}
           P == {<<"pool", i>> : i \in Positions(t, pool)}
           Q == UNION {{<<"queue", q, i>> : i \in Positions(t, completed[q])} : q \in Queues}
<1>0. Places(t) = A \cup W \cup P \cup Q
  BY DEF Places
<1>1. /\ DOMAIN pool = 1 .. Len(pool)
      /\ \A q \in Queues : DOMAIN completed[q] = 1 .. Len(completed[q])
  BY DEF Placed, HandTypes
<1>2. Somewhere(t)
  BY DEF Kept
<1>3. /\ A # {} => \E a \in Apps : task[a] = t
      /\ W # {} => \E w \in Workers : wtask[w] = t
      /\ P # {} => In(t, pool)
      /\ Q # {} => \E q \in Queues : In(t, completed[q])
  BY <1>1 DEF In, Positions
<1>4. \E p : Places(t) = {p}
  <2>1. ASSUME NEW a \in Apps, task[a] = t
        PROVE  Places(t) = {<<"thread", a>>}
    <3>1. A = {<<"thread", a>>}
      BY <2>1 DEF Placed, Apart
    <3>2. W = {} /\ P = {} /\ Q = {}
      <4>1. /\ ~\E w \in Workers : wtask[w] = t
            /\ ~In(t, pool) /\ \A q \in Queues : ~In(t, completed[q])
        BY <2>1 DEF Placed, Apart
      <4> HIDE DEF W, P, Q
      <4> QED BY <1>3, <4>1
    <3> HIDE DEF A, W, P, Q
    <3> QED BY <1>0, <3>1, <3>2
  <2>2. ASSUME NEW w \in Workers, wtask[w] = t
        PROVE  Places(t) = {<<"worker", w>>}
    <3>1. W = {<<"worker", w>>}
      BY <2>2 DEF Placed, Apart
    <3>2. A = {} /\ P = {} /\ Q = {}
      <4>1. /\ ~\E a \in Apps : task[a] = t
            /\ ~In(t, pool) /\ \A q \in Queues : ~In(t, completed[q])
        BY <2>2 DEF Placed, Apart
      <4> HIDE DEF A, P, Q
      <4> QED BY <1>3, <4>1
    <3> HIDE DEF A, W, P, Q
    <3> QED BY <1>0, <3>1, <3>2
  <2>3. ASSUME NEW i \in 1 .. Len(pool), pool[i] = t
        PROVE  Places(t) = {<<"pool", i>>}
    <3>0. In(t, pool) /\ Distinct(pool)
      BY <2>3 DEF In, Placed, Apart
    <3>1. Positions(t, pool) = {i}
      BY <1>1, <2>3, <3>0 DEF Positions, Distinct
    <3>2. P = {<<"pool", i>>}
      BY <3>1
    <3>3. A = {} /\ W = {} /\ Q = {}
      <4>1. /\ ~\E a \in Apps : task[a] = t
            /\ ~\E w \in Workers : wtask[w] = t
            /\ \A q \in Queues : ~In(t, completed[q])
        BY <3>0 DEF Placed, Apart
      <4> HIDE DEF A, W, Q
      <4> QED BY <1>3, <4>1
    <3> HIDE DEF A, W, P, Q
    <3> QED BY <1>0, <3>2, <3>3
  <2>4. ASSUME NEW q \in Queues, NEW i \in 1 .. Len(completed[q]), completed[q][i] = t
        PROVE  Places(t) = {<<"queue", q, i>>}
    <3>0. In(t, completed[q]) /\ Distinct(completed[q])
      BY <2>4 DEF In, Placed, Apart
    <3>1. Positions(t, completed[q]) = {i}
      BY <1>1, <2>4, <3>0 DEF Positions, Distinct
    <3>2. \A k \in Queues : k # q => Positions(t, completed[k]) = {}
      <4>1. \A k \in Queues : In(t, completed[k]) => queue[t] = k
        BY DEF Placed, Underway
      <4>2. \A k \in Queues : k # q => ~In(t, completed[k])
        BY <3>0, <4>1
      <4> QED BY <1>1, <4>2 DEF Positions, In
    <3>3. Q = {<<"queue", q, i>>}
      BY <3>1, <3>2
    <3>4. A = {} /\ W = {} /\ P = {}
      <4>1. /\ ~\E a \in Apps : task[a] = t
            /\ ~\E w \in Workers : wtask[w] = t
            /\ ~In(t, pool)
        BY <3>0 DEF Placed, Apart
      <4> HIDE DEF A, W, P
      <4> QED BY <1>3, <4>1
    <3> HIDE DEF A, W, P, Q
    <3> QED BY <1>0, <3>3, <3>4
  <2> HIDE DEF A, W, P, Q
  <2> QED BY <1>2, <2>1, <2>2, <2>3, <2>4, Somewheres DEF In
<1> HIDE DEF A, W, P, Q
<1> QED BY <1>4, FS_Singleton

-------------------------------------------------------------------------------
(* Theorems *)

AsyncIOInv == TypeInv /\ TaskInv /\ FileInv /\ QuitInv /\ PoolInv

\* What the theorems rest on holds in every state the program can be in.
LEMMA Always == Spec => []AsyncIOInv
<1>1. Init => AsyncIOInv
  BY TypeInit, TaskInit, FileInit, QuitInit, PoolInit DEF AsyncIOInv
<1>2. AsyncIOInv /\ [Next]_vars => AsyncIOInv'
  BY TypeStep, TaskStep, FileStep, QuitStep, PoolStep DEF AsyncIOInv
<1> QED BY <1>1, <1>2, PTL DEF Spec

\* Every variable keeps its type.  tasks_inflight never passes the number of
\* tasks, nor falls below zero (it counts the tasks that name the queue), and
\* the two counts of the pool's threads are what the threads say.
THEOREM TypeCorrect == Spec => []TypeOK
<1>1. AsyncIOInv => TypeOK
  <2> SUFFICES ASSUME AsyncIOInv
               PROVE  TypeOK
    OBVIOUS
  <2>1. Types
    BY DEF AsyncIOInv, TypeInv
  <2>2. \A q \in Queues : inflight[q] \in 0 .. Cardinality(Tasks)
    BY NamingIsFinite DEF AsyncIOInv, FileInv, InflightCounts
  <2>3. inflight \in [Queues -> 0 .. Cardinality(Tasks)]
    BY <2>1, <2>2 DEF Types
  <2>4. /\ running = Cardinality({w \in Workers : wpc[w] # "none"})
        /\ idle = Cardinality({w \in Workers : wpc[w] \in {"idle", "woken", "timedout"}})
    BY DEF AsyncIOInv, PoolInv, Running, Idle
  <2> QED BY <2>1, <2>3, <2>4 DEF Types, TypeOK, Labels
<1> QED BY <1>1, Always, PTL

\* From its start until its result is taken a task is in one place: with the
\* thread that starts it or has its result, in the pool, with a worker, or on the
\* list of the queue it names.  None is lost, and no result comes twice.
THEOREM EachTaskInOnePlace == Spec => []OnePlace
<1>1. Init => Kept
  BY KeptInit
<1>2. AsyncIOInv /\ Kept /\ [Next]_vars => Kept'
  BY KeptStep DEF AsyncIOInv
<1>3. AsyncIOInv /\ Kept => OnePlace
  <2> SUFFICES ASSUME AsyncIOInv, Kept, NEW f \in Files, NEW t \in tasks[f]
               PROVE  Cardinality(Places(t)) = 1
    BY DEF OnePlace
  <2>1. t \in Tasks /\ Live(t, tasks)
    BY DEF AsyncIOInv, TypeInv, Types, TaskInv, FileTasks, Live
  <2> QED BY <2>1, OnePlaceOnly DEF AsyncIOInv, TaskInv
<1> QED BY <1>1, <1>2, <1>3, Always, PTL DEF Spec

\* A task whose result was taken, and which was freed, is nowhere: no list, worker
\* or thread has it.
THEOREM TakenTasksAreGone ==
  Spec => [](\A t \in Tasks : ~Live(t, tasks) => Nowhere(t, task, wtask, pool, completed))
<1>1. AsyncIOInv => \A t \in Tasks :
                      ~Live(t, tasks) => Nowhere(t, task, wtask, pool, completed)
  BY NotLive DEF AsyncIOInv, TaskInv
<1> QED BY <1>1, Always, PTL

\* A worker that closes a file finds every other task of it taken.
THEOREM CloseComesLast == Spec => []CloseIsLast
<1>1. AsyncIOInv => CloseIsLast
  <2> SUFFICES ASSUME AsyncIOInv, NEW w \in Workers, NEW f \in Files,
                      wtask[w] = CloseOf(f)
               PROVE  tasks[f] = {CloseOf(f)}
    BY DEF CloseIsLast
  <2>1. CloseOf(f) \in Tasks /\ FileOf(CloseOf(f)) = f
    BY TaskFacts
  <2>2. Live(CloseOf(f), tasks)
    BY <2>1 DEF AsyncIOInv, TaskInv, Placed, Underway
  <2> QED BY <2>1, <2>2 DEF Live, AsyncIOInv, TaskInv, FileTasks
<1> QED BY <1>1, Always, PTL

\* A close that was asked for is never forgotten: the file stays in memory with
\* a task that leads to its close, until that is taken.
THEOREM ClosesAreKept == Spec => []CloseNotForgotten
<1>1. AsyncIOInv => CloseNotForgotten
  BY DEF AsyncIOInv, FileInv, FilesKept
<1> QED BY <1>1, Always, PTL

\* A task in the pool has a worker that will come to it, though threads cannot
\* be had and idle ones leave: the worker that leaves is never the last.
THEOREM PoolKeepsServing == Spec => []PoolServes
<1>1. AsyncIOInv => PoolServes
  BY DEF AsyncIOInv, PoolInv, PoolServes, Running, TypeInv, Types
<1> QED BY <1>1, Always, PTL

\* No thread sleeps in SDL_WaitAsyncIOResult while results wait for it.
THEOREM ResultsFindThreads == Spec => []NoLostWakeup
<1>1. Init => NoLostWakeup
  BY WakeInit
<1>2. AsyncIOInv /\ NoLostWakeup /\ [Next]_vars => NoLostWakeup'
  BY WakeStep DEF AsyncIOInv
<1> QED BY <1>1, <1>2, Always, PTL DEF Spec

\* SDL_DestroyAsyncIOQueue frees a queue when no task names it, nor a close that
\* waits for its turn, if no queue is destroyed that such a close will need.
THEOREM QueuesOutliveTasks == Careful => (Spec => []QueueOutlivesTasks)
<1> SUFFICES ASSUME Careful
             PROVE  Spec => []QueueOutlivesTasks
  OBVIOUS
<1>1. Init => DestroyInv /\ LifeInv
  BY DestroyInit, LifeInit
<1>2. AsyncIOInv /\ DestroyInv /\ LifeInv /\ [Next]_vars => DestroyInv' /\ LifeInv'
  BY DestroyStep, LifeStep DEF AsyncIOInv
<1>3. AsyncIOInv /\ LifeInv => QueueOutlivesTasks
  <2> SUFFICES ASSUME AsyncIOInv, LifeInv, NEW q \in Queues \ queues
               PROVE  Named(q) = {}
    BY DEF QueueOutlivesTasks
  <2>1. files \cap closing \subseteq Files
    BY DEF AsyncIOInv, TypeInv, Types
  <2>2. \A f \in Files : \A t \in tasks[f] : queue[t] # q
    BY DEF LifeInv
  <2>3. \A f \in files \cap closing : queue[CloseOf(f)] # q
    BY DEF LifeInv
  <2> QED BY <2>1, <2>2, <2>3 DEF Named
<1> QED BY <1>1, <1>2, <1>3, Always, PTL DEF Spec

================================================================================
