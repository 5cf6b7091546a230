-------------------------------- MODULE AsyncIO --------------------------------
(***************************************************************************)
(* Asynchronous I/O (SDL_asyncio.c) on the generic backend, a thread pool  *)
(* that blocks in synchronous I/O (generic/SDL_asyncio_generic.c).  The    *)
(* application's threads start tasks on files, and take their results from *)
(* the queues they named.  Closing a file is a task too, put off until the *)
(* file's other tasks have had their results taken.                        *)
(*                                                                         *)
(* A step is what happens under one lock.  The locks nest in one order: a  *)
(* file's, the pool's, a queue's.                                          *)
(***************************************************************************)
EXTENDS Integers, Sequences, FiniteSets

CONSTANTS
  Apps,       \* the application's threads
  Workers,    \* as many threads as max_threadpool_threads
  Files,      \* SDL_AsyncIO objects
  Queues,     \* SDL_AsyncIOQueue objects
  MaxIO,      \* bound: reads and writes per file
  None,
  Faults,     \* what may fail: "thread", the creation of one more worker
  Careful     \* no queue is destroyed that a close waiting for its turn names

\* A file's tasks: its reads and writes, and 0 for its close.
Tasks == Files \X (0 .. MaxIO)

ASSUME AsyncIOAssumption ==
  /\ None \notin Apps \cup Workers \cup Files \cup Queues \cup Tasks
  /\ IsFiniteSet(Apps) /\ IsFiniteSet(Workers) /\ IsFiniteSet(Files)
  /\ Workers # {}
  /\ MaxIO \in Nat
  /\ Faults \subseteq {"thread"}
  /\ Careful \in BOOLEAN

FileOf(t) == t[1]
CloseOf(f) == <<f, 0>>

VARIABLES
  files,      \* the files in memory
  opened,     \* history: the files ever opened
  tasks,      \* asyncio->tasks: those started and not yet taken
  closing,    \* the files with asyncio->closing set
  next_io,    \* how many reads and writes a file has had
  queue,      \* task->queue
  queues,     \* the queues in memory
  made,       \* history: the queues ever created
  dying,      \* the queues SDL_DestroyAsyncIOQueue has been called with
  inflight,   \* queue->tasks_inflight
  completed,  \* completed_tasks, last one first
  pc,         \* where a thread of the application is in a call
  task,       \* the task it starts, or whose result it takes
  at,         \* the queue it takes results from
  status,     \* threadpool_init.status
  stop,       \* stop_threadpool
  pool,       \* threadpool_tasks, last one first
  running,    \* running_threadpool_threads
  idle,       \* idle_threadpool_threads
  wpc,        \* where a thread of the pool is
  wtask       \* the task it runs

fileVars == <<files, opened, tasks, closing, next_io, queue>>
lifeVars == <<queues, made, dying>>
callVars == <<task, at>>
poolVars == <<status, stop, pool, running, idle, wpc, wtask>>
vars == <<fileVars, lifeVars, inflight, completed, pc, callVars, poolVars>>

TypeOK ==
  /\ files \subseteq opened /\ closing \subseteq opened /\ opened \subseteq Files
  /\ tasks \in [Files -> SUBSET Tasks]
  /\ next_io \in [Files -> 0 .. MaxIO]
  /\ queue \in [Tasks -> Queues \cup {None}]
  /\ dying \subseteq queues /\ queues \subseteq made /\ made \subseteq Queues
  /\ inflight \in [Queues -> 0 .. Cardinality(Tasks)]
  /\ completed \in [Queues -> Seq(Tasks)]
  /\ pc \in [Apps -> {"idle", "start", "asleep", "woken", "outcome", "destroy",
                     "cancel"}]
  /\ task \in [Apps -> Tasks \cup {None}]
  /\ at \in [Apps -> Queues \cup {None}]
  /\ status \in {"uninitialized", "initialized", "uninitializing"}
  /\ stop \in BOOLEAN
  /\ pool \in Seq(Tasks)
  /\ running = Cardinality({w \in Workers : wpc[w] # "none"})
  /\ idle = Cardinality({w \in Workers : wpc[w] \in {"idle", "woken", "timedout"}})
  /\ wpc \in [Workers -> {"none", "top", "idle", "woken", "timedout", "io"}]
  /\ wtask \in [Workers -> Tasks \cup {None}]

Init ==
  /\ files = {} /\ opened = {} /\ closing = {}
  /\ tasks = [f \in Files |-> {}]
  /\ next_io = [f \in Files |-> 0]
  /\ queue = [t \in Tasks |-> None]
  /\ queues = {} /\ made = {} /\ dying = {}
  /\ inflight = [q \in Queues |-> 0]
  /\ completed = [q \in Queues |-> <<>>]
  /\ pc = [a \in Apps |-> "idle"]
  /\ task = [a \in Apps |-> None] /\ at = [a \in Apps |-> None]
  /\ status = "uninitialized" /\ stop = FALSE /\ pool = <<>>
  /\ running = 0 /\ idle = 0
  /\ wpc = [w \in Workers |-> "none"] /\ wtask = [w \in Workers |-> None]

Move(a, label) == [pc EXCEPT ![a] = label]

-------------------------------------------------------------------------------
(* Condition variables.  A sleeping call is woken, then takes the lock. *)

Sleepers(q) == {a \in Apps : pc[a] = "asleep" /\ at[a] = q}
Quitters == Sleepers(None)  \* asleep in ShutdownThreadpool

Woken(p, S) == [a \in Apps |-> IF a \in S THEN "woken" ELSE p[a]]

\* SDL_SignalCondition on a queue: the sets of sleepers that it may wake.
OnlyWhenEmpty(q) ==  \* mutant
  IF completed[q] = <<>> /\ Sleepers(q) # {} THEN {{a} : a \in Sleepers(q)} ELSE {{}}
SignalledOn(q) == IF Sleepers(q) # {} THEN {{a} : a \in Sleepers(q)} ELSE {{}}

\* The caller has moved to pc p.
AsyncIOTaskComplete(t, p) ==
  /\ completed' = [completed EXCEPT ![queue[t]] = <<t>> \o @]
  /\ \E S \in SignalledOn(queue[t]) : pc' = Woken(p, S)

\* SDL_BroadcastCondition(threadpool_condition)
NoWorkerWoken == wpc  \* mutant
WorkersWoken == [w \in Workers |-> IF wpc[w] = "idle" THEN "woken" ELSE wpc[w]]

-------------------------------------------------------------------------------
(* The thread pool *)

\* threadpool_lock is held over more than one step by whoever cancels its tasks.
LockIsFree == \A a \in Apps : pc[a] # "cancel"

\* The workers MaybeSpinNewWorkerThread creates when at most n may run.
NeedsWorker(n) == idle = 0 /\ running < n

NewWorkers(n) ==
  IF NeedsWorker(n)
  THEN {{w} : w \in {v \in Workers : wpc[v] = "none"}}
         \cup (IF "thread" \in Faults THEN {{}} ELSE {})
  ELSE {{}}

CountedAnyway(W) == running' = running + (IF idle = 0 THEN 1 ELSE 0)  \* mutant
Spin(W) == running' = running + Cardinality(W)

\* max_threadpool_threads, which is reset with the pool.
MaxThreads == IF status = "initialized" THEN Cardinality(Workers) ELSE 0

\* Whoever needs the pool while it shuts down waits, and starts it again.
PrepareThreadpool ==
  \/ status = "initialized" /\ UNCHANGED poolVars
  \/ /\ status = "uninitialized"
     /\ status' = "initialized"
     /\ \E W \in NewWorkers(Cardinality(Workers)) :
          /\ W # {}  \* else the call fails, and nothing has changed
          /\ Spin(W)
          /\ wpc' = [w \in Workers |-> IF w \in W THEN "top" ELSE wpc[w]]
     /\ UNCHANGED <<stop, pool, idle, wtask>>

\* The caller has moved to pc p.
QueueAsyncIOTask(t, p) ==
  /\ LockIsFree
  /\ \/ /\ stop
        /\ AsyncIOTaskComplete(t, p)  \* canceled
        /\ UNCHANGED poolVars
     \/ /\ ~stop
        /\ pool' = <<t>> \o pool
        /\ \E W \in NewWorkers(MaxThreads) :
             /\ Spin(W)
             /\ wpc' = [w \in Workers |-> IF w \in W THEN "top" ELSE WorkersWoken[w]]
        /\ pc' = Woken(p, Quitters)
        /\ UNCHANGED <<completed, status, stop, idle, wtask>>

\* A worker leaves; the last steps of a shutdown wait for that.
NobodyTold == pc  \* mutant
QuitterTold == Woken(pc, IF stop THEN Quitters ELSE {})

WorkerExits(w, i) ==
  /\ running' = running - 1
  /\ idle' = i
  /\ wpc' = [IF stop THEN WorkersWoken ELSE wpc EXCEPT ![w] = "none"]
  /\ pc' = QuitterTold
  /\ UNCHANGED <<pool, wtask>>

\* The top of AsyncIOThreadpoolWorker's loop, with i threads idle.
WorkerLoop(w, i) ==
  \/ stop /\ WorkerExits(w, i)
  \/ /\ ~stop
     /\ pool = <<>>
     /\ idle' = i + 1
     /\ wpc' = [wpc EXCEPT ![w] = "idle"]
     /\ UNCHANGED <<pc, pool, running, wtask>>
  \/ /\ ~stop
     /\ pool # <<>>
     /\ wtask' = [wtask EXCEPT ![w] = Head(pool)]
     /\ pool' = Tail(pool)
     /\ idle' = i
     /\ wpc' = [wpc EXCEPT ![w] = "io"]
     /\ UNCHANGED <<pc, running>>

\* Nothing came for 30 seconds: too many threads are idle if another is.
CountsItself(w) == TRUE  \* mutant: idle_threadpool_threads read before its decrement
OthersIdle(w) == idle - 1 > 0

WorkerRuns(w) ==
  /\ LockIsFree
  /\ \/ wpc[w] = "top" /\ WorkerLoop(w, idle)
     \/ wpc[w] = "woken" /\ WorkerLoop(w, idle - 1)
     \/ /\ wpc[w] = "timedout"
        /\ IF OthersIdle(w) THEN WorkerExits(w, idle - 1) ELSE WorkerLoop(w, idle - 1)
  /\ UNCHANGED <<fileVars, lifeVars, inflight, completed, callVars, status, stop>>

WorkerTimesOut(w) ==
  /\ wpc[w] = "idle"
  /\ wpc' = [wpc EXCEPT ![w] = "timedout"]
  /\ UNCHANGED <<fileVars, lifeVars, inflight, completed, pc, callVars, status, stop,
                 pool, running, idle, wtask>>

\* The reading, writing or closing ends, whatever its result.
SynchronousIO(w) ==
  /\ wpc[w] = "io"
  /\ AsyncIOTaskComplete(wtask[w], pc)
  /\ wtask' = [wtask EXCEPT ![w] = None]
  /\ wpc' = [wpc EXCEPT ![w] = "top"]
  /\ UNCHANGED <<fileVars, lifeVars, inflight, callVars, status, stop, pool, running,
                 idle>>

-------------------------------------------------------------------------------
(* Queues and files *)

CreateAsyncIOQueue(a, q) ==
  /\ pc[a] = "idle"
  /\ q \notin made
  /\ PrepareThreadpool
  /\ queues' = queues \cup {q}
  /\ made' = made \cup {q}
  /\ UNCHANGED <<fileVars, dying, inflight, completed, pc, callVars>>

AsyncIOFromFile(a, f) ==
  /\ pc[a] = "idle"
  /\ f \notin opened
  /\ PrepareThreadpool
  /\ files' = files \cup {f}
  /\ opened' = opened \cup {f}
  /\ UNCHANGED <<tasks, closing, next_io, queue, lifeVars, inflight, completed, pc,
                 callVars>>

\* The thread goes on to queue t.
Start(a, t, q) ==
  /\ inflight' = [inflight EXCEPT ![q] = @ + 1]
  /\ task' = [task EXCEPT ![a] = t]
  /\ pc' = Move(a, "start")

\* A read or a write.  A file that is closing takes no more of them.
RequestAsyncIO(a, f, q) ==
  /\ pc[a] = "idle"
  /\ f \in files \ closing
  /\ q \in queues \ dying
  /\ next_io[f] < MaxIO
  /\ next_io' = [next_io EXCEPT ![f] = @ + 1]
  /\ LET t == <<f, next_io'[f]>> IN
       /\ tasks' = [tasks EXCEPT ![f] = @ \cup {t}]
       /\ queue' = [queue EXCEPT ![t] = q]
       /\ Start(a, t, q)
  /\ UNCHANGED <<files, opened, closing, lifeVars, completed, at, poolVars>>

\* The close is queued now only if the file has no tasks.
AlwaysNow(f) == TRUE  \* mutant
NoTasks(f) == tasks[f] = {}

CloseAsyncIO(a, f, q) ==
  /\ pc[a] = "idle"
  /\ f \in files \ closing
  /\ q \in queues \ dying
  /\ closing' = closing \cup {f}
  /\ queue' = [queue EXCEPT ![CloseOf(f)] = q]
  /\ \/ /\ NoTasks(f)
        /\ tasks' = [tasks EXCEPT ![f] = @ \cup {CloseOf(f)}]
        /\ Start(a, CloseOf(f), q)
     \/ ~NoTasks(f) /\ UNCHANGED <<tasks, inflight, task, pc>>
  /\ UNCHANGED <<files, opened, next_io, lifeVars, completed, at, poolVars>>

StartTask(a) ==
  /\ pc[a] = "start"
  /\ QueueAsyncIOTask(task[a], Move(a, "idle"))
  /\ task' = [task EXCEPT ![a] = None]
  /\ UNCHANGED <<fileVars, lifeVars, inflight, at>>

-------------------------------------------------------------------------------
(* Results *)

TakesTheList(a, q) ==  \* mutant
  /\ completed[q] # <<>>
  /\ task' = [task EXCEPT ![a] = Head(completed[q])]
  /\ completed' = [completed EXCEPT ![q] = <<>>]
  /\ pc' = Move(a, "outcome")

PopResult(a, q) ==
  /\ completed[q] # <<>>
  /\ task' = [task EXCEPT ![a] = Head(completed[q])]
  /\ completed' = [completed EXCEPT ![q] = Tail(@)]
  /\ pc' = Move(a, "outcome")

SleepOn(a, q) ==
  /\ completed[q] = <<>>
  /\ pc' = Move(a, "asleep")
  /\ UNCHANGED <<task, completed>>

\* SDL_GetAsyncIOResult takes what is there, SDL_WaitAsyncIOResult may sleep.
WaitAsyncIOResult(a, q) ==
  /\ pc[a] = "idle"
  /\ q \in queues \ dying
  /\ PopResult(a, q) \/ SleepOn(a, q)
  /\ at' = [at EXCEPT ![a] = q]
  /\ UNCHANGED <<fileVars, lifeVars, inflight, poolVars>>

SignalAsyncIOQueue(q) ==
  /\ q \in queues \ dying
  /\ Sleepers(q) # {}
  /\ pc' = Woken(pc, Sleepers(q))
  /\ UNCHANGED <<fileVars, lifeVars, inflight, completed, callVars, poolVars>>

WaitTimesOut(a) ==
  /\ pc[a] = "asleep"
  /\ at[a] \in queues \ dying
  /\ pc' = Move(a, "woken")
  /\ UNCHANGED <<fileVars, lifeVars, inflight, completed, callVars, poolVars>>

\* Back to the loop of SDL_DestroyAsyncIOQueue, or to the application.
After(a) == IF at[a] \in dying THEN "destroy" ELSE "idle"
AtAfter(a) == [at EXCEPT ![a] = IF @ \in dying THEN @ ELSE None]

WaitReturns(a) ==
  /\ pc[a] = "woken"
  /\ at[a] # None
  /\ \/ PopResult(a, at[a]) /\ UNCHANGED at
     \/ /\ completed[at[a]] = <<>>
        /\ pc' = Move(a, After(a))
        /\ at' = AtAfter(a)
        /\ UNCHANGED <<task, completed>>
  /\ UNCHANGED <<fileVars, lifeVars, inflight, poolVars>>

\* It is time for a file's close: requested, and t was the last other task.
NeverDue(f, t) == FALSE                                  \* mutant
Due(f, t) == f \in closing /\ t # CloseOf(f) /\ tasks[f] = {t}

NotCounted(q) == inflight  \* mutant
Counted(q) == [inflight EXCEPT ![q] = @ + 1]

\* GetAsyncIOTaskOutcome, which frees the task, and with its close the file.
TaskOutcome(a) ==
  /\ pc[a] = "outcome"
  /\ LET t == task[a]
         f == FileOf(t)
         c == CloseOf(f)
     IN  /\ \/ /\ Due(f, t)
               /\ tasks' = [tasks EXCEPT ![f] = {c}]
               /\ inflight' = [Counted(queue[c]) EXCEPT ![queue[t]] = @ - 1]
               /\ QueueAsyncIOTask(c, Move(a, After(a)))
            \/ /\ ~Due(f, t)
               /\ tasks' = [tasks EXCEPT ![f] = @ \ {t}]
               /\ inflight' = [inflight EXCEPT ![queue[t]] = @ - 1]
               /\ pc' = Move(a, After(a))
               /\ UNCHANGED <<completed, poolVars>>
         /\ files' = IF t = c THEN files \ {f} ELSE files
  /\ at' = AtAfter(a)
  /\ task' = [task EXCEPT ![a] = None]
  /\ UNCHANGED <<opened, closing, next_io, queue, lifeVars>>

\* No other thread is in a call with q.  A careful application also waits for
\* the closes that q is named for, unless it is q's own tasks they wait for.
MayDestroy(q) ==
  /\ \A a \in Apps : at[a] # q /\ (pc[a] = "start" => queue[task[a]] # q)
  /\ Careful => \A f \in files \cap closing :
       queue[CloseOf(f)] = q => \A t \in tasks[f] : queue[t] = q

DestroyAsyncIOQueue(a, q) ==
  /\ pc[a] = "idle"
  /\ q \in queues \ dying
  /\ MayDestroy(q)
  /\ dying' = dying \cup {q}
  /\ pc' = Move(a, "destroy")
  /\ at' = [at EXCEPT ![a] = q]
  /\ UNCHANGED <<fileVars, queues, made, inflight, completed, task, poolVars>>

DestroyLoop(a) ==
  /\ pc[a] = "destroy"
  /\ LET q == at[a] IN
       \/ /\ inflight[q] > 0
          /\ PopResult(a, q) \/ SleepOn(a, q)
          /\ UNCHANGED <<queues, dying, at>>
       \/ /\ inflight[q] = 0
          /\ queues' = queues \ {q}
          /\ dying' = dying \ {q}
          /\ pc' = Move(a, "idle")
          /\ at' = [at EXCEPT ![a] = None]
          /\ UNCHANGED <<completed, task>>
  /\ UNCHANGED <<fileVars, made, inflight, poolVars>>

-------------------------------------------------------------------------------
(* SDL_QuitAsyncIO *)

ShutdownThreadpool(a) ==
  /\ pc[a] = "idle"
  /\ status = "initialized"
  /\ LockIsFree
  /\ status' = "uninitializing"
  /\ pc' = Move(a, "cancel")
  /\ UNCHANGED <<fileVars, lifeVars, inflight, completed, callVars, stop, pool, running,
                 idle, wpc, wtask>>

\* What no worker has taken is canceled, then the workers are told to leave.
CancelLoop(a) ==
  /\ pc[a] = "cancel"
  /\ \/ /\ pool # <<>>
        /\ AsyncIOTaskComplete(Head(pool), pc)
        /\ pool' = Tail(pool)
        /\ UNCHANGED <<stop, wpc>>
     \/ /\ pool = <<>>
        /\ stop' = TRUE
        /\ wpc' = WorkersWoken
        /\ pc' = Move(a, "woken")
        /\ UNCHANGED <<completed, pool>>
  /\ UNCHANGED <<fileVars, lifeVars, inflight, callVars, status, running, idle, wtask>>

QuitLoop(a) ==
  /\ pc[a] = "woken"
  /\ at[a] = None
  /\ \/ running > 0 /\ pc' = Move(a, "asleep") /\ UNCHANGED <<status, stop>>
     \/ /\ running = 0
        /\ stop' = FALSE
        /\ status' = "uninitialized"
        /\ pc' = Move(a, "idle")
  /\ UNCHANGED <<fileVars, lifeVars, inflight, completed, callVars, pool, running,
                 idle, wpc, wtask>>

-------------------------------------------------------------------------------
App(a) ==
  \/ \E q \in Queues :
       \/ CreateAsyncIOQueue(a, q) \/ WaitAsyncIOResult(a, q)
       \/ DestroyAsyncIOQueue(a, q)
       \/ \E f \in Files : RequestAsyncIO(a, f, q) \/ CloseAsyncIO(a, f, q)
  \/ \E f \in Files : AsyncIOFromFile(a, f)
  \/ ShutdownThreadpool(a)

\* The rest of a call.
Call(a) ==
  \/ StartTask(a) \/ WaitReturns(a) \/ TaskOutcome(a) \/ DestroyLoop(a)
  \/ CancelLoop(a) \/ QuitLoop(a)

Worker(w) == WorkerRuns(w) \/ SynchronousIO(w)

Next ==
  \/ \E a \in Apps : App(a) \/ Call(a) \/ WaitTimesOut(a)
  \/ \E q \in Queues : SignalAsyncIOQueue(q)
  \/ \E w \in Workers : Worker(w) \/ WorkerTimesOut(w)

Spec == Init /\ [][Next]_vars

\* Threads run, and synchronous I/O ends.  No timeout comes to the rescue.
FairSpec ==
  /\ Spec
  /\ \A a \in Apps : WF_vars(Call(a))
  /\ \A w \in Workers : WF_vars(Worker(w))

-------------------------------------------------------------------------------
(* Safety *)

\* "it's guaranteed that the close will happen after any other pending tasks":
\* a worker closes a file only when every other task of it has been taken.
CloseIsLast ==
  \A w \in Workers, f \in Files : wtask[w] = CloseOf(f) => tasks[f] = {CloseOf(f)}

\* A file asked to close always has a task that will lead to its close, until
\* the close itself is taken and the file freed.
CloseNotForgotten == \A f \in closing : f \in files <=> tasks[f] # {}

\* A started task is in one place until its result is taken: it is not lost, and
\* no result comes twice, with workers, canceling and quitting at the same lists.
Positions(t, s) == {i \in DOMAIN s : s[i] = t}
Places(t) ==
  {<<"thread", a>> : a \in {b \in Apps : task[b] = t}}
    \cup {<<"worker", w>> : w \in {v \in Workers : wtask[v] = t}}
    \cup {<<"pool", i>> : i \in Positions(t, pool)}
    \cup (UNION {{<<"queue", q, i>> : i \in Positions(t, completed[q])} : q \in Queues})
OnePlace == \A f \in Files : \A t \in tasks[f] : Cardinality(Places(t)) = 1

\* A queue outlives the tasks that name it, a close that waits for its turn
\* included, and tasks_inflight tells when.
Named(q) ==
  {t \in (UNION {tasks[f] : f \in Files}) \cup {CloseOf(f) : f \in files \cap closing} :
     queue[t] = q}
QueueOutlivesTasks == \A q \in Queues \ queues : Named(q) = {}

\* No result waits with a thread asleep for it: as many threads are on their
\* way to the queue as it has results.
NoLostWakeup ==
  \A q \in Queues :
    Sleepers(q) # {} =>
      Len(completed[q]) <= Cardinality({a \in Apps : pc[a] = "woken" /\ at[a] = q})

\* A task in the pool has a worker that will come to it, though no more threads
\* can be had, and idle ones leave.
PoolServes ==
  pool # <<>> /\ status = "initialized" =>
    \E w \in Workers : wpc[w] \in {"top", "woken", "timedout", "io"}

-------------------------------------------------------------------------------
(* Liveness *)

\* SDL_DestroyAsyncIOQueue returns, unless SDL has quit and a close that came
\* after it is left to a pool without threads.
DestroyReturns ==
  \A q \in Queues :
    q \in dying ~> q \notin queues \/ (status = "uninitialized" /\ pool # <<>>)

\* SDL_QuitAsyncIO finds the workers gone, whatever they were doing.
QuitReturns == status = "uninitializing" ~> status = "uninitialized"
================================================================================
