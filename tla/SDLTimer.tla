-------------------------------- MODULE SDLTimer --------------------------------
(***************************************************************************)
(* The timers of SDL (SDL_timer.c).  Any thread, and any timer's callback, *)
(* adds and removes timers; one thread fires them.  They meet in three     *)
(* places: the pending list and the list of unused timers, behind a        *)
(* spinlock; the map from ids to timers, behind a mutex; and the canceled  *)
(* flag of each timer, behind nothing.                                     *)
(*                                                                         *)
(* Time is left out: at a tick the time of any of the timers may have      *)
(* come.  A timer is an address of Slots, and an entry of the map is known *)
(* by its timer's id.                                                      *)
(***************************************************************************)
EXTENDS Naturals, FiniteSets

CONSTANTS
  Threads,      \* the application's threads
  TimerThread,  \* SDL_TimerThread, which runs the callbacks
  Slots,        \* addresses of SDL_Timer structures
  NoSlot,       \* no timer
  MaxId,        \* bound: how many timers are ever added
  Faults,       \* what may fail: "init", "malloc"
  Orderly       \* the application keeps SDL_Quit and callbacks adding timers apart

ASSUME SDLTimerAssumption ==
  /\ IsFiniteSet(Threads) /\ TimerThread \notin Threads
  /\ NoSlot \notin Slots
  /\ MaxId \in Nat
  /\ Faults \subseteq {"init", "malloc"}
  /\ Orderly \in BOOLEAN

All == Threads \cup {TimerThread}
Ids == 1 .. MaxId

VARIABLES
  serialised,   \* the application makes one call to add or remove at a time
  status,       \* init.status
  active,       \* the thread is to go on
  sem,          \* count of the semaphore the thread waits on
  tpc,          \* where SDL_TimerThread is
  pending,      \* timers added since the thread's last maintenance
  freelist,     \* timers free to be used again
  timers,       \* the thread's list, which it keeps sorted
  batch,        \* those of them whose time had come at this tick
  current,      \* the timer whose callback is to run, or runs
  unused,       \* the thread's own list of timers for freelist
  timermap,     \* ids in the map
  entry,        \* the timer of an entry in memory, linked in the map or not
  allocated,    \* the timers in memory
  timerID,      \* id of a timer
  canceled,     \* its flag
  next_id,      \* what SDL_GetNextObjectID returns next
  pc,           \* where each thread is in a call to SDL
  timer,        \* the timer it adds
  id,           \* the id it adds or removes
  told,         \* ids a callback has been given before SDL_AddTimer returned them
  removed       \* history: ids SDL_RemoveTimer has returned true for

threadVars == <<tpc, timers, batch, current, unused>>
sharedVars == <<status, active, sem, pending, freelist>>
mapVars    == <<timermap, entry>>
timerVars  == <<allocated, timerID, canceled, next_id>>
callVars   == <<pc, timer, id>>
history    == <<told, removed>>
vars == <<serialised, threadVars, sharedVars, mapVars, timerVars, callVars, history>>

TypeOK ==
  /\ serialised \in BOOLEAN
  /\ status \in {"uninit", "initializing", "init", "uninitializing"}
  /\ active \in BOOLEAN
  /\ sem \in Nat
  /\ tpc \in {"none", "maintain", "check", "process", "call", "callback",
             "wait", "exited"}
  /\ pending \subseteq Slots /\ freelist \subseteq Slots /\ timers \subseteq Slots
  /\ batch \subseteq Slots /\ unused \subseteq Slots /\ allocated \subseteq Slots
  /\ current \in Slots \cup {NoSlot}
  /\ timermap \subseteq Ids
  /\ entry \in [Ids -> Slots \cup {NoSlot}]
  /\ timerID \in [Slots -> Ids \cup {0}]
  /\ canceled \in [Slots -> BOOLEAN]
  /\ next_id \in 1 .. MaxId + 1
  /\ pc \in [All -> {"idle", "init", "start", "pop", "fill", "map", "push", "signal",
                     "return", "find", "read", "set",
                     "quit", "q_signal", "q_wait", "q_free"}]
  /\ timer \in [All -> Slots \cup {NoSlot}]
  /\ id \in [All -> Ids \cup {0}]
  /\ told \subseteq Ids /\ removed \subseteq Ids

Init ==
  /\ serialised \in BOOLEAN
  /\ status = "uninit" /\ active = FALSE /\ sem = 0
  /\ tpc = "none" /\ timers = {} /\ batch = {} /\ current = NoSlot /\ unused = {}
  /\ pending = {} /\ freelist = {}
  /\ timermap = {} /\ entry = [i \in Ids |-> NoSlot]
  /\ allocated = {} /\ timerID = [s \in Slots |-> 0]
  /\ canceled = [s \in Slots |-> FALSE] /\ next_id = 1
  /\ pc = [t \in All |-> "idle"]
  /\ timer = [t \in All |-> NoSlot] /\ id = [t \in All |-> 0]
  /\ told = {} /\ removed = {}

Goto(t, label) == pc' = [pc EXCEPT ![t] = label]
At(t, label) == pc[t] = label

\* Where in a call to add a timer that has no new id yet, and in SDL_Quit.
InCreate(t) ==
  \/ pc[t] \in {"init", "start", "pop", "fill"}
  \/ pc[t] \in {"find", "read", "set"} /\ timer[t] # NoSlot
InQuit(t)   == pc[t] \in {"quit", "q_signal", "q_wait", "q_free"}

\* A thread may call SDL; the timer thread does from a callback.  No other
\* thread uses SDL once one has called SDL_Quit.
MayCall(t) ==
  /\ At(t, "idle")
  /\ IF t = TimerThread THEN tpc = "callback" ELSE \A u \in Threads : ~InQuit(u)
  /\ serialised => \A u \in All : At(u, "idle") \/ InQuit(u)

-------------------------------------------------------------------------------
(* SDL_CreateTimer, for SDL_AddTimer and SDL_AddTimerNS *)

\* SDL_ShouldInit: one thread initialises, the others wait for it, and for one
\* in SDL_QuitTimers.
ShouldInit(t) ==
  \/ status = "init" /\ Goto(t, "pop") /\ UNCHANGED status
  \/ status = "uninit" /\ Goto(t, "start") /\ status' = "initializing"

BeginCreate(t) ==
  /\ MayCall(t)
  /\ next_id + Cardinality({u \in All : InCreate(u)}) <= MaxId
  /\ t = TimerThread /\ Orderly => \A u \in Threads : ~InQuit(u)
  /\ IF status \in {"init", "uninit"} THEN ShouldInit(t)
                                      ELSE Goto(t, "init") /\ UNCHANGED status
  /\ UNCHANGED <<serialised, threadVars, active, sem, pending, freelist, mapVars,
                 timerVars, timer, id, history>>

WaitInit(t) ==
  /\ At(t, "init")
  /\ ShouldInit(t)
  /\ UNCHANGED <<serialised, threadVars, active, sem, pending, freelist, mapVars,
                 timerVars, timer, id, history>>

\* The thread starts, or a failure undoes what was made by SDL_QuitTimers.
InitTimers(t) ==
  /\ At(t, "start")
  /\ status' = "init"
  /\ sem' = 0
  /\ \/ active' = TRUE /\ tpc' = "maintain" /\ Goto(t, "pop")
     \/ "init" \in Faults /\ Goto(t, "quit") /\ UNCHANGED <<active, tpc>>
  /\ UNCHANGED <<serialised, timers, batch, current, unused, pending, freelist,
                 mapVars, timerVars, timer, id, history>>

\* An unused timer still has its old id in the map, unless it was removed.
OldIdKept == "fill"    \* mutant
OldIdRemoved == "find"

MallocFails == "malloc" \in Faults
NullUsed(t) == Goto(t, "fill")  \* mutant: the result of SDL_malloc unchecked
OutOfMemory(t) == Goto(t, "idle")

PopFreelist(t) ==
  /\ At(t, "pop")
  /\ IF freelist # {}
     THEN \E s \in freelist :
            /\ freelist' = freelist \ {s}
            /\ timer' = [timer EXCEPT ![t] = s]
            /\ id' = [id EXCEPT ![t] = timerID[s]]
            /\ Goto(t, OldIdRemoved)
            /\ UNCHANGED allocated
     ELSE /\ \/ \E s \in Slots \ allocated :
                  /\ allocated' = allocated \cup {s}
                  /\ timer' = [timer EXCEPT ![t] = s]
                  /\ Goto(t, "fill")
             \/ /\ MallocFails \/ allocated = Slots
                /\ OutOfMemory(t)
                /\ UNCHANGED <<allocated, timer>>
          /\ UNCHANGED <<freelist, id>>
  /\ UNCHANGED <<serialised, threadVars, status, active, sem, pending, mapVars,
                 timerID, canceled, next_id, history>>

\* The timer gets its new id, and the id an entry, which may not be had.
FillTimer(t) ==
  /\ At(t, "fill")
  /\ LET s == timer[t] IN
     /\ timerID' = [timerID EXCEPT ![s] = next_id]
     /\ canceled' = [canceled EXCEPT ![s] = FALSE]
     /\ \/ /\ entry' = [entry EXCEPT ![next_id] = s]
           /\ id' = [id EXCEPT ![t] = next_id]
           /\ Goto(t, "map")
           /\ UNCHANGED <<allocated, timer>>
        \/ /\ MallocFails
           /\ allocated' = allocated \ {s}
           /\ timer' = [timer EXCEPT ![t] = NoSlot]
           /\ id' = [id EXCEPT ![t] = 0]
           /\ Goto(t, "idle")
           /\ UNCHANGED entry
  /\ next_id' = next_id + 1
  /\ UNCHANGED <<serialised, threadVars, sharedVars, timermap, history>>

MapTimer(t) ==
  /\ At(t, "map")
  /\ timermap' = timermap \cup {id[t]}
  /\ Goto(t, "push")
  /\ UNCHANGED <<serialised, threadVars, sharedVars, entry, timerVars, timer, id,
                 history>>

PushPending(t) ==
  /\ At(t, "push")
  /\ pending' = pending \cup {timer[t]}
  /\ timer' = [timer EXCEPT ![t] = NoSlot]
  /\ Goto(t, "signal")
  /\ UNCHANGED <<serialised, threadVars, status, active, sem, freelist, mapVars,
                 timerVars, id, history>>

NotSignalled == sem  \* mutant
Signalled == sem + 1

SignalThread(t) ==
  /\ At(t, "signal")
  /\ sem' = Signalled
  /\ Goto(t, "return")
  /\ UNCHANGED <<serialised, threadVars, status, active, pending, freelist, mapVars,
                 timerVars, timer, id, history>>

\* The id is read from the entry, which is in memory no longer if the timer
\* has been removed meanwhile.
ReturnId(t) ==
  /\ At(t, "return")
  /\ id' = [id EXCEPT ![t] = 0]
  /\ told' = told \ {id[t]}
  /\ Goto(t, "idle")
  /\ UNCHANGED <<serialised, threadVars, sharedVars, mapVars, timerVars, timer,
                 removed>>

-------------------------------------------------------------------------------
(* SDL_RemoveTimer, called by the application, or to recycle a timer *)

\* The application knows an id once it is returned or its callback called.
BeingAdded(i) == \E t \in All : pc[t] \in {"map", "push", "signal", "return"} /\ id[t] = i
Known(i) == i < next_id /\ (BeingAdded(i) => i \in told)

\* The entry is unlinked under the mutex.  Without one nothing is done.
BeginRemove(t) ==
  /\ MayCall(t)
  /\ \E i \in timermap :
       /\ Known(i)
       /\ timermap' = timermap \ {i}
       /\ id' = [id EXCEPT ![t] = i]
  /\ Goto(t, "read")
  /\ UNCHANGED <<serialised, threadVars, sharedVars, entry, timerVars, timer, history>>

UnlinkOld(t) ==
  /\ At(t, "find")
  /\ timermap' = timermap \ {id[t]}
  /\ Goto(t, IF id[t] \in timermap THEN "read" ELSE "fill")
  /\ UNCHANGED <<serialised, threadVars, sharedVars, entry, timerVars, timer, id,
                 history>>

\* Back to the application, or to the timer that is being recycled.
RemoveReturns(t) ==
  IF timer[t] = NoSlot THEN Goto(t, "idle") /\ id' = [id EXCEPT ![t] = 0]
                       ELSE Goto(t, "fill") /\ UNCHANGED id

FreeEntry(t) == entry' = [entry EXCEPT ![id[t]] = NoSlot]

\* The mutex is released: the timer may by now be another's.
ReadCanceled(t) ==
  /\ At(t, "read")
  /\ IF canceled[entry[id[t]]]
     THEN FreeEntry(t) /\ RemoveReturns(t)
     ELSE Goto(t, "set") /\ UNCHANGED <<entry, id>>
  /\ UNCHANGED <<serialised, threadVars, sharedVars, timermap, timerVars, timer,
                 history>>

SetCanceled(t) ==
  /\ At(t, "set")
  /\ canceled' = [canceled EXCEPT ![entry[id[t]]] = TRUE]
  /\ removed' = removed \cup {id[t]}
  /\ FreeEntry(t)
  /\ RemoveReturns(t)
  /\ UNCHANGED <<serialised, threadVars, sharedVars, timermap, allocated, timerID,
                 next_id, timer, told>>

-------------------------------------------------------------------------------
(* SDL_TimerThread *)

AlsoKept == unused  \* mutant: freelist_head not reset
GivenAway == {}

Maintain ==
  /\ tpc = "maintain"
  /\ timers' = timers \cup pending
  /\ pending' = {}
  /\ freelist' = freelist \cup unused
  /\ unused' = GivenAway
  /\ tpc' = "check"
  /\ UNCHANGED <<serialised, batch, current, status, active, sem, mapVars, timerVars,
                 callVars, history>>

CheckActive ==
  /\ tpc = "check"
  /\ IF active THEN tpc' = "process" /\ batch' \in SUBSET timers
               ELSE tpc' = "exited" /\ UNCHANGED batch
  /\ UNCHANGED <<serialised, timers, current, unused, sharedVars, mapVars, timerVars,
                 callVars, history>>

\* A timer that will not run again is left for the next maintenance.
Retire(s) ==
  /\ unused' = unused \cup {s}
  /\ canceled' = [canceled EXCEPT ![s] = TRUE]

NeverSkips(s) == FALSE  \* mutant
Skips(s) == canceled[s]

\* The next timer whose time has come: its callback is to be called unless it
\* was canceled.
ProcessTimer ==
  /\ tpc = "process"
  /\ \E s \in batch :
       /\ timers' = timers \ {s}
       /\ batch' = batch \ {s}
       /\ IF Skips(s)
          THEN Retire(s) /\ UNCHANGED <<tpc, current>>
          ELSE tpc' = "call" /\ current' = s /\ UNCHANGED <<unused, canceled>>
  /\ UNCHANGED <<serialised, sharedVars, mapVars, allocated, timerID, next_id,
                 callVars, history>>

\* The flag is not looked at again: it may have been set since.
CallBack ==
  /\ tpc = "call"
  /\ tpc' = "callback"
  /\ told' = told \cup {i \in {timerID[current]} : BeingAdded(i)}
  /\ UNCHANGED <<serialised, timers, batch, current, unused, sharedVars, mapVars,
                 timerVars, callVars, removed>>

\* The callback returns the next interval, or 0.
CallbackReturns ==
  /\ tpc = "callback"
  /\ At(TimerThread, "idle")
  /\ \/ timers' = timers \cup {current} /\ UNCHANGED <<unused, canceled>>
     \/ Retire(current) /\ UNCHANGED timers
  /\ current' = NoSlot
  /\ tpc' = "process"
  /\ UNCHANGED <<serialised, batch, sharedVars, mapVars, allocated, timerID,
                 next_id, callVars, history>>

NoneDue ==
  /\ tpc = "process"
  /\ batch = {}
  /\ tpc' = "wait"
  /\ UNCHANGED <<serialised, timers, batch, current, unused, sharedVars, mapVars,
                 timerVars, callVars, history>>

LoopsWhileActive == IF active THEN "maintain" ELSE "check"  \* mutant
LoopTop == "maintain"

\* The wait ends when the semaphore is signalled, or at some timer's time.
WaitSemaphore ==
  /\ tpc = "wait"
  /\ \/ sem > 0 /\ sem' = sem - 1
     \/ timers # {} /\ UNCHANGED sem
  /\ tpc' = LoopTop
  /\ UNCHANGED <<serialised, timers, batch, current, unused, status, active, pending,
                 freelist, mapVars, timerVars, callVars, history>>

-------------------------------------------------------------------------------
(* SDL_QuitTimers, from SDL_Quit or a failed SDL_InitTimers *)

BeginQuit(t) ==
  /\ t \in Threads
  /\ \A u \in Threads : At(u, "idle")
  /\ Orderly => ~InCreate(TimerThread)
  /\ status = "init"
  /\ Goto(t, "quit")
  /\ UNCHANGED <<serialised, threadVars, sharedVars, mapVars, timerVars, timer, id,
                 history>>

ShouldQuit(t) ==
  /\ At(t, "quit")
  /\ status = "init"
  /\ status' = "uninitializing"
  /\ active' = FALSE
  /\ Goto(t, IF tpc = "none" THEN "q_free" ELSE "q_signal")
  /\ UNCHANGED <<serialised, threadVars, sem, pending, freelist, mapVars, timerVars,
                 timer, id, history>>

NotWoken == sem  \* mutant
Woken == sem + 1

SignalQuit(t) ==
  /\ At(t, "q_signal")
  /\ sem' = Woken
  /\ Goto(t, "q_wait")
  /\ UNCHANGED <<serialised, threadVars, status, active, pending, freelist, mapVars,
                 timerVars, timer, id, history>>

WaitThread(t) ==
  /\ At(t, "q_wait")
  /\ tpc = "exited"
  /\ tpc' = "none"
  /\ Goto(t, "q_free")
  /\ UNCHANGED <<serialised, timers, batch, current, unused, sharedVars, mapVars,
                 timerVars, timer, id, history>>

FreeAll(t) ==
  /\ At(t, "q_free")
  /\ LET freed == timers \cup freelist IN
       /\ allocated' = allocated \ freed
       /\ timerID' = [s \in Slots |-> IF s \in freed THEN 0 ELSE timerID[s]]
       /\ canceled' = [s \in Slots |-> s \notin freed /\ canceled[s]]
  /\ timers' = {}
  /\ freelist' = {}
  /\ entry' = [i \in Ids |-> IF i \in timermap THEN NoSlot ELSE entry[i]]
  /\ timermap' = {}
  /\ sem' = 0
  /\ status' = "uninit"
  /\ Goto(t, "idle")
  /\ UNCHANGED <<serialised, tpc, batch, current, unused, active, pending, next_id,
                 timer, id, history>>

-------------------------------------------------------------------------------
App(t) == BeginCreate(t) \/ BeginRemove(t) \/ BeginQuit(t)

Call(t) ==
  \/ WaitInit(t) \/ InitTimers(t) \/ PopFreelist(t)
  \/ FillTimer(t) \/ MapTimer(t) \/ PushPending(t) \/ SignalThread(t) \/ ReturnId(t)
  \/ UnlinkOld(t) \/ ReadCanceled(t) \/ SetCanceled(t)
  \/ ShouldQuit(t) \/ SignalQuit(t) \/ WaitThread(t) \/ FreeAll(t)

Timer ==
  \/ Maintain \/ CheckActive \/ ProcessTimer \/ CallBack \/ NoneDue
  \/ WaitSemaphore

Next ==
  \/ \E t \in All : App(t) \/ Call(t)
  \/ Timer \/ CallbackReturns

Spec == Init /\ [][Next]_vars

\* Threads run, the time of every timer comes, and a callback returns however
\* many timers it adds and removes.  The application owes nothing else.
FairSpec ==
  /\ Spec
  /\ \A t \in All : WF_vars(Call(t))
  /\ WF_vars(Timer)
  /\ SF_vars(CallbackReturns)
  /\ \A s \in Slots : SF_vars(CheckActive /\ s \in batch')

-------------------------------------------------------------------------------
(* Safety *)

Lists == [pending |-> pending, freelist |-> freelist, timers |-> timers,
          unused |-> unused, current |-> {current}]
Holders(s) == {l \in DOMAIN Lists : s \in Lists[l]} \cup {t \in All : timer[t] = s}

\* A timer in memory is on one list or in one thread's hands: it is neither lost
\* nor, its one "next" on two lists, linked across them.
OnePlace == \A s \in allocated : Cardinality(Holders(s)) = 1

\* A removal that finds its timer cancels that one, not the one its structure
\* has been given to since.
CancelsItsOwn ==
  [][\A t \in All : SetCanceled(t) /\ serialised => timerID[entry[id[t]]] = id[t]]_vars

\* So should one while other threads add and remove timers, as SDL_timer.h says
\* they may; but its timer may have been recycled since it was unlinked.
CancelsInAnyThread ==
  [][\A t \in All : SetCanceled(t) => timerID[entry[id[t]]] = id[t]]_vars

\* Once its removal has returned true a timer is not taken to be called again,
\* whatever is removed and recycled meanwhile: one call at most is still to come,
\* that of a timer whose flag had been looked at before.
RemovedIsSkipped ==
  [][current' # current /\ current' # NoSlot => timerID[current'] \notin removed]_vars

\* No callback is called once SDL_RemoveTimer has returned true for its timer,
\* as the test of the timers expects (testautomation_timer.c): false of a callback
\* whose flag the thread has just looked at.
NoCallAfterRemoval == [][CallBack => timerID[current] \notin removed]_vars

\* The entry that SDL_CreateTimer reads its id from is still in memory, though
\* the callback may run, and remove its timer, before (SDL_timer.h).
EntryInMemory == \A t \in All : At(t, "return") => entry[id[t]] # NoSlot

\* SDL_QuitTimers leaves nothing in memory but timers the thread has not seen.
QuitFreesAll ==
  serialised /\ status = "uninit" /\ (\A t \in All : At(t, "idle"))
    => allocated = pending /\ \A i \in Ids : entry[i] = NoSlot

-------------------------------------------------------------------------------
(* Liveness *)

\* A timer added is called, unless it is removed or SDL quits first.
Running(i) == tpc = "callback" /\ timerID[current] = i
Waiting(i) == \E s \in pending \cup timers : timerID[s] = i

AddedTimerFires ==
  \A i \in Ids :
    serialised /\ Waiting(i) ~> Running(i) \/ i \in removed \/ status # "init"

\* SDL_Quit's wait for the thread ends.
QuitReturns == \A t \in Threads : InQuit(t) ~> ~InQuit(t)
================================================================================
