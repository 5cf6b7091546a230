----------------------------- MODULE SDLTimerProofs -----------------------------
(***************************************************************************)
(* Proofs about SDLTimer, for every finite set of threads, every number of *)
(* timers and every set of faults, whether the application keeps its calls *)
(* apart (serialised, Orderly) or not, unless the property says it.        *)
(***************************************************************************)
EXTENDS SDLTimer, FiniteSetTheorems, TLAPS

-------------------------------------------------------------------------------
(* The calls that add a timer *)

Creators == {t \in All : InCreate(t)}

\* Every call that is to give a timer a new id has one left.
IdsLeft == next_id + Cardinality(Creators) <= MaxId + 1

\* A thread has a timer in hand from the moment it got one until it is pending,
\* also while the timer's old id is removed; the timer thread has one while it
\* calls back.
HandsKept ==
  /\ \A t \in All :
       /\ pc[t] \in {"find", "fill", "map", "push"} => timer[t] \in Slots
       /\ pc[t] \notin {"find", "read", "set", "fill", "map", "push"}
            => timer[t] = NoSlot
       /\ pc[t] \in {"read", "set", "map", "push", "signal", "return"}
            => id[t] \in Ids
  /\ tpc \in {"call", "callback"} => current \in Slots

CallInv == TypeOK /\ HandsKept /\ IdsLeft

-------------------------------------------------------------------------------
(* The timer thread, and starting and stopping it *)

Changing == {"start", "q_signal", "q_wait", "q_free"}

\* SDL_ShouldInit and SDL_ShouldQuit let one thread at a time start or stop the
\* timer thread, which is gone before anything is freed.
OneChanges ==
  /\ \A t \in All :
       /\ pc[t] = "start" => status = "initializing"
       /\ pc[t] \in {"q_signal", "q_wait", "q_free"} => status = "uninitializing"
       /\ pc[t] = "q_free" => tpc = "none"
  /\ \A t, u \in All : pc[t] \in Changing /\ pc[u] \in Changing => t = u

\* What the timer thread has in hand at each point of its loop.
LoopInv ==
  /\ status \in {"uninit", "initializing"}
       => tpc = "none" /\ timers = {} /\ freelist = {}
  /\ current \in Slots <=> tpc \in {"call", "callback"}
  /\ batch \subseteq timers
  /\ tpc \notin {"process", "call", "callback"} => batch = {}
  /\ tpc \in {"none", "check", "exited"} => unused = {}
  /\ pc[TimerThread] # "idle" => tpc = "callback" /\ ~InQuit(TimerThread)

ThreadInv == OneChanges /\ LoopInv

-------------------------------------------------------------------------------
(* The timers *)

Listed == pending \cup freelist \cup timers \cup unused

\* No timer is on two lists, nor in hand and on a list, nor in two hands.
PlacesApart ==
  /\ pending \cap (freelist \cup timers \cup unused) = {}
  /\ freelist \cap (timers \cup unused) = {}
  /\ timers \cap unused = {}
  /\ current \notin Listed
  /\ \A t \in All : timer[t] \in Slots => timer[t] \notin Listed \cup {current}
  /\ \A t, u \in All : timer[t] \in Slots /\ timer[t] = timer[u] => t = u

\* Every timer in memory is somewhere, and no other is.
PlacesInMemory ==
  \A s \in Slots : s \in allocated <=> \/ s \in Listed \cup {current}
                                       \/ \E t \in All : timer[t] = s

PlaceInv == PlacesApart /\ PlacesInMemory

-------------------------------------------------------------------------------
(* The map *)

\* Who will link, use or free the entry of an id.
Owns(t, i) == pc[t] \in {"map", "read", "set"} /\ id[t] = i

\* An entry in memory is linked, or is in the hands of one thread.
EntriesOwned ==
  /\ \A i \in Ids : entry[i] \in Slots <=> \/ i \in timermap
                                           \/ \E t \in All : Owns(t, i)
  /\ \A i \in timermap : \A t \in All : ~Owns(t, i)
  /\ \A t, u \in All : \A i \in Ids : Owns(t, i) /\ Owns(u, i) => t = u

\* Ids are used once.
IdsAreNew ==
  /\ \A s \in Slots : timerID[s] < next_id
  /\ \A i \in Ids : i >= next_id => i \notin removed /\ entry[i] = NoSlot

\* While it is a timer's, an id has no entry but that timer's.
EntryOfTimer ==
  \A s \in Slots : timerID[s] \in Ids => entry[timerID[s]] \in {s, NoSlot}

\* A timer whose removal has been reported is marked.
RemovedIsCanceled == \A s \in Slots : timerID[s] \in removed => canceled[s]

MapInv == EntriesOwned /\ IdsAreNew /\ EntryOfTimer /\ RemovedIsCanceled

-------------------------------------------------------------------------------
(* With calls that do not overlap *)

\* One thread is in a call, or one quits and a callback is in a call.
CallsApart ==
  \A t, u \in All :
    pc[t] # "idle" /\ pc[u] # "idle" /\ t # u
      => \/ t = TimerThread /\ InQuit(u)
         \/ u = TimerThread /\ InQuit(t)

\* A thread that adds a timer does so while the timers are initialised.
AddsWhenInit ==
  /\ timermap # {} => status \in {"init", "uninitializing"}
  /\ \A t \in Threads :
       \/ pc[t] \in {"pop", "fill", "map"}
       \/ pc[t] \in {"find", "read", "set"} /\ timer[t] \in Slots
       => status = "init"

\* An entry's timer has the entry's id, and an entry stays until its adder is
\* done with it.
EntriesAreTrue ==
  /\ \A i \in timermap : timerID[entry[i]] = i
  /\ \A t \in All :
       /\ pc[t] \in {"map", "read", "set"} => timerID[entry[id[t]]] = id[t]
       /\ pc[t] = "map" => entry[id[t]] = timer[t]
  /\ \A t \in All : pc[t] \in {"push", "signal", "return"} => id[t] \in timermap

\* A timer about to get a new id has no entry of its old one.
OldIdUnlinked ==
  /\ \A s \in Slots \ allocated : timerID[s] \notin timermap
  /\ \A t \in All :
       /\ pc[t] = "fill" => timerID[timer[t]] \notin timermap
       /\ pc[t] \in {"find", "read", "set"} /\ timer[t] \in Slots
            => id[t] = timerID[timer[t]]

SerialInv ==
  serialised => CallsApart /\ AddsWhenInit /\ EntriesAreTrue /\ OldIdUnlinked

-------------------------------------------------------------------------------
(* Type correctness *)

\* What the SMT solver needs to know of the values of Boolean variables.
LEMMA BooleanValues == \A z : z = TRUE \/ z = FALSE => z \in BOOLEAN
BY Zenon

\* Finitely many threads create timers.
LEMMA CreatorsFinite == IsFiniteSet(Creators) /\ Cardinality(Creators) \in Nat
<1>1. IsFiniteSet(All)
  BY SDLTimerAssumption, FS_AddElement DEF All
<1> QED
  BY <1>1, FS_Subset, FS_CardinalityType DEF Creators

\* A call about to give a timer its id has one.
LEMMA IdLeft ==
  ASSUME CallInv, NEW t \in All, FillTimer(t)
  PROVE  next_id \in Ids
<1>1. t \in Creators
  BY DEF FillTimer, At, Creators, InCreate
<1>2. Cardinality(Creators) # 0
  BY <1>1, CreatorsFinite, FS_EmptySet
<1> QED
  BY <1>2, CreatorsFinite, SDLTimerAssumption DEF CallInv, TypeOK, IdsLeft, Ids

\* Every step keeps the types.
LEMMA TypeStep == CallInv /\ [Next]_vars => TypeOK'
<1> SUFFICES ASSUME CallInv, [Next]_vars PROVE TypeOK'
  OBVIOUS
<1> USE SDLTimerAssumption, BooleanValues
    DEF CallInv, TypeOK, HandsKept, All, Ids, Goto, At, threadVars, sharedVars, mapVars,
    timerVars,
        callVars, history
<1>1. ASSUME NEW t \in All, BeginCreate(t) PROVE TypeOK'
  BY <1>1 DEF BeginCreate, MayCall, ShouldInit
<1>2. ASSUME NEW t \in All, BeginRemove(t) PROVE TypeOK'
  BY <1>2 DEF BeginRemove, MayCall
<1>3. ASSUME NEW t \in All, BeginQuit(t) PROVE TypeOK'
  BY <1>3 DEF BeginQuit
<1>4. ASSUME NEW t \in All, WaitInit(t) PROVE TypeOK'
  BY <1>4 DEF WaitInit, ShouldInit
<1>5. ASSUME NEW t \in All, InitTimers(t) PROVE TypeOK'
  BY <1>5 DEF InitTimers
<1>6. ASSUME NEW t \in All, PopFreelist(t) PROVE TypeOK'
  <2>1. ASSUME NEW s \in freelist, freelist' = freelist \ {s},
               timer' = [timer EXCEPT ![t] = s],
               id' = [id EXCEPT ![t] = timerID[s]],
               pc' = [pc EXCEPT ![t] = "find"], UNCHANGED allocated
        PROVE  TypeOK'
    BY <1>6, <2>1 DEF PopFreelist
  <2>2. ASSUME NEW s \in Slots \ allocated, allocated' = allocated \cup {s},
               timer' = [timer EXCEPT ![t] = s],
               pc' = [pc EXCEPT ![t] = "fill"], UNCHANGED <<freelist, id>>
        PROVE  TypeOK'
    BY <1>6, <2>2 DEF PopFreelist
  <2>3. CASE /\ pc' = [pc EXCEPT ![t] = "idle"]
             /\ UNCHANGED <<allocated, timer, freelist, id>>
    BY <1>6, <2>3 DEF PopFreelist
  <2> QED
    BY <1>6, <2>1, <2>2, <2>3 DEF PopFreelist, OldIdRemoved, OutOfMemory
<1>7. ASSUME NEW t \in All, FillTimer(t) PROVE TypeOK'
  <2>3. next_id \in Ids /\ next_id + 1 \in 1 .. MaxId + 1
    BY <1>7, IdLeft
  <2>4. timer[t] \in Slots
    BY <1>7 DEF FillTimer
  <2>5. /\ timerID' \in [Slots -> Ids \cup {0}]
        /\ canceled' \in [Slots -> BOOLEAN]
        /\ next_id' \in 1 .. MaxId + 1
    BY <1>7, <2>3, <2>4 DEF FillTimer
  <2>6. UNCHANGED <<serialised, threadVars, sharedVars, timermap, history>>
    BY <1>7 DEF FillTimer
  <2>7. ASSUME entry' = [entry EXCEPT ![next_id] = timer[t]],
               id' = [id EXCEPT ![t] = next_id],
               pc' = [pc EXCEPT ![t] = "map"], UNCHANGED <<allocated, timer>>
        PROVE  TypeOK'
    BY <2>3, <2>4, <2>5, <2>6, <2>7
  <2>8. ASSUME allocated' = allocated \ {timer[t]},
               timer' = [timer EXCEPT ![t] = NoSlot],
               id' = [id EXCEPT ![t] = 0],
               pc' = [pc EXCEPT ![t] = "idle"], UNCHANGED entry
        PROVE  TypeOK'
    BY <2>5, <2>6, <2>8
  <2> QED
    BY <1>7, <2>7, <2>8 DEF FillTimer
<1>8. ASSUME NEW t \in All, MapTimer(t) PROVE TypeOK'
  BY <1>8 DEF MapTimer
<1>9. ASSUME NEW t \in All, PushPending(t) PROVE TypeOK'
  BY <1>9 DEF PushPending
<1>10. ASSUME NEW t \in All, SignalThread(t) PROVE TypeOK'
  BY <1>10 DEF SignalThread, Signalled
<1>11. ASSUME NEW t \in All, ReturnId(t) PROVE TypeOK'
  BY <1>11 DEF ReturnId
<1>12. ASSUME NEW t \in All, UnlinkOld(t) PROVE TypeOK'
  BY <1>12 DEF UnlinkOld
<1>13. ASSUME NEW t \in All, ReadCanceled(t) PROVE TypeOK'
  BY <1>13 DEF ReadCanceled, FreeEntry, RemoveReturns
<1>14. ASSUME NEW t \in All, SetCanceled(t) PROVE TypeOK'
  BY <1>14 DEF SetCanceled, FreeEntry, RemoveReturns
<1>15. ASSUME NEW t \in All, ShouldQuit(t) PROVE TypeOK'
  BY <1>15 DEF ShouldQuit
<1>16. ASSUME NEW t \in All, SignalQuit(t) PROVE TypeOK'
  BY <1>16 DEF SignalQuit, Woken
<1>17. ASSUME NEW t \in All, WaitThread(t) PROVE TypeOK'
  BY <1>17 DEF WaitThread
<1>18. ASSUME NEW t \in All, FreeAll(t) PROVE TypeOK'
  BY <1>18 DEF FreeAll
<1>19. CASE Maintain
  BY <1>19 DEF Maintain, GivenAway
<1>20. CASE CheckActive
  BY <1>20 DEF CheckActive
<1>21. CASE ProcessTimer
  BY <1>21 DEF ProcessTimer, Skips, Retire
<1>22. CASE CallbackReturns
  BY <1>22 DEF CallbackReturns, Retire
<1>23. CASE NoneDue
  BY <1>23 DEF NoneDue
<1>24. CASE WaitSemaphore
  BY <1>24 DEF WaitSemaphore, LoopTop
<1>25. CASE CallBack
  <2>1. \A i : BeingAdded(i) => i \in Ids
    BY DEF BeingAdded
  <2> QED
    BY <1>25, <2>1 DEF CallBack
<1>26. CASE UNCHANGED vars
  BY <1>26 DEF vars
<1> QED
  BY <1>1, <1>2, <1>3, <1>4, <1>5, <1>6, <1>7, <1>8, <1>9, <1>10, <1>11, <1>12,
     <1>13, <1>14, <1>15, <1>16, <1>17, <1>18, <1>19, <1>20, <1>21, <1>22,
     <1>23, <1>24, <1>25, <1>26
  DEF Next, App, Call, Timer

\* Every step keeps in a thread's hands what its place in a call needs.
LEMMA HandsStep == CallInv /\ [Next]_vars => HandsKept'
<1> SUFFICES ASSUME CallInv, [Next]_vars PROVE HandsKept'
  OBVIOUS
<1>0. TypeOK'
  BY TypeStep
<1> USE <1>0, SDLTimerAssumption
    DEF CallInv, TypeOK, HandsKept, All, Ids, Goto, At, threadVars, sharedVars, mapVars,
    timerVars,
        callVars, history
<1>1. ASSUME NEW t \in All, BeginCreate(t) PROVE HandsKept'
  BY <1>1 DEF BeginCreate, MayCall, ShouldInit
<1>2. ASSUME NEW t \in All, BeginRemove(t) PROVE HandsKept'
  BY <1>2 DEF BeginRemove, MayCall
<1>3. ASSUME NEW t \in All, BeginQuit(t) PROVE HandsKept'
  BY <1>3 DEF BeginQuit
<1>4. ASSUME NEW t \in All, WaitInit(t) PROVE HandsKept'
  BY <1>4 DEF WaitInit, ShouldInit
<1>5. ASSUME NEW t \in All, InitTimers(t) PROVE HandsKept'
  BY <1>5 DEF InitTimers
<1>6. ASSUME NEW t \in All, PopFreelist(t) PROVE HandsKept'
  BY <1>6 DEF PopFreelist, OldIdRemoved, OutOfMemory
<1>7. ASSUME NEW t \in All, FillTimer(t) PROVE HandsKept'
  BY <1>7 DEF FillTimer
<1>8. ASSUME NEW t \in All, MapTimer(t) PROVE HandsKept'
  BY <1>8 DEF MapTimer
<1>9. ASSUME NEW t \in All, PushPending(t) PROVE HandsKept'
  BY <1>9 DEF PushPending
<1>10. ASSUME NEW t \in All, SignalThread(t) PROVE HandsKept'
  BY <1>10 DEF SignalThread, Signalled
<1>11. ASSUME NEW t \in All, ReturnId(t) PROVE HandsKept'
  BY <1>11 DEF ReturnId
<1>12. ASSUME NEW t \in All, UnlinkOld(t) PROVE HandsKept'
  BY <1>12 DEF UnlinkOld
<1>13. ASSUME NEW t \in All, ReadCanceled(t) PROVE HandsKept'
  BY <1>13 DEF ReadCanceled, FreeEntry, RemoveReturns
<1>14. ASSUME NEW t \in All, SetCanceled(t) PROVE HandsKept'
  <2>1. /\ pc[t] = "set" /\ UNCHANGED <<timer, tpc, current>>
        /\ \/ timer[t] = NoSlot /\ pc' = [pc EXCEPT ![t] = "idle"]
           \/ timer[t] # NoSlot /\ pc' = [pc EXCEPT ![t] = "fill"]
        /\ \A u \in All \ {t} : id'[u] = id[u]
    BY <1>14 DEF SetCanceled, RemoveReturns
  <2> QED
    BY <2>1
<1>15. ASSUME NEW t \in All, ShouldQuit(t) PROVE HandsKept'
  BY <1>15 DEF ShouldQuit
<1>16. ASSUME NEW t \in All, SignalQuit(t) PROVE HandsKept'
  BY <1>16 DEF SignalQuit, Woken
<1>17. ASSUME NEW t \in All, WaitThread(t) PROVE HandsKept'
  BY <1>17 DEF WaitThread
<1>18. ASSUME NEW t \in All, FreeAll(t) PROVE HandsKept'
  BY <1>18 DEF FreeAll
<1>19. CASE Maintain
  BY <1>19 DEF Maintain, GivenAway
<1>20. CASE CheckActive
  BY <1>20 DEF CheckActive
<1>21. CASE ProcessTimer
  BY <1>21 DEF ProcessTimer, Skips, Retire
<1>22. CASE CallbackReturns
  BY <1>22 DEF CallbackReturns, Retire
<1>23. CASE NoneDue
  BY <1>23 DEF NoneDue
<1>24. CASE WaitSemaphore
  BY <1>24 DEF WaitSemaphore, LoopTop
<1>25. CASE CallBack
  BY <1>25 DEF CallBack
<1>26. CASE UNCHANGED vars
  BY <1>26 DEF vars
<1> QED
  BY <1>1, <1>2, <1>3, <1>4, <1>5, <1>6, <1>7, <1>8, <1>9, <1>10, <1>11, <1>12,
     <1>13, <1>14, <1>15, <1>16, <1>17, <1>18, <1>19, <1>20, <1>21, <1>22,
     <1>23, <1>24, <1>25, <1>26
  DEF Next, App, Call, Timer

\* The ids left suffice for the timers being created.
LEMMA IdsStep == CallInv /\ [Next]_vars => IdsLeft'
<1> SUFFICES ASSUME CallInv, [Next]_vars PROVE IdsLeft'
  OBVIOUS
<1> DEFINE NoMore == Creators' \subseteq Creators /\ next_id' = next_id
<1>0. NoMore => IdsLeft'
  <2> SUFFICES ASSUME NoMore PROVE IdsLeft'
    OBVIOUS
  <2>1. /\ IsFiniteSet(Creators')
        /\ Cardinality(Creators') <= Cardinality(Creators)
        /\ Cardinality(Creators') \in Nat
    BY CreatorsFinite, FS_Subset, FS_CardinalityType
  <2> QED
    BY <2>1, CreatorsFinite, SDLTimerAssumption DEF CallInv, TypeOK, IdsLeft
<1> USE SDLTimerAssumption
    DEF CallInv, TypeOK, HandsKept, Creators, InCreate, InQuit, All, Ids, Goto, At,
    threadVars, sharedVars, mapVars, timerVars,
        callVars, history
<1>1. ASSUME NEW t \in All, BeginCreate(t) PROVE IdsLeft'
  <2>1. Creators' = Creators \cup {t} /\ next_id' = next_id
    BY <1>1 DEF BeginCreate, MayCall, ShouldInit
  <2>2. next_id + Cardinality(Creators) <= MaxId
    BY <1>1 DEF BeginCreate
  <2> HIDE DEF Creators, InCreate
  <2>3. Cardinality(Creators \cup {t}) =
          IF t \in Creators THEN Cardinality(Creators) ELSE Cardinality(Creators) + 1
    BY CreatorsFinite, FS_AddElement
  <2> QED
    BY <2>1, <2>2, <2>3, CreatorsFinite DEF IdsLeft
<1>2. ASSUME NEW t \in All, BeginRemove(t) PROVE NoMore
  BY <1>2 DEF BeginRemove, MayCall
<1>3. ASSUME NEW t \in All, BeginQuit(t) PROVE NoMore
  BY <1>3 DEF BeginQuit
<1>4. ASSUME NEW t \in All, WaitInit(t) PROVE NoMore
  BY <1>4 DEF WaitInit, ShouldInit
<1>5. ASSUME NEW t \in All, InitTimers(t) PROVE NoMore
  BY <1>5 DEF InitTimers
<1>6. ASSUME NEW t \in All, PopFreelist(t) PROVE NoMore
  BY <1>6 DEF PopFreelist, OldIdRemoved, OutOfMemory
<1>7. ASSUME NEW t \in All, FillTimer(t) PROVE IdsLeft'
  <2>1. t \in Creators
    BY <1>7 DEF FillTimer
  <2>2. Creators' = Creators \ {t} /\ next_id' = next_id + 1
    BY <1>7 DEF FillTimer
  <2> HIDE DEF Creators, InCreate
  <2>3. Cardinality(Creators') = Cardinality(Creators) - 1
    BY <2>1, <2>2, CreatorsFinite, FS_RemoveElement
  <2> QED
    BY <2>2, <2>3, CreatorsFinite DEF IdsLeft
<1>8. ASSUME NEW t \in All, MapTimer(t) PROVE NoMore
  BY <1>8 DEF MapTimer
<1>9. ASSUME NEW t \in All, PushPending(t) PROVE NoMore
  BY <1>9 DEF PushPending
<1>10. ASSUME NEW t \in All, SignalThread(t) PROVE NoMore
  BY <1>10 DEF SignalThread, Signalled
<1>11. ASSUME NEW t \in All, ReturnId(t) PROVE NoMore
  BY <1>11 DEF ReturnId
<1>12. ASSUME NEW t \in All, UnlinkOld(t) PROVE NoMore
  BY <1>12 DEF UnlinkOld
<1>13. ASSUME NEW t \in All, ReadCanceled(t) PROVE NoMore
  BY <1>13 DEF ReadCanceled, FreeEntry, RemoveReturns
<1>14. ASSUME NEW t \in All, SetCanceled(t) PROVE NoMore
  BY <1>14 DEF SetCanceled, FreeEntry, RemoveReturns
<1>15. ASSUME NEW t \in All, ShouldQuit(t) PROVE NoMore
  BY <1>15 DEF ShouldQuit
<1>16. ASSUME NEW t \in All, SignalQuit(t) PROVE NoMore
  BY <1>16 DEF SignalQuit, Woken
<1>17. ASSUME NEW t \in All, WaitThread(t) PROVE NoMore
  BY <1>17 DEF WaitThread
<1>18. ASSUME NEW t \in All, FreeAll(t) PROVE NoMore
  BY <1>18 DEF FreeAll
<1>19. ASSUME Maintain PROVE NoMore
  BY <1>19 DEF Maintain, GivenAway
<1>20. ASSUME CheckActive PROVE NoMore
  BY <1>20 DEF CheckActive
<1>21. ASSUME ProcessTimer PROVE NoMore
  BY <1>21 DEF ProcessTimer, Skips, Retire
<1>22. ASSUME CallbackReturns PROVE NoMore
  BY <1>22 DEF CallbackReturns, Retire
<1>23. ASSUME NoneDue PROVE NoMore
  BY <1>23 DEF NoneDue
<1>24. ASSUME WaitSemaphore PROVE NoMore
  BY <1>24 DEF WaitSemaphore, LoopTop
<1>25. ASSUME CallBack PROVE NoMore
  BY <1>25 DEF CallBack
<1>26. ASSUME UNCHANGED vars PROVE NoMore
  BY <1>26 DEF vars
<1> HIDE DEF NoMore
<1> QED
  BY <1>0, <1>1, <1>2, <1>3, <1>4, <1>5, <1>6, <1>7, <1>8, <1>9, <1>10, <1>11,
     <1>12, <1>13, <1>14, <1>15, <1>16, <1>17, <1>18, <1>19, <1>20, <1>21,
     <1>22, <1>23, <1>24, <1>25, <1>26
  DEF Next, App, Call, Timer

\* What is said of calls holds at first.
LEMMA CallInit == Init => CallInv
<1> SUFFICES ASSUME Init PROVE CallInv
  OBVIOUS
<1>1. TypeOK
  BY SDLTimerAssumption, BooleanValues DEF Init, TypeOK
<1>3. HandsKept
  BY DEF Init, HandsKept
<1>2. Creators = {}
  BY DEF Init, Creators, InCreate
<1> QED
  BY <1>1, <1>2, <1>3, FS_EmptySet, SDLTimerAssumption DEF Init, CallInv, IdsLeft

\* What is said of calls is kept.
LEMMA CallStep == CallInv /\ [Next]_vars => CallInv'
BY TypeStep, HandsStep, IdsStep DEF CallInv

\* Every variable keeps its type: no call reads a timer it does not have, and no
\* more timers are given an id than calls were made to add one.
THEOREM TypeCorrect == Spec => []TypeOK
<1>1. CallInv => TypeOK
  BY DEF CallInv
<1> QED
  BY <1>1, CallInit, CallStep, PTL DEF Spec
-------------------------------------------------------------------------------
(* Where each timer is *)

\* There is no timer thread at first.
LEMMA ThreadInit == Init => ThreadInv
BY SDLTimerAssumption DEF Init, ThreadInv, OneChanges, LoopInv, Changing, All

\* At most one thread changes the timers' state.
LEMMA ChangesStep == CallInv /\ ThreadInv /\ [Next]_vars => OneChanges'
<1> SUFFICES ASSUME CallInv, ThreadInv, [Next]_vars PROVE OneChanges'
  OBVIOUS
<1> USE SDLTimerAssumption
    DEF CallInv, TypeOK, HandsKept, ThreadInv, OneChanges, LoopInv, Changing,
        All, Ids, Goto, At, threadVars, sharedVars, mapVars, timerVars,
        callVars, history
<1>1. ASSUME NEW t \in All, BeginCreate(t) PROVE OneChanges'
  BY <1>1 DEF BeginCreate, MayCall, ShouldInit
<1>2. ASSUME NEW t \in All, BeginRemove(t) PROVE OneChanges'
  BY <1>2 DEF BeginRemove, MayCall
<1>3. ASSUME NEW t \in All, BeginQuit(t) PROVE OneChanges'
  BY <1>3 DEF BeginQuit
<1>4. ASSUME NEW t \in All, WaitInit(t) PROVE OneChanges'
  BY <1>4 DEF WaitInit, ShouldInit
<1>5. ASSUME NEW t \in All, InitTimers(t) PROVE OneChanges'
  BY <1>5 DEF InitTimers
<1>6. ASSUME NEW t \in All, PopFreelist(t) PROVE OneChanges'
  BY <1>6 DEF PopFreelist, OldIdRemoved, OutOfMemory
<1>7. ASSUME NEW t \in All, FillTimer(t) PROVE OneChanges'
  BY <1>7 DEF FillTimer
<1>8. ASSUME NEW t \in All, MapTimer(t) PROVE OneChanges'
  BY <1>8 DEF MapTimer
<1>9. ASSUME NEW t \in All, PushPending(t) PROVE OneChanges'
  BY <1>9 DEF PushPending
<1>10. ASSUME NEW t \in All, SignalThread(t) PROVE OneChanges'
  BY <1>10 DEF SignalThread, Signalled
<1>11. ASSUME NEW t \in All, ReturnId(t) PROVE OneChanges'
  BY <1>11 DEF ReturnId
<1>12. ASSUME NEW t \in All, UnlinkOld(t) PROVE OneChanges'
  BY <1>12 DEF UnlinkOld
<1>13. ASSUME NEW t \in All, ReadCanceled(t) PROVE OneChanges'
  BY <1>13 DEF ReadCanceled, FreeEntry, RemoveReturns
<1>14. ASSUME NEW t \in All, SetCanceled(t) PROVE OneChanges'
  BY <1>14 DEF SetCanceled, FreeEntry, RemoveReturns
<1>15. ASSUME NEW t \in All, ShouldQuit(t) PROVE OneChanges'
  BY <1>15 DEF ShouldQuit
<1>16. ASSUME NEW t \in All, SignalQuit(t) PROVE OneChanges'
  BY <1>16 DEF SignalQuit, Woken
<1>17. ASSUME NEW t \in All, WaitThread(t) PROVE OneChanges'
  BY <1>17 DEF WaitThread
<1>18. ASSUME NEW t \in All, FreeAll(t) PROVE OneChanges'
  BY <1>18 DEF FreeAll
<1>19. CASE Maintain
  BY <1>19 DEF Maintain, GivenAway
<1>20. CASE CheckActive
  BY <1>20 DEF CheckActive
<1>21. CASE ProcessTimer
  BY <1>21 DEF ProcessTimer, Skips, Retire
<1>22. CASE CallbackReturns
  BY <1>22 DEF CallbackReturns, Retire
<1>23. CASE NoneDue
  BY <1>23 DEF NoneDue
<1>24. CASE WaitSemaphore
  BY <1>24 DEF WaitSemaphore, LoopTop
<1>25. CASE CallBack
  BY <1>25 DEF CallBack
<1>26. CASE UNCHANGED vars
  BY <1>26 DEF vars
<1> QED
  BY <1>1, <1>2, <1>3, <1>4, <1>5, <1>6, <1>7, <1>8, <1>9, <1>10, <1>11, <1>12,
     <1>13, <1>14, <1>15, <1>16, <1>17, <1>18, <1>19, <1>20, <1>21, <1>22,
     <1>23, <1>24, <1>25, <1>26
  DEF Next, App, Call, Timer

\* The timer thread keeps its place in its loop.
LEMMA LoopStep == CallInv /\ ThreadInv /\ [Next]_vars => LoopInv'
<1> SUFFICES ASSUME CallInv, ThreadInv, [Next]_vars PROVE LoopInv'
  OBVIOUS
<1> USE SDLTimerAssumption
    DEF CallInv, TypeOK, HandsKept, ThreadInv, OneChanges, LoopInv, Changing, InQuit,
        All, Ids, Goto, At, threadVars, sharedVars, mapVars, timerVars,
        callVars, history
<1>1. ASSUME NEW t \in All, BeginCreate(t) PROVE LoopInv'
  BY <1>1 DEF BeginCreate, MayCall, ShouldInit
<1>2. ASSUME NEW t \in All, BeginRemove(t) PROVE LoopInv'
  BY <1>2 DEF BeginRemove, MayCall
<1>3. ASSUME NEW t \in All, BeginQuit(t) PROVE LoopInv'
  BY <1>3 DEF BeginQuit
<1>4. ASSUME NEW t \in All, WaitInit(t) PROVE LoopInv'
  BY <1>4 DEF WaitInit, ShouldInit
<1>5. ASSUME NEW t \in All, InitTimers(t) PROVE LoopInv'
  BY <1>5 DEF InitTimers
<1>6. ASSUME NEW t \in All, PopFreelist(t) PROVE LoopInv'
  BY <1>6 DEF PopFreelist, OldIdRemoved, OutOfMemory
<1>7. ASSUME NEW t \in All, FillTimer(t) PROVE LoopInv'
  BY <1>7 DEF FillTimer
<1>8. ASSUME NEW t \in All, MapTimer(t) PROVE LoopInv'
  BY <1>8 DEF MapTimer
<1>9. ASSUME NEW t \in All, PushPending(t) PROVE LoopInv'
  BY <1>9 DEF PushPending
<1>10. ASSUME NEW t \in All, SignalThread(t) PROVE LoopInv'
  BY <1>10 DEF SignalThread, Signalled
<1>11. ASSUME NEW t \in All, ReturnId(t) PROVE LoopInv'
  BY <1>11 DEF ReturnId
<1>12. ASSUME NEW t \in All, UnlinkOld(t) PROVE LoopInv'
  BY <1>12 DEF UnlinkOld
<1>13. ASSUME NEW t \in All, ReadCanceled(t) PROVE LoopInv'
  BY <1>13 DEF ReadCanceled, FreeEntry, RemoveReturns
<1>14. ASSUME NEW t \in All, SetCanceled(t) PROVE LoopInv'
  BY <1>14 DEF SetCanceled, FreeEntry, RemoveReturns
<1>15. ASSUME NEW t \in All, ShouldQuit(t) PROVE LoopInv'
  BY <1>15 DEF ShouldQuit
<1>16. ASSUME NEW t \in All, SignalQuit(t) PROVE LoopInv'
  BY <1>16 DEF SignalQuit, Woken
<1>17. ASSUME NEW t \in All, WaitThread(t) PROVE LoopInv'
  BY <1>17 DEF WaitThread
<1>18. ASSUME NEW t \in All, FreeAll(t) PROVE LoopInv'
  BY <1>18 DEF FreeAll
<1>19. CASE Maintain
  BY <1>19 DEF Maintain, GivenAway
<1>20. CASE CheckActive
  BY <1>20 DEF CheckActive
<1>21. CASE ProcessTimer
  BY <1>21 DEF ProcessTimer, Skips, Retire
<1>22. CASE CallbackReturns
  BY <1>22 DEF CallbackReturns, Retire
<1>23. CASE NoneDue
  BY <1>23 DEF NoneDue
<1>24. CASE WaitSemaphore
  BY <1>24 DEF WaitSemaphore, LoopTop
<1>25. CASE CallBack
  BY <1>25 DEF CallBack
<1>26. CASE UNCHANGED vars
  BY <1>26 DEF vars
<1> QED
  BY <1>1, <1>2, <1>3, <1>4, <1>5, <1>6, <1>7, <1>8, <1>9, <1>10, <1>11, <1>12,
     <1>13, <1>14, <1>15, <1>16, <1>17, <1>18, <1>19, <1>20, <1>21, <1>22,
     <1>23, <1>24, <1>25, <1>26
  DEF Next, App, Call, Timer

\* What is said of the timer thread is kept.
LEMMA ThreadStep == CallInv /\ ThreadInv /\ [Next]_vars => ThreadInv'
BY ChangesStep, LoopStep DEF ThreadInv

\* There are no timers at first.
LEMMA PlaceInit == Init => PlaceInv
BY SDLTimerAssumption
   DEF Init, PlaceInv, PlacesApart, PlacesInMemory, Listed

\* No step puts a timer in two places.
LEMMA ApartStep == CallInv /\ ThreadInv /\ PlaceInv /\ [Next]_vars => PlacesApart'
<1> SUFFICES ASSUME CallInv, ThreadInv, PlaceInv, [Next]_vars PROVE PlacesApart'
  OBVIOUS
<1> USE SDLTimerAssumption
    DEF CallInv, TypeOK, HandsKept, ThreadInv, LoopInv, PlaceInv, PlacesApart,
        PlacesInMemory, Listed,
        All, Ids, Goto, At, threadVars, sharedVars, mapVars, timerVars,
        callVars, history
<1>1. ASSUME NEW t \in All, BeginCreate(t) PROVE PlacesApart'
  BY <1>1 DEF BeginCreate, MayCall, ShouldInit
<1>2. ASSUME NEW t \in All, BeginRemove(t) PROVE PlacesApart'
  BY <1>2 DEF BeginRemove, MayCall
<1>3. ASSUME NEW t \in All, BeginQuit(t) PROVE PlacesApart'
  BY <1>3 DEF BeginQuit
<1>4. ASSUME NEW t \in All, WaitInit(t) PROVE PlacesApart'
  BY <1>4 DEF WaitInit, ShouldInit
<1>5. ASSUME NEW t \in All, InitTimers(t) PROVE PlacesApart'
  BY <1>5 DEF InitTimers
<1>6. ASSUME NEW t \in All, PopFreelist(t) PROVE PlacesApart'
  <2>1. /\ timer[t] = NoSlot
        /\ UNCHANGED <<pending, timers, unused, current>>
    BY <1>6 DEF PopFreelist
  <2>2. ASSUME NEW s \in freelist, freelist' = freelist \ {s},
               timer' = [timer EXCEPT ![t] = s]
        PROVE  PlacesApart'
    BY <2>1, <2>2
  <2>3. ASSUME NEW s \in Slots \ allocated, freelist' = freelist,
               timer' = [timer EXCEPT ![t] = s]
        PROVE  PlacesApart'
    <3>1. s \notin Listed \cup {current} /\ \A u \in All : timer[u] # s
      OBVIOUS
    <3> QED
      BY <2>1, <2>3, <3>1
  <2>4. CASE UNCHANGED <<freelist, timer>>
    BY <2>1, <2>4
  <2> QED
    BY <1>6, <2>2, <2>3, <2>4 DEF PopFreelist
<1>7. ASSUME NEW t \in All, FillTimer(t) PROVE PlacesApart'
  BY <1>7 DEF FillTimer
<1>8. ASSUME NEW t \in All, MapTimer(t) PROVE PlacesApart'
  BY <1>8 DEF MapTimer
<1>9. ASSUME NEW t \in All, PushPending(t) PROVE PlacesApart'
  BY <1>9 DEF PushPending
<1>10. ASSUME NEW t \in All, SignalThread(t) PROVE PlacesApart'
  BY <1>10 DEF SignalThread, Signalled
<1>11. ASSUME NEW t \in All, ReturnId(t) PROVE PlacesApart'
  BY <1>11 DEF ReturnId
<1>12. ASSUME NEW t \in All, UnlinkOld(t) PROVE PlacesApart'
  BY <1>12 DEF UnlinkOld
<1>13. ASSUME NEW t \in All, ReadCanceled(t) PROVE PlacesApart'
  BY <1>13 DEF ReadCanceled, FreeEntry, RemoveReturns
<1>14. ASSUME NEW t \in All, SetCanceled(t) PROVE PlacesApart'
  BY <1>14 DEF SetCanceled, FreeEntry, RemoveReturns
<1>15. ASSUME NEW t \in All, ShouldQuit(t) PROVE PlacesApart'
  BY <1>15 DEF ShouldQuit
<1>16. ASSUME NEW t \in All, SignalQuit(t) PROVE PlacesApart'
  BY <1>16 DEF SignalQuit, Woken
<1>17. ASSUME NEW t \in All, WaitThread(t) PROVE PlacesApart'
  BY <1>17 DEF WaitThread
<1>18. ASSUME NEW t \in All, FreeAll(t) PROVE PlacesApart'
  BY <1>18 DEF FreeAll
<1>19. CASE Maintain
  BY <1>19 DEF Maintain, GivenAway
<1>20. CASE CheckActive
  BY <1>20 DEF CheckActive
<1>21. CASE ProcessTimer
  BY <1>21 DEF ProcessTimer, Skips, Retire
<1>22. CASE CallbackReturns
  BY <1>22 DEF CallbackReturns, Retire
<1>23. CASE NoneDue
  BY <1>23 DEF NoneDue
<1>24. CASE WaitSemaphore
  BY <1>24 DEF WaitSemaphore, LoopTop
<1>25. CASE CallBack
  BY <1>25 DEF CallBack
<1>26. CASE UNCHANGED vars
  BY <1>26 DEF vars
<1> QED
  BY <1>1, <1>2, <1>3, <1>4, <1>5, <1>6, <1>7, <1>8, <1>9, <1>10, <1>11, <1>12,
     <1>13, <1>14, <1>15, <1>16, <1>17, <1>18, <1>19, <1>20, <1>21, <1>22,
     <1>23, <1>24, <1>25, <1>26
  DEF Next, App, Call, Timer

\* No step loses a timer, nor keeps one that was freed.
LEMMA MemoryStep == CallInv /\ ThreadInv /\ PlaceInv /\ [Next]_vars => PlacesInMemory'
<1> SUFFICES ASSUME CallInv, ThreadInv, PlaceInv, [Next]_vars PROVE PlacesInMemory'
  OBVIOUS
<1> USE SDLTimerAssumption
    DEF CallInv, TypeOK, HandsKept, ThreadInv, LoopInv, PlaceInv, PlacesApart,
        PlacesInMemory, Listed,
        All, Ids, Goto, At, threadVars, sharedVars, mapVars, timerVars,
        callVars, history
<1>1. ASSUME NEW t \in All, BeginCreate(t) PROVE PlacesInMemory'
  BY <1>1 DEF BeginCreate, MayCall, ShouldInit
<1>2. ASSUME NEW t \in All, BeginRemove(t) PROVE PlacesInMemory'
  BY <1>2 DEF BeginRemove, MayCall
<1>3. ASSUME NEW t \in All, BeginQuit(t) PROVE PlacesInMemory'
  BY <1>3 DEF BeginQuit
<1>4. ASSUME NEW t \in All, WaitInit(t) PROVE PlacesInMemory'
  BY <1>4 DEF WaitInit, ShouldInit
<1>5. ASSUME NEW t \in All, InitTimers(t) PROVE PlacesInMemory'
  BY <1>5 DEF InitTimers
<1>6. ASSUME NEW t \in All, PopFreelist(t) PROVE PlacesInMemory'
  BY <1>6 DEF PopFreelist, OldIdRemoved, OutOfMemory
<1>7. ASSUME NEW t \in All, FillTimer(t) PROVE PlacesInMemory'
  BY <1>7 DEF FillTimer
<1>8. ASSUME NEW t \in All, MapTimer(t) PROVE PlacesInMemory'
  BY <1>8 DEF MapTimer
<1>9. ASSUME NEW t \in All, PushPending(t) PROVE PlacesInMemory'
  BY <1>9 DEF PushPending
<1>10. ASSUME NEW t \in All, SignalThread(t) PROVE PlacesInMemory'
  BY <1>10 DEF SignalThread, Signalled
<1>11. ASSUME NEW t \in All, ReturnId(t) PROVE PlacesInMemory'
  BY <1>11 DEF ReturnId
<1>12. ASSUME NEW t \in All, UnlinkOld(t) PROVE PlacesInMemory'
  BY <1>12 DEF UnlinkOld
<1>13. ASSUME NEW t \in All, ReadCanceled(t) PROVE PlacesInMemory'
  BY <1>13 DEF ReadCanceled, FreeEntry, RemoveReturns
<1>14. ASSUME NEW t \in All, SetCanceled(t) PROVE PlacesInMemory'
  BY <1>14 DEF SetCanceled, FreeEntry, RemoveReturns
<1>15. ASSUME NEW t \in All, ShouldQuit(t) PROVE PlacesInMemory'
  BY <1>15 DEF ShouldQuit
<1>16. ASSUME NEW t \in All, SignalQuit(t) PROVE PlacesInMemory'
  BY <1>16 DEF SignalQuit, Woken
<1>17. ASSUME NEW t \in All, WaitThread(t) PROVE PlacesInMemory'
  BY <1>17 DEF WaitThread
<1>18. ASSUME NEW t \in All, FreeAll(t) PROVE PlacesInMemory'
  BY <1>18 DEF FreeAll
<1>19. CASE Maintain
  BY <1>19 DEF Maintain, GivenAway
<1>20. CASE CheckActive
  BY <1>20 DEF CheckActive
<1>21. CASE ProcessTimer
  BY <1>21 DEF ProcessTimer, Skips, Retire
<1>22. CASE CallbackReturns
  BY <1>22 DEF CallbackReturns, Retire
<1>23. CASE NoneDue
  BY <1>23 DEF NoneDue
<1>24. CASE WaitSemaphore
  BY <1>24 DEF WaitSemaphore, LoopTop
<1>25. CASE CallBack
  BY <1>25 DEF CallBack
<1>26. CASE UNCHANGED vars
  BY <1>26 DEF vars
<1> QED
  BY <1>1, <1>2, <1>3, <1>4, <1>5, <1>6, <1>7, <1>8, <1>9, <1>10, <1>11, <1>12,
     <1>13, <1>14, <1>15, <1>16, <1>17, <1>18, <1>19, <1>20, <1>21, <1>22,
     <1>23, <1>24, <1>25, <1>26
  DEF Next, App, Call, Timer

\* The places of timers are kept right.
LEMMA PlaceStep == CallInv /\ ThreadInv /\ PlaceInv /\ [Next]_vars => PlaceInv'
BY ApartStep, MemoryStep DEF PlaceInv

\* Why OnePlace follows: who holds a timer is a set of one.
LEMMA OneHolder == CallInv /\ PlaceInv => OnePlace
<1> SUFFICES ASSUME CallInv, PlaceInv, NEW s \in allocated
             PROVE  Cardinality(Holders(s)) = 1
  BY DEF OnePlace
<1> DEFINE OnLists == {l \in DOMAIN Lists : s \in Lists[l]}
           InHands == {t \in All : timer[t] = s}
<1>1. s \in Slots
  BY DEF CallInv, TypeOK
<1>2. /\ DOMAIN Lists = {"pending", "freelist", "timers", "unused", "current"}
      /\ Lists["pending"] = pending /\ Lists["freelist"] = freelist
      /\ Lists["timers"] = timers /\ Lists["unused"] = unused
      /\ Lists["current"] = {current}
  BY DEF Lists
<1>3. Holders(s) = OnLists \cup InHands
  BY DEF Holders
<1>4. CASE s \in pending
  <2>1. OnLists = {"pending"}
    BY <1>1, <1>2, <1>4 DEF PlaceInv, PlacesApart, Listed
  <2>2. InHands = {}
    BY <1>1, <1>4 DEF PlaceInv, PlacesApart, Listed
  <2> QED
    BY <1>3, <2>1, <2>2, FS_Singleton
<1>5. CASE s \in freelist
  <2>1. OnLists = {"freelist"}
    BY <1>1, <1>2, <1>5 DEF PlaceInv, PlacesApart, Listed
  <2>2. InHands = {}
    BY <1>1, <1>5 DEF PlaceInv, PlacesApart, Listed
  <2> QED
    BY <1>3, <2>1, <2>2, FS_Singleton
<1>6. CASE s \in timers
  <2>1. OnLists = {"timers"}
    BY <1>1, <1>2, <1>6 DEF PlaceInv, PlacesApart, Listed
  <2>2. InHands = {}
    BY <1>1, <1>6 DEF PlaceInv, PlacesApart, Listed
  <2> QED
    BY <1>3, <2>1, <2>2, FS_Singleton
<1>7. CASE s \in unused
  <2>1. OnLists = {"unused"}
    BY <1>1, <1>2, <1>7 DEF PlaceInv, PlacesApart, Listed
  <2>2. InHands = {}
    BY <1>1, <1>7 DEF PlaceInv, PlacesApart, Listed
  <2> QED
    BY <1>3, <2>1, <2>2, FS_Singleton
<1>8. CASE s = current
  <2>1. OnLists = {"current"}
    BY <1>1, <1>2, <1>8 DEF PlaceInv, PlacesApart, Listed
  <2>2. InHands = {}
    BY <1>1, <1>8 DEF PlaceInv, PlacesApart, Listed
  <2> QED
    BY <1>3, <2>1, <2>2, FS_Singleton
<1>9. ASSUME NEW t \in All, timer[t] = s PROVE Cardinality(Holders(s)) = 1
  <2>1. InHands = {t}
    BY <1>1, <1>9 DEF PlaceInv, PlacesApart
  <2>2. s \notin Listed \cup {current}
    BY <1>1, <1>9 DEF PlaceInv, PlacesApart
  <2>3. OnLists = {}
    BY <1>2, <2>2 DEF Listed
  <2> QED
    BY <1>3, <2>1, <2>3, FS_Singleton
<1>10. \/ s \in Listed \cup {current}
       \/ \E t \in All : timer[t] = s
  BY <1>1 DEF PlaceInv, PlacesInMemory
<1> QED
  BY <1>4, <1>5, <1>6, <1>7, <1>8, <1>9, <1>10 DEF Listed

\* A timer in memory is always in exactly one place, a list or a thread's hands,
\* whatever calls overlap, fail or are made from callbacks: SDL_CreateTimer and
\* the timer thread hand it on without losing it or linking it into two lists.
THEOREM EachTimerInOnePlace == Spec => []OnePlace
<1>1. CallInv /\ PlaceInv => OnePlace
  BY OneHolder
<1> QED
  BY <1>1, CallInit, CallStep, ThreadInit, ThreadStep, PlaceInit, PlaceStep, PTL
  DEF Spec

-------------------------------------------------------------------------------
(* The map from ids to timers, and removals *)

\* The map is empty at first.
LEMMA MapInit == Init => MapInv
BY SDLTimerAssumption
   DEF Init, MapInv, EntriesOwned, Owns, IdsAreNew, EntryOfTimer,
       RemovedIsCanceled, Ids

\* Entries of the map are freed with it, and by their owner.
LEMMA OwnedStep == CallInv /\ MapInv /\ [Next]_vars => EntriesOwned'
<1> SUFFICES ASSUME CallInv, MapInv, [Next]_vars PROVE EntriesOwned'
  OBVIOUS
\* A step that neither makes, moves nor frees an entry.
<1> DEFINE SameOwners == \A u \in All, i \in Ids : Owns(u, i)' <=> Owns(u, i)
<1>100. ASSUME UNCHANGED <<entry, timermap>>, SameOwners PROVE EntriesOwned'
  <2>1. \A i \in Ids : (\E u \in All : Owns(u, i))' <=> \E u \in All : Owns(u, i)
    BY <1>100 DEF Owns
  <2>2. (\A i \in timermap : \A u \in All : ~Owns(u, i))'
    BY <1>100 DEF CallInv, TypeOK, MapInv, EntriesOwned, Owns
  <2>3. (\A u, v \in All : \A i \in Ids : Owns(u, i) /\ Owns(v, i) => u = v)'
    BY <1>100 DEF MapInv, EntriesOwned, Owns
  <2> QED
    BY <1>100, <2>1, <2>2, <2>3 DEF MapInv, EntriesOwned, Owns
\* The end of a removal, which frees the entry of the id.
<1>200. ASSUME NEW t \in All, pc[t] \in {"read", "set"},
               entry' = [entry EXCEPT ![id[t]] = NoSlot], UNCHANGED timermap,
               \A u \in All, i \in Ids : Owns(u, i)' <=> Owns(u, i) /\ u # t
        PROVE  EntriesOwned'
  <2>1. id[t] \in Ids /\ Owns(t, id[t])
    BY <1>200 DEF CallInv, HandsKept, Owns
  <2> QED
    BY <1>200, <2>1, SDLTimerAssumption
    DEF CallInv, TypeOK, MapInv, EntriesOwned, Owns
<1> USE SDLTimerAssumption
    DEF CallInv, TypeOK, HandsKept, MapInv, EntriesOwned, Owns, IdsAreNew,
        All, Ids, Goto, At, threadVars, sharedVars, mapVars, timerVars,
        callVars, history
<1>1. ASSUME NEW t \in All, BeginCreate(t) PROVE EntriesOwned'
  BY <1>1 DEF BeginCreate, MayCall, ShouldInit
<1>2. ASSUME NEW t \in All, BeginRemove(t) PROVE EntriesOwned'
  BY <1>2 DEF BeginRemove, MayCall
<1>3. ASSUME NEW t \in All, BeginQuit(t) PROVE EntriesOwned'
  BY <1>3 DEF BeginQuit
<1>4. ASSUME NEW t \in All, WaitInit(t) PROVE EntriesOwned'
  BY <1>4, <1>100 DEF WaitInit, ShouldInit
<1>5. ASSUME NEW t \in All, InitTimers(t) PROVE EntriesOwned'
  BY <1>5 DEF InitTimers
<1>6. ASSUME NEW t \in All, PopFreelist(t) PROVE EntriesOwned'
  <2>1. SameOwners
    BY <1>6 DEF PopFreelist, OldIdRemoved, OutOfMemory
  <2> QED
    BY <1>6, <1>100, <2>1 DEF PopFreelist
<1>7. ASSUME NEW t \in All, FillTimer(t) PROVE EntriesOwned'
  <2>1. CASE UNCHANGED entry /\ pc' = [pc EXCEPT ![t] = "idle"]
    <3>1. SameOwners
      BY <1>7, <2>1 DEF FillTimer
    <3> QED
      BY <1>7, <1>100, <2>1, <3>1 DEF FillTimer
  <2>2. CASE /\ entry' = [entry EXCEPT ![next_id] = timer[t]]
             /\ id' = [id EXCEPT ![t] = next_id]
             /\ pc' = [pc EXCEPT ![t] = "map"]
    <3>1. \A u \in All, i \in Ids :
            Owns(u, i)' <=> IF u = t THEN i = next_id ELSE Owns(u, i)
      BY <2>2
    <3>2. \A u \in All : ~Owns(u, next_id) /\ next_id \notin timermap
      BY <1>7, IdLeft
    <3>3. timer[t] \in Slots /\ next_id \in Ids /\ ~\E i \in Ids : Owns(t, i)
      BY <1>7, IdLeft DEF FillTimer
    <3>4. UNCHANGED timermap
      BY <1>7 DEF FillTimer
    <3> QED
      BY <2>2, <3>1, <3>2, <3>3, <3>4
  <2> QED
    BY <1>7, <2>1, <2>2 DEF FillTimer
<1>8. ASSUME NEW t \in All, MapTimer(t) PROVE EntriesOwned'
  BY <1>8 DEF MapTimer
<1>9. ASSUME NEW t \in All, PushPending(t) PROVE EntriesOwned'
  BY <1>9 DEF PushPending
<1>10. ASSUME NEW t \in All, SignalThread(t) PROVE EntriesOwned'
  BY <1>10 DEF SignalThread, Signalled
<1>11. ASSUME NEW t \in All, ReturnId(t) PROVE EntriesOwned'
  BY <1>11 DEF ReturnId
<1>12. ASSUME NEW t \in All, UnlinkOld(t) PROVE EntriesOwned'
  BY <1>12 DEF UnlinkOld
<1>13. ASSUME NEW t \in All, ReadCanceled(t) PROVE EntriesOwned'
  <2>1. CASE canceled[entry[id[t]]]
    <3>1. \A u \in All, i \in Ids : Owns(u, i)' <=> Owns(u, i) /\ u # t
      BY <1>13, <2>1 DEF ReadCanceled, RemoveReturns
    <3> QED
      BY <1>13, <1>200, <2>1, <3>1 DEF ReadCanceled, FreeEntry
  <2>2. CASE ~canceled[entry[id[t]]]
    <3>1. SameOwners
      BY <1>13, <2>2 DEF ReadCanceled
    <3> QED
      BY <1>13, <1>100, <2>2, <3>1 DEF ReadCanceled
  <2> QED
    BY <2>1, <2>2
<1>14. ASSUME NEW t \in All, SetCanceled(t) PROVE EntriesOwned'
  <2>1. \A u \in All, i \in Ids : Owns(u, i)' <=> Owns(u, i) /\ u # t
    BY <1>14 DEF SetCanceled, RemoveReturns
  <2> QED
    BY <1>14, <1>200, <2>1 DEF SetCanceled, FreeEntry
<1>15. ASSUME NEW t \in All, ShouldQuit(t) PROVE EntriesOwned'
  BY <1>15 DEF ShouldQuit
<1>16. ASSUME NEW t \in All, SignalQuit(t) PROVE EntriesOwned'
  BY <1>16 DEF SignalQuit, Woken
<1>17. ASSUME NEW t \in All, WaitThread(t) PROVE EntriesOwned'
  BY <1>17 DEF WaitThread
<1>18. ASSUME NEW t \in All, FreeAll(t) PROVE EntriesOwned'
  BY <1>18 DEF FreeAll
<1>19. CASE Maintain
  BY <1>19 DEF Maintain, GivenAway
<1>20. CASE CheckActive
  BY <1>20 DEF CheckActive
<1>21. CASE ProcessTimer
  BY <1>21 DEF ProcessTimer, Skips, Retire
<1>22. CASE CallbackReturns
  BY <1>22 DEF CallbackReturns, Retire
<1>23. CASE NoneDue
  BY <1>23 DEF NoneDue
<1>24. CASE WaitSemaphore
  BY <1>24 DEF WaitSemaphore, LoopTop
<1>25. CASE CallBack
  BY <1>25 DEF CallBack
<1>26. CASE UNCHANGED vars
  BY <1>26 DEF vars
<1> QED
  BY <1>1, <1>2, <1>3, <1>4, <1>5, <1>6, <1>7, <1>8, <1>9, <1>10, <1>11, <1>12,
     <1>13, <1>14, <1>15, <1>16, <1>17, <1>18, <1>19, <1>20, <1>21, <1>22,
     <1>23, <1>24, <1>25, <1>26
  DEF Next, App, Call, Timer

\* Ids are given once.
LEMMA NewIdsStep == CallInv /\ MapInv /\ [Next]_vars => IdsAreNew'
<1> SUFFICES ASSUME CallInv, MapInv, [Next]_vars PROVE IdsAreNew'
  OBVIOUS
<1> USE SDLTimerAssumption
    DEF CallInv, TypeOK, HandsKept, MapInv, EntriesOwned, Owns, IdsAreNew,
        All, Ids, Goto, At, threadVars, sharedVars, mapVars, timerVars,
        callVars, history
<1>1. ASSUME NEW t \in All, BeginCreate(t) PROVE IdsAreNew'
  BY <1>1 DEF BeginCreate, MayCall, ShouldInit
<1>2. ASSUME NEW t \in All, BeginRemove(t) PROVE IdsAreNew'
  BY <1>2 DEF BeginRemove, MayCall
<1>3. ASSUME NEW t \in All, BeginQuit(t) PROVE IdsAreNew'
  BY <1>3 DEF BeginQuit
<1>4. ASSUME NEW t \in All, WaitInit(t) PROVE IdsAreNew'
  BY <1>4 DEF WaitInit, ShouldInit
<1>5. ASSUME NEW t \in All, InitTimers(t) PROVE IdsAreNew'
  BY <1>5 DEF InitTimers
<1>6. ASSUME NEW t \in All, PopFreelist(t) PROVE IdsAreNew'
  BY <1>6 DEF PopFreelist, OldIdRemoved, OutOfMemory
<1>7. ASSUME NEW t \in All, FillTimer(t) PROVE IdsAreNew'
  <2>1. next_id \in Ids /\ next_id' = next_id + 1 /\ removed' = removed
    BY <1>7, IdLeft DEF FillTimer
  <2>2. timer[t] \in Slots /\ timerID' = [timerID EXCEPT ![timer[t]] = next_id]
    BY <1>7 DEF FillTimer
  <2>3. \A s \in Slots : timerID'[s] < next_id'
    BY <2>1, <2>2
  <2>4. entry' \in {entry, [entry EXCEPT ![next_id] = timer[t]]}
    BY <1>7 DEF FillTimer
  <2>5. \A i \in Ids : i >= next_id' => i \notin removed' /\ entry'[i] = NoSlot
    BY <2>1, <2>4
  <2> QED
    BY <2>3, <2>5
<1>8. ASSUME NEW t \in All, MapTimer(t) PROVE IdsAreNew'
  BY <1>8 DEF MapTimer
<1>9. ASSUME NEW t \in All, PushPending(t) PROVE IdsAreNew'
  BY <1>9 DEF PushPending
<1>10. ASSUME NEW t \in All, SignalThread(t) PROVE IdsAreNew'
  BY <1>10 DEF SignalThread, Signalled
<1>11. ASSUME NEW t \in All, ReturnId(t) PROVE IdsAreNew'
  BY <1>11 DEF ReturnId
<1>12. ASSUME NEW t \in All, UnlinkOld(t) PROVE IdsAreNew'
  BY <1>12 DEF UnlinkOld
<1>13. ASSUME NEW t \in All, ReadCanceled(t) PROVE IdsAreNew'
  BY <1>13 DEF ReadCanceled, FreeEntry, RemoveReturns
<1>14. ASSUME NEW t \in All, SetCanceled(t) PROVE IdsAreNew'
  BY <1>14 DEF SetCanceled, FreeEntry, RemoveReturns
<1>15. ASSUME NEW t \in All, ShouldQuit(t) PROVE IdsAreNew'
  BY <1>15 DEF ShouldQuit
<1>16. ASSUME NEW t \in All, SignalQuit(t) PROVE IdsAreNew'
  BY <1>16 DEF SignalQuit, Woken
<1>17. ASSUME NEW t \in All, WaitThread(t) PROVE IdsAreNew'
  BY <1>17 DEF WaitThread
<1>18. ASSUME NEW t \in All, FreeAll(t) PROVE IdsAreNew'
  BY <1>18 DEF FreeAll
<1>19. CASE Maintain
  BY <1>19 DEF Maintain, GivenAway
<1>20. CASE CheckActive
  BY <1>20 DEF CheckActive
<1>21. CASE ProcessTimer
  BY <1>21 DEF ProcessTimer, Skips, Retire
<1>22. CASE CallbackReturns
  BY <1>22 DEF CallbackReturns, Retire
<1>23. CASE NoneDue
  BY <1>23 DEF NoneDue
<1>24. CASE WaitSemaphore
  BY <1>24 DEF WaitSemaphore, LoopTop
<1>25. CASE CallBack
  BY <1>25 DEF CallBack
<1>26. CASE UNCHANGED vars
  BY <1>26 DEF vars
<1> QED
  BY <1>1, <1>2, <1>3, <1>4, <1>5, <1>6, <1>7, <1>8, <1>9, <1>10, <1>11, <1>12,
     <1>13, <1>14, <1>15, <1>16, <1>17, <1>18, <1>19, <1>20, <1>21, <1>22,
     <1>23, <1>24, <1>25, <1>26
  DEF Next, App, Call, Timer

\* No id of a timer gets the entry of another.
LEMMA EntryStep == CallInv /\ MapInv /\ [Next]_vars => EntryOfTimer'
<1> SUFFICES ASSUME CallInv, MapInv, [Next]_vars PROVE EntryOfTimer'
  OBVIOUS
<1> USE SDLTimerAssumption
    DEF CallInv, TypeOK, HandsKept, MapInv, IdsAreNew, EntryOfTimer,
        All, Ids, Goto, At, threadVars, sharedVars, mapVars, timerVars,
        callVars, history
<1>1. ASSUME NEW t \in All, BeginCreate(t) PROVE EntryOfTimer'
  BY <1>1 DEF BeginCreate, MayCall, ShouldInit
<1>2. ASSUME NEW t \in All, BeginRemove(t) PROVE EntryOfTimer'
  BY <1>2 DEF BeginRemove, MayCall
<1>3. ASSUME NEW t \in All, BeginQuit(t) PROVE EntryOfTimer'
  BY <1>3 DEF BeginQuit
<1>4. ASSUME NEW t \in All, WaitInit(t) PROVE EntryOfTimer'
  BY <1>4 DEF WaitInit, ShouldInit
<1>5. ASSUME NEW t \in All, InitTimers(t) PROVE EntryOfTimer'
  BY <1>5 DEF InitTimers
<1>6. ASSUME NEW t \in All, PopFreelist(t) PROVE EntryOfTimer'
  BY <1>6 DEF PopFreelist, OldIdRemoved, OutOfMemory
<1>7. ASSUME NEW t \in All, FillTimer(t) PROVE EntryOfTimer'
  BY <1>7, IdLeft DEF FillTimer
<1>8. ASSUME NEW t \in All, MapTimer(t) PROVE EntryOfTimer'
  BY <1>8 DEF MapTimer
<1>9. ASSUME NEW t \in All, PushPending(t) PROVE EntryOfTimer'
  BY <1>9 DEF PushPending
<1>10. ASSUME NEW t \in All, SignalThread(t) PROVE EntryOfTimer'
  BY <1>10 DEF SignalThread, Signalled
<1>11. ASSUME NEW t \in All, ReturnId(t) PROVE EntryOfTimer'
  BY <1>11 DEF ReturnId
<1>12. ASSUME NEW t \in All, UnlinkOld(t) PROVE EntryOfTimer'
  BY <1>12 DEF UnlinkOld
<1>13. ASSUME NEW t \in All, ReadCanceled(t) PROVE EntryOfTimer'
  BY <1>13 DEF ReadCanceled, FreeEntry, RemoveReturns
<1>14. ASSUME NEW t \in All, SetCanceled(t) PROVE EntryOfTimer'
  BY <1>14 DEF SetCanceled, FreeEntry, RemoveReturns
<1>15. ASSUME NEW t \in All, ShouldQuit(t) PROVE EntryOfTimer'
  BY <1>15 DEF ShouldQuit
<1>16. ASSUME NEW t \in All, SignalQuit(t) PROVE EntryOfTimer'
  BY <1>16 DEF SignalQuit, Woken
<1>17. ASSUME NEW t \in All, WaitThread(t) PROVE EntryOfTimer'
  BY <1>17 DEF WaitThread
<1>18. ASSUME NEW t \in All, FreeAll(t) PROVE EntryOfTimer'
  BY <1>18 DEF FreeAll
<1>19. CASE Maintain
  BY <1>19 DEF Maintain, GivenAway
<1>20. CASE CheckActive
  BY <1>20 DEF CheckActive
<1>21. CASE ProcessTimer
  BY <1>21 DEF ProcessTimer, Skips, Retire
<1>22. CASE CallbackReturns
  BY <1>22 DEF CallbackReturns, Retire
<1>23. CASE NoneDue
  BY <1>23 DEF NoneDue
<1>24. CASE WaitSemaphore
  BY <1>24 DEF WaitSemaphore, LoopTop
<1>25. CASE CallBack
  BY <1>25 DEF CallBack
<1>26. CASE UNCHANGED vars
  BY <1>26 DEF vars
<1> QED
  BY <1>1, <1>2, <1>3, <1>4, <1>5, <1>6, <1>7, <1>8, <1>9, <1>10, <1>11, <1>12,
     <1>13, <1>14, <1>15, <1>16, <1>17, <1>18, <1>19, <1>20, <1>21, <1>22,
     <1>23, <1>24, <1>25, <1>26
  DEF Next, App, Call, Timer

\* A timer whose removal has been reported stays marked.
LEMMA RemovedStep == CallInv /\ MapInv /\ [Next]_vars => RemovedIsCanceled'
<1> SUFFICES ASSUME CallInv, MapInv, [Next]_vars PROVE RemovedIsCanceled'
  OBVIOUS
<1> USE SDLTimerAssumption
    DEF CallInv, TypeOK, HandsKept, MapInv, EntriesOwned, Owns, IdsAreNew, EntryOfTimer,
        RemovedIsCanceled,
        All, Ids, Goto, At, threadVars, sharedVars, mapVars, timerVars,
        callVars, history
<1>1. ASSUME NEW t \in All, BeginCreate(t) PROVE RemovedIsCanceled'
  BY <1>1 DEF BeginCreate, MayCall, ShouldInit
<1>2. ASSUME NEW t \in All, BeginRemove(t) PROVE RemovedIsCanceled'
  BY <1>2 DEF BeginRemove, MayCall
<1>3. ASSUME NEW t \in All, BeginQuit(t) PROVE RemovedIsCanceled'
  BY <1>3 DEF BeginQuit
<1>4. ASSUME NEW t \in All, WaitInit(t) PROVE RemovedIsCanceled'
  BY <1>4 DEF WaitInit, ShouldInit
<1>5. ASSUME NEW t \in All, InitTimers(t) PROVE RemovedIsCanceled'
  BY <1>5 DEF InitTimers
<1>6. ASSUME NEW t \in All, PopFreelist(t) PROVE RemovedIsCanceled'
  BY <1>6 DEF PopFreelist, OldIdRemoved, OutOfMemory
<1>7. ASSUME NEW t \in All, FillTimer(t) PROVE RemovedIsCanceled'
  BY <1>7, IdLeft DEF FillTimer
<1>8. ASSUME NEW t \in All, MapTimer(t) PROVE RemovedIsCanceled'
  BY <1>8 DEF MapTimer
<1>9. ASSUME NEW t \in All, PushPending(t) PROVE RemovedIsCanceled'
  BY <1>9 DEF PushPending
<1>10. ASSUME NEW t \in All, SignalThread(t) PROVE RemovedIsCanceled'
  BY <1>10 DEF SignalThread, Signalled
<1>11. ASSUME NEW t \in All, ReturnId(t) PROVE RemovedIsCanceled'
  BY <1>11 DEF ReturnId
<1>12. ASSUME NEW t \in All, UnlinkOld(t) PROVE RemovedIsCanceled'
  BY <1>12 DEF UnlinkOld
<1>13. ASSUME NEW t \in All, ReadCanceled(t) PROVE RemovedIsCanceled'
  BY <1>13 DEF ReadCanceled, FreeEntry, RemoveReturns
<1>14. ASSUME NEW t \in All, SetCanceled(t) PROVE RemovedIsCanceled'
  BY <1>14 DEF SetCanceled, FreeEntry, RemoveReturns
<1>15. ASSUME NEW t \in All, ShouldQuit(t) PROVE RemovedIsCanceled'
  BY <1>15 DEF ShouldQuit
<1>16. ASSUME NEW t \in All, SignalQuit(t) PROVE RemovedIsCanceled'
  BY <1>16 DEF SignalQuit, Woken
<1>17. ASSUME NEW t \in All, WaitThread(t) PROVE RemovedIsCanceled'
  BY <1>17 DEF WaitThread
<1>18. ASSUME NEW t \in All, FreeAll(t) PROVE RemovedIsCanceled'
  BY <1>18 DEF FreeAll
<1>19. CASE Maintain
  BY <1>19 DEF Maintain, GivenAway
<1>20. CASE CheckActive
  BY <1>20 DEF CheckActive
<1>21. CASE ProcessTimer
  <2>1. PICK s \in Slots : canceled' \in {canceled, [canceled EXCEPT ![s] = TRUE]}
    BY <1>21 DEF ProcessTimer, Skips, Retire
  <2> QED
    BY <1>21, <2>1 DEF ProcessTimer
<1>22. CASE CallbackReturns
  BY <1>22 DEF CallbackReturns, Retire
<1>23. CASE NoneDue
  BY <1>23 DEF NoneDue
<1>24. CASE WaitSemaphore
  BY <1>24 DEF WaitSemaphore, LoopTop
<1>25. CASE CallBack
  BY <1>25 DEF CallBack
<1>26. CASE UNCHANGED vars
  BY <1>26 DEF vars
<1> QED
  BY <1>1, <1>2, <1>3, <1>4, <1>5, <1>6, <1>7, <1>8, <1>9, <1>10, <1>11, <1>12,
     <1>13, <1>14, <1>15, <1>16, <1>17, <1>18, <1>19, <1>20, <1>21, <1>22,
     <1>23, <1>24, <1>25, <1>26
  DEF Next, App, Call, Timer

\* What is said of the map is kept.
LEMMA MapStep == CallInv /\ MapInv /\ [Next]_vars => MapInv'
BY OwnedStep, NewIdsStep, EntryStep, RemovedStep DEF MapInv

\* The timer thread takes a timer to be called only if it was not canceled.
LEMMA CallbacksCheck ==
  CallInv /\ MapInv /\ [Next]_vars
    => \/ current' \in {current, NoSlot}
       \/ current' \in Slots /\ ~canceled[current']
<1> SUFFICES ASSUME CallInv, MapInv, [Next]_vars,
                    current' \notin {current, NoSlot}
             PROVE  current' \in Slots /\ ~canceled[current']
  OBVIOUS
<1> USE DEF CallInv, TypeOK, All, Ids, Goto, At, threadVars, sharedVars, mapVars, timerVars,
        callVars, history
<1>1. ASSUME NEW t \in All, BeginCreate(t) PROVE current' \in Slots /\ ~canceled[current']
  BY <1>1 DEF BeginCreate, MayCall, ShouldInit
<1>2. ASSUME NEW t \in All, BeginRemove(t) PROVE current' \in Slots /\ ~canceled[current']
  BY <1>2 DEF BeginRemove, MayCall
<1>3. ASSUME NEW t \in All, BeginQuit(t) PROVE current' \in Slots /\ ~canceled[current']
  BY <1>3 DEF BeginQuit
<1>4. ASSUME NEW t \in All, WaitInit(t) PROVE current' \in Slots /\ ~canceled[current']
  BY <1>4 DEF WaitInit, ShouldInit
<1>5. ASSUME NEW t \in All, InitTimers(t) PROVE current' \in Slots /\ ~canceled[current']
  BY <1>5 DEF InitTimers
<1>6. ASSUME NEW t \in All, PopFreelist(t) PROVE current' \in Slots /\ ~canceled[current']
  BY <1>6 DEF PopFreelist, OldIdRemoved, OutOfMemory
<1>7. ASSUME NEW t \in All, FillTimer(t) PROVE current' \in Slots /\ ~canceled[current']
  BY <1>7 DEF FillTimer
<1>8. ASSUME NEW t \in All, MapTimer(t) PROVE current' \in Slots /\ ~canceled[current']
  BY <1>8 DEF MapTimer
<1>9. ASSUME NEW t \in All, PushPending(t) PROVE current' \in Slots /\ ~canceled[current']
  BY <1>9 DEF PushPending
<1>10. ASSUME NEW t \in All, SignalThread(t) PROVE current' \in Slots /\ ~canceled[current']
  BY <1>10 DEF SignalThread, Signalled
<1>11. ASSUME NEW t \in All, ReturnId(t) PROVE current' \in Slots /\ ~canceled[current']
  BY <1>11 DEF ReturnId
<1>12. ASSUME NEW t \in All, UnlinkOld(t) PROVE current' \in Slots /\ ~canceled[current']
  BY <1>12 DEF UnlinkOld
<1>13. ASSUME NEW t \in All, ReadCanceled(t) PROVE current' \in Slots /\ ~canceled[current']
  BY <1>13 DEF ReadCanceled, FreeEntry, RemoveReturns
<1>14. ASSUME NEW t \in All, SetCanceled(t) PROVE current' \in Slots /\ ~canceled[current']
  BY <1>14 DEF SetCanceled, FreeEntry, RemoveReturns
<1>15. ASSUME NEW t \in All, ShouldQuit(t) PROVE current' \in Slots /\ ~canceled[current']
  BY <1>15 DEF ShouldQuit
<1>16. ASSUME NEW t \in All, SignalQuit(t) PROVE current' \in Slots /\ ~canceled[current']
  BY <1>16 DEF SignalQuit, Woken
<1>17. ASSUME NEW t \in All, WaitThread(t) PROVE current' \in Slots /\ ~canceled[current']
  BY <1>17 DEF WaitThread
<1>18. ASSUME NEW t \in All, FreeAll(t) PROVE current' \in Slots /\ ~canceled[current']
  BY <1>18 DEF FreeAll
<1>19. CASE Maintain
  BY <1>19 DEF Maintain, GivenAway
<1>20. CASE CheckActive
  BY <1>20 DEF CheckActive
<1>21. CASE ProcessTimer
  BY <1>21 DEF ProcessTimer, Skips, Retire
<1>22. CASE CallbackReturns
  BY <1>22 DEF CallbackReturns, Retire
<1>23. CASE NoneDue
  BY <1>23 DEF NoneDue
<1>24. CASE WaitSemaphore
  BY <1>24 DEF WaitSemaphore, LoopTop
<1>25. CASE CallBack
  BY <1>25 DEF CallBack
<1>26. CASE UNCHANGED vars
  BY <1>26 DEF vars
<1> QED
  BY <1>1, <1>2, <1>3, <1>4, <1>5, <1>6, <1>7, <1>8, <1>9, <1>10, <1>11, <1>12,
     <1>13, <1>14, <1>15, <1>16, <1>17, <1>18, <1>19, <1>20, <1>21, <1>22,
     <1>23, <1>24, <1>25, <1>26
  DEF Next, App, Call, Timer

\* Once SDL_RemoveTimer has returned true for a timer the thread does not take it
\* to be called, whatever calls overlap: of several removals of an id one finds
\* it, and the flag it sets is its timer's until the structure gets a new id.  A
\* call decided on before is all that can still come (NoCallAfterRemoval fails).
THEOREM RemovedIsNotTaken == Spec => RemovedIsSkipped
<1>1. CallInv /\ MapInv /\ [Next]_vars
        => [current' # current /\ current' # NoSlot
              => timerID[current'] \notin removed]_vars
  BY CallbacksCheck DEF MapInv, RemovedIsCanceled
<1> QED
  BY <1>1, CallInit, CallStep, MapInit, MapStep, PTL DEF Spec, RemovedIsSkipped

-------------------------------------------------------------------------------
(* Calls that do not overlap *)


\* Serialised calls do not overlap.
LEMMA CallsApartStep ==
  CallInv /\ ThreadInv /\ SerialInv /\ serialised /\ [Next]_vars
    => CallsApart'
<1> SUFFICES ASSUME CallInv, ThreadInv, SerialInv,
                    serialised, [Next]_vars
             PROVE  CallsApart'
  OBVIOUS
<1> USE SDLTimerAssumption
    DEF CallInv, TypeOK, HandsKept, ThreadInv, LoopInv, OneChanges, SerialInv, CallsApart,
    InQuit,
        All, Ids, Goto, At, threadVars, sharedVars, mapVars, timerVars,
        callVars, history
<1>1. ASSUME NEW t \in All, BeginCreate(t) PROVE CallsApart'
  BY <1>1 DEF BeginCreate, MayCall, ShouldInit
<1>2. ASSUME NEW t \in All, BeginRemove(t) PROVE CallsApart'
  BY <1>2 DEF BeginRemove, MayCall
<1>3. ASSUME NEW t \in All, BeginQuit(t) PROVE CallsApart'
  BY <1>3 DEF BeginQuit
<1>4. ASSUME NEW t \in All, WaitInit(t) PROVE CallsApart'
  BY <1>4 DEF WaitInit, ShouldInit
<1>5. ASSUME NEW t \in All, InitTimers(t) PROVE CallsApart'
  BY <1>5 DEF InitTimers
<1>6. ASSUME NEW t \in All, PopFreelist(t) PROVE CallsApart'
  BY <1>6 DEF PopFreelist, OldIdRemoved, OutOfMemory
<1>7. ASSUME NEW t \in All, FillTimer(t) PROVE CallsApart'
  BY <1>7 DEF FillTimer
<1>8. ASSUME NEW t \in All, MapTimer(t) PROVE CallsApart'
  BY <1>8 DEF MapTimer
<1>9. ASSUME NEW t \in All, PushPending(t) PROVE CallsApart'
  BY <1>9 DEF PushPending
<1>10. ASSUME NEW t \in All, SignalThread(t) PROVE CallsApart'
  BY <1>10 DEF SignalThread, Signalled
<1>11. ASSUME NEW t \in All, ReturnId(t) PROVE CallsApart'
  BY <1>11 DEF ReturnId
<1>12. ASSUME NEW t \in All, UnlinkOld(t) PROVE CallsApart'
  BY <1>12 DEF UnlinkOld
<1>13. ASSUME NEW t \in All, ReadCanceled(t) PROVE CallsApart'
  BY <1>13 DEF ReadCanceled, FreeEntry, RemoveReturns
<1>14. ASSUME NEW t \in All, SetCanceled(t) PROVE CallsApart'
  BY <1>14 DEF SetCanceled, FreeEntry, RemoveReturns
<1>15. ASSUME NEW t \in All, ShouldQuit(t) PROVE CallsApart'
  BY <1>15 DEF ShouldQuit
<1>16. ASSUME NEW t \in All, SignalQuit(t) PROVE CallsApart'
  BY <1>16 DEF SignalQuit, Woken
<1>17. ASSUME NEW t \in All, WaitThread(t) PROVE CallsApart'
  BY <1>17 DEF WaitThread
<1>18. ASSUME NEW t \in All, FreeAll(t) PROVE CallsApart'
  BY <1>18 DEF FreeAll
<1>19. CASE Maintain
  BY <1>19 DEF Maintain, GivenAway
<1>20. CASE CheckActive
  BY <1>20 DEF CheckActive
<1>21. CASE ProcessTimer
  BY <1>21 DEF ProcessTimer, Skips, Retire
<1>22. CASE CallbackReturns
  BY <1>22 DEF CallbackReturns, Retire
<1>23. CASE NoneDue
  BY <1>23 DEF NoneDue
<1>24. CASE WaitSemaphore
  BY <1>24 DEF WaitSemaphore, LoopTop
<1>25. CASE CallBack
  BY <1>25 DEF CallBack
<1>26. CASE UNCHANGED vars
  BY <1>26 DEF vars
<1> QED
  BY <1>1, <1>2, <1>3, <1>4, <1>5, <1>6, <1>7, <1>8, <1>9, <1>10, <1>11, <1>12,
     <1>13, <1>14, <1>15, <1>16, <1>17, <1>18, <1>19, <1>20, <1>21, <1>22,
     <1>23, <1>24, <1>25, <1>26
  DEF Next, App, Call, Timer

\* Serialised calls add timers when these are initialised.
LEMMA AddsStep ==
  CallInv /\ ThreadInv /\ SerialInv /\ serialised /\ [Next]_vars
    => AddsWhenInit'
<1> SUFFICES ASSUME CallInv, ThreadInv, SerialInv,
                    serialised, [Next]_vars
             PROVE  AddsWhenInit'
  OBVIOUS
<1> USE SDLTimerAssumption
    DEF CallInv, TypeOK, HandsKept, ThreadInv, LoopInv, OneChanges, SerialInv, CallsApart,
    InQuit, AddsWhenInit,
        All, Ids, Goto, At, threadVars, sharedVars, mapVars, timerVars,
        callVars, history
<1>1. ASSUME NEW t \in All, BeginCreate(t) PROVE AddsWhenInit'
  BY <1>1 DEF BeginCreate, MayCall, ShouldInit
<1>2. ASSUME NEW t \in All, BeginRemove(t) PROVE AddsWhenInit'
  BY <1>2 DEF BeginRemove, MayCall
<1>3. ASSUME NEW t \in All, BeginQuit(t) PROVE AddsWhenInit'
  BY <1>3 DEF BeginQuit
<1>4. ASSUME NEW t \in All, WaitInit(t) PROVE AddsWhenInit'
  BY <1>4 DEF WaitInit, ShouldInit
<1>5. ASSUME NEW t \in All, InitTimers(t) PROVE AddsWhenInit'
  BY <1>5 DEF InitTimers
<1>6. ASSUME NEW t \in All, PopFreelist(t) PROVE AddsWhenInit'
  BY <1>6 DEF PopFreelist, OldIdRemoved, OutOfMemory
<1>7. ASSUME NEW t \in All, FillTimer(t) PROVE AddsWhenInit'
  BY <1>7 DEF FillTimer
<1>8. ASSUME NEW t \in All, MapTimer(t) PROVE AddsWhenInit'
  BY <1>8 DEF MapTimer
<1>9. ASSUME NEW t \in All, PushPending(t) PROVE AddsWhenInit'
  BY <1>9 DEF PushPending
<1>10. ASSUME NEW t \in All, SignalThread(t) PROVE AddsWhenInit'
  BY <1>10 DEF SignalThread, Signalled
<1>11. ASSUME NEW t \in All, ReturnId(t) PROVE AddsWhenInit'
  BY <1>11 DEF ReturnId
<1>12. ASSUME NEW t \in All, UnlinkOld(t) PROVE AddsWhenInit'
  BY <1>12 DEF UnlinkOld
<1>13. ASSUME NEW t \in All, ReadCanceled(t) PROVE AddsWhenInit'
  BY <1>13 DEF ReadCanceled, FreeEntry, RemoveReturns
<1>14. ASSUME NEW t \in All, SetCanceled(t) PROVE AddsWhenInit'
  BY <1>14 DEF SetCanceled, FreeEntry, RemoveReturns
<1>15. ASSUME NEW t \in All, ShouldQuit(t) PROVE AddsWhenInit'
  BY <1>15 DEF ShouldQuit
<1>16. ASSUME NEW t \in All, SignalQuit(t) PROVE AddsWhenInit'
  BY <1>16 DEF SignalQuit, Woken
<1>17. ASSUME NEW t \in All, WaitThread(t) PROVE AddsWhenInit'
  BY <1>17 DEF WaitThread
<1>18. ASSUME NEW t \in All, FreeAll(t) PROVE AddsWhenInit'
  BY <1>18 DEF FreeAll
<1>19. CASE Maintain
  BY <1>19 DEF Maintain, GivenAway
<1>20. CASE CheckActive
  BY <1>20 DEF CheckActive
<1>21. CASE ProcessTimer
  BY <1>21 DEF ProcessTimer, Skips, Retire
<1>22. CASE CallbackReturns
  BY <1>22 DEF CallbackReturns, Retire
<1>23. CASE NoneDue
  BY <1>23 DEF NoneDue
<1>24. CASE WaitSemaphore
  BY <1>24 DEF WaitSemaphore, LoopTop
<1>25. CASE CallBack
  BY <1>25 DEF CallBack
<1>26. CASE UNCHANGED vars
  BY <1>26 DEF vars
<1> QED
  BY <1>1, <1>2, <1>3, <1>4, <1>5, <1>6, <1>7, <1>8, <1>9, <1>10, <1>11, <1>12,
     <1>13, <1>14, <1>15, <1>16, <1>17, <1>18, <1>19, <1>20, <1>21, <1>22,
     <1>23, <1>24, <1>25, <1>26
  DEF Next, App, Call, Timer

\* When calls are serialised, an entry's timer has its id still.
LEMMA TrueStep ==
  CallInv /\ ThreadInv /\ PlaceInv /\ MapInv /\ SerialInv /\ serialised /\ [Next]_vars
    => EntriesAreTrue'
<1> SUFFICES ASSUME CallInv, ThreadInv, PlaceInv, MapInv, SerialInv,
                    serialised, [Next]_vars
             PROVE  EntriesAreTrue'
  OBVIOUS
<1> USE SDLTimerAssumption
    DEF CallInv, TypeOK, HandsKept, ThreadInv, LoopInv, OneChanges, SerialInv, CallsApart,
    InQuit,
        EntriesAreTrue, OldIdUnlinked, MapInv, EntriesOwned, Owns, IdsAreNew,
        All, Ids, Goto, At, threadVars, sharedVars, mapVars, timerVars,
        callVars, history
<1>1. ASSUME NEW t \in All, BeginCreate(t) PROVE EntriesAreTrue'
  BY <1>1 DEF BeginCreate, MayCall, ShouldInit
<1>2. ASSUME NEW t \in All, BeginRemove(t) PROVE EntriesAreTrue'
  BY <1>2 DEF BeginRemove, MayCall
<1>3. ASSUME NEW t \in All, BeginQuit(t) PROVE EntriesAreTrue'
  BY <1>3 DEF BeginQuit
<1>4. ASSUME NEW t \in All, WaitInit(t) PROVE EntriesAreTrue'
  BY <1>4 DEF WaitInit, ShouldInit
<1>5. ASSUME NEW t \in All, InitTimers(t) PROVE EntriesAreTrue'
  BY <1>5 DEF InitTimers
<1>6. ASSUME NEW t \in All, PopFreelist(t) PROVE EntriesAreTrue'
  BY <1>6 DEF PopFreelist, OldIdRemoved, OutOfMemory
<1>7. ASSUME NEW t \in All, FillTimer(t) PROVE EntriesAreTrue'
  <2>1. /\ next_id \in Ids /\ next_id \notin timermap /\ timer[t] \in Slots
        /\ pc[t] = "fill" /\ timerID' = [timerID EXCEPT ![timer[t]] = next_id]
        /\ UNCHANGED timermap
    <3>1. next_id \in Ids
      BY <1>7, IdLeft
    <3>2. next_id \notin timermap
      BY <3>1
    <3> QED
      BY <1>7, <3>1, <3>2 DEF FillTimer
  <2>2. \A u \in All \ {t} : pc[u] = "idle" \/ InQuit(u)
    BY <2>1
  <2>3. \A i \in timermap : entry[i] # timer[t]
    BY <2>1
  <2>4. CASE UNCHANGED entry /\ pc' = [pc EXCEPT ![t] = "idle"]
             /\ id' = [id EXCEPT ![t] = 0]
    BY <2>1, <2>2, <2>3, <2>4
  <2>5. CASE /\ entry' = [entry EXCEPT ![next_id] = timer[t]]
             /\ id' = [id EXCEPT ![t] = next_id]
             /\ pc' = [pc EXCEPT ![t] = "map"] /\ UNCHANGED timer
    BY <2>1, <2>2, <2>3, <2>5
  <2> QED
    BY <1>7, <2>4, <2>5 DEF FillTimer
<1>8. ASSUME NEW t \in All, MapTimer(t) PROVE EntriesAreTrue'
  BY <1>8 DEF MapTimer
<1>9. ASSUME NEW t \in All, PushPending(t) PROVE EntriesAreTrue'
  BY <1>9 DEF PushPending
<1>10. ASSUME NEW t \in All, SignalThread(t) PROVE EntriesAreTrue'
  BY <1>10 DEF SignalThread, Signalled
<1>11. ASSUME NEW t \in All, ReturnId(t) PROVE EntriesAreTrue'
  BY <1>11 DEF ReturnId
<1>12. ASSUME NEW t \in All, UnlinkOld(t) PROVE EntriesAreTrue'
  BY <1>12 DEF UnlinkOld
<1>13. ASSUME NEW t \in All, ReadCanceled(t) PROVE EntriesAreTrue'
  BY <1>13 DEF ReadCanceled, FreeEntry, RemoveReturns
<1>14. ASSUME NEW t \in All, SetCanceled(t) PROVE EntriesAreTrue'
  BY <1>14 DEF SetCanceled, FreeEntry, RemoveReturns
<1>15. ASSUME NEW t \in All, ShouldQuit(t) PROVE EntriesAreTrue'
  BY <1>15 DEF ShouldQuit
<1>16. ASSUME NEW t \in All, SignalQuit(t) PROVE EntriesAreTrue'
  BY <1>16 DEF SignalQuit, Woken
<1>17. ASSUME NEW t \in All, WaitThread(t) PROVE EntriesAreTrue'
  BY <1>17 DEF WaitThread
<1>18. ASSUME NEW t \in All, FreeAll(t) PROVE EntriesAreTrue'
  BY <1>18 DEF FreeAll
<1>19. CASE Maintain
  BY <1>19 DEF Maintain, GivenAway
<1>20. CASE CheckActive
  BY <1>20 DEF CheckActive
<1>21. CASE ProcessTimer
  BY <1>21 DEF ProcessTimer, Skips, Retire
<1>22. CASE CallbackReturns
  BY <1>22 DEF CallbackReturns, Retire
<1>23. CASE NoneDue
  BY <1>23 DEF NoneDue
<1>24. CASE WaitSemaphore
  BY <1>24 DEF WaitSemaphore, LoopTop
<1>25. CASE CallBack
  BY <1>25 DEF CallBack
<1>26. CASE UNCHANGED vars
  BY <1>26 DEF vars
<1> QED
  BY <1>1, <1>2, <1>3, <1>4, <1>5, <1>6, <1>7, <1>8, <1>9, <1>10, <1>11, <1>12,
     <1>13, <1>14, <1>15, <1>16, <1>17, <1>18, <1>19, <1>20, <1>21, <1>22,
     <1>23, <1>24, <1>25, <1>26
  DEF Next, App, Call, Timer

\* When calls are serialised, the id of a timer given a new one is unlinked.
LEMMA OldIdStep ==
  CallInv /\ ThreadInv /\ PlaceInv /\ MapInv /\ SerialInv /\ serialised /\ [Next]_vars
    => OldIdUnlinked'
<1> SUFFICES ASSUME CallInv, ThreadInv, PlaceInv, MapInv, SerialInv,
                    serialised, [Next]_vars
             PROVE  OldIdUnlinked'
  OBVIOUS
<1> USE SDLTimerAssumption
    DEF CallInv, TypeOK, HandsKept, ThreadInv, LoopInv, OneChanges, SerialInv, CallsApart,
    InQuit,
        EntriesAreTrue, OldIdUnlinked, MapInv, EntriesOwned, Owns, IdsAreNew,
        EntryOfTimer, PlaceInv, PlacesInMemory,
        All, Ids, Goto, At, threadVars, sharedVars, mapVars, timerVars,
        callVars, history
<1>1. ASSUME NEW t \in All, BeginCreate(t) PROVE OldIdUnlinked'
  BY <1>1 DEF BeginCreate, MayCall, ShouldInit
<1>2. ASSUME NEW t \in All, BeginRemove(t) PROVE OldIdUnlinked'
  BY <1>2 DEF BeginRemove, MayCall
<1>3. ASSUME NEW t \in All, BeginQuit(t) PROVE OldIdUnlinked'
  BY <1>3 DEF BeginQuit
<1>4. ASSUME NEW t \in All, WaitInit(t) PROVE OldIdUnlinked'
  BY <1>4 DEF WaitInit, ShouldInit
<1>5. ASSUME NEW t \in All, InitTimers(t) PROVE OldIdUnlinked'
  BY <1>5 DEF InitTimers
<1>6. ASSUME NEW t \in All, PopFreelist(t) PROVE OldIdUnlinked'
  BY <1>6 DEF PopFreelist, OldIdRemoved, OutOfMemory
<1>7. ASSUME NEW t \in All, FillTimer(t) PROVE OldIdUnlinked'
  <2>1. /\ next_id \in Ids /\ next_id \notin timermap /\ timer[t] \in Slots
        /\ pc[t] = "fill" /\ timerID' = [timerID EXCEPT ![timer[t]] = next_id]
        /\ UNCHANGED timermap
    <3>1. next_id \in Ids
      BY <1>7, IdLeft
    <3>2. next_id \notin timermap
      BY <3>1
    <3> QED
      BY <1>7, <3>1, <3>2 DEF FillTimer
  <2>2. \A u \in All \ {t} : pc[u] = "idle" \/ InQuit(u)
    BY <2>1
  <2>3. CASE /\ pc' = [pc EXCEPT ![t] = "idle"]
             /\ allocated' = allocated \ {timer[t]}
             /\ timer' = [timer EXCEPT ![t] = NoSlot]
             /\ id' = [id EXCEPT ![t] = 0]
    BY <2>1, <2>2, <2>3
  <2>4. CASE /\ id' = [id EXCEPT ![t] = next_id]
             /\ pc' = [pc EXCEPT ![t] = "map"]
             /\ UNCHANGED <<allocated, timer>>
    <3>1. timer[t] \in allocated
      BY <2>1
    <3> QED
      BY <2>1, <2>2, <2>4, <3>1
  <2> QED
    BY <1>7, <2>3, <2>4 DEF FillTimer
<1>8. ASSUME NEW t \in All, MapTimer(t) PROVE OldIdUnlinked'
  BY <1>8 DEF MapTimer
<1>9. ASSUME NEW t \in All, PushPending(t) PROVE OldIdUnlinked'
  BY <1>9 DEF PushPending
<1>10. ASSUME NEW t \in All, SignalThread(t) PROVE OldIdUnlinked'
  BY <1>10 DEF SignalThread, Signalled
<1>11. ASSUME NEW t \in All, ReturnId(t) PROVE OldIdUnlinked'
  BY <1>11 DEF ReturnId
<1>12. ASSUME NEW t \in All, UnlinkOld(t) PROVE OldIdUnlinked'
  BY <1>12 DEF UnlinkOld
<1>13. ASSUME NEW t \in All, ReadCanceled(t) PROVE OldIdUnlinked'
  BY <1>13 DEF ReadCanceled, FreeEntry, RemoveReturns
<1>14. ASSUME NEW t \in All, SetCanceled(t) PROVE OldIdUnlinked'
  BY <1>14 DEF SetCanceled, FreeEntry, RemoveReturns
<1>15. ASSUME NEW t \in All, ShouldQuit(t) PROVE OldIdUnlinked'
  BY <1>15 DEF ShouldQuit
<1>16. ASSUME NEW t \in All, SignalQuit(t) PROVE OldIdUnlinked'
  BY <1>16 DEF SignalQuit, Woken
<1>17. ASSUME NEW t \in All, WaitThread(t) PROVE OldIdUnlinked'
  BY <1>17 DEF WaitThread
<1>18. ASSUME NEW t \in All, FreeAll(t) PROVE OldIdUnlinked'
  BY <1>18 DEF FreeAll
<1>19. CASE Maintain
  BY <1>19 DEF Maintain, GivenAway
<1>20. CASE CheckActive
  BY <1>20 DEF CheckActive
<1>21. CASE ProcessTimer
  BY <1>21 DEF ProcessTimer, Skips, Retire
<1>22. CASE CallbackReturns
  BY <1>22 DEF CallbackReturns, Retire
<1>23. CASE NoneDue
  BY <1>23 DEF NoneDue
<1>24. CASE WaitSemaphore
  BY <1>24 DEF WaitSemaphore, LoopTop
<1>25. CASE CallBack
  BY <1>25 DEF CallBack
<1>26. CASE UNCHANGED vars
  BY <1>26 DEF vars
<1> QED
  BY <1>1, <1>2, <1>3, <1>4, <1>5, <1>6, <1>7, <1>8, <1>9, <1>10, <1>11, <1>12,
     <1>13, <1>14, <1>15, <1>16, <1>17, <1>18, <1>19, <1>20, <1>21, <1>22,
     <1>23, <1>24, <1>25, <1>26
  DEF Next, App, Call, Timer

TimerInv == CallInv /\ ThreadInv /\ PlaceInv /\ MapInv /\ SerialInv

\* The invariant holds at first.
LEMMA TimerInvInit == Init => TimerInv
<1>1. Init => SerialInv
  BY SDLTimerAssumption
     DEF Init, SerialInv, CallsApart, AddsWhenInit, EntriesAreTrue,
         OldIdUnlinked, All
<1> QED
  BY <1>1, CallInit, ThreadInit, PlaceInit, MapInit DEF TimerInv

\* Whether calls are serialised does not change.
LEMMA SerialisedStays == [Next]_vars => serialised' = serialised
<1> SUFFICES ASSUME [Next]_vars PROVE serialised' = serialised
  OBVIOUS
<1>1. ASSUME NEW t \in All, BeginCreate(t) PROVE serialised' = serialised
  BY <1>1 DEF BeginCreate, MayCall, ShouldInit
<1>2. ASSUME NEW t \in All, BeginRemove(t) PROVE serialised' = serialised
  BY <1>2 DEF BeginRemove, MayCall
<1>3. ASSUME NEW t \in All, BeginQuit(t) PROVE serialised' = serialised
  BY <1>3 DEF BeginQuit
<1>4. ASSUME NEW t \in All, WaitInit(t) PROVE serialised' = serialised
  BY <1>4 DEF WaitInit, ShouldInit
<1>5. ASSUME NEW t \in All, InitTimers(t) PROVE serialised' = serialised
  BY <1>5 DEF InitTimers
<1>6. ASSUME NEW t \in All, PopFreelist(t) PROVE serialised' = serialised
  BY <1>6 DEF PopFreelist, OldIdRemoved, OutOfMemory
<1>7. ASSUME NEW t \in All, FillTimer(t) PROVE serialised' = serialised
  BY <1>7 DEF FillTimer
<1>8. ASSUME NEW t \in All, MapTimer(t) PROVE serialised' = serialised
  BY <1>8 DEF MapTimer
<1>9. ASSUME NEW t \in All, PushPending(t) PROVE serialised' = serialised
  BY <1>9 DEF PushPending
<1>10. ASSUME NEW t \in All, SignalThread(t) PROVE serialised' = serialised
  BY <1>10 DEF SignalThread, Signalled
<1>11. ASSUME NEW t \in All, ReturnId(t) PROVE serialised' = serialised
  BY <1>11 DEF ReturnId
<1>12. ASSUME NEW t \in All, UnlinkOld(t) PROVE serialised' = serialised
  BY <1>12 DEF UnlinkOld
<1>13. ASSUME NEW t \in All, ReadCanceled(t) PROVE serialised' = serialised
  BY <1>13 DEF ReadCanceled, FreeEntry, RemoveReturns
<1>14. ASSUME NEW t \in All, SetCanceled(t) PROVE serialised' = serialised
  BY <1>14 DEF SetCanceled, FreeEntry, RemoveReturns
<1>15. ASSUME NEW t \in All, ShouldQuit(t) PROVE serialised' = serialised
  BY <1>15 DEF ShouldQuit
<1>16. ASSUME NEW t \in All, SignalQuit(t) PROVE serialised' = serialised
  BY <1>16 DEF SignalQuit, Woken
<1>17. ASSUME NEW t \in All, WaitThread(t) PROVE serialised' = serialised
  BY <1>17 DEF WaitThread
<1>18. ASSUME NEW t \in All, FreeAll(t) PROVE serialised' = serialised
  BY <1>18 DEF FreeAll
<1>19. CASE Maintain
  BY <1>19 DEF Maintain, GivenAway
<1>20. CASE CheckActive
  BY <1>20 DEF CheckActive
<1>21. CASE ProcessTimer
  BY <1>21 DEF ProcessTimer, Skips, Retire
<1>22. CASE CallbackReturns
  BY <1>22 DEF CallbackReturns, Retire
<1>23. CASE NoneDue
  BY <1>23 DEF NoneDue
<1>24. CASE WaitSemaphore
  BY <1>24 DEF WaitSemaphore, LoopTop
<1>25. CASE CallBack
  BY <1>25 DEF CallBack
<1>26. CASE UNCHANGED vars
  BY <1>26 DEF vars
<1> QED
  BY <1>1, <1>2, <1>3, <1>4, <1>5, <1>6, <1>7, <1>8, <1>9, <1>10, <1>11, <1>12,
     <1>13, <1>14, <1>15, <1>16, <1>17, <1>18, <1>19, <1>20, <1>21, <1>22,
     <1>23, <1>24, <1>25, <1>26
  DEF Next, App, Call, Timer

\* The invariant is kept.
LEMMA TimerInvStep == TimerInv /\ [Next]_vars => TimerInv'
<1>1. TimerInv /\ [Next]_vars => SerialInv'
  BY SerialisedStays, CallsApartStep, AddsStep, TrueStep, OldIdStep
  DEF TimerInv, SerialInv
<1> QED
  BY <1>1, CallStep, ThreadStep, PlaceStep, MapStep DEF TimerInv

\* The invariant holds in every state the program can be in.
LEMMA TimerInvariant == Spec => []TimerInv
BY TimerInvInit, TimerInvStep, PTL DEF Spec

\* With one call at a time the timer that SDL_RemoveTimer cancels, after it let
\* go of the map's mutex, is the one whose id it was given.
THEOREM RemovalHitsItsOwn == Spec => CancelsItsOwn
<1>1. TimerInv =>
        \A t \in All : SetCanceled(t) /\ serialised
                        => timerID[entry[id[t]]] = id[t]
  BY DEF TimerInv, SerialInv, EntriesAreTrue, SetCanceled, At
<1>2. TimerInv =>
        [\A t \in All : SetCanceled(t) /\ serialised
                         => timerID[entry[id[t]]] = id[t]]_vars
  BY <1>1
<1> QED
  BY <1>2, TimerInvariant, PTL DEF CancelsItsOwn

\* After SDL_QuitTimers nothing but the timers the thread has not taken up, and no
\* entry of the map, is left in memory, with one call at a time.
THEOREM QuitLeavesPendingOnly == Spec => []QuitFreesAll
<1>1. TimerInv => QuitFreesAll
  <2> SUFFICES ASSUME TimerInv, serialised, status = "uninit",
                      \A t \in All : pc[t] = "idle"
               PROVE  allocated = pending /\ \A i \in Ids : entry[i] = NoSlot
    BY DEF QuitFreesAll, At
  <2>1. freelist = {} /\ timers = {} /\ unused = {} /\ current = NoSlot
    BY DEF TimerInv, CallInv, TypeOK, ThreadInv, LoopInv
  <2>2. \A t \in All : timer[t] = NoSlot
    BY DEF TimerInv, CallInv, HandsKept
  <2>3. allocated = pending
    <3>1. allocated \subseteq Slots /\ pending \subseteq Slots
      BY DEF TimerInv, CallInv, TypeOK
    <3>2. \A s \in Slots : s \in allocated <=> s \in pending
      BY <2>1, <2>2, SDLTimerAssumption
      DEF TimerInv, PlaceInv, PlacesInMemory, Listed
    <3> QED
      BY <3>1, <3>2
  <2>4. timermap = {}
    BY DEF TimerInv, SerialInv, AddsWhenInit
  <2>5. \A i \in Ids : entry[i] = NoSlot
    BY <2>4 DEF TimerInv, CallInv, TypeOK, MapInv, EntriesOwned, Owns
  <2> QED
    BY <2>3, <2>5
<1> QED
  BY <1>1, TimerInvariant, PTL

=================================================================================
