------------------------- MODULE CloudSessionProofs -------------------------
(***************************************************************************)
(* Theorems about CloudSession, for any number of slots, other sandboxes,  *)
(* containers, failing calls, evictions and deletions: its types, and that *)
(* a container runs in its slot and has its alarm and its records.         *)
(*                                                                         *)
(* The records of storage, budget and container are kept folded (Stores,   *)
(* Budgets, Boxes): small lemmas say what the model's updates make of      *)
(* them, and the steps cite those.                                         *)
(***************************************************************************)
EXTENDS CloudSession, TLAPS

Budgets == [slot : BOOLEAN, others : 0..MaxInstances]
Stores  == [since : BOOLEAN, tick : BOOLEAN, secret : 0..MaxStarts,
            alarm : BOOLEAN]
Boxes   == [gen : 0..MaxStarts, running : BOOLEAN]
Phases  == {"none", "watch", "charge", "release"}

(* A container that runs has a name, and that name's monitor watches it.    *)
Watched == box.running => box.gen \in Gens /\ stop[box.gen] = "watch"

(* What makes TypeOK inductive, without the two history variables that no    *)
(* handler reads.                                                           *)
TypeInv ==
    /\ budget \in Budgets
    /\ store \in Stores
    /\ box \in Boxes
    /\ tab \in {"none", "admitted", "waiting", "open"}
    /\ start \in {"none", "health", "restore", "undo"}
    /\ stop \in [Stoppers -> Phases]
    /\ alarm \in {"none", "charge", "state", "save", "destroy"}
    /\ del \in {"none", "charge", "destroy", "purge", "release"}
    /\ cut \in BOOLEAN
    /\ Watched

HistoryTypes == orphan \in BOOLEAN /\ lapsed \in BOOLEAN

-----------------------------------------------------------------------------
(* The bounds are numbers.                                                  *)
LEMMA Bounds == MaxStarts \in Nat /\ MaxInstances \in Nat \ {0}
  BY LimitAssumption, BoundsAssumption

(* Who runs onStopped, and the bounds' zeros, are among the values typed.    *)
LEMMA Names ==
    /\ Gens \subseteq Stoppers /\ AlarmStop \in Stoppers /\ AttachStop \in Stoppers
    /\ AlarmStop \notin Gens /\ AttachStop \notin Gens
    /\ 0 \in 0..MaxStarts /\ 0 \in 0..MaxInstances
    /\ Gens \subseteq 0..MaxStarts
  BY Bounds DEF Stoppers, Gens, AlarmStop, AttachStop

(* The budget stays a budget.                                               *)
LEMMA BudgetType ==
    ASSUME budget \in Budgets, Charge \/ Release \/ UNCHANGED budget
    PROVE  budget' \in Budgets
  BY DEF Budgets, Charge, Release

(* Setting and clearing the session's records leaves records.               *)
LEMMA SetType ==
    ASSUME NEW st \in Stores, NEW b \in BOOLEAN
    PROVE  /\ [st EXCEPT !.alarm = b] \in Stores
           /\ [st EXCEPT !.tick = b] \in Stores
  BY Zenon DEF Stores

(* Clearing the records of a stopped container leaves records.               *)
LEMMA ClearedType ==
    ASSUME NEW st \in Stores
    PROVE  Cleared(st) \in Stores
<1> DEFINE S == 0..MaxStarts
<1>1. 0 \in S
  BY Names
<1> HIDE DEF S
<1> QED
  BY <1>1, Zenon DEF Cleared, Stores, S

(* So does the first step of onStopped.                                     *)
LEMMA StoppedType ==
    ASSUME store \in Stores
    PROVE  Stopped \in Stores
  BY ClearedType DEF Stopped

(* onStopped, begun by one, is a phase of that one only.                    *)
LEMMA StoppingType ==
    ASSUME NEW now \in [Stoppers -> Phases], NEW s \in Stoppers
    PROVE  /\ Stopping(s, now) \in [Stoppers -> Phases]
           /\ \A x \in Stoppers \ {s} : Stopping(s, now)[x] = now[x]
  BY DEF Stopping, Phases

(* A container that is stopped is one that does not run.                    *)
LEMMA BoxType ==
    ASSUME box \in Boxes
    PROVE  /\ box.gen \in 0..MaxStarts /\ box.running \in BOOLEAN
           /\ [box EXCEPT !.running = FALSE] \in Boxes
           /\ [box EXCEPT !.running = FALSE].running = FALSE
  BY Zenon DEF Boxes

(* A container that stops leaves everything well typed.                     *)
LEMMA BoxStopsType ==
    ASSUME TypeInv, BoxStops
    PROVE  /\ box' \in Boxes /\ ~box'.running
           /\ store' \in Stores /\ stop' \in [Stoppers -> Phases]
           /\ tab' \in {"none", "admitted", "waiting", "open"}
           /\ cut' \in BOOLEAN
<1>1. box.gen \in Stoppers
  BY Names DEF TypeInv, Watched, BoxStops
<1>2. box' \in Boxes /\ ~box'.running
  BY BoxType DEF TypeInv, BoxStops
<1>3. store' \in Stores
  BY StoppedType DEF TypeInv, BoxStops
<1>4. stop' \in [Stoppers -> Phases]
  BY <1>1, StoppingType DEF TypeInv, BoxStops
<1>5. cut' \in BOOLEAN
  BY Zenon DEF TypeInv, BoxStops
<1>6. tab' \in {"none", "admitted", "waiting", "open"}
  BY DEF TypeInv, BoxStops
<1> QED
  BY <1>2, <1>3, <1>4, <1>5, <1>6

(* The same after destroy, done or failed.                                  *)
LEMMA DestroyType ==
    ASSUME TypeInv, NEW st \in Stores, Destroyed \/ DestroyFails(st)
    PROVE  /\ box' \in Boxes
           /\ store' \in Stores /\ stop' \in [Stoppers -> Phases]
           /\ tab' \in {"none", "admitted", "waiting", "open"}
           /\ cut' \in BOOLEAN
           /\ Watched'
<1>1. CASE BoxStops
  BY <1>1, BoxStopsType DEF Watched
<1>2. CASE UNCHANGED <<box, stop, store, tab, cut>>
  BY <1>2 DEF TypeInv, Watched
<1>3. CASE DestroyFails(st)
  BY <1>3 DEF DestroyFails, TypeInv, Watched
<1> QED
  BY <1>1, <1>2, <1>3 DEF Destroyed

-----------------------------------------------------------------------------
(* The session that was never opened has its types.                         *)
LEMMA TypeInit == Init => TypeInv
<1> SUFFICES ASSUME Init PROVE TypeInv
  OBVIOUS
<1>1. budget \in Budgets
  BY Names DEF Init, Budgets
<1>2. store \in Stores
  <2> DEFINE S == 0..MaxStarts
  <2>1. 0 \in S
    BY Names
  <2> HIDE DEF S
  <2> QED
    BY <2>1, Zenon DEF Init, Stores, S
<1>3. box \in Boxes /\ box.running = FALSE
  BY Names DEF Init, Boxes
<1>4. stop \in [Stoppers -> Phases]
  BY DEF Init, Phases
<1> QED
  BY <1>1, <1>2, <1>3, <1>4 DEF Init, TypeInv, Watched

(* Every step of every handler keeps them, an eviction between two included. *)
LEMMA TypeStep == TypeInv /\ [Next]_vars => TypeInv'
<1> SUFFICES ASSUME TypeInv, [Next]_vars PROVE TypeInv'
  OBVIOUS
<1> USE Names
<1>1. CASE UNCHANGED vars
  BY <1>1 DEF vars, session, TypeInv, Watched
<1>2. CASE Tab
  <2>1. CASE OpenTab
    BY <2>1, BudgetType DEF OpenTab, TypeInv, Watched
  <2>2. CASE Attach
    <3>1. CASE StartContainer
      <4> DEFINE g == box.gen + 1
      <4>1. g \in Gens
        BY <3>1, BoxType, Bounds DEF StartContainer, TypeInv, Gens
      <4>2. box' = [gen |-> g, running |-> TRUE]
        BY <3>1 DEF StartContainer
      <4>3. box' \in Boxes
        BY <4>1, <4>2 DEF Boxes
      <4>4. store' \in Stores
        BY <3>1, <4>1 DEF StartContainer, TypeInv, Stores
      <4>5. /\ stop' \in [Stoppers -> Phases]
            /\ stop'[g] = "watch"
        BY <3>1, <4>1 DEF StartContainer, TypeInv, Phases
      <4> QED
        BY <2>2, <4>1, <4>2, <4>3, <4>4, <4>5 DEF Attach, TypeInv, Watched
    <3>2. CASE UNCHANGED <<box, store, stop>>
      BY <2>2, <3>2 DEF Attach, TypeInv, Watched
    <3> QED
      BY <2>2, <3>1, <3>2 DEF Attach
  <2>3. CASE TabLeaves
    BY <2>3 DEF TabLeaves, TypeInv, Watched
  <2> QED
    BY <1>2, <2>1, <2>2, <2>3 DEF Tab
<1>3. CASE Start
  <2>1. CASE Started(store) /\ UNCHANGED <<budget, box, stop, alarm, del, cut>>
    BY <2>1, SetType DEF Started, TypeInv, Watched
  <2>2. CASE StartHealthy
    BY <2>1, <2>2 DEF StartHealthy, TypeInv, Watched
  <2>3. CASE StartRestored
    BY <2>1, <2>3 DEF StartRestored
  <2>4. CASE StartFails
    BY <2>4 DEF StartFails, TypeInv, Watched
  <2>5. CASE StartUndone
    <3> DEFINE ended == IF box.running THEN Stopping(box.gen, stop) ELSE stop
               st    == IF box.running THEN Stopped ELSE store
    <3>1. ended \in [Stoppers -> Phases]
      BY StoppingType DEF TypeInv, Watched
    <3>2. st \in Stores /\ Stopped \in Stores
      BY StoppedType DEF TypeInv
    <3>3. Stopping(AttachStop, ended) \in [Stoppers -> Phases]
      BY <3>1, StoppingType
    <3>4. stop' \in {ended, Stopping(AttachStop, ended)} /\ store' \in {st, Stopped}
      BY <2>5 DEF StartUndone
    <3>5. box' \in Boxes /\ ~box'.running
      BY <2>5, BoxType DEF StartUndone, TypeInv
    <3>6. cut' \in BOOLEAN
      BY <2>5, Zenon DEF StartUndone, TypeInv
    <3> HIDE DEF ended, st
    <3> QED
      BY <2>5, <3>1, <3>2, <3>3, <3>4, <3>5, <3>6 DEF StartUndone, TypeInv, Watched
  <2>6. CASE StartUndoFails
    BY <2>6, SetType DEF StartUndoFails, TypeInv, Watched
  <2> QED
    BY <1>3, <2>2, <2>3, <2>4, <2>5, <2>6 DEF Start
<1>4. CASE OnStopped
  <2> SUFFICES ASSUME NEW s \in Stoppers,
                      StopCharged(s) \/ StopReleased(s) \/ StopFails(s)
               PROVE  TypeInv'
    BY <1>4 DEF OnStopped
  <2>1. CASE StopCharged(s)
    <3>1. stop' \in [Stoppers -> Phases] /\ Watched'
      BY <2>1 DEF StopCharged, TypeInv, Watched, Phases
    <3>2. cut' \in BOOLEAN
      BY <2>1, BoxType, Zenon DEF StopCharged, TypeInv
    <3> QED
      BY <2>1, <3>1, <3>2, BudgetType, ClearedType DEF StopCharged, TypeInv
  <2>2. CASE StopReleased(s)
    <3>1. stop' \in [Stoppers -> Phases] /\ Watched'
      BY <2>2 DEF StopReleased, TypeInv, Watched, Phases
    <3>2. cut' \in BOOLEAN
      BY <2>2, BoxType, Zenon DEF StopReleased, TypeInv
    <3> QED
      BY <2>2, <3>1, <3>2, BudgetType DEF StopReleased, TypeInv
  <2>3. CASE StopFails(s)
    <3>1. stop' \in [Stoppers -> Phases] /\ Watched'
      BY <2>3 DEF StopFails, TypeInv, Watched, Phases
    <3>2. budget' \in Budgets
      BY <2>3, BudgetType DEF StopFails, TypeInv
    <3>3. cut' \in BOOLEAN
      BY <2>3, BoxType, Zenon DEF StopFails, TypeInv
    <3> QED
      BY <2>3, <3>1, <3>2, <3>3, SetType DEF StopFails, TypeInv
  <2> QED
    BY <2>1, <2>2, <2>3
<1>5. CASE Alarm
  <2>1. CASE AlarmStopped
    <3>1. stop' \in [Stoppers -> Phases]
      BY <2>1, StoppingType DEF AlarmStopped, TypeInv
    <3>2. store' \in Stores
      BY <2>1, StoppedType, SetType DEF AlarmStopped, TypeInv
    <3> QED
      BY <2>1, <3>1, <3>2 DEF AlarmStopped, TypeInv, Watched
  <2>2. CASE AlarmRuns
    BY <2>2, SetType DEF AlarmRuns, TypeInv, Watched
  <2>3. CASE AlarmFails
    BY <2>3, BudgetType, SetType DEF AlarmFails, TypeInv, Watched
  <2>4. CASE AlarmCharged
    BY <2>4, BudgetType, SetType DEF AlarmCharged, TypeInv, Watched
  <2>5. CASE AlarmSleeps
    BY <2>5 DEF AlarmSleeps, TypeInv, Watched
  <2>6. CASE AlarmGoesOn
    BY <2>6, SetType DEF AlarmGoesOn, TypeInv, Watched
  <2>7. CASE SleepSaved
    BY <2>7 DEF SleepSaved, TypeInv, Watched
  <2>8. CASE SleepDestroys
    <3>1. [store EXCEPT !.alarm = TRUE] \in Stores
      BY SetType DEF TypeInv
    <3> QED
      BY <2>8, <3>1, DestroyType DEF SleepDestroys, TypeInv
  <2> QED
    BY <1>5, <2>1, <2>2, <2>3, <2>4, <2>5, <2>6, <2>7, <2>8 DEF Alarm
<1>6. CASE Deleting
  <2>1. CASE Delete
    BY <2>1 DEF Delete, TypeInv, Watched
  <2>2. CASE DeleteCharged
    BY <2>2, BudgetType, SetType DEF DeleteCharged, TypeInv, Watched
  <2>3. CASE DeleteDestroys
    <3>1. store \in Stores
      BY DEF TypeInv
    <3> QED
      BY <2>3, <3>1, DestroyType DEF DeleteDestroys, TypeInv
  <2>4. CASE DeletePurges
    BY <2>4 DEF DeletePurges, TypeInv, Watched
  <2>5. CASE DeleteDone
    <3>1. store' \in Stores
      BY <2>5, ClearedType, SetType DEF DeleteDone, TypeInv
    <3>2. cut' \in BOOLEAN
      BY <2>5, BoxType, Zenon DEF DeleteDone, TypeInv
    <3> QED
      BY <2>5, <3>1, <3>2, BudgetType DEF DeleteDone, TypeInv, Watched
  <2>6. CASE DeleteFails
    <3>1. cut' \in BOOLEAN
      BY <2>6, BoxType, Zenon DEF DeleteFails, TypeInv
    <3> QED
      BY <2>6, <3>1, BudgetType DEF DeleteFails, TypeInv, Watched
  <2> QED
    BY <1>6, <2>1, <2>2, <2>3, <2>4, <2>5, <2>6 DEF Deleting
<1>7. CASE OthersChange
  <2>1. budget' \in Budgets
    BY <1>7, Bounds DEF OthersChange, Taken, TypeInv, Budgets
  <2> QED
    BY <1>7, <2>1 DEF OthersChange, session, TypeInv, Watched
<1>8. CASE BoxEnds
  BY <1>8, BoxStopsType DEF BoxEnds, TypeInv, Watched
<1>9. CASE StaleSlot
  BY <1>9, BudgetType DEF StaleSlot, Stale, session, TypeInv, Watched
<1>10. CASE Evict
  <2>1. stop' \in [Stoppers -> Phases] /\ Watched'
    BY <1>10 DEF Evict, Watching, TypeInv, Watched, Phases
  <2>2. (store.alarm \/ AlarmHandled) \in BOOLEAN
    BY Zenon DEF TypeInv, Stores
  <2>3. store' \in Stores
    BY <1>10, <2>2, SetType DEF Evict, TypeInv
  <2> QED
    BY <1>10, <2>1, <2>3 DEF Evict, TypeInv
<1> QED
  BY <1>1, <1>2, <1>3, <1>4, <1>5, <1>6, <1>7, <1>8, <1>9, <1>10 DEF Next

(* The history variables stay truth values.                                 *)
LEMMA HistoryStep == HistoryTypes /\ [Next]_vars => HistoryTypes'
<1> SUFFICES ASSUME HistoryTypes, [Next]_vars PROVE HistoryTypes'
  OBVIOUS
<1>1. CASE UNCHANGED vars
  BY <1>1 DEF vars, HistoryTypes
<1>2. CASE Noted
  BY <1>2, Zenon DEF Noted, HistoryTypes
<1>3. CASE StaleSlot
  BY <1>3, Zenon DEF StaleSlot, Stale, HistoryTypes
<1>4. CASE Evict
  BY <1>4, Zenon DEF Evict, HistoryTypes
<1> QED
  BY <1>1, <1>2, <1>3, <1>4 DEF Next

(* Every variable of the session has its type; and a container that runs is  *)
(* watched by the monitor of its own start, so its end is always noticed.   *)
THEOREM TypeCorrect == Spec => []TypeOK
<1>1. TypeInv /\ HistoryTypes => TypeOK
  BY DEF TypeInv, HistoryTypes, TypeOK, Watched, Budgets, Stores, Boxes, Phases
<1>2. Init => HistoryTypes
  BY DEF Init, HistoryTypes
<1> QED
  BY <1>1, <1>2, TypeInit, TypeStep, HistoryStep, PTL DEF Spec

-----------------------------------------------------------------------------
(* What makes RunsInSlot and Accounted inductive: the slot is held from the  *)
(* moment a tab is admitted; a container that runs has its alarm, or a      *)
(* handler that will see to one; and the records are those of its start.    *)
SlotHeld    == (box.running \/ tab = "admitted") /\ ~cut /\ ~lapsed => budget.slot
AlarmComing == box.running /\ ~cut /\ ~orphan =>
                   store.alarm \/ start # "none" \/ alarm # "none"
Recorded    == box.running /\ ~cut =>
                   store.since /\ store.tick /\ store.secret = box.gen
WatchInv    == SlotHeld /\ AlarmComing /\ Recorded

(* An orphan ends by an alarm or with its container, a lapse by a charge.    *)
Excused == /\ lapsed' \/ ~lapsed \/ budget'.slot
           /\ orphan' \/ ~orphan \/ ~box'.running \/ store'.alarm

(* The fields of the records, one by one.                                   *)
LEMMA Fields ==
    ASSUME NEW st \in Stores, NEW b \in BOOLEAN
    PROVE  /\ [st EXCEPT !.alarm = b].alarm = b
           /\ [st EXCEPT !.alarm = b].since = st.since
           /\ [st EXCEPT !.alarm = b].tick = st.tick
           /\ [st EXCEPT !.alarm = b].secret = st.secret
           /\ [st EXCEPT !.tick = b].tick = b
           /\ [st EXCEPT !.tick = b].alarm = st.alarm
           /\ [st EXCEPT !.tick = b].since = st.since
           /\ [st EXCEPT !.tick = b].secret = st.secret
  BY Zenon DEF Stores

(* A charge leaves the session with a slot; what does not touch the budget   *)
(* leaves it the slot it had.                                               *)
LEMMA ChargeHolds ==
    ASSUME budget \in Budgets, Charge \/ UNCHANGED budget
    PROVE  budget.slot => budget'.slot
  BY DEF Budgets, Charge

(* A step keeps the watch if it stops the container, or leaves it, its       *)
(* records and its slot alone and keeps an alarm coming.                    *)
LEMMA WatchKept ==
    ASSUME WatchInv, Excused,
           budget.slot => budget'.slot,
           ~cut' => ~cut,
           tab' = "admitted" => tab = "admitted",
           UNCHANGED box,
           store.since => store'.since, store.tick => store'.tick,
           store'.secret = store.secret,
           \/ store'.alarm \/ start' # "none" \/ alarm' # "none"
           \/ UNCHANGED <<start, alarm>> /\ store'.alarm = store.alarm
    PROVE  WatchInv'
  BY DEF WatchInv, SlotHeld, AlarmComing, Recorded, Excused

(* A step that leaves no container running keeps what a tab was admitted to. *)
LEMMA WatchStops ==
    ASSUME WatchInv, Excused, budget.slot => budget'.slot, ~box'.running,
           tab' = "admitted" => tab = "admitted" /\ (~cut' => ~cut)
    PROVE  WatchInv'
  BY DEF WatchInv, SlotHeld, AlarmComing, Recorded, Excused

(* A step that cuts off what runs or was admitted has nothing left to keep.  *)
LEMMA WatchCut ==
    ASSUME box'.running \/ tab' = "admitted" => cut'
    PROVE  WatchInv'
  BY DEF WatchInv, SlotHeld, AlarmComing, Recorded

(* Before the first tab there is nothing to watch.                          *)
LEMMA WatchInit == Init => WatchInv
<1> SUFFICES ASSUME Init PROVE ~box.running /\ tab # "admitted"
  BY DEF WatchInv, SlotHeld, AlarmComing, Recorded
<1> QED
  BY DEF Init

(* Every step of a handler keeps the slot, the alarm and the records, or cuts *)
(* off.                                                                     *)
LEMMA WatchHandlers ==
    ASSUME TypeInv, WatchInv, Excused,
           \/ Tab \/ Start \/ OnStopped \/ Alarm \/ Deleting
           \/ OthersChange \/ BoxEnds
    PROVE  WatchInv'
<1>0. budget \in Budgets /\ store \in Stores /\ box \in Boxes /\ cut \in BOOLEAN
  BY DEF TypeInv
<1>a. ASSUME NEW b \in BOOLEAN, store' = [store EXCEPT !.alarm = b]
      PROVE  /\ store'.alarm = b /\ store'.since = store.since
             /\ store'.tick = store.tick /\ store'.secret = store.secret
  BY <1>0, <1>a, Fields
<1>b. ASSUME store' = [store EXCEPT !.tick = TRUE]
      PROVE  /\ store'.alarm = store.alarm /\ store'.since = store.since
             /\ store'.tick /\ store'.secret = store.secret
  BY <1>0, <1>b, Fields
<1>c. ASSUME BoxStops, UNCHANGED budget PROVE WatchInv'
  BY <1>0, <1>c, BoxStopsType, WatchStops DEF BoxStops
<1>d. ASSUME Destroyed, UNCHANGED budget PROVE WatchInv'
  BY <1>c, <1>d, WatchStops DEF Destroyed
<1>1. CASE Tab
  <2>1. CASE OpenTab
    <3>1. budget'.slot
      BY <1>0, <2>1 DEF OpenTab, Charge, Budgets
    <3> QED
      BY <2>1, <3>1 DEF OpenTab, WatchInv, SlotHeld, AlarmComing, Recorded, Excused
  <2>2. CASE Attach
    <3>1. CASE StartContainer
      <4> DEFINE g == box.gen + 1
      <4>1. box' = [gen |-> g, running |-> TRUE] /\ box'.gen = g
        BY <3>1 DEF StartContainer
      <4>2. store'.secret = g /\ store'.since /\ store'.tick
        BY <1>0, <3>1 DEF StartContainer, Stores
      <4>3. start' # "none" /\ tab' = "waiting" /\ UNCHANGED <<budget, cut>>
        BY <2>2 DEF Attach
      <4>4. ~cut /\ ~lapsed => budget.slot
        BY <2>2 DEF Attach, WatchInv, SlotHeld
      <4> QED
        BY <4>1, <4>2, <4>3, <4>4
        DEF WatchInv, SlotHeld, AlarmComing, Recorded, Excused
    <3>2. CASE UNCHANGED <<box, store, stop>>
      BY <2>2, <3>2, WatchKept DEF Attach
    <3> QED
      BY <2>2, <3>1, <3>2 DEF Attach
  <2>3. CASE TabLeaves
    BY <2>3, WatchKept DEF TabLeaves
  <2> QED
    BY <1>1, <2>1, <2>2, <2>3 DEF Tab
<1>2. CASE Start
  <2>1. ASSUME Started(store), UNCHANGED <<budget, box, alarm, cut>>
        PROVE  WatchInv'
    BY <1>a, <2>1, WatchKept DEF Started
  <2>2. CASE StartHealthy
    <3>1. CASE Started(store)
      BY <2>1, <2>2, <3>1 DEF StartHealthy
    <3>2. CASE start' # "none" /\ UNCHANGED <<store, tab>>
      BY <2>2, <3>2, WatchKept DEF StartHealthy
    <3> QED
      BY <2>2, <3>1, <3>2 DEF StartHealthy
  <2>3. CASE StartRestored
    BY <2>1, <2>3 DEF StartRestored
  <2>4. CASE StartFails
    BY <2>4, WatchKept DEF StartFails
  <2>5. CASE StartUndone
    <3>1. ~box'.running
      BY <1>0, <2>5, BoxType DEF StartUndone
    <3>2. UNCHANGED budget /\ (tab' = "admitted" => tab = "admitted" /\ (~cut' => ~cut))
      BY <2>5 DEF StartUndone
    <3> QED
      BY <3>1, <3>2, WatchStops
  <2>6. CASE StartUndoFails
    BY <1>a, <2>6, WatchKept DEF StartUndoFails
  <2> QED
    BY <1>2, <2>2, <2>3, <2>4, <2>5, <2>6 DEF Start
<1>3. CASE OnStopped
  <2> SUFFICES ASSUME NEW s \in Stoppers,
                      StopCharged(s) \/ StopReleased(s) \/ StopFails(s)
               PROVE  WatchInv'
    BY <1>3 DEF OnStopped
  <2>1. CASE StopCharged(s)
    <3>1. budget'.slot
      BY <1>0, <2>1 DEF StopCharged, Charge, Budgets
    <3>2. box'.running => cut'
      BY <2>1 DEF StopCharged
    <3> QED
      BY <3>1, <3>2 DEF WatchInv, SlotHeld, AlarmComing, Recorded
  <2>2. CASE StopReleased(s)
    BY <2>2, WatchCut DEF StopReleased
  <2>3. CASE StopFails(s)
    <3>1. CASE UNCHANGED cut /\ (Charge \/ UNCHANGED budget)
      <4>1. budget.slot => budget'.slot
        BY <1>0, <3>1, ChargeHolds
      <4> QED
        BY <1>a, <2>3, <3>1, <4>1, WatchKept DEF StopFails
    <3>2. CASE cut' = (cut \/ box.running \/ tab = "admitted")
      BY <2>3, <3>2, WatchCut DEF StopFails
    <3> QED
      BY <2>3, <3>1, <3>2 DEF StopFails
  <2> QED
    BY <2>1, <2>2, <2>3
<1>4. CASE Alarm
  <2>1. CASE AlarmStopped
    BY <2>1, WatchStops DEF AlarmStopped
  <2>2. CASE AlarmRuns
    BY <1>a, <2>2, WatchKept DEF AlarmRuns
  <2>3. CASE AlarmFails
    <3>1. budget.slot => budget'.slot
      BY <1>0, <2>3, ChargeHolds DEF AlarmFails
    <3> QED
      BY <1>a, <2>3, <3>1, WatchKept DEF AlarmFails
  <2>4. CASE AlarmCharged
    <3>1. budget.slot => budget'.slot
      BY <1>0, <2>4, ChargeHolds DEF AlarmCharged
    <3>2. store' = [store EXCEPT !.tick = TRUE]
      BY <2>4 DEF AlarmCharged
    <3> QED
      BY <1>b, <2>4, <3>1, <3>2, WatchKept DEF AlarmCharged
  <2>5. CASE AlarmSleeps
    BY <2>5, WatchKept DEF AlarmSleeps
  <2>6. CASE AlarmGoesOn
    BY <1>a, <2>6, WatchKept DEF AlarmGoesOn
  <2>7. CASE SleepSaved
    BY <2>7, WatchKept DEF SleepSaved, Joined
  <2>8. CASE SleepDestroys
    <3>1. CASE Destroyed
      BY <1>d, <2>8, <3>1 DEF SleepDestroys
    <3>2. CASE DestroyFails([store EXCEPT !.alarm = TRUE])
      BY <1>a, <2>8, <3>2, WatchKept DEF SleepDestroys, DestroyFails
    <3> QED
      BY <2>8, <3>1, <3>2 DEF SleepDestroys
  <2> QED
    BY <1>4, <2>1, <2>2, <2>3, <2>4, <2>5, <2>6, <2>7, <2>8 DEF Alarm
<1>5. CASE Deleting
  <2>1. CASE Delete
    BY <2>1, WatchKept DEF Delete, Joined
  <2>2. CASE DeleteCharged
    <3>1. budget.slot => budget'.slot
      BY <1>0, <2>2, ChargeHolds DEF DeleteCharged
    <3>2. \/ store' = [store EXCEPT !.tick = TRUE]
          \/ UNCHANGED store
      BY <2>2 DEF DeleteCharged
    <3>3. /\ store'.alarm = store.alarm /\ store'.since = store.since
          /\ store'.secret = store.secret /\ (store.tick => store'.tick)
      BY <1>b, <3>2
    <3> QED
      BY <2>2, <3>1, <3>3, WatchKept DEF DeleteCharged
  <2>3. CASE DeleteDestroys
    <3>1. CASE Destroyed
      BY <1>d, <2>3, <3>1 DEF DeleteDestroys
    <3>2. CASE DestroyFails(store)
      BY <2>3, <3>2, WatchKept DEF DeleteDestroys, DestroyFails
    <3> QED
      BY <2>3, <3>1, <3>2 DEF DeleteDestroys
  <2>4. CASE DeletePurges
    BY <2>4, WatchKept DEF DeletePurges
  <2>5. CASE DeleteDone
    BY <2>5, WatchCut DEF DeleteDone
  <2>6. CASE DeleteFails
    BY <2>6, WatchCut DEF DeleteFails
  <2> QED
    BY <1>5, <2>1, <2>2, <2>3, <2>4, <2>5, <2>6 DEF Deleting
<1>6. CASE OthersChange
  <2>1. budget.slot => budget'.slot
    BY <1>0, <1>6 DEF OthersChange, Budgets
  <2> QED
    BY <1>6, <2>1, WatchKept DEF OthersChange, session
<1>7. CASE BoxEnds
  BY <1>c, <1>7 DEF BoxEnds
<1> QED
  BY <1>1, <1>2, <1>3, <1>4, <1>5, <1>6, <1>7

(* A slot that goes stale under a container that runs is noted: with an alarm *)
(* coming and none set, a start or an alarm is under way.                   *)
LEMMA WatchStale == ASSUME WatchInv, StaleSlot PROVE WatchInv'
<1>1. CASE lapsed'
  BY <1>1 DEF StaleSlot, Stale, session, WatchInv, SlotHeld, AlarmComing, Recorded
<1>2. CASE ~lapsed'
  <2>1. ~orphan /\ ~AlarmHandled /\ start = "none" /\ tab # "admitted"
    BY <1>2 DEF StaleSlot, Stale
  <2>2. ~store.alarm /\ alarm = "none"
    BY <2>1 DEF StaleSlot, AlarmHandled
  <2>3. ~box.running \/ cut
    BY <2>1, <2>2 DEF WatchInv, AlarmComing
  <2> QED
    BY <2>1, <2>3
    DEF StaleSlot, Stale, session, WatchInv, SlotHeld, AlarmComing, Recorded
<1> QED
  BY <1>1, <1>2

(* An eviction ends the handlers: an alarm that was handled rings again, and  *)
(* a container whose start it ended is an orphan.                           *)
LEMMA WatchEvict == ASSUME TypeInv, WatchInv, Evict PROVE WatchInv'
<1> DEFINE again == store.alarm \/ AlarmHandled
<1>1. store \in Stores /\ again \in BOOLEAN
  BY Zenon DEF TypeInv, Stores
<1>2. store' = [store EXCEPT !.alarm = again]
  BY DEF Evict
<1>3. store'.alarm = again /\ store'.since = store.since
      /\ store'.tick = store.tick /\ store'.secret = store.secret
  BY <1>1, <1>2, Fields
<1>4. ~orphan' /\ box.running =>
          store.alarm \/ AlarmHandled \/ (~orphan /\ start = "none")
  BY <1>3 DEF Evict
<1> HIDE DEF again
<1>5. AlarmComing'
  <2>1. ~orphan' /\ box.running /\ ~cut => again
    BY <1>4 DEF WatchInv, AlarmComing, again, AlarmHandled
  <2> QED
    BY <1>3, <2>1 DEF Evict, AlarmComing
<1>6. SlotHeld' /\ Recorded'
  BY <1>3 DEF Evict, WatchInv, SlotHeld, Recorded
<1> QED
  BY <1>5, <1>6 DEF WatchInv

(* So every step keeps slot, alarm and records, or notes why it cannot.      *)
LEMMA WatchStep == TypeInv /\ WatchInv /\ [Next]_vars => WatchInv'
<1> SUFFICES ASSUME TypeInv, WatchInv, [Next]_vars PROVE WatchInv'
  OBVIOUS
<1>1. CASE UNCHANGED vars
  <2>1. Excused
    BY <1>1 DEF vars, Excused
  <2> QED
    BY <1>1, <2>1, WatchKept DEF vars, session
<1>2. CASE /\ Tab \/ Start \/ OnStopped \/ Alarm \/ Deleting
              \/ OthersChange \/ BoxEnds
           /\ Noted
  <2>1. Excused
    BY <1>2 DEF Noted, Excused
  <2> QED
    BY <1>2, <2>1, WatchHandlers
<1>3. CASE StaleSlot
  BY <1>3, WatchStale
<1>4. CASE Evict
  BY <1>4, WatchEvict
<1> QED
  BY <1>1, <1>2, <1>3, <1>4 DEF Next

-----------------------------------------------------------------------------
(* A container runs in a slot of the shared budget from its start to its end  *)
(* (budget.ts:2), whatever fails, is evicted or goes stale, unless a stop of *)
(* an earlier container or a deletion took the slot away under it, or it    *)
(* went stale in a start, an alarm or an admission of ten minutes, or under *)
(* an orphan of an eviction, and no charge has taken it back yet.           *)
THEOREM SlotKept == Spec => []RunsInSlot
<1>1. WatchInv => RunsInSlot
  BY DEF WatchInv, SlotHeld, RunsInSlot
<1> QED
  BY <1>1, TypeInit, TypeStep, WatchInit, WatchStep, PTL DEF Spec

(* A container left alone has its records and its alarm                       *)
(* (userSession.ts:349-367, 389, 507), whichever calls failed before.  The  *)
(* exceptions: a stop of an earlier container or a deletion that came late, *)
(* and, for the alarm, an eviction that ended the container's start, until  *)
(* a later handler sets one.                                                *)
THEOREM AlarmsKept == Spec => []Accounted
<1>1. WatchInv => Accounted
  BY DEF WatchInv, AlarmComing, Recorded, Accounted, Quiet
<1> QED
  BY <1>1, TypeInit, TypeStep, WatchInit, WatchStep, PTL DEF Spec
=============================================================================
