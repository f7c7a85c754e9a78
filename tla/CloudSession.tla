---------------------------- MODULE CloudSession ----------------------------
(***************************************************************************)
(* One person's cloud sandbox: its slot in the shared budget, what it is   *)
(* charged by, its container and its alarm                                 *)
(* (apps/cloud/src/userSession.ts, budget.ts, budgetObject.ts).            *)
(*                                                                         *)
(* The session is a Durable Object.  Its storage calls let nothing else of *)
(* the session run, so what a handler does between two calls to the budget *)
(* or to the container is one step.  At each of those calls every other    *)
(* handler may run: a tab that opens, a start, the alarm, a stop, a        *)
(* deletion.  Storage and the alarm survive an eviction of the object;     *)
(* handlers, tabs and monitors do not.  Times (idle, stale, health) and    *)
(* the month's spend are choices: what they allow may happen.  Of the      *)
(* platform it is assumed that an alarm rings within a minute or so, and   *)
(* that one whose handler fails or is evicted rings again.  The archives   *)
(* of the home are in CloudHome.                                           *)
(***************************************************************************)
EXTENDS Integers

CONSTANTS
    MaxInstances,   \* sandboxes that may run at once
    MaxStarts,      \* containers started (a bound)
    MaxFaults,      \* calls that fail with nothing else wrong (a bound)
    MaxEvictions,   \* evictions of the object (a bound)
    MaxDeletes      \* deletions asked for (a bound)

ASSUME LimitAssumption == MaxInstances \in Nat \ {0}
ASSUME BoundsAssumption ==
    {MaxStarts, MaxFaults, MaxEvictions, MaxDeletes} \subseteq Nat

VARIABLES
    budget,   \* the shared Budget object: this person's slot, the others'
    store,    \* the session's storage and alarm
    box,      \* the container
    tab,      \* the tab being opened or open
    start,    \* the shared start in progress
    stop,     \* onStopped, by who runs it
    alarm,    \* the alarm handler
    del,      \* deleteEverything
    limits,   \* what is left of the bounds
    cut,      \* history: a late stop or a deletion took the slot or the
              \*   records of the container that runs, or of an admitted tab
    orphan,   \* history: an eviction ended the start of the container that
              \*   runs, and no alarm was set since
    lapsed    \* history: the slot went stale during a start, an alarm or an
              \*   admission, or of an orphan, and was not charged since

session == <<tab, start, stop, alarm, del>>
vars == <<budget, store, box, tab, start, stop, alarm, del, limits, cut,
          orphan, lapsed>>

Gens == 1..MaxStarts            \* a container, and its secret, named by its start
AlarmStop == 0                  \* onStopped called by the alarm,
AttachStop == MaxStarts + 1     \* by a failed attach, or by a monitor (its Gen)
Stoppers == Gens \cup {AlarmStop, AttachStop}

Spend(what) == /\ limits[what] > 0
               /\ limits' = [limits EXCEPT ![what] = @ - 1]

Init ==
    /\ budget = [slot |-> FALSE, others |-> 0]
    /\ store = [since |-> FALSE, tick |-> FALSE, secret |-> 0, alarm |-> FALSE]
    /\ box = [gen |-> 0, running |-> FALSE]
    /\ tab = "none"
    /\ start = "none"
    /\ stop = [s \in Stoppers |-> "none"]
    /\ alarm = "none"
    /\ del = "none"
    /\ limits = [faults |-> MaxFaults, evictions |-> MaxEvictions,
                 deletes |-> MaxDeletes]
    /\ cut = FALSE /\ orphan = FALSE /\ lapsed = FALSE

-----------------------------------------------------------------------------
(* The budget (budget.ts) *)

Taken == budget.others + (IF budget.slot THEN 1 ELSE 0)

Admits == budget.slot \/ Taken < MaxInstances

(* charge enters the session again, whatever the number of slots taken.     *)
Charge  == budget' = [budget EXCEPT !.slot = TRUE]
Release == budget' = [budget EXCEPT !.slot = FALSE]

OthersChange ==
    /\ \/ /\ Taken < MaxInstances
          /\ budget' = [budget EXCEPT !.others = @ + 1]
       \/ /\ budget.others > 0
          /\ budget' = [budget EXCEPT !.others = @ - 1]
    /\ UNCHANGED <<store, box, session, limits, cut>>

Quiet == /\ start = "none" /\ alarm = "none" /\ del = "none"
         /\ tab # "admitted"
         /\ \A s \in Stoppers : stop[s] \in {"none", "watch"}

AlarmHandled == alarm # "none" \/ stop[AlarmStop] # "none"

(* currentBudget drops a slot that was not charged for ten minutes.          *)
Stale ==
    /\ budget.slot
    /\ Release
    /\ lapsed' = (orphan \/ AlarmHandled \/ start # "none" \/ tab = "admitted")
    /\ UNCHANGED <<store, box, session, limits, cut, orphan>>

StaleSlot_EvenIfCharged == Stale    \* mutant: stale sooner than the next charge

(* An alarm that is set charges the slot within a minute, unless the one     *)
(* before it is still handled.  Without one, or while a call of the handler *)
(* takes so long, nothing does.                                             *)
StaleSlot ==
    /\ ~store.alarm \/ AlarmHandled
    /\ Stale

-----------------------------------------------------------------------------
(* The container *)

(* onStopped, up to its first call: what ran is charged, if lastTickAt says  *)
(* that something ran, or else its records go and the slot is released.     *)
Cleared(st) == [st EXCEPT !.since = FALSE, !.tick = FALSE, !.secret = 0]
Stopping(s, now) == [now EXCEPT ![s] = IF store.tick THEN "charge" ELSE "release"]
Stopped == IF store.tick THEN store ELSE Cleared(store)

(* The container ends, by destroy or by itself: its monitor calls onStopped  *)
(* and the sandbox closes its socket with the tab.                          *)
BoxStops ==
    /\ box.running
    /\ box' = [box EXCEPT !.running = FALSE]
    /\ stop' = Stopping(box.gen, stop)
    /\ store' = Stopped
    /\ tab' = IF tab = "open" THEN "none" ELSE tab
    /\ cut' = (cut /\ tab = "admitted")

(* destroy does nothing to a container that does not run, and may fail.     *)
Destroyed == \/ BoxStops
             \/ ~box.running /\ UNCHANGED <<box, stop, store, tab, cut>>

DestroyFails(st) == /\ box.running /\ Spend("faults")
                    /\ store' = st
                    /\ UNCHANGED <<box, stop, tab, cut>>

BoxEnds ==
    /\ BoxStops
    /\ UNCHANGED <<budget, start, alarm, del, limits>>

-----------------------------------------------------------------------------
(* openTab and attach *)

(* Admitted, or the reply is lost; refused, because every sandbox is busy or *)
(* the month's cap is spent, the call changes nothing.                      *)
OpenTab ==
    /\ tab = "none"
    /\ box.running \/ box.gen < MaxStarts
    /\ Admits
    /\ Charge
    /\ \/ tab' = "admitted" /\ UNCHANGED limits
       \/ Spend("faults") /\ UNCHANGED tab
    /\ UNCHANGED <<store, box, start, stop, alarm, del, cut>>

(* The reply arrives.  ensureRunning joins the start in progress or begins   *)
(* one, which starts a container unless one is running.                     *)
StartContainer ==
    LET g == box.gen + 1 IN
    /\ box.gen < MaxStarts
    /\ box' = [gen |-> g, running |-> TRUE]
    /\ store' = [store EXCEPT !.secret = g, !.since = TRUE, !.tick = TRUE]
    /\ stop' = [stop EXCEPT ![g] = "watch"]

Attach ==
    /\ tab = "admitted"
    /\ tab' = "waiting"
    /\ start' = IF start = "none" THEN "health" ELSE start
    /\ IF start = "none" /\ ~box.running
       THEN StartContainer
       ELSE UNCHANGED <<box, store, stop>>
    /\ UNCHANGED <<budget, alarm, del, limits, cut>>

TabLeaves ==
    /\ tab \in {"waiting", "open"}
    /\ tab' = "none"
    /\ UNCHANGED <<budget, store, box, start, stop, alarm, del, limits, cut>>

-----------------------------------------------------------------------------
(* start, after the container was told to start *)

(* The home is complete: the alarm is set, and the waiting tab gets the      *)
(* host's socket, which wants the host's secret.                            *)
Started(st) ==
    /\ store' = [st EXCEPT !.alarm = TRUE]
    /\ start' = "none"
    /\ tab' = IF tab # "waiting" THEN tab
              ELSE IF box.running /\ st.secret = box.gen THEN "open" ELSE "none"

(* Healthy: without its secret the start fails; else the home is complete,   *)
(* or its archive is put back first.                                        *)
StartHealthy ==
    /\ start = "health" /\ box.running
    /\ \/ store.secret = 0 /\ start' = "undo" /\ UNCHANGED <<store, tab>>
       \/ store.secret # 0 /\ Started(store)
       \/ store.secret # 0 /\ start' = "restore" /\ UNCHANGED <<store, tab>>
    /\ UNCHANGED <<budget, box, stop, alarm, del, limits, cut>>

StartRestored ==
    /\ start = "restore"
    /\ box.running /\ store.secret = box.gen
    /\ Started(store)
    /\ UNCHANGED <<budget, box, stop, alarm, del, limits, cut>>

(* Not healthy within 90 seconds, no archive under the key, or it could not  *)
(* be put back.                                                             *)
StartFails ==
    /\ start \in {"health", "restore"}
    /\ start' = "undo"
    /\ UNCHANGED <<budget, store, box, tab, stop, alarm, del, limits, cut>>

(* The container is destroyed and attach's catch closes the waiting tab.  The *)
(* slot of a container that never was is given back: no monitor will.       *)
StartUndone ==
    /\ start = "undo"
    /\ start' = "none"
    /\ tab' = IF tab = "waiting" THEN "none" ELSE tab
    /\ box' = [box EXCEPT !.running = FALSE]
    /\ LET ended  == IF box.running THEN Stopping(box.gen, stop) ELSE stop
           st     == IF box.running THEN Stopped ELSE store
       IN IF st.since
          THEN stop' = ended /\ store' = st
          ELSE /\ stop[AttachStop] = "none"
               /\ stop' = Stopping(AttachStop, ended)
               /\ store' = Stopped
    /\ cut' = (cut /\ (tab = "admitted" \/ ~box.running))
    /\ UNCHANGED <<budget, alarm, del, limits>>

StartUndoFails_NoAlarm ==       \* mutant: the failed destroy is only logged
    /\ start = "undo" /\ box.running
    /\ Spend("faults")
    /\ start' = "none"
    /\ tab' = IF tab = "waiting" THEN "none" ELSE tab
    /\ UNCHANGED <<budget, store, box, stop, alarm, del, cut>>

StartUndoFails ==
    /\ start = "undo" /\ box.running
    /\ Spend("faults")
    /\ start' = "none"
    /\ store' = [store EXCEPT !.alarm = TRUE]
    /\ tab' = IF tab = "waiting" THEN "none" ELSE tab
    /\ UNCHANGED <<budget, box, stop, alarm, del, cut>>

-----------------------------------------------------------------------------
(* onStopped *)

(* Wiping the records of a container that runs, or releasing the slot of one  *)
(* that runs or was admitted, cuts it off.                                  *)
StopCharged(s) ==
    /\ stop[s] = "charge"
    /\ Charge
    /\ stop' = [stop EXCEPT ![s] = "release"]
    /\ store' = Cleared(store)
    /\ cut' = (cut \/ box.running)
    /\ UNCHANGED <<box, tab, start, alarm, del, limits>>

StopReleased(s) ==
    /\ stop[s] = "release"
    /\ Release
    /\ stop' = [stop EXCEPT ![s] = "none"]
    /\ cut' = (cut \/ box.running \/ tab = "admitted")
    /\ UNCHANGED <<store, box, tab, start, alarm, del, limits>>

(* The call fails, or it was carried out and its reply is lost: an alarm      *)
(* tries again.                                                             *)
StopFails(s) ==
    /\ stop[s] \in {"charge", "release"}
    /\ Spend("faults")
    /\ \/ UNCHANGED <<budget, cut>>
       \/ stop[s] = "charge" /\ Charge /\ UNCHANGED cut
       \/ /\ stop[s] = "release" /\ Release
          /\ cut' = (cut \/ box.running \/ tab = "admitted")
    /\ stop' = [stop EXCEPT ![s] = "none"]
    /\ store' = [store EXCEPT !.alarm = TRUE]
    /\ UNCHANGED <<box, tab, start, alarm, del>>

-----------------------------------------------------------------------------
(* alarm, sleep *)

(* The platform takes the alarm away and gives it back if the handler fails. *)
AlarmStopped ==
    /\ store.alarm /\ alarm = "none" /\ ~box.running
    /\ stop[AlarmStop] = "none"
    /\ stop' = Stopping(AlarmStop, stop)
    /\ store' = [Stopped EXCEPT !.alarm = FALSE]
    /\ UNCHANGED <<budget, box, tab, start, alarm, del, limits, cut>>

AlarmRuns ==
    /\ store.alarm /\ alarm = "none" /\ box.running
    /\ stop[AlarmStop] = "none"
    /\ alarm' = IF store.tick THEN "charge" ELSE "state"
    /\ store' = [store EXCEPT !.alarm = FALSE]
    /\ UNCHANGED <<budget, box, tab, start, stop, del, limits, cut>>

(* The minute is charged, and its end recorded.                             *)
AlarmCharged ==
    /\ alarm = "charge"
    /\ Charge
    /\ alarm' = "state"
    /\ store' = [store EXCEPT !.tick = TRUE]
    /\ UNCHANGED <<box, tab, start, stop, del, limits, cut>>

(* The month's cap is reached, or the host answered and the sandbox was idle  *)
(* or untouched for long enough: it sleeps, and saves first, whatever the   *)
(* container is by now.                                                     *)
AlarmSleeps ==
    /\ alarm = "state"
    /\ alarm' = "save"
    /\ UNCHANGED <<budget, store, box, tab, start, stop, del, limits, cut>>

(* Otherwise there is a next minute.                                        *)
AlarmGoesOn ==
    /\ alarm = "state"
    /\ alarm' = "none"
    /\ store' = [store EXCEPT !.alarm = TRUE]
    /\ UNCHANGED <<budget, box, tab, start, stop, del, limits, cut>>

AlarmFails ==
    /\ alarm = "charge"
    /\ Spend("faults")
    /\ Charge \/ UNCHANGED budget
    /\ alarm' = "none"
    /\ store' = [store EXCEPT !.alarm = TRUE]
    /\ UNCHANGED <<box, tab, start, stop, del, cut>>

Joined == {"waiting", "open"}   \* the tab is among those the session has

SleepSaved ==
    /\ alarm = "save"
    /\ alarm' = "destroy"
    /\ tab' = IF tab \in Joined THEN "none" ELSE tab
    /\ UNCHANGED <<budget, store, box, start, stop, del, limits, cut>>

SleepDestroys ==
    /\ alarm = "destroy"
    /\ alarm' = "none"
    /\ \/ Destroyed /\ UNCHANGED limits
       \/ DestroyFails([store EXCEPT !.alarm = TRUE])
    /\ UNCHANGED <<budget, start, del>>

-----------------------------------------------------------------------------
(* deleteEverything *)

Delete ==
    /\ del = "none" /\ Spend("deletes")
    /\ tab' = IF tab \in Joined THEN "none" ELSE tab
    /\ del' = IF store.tick THEN "charge" ELSE "destroy"
    /\ UNCHANGED <<budget, store, box, start, stop, alarm, cut>>

DeleteCharged ==
    /\ del = "charge"
    /\ \/ /\ Charge
          /\ store' = [store EXCEPT !.tick = TRUE]
          /\ del' = "destroy"
          /\ UNCHANGED limits
       \/ /\ Spend("faults")
          /\ Charge \/ UNCHANGED budget
          /\ del' = "none"
          /\ UNCHANGED store
    /\ UNCHANGED <<box, tab, start, stop, alarm, cut>>

(* A container that cannot be stopped is left running.                      *)
DeleteDestroys ==
    /\ del = "destroy"
    /\ del' = "purge"
    /\ \/ Destroyed /\ UNCHANGED limits
       \/ DestroyFails(store)
    /\ UNCHANGED <<budget, start, alarm>>

DeletePurges ==
    /\ del = "purge"
    /\ del' = "release"
    /\ UNCHANGED <<budget, store, box, tab, start, stop, alarm, limits, cut>>

DeleteDone ==
    /\ del = "release"
    /\ Release
    /\ store' = [Cleared(store) EXCEPT !.alarm = FALSE]
    /\ del' = "none"
    /\ cut' = (cut \/ box.running \/ tab = "admitted")
    /\ UNCHANGED <<box, tab, start, stop, alarm, limits>>

DeleteFails ==
    /\ del = "release"
    /\ Spend("faults")
    /\ Release \/ UNCHANGED budget
    /\ del' = "none"
    /\ cut' = (cut \/ box.running \/ tab = "admitted")
    /\ UNCHANGED <<store, box, tab, start, stop, alarm>>

-----------------------------------------------------------------------------
(* The new object's constructor watches a container that runs.             *)
Watching_None == [s \in Stoppers |-> "none"]    \* mutant: it does not

Watching == [s \in Stoppers |-> IF box.running /\ s = box.gen
                                THEN "watch" ELSE "none"]

(* The object is evicted (a deploy, a crash) and constructed again; an        *)
(* alarm that was being handled is handled again.  A start sets its alarm   *)
(* at its end, and the constructor sets none.                               *)
Evict ==
    /\ Spend("evictions")
    /\ tab' = "none" /\ start' = "none" /\ alarm' = "none" /\ del' = "none"
    /\ stop' = Watching
    /\ store' = [store EXCEPT !.alarm = @ \/ AlarmHandled]
    /\ orphan' = (box.running /\ ~store'.alarm /\ (orphan \/ start # "none"))
    /\ UNCHANGED <<budget, box, cut, lapsed>>

Tab == OpenTab \/ Attach \/ TabLeaves

Start == \/ StartHealthy \/ StartRestored
         \/ StartFails \/ StartUndone \/ StartUndoFails

OnStopped == \E s \in Stoppers : StopCharged(s) \/ StopReleased(s) \/ StopFails(s)

Alarm == \/ AlarmStopped \/ AlarmRuns \/ AlarmCharged \/ AlarmFails
         \/ AlarmSleeps \/ AlarmGoesOn \/ SleepSaved \/ SleepDestroys

Deleting == \/ Delete \/ DeleteCharged \/ DeleteDestroys \/ DeletePurges
            \/ DeleteDone \/ DeleteFails

(* Until an alarm is set, or the container ends; until the next charge.      *)
Noted == /\ orphan' = (orphan /\ box'.running /\ ~store'.alarm)
         /\ lapsed' = (lapsed /\ ~budget'.slot)

Next == \/ /\ Tab \/ Start \/ OnStopped \/ Alarm \/ Deleting
                \/ OthersChange \/ BoxEnds
           /\ Noted
        \/ StaleSlot \/ Evict

Spec == Init /\ [][Next]_vars

-----------------------------------------------------------------------------
(* userSession.ts:67-76, 370-377: the types; and a container that runs is    *)
(* watched by the monitor of its own start.                                 *)
TypeOK ==
    /\ budget \in [slot : BOOLEAN, others : 0..MaxInstances]
    /\ store \in [since : BOOLEAN, tick : BOOLEAN, secret : 0..MaxStarts,
                  alarm : BOOLEAN]
    /\ box \in [gen : 0..MaxStarts, running : BOOLEAN]
    /\ tab \in {"none", "admitted", "waiting", "open"}
    /\ start \in {"none", "health", "restore", "undo"}
    /\ \A s \in Stoppers : stop[s] \in {"none", "watch", "charge", "release"}
    /\ box.running => stop[box.gen] = "watch"
    /\ alarm \in {"none", "charge", "state", "save", "destroy"}
    /\ del \in {"none", "charge", "destroy", "purge", "release"}
    /\ {cut, orphan, lapsed} \subseteq BOOLEAN

(* budget.ts:2, 35, budgetObject.ts:4: a container runs in a slot of the      *)
(* budget from its start to its end, whatever fails, is evicted or goes     *)
(* stale.  There are two exceptions: a stop of an earlier container, or a   *)
(* deletion, took the slot away under it (cut); or ten minutes passed       *)
(* without a charge, in a start, an alarm or an admission, or because the   *)
(* container is an orphan, and it is not charged again yet (lapsed).        *)
RunsInSlot == box.running /\ ~cut /\ ~lapsed => budget.slot

(* userSession.ts:349-367, 389, 507: a container left alone has the records   *)
(* it is charged by, whichever calls failed before, unless a late stop or a *)
(* deletion took them; and it has an alarm, which charges it and can put it *)
(* to sleep, unless an eviction ended its start and no later start, alarm   *)
(* or stop set one (orphan).                                                *)
Accounted ==
    box.running /\ Quiet /\ ~cut =>
        /\ store.alarm \/ orphan
        /\ store.since /\ store.tick /\ store.secret = box.gen
=============================================================================
