------------------------------- MODULE AiTeams -------------------------------
(***************************************************************************)
(* The coordinator of AI teams (apps/desktop/src/main/aiTeamCoordinator.ts *)
(* and aiTeamService.ts) and the pool of slots all of them share           *)
(* (slotPool.ts).                                                          *)
(*                                                                         *)
(* A change of a team's record is a read, some waiting, and a save of the  *)
(* whole record.  Roles at work, the user's cancel and the start of a role *)
(* change it under the team's lock: `holder' says who has it and `seen'    *)
(* what he read.  The run loop itself saves without the lock when it       *)
(* builds the combined review, fails or pauses the team, and so does the   *)
(* completion of an applied review; they save what became of the record    *)
(* they read, `copy[t]' and `applying[t]'.                                 *)
(*                                                                         *)
(* A save may fail and the program may be closed at any step; it starts    *)
(* again with recoverActive.                                               *)
(***************************************************************************)
EXTENDS TeamRecord, Sequences

CONSTANTS
    Concurrency,    \* plan.concurrency and the provider's limit, the smaller
    SlotLimit,      \* adcode.ai.parallelAgents, at least one (slotPool.ts:29)
    RoleOf,         \* the role that does a task
    Refusals,       \* how a runner ends when the budget refuses a request
    MaxFaults       \* saves that fail and restarts, together (a bound)

ASSUME RefusalsAssumption == Refusals \subseteq {"error", "refused"}
ASSUME BoundsAssumption == SlotLimit \in Nat \ {0} /\ MaxFaults \in Nat

VARIABLES
    team,       \* the records on disk
    applied,    \* on disk: teams whose combined task is in the project
    run,        \* the run loop of each team
    copy,       \* the record the run loop is about to save
    runs,       \* how many runs each team has had
    agent,      \* roles at work
    ctl,        \* abort controllers on file: agents that abortTeam reaches
    aborted,    \* agents whose signal is aborted
    stop,       \* progress of the user's cancel of each team
    applying,   \* what completeReview has read
    holder,     \* who holds each team's lock
    seen,       \* what the holder has read
    slots,      \* slots taken
    queue,      \* runs waiting for a slot
    spent,      \* tokens of the requests really sent
    failures,   \* saves that have failed
    crashes     \* times the program was closed

vars == <<team, applied, run, copy, runs, agent, ctl, aborted, stop,
          applying, holder, seen, slots, queue, spent, failures, crashes>>

-----------------------------------------------------------------------------
(* The run loop: `todo' is what is left of the ready tasks this turn looks  *)
(* at, `idle' that there were none, `busy' the tasks that count against     *)
(* concurrency and roles this turn.                                         *)

NoNode == "none"

Idle == [pc |-> "none", todo |-> {}, busy |-> {}, idle |-> FALSE, node |-> NoNode]

RunStates == {"none", "loop", "scan", "queued", "starting", "waiting",
              "failing", "fail", "pausing", "pause", "caught", "done",
              "merge", "save", "merging", "importing", "clean"}

Nobody == [op |-> "none", agent |-> <<>>]

(* `request' is the id of the reservation a role streams on.                *)
Off == [phase |-> "off", end |-> "none", request |-> 0]

Alive == {a \in Agents : agent[a].phase # "off"}

(* The tasks of the current run: the map `active' of orchestrate.           *)
Active(t) == {n \in Plan(t) : <<n, runs[t]>> \in Alive}

AgentsOf(t) == {a \in Agents : TeamOf[a[1]] = t}

Has(t) == team[t].state # "removed"

(* store.save: it may fail, and then nothing on disk has changed.           *)
Save(t, r) == /\ team' = [team EXCEPT ![t] = r]
              /\ UNCHANGED failures

SaveFails == /\ failures + crashes < MaxFaults
             /\ failures' = failures + 1
             /\ UNCHANGED team

NoSave == UNCHANGED <<team, failures>>

Lock(t, op, a) == /\ holder[t] = Nobody
                  /\ holder' = [holder EXCEPT ![t] = [op |-> op, agent |-> a]]
                  /\ seen' = [seen EXCEPT ![t] = team[t]]

Holds(t, op, a) == holder[t] = [op |-> op, agent |-> a]

Unlock(t) == /\ holder' = [holder EXCEPT ![t] = Nobody]
             /\ seen' = [seen EXCEPT ![t] = Configured(t)]

(* Mutant: the slot is free, but the queue does not hear of it.             *)
Release_NoDrain(r, q) == slots' = slots - 1 /\ run' = r /\ queue' = q

(* Mutant: a role that ends keeps its slot.                                 *)
Release_Keeps(r, q) == run' = r /\ queue' = q /\ UNCHANGED slots

(* slotPool.release, with r and q what run and queue become otherwise: a    *)
(* free slot goes to the head of the queue.                                 *)
Release(r, q) ==
    IF q = <<>>
    THEN slots' = slots - 1 /\ run' = r /\ queue' = q
    ELSE /\ run' = [r EXCEPT ![Head(q)].pc = "starting"]
         /\ queue' = Tail(q)
         /\ UNCHANGED slots

(* Mutant: the aborted waiter stays in the queue.                           *)
Others_KeepsWaiter(t, q) == q

(* abortTeam takes a run out of the queue for a slot, too.                  *)
Others(t, q) ==
    IF \E i \in 1..Len(q) : q[i] = t
    THEN LET index == CHOOSE i \in 1..Len(q) : q[i] = t
         IN  SubSeq(q, 1, index - 1) \o SubSeq(q, index + 1, Len(q))
    ELSE q

Unqueued(t) == IF run[t].pc = "queued"
               THEN [run EXCEPT ![t].pc = "scan", ![t].todo = {}, ![t].node = NoNode]
               ELSE run

(* An exception leaves the loop: runSafely aborts the roles still at work.  *)
Throw(t) == /\ run' = [run EXCEPT ![t] = [Idle EXCEPT !.pc = "caught"]]
            /\ aborted' = aborted \cup (ctl \cap AgentsOf(t))

(* The loop returns: runSafely forgets the controllers.                     *)
Return(t) == /\ run' = [run EXCEPT ![t] = [Idle EXCEPT !.pc = "done"]]
             /\ ctl' = ctl \ AgentsOf(t)

userVars  == <<applied, stop, applying>>
lockVars  == <<holder, seen>>
slotVars  == <<slots, queue>>
agentVars == <<agent, ctl, aborted, spent>>

-----------------------------------------------------------------------------
(* What the user does. *)

(* startConfirmed: one locked operation that saves three times, before and  *)
(* after the base is captured and when every role has its workspace.        *)
Confirm(t) ==
    /\ run[t].pc = "none" /\ runs[t] < MaxRuns
    /\ team[t].state = "configured"
    /\ holder[t] = Nobody
    /\ holder' = [holder EXCEPT ![t] = [op |-> "capture", agent |-> <<>>]]
    /\ Save(t, To(team[t], "preparing"))
    /\ UNCHANGED <<run, copy, runs, seen, crashes, userVars, agentVars, slotVars>>

CaptureBase(t) ==
    /\ Holds(t, "capture", <<>>)
    /\ \/ /\ Save(t, [team[t] EXCEPT !.base = TRUE])
          /\ holder' = [holder EXCEPT ![t].op = "allocate"]
          /\ UNCHANGED seen
       \/ /\ Save(t, To(team[t], "paused")) \/ SaveFails
          /\ Unlock(t)
    /\ UNCHANGED <<run, copy, runs, crashes, userVars, agentVars, slotVars>>

(* A copied base is given up again when not even one role got a workspace.  *)
Allocate(t) ==
    /\ Holds(t, "allocate", <<>>)
    /\ \/ /\ Save(t, To(team[t], "running"))
          /\ run' = [run EXCEPT ![t] = [Idle EXCEPT !.pc = "loop"]]
          /\ runs' = [runs EXCEPT ![t] = @ + 1]
       \/ /\ \/ \E kept \in BOOLEAN :
                   Save(t, [To(team[t], "paused") EXCEPT !.base = kept])
             \/ SaveFails
          /\ UNCHANGED <<run, runs>>
    /\ Unlock(t)
    /\ UNCHANGED <<copy, crashes, userVars, agentVars, slotVars>>

(* resume waits for the loop before it to return, but not for its roles.    *)
Resume(t) ==
    /\ run[t].pc \in {"none", "done"} /\ runs[t] < MaxRuns
    /\ holder[t] = Nobody
    /\ CanResume(team[t])
    /\ Save(t, Resumed(team[t]))
    /\ run' = [run EXCEPT ![t] = [Idle EXCEPT !.pc = "loop"]]
    /\ runs' = [runs EXCEPT ![t] = @ + 1]
    /\ UNCHANGED <<copy, crashes, userVars, agentVars, lockVars, slotVars>>

(* cancel: abort the roles and leave the queue at once, then save under the *)
(* lock, clean up (a second save), and wait for the loop.                   *)
Cancel(t) ==
    /\ stop[t] = "no"
    /\ May(team[t], "cancelled")
    /\ stop' = [stop EXCEPT ![t] = "asked"]
    /\ aborted' = aborted \cup (ctl \cap AgentsOf(t))
    /\ run' = Unqueued(t)
    /\ queue' = Others(t, queue)
    /\ UNCHANGED <<team, applied, copy, runs, agent, ctl, applying, lockVars,
                   slots, spent, failures, crashes>>

CancelRead(t) ==
    /\ stop[t] = "asked"
    /\ Lock(t, "cancel", <<>>)
    /\ stop' = [stop EXCEPT ![t] = "saving"]
    /\ NoSave
    /\ UNCHANGED <<applied, run, copy, runs, applying, crashes, agentVars, slotVars>>

CancelSave(t) ==
    /\ stop[t] = "saving"
    /\ \/ LET r == PauseRunning(To(seen[t], "cancelled")) IN
          /\ May(seen[t], "cancelled")
          /\ Save(t, r)
          /\ seen' = [seen EXCEPT ![t] = r]
          /\ stop' = [stop EXCEPT ![t] = "cleaning"]
          /\ UNCHANGED holder
       \/ /\ IF May(seen[t], "cancelled") THEN SaveFails ELSE NoSave
          /\ Unlock(t)
          /\ stop' = [stop EXCEPT ![t] = "no"]
    /\ UNCHANGED <<applied, run, copy, runs, applying, crashes, agentVars, slotVars>>

CancelClean(t) ==
    /\ stop[t] = "cleaning"
    /\ \/ /\ Save(t, [seen[t] EXCEPT !.base = FALSE])
          /\ stop' = [stop EXCEPT ![t] = "waiting"]
       \/ /\ SaveFails
          /\ stop' = [stop EXCEPT ![t] = "no"]
    /\ Unlock(t)
    /\ UNCHANGED <<applied, run, copy, runs, applying, crashes, agentVars, slotVars>>

CancelReturn(t) ==
    /\ stop[t] = "waiting"
    /\ run[t].pc \in {"none", "done"}
    /\ stop' = [stop EXCEPT ![t] = "no"]
    /\ NoSave
    /\ UNCHANGED <<applied, run, copy, runs, applying, crashes, agentVars,
                   lockVars, slotVars>>

(* The combined review is applied to the project; completeReview follows.   *)
Apply(t) ==
    /\ team[t].state = "review" /\ t \notin applied
    /\ applied' = applied \cup {t}
    /\ applying' = [applying EXCEPT ![t] = team[t]]
    /\ NoSave
    /\ UNCHANGED <<run, copy, runs, stop, crashes, agentVars, lockVars, slotVars>>

CompleteReview(t) ==
    /\ applying[t].state = "review"
    /\ \/ Save(t, [To(applying[t], "completed") EXCEPT !.base = FALSE])
       \/ SaveFails
    /\ applying' = [applying EXCEPT ![t] = Configured(t)]
    /\ UNCHANGED <<applied, run, copy, runs, stop, crashes, agentVars, lockVars, slotVars>>

RemoveRun(t) ==
    /\ team[t].state \notin {"preparing", "running", "merging", "removed"}
    /\ run[t].pc \in {"none", "done"}
    /\ holder[t] = Nobody
    /\ Save(t, [Configured(t) EXCEPT !.state = "removed"])
    /\ run' = [run EXCEPT ![t] = Idle]
    /\ ctl' = ctl \ AgentsOf(t)
    /\ UNCHANGED <<copy, runs, agent, aborted, spent, crashes, userVars,
                   lockVars, slotVars>>

-----------------------------------------------------------------------------
(* The run loop. *)

Step(t, pc) == run' = [run EXCEPT ![t].pc = pc]

(* The top of the loop, which decides on a record read without the lock.    *)
Turn(t) ==
    /\ run[t].pc = "loop"
    /\ LET r == team[t] IN
       IF r.state # "running" \/ stop[t] # "no"
       THEN Return(t)
       ELSE /\ UNCHANGED ctl
            /\ CASE Active(t) = {} /\ GraphState(r) = "completed" -> Step(t, "merge")
                 [] Active(t) = {} /\ GraphState(r) = "failed" -> Step(t, "fail")
                 [] OTHER -> run' = [run EXCEPT ![t] =
                        [pc |-> "scan", todo |-> Ready(r), busy |-> Active(t),
                         idle |-> Ready(r) = {}, node |-> NoNode]]
    /\ NoSave
    /\ UNCHANGED <<copy, runs, agent, aborted, spent, crashes, userVars, lockVars, slotVars>>

Barred(t, n) == \/ Cardinality(run[t].busy) >= Concurrency
                \/ \E m \in run[t].busy : RoleOf[m] = RoleOf[n]

(* A ready task the loop has no room for, or for which it wants a slot.     *)
Consider(t, n) ==
    /\ run[t].pc = "scan" /\ n \in run[t].todo
    /\ LET passed == [run EXCEPT ![t].todo = @ \ {n}] IN
       IF Barred(t, n)
       THEN run' = passed /\ UNCHANGED slotVars
       ELSE CASE queue = <<>> /\ slots < SlotLimit ->
                   /\ slots' = slots + 1
                   /\ run' = [passed EXCEPT ![t].pc = "starting", ![t].node = n]
                   /\ UNCHANGED queue
              [] (queue # <<>> \/ slots >= SlotLimit) /\ Active(t) # {} ->
                   /\ run' = [run EXCEPT ![t].todo = {}]
                   /\ UNCHANGED slotVars
              [] OTHER ->
                   /\ run' = [passed EXCEPT ![t].pc = "queued", ![t].node = n]
                   /\ queue' = Append(queue, t)
                   /\ UNCHANGED slots
    /\ NoSave
    /\ UNCHANGED <<copy, runs, crashes, userVars, lockVars, agentVars>>

(* No route to a model: the task is started and failed in one locked go, of *)
(* two saves.                                                               *)
NoRoute(t, n) ==
    /\ run[t].pc = "scan" /\ n \in run[t].todo
    /\ ~Barred(t, n)
    /\ holder[t] = Nobody
    /\ CASE team[t].state # "running" ->
              NoSave /\ run' = [run EXCEPT ![t].todo = @ \ {n}] /\ UNCHANGED aborted
         [] team[t].state = "running" /\ n \in Ready(team[t]) ->
              /\ \/ /\ Save(t, FailNode(StartNode(team[t], n), n))
                    /\ run' = [run EXCEPT ![t].todo = @ \ {n}]
                    /\ UNCHANGED aborted
                 \/ SaveFails /\ Throw(t)
                 \/ /\ failures + crashes < MaxFaults
                    /\ failures' = failures + 1
                    /\ team' = [team EXCEPT ![t] = StartNode(@, n)]
                    /\ Throw(t)
         [] OTHER -> NoSave /\ Throw(t)
    /\ UNCHANGED <<copy, runs, agent, ctl, spent, crashes, userVars, lockVars, slotVars>>

(* With a slot in hand: check again under the lock, or give the slot back.  *)
StartCheck(t) ==
    /\ run[t].pc = "starting"
    /\ IF team[t].state = "running" /\ stop[t] = "no" /\ run[t].node \in Ready(team[t])
       THEN Lock(t, "start", <<>>) /\ UNCHANGED <<run, slotVars>>
       ELSE /\ holder[t] = Nobody
            /\ Release([run EXCEPT ![t].pc = "scan", ![t].node = NoNode], queue)
            /\ UNCHANGED lockVars
    /\ NoSave
    /\ UNCHANGED <<copy, runs, crashes, userVars, agentVars>>

(* When the save fails, the exception passes the line that would release.   *)
StartSave(t) ==
    /\ Holds(t, "start", <<>>)
    /\ LET n == run[t].node
           a == <<n, runs[t]>>
       IN  \/ /\ Save(t, StartNode(seen[t], n))
              /\ agent' = [agent EXCEPT ![a] = [Off EXCEPT !.phase = "working"]]
              /\ ctl' = {b \in ctl : b[1] # n} \cup {a}
              /\ run' = [run EXCEPT ![t].pc = "scan", ![t].node = NoNode,
                                    ![t].busy = @ \cup {n}]
              /\ UNCHANGED aborted
           \/ SaveFails /\ Throw(t) /\ UNCHANGED <<agent, ctl>>
    /\ Unlock(t)
    /\ UNCHANGED <<copy, runs, spent, crashes, userVars, slotVars>>

Scanned(t) ==
    /\ run[t].pc = "scan" /\ run[t].todo = {}
    /\ Step(t, CASE Active(t) # {} -> "waiting"
                 [] Active(t) = {} /\ run[t].idle -> "pause"
                 [] OTHER -> "loop")
    /\ NoSave
    /\ UNCHANGED <<copy, runs, crashes, userVars, lockVars, agentVars, slotVars>>

(* service.fail and service.pause, called without the lock: read ...        *)
EndRead(t) ==
    /\ run[t].pc \in {"fail", "pause"}
    /\ copy' = [copy EXCEPT ![t] = team[t]]
    /\ Step(t, IF run[t].pc = "fail" THEN "failing" ELSE "pausing")
    /\ NoSave
    /\ UNCHANGED <<runs, crashes, userVars, lockVars, agentVars, slotVars>>

(* ... and save, unless the record read was no longer running.              *)
EndSave(t) ==
    /\ run[t].pc \in {"failing", "pausing"}
    /\ LET state == IF run[t].pc = "failing" THEN "failed" ELSE "paused" IN
       \/ /\ May(copy[t], state)
          /\ Save(t, IF state = "failed" THEN To(copy[t], state) ELSE Pausing(copy[t]))
          /\ Return(t) /\ UNCHANGED aborted
       \/ /\ copy[t].state = state
          /\ NoSave /\ Return(t) /\ UNCHANGED aborted
       \/ /\ copy[t].state # state
          /\ IF May(copy[t], state) THEN SaveFails ELSE NoSave
          /\ Throw(t) /\ UNCHANGED ctl
    /\ copy' = [copy EXCEPT ![t] = Configured(t)]
    /\ UNCHANGED <<runs, agent, spent, crashes, userVars, lockVars, slotVars>>

(* runSafely's handler: pause under the lock what is still running.         *)
Caught(t) ==
    /\ run[t].pc = "caught"
    /\ holder[t] = Nobody
    /\ IF team[t].state = "running" THEN Save(t, Pausing(team[t])) \/ SaveFails
                                    ELSE NoSave
    /\ Return(t)
    /\ UNCHANGED <<copy, runs, agent, aborted, spent, crashes, userVars, lockVars, slotVars>>

-----------------------------------------------------------------------------
(* buildCombinedReview: one read, then saves of its own copy.  It throws if *)
(* the team is not ready, or the changes of a role cannot be read.          *)

MergeRead(t) ==
    /\ run[t].pc = "merge"
    /\ \/ /\ team[t].state = "running" /\ AllCompleted(team[t]) /\ team[t].base
          /\ copy' = [copy EXCEPT ![t] = To(team[t], "merging")]
          /\ Step(t, "save")
          /\ UNCHANGED aborted
       \/ Throw(t) /\ UNCHANGED copy
    /\ NoSave
    /\ UNCHANGED <<runs, agent, ctl, spent, crashes, userVars, lockVars, slotVars>>

MergeSave(t) ==
    /\ run[t].pc = "save"
    /\ \/ Save(t, copy[t]) /\ Step(t, "merging") /\ UNCHANGED <<copy, aborted>>
       \/ /\ SaveFails /\ Throw(t)
          /\ copy' = [copy EXCEPT ![t] = Configured(t)]
    /\ UNCHANGED <<runs, agent, ctl, spent, crashes, userVars, lockVars, slotVars>>

(* Proposals that overlap end in conflict, no proposals in completed; both  *)
(* saves are outside the try block.                                         *)
MergeDecided(t) ==
    /\ run[t].pc = "merging"
    /\ \E state \in {"conflict", "completed"} :
          \/ Save(t, To(copy[t], state)) /\ Return(t) /\ UNCHANGED aborted
          \/ SaveFails /\ Throw(t) /\ UNCHANGED ctl
    /\ copy' = [copy EXCEPT ![t] = Configured(t)]
    /\ UNCHANGED <<runs, agent, spent, crashes, userVars, lockVars, slotVars>>

(* The combined task is created and noted in the record, ...                *)
MergeImport(t) ==
    /\ run[t].pc = "merging"
    /\ Save(t, copy[t]) /\ Step(t, "importing")
    /\ UNCHANGED <<copy, runs, crashes, userVars, lockVars, agentVars, slotVars>>

(* ... filled, and shown for review.  A failure before that pauses the      *)
(* team, a failed save of the review does not: from there the handler may    *)
(* not pause, and throws, as it does when its own save fails.               *)
MergeEnd(t) ==
    /\ \/ /\ \/ run[t].pc = "importing" /\ Save(t, To(copy[t], "review"))
             \/ run[t].pc \in {"merging", "importing"} /\ Save(t, To(copy[t], "paused"))
          /\ Return(t) /\ UNCHANGED aborted
       \/ /\ run[t].pc \in {"merging", "importing"} /\ SaveFails
          /\ Throw(t) /\ UNCHANGED ctl
    /\ copy' = [copy EXCEPT ![t] = Configured(t)]
    /\ UNCHANGED <<runs, agent, spent, crashes, userVars, lockVars, slotVars>>

-----------------------------------------------------------------------------
(* A role at work (runOne).  Every access to the record is a locked one:    *)
(* Take, then one of the saves below from what was seen.                    *)

Take(t, a) ==
    /\ \E op \in {"reserve", "settle", "close", "report"} :
          /\ agent[a].phase = CASE op = "reserve" -> "working"
                                [] op = "settle"  -> "streaming"
                                [] op = "close"   -> "closing"
                                [] op = "report"  -> "reporting"
          /\ op = "reserve" => a \notin aborted
          /\ Lock(t, op, a)
    /\ NoSave
    /\ UNCHANGED <<run, copy, runs, crashes, userVars, agentVars, slotVars>>

Goes(a, phase, end) ==
    agent' = [agent EXCEPT ![a] = [Off EXCEPT !.phase = phase, !.end = end]]

agentRest(t) == /\ Unlock(t)
                /\ UNCHANGED <<run, copy, runs, ctl, aborted, crashes, userVars, slotVars>>

(* Mutant: reserveRequest looks at the budget only.                         *)
MayAsk_Always(r, n) == TRUE

MayAsk(r, n) == r.state = "running" /\ r.node[n] = "running"

(* reserveRequest, and the request itself when it is granted.  Ids are in   *)
(* sequence; what was sent before is a number nobody else had.              *)
ReserveSave(t, a) ==
    /\ Holds(t, "reserve", a)
    /\ IF ~MayAsk(seen[t], a[1])
       THEN NoSave /\ Goes(a, "closing", "error") /\ UNCHANGED spent
       ELSE \E tokens \in Sizes :
          \/ /\ ~HasBudget(seen[t], tokens)
             /\ \E end \in Refusals : Goes(a, "closing", end)
             /\ NoSave /\ UNCHANGED spent
          \/ /\ HasBudget(seen[t], tokens)
             /\ \/ /\ Save(t, Reserve(seen[t], [agent |-> a, tokens |-> tokens,
                                                id |-> spent[t]]))
                   /\ agent' = [agent EXCEPT ![a] = [Off EXCEPT !.phase = "streaming",
                                                              !.request = spent[t]]]
                   /\ spent' = [spent EXCEPT ![t] = @ + tokens]
                \/ SaveFails /\ Goes(a, "closing", "error") /\ UNCHANGED spent
    /\ agentRest(t)

(* The stream is over: settleRequest for the one reservation it made.       *)
SettleSave(t, a) ==
    /\ Holds(t, "settle", a)
    /\ LET mine == {q \in seen[t].reserved :
                       q.agent = a /\ q.id = agent[a].request} IN
       CASE seen[t].state = "removed" -> NoSave /\ Goes(a, "closing", "error")
         [] seen[t].state # "removed" /\ mine = {} -> NoSave /\ Goes(a, "working", "none")
         [] OTHER -> \/ Save(t, Settle(seen[t], mine)) /\ Goes(a, "working", "none")
                     \/ SaveFails /\ Goes(a, "closing", "error")
    /\ UNCHANGED spent
    /\ agentRest(t)

(* The runner returns its handoff or throws; one that was aborted throws.   *)
RunnerEnds(a) ==
    /\ agent[a].phase = "working"
    /\ holder[TeamOf[a[1]]].agent # a
    /\ \/ a \in aborted /\ Goes(a, "closing", "abort")
       \/ a \notin aborted /\ \E end \in {"handoff", "error"} : Goes(a, "closing", end)
    /\ NoSave
    /\ UNCHANGED <<run, copy, runs, ctl, aborted, spent, crashes, userVars,
                   lockVars, slotVars>>

(* The .finally of runOne; then the loop that waited for it goes on, or     *)
(* throws if runOne did.  Whatever controller the task has is taken away.   *)
(* A refused request aborts the whole team first.                           *)
Leaves(t, a, threw) ==
    LET awaited == run[t].pc = "waiting" /\ a[2] = runs[t]
        aborts  == agent[a].end = "refused" \/ (awaited /\ threw)
    IN  /\ agent' = [agent EXCEPT ![a] = Off]
        /\ ctl' = {b \in ctl : b[1] # a[1]}
        /\ aborted' = (IF aborts THEN aborted \cup (ctl \cap AgentsOf(t)) ELSE aborted)
                      \ {a}
        /\ CASE awaited /\ threw ->
                  Release([run EXCEPT ![t] = [Idle EXCEPT !.pc = "caught"]], queue)
             [] awaited /\ ~threw -> Release([run EXCEPT ![t].pc = "loop"], queue)
             [] ~awaited /\ aborts -> Release(Unqueued(t), Others(t, queue))
             [] OTHER -> Release(run, queue)

(* settleOutstanding: everything reserved for the task, by whichever run.   *)
CloseSave(t, a) ==
    /\ Holds(t, "close", a)
    /\ LET left == {q \in seen[t].reserved : q.agent[1] = a[1]} IN
       \/ /\ IF left = {} THEN NoSave ELSE Save(t, Settle(seen[t], left))
          /\ Goes(a, "reporting", agent[a].end)
          /\ UNCHANGED <<run, ctl, aborted, slotVars>>
       \/ /\ left # {} /\ SaveFails
          /\ IF agent[a].end = "handoff"
             THEN Goes(a, "closing", "error") /\ UNCHANGED <<run, ctl, aborted, slotVars>>
             ELSE Leaves(t, a, TRUE)
    /\ Unlock(t)
    /\ UNCHANGED <<copy, runs, spent, crashes, userVars>>

(* The outcome goes into the record if the team and the task still run.     *)
ReportSave(t, a) ==
    /\ Holds(t, "report", a)
    /\ LET n == a[1]
           r == seen[t]
           end == agent[a].end
           open == r.state = "running" /\ r.node[n] = "running"
           change == CASE open /\ end = "handoff" -> CompleteNode(r, n)
                       [] open /\ end = "error" -> FailNode(r, n)
                       [] r.state = "running" /\ end = "refused" -> Pausing(r)
                       [] OTHER -> r
       IN  \/ /\ IF change = r THEN NoSave ELSE Save(t, change)
              /\ Leaves(t, a, FALSE)
           \/ /\ change # r /\ SaveFails
              /\ IF end = "handoff"
                 THEN Goes(a, "closing", "error") /\ UNCHANGED <<run, ctl, aborted, slotVars>>
                 ELSE Leaves(t, a, TRUE)
    /\ Unlock(t)
    /\ UNCHANGED <<copy, runs, spent, crashes, userVars>>

-----------------------------------------------------------------------------
(* The program is closed, and starts again: recoverActive pauses what was   *)
(* active, then finishes reviews that were already applied.                 *)
Restart ==
    /\ failures + crashes < MaxFaults
    /\ crashes' = crashes + 1
    /\ team' = [t \in Teams |->
          IF team[t].state = "review" /\ t \in applied
          THEN [To(team[t], "completed") EXCEPT !.base = FALSE]
          ELSE Recovered(team[t])]
    /\ run' = [t \in Teams |-> Idle]
    /\ copy' = [t \in Teams |-> Configured(t)]
    /\ agent' = [a \in Agents |-> Off]
    /\ ctl' = {} /\ aborted' = {}
    /\ stop' = [t \in Teams |-> "no"]
    /\ applying' = [t \in Teams |-> Configured(t)]
    /\ holder' = [t \in Teams |-> Nobody]
    /\ seen' = [t \in Teams |-> Configured(t)]
    /\ slots' = 0 /\ queue' = <<>>
    /\ UNCHANGED <<applied, runs, spent, failures>>

Init ==
    /\ team = [t \in Teams |-> Configured(t)]
    /\ applied = {}
    /\ run = [t \in Teams |-> Idle]
    /\ copy = [t \in Teams |-> Configured(t)]
    /\ runs = [t \in Teams |-> 0]
    /\ agent = [a \in Agents |-> Off]
    /\ ctl = {} /\ aborted = {}
    /\ stop = [t \in Teams |-> "no"]
    /\ applying = [t \in Teams |-> Configured(t)]
    /\ holder = [t \in Teams |-> Nobody]
    /\ seen = [t \in Teams |-> Configured(t)]
    /\ slots = 0 /\ queue = <<>>
    /\ spent = [t \in Teams |-> 0]
    /\ failures = 0 /\ crashes = 0

User(t) == \/ Confirm(t) \/ CaptureBase(t) \/ Allocate(t) \/ Resume(t)
           \/ Cancel(t) \/ CancelRead(t) \/ CancelSave(t) \/ CancelClean(t)
           \/ CancelReturn(t) \/ Apply(t) \/ CompleteReview(t) \/ RemoveRun(t)

Loop(t) == \/ Turn(t) \/ Scanned(t) \/ StartCheck(t) \/ StartSave(t)
           \/ EndRead(t) \/ EndSave(t) \/ Caught(t)
           \/ MergeRead(t) \/ MergeSave(t) \/ MergeDecided(t)
           \/ MergeImport(t) \/ MergeEnd(t)
           \/ \E n \in Plan(t) : Consider(t, n) \/ NoRoute(t, n)

Role(t, a) == \/ Take(t, a) \/ ReserveSave(t, a) \/ SettleSave(t, a)
              \/ RunnerEnds(a) \/ CloseSave(t, a) \/ ReportSave(t, a)

Next == \/ \E t \in Teams : User(t) \/ Loop(t)
        \/ \E a \in Agents : Role(TeamOf[a[1]], a)
        \/ Restart

Spec == Init /\ [][Next]_vars

(* What was begun goes on: every await of these steps settles, and a runner *)
(* ends.  What the user may do, he need not.                                *)
Pending(t) == \/ CaptureBase(t) \/ Allocate(t) \/ CompleteReview(t)
              \/ CancelRead(t) \/ CancelSave(t) \/ CancelClean(t) \/ CancelReturn(t)

Fairness == /\ \A t \in Teams : WF_vars(Loop(t)) /\ WF_vars(Pending(t))
            /\ \A a \in Agents : WF_vars(Role(TeamOf[a[1]], a))

FairSpec == Spec /\ Fairness

-----------------------------------------------------------------------------
(* Properties *)

(* Every variable keeps to the shapes the code gives it.                    *)
TypeOK ==
    /\ \A t \in Teams :
          /\ team[t] \in Records(t) /\ copy[t] \in Records(t)
          /\ seen[t] \in Records(t) /\ applying[t] \in Records(t)
          /\ run[t].pc \in RunStates
          /\ run[t].todo \subseteq Plan(t) /\ run[t].busy \subseteq Plan(t)
          /\ runs[t] \in 0..MaxRuns
          /\ stop[t] \in {"no", "asked", "saving", "cleaning", "waiting"}
          /\ spent[t] \in Nat
    /\ applied \subseteq Teams
    /\ ctl \subseteq Agents /\ aborted \subseteq Agents
    /\ slots \in 0..SlotLimit
    /\ \A i \in 1..Len(queue) : run[queue[i]].pc = "queued"

(* teamBudget.ts: what the requests really cost never passes the team's     *)
(* limit, and is on disk before the request is sent - through roles that    *)
(* race for the budget, settlements that fail, a second run that settles    *)
(* what the first reserved, and restarts.                                   *)
SpendWithinLimit ==
    \A t \in Teams : Has(t) =>
        /\ spent[t] <= Committed(team[t])
        /\ Committed(team[t]) <= TokenLimit

(* slotPool.ts:4-5: the slots taken are those of the roles at work and of   *)
(* the run about to start one, except for at most one lost per failed save  *)
(* (the exception in the start of a role passes the release).               *)
SlotsAccountedFor ==
    LET inUse == Cardinality(Alive)
                 + Cardinality({t \in Teams : run[t].pc = "starting"})
    IN  inUse <= slots /\ slots <= inUse + failures

(* teamGraph.ts: no task is started, or finished, before those it waits     *)
(* for, and a task is blocked only behind one that failed or is blocked -   *)
(* over pauses, resumes, restarts and saves of older copies.                *)
DependenciesRespected ==
    \A t \in Teams : \A n \in Plan(t) : LET node == team[t].node IN
        /\ node[n] \in {"running", "paused", "completed", "failed"} =>
              \A d \in DependsOn[n] : node[d] = "completed"
        /\ node[n] = "blocked" <=>
              \E d \in DependsOn[n] : node[d] \in {"failed", "blocked"}

(* aiTeamStore.ts:154, teamGraph.ts:86, teamBudget.ts:173: a cancelled team *)
(* stays cancelled, a completed task keeps its handoff, what was spent      *)
(* stays spent - except where the run loop or completeReview saves, without *)
(* the lock, a record it read before the others changed it.                 *)
KeepsWhatHappened(r, s) ==
    /\ r.state = "cancelled" => s.state \in {"cancelled", "removed"}
    /\ s.state # "removed" => /\ r.handoffs \subseteq s.handoffs
                              /\ \A n \in r.handoffs : s.node[n] = "completed"
                              /\ r.used <= s.used

SavesUnlocked(t) ==
    \/ /\ run[t].pc \in {"failing", "pausing", "save", "merging", "importing"}
       /\ run'[t].pc # run[t].pc
    \/ /\ applying[t].state = "review"
       /\ applying'[t].state # "review"

OnlyStaleSavesUndo ==
    [][\A t \in Teams : KeepsWhatHappened(team[t], team'[t]) \/ SavesUnlocked(t)]_vars

(* A cancelled team asks no model for anything any more.                    *)
NothingSentAfterCancel ==
    [][\A t \in Teams : spent'[t] # spent[t] => team[t].state = "running"]_vars

(* slotPool.ts:6-8: a run in the queue gets a slot or leaves the queue,     *)
(* whatever the other runs do with theirs, as long as no save fails.        *)
QueuedIsServed == \A t \in Teams : run[t].pc = "queued" ~> run[t].pc # "queued"
=============================================================================
