----------------------------- MODULE TeamRecord -----------------------------
(***************************************************************************)
(* The durable record of an AI team and the operations on it: the task     *)
(* graph (packages/ai/src/teamGraph.ts), the budget ledger (teamBudget.ts) *)
(* and the life of the record (aiTeamStore.ts).  Each is a function from a *)
(* record to a record; who calls them, and when, is AiTeams.               *)
(*                                                                         *)
(* The ledger has a token limit, a cost limit and limits per agent, kept   *)
(* and checked alike; one of them stands for all.                          *)
(***************************************************************************)
EXTENDS Integers, FiniteSets, Functions

CONSTANTS
    Teams,          \* board runs and teams of this user
    Nodes,          \* tasks of all plans; a task belongs to one team
    TeamOf,         \* the team a task belongs to
    DependsOn,      \* the tasks of its team a task waits for
    MaxRuns,        \* how often one team is started or resumed (a bound)
    Sizes,          \* tokens a request may be estimated at: never none (agent.ts:212)
    TokenLimit      \* budget of a team

ASSUME TeamOfAssumption == TeamOf \in [Nodes -> Teams]
ASSUME DependsOnAssumption ==
    /\ DependsOn \in [Nodes -> SUBSET Nodes]
    /\ \A n \in Nodes : \A d \in DependsOn[n] : TeamOf[d] = TeamOf[n]
ASSUME FiniteAssumption == IsFiniteSet(Teams) /\ IsFiniteSet(Nodes)
ASSUME LimitAssumption == /\ MaxRuns \in Nat
                          /\ Sizes \subseteq Nat \ {0}
                          /\ TokenLimit \in Nat \ {0}

Plan(t) == {n \in Nodes : TeamOf[n] = t}

(* One role at work: a task, and the run of its team that started it.       *)
Agents == Nodes \X (1..MaxRuns)

TeamStates == {"configured", "preparing", "running", "paused", "merging",
               "review", "conflict", "completed", "failed", "cancelled",
               "removed"}

NodeStates == {"pending", "running", "paused", "completed", "failed", "blocked"}

(* What is set aside for one request of a role; the id is given once.       *)
Reservations(t) == [agent : Plan(t) \X (1..MaxRuns), tokens : Sizes, id : Nat]

(* "removed" stands for a record that is no longer on disk.                 *)
Records(t) == [state    : TeamStates,
               node     : [Plan(t) -> NodeStates],
               handoffs : SUBSET Plan(t),
               reserved : SUBSET Reservations(t),
               used     : Nat,
               base     : BOOLEAN]

Configured(t) == [state |-> "configured", node |-> [n \in Plan(t) |-> "pending"],
                  handoffs |-> {}, reserved |-> {}, used |-> 0, base |-> FALSE]

-----------------------------------------------------------------------------
(* teamGraph.ts *)

Ready(r) ==
    {n \in DOMAIN r.node : /\ r.node[n] = "pending"
                           /\ \A d \in DependsOn[n] : r.node[d] = "completed"}

AllCompleted(r) == \A n \in DOMAIN r.node : r.node[n] = "completed"

GraphState(r) ==
    CASE AllCompleted(r) -> "completed"
      [] Ready(r) # {} \/ \E n \in DOMAIN r.node : r.node[n] \in {"running", "paused"}
           -> "active"
      [] OTHER -> "failed"

StartNode(r, n) == [r EXCEPT !.node[n] = "running"]

CompleteNode(r, n) == [r EXCEPT !.node[n] = "completed",
                                !.handoffs = @ \cup {n}]

(* Pending tasks a failure has cut off, however many tasks lie between.     *)
BlockedBy(node) ==
    LET Dead(f)  == {n \in DOMAIN f : f[n] \in {"failed", "blocked"}}
        Once(f)  == [n \in DOMAIN f |->
                       IF f[n] = "pending" /\ DependsOn[n] \cap Dead(f) # {}
                       THEN "blocked" ELSE f[n]]
        after[i \in 0..Cardinality(DOMAIN node)] ==
            IF i = 0 THEN node ELSE Once(after[i - 1])
    IN  after[Cardinality(DOMAIN node)]

(* Mutant: the tasks waiting for the failed one stay pending.               *)
FailNode_NoCascade(r, n) == [r EXCEPT !.node[n] = "failed"]

FailNode(r, n) == [r EXCEPT !.node = BlockedBy([r.node EXCEPT ![n] = "failed"])]

(* Mutant: every task is set back, the finished ones too.                   *)
PauseRunning_Everything(r) ==
    [r EXCEPT !.node = [n \in DOMAIN r.node |->
        IF r.node[n] \in {"running", "completed"} THEN "paused" ELSE r.node[n]]]

PauseRunning(r) ==
    [r EXCEPT !.node = [n \in DOMAIN r.node |->
        IF r.node[n] = "running" THEN "paused" ELSE r.node[n]]]

ResumePaused(r) ==
    [r EXCEPT !.node = [n \in DOMAIN r.node |->
        IF r.node[n] = "paused" THEN "pending" ELSE r.node[n]]]

-----------------------------------------------------------------------------
(* teamBudget.ts *)

Tokens(S) == SumFunctionOnSet([q \in S |-> q.tokens], S)

Outstanding(r) == Tokens(r.reserved)

Committed(r) == r.used + Outstanding(r)

(* Mutant: what other roles have reserved is not counted.                   *)
HasBudget_UsedOnly(r, tokens) == r.used + tokens <= TokenLimit

HasBudget(r, tokens) == Committed(r) + tokens <= TokenLimit

Reserve(r, q) == [r EXCEPT !.reserved = @ \cup {q}]

(* No provider reports its usage, so a reservation is settled in full.      *)
Settle(r, S) == [r EXCEPT !.reserved = @ \ S,
                          !.used = @ + Tokens(S)]

-----------------------------------------------------------------------------
(* aiTeamStore.ts *)

Transitions ==
    [configured |-> {"preparing", "cancelled"},
     preparing  |-> {"running", "paused", "failed", "cancelled"},
     running    |-> {"paused", "merging", "failed", "cancelled"},
     paused     |-> {"preparing", "running", "failed", "cancelled"},
     merging    |-> {"review", "completed", "conflict", "paused", "failed",
                     "cancelled"},
     review     |-> {"completed", "conflict", "cancelled"},
     conflict   |-> {"merging", "review", "cancelled"},
     completed  |-> {},
     failed     |-> {"paused", "cancelled"},
     cancelled  |-> {},
     removed    |-> {}]

May(r, state) == state \in Transitions[r.state]

To(r, state) == [r EXCEPT !.state = state]

Pausing(r) == PauseRunning(To(r, "paused"))

(* What a restart makes of a record: nothing is left running, and what was  *)
(* reserved counts as used.                                                 *)
Recovered(r) ==
    IF r.state \in {"preparing", "running", "merging"}
    THEN Settle(Pausing(r), r.reserved)
    ELSE r

(* aiTeamService.resume: a base to work on, budget left, something to do.   *)
CanResume(r) ==
    /\ r.state = "paused"
    /\ r.base
    /\ Committed(r) < TokenLimit
    /\ GraphState(ResumePaused(r)) = "active"

Resumed(r) == ResumePaused(To(r, "running"))
=============================================================================
